----------------------------- MODULE BusHandles -----------------------------
(***************************************************************************)
(* The handles of one bus (lib/i2c.c, lib/spi.c): of an I2C bus, used by   *)
(* several threads, or of a SPI device, whose settings its handles share.  *)
(* Both are opened and freed by the same code, over the descriptors of the *)
(* process.  A SPI handle in PyHandles is that of a Python object          *)
(* (bindings/python/spi.py), opened in a with block.                       *)
(*                                                                         *)
(* A step is one system call; the stores into the message of an I2C handle *)
(* are steps too.                                                          *)
(***************************************************************************)
EXTENDS Integers

CONSTANTS Handles,     \* places for a struct i2c or spi
          PyHandles,   \* those that Python objects hold
          Descriptors, \* the numbers open returns
          Threads,     \* the threads that transfer on I2C handles
          HandlesOf,   \* the handles each of them uses
          Args,        \* the values each setting is given
          Foreign,     \* what other processes give it
          Asked,       \* what the Python objects ask for
          MaxSpeed,    \* what the kernel lowers a speed to
          None,
          Unknown,     \* of a setting of which a handle's calls told nothing
          Voided,      \* of one that others have set since
          Faults       \* what may fail: "open", "close", "ioctl"

VARIABLES bus,     \* "i2c" or "spi"
          fds,     \* for each descriptor, the handle whose file it is
          struct,  \* of a handle: "none", "live", or "kept" by a failed free
          fd,      \* handle->fd
          retried, \* history: a free was called again after it failed
          setting, \* the settings of the adapter or device
          told,    \* history: what a handle's calls told of each setting,
                   \* until another handle or process sets it
          stage,   \* what the Python object of a handle does next
          msg,     \* handle->messages[0]
          call,    \* the transfer of each thread
          todo,    \* the fields of the message that it has yet to store
          alone    \* history: no other transfer met it on its handle

descriptors == <<fds, struct, fd, retried>>
settings == <<setting, told>>
transfers == <<msg, call, todo, alone>>
vars == <<bus, descriptors, settings, stage, transfers>>

Settings == {"timeout", "mode", "bits", "speed"}
OfBus == IF bus = "i2c" THEN {"timeout"} ELSE Settings \ {"timeout"}

ASSUME PyAssumption == PyHandles \subseteq Handles
ASSUME DescriptorsAssumption == Descriptors \subseteq Nat
ASSUME UsersAssumption == HandlesOf \in [Threads -> SUBSET Handles]
ASSUME NoneAssumption == None \notin Handles \cup Threads
ASSUME SpeedAssumption == MaxSpeed \in Nat
ASSUME ArgsAssumption ==
  /\ Args \in [Settings -> SUBSET Nat]
  /\ Foreign \in [Settings -> SUBSET Nat]
  /\ Asked \in [Settings -> Nat]
  /\ Unknown \notin Nat /\ Voided \notin Nat \cup {Unknown}

Fields == {"flags", "len", "buf"}
Transfers == [handle : Handles, flags : {"write", "read"}, owner : Threads]

(* The objects of spi.py: a step of open for each setting and its check.   *)
Opening == {<<l, s>> : l \in {"set", "get"}, s \in Settings \ {"timeout"}}
Stages == {<<"closed">>, <<"NULL">>, <<"open">>, <<"raised">>} \cup Opening

TypeOK ==
  /\ bus \in {"i2c", "spi"}
  /\ fds \in [Descriptors -> Handles \cup {None}]
  /\ struct \in [Handles -> {"none", "live", "kept"}]
  /\ fd \in [Handles -> Descriptors \cup {-1}]
  /\ retried \in BOOLEAN
  /\ setting \in [Settings -> Nat]
  /\ told \in [Handles -> [Settings -> Nat \cup {Unknown, Voided}]]
  /\ \A h \in Handles : /\ told[h]["mode"] \in 0..3 \cup {Unknown, Voided}
                        /\ told[h]["bits"] \in {8, 16, Unknown, Voided}
  /\ stage \in [Handles -> Stages]
  /\ msg \in [Handles -> [flags : {"write", "read"},
                          len : Threads \cup {None}, buf : Threads \cup {None}]]
  /\ call \in [Threads -> Transfers \cup {None}]
  /\ todo \in [Threads -> SUBSET Fields]
  /\ alone \in [Threads -> BOOLEAN]

-----------------------------------------------------------------------------
(* libsoc_i2c_init, libsoc_spi_init and the two frees.  The definitions    *)
(* named Bug... are faulty versions of the code that the properties below  *)
(* reject; nothing else uses them.                                         *)

FileOf(n) == IF n \in Descriptors THEN fds[n] ELSE None
Busy(h) == \E t \in Threads : call[t] # None /\ call[t].handle = h

(* What open may return: the lowest free descriptor, or -1.                *)
Opened ==
  {n \in Descriptors : fds[n] = None /\ \A m \in Descriptors : m < n => fds[m] # None}
    \cup (IF "open" \in Faults \/ \A n \in Descriptors : fds[n] # None THEN {-1} ELSE {})

BugRefused(n) == FALSE
Refused(n) == n < 0

InitHandle(h, n) ==
  /\ struct[h] = "none"
  /\ n \in Opened
  /\ IF Refused(n)
     THEN UNCHANGED descriptors
     ELSE /\ struct' = [struct EXCEPT ![h] = "live"]
          /\ fd' = [fd EXCEPT ![h] = n]
          /\ fds' = [m \in Descriptors |-> IF m = n THEN h ELSE fds[m]]
          /\ UNCHANGED retried

(* Linux gives a descriptor back even when its close fails.  A free that   *)
(* fails keeps the struct with its fd, and its caller may free it again; a *)
(* Python object forgets it.                                               *)
FreeHandle(h) ==
  /\ struct[h] # "none"
  /\ ~Busy(h)
  /\ retried' = (retried \/ struct[h] = "kept")
  /\ fds' = [m \in Descriptors |-> IF m = fd[h] THEN None ELSE fds[m]]
  /\ \E closed \in {FileOf(fd[h]) # None, FALSE} :
       /\ closed \/ FileOf(fd[h]) = None \/ "close" \in Faults
       /\ struct' = [struct EXCEPT ![h] = IF closed \/ h \in PyHandles THEN "none" ELSE "kept"]
  /\ UNCHANGED fd

Forget(h) == told' = [told EXCEPT ![h] = [s \in Settings |-> Unknown]]

CInit(h) ==
  /\ h \notin PyHandles
  /\ \E n \in Opened : InitHandle(h, n)
  /\ Forget(h)
  /\ UNCHANGED <<bus, setting, stage, transfers>>

CFree(h) ==
  /\ h \notin PyHandles
  /\ FreeHandle(h)
  /\ Forget(h)
  /\ UNCHANGED <<bus, setting, stage, transfers>>

-----------------------------------------------------------------------------
(* libsoc_i2c_write and libsoc_i2c_read                                    *)

(* The fields a transfer stores.  The compiler may order the stores; addr  *)
(* is the handle's own, and the length and the place of a buffer are those *)
(* of its thread's.                                                        *)
BugStored(c) == IF c.flags = "write" THEN Fields \ {"flags"} ELSE Fields
Stored(c) == Fields

BeginTransfer(t, c) ==
  /\ bus = "i2c"
  /\ call[t] = None
  /\ c.handle \in HandlesOf[t] /\ c.owner = t
  /\ struct[c.handle] = "live"
  /\ call' = [call EXCEPT ![t] = c]
  /\ todo' = [todo EXCEPT ![t] = Stored(c)]
  /\ alone' = [u \in Threads |->
                IF u = t THEN ~Busy(c.handle)
                ELSE alone[u] /\ (call[u] = None \/ call[u].handle # c.handle)]
  /\ UNCHANGED <<bus, descriptors, settings, stage, msg>>

Store(t, f) ==
  /\ call[t] # None
  /\ f \in todo[t]
  /\ LET h == call[t].handle IN
     msg' = [msg EXCEPT ![h] = CASE f = "flags" -> [@ EXCEPT !.flags = call[t].flags]
                                 [] f = "len" -> [@ EXCEPT !.len = t]
                                 [] f = "buf" -> [@ EXCEPT !.buf = t]]
  /\ todo' = [todo EXCEPT ![t] = @ \ {f}]
  /\ UNCHANGED <<bus, descriptors, settings, stage, call, alone>>

(* The kernel takes the message as it is; whether it fails, the call ends. *)
Transfer(t) ==
  /\ call[t] # None
  /\ todo[t] = {}
  /\ call' = [call EXCEPT ![t] = None]
  /\ alone' = [alone EXCEPT ![t] = TRUE]
  /\ UNCHANGED <<bus, descriptors, settings, stage, msg, todo>>

-----------------------------------------------------------------------------
(* libsoc_i2c_set_timeout and the setters and getters of lib/spi.c         *)

MODE_ERROR == 4
BPW_ERROR == 17
BugKnown(s, v) == TRUE
Known(s, v) ==
  /\ s = "mode" => v \in 0..3
  /\ s = "bits" => v \in {8, 16}

(* What the kernel makes of a value. *)
Taken(s, v) == IF s = "speed" /\ v > MaxSpeed THEN MaxSpeed ELSE v

(* The value that a setter passes to the kernel: set_mode has a switch;    *)
(* set_bits_per_word points to an enumeration of which the kernel reads    *)
(* one byte, the value on a little-endian machine.                         *)
BugPassed(s, v) == IF s = "mode" /\ v = 1 THEN 0 ELSE v
Passed(s, v) == v

(* A setting of the device becomes v: what the others were told is void.   *)
Becomes(s, v) == setting' = [setting EXCEPT ![s] = v]
Void(g) == IF struct[g] = "live" THEN Voided ELSE Unknown
Tell(h, s, v) ==
  told' = [g \in Handles |-> [told[g] EXCEPT ![s] = IF g = h THEN v ELSE Void(g)]]

IoctlFails(h) == "ioctl" \in Faults \/ FileOf(fd[h]) = None

(* A setter that succeeds tells what it set; but the kernel may lower a    *)
(* speed, which the header says to get and check.                          *)
Set(h, s, v) ==
  /\ struct[h] = "live"
  /\ s \in OfBus
  /\ \/ /\ ~Known(s, v) \/ IoctlFails(h)
        /\ UNCHANGED settings
     \/ /\ Known(s, v) /\ FileOf(fd[h]) # None
        /\ Becomes(s, Taken(s, Passed(s, v)))
        /\ Tell(h, s, IF s = "speed" THEN Unknown ELSE v)

(* What a getter returns: an error if the ioctl failed or the value is     *)
(* none of the library's, which leaves the caller as wise as before.       *)
Got(h, s) ==
  (IF Known(s, setting[s]) /\ FileOf(fd[h]) # None THEN {setting[s]} ELSE {Unknown})
    \cup (IF IoctlFails(h) THEN {Unknown} ELSE {})

Learn(h, s, r) ==
  told' = IF r = Unknown THEN told ELSE [told EXCEPT ![h][s] = r]

CSet(h, s, v) ==
  /\ h \in PyHandles => stage[h] = <<"open">> /\ s = "timeout"
  /\ Set(h, s, v)
  /\ UNCHANGED <<bus, descriptors, stage, transfers>>

CGet(h, s) ==
  /\ h \notin PyHandles
  /\ struct[h] = "live"
  /\ s \in OfBus \ {"timeout"}
  /\ \E r \in Got(h, s) : Learn(h, s, r)
  /\ UNCHANGED <<bus, descriptors, setting, stage, transfers>>

OtherProcess(s, v) ==
  /\ s \in OfBus
  /\ Becomes(s, v)
  /\ told' = [h \in Handles |-> [told[h] EXCEPT ![s] = Void(h)]]
  /\ UNCHANGED <<bus, descriptors, stage, transfers>>

-----------------------------------------------------------------------------
(* bindings/python/i2c.py and spi.py: open and close of the objects.       *)

GoTo(h, l) == stage' = [stage EXCEPT ![h] = l]

(* open asserts that the object holds no handle; one that failed leaves 0. *)
PyOpen(h) ==
  /\ stage[h] = <<"closed">>
  /\ \E n \in Opened :
       /\ InitHandle(h, n)
       /\ GoTo(h, IF Refused(n) THEN <<"NULL">>
                  ELSE IF bus = "i2c" THEN <<"open">> ELSE <<"set", "mode">>)
  /\ Forget(h)
  /\ UNCHANGED <<bus, setting, transfers>>

(* The result of a setter is ignored, and the setting read back. *)
PySet(h, s) ==
  /\ stage[h] = <<"set", s>>
  /\ Set(h, s, Asked[s])
  /\ GoTo(h, <<"get", s>>)
  /\ UNCHANGED <<bus, descriptors, transfers>>

BugAccepts(s, r) == r # Unknown
Accepts(s, r) == r = Asked[s]

After(s) == CASE s = "mode" -> <<"set", "speed">>
              [] s = "speed" -> <<"set", "bits">>
              [] s = "bits" -> <<"open">>

PyGet(h, s) ==
  /\ stage[h] = <<"get", s>>
  /\ \E r \in Got(h, s) :
       /\ Learn(h, s, r)
       /\ GoTo(h, IF Accepts(s, r) THEN After(s) ELSE <<"raised">>)
  /\ UNCHANGED <<bus, descriptors, setting, transfers>>

(* The end of the with block; or, where open raised in it, an explicit     *)
(* call.                                                                   *)
PyClose(h) ==
  /\ stage[h] \in {<<"open">>, <<"raised">>}
  /\ FreeHandle(h)
  /\ Forget(h)
  /\ GoTo(h, <<"closed">>)
  /\ UNCHANGED <<bus, setting, transfers>>

-----------------------------------------------------------------------------
Init ==
  /\ bus \in {"i2c", "spi"}
  /\ fds = [n \in Descriptors |-> None]
  /\ struct = [h \in Handles |-> "none"]
  /\ fd = [h \in Handles |-> -1]
  /\ retried = FALSE
  /\ setting \in [Settings -> UNION {Foreign[s] : s \in Settings}]
  /\ \A s \in Settings : setting[s] \in Foreign[s]
  /\ told = [h \in Handles |-> [s \in Settings |-> Unknown]]
  /\ stage = [h \in Handles |-> <<"closed">>]
  /\ msg = [h \in Handles |-> [flags |-> "write", len |-> None, buf |-> None]]
  /\ call = [t \in Threads |-> None]
  /\ todo = [t \in Threads |-> {}]
  /\ alone = [t \in Threads |-> TRUE]

Handle(h) ==
  \/ CInit(h) \/ CFree(h)
  \/ \E s \in Settings : CGet(h, s) \/ \E v \in Args[s] : CSet(h, s, v)

Python(h) ==
  \/ PyOpen(h) \/ PyClose(h)
  \/ \E s \in Settings : PySet(h, s) \/ PyGet(h, s)

Thread(t) ==
  \/ \E c \in Transfers : BeginTransfer(t, c)
  \/ \E f \in Fields : Store(t, f)
  \/ Transfer(t)

Next ==
  \/ \E h \in Handles : Handle(h)
  \/ \E h \in PyHandles : Python(h)
  \/ \E t \in Threads : Thread(t)
  \/ \E s \in Settings : \E v \in Foreign[s] : OtherProcess(s, v)

Spec == Init /\ [][Next]_vars

-----------------------------------------------------------------------------
(* Descriptors (i2c.c:75-106, spi.c:77-92, 379-384): as long as no caller  *)
(* frees a handle again whose free failed, every live handle reaches the   *)
(* file that was opened for it, whatever fails.                            *)
OwnFile ==
  ~retried => \A h \in Handles : struct[h] = "live" => FileOf(fd[h]) = h

(* I2C (i2c.c:153-177): the message that a transfer gives to the kernel is *)
(* that of its own call in all its fields, unless another thread was in a  *)
(* transfer on the same handle at the same time; none is left from an      *)
(* earlier call.                                                           *)
MessageIsOwn ==
  \A t \in Threads :
    call[t] # None /\ todo[t] = {} /\ alone[t] =>
      msg[call[t].handle] = [flags |-> call[t].flags, len |-> t, buf |-> t]

(* Settings (i2c.c:127-140, spi.c:94-257): what the setters and getters of *)
(* a handle told is what the device is set to, until another handle or     *)
(* process sets it; failing calls change nothing.                          *)
ToldIsTrue ==
  \A h \in Handles, s \in OfBus :
    struct[h] = "live" => told[h][s] \in {Unknown, Voided, setting[s]}

(* SPI.open (spi.py:39-51): when it returns, though it ignores what the    *)
(* setters return, the device has the mode, speed and word size of the     *)
(* object but for those that others have set after the object's last call  *)
(* about them.                                                             *)
OpenedAsAsked ==
  \A h \in PyHandles : bus = "spi" /\ stage[h] = <<"open">> =>
    \A s \in OfBus : told[h][s] = Voided \/ setting[s] = Asked[s]
=============================================================================
