-------------------------- MODULE BusHandlesProofs --------------------------
(***************************************************************************)
(* Proofs about BusHandles for any handles, descriptors, threads, values   *)
(* and Faults.                                                             *)
(***************************************************************************)
EXTENDS BusHandles, TLAPS

(* Opening and freeing a handle keep the types of the descriptors.         *)
LEMMA DescriptorTypes ==
  ASSUME TypeOK, NEW h \in Handles,
         (\E n \in Opened : InitHandle(h, n)) \/ FreeHandle(h)
  PROVE  /\ fds' \in [Descriptors -> Handles \cup {None}]
         /\ struct' \in [Handles -> {"none", "live", "kept"}]
         /\ fd' \in [Handles -> Descriptors \cup {-1}]
         /\ retried' \in BOOLEAN
<1>1. CASE \E n \in Opened : InitHandle(h, n)
  <2>1. PICK n \in Opened : InitHandle(h, n)
    BY <1>1
  <2>2. n \in Descriptors \cup {-1}
    BY DEF Opened
  <2> QED
    BY <2>1, <2>2 DEF InitHandle, TypeOK, descriptors
<1>2. CASE FreeHandle(h)
  BY <1>2 DEF FreeHandle, TypeOK
<1> QED
  BY <1>1, <1>2

(* What the calls tell of the settings are numbers that they know.         *)
ToldType(tt) ==
  /\ tt \in [Handles -> [Settings -> Nat \cup {Unknown, Voided}]]
  /\ \A h \in Handles : /\ tt[h]["mode"] \in 0..3 \cup {Unknown, Voided}
                        /\ tt[h]["bits"] \in {8, 16, Unknown, Voided}

LEMMA ToldTypes ==
  ASSUME TypeOK, NEW h \in Handles
  PROVE  /\ Forget(h) => ToldType(told')
         /\ \A s \in Settings, r \in Nat \cup {Unknown} :
              Learn(h, s, r) /\ (r # Unknown => Known(s, r)) => ToldType(told')
         /\ \A s \in Settings, v \in Nat : Set(h, s, v) => ToldType(told')
<1>1. ToldType(told)
  BY DEF TypeOK, ToldType
<1>2. Forget(h) => ToldType(told')
  BY <1>1 DEF Forget, ToldType, Settings
<1>3. ASSUME NEW s \in Settings, NEW r \in Nat \cup {Unknown}, Learn(h, s, r),
             r # Unknown => Known(s, r)
      PROVE  ToldType(told')
  BY <1>1, <1>3 DEF Learn, ToldType, Known, Settings
<1>4. ASSUME NEW s \in Settings, NEW v \in Nat, Set(h, s, v)
      PROVE  ToldType(told')
  <2>1. CASE UNCHANGED settings
    BY <1>1, <2>1 DEF settings, ToldType
  <2>2. CASE Known(s, v) /\ Tell(h, s, IF s = "speed" THEN Unknown ELSE v)
    BY <1>1, <2>2 DEF Tell, Void, ToldType, Known, Settings
  <2> QED
    BY <1>4, <2>1, <2>2 DEF Set
<1> QED
  BY <1>2, <1>3, <1>4

(* A setter keeps the types of the settings.                               *)
LEMMA SettingTypes ==
  ASSUME TypeOK, NEW h \in Handles, NEW s \in Settings, NEW v \in Nat, Set(h, s, v)
  PROVE  setting' \in [Settings -> Nat]
<1>1. Taken(s, Passed(s, v)) \in Nat
  BY SpeedAssumption DEF Taken, Passed
<1> QED
  BY <1>1 DEF Set, Becomes, TypeOK, settings

(* What a getter returns are numbers that it knows.                        *)
LEMMA GotTypes ==
  ASSUME TypeOK, NEW h \in Handles, NEW s \in Settings, NEW r \in Got(h, s)
  PROVE  r \in Nat \cup {Unknown} /\ (r # Unknown => Known(s, r) /\ r = setting[s])
BY DEF Got, TypeOK

LEMMA StageTypes ==
  /\ Stages = {<<"closed">>, <<"NULL">>, <<"open">>, <<"raised">>} \cup Opening
  /\ \A s \in Settings : <<"set", s>> \in Stages => <<"get", s>> \in Stages
  /\ \A s \in Settings : <<"get", s>> \in Stages => After(s) \in Stages
  /\ <<"set", "mode">> \in Stages
<1>1. \A s \in Settings, l \in {"set", "get"} : <<l, s>> \in Stages <=> s # "timeout"
  BY DEF Stages, Opening, Settings
<1>2. \A s \in Settings \ {"timeout"} : After(s) \in Stages
  BY <1>1 DEF After, Settings, Stages
<1> QED
  BY <1>1, <1>2 DEF Stages, Settings

(* The part of TypeOK that is about transfers.                             *)
TransferType ==
  /\ msg \in [Handles -> [flags : {"write", "read"},
                          len : Threads \cup {None}, buf : Threads \cup {None}]]
  /\ call \in [Threads -> Transfers \cup {None}]
  /\ todo \in [Threads -> SUBSET Fields]
  /\ alone \in [Threads -> BOOLEAN]

LEMMA TransferTypes ==
  ASSUME TransferType, NEW t \in Threads, Thread(t)
  PROVE  TransferType'
<1> USE DEF TransferType
<1>1. ASSUME NEW c \in Transfers, BeginTransfer(t, c) PROVE TransferType'
  BY <1>1 DEF BeginTransfer, Stored, Busy
<1>2. ASSUME NEW f \in Fields, Store(t, f) PROVE TransferType'
  <2>1. call[t] \in Transfers
    BY <1>2 DEF Store
  <2> DEFINE h == call[t].handle
  <2>2. h \in Handles /\ call[t].flags \in {"write", "read"}
    BY <2>1 DEF Transfers
  <2>3. msg' = [msg EXCEPT ![h] = [msg[h] EXCEPT !.flags = call[t].flags]]
        \/ msg' = [msg EXCEPT ![h] = [msg[h] EXCEPT !.len = t]]
        \/ msg' = [msg EXCEPT ![h] = [msg[h] EXCEPT !.buf = t]]
    BY <1>2 DEF Store, Fields
  <2>4. msg' \in [Handles -> [flags : {"write", "read"},
                              len : Threads \cup {None}, buf : Threads \cup {None}]]
    BY <2>2, <2>3
  <2> QED
    BY <1>2, <2>4 DEF Store
<1>3. CASE Transfer(t)
  BY <1>3 DEF Transfer
<1> QED
  BY <1>1, <1>2, <1>3 DEF Thread

LEMMA TypeStep ==
  ASSUME TypeOK, [Next]_vars
  PROVE  TypeOK'
<1> USE DEF TypeOK
<1>1. ASSUME NEW h \in Handles, CInit(h) \/ CFree(h) PROVE TypeOK'
  <2>1. ToldType(told')
    BY <1>1, ToldTypes DEF CInit, CFree
  <2>2. CASE CInit(h)
    BY <2>1, <2>2, DescriptorTypes DEF CInit, transfers, ToldType
  <2>3. CASE CFree(h)
    BY <2>1, <2>3, DescriptorTypes DEF CFree, transfers, ToldType
  <2> QED
    BY <1>1, <2>2, <2>3
<1>2. ASSUME NEW h \in Handles, NEW s \in Settings, CGet(h, s) PROVE TypeOK'
  <2>1. PICK r \in Got(h, s) : Learn(h, s, r)
    BY <1>2 DEF CGet
  <2>2. r \in Nat \cup {Unknown} /\ (r # Unknown => Known(s, r))
    BY <2>1, GotTypes
  <2>3. ToldType(told')
    BY <2>1, <2>2, ToldTypes
  <2> QED
    BY <1>2, <2>3 DEF CGet, descriptors, transfers, ToldType
<1>3. ASSUME NEW h \in Handles, NEW s \in Settings, NEW v \in Args[s], CSet(h, s, v)
      PROVE  TypeOK'
  <2>1. v \in Nat
    BY ArgsAssumption
  <2>2. ToldType(told') /\ setting' \in [Settings -> Nat]
    BY <1>3, <2>1, ToldTypes, SettingTypes DEF CSet
  <2> QED
    BY <1>3, <2>2 DEF CSet, descriptors, transfers, ToldType
<1>4. ASSUME NEW h \in PyHandles, PyOpen(h) PROVE TypeOK'
  <2>1. h \in Handles
    BY PyAssumption
  <2>2. ToldType(told')
    BY <1>4, <2>1, ToldTypes DEF PyOpen
  <2>3. \E n \in Opened : InitHandle(h, n)
    BY <1>4 DEF PyOpen
  <2>4. stage' \in [Handles -> Stages]
    BY <1>4, StageTypes DEF PyOpen, GoTo
  <2> HIDE DEF Stages
  <2> QED
    BY <1>4, <2>1, <2>2, <2>3, <2>4, DescriptorTypes DEF PyOpen, transfers, ToldType
<1>5. ASSUME NEW h \in PyHandles, PyClose(h) PROVE TypeOK'
  <2>1. h \in Handles
    BY PyAssumption
  <2>2. ToldType(told')
    BY <1>5, <2>1, ToldTypes DEF PyClose
  <2>3. stage' \in [Handles -> Stages]
    BY <1>5, StageTypes DEF PyClose, GoTo
  <2> QED
    BY <1>5, <2>1, <2>2, <2>3, DescriptorTypes DEF PyClose, transfers, ToldType
<1>6. ASSUME NEW h \in PyHandles, NEW s \in Settings, PySet(h, s) PROVE TypeOK'
  <2>1. h \in Handles /\ Asked[s] \in Nat
    BY PyAssumption, ArgsAssumption
  <2>2. ToldType(told') /\ setting' \in [Settings -> Nat]
    BY <1>6, <2>1, ToldTypes, SettingTypes DEF PySet
  <2>3. stage' \in [Handles -> Stages]
    BY <1>6, <2>1, StageTypes DEF PySet, GoTo
  <2> QED
    BY <1>6, <2>2, <2>3 DEF PySet, descriptors, transfers, ToldType
<1>7. ASSUME NEW h \in PyHandles, NEW s \in Settings, PyGet(h, s) PROVE TypeOK'
  <2>1. h \in Handles
    BY PyAssumption
  <2>2. PICK r \in Got(h, s) :
          /\ Learn(h, s, r)
          /\ GoTo(h, IF Accepts(s, r) THEN After(s) ELSE <<"raised">>)
    BY <1>7 DEF PyGet
  <2>3. r \in Nat \cup {Unknown} /\ (r # Unknown => Known(s, r))
    BY <2>1, <2>2, GotTypes
  <2>4. ToldType(told')
    BY <2>1, <2>2, <2>3, ToldTypes
  <2>5. stage[h] = <<"get", s>> /\ stage[h] \in Stages
    BY <1>7, <2>1 DEF PyGet
  <2>6. After(s) \in Stages /\ <<"raised">> \in Stages
    BY <2>5, StageTypes
  <2>7. stage' \in [Handles -> Stages]
    BY <2>2, <2>6 DEF GoTo
  <2> QED
    BY <1>7, <2>4, <2>7 DEF PyGet, descriptors, transfers, ToldType
<1>8. ASSUME NEW t \in Threads, Thread(t) PROVE TypeOK'
  <2>1. TransferType'
    BY <1>8, TransferTypes DEF TransferType
  <2>2. UNCHANGED <<bus, descriptors, settings, stage>>
    BY <1>8 DEF Thread, BeginTransfer, Store, Transfer
  <2> QED
    BY <2>1, <2>2 DEF TransferType, descriptors, settings
<1>9. ASSUME NEW s \in Settings, NEW v \in Foreign[s], OtherProcess(s, v) PROVE TypeOK'
  <2>1. v \in Nat
    BY ArgsAssumption
  <2>2. setting' \in [Settings -> Nat] /\ ToldType(told')
    BY <1>9, <2>1 DEF OtherProcess, Becomes, Void, ToldType, Settings, TypeOK
  <2> QED
    BY <1>9, <2>2 DEF OtherProcess, descriptors, transfers, ToldType
<1>10. CASE UNCHANGED vars
  BY <1>10 DEF vars, descriptors, settings, transfers
<1> QED
  BY <1>1, <1>2, <1>3, <1>4, <1>5, <1>6, <1>7, <1>8, <1>9, <1>10
  DEF Next, Handle, Python

(* Type correctness, for every bus, program and fault.                     *)
THEOREM TypeCorrect == Spec => []TypeOK
<1>1. Init => TypeOK
  <2> SUFFICES ASSUME Init PROVE TypeOK
    OBVIOUS
  <2>1. setting \in [Settings -> Nat]
    BY ArgsAssumption DEF Init
  <2>2. <<"closed">> \in Stages
    BY StageTypes
  <2> HIDE DEF Stages
  <2> QED
    BY <2>1, <2>2 DEF Init, TypeOK, Settings
<1>2. TypeOK /\ [Next]_vars => TypeOK'
  BY TypeStep
<1> QED
  BY <1>1, <1>2, PTL DEF Spec

-----------------------------------------------------------------------------
(* A step that neither opens nor frees a handle leaves the descriptors.    *)
LEMMA DescriptorsChange ==
  ASSUME [Next]_vars
  PROVE  \/ \E h \in Handles : (\E n \in Opened : InitHandle(h, n)) \/ FreeHandle(h)
         \/ UNCHANGED descriptors
<1>1. ASSUME NEW h \in PyHandles, PyOpen(h) \/ PyClose(h)
      PROVE  h \in Handles /\ ((\E n \in Opened : InitHandle(h, n)) \/ FreeHandle(h))
  BY <1>1, PyAssumption DEF PyOpen, PyClose
<1>2. ASSUME NEW h \in Handles, CInit(h) \/ CFree(h)
      PROVE  (\E n \in Opened : InitHandle(h, n)) \/ FreeHandle(h)
  BY <1>2 DEF CInit, CFree
<1>3. ASSUME NEW t \in Threads, Thread(t) PROVE UNCHANGED descriptors
  BY <1>3 DEF Thread, BeginTransfer, Store, Transfer
<1>4. CASE UNCHANGED vars
  BY <1>4 DEF vars
<1> QED
  BY <1>1, <1>2, <1>3, <1>4
  DEF Next, Handle, Python, CGet, CSet, PySet, PyGet, OtherProcess

LEMMA OwnFileStep ==
  ASSUME TypeOK, OwnFile, [Next]_vars
  PROVE  OwnFile'
<1> USE NoneAssumption DEF TypeOK, OwnFile, FileOf
<1>1. ASSUME NEW h \in Handles, NEW n \in Opened, InitHandle(h, n) PROVE OwnFile'
  <2>1. CASE Refused(n)
    BY <1>1, <2>1 DEF InitHandle, descriptors
  <2>2. CASE ~Refused(n)
    <3>1. n \in Descriptors /\ fds[n] = None
      BY <2>2 DEF Refused, Opened
    <3> QED
      BY <1>1, <2>2, <3>1 DEF InitHandle
  <2> QED
    BY <2>1, <2>2
<1>2. ASSUME NEW h \in Handles, FreeHandle(h) PROVE OwnFile'
  <2> SUFFICES ASSUME ~retried', NEW g \in Handles, struct'[g] = "live"
               PROVE  fd'[g] \in Descriptors /\ fds'[fd'[g]] = g
    OBVIOUS
  <2>1. ~retried /\ struct[h] = "live"
    BY <1>2 DEF FreeHandle
  <2>2. fd[h] \in Descriptors /\ fds[fd[h]] = h
    BY <2>1
  <2>3. g # h /\ struct[g] = "live"
    BY <1>2 DEF FreeHandle
  <2>4. fd[g] \in Descriptors /\ fds[fd[g]] = g
    BY <2>1, <2>3
  <2> QED
    BY <1>2, <2>2, <2>3, <2>4 DEF FreeHandle
<1>3. CASE UNCHANGED descriptors
  BY <1>3 DEF descriptors
<1> QED
  BY <1>1, <1>2, <1>3, DescriptorsChange

(* As long as no failed free is repeated, every live handle reaches its    *)
(* own file.                                                               *)
THEOREM HandlesReachTheirFiles == Spec => []OwnFile
<1>1. Init => OwnFile
  BY DEF Init, OwnFile
<1>2. TypeOK /\ OwnFile /\ [Next]_vars => OwnFile'
  BY OwnFileStep
<1> QED
  BY <1>1, <1>2, TypeCorrect, PTL DEF Spec

(* No descriptor is lost (i2c.c:46-113, spi.c:48-92, 376-392): every file  *)
(* that is open is that of a live handle, which holds its number, though   *)
(* any init or free fails, and even when a failed free is called again and *)
(* closes the file of another handle.                                      *)
EveryFileHasHandle ==
  \A n \in Descriptors : fds[n] # None => struct[fds[n]] = "live" /\ fd[fds[n]] = n

THEOREM NoFileIsLost == Spec => []EveryFileHasHandle
<1>1. Init => EveryFileHasHandle
  BY DEF Init, EveryFileHasHandle
<1>2. ASSUME TypeOK, EveryFileHasHandle, [Next]_vars PROVE EveryFileHasHandle'
  <2> SUFFICES ASSUME NEW n \in Descriptors, fds'[n] # None
               PROVE  struct'[fds'[n]] = "live" /\ fd'[fds'[n]] = n
    BY DEF EveryFileHasHandle
  <2> USE <1>2, NoneAssumption DEF TypeOK, EveryFileHasHandle
  <2>1. ASSUME NEW h \in Handles, NEW m \in Opened, InitHandle(h, m)
        PROVE  struct'[fds'[n]] = "live" /\ fd'[fds'[n]] = n
    <3>1. fds[n] \in Handles => fds[n] # h
      BY <2>1 DEF InitHandle
    <3> QED
      BY <2>1, <3>1 DEF InitHandle, descriptors
  <2>2. ASSUME NEW h \in Handles, FreeHandle(h)
        PROVE  struct'[fds'[n]] = "live" /\ fd'[fds'[n]] = n
    <3>1. fds'[n] = fds[n] /\ n # fd[h]
      BY <2>2 DEF FreeHandle
    <3>2. fds[n] \in Handles \ {h}
      BY <3>1
    <3> QED
      BY <2>2, <3>1, <3>2 DEF FreeHandle
  <2>3. CASE UNCHANGED descriptors
    BY <2>3 DEF descriptors
  <2> QED
    BY <2>1, <2>2, <2>3, DescriptorsChange
<1> QED
  BY <1>1, <1>2, TypeCorrect, PTL DEF Spec

-----------------------------------------------------------------------------
(* What makes MessageIsOwn inductive: a field that an undisturbed transfer *)
(* has stored is its own, and two transfers on a handle are both disturbed.*)
Stores(t, f) ==
  f \notin todo[t] =>
    LET m == msg[call[t].handle] IN
    CASE f = "flags" -> m.flags = call[t].flags
      [] f = "len" -> m.len = t
      [] f = "buf" -> m.buf = t

MessageInv ==
  \A t \in Threads : call[t] # None /\ alone[t] =>
    /\ \A f \in Fields : Stores(t, f)
    /\ \A u \in Threads \ {t} : call[u] # None => call[u].handle # call[t].handle

LEMMA MessageStep ==
  ASSUME TypeOK, MessageInv, [Next]_vars
  PROVE  MessageInv'
<1>1. ASSUME NEW t \in Threads, NEW c \in Transfers, BeginTransfer(t, c)
      PROVE  MessageInv'
  <2> SUFFICES ASSUME NEW u \in Threads, call'[u] # None, alone'[u]
               PROVE  /\ \A f \in Fields : Stores(u, f)'
                      /\ \A w \in Threads \ {u} :
                           call'[w] # None => call'[w].handle # call'[u].handle
    BY DEF MessageInv
  <2>1. CASE u = t
    <3>1. call'[t] = c /\ todo'[t] = Fields /\ ~Busy(c.handle)
      BY <1>1, <2>1 DEF BeginTransfer, TypeOK, Stored
    <3>2. \A w \in Threads \ {t} : call'[w] # None => call'[w].handle # c.handle
      BY <1>1, <3>1 DEF BeginTransfer, TypeOK, Busy
    <3> QED
      BY <2>1, <3>1, <3>2 DEF Stores
  <2>2. CASE u # t
    <3>1. call'[u] = call[u] /\ todo'[u] = todo[u] /\ msg' = msg
      BY <1>1, <2>2 DEF BeginTransfer, TypeOK
    <3>2. alone[u] /\ call[u].handle # c.handle
      BY <1>1, <2>2, <3>1 DEF BeginTransfer, TypeOK
    <3>3. call'[t] = c /\ \A w \in Threads \ {t} : call'[w] = call[w]
      BY <1>1 DEF BeginTransfer, TypeOK
    <3>4. \A f \in Fields : Stores(u, f)
      BY <3>1, <3>2, <2>2 DEF MessageInv
    <3>5. \A f \in Fields : Stores(u, f)'
      BY <3>1, <3>4 DEF Stores
    <3>6. \A w \in Threads \ {u} : call[w] # None => call[w].handle # call[u].handle
      BY <3>1, <3>2 DEF MessageInv
    <3> QED
      BY <3>1, <3>2, <3>3, <3>5, <3>6
  <2> QED
    BY <2>1, <2>2
<1>2. ASSUME NEW t \in Threads, NEW g \in Fields, Store(t, g)
      PROVE  MessageInv'
  <2> DEFINE h == call[t].handle
  <2>1. call[t] \in Transfers /\ h \in Handles
    BY <1>2 DEF Store, TypeOK, Transfers
  <2>2. UNCHANGED <<call, alone>>
    BY <1>2 DEF Store
  <2> SUFFICES ASSUME NEW u \in Threads, call[u] # None, alone[u], NEW f \in Fields
               PROVE  Stores(u, f)'
    BY <2>2 DEF MessageInv
  <2>3. call[u] \in Transfers /\ call[u].handle \in Handles
    BY DEF TypeOK, Transfers
  <2>4. msg'[h] = CASE g = "flags" -> [msg[h] EXCEPT !.flags = call[t].flags]
                    [] g = "len" -> [msg[h] EXCEPT !.len = t]
                    [] g = "buf" -> [msg[h] EXCEPT !.buf = t]
    BY <1>2, <2>1 DEF Store, TypeOK
  <2>5. CASE u = t
    <3>1. todo'[t] = todo[t] \ {g}
      BY <1>2 DEF Store, TypeOK
    <3>2. msg[h] \in [flags : {"write", "read"},
                      len : Threads \cup {None}, buf : Threads \cup {None}]
      BY <2>1 DEF TypeOK
    <3>3. CASE f = g
      <4>1. CASE g = "flags"
        BY <2>2, <2>4, <2>5, <3>2, <3>3, <4>1 DEF Stores
      <4>2. CASE g = "len"
        BY <2>2, <2>4, <2>5, <3>2, <3>3, <4>2 DEF Stores
      <4>3. CASE g = "buf"
        BY <2>2, <2>4, <2>5, <3>2, <3>3, <4>3 DEF Stores
      <4> QED
        BY <4>1, <4>2, <4>3 DEF Fields
    <3>4. CASE f # g
      <4>1. f \in todo'[t] \/ Stores(t, f)
        BY <2>5, <3>1, <3>4 DEF MessageInv
      <4> QED
        BY <2>2, <2>4, <2>5, <3>1, <3>2, <3>4, <4>1 DEF Stores, Fields
    <3> QED
      BY <3>3, <3>4
  <2>6. CASE u # t
    <3>1. call[u].handle # h
      BY <1>2, <2>6 DEF MessageInv, Store
    <3>2. msg'[call[u].handle] = msg[call[u].handle] /\ todo'[u] = todo[u]
      BY <1>2, <2>3, <2>6, <3>1 DEF Store, TypeOK
    <3> QED
      BY <2>2, <3>2 DEF MessageInv, Stores
  <2> QED
    BY <2>5, <2>6
<1>3. ASSUME NEW t \in Threads, Transfer(t) PROVE MessageInv'
  <2>1. /\ call'[t] = None
        /\ \A u \in Threads \ {t} : call'[u] = call[u] /\ alone'[u] = alone[u]
    BY <1>3 DEF Transfer, TypeOK
  <2>2. UNCHANGED <<msg, todo>>
    BY <1>3 DEF Transfer
  <2> SUFFICES ASSUME NEW u \in Threads, call'[u] # None, alone'[u]
               PROVE  /\ \A f \in Fields : Stores(u, f)'
                      /\ \A w \in Threads \ {u} :
                           call'[w] # None => call'[w].handle # call'[u].handle
    BY DEF MessageInv
  <2>3. u # t /\ call[u] # None /\ alone[u]
    BY <2>1
  <2>4. \A f \in Fields : Stores(u, f)
    BY <2>3 DEF MessageInv
  <2>5. \A f \in Fields : Stores(u, f)'
    BY <2>1, <2>2, <2>3, <2>4 DEF Stores
  <2> QED
    BY <2>1, <2>3, <2>5 DEF MessageInv
<1>4. CASE UNCHANGED transfers
  BY <1>4 DEF transfers, MessageInv, Stores
<1>5. CASE UNCHANGED vars
  BY <1>4, <1>5 DEF vars
<1> QED
  BY <1>1, <1>2, <1>3, <1>4, <1>5
  DEF Next, Handle, Python, Thread, CInit, CFree, CGet, CSet,
      PyOpen, PyClose, PySet, PyGet, OtherProcess

(* A transfer that no other met on its handle gives the kernel the message *)
(* of its own call.                                                        *)
THEOREM MessagesAreOwn == Spec => []MessageIsOwn
<1>1. Init => MessageInv
  BY DEF Init, MessageInv
<1>2. TypeOK /\ MessageInv /\ [Next]_vars => MessageInv'
  BY MessageStep
<1>3. TypeOK /\ MessageInv => MessageIsOwn
  <2> SUFFICES ASSUME TypeOK, MessageInv, NEW t \in Threads,
                      call[t] # None, todo[t] = {}, alone[t]
               PROVE  msg[call[t].handle] = [flags |-> call[t].flags, len |-> t, buf |-> t]
    BY DEF MessageIsOwn
  <2>1. call[t].handle \in Handles
    BY DEF TypeOK, Transfers
  <2>2. msg[call[t].handle] \in [flags : {"write", "read"},
                      len : Threads \cup {None}, buf : Threads \cup {None}]
    BY <2>1 DEF TypeOK
  <2>3. Stores(t, "flags") /\ Stores(t, "len") /\ Stores(t, "buf")
    BY DEF MessageInv, Fields
  <2> QED
    BY <2>2, <2>3 DEF Stores
<1> QED
  BY <1>1, <1>2, <1>3, TypeCorrect, PTL DEF Spec

-----------------------------------------------------------------------------
(* A setter makes the device what it tells; nobody else was told of it.    *)
LEMMA SetTells ==
  ASSUME TypeOK, NEW h \in Handles, NEW s \in Settings, NEW v \in Nat, Set(h, s, v)
  PROVE  \/ UNCHANGED settings
         \/ /\ told'[h][s] \in {Unknown, v} /\ told'[h][s] \in {Unknown, setting'[s]}
            /\ \A g \in Handles \ {h} : told'[g][s] = Void(g)
            /\ \A r \in Settings \ {s} :
                 setting'[r] = setting[r] /\ \A g \in Handles : told'[g][r] = told[g][r]
<1>1. CASE UNCHANGED settings
  BY <1>1
<1>2. CASE /\ Becomes(s, Taken(s, Passed(s, v)))
           /\ Tell(h, s, IF s = "speed" THEN Unknown ELSE v)
  <2>1. setting'[s] = Taken(s, v) /\ \A r \in Settings \ {s} : setting'[r] = setting[r]
    BY <1>2 DEF Becomes, Passed, TypeOK
  <2>2. told'[h][s] = IF s = "speed" THEN Unknown ELSE v
    BY <1>2 DEF Tell, TypeOK
  <2>3. \A g \in Handles \ {h} : told'[g][s] = Void(g)
    BY <1>2 DEF Tell, TypeOK
  <2>4. \A r \in Settings \ {s}, g \in Handles : told'[g][r] = told[g][r]
    BY <1>2 DEF Tell, TypeOK
  <2> QED
    BY <2>1, <2>2, <2>3, <2>4 DEF Taken
<1> QED
  BY <1>1, <1>2 DEF Set

(* A getter tells what the device is set to, or nothing new.               *)
LEMMA LearnTells ==
  ASSUME TypeOK, NEW h \in Handles, NEW s \in Settings, NEW r \in Got(h, s), Learn(h, s, r)
  PROVE  /\ told'[h][s] = IF r = Unknown THEN told[h][s] ELSE setting[s]
         /\ \A g \in Handles, q \in Settings : g # h \/ q # s => told'[g][q] = told[g][q]
<1>1. r = Unknown \/ r = setting[s]
  BY DEF Got
<1> QED
  BY <1>1 DEF Learn, TypeOK

(* Of every handle, live or not.                                           *)
TruthInv == \A h \in Handles, s \in Settings : told[h][s] \in {Unknown, Voided, setting[s]}

LEMMA TruthStep ==
  ASSUME TypeOK, TruthInv, [Next]_vars
  PROVE  TruthInv'
<1>1. ASSUME NEW h \in Handles, NEW s \in Settings, NEW v \in Nat, Set(h, s, v)
      PROVE  TruthInv'
  <2>1. CASE UNCHANGED settings
    BY <2>1 DEF settings, TruthInv
  <2>2. CASE ~UNCHANGED settings
    BY <1>1, <2>2, SetTells DEF Void, TruthInv
  <2> QED
    BY <2>1, <2>2
<1>2. ASSUME NEW h \in Handles, NEW s \in Settings, NEW r \in Got(h, s),
             Learn(h, s, r), UNCHANGED setting
      PROVE  TruthInv'
  BY <1>2, LearnTells DEF TruthInv
<1>3. ASSUME NEW h \in Handles, Forget(h), UNCHANGED setting
      PROVE  TruthInv'
  BY <1>3 DEF Forget, TruthInv, TypeOK
<1>4. ASSUME NEW s \in Settings, NEW v, OtherProcess(s, v) PROVE TruthInv'
  BY <1>4 DEF OtherProcess, Becomes, Void, TruthInv, TypeOK
<1>5. CASE UNCHANGED settings
  BY <1>5 DEF settings, TruthInv
<1>6. ASSUME NEW h \in PyHandles, Python(h) PROVE TruthInv'
  BY <1>1, <1>2, <1>3, <1>6, PyAssumption, ArgsAssumption DEF Python, PyOpen, PyClose, PySet, PyGet
<1>7. ASSUME NEW h \in Handles, Handle(h) PROVE TruthInv'
  BY <1>1, <1>2, <1>3, <1>7, ArgsAssumption DEF Handle, CInit, CFree, CSet, CGet
<1>8. ASSUME NEW t \in Threads, Thread(t) PROVE UNCHANGED settings
  BY <1>8 DEF Thread, BeginTransfer, Store, Transfer
<1> QED
  BY <1>4, <1>5, <1>6, <1>7, <1>8 DEF Next, vars

(* What setters and getters told of the device holds until others set it.  *)
THEOREM TellingsAreTrue == Spec => []ToldIsTrue
<1>1. Init => TruthInv
  BY DEF Init, TruthInv
<1>2. TypeOK /\ TruthInv /\ [Next]_vars => TruthInv'
  BY TruthStep
<1>3. TruthInv => ToldIsTrue
  BY DEF TruthInv, ToldIsTrue, OfBus, Settings
<1> QED
  BY <1>1, <1>2, <1>3, TypeCorrect, PTL DEF Spec

-----------------------------------------------------------------------------
(* The settings that SPI.open has checked when it comes to a stage, and    *)
(* what holds of them: they are as asked until others set them.  An object *)
(* that opens or is open has a live handle.                                *)
Checked(l) ==
  CASE l \in {<<"set", "speed">>, <<"get", "speed">>} -> {"mode"}
    [] l \in {<<"set", "bits">>, <<"get", "bits">>} -> {"mode", "speed"}
    [] l = <<"open">> -> {"mode", "speed", "bits"}
    [] OTHER -> {}

HeldInv ==
  \A h \in PyHandles :
    stage[h] \notin {<<"closed">>, <<"NULL">>} => struct[h] = "live"

OpenInv ==
  bus = "spi" =>
    \A h \in PyHandles : \A s \in Checked(stage[h]) : told[h][s] \in {Voided, Asked[s]}

LEMMA CheckedSettings ==
  /\ \A l : Checked(l) \subseteq Settings
  /\ \A l \in {<<"closed">>, <<"NULL">>, <<"raised">>, <<"set", "mode">>} : Checked(l) = {}
  /\ \A s \in Settings \ {"timeout"} :
       /\ Checked(<<"get", s>>) = Checked(<<"set", s>>)
       /\ s \notin Checked(<<"set", s>>)
       /\ Checked(After(s)) = Checked(<<"get", s>>) \cup {s}
<1>1. \A l : Checked(l) \subseteq Settings
  BY DEF Checked, Settings
<1>2. \A l \in {<<"closed">>, <<"NULL">>, <<"raised">>, <<"set", "mode">>} : Checked(l) = {}
  BY DEF Checked
<1>3. ASSUME NEW s \in {"mode", "speed", "bits"}
      PROVE  /\ Checked(<<"get", s>>) = Checked(<<"set", s>>)
             /\ s \notin Checked(<<"set", s>>)
             /\ Checked(After(s)) = Checked(<<"get", s>>) \cup {s}
  <2>1. CASE s = "mode"
    BY <2>1 DEF Checked, After
  <2>2. CASE s = "speed"
    BY <2>2 DEF Checked, After
  <2>3. CASE s = "bits"
    BY <2>3 DEF Checked, After
  <2> QED
    BY <2>1, <2>2, <2>3
<1> QED
  BY <1>1, <1>2, <1>3 DEF Settings

LEMMA HeldStep ==
  ASSUME TypeOK, HeldInv, [Next]_vars
  PROVE  HeldInv'
<1> USE PyAssumption
<1>1. ASSUME NEW h \in Handles, CInit(h) \/ CFree(h) PROVE HeldInv'
  <2>1. h \notin PyHandles /\ stage' = stage
    BY <1>1 DEF CInit, CFree
  <2>2. \A g \in Handles \ {h} : struct'[g] = struct[g]
    BY <1>1 DEF CInit, CFree, InitHandle, FreeHandle, descriptors, TypeOK
  <2> QED
    BY <2>1, <2>2 DEF HeldInv
<1>2. ASSUME NEW h \in PyHandles, PyOpen(h) PROVE HeldInv'
  <2>1. PICK n \in Opened :
          /\ InitHandle(h, n)
          /\ GoTo(h, IF Refused(n) THEN <<"NULL">>
                     ELSE IF bus = "i2c" THEN <<"open">> ELSE <<"set", "mode">>)
    BY <1>2 DEF PyOpen
  <2>2. /\ \A g \in Handles \ {h} : struct'[g] = struct[g] /\ stage'[g] = stage[g]
        /\ struct'[h] = "live" \/ stage'[h] = <<"NULL">>
    BY <2>1 DEF InitHandle, GoTo, descriptors, TypeOK
  <2> QED
    BY <2>2 DEF HeldInv
<1>3. ASSUME NEW h \in PyHandles, PyClose(h) PROVE HeldInv'
  <2>1. \A g \in Handles \ {h} : struct'[g] = struct[g] /\ stage'[g] = stage[g]
    BY <1>3 DEF PyClose, FreeHandle, GoTo, TypeOK
  <2>2. stage'[h] = <<"closed">>
    BY <1>3 DEF PyClose, GoTo, TypeOK
  <2> QED
    BY <2>1, <2>2 DEF HeldInv
<1>4. ASSUME NEW h \in PyHandles, NEW s \in Settings, PySet(h, s) \/ PyGet(h, s)
      PROVE  HeldInv'
  <2>1. struct' = struct /\ \A g \in Handles \ {h} : stage'[g] = stage[g]
    BY <1>4 DEF PySet, PyGet, GoTo, descriptors, TypeOK
  <2>2. stage[h] \in {<<"set", s>>, <<"get", s>>}
    BY <1>4 DEF PySet, PyGet
  <2>3. <<"set", s>> \notin {<<"closed">>, <<"NULL">>} /\ <<"get", s>> \notin {<<"closed">>, <<"NULL">>}
    OBVIOUS
  <2> QED
    BY <2>1, <2>2, <2>3 DEF HeldInv
<1>5. ASSUME UNCHANGED <<struct, stage>> PROVE HeldInv'
  BY <1>5 DEF HeldInv
<1>6. ASSUME NEW h \in Handles, NEW s \in Settings,
             CGet(h, s) \/ \E v \in Args[s] : CSet(h, s, v)
      PROVE  UNCHANGED <<struct, stage>>
  BY <1>6 DEF CGet, CSet, descriptors
<1>7. ASSUME NEW t \in Threads, Thread(t) PROVE UNCHANGED <<struct, stage>>
  BY <1>7 DEF Thread, BeginTransfer, Store, Transfer, descriptors
<1>8. ASSUME NEW s \in Settings, NEW v \in Foreign[s], OtherProcess(s, v)
      PROVE  UNCHANGED <<struct, stage>>
  BY <1>8 DEF OtherProcess, descriptors
<1>9. CASE UNCHANGED vars
  BY <1>5, <1>9 DEF vars, descriptors
<1>10. ASSUME NEW h \in Handles, Handle(h) PROVE HeldInv'
  BY <1>1, <1>5, <1>6, <1>10 DEF Handle
<1>11. ASSUME NEW h \in PyHandles, Python(h) PROVE HeldInv'
  BY <1>2, <1>3, <1>4, <1>11 DEF Python
<1> QED
  BY <1>5, <1>7, <1>8, <1>9, <1>10, <1>11 DEF Next

(* A step of another handle leaves what an object knows as asked.          *)
LEMMA OthersKeepOpenInv ==
  ASSUME TypeOK, HeldInv, OpenInv, NEW h \in Handles, NEW g \in PyHandles, g # h,
         bus = "spi", stage'[g] = stage[g],
         \/ Forget(h)
         \/ \E s \in Settings, v \in Nat : Set(h, s, v)
         \/ \E s \in Settings : \E r \in Got(h, s) : Learn(h, s, r)
  PROVE  \A s \in Checked(stage'[g]) : told'[g][s] \in {Voided, Asked[s]}
<1>1. CASE Checked(stage[g]) = {}
  BY <1>1
<1>2. CASE struct[g] = "live"
  <2> USE PyAssumption
  <2>1. CASE Forget(h)
    <3>1. told'[g] = told[g]
      BY <2>1 DEF Forget, TypeOK
    <3> QED
      BY <3>1 DEF OpenInv
  <2>2. ASSUME NEW s \in Settings, NEW v \in Nat, Set(h, s, v)
        PROVE  \A q \in Settings : told'[g][q] \in {Voided, told[g][q]}
    <3>1. CASE UNCHANGED settings
      BY <3>1 DEF settings
    <3>2. CASE ~UNCHANGED settings
      BY <1>2, <2>2, <3>2, SetTells DEF Void
    <3> QED
      BY <3>1, <3>2
  <2>3. ASSUME NEW s \in Settings, NEW r \in Got(h, s), Learn(h, s, r)
        PROVE  \A q \in Settings : told'[g][q] \in {Voided, told[g][q]}
    BY <2>3, LearnTells
  <2>4. Checked(stage[g]) \subseteq Settings
    BY CheckedSettings
  <2>5. CASE \A q \in Settings : told'[g][q] \in {Voided, told[g][q]}
    BY <2>4, <2>5 DEF OpenInv
  <2> QED
    BY <2>1, <2>2, <2>3, <2>5
<1>3. stage[g] \in {<<"closed">>, <<"NULL">>} => Checked(stage[g]) = {}
  BY CheckedSettings
<1> QED
  BY <1>1, <1>2, <1>3 DEF HeldInv

LEMMA OpenStep ==
  ASSUME TypeOK, HeldInv, OpenInv, [Next]_vars
  PROVE  OpenInv'
<1> DEFINE AsAsked(h) == \A s \in Checked(stage[h]) : told[h][s] \in {Voided, Asked[s]}
<1> USE PyAssumption
<1>1. ASSUME NEW h \in Handles, Handle(h) PROVE OpenInv'
  <2> SUFFICES ASSUME bus = "spi", bus' = bus, NEW g \in PyHandles
               PROVE  AsAsked(g)'
    BY <1>1 DEF OpenInv, Handle, CInit, CFree, CGet, CSet
  <2>1. h \notin PyHandles
    BY <1>1 DEF Handle, CInit, CFree, CGet, CSet, Set, OfBus
  <2>2. stage' = stage
    BY <1>1 DEF Handle, CInit, CFree, CGet, CSet
  <2>3. \/ Forget(h)
        \/ \E s \in Settings, v \in Nat : Set(h, s, v)
        \/ \E s \in Settings : \E r \in Got(h, s) : Learn(h, s, r)
    BY <1>1, ArgsAssumption DEF Handle, CInit, CFree, CGet, CSet
  <2> QED
    BY <2>1, <2>2, <2>3, OthersKeepOpenInv
<1>2. ASSUME NEW h \in PyHandles, Python(h) PROVE OpenInv'
  <2> SUFFICES ASSUME bus = "spi", bus' = bus, NEW g \in PyHandles
               PROVE  AsAsked(g)'
    BY <1>2 DEF OpenInv, Python, PyOpen, PyClose, PySet, PyGet
  <2>1. CASE g # h
    <3>1. stage'[g] = stage[g]
      BY <1>2, <2>1 DEF Python, PyOpen, PyClose, PySet, PyGet, GoTo, TypeOK
    <3>2. \/ Forget(h)
          \/ \E s \in Settings, v \in Nat : Set(h, s, v)
          \/ \E s \in Settings : \E r \in Got(h, s) : Learn(h, s, r)
      BY <1>2, ArgsAssumption DEF Python, PyOpen, PyClose, PySet, PyGet
    <3> QED
      BY <2>1, <3>1, <3>2, OthersKeepOpenInv
  <2>2. CASE g = h /\ (PyOpen(h) \/ PyClose(h))
    <3>1. stage'[h] \in {<<"closed">>, <<"NULL">>, <<"set", "mode">>}
      BY <2>2 DEF PyOpen, PyClose, GoTo, TypeOK
    <3> QED
      BY <2>2, <3>1, CheckedSettings
  <2>3. ASSUME NEW s \in Settings, PySet(h, s), g = h PROVE AsAsked(g)'
    <3>1. stage[h] = <<"set", s>> /\ stage'[h] = <<"get", s>> /\ s # "timeout"
      BY <2>3 DEF PySet, GoTo, TypeOK, Set, OfBus
    <3>2. Checked(<<"get", s>>) = Checked(<<"set", s>>) /\ s \notin Checked(<<"set", s>>)
      BY <3>1, CheckedSettings
    <3>3. \A q \in Settings \ {s} : told'[h][q] = told[h][q]
      <4>1. CASE UNCHANGED settings
        BY <4>1 DEF settings
      <4>2. CASE ~UNCHANGED settings
        BY <2>3, <4>2, SetTells, ArgsAssumption DEF PySet
      <4> QED
        BY <4>1, <4>2
    <3>4. Checked(stage[h]) \subseteq Settings
      BY CheckedSettings
    <3> QED
      BY <2>3, <3>1, <3>2, <3>3, <3>4 DEF OpenInv
  <2>4. ASSUME NEW s \in Settings, PyGet(h, s), g = h PROVE AsAsked(g)'
    <3>1. PICK r \in Got(h, s) :
            /\ Learn(h, s, r)
            /\ GoTo(h, IF Accepts(s, r) THEN After(s) ELSE <<"raised">>)
      BY <2>4 DEF PyGet
    <3>2. stage[h] = <<"get", s>> /\ stage[h] \in Stages
      BY <2>4 DEF PyGet, TypeOK
    <3>3. s # "timeout"
      BY <3>2 DEF Stages, Opening, Settings
    <3>4. CASE Accepts(s, r)
      <4>1. told'[h][s] = Asked[s]
        <5>1. r = Asked[s] /\ r # Unknown
          BY <3>4, ArgsAssumption DEF Accepts
        <5>2. r = setting[s]
          BY <5>1, GotTypes
        <5> QED
          BY <3>1, <5>1, <5>2, LearnTells
      <4>2. \A q \in Settings \ {s} : told'[h][q] = told[h][q]
        BY <3>1, LearnTells
      <4>3. stage'[h] = After(s)
        BY <3>1, <3>4 DEF GoTo, TypeOK
      <4>4. Checked(After(s)) = Checked(stage[h]) \cup {s}
        BY <3>2, <3>3, CheckedSettings
      <4>5. Checked(stage[h]) \subseteq Settings
        BY CheckedSettings
      <4> QED
        BY <2>4, <4>1, <4>2, <4>3, <4>4, <4>5 DEF OpenInv
    <3>5. CASE ~Accepts(s, r)
      <4>1. stage'[h] = <<"raised">>
        BY <3>1, <3>5 DEF GoTo, TypeOK
      <4> QED
        BY <2>4, <4>1, CheckedSettings
    <3> QED
      BY <3>4, <3>5
  <2> QED
    BY <1>2, <2>1, <2>2, <2>3, <2>4 DEF Python
<1>3. ASSUME NEW s \in Settings, NEW v, OtherProcess(s, v) PROVE OpenInv'
  <2>1. \A h \in Handles, q \in Settings :
          struct[h] = "live" => told'[h][q] \in {Voided, told[h][q]}
    BY <1>3 DEF OtherProcess, Void, TypeOK
  <2>2. \A h \in PyHandles : Checked(stage[h]) \subseteq Settings
    BY CheckedSettings
  <2>3. \A h \in PyHandles : Checked(stage[h]) = {} \/ struct[h] = "live"
    BY CheckedSettings DEF HeldInv
  <2> QED
    BY <1>3, <2>1, <2>2, <2>3 DEF OtherProcess, OpenInv
<1>4. ASSUME NEW t \in Threads, Thread(t) PROVE UNCHANGED <<bus, settings, stage>>
  BY <1>4 DEF Thread, BeginTransfer, Store, Transfer
<1>5. CASE UNCHANGED <<bus, settings, stage>>
  BY <1>5 DEF OpenInv, settings
<1> QED
  BY <1>1, <1>2, <1>3, <1>4, <1>5 DEF Next, vars

(* SPI.open returns only if the device was as asked, setting by setting.   *)
THEOREM OpenIsAsAsked == Spec => []OpenedAsAsked
<1>1. Init => HeldInv /\ OpenInv
  BY CheckedSettings, PyAssumption DEF Init, HeldInv, OpenInv
<1>2. TypeOK /\ HeldInv /\ OpenInv /\ [Next]_vars => HeldInv' /\ OpenInv'
  BY HeldStep, OpenStep
<1>3. Init => TruthInv
  BY DEF Init, TruthInv
<1>4. TypeOK /\ TruthInv /\ [Next]_vars => TruthInv'
  BY TruthStep
<1>5. TypeOK /\ TruthInv /\ OpenInv => OpenedAsAsked
  <2> SUFFICES ASSUME TruthInv, OpenInv, bus = "spi",
                      NEW h \in PyHandles, stage[h] = <<"open">>,
                      NEW s \in OfBus, told[h][s] # Voided
               PROVE  setting[s] = Asked[s]
    BY DEF OpenedAsAsked
  <2>1. s \in Settings /\ s \in Checked(<<"open">>)
    BY DEF OfBus, Settings, Checked
  <2> QED
    BY <2>1, PyAssumption, ArgsAssumption DEF TruthInv, OpenInv
<1> QED
  BY <1>1, <1>2, <1>3, <1>4, <1>5, TypeCorrect, PTL DEF Spec
=============================================================================
