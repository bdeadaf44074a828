--------------------------- MODULE PwmAttributes ---------------------------
(***************************************************************************)
(* The calls that use a PWM handle between request and free (lib/pwm.c),   *)
(* made by several threads on one handle.  period and duty_cycle are read  *)
(* and written, and enable is read, through files that stay open and whose *)
(* offsets the threads share; enable is written, and polarity read and     *)
(* written, by path.  Meanwhile other processes set the channel up by      *)
(* themselves, unexport it under the handle and export it again.           *)
(*                                                                         *)
(* A step is one system call on an open file, or the open, access and      *)
(* close of an attribute.  Numbers are unsigned in the arguments and in    *)
(* the kernel and ints in between, as wide as IntMax says.                 *)
(***************************************************************************)
EXTENDS Integers

CONSTANTS Threads,
          CallsOf, \* the calls each of them makes
          IntMax,  \* INT_MAX
          Values,  \* the numbers other processes set
          Faults   \* system calls that may fail: "open", "read", ...

UintMax == 2 * IntMax + 1
Attributes == {"enable", "period", "duty_cycle", "polarity"}

(* ENABLED and INVERSED are 1, DISABLED and NORMAL are 0; the enumerations *)
(* admit other arguments.                                                  *)
Getters == [op : {"get"}, of : Attributes, val : {0}]
Setters ==
  [op : {"set"}, of : {"period", "duty_cycle"}, val : 0..UintMax]
    \cup [op : {"set"}, of : {"enable", "polarity"}, val : {0, 1, 2}]
Calls == Getters \cup Setters

ASSUME IntAssumption == IntMax \in Nat \ {0}
ASSUME CallsAssumption == CallsOf \in [Threads -> SUBSET Calls]
ASSUME ValuesAssumption == Values \subseteq 0..UintMax
ASSUME PwmFaultsAssumption == Faults \subseteq {"open", "read", "write", "close"}

VARIABLES exported, \* the kernel shows the channel
          attached, \* the files of the handle reach the present export
          attr,     \* the attributes of the channel
          atStart,  \* the open files whose offset is at their start
          call,     \* the call each thread is in, or made last
          pc,       \* the system call it makes next
          result,   \* what its last call returned
          seen      \* history: the values of its attribute during a getter,
                    \* none if something excuses a wrong answer, and those
                    \* that it was given during a setter

vars == <<exported, attached, attr, atStart, call, pc, result, seen>>

EXIT_SUCCESS == 0
EXIT_FAILURE == 1
Error == -1 \* ENABLED_ERROR, POLARITY_ERROR and that of the numbers

TypeOK ==
  /\ exported \in BOOLEAN
  /\ attached \in BOOLEAN
  /\ attr \in [Attributes -> 0..UintMax]
  /\ atStart \subseteq Attributes
  /\ call \in [Threads -> Calls]
  /\ pc \in [Threads -> {"idle", "path", "seek", "read", "write"}]
  /\ result \in [Threads -> -IntMax - 1 .. IntMax]
  /\ seen \in [Threads -> SUBSET (0..UintMax)]

-----------------------------------------------------------------------------
(* Numbers.  The definitions named Bug... are faulty versions of the code  *)
(* that the properties below reject; nothing else uses them.               *)

(* The unsigned argument of a setter is passed as an int and printed with  *)
(* %d (file_write_int_fd).                                                 *)
BugDropsSign(u) == u % (IntMax + 1)
Printed(u) == IF u > IntMax THEN u - UintMax - 1 ELSE u

(* atoi (file_read_int_fd): a number that an int cannot hold is cut to one *)
(* where a long is wider, and INT_MAX where it is not.                     *)
BugAnyWidth(u) == {u}
Parsed(u) == IF u > IntMax THEN {u - UintMax - 1, IntMax} ELSE {u}

(* The kernel parses an unsigned number and refuses what does not go with  *)
(* the other attributes.                                                   *)
Accepts(a, v) ==
  /\ v \in 0..UintMax
  /\ a = "period" => v > 0 /\ v >= attr["duty_cycle"]
  /\ a = "duty_cycle" => v <= attr["period"]
  /\ a = "enable" => v = 0 \/ (v = 1 /\ attr["period"] > 0)
  /\ a = "polarity" => v \in {0, 1} /\ attr["enable"] = 0

-----------------------------------------------------------------------------
InCall(t, op, A) == pc[t] # "idle" /\ call[t].op = op /\ call[t].of \in A

(* The value of an attribute changes; the calls that are about it see it, *)
(* but for the getters of the threads of T, which the cause excuses.       *)
Assign(a, v, T) ==
  /\ attr' = [attr EXCEPT ![a] = v]
  /\ seen' = [t \in Threads |->
                IF t \in T /\ InCall(t, "get", {a}) THEN {}
                ELSE IF InCall(t, "set", {a}) \/ (InCall(t, "get", {a}) /\ seen[t] # {})
                     THEN seen[t] \cup {v} ELSE seen[t]]

(* The getters of A that threads of T are in may return anything now.      *)
Excuse(T, A) ==
  seen' = [t \in Threads |-> IF t \in T /\ InCall(t, "get", A) THEN {} ELSE seen[t]]

Return(t, r) ==
  /\ pc' = [pc EXCEPT ![t] = "idle"]
  /\ result' = [result EXCEPT ![t] = r]
  /\ UNCHANGED call

ByPath(c) == c.of = "polarity" \/ (c.op = "set" /\ c.of = "enable")

Begin(t, c) ==
  /\ pc[t] = "idle"
  /\ call' = [call EXCEPT ![t] = c]
  /\ pc' = [pc EXCEPT ![t] = IF ByPath(c) THEN "path"
                             ELSE IF c.op = "get" THEN "seek" ELSE "write"]
  /\ seen' = [seen EXCEPT ![t] = IF c.op = "get" /\ (attached \/ ByPath(c))
                                 THEN {attr[c.of]} ELSE {}]
  /\ result' = [result EXCEPT ![t] = 0]
  /\ UNCHANGED <<exported, attached, attr, atStart>>

-----------------------------------------------------------------------------
(* By path.  A failed access may have taken effect: close comes last.      *)

PathFails(access) == ~exported \/ {"open", access, "close"} \cap Faults # {}

(* libsoc_pwm_set_enabled and libsoc_pwm_set_polarity look at their        *)
(* argument first.                                                         *)
Valid(v) == v \in {0, 1}

SetByPath(t) ==
  /\ pc[t] = "path"
  /\ call[t].op = "set"
  /\ LET a == call[t].of
         v == call[t].val
     IN  \/ /\ ~Valid(v) \/ PathFails("write") \/ ~Accepts(a, v)
            /\ Return(t, EXIT_FAILURE)
            /\ UNCHANGED <<attr, seen>>
         \/ /\ Valid(v) /\ exported /\ Accepts(a, v)
            /\ Assign(a, v, {})
            /\ \/ Return(t, EXIT_SUCCESS)
               \/ "close" \in Faults /\ Return(t, EXIT_FAILURE)
  /\ UNCHANGED <<exported, attached, atStart>>

(* libsoc_pwm_get_polarity tells the values by their first letter. *)
GetPolarity(t) ==
  /\ pc[t] = "path"
  /\ call[t].op = "get"
  /\ \/ /\ PathFails("read")
        /\ Return(t, Error)
        /\ Excuse({t}, Attributes)
     \/ /\ exported
        /\ Return(t, attr["polarity"])
        /\ UNCHANGED seen
  /\ UNCHANGED <<exported, attached, attr, atStart>>

-----------------------------------------------------------------------------
(* Through the open files *)

(* file_write_int_fd; the write moves the offset and does not depend on    *)
(* it.                                                                     *)
Write(t) ==
  /\ pc[t] = "write"
  /\ LET a == call[t].of
         v == Printed(call[t].val)
     IN  \/ /\ ~attached \/ "write" \in Faults \/ ~Accepts(a, v)
            /\ Return(t, EXIT_FAILURE)
            /\ UNCHANGED <<attr, atStart, seen>>
         \/ /\ attached /\ Accepts(a, v)
            /\ Assign(a, v, Threads \ {t})
            /\ atStart' = atStart \ {a}
            /\ Return(t, EXIT_SUCCESS)
  /\ UNCHANGED <<exported, attached>>

(* file_read seeks before it reads. *)
BugNotRewound(a) == atStart
Rewound(a) == atStart \cup {a}

Seek(t) ==
  /\ pc[t] = "seek"
  /\ atStart' = Rewound(call[t].of)
  /\ pc' = [pc EXCEPT ![t] = "read"]
  /\ UNCHANGED <<exported, attached, attr, call, result, seen>>

(* What get_enabled makes of the number that it reads. *)
Returned(a, n) == IF a = "enable" /\ n \notin {0, 1} THEN Error ELSE n

(* A read from the end returns nothing, and file_read_int_fd parses a      *)
(* buffer that was never written: any number.                              *)
Read(t) ==
  /\ pc[t] = "read"
  /\ LET a == call[t].of IN
     \/ /\ ~attached \/ "read" \in Faults
        /\ Return(t, Error)
        /\ Excuse({t}, {a})
        /\ UNCHANGED atStart
     \/ /\ attached
        /\ \E n \in IF a \in atStart THEN Parsed(attr[a]) ELSE -IntMax - 1 .. IntMax :
             Return(t, Returned(a, n))
        /\ atStart' = atStart \ {a}
        /\ Excuse(Threads \ {t}, {a})
  /\ UNCHANGED <<exported, attached, attr>>

-----------------------------------------------------------------------------
(* Other processes: they set an attribute, unexport the channel and export *)
(* it again, which leaves the files of the handle cut off.                 *)

OtherSets(a, v) ==
  /\ exported
  /\ Accepts(a, v)
  /\ v # attr[a]
  /\ Assign(a, v, {})
  /\ UNCHANGED <<exported, attached, atStart, call, pc, result>>

OtherUnexports ==
  /\ exported
  /\ exported' = FALSE
  /\ attached' = FALSE
  /\ Excuse(Threads, Attributes \ {"polarity"})
  /\ UNCHANGED <<attr, atStart, call, pc, result>>

OtherExports ==
  /\ ~exported
  /\ exported' = TRUE
  /\ UNCHANGED <<attached, attr, atStart, call, pc, result, seen>>

Step(t) ==
  \/ SetByPath(t)
  \/ GetPolarity(t)
  \/ Write(t)
  \/ Seek(t)
  \/ Read(t)

Next ==
  \/ \E t \in Threads : Step(t) \/ \E c \in CallsOf[t] : Begin(t, c)
  \/ \E a \in Attributes, v \in Values : OtherSets(a, v)
  \/ OtherUnexports
  \/ OtherExports

Init ==
  /\ exported = TRUE
  /\ attached = TRUE
  /\ attr = [a \in Attributes |-> 0]
  /\ atStart = {"enable", "period", "duty_cycle"}
  /\ call = [t \in Threads |-> [op |-> "get", of |-> "period", val |-> 0]]
  /\ pc = [t \in Threads |-> "idle"]
  /\ result = [t \in Threads |-> 0]
  /\ seen = [t \in Threads |-> {0}]

Spec == Init /\ [][Next]_vars

-----------------------------------------------------------------------------
(* Getters (pwm.c:203-234, 264-296, 321-363; file.c:35-84): unless its     *)
(* read failed, another thread used the same open file during the call or  *)
(* an unexport cut that file off, a getter returns what the attribute was  *)
(* during the call; a number that an int cannot hold comes out negative or *)
(* as INT_MAX.                                                             *)
GetIsTrue ==
  \A t \in Threads :
    pc[t] = "idle" /\ call[t].op = "get" /\ seen[t] # {} =>
      \E v \in seen[t] :
        result[t] = v \/ (v > IntMax /\ (result[t] < 0 \/ result[t] = IntMax))

(* Setters (pwm.c:180-201, 236-262, 298-319; file.c:107-119): one that     *)
(* returns EXIT_SUCCESS gave the attribute exactly the unsigned number     *)
(* that it was called with, though the number is printed as an int; one    *)
(* that an int cannot hold is refused.                                     *)
SetTakesEffect ==
  \A t \in Threads :
    pc[t] = "idle" /\ call[t].op = "set" /\ result[t] = EXIT_SUCCESS =>
      call[t].val \in seen[t]
=============================================================================
