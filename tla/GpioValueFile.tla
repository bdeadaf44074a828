---------------------------- MODULE GpioValueFile ----------------------------
(***************************************************************************)
(* The calls that use a handle between request and free (lib/gpio.c), made *)
(* by several threads on one handle: the poll of the callback thread,      *)
(* libsoc_gpio_wait_interrupt, libsoc_gpio_get_level and                   *)
(* libsoc_gpio_set_level work on the value file that is open all the time, *)
(* and share its offset and what is pending on it; direction and edge are  *)
(* set and got by path.  A step is one system call on the value file, or   *)
(* the open, access and close of another attribute.                        *)
(*                                                                         *)
(* The value file reads as a digit and a newline.  A read from its start   *)
(* shows the level and clears what is pending; a read from elsewhere goes  *)
(* on with what was shown, or shows it anew and clears too.                *)
(***************************************************************************)
EXTENDS Naturals

CONSTANTS Threads,
          CallsOf, \* the calls that each thread makes
          Edges,   \* the edges that set_edge sets
          Faults   \* system calls that may fail: "open", "read", ...

Calls == {"watch", "wait", "get_level", "set_level", "get_direction",
          "set_direction", "get_edge", "set_edge"}

ASSUME CallsAssumption == CallsOf \in [Threads -> SUBSET Calls]
ASSUME EdgesAssumption == Edges \subseteq {"none", "rising", "falling", "both"}
ASSUME ValueFaultsAssumption ==
  Faults \subseteq {"open", "read", "write", "close", "poll"}

VARIABLES high,      \* the level of the line
          direction, \* sysfs: "in" or "out"
          edge,      \* sysfs: the edges that raise interrupts
          offset,    \* of value_fd; 2 stands for 2 and more
          pending,   \* POLLPRI is pending on value_fd
          call,      \* the call each thread is in, or made last
          pc,        \* the system call it makes next
          result,    \* what its last call returned
          seen,      \* history: the levels since its call began
          during     \* history: what happened during its call

vars == <<high, direction, edge, offset, pending, call, pc, result, seen, during>>

line == <<high, direction, edge>>
file == <<offset, pending>>
history == <<seen, during>>

Locations == {"idle", "direction", "new_direction", "edge", "new_edge",
              "seek", "clear", "poll", "final", "seek_level", "read_level",
              "write_level"}

Results == {"none", "TRIGGERED", "TIMEOUT", "ERROR", "LOW", "HIGH", "LEVEL_ERROR",
            "INPUT", "OUTPUT", "DIRECTION_ERROR", "EDGE", "NONE", "EDGE_ERROR",
            "SUCCESS", "FAILURE"}

(* An edge came since the call of a thread began, or since its clearing    *)
(* read; another thread read or wrote the value file; its own read failed. *)
Events == {"edge", "late_edge", "read", "write", "failed"}

TypeOK ==
  /\ high \in BOOLEAN
  /\ direction \in {"in", "out"}
  /\ edge \in Edges \cup {"none"}
  /\ offset \in 0..2
  /\ pending \in BOOLEAN
  /\ call \in [Threads -> Calls \cup {"none"}]
  /\ pc \in [Threads -> Locations]
  /\ result \in [Threads -> Results]
  /\ seen \in [Threads -> SUBSET BOOLEAN]
  /\ during \in [Threads -> SUBSET Events]

-----------------------------------------------------------------------------
(* The value file and the line.  The definitions named Bug... are faulty   *)
(* versions of the code that the properties below reject; nothing else     *)
(* uses them.                                                              *)

(* Where a call reads from: lseek to the start. *)
BugNotRewound == offset
Rewound == 0

Advance(n) == offset' = IF offset + n > 2 THEN 2 ELSE offset + n

ReadMayClear == pending' \in IF offset = 0 THEN {FALSE} ELSE {FALSE, pending}

(* The first character of a read, and how many of two it returns. *)
FirstChar == IF offset = 0 THEN (IF high THEN "1" ELSE "0") ELSE "newline"
Returned == 2 - offset

Level(h) ==
  /\ high' = h
  /\ seen' = [t \in Threads |-> IF pc[t] \in {"seek_level", "read_level"}
                                THEN seen[t] \cup {h} ELSE seen[t]]

Raises(h) == edge = "both" \/ edge = (IF h THEN "rising" ELSE "falling")

(* What happens to the threads of T that are in a call. *)
Record(T, events) ==
  during' = [t \in Threads |-> IF t \in T /\ pc[t] # "idle"
                              THEN during[t] \cup events ELSE during[t]]

(* The level of an input changes, and raises an interrupt or not. *)
Change ==
  /\ direction = "in"
  /\ Level(~high)
  /\ IF Raises(~high)
     THEN pending' = TRUE /\ Record(Threads, {"edge", "late_edge"})
     ELSE UNCHANGED <<pending, during>>
  /\ UNCHANGED <<direction, edge, offset, call, pc, result>>

-----------------------------------------------------------------------------
Goto(t, l) ==
  /\ pc' = [pc EXCEPT ![t] = l]
  /\ UNCHANGED <<call, result>>

Return(t, r) ==
  /\ pc' = [pc EXCEPT ![t] = "idle"]
  /\ result' = [result EXCEPT ![t] = r]
  /\ UNCHANGED call

First(c) ==
  CASE c = "watch" -> "seek"
    [] c \in {"wait", "get_direction"} -> "direction"
    [] c = "get_level" -> "seek_level"
    [] c = "set_level" -> "write_level"
    [] c = "set_direction" -> "new_direction"
    [] c = "get_edge" -> "edge"
    [] c = "set_edge" -> "new_edge"

Begin(t, c) ==
  /\ pc[t] = "idle"
  /\ c \in CallsOf[t]
  /\ call' = [call EXCEPT ![t] = c]
  /\ pc' = [pc EXCEPT ![t] = First(c)]
  /\ result' = [result EXCEPT ![t] = "none"]
  /\ seen' = [seen EXCEPT ![t] = {high}]
  /\ during' = [during EXCEPT ![t] = {}]
  /\ UNCHANGED <<line, file>>

-----------------------------------------------------------------------------
(* The attributes that are accessed by path.  A failed access may have     *)
(* taken effect: close comes last.                                         *)

PathFails(access) == {"open", access, "close"} \cap Faults # {}

(* libsoc_gpio_get_direction, by itself or as the first test of wait. *)
GetDirection(t) ==
  /\ pc[t] = "direction"
  /\ \/ /\ PathFails("read")
        /\ Return(t, IF call[t] = "wait" THEN "ERROR" ELSE "DIRECTION_ERROR")
     \/ /\ call[t] = "wait"
        /\ IF direction = "in" THEN Goto(t, "edge") ELSE Return(t, "ERROR")
     \/ /\ call[t] = "get_direction"
        /\ Return(t, IF direction = "in" THEN "INPUT" ELSE "OUTPUT")
  /\ UNCHANGED <<line, file, history>>

(* libsoc_gpio_get_edge, by itself or as the second test of wait. *)
GetEdge(t) ==
  /\ pc[t] = "edge"
  /\ \/ /\ PathFails("read")
        /\ Return(t, IF call[t] = "wait" THEN "ERROR" ELSE "EDGE_ERROR")
     \/ /\ call[t] = "wait"
        /\ IF edge = "none" THEN Return(t, "ERROR") ELSE Goto(t, "seek")
     \/ /\ call[t] = "get_edge"
        /\ Return(t, IF edge = "none" THEN "NONE" ELSE "EDGE")
  /\ UNCHANGED <<line, file, history>>

(* The kernel drives a line that becomes an output low. *)
SetDirection(t) ==
  /\ pc[t] = "new_direction"
  /\ \/ /\ PathFails("write")
        /\ Return(t, "FAILURE")
        /\ UNCHANGED <<line, seen>>
     \/ \E d \in {"in", "out"} :
        /\ direction' = d
        /\ IF d = "out" THEN Level(FALSE) ELSE UNCHANGED <<high, seen>>
        /\ UNCHANGED edge
        /\ \/ Return(t, "SUCCESS")
           \/ "close" \in Faults /\ Return(t, "FAILURE")
  /\ UNCHANGED <<file, during>>

SetEdge(t) ==
  /\ pc[t] = "new_edge"
  /\ \/ /\ PathFails("write")
        /\ Return(t, "FAILURE")
        /\ UNCHANGED edge
     \/ /\ edge' \in Edges
        /\ \/ Return(t, "SUCCESS")
           \/ "close" \in Faults /\ Return(t, "FAILURE")
  /\ UNCHANGED <<high, direction, file, history>>

-----------------------------------------------------------------------------
(* libsoc_gpio_set_level and libsoc_gpio_get_level *)

(* The kernel refuses to write the value of an input. *)
WriteLevel(t) ==
  /\ pc[t] = "write_level"
  /\ \/ /\ direction = "in" \/ "write" \in Faults
        /\ Return(t, "FAILURE")
        /\ UNCHANGED <<high, history, offset>>
     \/ /\ direction = "out"
        /\ \E h \in BOOLEAN : Level(h)
        /\ Advance(1)
        /\ Record(Threads \ {t}, {"write"})
        /\ Return(t, "SUCCESS")
  /\ UNCHANGED <<direction, edge, pending>>

SeekLevel(t) ==
  /\ pc[t] = "seek_level"
  /\ offset' = Rewound
  /\ Goto(t, "read_level")
  /\ UNCHANGED <<line, pending, history>>

(* What makes a read good, and the level that a character stands for. *)
BugSomeRead(n) == n > 0
WholeRead(n) == n = 2

BugCharacter(c) == c
LevelOf(c) == IF c = "0" THEN "LOW" ELSE "HIGH"

ReadLevel(t) ==
  /\ pc[t] = "read_level"
  /\ \/ /\ "read" \in Faults
        /\ Return(t, "LEVEL_ERROR")
        /\ Record({t}, {"failed"})
        /\ UNCHANGED file
     \/ /\ Return(t, IF WholeRead(Returned) THEN LevelOf(FirstChar) ELSE "LEVEL_ERROR")
        /\ ReadMayClear
        /\ offset' = 2
        /\ Record(Threads \ {t}, {"read"})
  /\ UNCHANGED <<line, seen>>

-----------------------------------------------------------------------------
(* libsoc_gpio_poll *)

Seek(t) ==
  /\ pc[t] = "seek"
  /\ offset' = Rewound
  /\ Goto(t, "clear")
  /\ UNCHANGED <<line, pending, history>>

(* A failure of the clearing read is not looked at. *)
ReadClear(t) ==
  /\ pc[t] = "clear"
  /\ \/ /\ "read" \in Faults
        /\ Record({t}, {"failed"})
        /\ UNCHANGED file
     \/ /\ ReadMayClear
        /\ Advance(1)
        /\ during' = [u \in Threads |->
                       IF u = t THEN during[t] \ {"late_edge"}
                       ELSE IF pc[u] # "idle" THEN during[u] \cup {"read"}
                       ELSE during[u]]
  /\ Goto(t, "poll")
  /\ UNCHANGED <<line, seen>>

(* Whether poll reports POLLPRI. *)
BugNothingReported == FALSE
Reported == pending

Poll(t) ==
  /\ pc[t] = "poll"
  /\ \/ "poll" \in Faults /\ Return(t, "ERROR")
     \/ Reported /\ Goto(t, "final")
     \/ ~Reported /\ call[t] = "wait" /\ Return(t, "TIMEOUT")
  /\ UNCHANGED <<line, file, history>>

(* Nor is one of the final read. *)
FinalRead(t) ==
  /\ pc[t] = "final"
  /\ \/ "read" \in Faults /\ UNCHANGED <<file, during>>
     \/ ReadMayClear /\ Advance(1) /\ Record(Threads \ {t}, {"read"})
  /\ Return(t, "TRIGGERED")
  /\ UNCHANGED <<line, seen>>

-----------------------------------------------------------------------------
Step(t) ==
  \/ GetDirection(t)
  \/ GetEdge(t)
  \/ SetDirection(t)
  \/ SetEdge(t)
  \/ WriteLevel(t)
  \/ SeekLevel(t)
  \/ ReadLevel(t)
  \/ Seek(t)
  \/ ReadClear(t)
  \/ Poll(t)
  \/ FinalRead(t)

Next ==
  \/ Change
  \/ \E t \in Threads : Step(t) \/ \E c \in Calls : Begin(t, c)

(* A file that was just opened may report POLLPRI. *)
Init ==
  /\ high \in BOOLEAN
  /\ direction \in {"in", "out"}
  /\ edge \in Edges \cup {"none"}
  /\ offset = 0
  /\ pending \in BOOLEAN
  /\ call = [t \in Threads |-> "none"]
  /\ pc = [t \in Threads |-> "idle"]
  /\ result = [t \in Threads |-> "none"]
  /\ seen = [t \in Threads |-> {}]
  /\ during = [t \in Threads |-> {}]

Spec == Init /\ [][Next]_vars

(* Threads that can run do. *)
FairSpec == Spec /\ \A t \in Threads : WF_vars(Step(t))

-----------------------------------------------------------------------------
(* Levels (gpio.c:304-322): however calls on the handle interleave between *)
(* the seek and the read of get_level, a level that it returns is one that *)
(* the line had during the call; what the others do to the offset can only *)
(* make it fail.                                                           *)
LevelIsTrue ==
  \A t \in Threads :
    /\ result[t] = "HIGH" => TRUE \in seen[t]
    /\ result[t] = "LOW" => FALSE \in seen[t]

(* Interrupts (gpio.c:413-429): a poll of the callback thread or of wait   *)
(* is triggered by an edge that came after the call began, even when other *)
(* threads' reads move the offset between its seek and its clearing read;  *)
(* only a write of another thread there, or a clearing read that fails,    *)
(* lets it report an older one.                                            *)
TriggeredIsFresh ==
  \A t \in Threads :
    result[t] = "TRIGGERED" => during[t] \cap {"edge", "write", "failed"} # {}

(* Levels (gpio.c:304-311): whatever earlier calls did to the offset, a    *)
(* get_level fails only if its read did or another thread read or wrote    *)
(* the value file during the call.                                         *)
LevelFailsOnlyIfDisturbed ==
  \A t \in Threads :
    result[t] = "LEVEL_ERROR" => during[t] \cap {"read", "write", "failed"} # {}

(* Interrupts (gpio.c:413-430): a wait times out over an edge that came    *)
(* after its clearing read only if another thread read the value file      *)
(* during the call.                                                        *)
TimeoutMeansNone ==
  \A t \in Threads :
    result[t] = "TIMEOUT" /\ "late_edge" \in during[t] => "read" \in during[t]

(* libsoc_gpio.h says of a callback that it is called when an interrupt    *)
(* occurs.  An interrupt that finds the callback thread in poll is cleared *)
(* by a get_level of another thread on the same handle.                    *)
InterruptReported ==
  \A t \in Threads :
    call[t] = "watch" /\ pc[t] = "poll" /\ pending ~> pc[t] # "poll"

-----------------------------------------------------------------------------
(* The inductive strengthening for get_level: the present level is among   *)
(* those that one under way has seen, and only another thread's access     *)
(* moves the offset after its seek.                                        *)
LevelInv ==
  /\ LevelIsTrue
  /\ LevelFailsOnlyIfDisturbed
  /\ \A t \in Threads :
       /\ pc[t] # "idle" => result[t] = "none"
       /\ pc[t] \in {"seek_level", "read_level"} => high \in seen[t]
       /\ pc[t] = "read_level" /\ offset # 0 => during[t] \cap {"read", "write"} # {}

(* That for poll: after its seek the offset leaves the start by a write or *)
(* by a read that clears what is pending; and an edge stays pending until  *)
(* somebody reads.                                                         *)
PollInv ==
  /\ TriggeredIsFresh
  /\ TimeoutMeansNone
  /\ \A t \in Threads :
       /\ pc[t] # "idle" => result[t] = "none"
       /\ pc[t] = "clear" /\ offset # 0 /\ pending => during[t] \cap {"edge", "write"} # {}
       /\ pc[t] = "final" \/ (pc[t] = "poll" /\ pending) =>
            during[t] \cap {"edge", "write", "failed"} # {}
       /\ pc[t] # "idle" /\ "late_edge" \in during[t] /\ "read" \notin during[t] => pending
=============================================================================
