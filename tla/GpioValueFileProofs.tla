------------------------ MODULE GpioValueFileProofs ------------------------
(***************************************************************************)
(* Theorems about GpioValueFile, for any threads, any calls and, where not *)
(* said otherwise, any faults.                                             *)
(***************************************************************************)
EXTENDS GpioValueFile, TLAPS

(* TypeOK in four parts, and the steps that the actions are made of. *)
LineType == high \in BOOLEAN /\ direction \in {"in", "out"} /\ edge \in Edges \cup {"none"}
FileType == offset \in 0..2 /\ pending \in BOOLEAN
CallType ==
  /\ call \in [Threads -> Calls \cup {"none"}]
  /\ pc \in [Threads -> Locations]
  /\ result \in [Threads -> Results]
HistoryType ==
  /\ seen \in [Threads -> SUBSET BOOLEAN]
  /\ during \in [Threads -> SUBSET Events]

(* The parts make TypeOK. *)
LEMMA TypeParts == TypeOK <=> LineType /\ FileType /\ CallType /\ HistoryType
BY DEF TypeOK, LineType, FileType, CallType, HistoryType

(* Moving on within a call. *)
LEMMA GotoType ==
  ASSUME CallType, NEW t \in Threads, NEW l \in Locations, Goto(t, l)
  PROVE  CallType'
  BY DEF CallType, Goto

(* The return of a call. *)
LEMMA ReturnType ==
  ASSUME CallType, NEW t \in Threads, NEW r \in Results, Return(t, r)
  PROVE  CallType'
<1>1. "idle" \in Locations
  BY DEF Locations
<1> QED
  BY <1>1 DEF CallType, Return

(* A new level of the line. *)
LEMMA LevelType ==
  ASSUME HistoryType, NEW h \in BOOLEAN, Level(h)
  PROVE  /\ high' \in BOOLEAN
         /\ seen' \in [Threads -> SUBSET BOOLEAN]
<1>1. ASSUME NEW t \in Threads
      PROVE  (IF pc[t] \in {"seek_level", "read_level"}
              THEN seen[t] \cup {h} ELSE seen[t]) \in SUBSET BOOLEAN
  BY DEF HistoryType
<1> QED
  BY <1>1 DEF Level

(* An event in the history of some threads. *)
LEMMA RecordType ==
  ASSUME HistoryType, NEW T, NEW events \in SUBSET Events, Record(T, events)
  PROVE  during' \in [Threads -> SUBSET Events]
  BY DEF HistoryType, Record

(* A read, which may clear what is pending. *)
LEMMA ClearType ==
  ASSUME FileType, ReadMayClear
  PROVE  pending' \in BOOLEAN
  BY DEF FileType, ReadMayClear

(* A move of the offset. *)
LEMMA AdvanceType ==
  ASSUME FileType, NEW n \in Nat, Advance(n)
  PROVE  offset' \in 0..2
  BY DEF FileType, Advance

(* A step keeps the types. *)
LEMMA TypeStep == TypeOK /\ [Next]_vars => TypeOK'
<1> SUFFICES ASSUME TypeOK, [Next]_vars
             PROVE  TypeOK'
  OBVIOUS
<1> LineType /\ FileType /\ CallType /\ HistoryType
  BY TypeParts
<1> DEFINE Types == LineType' /\ FileType' /\ CallType' /\ HistoryType'
<1>1. ASSUME Change PROVE Types
  <2>1. Level(~high) /\ UNCHANGED <<direction, edge, offset, call, pc, result>>
    BY <1>1 DEF Change
  <2>2. high' \in BOOLEAN /\ seen' \in [Threads -> SUBSET BOOLEAN]
    <3>1. (~high) \in BOOLEAN
      OBVIOUS
    <3> QED
      BY <2>1, <3>1, LevelType
  <2>3. pending' \in BOOLEAN /\ during' \in [Threads -> SUBSET Events]
    BY <1>1, RecordType DEF Change, FileType, HistoryType, Events
  <2> QED
    BY <2>1, <2>2, <2>3 DEF LineType, FileType, CallType, HistoryType
<1>2. ASSUME NEW t \in Threads, NEW c \in Calls, Begin(t, c) PROVE Types
  <2>1. First(c) \in Locations
    BY DEF First, Calls, Locations
  <2>2. CallType'
    BY <1>2, <2>1 DEF CallType, Begin, Results
  <2>3. HistoryType'
    <3>1. {high} \in SUBSET BOOLEAN
      BY DEF LineType
    <3> QED
      BY <1>2, <3>1 DEF HistoryType, Begin
  <2> QED
    BY <1>2, <2>2, <2>3 DEF Begin, LineType, FileType, line, file
<1>3. ASSUME NEW t \in Threads, GetDirection(t) \/ GetEdge(t) \/ Poll(t) PROVE Types
  <2>1. UNCHANGED <<line, file, history>>
    BY <1>3 DEF GetDirection, GetEdge, Poll
  <2>2. \/ \E r \in Results : Return(t, r)
        \/ \E l \in Locations : Goto(t, l)
    <3>1. {"ERROR", "DIRECTION_ERROR", "INPUT", "OUTPUT", "EDGE_ERROR", "NONE",
           "EDGE", "TIMEOUT"} \subseteq Results
      BY DEF Results
    <3>2. {"edge", "seek", "final"} \subseteq Locations
      BY DEF Locations
    <3> QED
      BY <1>3, <3>1, <3>2 DEF GetDirection, GetEdge, Poll
  <2> QED
    BY <2>1, <2>2, ReturnType, GotoType
    DEF LineType, FileType, HistoryType, line, file, history
<1>4. ASSUME NEW t \in Threads, SetDirection(t) PROVE Types
  <2>1. \E r \in Results : Return(t, r)
    BY <1>4 DEF SetDirection, Results
  <2>2. UNCHANGED <<file, during, edge>>
    BY <1>4 DEF SetDirection, line
  <2>3. direction' \in {"in", "out"}
    BY <1>4 DEF SetDirection, LineType, line
  <2>4. \/ UNCHANGED <<high, seen>>
        \/ Level(FALSE)
    BY <1>4 DEF SetDirection, line
  <2>5. high' \in BOOLEAN /\ seen' \in [Threads -> SUBSET BOOLEAN]
    BY <2>4, LevelType DEF LineType, HistoryType
  <2> QED
    BY <2>1, <2>2, <2>3, <2>5, ReturnType DEF LineType, FileType, HistoryType, file
<1>5. ASSUME NEW t \in Threads, SetEdge(t) PROVE Types
  <2>1. \E r \in Results : Return(t, r)
    BY <1>5 DEF SetEdge, Results
  <2> QED
    BY <1>5, <2>1, ReturnType DEF SetEdge, LineType, FileType, HistoryType, file, history
<1>6. ASSUME NEW t \in Threads, WriteLevel(t) PROVE Types
  <2>1. \E r \in Results : Return(t, r)
    BY <1>6 DEF WriteLevel, Results
  <2>2. UNCHANGED <<direction, edge, pending>>
    BY <1>6 DEF WriteLevel
  <2>6. during' \in [Threads -> SUBSET Events]
    BY <1>6, RecordType DEF WriteLevel, HistoryType, history, Events
  <2>3. offset' \in 0..2
    BY <1>6, AdvanceType DEF WriteLevel, FileType
  <2>4. \/ UNCHANGED <<high, seen>>
        \/ \E h \in BOOLEAN : Level(h)
    BY <1>6 DEF WriteLevel, history
  <2>5. high' \in BOOLEAN /\ seen' \in [Threads -> SUBSET BOOLEAN]
    BY <2>4, LevelType DEF LineType, HistoryType
  <2> QED
    BY <2>1, <2>2, <2>3, <2>5, <2>6, ReturnType DEF LineType, FileType, HistoryType
<1>7. ASSUME NEW t \in Threads, SeekLevel(t) \/ Seek(t) PROVE Types
  <2>1. \E l \in Locations : Goto(t, l)
    BY <1>7 DEF SeekLevel, Seek, Locations
  <2>2. offset' = 0 /\ UNCHANGED <<line, pending, history>>
    BY <1>7 DEF SeekLevel, Seek, Rewound
  <2> QED
    BY <2>1, <2>2, GotoType DEF LineType, FileType, HistoryType, line, history
<1>8. ASSUME NEW t \in Threads, ReadLevel(t) PROVE Types
  <2>1. \E r \in Results : Return(t, r)
    BY <1>8 DEF ReadLevel, LevelOf, Results
  <2>2. UNCHANGED <<line, seen>>
    BY <1>8 DEF ReadLevel
  <2>3. FileType'
    BY <1>8, ClearType DEF ReadLevel, FileType, file
  <2>4. during' \in [Threads -> SUBSET Events]
    BY <1>8, RecordType DEF ReadLevel, Events
  <2> QED
    BY <2>1, <2>2, <2>3, <2>4, ReturnType DEF LineType, HistoryType, line
<1>9. ASSUME NEW t \in Threads, ReadClear(t) PROVE Types
  <2>1. \E l \in Locations : Goto(t, l)
    BY <1>9 DEF ReadClear, Locations
  <2>2. FileType'
    BY <1>9, ClearType, AdvanceType DEF ReadClear, FileType, file
  <2>3. HistoryType'
    BY <1>9, RecordType DEF ReadClear, HistoryType, Events
  <2> QED
    BY <1>9, <2>1, <2>2, <2>3, GotoType DEF ReadClear, LineType, line
<1>10. ASSUME NEW t \in Threads, FinalRead(t) PROVE Types
  <2>1. \E r \in Results : Return(t, r)
    BY <1>10 DEF FinalRead, Results
  <2>2. FileType'
    BY <1>10, ClearType, AdvanceType DEF FinalRead, FileType, file
  <2>3. during' \in [Threads -> SUBSET Events]
    BY <1>10, RecordType DEF FinalRead, Events, HistoryType
  <2> QED
    BY <1>10, <2>1, <2>2, <2>3, ReturnType DEF FinalRead, LineType, HistoryType, line
<1>11. ASSUME UNCHANGED vars PROVE Types
  BY <1>11 DEF vars, LineType, FileType, CallType, HistoryType
<1>12. Types
  BY <1>1, <1>2, <1>3, <1>4, <1>5, <1>6, <1>7, <1>8, <1>9, <1>10, <1>11 DEF Next, Step
<1> QED
  BY <1>12 DEF TypeOK, LineType, FileType, CallType, HistoryType

(* Type correctness of the calls on a handle (gpio.c:202-458). *)
THEOREM TypeCorrect == Spec => []TypeOK
<1>1. Init => TypeOK
  BY EdgesAssumption DEF Init, TypeOK, Locations, Results
<1> QED
  BY <1>1, TypeStep, PTL DEF Spec

-----------------------------------------------------------------------------
(* A new level is seen by every get_level under way, and none forgets.     *)
LEMMA LevelIsSeen ==
  ASSUME TypeOK, NEW h \in BOOLEAN, Level(h), NEW t \in Threads
  PROVE  /\ seen[t] \subseteq seen'[t]
         /\ pc[t] \in {"seek_level", "read_level"} => high' \in seen'[t]
  BY DEF TypeOK, Level

(* What a call knows of its history stays until it returns, except for     *)
(* late_edge, which its clearing read takes away.                          *)
LEMMA HistoryGrows ==
  ASSUME TypeOK, NEW T, NEW events, Record(T, events), NEW u \in Threads
  PROVE  /\ during[u] \subseteq during'[u]
         /\ pc[u] # "idle" /\ u \in T => events \subseteq during'[u]
         /\ \A e : e \notin events => (e \in during'[u] <=> e \in during[u])
  BY DEF TypeOK, Record

(* LevelInv in two parts, on levels that are returned and on failures.     *)
TrueInv ==
  /\ LevelIsTrue
  /\ \A t \in Threads :
       /\ pc[t] # "idle" => result[t] = "none"
       /\ pc[t] \in {"seek_level", "read_level"} => high \in seen[t]

Disturbed(t) == during[t] \cap {"read", "write"} # {}

FailInv ==
  /\ LevelFailsOnlyIfDisturbed
  /\ \A t \in Threads :
       /\ pc[t] # "idle" => result[t] = "none"
       /\ pc[t] = "read_level" /\ offset # 0 => Disturbed(t)

(* A step keeps TrueInv: when a read returns two characters its offset is  *)
(* at the start, so the first of them is the digit of the present level.   *)
LEMMA TrueStep == TypeOK /\ TrueInv /\ [Next]_vars => TrueInv'
<1> SUFFICES ASSUME TypeOK, TrueInv, [Next]_vars
             PROVE  TrueInv'
  OBVIOUS
<1> USE DEF TrueInv, LevelIsTrue, TypeOK
<1>1. CASE Change
  BY <1>1 DEF Change, Level
<1>2. ASSUME NEW t \in Threads, NEW c \in Calls, Begin(t, c)
      PROVE  TrueInv'
  BY <1>2 DEF Begin, line, file
<1>3. ASSUME NEW t \in Threads, GetDirection(t) \/ GetEdge(t)
      PROVE  TrueInv'
  BY <1>3 DEF GetDirection, GetEdge, Goto, Return, line, file, history
<1>4. ASSUME NEW t \in Threads, SetDirection(t) \/ WriteLevel(t)
      PROVE  TrueInv'
  <2>1. PICK r \in {"SUCCESS", "FAILURE"} : Return(t, r)
    BY <1>4 DEF SetDirection, WriteLevel
  <2>2. UNCHANGED <<high, seen>> \/ \E h \in BOOLEAN : Level(h)
    BY <1>4 DEF SetDirection, WriteLevel, line, history
  <2>3. \A u \in Threads :
          /\ seen[u] \subseteq seen'[u]
          /\ pc[u] \in {"seek_level", "read_level"} => high' \in seen'[u]
    BY <2>2, LevelIsSeen
  <2> QED
    BY <2>1, <2>3 DEF Return
<1>5. ASSUME NEW t \in Threads, SetEdge(t)
      PROVE  TrueInv'
  BY <1>5 DEF SetEdge, Return, file, history
<1>7. ASSUME NEW t \in Threads, SeekLevel(t) \/ Seek(t)
      PROVE  TrueInv'
  BY <1>7 DEF SeekLevel, Seek, Goto, line, history
<1>8. ASSUME NEW t \in Threads, ReadLevel(t)
      PROVE  TrueInv'
  <2>1. UNCHANGED <<line, seen>> /\ pc[t] = "read_level"
    BY <1>8 DEF ReadLevel
  <2>2. PICK r : /\ Return(t, r)
                 /\ \/ r = "LEVEL_ERROR"
                    \/ r = LevelOf(FirstChar) /\ offset = 0
    BY <1>8 DEF ReadLevel, WholeRead, Returned
  <2>3. r = "HIGH" => high = TRUE
    BY <2>2 DEF LevelOf, FirstChar
  <2>4. r = "LOW" => high = FALSE
    BY <2>2 DEF LevelOf, FirstChar
  <2> QED
    BY <2>1, <2>2, <2>3, <2>4 DEF Return, line
<1>9. ASSUME NEW t \in Threads, ReadClear(t)
      PROVE  TrueInv'
  BY <1>9 DEF ReadClear, Goto, line
<1>10. ASSUME NEW t \in Threads, Poll(t)
       PROVE  TrueInv'
  BY <1>10 DEF Poll, Goto, Return, line, file, history
<1>11. ASSUME NEW t \in Threads, FinalRead(t)
       PROVE  TrueInv'
  BY <1>11 DEF FinalRead, Return, line
<1>12. CASE UNCHANGED vars
  BY <1>12 DEF vars
<1> QED
  BY <1>1, <1>2, <1>3, <1>4, <1>5, <1>7, <1>8, <1>9, <1>10, <1>11, <1>12
  DEF Next, Step

(* Two facts make a step keep FailInv, for the thread that takes it and    *)
(* for the others.                                                         *)
LEMMA FailStep == TypeOK /\ FailInv /\ [Next]_vars => FailInv'
<1> SUFFICES ASSUME TypeOK, FailInv, [Next]_vars
             PROVE  FailInv'
  OBVIOUS
<1> USE DEF FailInv, LevelFailsOnlyIfDisturbed, Disturbed
<1>1. CASE Change
  <2>1. UNCHANGED <<offset, pc, result>>
    BY <1>1 DEF Change
  <2>2. \A u \in Threads : during[u] \subseteq during'[u]
    BY <1>1, HistoryGrows DEF Change
  <2> QED
    BY <2>1, <2>2
<1>2. ASSUME NEW t \in Threads, NEW c \in Calls, Begin(t, c)
      PROVE  FailInv'
  BY <1>2 DEF Begin, First, Calls, line, file, TypeOK
<1>3. ASSUME NEW t \in Threads, GetDirection(t) \/ GetEdge(t) \/ Poll(t) \/ SetEdge(t) \/ SetDirection(t)
      PROVE  FailInv'
  <2>1. UNCHANGED <<offset, during>>
    BY <1>3 DEF GetDirection, GetEdge, Poll, SetEdge, SetDirection, file, history
  <2>2. \/ \E r \in Results \ {"LEVEL_ERROR"} : Return(t, r)
        \/ \E l \in Locations \ {"read_level"} : Goto(t, l)
    <3>1. {"ERROR", "DIRECTION_ERROR", "INPUT", "OUTPUT", "EDGE_ERROR", "NONE", "EDGE",
           "TIMEOUT", "SUCCESS", "FAILURE"} \subseteq Results \ {"LEVEL_ERROR"}
      BY DEF Results
    <3>2. {"edge", "seek", "final"} \subseteq Locations \ {"read_level"}
      BY DEF Locations
    <3>3. CASE GetDirection(t)
      BY <3>1, <3>2, <3>3 DEF GetDirection
    <3>4. CASE GetEdge(t)
      BY <3>1, <3>2, <3>4 DEF GetEdge
    <3>5. CASE Poll(t)
      BY <3>1, <3>2, <3>5 DEF Poll
    <3>6. CASE SetEdge(t) \/ SetDirection(t)
      BY <3>1, <3>6 DEF SetEdge, SetDirection
    <3> QED
      BY <1>3, <3>3, <3>4, <3>5, <3>6
  <2>3. ASSUME NEW r \in Results \ {"LEVEL_ERROR"}, Return(t, r) PROVE FailInv'
    BY <2>1, <2>3 DEF Return, TypeOK
  <2>4. ASSUME NEW l \in Locations \ {"read_level"}, Goto(t, l) PROVE FailInv'
    <3>1. pc[t] # "idle"
      BY <1>3 DEF GetDirection, GetEdge, Poll, SetEdge, SetDirection
    <3> QED
      BY <2>1, <2>4, <3>1 DEF Goto, TypeOK
  <2> QED
    BY <2>2, <2>3, <2>4
<1>4. ASSUME NEW t \in Threads, SeekLevel(t) \/ Seek(t)
      PROVE  FailInv'
  <2>1. offset' = 0 /\ UNCHANGED during
    BY <1>4 DEF SeekLevel, Seek, Rewound, history
  <2> QED
    BY <1>4, <2>1 DEF SeekLevel, Seek, Goto, TypeOK
<1>5. ASSUME NEW t \in Threads, WriteLevel(t)
      PROVE  FailInv'
  <2>1. PICK r \in {"SUCCESS", "FAILURE"} : Return(t, r)
    BY <1>5 DEF WriteLevel
  <2>2. CASE UNCHANGED <<offset, during>>
    BY <2>1, <2>2 DEF Return, TypeOK
  <2>3. CASE Record(Threads \ {t}, {"write"})
    <3>1. \A u \in Threads : during[u] \subseteq during'[u]
      BY <2>3, HistoryGrows
    <3>2. \A u \in Threads \ {t} : pc[u] # "idle" => "write" \in during'[u]
      BY <2>3, HistoryGrows
    <3> QED
      BY <2>1, <3>1, <3>2 DEF Return, TypeOK
  <2> QED
    BY <1>5, <2>2, <2>3 DEF WriteLevel, history
<1>6. ASSUME NEW t \in Threads, ReadLevel(t)
      PROVE  FailInv'
  <2>1. pc[t] = "read_level"
    BY <1>6 DEF ReadLevel
  <2>2. CASE Return(t, "LEVEL_ERROR") /\ Record({t}, {"failed"}) /\ UNCHANGED file
    <3>1. \A u \in Threads : during[u] \subseteq during'[u]
      BY <2>2, HistoryGrows
    <3>2. "failed" \in during'[t]
      BY <2>1, <2>2, HistoryGrows
    <3> QED
      BY <2>1, <2>2, <3>1, <3>2 DEF Return, TypeOK, file
  <2>3. CASE /\ Return(t, IF WholeRead(Returned) THEN LevelOf(FirstChar) ELSE "LEVEL_ERROR")
             /\ Record(Threads \ {t}, {"read"})
    <3>1. \A u \in Threads : during[u] \subseteq during'[u]
      BY <2>3, HistoryGrows
    <3>2. \A u \in Threads \ {t} : pc[u] # "idle" => "read" \in during'[u]
      BY <2>3, HistoryGrows
    <3>3. result'[t] = "LEVEL_ERROR" => offset # 0
      BY <2>3 DEF Return, TypeOK, WholeRead, Returned, LevelOf
    <3> QED
      BY <2>1, <2>3, <3>1, <3>2, <3>3 DEF Return, TypeOK
  <2> QED
    BY <1>6, <2>2, <2>3 DEF ReadLevel
<1>7. ASSUME NEW t \in Threads, ReadClear(t)
      PROVE  FailInv'
  <2>1. pc[t] = "clear" /\ Goto(t, "poll")
    BY <1>7 DEF ReadClear
  <2>2. \A u \in Threads : Disturbed(u) => Disturbed(u)'
    BY <1>7, HistoryGrows DEF ReadClear, TypeOK
  <2>3. \A u \in Threads : "failed" \in during[u] => "failed" \in during'[u]
    BY <1>7, HistoryGrows DEF ReadClear, TypeOK
  <2>4. \/ UNCHANGED offset
        \/ \A u \in Threads \ {t} : pc[u] # "idle" => "read" \in during'[u]
    BY <1>7 DEF ReadClear, file, TypeOK
  <2> QED
    BY <2>1, <2>2, <2>3, <2>4 DEF Goto, TypeOK
<1>8. ASSUME NEW t \in Threads, FinalRead(t)
      PROVE  FailInv'
  <2>1. \A u \in Threads : during[u] \subseteq during'[u]
    BY <1>8, HistoryGrows DEF FinalRead
  <2>2. \/ UNCHANGED file
        \/ \A u \in Threads \ {t} : pc[u] # "idle" => "read" \in during'[u]
    BY <1>8, HistoryGrows DEF FinalRead
  <2>3. pc[t] = "final" /\ Return(t, "TRIGGERED")
    BY <1>8 DEF FinalRead
  <2> QED
    BY <2>1, <2>2, <2>3 DEF Return, TypeOK, file
<1>9. CASE UNCHANGED vars
  BY <1>9 DEF vars
<1> QED
  BY <1>1, <1>2, <1>3, <1>4, <1>5, <1>6, <1>7, <1>8, <1>9 DEF Next, Step

(* The inductive invariant of get_level. *)
THEOREM LevelInvariant == Spec => []LevelInv
<1>1. Init => TrueInv /\ FailInv
  BY DEF Init, TrueInv, LevelIsTrue, FailInv, LevelFailsOnlyIfDisturbed
<1>2. TrueInv /\ FailInv => LevelInv
  BY DEF TrueInv, FailInv, LevelInv, Disturbed
<1> QED
  BY <1>1, <1>2, TrueStep, FailStep, TypeCorrect, PTL DEF Spec

(* get_level (gpio.c:304-322) never returns a level that the line did not  *)
(* have during the call, whatever any number of threads do to the offset   *)
(* of the handle's file meanwhile, writing to it included.                 *)
THEOREM LevelsAreTrue == Spec => []LevelIsTrue
<1>1. LevelInv => LevelIsTrue
  BY DEF LevelInv
<1> QED
  BY <1>1, LevelInvariant, PTL

(* get_level (gpio.c:304-311) fails only if its read does or another       *)
(* thread uses the file during the call, whatever calls came before.       *)
THEOREM LevelsDoNotFailAlone == Spec => []LevelFailsOnlyIfDisturbed
<1>1. LevelInv => LevelFailsOnlyIfDisturbed
  BY DEF LevelInv
<1> QED
  BY <1>1, LevelInvariant, PTL

-----------------------------------------------------------------------------
(* A read of thread t that may clear what is pending: those in a call know *)
(* of it, and what t knows of edges is not lost.                           *)
LEMMA ReadSeen ==
  ASSUME TypeOK, NEW t \in Threads, Record(Threads \ {t}, {"read"}), NEW u \in Threads
  PROVE  /\ during[u] \subseteq during'[u]
         /\ u # t /\ pc[u] # "idle" => "read" \in during'[u]
         /\ during'[t] = during[t]
         /\ \A e \in Events \ {"read"} : e \in during'[u] <=> e \in during[u]
  BY DEF TypeOK, Record

(* A step keeps PollInv. *)
LEMMA PollStep == TypeOK /\ PollInv /\ [Next]_vars => PollInv'
<1> SUFFICES ASSUME TypeOK, PollInv, [Next]_vars
             PROVE  PollInv'
  OBVIOUS
<1> USE DEF PollInv, TriggeredIsFresh, TimeoutMeansNone
<1>1. CASE Change
  <2>1. CASE pending' = TRUE /\ Record(Threads, {"edge", "late_edge"})
    <3>1. \A u \in Threads : /\ during[u] \subseteq during'[u]
                             /\ pc[u] # "idle" => "edge" \in during'[u]
                             /\ pc[u] = "idle" => during'[u] = during[u]
      BY <2>1, HistoryGrows DEF Record
    <3>2. UNCHANGED <<offset, pc, result>>
      BY <1>1 DEF Change
    <3> QED
      BY <2>1, <3>1, <3>2
  <2>2. CASE UNCHANGED <<pending, during>>
    BY <1>1, <2>2 DEF Change
  <2> QED
    BY <1>1, <2>1, <2>2 DEF Change
<1>2. ASSUME NEW t \in Threads, NEW c \in Calls, Begin(t, c)
      PROVE  PollInv'
  BY <1>2 DEF Begin, First, Calls, line, file, TypeOK
<1>3. ASSUME NEW t \in Threads, GetDirection(t) \/ GetEdge(t) \/ SetEdge(t) \/ SetDirection(t)
      PROVE  PollInv'
  <2>1. UNCHANGED <<file, during>> /\ pc[t] # "idle"
    BY <1>3 DEF GetDirection, GetEdge, SetEdge, SetDirection, history
  <2>2. \/ \E r \in Results \ {"TRIGGERED", "TIMEOUT"} : Return(t, r)
        \/ \E l \in {"edge", "seek"} : Goto(t, l)
    <3>1. {"ERROR", "DIRECTION_ERROR", "INPUT", "OUTPUT", "EDGE_ERROR", "NONE", "EDGE",
           "SUCCESS", "FAILURE"} \subseteq Results \ {"TRIGGERED", "TIMEOUT"}
      BY DEF Results
    <3>2. CASE GetDirection(t) \/ GetEdge(t)
      BY <3>1, <3>2 DEF GetDirection, GetEdge
    <3>3. CASE SetEdge(t) \/ SetDirection(t)
      BY <3>1, <3>3 DEF SetEdge, SetDirection
    <3> QED
      BY <1>3, <3>2, <3>3
  <2>3. ASSUME NEW r \in Results \ {"TRIGGERED", "TIMEOUT"}, Return(t, r) PROVE PollInv'
    BY <2>1, <2>3 DEF Return, TypeOK, file
  <2>4. ASSUME NEW l \in {"edge", "seek"}, Goto(t, l) PROVE PollInv'
    BY <2>1, <2>4 DEF Goto, TypeOK, file
  <2> QED
    BY <2>2, <2>3, <2>4
<1>4. ASSUME NEW t \in Threads, SeekLevel(t) \/ Seek(t)
      PROVE  PollInv'
  <2>1. offset' = 0 /\ UNCHANGED <<pending, during>>
    BY <1>4 DEF SeekLevel, Seek, Rewound, history
  <2> QED
    BY <1>4, <2>1 DEF SeekLevel, Seek, Goto, TypeOK
<1>5. ASSUME NEW t \in Threads, WriteLevel(t)
      PROVE  PollInv'
  <2>1. PICK r \in {"SUCCESS", "FAILURE"} : Return(t, r)
    BY <1>5 DEF WriteLevel
  <2>2. UNCHANGED pending
    BY <1>5 DEF WriteLevel
  <2>3. CASE UNCHANGED <<offset, during>>
    BY <1>5, <2>1, <2>2, <2>3 DEF Return, TypeOK, WriteLevel
  <2>4. CASE Record(Threads \ {t}, {"write"})
    <3>1. \A u \in Threads :
            /\ during[u] \subseteq during'[u]
            /\ u # t /\ pc[u] # "idle" => "write" \in during'[u]
            /\ "read" \in during'[u] <=> "read" \in during[u]
            /\ "late_edge" \in during'[u] <=> "late_edge" \in during[u]
      BY <2>4, HistoryGrows
    <3> QED
      BY <1>5, <2>1, <2>2, <3>1 DEF Return, TypeOK, WriteLevel
  <2> QED
    BY <1>5, <2>3, <2>4 DEF WriteLevel, history
<1>6. ASSUME NEW t \in Threads, ReadLevel(t)
      PROVE  PollInv'
  <2>1. PICK r \in Results \ {"TRIGGERED", "TIMEOUT"} : Return(t, r)
    BY <1>6 DEF ReadLevel, LevelOf, Results
  <2>2. CASE Record({t}, {"failed"}) /\ UNCHANGED file
    <3>1. \A u \in Threads :
            /\ during[u] \subseteq during'[u]
            /\ "read" \in during'[u] <=> "read" \in during[u]
            /\ "late_edge" \in during'[u] <=> "late_edge" \in during[u]
      BY <2>2, HistoryGrows
    <3> QED
      BY <2>1, <2>2, <3>1 DEF Return, TypeOK, file
  <2>3. CASE ReadMayClear /\ Record(Threads \ {t}, {"read"})
    <3>1. pending' => pending /\ offset # 0
      BY <2>3 DEF ReadMayClear
    <3>2. \A u \in Threads :
            /\ during[u] \subseteq during'[u]
            /\ u # t /\ pc[u] # "idle" => "read" \in during'[u]
            /\ "late_edge" \in during'[u] <=> "late_edge" \in during[u]
      BY <2>3, ReadSeen DEF Events
    <3> QED
      BY <2>1, <3>1, <3>2 DEF Return, TypeOK
  <2> QED
    BY <1>6, <2>2, <2>3 DEF ReadLevel
<1>7. ASSUME NEW t \in Threads, ReadClear(t)
      PROVE  PollInv'
  <2>1. pc[t] = "clear" /\ Goto(t, "poll")
    BY <1>7 DEF ReadClear
  <2>2. CASE Record({t}, {"failed"}) /\ UNCHANGED file
    <3>1. \A u \in Threads :
            /\ during[u] \subseteq during'[u]
            /\ u = t => "failed" \in during'[u]
            /\ "read" \in during'[u] <=> "read" \in during[u]
            /\ "late_edge" \in during'[u] <=> "late_edge" \in during[u]
      BY <2>1, <2>2, HistoryGrows
    <3> QED
      BY <2>1, <2>2, <3>1 DEF Goto, TypeOK, file
  <2>3. CASE /\ ReadMayClear
             /\ during' = [u \in Threads |->
                             IF u = t THEN during[t] \ {"late_edge"}
                             ELSE IF pc[u] # "idle" THEN during[u] \cup {"read"}
                             ELSE during[u]]
    <3>1. pending' => pending /\ offset # 0
      BY <2>3 DEF ReadMayClear
    <3>2. "late_edge" \notin during'[t]
      BY <2>3 DEF TypeOK
    <3>3. \A u \in Threads :
            /\ \A e \in {"edge", "write", "failed"} : e \in during[u] => e \in during'[u]
            /\ u # t /\ pc[u] # "idle" => "read" \in during'[u]
            /\ u # t /\ pc[u] = "idle" => during'[u] = during[u]
      BY <2>3 DEF TypeOK
    <3> QED
      BY <2>1, <3>1, <3>2, <3>3 DEF Goto, TypeOK
  <2> QED
    BY <1>7, <2>2, <2>3 DEF ReadClear
<1>8. ASSUME NEW t \in Threads, Poll(t)
      PROVE  PollInv'
  <2>1. UNCHANGED <<file, during>> /\ pc[t] = "poll"
    BY <1>8 DEF Poll, history
  <2>2. CASE Return(t, "ERROR")
    BY <2>1, <2>2 DEF Return, TypeOK, file
  <2>3. CASE pending /\ Goto(t, "final")
    BY <2>1, <2>3 DEF Goto, TypeOK, file
  <2>4. CASE ~pending /\ Return(t, "TIMEOUT")
    BY <2>1, <2>4 DEF Return, TypeOK, file
  <2> QED
    BY <1>8, <2>2, <2>3, <2>4 DEF Poll, Reported
<1>9. ASSUME NEW t \in Threads, FinalRead(t)
      PROVE  PollInv'
  <2>1. pc[t] = "final" /\ Return(t, "TRIGGERED")
    BY <1>9 DEF FinalRead
  <2>2. CASE UNCHANGED <<file, during>>
    BY <2>1, <2>2 DEF Return, TypeOK, file
  <2>3. CASE ReadMayClear /\ Record(Threads \ {t}, {"read"})
    <3>1. pending' => pending /\ offset # 0
      BY <2>3 DEF ReadMayClear
    <3>2. \A u \in Threads :
            /\ during[u] \subseteq during'[u]
            /\ u # t /\ pc[u] # "idle" => "read" \in during'[u]
            /\ "late_edge" \in during'[u] <=> "late_edge" \in during[u]
      BY <2>3, ReadSeen DEF Events
    <3> QED
      BY <2>1, <3>1, <3>2 DEF Return, TypeOK
  <2> QED
    BY <1>9, <2>2, <2>3 DEF FinalRead
<1>10. CASE UNCHANGED vars
  BY <1>10 DEF vars
<1> QED
  BY <1>1, <1>2, <1>3, <1>4, <1>5, <1>6, <1>7, <1>8, <1>9, <1>10 DEF Next, Step

(* The inductive invariant of poll. *)
THEOREM PollInvariant == Spec => []PollInv
<1>1. Init => PollInv
  BY DEF Init, PollInv, TriggeredIsFresh, TimeoutMeansNone
<1> QED
  BY <1>1, PollStep, TypeCorrect, PTL DEF Spec

(* A poll of the callback thread or of wait (gpio.c:413-429) is triggered  *)
(* only by an edge that came after the call began, with any number of      *)
(* other threads reading the handle's file; the exceptions are a clearing  *)
(* read that fails and another thread's write.                             *)
THEOREM TriggersAreFresh == Spec => []TriggeredIsFresh
<1>1. PollInv => TriggeredIsFresh
  BY DEF PollInv
<1> QED
  BY <1>1, PollInvariant, PTL

(* A wait (gpio.c:413-430) times out over an edge only if another thread   *)
(* read the file during the call, whatever calls fail.                     *)
THEOREM TimeoutsAreTrue == Spec => []TimeoutMeansNone
<1>1. PollInv => TimeoutMeansNone
  BY DEF PollInv
<1> QED
  BY <1>1, PollInvariant, PTL
-----------------------------------------------------------------------------
(* The finding of gpio.c:304 has no other cause than another thread that   *)
(* reads the value file: the calls that do, and where a thread that makes  *)
(* none of them never is.                                                  *)
Reading == {"watch", "wait", "get_level"}

Alone(t) ==
  \A u \in Threads \ {t} :
    /\ call[u] \notin Reading
    /\ pc[u] \notin {"seek", "clear", "poll", "final", "seek_level", "read_level"}

(* In a call, a thread waits only in the poll of the callback thread, and  *)
(* when there is no edge to write: what ENABLED Step(t) says.              *)
CanStep(t) ==
  /\ pc[t] # "idle"
  /\ pc[t] = "poll" => pending \/ call[t] = "wait" \/ "poll" \in Faults
  /\ pc[t] = "new_edge" => Edges # {} \/ PathFails("write")

Waiting(t) == call[t] = "watch" /\ pc[t] = "poll" /\ pending

(* The calls that the other threads may make keep them off the value file. *)
LEMMA AloneStep ==
  ASSUME NEW t \in Threads, \A u \in Threads \ {t} : CallsOf[u] \cap Reading = {},
         TypeOK, Alone(t), [Next]_vars
  PROVE  Alone(t)'
<1>1. ASSUME NEW u \in Threads \ {t}, NEW c \in Calls, Begin(u, c) PROVE Alone(t)'
  <2>1. c \notin Reading
    BY <1>1 DEF Begin
  <2>2. First(c) \notin {"seek", "clear", "poll", "final", "seek_level", "read_level"}
    BY <2>1 DEF First, Calls, Reading
  <2> QED
    BY <1>1, <2>1, <2>2 DEF Begin, Alone, TypeOK
<1>2. ASSUME NEW c \in Calls, Begin(t, c) PROVE Alone(t)'
  BY <1>2 DEF Begin, Alone, TypeOK
<1>3. ASSUME NEW u \in Threads, Step(u)
      PROVE  /\ call' = call
             /\ \A v \in Threads \ {u} : pc'[v] = pc[v]
  BY <1>3 DEF Step, GetDirection, GetEdge, SetDirection, SetEdge, WriteLevel, SeekLevel,
              ReadLevel, Seek, ReadClear, Poll, FinalRead, Goto, Return, TypeOK
<1>4. ASSUME Step(t) PROVE Alone(t)'
  BY <1>3, <1>4 DEF Alone
<1>5. ASSUME NEW u \in Threads \ {t}, Step(u) PROVE Alone(t)'
  <2>1. pc'[u] \in {"idle", "edge"}
    <3>1. pc[u] \notin {"seek", "clear", "poll", "final", "seek_level", "read_level"}
          /\ call[u] # "wait"
      BY DEF Alone, Reading
    <3> QED
      BY <1>5, <3>1 DEF Step, GetDirection, GetEdge, SetDirection, SetEdge, WriteLevel,
         SeekLevel, ReadLevel, Seek, ReadClear, Poll, FinalRead, Goto, Return, TypeOK
  <2> QED
    BY <1>3, <1>5, <2>1 DEF Alone
<1>6. CASE Change \/ UNCHANGED vars
  BY <1>6 DEF Change, vars, Alone
<1> QED
  BY <1>1, <1>2, <1>4, <1>5, <1>6 DEF Next

(* What waits for t stays until t takes it.                                *)
LEMMA WaitingStep ==
  ASSUME NEW t \in Threads, TypeOK, Alone(t), Waiting(t), [Next]_vars
  PROVE  /\ CanStep(t)
         /\ Waiting(t)' \/ (pc[t] # "poll")'
         /\ Step(t) => (pc[t] # "poll")'
<1>1. CanStep(t)
  BY DEF CanStep, Waiting
<1>2. ASSUME Step(t) PROVE pc'[t] \in {"idle", "final"}
  <2>1. Poll(t)
    BY <1>2 DEF Waiting, Step, GetDirection, GetEdge, SetDirection, SetEdge, WriteLevel,
                SeekLevel, ReadLevel, Seek, ReadClear, FinalRead
  <2> QED
    BY <2>1 DEF Poll, Goto, Return, TypeOK
<1>3. ASSUME NEW u \in Threads \ {t}, Step(u) PROVE Waiting(t)'
  <2>1. GetDirection(u) \/ GetEdge(u) \/ SetDirection(u) \/ SetEdge(u) \/ WriteLevel(u)
    BY <1>3 DEF Alone, Step, SeekLevel, ReadLevel, Seek, ReadClear, Poll, FinalRead
  <2>2. pending' = pending
    BY <2>1 DEF GetDirection, GetEdge, SetDirection, SetEdge, WriteLevel, file
  <2>3. call' = call /\ pc'[t] = pc[t]
    BY <2>1 DEF GetDirection, GetEdge, SetDirection, SetEdge, WriteLevel, Goto, Return, TypeOK
  <2> QED
    BY <2>2, <2>3 DEF Waiting
<1>4. ASSUME NEW u \in Threads, NEW c \in Calls, Begin(u, c) PROVE Waiting(t)'
  <2>1. u # t
    BY <1>4 DEF Begin, Waiting
  <2>2. pending' = pending
    BY <1>4 DEF Begin, file
  <2>3. call'[t] = call[t] /\ pc'[t] = pc[t]
    BY <1>4, <2>1 DEF Begin, TypeOK
  <2> QED
    BY <2>2, <2>3 DEF Waiting
<1>5. ASSUME Change PROVE Waiting(t)'
  <2>1. UNCHANGED <<call, pc>>
    BY <1>5 DEF Change
  <2>2. pending' = TRUE \/ pending' = pending
    BY <1>5 DEF Change
  <2> QED
    BY <2>1, <2>2 DEF Waiting
<1>6. ASSUME UNCHANGED vars PROVE Waiting(t)'
  BY <1>6 DEF vars, Waiting
<1> QED
  BY <1>1, <1>2, <1>3, <1>4, <1>5, <1>6 DEF Next

(* The header's promise (libsoc_gpio.h:209) holds of a handle whose value  *)
(* file no other thread reads: an interrupt that finds the thread in poll  *)
(* is reported, or poll fails, whatever the others set and write.          *)
THEOREM UndisturbedInterruptIsReported ==
  ASSUME NEW t \in Threads, \A u \in Threads \ {t} : CallsOf[u] \cap Reading = {}
  PROVE  Spec /\ ([]<>~CanStep(t) \/ []<><<Step(t)>>_vars) =>
           (call[t] = "watch" /\ pc[t] = "poll" /\ pending ~> pc[t] # "poll")
<1> DEFINE Inv == TypeOK /\ Alone(t)
           Left == pc[t] # "poll"
           Pend == Waiting(t)
           Able == CanStep(t)
           Acts == Step(t)
<1>1. Init => Alone(t)
  BY DEF Init, Alone, Reading
<1>2. Spec => []Inv
  BY <1>1, AloneStep, TypeCorrect, PTL DEF Spec
<1>3. Inv /\ Pend /\ [Next]_vars => Able /\ (Pend' \/ Left') /\ (Acts => Left')
  BY WaitingStep
<1> HIDE DEF Inv, Left, Pend, Able, Acts
<1>4. Spec /\ ([]<>~Able \/ []<><<Acts>>_vars) => (Pend ~> Left)
  BY <1>2, <1>3, PTL DEF Spec
<1> QED
  BY <1>4 DEF Left, Pend, Able, Acts, Waiting
=============================================================================
