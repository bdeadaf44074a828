---------------------------- MODULE PyGpioProofs ----------------------------
(***************************************************************************)
(* Proofs about PyGpio for any set of GPIO objects, any list of them (one  *)
(* that names an object twice included) and any Faults: every safety       *)
(* property that the run checks.                                           *)
(***************************************************************************)
EXTENDS PyGpio, TLAPS

(* No two places of the main thread are taken for one another. *)
LEMMA Places ==
  /\ \A l, m : <<l>> = <<m>> => l = m
  /\ \A l, m, g : <<l>> # <<m, g>>
  /\ \A l, m, g, h : <<l, g>> = <<m, h>> => l = m /\ g = h
  /\ \A l \in {"out", "opening", "body", "closing"} : <<l>> \in MainLocations
  /\ \A l \in {"starting", "stopped", "joining"}, g \in Gpios :
       <<l, g>> \in MainLocations
<1>1. \A l, m, g : <<l>> # <<m, g>>
  <2> SUFFICES ASSUME NEW l, NEW m, NEW g, <<l>> = <<m, g>> PROVE FALSE
    OBVIOUS
  <2>1. Len(<<l>>) = 1 /\ Len(<<m, g>>) = 2
    OBVIOUS
  <2> QED
    BY <2>1
<1>2. \A l, m : <<l>> = <<m>> => l = m
  OBVIOUS
<1>3. \A l, m, g, h : <<l, g>> = <<m, h>> => l = m /\ g = h
  OBVIOUS
<1> QED
  BY <1>1, <1>2, <1>3 DEF MainLocations

LEMMA OrderAt ==
  ASSUME NEW i \in 1..Len(Order)
  PROVE  Order[i] \in Gpios
BY OrderAssumption

LEMMA LenIsNat == Len(Order) \in Nat
BY OrderAssumption

LEMMA TypeStep ==
  ASSUME TypeOK, [Next]_vars,
         main = <<"opening">> => next >= 1
  PROVE  TypeOK'
<1> USE LenIsNat
<1>1. CASE Enter
  BY <1>1, Places DEF Enter, objects, handlers, TypeOK
<1>2. CASE LeaveBody
  BY <1>2, Places DEF LeaveBody, objects, handlers, TypeOK
<1>3. CASE OpenNext
  <2>1. next \in 1..Len(Order) /\ Order[next] \in Gpios
    BY <1>3, OrderAt DEF OpenNext, TypeOK
  <2>2. main' \in MainLocations /\ next' \in 0..Len(Order) + 1
    BY <1>3, <2>1, Places DEF OpenNext, Raise, ClosesFrom, TypeOK
  <2> QED
    BY <1>3, <2>1, <2>2 DEF OpenNext, objects, handlers, TypeOK
<1>4. CASE EnterBody
  BY <1>4, Places DEF EnterBody, objects, handlers, TypeOK
<1>5. CASE CloseNext
  <2>1. next' \in 0..Len(Order) + 1 /\ UNCHANGED <<main, running, thread, pending, fired>>
    BY <1>5 DEF CloseNext, handlers, TypeOK
  <2>2. handle' \in [Gpios -> {"None", "NULL", "native"}]
    BY <1>5 DEF CloseNext, Closed, objects, TypeOK
  <2>3. native' \in [Gpios -> {"gone", "live", "kept"}]
    BY <1>5 DEF CloseNext, objects, TypeOK
  <2> QED
    BY <2>1, <2>2, <2>3 DEF TypeOK
<1>6. CASE Exit
  BY <1>6, Places DEF Exit, objects, handlers, TypeOK
<1>7. ASSUME NEW g \in Gpios,
             StartReturns(g) \/ Join(g) \/ JoinReturns(g) \/ Start(g) \/ Stop(g)
      PROVE  TypeOK'
  <2>1. main' \in MainLocations
    BY <1>7, Places DEF StartReturns, Join, JoinReturns, Start, Stop
  <2>2. running' \in [Gpios -> BOOLEAN] /\ thread' \in [Gpios -> ThreadLocations]
    BY <1>7 DEF StartReturns, Join, JoinReturns, Start, Stop, FlagAtInit,
                handlers, TypeOK, ThreadLocations
  <2>3. UNCHANGED <<objects, pending, fired, next>>
    BY <1>7 DEF StartReturns, Join, JoinReturns, Start, Stop, handlers
  <2> QED
    BY <2>1, <2>2, <2>3 DEF objects, TypeOK
<1>8. ASSUME NEW g \in Gpios, Thread(g) \/ Interrupt(g)
      PROVE  TypeOK'
  <2>1. UNCHANGED <<objects, main, next>>
    BY <1>8 DEF Thread, Run, TestFlag, ReadClear, Poll, FinalRead, IsrReturns, Interrupt
  <2>2. running' \in [Gpios -> BOOLEAN]
    BY <1>8 DEF Thread, Run, TestFlag, ReadClear, Poll, FinalRead, IsrReturns,
                Interrupt, TypeOK
  <2>3. thread' \in [Gpios -> ThreadLocations]
    BY <1>8 DEF Thread, Run, TestFlag, ReadClear, Poll, FinalRead, IsrReturns,
                Interrupt, Go, AfterTimeout, TypeOK, ThreadLocations
  <2>4. pending' \in [Gpios -> BOOLEAN] /\ fired' \in [Gpios -> BOOLEAN]
    BY <1>8 DEF Thread, Run, TestFlag, ReadClear, Poll, FinalRead, IsrReturns,
                Interrupt, TypeOK
  <2> QED
    BY <2>1, <2>2, <2>3, <2>4 DEF objects, TypeOK
<1>9. CASE UNCHANGED vars
  BY <1>9 DEF vars, TypeOK
<1> QED
  BY <1>1, <1>2, <1>3, <1>4, <1>5, <1>6, <1>7, <1>8, <1>9 DEF Next, CallStep

-----------------------------------------------------------------------------
(* Handlers live in the body of the block; outside of stop and join, where *)
(* it is down, the flag of a handler is up exactly when its thread has set *)
(* it and is not joined, and a thread that has not set it is waited for.   *)
Idle == {<<"out">>, <<"opening">>, <<"closing">>}

HandlerInv(g) ==
  /\ main \in Idle => thread[g] = "none"
  /\ thread[g] # "none" => handle[g] = "native"
  /\ thread[g] = "new" => main = <<"starting", g>>
  /\ running[g] => thread[g] \notin {"none", "new"}
  /\ IF main \in {<<"stopped", g>>, <<"joining", g>>}
     THEN ~running[g]
     ELSE running[g] <=> thread[g] \notin {"none", "new"}

(* A poll that found something pending found it after its clearing read.   *)
EdgeInv(g) ==
  /\ thread[g] = "poll" /\ pending[g] => fired[g]
  /\ thread[g] \in {"final", "isr"} => fired[g]

(* A handle of an object is live, and every live handle is one and is in   *)
(* the part of the list that is still to be closed.                        *)
ListInv ==
  /\ main = <<"opening">> => next >= 1
  /\ main = <<"closing">> => next <= Len(Order)
  /\ \A g \in Gpios : native[g] = "live" <=> handle[g] = "native"
  /\ \A g \in Gpios : handle[g] = "native" =>
       /\ main # <<"out">>
       /\ \E i \in 1..Len(Order) :
            Order[i] = g /\ (main = <<"closing">> => i <= next)

BlockInv ==
  /\ TypeOK
  /\ ListInv
  /\ \A g \in Gpios : HandlerInv(g) /\ EdgeInv(g)

LEMMA InitialBlock == Init => BlockInv
BY Places, LenIsNat
   DEF Init, BlockInv, TypeOK, ListInv, HandlerInv, EdgeInv, ThreadLocations

(* What the threads and the kernel do leaves the main thread's list alone. *)
LEMMA HandlerStep ==
  ASSUME BlockInv, NEW g \in Gpios, Thread(g) \/ Interrupt(g)
  PROVE  ListInv' /\ \A h \in Gpios : HandlerInv(h)' /\ EdgeInv(h)'
<1> USE DEF objects
<1>1. UNCHANGED <<objects, main, next>>
  BY DEF Thread, Run, TestFlag, ReadClear, Poll, FinalRead, IsrReturns, Interrupt
<1>2. ListInv'
  BY <1>1 DEF BlockInv, ListInv
<1>3. ASSUME NEW h \in Gpios, h # g
      PROVE  HandlerInv(h)' /\ EdgeInv(h)'
  <2>1. /\ thread'[h] = thread[h] /\ running'[h] = running[h]
        /\ pending'[h] = pending[h] /\ fired'[h] = fired[h]
    BY <1>3 DEF Thread, Run, TestFlag, ReadClear, Poll, FinalRead, IsrReturns,
                Interrupt, Go, BlockInv, TypeOK
  <2> QED
    BY <1>1, <2>1 DEF BlockInv, HandlerInv, EdgeInv
<1>4. HandlerInv(g)' /\ EdgeInv(g)'
  <2> USE <1>1 DEF BlockInv, TypeOK, HandlerInv, EdgeInv, Go, AfterTimeout
  <2>1. CASE Run(g)
    BY <2>1, Places DEF Run, Idle
  <2>2. CASE TestFlag(g)
    BY <2>2 DEF TestFlag
  <2>3. CASE ReadClear(g)
    BY <2>3 DEF ReadClear
  <2>4. CASE Poll(g)
    BY <2>4 DEF Poll
  <2>5. CASE FinalRead(g)
    BY <2>5 DEF FinalRead
  <2>6. CASE IsrReturns(g)
    BY <2>6 DEF IsrReturns
  <2>7. CASE Interrupt(g)
    BY <2>7 DEF Interrupt
  <2> QED
    BY <2>1, <2>2, <2>3, <2>4, <2>5, <2>6, <2>7 DEF Thread
<1> QED
  BY <1>2, <1>3, <1>4

(* The calls of the main thread on a handler. *)
LEMMA ControlStep ==
  ASSUME BlockInv, NEW g \in Gpios,
         StartReturns(g) \/ Join(g) \/ JoinReturns(g) \/ Start(g) \/ Stop(g)
  PROVE  ListInv' /\ \A h \in Gpios : HandlerInv(h)' /\ EdgeInv(h)'
<1> USE DEF objects
<1>1. UNCHANGED <<objects, pending, fired, next>>
  BY DEF StartReturns, Join, JoinReturns, Start, Stop, handlers
<1>2. main \notin Idle /\ main' \notin Idle
  BY Places DEF StartReturns, Join, JoinReturns, Start, Stop, Idle
<1>3. ListInv'
  BY <1>1, <1>2 DEF BlockInv, ListInv, Idle
<1>4. ASSUME NEW h \in Gpios, h # g
      PROVE  HandlerInv(h)' /\ EdgeInv(h)'
  <2>1. thread'[h] = thread[h] /\ running'[h] = running[h]
    BY <1>4 DEF StartReturns, Join, JoinReturns, Start, Stop, handlers, BlockInv, TypeOK
  <2>2. /\ main \notin {<<"starting", h>>, <<"stopped", h>>, <<"joining", h>>}
        /\ main' \notin {<<"starting", h>>, <<"stopped", h>>, <<"joining", h>>}
    BY <1>4, Places DEF StartReturns, Join, JoinReturns, Start, Stop
  <2> QED
    BY <1>1, <1>2, <2>1, <2>2 DEF BlockInv, HandlerInv, EdgeInv
<1>5. HandlerInv(g)' /\ EdgeInv(g)'
  <2> USE <1>1, <1>2, Places DEF BlockInv, TypeOK, HandlerInv, EdgeInv
  <2>1. CASE Start(g)
    BY <2>1 DEF Start, FlagAtInit
  <2>2. CASE StartReturns(g)
    BY <2>2 DEF StartReturns, handlers
  <2>3. CASE Stop(g)
    BY <2>3 DEF Stop
  <2>4. CASE Join(g)
    BY <2>4 DEF Join, handlers
  <2>5. CASE JoinReturns(g)
    BY <2>5 DEF JoinReturns, Joined, handlers
  <2> QED
    BY <2>1, <2>2, <2>3, <2>4, <2>5
<1> QED
  BY <1>3, <1>4, <1>5

(* Opening and closing the list; there is no thread meanwhile. *)
LEMMA ListStep ==
  ASSUME BlockInv, Enter \/ OpenNext \/ EnterBody \/ LeaveBody \/ CloseNext \/ Exit
  PROVE  ListInv' /\ \A h \in Gpios : HandlerInv(h)' /\ EdgeInv(h)'
<1> USE LenIsNat DEF objects
<1>1. UNCHANGED <<running, thread, fired>>
  BY DEF Enter, OpenNext, EnterBody, LeaveBody, CloseNext, Exit, handlers
<1>2. \A h \in Gpios : thread[h] = "none"
  <2>1. CASE LeaveBody
    BY <2>1, Places DEF LeaveBody, BlockInv, HandlerInv
  <2>2. CASE main \in Idle
    BY <2>2 DEF BlockInv, HandlerInv
  <2> QED
    BY <2>1, <2>2 DEF Enter, OpenNext, EnterBody, CloseNext, Exit, Idle
<1>3. \A h \in Gpios : ~running[h]
  BY <1>2 DEF BlockInv, HandlerInv
<1>4. \A h \in Gpios : HandlerInv(h)' /\ EdgeInv(h)'
  BY <1>1, <1>2, <1>3 DEF HandlerInv, EdgeInv
<1>5. ListInv'
  <2> USE DEF BlockInv, TypeOK, ListInv
  <2>1. CASE Enter
    BY <2>1, Places DEF Enter
  <2>2. CASE OpenNext
    <3>1. next \in 1..Len(Order)
      BY <2>2 DEF OpenNext
    <3>2. Order[next] \in Gpios
      BY <3>1, OrderAt
    <3>3. \/ main' = <<"closing">> /\ next' = Len(Order)
          \/ main' = <<"opening">> /\ (next' = next \/ next' = next + 1)
      BY <2>2 DEF OpenNext, Raise, ClosesFrom
    <3>4. \A h \in Gpios : handle'[h] = "native" =>
            \E i \in 1..Len(Order) : Order[i] = h
      BY <2>2, <3>1, <3>2 DEF OpenNext
    <3>5. main' # <<"out">>
      BY <3>3, Places
    <3>6. \A h \in Gpios : native'[h] = "live" <=> handle'[h] = "native"
      BY <2>2, <3>2 DEF OpenNext
    <3> QED
      BY <3>1, <3>3, <3>4, <3>5, <3>6, Places
  <2>3. CASE EnterBody
    BY <2>3, Places DEF EnterBody
  <2>4. CASE LeaveBody
    BY <2>4, Places DEF LeaveBody
  <2>5. CASE CloseNext
    <3>1. next \in 1..Len(Order) /\ next' = next - 1 /\ main' = main
      BY <2>5 DEF CloseNext
    <3>2. ASSUME NEW h \in Gpios, handle'[h] = "native"
          PROVE  handle[h] = "native" /\ h # Order[next]
      BY <2>5, <3>2 DEF CloseNext, Closed
    <3>3. ASSUME NEW h \in Gpios, handle'[h] = "native"
          PROVE  \E i \in 1..Len(Order) : Order[i] = h /\ i <= next'
      <4>1. PICK i \in 1..Len(Order) : Order[i] = h /\ i <= next
        BY <2>5, <3>2, <3>3 DEF CloseNext
      <4>2. i # next
        BY <3>2, <3>3, <4>1
      <4> QED
        BY <3>1, <4>1, <4>2
    <3>4. main' # <<"out">> /\ main' # <<"opening">>
      BY <2>5, <3>1, Places DEF CloseNext
    <3>5. \A h \in Gpios : native'[h] = "live" <=> handle'[h] = "native"
      BY <2>5, OrderAt DEF CloseNext, Closed
    <3> QED
      BY <3>1, <3>3, <3>4, <3>5
  <2>6. CASE Exit
    BY <2>6, Places DEF Exit
  <2> QED
    BY <2>1, <2>2, <2>3, <2>4, <2>5, <2>6
<1> QED
  BY <1>4, <1>5

LEMMA BlockStep ==
  ASSUME BlockInv, [Next]_vars
  PROVE  BlockInv'
<1>1. TypeOK'
  BY TypeStep DEF BlockInv, ListInv
<1>2. CASE Enter \/ OpenNext \/ EnterBody \/ LeaveBody \/ CloseNext \/ Exit
  BY <1>1, <1>2, ListStep DEF BlockInv
<1>3. ASSUME NEW g \in Gpios,
             StartReturns(g) \/ Join(g) \/ JoinReturns(g) \/ Start(g) \/ Stop(g)
      PROVE  BlockInv'
  BY <1>1, <1>3, ControlStep DEF BlockInv
<1>4. ASSUME NEW g \in Gpios, Thread(g) \/ Interrupt(g)
      PROVE  BlockInv'
  BY <1>1, <1>4, HandlerStep DEF BlockInv
<1>5. CASE UNCHANGED vars
  <2>1. ListInv' /\ \A g \in Gpios : HandlerInv(g)' /\ EdgeInv(g)'
    BY <1>5 DEF BlockInv, ListInv, HandlerInv, EdgeInv, vars
  <2> QED
    BY <1>1, <2>1 DEF BlockInv
<1> QED
  BY <1>2, <1>3, <1>4, <1>5 DEF Next, CallStep

LEMMA BlockIsInvariant == Spec => []BlockInv
<1>1. Init => BlockInv
  BY InitialBlock
<1>2. BlockInv /\ [Next]_vars => BlockInv'
  BY BlockStep
<1> QED
  BY <1>1, <1>2, PTL DEF Spec

-----------------------------------------------------------------------------
(* Type correctness of the binding's objects and of both kinds of thread.  *)
THEOREM TypeCorrect == Spec => []TypeOK
<1>1. BlockInv => TypeOK
  BY DEF BlockInv
<1> QED
  BY <1>1, BlockIsInvariant, PTL

(* No handler polls a handle that was given to libsoc_gpio_free.           *)
THEOREM PollsAreOnOpenHandles == Spec => []PollUsesOpenHandle
<1>1. BlockInv => PollUsesOpenHandle
  BY DEF BlockInv, ListInv, HandlerInv, PollUsesOpenHandle
<1> QED
  BY <1>1, BlockIsInvariant, PTL

(* No stop is lost to a thread that sets its flag late, no thread survives *)
(* its join, and one that an exception ended leaves its flag up until the  *)
(* join.                                                                   *)
THEOREM FlagsTellThreads == Spec => []FlagTellsThread
<1>1. BlockInv => FlagTellsThread
  <2> SUFFICES ASSUME BlockInv, main = <<"body">>, NEW g \in Gpios
               PROVE  running[g] <=> thread[g] # "none"
    BY DEF FlagTellsThread
  <2>1. main \notin {<<"starting", g>>, <<"stopped", g>>, <<"joining", g>>}
    BY Places
  <2>2. running[g] <=> thread[g] \notin {"none", "new"}
    BY <2>1 DEF BlockInv, HandlerInv
  <2>3. thread[g] # "new"
    BY <2>1 DEF BlockInv, HandlerInv
  <2> QED
    BY <2>2, <2>3
<1> QED
  BY <1>1, BlockIsInvariant, PTL

(* A callback of Python is called for an edge of its own poll.             *)
THEOREM CallbacksAreForEdges == Spec => []IsrForEdge
<1>1. BlockInv => IsrForEdge
  BY DEF BlockInv, EdgeInv, IsrForEdge
<1> QED
  BY <1>1, BlockIsInvariant, PTL

(* Wherever opening the list fails, the block closes what it opened, be it *)
(* that libsoc_gpio_free fails and keeps it.                               *)
THEOREM BlocksCloseTheirGpios == Spec => []ClosedAfterBlock
<1>1. BlockInv => ClosedAfterBlock
  BY DEF BlockInv, ListInv, ClosedAfterBlock
<1> QED
  BY <1>1, BlockIsInvariant, PTL

-----------------------------------------------------------------------------
(* Calls return.  The prover knows nothing of ENABLED, so the fairness of  *)
(* Spec is written out, with what enables the two actions.                 *)
CanCall ==
  \/ main \in {<<"opening">>, <<"closing">>}
  \/ \E g \in Gpios :
       \/ main = <<"starting", g>> /\ running[g]
       \/ main = <<"stopped", g>>
       \/ main = <<"joining", g>> /\ Joined(g)

CallsProceed == []<>~CanCall \/ []<><<CallStep>>_vars

CanRun(g) == thread[g] \notin {"none", "raised"}

ThreadRuns(g) == []<>~CanRun(g) \/ []<><<Thread(g)>>_vars

(* Start waits for a thread that exists.                                   *)
StartInv(g) == main = <<"starting", g>> => thread[g] # "none"

WaitInv == BlockInv /\ \A g \in Gpios : StartInv(g)

(* What a step of one handler's thread does to that handler.               *)
LEMMA ThreadStep ==
  ASSUME TypeOK, NEW g \in Gpios, Thread(g)
  PROVE  /\ UNCHANGED <<main, next>>
         /\ \/ thread[g] = "new" /\ thread'[g] = "test" /\ running'[g]
            \/ /\ running'[g] <=> running[g]
               /\ \/ /\ thread[g] = "test"
                     /\ thread'[g] = IF running[g] THEN "clear" ELSE "none"
                  \/ thread[g] = "clear" /\ thread'[g] = "poll"
                  \/ thread[g] = "poll" /\ thread'[g] \in {"final", "test"}
                  \/ thread[g] = "final" /\ thread'[g] = "isr"
                  \/ thread[g] = "isr" /\ thread'[g] \in {"test", "raised"}
         /\ \A h \in Gpios \ {g} : thread'[h] = thread[h] /\ running'[h] = running[h]
<1> USE DEF TypeOK, Go, AfterTimeout
<1>1. CASE Run(g)
  BY <1>1 DEF Run
<1>2. CASE TestFlag(g)
  BY <1>2 DEF TestFlag
<1>3. CASE ReadClear(g)
  BY <1>3 DEF ReadClear
<1>4. CASE Poll(g)
  BY <1>4 DEF Poll
<1>5. CASE FinalRead(g)
  BY <1>5 DEF FinalRead
<1>6. CASE IsrReturns(g)
  BY <1>6 DEF IsrReturns
<1> QED
  BY <1>1, <1>2, <1>3, <1>4, <1>5, <1>6 DEF Thread

LEMMA StartInvStep ==
  ASSUME WaitInv, [Next]_vars, NEW g \in Gpios
  PROVE  StartInv(g)'
<1> USE DEF WaitInv, BlockInv, StartInv
<1>1. ASSUME NEW h \in Gpios, Thread(h) PROVE StartInv(g)'
  <2>1. UNCHANGED main
    BY <1>1, ThreadStep
  <2>2. CASE h # g
    <3>1. thread'[g] = thread[g] /\ running'[g] = running[g]
      BY <1>1, <2>2, ThreadStep
    <3> QED
      BY <2>1, <3>1
  <2>3. CASE h = g
    <3>1. CASE thread[g] = "new"
      <4>1. main = <<"starting", g>> /\ thread'[g] = "test"
        BY <1>1, <2>3, <3>1, ThreadStep DEF HandlerInv
      <4> QED
        BY <2>1, <4>1, Places
    <3>2. CASE thread[g] # "new"
      <4>1. (running'[g] <=> running[g]) /\ (thread'[g] = "none" => ~running[g])
        BY <1>1, <2>3, <3>2, ThreadStep
      <4>2. main = <<"starting", g>> => running[g] /\ thread[g] # "none"
        BY <3>2, Places DEF HandlerInv
      <4> QED
        BY <2>1, <4>1, <4>2
    <3> QED
      BY <3>1, <3>2
  <2> QED
    BY <2>2, <2>3
<1>2. ASSUME NEW h \in Gpios, Interrupt(h) PROVE StartInv(g)'
  BY <1>2 DEF Interrupt
<1>3. ASSUME NEW h \in Gpios,
             StartReturns(h) \/ Join(h) \/ JoinReturns(h) \/ Start(h) \/ Stop(h)
      PROVE  StartInv(g)'
  <2>1. CASE h = g
    BY <1>3, <2>1, Places
       DEF StartReturns, Join, JoinReturns, Start, Stop, handlers, TypeOK
  <2>2. CASE h # g
    BY <1>3, <2>2, Places
       DEF StartReturns, Join, JoinReturns, Start, Stop, handlers, TypeOK
  <2> QED
    BY <2>1, <2>2
<1>4. CASE Enter \/ OpenNext \/ EnterBody \/ LeaveBody \/ CloseNext \/ Exit
  <2>1. main' \in {<<"out">>, <<"opening">>, <<"body">>, <<"closing">>}
    BY <1>4 DEF Enter, OpenNext, Raise, EnterBody, LeaveBody, CloseNext, Exit
  <2> QED
    BY <2>1, Places
<1>5. CASE UNCHANGED vars
  BY <1>5 DEF vars
<1> QED
  BY <1>1, <1>2, <1>3, <1>4, <1>5 DEF Next, CallStep

LEMMA WaitIsInvariant == Spec => []WaitInv
<1>1. Init => \A g \in Gpios : StartInv(g)
  BY Places DEF Init, StartInv
<1>2. WaitInv /\ [Next]_vars => \A g \in Gpios : StartInv(g)'
  BY StartInvStep
<1>3. WaitInv /\ [Next]_vars => WaitInv'
  BY <1>2, BlockStep DEF WaitInv
<1>4. Init => WaitInv
  BY <1>1, InitialBlock DEF WaitInv
<1> QED
  BY <1>3, <1>4, PTL DEF Spec

(* While the main thread waits for one handler, its place and the handler  *)
(* change by its own steps and by those of the handler's thread.           *)
LEMMA OnlyTheirSteps ==
  ASSUME WaitInv, [Next]_vars, NEW g \in Gpios,
         main \in {<<"starting", g>>, <<"stopped", g>>, <<"joining", g>>}
  PROVE  /\ CallStep \/ main' = main
         /\ CallStep =>
              \/ main = <<"starting", g>> /\ main' = <<"body">>
              \/ main = <<"stopped", g>> /\ main' = <<"joining", g>>
              \/ main = <<"joining", g>> /\ main' = <<"body">>
         /\ Thread(g) \/ UNCHANGED running[g]
         /\ Thread(g) \/ CallStep \/ UNCHANGED thread[g]
<1> USE DEF WaitInv, BlockInv
<1>1. CASE CallStep
  <2>1. PICK h \in Gpios : StartReturns(h) \/ Join(h) \/ JoinReturns(h)
    BY <1>1, Places DEF CallStep, OpenNext, EnterBody, CloseNext, Exit
  <2>2. h = g
    BY <2>1, Places DEF StartReturns, Join, JoinReturns
  <2> QED
    BY <1>1, <2>1, <2>2, Places DEF StartReturns, Join, JoinReturns, handlers
<1>2. ASSUME NEW h \in Gpios, Thread(h)
      PROVE  main' = main /\ (h = g \/ UNCHANGED <<running[g], thread[g]>>)
  BY <1>2, ThreadStep
<1>3. ASSUME NEW h \in Gpios, Interrupt(h)
      PROVE  main' = main /\ UNCHANGED <<running[g], thread[g]>>
  BY <1>3 DEF Interrupt
<1>4. ASSUME UNCHANGED vars
      PROVE  main' = main /\ UNCHANGED <<running[g], thread[g]>>
  BY <1>4 DEF vars
<1>5. ~Enter /\ ~LeaveBody /\ \A h \in Gpios : ~Start(h) /\ ~Stop(h)
  BY Places DEF Enter, LeaveBody, Start, Stop
<1>6. CASE ~CallStep
  BY <1>2, <1>3, <1>4, <1>5, <1>6 DEF Next
<1> QED
  BY <1>1, <1>6

Starting(g) == main = <<"starting", g>> /\ ~running[g]

Started(g) == main = <<"starting", g>> /\ running[g]

Ended == {"none", "raised"}

Joining(g, L) == main = <<"joining", g>> /\ thread[g] \in L

(* A thread that is started sets the flag for which start waits.           *)
LEMMA StartingStep ==
  ASSUME WaitInv, [Next]_vars, NEW g \in Gpios, Starting(g)
  PROVE  /\ thread[g] = "new"
         /\ Starting(g)' \/ Started(g)'
         /\ Thread(g) => Started(g)'
<1>1. thread[g] = "new" /\ main = <<"starting", g>> /\ ~running[g]
  BY Places DEF WaitInv, BlockInv, HandlerInv, StartInv, Starting
<1>2. ~CallStep
  <2> SUFFICES ASSUME CallStep PROVE FALSE
    OBVIOUS
  <2>1. PICK h \in Gpios : StartReturns(h) \/ Join(h) \/ JoinReturns(h)
    BY <1>1, Places DEF CallStep, OpenNext, EnterBody, CloseNext, Exit
  <2> QED
    BY <1>1, <2>1, Places DEF StartReturns, Join, JoinReturns
<1>3. main' = main
  BY <1>1, <1>2, OnlyTheirSteps
<1>4. CASE Thread(g)
  BY <1>1, <1>3, <1>4, ThreadStep DEF WaitInv, BlockInv, Started
<1>5. CASE ~Thread(g)
  BY <1>1, <1>3, <1>5, OnlyTheirSteps DEF Starting
<1> QED
  BY <1>1, <1>4, <1>5

(* Its flag stays up until start returns.                                  *)
LEMMA StartedStep ==
  ASSUME WaitInv, [Next]_vars, NEW g \in Gpios, Started(g)
  PROVE  /\ CanCall
         /\ Started(g)' \/ main' = <<"body">>
         /\ CallStep => main' = <<"body">>
<1>1. main = <<"starting", g>> /\ running[g] /\ CanCall
  BY DEF Started, CanCall
<1>2. CASE CallStep
  BY <1>1, <1>2, OnlyTheirSteps, Places
<1>3. CASE ~CallStep
  <2>1. main' = main
    BY <1>1, <1>3, OnlyTheirSteps
  <2>2. running'[g]
    BY <1>1, OnlyTheirSteps, ThreadStep DEF WaitInv, BlockInv
  <2> QED
    BY <1>1, <1>3, <2>1, <2>2 DEF Started
<1> QED
  BY <1>1, <1>2, <1>3

(* Each step of a stopped thread brings it nearer to the test of its flag, *)
(* and the test ends it, unless an exception of its callback does; a poll  *)
(* that nothing interrupts times out.                                      *)
LEMMA JoiningStep ==
  ASSUME WaitInv, [Next]_vars, NEW g \in Gpios,
         main = <<"joining", g>>, thread[g] \notin {"none", "raised"}
  PROVE  /\ main' = main
         /\ Thread(g) =>
              \/ thread[g] = "clear" /\ thread'[g] = "poll"
              \/ thread[g] = "poll" /\ thread'[g] \in {"final", "test"}
              \/ thread[g] = "final" /\ thread'[g] = "isr"
              \/ thread[g] = "isr" /\ thread'[g] \in {"test", "raised"}
              \/ thread[g] = "test" /\ thread'[g] = "none"
         /\ ~Thread(g) => thread'[g] = thread[g]
<1>1. ~CallStep
  <2> SUFFICES ASSUME CallStep PROVE FALSE
    OBVIOUS
  <2>1. PICK h \in Gpios : StartReturns(h) \/ Join(h) \/ JoinReturns(h)
    BY Places DEF CallStep, OpenNext, EnterBody, CloseNext, Exit
  <2> QED
    BY <2>1, Places DEF StartReturns, Join, JoinReturns, Joined
<1>2. main' = main /\ (~Thread(g) => thread'[g] = thread[g])
  BY <1>1, OnlyTheirSteps
<1>3. thread[g] # "new" /\ ~running[g]
  BY Places DEF WaitInv, BlockInv, HandlerInv, StartInv
<1>4. CASE Thread(g)
  BY <1>3, <1>4, ThreadStep DEF WaitInv, BlockInv
<1> QED
  BY <1>2, <1>4

(* A thread that has ended stays so until join, which finds it so.         *)
LEMMA JoinedStep ==
  ASSUME WaitInv, [Next]_vars, NEW g \in Gpios, Joining(g, Ended)
  PROVE  /\ CanCall
         /\ Joining(g, Ended)' \/ main' = <<"body">>
         /\ CallStep => main' = <<"body">>
<1>1. main = <<"joining", g>> /\ thread[g] \in Ended /\ CanCall
  BY DEF Joining, CanCall, Joined, Ended
<1>2. CASE CallStep
  BY <1>1, <1>2, OnlyTheirSteps, Places
<1>3. CASE ~CallStep
  <2>1. main' = main
    BY <1>1, <1>3, OnlyTheirSteps
  <2>2. ~Thread(g)
    BY <1>1 DEF Ended, Thread, Run, TestFlag, ReadClear, Poll, FinalRead, IsrReturns
  <2>3. thread'[g] = thread[g]
    BY <1>1, <1>3, <2>2, OnlyTheirSteps
  <2>4. Joining(g, Ended)'
    BY <1>1, <2>1, <2>3 DEF Joining, Ended
  <2> QED
    BY <1>1, <1>3, <2>4
<1> QED
  BY <1>1, <1>2, <1>3

(* Starting, stopping and joining a handler of any GPIO end, whatever its  *)
(* polls return and however often interrupts come, if the main thread and  *)
(* that handler's thread run when they can: the part of CallsReturn that   *)
(* depends on another thread.                                              *)
THEOREM HandlerCallsReturn ==
  ASSUME NEW g \in Gpios
  PROVE  Spec /\ CallsProceed /\ ThreadRuns(g) =>
           (main \in {<<"starting", g>>, <<"stopped", g>>, <<"joining", g>>}
              ~> main = <<"body">>)
<1> DEFINE Waited == main \in {<<"starting", g>>, <<"stopped", g>>, <<"joining", g>>}
<1>1. WaitInv /\ main = <<"joining", g>> =>
        \/ Joining(g, {"clear"}) \/ Joining(g, {"poll"}) \/ Joining(g, {"final"})
        \/ Joining(g, {"isr"}) \/ Joining(g, {"test"}) \/ Joining(g, Ended)
  BY Places DEF WaitInv, BlockInv, TypeOK, ThreadLocations, HandlerInv, Joining, Ended
<1>2. WaitInv /\ Starting(g) /\ [Next]_vars =>
        /\ CanRun(g) /\ (Starting(g) \/ Started(g))'
        /\ Thread(g) => Started(g)'
  BY StartingStep DEF CanRun
<1>3. WaitInv /\ Started(g) /\ [Next]_vars =>
        /\ CanCall /\ (Started(g) \/ main = <<"body">>)'
        /\ CallStep => (main = <<"body">>)'
  BY StartedStep
<1>4. WaitInv /\ main = <<"stopped", g>> /\ [Next]_vars =>
        /\ CanCall /\ (main = <<"stopped", g>> \/ main = <<"joining", g>>)'
        /\ CallStep => (main = <<"joining", g>>)'
  BY OnlyTheirSteps, Places DEF CanCall
<1>5. WaitInv /\ Joining(g, Ended) /\ [Next]_vars =>
        /\ CanCall /\ (Joining(g, Ended) \/ main = <<"body">>)'
        /\ CallStep => (main = <<"body">>)'
  BY JoinedStep
<1>6. WaitInv /\ Joining(g, {"test"}) /\ [Next]_vars =>
        /\ CanRun(g) /\ (Joining(g, {"test"}) \/ Joining(g, Ended))'
        /\ Thread(g) => Joining(g, Ended)'
  BY JoiningStep DEF Joining, CanRun, Ended
<1>7. WaitInv /\ Joining(g, {"isr"}) /\ [Next]_vars =>
        /\ CanRun(g)
        /\ (Joining(g, {"isr"}) \/ Joining(g, {"test"}) \/ Joining(g, Ended))'
        /\ Thread(g) => (Joining(g, {"test"}) \/ Joining(g, Ended))'
  BY JoiningStep DEF Joining, CanRun, Ended
<1>8. WaitInv /\ Joining(g, {"final"}) /\ [Next]_vars =>
        /\ CanRun(g) /\ (Joining(g, {"final"}) \/ Joining(g, {"isr"}))'
        /\ Thread(g) => Joining(g, {"isr"})'
  BY JoiningStep DEF Joining, CanRun
<1>9. WaitInv /\ Joining(g, {"poll"}) /\ [Next]_vars =>
        /\ CanRun(g)
        /\ (Joining(g, {"poll"}) \/ Joining(g, {"final"}) \/ Joining(g, {"test"}))'
        /\ Thread(g) => (Joining(g, {"final"}) \/ Joining(g, {"test"}))'
  BY JoiningStep DEF Joining, CanRun
<1>10. WaitInv /\ Joining(g, {"clear"}) /\ [Next]_vars =>
        /\ CanRun(g) /\ (Joining(g, {"clear"}) \/ Joining(g, {"poll"}))'
        /\ Thread(g) => Joining(g, {"poll"})'
  BY JoiningStep DEF Joining, CanRun
<1>11. Waited => \/ Starting(g) \/ Started(g)
                 \/ main = <<"stopped", g>> \/ main = <<"joining", g>>
  BY DEF Starting, Started
<1> QED
  BY <1>1, <1>2, <1>3, <1>4, <1>5, <1>6, <1>7, <1>8, <1>9, <1>10, <1>11,
     WaitIsInvariant, PTL DEF Spec, CallsProceed, ThreadRuns

(* Opening and closing are steps of the main thread alone.                 *)
LEMMA ListAdvance ==
  ASSUME WaitInv, [Next]_vars, main \in {<<"opening">>, <<"closing">>}
  PROVE  /\ CanCall
         /\ ~CallStep => UNCHANGED <<main, next>>
         /\ CallStep =>
              IF main = <<"closing">>
              THEN IF next = 0 THEN main' = <<"out">>
                   ELSE main' = main /\ next' = next - 1
              ELSE \/ main' \in {<<"body">>, <<"closing">>}
                   \/ main' = main /\ next' = next + 1
<1>1. CanCall
  BY DEF CanCall
<1>2. CASE CallStep
  <2>1. OpenNext \/ EnterBody \/ CloseNext \/ Exit
    BY <1>2, Places DEF CallStep, StartReturns, Join, JoinReturns
  <2>2. next \in Nat
    BY LenIsNat DEF WaitInv, BlockInv, TypeOK
  <2> QED
    BY <1>1, <1>2, <2>1, <2>2, Places DEF OpenNext, Raise, EnterBody, CloseNext, Exit
<1>3. CASE ~CallStep
  <2>1. ASSUME NEW h \in Gpios, Thread(h) \/ Interrupt(h) PROVE UNCHANGED <<main, next>>
    BY <2>1, ThreadStep DEF Interrupt, WaitInv, BlockInv
  <2>2. ~Enter /\ ~LeaveBody /\ \A h \in Gpios : ~Start(h) /\ ~Stop(h)
    BY Places DEF Enter, LeaveBody, Start, Stop
  <2> QED
    BY <1>1, <1>3, <2>1, <2>2 DEF Next, vars
<1> QED
  BY <1>2, <1>3

(* From every place in the list, opening and closing reach the next one or *)
(* the end, with no other thread to wait for: the other part of            *)
(* CallsReturn, but for the induction over the places.                     *)
THEOREM ListCallsAdvance ==
  ASSUME NEW i \in Nat
  PROVE  Spec /\ CallsProceed =>
           /\ main = <<"opening">> /\ next = i ~>
                \/ main = <<"opening">> /\ next = i + 1
                \/ main \in {<<"body">>, <<"closing">>}
           /\ main = <<"closing">> /\ next = i + 1 ~> main = <<"closing">> /\ next = i
           /\ main = <<"closing">> /\ next = 0 ~> main = <<"out">>
<1> DEFINE Opening(n) == main = <<"opening">> /\ next = n
           Closing(n) == main = <<"closing">> /\ next = n
           Opened == main \in {<<"body">>, <<"closing">>}
<1>1. WaitInv /\ Opening(i) /\ [Next]_vars =>
        /\ CanCall /\ (Opening(i) \/ Opening(i + 1) \/ Opened)'
        /\ CallStep => (Opening(i + 1) \/ Opened)'
  BY ListAdvance, Places
<1>2. WaitInv /\ Closing(i + 1) /\ [Next]_vars =>
        /\ CanCall /\ (Closing(i + 1) \/ Closing(i))'
        /\ CallStep => Closing(i)'
  BY ListAdvance, Places
<1>3. WaitInv /\ Closing(0) /\ [Next]_vars =>
        /\ CanCall /\ (Closing(0) \/ main = <<"out">>)'
        /\ CallStep => (main = <<"out">>)'
  BY ListAdvance, Places
<1> QED
  BY <1>1, <1>2, <1>3, WaitIsInvariant, PTL DEF Spec, CallsProceed
=============================================================================
