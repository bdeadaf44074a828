------------------------- MODULE GpioCallbackProofs -------------------------
(***************************************************************************)
(* Proofs about GpioCallback for any set of callback structs and any       *)
(* Faults, when the application registers only while it has no handler.    *)
(***************************************************************************)
EXTENDS GpioCallback, TLAPS

(* A registration that is under way has its struct in gpio->callback: what *)
(* the type invariant needs to be inductive.                               *)
Registering == app \in {"create", "wait"} => callback \in Slots

LEMMA RegisteringStep ==
  ASSUME Registering, [Next]_vars
  PROVE  Registering'
<1> USE DEF Registering
<1>1. ASSUME NEW c \in Slots, Register(c) PROVE Registering'
  BY <1>1 DEF Register
<1>2. CASE CreateThread
  BY <1>2 DEF CreateThread
<1>3. CASE Cancel \/ Free \/ WaitReady
  BY <1>3 DEF Cancel, Free, WaitReady, handle
<1>4. CASE Reap \/ CloseValue \/ FreeHandle \/ RequestAgain
  BY <1>4 DEF Reap, CloseValue, FreeHandle, RequestAgain
<1>5. ASSUME NEW c \in Slots, Thread(c) PROVE UNCHANGED <<app, callback>>
  BY <1>5 DEF Thread, Unlock, ReadClear, PollReturns, FinalRead, StartCallback,
              FinishCallback, Die, handle
<1>6. CASE Interrupt \/ UNCHANGED vars
  BY <1>6 DEF Interrupt, handle, vars
<1> QED
  BY <1>1, <1>2, <1>3, <1>4, <1>5, <1>6 DEF Next, CallStep

(* Type correctness of every step, re-registering or not.                  *)
LEMMA TypeStep ==
  ASSUME TypeOK, Registering, [Next]_vars
  PROVE  TypeOK'
<1> USE DEF TypeOK, AppLocations, ThreadLocations, handle
<1>1. ASSUME NEW c \in Slots, Register(c) PROVE TypeOK'
  BY <1>1 DEF Register
<1>2. CASE Cancel
  BY <1>2, SlotsAssumption DEF Cancel, HasCallback, PointerIsValid
<1>3. CASE Free
  <2>1. cancelled' \subseteq Slots
    BY <1>3 DEF Free, FreeStopsCallback
  <2>2. app' \in AppLocations
    BY <1>3 DEF Free
  <2> QED
    BY <1>3, <2>1, <2>2 DEF Free
<1>4. CASE CreateThread
  <2>1. app' \in AppLocations
    BY <1>4 DEF CreateThread
  <2>2. thread' \in [Slots -> ThreadLocations]
    BY <1>4 DEF CreateThread
  <2>3. heap' \subseteq Slots /\ locked' \subseteq Slots /\ callback' = callback
    BY <1>4 DEF CreateThread, CallbackAfterFailure
  <2> QED
    BY <1>4, <2>1, <2>2, <2>3 DEF CreateThread
<1>5. CASE WaitReady
  BY <1>5 DEF WaitReady, Registering
<1>6. CASE Reap
  BY <1>6 DEF Reap
<1>7. CASE CloseValue \/ FreeHandle \/ RequestAgain
  BY <1>7 DEF CloseValue, FreeHandle, RequestAgain
<1>8. ASSUME NEW c \in Slots, Thread(c) PROVE TypeOK'
  <2>1. CASE Unlock(c)
    BY <2>1 DEF Unlock, Go
  <2>2. CASE ReadClear(c) \/ FinalRead(c)
    BY <2>2 DEF ReadClear, FinalRead, Go
  <2>3. CASE PollReturns(c)
    BY <2>3 DEF PollReturns, Go
  <2>4. CASE StartCallback(c) \/ FinishCallback(c) \/ Die(c)
    BY <2>4 DEF StartCallback, FinishCallback, Die, Go
  <2> QED
    BY <1>8, <2>1, <2>2, <2>3, <2>4 DEF Thread
<1>9. CASE Interrupt
  BY <1>9 DEF Interrupt
<1>10. CASE UNCHANGED vars
  BY <1>10 DEF vars
<1> QED
  BY <1>1, <1>2, <1>3, <1>4, <1>5, <1>6, <1>7, <1>8, <1>9, <1>10 DEF Next, CallStep

(* Type correctness of registering, cancelling and the poll threads, over  *)
(* a callback or not.                                                      *)
THEOREM TypeCorrect == Spec => [](TypeOK /\ Registering)
<1>1. Init => TypeOK /\ Registering
  BY DEF Init, TypeOK, Registering, AppLocations, ThreadLocations
<1>2. TypeOK /\ Registering /\ [Next]_vars => TypeOK' /\ Registering'
  BY TypeStep, RegisteringStep
<1> QED
  BY <1>1, <1>2, PTL DEF Spec

-----------------------------------------------------------------------------
(* A step of a poll thread that moves it within the loop keeps the         *)
(* invariant.                                                              *)
LEMMA LoopStep ==
  ASSUME TypeOK, HandlerInv, NEW c \in Slots, thread[c] # "none",
         NEW l \in ThreadLocations \ {"none", "start"}, Go(c, l),
         UNCHANGED <<live, fdOpen, callback, heap, app, cancelled>>
  PROVE  HandlerInv'
<1>1. /\ thread'[c] = l
      /\ \A d \in Slots \ {c} : thread'[d] = thread[d]
  BY DEF Go, TypeOK
<1> QED
  BY <1>1 DEF HandlerInv, ThreadServesHandle, TypeOK

(* Every step keeps HandlerInv, for an application that registers only     *)
(* when it has no handler.                                                 *)
LEMMA HandlerInvStep ==
  ASSUME ~Reregisters, TypeOK, HandlerInv, [Next]_vars
  PROVE  HandlerInv'
<1> USE DEF HandlerInv, ThreadServesHandle, handle
<1>1. ASSUME NEW c \in Slots, Register(c) PROVE HandlerInv'
  <2>1. \A d \in Slots : thread[d] = "none"
    BY <1>1 DEF Register
  <2>2. heap' = {c}
    BY <1>1 DEF Register
  <2> QED
    BY <1>1, <2>1, <2>2 DEF Register
<1>2. CASE CreateThread
  <2>1. CASE heap' = heap \ {callback} /\ app' = "idle" /\ UNCHANGED <<callback, thread>>
    <3>1. heap' = {} /\ \A c \in Slots : thread'[c] = "none"
      BY <1>2, <2>1 DEF CreateThread
    <3> QED
      BY <1>2, <2>1, <3>1 DEF CreateThread
  <2>2. CASE /\ thread' = [thread EXCEPT ![callback] = "start"]
             /\ app' = "wait"
             /\ UNCHANGED <<callback, heap, locked>>
    <3>1. /\ callback \in Slots /\ thread'[callback] = "start"
          /\ \A d \in Slots \ {callback} : thread'[d] = "none"
      BY <1>2, <2>2 DEF CreateThread, TypeOK
    <3> QED
      BY <1>2, <2>2, <3>1 DEF CreateThread
  <2> QED
    BY <1>2, <2>1, <2>2 DEF CreateThread, CallbackAfterFailure
<1>3. CASE WaitReady
  <2>1. \A c \in Slots : thread[c] # "start"
    BY <1>3 DEF WaitReady
  <2> QED
    BY <1>3, <2>1 DEF WaitReady
<1>4. CASE Cancel
  BY <1>4 DEF Cancel, HasCallback, PointerIsValid
<1>5. CASE Free
  <2>1. CASE callback \in heap
    BY <1>5, <2>1, SlotsAssumption DEF Free, FreeStopsCallback, TypeOK
  <2>2. CASE callback = NULL
    <3>1. heap = {}
      BY <2>2, SlotsAssumption DEF TypeOK
    <3> QED
      BY <1>5, <2>2, <3>1 DEF Free, FreeStopsCallback
  <2> QED
    BY <1>5, <2>1, <2>2 DEF Free, PointerIsValid
<1>6. CASE Reap
  <2>1. heap' = {} /\ cancelled' = cancelled \ {callback}
    BY <1>6 DEF Reap
  <2>2. \A c \in Slots : thread'[c] = "none"
    BY <1>6 DEF Reap, Joined
  <2>3. cancelled' = {}
    BY <1>6, <2>1 DEF Reap
  <2> QED
    BY <1>6, <2>1, <2>2, <2>3 DEF Reap
<1>7. CASE CloseValue
  BY <1>7 DEF CloseValue
<1>8. CASE FreeHandle
  BY <1>8 DEF FreeHandle
<1>9. CASE RequestAgain
  BY <1>9 DEF RequestAgain
<1>10. ASSUME NEW c \in Slots, Unlock(c) PROVE HandlerInv'
  BY <1>10, LoopStep DEF Unlock, ThreadLocations
<1>11. ASSUME NEW c \in Slots, ReadClear(c) \/ FinalRead(c) PROVE HandlerInv'
  BY <1>11, LoopStep DEF ReadClear, FinalRead, ThreadLocations
<1>12. ASSUME NEW c \in Slots, PollReturns(c) PROVE HandlerInv'
  BY <1>12, LoopStep DEF PollReturns, ThreadLocations
<1>13. ASSUME NEW c \in Slots, StartCallback(c) \/ FinishCallback(c) PROVE HandlerInv'
  BY <1>13, LoopStep DEF StartCallback, FinishCallback, ThreadLocations
<1>14. ASSUME NEW c \in Slots, Die(c) PROVE HandlerInv'
  <2>1. thread'[c] = "none" /\ \A d \in Slots \ {c} : thread'[d] = thread[d]
    BY <1>14 DEF Die, Go, TypeOK
  <2> QED
    BY <1>14, <2>1 DEF Die
<1>15. CASE Interrupt
  BY <1>15 DEF Interrupt
<1>16. CASE UNCHANGED vars
  BY <1>16 DEF vars
<1> QED
  BY <1>1, <1>2, <1>3, <1>4, <1>5, <1>6, <1>7, <1>8, <1>9, <1>10, <1>11, <1>12,
     <1>13, <1>14, <1>15, <1>16 DEF Next, CallStep, Thread

(* The inductive invariant of a disciplined application. *)
THEOREM HandlerInvariant ==
  ASSUME ~Reregisters
  PROVE  Spec => [](TypeOK /\ HandlerInv)
<1>1. Init => HandlerInv
  BY DEF Init, HandlerInv, ThreadServesHandle
<1>2. TypeOK /\ HandlerInv /\ [Next]_vars => HandlerInv'
  BY HandlerInvStep
<1> QED
  BY <1>1, <1>2, TypeCorrect, PTL DEF Spec

(* No poll thread outlives its struct, its handle or its file.             *)
THEOREM ThreadsAreSafe ==
  ASSUME ~Reregisters
  PROVE  Spec => []ThreadServesHandle
<1>1. HandlerInv => ThreadServesHandle
  BY DEF HandlerInv
<1> QED
  BY <1>1, HandlerInvariant, PTL

(* Between calls the callback structs are those of running threads.        *)
THEOREM NothingIsLeaked ==
  ASSUME ~Reregisters
  PROVE  Spec => []NothingLeaked
<1>1. TypeOK /\ HandlerInv => NothingLeaked
  BY DEF TypeOK, HandlerInv, ThreadServesHandle, NothingLeaked
<1> QED
  BY <1>1, HandlerInvariant, PTL

-----------------------------------------------------------------------------
(* Steps that call no function and leave the registration alone.           *)
Running == \E c \in Slots : thread[c] = "callback"

LEMMA ContractStep ==
  ASSUME \/ callback \in heap /\ ~Running /\ (callback \in heap)' /\ Running'
         \/ Running /\ ~Running' /\ ((callback \in heap)' <=> callback \in heap)
         \/ callback \notin heap /\ (callback \in heap)' /\ (Running' <=> Running)
         \/ callback \in heap /\ ~Running /\ ~(callback \in heap)' /\ ~Running'
         \/ ((callback \in heap)' <=> callback \in heap) /\ (Running' <=> Running)
  PROVE  [Contract!Next]_Contract!vars
BY SMT DEF Running, Contract!Next, Contract!vars, Contract!Register, Contract!Call,
   Contract!Return, Contract!Unregister

(* A step of a poll thread runs the function, ends it or leaves it alone.  *)
LEMMA ThreadContractStep ==
  ASSUME TypeOK, HandlerInv, NEW c \in Slots, Thread(c)
  PROVE  [Contract!Next]_Contract!vars
<1>1. /\ UNCHANGED <<callback, heap>>
      /\ callback = c /\ callback \in heap
      /\ \A d \in Slots \ {c} : thread[d] = "none"
  BY DEF Thread, Unlock, ReadClear, PollReturns, FinalRead, StartCallback,
         FinishCallback, Die, handle, HandlerInv, ThreadServesHandle
<1>2. \A d \in Slots \ {c} : thread'[d] = "none"
  BY <1>1 DEF Thread, Unlock, ReadClear, PollReturns, FinalRead, StartCallback,
              FinishCallback, Die, Go, TypeOK
<1>3. Running <=> thread[c] = "callback"
  BY <1>1 DEF Running
<1>4. Running' <=> thread'[c] = "callback"
  BY <1>2 DEF Running
<1>5. thread[c] = "callback" /\ thread'[c] = "callback" => Running /\ Running'
  BY <1>3, <1>4
<1> QED
  BY <1>1, <1>3, <1>4, ContractStep

(* Registering, cancelling and the poll threads implement HandlerContract. *)
THEOREM Refinement ==
  ASSUME ~Reregisters
  PROVE  Spec => ImplementsContract
<1>1. Init => Contract!Init
  BY DEF Init, Contract!Init
<1>2. ASSUME TypeOK, HandlerInv, [Next]_vars PROVE [Contract!Next]_Contract!vars
  <2> USE <1>2
  <2>1. ASSUME NEW c \in Slots, Register(c) PROVE [Contract!Next]_Contract!vars
    <3>1. callback \notin heap /\ callback' \in heap' /\ (Running' <=> Running)
      BY <2>1 DEF Register, Running
    <3> QED
      BY <3>1, ContractStep
  <2>2. CASE CreateThread
    <3>1. callback \in heap /\ callback \in Slots /\ ~Running
      BY <2>2 DEF CreateThread, HandlerInv, Running, TypeOK
    <3>2. ~Running'
      BY <2>2, <3>1 DEF CreateThread, HandlerInv, Running, TypeOK
    <3>3. (callback' \in heap') \in BOOLEAN
      OBVIOUS
    <3> QED
      BY <3>1, <3>2, <3>3, ContractStep
  <2>3. CASE Reap
    <3>1. callback \in heap /\ ~Running /\ ~Running'
      BY <2>3 DEF Reap, Joined, HandlerInv, ThreadServesHandle, Running
    <3>2. callback' \notin heap'
      BY <2>3, SlotsAssumption DEF Reap, TypeOK
    <3> QED
      BY <3>1, <3>2, ContractStep
  <2>4. CASE RequestAgain
    <3>1. callback \notin heap /\ callback' \notin heap' /\ (Running' <=> Running)
      BY <2>4, SlotsAssumption DEF RequestAgain, HandlerInv, Running, TypeOK
    <3> QED
      BY <3>1, ContractStep
  <2>5. CASE WaitReady \/ Cancel \/ Free \/ CloseValue \/ FreeHandle \/ Interrupt
             \/ UNCHANGED vars
    <3>1. UNCHANGED <<callback, heap, thread>>
      BY <2>5 DEF WaitReady, Cancel, Free, CloseValue, FreeHandle, Interrupt,
                  handle, vars
    <3>2. ((callback \in heap)' <=> callback \in heap) /\ (Running' <=> Running)
      BY <3>1 DEF Running
    <3> QED
      BY <3>2, ContractStep
  <2> QED
    BY <2>1, <2>2, <2>3, <2>4, <2>5, ThreadContractStep DEF Next, CallStep
<1> QED
  BY <1>1, <1>2, HandlerInvariant, PTL DEF Spec, ImplementsContract, Contract!Spec

-----------------------------------------------------------------------------
(* Calls return.  The prover knows nothing of ENABLED, so the fairness of  *)
(* FairSpec is written out, with what enables the two actions in the       *)
(* states that HandlerInv allows.                                          *)
CanProceed ==
  \/ app \in {"create", "close", "free"}
  \/ app = "wait" /\ callback \notin locked
  \/ app \in {"join", "freejoin"} /\ Joined

CanRun(c) ==
  /\ thread[c] # "none"
  /\ thread[c] = "poll" => pending \/ "poll" \in Faults \/ c \in cancelled

CallsProceed == []<>~CanProceed \/ []<><<CallStep>>_vars

ThreadsRun == []<>~(\E c \in Slots : CanRun(c)) \/ []<><<PollThread>>_vars

(* Whom the application waits for: the thread that it started and that has *)
(* not unlocked ready, or the one that it cancelled.                       *)
WaitInv ==
  /\ app = "wait" /\ callback \in locked => thread[callback] = "start"
  /\ app \in {"join", "freejoin"} => callback \in cancelled

CallInv == TypeOK /\ HandlerInv /\ WaitInv

Starting == app = "wait" /\ callback \in locked

Started == app = "wait" /\ callback \notin locked

(* A cancellation whose thread is at one of the places in L.               *)
Dying(L) == app \in {"join", "freejoin"} /\ thread[callback] \in L

(* A poll thread that moves is that of the registered callback.            *)
LEMMA OnlyThread ==
  ASSUME CallInv, NEW c \in Slots, Thread(c)
  PROVE  /\ callback = c
         /\ UNCHANGED <<app, callback, cancelled>>
         /\ thread' = [thread EXCEPT ![c] = thread'[c]]
<1>1. thread[c] # "none" /\ UNCHANGED <<app, callback, cancelled>>
  BY DEF Thread, Unlock, ReadClear, PollReturns, FinalRead, StartCallback,
         FinishCallback, Die, handle
<1>2. callback = c
  BY <1>1 DEF CallInv, HandlerInv, ThreadServesHandle
<1>3. \E l : thread' = [thread EXCEPT ![c] = l]
  BY DEF Thread, Unlock, ReadClear, PollReturns, FinalRead, StartCallback,
         FinishCallback, Die, Go
<1> QED
  BY <1>1, <1>2, <1>3 DEF CallInv, TypeOK

LEMMA WaitInvStep ==
  ASSUME ~Reregisters, CallInv, [Next]_vars
  PROVE  WaitInv'
<1> USE DEF CallInv, WaitInv, handle
<1>1. ASSUME NEW c \in Slots, Register(c) PROVE WaitInv'
  BY <1>1 DEF Register
<1>2. CASE CreateThread
  BY <1>2 DEF CreateThread, HandlerInv, TypeOK
<1>3. CASE Cancel \/ Free \/ WaitReady
  BY <1>3 DEF Cancel, Free, WaitReady
<1>4. CASE Reap \/ CloseValue \/ FreeHandle \/ RequestAgain
  BY <1>4 DEF Reap, CloseValue, FreeHandle, RequestAgain
<1>5. ASSUME NEW c \in Slots, Thread(c) PROVE WaitInv'
  <2>1. callback = c /\ UNCHANGED <<app, callback, cancelled>>
    BY <1>5, OnlyThread
  <2>2. CASE Unlock(c)
    BY <2>1, <2>2 DEF Unlock, UnlockedAtStart
  <2>3. CASE ~Unlock(c)
    <3>1. thread[c] # "start" /\ UNCHANGED locked
      BY <1>5, <2>3 DEF Thread, ReadClear, PollReturns, FinalRead, StartCallback,
                        FinishCallback, Die
    <3> QED
      BY <2>1, <3>1
  <2> QED
    BY <2>2, <2>3
<1>6. CASE Interrupt \/ UNCHANGED vars
  BY <1>6 DEF Interrupt, vars
<1> QED
  BY <1>1, <1>2, <1>3, <1>4, <1>5, <1>6 DEF Next, CallStep

LEMMA CallInvariant ==
  ASSUME ~Reregisters
  PROVE  Spec => []CallInv
<1>1. Init => WaitInv
  BY DEF Init, WaitInv
<1>2. CallInv /\ [Next]_vars => WaitInv'
  BY WaitInvStep
<1> QED
  BY <1>1, <1>2, HandlerInvariant, PTL DEF Spec, CallInv

(* A registration waits until its thread, which can run, unlocks ready.    *)
LEMMA StartingStep ==
  ASSUME ~Reregisters, CallInv, Starting, [Next]_vars
  PROVE  /\ \E c \in Slots : CanRun(c)
         /\ Starting' \/ Started'
         /\ PollThread => Started'
<1>1. /\ thread[callback] = "start" /\ callback \in Slots
      /\ app = "wait" /\ callback \in locked
  BY DEF CallInv, WaitInv, Starting, TypeOK, HandlerInv
<1>2. \E c \in Slots : CanRun(c)
  BY <1>1 DEF CanRun
<1>3. ASSUME NEW c \in Slots, Thread(c) PROVE Started'
  <2>1. callback = c /\ UNCHANGED <<app, callback>>
    BY <1>3, OnlyThread
  <2>2. Unlock(c)
    BY <1>1, <1>3, <2>1 DEF Thread, ReadClear, PollReturns, FinalRead, StartCallback,
                            FinishCallback, Die
  <2> QED
    BY <1>1, <2>1, <2>2 DEF Unlock, UnlockedAtStart, Started
<1>4. CASE ~PollThread
  <2>1. UNCHANGED <<app, callback, locked>>
    BY <1>1, <1>4 DEF Next, PollThread, CallStep, Register, Cancel, Free, CreateThread,
       WaitReady, Reap, CloseValue, FreeHandle, RequestAgain, Interrupt, handle, vars
  <2> QED
    BY <1>1, <1>2, <1>4, <2>1 DEF Starting
<1> QED
  BY <1>2, <1>3, <1>4 DEF PollThread

(* Nothing locks ready again before the registration does.                 *)
LEMMA StartedStep ==
  ASSUME ~Reregisters, CallInv, Started, [Next]_vars
  PROVE  CanProceed /\ (Started' \/ app' = "idle") /\ (CallStep => app' = "idle")
<1>1. CanProceed /\ app = "wait"
  BY DEF Started, CanProceed
<1>2. CASE CallStep
  BY <1>1, <1>2 DEF CallStep, CreateThread, WaitReady, Reap, CloseValue, FreeHandle
<1>3. ASSUME NEW c \in Slots, Thread(c) PROVE Started'
  <2>1. UNCHANGED <<app, callback>>
    BY <1>3, OnlyThread
  <2>2. locked' \subseteq locked
    BY <1>3 DEF Thread, Unlock, ReadClear, PollReturns, FinalRead, StartCallback,
                FinishCallback, Die, handle
  <2> QED
    BY <2>1, <2>2 DEF Started
<1>4. CASE ~CallStep /\ ~PollThread
  <2>1. UNCHANGED <<app, callback, locked>>
    BY <1>1, <1>4 DEF Next, PollThread, Register, Cancel, Free, RequestAgain,
                      Interrupt, handle, vars
  <2> QED
    BY <1>1, <1>4, <2>1 DEF Started
<1> QED
  BY <1>1, <1>2, <1>3, <1>4 DEF PollThread

(* Each step of a cancelled thread brings it nearer to its end: it never   *)
(* waits for an interrupt, and no clearing read begins another poll.       *)
LEMMA DyingStep ==
  ASSUME ~Reregisters, CallInv, app \in {"join", "freejoin"}, ~Joined, [Next]_vars
  PROVE  /\ \E c \in Slots : CanRun(c)
         /\ UNCHANGED <<app, callback>>
         /\ PollThread =>
              \/ thread[callback] = "caught" /\ thread'[callback] = "callback"
              \/ /\ thread[callback] \in {"callback", "poll"}
                 /\ thread'[callback] \in {"clear", "final", "none"}
              \/ /\ thread[callback] \in {"clear", "final"}
                 /\ thread'[callback] = "none"
         /\ ~PollThread => UNCHANGED thread
<1>1. /\ callback \in Slots /\ callback \in cancelled
      /\ thread[callback] \in ThreadLocations \ {"none", "start"}
  BY DEF CallInv, HandlerInv, WaitInv, TypeOK, Joined
<1>2. \E c \in Slots : CanRun(c)
  BY <1>1 DEF CanRun
<1>3. CASE ~PollThread
  <2>1. UNCHANGED <<app, callback, thread>>
    BY <1>3 DEF Next, PollThread, CallStep, Register, Cancel, Free, CreateThread,
       WaitReady, Reap, CloseValue, FreeHandle, RequestAgain, Interrupt, handle, vars
  <2> QED
    BY <1>2, <1>3, <2>1
<1>4. ASSUME NEW c \in Slots, Thread(c)
      PROVE  /\ UNCHANGED <<app, callback>>
             /\ \/ thread[callback] = "caught" /\ thread'[callback] = "callback"
                \/ /\ thread[callback] \in {"callback", "poll"}
                   /\ thread'[callback] \in {"clear", "final", "none"}
                \/ /\ thread[callback] \in {"clear", "final"}
                   /\ thread'[callback] = "none"
  <2>1. callback = c /\ UNCHANGED <<app, callback>>
    BY <1>4, OnlyThread
  <2>2. \A l : Go(c, l) => thread'[c] = l
    BY DEF Go, CallInv, TypeOK
  <2>3. ~Unlock(c) /\ ~ReadClear(c) /\ ~FinalRead(c)
    BY <1>1, <2>1 DEF Unlock, ReadClear, FinalRead
  <2> QED
    BY <1>1, <1>4, <2>1, <2>2, <2>3
       DEF Thread, PollReturns, StartCallback, FinishCallback, Die, ThreadLocations
<1> QED
  BY <1>2, <1>3, <1>4 DEF PollThread

(* A thread that is gone stays gone until it is joined.                    *)
LEMMA JoinedStep ==
  ASSUME ~Reregisters, CallInv, Dying({"none"}), [Next]_vars
  PROVE  /\ CanProceed
         /\ Dying({"none"})' \/ app' \in {"idle", "close"}
         /\ CallStep => app' \in {"idle", "close"}
<1>1. /\ CanProceed /\ app \in {"join", "freejoin"}
      /\ thread[callback] = "none" /\ callback \in Slots
  BY DEF Dying, CanProceed, Joined, CallInv, HandlerInv, TypeOK
<1>2. CASE CallStep
  BY <1>1, <1>2 DEF CallStep, CreateThread, WaitReady, Reap, CloseValue, FreeHandle
<1>3. ~PollThread
  <2> SUFFICES ASSUME NEW c \in Slots, Thread(c) PROVE FALSE
    BY DEF PollThread
  <2>1. callback = c
    BY OnlyThread
  <2> QED
    BY <1>1, <2>1 DEF Thread, Unlock, ReadClear, PollReturns, FinalRead, StartCallback,
                      FinishCallback, Die
<1>4. CASE ~CallStep
  <2>1. UNCHANGED <<app, callback, thread>>
    BY <1>1, <1>3, <1>4 DEF Next, PollThread, Register, Cancel, Free, RequestAgain,
                            Interrupt, handle, vars
  <2> QED
    BY <1>1, <1>4, <2>1 DEF Dying
<1> QED
  BY <1>1, <1>2, <1>4

(* The steps of a call before and after it waits for a thread.             *)
LEMMA AloneStep ==
  ASSUME ~Reregisters, CallInv, app \in {"create", "close", "free"}, [Next]_vars
  PROVE  /\ CanProceed
         /\ ~CallStep => app' = app
         /\ CallStep =>
              \/ app = "create" /\ app' \in {"wait", "idle"}
              \/ app = "close" /\ app' \in {"free", "done"}
              \/ app = "free" /\ app' = "done"
<1>1. CanProceed
  BY DEF CanProceed
<1>2. CASE CallStep
  BY <1>1, <1>2 DEF CallStep, CreateThread, WaitReady, Reap, CloseValue, FreeHandle
<1>3. ASSUME NEW c \in Slots, Thread(c) PROVE app' = app
  BY <1>3, OnlyThread
<1>4. CASE ~CallStep /\ ~PollThread
  BY <1>1, <1>4 DEF Next, PollThread, Register, Cancel, Free, RequestAgain,
                    Interrupt, handle, vars
<1> QED
  BY <1>1, <1>2, <1>3, <1>4 DEF PollThread

(* No call hangs: a registration gets its thread to unlock ready, and a    *)
(* cancellation or a free gets it to die, wherever interrupts and failing  *)
(* polls have taken it, if calls and threads that can run do.              *)
THEOREM CallsDoReturn ==
  ASSUME ~Reregisters
  PROVE  Spec /\ CallsProceed /\ ThreadsRun => CallsReturn
<1> DEFINE Back == app \in {"idle", "done"}
<1>1. CallInv => \/ Back \/ Starting \/ Started \/ app = "create"
                 \/ app = "close" \/ app = "free"
                 \/ Dying({"caught"}) \/ Dying({"callback", "poll"})
                 \/ Dying({"clear", "final"}) \/ Dying({"none"})
  BY DEF CallInv, TypeOK, AppLocations, ThreadLocations, HandlerInv, Starting,
         Started, Dying
<1>2. CallInv /\ app = "free" /\ [Next]_vars =>
        CanProceed /\ (app = "free" \/ Back)' /\ (CallStep => Back')
  BY AloneStep
<1>3. CallInv /\ app = "close" /\ [Next]_vars =>
        CanProceed /\ (app = "close" \/ app = "free" \/ Back)'
          /\ (CallStep => (app = "free" \/ Back)')
  BY AloneStep
<1>4. CallInv /\ Dying({"none"}) /\ [Next]_vars =>
        CanProceed /\ (Dying({"none"}) \/ app = "close" \/ Back)'
          /\ (CallStep => (app = "close" \/ Back)')
  BY JoinedStep
<1>5. CallInv /\ Dying({"clear", "final"}) /\ [Next]_vars =>
        (\E c \in Slots : CanRun(c))
          /\ (Dying({"clear", "final"}) \/ Dying({"none"}))'
          /\ (PollThread => Dying({"none"})')
  BY DyingStep DEF Dying, Joined
<1>6. CallInv /\ Dying({"callback", "poll"}) /\ [Next]_vars =>
        (\E c \in Slots : CanRun(c))
          /\ (Dying({"callback", "poll"}) \/ Dying({"clear", "final"}) \/ Dying({"none"}))'
          /\ (PollThread => (Dying({"clear", "final"}) \/ Dying({"none"}))')
  BY DyingStep DEF Dying, Joined
<1>7. CallInv /\ Dying({"caught"}) /\ [Next]_vars =>
        (\E c \in Slots : CanRun(c))
          /\ (Dying({"caught"}) \/ Dying({"callback", "poll"}))'
          /\ (PollThread => Dying({"callback", "poll"})')
  BY DyingStep DEF Dying, Joined
<1>8. CallInv /\ Started /\ [Next]_vars =>
        CanProceed /\ (Started \/ Back)' /\ (CallStep => Back')
  BY StartedStep
<1>9. CallInv /\ Starting /\ [Next]_vars =>
        (\E c \in Slots : CanRun(c)) /\ (Starting \/ Started)'
          /\ (PollThread => Started')
  BY StartingStep
<1>10. CallInv /\ app = "create" /\ [Next]_vars =>
        CanProceed /\ (app = "create" \/ app = "wait" \/ Back)'
          /\ (CallStep => (app = "wait" \/ Back)')
  BY AloneStep
<1>11. app = "wait" => Starting \/ Started
  BY DEF Starting, Started
<1> QED
  BY <1>1, <1>2, <1>3, <1>4, <1>5, <1>6, <1>7, <1>8, <1>9, <1>10, <1>11,
     CallInvariant, PTL DEF Spec, CallsProceed, ThreadsRun, CallsReturn

-----------------------------------------------------------------------------
(* The finding of gpio.c:515 has no other cause than a thread that cannot  *)
(* be created: as long as pthread_create does not fail, gpio->callback is  *)
(* NULL or a callback, for cancel and free to test, even for an            *)
(* application that registers over a callback.                             *)
THEOREM PointerIsGood ==
  ASSUME "create" \notin Faults
  PROVE  Spec => []NoDanglingCallback
<1> DEFINE Good == callback \in heap \cup {NULL}
<1>1. Init => Good
  BY DEF Init
<1>2. ASSUME Good, [Next]_vars PROVE Good'
  <2>1. ASSUME NEW c \in Slots, Register(c) PROVE Good'
    BY <2>1 DEF Register
  <2>2. ASSUME NEW c \in Slots, Thread(c) PROVE UNCHANGED <<callback, heap>>
    BY <2>2 DEF Thread, Unlock, ReadClear, PollReturns, FinalRead, StartCallback,
                FinishCallback, Die, handle
  <2>3. CASE Cancel \/ Free \/ Interrupt \/ UNCHANGED vars
    BY <1>2, <2>3 DEF Cancel, Free, Interrupt, handle, vars
  <2>4. CASE CreateThread \/ WaitReady \/ CloseValue \/ FreeHandle
    BY <1>2, <2>4 DEF CreateThread, WaitReady, CloseValue, FreeHandle
  <2>5. CASE Reap \/ RequestAgain
    BY <2>5 DEF Reap, RequestAgain
  <2> QED
    BY <1>2, <2>1, <2>2, <2>3, <2>4, <2>5 DEF Next, CallStep
<1>3. Good => NoDanglingCallback
  BY DEF NoDanglingCallback
<1> QED
  BY <1>1, <1>2, <1>3, PTL DEF Spec

-----------------------------------------------------------------------------
(* What becomes of an interrupt that finds the thread in poll (gpio.c:424, *)
(* 465-470), next to the one of the finding, which finds it in the         *)
(* callback function: the places the thread passes on the way.             *)
Served == Running \/ cancelled # {}

Polling == ~Served /\ \E c \in Slots : thread[c] = "poll" /\ pending

Passing(l) == ~Served /\ \E c \in Slots : thread[c] = l

(* While nobody cancels the callback, the thread that moves is the one     *)
(* there is, and nothing else takes an interrupt away from it.             *)
LEMMA PassingStep ==
  ASSUME TypeOK, HandlerInv, [Next]_vars, ~Served, ~Served',
         NEW c \in Slots, thread[c] \in {"poll", "final", "caught"}
  PROVE  /\ PollThread => Thread(c) /\ ~Die(c)
         /\ ~PollThread => UNCHANGED thread /\ (pending => pending')
<1>1. \A d \in Slots : thread[d] # "none" => d = c
  BY DEF HandlerInv, ThreadServesHandle
<1>2. PollThread => Thread(c) /\ ~Die(c)
  <2>1. ASSUME NEW d \in Slots, Thread(d) PROVE d = c
    <3>1. thread[d] # "none"
      BY <2>1 DEF Thread, Unlock, ReadClear, PollReturns, FinalRead, StartCallback,
                  FinishCallback, Die
    <3> QED
      BY <1>1, <3>1
  <2> QED
    BY <2>1 DEF PollThread, Die, Served
<1>3. ASSUME ~PollThread PROVE UNCHANGED thread /\ (pending => pending')
  <2>1. app # "create" /\ thread[c] # "none"
    BY DEF HandlerInv
  <2>2. CASE Interrupt
    BY <2>2 DEF Interrupt
  <2>3. CASE ~Interrupt
    <3>1. UNCHANGED <<thread, pending>>
      BY <1>3, <2>1, <2>3 DEF Next, PollThread, CallStep, Register, Cancel, Free,
         CreateThread, WaitReady, Reap, CloseValue, FreeHandle, RequestAgain, handle, vars
    <3> QED
      BY <3>1
  <2> QED
    BY <2>2, <2>3
<1> QED
  BY <1>2, <1>3

LEMMA ServeStep ==
  ASSUME "poll" \notin Faults, TypeOK, HandlerInv, [Next]_vars
  PROVE  /\ Polling => /\ \E c \in Slots : CanRun(c)
                       /\ Polling' \/ Passing("final")' \/ Served'
                       /\ PollThread => Passing("final")' \/ Served'
         /\ Passing("final") => /\ \E c \in Slots : CanRun(c)
                                /\ Passing("final")' \/ Passing("caught")' \/ Served'
                                /\ PollThread => Passing("caught")' \/ Served'
         /\ Passing("caught") => /\ \E c \in Slots : CanRun(c)
                                 /\ Passing("caught")' \/ Served'
                                 /\ PollThread => Served'
<1>1. \A c \in Slots : \A l : Go(c, l) => thread'[c] = l
  BY DEF Go, TypeOK
<1>2. ASSUME Polling
      PROVE  /\ \E c \in Slots : CanRun(c)
             /\ Polling' \/ Passing("final")' \/ Served'
             /\ PollThread => Passing("final")' \/ Served'
  <2>1. PICK c \in Slots : thread[c] = "poll" /\ pending
    BY <1>2 DEF Polling
  <2>2. CanRun(c)
    BY <2>1 DEF CanRun
  <2>3. CASE ~Served' /\ PollThread
    <3>1. PollReturns(c)
      BY <1>2, <2>1, <2>3, PassingStep DEF Polling, Thread, Unlock, ReadClear, FinalRead,
                                          StartCallback, FinishCallback
    <3> QED
      BY <1>1, <2>2, <2>3, <3>1 DEF PollReturns, Passing
  <2>4. CASE ~Served' /\ ~PollThread
    <3>1. thread' = thread /\ pending'
      BY <1>2, <2>1, <2>4, PassingStep DEF Polling
    <3> QED
      BY <2>1, <2>2, <2>4, <3>1 DEF Polling
  <2> QED
    BY <2>2, <2>3, <2>4
<1>3. ASSUME Passing("final")
      PROVE  /\ \E c \in Slots : CanRun(c)
             /\ Passing("final")' \/ Passing("caught")' \/ Served'
             /\ PollThread => Passing("caught")' \/ Served'
  <2>1. PICK c \in Slots : thread[c] = "final"
    BY <1>3 DEF Passing
  <2>2. CanRun(c)
    BY <2>1 DEF CanRun
  <2>3. CASE ~Served' /\ PollThread
    <3>1. FinalRead(c)
      BY <1>3, <2>1, <2>3, PassingStep DEF Passing, Thread, Unlock, ReadClear, PollReturns,
                                          StartCallback, FinishCallback
    <3> QED
      BY <1>1, <2>2, <2>3, <3>1 DEF FinalRead, Passing
  <2>4. CASE ~Served' /\ ~PollThread
    <3>1. thread' = thread
      BY <1>3, <2>1, <2>4, PassingStep DEF Passing
    <3> QED
      BY <2>1, <2>2, <2>4, <3>1 DEF Passing
  <2> QED
    BY <2>2, <2>3, <2>4
<1>4. ASSUME Passing("caught")
      PROVE  /\ \E c \in Slots : CanRun(c)
             /\ Passing("caught")' \/ Served'
             /\ PollThread => Served'
  <2>1. PICK c \in Slots : thread[c] = "caught"
    BY <1>4 DEF Passing
  <2>2. CanRun(c)
    BY <2>1 DEF CanRun
  <2>3. CASE ~Served' /\ PollThread
    <3>1. StartCallback(c)
      BY <1>4, <2>1, <2>3, PassingStep DEF Passing, Thread, Unlock, ReadClear, PollReturns,
                                          FinalRead, FinishCallback
    <3> QED
      BY <1>1, <2>3, <3>1 DEF StartCallback, Served, Running
  <2>4. CASE ~Served' /\ ~PollThread
    <3>1. thread' = thread
      BY <1>4, <2>1, <2>4, PassingStep DEF Passing
    <3> QED
      BY <2>1, <2>2, <2>4, <3>1 DEF Passing
  <2> QED
    BY <2>2, <2>3, <2>4
<1> QED
  BY <1>2, <1>3, <1>4

(* An interrupt that finds the thread in poll gets the callback function   *)
(* called, unless the callback is cancelled first or poll fails; other     *)
(* interrupts and calls that come meanwhile make no difference.            *)
THEOREM PolledInterruptIsServed ==
  ASSUME ~Reregisters, "poll" \notin Faults
  PROVE  Spec /\ ThreadsRun =>
           ((\E c \in Slots : thread[c] = "poll" /\ pending) ~>
              (\E c \in Slots : thread[c] = "callback") \/ cancelled # {})
<1> DEFINE Inv == TypeOK /\ HandlerInv
           Someone == \E c \in Slots : CanRun(c)
           Found == \E c \in Slots : thread[c] = "poll" /\ pending
           Through == (\E c \in Slots : thread[c] = "callback") \/ cancelled # {}
<1>1. Inv /\ Polling /\ [Next]_vars =>
        /\ Someone
        /\ Polling' \/ Passing("final")' \/ Served'
        /\ PollThread => Passing("final")' \/ Served'
  BY ServeStep
<1>2. Inv /\ Passing("final") /\ [Next]_vars =>
        /\ Someone
        /\ Passing("final")' \/ Passing("caught")' \/ Served'
        /\ PollThread => Passing("caught")' \/ Served'
  BY ServeStep
<1>3. Inv /\ Passing("caught") /\ [Next]_vars =>
        /\ Someone
        /\ Passing("caught")' \/ Served'
        /\ PollThread => Served'
  BY ServeStep
<1>4. (Found => Polling \/ Served) /\ (Served => Through)
  BY DEF Polling, Served, Running
<1>5. Spec => []Inv
  BY HandlerInvariant
<1> HIDE DEF Inv, Someone, Found, Through
<1>6. Spec /\ ([]<>~Someone \/ []<><<PollThread>>_vars) => (Found ~> Through)
  BY <1>1, <1>2, <1>3, <1>4, <1>5, PTL DEF Spec
<1> QED
  BY <1>6 DEF Someone, Found, Through, ThreadsRun
=============================================================================
