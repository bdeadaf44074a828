------------------------ MODULE GpioLifecycleProofs ------------------------
(***************************************************************************)
(* Proofs about GpioLifecycle for every set of clients and every Faults.   *)
(* All but type correctness assume that no client asks for GREEDY, which   *)
(* unexports lines it did not export.                                      *)
(***************************************************************************)
EXTENDS GpioLifecycle, TLAPS

(* What the common endings of a step keep of the type. *)
LEMMA ReturnType ==
  ASSUME TypeOK, NEW c \in Clients, Return(c)
  PROVE  /\ pc' \in [Clients -> Locations]
         /\ mode' \in [Clients -> RequestModes]
         /\ shared' \in [Clients -> BOOLEAN]
<1>1. "idle" \in Locations /\ "SHARED" \in RequestModes
  BY DEF Locations, RequestModes
<1> QED
  BY <1>1 DEF Return, TypeOK

(* Moving on within a call. *)
LEMMA GotoType ==
  ASSUME TypeOK, NEW c \in Clients, NEW l \in Locations, Goto(c, l)
  PROVE  /\ pc' \in [Clients -> Locations]
         /\ mode' \in [Clients -> RequestModes]
         /\ shared' \in [Clients -> BOOLEAN]
BY DEF Goto, TypeOK

(* Recording what a call did not release. *)
LEMMA LeakType ==
  ASSUME TypeOK, NEW c \in Clients, NEW what \in SUBSET Resources, Leak(c, what)
  PROVE  leaks' \in [Clients -> SUBSET Resources]
BY DEF Leak, TypeOK

(* Every step of every client, in every mode, keeps the type. *)
LEMMA TypeStep ==
  ASSUME TypeOK, [Next]_vars
  PROVE  TypeOK'
<1>0. /\ Locations = {"idle", "check", "export", "verify", "open",
                      "holding", "unexport", "gone"}
      /\ {"export_fd"} \in SUBSET Resources
      /\ {"gpio"} \in SUBSET Resources
      /\ {"unexport_fd", "gpio"} \in SUBSET Resources
  BY DEF Locations, Resources
<1>1. ASSUME NEW c \in Clients, NEW m \in Modes, Request(c, m) PROVE TypeOK'
  <2>1. Normalise(m) \in RequestModes /\ InitiallyShared \in BOOLEAN
    BY DEF Normalise, RequestModes, InitiallyShared
  <2> QED
    BY <1>0, <1>1, <2>1 DEF Request, TypeOK
<1>2. ASSUME NEW c \in Clients, CheckExported(c) PROVE TypeOK'
  <2>1. JoinIsShared(mode[c]) \in BOOLEAN
    BY DEF JoinIsShared
  <2>2. CASE Return(c)
    BY <1>2, <2>2, ReturnType DEF CheckExported, TypeOK
  <2>3. CASE Goto(c, "export")
    BY <1>0, <1>2, <2>3, GotoType DEF CheckExported, TypeOK
  <2> QED
    BY <1>0, <1>2, <2>1, <2>2, <2>3 DEF CheckExported, TypeOK
<1>3. ASSUME NEW c \in Clients, Export(c) PROVE TypeOK'
  <2>1. exported' \in BOOLEAN /\ attached' \subseteq Clients
    BY <1>3 DEF Export, KernelExport, TypeOK
  <2>2. leaks' \in [Clients -> SUBSET Resources]
    BY <1>0, <1>3, LeakType DEF Export, TypeOK
  <2>3. Return(c) \/ Goto(c, "verify")
    BY <1>3 DEF Export
  <2> QED
    BY <1>0, <2>1, <2>2, <2>3, ReturnType, GotoType DEF TypeOK
<1>4. ASSUME NEW c \in Clients, Verify(c) PROVE TypeOK'
  BY <1>0, <1>4, ReturnType, GotoType DEF Verify, TypeOK
<1>5. ASSUME NEW c \in Clients, Open(c) PROVE TypeOK'
  <2>1. attached' \subseteq Clients
    BY <1>5 DEF Open, TypeOK
  <2> QED
    BY <1>0, <1>5, <2>1, ReturnType, GotoType DEF Open, TypeOK
<1>6. ASSUME NEW c \in Clients, FreeClose(c) PROVE TypeOK'
  <2>1. leaks' \in [Clients -> SUBSET Resources]
    BY <1>0, <1>6, LeakType DEF FreeClose, TypeOK
  <2> QED
    BY <1>0, <1>6, <2>1, ReturnType, GotoType DEF FreeClose, TypeOK
<1>7. ASSUME NEW c \in Clients, Unexport(c) PROVE TypeOK'
  <2>1. exported' \in BOOLEAN /\ attached' \subseteq Clients
    BY <1>7 DEF Unexport, KernelUnexport, TypeOK
  <2>2. leaks' \in [Clients -> SUBSET Resources]
    BY <1>0, <1>7, LeakType DEF Unexport, TypeOK
  <2>3. Return(c) \/ Goto(c, "gone")
    BY <1>7 DEF Unexport
  <2> QED
    BY <1>0, <2>1, <2>2, <2>3, ReturnType, GotoType DEF TypeOK
<1>8. ASSUME NEW c \in Clients, CheckGone(c) PROVE TypeOK'
  BY <1>0, <1>8, ReturnType, LeakType DEF CheckGone, TypeOK
<1>9. ASSUME NEW c \in Clients, Crash(c) PROVE TypeOK'
  <2>1. leaks' \in [Clients -> SUBSET Resources]
    BY <1>9 DEF Crash, TypeOK
  <2> QED
    BY <1>9, <2>1, ReturnType DEF Crash, TypeOK
<1>10. CASE UNCHANGED vars
  BY <1>10 DEF vars, TypeOK
<1> QED
  BY <1>1, <1>2, <1>3, <1>4, <1>5, <1>6, <1>7, <1>8, <1>9, <1>10 DEF Next, Step

(* Type correctness of request and free. *)
THEOREM TypeCorrect == Spec => []TypeOK
<1>1. Init => TypeOK
  BY DEF Init, TypeOK, Locations, RequestModes
<1>2. TypeOK /\ [Next]_vars => TypeOK'
  BY TypeStep
<1> QED
  BY <1>1, <1>2, PTL DEF Spec

-----------------------------------------------------------------------------
(* Who owes an unexport after a call returns: whoever did, but for its     *)
(* caller.                                                                 *)
LEMMA ReturnOwes ==
  ASSUME TypeOK, NEW c \in Clients, Return(c)
  PROVE  /\ pc'[c] = "idle"
         /\ \A d \in Clients : Owes(d)' <=> (d # c /\ Owes(d))
         /\ \A d \in Clients \ {c} : pc'[d] = pc[d]
<1>1. pc'[c] = "idle" /\ \A d \in Clients \ {c} : pc'[d] = pc[d] /\ shared'[d] = shared[d]
  BY DEF Return, TypeOK
<1>2. ASSUME NEW d \in Clients PROVE Owes(d)' <=> (d # c /\ Owes(d))
  <2>1. CASE d = c
    BY <1>1, <2>1 DEF Owes
  <2>2. CASE d # c
    BY <1>1, <2>2 DEF Owes
  <2> QED
    BY <2>1, <2>2
<1> QED
  BY <1>1, <1>2

(* Who owes an unexport after a call moves on to l.                        *)
LEMMA GotoOwes ==
  ASSUME TypeOK, NEW c \in Clients, NEW l \in Locations, Goto(c, l)
  PROVE  /\ pc'[c] = l
         /\ Owes(c)' <=> (~shared[c] /\ l \in {"verify", "open", "holding", "unexport"})
         /\ \A d \in Clients \ {c} : pc'[d] = pc[d] /\ (Owes(d)' <=> Owes(d))
BY DEF Goto, TypeOK, Owes

(* Without GREEDY the mode a request works with is SHARED or WEAK.         *)
LEMMA NoGreedyMode ==
  ASSUME "GREEDY" \notin Modes, TypeOK, NEW c \in Clients
  PROVE  mode[c] \in {"SHARED", "WEAK"}
BY ModesAssumption DEF TypeOK, RequestModes

(* Every step keeps SharedInv, in every mode. *)
LEMMA SharedInvStep ==
  ASSUME TypeOK, SharedInv, [Next]_vars
  PROVE  SharedInv'
<1> USE DEF SharedInv, TypeOK
<1>1. ASSUME NEW c \in Clients, NEW m \in Modes, Request(c, m) PROVE SharedInv'
  BY <1>1 DEF Request, InitiallyShared
<1>2. ASSUME NEW c \in Clients, Return(c) PROVE SharedInv'
  BY <1>2 DEF Return
<1>3. ASSUME NEW c \in Clients, CheckExported(c) PROVE SharedInv'
  <2>1. CASE Goto(c, "export")
    BY <1>3, <2>1 DEF CheckExported, Goto
  <2>2. CASE /\ shared' = [shared EXCEPT ![c] = JoinIsShared(mode[c])]
             /\ pc' = [pc EXCEPT ![c] = "open"]
    BY <2>2
  <2> QED
    BY <1>2, <1>3, <2>1, <2>2 DEF CheckExported
<1>4. ASSUME NEW c \in Clients, pc[c] \in {"export", "verify", "open", "unexport"},
             NEW l, Goto(c, l), pc[c] = "open" => l = "holding"
      PROVE  SharedInv'
  BY <1>4 DEF Goto
<1>5. ASSUME NEW c \in Clients, Goto(c, "unexport"), ~shared[c] PROVE SharedInv'
  BY <1>5 DEF Goto
<1>6. CASE UNCHANGED vars
  BY <1>6 DEF vars
<1>7. ASSUME NEW c \in Clients, Export(c) PROVE SharedInv'
  BY <1>2, <1>4, <1>7 DEF Export
<1>8. ASSUME NEW c \in Clients, Verify(c) PROVE SharedInv'
  BY <1>2, <1>4, <1>8 DEF Verify
<1>9. ASSUME NEW c \in Clients, Open(c) PROVE SharedInv'
  BY <1>2, <1>4, <1>9 DEF Open
<1>10. ASSUME NEW c \in Clients, FreeClose(c) PROVE SharedInv'
  BY <1>2, <1>5, <1>10 DEF FreeClose, KeepsExport
<1>11. ASSUME NEW c \in Clients, Unexport(c) PROVE SharedInv'
  BY <1>2, <1>4, <1>11 DEF Unexport
<1>12. ASSUME NEW c \in Clients, CheckGone(c) \/ Crash(c) PROVE SharedInv'
  BY <1>2, <1>12 DEF CheckGone, Crash
<1> QED
  BY <1>1, <1>3, <1>6, <1>7, <1>8, <1>9, <1>10, <1>11, <1>12 DEF Next, Step

(* Every step of every client keeps LineInv when nobody is GREEDY.         *)
LEMMA LineInvStep ==
  ASSUME "GREEDY" \notin Modes, TypeOK, LineInv, [Next]_vars
  PROVE  LineInv'
<1>0. Locations = {"idle", "check", "export", "verify", "open",
                   "holding", "unexport", "gone"}
  BY DEF Locations
<1> USE DEF LineInv, SingleExporter, ExporterReachesLine
<1>s. SharedInv'
  BY SharedInvStep
<1>1. ASSUME NEW c \in Clients, NEW m \in Modes, Request(c, m) PROVE LineInv'
  <2>1. /\ pc'[c] = "check"
        /\ \A d \in Clients \ {c} : pc'[d] = pc[d] /\ shared'[d] = shared[d]
    BY <1>1 DEF Request, TypeOK
  <2>2. ~Owes(c)' /\ \A d \in Clients \ {c} : Owes(d)' <=> Owes(d)
    BY <2>1 DEF Owes
  <2> QED
    BY <1>s, <1>1, <2>1, <2>2 DEF Request, TypeOK
<1>2. ASSUME NEW c \in Clients, CheckExported(c) PROVE LineInv'
  <2>1. pc[c] # "holding" /\ UNCHANGED <<exported, attached>>
    BY <1>2 DEF CheckExported
  <2>2. /\ ~Owes(c)' /\ pc'[c] # "holding"
        /\ \A d \in Clients \ {c} : pc'[d] = pc[d] /\ (Owes(d)' <=> Owes(d))
    <3>1. CASE Return(c)
      BY <3>1, ReturnOwes
    <3>2. CASE Goto(c, "export")
      BY <1>0, <3>2, GotoOwes
    <3>3. CASE /\ mode[c] # "WEAK"
               /\ shared' = [shared EXCEPT ![c] = JoinIsShared(mode[c])]
               /\ pc' = [pc EXCEPT ![c] = "open"]
      <4>1. shared'[c] /\ pc'[c] = "open"
        BY <3>3, NoGreedyMode DEF JoinIsShared, TypeOK
      <4>2. \A d \in Clients \ {c} : pc'[d] = pc[d] /\ shared'[d] = shared[d]
        BY <3>3 DEF TypeOK
      <4> QED
        BY <4>1, <4>2 DEF Owes
    <3> QED
      BY <1>2, <3>1, <3>2, <3>3 DEF CheckExported
  <2> QED
    BY <1>s, <2>1, <2>2 DEF TypeOK
<1>3. ASSUME NEW c \in Clients, Export(c) PROVE LineInv'
  <2>1. pc[c] # "holding" /\ ~Owes(c)
    BY <1>3 DEF Export, Owes
  <2>2. CASE Return(c) /\ UNCHANGED <<exported, attached>>
    BY <1>s, <2>1, <2>2, ReturnOwes DEF TypeOK
  <2>3. CASE KernelExport /\ Return(c)
    BY <1>s, <2>1, <2>3, ReturnOwes DEF KernelExport, TypeOK
  <2>4. CASE KernelExport /\ Goto(c, "verify")
    <3>1. \A d \in Clients : ~Owes(d)
      BY <2>4 DEF KernelExport
    <3> QED
      BY <1>s, <1>0, <2>1, <2>4, <3>1, GotoOwes DEF KernelExport, TypeOK
  <2> QED
    BY <1>3, <2>2, <2>3, <2>4 DEF Export
<1>4. ASSUME NEW c \in Clients, Verify(c) PROVE LineInv'
  <2>1. pc[c] # "holding" /\ UNCHANGED <<exported, attached>>
    BY <1>4 DEF Verify
  <2>2. CASE Return(c)
    BY <1>s, <2>1, <2>2, ReturnOwes DEF TypeOK
  <2>3. CASE FileValid /\ Goto(c, "open")
    <3>1. Owes(c)' <=> Owes(c)
      BY <1>0, <1>4, <2>3, GotoOwes DEF Verify, Owes
    <3> QED
      BY <1>s, <1>0, <2>1, <2>3, <3>1, GotoOwes DEF TypeOK
  <2> QED
    BY <1>4, <2>2, <2>3 DEF Verify
<1>5. ASSUME NEW c \in Clients, Open(c) PROVE LineInv'
  <2>1. pc[c] # "holding" /\ UNCHANGED exported
    BY <1>5 DEF Open
  <2>2. CASE Return(c) /\ UNCHANGED attached
    BY <1>s, <2>1, <2>2, ReturnOwes DEF TypeOK
  <2>3. CASE exported /\ attached' = attached \cup {c} /\ Goto(c, "holding")
    <3>1. Owes(c)' <=> Owes(c)
      BY <1>0, <1>5, <2>3, GotoOwes DEF Open, Owes
    <3> QED
      BY <1>s, <1>0, <2>1, <2>3, <3>1, GotoOwes DEF TypeOK
  <2> QED
    BY <1>5, <2>2, <2>3 DEF Open
<1>6. ASSUME NEW c \in Clients, FreeClose(c) PROVE LineInv'
  <2>1. attached' = attached \ {c} /\ UNCHANGED exported
    BY <1>6 DEF FreeClose
  <2>2. CASE Return(c)
    BY <1>s, <2>1, <2>2, ReturnOwes DEF TypeOK
  <2>3. CASE Goto(c, "unexport")
    <3>1. Owes(c)' <=> Owes(c)
      BY <1>0, <1>6, <2>3, GotoOwes DEF FreeClose, Owes
    <3> QED
      BY <1>s, <1>0, <2>1, <2>3, <3>1, GotoOwes DEF TypeOK
  <2> QED
    BY <1>6, <2>2, <2>3 DEF FreeClose
<1>7. ASSUME NEW c \in Clients, Unexport(c) PROVE LineInv'
  <2>1. pc[c] # "holding" /\ Owes(c)
    BY <1>7 DEF Unexport, Owes, SharedInv
  <2>2. CASE Return(c) /\ UNCHANGED <<exported, attached>>
    BY <1>s, <2>1, <2>2, ReturnOwes DEF TypeOK
  <2>3. CASE KernelUnexport /\ Return(c)
    BY <1>s, <2>1, <2>3, ReturnOwes DEF KernelUnexport, TypeOK
  <2>4. CASE KernelUnexport /\ Goto(c, "gone")
    BY <1>s, <1>0, <2>1, <2>4, GotoOwes DEF KernelUnexport, TypeOK
  <2> QED
    BY <1>7, <2>2, <2>3, <2>4 DEF Unexport
<1>8. ASSUME NEW c \in Clients, CheckGone(c) PROVE LineInv'
  BY <1>s, <1>8, ReturnOwes DEF CheckGone, TypeOK
<1>9. ASSUME NEW c \in Clients, Crash(c) PROVE LineInv'
  BY <1>s, <1>9, ReturnOwes DEF Crash, TypeOK
<1>10. CASE UNCHANGED vars
  BY <1>s, <1>10 DEF vars, Owes
<1> QED
  BY <1>1, <1>2, <1>3, <1>4, <1>5, <1>6, <1>7, <1>8, <1>9, <1>10 DEF Next, Step

-----------------------------------------------------------------------------
(* The inductive invariant holds of every behaviour without GREEDY. *)
THEOREM LineInvariant ==
  ASSUME "GREEDY" \notin Modes
  PROVE  Spec => [](TypeOK /\ LineInv)
<1>1. Init => LineInv
  BY DEF Init, LineInv, SingleExporter, ExporterReachesLine, SharedInv, Owes
<1>2. TypeOK /\ LineInv /\ [Next]_vars => LineInv'
  BY LineInvStep
<1> QED
  BY <1>1, <1>2, TypeCorrect, PTL DEF Spec

(* Without GREEDY there is at most one exporter at a time, its line is     *)
(* there and its handle is good, whatever fails or crashes.                *)
THEOREM ExporterIsSafe ==
  ASSUME "GREEDY" \notin Modes
  PROVE  Spec => [](SingleExporter /\ ExporterReachesLine)
<1>1. LineInv => SingleExporter /\ ExporterReachesLine
  BY DEF LineInv
<1> QED
  BY <1>1, LineInvariant, PTL

(* Without GREEDY the exporter's line stays until its own unexport.        *)
THEOREM ExportersReachTheirLine ==
  ASSUME "GREEDY" \notin Modes
  PROVE  Spec => []ExporterReachesLine
<1>1. SingleExporter /\ ExporterReachesLine => ExporterReachesLine
  OBVIOUS
<1> QED
  BY <1>1, ExporterIsSafe, PTL

(* Without GREEDY an export that no client is to undo is never undone.     *)
THEOREM UnownedExportIsKept ==
  ASSUME "GREEDY" \notin Modes
  PROVE  Spec => UnownedExportKept
<1>1. ASSUME TypeOK, LineInv, [Next]_vars, Unowned PROVE Unowned'
  <2> USE <1>1 DEF Unowned
  <2>0. Locations = {"idle", "check", "export", "verify", "open",
                     "holding", "unexport", "gone"}
    BY DEF Locations
  <2>1. ASSUME NEW c \in Clients, NEW m \in Modes, Request(c, m) PROVE Unowned'
    BY <2>1 DEF Request, Owes, TypeOK
  <2>2. ASSUME NEW c \in Clients, Return(c), UNCHANGED exported PROVE Unowned'
    BY <2>2, ReturnOwes
  <2>3. ASSUME NEW c \in Clients, CheckExported(c) PROVE Unowned'
    <3>1. CASE Return(c)
      BY <2>2, <2>3, <3>1 DEF CheckExported
    <3>2. CASE /\ mode[c] # "WEAK"
               /\ shared' = [shared EXCEPT ![c] = JoinIsShared(mode[c])]
               /\ pc' = [pc EXCEPT ![c] = "open"]
      <4>1. shared'[c]
        BY <3>2, NoGreedyMode DEF JoinIsShared, TypeOK
      <4>2. \A d \in Clients \ {c} : pc'[d] = pc[d] /\ shared'[d] = shared[d]
        BY <3>2 DEF TypeOK
      <4> QED
        BY <2>3, <4>1, <4>2 DEF CheckExported, Owes
    <3> QED
      BY <2>3, <3>1, <3>2 DEF CheckExported, FileValid
  <2>4. ASSUME NEW c \in Clients, Export(c) PROVE Unowned'
    BY <2>2, <2>4 DEF Export, KernelExport
  <2>5. ASSUME NEW c \in Clients, Verify(c) PROVE Unowned'
    BY <2>0, <2>5, GotoOwes DEF Verify, FileValid, Owes
  <2>6. ASSUME NEW c \in Clients, Open(c) PROVE Unowned'
    <3>1. CASE Return(c)
      BY <2>2, <2>6, <3>1 DEF Open
    <3>2. CASE Goto(c, "holding")
      BY <2>0, <2>6, <3>2, GotoOwes DEF Open, Owes
    <3> QED
      BY <2>6, <3>1, <3>2 DEF Open
  <2>7. ASSUME NEW c \in Clients, FreeClose(c) PROVE Unowned'
    BY <2>2, <2>7 DEF FreeClose, KeepsExport, Owes
  <2>8. ASSUME NEW c \in Clients, Unexport(c) PROVE Unowned'
    <3>1. ~shared[c]
      BY <2>8 DEF Unexport, LineInv, SharedInv
    <3> QED
      BY <2>8, <3>1 DEF Unexport, Owes
  <2>9. ASSUME NEW c \in Clients, CheckGone(c) PROVE Unowned'
    BY <2>2, <2>9 DEF CheckGone
  <2>10. ASSUME NEW c \in Clients, Crash(c) PROVE Unowned'
    BY <2>2, <2>10 DEF Crash
  <2>11. CASE UNCHANGED vars
    BY <2>11 DEF vars, Owes
  <2> QED
    BY <2>1, <2>3, <2>4, <2>5, <2>6, <2>7, <2>8, <2>9, <2>10, <2>11 DEF Next, Step
<1>2. TypeOK /\ LineInv /\ [Next]_vars => [Unowned => Unowned']_vars
  BY <1>1
<1> QED
  BY <1>2, LineInvariant, PTL DEF Spec, UnownedExportKept

(* In every mode, when no call fails by itself, no step strands an export. *)
THEOREM NothingIsStranded ==
  ASSUME Faults = {}
  PROVE  Spec => NoStrandedExport
<1>1. Init => SharedInv
  BY DEF Init, SharedInv
<1>2. ASSUME TypeOK, SharedInv, [Next]_vars, Unowned' PROVE Unowned
  <2> USE <1>2 DEF Unowned
  <2>0. Locations = {"idle", "check", "export", "verify", "open",
                     "holding", "unexport", "gone"}
    BY DEF Locations
  <2>1. ASSUME NEW c \in Clients, NEW m \in Modes, Request(c, m) PROVE Unowned
    BY <2>1 DEF Request, Owes, TypeOK
  <2>2. ASSUME NEW c \in Clients, Return(c), ~Owes(c), UNCHANGED exported PROVE Unowned
    BY <2>2, ReturnOwes
  <2>3. ASSUME NEW c \in Clients, CheckExported(c) PROVE Unowned
    BY <2>3 DEF CheckExported, Goto, Return, Owes, TypeOK
  <2>4. ASSUME NEW c \in Clients, Export(c) PROVE Unowned
    <3>1. CASE Return(c) /\ UNCHANGED exported
      BY <2>2, <2>4, <3>1 DEF Export, Owes
    <3>2. CASE Goto(c, "verify")
      BY <2>0, <2>4, <3>2, GotoOwes DEF Export, SharedInv
    <3> QED
      BY <2>4, <3>1, <3>2 DEF Export, FileCloseFails
  <2>5. ASSUME NEW c \in Clients, Verify(c) PROVE Unowned
    BY <2>0, <2>5, GotoOwes DEF Verify, FileValid, Owes
  <2>6. ASSUME NEW c \in Clients, Open(c) PROVE Unowned
    BY <2>0, <2>6, GotoOwes DEF Open, FileOpenFails, Owes
  <2>7. ASSUME NEW c \in Clients, FreeClose(c) PROVE Unowned
    <3>1. CASE shared[c] /\ Return(c)
      BY <2>2, <2>7, <3>1 DEF FreeClose, Owes
    <3>2. CASE ~shared[c] /\ Goto(c, "unexport")
      BY <2>0, <2>7, <3>2, GotoOwes DEF FreeClose
    <3> QED
      BY <2>7, <3>1, <3>2 DEF FreeClose, KeepsExport, FileCloseFails
  <2>8. ASSUME NEW c \in Clients, Unexport(c) PROVE Unowned
    BY <2>8 DEF Unexport, FileOpenFails, FileWriteFails, KernelUnexport
  <2>9. ASSUME NEW c \in Clients, CheckGone(c) PROVE Unowned
    BY <2>2, <2>9 DEF CheckGone, Owes
  <2>10. ASSUME NEW c \in Clients, Crash(c) PROVE Unowned
    BY <2>10 DEF Crash
  <2>11. CASE UNCHANGED vars
    BY <2>11 DEF vars, Owes
  <2> QED
    BY <2>1, <2>3, <2>4, <2>5, <2>6, <2>7, <2>8, <2>9, <2>10, <2>11 DEF Next, Step
<1>3. TypeOK /\ SharedInv /\ [Next]_vars => SharedInv'
  BY SharedInvStep
<1>4. TypeOK /\ SharedInv /\ [Next]_vars => [Unowned' => Unowned]_vars
  BY <1>2
<1> QED
  BY <1>1, <1>3, <1>4, TypeCorrect, PTL DEF Spec, NoStrandedExport

(* Without GREEDY no free has its unexport refused for want of an export,  *)
(* whatever other calls fail (gpio.c:183-187).                             *)
THEOREM UnexportIsNeverRefused ==
  ASSUME "GREEDY" \notin Modes, "write" \notin Faults
  PROVE  Spec => []UnexportNeverRefused
<1>1. Init => UnexportNeverRefused
  BY DEF Init, UnexportNeverRefused
<1>2. ASSUME TypeOK, LineInv, UnexportNeverRefused, [Next]_vars
      PROVE  UnexportNeverRefused'
  <2>1. ASSUME NEW c \in Clients, Unexport(c)
        PROVE  UNCHANGED leaks \/ Leak(c, {"gpio"})
    <3>1. exported
      BY <1>2, <2>1 DEF Unexport, LineInv, SharedInv, ExporterReachesLine, Owes
    <3> QED
      BY <2>1, <3>1 DEF Unexport, FileWriteFails
  <2>2. ASSUME NEW c \in Clients, NEW what, "unexport_fd" \notin what, Leak(c, what)
        PROVE  UnexportNeverRefused'
    BY <1>2, <2>2 DEF Leak, UnexportNeverRefused, TypeOK
  <2>3. CASE UNCHANGED leaks
    BY <1>2, <2>3 DEF UnexportNeverRefused
  <2>4. ASSUME NEW c \in Clients, Step(c) PROVE UnexportNeverRefused'
    <3>1. CASE Export(c)
      BY <2>2, <2>3, <3>1 DEF Export
    <3>2. CASE FreeClose(c)
      BY <2>2, <2>3, <3>2 DEF FreeClose
    <3>3. CASE CheckGone(c)
      BY <2>2, <2>3, <3>3 DEF CheckGone
    <3>4. CASE Unexport(c)
      BY <2>1, <2>2, <2>3, <3>4
    <3>5. CASE Crash(c)
      BY <1>2, <3>5 DEF Crash, UnexportNeverRefused, TypeOK
    <3> QED
      BY <2>3, <2>4, <3>1, <3>2, <3>3, <3>4, <3>5
      DEF Step, Request, CheckExported, Verify, Open
  <2> QED
    BY <1>2, <2>3, <2>4 DEF Next, vars
<1> QED
  BY <1>1, <1>2, LineInvariant, PTL DEF Spec

-----------------------------------------------------------------------------
(* The refinement mapping's owners, and how a step changes them.           *)
Owners == {c \in Clients : Owes(c)}

LEMMA ReturnOwners ==
  ASSUME TypeOK, NEW c \in Clients, Return(c)
  PROVE  Owners' = Owners \ {c}
BY ReturnOwes DEF Owners

LEMMA GotoOwners ==
  ASSUME TypeOK, NEW c \in Clients, NEW l \in Locations, Goto(c, l),
         (~shared[c] /\ l \in {"verify", "open", "holding", "unexport"}) <=> Owes(c)
  PROVE  Owners' = Owners
BY GotoOwes DEF Owners

(* LineExport's actions in terms of the mapped state. *)
LEMMA LineStep ==
  ASSUME NEW c \in Clients,
         \/ ~exported /\ exported' /\ Owners' = {c} /\ attached' = {}
         \/ /\ exported /\ c \notin attached /\ attached' = attached \cup {c}
            /\ Owners' = Owners /\ UNCHANGED exported
         \/ /\ c \in attached /\ attached' = attached \ {c}
            /\ Owners' = Owners /\ UNCHANGED exported
         \/ /\ Owners = {c} /\ c \notin attached
            /\ ~exported' /\ Owners' = {} /\ attached' = {}
         \/ /\ ~exported \/ Owners = {c}
            /\ exported' /\ Owners' = {} /\ attached' = attached \ {c}
         \/ Owners' = Owners /\ UNCHANGED <<exported, attached>>,
         exported \in BOOLEAN, exported' \in BOOLEAN
  PROVE  [Line!Next]_Line!vars
<1>1. Owners = {d \in Clients : Owes(d)} /\ Owners' = {d \in Clients : Owes(d)'}
  BY DEF Owners
<1>2. [Line!Claim(c) \/ Line!Join(c) \/ Line!Leave(c) \/ Line!Release(c) \/ Line!Abandon(c)]_Line!vars
  BY <1>1 DEF Line!Claim, Line!Join, Line!Leave, Line!Release, Line!Abandon, Line!vars
<1> QED
  BY <1>2 DEF Line!Next

(* Without GREEDY every step is a step of LineExport or leaves it alone.   *)
LEMMA StepImplements ==
  ASSUME "GREEDY" \notin Modes, TypeOK, LineInv, [Next]_vars
  PROVE  [Line!Next]_Line!vars
<1>0. Locations = {"idle", "check", "export", "verify", "open",
                   "holding", "unexport", "gone"}
  BY DEF Locations
<1>b. exported \in BOOLEAN /\ exported' \in BOOLEAN
  <2>1. TypeOK'
    BY TypeStep
  <2> QED
    BY <2>1 DEF TypeOK
<1>o. ASSUME NEW c \in Clients, Owes(c) PROVE exported /\ Owners = {c}
  BY <1>o DEF Owners, LineInv, SingleExporter, ExporterReachesLine
<1>a. ~exported => Owners = {} /\ attached = {}
  BY DEF Owners, LineInv, ExporterReachesLine
<1>h. \A c \in Clients : pc[c] # "holding" => c \notin attached
  BY DEF LineInv
(* A call that returns early, with the line as it was. *)
<1>r. ASSUME NEW c \in Clients, Return(c), UNCHANGED exported, attached' = attached \ {c}
      PROVE  [Line!Next]_Line!vars
  <2>1. Owners' = Owners \ {c}
    BY <1>r, ReturnOwners
  <2>2. CASE Owes(c)
    BY <1>b, <1>o, <1>r, <2>1, <2>2, LineStep
  <2>3. CASE ~Owes(c)
    <3>1. Owners' = Owners
      BY <2>1, <2>3 DEF Owners
    <3> QED
      BY <1>b, <1>r, <3>1, LineStep
  <2> QED
    BY <2>2, <2>3
<1>n. ASSUME NEW c \in Clients, Return(c), pc[c] # "holding",
             UNCHANGED <<exported, attached>>
      PROVE  [Line!Next]_Line!vars
  BY <1>h, <1>n, <1>r
<1>1. ASSUME NEW c \in Clients, NEW m \in Modes, Request(c, m)
      PROVE  [Line!Next]_Line!vars
  <2>1. Owners' = Owners
    BY <1>1 DEF Request, Owners, Owes, TypeOK
  <2> QED
    BY <1>1, <1>b, <2>1, LineStep DEF Request
<1>2. ASSUME NEW c \in Clients, CheckExported(c) PROVE [Line!Next]_Line!vars
  <2>1. UNCHANGED <<exported, attached>> /\ pc[c] = "check" /\ ~Owes(c)
    BY <1>2 DEF CheckExported, Owes
  <2>2. CASE Return(c)
    BY <1>n, <2>1, <2>2
  <2>3. CASE Goto(c, "export")
    <3>1. Owners' = Owners
      BY <1>0, <2>1, <2>3, GotoOwners
    <3> QED
      BY <1>b, <2>1, <3>1, LineStep
  <2>4. CASE /\ mode[c] # "WEAK"
             /\ shared' = [shared EXCEPT ![c] = JoinIsShared(mode[c])]
             /\ pc' = [pc EXCEPT ![c] = "open"]
    <3>1. shared'[c]
      BY <2>4, NoGreedyMode DEF JoinIsShared, TypeOK
    <3>2. \A d \in Clients \ {c} : pc'[d] = pc[d] /\ shared'[d] = shared[d]
      BY <2>4 DEF TypeOK
    <3>3. Owners' = Owners
      BY <2>1, <3>1, <3>2 DEF Owners, Owes
    <3> QED
      BY <1>b, <2>1, <3>3, LineStep
  <2> QED
    BY <1>2, <2>2, <2>3, <2>4 DEF CheckExported
<1>3. ASSUME NEW c \in Clients, Export(c) PROVE [Line!Next]_Line!vars
  <2>1. pc[c] = "export" /\ ~shared[c] /\ ~Owes(c)
    BY <1>3 DEF Export, Owes, LineInv, SharedInv
  <2>2. CASE Return(c) /\ UNCHANGED <<exported, attached>>
    BY <1>n, <2>1, <2>2
  <2>3. CASE KernelExport /\ Return(c)
    <3>1. Owners' = {}
      BY <1>a, <2>3, ReturnOwners DEF KernelExport
    <3> QED
      BY <1>a, <1>b, <2>3, <3>1, LineStep DEF KernelExport
  <2>4. CASE KernelExport /\ Goto(c, "verify")
    <3>1. Owners' = Owners \cup {c}
      BY <1>0, <2>1, <2>4, GotoOwes DEF Owners
    <3> QED
      BY <1>a, <1>b, <2>4, <3>1, LineStep DEF KernelExport
  <2> QED
    BY <1>3, <2>2, <2>3, <2>4 DEF Export
<1>4. ASSUME NEW c \in Clients, Verify(c) PROVE [Line!Next]_Line!vars
  <2>1. UNCHANGED <<exported, attached>> /\ pc[c] = "verify"
    BY <1>4 DEF Verify
  <2>2. CASE Goto(c, "open")
    <3>1. Owners' = Owners
      BY <1>0, <2>1, <2>2, GotoOwners DEF Owes
    <3> QED
      BY <1>b, <2>1, <3>1, LineStep
  <2> QED
    BY <1>4, <1>n, <2>1, <2>2 DEF Verify
<1>5. ASSUME NEW c \in Clients, Open(c) PROVE [Line!Next]_Line!vars
  <2>1. UNCHANGED exported /\ pc[c] = "open"
    BY <1>5 DEF Open
  <2>2. CASE Return(c) /\ UNCHANGED attached
    BY <1>n, <2>1, <2>2
  <2>3. CASE exported /\ attached' = attached \cup {c} /\ Goto(c, "holding")
    <3>1. Owners' = Owners
      BY <1>0, <2>1, <2>3, GotoOwners DEF Owes
    <3> QED
      BY <1>b, <1>h, <2>1, <2>3, <3>1, LineStep
  <2> QED
    BY <1>5, <2>2, <2>3 DEF Open
<1>6. ASSUME NEW c \in Clients, FreeClose(c) PROVE [Line!Next]_Line!vars
  <2>1. UNCHANGED exported /\ attached' = attached \ {c} /\ pc[c] = "holding"
    BY <1>6 DEF FreeClose
  <2>2. CASE Return(c)
    BY <1>r, <2>1, <2>2
  <2>3. CASE Goto(c, "unexport") /\ ~shared[c]
    <3>1. Owners' = Owners
      BY <1>0, <2>1, <2>3, GotoOwners DEF Owes
    <3>2. c \in attached
      BY <2>1, <2>3 DEF LineInv, ExporterReachesLine, Owes
    <3> QED
      BY <1>b, <2>1, <3>1, <3>2, LineStep
  <2> QED
    BY <1>6, <2>2, <2>3 DEF FreeClose, KeepsExport
<1>7. ASSUME NEW c \in Clients, Unexport(c) PROVE [Line!Next]_Line!vars
  <2>1. pc[c] = "unexport" /\ Owes(c)
    BY <1>7 DEF Unexport, Owes, LineInv, SharedInv
  <2>2. CASE Return(c) /\ UNCHANGED <<exported, attached>>
    BY <1>n, <2>1, <2>2
  <2>3. CASE KernelUnexport
    <3>1. Owners' = Owners \ {c}
      BY <1>0, <1>7, <2>3, ReturnOwners, GotoOwes DEF Unexport, Owners
    <3>2. Owners = {c} /\ Owners' = {} /\ c \notin attached
      BY <1>h, <1>o, <2>1, <3>1
    <3> QED
      BY <1>b, <2>3, <3>2, LineStep DEF KernelUnexport
  <2> QED
    BY <1>7, <2>2, <2>3 DEF Unexport
<1>8. ASSUME NEW c \in Clients, CheckGone(c) PROVE [Line!Next]_Line!vars
  BY <1>8, <1>n DEF CheckGone
<1>9. ASSUME NEW c \in Clients, Crash(c) PROVE [Line!Next]_Line!vars
  BY <1>9, <1>r DEF Crash
<1>10. CASE UNCHANGED vars
  BY <1>10 DEF vars, Line!vars, Owes
<1> QED
  BY <1>1, <1>2, <1>3, <1>4, <1>5, <1>6, <1>7, <1>8, <1>9, <1>10 DEF Next, Step

(* Without GREEDY, request and free implement LineExport, whatever fails   *)
(* or crashes.                                                             *)
THEOREM Refinement ==
  ASSUME "GREEDY" \notin Modes
  PROVE  Spec => ImplementsLineExport
<1>1. Init => Line!Init
  BY DEF Init, Line!Init, Owes
<1>2. TypeOK /\ LineInv /\ [Next]_vars => [Line!Next]_Line!vars
  BY StepImplements
<1> QED
  BY <1>1, <1>2, LineInvariant, PTL DEF Spec, ImplementsLineExport, Line!Spec
=============================================================================
