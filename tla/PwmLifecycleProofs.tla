------------------------- MODULE PwmLifecycleProofs -------------------------
(***************************************************************************)
(* Proofs about PwmLifecycle for any set of clients and any Faults: type   *)
(* correctness in every mode, and, when no client is GREEDY, the handles   *)
(* of exporters and the refinement of LineExport.                          *)
(***************************************************************************)
EXTENDS PwmLifecycle, TLAPS

Owing == {"verify", "opened", "holding", "unexport", "enable", "period", "duty_cycle"}

LEMMA Places ==
  /\ Locations = Owing \cup {"idle", "check", "export", "gone"}
  /\ \A c \in Clients : Owes(c) <=> ~shared[c] /\ pc[c] \in Owing
  /\ \A f \in Files : AfterOpen[f] \in {"period", "duty_cycle", "opened"}
BY DEF Locations, Files, Owes, Owing, AfterOpen

LEMMA ReturnEffect ==
  ASSUME TypeOK, NEW c \in Clients, Return(c)
  PROVE  /\ pc' \in [Clients -> Locations] /\ mode' \in [Clients -> RequestModes]
         /\ shared' \in [Clients -> BOOLEAN]
         /\ pc'[c] = "idle" /\ ~shared'[c]
         /\ \A d \in Clients \ {c} : pc'[d] = pc[d] /\ shared'[d] = shared[d]
<1>1. "idle" \in Locations /\ "SHARED" \in RequestModes
  BY DEF Locations, RequestModes
<1> QED
  BY <1>1 DEF Return, TypeOK

LEMMA GotoEffect ==
  ASSUME TypeOK, NEW c \in Clients, NEW l \in Locations, Goto(c, l)
  PROVE  /\ pc' \in [Clients -> Locations] /\ pc'[c] = l
         /\ \A d \in Clients \ {c} : pc'[d] = pc[d]
         /\ UNCHANGED <<mode, shared>>
BY DEF Goto, TypeOK

LEMMA DropEffect ==
  ASSUME TypeOK, NEW c \in Clients, DropFiles(c)
  PROVE  /\ fds' \in [Clients -> SUBSET Files] /\ attached' \in [Clients -> SUBSET Files]
         /\ fds'[c] = {} /\ attached'[c] = {}
         /\ \A d \in Clients \ {c} : fds'[d] = fds[d] /\ attached'[d] = attached[d]
BY DEF DropFiles, TypeOK

LEMMA LeakEffect ==
  ASSUME TypeOK, NEW c \in Clients, NEW what \in SUBSET {"fd", "pwm"}, Leak(c, what)
  PROVE  leaks' \in [Clients -> SUBSET {"fd", "pwm"}]
BY DEF Leak, TypeOK

LEMMA TypeStep ==
  ASSUME TypeOK, [Next]_vars
  PROVE  TypeOK'
<1>0. {"idle", "check", "export", "verify", "opened", "holding", "unexport", "gone",
       "enable", "period", "duty_cycle"} \subseteq Locations
  BY DEF Locations, Files
<1>1. ASSUME NEW c \in Clients, NEW m \in Modes, Request(c, m) PROVE TypeOK'
  <2>1. Normalise(m) \in RequestModes
    BY PwmModesAssumption DEF Normalise, RequestModes
  <2> QED
    BY <1>0, <1>1, <2>1 DEF Request, TypeOK
<1>2. ASSUME NEW c \in Clients, CheckExported(c) PROVE TypeOK'
  <2>1. CASE Return(c) \/ Goto(c, "export")
    BY <1>0, <1>2, <2>1, ReturnEffect, GotoEffect DEF CheckExported, TypeOK
  <2>2. CASE /\ shared' = [shared EXCEPT ![c] = JoinIsShared(mode[c])]
             /\ pc' = [pc EXCEPT ![c] = "enable"] /\ UNCHANGED mode
    BY <1>0, <1>2, <2>2 DEF CheckExported, TypeOK, JoinIsShared
  <2> QED
    BY <1>2, <2>1, <2>2 DEF CheckExported
<1>3. ASSUME NEW c \in Clients, Export(c) PROVE TypeOK'
  <2>1. exported' \in BOOLEAN /\ UNCHANGED attached
    BY <1>3 DEF Export, KernelExport, TypeOK
  <2>2. Return(c) \/ Goto(c, "verify")
    BY <1>3 DEF Export
  <2> QED
    BY <1>0, <1>3, <2>1, <2>2, ReturnEffect, GotoEffect DEF Export, TypeOK
<1>4. ASSUME NEW c \in Clients, Verify(c) PROVE TypeOK'
  BY <1>0, <1>4, ReturnEffect, GotoEffect DEF Verify, TypeOK
<1>5. ASSUME NEW c \in Clients, Open(c) PROVE TypeOK'
  <2>1. pc[c] \in Files /\ AfterOpen[pc[c]] \in Locations
    BY <1>0, <1>5, Places DEF Open
  <2>2. fds' \in [Clients -> SUBSET Files] /\ attached' \in [Clients -> SUBSET Files]
    BY <1>5, <2>1 DEF Open, TypeOK
  <2> QED
    BY <1>5, <2>1, <2>2, GotoEffect DEF Open, TypeOK
<1>6. ASSUME NEW c \in Clients, CheckOpened(c) PROVE TypeOK'
  <2>1. CASE Goto(c, "holding") /\ UNCHANGED <<fds, attached, leaks>>
    BY <1>0, <1>6, <2>1, GotoEffect DEF CheckOpened, TypeOK
  <2>2. CASE DropFiles(c) /\ Leak(c, {"fd" : f \in fds[c]}) /\ Return(c)
    <3>1. {"fd" : f \in fds[c]} \in SUBSET {"fd", "pwm"}
      OBVIOUS
    <3> QED
      BY <1>6, <2>2, <3>1, DropEffect, LeakEffect, ReturnEffect DEF CheckOpened, TypeOK
  <2> QED
    BY <1>6, <2>1, <2>2 DEF CheckOpened
<1>7. ASSUME NEW c \in Clients, FreeClose(c) PROVE TypeOK'
  <2>1. leaks' \in [Clients -> SUBSET {"fd", "pwm"}]
    BY <1>7, LeakEffect DEF FreeClose, TypeOK
  <2> QED
    BY <1>0, <1>7, <2>1, DropEffect, ReturnEffect, GotoEffect DEF FreeClose, TypeOK
<1>8. ASSUME NEW c \in Clients, Unexport(c) PROVE TypeOK'
  <2>1. exported' \in BOOLEAN /\ attached' \in [Clients -> SUBSET Files]
    BY <1>8 DEF Unexport, KernelUnexport, TypeOK
  <2> QED
    BY <1>0, <1>8, <2>1, GotoEffect DEF Unexport, TypeOK
<1>9. ASSUME NEW c \in Clients, CheckGone(c) PROVE TypeOK'
  <2>1. leaks' \in [Clients -> SUBSET {"fd", "pwm"}]
    BY <1>9, LeakEffect DEF CheckGone, TypeOK
  <2> QED
    BY <1>9, <2>1, ReturnEffect DEF CheckGone, TypeOK
<1>10. ASSUME NEW c \in Clients, Crash(c) PROVE TypeOK'
  BY <1>10, ReturnEffect, DropEffect DEF Crash, TypeOK
<1>11. CASE UNCHANGED vars
  BY <1>11 DEF vars, TypeOK
<1> QED
  BY <1>1, <1>2, <1>3, <1>4, <1>5, <1>6, <1>7, <1>8, <1>9, <1>10, <1>11 DEF Next, Step

(* Type correctness of request and free. *)
THEOREM TypeCorrect == Spec => []TypeOK
<1>1. Init => TypeOK
  BY DEF Init, TypeOK, Locations, RequestModes
<1>2. TypeOK /\ [Next]_vars => TypeOK'
  BY TypeStep
<1> QED
  BY <1>1, <1>2, PTL DEF Spec

-----------------------------------------------------------------------------
(* Where a client may hold descriptors and where it is not yet, or no      *)
(* longer, shared.                                                         *)
PlaceInv(c) ==
  /\ pc[c] \in {"idle", "check", "export", "verify", "unexport"} => ~shared[c]
  /\ pc[c] \in {"idle", "check", "export", "verify", "unexport", "gone"} => fds[c] = {}
  /\ pc[c] = "holding" => fds[c] = Files

(* The inductive invariant: at most one client owes an unexport; the       *)
(* channel is there for it and its descriptors reach it; nobody's reach a  *)
(* channel that is gone.                                                   *)
ChannelInv ==
  /\ \A c \in Clients : PlaceInv(c)
  /\ \A c, d \in Clients : Owes(c) /\ Owes(d) => c = d
  /\ \A c \in Clients : Owes(c) => exported /\ attached[c] = fds[c]
  /\ \A c \in Clients : attached[c] \subseteq fds[c]
  /\ ~exported => \A c \in Clients : attached[c] = {}

(* A step that lets c owe no more than before, and changes no descriptors  *)
(* but those of c, leaves the invariant of the others.                     *)
LEMMA KeepsChannelInv ==
  ASSUME TypeOK, ChannelInv, NEW c \in Clients, exported' = exported,
         \A d \in Clients \ {c} : /\ pc'[d] = pc[d] /\ shared'[d] = shared[d]
                                  /\ fds'[d] = fds[d] /\ attached'[d] = attached[d],
         PlaceInv(c)', Owes(c)' => Owes(c) /\ attached'[c] = fds'[c],
         attached'[c] \subseteq fds'[c], ~exported => attached'[c] = {}
  PROVE  ChannelInv'
<1>1. \A d \in Clients \ {c} : (Owes(d)' <=> Owes(d)) /\ PlaceInv(d)'
  BY DEF Owes, ChannelInv, PlaceInv
<1> QED
  BY <1>1 DEF ChannelInv

LEMMA ChannelInvStep ==
  ASSUME "GREEDY" \notin Modes, TypeOK, ChannelInv, [Next]_vars
  PROVE  ChannelInv'
<1>0. \A c \in Clients : /\ PlaceInv(c) /\ attached[c] \subseteq fds[c]
                         /\ ~exported => attached[c] = {}
                         /\ Owes(c) => attached[c] = fds[c]
  BY DEF ChannelInv
<1>1. ASSUME NEW c \in Clients, NEW m \in Modes, Request(c, m) PROVE ChannelInv'
  <2>1. pc[c] = "idle" /\ pc'[c] = "check" /\ \A d \in Clients \ {c} : pc'[d] = pc[d]
    BY <1>1 DEF Request, TypeOK
  <2>2. ~Owes(c)' /\ PlaceInv(c)'
    BY <1>0, <1>1, <2>1 DEF Owes, PlaceInv, Request, Files
  <2> QED
    BY <1>0, <1>1, <2>1, <2>2, KeepsChannelInv DEF Request
<1>2. ASSUME NEW c \in Clients, CheckExported(c) PROVE ChannelInv'
  <2>1. fds[c] = {} /\ UNCHANGED <<exported, fds, attached>>
    BY <1>0, <1>2 DEF CheckExported, PlaceInv
  <2>2. /\ ~Owes(c)' /\ PlaceInv(c)'
        /\ \A d \in Clients \ {c} : pc'[d] = pc[d] /\ shared'[d] = shared[d]
    <3>1. CASE Return(c)
      BY <2>1, <3>1, ReturnEffect DEF Owes, PlaceInv, Files
    <3>2. CASE Goto(c, "export")
      BY <1>0, <1>2, <2>1, <3>2, Places, GotoEffect
      DEF CheckExported, Owes, PlaceInv, Files
    <3>3. CASE /\ mode[c] # "WEAK"
               /\ shared' = [shared EXCEPT ![c] = JoinIsShared(mode[c])]
               /\ pc' = [pc EXCEPT ![c] = "enable"]
      <4>1. mode[c] = "SHARED"
        BY <3>3, PwmModesAssumption DEF TypeOK, RequestModes
      <4>2. shared'[c] /\ pc'[c] = "enable"
        BY <3>3, <4>1 DEF JoinIsShared, TypeOK
      <4> QED
        BY <3>3, <4>2 DEF Owes, PlaceInv, TypeOK
    <3> QED
      BY <1>2, <3>1, <3>2, <3>3 DEF CheckExported
  <2> QED
    BY <1>0, <2>1, <2>2, KeepsChannelInv
<1>3. ASSUME NEW c \in Clients, Export(c) PROVE ChannelInv'
  <2>1. fds[c] = {} /\ ~shared[c] /\ UNCHANGED <<fds, attached>> /\ attached[c] = {}
    BY <1>0, <1>3 DEF Export, PlaceInv, KernelExport
  <2>2. CASE Return(c)
    <3>1. /\ ~Owes(c)' /\ PlaceInv(c)'
          /\ \A d \in Clients \ {c} : pc'[d] = pc[d] /\ shared'[d] = shared[d]
      BY <2>1, <2>2, ReturnEffect DEF Owes, PlaceInv, Files
    <3>2. CASE UNCHANGED exported
      BY <1>0, <2>1, <3>1, <3>2, KeepsChannelInv
    <3>3. CASE ~exported /\ exported'
      <4>1. \A d \in Clients : ~Owes(d) /\ ~Owes(d)'
        BY <3>1, <3>3 DEF ChannelInv, Owes
      <4>2. \A d \in Clients : PlaceInv(d)'
        BY <1>0, <2>1, <3>1 DEF PlaceInv
      <4> QED
        BY <2>1, <3>3, <4>1, <4>2 DEF ChannelInv
    <3> QED
      BY <1>3, <3>2, <3>3 DEF Export, KernelExport
  <2>3. CASE KernelExport /\ Goto(c, "verify")
    <3>1. /\ pc'[c] = "verify" /\ UNCHANGED shared
          /\ \A d \in Clients \ {c} : pc'[d] = pc[d]
      BY <2>3, Places, GotoEffect DEF Owing
    <3>2. \A d \in Clients : PlaceInv(d)' /\ ~Owes(d)
      BY <1>0, <2>1, <2>3, <3>1 DEF PlaceInv, KernelExport, ChannelInv, Owes
    <3>3. \A d \in Clients \ {c} : ~Owes(d)'
      BY <3>1, <3>2 DEF Owes
    <3> QED
      BY <2>1, <2>3, <3>2, <3>3 DEF ChannelInv, KernelExport
  <2> QED
    BY <1>3, <2>2, <2>3 DEF Export
<1>4. ASSUME NEW c \in Clients, Verify(c) PROVE ChannelInv'
  <2>1. /\ pc[c] = "verify" /\ fds[c] = {} /\ ~shared[c] /\ attached[c] = {}
        /\ UNCHANGED <<exported, fds, attached>>
    BY <1>0, <1>4 DEF Verify, PlaceInv
  <2>2. CASE Return(c)
    <3>1. ~Owes(c)' /\ PlaceInv(c)'
      BY <2>1, <2>2, ReturnEffect DEF Owes, PlaceInv, Files
    <3> QED
      BY <1>0, <2>1, <2>2, <3>1, ReturnEffect, KeepsChannelInv
  <2>3. CASE Goto(c, "enable")
    <3>1. Owes(c) /\ pc'[c] = "enable" /\ UNCHANGED shared
          /\ \A d \in Clients \ {c} : pc'[d] = pc[d]
      BY <2>1, <2>3, Places, GotoEffect DEF Owing
    <3>2. PlaceInv(c)'
      BY <3>1 DEF PlaceInv
    <3> QED
      BY <1>0, <2>1, <3>1, <3>2, KeepsChannelInv
  <2> QED
    BY <1>4, <2>2, <2>3 DEF Verify
<1>5. ASSUME NEW c \in Clients, Open(c) PROVE ChannelInv'
  <2>1. /\ pc[c] \in Files /\ pc'[c] \in {"period", "duty_cycle", "opened"}
        /\ \A d \in Clients \ {c} : pc'[d] = pc[d]
        /\ UNCHANGED <<exported, shared>>
    BY <1>5, Places, GotoEffect DEF Open, Owing
  <2>2. Owes(c)' <=> Owes(c)
    BY <2>1 DEF Owes, Files
  <2>3. PlaceInv(c)'
    BY <2>1 DEF PlaceInv
  <2>4. CASE UNCHANGED <<fds, attached>>
    BY <1>0, <2>1, <2>2, <2>3, <2>4, KeepsChannelInv
  <2>5. CASE /\ exported
             /\ fds' = [fds EXCEPT ![c] = @ \cup {pc[c]}]
             /\ attached' = [attached EXCEPT ![c] = @ \cup {pc[c]}]
    <3>1. /\ fds'[c] = fds[c] \cup {pc[c]} /\ attached'[c] = attached[c] \cup {pc[c]}
          /\ \A d \in Clients \ {c} : fds'[d] = fds[d] /\ attached'[d] = attached[d]
      BY <2>5 DEF TypeOK
    <3> QED
      BY <1>0, <2>1, <2>2, <2>3, <2>5, <3>1, KeepsChannelInv
  <2> QED
    BY <1>5, <2>4, <2>5 DEF Open
<1>6. ASSUME NEW c \in Clients, DropFiles(c), Return(c), UNCHANGED exported
      PROVE  ChannelInv'
  <2>1. ~Owes(c)' /\ PlaceInv(c)'
    BY <1>6, ReturnEffect, DropEffect DEF Owes, PlaceInv, Files
  <2> QED
    BY <1>6, <2>1, ReturnEffect, DropEffect, KeepsChannelInv
<1>7. ASSUME NEW c \in Clients, CheckOpened(c) PROVE ChannelInv'
  <2>1. CASE MakesHandle(fds[c]) /\ Goto(c, "holding") /\ UNCHANGED <<fds, attached>>
    <3>1. /\ pc[c] = "opened" /\ pc'[c] = "holding" /\ UNCHANGED <<exported, shared>>
          /\ \A d \in Clients \ {c} : pc'[d] = pc[d]
      BY <1>7, <2>1, Places, GotoEffect DEF CheckOpened, Owing
    <3>2. PlaceInv(c)' /\ (Owes(c)' <=> Owes(c))
      BY <2>1, <3>1 DEF PlaceInv, MakesHandle, Owes
    <3> QED
      BY <1>0, <2>1, <3>1, <3>2, KeepsChannelInv
  <2> QED
    BY <1>6, <1>7, <2>1 DEF CheckOpened
<1>8. ASSUME NEW c \in Clients, FreeClose(c) PROVE ChannelInv'
  <2>1. CASE Goto(c, "unexport") /\ ~shared[c]
    <3>1. /\ pc[c] = "holding" /\ pc'[c] = "unexport" /\ UNCHANGED <<exported, shared>>
          /\ \A d \in Clients \ {c} : pc'[d] = pc[d]
      BY <1>8, <2>1, Places, GotoEffect DEF FreeClose, Owing
    <3>2. /\ fds'[c] = {} /\ attached'[c] = {}
          /\ \A d \in Clients \ {c} : fds'[d] = fds[d] /\ attached'[d] = attached[d]
      BY <1>8, DropEffect DEF FreeClose
    <3>3. PlaceInv(c)' /\ Owes(c)
      BY <2>1, <3>1, <3>2 DEF PlaceInv, Owes
    <3> QED
      BY <1>0, <3>1, <3>2, <3>3, KeepsChannelInv
  <2> QED
    BY <1>6, <1>8, <2>1 DEF FreeClose, KeepsExport
<1>9. ASSUME NEW c \in Clients, Unexport(c) PROVE ChannelInv'
  <2>1. /\ pc[c] = "unexport" /\ ~shared[c] /\ fds[c] = {} /\ attached[c] = {} /\ Owes(c)
        /\ pc'[c] = "gone" /\ UNCHANGED <<fds, shared>>
        /\ \A d \in Clients \ {c} : pc'[d] = pc[d]
    BY <1>0, <1>9, Places, GotoEffect DEF Unexport, PlaceInv, Owing
  <2>2. ~Owes(c)' /\ PlaceInv(c)'
    BY <2>1 DEF Owes, PlaceInv, Files
  <2>3. CASE UNCHANGED <<exported, attached>>
    BY <1>0, <2>1, <2>2, <2>3, KeepsChannelInv
  <2>4. CASE KernelUnexport
    <3>1. \A d \in Clients : ~Owes(d)'
      BY <2>1, <2>2 DEF ChannelInv, Owes
    <3>2. \A d \in Clients : PlaceInv(d)' /\ attached'[d] = {}
      BY <1>0, <2>1, <2>2, <2>4 DEF PlaceInv, KernelUnexport
    <3> QED
      BY <3>1, <3>2 DEF ChannelInv
  <2> QED
    BY <1>9, <2>3, <2>4 DEF Unexport
<1>10. ASSUME NEW c \in Clients, CheckGone(c) PROVE ChannelInv'
  <2>1. ~Owes(c)' /\ PlaceInv(c)'
    BY <1>0, <1>10, ReturnEffect DEF CheckGone, Owes, PlaceInv, Files
  <2> QED
    BY <1>0, <1>10, <2>1, ReturnEffect, KeepsChannelInv DEF CheckGone
<1>11. ASSUME NEW c \in Clients, Crash(c) PROVE ChannelInv'
  BY <1>6, <1>11 DEF Crash
<1>12. CASE UNCHANGED vars
  BY <1>12 DEF vars, ChannelInv, PlaceInv, Owes
<1> QED
  BY <1>1, <1>2, <1>3, <1>4, <1>5, <1>7, <1>8, <1>9, <1>10, <1>11, <1>12 DEF Next, Step

(* The inductive invariant holds of every behaviour without GREEDY.        *)
THEOREM ChannelInvariant ==
  ASSUME "GREEDY" \notin Modes
  PROVE  Spec => [](TypeOK /\ ChannelInv)
<1>1. Init => ChannelInv
  BY DEF Init, ChannelInv, PlaceInv, Owes, Files
<1>2. TypeOK /\ ChannelInv /\ [Next]_vars => ChannelInv'
  BY ChannelInvStep
<1> QED
  BY <1>1, <1>2, TypeCorrect, PTL DEF Spec

(* Without GREEDY the three files of an exporter's handle are of its own   *)
(* export, whatever fails or dies.                                         *)
THEOREM HandlesAreWhole ==
  ASSUME "GREEDY" \notin Modes
  PROVE  Spec => []ExporterHandleWhole
<1>1. ChannelInv => ExporterHandleWhole
  BY DEF ChannelInv, PlaceInv, ExporterHandleWhole
<1> QED
  BY <1>1, ChannelInvariant, PTL

-----------------------------------------------------------------------------
(* The refinement mapping, and LineExport's actions in terms of it.        *)
Owners == {c \in Clients : Owes(c)}
Users == {c \in Clients : attached[c] # {}}

LEMMA LineStep ==
  ASSUME NEW c \in Clients,
         \/ ~exported /\ exported' /\ Owners' = {c} /\ Users' = {}
         \/ /\ exported /\ c \notin Users /\ Users' = Users \cup {c}
            /\ Owners' = Owners /\ UNCHANGED exported
         \/ /\ c \in Users /\ Users' = Users \ {c}
            /\ Owners' = Owners /\ UNCHANGED exported
         \/ /\ Owners = {c} /\ c \notin Users
            /\ ~exported' /\ Owners' = {} /\ Users' = {}
         \/ /\ ~exported \/ Owners = {c}
            /\ exported' /\ Owners' = {} /\ Users' = Users \ {c}
         \/ Owners' = Owners /\ Users' = Users /\ UNCHANGED exported,
         exported \in BOOLEAN, exported' \in BOOLEAN
  PROVE  [Line!Next]_Line!vars
<1>1. /\ Owners = {d \in Clients : Owes(d)} /\ Owners' = {d \in Clients : Owes(d)'}
      /\ Users = {d \in Clients : attached[d] # {}}
      /\ Users' = {d \in Clients : attached'[d] # {}}
  BY DEF Owners, Users
<1>2. [Line!Claim(c) \/ Line!Join(c) \/ Line!Leave(c) \/ Line!Release(c) \/ Line!Abandon(c)]_Line!vars
  BY <1>1 DEF Line!Claim, Line!Join, Line!Leave, Line!Release, Line!Abandon, Line!vars
<1> QED
  BY <1>2 DEF Line!Next

(* Without GREEDY every step is a step of LineExport or leaves it alone.   *)
LEMMA StepImplements ==
  ASSUME "GREEDY" \notin Modes, TypeOK, ChannelInv, [Next]_vars
  PROVE  [Line!Next]_Line!vars
<1>b. exported \in BOOLEAN /\ exported' \in BOOLEAN
  <2>1. TypeOK'
    BY TypeStep
  <2> QED
    BY <2>1 DEF TypeOK
<1>0. \A c \in Clients : /\ PlaceInv(c) /\ attached[c] \subseteq fds[c]
                         /\ Owes(c) => exported /\ Owners = {c} /\ attached[c] = fds[c]
  BY DEF ChannelInv, Owners
<1>a. ~exported => Owners = {} /\ Users = {}
  BY DEF ChannelInv, Owners, Users
(* A step of c that changes only c, and neither owner nor user.            *)
<1>s. ASSUME NEW c \in Clients, exported' = exported, Owes(c)' <=> Owes(c),
             (attached'[c] = {}) <=> (attached[c] = {}),
             \A d \in Clients \ {c} : /\ pc'[d] = pc[d] /\ shared'[d] = shared[d]
                                      /\ attached'[d] = attached[d]
      PROVE  [Line!Next]_Line!vars
  <2>1. Owners' = Owners /\ Users' = Users
    BY <1>s DEF Owners, Users, Owes
  <2> QED
    BY <1>b, <1>s, <2>1, LineStep
(* A call that returns early, with the channel as it was. *)
<1>r. ASSUME NEW c \in Clients, Return(c), UNCHANGED exported, attached'[c] = {},
             \A d \in Clients \ {c} : attached'[d] = attached[d]
      PROVE  [Line!Next]_Line!vars
  <2>1. Owners' = Owners \ {c} /\ Users' = Users \ {c}
    BY <1>r, ReturnEffect DEF Owners, Users, Owes, Files
  <2>2. CASE Owes(c)
    BY <1>0, <1>b, <1>r, <2>1, <2>2, LineStep
  <2>3. CASE ~Owes(c)
    <3>1. Owners' = Owners
      BY <2>1, <2>3 DEF Owners
    <3> QED
      BY <1>b, <1>r, <2>1, <3>1, LineStep
  <2> QED
    BY <2>2, <2>3
<1>n. ASSUME NEW c \in Clients, Return(c), UNCHANGED <<exported, attached>>, fds[c] = {}
      PROVE  [Line!Next]_Line!vars
  BY <1>0, <1>n, <1>r
<1>1. ASSUME NEW c \in Clients, NEW m \in Modes, Request(c, m)
      PROVE  [Line!Next]_Line!vars
  <2>1. pc[c] = "idle" /\ pc'[c] = "check" /\ \A d \in Clients \ {c} : pc'[d] = pc[d]
    BY <1>1 DEF Request, TypeOK
  <2> QED
    BY <1>1, <1>s, <2>1 DEF Request, Owes, Files
<1>2. ASSUME NEW c \in Clients, CheckExported(c) PROVE [Line!Next]_Line!vars
  <2>1. /\ fds[c] = {} /\ ~Owes(c) /\ UNCHANGED <<exported, fds, attached>>
    BY <1>0, <1>2 DEF CheckExported, PlaceInv, Owes, Files
  <2>2. CASE Goto(c, "export")
    <3>1. pc'[c] = "export" /\ UNCHANGED shared /\ \A d \in Clients \ {c} : pc'[d] = pc[d]
      BY <2>2, Places, GotoEffect
    <3> QED
      BY <1>s, <2>1, <3>1 DEF Owes, Files
  <2>3. CASE /\ mode[c] # "WEAK"
             /\ shared' = [shared EXCEPT ![c] = JoinIsShared(mode[c])]
             /\ pc' = [pc EXCEPT ![c] = "enable"]
    <3>1. mode[c] = "SHARED"
      BY <2>3, PwmModesAssumption DEF TypeOK, RequestModes
    <3>2. shared'[c] /\ \A d \in Clients \ {c} : pc'[d] = pc[d] /\ shared'[d] = shared[d]
      BY <2>3, <3>1 DEF JoinIsShared, TypeOK
    <3> QED
      BY <1>s, <2>1, <3>2 DEF Owes
  <2> QED
    BY <1>2, <1>n, <2>1, <2>2, <2>3 DEF CheckExported
<1>3. ASSUME NEW c \in Clients, Export(c) PROVE [Line!Next]_Line!vars
  <2>1. pc[c] = "export" /\ fds[c] = {} /\ ~shared[c] /\ UNCHANGED attached
    BY <1>0, <1>3 DEF Export, PlaceInv, KernelExport
  <2>2. CASE Return(c) /\ UNCHANGED <<exported, attached>>
    BY <1>n, <2>1, <2>2
  <2>3. CASE KernelExport /\ Return(c)
    <3>1. Owners' = {} /\ Users' = {}
      BY <1>a, <2>1, <2>3, ReturnEffect DEF KernelExport, Owners, Users, Owes, Files
    <3> QED
      BY <1>a, <1>b, <2>3, <3>1, LineStep DEF KernelExport
  <2>4. CASE KernelExport /\ Goto(c, "verify")
    <3>1. pc'[c] = "verify" /\ UNCHANGED shared /\ \A d \in Clients \ {c} : pc'[d] = pc[d]
      BY <2>4, Places, GotoEffect DEF Owing
    <3>2. Owners' = {c} /\ Users' = {}
      BY <1>a, <2>1, <2>4, <3>1 DEF KernelExport, Owners, Users, Owes
    <3> QED
      BY <1>b, <2>4, <3>2, LineStep DEF KernelExport
  <2> QED
    BY <1>3, <2>2, <2>3, <2>4 DEF Export
<1>4. ASSUME NEW c \in Clients, Verify(c) PROVE [Line!Next]_Line!vars
  <2>1. pc[c] = "verify" /\ fds[c] = {} /\ UNCHANGED <<exported, attached>>
    BY <1>0, <1>4 DEF Verify, PlaceInv
  <2>2. CASE Goto(c, "enable")
    <3>1. pc'[c] = "enable" /\ UNCHANGED shared /\ \A d \in Clients \ {c} : pc'[d] = pc[d]
      BY <2>2, Places, GotoEffect DEF Owing
    <3> QED
      BY <1>s, <2>1, <3>1 DEF Owes, Files
  <2> QED
    BY <1>4, <1>n, <2>1, <2>2 DEF Verify
<1>5. ASSUME NEW c \in Clients, Open(c) PROVE [Line!Next]_Line!vars
  <2>1. /\ pc[c] \in Files /\ pc'[c] \in {"period", "duty_cycle", "opened"}
        /\ UNCHANGED <<exported, shared>> /\ \A d \in Clients \ {c} : pc'[d] = pc[d]
    BY <1>5, Places, GotoEffect DEF Open, Owing
  <2>2. Owes(c)' <=> Owes(c)
    BY <2>1 DEF Owes, Files
  <2>3. CASE UNCHANGED <<fds, attached>>
    BY <1>s, <2>1, <2>2, <2>3
  <2>4. CASE exported /\ attached' = [attached EXCEPT ![c] = @ \cup {pc[c]}]
    <3>1. attached'[c] # {} /\ \A d \in Clients \ {c} : attached'[d] = attached[d]
      BY <2>4 DEF TypeOK
    <3>2. Owners' = Owners /\ Users' = Users \cup {c}
      BY <2>1, <2>2, <3>1 DEF Owners, Users, Owes
    <3> QED
      BY <1>b, <2>1, <2>4, <3>2, LineStep
  <2> QED
    BY <1>5, <2>3, <2>4 DEF Open
<1>6. ASSUME NEW c \in Clients, CheckOpened(c) PROVE [Line!Next]_Line!vars
  <2>1. CASE Goto(c, "holding") /\ UNCHANGED <<fds, attached>>
    <3>1. /\ pc[c] = "opened" /\ pc'[c] = "holding" /\ UNCHANGED <<exported, shared>>
          /\ \A d \in Clients \ {c} : pc'[d] = pc[d]
      BY <1>6, <2>1, Places, GotoEffect DEF CheckOpened, Owing
    <3> QED
      BY <1>s, <2>1, <3>1 DEF Owes
  <2>2. CASE DropFiles(c) /\ Return(c)
    BY <1>6, <1>r, <2>2, DropEffect DEF CheckOpened
  <2> QED
    BY <1>6, <2>1, <2>2 DEF CheckOpened
<1>7. ASSUME NEW c \in Clients, FreeClose(c) PROVE [Line!Next]_Line!vars
  <2>1. CASE Return(c)
    BY <1>7, <1>r, <2>1, DropEffect DEF FreeClose
  <2>2. CASE Goto(c, "unexport") /\ ~shared[c]
    <3>1. /\ pc[c] = "holding" /\ pc'[c] = "unexport" /\ UNCHANGED <<exported, shared>>
          /\ \A d \in Clients \ {c} : pc'[d] = pc[d]
      BY <1>7, <2>2, Places, GotoEffect DEF FreeClose, Owing
    <3>2. attached'[c] = {} /\ \A d \in Clients \ {c} : attached'[d] = attached[d]
      BY <1>7, DropEffect DEF FreeClose
    <3>3. attached[c] # {}
      BY <1>0, <2>2, <3>1 DEF Owes, PlaceInv, Files
    <3>4. Owners' = Owners /\ Users' = Users \ {c} /\ c \in Users
      BY <3>1, <3>2, <3>3 DEF Owners, Users, Owes
    <3> QED
      BY <1>b, <3>1, <3>4, LineStep
  <2> QED
    BY <1>7, <2>1, <2>2 DEF FreeClose, KeepsExport
<1>8. ASSUME NEW c \in Clients, Unexport(c) PROVE [Line!Next]_Line!vars
  <2>1. /\ pc[c] = "unexport" /\ pc'[c] = "gone" /\ UNCHANGED shared
        /\ \A d \in Clients \ {c} : pc'[d] = pc[d]
    BY <1>8, Places, GotoEffect DEF Unexport, Owing
  <2>2. Owes(c) /\ Owners = {c} /\ exported /\ attached[c] = {}
    BY <1>0, <2>1 DEF Owes, PlaceInv
  <2>3. Owners' = {}
    BY <2>1, <2>2 DEF Owners, Owes, Files
  <2>4. CASE UNCHANGED <<exported, attached>>
    <3>1. Users' = Users /\ c \notin Users
      BY <2>2, <2>4 DEF Users
    <3> QED
      BY <1>b, <2>2, <2>3, <2>4, <3>1, LineStep
  <2>5. CASE KernelUnexport
    <3>1. Users' = {} /\ c \notin Users
      BY <2>2, <2>5 DEF Users, KernelUnexport
    <3> QED
      BY <1>b, <2>2, <2>3, <2>5, <3>1, LineStep DEF KernelUnexport
  <2> QED
    BY <1>8, <2>4, <2>5 DEF Unexport
<1>9. ASSUME NEW c \in Clients, CheckGone(c) PROVE [Line!Next]_Line!vars
  BY <1>0, <1>9, <1>n DEF CheckGone, PlaceInv
<1>10. ASSUME NEW c \in Clients, Crash(c) PROVE [Line!Next]_Line!vars
  BY <1>10, <1>r, DropEffect DEF Crash
<1>11. CASE UNCHANGED vars
  BY <1>11 DEF vars, Line!vars, Owes
<1> QED
  BY <1>1, <1>2, <1>3, <1>4, <1>5, <1>6, <1>7, <1>8, <1>9, <1>10, <1>11 DEF Next, Step

(* Without GREEDY, request and free implement LineExport, whatever fails   *)
(* or dies.                                                                *)
THEOREM Refinement ==
  ASSUME "GREEDY" \notin Modes
  PROVE  Spec => ImplementsLineExport
<1>1. Init => Line!Init
  BY DEF Init, Line!Init, Owes, Files
<1>2. TypeOK /\ ChannelInv /\ [Next]_vars => [Line!Next]_Line!vars
  BY StepImplements
<1> QED
  BY <1>1, <1>2, ChannelInvariant, PTL DEF Spec, ImplementsLineExport, Line!Spec

-----------------------------------------------------------------------------
(* An export that no present client is going to undo.                      *)
Unowned == exported /\ \A c \in Clients : ~Owes(c)

(* An export made by others (pwm.c:64-83, 157-165): without GREEDY, no     *)
(* sequence of requests and frees unexports a channel that is exported     *)
(* with no client to undo it.  It follows from the abstract promise alone: *)
(* no step of LineExport undoes, or takes over, an export without owner.   *)
THEOREM UnownedExportIsKept ==
  ASSUME "GREEDY" \notin Modes
  PROVE  Spec => [][Unowned => Unowned']_vars
<1>1. ASSUME [Line!Next]_Line!vars, TypeOK', Unowned PROVE Unowned'
  <2>1. exported /\ Owners = {} /\ Owners' = {c \in Clients : Owes(c)'}
    BY <1>1 DEF Unowned, Owners
  <2>2. exported' /\ Owners' = {}
    BY <1>1, <2>1 DEF Owners, TypeOK, Line!Next, Line!vars, Line!Claim, Line!Join,
                      Line!Leave, Line!Release, Line!Abandon
  <2> QED
    BY <2>1, <2>2 DEF Unowned
<1>2. [Line!Next]_Line!vars /\ TypeOK' => [Unowned => Unowned']_vars
  BY <1>1
<1> QED
  BY <1>2, Refinement, TypeCorrect, PTL DEF ImplementsLineExport, Line!Spec

(* The files a request has gone through at each place between its own      *)
(* export, or its joining of an export, and its look at what it opened.    *)
GoneThrough(l) ==
  CASE l = "period" -> {"enable"}
    [] l = "duty_cycle" -> {"enable", "period"}
    [] l = "opened" -> Files
    [] OTHER -> {}

Intact(c) == Owes(c) /\ GoneThrough(pc[c]) \subseteq fds[c]

(* The inductive invariant of the balance: while the channel is exported   *)
(* and somebody owes its unexport, one of those who do missed none of its  *)
(* files, so that its request will not end halfway.                        *)
BalanceInv ==
  /\ \A c \in Clients : PlaceInv(c)
  /\ exported /\ (\E c \in Clients : Owes(c)) => \E c \in Clients : Intact(c)

(* The files of others are never taken away, so only a step of its own     *)
(* ends a client's being intact.                                           *)
LEMMA OthersIntact ==
  ASSUME NEW c \in Clients, NEW d \in Clients, pc'[d] = pc[d], shared'[d] = shared[d],
         fds'[d] = fds[d]
  PROVE  (Owes(d)' <=> Owes(d)) /\ (Intact(d)' <=> Intact(d)) /\ (PlaceInv(d)' <=> PlaceInv(d))
BY DEF Owes, Intact, PlaceInv
(* What a step of c may do to the balance: leave c no less intact and owing*)
(* no more, end the export, or leave c intact.                             *)
LEMMA KeepsBalance ==
  ASSUME BalanceInv, NEW c \in Clients, PlaceInv(c)',
         \A d \in Clients \ {c} : pc'[d] = pc[d] /\ shared'[d] = shared[d] /\ fds'[d] = fds[d],
         \/ exported' = exported /\ (Owes(c)' => Owes(c)) /\ (Intact(c) => Intact(c)')
         \/ ~exported'
         \/ Intact(c)'
  PROVE  BalanceInv' /\ (Unowned' => Unowned)
<1>1. \A d \in Clients \ {c} :
        (Owes(d)' <=> Owes(d)) /\ (Intact(d)' <=> Intact(d)) /\ (PlaceInv(d)' <=> PlaceInv(d))
  BY OthersIntact
<1>2. \A d \in Clients : PlaceInv(d)'
  BY <1>1 DEF BalanceInv
<1>3. \A d \in Clients : Intact(d)' => Owes(d)'
  BY DEF Intact
<1>4. CASE exported' = exported /\ (Owes(c)' => Owes(c)) /\ (Intact(c) => Intact(c)')
  <2>1. exported' /\ (\E d \in Clients : Owes(d)) => \E d \in Clients : Intact(d)'
    BY <1>1, <1>4 DEF BalanceInv
  <2>2. (\E d \in Clients : Owes(d)') => \E d \in Clients : Owes(d)
    BY <1>1, <1>4
  <2> QED
    BY <1>2, <1>3, <1>4, <2>1, <2>2 DEF BalanceInv, Unowned
<1>5. CASE ~exported'
  BY <1>2, <1>5 DEF BalanceInv, Unowned
<1>6. CASE Intact(c)'
  BY <1>2, <1>3, <1>6 DEF BalanceInv, Unowned
<1> QED
  BY <1>4, <1>5, <1>6

LEMMA GoneThroughIs ==
  /\ GoneThrough("enable") = {} /\ GoneThrough("period") = {"enable"}
  /\ GoneThrough("duty_cycle") = {"enable", "period"} /\ GoneThrough("opened") = Files
  /\ \A l \in {"verify", "holding", "unexport"} : GoneThrough(l) = {}
  /\ \A f \in Files : /\ AfterOpen[f] \in {"period", "duty_cycle", "opened"}
                      /\ GoneThrough(AfterOpen[f]) = GoneThrough(f) \cup {f}
<1>1. /\ GoneThrough("enable") = {} /\ GoneThrough("period") = {"enable"}
      /\ GoneThrough("duty_cycle") = {"enable", "period"} /\ GoneThrough("opened") = Files
      /\ \A l \in {"verify", "holding", "unexport"} : GoneThrough(l) = {}
  BY DEF GoneThrough
<1>2. /\ AfterOpen["enable"] = "period" /\ AfterOpen["period"] = "duty_cycle"
      /\ AfterOpen["duty_cycle"] = "opened"
  BY DEF AfterOpen
<1> QED
  BY <1>1, <1>2 DEF Files

LEMMA BalanceStep ==
  ASSUME Faults = {}, TypeOK, BalanceInv, [Next]_vars
  PROVE  BalanceInv' /\ (Unowned' => Unowned)
<1> DEFINE Balanced == BalanceInv' /\ (Unowned' => Unowned)
<1>0. \A c \in Clients : PlaceInv(c) /\ fds[c] \subseteq Files
  BY DEF BalanceInv, TypeOK
(* A step after which c owes nothing and has lost the files it had.        *)
<1>r. ASSUME NEW c \in Clients, Return(c), fds'[c] = {}, ~Intact(c), UNCHANGED exported,
             \A d \in Clients \ {c} : fds'[d] = fds[d]
      PROVE  Balanced
  <2>1. ~Owes(c)' /\ PlaceInv(c)'
    BY <1>r, ReturnEffect DEF Owes, PlaceInv, Files
  <2> QED
    BY <1>r, <2>1, ReturnEffect, KeepsBalance
<1>1. ASSUME NEW c \in Clients, NEW m \in Modes, Request(c, m) PROVE Balanced
  <2>1. pc[c] = "idle" /\ pc'[c] = "check" /\ \A d \in Clients \ {c} : pc'[d] = pc[d]
    BY <1>1 DEF Request, TypeOK
  <2>2. ~Owes(c) /\ ~Owes(c)' /\ ~Intact(c) /\ PlaceInv(c)'
    BY <1>0, <1>1, <2>1 DEF Owes, Intact, PlaceInv, Request, Files
  <2> QED
    BY <1>1, <2>1, <2>2, KeepsBalance DEF Request
<1>2. ASSUME NEW c \in Clients, CheckExported(c) PROVE Balanced
  <2>1. pc[c] = "check" /\ fds[c] = {} /\ ~shared[c] /\ ~Owes(c) /\ ~Intact(c)
    BY <1>0, <1>2 DEF CheckExported, PlaceInv, Owes, Intact, Files
  <2>2. UNCHANGED <<exported, fds>>
    BY <1>2 DEF CheckExported
  <2>3. CASE Return(c)
    BY <1>r, <2>1, <2>2, <2>3
  <2>4. CASE Goto(c, "export")
    <3>1. /\ pc'[c] = "export" /\ UNCHANGED shared /\ \A d \in Clients \ {c} : pc'[d] = pc[d]
      BY <2>4, Places, GotoEffect
    <3>2. ~Owes(c)' /\ PlaceInv(c)'
      BY <2>1, <2>2, <3>1 DEF Owes, PlaceInv, Files
    <3> QED
      BY <2>1, <2>2, <3>1, <3>2, KeepsBalance
  <2>5. CASE /\ shared' = [shared EXCEPT ![c] = JoinIsShared(mode[c])]
             /\ pc' = [pc EXCEPT ![c] = "enable"]
    <3>1. /\ pc'[c] = "enable"
          /\ \A d \in Clients \ {c} : pc'[d] = pc[d] /\ shared'[d] = shared[d]
      BY <2>5 DEF TypeOK
    <3>2. PlaceInv(c)' /\ (Owes(c)' => Intact(c)')
      BY <3>1, GoneThroughIs DEF PlaceInv, Intact
    <3> QED
      BY <2>1, <2>2, <3>1, <3>2, KeepsBalance
  <2> QED
    BY <1>2, <2>3, <2>4, <2>5 DEF CheckExported
<1>3. ASSUME NEW c \in Clients, Export(c) PROVE Balanced
  <2>1. pc[c] = "export" /\ fds[c] = {} /\ ~shared[c] /\ ~Intact(c) /\ UNCHANGED fds
    BY <1>0, <1>3 DEF Export, PlaceInv, Intact, Owes, Files
  <2>2. CASE Return(c) /\ UNCHANGED exported
    BY <1>r, <2>1, <2>2
  <2>3. CASE Goto(c, "verify")
    <3>1. /\ pc'[c] = "verify" /\ UNCHANGED shared /\ \A d \in Clients \ {c} : pc'[d] = pc[d]
      BY <2>3, Places, GotoEffect DEF Owing
    <3>2. Intact(c)' /\ PlaceInv(c)'
      BY <2>1, <3>1, GoneThroughIs DEF Intact, Owes, PlaceInv
    <3> QED
      BY <2>1, <3>1, <3>2, KeepsBalance
  <2> QED
    BY <1>3, <2>2, <2>3 DEF Export, FileCloseFails
<1>4. ASSUME NEW c \in Clients, Verify(c) PROVE Balanced
  <2>1. /\ pc[c] = "verify" /\ fds[c] = {} /\ ~shared[c] /\ UNCHANGED <<exported, fds>>
    BY <1>0, <1>4 DEF Verify, PlaceInv
  <2>2. CASE ~exported /\ Return(c)
    <3>1. PlaceInv(c)'
      BY <2>1, <2>2, ReturnEffect DEF PlaceInv
    <3> QED
      BY <2>1, <2>2, <3>1, ReturnEffect, KeepsBalance
  <2>3. CASE Goto(c, "enable")
    <3>1. /\ pc'[c] = "enable" /\ UNCHANGED shared /\ \A d \in Clients \ {c} : pc'[d] = pc[d]
      BY <2>3, Places, GotoEffect DEF Owing
    <3>2. Intact(c)' /\ PlaceInv(c)'
      BY <2>1, <3>1, GoneThroughIs DEF Intact, Owes, PlaceInv, Files
    <3> QED
      BY <2>1, <3>1, <3>2, KeepsBalance
  <2> QED
    BY <1>4, <2>2, <2>3 DEF Verify, FileValid
<1>5. ASSUME NEW c \in Clients, Open(c) PROVE Balanced
  <2>1. /\ pc[c] \in Files /\ pc'[c] = AfterOpen[pc[c]] /\ UNCHANGED <<exported, shared>>
        /\ \A d \in Clients \ {c} : pc'[d] = pc[d]
    BY <1>5, Places, GotoEffect DEF Open, Owing
  <2>2. PlaceInv(c)' /\ (Owes(c)' <=> Owes(c))
    BY <2>1, GoneThroughIs DEF PlaceInv, Owes, Files
  <2>3. CASE ~exported /\ UNCHANGED fds
    BY <2>1, <2>2, <2>3, KeepsBalance
  <2>4. CASE fds' = [fds EXCEPT ![c] = @ \cup {pc[c]}]
    <3>1. fds'[c] = fds[c] \cup {pc[c]} /\ \A d \in Clients \ {c} : fds'[d] = fds[d]
      BY <2>4 DEF TypeOK
    <3>2. Intact(c) => Intact(c)'
      BY <2>1, <2>2, <3>1, GoneThroughIs DEF Intact
    <3> QED
      BY <2>1, <2>2, <3>1, <3>2, KeepsBalance
  <2> QED
    BY <1>5, <2>3, <2>4 DEF Open, FileOpenFails
<1>6. ASSUME NEW c \in Clients, CheckOpened(c) PROVE Balanced
  <2>1. pc[c] = "opened" /\ UNCHANGED exported
    BY <1>6 DEF CheckOpened
  <2>2. CASE MakesHandle(fds[c]) /\ Goto(c, "holding") /\ UNCHANGED fds
    <3>1. /\ pc'[c] = "holding" /\ UNCHANGED shared /\ \A d \in Clients \ {c} : pc'[d] = pc[d]
      BY <2>2, Places, GotoEffect DEF Owing
    <3>2. PlaceInv(c)' /\ (Owes(c)' <=> Owes(c)) /\ (Intact(c) => Intact(c)')
      BY <2>1, <2>2, <3>1, GoneThroughIs DEF PlaceInv, MakesHandle, Owes, Intact
    <3> QED
      BY <2>1, <2>2, <3>1, <3>2, KeepsBalance
  <2>3. CASE ~MakesHandle(fds[c]) /\ DropFiles(c) /\ Return(c)
    <3>1. ~Intact(c)
      BY <1>0, <2>1, <2>3, GoneThroughIs DEF MakesHandle, Intact
    <3> QED
      BY <1>r, <2>1, <2>3, <3>1, DropEffect
  <2> QED
    BY <1>6, <2>2, <2>3 DEF CheckOpened
<1>7. ASSUME NEW c \in Clients, FreeClose(c) PROVE Balanced
  <2>1. pc[c] = "holding" /\ DropFiles(c) /\ UNCHANGED exported
    BY <1>7 DEF FreeClose
  <2>2. CASE shared[c] /\ Return(c)
    <3>1. ~Intact(c)
      BY <2>2 DEF Intact, Owes
    <3> QED
      BY <1>r, <2>1, <2>2, <3>1, DropEffect
  <2>3. CASE ~shared[c] /\ Goto(c, "unexport")
    <3>1. /\ pc'[c] = "unexport" /\ UNCHANGED shared /\ \A d \in Clients \ {c} : pc'[d] = pc[d]
      BY <2>3, Places, GotoEffect DEF Owing
    <3>2. PlaceInv(c)' /\ Intact(c)'
      BY <2>1, <2>3, <3>1, GoneThroughIs, DropEffect DEF PlaceInv, Owes, Intact
    <3> QED
      BY <2>1, <3>1, <3>2, DropEffect, KeepsBalance
  <2> QED
    BY <1>7, <2>2, <2>3 DEF FreeClose, FileCloseFails, KeepsExport
<1>8. ASSUME NEW c \in Clients, Unexport(c) PROVE Balanced
  <2>1. /\ pc[c] = "unexport" /\ pc'[c] = "gone" /\ UNCHANGED <<fds, shared>>
        /\ \A d \in Clients \ {c} : pc'[d] = pc[d]
    BY <1>8, Places, GotoEffect DEF Unexport, Owing
  <2>2. ~exported' /\ PlaceInv(c)'
    BY <1>0, <1>8, <2>1 DEF Unexport, FileWriteIntPathRefused, KernelUnexport, PlaceInv
  <2> QED
    BY <2>1, <2>2, KeepsBalance
<1>9. ASSUME NEW c \in Clients, CheckGone(c) PROVE Balanced
  <2>1. fds[c] = {} /\ ~Intact(c) /\ Return(c) /\ UNCHANGED <<exported, fds>>
    BY <1>0, <1>9 DEF CheckGone, PlaceInv, Intact, Owes, Files
  <2> QED
    BY <1>r, <2>1
<1>10. CASE UNCHANGED vars
  BY <1>10 DEF vars, BalanceInv, Unowned, PlaceInv, Intact, Owes
<1> QED
  BY <1>1, <1>2, <1>3, <1>4, <1>5, <1>6, <1>7, <1>8, <1>9, <1>10 DEF Next, Step, Crash

(* Balance of request and free (pwm.c:60-103, 116-128, 157-178), GREEDY    *)
(* included: when no call fails by itself, no interleaving of requests and *)
(* frees leaves behind an export that nobody is going to undo, although a  *)
(* request whose files a GREEDY client took away ends without unexporting. *)
THEOREM NothingIsStranded ==
  ASSUME Faults = {}
  PROVE  Spec => [][Unowned' => Unowned]_vars
<1>1. Init => BalanceInv
  BY DEF Init, BalanceInv, PlaceInv, Owes, Files
<1>2. TypeOK /\ BalanceInv /\ [Next]_vars => BalanceInv' /\ [Unowned' => Unowned]_vars
  BY BalanceStep
<1> QED
  BY <1>1, <1>2, TypeCorrect, PTL DEF Spec
=============================================================================
