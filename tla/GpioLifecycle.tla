--------------------------- MODULE GpioLifecycle ---------------------------
(***************************************************************************)
(* libsoc_gpio_request and libsoc_gpio_free (lib/gpio.c) run by several    *)
(* clients against one line of the kernel's sysfs GPIO class.  Clients are *)
(* processes or threads; they share nothing but sysfs, so a step is one    *)
(* access to it: the check, the export, the check of the export, the open, *)
(* the close, the unexport and the check of the unexport.  Between two     *)
(* steps any other client may run, and with "crash" among the Faults a     *)
(* client may die and its program start again.                             *)
(*                                                                         *)
(* The kernel is external: it refuses to export an exported line or to     *)
(* unexport one that is not, and an unexport cuts off the value files that *)
(* are open on the line.                                                   *)
(***************************************************************************)
EXTENDS FiniteSets

CONSTANTS Clients, \* callers of the library, each with one handle at a time
          Modes,   \* the modes they pass; "OTHER" stands for an invalid one
          Faults   \* the calls that may fail beyond the kernel's own refusals

ASSUME ModesAssumption == Modes \subseteq {"SHARED", "GREEDY", "WEAK", "OTHER"}
ASSUME FaultsAssumption == Faults \subseteq {"open", "write", "close", "malloc", "crash"}

VARIABLES exported, \* the kernel shows /sys/class/gpio/gpioN
          attached, \* clients whose value_fd reaches the present export
          pc,       \* the access each client makes next
          mode,     \* the argument of its request
          shared,   \* its local, then gpio->shared
          leaks     \* history: what its calls returned without releasing

vars == <<exported, attached, pc, mode, shared, leaks>>

Locations == {"idle", "check", "export", "verify", "open",
              "holding", "unexport", "gone"}

Resources == {"export_fd", "unexport_fd", "gpio"}

(* A mode that is none of the three is taken as SHARED.  The          *)
(* definitions named Bug... are faulty versions of the code that the       *)
(* properties below reject; nothing else uses them.                        *)
BugNotNormalised(m) == m
Normalise(m) == IF m = "OTHER" THEN "SHARED" ELSE m

RequestModes == {"SHARED"} \cup (Modes \ {"OTHER"})

(* The local shared of a request, before it looks at the line. *)
BugInitiallyShared == TRUE
InitiallyShared == FALSE

(* Whether a request that finds the line exported marks its handle shared. *)
BugJoinIsNotShared(m) == FALSE
JoinIsShared(m) == m = "SHARED"

(* Whether free leaves the export alone. *)
BugAlwaysUnexports(c) == FALSE
KeepsExport(c) == shared[c]

TypeOK ==
  /\ exported \in BOOLEAN
  /\ attached \subseteq Clients
  /\ pc \in [Clients -> Locations]
  /\ mode \in [Clients -> RequestModes]
  /\ shared \in [Clients -> BOOLEAN]
  /\ leaks \in [Clients -> SUBSET Resources]

-----------------------------------------------------------------------------
(* file.c: what a call may return, given what the kernel makes of it. *)

FileValid == exported

FileOpenFails(exists) == ~exists \/ "open" \in Faults

FileWriteFails(accepted) == ~accepted \/ "write" \in Faults

FileCloseFails == "close" \in Faults

(* sysfs, as gpio.c relies on it. *)
KernelExport ==
  /\ ~exported
  /\ exported' = TRUE
  /\ UNCHANGED attached

KernelUnexport ==
  /\ exported
  /\ exported' = FALSE
  /\ attached' = {}

Goto(c, l) ==
  /\ pc' = [pc EXCEPT ![c] = l]
  /\ UNCHANGED <<mode, shared>>

Return(c) ==
  /\ pc' = [pc EXCEPT ![c] = "idle"]
  /\ mode' = [mode EXCEPT ![c] = "SHARED"]
  /\ shared' = [shared EXCEPT ![c] = FALSE]

Leak(c, what) == leaks' = [leaks EXCEPT ![c] = @ \cup what]

-----------------------------------------------------------------------------
(* libsoc_gpio_request *)

Request(c, m) ==
  /\ pc[c] = "idle"
  /\ pc' = [pc EXCEPT ![c] = "check"]
  /\ mode' = [mode EXCEPT ![c] = Normalise(m)]
  /\ shared' = [shared EXCEPT ![c] = InitiallyShared]
  /\ UNCHANGED <<exported, attached, leaks>>

CheckExported(c) ==
  /\ pc[c] = "check"
  /\ \/ /\ FileValid
        /\ mode[c] = "WEAK"
        /\ Return(c)
     \/ /\ FileValid
        /\ mode[c] # "WEAK"
        /\ shared' = [shared EXCEPT ![c] = JoinIsShared(mode[c])]
        /\ pc' = [pc EXCEPT ![c] = "open"]
        /\ UNCHANGED mode
     \/ /\ ~FileValid
        /\ Goto(c, "export")
  /\ UNCHANGED <<exported, attached, leaks>>

Export(c) ==
  /\ pc[c] = "export"
  /\ \/ /\ FileOpenFails(TRUE)
        /\ Return(c)
        /\ UNCHANGED <<exported, attached, leaks>>
     \/ /\ FileWriteFails(~exported)
        /\ Return(c)
        /\ Leak(c, {"export_fd"})
        /\ UNCHANGED <<exported, attached>>
     \/ /\ KernelExport
        /\ FileCloseFails
        /\ Return(c)
        /\ UNCHANGED leaks
     \/ /\ KernelExport
        /\ Goto(c, "verify")
        /\ UNCHANGED leaks

Verify(c) ==
  /\ pc[c] = "verify"
  /\ \/ FileValid /\ Goto(c, "open")
     \/ ~FileValid /\ Return(c)
  /\ UNCHANGED <<exported, attached, leaks>>

Open(c) ==
  /\ pc[c] = "open"
  /\ \/ /\ "malloc" \in Faults
        /\ Return(c)
        /\ UNCHANGED attached
     \/ /\ FileOpenFails(exported)
        /\ Return(c)
        /\ UNCHANGED attached
     \/ /\ exported
        /\ attached' = attached \cup {c}
        /\ Goto(c, "holding")
  /\ UNCHANGED <<exported, leaks>>

-----------------------------------------------------------------------------
(* libsoc_gpio_free; GpioCallback models the callback it cancels first. *)

FreeClose(c) ==
  /\ pc[c] = "holding"
  /\ attached' = attached \ {c}
  /\ \/ /\ FileCloseFails
        /\ Return(c)
        /\ Leak(c, {"gpio"})
     \/ /\ KeepsExport(c)
        /\ Return(c)
        /\ UNCHANGED leaks
     \/ /\ ~KeepsExport(c)
        /\ Goto(c, "unexport")
        /\ UNCHANGED leaks
  /\ UNCHANGED exported

Unexport(c) ==
  /\ pc[c] = "unexport"
  /\ \/ /\ FileOpenFails(TRUE)
        /\ Return(c)
        /\ Leak(c, {"gpio"})
        /\ UNCHANGED <<exported, attached>>
     \/ /\ FileWriteFails(exported)
        /\ Return(c)
        /\ Leak(c, {"unexport_fd", "gpio"})
        /\ UNCHANGED <<exported, attached>>
     \/ /\ KernelUnexport
        /\ FileCloseFails
        /\ Return(c)
        /\ Leak(c, {"gpio"})
     \/ /\ KernelUnexport
        /\ Goto(c, "gone")
        /\ UNCHANGED leaks

CheckGone(c) ==
  /\ pc[c] = "gone"
  /\ \/ FileValid /\ Leak(c, {"gpio"})
     \/ ~FileValid /\ UNCHANGED leaks
  /\ Return(c)
  /\ UNCHANGED <<exported, attached>>

-----------------------------------------------------------------------------
(* The process dies: the kernel closes its files and frees its memory, and *)
(* leaves the line as it is.  The restarted program has no handle.         *)
Crash(c) ==
  /\ "crash" \in Faults
  /\ pc[c] # "idle" \/ leaks[c] # {}
  /\ Return(c)
  /\ attached' = attached \ {c}
  /\ leaks' = [leaks EXCEPT ![c] = {}]
  /\ UNCHANGED exported

Step(c) ==
  \/ \E m \in Modes : Request(c, m)
  \/ CheckExported(c)
  \/ Export(c)
  \/ Verify(c)
  \/ Open(c)
  \/ FreeClose(c)
  \/ Unexport(c)
  \/ CheckGone(c)
  \/ Crash(c)

Init ==
  /\ exported \in BOOLEAN \* somebody outside may have exported the line
  /\ attached = {}
  /\ pc = [c \in Clients |-> "idle"]
  /\ mode = [c \in Clients |-> "SHARED"]
  /\ shared = [c \in Clients |-> FALSE]
  /\ leaks = [c \in Clients |-> {}]

Next == \E c \in Clients : Step(c)

Spec == Init /\ [][Next]_vars

-----------------------------------------------------------------------------
(* A client that takes the line for its own export and is going to         *)
(* unexport it: shared is 0 and the export is behind it.                   *)
Owes(c) == ~shared[c] /\ pc[c] \in {"verify", "open", "holding", "unexport"}

(* An export that no present client is going to undo. *)
Unowned == exported /\ \A c \in Clients : ~Owes(c)

(* Safety of the export (lib/gpio.c:71-118, 170-187): as long as nobody    *)
(* asks for GREEDY, at most one client at a time believes that it exported *)
(* the line and will unexport it, whatever calls fail or crash between the *)
(* check and the export.                                                   *)
SingleExporter ==
  \A c, d \in Clients : Owes(c) /\ Owes(d) => c = d

(* What a successful request is worth without GREEDY (gpio.c:109-143,      *)
(* 176-195): between its export and its unexport, the line of the client   *)
(* that exported it never disappears under it, so the handle it holds is   *)
(* good and its unexport is not refused for want of an export.             *)
ExporterReachesLine ==
  \A c \in Clients : Owes(c) =>
    /\ exported
    /\ pc[c] = "holding" => c \in attached

(* An export made by others (gpio.c:71-93, 170-174): without GREEDY, a     *)
(* line that is exported with no client to undo it, because it was so      *)
(* before they came or because its exporter failed or died, is never       *)
(* unexported by any sequence of requests and frees.                       *)
UnownedExportKept == [][Unowned => Unowned']_vars

(* Balance of request and free (gpio.c:94-118, 167-187), GREEDY included:  *)
(* when no call fails by itself, no interleaving of requests and frees     *)
(* leaves behind an export that nobody is going to undo.                   *)
NoStrandedExport == [][Unowned' => Unowned]_vars

(* Descriptors of free (gpio.c:183-187): without GREEDY, and as long as    *)
(* the kernel refuses a write only for its own reasons, no client has its  *)
(* unexport refused, the return that leaks the unexport descriptor along   *)
(* with the handle, whatever else fails or dies.                           *)
UnexportNeverRefused == \A c \in Clients : "unexport_fd" \notin leaks[c]

-----------------------------------------------------------------------------
(* The abstract promise: the owner of the export is the client that owes   *)
(* an unexport, its users are the clients attached to it.                  *)
Line == INSTANCE LineExport WITH
  owners <- {c \in Clients : Owes(c)},
  users <- attached

(* Request and free without GREEDY (gpio.c:52-200), with every call        *)
(* failing and clients dying at any point, implement LineExport: only the  *)
(* one exporter undoes an export, after closing its own handle.            *)
ImplementsLineExport == Line!Spec

(* The inductive strengthening of the invariants, for Modes without GREEDY:*)
(* only a client that holds a handle is attached, and only to an export;   *)
(* only a client with a handle, or about to open one, is marked shared, so *)
(* one that unexports exported the line.                                   *)
SharedInv == \A c \in Clients : shared[c] => pc[c] \in {"open", "holding"}

LineInv ==
  /\ SingleExporter
  /\ ExporterReachesLine
  /\ \A c \in attached : pc[c] = "holding"
  /\ attached # {} => exported
  /\ SharedInv
=============================================================================
