---------------------------- MODULE PwmLifecycle ----------------------------
(***************************************************************************)
(* libsoc_pwm_request and libsoc_pwm_free (lib/pwm.c) run by several       *)
(* clients against one channel of the kernel's sysfs PWM class.  As in     *)
(* GpioLifecycle a step is one access to sysfs and clients may fail or die *)
(* between any two, but a PWM handle is three open files, opened one after *)
(* the other, and free ignores whether its unexport was accepted.          *)
(***************************************************************************)
EXTENDS FiniteSets

CONSTANTS Clients, \* callers of the library, each with one handle at a time
          Modes,   \* the modes they pass; "OTHER" stands for an invalid one
          Faults   \* the calls that may fail beyond the kernel's own refusals

ASSUME PwmModesAssumption == Modes \subseteq {"SHARED", "GREEDY", "WEAK", "OTHER"}
ASSUME PwmFaultsAssumption == Faults \subseteq {"open", "write", "close", "crash"}

VARIABLES exported, \* the kernel shows pwmchipN/pwmM
          fds,      \* the descriptors each client's handle holds
          attached, \* those of them that reach the present export
          pc,       \* the access each client makes next
          mode,     \* the argument of its request
          shared,   \* its local, then pwm->shared
          leaks     \* history: what its calls returned without releasing

vars == <<exported, fds, attached, pc, mode, shared, leaks>>

Files == {"enable", "period", "duty_cycle"}

Locations == {"idle", "check", "export", "verify", "opened", "holding",
              "unexport", "gone"} \cup Files

(* A mode that is none of the three is taken as SHARED.  The definitions   *)
(* named Bug... are faulty versions of the code that the properties below  *)
(* reject; nothing else uses them.                                         *)
BugNotNormalised(m) == m
Normalise(m) == IF m = "OTHER" THEN "SHARED" ELSE m

RequestModes == {"SHARED"} \cup (Modes \ {"OTHER"})

(* Whether a request that finds the channel exported marks its handle      *)
(* shared.                                                                 *)
BugJoinIsNotShared(m) == FALSE
JoinIsShared(m) == m = "SHARED"

(* Whether free leaves the export alone. *)
BugAlwaysUnexports(c) == FALSE
KeepsExport(c) == shared[c]

(* Whether the three files a request opened make a handle.                 *)
BugOneFileWillDo(files) == files # {}
MakesHandle(files) == files = Files

TypeOK ==
  /\ exported \in BOOLEAN
  /\ fds \in [Clients -> SUBSET Files]
  /\ attached \in [Clients -> SUBSET Files]
  /\ pc \in [Clients -> Locations]
  /\ mode \in [Clients -> RequestModes]
  /\ shared \in [Clients -> BOOLEAN]
  /\ leaks \in [Clients -> SUBSET {"fd", "pwm"}]

-----------------------------------------------------------------------------
(* file.c: what a call may return, given what the kernel makes of it.  The *)
(* write of a number to a path opens, writes and closes, and fails if one  *)
(* of them does: after the write was refused, or after it took effect.     *)

FileValid == exported

FileOpenFails(exists) == ~exists \/ "open" \in Faults

FileCloseFails == "close" \in Faults

FileWriteIntPathRefused(accepted) ==
  ~accepted \/ "open" \in Faults \/ "write" \in Faults

KernelExport ==
  /\ ~exported
  /\ exported' = TRUE
  /\ UNCHANGED attached

KernelUnexport ==
  /\ exported
  /\ exported' = FALSE
  /\ attached' = [c \in Clients |-> {}]

Goto(c, l) ==
  /\ pc' = [pc EXCEPT ![c] = l]
  /\ UNCHANGED <<mode, shared>>

(* The call returns and the client is left without a handle. *)
Return(c) ==
  /\ pc' = [pc EXCEPT ![c] = "idle"]
  /\ mode' = [mode EXCEPT ![c] = "SHARED"]
  /\ shared' = [shared EXCEPT ![c] = FALSE]

(* The handle's files are closed, or lost with it when a call returns      *)
(* early.                                                                  *)
DropFiles(c) ==
  /\ fds' = [fds EXCEPT ![c] = {}]
  /\ attached' = [attached EXCEPT ![c] = {}]

Leak(c, what) == leaks' = [leaks EXCEPT ![c] = @ \cup what]

-----------------------------------------------------------------------------
(* libsoc_pwm_request *)

Request(c, m) ==
  /\ pc[c] = "idle"
  /\ pc' = [pc EXCEPT ![c] = "check"]
  /\ mode' = [mode EXCEPT ![c] = Normalise(m)]
  /\ UNCHANGED <<exported, fds, attached, shared, leaks>>

CheckExported(c) ==
  /\ pc[c] = "check"
  /\ \/ /\ FileValid
        /\ mode[c] = "WEAK"
        /\ Return(c)
     \/ /\ FileValid
        /\ mode[c] # "WEAK"
        /\ shared' = [shared EXCEPT ![c] = JoinIsShared(mode[c])]
        /\ pc' = [pc EXCEPT ![c] = "enable"]
        /\ UNCHANGED mode
     \/ /\ ~FileValid
        /\ Goto(c, "export")
  /\ UNCHANGED <<exported, fds, attached, leaks>>

Export(c) ==
  /\ pc[c] = "export"
  /\ \/ /\ FileWriteIntPathRefused(~exported)
        /\ Return(c)
        /\ UNCHANGED <<exported, attached>>
     \/ KernelExport /\ FileCloseFails /\ Return(c)
     \/ KernelExport /\ Goto(c, "verify")
  /\ UNCHANGED <<fds, leaks>>

Verify(c) ==
  /\ pc[c] = "verify"
  /\ \/ FileValid /\ Goto(c, "enable")
     \/ ~FileValid /\ Return(c)
  /\ UNCHANGED <<exported, fds, attached, leaks>>

(* The three opens; whether one failed is looked at after the last.        *)
AfterOpen == [enable |-> "period", period |-> "duty_cycle", duty_cycle |-> "opened"]

Open(c) ==
  /\ pc[c] \in Files
  /\ \/ /\ FileOpenFails(exported)
        /\ UNCHANGED <<fds, attached>>
     \/ /\ exported
        /\ fds' = [fds EXCEPT ![c] = @ \cup {pc[c]}]
        /\ attached' = [attached EXCEPT ![c] = @ \cup {pc[c]}]
  /\ Goto(c, AfterOpen[pc[c]])
  /\ UNCHANGED <<exported, leaks>>

(* A request that could not open all three frees the struct and returns    *)
(* NULL, without closing those it did open.                                *)
CheckOpened(c) ==
  /\ pc[c] = "opened"
  /\ \/ /\ MakesHandle(fds[c])
        /\ Goto(c, "holding")
        /\ UNCHANGED <<fds, attached, leaks>>
     \/ /\ ~MakesHandle(fds[c])
        /\ DropFiles(c)
        /\ Leak(c, {"fd" : f \in fds[c]})
        /\ Return(c)
  /\ UNCHANGED exported

-----------------------------------------------------------------------------
(* libsoc_pwm_free *)

(* Closes the files one by one and returns at the first that fails.        *)
FreeClose(c) ==
  /\ pc[c] = "holding"
  /\ DropFiles(c)
  /\ \/ /\ FileCloseFails
        /\ Return(c)
        /\ \E stillOpen \in SUBSET {"fd"} : Leak(c, {"pwm"} \cup stillOpen)
     \/ /\ KeepsExport(c)
        /\ Return(c)
        /\ UNCHANGED leaks
     \/ /\ ~KeepsExport(c)
        /\ Goto(c, "unexport")
        /\ UNCHANGED leaks
  /\ UNCHANGED exported

Unexport(c) ==
  /\ pc[c] = "unexport"
  /\ \/ FileWriteIntPathRefused(exported) /\ UNCHANGED <<exported, attached>>
     \/ KernelUnexport
  /\ Goto(c, "gone")
  /\ UNCHANGED <<fds, leaks>>

CheckGone(c) ==
  /\ pc[c] = "gone"
  /\ \/ FileValid /\ Leak(c, {"pwm"})
     \/ ~FileValid /\ UNCHANGED leaks
  /\ Return(c)
  /\ UNCHANGED <<exported, fds, attached>>

-----------------------------------------------------------------------------
(* The process dies: the kernel closes its files and frees its memory, and *)
(* leaves the channel as it is.  The restarted program has no handle.      *)
Crash(c) ==
  /\ "crash" \in Faults
  /\ pc[c] # "idle" \/ leaks[c] # {}
  /\ Return(c)
  /\ DropFiles(c)
  /\ leaks' = [leaks EXCEPT ![c] = {}]
  /\ UNCHANGED exported

Step(c) ==
  \/ \E m \in Modes : Request(c, m)
  \/ CheckExported(c)
  \/ Export(c)
  \/ Verify(c)
  \/ Open(c)
  \/ CheckOpened(c)
  \/ FreeClose(c)
  \/ Unexport(c)
  \/ CheckGone(c)
  \/ Crash(c)

Init ==
  /\ exported \in BOOLEAN \* somebody outside may have exported the channel
  /\ fds = [c \in Clients |-> {}]
  /\ attached = [c \in Clients |-> {}]
  /\ pc = [c \in Clients |-> "idle"]
  /\ mode = [c \in Clients |-> "SHARED"]
  /\ shared = [c \in Clients |-> FALSE]
  /\ leaks = [c \in Clients |-> {}]

Next == \E c \in Clients : Step(c)

Spec == Init /\ [][Next]_vars

-----------------------------------------------------------------------------
(* A client that takes the channel for its own export and is going to      *)
(* unexport it.                                                            *)
Owes(c) ==
  /\ ~shared[c]
  /\ pc[c] \in {"verify", "opened", "holding", "unexport"} \cup Files

(* The handle of an exporter (pwm.c:85-128, 157-165): without GREEDY the   *)
(* channel that a client exported stays under it until it unexports it,    *)
(* and the three files of its handle all reach that export, though they    *)
(* were opened one by one while other clients came and went.               *)
ExporterHandleWhole ==
  \A c \in Clients : Owes(c) =>
    /\ exported
    /\ attached[c] = fds[c]
    /\ pc[c] = "holding" => attached[c] = Files

(* The abstract promise, the same as that of the GPIO functions: the owner *)
(* is the client that owes an unexport, its users are the clients with a   *)
(* file on the present export.                                             *)
Line == INSTANCE LineExport WITH
  owners <- {c \in Clients : Owes(c)},
  users <- {c \in Clients : attached[c] # {}}

(* Request and free without GREEDY (pwm.c:41-178) implement LineExport,    *)
(* with every call failing and clients dying at any point.                 *)
ImplementsLineExport == Line!Spec
=============================================================================
