---------------------------- MODULE GpioCallback ----------------------------
(***************************************************************************)
(* libsoc_gpio_callback_interrupt, libsoc_gpio_callback_interrupt_cancel,  *)
(* the thread they start and stop and the poll it loops on, with the part  *)
(* of libsoc_gpio_free that concerns them (lib/gpio.c).  One application   *)
(* thread uses one handle at a time; each registration allocates a         *)
(* callback struct and starts a poll thread that shares the handle with    *)
(* it.  The kernel raises interrupts at any time.                          *)
(*                                                                         *)
(* A slot of Slots stands for one struct gpio_callback and the thread that *)
(* was created with it; a slot is used again once its memory is freed.     *)
(*                                                                         *)
(* What a call or a thread does with freed memory or a closed file is      *)
(* undefined and not modelled: a property rules it out or is violated      *)
(* before it happens.                                                      *)
(***************************************************************************)
EXTENDS Naturals

CONSTANTS Slots,       \* callback structs malloc can return
          NULL,        \* gpio->callback without a callback
          Reregisters, \* whether the application registers over a callback
          Faults       \* "create", "close" and "poll" may fail

ASSUME SlotsAssumption == NULL \notin Slots
ASSUME CallbackFaultsAssumption == Faults \subseteq {"create", "close", "poll"}
ASSUME ReregistersAssumption == Reregisters \in BOOLEAN

VARIABLES live,      \* the gpio struct is allocated
          fdOpen,    \* value_fd is open
          callback,  \* gpio->callback
          heap,      \* callback structs that are allocated
          locked,    \* structs whose mutex ready is locked
          app,       \* where the application thread is
          thread,    \* where each poll thread is
          cancelled, \* threads with a cancellation request
          pending,   \* POLLPRI is pending on value_fd
          queued     \* history: an interrupt came during the callback

vars == <<live, fdOpen, callback, heap, locked, app, thread, cancelled,
          pending, queued>>

handle == <<live, fdOpen, callback, heap, locked>>

(* The application is between calls, in a registration that is about to    *)
(* create its thread or waits for it, in a cancellation of its own or of a *)
(* free that waits for the thread, about to close the value file or to     *)
(* free the handle, or has no handle.                                      *)
AppLocations == {"idle", "create", "wait", "join", "freejoin", "close",
                 "free", "done"}

(* A poll thread is not there, about to unlock ready, about to make the    *)
(* clearing read, in poll, about to make the final read, about to call the *)
(* callback or in it.                                                      *)
ThreadLocations == {"none", "start", "clear", "poll", "final", "caught",
                    "callback"}

TypeOK ==
  /\ live \in BOOLEAN
  /\ fdOpen \in BOOLEAN
  /\ callback \in Slots \cup {NULL}
  /\ heap \subseteq Slots
  /\ locked \subseteq Slots
  /\ app \in AppLocations
  /\ thread \in [Slots -> ThreadLocations]
  /\ cancelled \subseteq Slots
  /\ pending \in BOOLEAN
  /\ queued \in BOOLEAN

-----------------------------------------------------------------------------
(* The application: libsoc_gpio_callback_interrupt *)

Register(c) ==
  /\ app = "idle"
  /\ callback \in heap => Reregisters
  /\ c \notin heap
  /\ thread[c] = "none"
  /\ heap' = heap \cup {c}
  /\ callback' = c
  /\ locked' = locked \cup {c}
  /\ app' = "create"
  /\ UNCHANGED <<live, fdOpen, thread, cancelled, pending, queued>>

(* The registration frees its struct when no thread can be created, and    *)
(* leaves gpio->callback as it is.                                         *)
CallbackAfterFailure == callback

CreateThread ==
  /\ app = "create"
  /\ \/ /\ thread' = [thread EXCEPT ![callback] = "start"]
        /\ app' = "wait"
        /\ UNCHANGED <<callback, heap, locked>>
     \/ /\ "create" \in Faults
        /\ locked' = locked \ {callback}
        /\ heap' = heap \ {callback}
        /\ callback' = CallbackAfterFailure
        /\ app' = "idle"
        /\ UNCHANGED thread
  /\ UNCHANGED <<live, fdOpen, cancelled, pending, queued>>

WaitReady ==
  /\ app = "wait"
  /\ callback \notin locked
  /\ locked' = locked \cup {callback}
  /\ app' = "idle"
  /\ UNCHANGED <<live, fdOpen, callback, heap, thread, cancelled, pending, queued>>

-----------------------------------------------------------------------------
(* libsoc_gpio_callback_interrupt_cancel, called by the application or by  *)
(* libsoc_gpio_free, and the end of free; GpioLifecycle models what free   *)
(* does to the line.                                                       *)

(* Both go by the pointer.  What they do through one to a struct that was  *)
(* freed is undefined, and no step of the model.                           *)
PointerIsValid == callback \in heap \cup {NULL}

(* Cancel does nothing to a handle without a callback.  The definitions    *)
(* named Bug... are faulty versions of the code that the properties below  *)
(* reject; nothing else uses them.                                         *)
BugCancelsAnything == TRUE
HasCallback == callback # NULL

Cancel ==
  /\ app = "idle"
  /\ PointerIsValid
  /\ HasCallback
  /\ cancelled' = cancelled \cup {callback}
  /\ app' = "join"
  /\ UNCHANGED <<handle, thread, pending, queued>>

(* Whether free must stop a callback before it closes the handle. *)
BugFreeLeavesCallback == FALSE
FreeStopsCallback == callback # NULL

Free ==
  /\ app = "idle"
  /\ PointerIsValid
  /\ \/ /\ FreeStopsCallback
        /\ cancelled' = cancelled \cup {callback}
        /\ app' = "freejoin"
     \/ /\ ~FreeStopsCallback
        /\ app' = "close"
        /\ UNCHANGED cancelled
  /\ UNCHANGED <<handle, thread, pending, queued>>

(* pthread_join returns once the thread is gone. *)
BugJoinDoesNotWait == TRUE
Joined == thread[callback] = "none"

Reap ==
  /\ app \in {"join", "freejoin"}
  /\ Joined
  /\ locked' = locked \ {callback}
  /\ heap' = heap \ {callback}
  /\ callback' = NULL
  /\ cancelled' = cancelled \ {callback}
  /\ queued' = FALSE
  /\ app' = IF app = "join" THEN "idle" ELSE "close"
  /\ UNCHANGED <<live, fdOpen, thread, pending>>

CloseValue ==
  /\ app = "close"
  /\ fdOpen' = FALSE
  /\ \/ "close" \in Faults /\ app' = "done"
     \/ app' = "free"
  /\ UNCHANGED <<live, callback, heap, locked, thread, cancelled, pending, queued>>

(* The unexport of free may fail, and then the struct is not freed. *)
FreeHandle ==
  /\ app = "free"
  /\ live' \in {FALSE, live}
  /\ app' = "done"
  /\ UNCHANGED <<fdOpen, callback, heap, locked, thread, cancelled, pending, queued>>

(* The application requests the line again once nothing of the old handle  *)
(* is in use.  A freshly opened value file may report POLLPRI.             *)
RequestAgain ==
  /\ app = "done"
  /\ \A c \in Slots : thread[c] = "none"
  /\ live' = TRUE
  /\ fdOpen' = TRUE
  /\ callback' = NULL
  /\ pending' \in BOOLEAN
  /\ app' = "idle"
  /\ UNCHANGED <<heap, locked, thread, cancelled, queued>>

-----------------------------------------------------------------------------
(* The thread: __libsoc_new_interrupt_callback_thread and libsoc_gpio_poll *)

Go(c, l) == thread' = [thread EXCEPT ![c] = l]

(* The first thing a thread does is to let its registration return. *)
BugUnlocksNothing == {}
UnlockedAtStart == {callback}

Unlock(c) ==
  /\ thread[c] = "start"
  /\ locked' = locked \ UnlockedAtStart
  /\ Go(c, "clear")
  /\ UNCHANGED <<live, fdOpen, callback, heap, app, cancelled, pending, queued>>

(* Seek and read: what is pending is cleared.  Reads are cancellation      *)
(* points.                                                                 *)
ReadClear(c) ==
  /\ thread[c] = "clear"
  /\ fdOpen
  /\ c \notin cancelled
  /\ pending' = FALSE
  /\ Go(c, "poll")
  /\ UNCHANGED <<handle, app, cancelled, queued>>

PollReturns(c) ==
  /\ thread[c] = "poll"
  /\ fdOpen
  /\ \/ pending /\ Go(c, "final")
     \/ "poll" \in Faults /\ Go(c, "clear")
  /\ UNCHANGED <<handle, app, cancelled, pending, queued>>

(* The final read does not seek: the kernel serves it from what the first  *)
(* read left, or shows the value anew and clears what is pending.          *)
FinalRead(c) ==
  /\ thread[c] = "final"
  /\ fdOpen
  /\ c \notin cancelled
  /\ pending' \in {FALSE, pending}
  /\ Go(c, "caught")
  /\ UNCHANGED <<handle, app, cancelled, queued>>

StartCallback(c) ==
  /\ thread[c] = "caught"
  /\ Go(c, "callback")
  /\ queued' = FALSE
  /\ UNCHANGED <<handle, app, cancelled, pending>>

FinishCallback(c) ==
  /\ thread[c] = "callback"
  /\ Go(c, "clear")
  /\ UNCHANGED <<handle, app, cancelled, pending, queued>>

(* Cancellation is deferred to the reads, to poll and to the cancellation  *)
(* points of the callback function.                                        *)
Die(c) ==
  /\ c \in cancelled
  /\ thread[c] \in {"clear", "poll", "final", "callback"}
  /\ Go(c, "none")
  /\ UNCHANGED <<handle, app, cancelled, pending, queued>>

-----------------------------------------------------------------------------
(* The kernel signals an edge of the line. *)
Interrupt ==
  /\ fdOpen
  /\ pending' = TRUE
  /\ queued' = (queued \/ \E c \in Slots : thread[c] = "callback")
  /\ UNCHANGED <<handle, app, thread, cancelled>>

Thread(c) ==
  \/ Unlock(c)
  \/ ReadClear(c)
  \/ PollReturns(c)
  \/ FinalRead(c)
  \/ StartCallback(c)
  \/ FinishCallback(c)
  \/ Die(c)

(* The steps of a library call that the application has begun. *)
CallStep == CreateThread \/ WaitReady \/ Reap \/ CloseValue \/ FreeHandle

Next ==
  \/ \E c \in Slots : Register(c) \/ Thread(c)
  \/ Cancel
  \/ Free
  \/ CallStep
  \/ RequestAgain
  \/ Interrupt

Init ==
  /\ live = TRUE
  /\ fdOpen = TRUE
  /\ callback = NULL
  /\ heap = {}
  /\ locked = {}
  /\ app = "idle"
  /\ thread = [c \in Slots |-> "none"]
  /\ cancelled = {}
  /\ pending \in BOOLEAN
  /\ queued = FALSE

Spec == Init /\ [][Next]_vars

(* A call and a poll thread that can run do, and a callback function       *)
(* returns or reaches a cancellation point.  There is one poll thread at a *)
(* time (ThreadServesHandle), so that fairness of PollThread is of each.   *)
PollThread == \E c \in Slots : Thread(c)

Fairness == WF_vars(CallStep) /\ WF_vars(PollThread)

FairSpec == Spec /\ Fairness

-----------------------------------------------------------------------------
(* The threads of a handle (gpio.c:160-165, 477-550): however threads,     *)
(* cancellations, frees and interrupts interleave, a poll thread that      *)
(* exists is the one of the registered callback, its struct and its handle *)
(* are allocated and its value file is open: neither it nor the callback   *)
(* function it calls can touch memory that cancel or free released.        *)
ThreadServesHandle ==
  \A c \in Slots : thread[c] # "none" =>
    /\ live /\ fdOpen
    /\ callback = c
    /\ c \in heap

(* Balance of registration and cancellation (gpio.c:481-499, 512-515,      *)
(* 539-545): between calls the only callback struct allocated is that of a *)
(* registered callback with its thread running, and none is allocated once *)
(* the handle is being closed.                                             *)
NothingLeaked ==
  /\ app \in {"idle", "close", "free", "done"} =>
       heap = {c \in Slots : thread[c] # "none"}
  /\ app \in {"close", "free", "done"} => heap = {}

(* The contract of a handler: registered from the store of gpio->callback  *)
(* until it is freed, running while a thread is in its function.           *)
Contract == INSTANCE HandlerContract WITH
  registered <- callback \in heap,
  running <- \E c \in Slots : thread[c] = "callback"

(* Registering and cancelling (gpio.c:460-550) implement HandlerContract:  *)
(* one call at a time, none before the registration or after the           *)
(* cancellation is through.                                                *)
ImplementsContract == Contract!Spec

(* No call hangs (gpio.c:505-509, 535-540): a registration gets its thread *)
(* to unlock ready, and a cancellation or a free gets it to die, wherever  *)
(* interrupts and failing polls have taken it.                             *)
CallsReturn ==
  app \notin {"idle", "done"} ~> app \in {"idle", "done"}

-----------------------------------------------------------------------------
(* The inductive strengthening, for an application that registers only     *)
(* when it has no handler.                                                 *)
HandlerInv ==
  /\ ThreadServesHandle
  /\ heap \subseteq {callback}
  /\ app \in {"create", "wait", "join", "freejoin"} => callback \in heap
  /\ app = "create" => callback \in locked /\ \A c \in Slots : thread[c] = "none"
  /\ app \in {"idle", "wait"} => \A c \in heap : thread[c] # "none"
  /\ app \in {"close", "free", "done"} => heap = {}
  /\ app \in {"idle", "create", "wait", "join", "freejoin"} => live /\ fdOpen
  /\ \A c \in Slots : thread[c] = "start" => app = "wait" /\ c \in locked
  /\ cancelled \subseteq {callback}
  /\ cancelled # {} => app \in {"join", "freejoin"}

-----------------------------------------------------------------------------
(* What the documentation says and the code does not do. *)

(* gpio.c:163 "Turn off the callback if there is one enabled": between     *)
(* calls gpio->callback is NULL or a callback, for cancel and free to test.*)
(* A registration whose thread cannot be created frees the struct and      *)
(* leaves the pointer.                                                     *)
NoDanglingCallback == app = "idle" => callback \in heap \cup {NULL}

(* static-docs/docs/c/gpio.md:309: an interrupt that arrives while the     *)
(* callback function runs is queued, so the function is called again or    *)
(* the registration cancelled.  The clearing read of the next poll         *)
(* discards it.                                                            *)
QueuedInterruptServed == queued ~> ~queued
=============================================================================
