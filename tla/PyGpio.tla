------------------------------- MODULE PyGpio -------------------------------
(***************************************************************************)
(* The Python binding bindings/python/gpio.py: request_gpios opens a list  *)
(* of GPIO objects for a with block and closes them after it; in the block *)
(* the main thread starts interrupt handlers, each a thread that polls its *)
(* GPIO with a timeout, and stops and joins them as test/gpio_test.py      *)
(* does.  A poll is libsoc_gpio_poll (lib/gpio.c) on the native handle.    *)
(***************************************************************************)
EXTENDS Naturals, Sequences

CONSTANTS Gpios,   \* the GPIO objects of the program
          Order,   \* the list it passes to request_gpios
          Faults   \* what may fail: "request", "edge", "free", "poll"; or
                   \* raise an exception: "isr", the callback

ASSUME OrderAssumption == Order \in Seq(Gpios)
ASSUME PyFaultsAssumption ==
  Faults \subseteq {"request", "edge", "free", "poll", "isr"}

VARIABLES handle,  \* gpio._gpio: None, 0 or a native handle
          native,  \* what became of the native handle it had last
          running, \* the flag of the GPIO's latest InterruptHandler
          thread,  \* where that handler's thread is
          pending, \* POLLPRI is pending on the value file
          fired,   \* history: an edge came since the thread's last clear
          main,    \* where the main thread is
          next     \* the place in Order it opens or closes next

vars == <<handle, native, running, thread, pending, fired, main, next>>

objects == <<handle, native>>
handlers == <<running, thread, pending, fired>>

(* The main thread is outside a block, opening or closing the list, in the *)
(* body of the block or, for one of the GPIOs, in start_interrupt_handler, *)
(* between stop and join or in join.                                       *)
MainLocations ==
  {<<l>> : l \in {"out", "opening", "body", "closing"}}
    \cup ({"starting", "stopped", "joining"} \X Gpios)

(* A handler's thread does not exist, is about to set running, about to    *)
(* test it, in the clearing read, the poll or the final read of            *)
(* libsoc_gpio_poll, or in the callback; or an exception of the callback   *)
(* has ended it and it has not been joined.                                *)
ThreadLocations ==
  {"none", "new", "test", "clear", "poll", "final", "isr", "raised"}

TypeOK ==
  /\ handle \in [Gpios -> {"None", "NULL", "native"}]
  /\ native \in [Gpios -> {"gone", "live", "kept"}]
  /\ running \in [Gpios -> BOOLEAN]
  /\ thread \in [Gpios -> ThreadLocations]
  /\ pending \in [Gpios -> BOOLEAN]
  /\ fired \in [Gpios -> BOOLEAN]
  /\ main \in MainLocations
  /\ next \in 0..Len(Order) + 1

-----------------------------------------------------------------------------
(* request_gpios and GPIO.open *)

Enter ==
  /\ main = <<"out">>
  /\ main' = <<"opening">>
  /\ next' = 1
  /\ UNCHANGED <<objects, handlers>>

(* Where an exception of open takes the main thread, and how much of the   *)
(* list the finally clause then closes, in reverse.  The definitions named *)
(* Bug... are faulty versions of the code that the properties below        *)
(* reject; nothing else uses them.                                         *)
BugClosesOthers == next - 1
ClosesFrom == Len(Order)

Raise ==
  /\ main' = <<"closing">>
  /\ next' = ClosesFrom

(* The value file of a handle that was just opened may report POLLPRI.     *)
OpenNext ==
  /\ main = <<"opening">>
  /\ next <= Len(Order)
  /\ LET g == Order[next] IN
     \/ /\ handle[g] # "None" \* the assertion of open fails
        /\ Raise
        /\ UNCHANGED <<objects, handlers>>
     \/ /\ handle[g] = "None"
        /\ "request" \in Faults
        /\ handle' = [handle EXCEPT ![g] = "NULL"]
        /\ Raise
        /\ UNCHANGED <<native, handlers>>
     \/ /\ handle[g] = "None"
        /\ handle' = [handle EXCEPT ![g] = "native"]
        /\ native' = [native EXCEPT ![g] = "live"]
        /\ \E p \in BOOLEAN : pending' = [pending EXCEPT ![g] = p]
        /\ \/ "edge" \in Faults /\ Raise
           \/ main' = main /\ next' = next + 1
        /\ UNCHANGED <<running, thread, fired>>

EnterBody ==
  /\ main = <<"opening">>
  /\ next > Len(Order)
  /\ main' = <<"body">>
  /\ next' = 0
  /\ UNCHANGED <<objects, handlers>>

(* The body ends once every handler it started was joined. *)
LeaveBody ==
  /\ main = <<"body">>
  /\ \A g \in Gpios : ~running[g]
  /\ main' = <<"closing">>
  /\ next' = Len(Order)
  /\ UNCHANGED <<objects, handlers>>

(* What GPIO.close leaves in _gpio. *)
BugDangles == "freed"
Closed == "None"

(* GPIO.close frees a handle; it leaves None and 0 alone.  Where           *)
(* libsoc_gpio_free fails, which it does after it has closed the value     *)
(* file, it keeps the struct and perhaps the export; close does not look   *)
(* at its result and forgets the handle.                                   *)
CloseNext ==
  /\ main = <<"closing">>
  /\ next > 0
  /\ LET g == Order[next] IN
     \/ /\ handle[g] # "native"
        /\ UNCHANGED objects
     \/ /\ handle[g] = "native"
        /\ handle' = [handle EXCEPT ![g] = Closed]
        /\ \/ native' = [native EXCEPT ![g] = "gone"]
           \/ "free" \in Faults /\ native' = [native EXCEPT ![g] = "kept"]
  /\ next' = next - 1
  /\ UNCHANGED <<main, handlers>>

Exit ==
  /\ main = <<"closing">>
  /\ next = 0
  /\ main' = <<"out">>
  /\ UNCHANGED <<objects, next, handlers>>

-----------------------------------------------------------------------------
(* start_interrupt_handler, InterruptHandler.stop and join *)

(* A new handler's flag is down until its thread is up. *)
BugFlagUpAtInit == TRUE
FlagAtInit == FALSE

Start(g) ==
  /\ main = <<"body">>
  /\ handle[g] = "native"
  /\ thread[g] = "none"
  /\ running' = [running EXCEPT ![g] = FlagAtInit]
  /\ thread' = [thread EXCEPT ![g] = "new"]
  /\ main' = <<"starting", g>>
  /\ UNCHANGED <<objects, pending, fired, next>>

StartReturns(g) ==
  /\ main = <<"starting", g>>
  /\ running[g]
  /\ main' = <<"body">>
  /\ UNCHANGED <<objects, handlers, next>>

Stop(g) ==
  /\ main = <<"body">>
  /\ thread[g] # "none"
  /\ running' = [running EXCEPT ![g] = FALSE]
  /\ main' = <<"stopped", g>>
  /\ UNCHANGED <<objects, thread, pending, fired, next>>

Join(g) ==
  /\ main = <<"stopped", g>>
  /\ main' = <<"joining", g>>
  /\ UNCHANGED <<objects, handlers, next>>

(* threading.Thread.join waits for the end of the thread, however it ends. *)
BugJoinDoesNotWait(g) == TRUE
Joined(g) == thread[g] \in {"none", "raised"}

JoinReturns(g) ==
  /\ main = <<"joining", g>>
  /\ Joined(g)
  /\ thread' = [thread EXCEPT ![g] = IF @ = "raised" THEN "none" ELSE @]
  /\ main' = <<"body">>
  /\ UNCHANGED <<objects, running, pending, fired, next>>

-----------------------------------------------------------------------------
(* InterruptHandler.run and the poll it calls *)

Go(g, l) == thread' = [thread EXCEPT ![g] = l]

Run(g) ==
  /\ thread[g] = "new"
  /\ running' = [running EXCEPT ![g] = TRUE]
  /\ Go(g, "test")
  /\ UNCHANGED <<objects, pending, fired, main, next>>

TestFlag(g) ==
  /\ thread[g] = "test"
  /\ Go(g, IF running[g] THEN "clear" ELSE "none")
  /\ UNCHANGED <<objects, running, pending, fired, main, next>>

ReadClear(g) ==
  /\ thread[g] = "clear"
  /\ pending' = [pending EXCEPT ![g] = FALSE]
  /\ fired' = [fired EXCEPT ![g] = FALSE]
  /\ Go(g, "poll")
  /\ UNCHANGED <<objects, running, main, next>>

(* Where a timeout or an error of poll takes run: poll is False. *)
BugTimeoutIsInterrupt == "isr"
AfterTimeout == "test"

Poll(g) ==
  /\ thread[g] = "poll"
  /\ \/ pending[g] /\ Go(g, "final")
     \/ ~pending[g] /\ Go(g, AfterTimeout)
     \/ "poll" \in Faults /\ Go(g, AfterTimeout)
  /\ UNCHANGED <<objects, running, pending, fired, main, next>>

(* Without a seek, the read may leave what is pending. *)
FinalRead(g) ==
  /\ thread[g] = "final"
  /\ \E p \in {FALSE, pending[g]} : pending' = [pending EXCEPT ![g] = p]
  /\ Go(g, "isr")
  /\ UNCHANGED <<objects, running, fired, main, next>>

(* The exception of a callback ends run, which leaves the flag as it is.   *)
IsrReturns(g) ==
  /\ thread[g] = "isr"
  /\ \/ Go(g, "test")
     \/ "isr" \in Faults /\ Go(g, "raised")
  /\ UNCHANGED <<objects, running, pending, fired, main, next>>

(* The kernel signals an edge of an open line. *)
Interrupt(g) ==
  /\ native[g] = "live"
  /\ pending' = [pending EXCEPT ![g] = TRUE]
  /\ fired' = [fired EXCEPT ![g] = TRUE]
  /\ UNCHANGED <<objects, running, thread, main, next>>

Thread(g) ==
  \/ Run(g)
  \/ TestFlag(g)
  \/ ReadClear(g)
  \/ Poll(g)
  \/ FinalRead(g)
  \/ IsrReturns(g)

(* The steps of a call that the main thread has begun. *)
CallStep ==
  \/ OpenNext \/ EnterBody \/ CloseNext \/ Exit
  \/ \E g \in Gpios : StartReturns(g) \/ Join(g) \/ JoinReturns(g)

Next ==
  \/ Enter
  \/ LeaveBody
  \/ CallStep
  \/ \E g \in Gpios : Start(g) \/ Stop(g) \/ Thread(g) \/ Interrupt(g)

Init ==
  /\ handle = [g \in Gpios |-> "None"]
  /\ native = [g \in Gpios |-> "gone"]
  /\ running = [g \in Gpios |-> FALSE]
  /\ thread = [g \in Gpios |-> "none"]
  /\ pending = [g \in Gpios |-> FALSE]
  /\ fired = [g \in Gpios |-> FALSE]
  /\ main = <<"out">>
  /\ next = 0

(* Every thread runs when it can, and a callback returns or raises. *)
Fairness == WF_vars(CallStep) /\ \A g \in Gpios : WF_vars(Thread(g))

Spec == Init /\ [][Next]_vars /\ Fairness

-----------------------------------------------------------------------------
(* The handle under a handler (gpio.py:13-27, 60-64, 149-159): a program   *)
(* that stops and joins its handlers in the block never has a thread in    *)
(* libsoc_gpio_poll on a handle that the end of the block has freed.       *)
PollUsesOpenHandle ==
  \A g \in Gpios : thread[g] \notin {"none", "raised"} => native[g] = "live"

(* The flag (gpio.py:18-27, 143-145): in the body, between calls, a flag   *)
(* is up exactly when its thread lives, or was ended by an exception of    *)
(* its callback and not joined yet.  No stop is lost to a thread that sets *)
(* its flag late, and no thread survives its join.                         *)
FlagTellsThread ==
  main = <<"body">> => \A g \in Gpios : running[g] <=> thread[g] # "none"

(* A callback is called for an edge (gpio.py:23-24, lib/gpio.c:413-430)    *)
(* that came after the poll's clearing read, never for a timeout, an error *)
(* or an edge of an earlier poll.                                          *)
IsrForEdge == \A g \in Gpios : thread[g] \in {"final", "isr"} => fired[g]

(* The finally clause (gpio.py:60-64, 153-159): wherever opening the list  *)
(* fails, every native handle was given to libsoc_gpio_free by the end of  *)
(* the block, and one that it kept, failing, is in no object's hands.      *)
ClosedAfterBlock ==
  main = <<"out">> =>
    \A g \in Gpios : native[g] # "live" /\ handle[g] # "native"

(* Calls come back (gpio.py:22-27, 144-145): opening, closing, starting    *)
(* and joining end, because every poll has a timeout after which the flag  *)
(* is tested.                                                              *)
CallsReturn ==
  main \notin {<<"out">>, <<"body">>} ~> main \in {<<"out">>, <<"body">>}
=============================================================================
