-------------------------- MODULE HandlerContract --------------------------
(***************************************************************************)
(* What an interrupt handler promises the program that registers it on a   *)
(* handle: it runs one call at a time, only while it is registered, and    *)
(* none of its calls outlives the registration.                            *)
(***************************************************************************)

VARIABLES registered, \* the handle has a handler
          running     \* the handler's function is being called

vars == <<registered, running>>

Init == ~registered /\ ~running

Register == ~registered /\ registered' = TRUE /\ UNCHANGED running

Call == registered /\ ~running /\ running' = TRUE /\ UNCHANGED registered

Return == running /\ running' = FALSE /\ UNCHANGED registered

Unregister == registered /\ ~running /\ registered' = FALSE /\ UNCHANGED running

Next == Register \/ Call \/ Return \/ Unregister

Spec == Init /\ [][Next]_vars
=============================================================================
