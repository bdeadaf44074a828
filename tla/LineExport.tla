----------------------------- MODULE LineExport -----------------------------
(***************************************************************************)
(* What exporting a line through sysfs promises to its clients, whatever   *)
(* library does it.  The line is exported or not; an export that is going  *)
(* to be undone has one owner, which alone may undo it and only after it   *)
(* closed its own handle; clients attach to a present export, and lose it  *)
(* only by leaving or when the owner releases the line.  An owner that     *)
(* fails abandons the export, and nobody ever undoes it.                   *)
(***************************************************************************)

CONSTANT Clients

VARIABLES exported, \* the line is exported
          owners,   \* the client that is to unexport it: at most one
          users     \* the clients attached to the present export

vars == <<exported, owners, users>>

Init ==
  /\ exported \in BOOLEAN \* an export made before the clients started
  /\ owners = {}          \*   belongs to none of them
  /\ users = {}

Claim(c) ==
  /\ ~exported
  /\ exported' = TRUE
  /\ owners' = {c}
  /\ users' = {}

Join(c) ==
  /\ exported
  /\ c \notin users
  /\ users' = users \cup {c}
  /\ UNCHANGED <<exported, owners>>

Leave(c) ==
  /\ c \in users
  /\ users' = users \ {c}
  /\ UNCHANGED <<exported, owners>>

Release(c) ==
  /\ owners = {c}
  /\ c \notin users
  /\ exported' = FALSE
  /\ owners' = {}
  /\ users' = {}

Abandon(c) ==
  /\ ~exported \/ owners = {c}
  /\ exported' = TRUE
  /\ owners' = {}
  /\ users' = users \ {c}

Next == \E c \in Clients : Claim(c) \/ Join(c) \/ Leave(c) \/ Release(c) \/ Abandon(c)

Spec == Init /\ [][Next]_vars
=============================================================================
