-------------------------- MODULE MCPwmAttributes --------------------------
(* An application thread that makes every call, with one number that an    *)
(* int holds and one that it does not, and a thread that gets and sets   *)
(* the period.                                                             *)
EXTENDS PwmAttributes

CONSTANTS app, watcher

MCCallsOf ==
  [t \in Threads |->
    IF t = app
    THEN Getters \cup {c \in Setters : c.of \in {"period", "duty_cycle"} => c.val \in {1, 3}}
    ELSE {c \in Getters : c.of = "period"}
           \cup {c \in Setters : c.of = "period" /\ c.val = 1}]
=============================================================================
