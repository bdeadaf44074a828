----------------------------- MODULE Dictionary -----------------------------
(***************************************************************************)
(* What a configuration file says to a program that looks keys up, however *)
(* it is stored: for each key of each name, one value or none.  A header   *)
(* forgets what an earlier section of that name said, and a setting        *)
(* replaces an earlier one of its section.                                 *)
(***************************************************************************)
EXTENDS Sequences

CONSTANTS Names, Keys, NULL,
          Lines \* records with the kind of the line and what it names

VARIABLES file,  \* the lines read so far
          table, \* what the file says of each key of each name, or NULL
          open   \* the name of the section that is being read, or NULL

vars == <<file, table, open>>

Empty == [k \in Keys |-> NULL]

Blank == table = [n \in Names |-> Empty] /\ open = NULL

Init == file = <<>> /\ Blank

OpenSection(line) ==
  /\ line.kind = "header"
  /\ open' = line.name
  /\ table' = [table EXCEPT ![line.name] = Empty]

Set(line) ==
  /\ line.kind = "setting"
  /\ open # NULL
  /\ table' = [table EXCEPT ![open][line.key] = line.val]
  /\ UNCHANGED open

(* A setting outside of a section says nothing.                            *)
Ignore(line) ==
  /\ line.kind = "setting" => open = NULL
  /\ line.kind \in {"setting", "skipped"}
  /\ UNCHANGED <<table, open>>

(* A line that cannot be read makes the whole file say nothing.            *)
Reject(line) ==
  /\ line.kind \in {"bad_header", "bad_setting"}
  /\ Blank'

Read ==
  \E line \in Lines :
    /\ file' = Append(file, line)
    /\ OpenSection(line) \/ Set(line) \/ Ignore(line) \/ Reject(line)

(* Another file, or none. *)
Forget == file' = <<>> /\ Blank'

Next == Read \/ Forget

Spec == Init /\ [][Next]_vars
=============================================================================
