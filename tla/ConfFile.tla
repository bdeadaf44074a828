------------------------------ MODULE ConfFile ------------------------------
(***************************************************************************)
(* lib/conffile.c: conffile_load reads a board configuration line by line  *)
(* into a list of sections, each a list of settings, both newest first;    *)
(* conffile_get and conffile_get_int look a key up in it.                  *)
(*                                                                         *)
(* A line is what the parser makes of it: to be skipped, the header of a   *)
(* section, a bad header, a setting, or a bad setting.  A value is a       *)
(* number or NotNumeric, and numbers are as wide as IntMax and LongMax say.*)
(***************************************************************************)
EXTENDS Integers, Sequences, FiniteSetsExt

CONSTANTS Names,      \* section names
          Keys,
          Values,     \* integers or NotNumeric
          NotNumeric, \* a value that strtol does not read to its end
          NULL,
          IntMax,     \* INT_MAX
          LongMax,    \* LONG_MAX
          MaxLines    \* bound on the length of a file

ASSUME ValuesAssumption ==
  /\ Values \subseteq Int \cup {NotNumeric}
  /\ NULL \notin Int \cup Values /\ NotNumeric \notin Int
ASSUME NamesAssumption == NULL \notin Names
ASSUME WidthAssumption ==
  /\ IntMax \in Nat /\ LongMax \in Nat
  /\ \E w \in 1..8 : LongMax + 1 = w * (IntMax + 1)

VARIABLES file,     \* the lines read so far
          sections, \* conf->sections, newest first
          status    \* of the load: "loading", or how it ended

vars == <<file, sections, status>>

Skipped == [kind |-> "skipped"]
BadHeader == [kind |-> "bad_header"]
BadSetting == [kind |-> "bad_setting"]
Header(n) == [kind |-> "header", name |-> n]
Setting(k, v) == [kind |-> "setting", key |-> k, val |-> v]

Lines ==
  {Skipped, BadHeader, BadSetting}
    \cup {Header(n) : n \in Names} \cup {Setting(k, v) : k \in Keys, v \in Values}

KeyVals == [key : Keys, val : Values]
Sections == [name : Names, settings : Seq(KeyVals)]

(* The load ended with a conffile, with NULL, or with a store through the  *)
(* NULL head of the list of sections.                                      *)
TypeOK ==
  /\ file \in Seq(Lines)
  /\ sections \in Seq(Sections)
  /\ status \in {"loading", "loaded", "failed", "crashed"}

-----------------------------------------------------------------------------
(* conffile_load *)

Read(line) ==
  /\ status = "loading"
  /\ Len(file) < MaxLines
  /\ file' = Append(file, line)

SkipLine ==
  /\ Read(Skipped)
  /\ UNCHANGED <<sections, status>>

(* The definitions named Bug... are faulty versions of the code that the   *)
(* properties below reject; nothing else uses them.                        *)
BugAddsLast(n) == Append(sections, [name |-> n, settings |-> <<>>])
AddSection(n) == <<[name |-> n, settings |-> <<>>]>> \o sections

ReadHeader(n) ==
  /\ Read(Header(n))
  /\ sections' = AddSection(n)
  /\ UNCHANGED status

BugValueLost(k, v) == [key |-> k, val |-> NULL]
CreateKeyval(k, v) == [key |-> k, val |-> v]

(* A setting goes to the head of the newest section. *)
BugAppends(settings, kv) == Append(settings, kv)
AddSetting(settings, kv) == <<kv>> \o settings

(* With no section there is a warning and then a store through NULL. *)
ReadSetting(k, v) ==
  /\ Read(Setting(k, v))
  /\ \/ /\ sections = <<>>
        /\ status' = "crashed"
        /\ UNCHANGED sections
     \/ /\ sections # <<>>
        /\ sections' = [sections EXCEPT ![1].settings =
                          AddSetting(@, CreateKeyval(k, v))]
        /\ UNCHANGED status

(* The whole load fails; what was read is freed. *)
ReadBadLine ==
  /\ Read(BadHeader) \/ Read(BadSetting)
  /\ sections' = <<>>
  /\ status' = "failed"

EndOfFile ==
  /\ status = "loading"
  /\ status' = "loaded"
  /\ UNCHANGED <<file, sections>>

Init ==
  /\ file = <<>>
  /\ sections = <<>>
  /\ status = "loading"

(* The caller loads another file, or frees the conffile it got. *)
Restart ==
  /\ file' = <<>>
  /\ sections' = <<>>
  /\ status' = "loading"

Discard ==
  /\ file' = <<>>
  /\ sections' = <<>>
  /\ UNCHANGED status

Next ==
  \/ SkipLine
  \/ \E n \in Names : ReadHeader(n)
  \/ \E k \in Keys, v \in Values : ReadSetting(k, v)
  \/ ReadBadLine
  \/ EndOfFile

Spec == Init /\ [][Next]_vars

-----------------------------------------------------------------------------
(* conffile_get and conffile_get_int *)

(* The first of a newest-first list that has the property, if any.         *)
First(S) == Min(S)

ConffileGet(n, k, defval) ==
  LET named == {i \in DOMAIN sections : sections[i].name = n} IN
  IF named = {} THEN defval
  ELSE LET settings == sections[First(named)].settings
           hits == {j \in DOMAIN settings : settings[j].key = k}
       IN  IF hits = {} THEN defval ELSE settings[First(hits)].val

(* The conversion of a long to the int that conffile_get_int returns.      *)
ToInt(v) == ((v + IntMax + 1) % (2 * (IntMax + 1))) - (IntMax + 1)

(* What strtol and the tests on its result reject. *)
BugAcceptsLong(v) == v = NotNumeric
Rejected(v) ==
  v = NotNumeric \/ v > LongMax \/ v < -LongMax - 1 \/ v > IntMax

ConffileGetInt(n, k, defval) ==
  LET v == ConffileGet(n, k, NULL) IN
  IF v = NULL THEN ToInt(defval)
  ELSE ToInt(IF Rejected(v) THEN defval ELSE v)

-----------------------------------------------------------------------------
(* The lines of the file that set k in the block that the header at h      *)
(* opens.                                                                  *)
SettingsAfter(h, k) ==
  {i \in h + 1 .. Len(file) :
    /\ file[i].kind = "setting" /\ file[i].key = k
    /\ \A j \in h + 1 .. i : file[j].kind # "header"}

HeadersOf(n) == {i \in DOMAIN file : file[i].kind = "header" /\ file[i].name = n}

(* What a lookup means in terms of the file (conffile.c:63-88, 141-157):   *)
(* the last line that sets the key in the last block of that name.  The    *)
(* lists are built backwards and searched forwards, sections and settings  *)
(* each.                                                                   *)
LookupIsLast ==
  status \in {"loading", "loaded"} =>
    \A n \in Names, k \in Keys :
      LET hits == SettingsAfter(Max(HeadersOf(n)), k) IN
      ConffileGet(n, k, NULL) =
        IF HeadersOf(n) = {} THEN NULL
        ELSE IF hits = {} THEN NULL
        ELSE file[Max(hits)].val

(* The two lists (conffile.c:46-110, 141-157), newest first and searched   *)
(* from the front, are a dictionary of one value for each key: a line      *)
(* changes what lookups find for the section that it opens or the key that *)
(* it sets, and for no other.                                              *)
Table == [n \in Names |-> [k \in Keys |-> ConffileGet(n, k, NULL)]]

Newest == IF sections = <<>> THEN NULL ELSE sections[1].name

Stored == INSTANCE Dictionary WITH table <- Table, open <- Newest

ListsAreDictionary == Stored!Spec

(* Integers (conffile.c:164-179): what conffile_get_int returns is the     *)
(* number in the file or the default, for every number that an int can     *)
(* hold or that is too large for one, even for a long; one below INT_MIN   *)
(* passes the test for INT_MAX and is cut to an int.                       *)
IntOrDefault ==
  \A n \in Names, k \in Keys :
    LET v == ConffileGet(n, k, NULL)
        r == ConffileGetInt(n, k, -1)
    IN  /\ r = -1 \/ r = v \/ v < -IntMax - 1
        /\ v \in -IntMax - 1 .. IntMax => r = v

=============================================================================
