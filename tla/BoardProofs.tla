----------------------------- MODULE BoardProofs -----------------------------
(***************************************************************************)
(* Proofs about Board and the ConfFile it extends for any names, keys,     *)
(* values, widths of an int and a long, and any bounds on the files: every *)
(* property that the run checks.                                           *)
(***************************************************************************)
EXTENDS Board, TLAPS

LEMMA MinIs ==
  ASSUME NEW S \in SUBSET Int, NEW m \in S, \A x \in S : m <= x
  PROVE  Min(S) = m
<1>1. Min(S) \in S /\ \A x \in S : Min(S) <= x
  BY DEF Min
<1>2. Min(S) \in Int /\ m \in Int /\ Min(S) <= m /\ m <= Min(S)
  BY <1>1
<1> QED
  BY <1>2

LEMMA MaxIs ==
  ASSUME NEW S \in SUBSET Int, NEW m \in S, \A x \in S : x <= m
  PROVE  Max(S) = m
<1>1. Max(S) \in S /\ \A x \in S : Max(S) >= x
  BY DEF Max
<1>2. Max(S) \in Int /\ m \in Int /\ Max(S) <= m /\ m <= Max(S)
  BY <1>1
<1> QED
  BY <1>2

LEMMA Prepended ==
  ASSUME NEW T, NEW s \in Seq(T), NEW e \in T
  PROVE  /\ <<e>> \o s \in Seq(T)
         /\ Len(s) \in Nat /\ DOMAIN s = 1..Len(s)
         /\ DOMAIN (<<e>> \o s) = 1..Len(s) + 1
         /\ (<<e>> \o s)[1] = e
         /\ \A j \in 1..Len(s) : (<<e>> \o s)[j + 1] = s[j]
         /\ \A j \in 2..Len(s) + 1 : (<<e>> \o s)[j] = s[j - 1]
OBVIOUS

(* What the parser makes of a line. *)
LEMMA LineKinds ==
  /\ Skipped \in Lines /\ BadHeader \in Lines /\ BadSetting \in Lines
  /\ \A n \in Names : Header(n) \in Lines
  /\ \A k \in Keys, v \in Values : Setting(k, v) \in Lines
  /\ Skipped.kind \notin {"header", "setting"}
  /\ \A n : Header(n).kind = "header" /\ Header(n).name = n
  /\ \A k, v : /\ Setting(k, v).kind = "setting"
               /\ Setting(k, v).key = k /\ Setting(k, v).val = v
  /\ \A l \in Lines : /\ l.kind = "header" => l.name \in Names
                      /\ l.kind = "setting" => l.key \in Keys /\ l.val \in Values
<1>1. /\ Skipped \in Lines /\ BadHeader \in Lines /\ BadSetting \in Lines
      /\ \A n \in Names : Header(n) \in Lines
      /\ \A k \in Keys, v \in Values : Setting(k, v) \in Lines
  BY DEF Lines
<1>2. /\ Skipped.kind \notin {"header", "setting"}
      /\ BadHeader.kind \notin {"header", "setting"}
      /\ BadSetting.kind \notin {"header", "setting"}
  BY DEF Skipped, BadHeader, BadSetting
<1>3. /\ \A n : Header(n).kind = "header" /\ Header(n).name = n
      /\ \A k, v : /\ Setting(k, v).kind = "setting"
                   /\ Setting(k, v).key = k /\ Setting(k, v).val = v
  BY DEF Header, Setting
<1>4. ASSUME NEW l \in Lines
      PROVE  /\ l.kind = "header" => l.name \in Names
             /\ l.kind = "setting" => l.key \in Keys /\ l.val \in Values
  <2>1. CASE l \in {Skipped, BadHeader, BadSetting}
    BY <1>2, <2>1
  <2>2. CASE \E n \in Names : l = Header(n)
    BY <1>3, <2>2
  <2>3. CASE \E k \in Keys, v \in Values : l = Setting(k, v)
    BY <1>3, <2>3
  <2> QED
    BY <2>1, <2>2, <2>3 DEF Lines
<1> QED
  BY <1>1, <1>2, <1>3, <1>4

-----------------------------------------------------------------------------
(* The lists and the lines they come from, by the two relations that the   *)
(* lookups use.                                                            *)
Named(n) == {i \in DOMAIN sections : sections[i].name = n}
Hits(i, k) ==
  {j \in DOMAIN sections[i].settings : sections[i].settings[j].key = k}

LastBlock(h) == \A j \in h + 1 .. Len(file) : file[j].kind # "header"

(* The block of the header at h and the section at i agree on a key: none  *)
(* sets it, or the last line that does is the first setting that has it.   *)
KeyInv(h, i, k) ==
  \/ SettingsAfter(h, k) = {} /\ Hits(i, k) = {}
  \/ \E l \in SettingsAfter(h, k), j \in Hits(i, k) :
       /\ \A m \in SettingsAfter(h, k) : m <= l
       /\ \A m \in Hits(i, k) : j <= m
       /\ sections[i].settings[j].val = file[l].val

(* The last header of a name is the first section of that name; the block  *)
(* that is still open is the head of the list.                             *)
BlockInv(n, h, i) ==
  /\ h \in HeadersOf(n) /\ \A m \in HeadersOf(n) : m <= h
  /\ i \in Named(n) /\ \A m \in Named(n) : i <= m
  /\ LastBlock(h) <=> i = 1
  /\ \A k \in Keys : KeyInv(h, i, k)

NameInv(n) ==
  \/ HeadersOf(n) = {} /\ Named(n) = {}
  \/ \E h \in 1..Len(file), i \in 1..Len(sections) : BlockInv(n, h, i)

Readable == status \in {"loading", "loaded"}

ConfInv ==
  /\ TypeOK
  /\ Readable => \A n \in Names : NameInv(n)
  /\ ~Readable => sections = <<>>

LEMMA FileGrows ==
  ASSUME TypeOK, NEW line \in Lines, Read(line)
  PROVE  /\ file' \in Seq(Lines) /\ Len(file) \in Nat
         /\ Len(file') = Len(file) + 1
         /\ file'[Len(file) + 1] = line
         /\ \A i \in 1..Len(file) : file'[i] = file[i]
         /\ status = "loading"
BY DEF TypeOK, Read

LEMMA HeadersGrow ==
  ASSUME TypeOK, NEW line \in Lines, Read(line), NEW n
  PROVE  IF line.kind = "header" /\ line.name = n
         THEN HeadersOf(n)' = HeadersOf(n) \cup {Len(file) + 1}
         ELSE HeadersOf(n)' = HeadersOf(n)
<1> USE FileGrows
<1>1. DOMAIN file = 1..Len(file) /\ DOMAIN file' = 1..Len(file) + 1
  BY DEF TypeOK
<1>2. HeadersOf(n)' = HeadersOf(n) \cup
        {i \in {Len(file) + 1} : line.kind = "header" /\ line.name = n}
  BY <1>1 DEF HeadersOf
<1> QED
  BY <1>2

LEMMA BlocksGrow ==
  ASSUME TypeOK, NEW line \in Lines, Read(line), NEW h \in 1..Len(file)
  PROVE  /\ LastBlock(h)' <=> LastBlock(h) /\ line.kind # "header"
         /\ \A k \in Keys :
              IF LastBlock(h) /\ line.kind = "setting" /\ line.key = k
              THEN SettingsAfter(h, k)' = SettingsAfter(h, k) \cup {Len(file) + 1}
              ELSE SettingsAfter(h, k)' = SettingsAfter(h, k)
<1> USE FileGrows
<1>0. h + 1 .. Len(file') = (h + 1 .. Len(file)) \cup {Len(file) + 1}
  OBVIOUS
<1>1. LastBlock(h)' <=> LastBlock(h) /\ line.kind # "header"
  BY <1>0 DEF LastBlock
<1>2. ASSUME NEW k \in Keys
      PROVE  IF LastBlock(h) /\ line.kind = "setting" /\ line.key = k
             THEN SettingsAfter(h, k)' = SettingsAfter(h, k) \cup {Len(file) + 1}
             ELSE SettingsAfter(h, k)' = SettingsAfter(h, k)
  <2>1. ASSUME NEW i \in h + 1 .. Len(file)
        PROVE  i \in SettingsAfter(h, k)' <=> i \in SettingsAfter(h, k)
    <3>1. /\ \A j \in h + 1 .. i : file'[j] = file[j]
          /\ i \in h + 1 .. Len(file') /\ file'[i] = file[i]
      OBVIOUS
    <3> QED
      BY <3>1 DEF SettingsAfter
  <2>2. Len(file) + 1 \in SettingsAfter(h, k)' <=>
          LastBlock(h) /\ line.kind = "setting" /\ line.key = k
    <3>1. /\ Len(file) + 1 \in h + 1 .. Len(file')
          /\ h + 1 .. Len(file) + 1 = h + 1 .. Len(file')
      OBVIOUS
    <3>2. Len(file) + 1 \in SettingsAfter(h, k)' <=>
            /\ line.kind = "setting" /\ line.key = k
            /\ LastBlock(h)'
      BY <3>1 DEF SettingsAfter, LastBlock
    <3> QED
      BY <1>1, <3>2
  <2>3. /\ SettingsAfter(h, k)' \subseteq h + 1 .. Len(file')
        /\ SettingsAfter(h, k) \subseteq h + 1 .. Len(file)
    BY DEF SettingsAfter
  <2>4. SettingsAfter(h, k) \cap {Len(file) + 1} = {}
    BY <2>3
  <2>5. CASE LastBlock(h) /\ line.kind = "setting" /\ line.key = k
    <3>1. \A i : i \in SettingsAfter(h, k)' <=> i \in SettingsAfter(h, k) \cup {Len(file) + 1}
      BY <1>0, <2>1, <2>2, <2>3, <2>5
    <3> QED
      BY <2>5, <3>1
  <2>6. CASE ~(LastBlock(h) /\ line.kind = "setting" /\ line.key = k)
    <3>1. \A i : i \in SettingsAfter(h, k)' <=> i \in SettingsAfter(h, k)
      <4>1. Len(file) + 1 \notin SettingsAfter(h, k)'
        BY <2>2, <2>6
      <4>2. SettingsAfter(h, k)' \subseteq h + 1 .. Len(file)
        BY <1>0, <2>3, <4>1
      <4> QED
        BY <2>1, <2>3, <4>2
    <3>2. SettingsAfter(h, k)' = SettingsAfter(h, k)
      BY <3>1
    <3> QED
      BY <2>6, <3>2
  <2> QED
    BY <2>5, <2>6
<1> QED
  BY <1>1, <1>2

(* A section and a block that a step leaves alone still agree. *)
LEMMA KeyCarries ==
  ASSUME NEW h, NEW i, NEW j, NEW k, KeyInv(h, i, k),
         SettingsAfter(h, k)' = SettingsAfter(h, k),
         Hits(j, k)' = Hits(i, k), sections'[j] = sections[i],
         \A l \in SettingsAfter(h, k) : file'[l] = file[l]
  PROVE  KeyInv(h, j, k)'
<1>1. CASE SettingsAfter(h, k) = {} /\ Hits(i, k) = {}
  BY <1>1 DEF KeyInv
<1>2. ASSUME NEW l \in SettingsAfter(h, k), NEW x \in Hits(i, k),
             \A m \in SettingsAfter(h, k) : m <= l,
             \A m \in Hits(i, k) : x <= m,
             sections[i].settings[x].val = file[l].val
      PROVE  KeyInv(h, j, k)'
  <2>1. /\ l \in SettingsAfter(h, k)' /\ x \in Hits(j, k)'
        /\ \A m \in SettingsAfter(h, k)' : m <= l
        /\ \A m \in Hits(j, k)' : x <= m
        /\ sections'[j].settings[x].val = file'[l].val
    BY <1>2
  <2> QED
    BY <2>1 DEF KeyInv
<1> QED
  BY <1>1, <1>2 DEF KeyInv

-----------------------------------------------------------------------------
(* A line that is neither a header nor a setting changes nothing. *)
LEMMA SkipKeeps ==
  ASSUME ConfInv, SkipLine
  PROVE  ConfInv'
<1>1. Read(Skipped) /\ Skipped \in Lines /\ UNCHANGED <<sections, status>>
  BY LineKinds DEF SkipLine
<1>2. /\ file' \in Seq(Lines) /\ Len(file') = Len(file) + 1 /\ Len(file) \in Nat
      /\ \A i \in 1..Len(file) : file'[i] = file[i]
      /\ status = "loading"
  BY <1>1, FileGrows DEF ConfInv
<1>3. ASSUME NEW n \in Names PROVE NameInv(n)'
  <2>1. HeadersOf(n)' = HeadersOf(n)
    BY <1>1, HeadersGrow, LineKinds DEF ConfInv
  <2>2. Named(n)' = Named(n) /\ \A i, k : Hits(i, k)' = Hits(i, k)
    BY <1>1 DEF Named, Hits
  <2>3. CASE HeadersOf(n) = {} /\ Named(n) = {}
    BY <2>1, <2>2, <2>3 DEF NameInv
  <2>4. ASSUME NEW h \in 1..Len(file), NEW i \in 1..Len(sections), BlockInv(n, h, i)
        PROVE  BlockInv(n, h, i)'
    <3>1. LastBlock(h)' <=> LastBlock(h)
      BY <1>1, BlocksGrow, LineKinds DEF ConfInv
    <3>2. ASSUME NEW k \in Keys PROVE KeyInv(h, i, k)'
      <4>1. SettingsAfter(h, k)' = SettingsAfter(h, k)
        BY <1>1, BlocksGrow, LineKinds DEF ConfInv
      <4>2. KeyInv(h, i, k)
        BY <2>4 DEF BlockInv
      <4>3. \A l \in SettingsAfter(h, k) : file'[l] = file[l]
        BY <1>2 DEF SettingsAfter
      <4> QED
        BY <1>1, <2>2, <4>1, <4>2, <4>3, KeyCarries
    <3> QED
      BY <2>1, <2>2, <2>4, <3>1, <3>2 DEF BlockInv
  <2>5. 1..Len(file) \subseteq 1..Len(file') /\ Len(sections') = Len(sections)
    BY <1>1, <1>2
  <2>6. CASE \E h \in 1..Len(file), i \in 1..Len(sections) : BlockInv(n, h, i)
    <3>1. PICK h \in 1..Len(file), i \in 1..Len(sections) : BlockInv(n, h, i)
      BY <2>6
    <3>2. BlockInv(n, h, i)' /\ h \in 1..Len(file') /\ i \in 1..Len(sections')
      BY <2>4, <2>5, <3>1
    <3> QED
      BY <3>2 DEF NameInv
  <2> QED
    BY <1>2, <2>3, <2>6 DEF ConfInv, NameInv, Readable
<1> QED
  BY <1>1, <1>2, <1>3 DEF ConfInv, TypeOK, Readable

(* The new section is the head; every other one moves down by a place.     *)
LEMMA HeaderKeeps ==
  ASSUME ConfInv, NEW n \in Names, ReadHeader(n)
  PROVE  ConfInv'
<1>1. Read(Header(n)) /\ Header(n) \in Lines /\ UNCHANGED status
  BY LineKinds DEF ReadHeader
<1>2. /\ file' \in Seq(Lines) /\ Len(file') = Len(file) + 1 /\ Len(file) \in Nat
      /\ \A i \in 1..Len(file) : file'[i] = file[i]
      /\ status = "loading"
  BY <1>1, FileGrows DEF ConfInv
<1>3. /\ sections' \in Seq(Sections) /\ Len(sections) \in Nat
      /\ Len(sections') = Len(sections) + 1
      /\ sections'[1] = [name |-> n, settings |-> <<>>]
      /\ \A i \in 1..Len(sections) : sections'[i + 1] = sections[i]
      /\ DOMAIN sections = 1..Len(sections)
      /\ DOMAIN sections' = 1..Len(sections) + 1
  <2>1. [name |-> n, settings |-> <<>>] \in Sections
    BY DEF Sections
  <2> QED
    BY <2>1 DEF ReadHeader, AddSection, ConfInv, TypeOK
<1>4. NameInv(n)'
  <2>0. PICK h \in Nat : h = Len(file) + 1
    BY <1>2
  <2>1. HeadersOf(n)' = HeadersOf(n) \cup {h} /\ HeadersOf(n) \subseteq 1..Len(file)
    <3>1. HeadersOf(n) \subseteq DOMAIN file /\ DOMAIN file = 1..Len(file)
      BY DEF HeadersOf, ConfInv, TypeOK
    <3> QED
      BY <1>1, <2>0, <3>1, HeadersGrow, LineKinds DEF ConfInv
  <2>2. 1 \in Named(n)' /\ \A m \in Named(n)' : 1 <= m
    BY <1>3 DEF Named
  <2>3. h + 1 .. Len(file') = {}
    BY <1>2, <2>0
  <2>4. LastBlock(h)' /\ \A k \in Keys : SettingsAfter(h, k)' = {} /\ Hits(1, k)' = {}
    BY <1>3, <2>3 DEF LastBlock, SettingsAfter, Hits
  <2>5. BlockInv(n, h, 1)'
    <3>1. h \in HeadersOf(n)' /\ \A m \in HeadersOf(n)' : m <= h
      BY <1>2, <2>0, <2>1
    <3>2. \A k \in Keys : KeyInv(h, 1, k)'
      BY <2>4 DEF KeyInv
    <3> QED
      BY <2>2, <2>4, <3>1, <3>2 DEF BlockInv
  <2>6. h \in 1..Len(file') /\ 1 \in 1..Len(sections')
    BY <1>2, <1>3, <2>0
  <2> QED
    BY <2>5, <2>6 DEF NameInv
<1>5. ASSUME NEW m \in Names, m # n PROVE NameInv(m)'
  <2>1. HeadersOf(m)' = HeadersOf(m)
    <3>1. Header(n).name # m
      BY <1>5, LineKinds
    <3> QED
      BY <1>1, <3>1, HeadersGrow DEF ConfInv
  <2>2. /\ \A i \in Named(m)' : i # 1 /\ i - 1 \in Named(m)
        /\ \A i \in Named(m) : i + 1 \in Named(m)'
    <3>1. 1 \notin Named(m)'
      BY <1>3, <1>5 DEF Named
    <3>2. ASSUME NEW i \in Named(m)' PROVE i - 1 \in Named(m)
      <4>1. i \in 1..Len(sections) + 1 /\ i # 1 /\ sections'[i].name = m
        BY <1>3, <3>1 DEF Named
      <4>2. i - 1 \in 1..Len(sections) /\ sections'[(i - 1) + 1] = sections'[i]
        BY <1>3, <4>1
      <4> QED
        BY <1>3, <4>1, <4>2 DEF Named
    <3>3. ASSUME NEW i \in Named(m) PROVE i + 1 \in Named(m)'
      BY <1>3 DEF Named
    <3> QED
      BY <3>1, <3>2, <3>3
  <2>3. CASE HeadersOf(m) = {} /\ Named(m) = {}
    BY <2>1, <2>2, <2>3 DEF NameInv
  <2>4. CASE \E h \in 1..Len(file), i \in 1..Len(sections) : BlockInv(m, h, i)
    <3>1. PICK h \in 1..Len(file), i \in 1..Len(sections) : BlockInv(m, h, i)
      BY <2>4
    <3>2. ~LastBlock(h)'
      BY <1>1, BlocksGrow, LineKinds DEF ConfInv
    <3>3. ASSUME NEW k \in Keys PROVE KeyInv(h, i + 1, k)'
      <4>1. SettingsAfter(h, k)' = SettingsAfter(h, k)
        BY <1>1, BlocksGrow, LineKinds DEF ConfInv
      <4>2. Hits(i + 1, k)' = Hits(i, k) /\ sections'[i + 1] = sections[i]
        BY <1>3 DEF Hits
      <4>3. KeyInv(h, i, k)
        BY <3>1 DEF BlockInv
      <4>4. \A l \in SettingsAfter(h, k) : file'[l] = file[l]
        BY <1>2 DEF SettingsAfter
      <4> QED
        BY <4>1, <4>2, <4>3, <4>4, KeyCarries
    <3>4. i + 1 \in Named(m)' /\ \A j \in Named(m)' : i + 1 <= j
      <4>1. i \in Named(m) /\ \A j \in Named(m) : i <= j
        BY <3>1 DEF BlockInv
      <4>2. ASSUME NEW j \in Named(m)' PROVE i + 1 <= j
        <5>1. j - 1 \in Named(m) /\ i <= j - 1 /\ j \in Int
          BY <1>3, <2>2, <4>1 DEF Named
        <5> QED
          BY <5>1
      <4> QED
        BY <2>2, <4>1, <4>2
    <3>5. BlockInv(m, h, i + 1)'
      <4>1. ~(i + 1 = 1)
        BY <1>3
      <4>2. h \in HeadersOf(m) /\ \A j \in HeadersOf(m) : j <= h
        BY <3>1 DEF BlockInv
      <4> QED
        BY <2>1, <3>2, <3>3, <3>4, <4>1, <4>2 DEF BlockInv
    <3>6. h \in 1..Len(file') /\ i + 1 \in 1..Len(sections')
      BY <1>2, <1>3
    <3> QED
      BY <3>5, <3>6 DEF NameInv
  <2> QED
    BY <1>2, <2>3, <2>4 DEF ConfInv, NameInv, Readable
<1> QED
  BY <1>1, <1>2, <1>3, <1>4, <1>5 DEF ConfInv, TypeOK, Readable

(* The setting goes to the head of the first section; its block is the     *)
(* last of the file.                                                       *)
LEMMA SettingKeeps ==
  ASSUME ConfInv, NEW k \in Keys, NEW v \in Values, ReadSetting(k, v)
  PROVE  ConfInv'
<1>1. Read(Setting(k, v)) /\ Setting(k, v) \in Lines
  BY LineKinds DEF ReadSetting
<1>2. /\ file' \in Seq(Lines) /\ Len(file') = Len(file) + 1 /\ Len(file) \in Nat
      /\ \A i \in 1..Len(file) : file'[i] = file[i]
      /\ file'[Len(file) + 1] = Setting(k, v)
      /\ status = "loading"
  BY <1>1, FileGrows DEF ConfInv
<1>3. CASE sections = <<>> /\ status' = "crashed" /\ UNCHANGED sections
  BY <1>2, <1>3 DEF ConfInv, TypeOK, Readable
<1>4. CASE /\ sections # <<>> /\ UNCHANGED status
           /\ sections' = [sections EXCEPT ![1].settings =
                             AddSetting(@, CreateKeyval(k, v))]
  <2> DEFINE kv == [key |-> k, val |-> v]
  <2>1. sections \in Seq(Sections) /\ 1 \in 1..Len(sections)
    BY <1>4 DEF ConfInv, TypeOK
  <2>2. /\ sections[1] \in Sections /\ sections[1].settings \in Seq(KeyVals)
        /\ sections[1].name \in Names /\ kv \in KeyVals
    <3>1. sections[1] \in Sections
      BY <2>1
    <3>2. kv \in KeyVals
      BY DEF KeyVals
    <3> QED
      BY <3>1, <3>2 DEF Sections
  <2>3. /\ sections' \in Seq(Sections) /\ Len(sections') = Len(sections)
        /\ sections'[1].name = sections[1].name
        /\ sections'[1].settings = <<kv>> \o sections[1].settings
        /\ \A i \in 2..Len(sections) : sections'[i] = sections[i]
        /\ DOMAIN sections = 1..Len(sections) /\ DOMAIN sections' = 1..Len(sections)
    <3>1. sections' = [sections EXCEPT ![1].settings = <<kv>> \o sections[1].settings]
      BY <1>4 DEF AddSetting, CreateKeyval
    <3>2. <<kv>> \o sections[1].settings \in Seq(KeyVals)
      BY <2>2
    <3>3. [sections[1] EXCEPT !.settings = <<kv>> \o sections[1].settings] \in Sections
      BY <2>2, <3>2 DEF Sections
    <3> QED
      BY <2>1, <2>2, <3>1, <3>2, <3>3 DEF Sections
  <2>4. \A n : Named(n)' = Named(n)
    BY <2>1, <2>3 DEF Named
  <2>5. \A n : HeadersOf(n)' = HeadersOf(n)
    BY <1>1, HeadersGrow, LineKinds DEF ConfInv
  <2>6. 1..Len(file) \subseteq 1..Len(file')
    BY <1>2
  <2>7. ASSUME NEW n \in Names, NEW h \in 1..Len(file), NEW i \in 1..Len(sections),
               BlockInv(n, h, i)
        PROVE  BlockInv(n, h, i)'
    <3>1. LastBlock(h)' <=> LastBlock(h)
      BY <1>1, BlocksGrow, LineKinds DEF ConfInv
    <3>2. LastBlock(h) <=> i = 1
      BY <2>7 DEF BlockInv
    <3>3. ASSUME NEW x \in Keys, i # 1 \/ x # k PROVE SettingsAfter(h, x)' = SettingsAfter(h, x)
      BY <1>1, <3>2, <3>3, BlocksGrow, LineKinds DEF ConfInv
    <3>4. \A x \in Keys : \A l \in SettingsAfter(h, x) : l \in 1..Len(file) /\ file'[l] = file[l]
      BY <1>2 DEF SettingsAfter
    <3>5. ASSUME NEW x \in Keys, i # 1 PROVE KeyInv(h, i, x)'
      <4>1. sections'[i] = sections[i]
        BY <2>1, <2>3, <3>5
      <4>2. Hits(i, x)' = Hits(i, x)
        BY <4>1 DEF Hits
      <4>3. KeyInv(h, i, x)
        BY <2>7 DEF BlockInv
      <4> QED
        BY <3>3, <3>4, <3>5, <4>1, <4>2, <4>3, KeyCarries
    <3>6. ASSUME i = 1 PROVE KeyInv(h, 1, k)'
      <4>1. SettingsAfter(h, k)' = SettingsAfter(h, k) \cup {Len(file) + 1}
        BY <1>1, <3>2, <3>6, BlocksGrow, LineKinds DEF ConfInv
      <4>2. 1 \in Hits(1, k)' /\ \A j \in Hits(1, k)' : 1 <= j
        BY <2>2, <2>3 DEF Hits
      <4>3. sections'[1].settings[1] = kv
        BY <2>2, <2>3
      <4>4. sections'[1].settings[1].val = file'[Len(file) + 1].val
        BY <1>2, <4>3, LineKinds
      <4>5. \A m \in SettingsAfter(h, k)' : m <= Len(file) + 1
        BY <1>2, <3>4, <4>1
      <4> QED
        BY <4>1, <4>2, <4>4, <4>5 DEF KeyInv
    <3>7. ASSUME i = 1, NEW x \in Keys, x # k PROVE KeyInv(h, 1, x)'
      <4>1. SettingsAfter(h, x)' = SettingsAfter(h, x)
        BY <3>3, <3>7
      <4>2. /\ \A j \in Hits(1, x) : j \in Nat /\ j + 1 \in Hits(1, x)'
                                    /\ sections'[1].settings[j + 1] = sections[1].settings[j]
            /\ \A j \in Hits(1, x)' : j \in Nat /\ j - 1 \in Hits(1, x)
        <5> DEFINE old == sections[1].settings
                   new == <<kv>> \o old
        <5>1. /\ Len(old) \in Nat /\ DOMAIN old = 1..Len(old)
              /\ DOMAIN new = 1..Len(old) + 1 /\ new[1] = kv
              /\ \A j \in 1..Len(old) : new[j + 1] = old[j]
              /\ \A j \in 2..Len(old) + 1 : new[j] = old[j - 1]
          BY <2>2, Prepended
        <5>2. kv.key # x
          BY <3>7
        <5>3. /\ Hits(1, x) = {j \in DOMAIN old : old[j].key = x}
              /\ Hits(1, x)' = {j \in DOMAIN new : new[j].key = x}
          BY <2>3 DEF Hits
        <5>4. ASSUME NEW j \in Hits(1, x)
              PROVE  j \in Nat /\ j + 1 \in Hits(1, x)' /\ new[j + 1] = old[j]
          <6> HIDE DEF new, old
          <6> QED
            BY <5>1, <5>3, <5>4
        <5>5. ASSUME NEW j \in Hits(1, x)'
              PROVE  j \in Nat /\ j - 1 \in Hits(1, x)
          <6> HIDE DEF new, old, kv
          <6>1. j \in 1..Len(old) + 1 /\ j # 1
            BY <5>1, <5>2, <5>3, <5>5
          <6>2. j - 1 \in 1..Len(old) /\ new[j] = old[j - 1]
            BY <5>1, <6>1
          <6> QED
            BY <5>1, <5>3, <5>5, <6>1, <6>2
        <5> QED
          BY <2>3, <5>4, <5>5
      <4>3. KeyInv(h, 1, x)
        BY <2>7, <3>7 DEF BlockInv
      <4>4. CASE SettingsAfter(h, x) = {} /\ Hits(1, x) = {}
        <5>1. Hits(1, x)' = {}
          BY <4>2, <4>4
        <5> QED
          BY <4>1, <4>4, <5>1 DEF KeyInv
      <4>5. ASSUME NEW l \in SettingsAfter(h, x), NEW j \in Hits(1, x),
                   \A m \in SettingsAfter(h, x) : m <= l,
                   \A m \in Hits(1, x) : j <= m,
                   sections[1].settings[j].val = file[l].val
            PROVE  KeyInv(h, 1, x)'
        <5>1. ASSUME NEW m \in Hits(1, x)' PROVE j + 1 <= m
          <6>1. j \in Nat /\ m \in Nat /\ j <= m - 1
            BY <4>2, <4>5
          <6> QED
            BY <6>1
        <5>2. /\ l \in SettingsAfter(h, x)' /\ j + 1 \in Hits(1, x)'
              /\ \A m \in SettingsAfter(h, x)' : m <= l
              /\ sections'[1].settings[j + 1].val = file'[l].val
          BY <3>4, <4>1, <4>2, <4>5
        <5> QED
          BY <5>1, <5>2 DEF KeyInv
      <4> QED
        BY <4>3, <4>4, <4>5 DEF KeyInv
    <3>8. \A x \in Keys : KeyInv(h, i, x)'
      BY <3>5, <3>6, <3>7
    <3> QED
      BY <2>4, <2>5, <2>7, <3>1, <3>8 DEF BlockInv
  <2>8. ASSUME NEW n \in Names PROVE NameInv(n)'
    <3>1. CASE HeadersOf(n) = {} /\ Named(n) = {}
      BY <2>4, <2>5, <3>1 DEF NameInv
    <3>2. CASE \E h \in 1..Len(file), i \in 1..Len(sections) : BlockInv(n, h, i)
      <4>1. PICK h \in 1..Len(file), i \in 1..Len(sections) : BlockInv(n, h, i)
        BY <3>2
      <4>2. BlockInv(n, h, i)' /\ h \in 1..Len(file') /\ i \in 1..Len(sections')
        BY <2>3, <2>6, <2>7, <4>1
      <4> QED
        BY <4>2 DEF NameInv
    <3> QED
      BY <1>2, <3>1, <3>2 DEF ConfInv, NameInv, Readable
  <2> QED
    BY <1>2, <1>4, <2>3, <2>8 DEF ConfInv, TypeOK, Readable
<1> QED
  BY <1>3, <1>4 DEF ReadSetting

LEMMA ConfKeeps ==
  ASSUME ConfInv, Next \/ Restart \/ Discard \/ UNCHANGED vars
  PROVE  ConfInv'
<1>1. CASE ReadBadLine
  <2>1. file' \in Seq(Lines)
    BY <1>1, LineKinds, FileGrows DEF ReadBadLine, ConfInv
  <2> QED
    BY <1>1, <2>1 DEF ReadBadLine, ConfInv, TypeOK, Readable
<1>2. CASE UNCHANGED vars \/ EndOfFile
  <2>1. UNCHANGED <<file, sections>> /\ (UNCHANGED status \/ EndOfFile)
    BY <1>2 DEF EndOfFile, vars
  <2>2. TypeOK' /\ (Readable' <=> Readable)
    BY <1>2, <2>1 DEF ConfInv, TypeOK, EndOfFile, Readable
  <2>3. \A n \in Names : NameInv(n)' <=> NameInv(n)
    BY <2>1 DEF NameInv, BlockInv, KeyInv, Named, Hits, LastBlock, HeadersOf,
                SettingsAfter
  <2> QED
    BY <2>1, <2>2, <2>3 DEF ConfInv
<1>3. CASE Restart \/ Discard
  <2>1. file' = <<>> /\ sections' = <<>>
    BY <1>3 DEF Restart, Discard
  <2>2. \A n : HeadersOf(n)' = {} /\ Named(n)' = {}
    BY <2>1 DEF HeadersOf, Named
  <2>3. TypeOK'
    BY <1>3, <2>1 DEF Restart, Discard, ConfInv, TypeOK
  <2> QED
    BY <2>1, <2>2, <2>3 DEF ConfInv, NameInv
<1> QED
  BY <1>1, <1>2, <1>3, SkipKeeps, HeaderKeeps, SettingKeeps DEF Next

-----------------------------------------------------------------------------
(* Lookups *)

LEMMA GetIs ==
  ASSUME NEW n, NEW k, NEW defval
  PROVE  ConffileGet(n, k, defval) =
           LET i == Min(Named(n))
               j == Min(Hits(i, k))
           IN IF Named(n) = {} \/ Hits(i, k) = {} THEN defval
              ELSE sections[i].settings[j].val
BY DEF ConffileGet, First, Named, Hits

LEMMA GetIsLast ==
  ASSUME ConfInv, Readable, NEW n \in Names, NEW k \in Keys
  PROVE  LET hits == SettingsAfter(Max(HeadersOf(n)), k) IN
         /\ ConffileGet(n, k, NULL) =
              IF HeadersOf(n) = {} THEN NULL
              ELSE IF hits = {} THEN NULL
              ELSE file[Max(hits)].val
         /\ ConffileGet(n, k, NULL) \in Values \cup {NULL}
<1>0. file \in Seq(Lines) /\ sections \in Seq(Sections)
  BY DEF ConfInv, TypeOK
<1>1. CASE HeadersOf(n) = {} /\ Named(n) = {}
  BY <1>1, GetIs
<1>2. CASE \E h \in 1..Len(file), i \in 1..Len(sections) : BlockInv(n, h, i)
  <2>1. PICK h \in 1..Len(file), i \in 1..Len(sections) : BlockInv(n, h, i)
    BY <1>2
  <2>2. HeadersOf(n) \in SUBSET Int /\ Named(n) \in SUBSET Int
    BY <1>0 DEF HeadersOf, Named
  <2>3. Max(HeadersOf(n)) = h /\ Min(Named(n)) = i
    <3>1. /\ h \in HeadersOf(n) /\ \A m \in HeadersOf(n) : m <= h
          /\ i \in Named(n) /\ \A m \in Named(n) : i <= m
      BY <2>1 DEF BlockInv
    <3> QED
      BY <2>2, <3>1, MaxIs, MinIs
  <2>4. HeadersOf(n) # {} /\ Named(n) # {} /\ KeyInv(h, i, k)
    BY <2>1 DEF BlockInv
  <2>5. CASE SettingsAfter(h, k) = {} /\ Hits(i, k) = {}
    BY <2>3, <2>4, <2>5, GetIs
  <2>6. ASSUME NEW l \in SettingsAfter(h, k), NEW j \in Hits(i, k),
               \A m \in SettingsAfter(h, k) : m <= l,
               \A m \in Hits(i, k) : j <= m,
               sections[i].settings[j].val = file[l].val
        PROVE  /\ SettingsAfter(h, k) # {}
               /\ ConffileGet(n, k, NULL) = file[Max(SettingsAfter(h, k))].val
               /\ ConffileGet(n, k, NULL) \in Values
    <3>1. /\ SettingsAfter(h, k) \in SUBSET Int
          /\ l \in 1..Len(file) /\ file[l].kind = "setting"
      BY <1>0, <2>6 DEF SettingsAfter
    <3>2. Hits(i, k) \in SUBSET Int
      <4>1. sections[i] \in Sections
        BY <1>0, <2>1
      <4>2. sections[i].settings \in Seq(KeyVals)
        BY <4>1 DEF Sections
      <4> QED
        BY <4>2 DEF Hits
    <3>3. Max(SettingsAfter(h, k)) = l
      BY <2>6, <3>1, MaxIs
    <3>4. Min(Hits(i, k)) = j
      BY <2>6, <3>2, MinIs
    <3>5. ConffileGet(n, k, NULL) = sections[i].settings[j].val
      BY <2>3, <2>4, <2>6, <3>4, GetIs
    <3>6. file[l] \in Lines /\ file[l].val \in Values
      BY <1>0, <3>1, LineKinds
    <3> QED
      BY <2>6, <3>3, <3>5, <3>6
  <2>7. CASE \E l \in SettingsAfter(h, k), j \in Hits(i, k) :
               /\ \A m \in SettingsAfter(h, k) : m <= l
               /\ \A m \in Hits(i, k) : j <= m
               /\ sections[i].settings[j].val = file[l].val
    BY <2>3, <2>4, <2>6, <2>7
  <2> QED
    BY <2>4, <2>5, <2>7 DEF KeyInv
<1> QED
  BY <1>1, <1>2 DEF ConfInv, NameInv

LEMMA GetIsValue ==
  ASSUME ConfInv, NEW n \in Names, NEW k \in Keys
  PROVE  ConffileGet(n, k, NULL) \in Values \cup {NULL}
<1>1. CASE Readable
  BY <1>1, GetIsLast
<1>2. CASE ~Readable
  <2>1. Named(n) = {}
    BY <1>2 DEF ConfInv, Named
  <2> QED
    BY <2>1, GetIs
<1> QED
  BY <1>1, <1>2

(* Whatever the widths, an int is converted to itself. *)
LEMMA ToIntKeeps ==
  ASSUME NEW v \in -IntMax - 1 .. IntMax
  PROVE  ToInt(v) = v
<1>1. \A n, m \in Nat : n < m => n % m = n
  OBVIOUS
<1>2. /\ v + IntMax + 1 \in Nat /\ 2 * (IntMax + 1) \in Nat
      /\ v + IntMax + 1 < 2 * (IntMax + 1) /\ v \in Int /\ IntMax \in Nat
  BY WidthAssumption
<1>3. (v + IntMax + 1) % (2 * (IntMax + 1)) = v + IntMax + 1
  BY <1>1, <1>2
<1> QED
  BY <1>2, <1>3 DEF ToInt

LEMMA LongIsWider == IntMax \in Nat /\ LongMax \in Nat /\ IntMax <= LongMax
<1>1. PICK w \in 1..8 : LongMax + 1 = w * (IntMax + 1)
  BY WidthAssumption
<1>2. IntMax \in Nat /\ LongMax \in Nat
  BY WidthAssumption
<1>3. w = 1 \/ w = 2 \/ w = 3 \/ w = 4 \/ w = 5 \/ w = 6 \/ w = 7 \/ w = 8
  BY <1>1
<1> QED
  BY <1>1, <1>2, <1>3

LEMMA IntLemma ==
  ASSUME ConfInv
  PROVE  IntOrDefault
<1> SUFFICES ASSUME NEW n \in Names, NEW k \in Keys,
                    NEW v, v = ConffileGet(n, k, NULL),
                    NEW r, r = ConffileGetInt(n, k, -1)
             PROVE  /\ r = -1 \/ r = v \/ v < -IntMax - 1
                    /\ v \in -IntMax - 1 .. IntMax => r = v
  BY DEF IntOrDefault
<1>1. v \in Values \cup {NULL}
  BY GetIsValue
<1>2. ToInt(-1) = -1
  <2>1. -1 \in -IntMax - 1 .. IntMax
    BY LongIsWider
  <2> QED
    BY <2>1, ToIntKeeps
<1>3. CASE v = NULL
  BY <1>2, <1>3, ValuesAssumption DEF ConffileGetInt
<1>4. CASE v # NULL /\ Rejected(v)
  <2>1. r = -1
    BY <1>2, <1>4 DEF ConffileGetInt
  <2>2. v \notin -IntMax - 1 .. IntMax
    BY <1>4, LongIsWider, ValuesAssumption DEF Rejected
  <2> QED
    BY <2>1, <2>2
<1>5. CASE v # NULL /\ ~Rejected(v)
  <2>1. v \in Int /\ v <= IntMax
    BY <1>1, <1>5, LongIsWider, ValuesAssumption DEF Rejected
  <2>2. r = ToInt(v)
    BY <1>5 DEF ConffileGetInt
  <2>3. CASE v \in -IntMax - 1 .. IntMax
    BY <2>2, <2>3, ToIntKeeps
  <2>4. CASE v < -IntMax - 1
    BY <2>1, <2>4, LongIsWider
  <2> QED
    BY <2>1, <2>3, <2>4, LongIsWider
<1> QED
  BY <1>3, <1>4, <1>5

-----------------------------------------------------------------------------
(* The sections of one conffile are allocated exactly while its load is    *)
(* under way, it is being looked at, or a board_config has it; a           *)
(* board_config that came from the directory says what the device tree     *)
(* says.                                                                   *)
Held == IF phase \in {"named", "file"} THEN Readable ELSE bc

HoldInv ==
  /\ phase # "crashed" => lists = IF Held THEN 1 ELSE 0
  /\ bc => phase = "out" /\ status = "loaded"
  /\ phase = "named" => tried = 0
  /\ phase \in {"named", "file"} => status # "crashed"
  /\ bc /\ tried > 0 =>
       probed # NULL /\ ConffileGet(BoardName, ModelKey, NULL) = probed

BoardInv ==
  /\ BoardTypeOK
  /\ ConfInv
  /\ HoldInv

LEMMA InitialBoard == BoardInit => BoardInv
<1> SUFFICES ASSUME BoardInit PROVE BoardInv
  OBVIOUS
<1>1. TypeOK
  BY DEF BoardInit, Init, TypeOK
<1>2. BoardTypeOK
  <2>1. 0 \in 0..MaxFiles /\ 0 \in 0..1
    BY BoardAssumption
  <2>2. phase = "out" /\ tried = 0 /\ bc \in BOOLEAN /\ probed = NULL /\ lists = 0
    BY DEF BoardInit
  <2> QED
    BY <1>1, <2>1, <2>2 DEF BoardTypeOK
<1>3. \A n \in Names : NameInv(n)
  BY DEF BoardInit, Init, NameInv, HeadersOf, Named
<1>4. HoldInv
  BY DEF BoardInit, Init, HoldInv, Held
<1> QED
  BY <1>1, <1>2, <1>3, <1>4 DEF BoardInv, ConfInv, BoardInit, Init, Readable

LEMMA GetKept ==
  ASSUME UNCHANGED vars
  PROVE  ConffileGet(BoardName, ModelKey, NULL)' = ConffileGet(BoardName, ModelKey, NULL)
BY DEF vars, ConffileGet

LEMMA BoardStep ==
  ASSUME BoardInv, [BoardNext]_boardVars
  PROVE  BoardInv'
<1>0. /\ TypeOK /\ phase \in {"out", "named", "probe", "file", "crashed"}
      /\ tried \in 0..MaxFiles /\ MaxFiles \in Nat
      /\ bc \in BOOLEAN /\ probed \in Values \cup {NULL} /\ lists \in 0..1
  BY BoardAssumption DEF BoardInv, BoardTypeOK
<1>1. ConfInv'
  <2>1. Next \/ Restart \/ Discard \/ UNCHANGED vars
    BY DEF BoardNext, LoadStep, InitNamed, BeginLoad, NamedLoaded, InitProbe, ProbeFile,
           FileFailed, ProbeConfig, MismatchFrees, FreeLists, EndOfDirectory, BoardFree,
           boardVars, vars
  <2> QED
    BY <2>1, ConfKeeps DEF BoardInv
<1>2. TypeOK'
  BY <1>1 DEF ConfInv
<1> USE <1>0, <1>1, <1>2 DEF BoardInv, BoardTypeOK, HoldInv, Held, Readable
<1>3. CASE LoadStep
  <2>1. status = "loading" /\ ~bc /\ ~bc'
    BY <1>3 DEF LoadStep, Next, SkipLine, ReadHeader, ReadSetting, ReadBadLine, Read,
                EndOfFile
  <2>2. status' \in {"loading", "loaded", "failed", "crashed"}
    BY <1>2 DEF TypeOK
  <2> QED
    BY <1>3, <2>1, <2>2 DEF LoadStep
<1>4. CASE InitNamed
  BY <1>4 DEF InitNamed, BeginLoad, Restart
<1>5. CASE NamedLoaded
  <2>1. /\ phase = "named" /\ phase' = "out" /\ tried = 0
        /\ UNCHANGED <<status, tried, probed, lists>>
    BY <1>5 DEF NamedLoaded, vars
  <2>2. CASE status = "loaded" /\ bc' = TRUE
    BY <2>1, <2>2
  <2>3. CASE status = "failed" /\ bc' = FALSE
    BY <2>1, <2>3
  <2> QED
    BY <1>5, <2>2, <2>3 DEF NamedLoaded
<1>6. CASE InitProbe
  BY <1>6 DEF InitProbe, vars
<1>7. CASE ProbeFile
  BY <1>7 DEF ProbeFile, BeginLoad, Restart
<1>8. CASE EndOfDirectory
  BY <1>8 DEF EndOfDirectory, vars
<1>9. CASE FileFailed
  BY <1>9 DEF FileFailed, vars
<1>10. CASE ProbeConfig
  <2> DEFINE model == ConffileGet(BoardName, ModelKey, NULL)
  <2>1. probed' \in Values \cup {NULL} /\ UNCHANGED tried /\ ~bc /\ lists = 1
    BY <1>10 DEF ProbeConfig
  <2>2. CASE /\ Matches(model, probed') /\ UNCHANGED <<vars, lists>>
             /\ \/ bc' = TRUE /\ phase' = "out"
                \/ phase' = "crashed" /\ UNCHANGED bc
    <3>1. probed' # NULL /\ model = probed' /\ model' = model
      BY <2>2, GetKept DEF Matches
    <3>2. status = "loaded" /\ status' = status
      BY <1>10, <2>2 DEF ProbeConfig, vars
    <3>3. BoardTypeOK'
      <4>1. bc' \in BOOLEAN /\ lists' \in 0..1 /\ phase' \in {"out", "crashed"}
        BY <2>2
      <4> QED
        BY <2>1, <4>1
    <3>4. CASE bc' = TRUE /\ phase' = "out"
      BY <2>1, <2>2, <3>1, <3>2, <3>3, <3>4
    <3>5. CASE phase' = "crashed" /\ UNCHANGED bc
      BY <2>1, <3>3, <3>5
    <3> QED
      BY <2>2, <3>4, <3>5
  <2>3. CASE MismatchFrees /\ phase' = "probe" /\ UNCHANGED bc
    BY <2>1, <2>3 DEF MismatchFrees, FreeLists, Discard
  <2> QED
    <3>1. \/ /\ Matches(model, probed')
             /\ \/ bc' = TRUE /\ phase' = "out"
                \/ "calloc" \in BoardFaults /\ phase' = "crashed" /\ UNCHANGED bc
             /\ UNCHANGED <<vars, lists>>
          \/ ~Matches(model, probed') /\ MismatchFrees /\ phase' = "probe" /\ UNCHANGED bc
      BY <1>10 DEF ProbeConfig
    <3>2. CASE Matches(model, probed')
      <4>1. /\ UNCHANGED <<vars, lists>>
            /\ \/ bc' = TRUE /\ phase' = "out"
               \/ phase' = "crashed" /\ UNCHANGED bc
        BY <3>1, <3>2
      <4> QED
        BY <2>2, <3>2, <4>1
    <3>3. CASE ~Matches(model, probed')
      BY <2>3, <3>1, <3>3
    <3> QED
      BY <3>2, <3>3
<1>11. CASE BoardFree
  <2>1. lists = 1
    BY <1>11 DEF BoardFree
  <2>2. bc' = FALSE /\ lists' = 0 /\ UNCHANGED <<phase, tried, probed, status>> /\ phase = "out"
    BY <1>11, <2>1 DEF BoardFree, FreeLists, Discard
  <2>3. BoardTypeOK'
    <3>1. bc' \in BOOLEAN
      BY <2>2
    <3>2. lists' \in 0..1
      BY <2>2
    <3> QED
      BY <2>2, <3>1, <3>2
  <2>4. HoldInv'
    BY <2>2
  <2> QED
    BY <2>3, <2>4
<1>12. CASE UNCHANGED boardVars
  BY <1>12, GetKept DEF boardVars, vars
<1> QED
  BY <1>3, <1>4, <1>5, <1>6, <1>7, <1>8, <1>9, <1>10, <1>11, <1>12 DEF BoardNext

LEMMA BoardIsInvariant == BoardSpec => []BoardInv
<1>1. BoardInit => BoardInv
  BY InitialBoard
<1>2. BoardInv /\ [BoardNext]_boardVars => BoardInv'
  BY BoardStep
<1> QED
  BY <1>1, <1>2, PTL DEF BoardSpec

-----------------------------------------------------------------------------
(* Type correctness of the board's and the load's state.                   *)
THEOREM TypeCorrect == BoardSpec => []BoardTypeOK
<1>1. BoardInv => BoardTypeOK
  BY DEF BoardInv
<1> QED
  BY <1>1, BoardIsInvariant, PTL

(* The newest-first lists, searched forwards, give what the last line of   *)
(* the last block says, for files of any length.                           *)
THEOREM LookupsAreLast == BoardSpec => []LookupIsLast
<1>1. BoardInv => LookupIsLast
  BY GetIsLast DEF BoardInv, LookupIsLast, Readable
<1> QED
  BY <1>1, BoardIsInvariant, PTL

(* Integers are the file's or the default, for any widths of an int and a  *)
(* long.                                                                   *)
THEOREM IntegersOrDefaults == BoardSpec => []IntOrDefault
<1>1. BoardInv => IntOrDefault
  BY IntLemma DEF BoardInv
<1> QED
  BY <1>1, BoardIsInvariant, PTL

(* No section or setting outlives the libsoc_board_init that loaded it but *)
(* those of the board_config's conffile, for directories of any size; the  *)
(* conffile structs, which the code never frees, are not counted.          *)
THEOREM ListsAreAccounted == BoardSpec => []ListsAccounted
<1>1. BoardInv => ListsAccounted
  BY DEF BoardInv, HoldInv, Held, ListsAccounted
<1> QED
  BY <1>1, BoardIsInvariant, PTL

(* A configuration found by probing names this board's model, last.        *)
THEOREM ProbedBoardsAreOurs == BoardSpec => []ProbedBoardIsOurs
<1>1. BoardInv => ProbedBoardIsOurs
  <2> SUFFICES ASSUME BoardInv, bc, tried > 0
               PROVE  ProbedBoardIsOurs
    BY DEF ProbedBoardIsOurs
  <2>1. /\ Readable /\ probed # NULL
        /\ ConffileGet(BoardName, ModelKey, NULL) = probed
    BY DEF BoardInv, HoldInv, Readable
  <2>2. ConfInv /\ BoardName \in Names /\ ModelKey \in Keys
    BY BoardAssumption DEF BoardInv
  <2> QED
    BY <2>1, <2>2, GetIsLast DEF ProbedBoardIsOurs
<1> QED
  BY <1>1, BoardIsInvariant, PTL

-----------------------------------------------------------------------------
(* The lists implement Dictionary.  What a lookup finds before and after a *)
(* line is what the lines say.                                             *)
Said(n, k) ==
  LET hits == SettingsAfter(Max(HeadersOf(n)), k) IN
  IF HeadersOf(n) = {} \/ hits = {} THEN NULL ELSE file[Max(hits)].val

LEMMA GetIsSaid ==
  ASSUME NEW n \in Names, NEW k \in Keys
  PROVE  /\ ConfInv /\ Readable => ConffileGet(n, k, NULL) = Said(n, k)
         /\ (ConfInv /\ Readable => ConffileGet(n, k, NULL) = Said(n, k))'
<1>1. ConfInv /\ Readable => ConffileGet(n, k, NULL) = Said(n, k)
  BY GetIsLast DEF Said
<1> QED
  BY <1>1, PTL

(* A block to which a line adds nothing says what it said.                 *)
LEMMA SaidCarries ==
  ASSUME ConfInv, Readable, NEW n \in Names, NEW k \in Keys,
         HeadersOf(n)' = HeadersOf(n),
         \A i \in 1..Len(file) : file'[i] = file[i],
         \A h \in 1..Len(file), i \in 1..Len(sections) :
           BlockInv(n, h, i) => SettingsAfter(h, k)' = SettingsAfter(h, k)
  PROVE  Said(n, k)' = Said(n, k)
<1>1. CASE HeadersOf(n) = {}
  BY <1>1 DEF Said
<1>2. CASE HeadersOf(n) # {}
  <2>1. PICK h \in 1..Len(file), i \in 1..Len(sections) : BlockInv(n, h, i)
    BY <1>2 DEF ConfInv, NameInv
  <2>2. Max(HeadersOf(n)) = h
    <3>1. HeadersOf(n) \in SUBSET Int /\ h \in HeadersOf(n)
      BY <2>1 DEF ConfInv, TypeOK, HeadersOf, BlockInv
    <3> QED
      BY <2>1, <3>1, MaxIs DEF BlockInv
  <2>3. SettingsAfter(h, k)' = SettingsAfter(h, k) /\ KeyInv(h, i, k)
    BY <2>1 DEF BlockInv
  <2>4. Said(n, k) = IF SettingsAfter(h, k) = {} THEN NULL
                     ELSE file[Max(SettingsAfter(h, k))].val
    BY <1>2, <2>2 DEF Said
  <2>5. Said(n, k)' = IF SettingsAfter(h, k)' = {} THEN NULL
                      ELSE file'[Max(SettingsAfter(h, k)')].val
    BY <1>2, <2>2 DEF Said
  <2>6. CASE SettingsAfter(h, k) = {}
    BY <2>3, <2>4, <2>5, <2>6
  <2>7. CASE SettingsAfter(h, k) # {}
    <3>1. PICK l \in SettingsAfter(h, k) : \A m \in SettingsAfter(h, k) : m <= l
      BY <2>3, <2>7 DEF KeyInv
    <3>2. SettingsAfter(h, k) \in SUBSET Int /\ l \in 1..Len(file)
      BY <2>1 DEF SettingsAfter, ConfInv, TypeOK
    <3>3. Max(SettingsAfter(h, k)) = l
      BY <3>1, <3>2, MaxIs
    <3> QED
      BY <2>3, <2>4, <2>5, <3>2, <3>3
  <2> QED
    BY <2>6, <2>7
<1> QED
  BY <1>1, <1>2

LEMMA HeaderForgets ==
  ASSUME ConfInv, NEW n \in Names, ReadHeader(n), NEW m \in Names, NEW k \in Keys
  PROVE  ConffileGet(m, k, NULL)' = IF m = n THEN NULL ELSE ConffileGet(m, k, NULL)
<1>1. Read(Header(n)) /\ Header(n) \in Lines /\ UNCHANGED status
  BY LineKinds DEF ReadHeader
<1>2. /\ file' \in Seq(Lines) /\ Len(file') = Len(file) + 1 /\ Len(file) \in Nat
      /\ \A i \in 1..Len(file) : file'[i] = file[i]
      /\ status = "loading"
  BY <1>1, FileGrows DEF ConfInv
<1>3. ConfInv' /\ Readable /\ Readable'
  BY <1>1, <1>2, HeaderKeeps DEF Readable
<1>4. CASE m = n
  <2>1. PICK h \in Nat : h = Len(file) + 1
    BY <1>2
  <2>2. HeadersOf(n)' = HeadersOf(n) \cup {h} /\ HeadersOf(n) \subseteq 1..Len(file)
    <3>1. HeadersOf(n) \subseteq DOMAIN file /\ DOMAIN file = 1..Len(file)
      BY DEF HeadersOf, ConfInv, TypeOK
    <3> QED
      BY <1>1, <2>1, <3>1, HeadersGrow, LineKinds DEF ConfInv
  <2>3. Max(HeadersOf(n)') = h
    <3>1. HeadersOf(n)' \in SUBSET Int /\ h \in HeadersOf(n)'
          /\ \A j \in HeadersOf(n)' : j <= h
      BY <1>2, <2>1, <2>2
    <3> QED
      BY <3>1, MaxIs
  <2>4. h + 1 .. Len(file') = {}
    BY <1>2, <2>1
  <2>5. SettingsAfter(h, k)' = {}
    BY <2>4 DEF SettingsAfter
  <2>6. Said(n, k)' = NULL
    BY <2>3, <2>5 DEF Said
  <2> QED
    BY <1>3, <1>4, <2>6, GetIsSaid
<1>5. CASE m # n
  <2>1. HeadersOf(m)' = HeadersOf(m)
    <3>1. Header(n).name # m
      BY <1>5, LineKinds
    <3> QED
      BY <1>1, <3>1, HeadersGrow DEF ConfInv
  <2>2. \A h \in 1..Len(file) : SettingsAfter(h, k)' = SettingsAfter(h, k)
    BY <1>1, BlocksGrow, LineKinds DEF ConfInv
  <2>3. Said(m, k)' = Said(m, k)
    BY <1>2, <1>3, <2>1, <2>2, SaidCarries
  <2> QED
    BY <1>3, <1>5, <2>3, GetIsSaid
<1> QED
  BY <1>4, <1>5

LEMMA SettingReplaces ==
  ASSUME ConfInv, NEW k \in Keys, NEW v \in Values, ReadSetting(k, v), sections # <<>>,
         NEW m \in Names, NEW l \in Keys
  PROVE  ConffileGet(m, l, NULL)' =
           IF m = sections[1].name /\ l = k THEN v ELSE ConffileGet(m, l, NULL)
<1>1. Read(Setting(k, v)) /\ Setting(k, v) \in Lines /\ UNCHANGED status
  BY LineKinds DEF ReadSetting
<1>2. /\ file' \in Seq(Lines) /\ Len(file') = Len(file) + 1 /\ Len(file) \in Nat
      /\ \A i \in 1..Len(file) : file'[i] = file[i]
      /\ file'[Len(file) + 1] = Setting(k, v)
      /\ status = "loading"
  BY <1>1, FileGrows DEF ConfInv
<1>3. ConfInv' /\ Readable /\ Readable'
  BY <1>1, <1>2, SettingKeeps DEF Readable
<1>4. HeadersOf(m)' = HeadersOf(m)
  BY <1>1, HeadersGrow, LineKinds DEF ConfInv
<1>5. sections \in Seq(Sections) /\ 1 \in Named(sections[1].name) /\ Len(sections) \in Nat
  BY DEF ConfInv, TypeOK, Named
<1>6. CASE m = sections[1].name /\ l = k
  <2>1. PICK h \in 1..Len(file), i \in 1..Len(sections) : BlockInv(m, h, i)
    BY <1>3, <1>5, <1>6 DEF ConfInv, NameInv
  <2>2. i <= 1
    BY <1>5, <1>6, <2>1 DEF BlockInv
  <2>3. LastBlock(h)
    BY <1>5, <2>1, <2>2 DEF BlockInv
  <2>4. PICK x \in Nat : x = Len(file) + 1
    BY <1>2
  <2>5. SettingsAfter(h, k)' = SettingsAfter(h, k) \cup {x}
    BY <1>1, <2>3, <2>4, BlocksGrow, LineKinds DEF ConfInv
  <2>6. Max(SettingsAfter(h, k)') = x
    <3>1. SettingsAfter(h, k) \subseteq 1..Len(file)
      BY <1>2 DEF SettingsAfter
    <3>2. SettingsAfter(h, k)' \in SUBSET Int /\ x \in SettingsAfter(h, k)'
          /\ \A j \in SettingsAfter(h, k)' : j <= x
      BY <1>2, <2>4, <2>5, <3>1
    <3> QED
      BY <3>2, MaxIs
  <2>7. Max(HeadersOf(m)') = h /\ HeadersOf(m)' # {}
    <3>1. /\ HeadersOf(m) \in SUBSET Int /\ h \in HeadersOf(m)
          /\ \A j \in HeadersOf(m) : j <= h
      BY <2>1 DEF ConfInv, TypeOK, HeadersOf, BlockInv
    <3> QED
      BY <1>4, <3>1, MaxIs
  <2>8. Said(m, k)' = file'[x].val
    BY <2>5, <2>6, <2>7 DEF Said
  <2>9. file'[x].val = v
    BY <1>2, <2>4, LineKinds
  <2> QED
    BY <1>3, <1>6, <2>8, <2>9, GetIsSaid
<1>7. CASE ~(m = sections[1].name /\ l = k)
  <2>1. ASSUME NEW h \in 1..Len(file), NEW i \in 1..Len(sections), BlockInv(m, h, i)
        PROVE  SettingsAfter(h, l)' = SettingsAfter(h, l)
    <3>1. CASE l # k
      BY <1>1, <3>1, BlocksGrow, LineKinds DEF ConfInv
    <3>2. CASE m # sections[1].name
      <4>1. i # 1 /\ ~LastBlock(h)
        BY <2>1, <3>2 DEF BlockInv, Named
      <4> QED
        BY <1>1, <4>1, BlocksGrow DEF ConfInv
    <3> QED
      BY <1>7, <3>1, <3>2
  <2>2. Said(m, l)' = Said(m, l)
    BY <1>2, <1>3, <1>4, <2>1, SaidCarries
  <2> QED
    BY <1>3, <1>7, <2>2, GetIsSaid
<1> QED
  BY <1>6, <1>7

(* A load without sections says nothing. *)
LEMMA NoSections ==
  /\ sections = <<>> => Stored!Blank
  /\ (sections = <<>> => Stored!Blank)'
<1>1. sections = <<>> => Stored!Blank
  <2> SUFFICES ASSUME sections = <<>> PROVE Stored!Blank
    OBVIOUS
  <2>1. \A n \in Names, k \in Keys : ConffileGet(n, k, NULL) = NULL
    BY DEF ConffileGet
  <2>2. Table = [n \in Names |-> [k \in Keys |-> NULL]]
    BY <2>1 DEF Table
  <2> QED
    BY <2>2 DEF Stored!Blank, Stored!Empty, Newest
<1> QED
  BY <1>1, PTL

LEMMA DictionaryStep ==
  ASSUME ConfInv, Next \/ Restart \/ Discard \/ UNCHANGED vars
  PROVE  [Stored!Next]_Stored!vars
<1> USE DEF Stored!Next, Stored!Read, Stored!vars
<1>1. CASE UNCHANGED <<file, sections>>
  <2>1. UNCHANGED <<Table, Newest>>
    BY <1>1 DEF Table, Newest, ConffileGet
  <2> QED
    BY <1>1, <2>1
<1>2. CASE Restart \/ Discard
  BY <1>2, NoSections DEF Restart, Discard, Stored!Forget
<1>3. CASE ReadBadLine
  <2>1. PICK line \in {BadHeader, BadSetting} : Read(line)
    BY <1>3 DEF ReadBadLine
  <2>2. line \in Lines /\ line.kind \in {"bad_header", "bad_setting"}
    BY LineKinds DEF BadHeader, BadSetting
  <2>3. file' = Append(file, line) /\ Stored!Reject(line)
    BY <1>3, <2>1, <2>2, NoSections DEF ReadBadLine, Read, Stored!Reject
  <2> QED
    BY <2>2, <2>3
<1>4. CASE SkipLine
  <2>1. UNCHANGED <<Table, Newest>>
    BY <1>4 DEF SkipLine, Table, Newest, ConffileGet
  <2>2. file' = Append(file, Skipped) /\ Skipped \in Lines /\ Skipped.kind = "skipped"
    BY <1>4, LineKinds DEF SkipLine, Read, Skipped
  <2> QED
    BY <2>1, <2>2 DEF Stored!Ignore
<1>5. ASSUME NEW n \in Names, ReadHeader(n) PROVE Stored!Next
  <2>1. /\ file' = Append(file, Header(n)) /\ Header(n) \in Lines
        /\ Header(n).kind = "header" /\ Header(n).name = n
    BY <1>5, LineKinds DEF ReadHeader, Read
  <2>2. Newest' = n
    BY <1>5 DEF ReadHeader, AddSection, Newest, ConfInv, TypeOK
  <2>3. Table' = [Table EXCEPT ![n] = Stored!Empty]
    <3>1. \A m \in Names, k \in Keys :
            ConffileGet(m, k, NULL)' = IF m = n THEN NULL ELSE ConffileGet(m, k, NULL)
      BY <1>5, HeaderForgets
    <3>2. Table' = [m \in Names |-> [k \in Keys |->
                      IF m = n THEN NULL ELSE ConffileGet(m, k, NULL)]]
      BY <3>1 DEF Table
    <3> QED
      BY <3>2 DEF Table, Stored!Empty
  <2>4. Stored!OpenSection(Header(n))
    BY <2>1, <2>2, <2>3 DEF Stored!OpenSection
  <2> QED
    BY <2>1, <2>4
<1>6. ASSUME NEW k \in Keys, NEW v \in Values, ReadSetting(k, v) PROVE Stored!Next
  <2>1. /\ file' = Append(file, Setting(k, v)) /\ Setting(k, v) \in Lines
        /\ Setting(k, v).kind = "setting"
        /\ Setting(k, v).key = k /\ Setting(k, v).val = v
    BY <1>6, LineKinds DEF ReadSetting, Read
  <2>2. CASE sections = <<>>
    <3>1. sections' = <<>>
      BY <1>6, <2>2 DEF ReadSetting
    <3>2. Newest = NULL /\ UNCHANGED <<Table, Newest>>
      BY <2>2, <3>1 DEF Table, Newest, ConffileGet
    <3> QED
      BY <2>1, <3>2 DEF Stored!Ignore
  <2>3. CASE sections # <<>>
    <3>1. /\ sections \in Seq(Sections) /\ 1 \in 1..Len(sections)
          /\ sections[1] \in Sections /\ sections[1].name \in Names
      <4>1. sections \in Seq(Sections) /\ 1 \in 1..Len(sections)
        BY <2>3 DEF ConfInv, TypeOK
      <4>2. sections[1] \in Sections
        BY <4>1
      <4> QED
        BY <4>1, <4>2 DEF Sections
    <3>2. sections' = [sections EXCEPT ![1].settings = AddSetting(@, CreateKeyval(k, v))]
      BY <1>6, <2>3 DEF ReadSetting
    <3>3. Len(sections') = Len(sections) /\ sections'[1].name = sections[1].name
      BY <3>1, <3>2 DEF Sections
    <3>4. Newest = sections[1].name /\ Newest # NULL /\ Newest' = Newest
      BY <2>3, <3>1, <3>2, <3>3, NamesAssumption DEF Newest
    <3>5. \A m \in Names, l \in Keys :
            ConffileGet(m, l, NULL)' =
              IF m = Newest /\ l = k THEN v ELSE ConffileGet(m, l, NULL)
      BY <1>6, <2>3, <3>4, SettingReplaces
    <3>6. Table' = [m \in Names |-> [l \in Keys |->
                      IF m = Newest /\ l = k THEN v ELSE ConffileGet(m, l, NULL)]]
      BY <3>5 DEF Table
    <3>7. PICK n \in Names : n = Newest
      BY <3>1, <3>4
    <3>8. Table' = [Table EXCEPT ![n][k] = v]
      BY <3>6, <3>7 DEF Table
    <3> QED
      BY <2>1, <3>4, <3>7, <3>8 DEF Stored!Set
  <2> QED
    BY <2>2, <2>3
<1>7. CASE EndOfFile
  BY <1>1, <1>7 DEF EndOfFile
<1>8. CASE UNCHANGED vars
  BY <1>1, <1>8 DEF vars
<1> QED
  BY <1>2, <1>3, <1>4, <1>5, <1>6, <1>7, <1>8 DEF Next

(* The two newest-first lists implement a dictionary: whatever the file, a *)
(* line changes what lookups find only for what it names.                  *)
THEOREM Refinement == BoardSpec => ListsAreDictionary
<1>1. BoardInit => Stored!Init
  BY NoSections DEF BoardInit, Init, Stored!Init
<1>2. ConfInv /\ [BoardNext]_boardVars => [Stored!Next]_Stored!vars
  <2> SUFFICES ASSUME ConfInv, [BoardNext]_boardVars PROVE [Stored!Next]_Stored!vars
    OBVIOUS
  <2>1. Next \/ Restart \/ Discard \/ UNCHANGED vars
    BY DEF BoardNext, LoadStep, InitNamed, BeginLoad, NamedLoaded, InitProbe, ProbeFile,
           FileFailed, ProbeConfig, MismatchFrees, FreeLists, EndOfDirectory, BoardFree,
           boardVars, vars
  <2> QED
    BY <2>1, DictionaryStep
<1>3. BoardInv => ConfInv
  BY DEF BoardInv
<1> QED
  BY <1>1, <1>2, <1>3, BoardIsInvariant, PTL
     DEF BoardSpec, ListsAreDictionary, Stored!Spec
=============================================================================
