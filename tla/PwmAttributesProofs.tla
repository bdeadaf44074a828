------------------------ MODULE PwmAttributesProofs ------------------------
(***************************************************************************)
(* Proofs about PwmAttributes for any threads, calls, values, width of int *)
(* and Faults.                                                             *)
(***************************************************************************)
EXTENDS PwmAttributes, TLAPS

Ints == -IntMax - 1 .. IntMax

(* What the kernel lets enable and polarity be: without it a number that   *)
(* is returned for one need not fit an int.                                *)
Switches == attr["enable"] \in {0, 1} /\ attr["polarity"] \in {0, 1}

(* The system call that a thread makes next goes with its call.            *)
Placed ==
  \A t \in Threads :
    /\ pc[t] = "path" => ByPath(call[t])
    /\ pc[t] \in {"seek", "read"} => call[t].op = "get" /\ call[t].of # "polarity"
    /\ pc[t] = "write" => call[t].op = "set" /\ call[t].of \in {"period", "duty_cycle"}

LEMMA CallTypes ==
  ASSUME NEW c \in Calls
  PROVE  /\ c.op \in {"get", "set"} /\ c.of \in Attributes /\ c.val \in 0..UintMax
         /\ c.op = "set" /\ c.of \in {"enable", "polarity"} => c.val \in {0, 1, 2}
BY IntAssumption DEF Calls, Getters, Setters, Attributes, UintMax

(* Numbers: what is printed and accepted is the argument; what is parsed   *)
(* is an int, and the number if an int can hold it.                        *)
LEMMA PrintedIsSame ==
  ASSUME NEW u \in 0..UintMax, Printed(u) \in 0..UintMax
  PROVE  Printed(u) = u
BY IntAssumption DEF Printed, UintMax

LEMMA ParsedIsInt ==
  ASSUME NEW u \in 0..UintMax, NEW n \in Parsed(u)
  PROVE  /\ n \in Ints
         /\ u <= IntMax => n = u
         /\ u > IntMax => n < 0 \/ n = IntMax
BY IntAssumption DEF Parsed, UintMax, Ints

LEMMA ReturnTypes ==
  ASSUME TypeOK, NEW t \in Threads, NEW r \in Ints, Return(t, r)
  PROVE  /\ call' \in [Threads -> Calls]
         /\ pc' \in [Threads -> {"idle", "path", "seek", "read", "write"}]
         /\ result' \in [Threads -> Ints]
         /\ pc'[t] = "idle" /\ result'[t] = r
         /\ \A u \in Threads \ {t} : pc'[u] = pc[u] /\ result'[u] = result[u]
BY DEF TypeOK, Return, Ints

LEMMA AssignTypes ==
  ASSUME TypeOK, Switches, NEW a \in Attributes, NEW v, Accepts(a, v), NEW T, Assign(a, v, T)
  PROVE  /\ attr' \in [Attributes -> 0..UintMax]
         /\ seen' \in [Threads -> SUBSET (0..UintMax)]
         /\ Switches'
BY DEF TypeOK, Switches, Accepts, Assign, Attributes

LEMMA ExcuseTypes ==
  ASSUME TypeOK, NEW T, NEW A, Excuse(T, A)
  PROVE  seen' \in [Threads -> SUBSET (0..UintMax)]
BY DEF TypeOK, Excuse

LEMMA IntConstants == {EXIT_SUCCESS, EXIT_FAILURE, Error, 0, 1} \subseteq Ints
BY IntAssumption DEF EXIT_SUCCESS, EXIT_FAILURE, Error, Ints

LEMMA TypeStep ==
  ASSUME TypeOK, Switches, [Next]_vars
  PROVE  TypeOK' /\ Switches'
<1> USE DEF TypeOK
<1>1. ASSUME NEW t \in Threads, NEW c \in CallsOf[t], Begin(t, c)
      PROVE  TypeOK' /\ Switches'
  <2>1. c \in Calls /\ c.of \in Attributes
    BY CallsAssumption, CallTypes
  <2> QED
    BY <1>1, <2>1, IntAssumption DEF Begin, Switches
<1>2. ASSUME NEW t \in Threads, SetByPath(t) PROVE TypeOK' /\ Switches'
  <2>1. call[t].of \in Attributes
    BY CallTypes
  <2>2. Return(t, EXIT_FAILURE) \/ Return(t, EXIT_SUCCESS)
    BY <1>2 DEF SetByPath
  <2>3. CASE UNCHANGED <<attr, seen>>
    BY <1>2, <2>2, <2>3, ReturnTypes, IntConstants DEF SetByPath, Switches, Ints
  <2>4. CASE Accepts(call[t].of, call[t].val) /\ Assign(call[t].of, call[t].val, {})
    BY <1>2, <2>1, <2>2, <2>4, ReturnTypes, AssignTypes, IntConstants DEF SetByPath, Ints
  <2> QED
    BY <1>2, <2>3, <2>4 DEF SetByPath
<1>3. ASSUME NEW t \in Threads, GetPolarity(t) PROVE TypeOK' /\ Switches'
  <2>1. Return(t, Error) \/ Return(t, attr["polarity"])
    BY <1>3 DEF GetPolarity
  <2>2. attr["polarity"] \in Ints
    BY IntConstants DEF Switches
  <2>3. seen' \in [Threads -> SUBSET (0..UintMax)]
    BY <1>3, ExcuseTypes DEF GetPolarity
  <2> QED
    BY <1>3, <2>1, <2>2, <2>3, ReturnTypes, IntConstants DEF GetPolarity, Switches, Ints
<1>4. ASSUME NEW t \in Threads, Write(t) PROVE TypeOK' /\ Switches'
  <2> DEFINE a == call[t].of
             v == Printed(call[t].val)
  <2>1. a \in Attributes
    BY CallTypes
  <2>2. Return(t, EXIT_FAILURE) \/ Return(t, EXIT_SUCCESS)
    BY <1>4 DEF Write
  <2>3. CASE UNCHANGED <<attr, atStart, seen>>
    BY <1>4, <2>2, <2>3, ReturnTypes, IntConstants DEF Write, Switches, Ints
  <2>4. CASE Accepts(a, v) /\ Assign(a, v, Threads \ {t}) /\ atStart' = atStart \ {a}
    BY <1>4, <2>1, <2>2, <2>4, ReturnTypes, AssignTypes, IntConstants DEF Write, Ints
  <2> QED
    BY <1>4, <2>3, <2>4 DEF Write
<1>5. ASSUME NEW t \in Threads, Seek(t) PROVE TypeOK' /\ Switches'
  BY <1>5, CallTypes DEF Seek, Rewound, Switches
<1>6. ASSUME NEW t \in Threads, Read(t) PROVE TypeOK' /\ Switches'
  <2> DEFINE a == call[t].of
  <2>1. a \in Attributes /\ attr[a] \in 0..UintMax
    BY CallTypes
  <2>2. PICK n \in Ints : Return(t, Error) \/ Return(t, Returned(a, n))
    BY <1>6, <2>1, ParsedIsInt, IntConstants DEF Read, Ints
  <2>3. Returned(a, n) \in Ints
    BY IntConstants DEF Returned
  <2>4. seen' \in [Threads -> SUBSET (0..UintMax)]
    BY <1>6, ExcuseTypes DEF Read
  <2>5. atStart' \subseteq Attributes
    BY <1>6 DEF Read
  <2> QED
    BY <1>6, <2>2, <2>3, <2>4, <2>5, ReturnTypes, IntConstants DEF Read, Switches, Ints
<1>7. ASSUME NEW a \in Attributes, NEW v \in Values, OtherSets(a, v)
      PROVE  TypeOK' /\ Switches'
  BY <1>7, AssignTypes DEF OtherSets
<1>8. CASE OtherUnexports
  BY <1>8, ExcuseTypes DEF OtherUnexports, Switches
<1>9. CASE OtherExports
  BY <1>9 DEF OtherExports, Switches
<1>10. CASE UNCHANGED vars
  BY <1>10 DEF vars, Switches
<1> QED
  BY <1>1, <1>2, <1>3, <1>4, <1>5, <1>6, <1>7, <1>8, <1>9, <1>10 DEF Next, Step

(* Type correctness: what is returned is an int, whatever the attributes.  *)
THEOREM TypeCorrect == Spec => [](TypeOK /\ Switches)
<1>1. Init => TypeOK /\ Switches
  <2>1. [op |-> "get", of |-> "period", val |-> 0] \in Calls
    BY DEF Calls, Getters, Attributes
  <2> QED
    BY <2>1, IntAssumption DEF Init, TypeOK, Switches, Attributes, UintMax
<1>2. TypeOK /\ Switches /\ [Next]_vars => TypeOK' /\ Switches'
  BY TypeStep
<1> QED
  BY <1>1, <1>2, PTL DEF Spec

-----------------------------------------------------------------------------
LEMMA PlacedStep ==
  ASSUME TypeOK, Placed, [Next]_vars
  PROVE  Placed'
<1> USE DEF TypeOK, Placed
<1>1. ASSUME NEW t \in Threads, NEW c \in CallsOf[t], Begin(t, c) PROVE Placed'
  <2>1. c \in Calls
    BY CallsAssumption
  <2>2. /\ c.op \in {"get", "set"} /\ c.of \in Attributes
    BY <2>1, CallTypes
  <2> QED
    BY <1>1, <2>2 DEF Begin, ByPath, Attributes
<1>2. ASSUME NEW t \in Threads, Step(t) PROVE Placed'
  <2>1. CASE Seek(t)
    BY <2>1 DEF Seek
  <2>2. CASE SetByPath(t) \/ GetPolarity(t) \/ Write(t) \/ Read(t)
    <3>1. PICK r : Return(t, r)
      BY <2>2 DEF SetByPath, GetPolarity, Write, Read
    <3> QED
      BY <3>1 DEF Return
  <2> QED
    BY <1>2, <2>1, <2>2 DEF Step
<1>3. CASE UNCHANGED <<call, pc>>
  BY <1>3
<1> QED
  BY <1>1, <1>2, <1>3 DEF Next, OtherSets, OtherUnexports, OtherExports, vars

(* A result that the number v of an attribute may give.                    *)
Reads(r, v) == r = v \/ (v > IntMax /\ (r < 0 \/ r = IntMax))

(* What makes GetIsTrue inductive: a getter that is not excused has seen   *)
(* what the attribute is now, its file is not cut off, and it reads from   *)
(* the start.                                                              *)
GetterInv(t) ==
  call[t].op = "get" /\ seen[t] # {} =>
    /\ pc[t] = "idle" => \E v \in seen[t] : Reads(result[t], v)
    /\ pc[t] # "idle" => attr[call[t].of] \in seen[t]
    /\ pc[t] \in {"seek", "read"} => attached
    /\ pc[t] = "read" => call[t].of \in atStart

GetInv == \A t \in Threads : GetterInv(t)

Stays(u) == call'[u] = call[u] /\ pc'[u] = pc[u] /\ result'[u] = result[u]

(* An attribute that is given a value keeps the invariant of a getter that *)
(* goes on with its call.                                                  *)
LEMMA AssignKeeps ==
  ASSUME TypeOK, GetInv, NEW u \in Threads, Stays(u), attached' = attached,
         NEW a \in Attributes, NEW v, NEW T, Assign(a, v, T),
         atStart' = atStart \/ (atStart' = atStart \ {a} /\ u \in T)
  PROVE  GetterInv(u)'
<1>1. call[u].of \in Attributes
  BY CallTypes DEF TypeOK
<1>2. CASE InCall(u, "get", {a})
  <2>1. pc[u] # "idle" /\ call[u].of = a /\ attr'[a] = v
    BY <1>2 DEF InCall, Assign, TypeOK
  <2>2. seen'[u] # {} => u \notin T /\ seen[u] # {} /\ seen'[u] = seen[u] \cup {v}
    BY <1>2 DEF Assign, InCall, TypeOK
  <2> QED
    BY <2>1, <2>2 DEF GetInv, GetterInv, Stays
<1>3. CASE ~InCall(u, "get", {a})
  <2>1. call[u].op = "get" => seen'[u] = seen[u]
    BY <1>3 DEF Assign, InCall, TypeOK
  <2>2. call[u].op = "get" /\ pc[u] # "idle" =>
          call[u].of # a /\ attr'[call[u].of] = attr[call[u].of]
    BY <1>1, <1>3 DEF InCall, Assign, TypeOK
  <2> QED
    BY <2>1, <2>2 DEF GetInv, GetterInv, Stays
<1> QED
  BY <1>2, <1>3

(* So does a step that excuses the getters whose files it disturbs.        *)
LEMMA ExcuseKeeps ==
  ASSUME TypeOK, GetInv, NEW u \in Threads, Stays(u), attr' = attr,
         NEW T, NEW A, Excuse(T, A),
         \/ u \in T /\ InCall(u, "get", A)
         \/ /\ pc[u] \in {"seek", "read"} => attached' = attached
            /\ pc[u] = "read" /\ call[u].of \in atStart => call[u].of \in atStart'
  PROVE  GetterInv(u)'
<1>1. CASE u \in T /\ InCall(u, "get", A)
  BY <1>1 DEF Excuse, TypeOK, GetterInv
<1>2. CASE ~(u \in T /\ InCall(u, "get", A))
  <2>1. seen'[u] = seen[u]
    BY <1>2 DEF Excuse, TypeOK
  <2> QED
    BY <1>2, <2>1 DEF GetInv, GetterInv, Stays
<1> QED
  BY <1>1, <1>2

LEMMA GetStep ==
  ASSUME TypeOK, Switches, Placed, GetInv, [Next]_vars
  PROVE  GetInv'
<1> SUFFICES ASSUME NEW u \in Threads PROVE GetterInv(u)'
  BY DEF GetInv
<1>0. /\ GetterInv(u)
      /\ call[u].of \in Attributes /\ call[u].op \in {"get", "set"}
  BY CallTypes DEF TypeOK, GetInv
<1>1. ASSUME NEW t \in Threads, NEW c \in CallsOf[t], Begin(t, c)
      PROVE  GetterInv(u)'
  <2>1. CASE u = t
    <3>1. call'[t] = c /\ attr' = attr /\ attached' = attached
      BY <1>1 DEF Begin, TypeOK
    <3>2. pc'[t] = (IF ByPath(c) THEN "path" ELSE IF c.op = "get" THEN "seek" ELSE "write")
      BY <1>1 DEF Begin, TypeOK
    <3>3. seen'[t] = (IF c.op = "get" /\ (attached \/ ByPath(c)) THEN {attr[c.of]} ELSE {})
      BY <1>1 DEF Begin, TypeOK
    <3> QED
      BY <2>1, <3>1, <3>2, <3>3 DEF GetterInv
  <2>2. CASE u # t
    BY <1>0, <1>1, <2>2 DEF Begin, TypeOK, GetterInv
  <2> QED
    BY <2>1, <2>2
<1>2. ASSUME NEW t \in Threads, SetByPath(t) PROVE GetterInv(u)'
  <2>1. u # t => Stays(u)
    BY <1>2 DEF SetByPath, Return, Stays, TypeOK
  <2>2. u = t => call'[u].op # "get"
    BY <1>2 DEF SetByPath, Return
  <2>3. CASE UNCHANGED <<attr, seen>>
    BY <1>0, <1>2, <2>1, <2>2, <2>3 DEF SetByPath, GetterInv, Stays
  <2>4. CASE Assign(call[t].of, call[t].val, {})
    <3>1. call[t].of \in Attributes
      BY CallTypes DEF TypeOK
    <3> QED
      BY <1>2, <2>1, <2>2, <2>4, <3>1, AssignKeeps DEF SetByPath, GetterInv
  <2> QED
    BY <1>2, <2>3, <2>4 DEF SetByPath
<1>3. ASSUME NEW t \in Threads, GetPolarity(t) PROVE GetterInv(u)'
  <2>1. CASE u # t
    <3>1. Stays(u)
      BY <1>3, <2>1 DEF GetPolarity, Return, Stays, TypeOK
    <3>2. seen'[u] = seen[u]
      BY <1>3, <2>1 DEF GetPolarity, Excuse, TypeOK
    <3> QED
      BY <1>0, <1>3, <3>1, <3>2 DEF GetPolarity, GetterInv, Stays
  <2>2. CASE u = t /\ Excuse({t}, Attributes)
    BY <1>0, <1>3, <2>2 DEF GetPolarity, Excuse, InCall, GetterInv, Return, TypeOK
  <2>3. CASE u = t /\ Return(t, attr["polarity"]) /\ UNCHANGED seen
    <3>1. call[t].of = "polarity" /\ pc[t] = "path" /\ call[t].op = "get"
      BY <1>3 DEF GetPolarity, Placed, ByPath
    <3>2. pc'[t] = "idle" /\ result'[t] = attr["polarity"] /\ call' = call
      BY <2>3 DEF Return, TypeOK
    <3> QED
      BY <1>0, <2>3, <3>1, <3>2 DEF GetterInv, Reads
  <2> QED
    BY <1>3, <2>1, <2>2, <2>3 DEF GetPolarity
<1>4. ASSUME NEW t \in Threads, Write(t) PROVE GetterInv(u)'
  <2> DEFINE a == call[t].of
             v == Printed(call[t].val)
  <2>1. u # t => Stays(u)
    BY <1>4 DEF Write, Return, Stays, TypeOK
  <2>2. u = t => call'[u].op # "get"
    BY <1>4 DEF Write, Return, Placed
  <2>3. CASE UNCHANGED <<attr, atStart, seen>>
    BY <1>0, <1>4, <2>1, <2>2, <2>3 DEF Write, GetterInv, Stays
  <2>4. CASE Assign(a, v, Threads \ {t}) /\ atStart' = atStart \ {a}
    <3>1. a \in Attributes
      BY CallTypes DEF TypeOK
    <3>2. CASE u # t
      BY <1>4, <2>1, <2>4, <3>1, <3>2, AssignKeeps DEF Write
    <3> QED
      BY <2>2, <3>2 DEF GetterInv
  <2> QED
    BY <1>4, <2>3, <2>4 DEF Write
<1>5. ASSUME NEW t \in Threads, Seek(t) PROVE GetterInv(u)'
  <2>1. call'[u] = call[u] /\ result'[u] = result[u] /\ seen'[u] = seen[u]
        /\ attr' = attr /\ attached' = attached
    BY <1>5 DEF Seek
  <2>2. atStart' = atStart \cup {call[t].of}
    BY <1>5 DEF Seek, Rewound
  <2>3. pc'[u] = IF u = t THEN "read" ELSE pc[u]
    BY <1>5 DEF Seek, TypeOK
  <2>4. pc[t] = "seek"
    BY <1>5 DEF Seek
  <2> QED
    BY <1>0, <2>1, <2>2, <2>3, <2>4 DEF GetterInv
<1>6. ASSUME NEW t \in Threads, Read(t) PROVE GetterInv(u)'
  <2> DEFINE a == call[t].of
  <2>0. call[t].op = "get" /\ a # "polarity" /\ pc[t] = "read" /\ a \in Attributes
    BY <1>6, CallTypes DEF Read, Placed, TypeOK
  <2>1. CASE Return(t, Error) /\ Excuse({t}, {a}) /\ UNCHANGED atStart
    <3>1. CASE u = t
      BY <2>0, <2>1, <3>1 DEF Excuse, InCall, Return, GetterInv, TypeOK
    <3>2. CASE u # t
      <4>1. Stays(u)
        BY <2>1, <3>2 DEF Return, Stays, TypeOK
      <4> QED
        BY <1>6, <2>1, <4>1, ExcuseKeeps DEF Read
    <3> QED
      BY <3>1, <3>2
  <2>2. ASSUME NEW n \in IF a \in atStart THEN Parsed(attr[a]) ELSE -IntMax - 1 .. IntMax,
               Return(t, Returned(a, n)), atStart' = atStart \ {a}, Excuse(Threads \ {t}, {a})
        PROVE  GetterInv(u)'
    <3>1. CASE u = t
      <4>1. seen'[t] = seen[t] /\ call' = call /\ pc'[t] = "idle" /\ result'[t] = Returned(a, n)
        BY <2>2 DEF Excuse, Return, TypeOK
      <4>2. CASE seen[t] # {}
        <5>1. attr[a] \in seen[t] /\ a \in atStart
          BY <1>0, <2>0, <3>1, <4>2 DEF GetterInv
        <5>2. attr[a] \in 0..UintMax /\ n \in Parsed(attr[a])
          BY <2>0, <2>2, <5>1 DEF TypeOK
        <5>3. a = "enable" => n = attr[a] /\ n \in {0, 1}
          BY <5>2, IntAssumption, ParsedIsInt DEF Switches
        <5>4. Returned(a, n) = n
          BY <5>3 DEF Returned
        <5>5. Reads(n, attr[a])
          BY <5>2, ParsedIsInt, IntAssumption DEF Reads, UintMax
        <5> QED
          BY <3>1, <4>1, <5>1, <5>4, <5>5 DEF GetterInv
      <4> QED
        BY <3>1, <4>1, <4>2 DEF GetterInv
    <3>2. CASE u # t
      <4>1. Stays(u)
        BY <2>2, <3>2 DEF Return, Stays, TypeOK
      <4>2. CASE InCall(u, "get", {a})
        BY <1>6, <2>2, <3>2, <4>1, <4>2, ExcuseKeeps DEF Read
      <4>3. CASE ~InCall(u, "get", {a})
        <5>1. pc[u] = "read" => call[u].of # a
          BY <4>3 DEF InCall, Placed
        <5> QED
          BY <1>6, <2>2, <4>1, <5>1, ExcuseKeeps DEF Read
      <4> QED
        BY <4>2, <4>3
    <3> QED
      BY <3>1, <3>2
  <2> QED
    BY <1>6, <2>1, <2>2 DEF Read
<1>7. ASSUME NEW a \in Attributes, NEW v \in Values, OtherSets(a, v) PROVE GetterInv(u)'
  BY <1>7, AssignKeeps DEF OtherSets, Stays
<1>8. CASE OtherUnexports
  <2>1. Stays(u) /\ attr' = attr /\ atStart' = atStart
    BY <1>8 DEF OtherUnexports, Stays
  <2>2. pc[u] \in {"seek", "read"} => InCall(u, "get", Attributes \ {"polarity"})
    BY <1>0 DEF Placed, InCall
  <2> QED
    BY <1>8, <2>1, <2>2, ExcuseKeeps DEF OtherUnexports
<1>9. CASE OtherExports \/ UNCHANGED vars
  BY <1>0, <1>9 DEF OtherExports, vars, GetterInv
<1> QED
  BY <1>1, <1>2, <1>3, <1>4, <1>5, <1>6, <1>7, <1>8, <1>9 DEF Next, Step

LEMMA PlacedAlways == Spec => [](TypeOK /\ Switches /\ Placed)
<1>1. Init => Placed
  BY DEF Init, Placed
<1>2. TypeOK /\ Placed /\ [Next]_vars => Placed'
  BY PlacedStep
<1> QED
  BY <1>1, <1>2, TypeCorrect, PTL DEF Spec

(* A getter that nothing excuses returns a value that the attribute had.   *)
THEOREM GettersAreTrue == Spec => []GetIsTrue
<1>1. Init => GetInv
  BY DEF Init, GetInv, GetterInv, Reads
<1>2. TypeOK /\ Switches /\ Placed /\ GetInv /\ [Next]_vars => GetInv'
  BY GetStep
<1>3. GetInv => GetIsTrue
  BY DEF GetInv, GetterInv, GetIsTrue, Reads
<1> QED
  BY <1>1, <1>2, <1>3, PlacedAlways, PTL DEF Spec

-----------------------------------------------------------------------------
LEMMA SetStep ==
  ASSUME TypeOK, Placed, SetTakesEffect, [Next]_vars
  PROVE  SetTakesEffect'
<1> SUFFICES ASSUME NEW u \in Threads, pc'[u] = "idle", call'[u].op = "set",
                    result'[u] = EXIT_SUCCESS
             PROVE  call'[u].val \in seen'[u]
  BY DEF SetTakesEffect
<1>1. CASE pc[u] = "idle" /\ Stays(u)
  <2>1. call[u].val \in seen[u] /\ call[u].op = "set"
    BY <1>1 DEF SetTakesEffect, Stays
  <2>2. seen'[u] = seen[u]
    <3>1. \A op, A : ~InCall(u, op, A)
      BY <1>1 DEF InCall
    <3>2. (\E a, v, T : Assign(a, v, T)) \/ (\E T, A : Excuse(T, A)) => seen'[u] = seen[u]
      BY <3>1 DEF Assign, Excuse, TypeOK
    <3>3. ASSUME NEW t \in Threads, NEW c \in CallsOf[t], Begin(t, c), u # t
          PROVE  seen'[u] = seen[u]
      BY <3>3 DEF Begin, TypeOK
    <3>4. ASSUME NEW c \in CallsOf[u], Begin(u, c) PROVE FALSE
      BY <3>4, <1>1 DEF Begin, Stays, TypeOK
    <3> QED
      BY <3>2, <3>3, <3>4 DEF Next, Step, SetByPath, GetPolarity, Write, Seek, Read,
                              OtherSets, OtherUnexports, OtherExports, vars
  <2> QED
    BY <1>1, <2>1, <2>2 DEF Stays
<1>2. CASE ~(pc[u] = "idle" /\ Stays(u))
  <2>1. SetByPath(u) \/ Write(u)
    <3>1. ASSUME NEW t \in Threads, NEW c \in CallsOf[t], Begin(t, c) PROVE FALSE
      <4>1. c.op \in {"get", "set"} /\ pc'[t] # "idle"
        BY <3>1 , CallTypes, CallsAssumption DEF Begin, TypeOK
      <4>2. u # t => pc'[u] = pc[u] /\ Stays(u)
        BY <3>1 DEF Begin, TypeOK, Stays
      <4> QED
        BY <1>2, <4>1, <4>2
    <3>2. ASSUME NEW t \in Threads, Step(t), t # u PROVE FALSE
      <4>1. Stays(u)
        BY <3>2 DEF Step, SetByPath, GetPolarity, Write, Seek, Read, Return, Stays, TypeOK
      <4> QED
        BY <1>2, <4>1 DEF Stays
    <3>3. ~GetPolarity(u) /\ ~Seek(u) /\ ~Read(u)
      BY DEF GetPolarity, Seek, Read, Return, Placed, TypeOK
    <3> QED
      BY <1>2, <3>1, <3>2, <3>3
      DEF Next, Step, OtherSets, OtherUnexports, OtherExports, vars, Stays
  <2> DEFINE a == call[u].of
             v == call[u].val
  <2>2. a \in Attributes /\ v \in 0..UintMax /\ call[u].op = "set"
    BY <2>1, CallTypes DEF TypeOK, SetByPath, Write, Placed
  <2>3. result'[u] # EXIT_FAILURE
    BY DEF EXIT_SUCCESS, EXIT_FAILURE
  <2>4. \E T : Assign(a, v, T)
    <3>1. CASE SetByPath(u)
      BY <2>3, <3>1 DEF SetByPath, Return, TypeOK
    <3>2. CASE Write(u)
      <4>1. Accepts(a, Printed(v)) /\ Assign(a, Printed(v), Threads \ {u})
        BY <2>3, <3>2 DEF Write, Return, TypeOK
      <4>2. Printed(v) = v
        BY <2>2, <4>1, PrintedIsSame DEF Accepts
      <4> QED
        BY <4>1, <4>2
    <3> QED
      BY <2>1, <3>1, <3>2
  <2>5. InCall(u, "set", {a}) /\ ~InCall(u, "get", {a})
    BY <2>1, <2>2 DEF InCall, SetByPath, Write
  <2>6. v \in seen'[u]
    BY <2>4, <2>5 DEF Assign, TypeOK
  <2> QED
    BY <2>1, <2>6 DEF SetByPath, Write, Return
<1> QED
  BY <1>1, <1>2

(* A setter that returns EXIT_SUCCESS gave the attribute its argument, for *)
(* every width of int.                                                     *)
THEOREM SettersTakeEffect == Spec => []SetTakesEffect
<1>1. Init => SetTakesEffect
  BY DEF Init, SetTakesEffect
<1>2. TypeOK /\ Placed /\ SetTakesEffect /\ [Next]_vars => SetTakesEffect'
  BY SetStep
<1> QED
  BY <1>1, <1>2, PlacedAlways, PTL DEF Spec
=============================================================================
