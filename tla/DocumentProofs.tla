--------------------------- MODULE DocumentProofs --------------------------
(***************************************************************************)
(* Documents of JSON, for any names, scalars, settings, length and limit   *)
(* of nesting.                                                             *)
(*                                                                         *)
(* The readers: what they accept is their grammar, a read throws only of a *)
(* deep document, and the copy reads as Reader does.                       *)
(*                                                                         *)
(* The writers: the text of a value is read as the value, and each of them *)
(* writes that text.                                                       *)
(***************************************************************************)
EXTENDS JsonProofs

\* The brackets that open from a place on; as many as the limit leaves room for
\* must be there when a read throws.
Opening == {"{", "["}
OpenPlaces(doc, p) == {i \in DOMAIN doc : i >= p /\ doc[i] \in Opening}
Opens(doc, p) == Cardinality(OpenPlaces(doc, p))
ThrowsDeep(doc, f, c) ==
    CharReads(doc, f)[c].thrown =>
        Opens(doc, c[2]) + c[3] >= StackLimit + (IF c[1] = "value" THEN 1 ELSE 0)
DeepInside(doc, f, c) == \A y \in CharCalls(doc) : CallInside(c, y) => ThrowsDeep(doc, f, y)

LEMMA OpenPlacesAre ==
    ASSUME NEW T, NEW doc \in Seq(T), NEW p \in Nat
    PROVE  IsFiniteSet(OpenPlaces(doc, p)) /\ Opens(doc, p) \in Nat /\ OpenPlaces(doc, p) \subseteq 1 .. Len(doc)
<1>1. DOMAIN doc = 1 .. Len(doc) /\ Len(doc) \in Nat
  OBVIOUS
<1>2. IsFiniteSet(DOMAIN doc)
  BY <1>1, FS_Interval
<1>3. OpenPlaces(doc, p) \in SUBSET DOMAIN doc
  BY DEF OpenPlaces
<1>4. IsFiniteSet(OpenPlaces(doc, p))
  BY <1>2, <1>3, FS_Subset
<1>5. Opens(doc, p) \in Nat
  BY <1>4, FS_CardinalityType DEF Opens
<1>6. QED
  BY <1>1, <1>3, <1>4, <1>5

LEMMA OpensNat ==
    ASSUME NEW T, NEW doc \in Seq(T), NEW p \in Nat
    PROVE  Opens(doc, p) \in Nat
BY OpenPlacesAre

LEMMA OpensLess ==
    ASSUME NEW T, NEW doc \in Seq(T), NEW p \in Nat, NEW q \in Nat, p <= q
    PROVE  Opens(doc, q) <= Opens(doc, p)
<1>1. IsFiniteSet(OpenPlaces(doc, p))
  BY OpenPlacesAre
<1>2. OpenPlaces(doc, q) \in SUBSET OpenPlaces(doc, p)
  <2>1. ASSUME NEW i \in OpenPlaces(doc, q) PROVE i \in OpenPlaces(doc, p)
    <3>1. i \in DOMAIN doc /\ i >= q /\ doc[i] \in Opening /\ DOMAIN doc = 1 .. Len(doc)
      BY DEF OpenPlaces
    <3>2. i >= p
      BY <3>1
    <3>3. QED
      BY <3>1, <3>2 DEF OpenPlaces
  <2>2. QED
    BY <2>1
<1>3. QED
  BY <1>1, <1>2, FS_Subset DEF Opens

LEMMA OpensMore ==
    ASSUME NEW T, NEW doc \in Seq(T), NEW q \in 1 .. Len(doc), doc[q] \in Opening
    PROVE  Opens(doc, q) >= Opens(doc, q + 1) + 1
<1>0. Len(doc) \in Nat /\ q \in Nat /\ q + 1 \in Nat
  OBVIOUS
<1>1. IsFiniteSet(OpenPlaces(doc, q)) /\ IsFiniteSet(OpenPlaces(doc, q + 1))
  BY <1>0, OpenPlacesAre
<1>2. q \notin OpenPlaces(doc, q + 1)
  BY <1>0 DEF OpenPlaces
<1> DEFINE S == OpenPlaces(doc, q + 1) \cup {q}
<1>3. Cardinality(S) = Opens(doc, q + 1) + 1
  BY <1>1, <1>2, FS_AddElement DEF Opens
<1>4. S \in SUBSET OpenPlaces(doc, q)
  <2>1. ASSUME NEW i \in S PROVE i \in OpenPlaces(doc, q)
    <3>1. CASE i = q
      <4>1. q \in DOMAIN doc /\ q >= q
        BY <1>0
      <4>2. QED
        BY <3>1, <4>1 DEF OpenPlaces
    <3>2. CASE i \in OpenPlaces(doc, q + 1)
      <4>1. i \in DOMAIN doc /\ i >= q + 1 /\ doc[i] \in Opening /\ DOMAIN doc = 1 .. Len(doc)
        BY <3>2 DEF OpenPlaces
      <4>2. i >= q
        BY <1>0, <4>1
      <4>3. QED
        BY <4>1, <4>2 DEF OpenPlaces
    <3>3. QED
      BY <3>1, <3>2
  <2>2. QED
    BY <2>1
<1> HIDE DEF S
<1>5. Cardinality(S) <= Opens(doc, q)
  BY <1>1, <1>4, FS_Subset DEF Opens
<1>6. Opens(doc, q) \in Nat /\ Opens(doc, q + 1) \in Nat
  BY <1>0, OpenPlacesAre
<1>7. QED
  BY <1>3, <1>5, <1>6

\* What a read throws inside is opened behind the place of the call.
LEMMA DeepIs ==
    ASSUME NEW T, NEW doc \in Seq(T), NEW f, NEW c \in CharCalls(doc), DeepInside(doc, f, c), NEW q \in Places(doc),
           NEW d \in 1 .. StackLimit
    PROVE  /\ CallInside(c, <<"value", q, d + 1, FALSE, {}>>) /\ ValueAt(doc, f, q, d + 1).thrown
                  => Opens(doc, c[2]) + d >= StackLimit
           /\ \A u \in BOOLEAN, names \in SUBSET CharNames :
                  q > c[2] /\ MembersAt(doc, f, q, d, u, names).thrown => Opens(doc, q) + d >= StackLimit
           /\ \A first \in BOOLEAN :
                  q > c[2] /\ ElementsAt(doc, f, q, d, first).thrown => Opens(doc, q) + d >= StackLimit
<1>0. q \in Nat /\ d \in Nat /\ StackLimit \in Nat /\ c[2] \in Nat
  <2>1. c[2] \in Places(doc)
    BY CharCallIs DEF IsCall
  <2>2. c[2] \in Nat
    BY <2>1, PlacesAre
  <2>3. q \in Nat
    BY PlacesAre
  <2>4. QED
    BY <2>2, <2>3, ReaderAssumption
<1>1. Opens(doc, q) \in Nat /\ Opens(doc, c[2]) \in Nat
  BY <1>0, OpenPlacesAre
<1>d. d + 1 \in 1 .. StackLimit + 1 /\ d \in 1 .. StackLimit + 1 /\ d <= StackLimit /\ {} \in SUBSET CharNames
  BY <1>0
<1>2. ASSUME CallInside(c, <<"value", q, d + 1, FALSE, {}>>), ValueAt(doc, f, q, d + 1).thrown
      PROVE  Opens(doc, c[2]) + d >= StackLimit
  <2> DEFINE y == <<"value", q, d + 1, FALSE, {}>>
  <2>1. y \in CharCalls(doc)
    BY <1>d, CharCallsAre
  <2>2. y[1] = "value" /\ y[2] = q /\ y[3] = d + 1
    OBVIOUS
  <2>3. CharReads(doc, f)[y].thrown
    BY <1>2 DEF ValueAt
  <2>c. CallInside(c, y)
    BY <1>2
  <2> HIDE DEF y
  <2>4. ThrowsDeep(doc, f, y)
    BY <2>1, <2>c DEF DeepInside
  <2>5. Opens(doc, q) + (d + 1) >= StackLimit + 1
    BY <2>2, <2>3, <2>4 DEF ThrowsDeep
  <2>6. c[2] <= q
    <3>1. y[2] > c[2] \/ y[2] = c[2]
      BY <2>c DEF CallInside
    <3>2. QED
      BY <1>0, <2>2, <3>1
  <2>7. Opens(doc, q) <= Opens(doc, c[2])
    BY <1>0, <2>6, OpensLess
  <2>8. QED
    BY <1>0, <1>1, <2>5, <2>7
<1>3. ASSUME NEW u \in BOOLEAN, NEW names \in SUBSET CharNames, q > c[2], MembersAt(doc, f, q, d, u, names).thrown
      PROVE  Opens(doc, q) + d >= StackLimit
  <2> DEFINE y == <<"object", q, d, u, names>>
  <2>1. y \in CharCalls(doc)
    BY <1>d, CharCallsAre
  <2>2. y[1] # "value" /\ y[2] = q /\ y[3] = d
    OBVIOUS
  <2>3. CharReads(doc, f)[y].thrown
    BY <1>3 DEF MembersAt
  <2> HIDE DEF y
  <2>4. CallInside(c, y)
    BY <1>3, <2>2 DEF CallInside
  <2>5. ThrowsDeep(doc, f, y)
    BY <2>1, <2>4 DEF DeepInside
  <2>6. Opens(doc, q) + d >= StackLimit + 0
    BY <2>2, <2>3, <2>5 DEF ThrowsDeep
  <2>7. QED
    BY <1>0, <1>1, <2>6
<1>4. ASSUME NEW first \in BOOLEAN, q > c[2], ElementsAt(doc, f, q, d, first).thrown
      PROVE  Opens(doc, q) + d >= StackLimit
  <2> DEFINE y == <<"array", q, d, first, {}>>
  <2>1. y \in CharCalls(doc)
    BY <1>d, CharCallsAre
  <2>2. y[1] # "value" /\ y[2] = q /\ y[3] = d
    OBVIOUS
  <2>3. CharReads(doc, f)[y].thrown
    BY <1>4 DEF ElementsAt
  <2> HIDE DEF y
  <2>4. CallInside(c, y)
    BY <1>4, <2>2 DEF CallInside
  <2>5. ThrowsDeep(doc, f, y)
    BY <2>1, <2>4 DEF DeepInside
  <2>6. Opens(doc, q) + d >= StackLimit + 0
    BY <2>2, <2>3, <2>5 DEF ThrowsDeep
  <2>7. QED
    BY <1>0, <1>1, <2>6
<1>5. QED
  BY <1>2, <1>3, <1>4

LEMMA NotThrown ==
    /\ \A v, q : Success(v, q).thrown = FALSE
    /\ \A q, e : Failure(q, e).thrown = FALSE
    /\ \A doc, p, until : AddErrorAndRecover(doc, p, until).thrown = FALSE
BY DEF Success, Failure, AddErrorAndRecover

LEMMA ValueDeep ==
    ASSUME NEW T, NEW doc \in Seq(T), NEW f, NEW c \in CharCalls(doc), DeepInside(doc, f, c), c[1] = "value"
    PROVE  ThrowsDeep(doc, f, c)
<1> DEFINE p == c[2]
<1> DEFINE d == c[3]
<1> DEFINE q == BeforeValue(doc, p, f)
<1> DEFINE token == CharToken(doc, q, f)
<1> DEFINE r == ValueAt(doc, f, p, d)
<1>1. p \in Places(doc) /\ d \in 1 .. StackLimit + 1 /\ StackLimit \in Nat
  BY CharCallIs, ReaderAssumption DEF IsCall
<1>2. CharReads(doc, f)[c] = r
  BY CallGives
<1>3. q \in Places(doc) /\ q >= p
  BY <1>1, BeforeValueIs
<1> HIDE DEF q, token
<1>e. q = BeforeValue(doc, p, f) /\ token = CharToken(doc, q, f)
  BY DEF q, token
<1>n. p \in Nat /\ q \in Nat /\ d \in Nat /\ Opens(doc, p) \in Nat
  <2>1. p \in Nat /\ q \in Nat
    <3>1. p \in Nat
      BY <1>1, PlacesAre
    <3>2. q \in Nat
      BY <1>3, PlacesAre
    <3>3. QED
      BY <3>1, <3>2
  <2>2. Opens(doc, p) \in Nat
    BY <2>1, OpensNat
  <2>3. d \in Nat
    BY <1>1
  <2>4. QED
    BY <2>1, <2>2, <2>3
<1>4. ASSUME r.thrown => Opens(doc, p) + d >= StackLimit + 1
      PROVE  ThrowsDeep(doc, f, c)
  BY <1>2, <1>4 DEF ThrowsDeep
<1>5. CASE d = StackLimit + 1
  <2>1. Opens(doc, p) + d >= StackLimit + 1
    BY <1>1, <1>n, <1>5
  <2>2. QED
    BY <1>4, <2>1
<1>6. CASE d # StackLimit + 1
  <2>0. d \in 1 .. StackLimit
    BY <1>1, <1>6
  <2>1. r = ReadByToken(doc, f, d, q, token)
    BY <1>1, <1>e, <2>0, ValueRead
  <2>2. ASSUME q <= Len(doc), doc[q] \in Opening, Opens(doc, q + 1) + d >= StackLimit
        PROVE  Opens(doc, p) + d >= StackLimit + 1
    <3>1. q \in 1 .. Len(doc) /\ q + 1 \in Nat
      <4>1. q >= 1
        BY <1>3, PlacesAre
      <4>2. QED
        BY <1>n, <2>2, <4>1
    <3>2. Opens(doc, q) >= Opens(doc, q + 1) + 1
      BY <2>2, <3>1, OpensMore
    <3>3. Opens(doc, q) <= Opens(doc, p)
      BY <1>3, <1>n, OpensLess
    <3>4. Opens(doc, q) \in Nat /\ Opens(doc, q + 1) \in Nat
      BY <1>n, <3>1, OpenPlacesAre
    <3>5. QED
      BY <1>1, <1>n, <2>2, <3>2, <3>3, <3>4
  <2>s. Sees(doc, f, q, token)
    BY <1>3, <1>e, SeenToken
  <2>3. ASSUME q <= Len(doc) PROVE q + 1 \in Places(doc) /\ q + 1 > c[2]
    BY <1>3, <1>n, <2>3 DEF Places
  <2>4. CASE token = "{"
    <3>1. q <= Len(doc) /\ doc[q] = "{"
      BY <2>4, <2>s, Zenon DEF Sees, PlainMarks
    <3>2. doc[q] \in Opening /\ q <= Len(doc)
      BY <3>1, Zenon DEF Opening
    <3>3. r = MembersAt(doc, f, q + 1, d, TRUE, {})
      BY <2>1, <2>4, Zenon DEF ReadByToken
    <3>4. r.thrown => Opens(doc, q + 1) + d >= StackLimit
      <4>1. TRUE \in BOOLEAN /\ {} \in SUBSET CharNames
        OBVIOUS
      <4>2. q + 1 \in Places(doc) /\ q + 1 > c[2]
        BY <2>3, <3>2
      <4>3. QED
        BY <2>0, <3>3, <4>1, <4>2, DeepIs
    <3>5. QED
      BY <1>4, <2>2, <3>2, <3>4
  <2>5. CASE token = "["
    <3>1. q <= Len(doc) /\ doc[q] = "["
      BY <2>5, <2>s, Zenon DEF Sees, PlainMarks
    <3>2. doc[q] \in Opening /\ q <= Len(doc)
      BY <3>1, Zenon DEF Opening
    <3>3. r = ElementsAt(doc, f, q + 1, d, TRUE)
      <4>1. token # "{"
        BY <2>5, Zenon
      <4>2. QED
        BY <2>1, <2>5, <4>1, Zenon DEF ReadByToken
    <3>4. r.thrown => Opens(doc, q + 1) + d >= StackLimit
      <4>1. TRUE \in BOOLEAN
        OBVIOUS
      <4>2. q + 1 \in Places(doc) /\ q + 1 > c[2]
        BY <2>3, <3>2
      <4>3. QED
        BY <2>0, <3>3, <4>1, <4>2, DeepIs
    <3>5. QED
      BY <1>4, <2>2, <3>2, <3>4
  <2>6. CASE token # "{" /\ token # "["
    <3>1. \/ r = Success(ScalarValue(token), q + 1) \/ r = Success(NullValue, q) \/ r = Failure(Next_(doc, q), <<q>>)
      BY <2>1, <2>6, Zenon DEF ReadByToken
    <3>2. r.thrown = FALSE
      BY <3>1, NotThrown, Zenon
    <3>3. QED
      BY <1>4, <3>2
  <2>7. QED
    BY <2>4, <2>5, <2>6, Zenon
<1>7. QED
  BY <1>5, <1>6

LEMMA ElementsDeep ==
    ASSUME NEW T, NEW doc \in Seq(T), NEW f, NEW c \in CharCalls(doc), DeepInside(doc, f, c), c[1] = "array"
    PROVE  ThrowsDeep(doc, f, c)
<1> DEFINE p == c[2]
<1> DEFINE d == c[3]
<1> DEFINE first == c[4]
<1> DEFINE child == ValueAt(doc, f, p, d + 1)
<1> DEFINE q == AfterComments(doc, child.at)
<1> DEFINE r == ElementsAt(doc, f, p, d, first)
<1>1. p \in Places(doc) /\ d \in 1 .. StackLimit /\ first \in BOOLEAN
  BY CharCallIs, ReaderAssumption DEF IsCall
<1>2. CharReads(doc, f)[c] = r
  BY CallGives
<1>3. r = ReadElements(doc, f, p, d, first, child, q)
  BY <1>1, ElementsRead
<1>4. ASSUME r.thrown => Opens(doc, p) + d >= StackLimit
      PROVE  ThrowsDeep(doc, f, c)
  <2>1. StackLimit + (IF c[1] = "value" THEN 1 ELSE 0) = StackLimit
    BY ReaderAssumption
  <2>2. QED
    BY <1>2, <1>4, <2>1 DEF ThrowsDeep
<1>c. IsOutcome(doc, p, child)
  <2> DEFINE y == <<"value", p, d + 1, FALSE, {}>>
  <2>1. y \in CharCalls(doc)
    <3>1. d + 1 \in 1 .. StackLimit + 1 /\ {} \in SUBSET CharNames
      BY <1>1, ReaderAssumption
    <3>2. QED
      BY <1>1, <3>1, CharCallsAre
  <2>2. y[2] = p /\ child = CharReads(doc, f)[y]
    BY DEF ValueAt
  <2> HIDE DEF y, child
  <2>3. IsOutcome(doc, y[2], CharReads(doc, f)[y])
    BY <2>1, CharReadIs
  <2>4. QED
    BY <2>2, <2>3, Zenon
<1>5. child.thrown => Opens(doc, p) + d >= StackLimit
  <2> DEFINE y == <<"value", p, d + 1, FALSE, {}>>
  <2>1. CallInside(c, y)
    BY DEF CallInside
  <2>2. QED
    BY <1>1, <2>1, DeepIs
<1>q. q = AfterComments(doc, child.at)
  OBVIOUS
<1> HIDE DEF child, q, r
<1>6. CASE child.thrown
  BY <1>4, <1>5, <1>6
<1>7. CASE ~child.thrown /\ ~r.thrown
  BY <1>4, <1>7
<1>8. CASE ~child.thrown /\ r.thrown
  <2>1. ~ArrayEnds(Token(doc, p), first, f) /\ child.ok /\ Token(doc, q) = ","
        /\ r = FromElement(child.value, ElementsAt(doc, f, q + 1, d, FALSE))
    <3>1. ~ArrayEnds(Token(doc, p), first, f)
      <4>1. ASSUME ArrayEnds(Token(doc, p), first, f) PROVE FALSE
        <5>1. r = Success(ArrayValue(<<>>), p + 1)
          BY <1>3, <4>1, Zenon DEF ReadElements
        <5>2. QED
          BY <1>8, <5>1, NotThrown, Zenon
      <4>2. QED
        BY <4>1
    <3>2. child.ok
      <4>1. ASSUME ~child.ok PROVE FALSE
        <5>1. r = FailedInside(doc, child, "]")
          BY <1>3, <3>1, <4>1, Zenon DEF ReadElements
        <5>2. r = Failure(Recovered(doc, child.at, "]"), child.errors)
          BY <1>8, <5>1, Zenon DEF FailedInside
        <5>3. QED
          BY <1>8, <5>2, NotThrown, Zenon
      <4>2. QED
        BY <4>1
    <3>3. Token(doc, q) # "]"
      <4>1. ASSUME Token(doc, q) = "]" PROVE FALSE
        <5>1. r = Success(ArrayValue(<<child.value>>), q + 1)
          BY <1>3, <3>1, <3>2, <4>1, Zenon DEF ReadElements
        <5>2. QED
          BY <1>8, <5>1, NotThrown, Zenon
      <4>2. QED
        BY <4>1
    <3>4. Token(doc, q) = ","
      <4>1. ASSUME Token(doc, q) # "," PROVE FALSE
        <5>1. r = AddErrorAndRecover(doc, q, "]")
          BY <1>3, <3>1, <3>2, <3>3, <4>1, Zenon DEF ReadElements
        <5>2. QED
          BY <1>8, <5>1, NotThrown, Zenon
      <4>2. QED
        BY <4>1
    <3>5. QED
      BY <1>3, <3>1, <3>2, <3>3, <3>4, Zenon DEF ReadElements
  <2> DEFINE rest == ElementsAt(doc, f, q + 1, d, FALSE)
  <2>2. child.at \in Places(doc) /\ child.at >= p
    BY <1>c, <2>1 DEF IsOutcome
  <2>3. q \in Places(doc) /\ q >= child.at
    BY <1>q, <2>2, AfterCommentsIs
  <2>4. q <= Len(doc)
    BY <2>1, Zenon DEF Token
  <2>n. p \in Nat /\ q \in Nat /\ child.at \in Nat
    <3>1. p \in Nat
      BY <1>1, PlacesAre
    <3>2. q \in Nat
      BY <2>3, PlacesAre
    <3>3. child.at \in Nat
      BY <2>2, PlacesAre
    <3>4. QED
      BY <3>1, <3>2, <3>3
  <2>5. q + 1 \in Places(doc) /\ q + 1 > p /\ q + 1 \in Nat
    BY <2>2, <2>3, <2>4, <2>n DEF Places
  <2>6. rest.thrown
    <3> HIDE DEF rest
    <3>1. rest.ok => FALSE
      <4>1. ASSUME rest.ok PROVE FALSE
        <5>1. r = Success(ArrayValue(<<child.value>> \o rest.value.elements), rest.at)
          BY <2>1, <4>1, Zenon DEF FromElement, rest
        <5>2. QED
          BY <1>8, <5>1, NotThrown, Zenon
      <4>2. QED
        BY <4>1
    <3>2. r = rest
      BY <2>1, <3>1, Zenon DEF FromElement, rest
    <3>3. QED
      BY <1>8, <3>2, Zenon
  <2>7. Opens(doc, q + 1) + d >= StackLimit
    <3>1. FALSE \in BOOLEAN /\ q + 1 > c[2]
      BY <2>5
    <3>2. QED
      BY <1>1, <2>5, <2>6, <3>1, DeepIs
  <2>8. Opens(doc, q + 1) <= Opens(doc, p)
    BY <2>5, <2>n, OpensLess
  <2>9. Opens(doc, q + 1) \in Nat /\ Opens(doc, p) \in Nat /\ d \in Nat /\ StackLimit \in Nat
    <3>1. Opens(doc, q + 1) \in Nat /\ Opens(doc, p) \in Nat
      BY <2>5, <2>n, OpensNat
    <3>2. d \in Nat /\ StackLimit \in Nat
      BY <1>1, ReaderAssumption
    <3>3. QED
      BY <3>1, <3>2
  <2>10. QED
    BY <1>4, <2>7, <2>8, <2>9
<1>9. QED
  BY <1>6, <1>7, <1>8

LEMMA MembersDeep ==
    ASSUME NEW T, NEW doc \in Seq(T), NEW f, NEW c \in CharCalls(doc), DeepInside(doc, f, c), c[1] = "object"
    PROVE  ThrowsDeep(doc, f, c)
<1> DEFINE p == c[2]
<1> DEFINE d == c[3]
<1> DEFINE u == c[4]
<1> DEFINE names == c[5]
<1> DEFINE q == AfterComments(doc, p)
<1> DEFINE name == CharToken(doc, q, f)
<1> DEFINE child == ValueAt(doc, f, q + 2, d + 1)
<1> DEFINE a == child.at
<1> DEFINE s == AfterComments(doc, a)
<1> DEFINE r == MembersAt(doc, f, p, d, u, names)
<1>1. p \in Places(doc) /\ d \in 1 .. StackLimit /\ u \in BOOLEAN /\ names \in SUBSET CharNames
  BY CharCallIs, ReaderAssumption DEF IsCall
<1>2. CharReads(doc, f)[c] = r
  BY CallGives
<1>e. q = AfterComments(doc, p) /\ child = ValueAt(doc, f, q + 2, d + 1)
  OBVIOUS
<1>q. q \in Places(doc) /\ q >= p
  BY <1>1, AfterCommentsIs
<1>3. r = ReadMembers(doc, f, d, u, names, q, name, child, s)
  <2> HIDE DEF q, child
  <2>1. QED
    BY <1>1, <1>e, MembersRead
<1>4. ASSUME r.thrown => Opens(doc, p) + d >= StackLimit
      PROVE  ThrowsDeep(doc, f, c)
  <2>1. StackLimit + (IF c[1] = "value" THEN 1 ELSE 0) = StackLimit
    BY ReaderAssumption
  <2>2. QED
    BY <1>2, <1>4, <2>1 DEF ThrowsDeep
<1>f. a = child.at /\ s = AfterComments(doc, a)
  OBVIOUS
<1> HIDE DEF q, name, child, a, s, r
<1>n. p \in Nat /\ q \in Nat /\ d \in Nat /\ StackLimit \in Nat /\ Opens(doc, p) \in Nat
  <2>1. p \in Nat
    BY <1>1, PlacesAre
  <2>2. q \in Nat
    BY <1>q, PlacesAre
  <2>3. Opens(doc, p) \in Nat
    BY <2>1, OpensNat
  <2>4. QED
    BY <1>1, <2>1, <2>2, <2>3, ReaderAssumption
<1>5. CASE ~r.thrown
  BY <1>4, <1>5
<1>6. CASE r.thrown
  <2>1. ~ObjectEnds(name, u, f) /\ ~(name \notin NameTokens(f) \/ (f.rejectDupKeys /\ name \in names)) /\ Token(doc, q + 1) = ":"
    <3>1. ~ObjectEnds(name, u, f)
      <4>1. ASSUME ObjectEnds(name, u, f) PROVE FALSE
        <5>1. r = Success(ObjectValue(NoMembers), q + 1)
          BY <1>3, <4>1, Zenon DEF ReadMembers
        <5>2. QED
          BY <1>6, <5>1, NotThrown, Zenon
      <4>2. QED
        BY <4>1
    <3>2. ~(name \notin NameTokens(f) \/ (f.rejectDupKeys /\ name \in names))
      <4>1. ASSUME name \notin NameTokens(f) \/ (f.rejectDupKeys /\ name \in names) PROVE FALSE
        <5>1. r = AddErrorAndRecover(doc, q, "}")
          BY <1>3, <3>1, <4>1, Zenon DEF ReadMembers
        <5>2. QED
          BY <1>6, <5>1, NotThrown, Zenon
      <4>2. QED
        BY <4>1
    <3>3. Token(doc, q + 1) = ":"
      <4>1. ASSUME Token(doc, q + 1) # ":" PROVE FALSE
        <5>1. r = AddErrorAndRecover(doc, q + 1, "}")
          BY <1>3, <3>1, <3>2, <4>1, Zenon DEF ReadMembers
        <5>2. QED
          BY <1>6, <5>1, NotThrown, Zenon
      <4>2. QED
        BY <4>1
    <3>4. QED
      BY <3>1, <3>2, <3>3, Zenon
  <2>2. q + 1 <= Len(doc)
    BY <2>1, Zenon DEF Token
  <2>3. q + 2 \in Places(doc) /\ q + 2 > p /\ q + 2 \in Nat
    BY <1>n, <1>q, <2>2 DEF Places
  <2> DEFINE y == <<"value", q + 2, d + 1, FALSE, {}>>
  <2>4. IsOutcome(doc, q + 2, child)
    <3>1. d + 1 \in 1 .. StackLimit + 1 /\ {} \in SUBSET CharNames
      BY <1>1, ReaderAssumption
    <3>2. y \in CharCalls(doc)
      BY <2>3, <3>1, CharCallsAre
    <3>3. y[2] = q + 2 /\ child = CharReads(doc, f)[y]
      BY <1>e DEF ValueAt
    <3> HIDE DEF y
    <3>4. IsOutcome(doc, y[2], CharReads(doc, f)[y])
      BY <3>2, CharReadIs
    <3>5. QED
      BY <3>3, <3>4, Zenon
  <2>5. CASE child.thrown
    <3>1. CallInside(c, y)
      BY <2>3 DEF CallInside
    <3>2. Opens(doc, p) + d >= StackLimit
      BY <1>1, <1>e, <2>3, <2>5, <3>1, DeepIs
    <3>3. QED
      BY <1>4, <3>2
  <2>6. CASE ~child.thrown
    <3>1. child.ok
      <4>1. ASSUME ~child.ok PROVE FALSE
        <5>1. r = FailedInside(doc, child, "}")
          BY <1>3, <2>1, <4>1, Zenon DEF ReadMembers
        <5>2. r = Failure(Recovered(doc, child.at, "}"), child.errors)
          BY <2>6, <5>1, Zenon DEF FailedInside
        <5>3. QED
          BY <1>6, <5>2, NotThrown, Zenon
      <4>2. QED
        BY <4>1
    <3>2. ~SeparatorMissing(doc, a)
      <4>1. ASSUME SeparatorMissing(doc, a) PROVE FALSE
        <5>1. r = AddErrorAndRecover(doc, a, "}")
          BY <1>3, <1>f, <2>1, <3>1, <4>1, Zenon DEF ReadMembers
        <5>2. QED
          BY <1>6, <5>1, NotThrown, Zenon
      <4>2. QED
        BY <4>1
    <3>3. Token(doc, s) # "}"
      <4>1. ASSUME Token(doc, s) = "}" PROVE FALSE
        <5>1. r = Success(ObjectValue(WithMember(name, child.value, NoMembers)), s + 1)
          BY <1>3, <1>f, <2>1, <3>1, <3>2, <4>1, Zenon DEF ReadMembers
        <5>2. QED
          BY <1>6, <5>1, NotThrown, Zenon
      <4>2. QED
        BY <4>1
    <3> DEFINE more == names \cup {name}
    <3> DEFINE next == Next_(doc, s)
    <3> DEFINE b == name = ""
    <3> DEFINE rest == MembersAt(doc, f, next, d, b, more)
    <3>4. r = FromMember(name, child.value, rest)
      BY <1>3, <1>f, <2>1, <3>1, <3>2, <3>3, Zenon DEF ReadMembers
    <3>5. rest.thrown
      <4> HIDE DEF rest
      <4>1. ASSUME rest.ok PROVE FALSE
        <5>1. r = Success(ObjectValue(WithMember(name, child.value, rest.value.members)), rest.at)
          BY <3>4, <4>1, Zenon DEF FromMember
        <5>2. QED
          BY <1>6, <5>1, NotThrown, Zenon
      <4>2. r = rest
        BY <3>4, <4>1, Zenon DEF FromMember
      <4>3. QED
        BY <1>6, <4>2, Zenon
    <3>b. b \in BOOLEAN
      BY Zenon
    <3>m. more \in SUBSET CharNames
      <4>1. name \in CharNames
        BY <2>1, NameTokensAre, Zenon
      <4>2. QED
        BY <1>1, <4>1
    <3>6. a \in Places(doc) /\ a >= q + 2
      BY <1>f, <2>4, <3>1 DEF IsOutcome
    <3>7. s \in Places(doc) /\ s >= a
      BY <1>f, <3>6, AfterCommentsIs
    <3>8. next \in Places(doc) /\ next >= s
      BY <3>7, NextPlace
    <3> HIDE DEF more, next, b
    <3>n. next \in Nat /\ s \in Nat /\ a \in Nat
      <4>1. next \in Nat
        BY <3>8, PlacesAre
      <4>2. s \in Nat
        BY <3>7, PlacesAre
      <4>3. a \in Nat
        BY <3>6, PlacesAre
      <4>4. QED
        BY <4>1, <4>2, <4>3
    <3>9. next > p
      BY <1>n, <1>q, <3>6, <3>7, <3>8, <3>n
    <3>10. Opens(doc, next) + d >= StackLimit
      BY <1>1, <3>5, <3>8, <3>9, <3>b, <3>m, DeepIs
    <3>11. Opens(doc, next) <= Opens(doc, p)
      BY <1>n, <3>9, <3>n, OpensLess
    <3>12. Opens(doc, next) \in Nat
      BY <3>n, OpensNat
    <3>13. QED
      BY <1>4, <1>n, <3>10, <3>11, <3>12
  <2>7. QED
    BY <2>5, <2>6
<1>7. QED
  BY <1>5, <1>6

LEMMA CallsDeep ==
    ASSUME NEW T, NEW doc \in Seq(T), NEW f
    PROVE  \A c \in CharCalls(doc) : ThrowsDeep(doc, f, c)
<1> DEFINE S == {c \in CharCalls(doc) : ThrowsDeep(doc, f, c)}
<1>1. ASSUME NEW c \in CharCalls(doc), \A y \in CharCalls(doc) : CallInside(c, y) => y \in S PROVE c \in S
  <2>1. DeepInside(doc, f, c)
    BY <1>1 DEF DeepInside
  <2>2. c[1] \in {"value", "object", "array"}
    BY CharCallIs DEF IsCall
  <2>3. QED
    BY <2>1, <2>2, ValueDeep, ElementsDeep, MembersDeep
<1>2. \A c \in CharCalls(doc) : c \in S
  <2> HIDE DEF S
  <2>1. QED
    BY <1>1, CallsInduction DEF HoldsFromInside
<1>3. QED
  BY <1>2

\* A read throws only of a document that is nested as deep as the limit.
LEMMA ThrownIsDeep ==
    ASSUME NEW T, NEW doc \in Seq(T), NEW f, CharRead(doc, f).thrown
    PROVE  Nesting(doc) >= StackLimit
<1> DEFINE p == StartOf(doc, f)
<1> DEFINE c == <<"value", p, 1, FALSE, {}>>
<1>1. p \in Places(doc) /\ 1 \in 1 .. StackLimit + 1 /\ {} \in SUBSET CharNames /\ StackLimit \in Nat
  BY StartIs, ReaderAssumption
<1>2. c \in CharCalls(doc)
  BY <1>1, CharCallsAre
<1>3. c[1] = "value" /\ c[2] = p /\ c[3] = 1
  OBVIOUS
<1>4. CharReads(doc, f)[c].thrown
  BY DEF CharRead
<1> HIDE DEF c, p
<1>5. ThrowsDeep(doc, f, c)
  BY <1>2, CallsDeep
<1>6. Opens(doc, p) + 1 >= StackLimit + 1
  BY <1>3, <1>4, <1>5 DEF ThrowsDeep
<1>7. p \in Nat /\ p >= 1
  BY <1>1, PlacesAre
<1>8. Opens(doc, p) \in Nat /\ Opens(doc, 1) \in Nat
  BY <1>7, OpensNat
<1>9. Opens(doc, p) <= Opens(doc, 1)
  BY <1>7, OpensLess
<1>10. Nesting(doc) = Opens(doc, 1)
  <2>1. \A i \in DOMAIN doc : i >= 1
    <3>1. DOMAIN doc = 1 .. Len(doc) /\ Len(doc) \in Nat
      OBVIOUS
    <3>2. QED
      BY <3>1
  <2>2. QED
    BY <2>1, Zenon DEF Nesting, Opens, OpenPlaces, Opening
<1>11. QED
  BY <1>1, <1>6, <1>8, <1>9, <1>10

-----------------------------------------------------------------------------
(* OurReader accepts the documents of its grammar.                         *)

\* What a document may end with, and what it may consist of.
EndsWell(doc, f, a) == f.failIfExtra => BeforeValue(doc, a, f) = Len(doc) + 1
RootIsContainer(doc, f) == Token(doc, BeforeValue(doc, StartOf(doc, f), f)) \in Opening
BeginsWell(doc, f) == f.strictRoot => RootIsContainer(doc, f)

LEMMA DocumentIs ==
    ASSUME NEW doc, NEW f
    PROVE  IsDocument(doc, f) <=>
             \E k \in StartOf(doc, f) - 1 .. Len(doc) :
                 MayBeValue(doc, f, StartOf(doc, f), k) /\ EndsWell(doc, f, k + 1) /\ BeginsWell(doc, f)
BY Zenon DEF IsDocument, MayBeValue, EndsWell, BeginsWell, RootIsContainer, Opening

LEMMA EndIs ==
    ASSUME NEW doc \in Seq(CharTokens), NEW q \in Places(doc)
    PROVE  Token(doc, q) = "end" <=> q = Len(doc) + 1
<1>1. Len(doc) \in Nat /\ q \in Nat /\ q >= 1 /\ q <= Len(doc) + 1
  BY PlacesAre
<1>2. "end" \notin CharTokens
  <2>1. "end" \notin Tokens
    <3>1. "end" \notin Strings \cup Scalars
      BY ReaderAssumption
    <3>2. "end" \notin Marks
      BY Zenon DEF Marks
    <3>3. QED
      BY <3>1, <3>2 DEF Tokens
  <2>2. "end" \notin SingleQuoted \cup SpecialFloats \cup {"bom"}
    BY CharReaderAssumption
  <2>3. QED
    BY <2>1, <2>2 DEF CharTokens
<1>3. CASE q <= Len(doc)
  <2>1. q \in DOMAIN doc /\ doc[q] \in CharTokens
    BY <1>1, <1>3
  <2>2. Token(doc, q) = doc[q]
    BY <1>3 DEF Token
  <2>3. q # Len(doc) + 1
    BY <1>1, <1>3
  <2>4. QED
    BY <1>2, <2>1, <2>2, <2>3
<1>4. CASE ~(q <= Len(doc))
  <2>1. Token(doc, q) = "end"
    BY <1>4 DEF Token
  <2>2. q = Len(doc) + 1
    BY <1>1, <1>4
  <2>3. QED
    BY <2>1, <2>2
<1>5. QED
  BY <1>3, <1>4

LEMMA OpeningSeen ==
    ASSUME NEW doc, NEW q, NEW f
    PROVE  CharToken(doc, q, f) \in {"{", "["} <=> Token(doc, q) \in Opening
<1>1. CharToken(doc, q, f) = IF Token(doc, q) \in Refused(f) THEN "x" ELSE Token(doc, q)
  BY DEF CharToken
<1>2. \A t \in Opening : t \notin Refused(f) /\ t # "x"
  <2>1. \A t \in Opening : t \in {"{", "}", "[", "]", ",", ":", "/"} /\ t # "x"
    BY Zenon DEF Opening
  <2>2. QED
    BY <2>1, MarksAreNotRefused, Zenon
<1>3. CharToken(doc, q, f) \in Opening <=> Token(doc, q) \in Opening
  BY <1>1, <1>2, Zenon
<1>4. QED
  BY <1>3, Zenon DEF Opening

\* What parse gives, by the value that is read.
LEMMA ParsedIs ==
    ASSUME NEW doc \in Seq(CharTokens), NEW f, IsSettings(f), ~CharRead(doc, f).thrown
    PROVE  ParseChars(doc, f) =
             IF ~EndsWell(doc, f, CharRead(doc, f).at)
             THEN Failure(Next_(doc, BeforeValue(doc, CharRead(doc, f).at, f)),
                          Append(CharRead(doc, f).errors, BeforeValue(doc, CharRead(doc, f).at, f)))
             ELSE IF ~BeginsWell(doc, f) THEN Failure(CharRead(doc, f).at, Append(CharRead(doc, f).errors, 1))
             ELSE CharRead(doc, f)
<1> DEFINE r == CharRead(doc, f)
<1> DEFINE after == BeforeValue(doc, r.at, f)
<1> DEFINE first == BeforeValue(doc, StartOf(doc, f), f)
<1>1. r.at \in Places(doc)
  BY CharReadOutcome, StartIs, OutcomeIs
<1>2. after \in Places(doc)
  <2> HIDE DEF r
  <2>1. QED
    BY <1>1, BeforeValueIs
<1>3. ParseChars(doc, f) =
        IF r.thrown THEN r
        ELSE IF f.failIfExtra /\ Token(doc, after) # "end"
             THEN Failure(Next_(doc, after), Append(r.errors, after))
        ELSE IF f.strictRoot /\ ~(CharToken(doc, first, f) \in {"{", "["}) THEN Failure(r.at, Append(r.errors, 1))
        ELSE r
  BY ParseCharsIs, Zenon
<1>4. Token(doc, after) = "end" <=> after = Len(doc) + 1
  <2> HIDE DEF after
  <2>1. QED
    BY <1>2, EndIs
<1>5. (CharToken(doc, first, f) \in {"{", "["}) <=> RootIsContainer(doc, f)
  BY OpeningSeen, Zenon DEF RootIsContainer
<1>6. EndsWell(doc, f, r.at) <=> ~(f.failIfExtra /\ Token(doc, after) # "end")
  BY <1>4, Zenon DEF EndsWell
<1>7. QED
  BY <1>3, <1>5, <1>6, Zenon DEF BeginsWell

LEMMA NotEmpty ==
    ASSUME NEW T, NEW s \in Seq(T), NEW x \in T
    PROVE  Append(s, x) # <<>>
BY AppendProperties, EmptySeq

LEMMA DocumentsRead ==
    ASSUME NEW doc \in Seq(CharTokens), NEW f, IsSettings(f), ~CharRead(doc, f).thrown
    PROVE  /\ ~ParseChars(doc, f).thrown
           /\ ParseChars(doc, f).ok <=> IsDocument(doc, f)
           /\ ParseChars(doc, f).ok <=> ParseChars(doc, f).errors = <<>>
<1> DEFINE r == CharRead(doc, f)
<1> DEFINE p == StartOf(doc, f)
<1> DEFINE b == BeforeValue(doc, r.at, f)
<1> DEFINE c == <<"value", p, 1, FALSE, {}>>
<1>0. StackLimit \in Nat /\ {} \in SUBSET CharNames /\ 1 \in 1 .. StackLimit + 1 /\ p \in Places(doc)
  BY ReaderAssumption, StartIs
<1>1. c \in CharCalls(doc)
  BY <1>0, CharCallsAre
<1>2. c[1] = "value" /\ c[2] = p /\ r = CharReads(doc, f)[c]
  BY Zenon DEF CharRead
<1>3. ValueHolds(doc, f, p, r) /\ IsOutcome(doc, p, r)
  <2> HIDE DEF c, r, p
  <2>1. CallHolds(doc, f, c)
    BY <1>1, CallsHold
  <2>2. QED
    BY <1>1, <1>2, <2>1, CharReadIs DEF CallHolds
<1>4. r.ok \in BOOLEAN /\ r.at \in Places(doc) /\ (r.ok => r.at >= p) /\ ~r.thrown
  BY <1>3 DEF IsOutcome
<1>5. /\ r.ok => r.errors = <<>>
      /\ ~r.ok => \E e \in Places(doc) : r.errors = <<e>>
  <2>1. r \in Outcomes(doc, p, CharTree[StackLimit])
    BY CharReadOutcome
  <2> DEFINE V == CharTree[StackLimit]
  <2>2. r \in Outcomes(doc, p, V)
    BY <2>1
  <2> HIDE DEF r, p, V
  <2>3. /\ r.ok => r.errors = <<>>
        /\ ~r.ok /\ ~r.thrown => \E e \in Places(doc) : r = Failure(r.at, <<e>>) /\ r.errors = <<e>>
    BY <1>0, <2>2, OutcomeIs
  <2>4. QED
    BY <1>4, <2>3
<1>6. ParseChars(doc, f) =
             IF ~EndsWell(doc, f, r.at) THEN Failure(Next_(doc, b), Append(r.errors, b))
             ELSE IF ~BeginsWell(doc, f) THEN Failure(r.at, Append(r.errors, 1))
             ELSE r
  BY ParsedIs, Zenon
<1>7. IsDocument(doc, f) <=>
        \E k \in p - 1 .. Len(doc) : MayBeValue(doc, f, p, k) /\ EndsWell(doc, f, k + 1) /\ BeginsWell(doc, f)
  BY DocumentIs, Zenon
<1>n. /\ Len(doc) \in Nat /\ p \in Nat /\ p >= 1 /\ p <= Len(doc) + 1
      /\ r.at \in Nat /\ r.at >= 1 /\ r.at <= Len(doc) + 1
  BY <1>0, <1>4, PlacesAre
<1>e. r.errors \in Seq(Places(doc)) /\ b \in Places(doc) /\ 1 \in Places(doc)
  <2>1. r.errors \in Seq(Places(doc))
    <3> HIDE DEF r
    <3>1. <<>> \in Seq(Places(doc)) /\ \A e \in Places(doc) : <<e>> \in Seq(Places(doc))
      OBVIOUS
    <3>2. QED
      BY <1>4, <1>5, <3>1, Zenon
  <2>2. b \in Places(doc)
    <3> HIDE DEF r
    <3>1. QED
      BY <1>4, BeforeValueIs
  <2>3. 1 \in Places(doc)
    BY <1>n DEF Places
  <2>4. QED
    BY <2>1, <2>2, <2>3
<1>o. r.ok => OneValue(doc, f, p, r.at)
  <2> HIDE DEF r, p
  <2>1. QED
    BY <1>0, <1>3, <1>4, ValueHoldsGives
<1>N. ~r.ok => NoValue(doc, f, p)
  <2> HIDE DEF r, p
  <2>1. QED
    BY <1>0, <1>3, <1>4, ValueHoldsGives
<1> HIDE DEF r, p, b, c
<1>8. IsDocument(doc, f) <=> r.ok /\ EndsWell(doc, f, r.at) /\ BeginsWell(doc, f)
  <2>1. CASE r.ok
    <3>1. OneValue(doc, f, p, r.at)
      BY <1>o, <2>1
    <3> DEFINE k == r.at - 1
    <3>2. k \in p - 1 .. Len(doc) /\ k + 1 = r.at
      BY <1>4, <1>n, <2>1
    <3>3. \A i \in p - 1 .. Len(doc) : MayBeValue(doc, f, p, i) <=> i = k
      BY <3>1, Zenon DEF OneValue
    <3> HIDE DEF k
    <3>4. QED
      BY <1>7, <2>1, <3>2, <3>3, Zenon
  <2>2. CASE ~r.ok
    BY <1>7, <1>N, <2>2, Zenon DEF NoValue
  <2>3. QED
    BY <1>4, <2>1, <2>2
<1>9. Append(r.errors, b) # <<>> /\ Append(r.errors, 1) # <<>>
  BY <1>e, NotEmpty
<1>10. r.ok <=> r.errors = <<>>
  <2>1. \A e \in Places(doc) : <<e>> # <<>>
    OBVIOUS
  <2>2. QED
    BY <1>4, <1>5, <2>1, Zenon
<1>11. CASE ~EndsWell(doc, f, r.at)
  <2>1. ParseChars(doc, f) = Failure(Next_(doc, b), Append(r.errors, b))
    BY <1>6, <1>11
  <2>2. /\ Failure(Next_(doc, b), Append(r.errors, b)).ok = FALSE
        /\ Failure(Next_(doc, b), Append(r.errors, b)).thrown = FALSE
        /\ Failure(Next_(doc, b), Append(r.errors, b)).errors = Append(r.errors, b)
    <3> DEFINE x == Append(r.errors, b)
    <3> DEFINE y == Next_(doc, b)
    <3> HIDE DEF x, y
    <3>1. Failure(y, x).ok = FALSE /\ Failure(y, x).thrown = FALSE /\ Failure(y, x).errors = x
      BY DEF Failure
    <3>2. QED
      BY <3>1 DEF x, y
  <2>3. ~ParseChars(doc, f).thrown /\ ~ParseChars(doc, f).ok /\ ParseChars(doc, f).errors = Append(r.errors, b)
    BY <2>1, <2>2, Zenon
  <2>4. QED
    BY <1>8, <1>9, <1>11, <2>3, Zenon
<1>12. CASE EndsWell(doc, f, r.at) /\ ~BeginsWell(doc, f)
  <2>1. ParseChars(doc, f) = Failure(r.at, Append(r.errors, 1))
    BY <1>6, <1>12
  <2>2. /\ Failure(r.at, Append(r.errors, 1)).ok = FALSE
        /\ Failure(r.at, Append(r.errors, 1)).thrown = FALSE
        /\ Failure(r.at, Append(r.errors, 1)).errors = Append(r.errors, 1)
    <3> DEFINE x == Append(r.errors, 1)
    <3> DEFINE y == r.at
    <3> HIDE DEF x, y
    <3>1. Failure(y, x).ok = FALSE /\ Failure(y, x).thrown = FALSE /\ Failure(y, x).errors = x
      BY DEF Failure
    <3>2. QED
      BY <3>1 DEF x, y
  <2>3. ~ParseChars(doc, f).thrown /\ ~ParseChars(doc, f).ok /\ ParseChars(doc, f).errors = Append(r.errors, 1)
    BY <2>1, <2>2, Zenon
  <2>4. QED
    BY <1>8, <1>9, <1>12, <2>3, Zenon
<1>13. CASE EndsWell(doc, f, r.at) /\ BeginsWell(doc, f)
  <2>1. ParseChars(doc, f) = r
    BY <1>6, <1>13
  <2>2. QED
    BY <1>4, <1>8, <1>10, <1>13, <2>1
<1>14. QED
  BY <1>11, <1>12, <1>13

LEMMA SettingsAre ==
    ASSUME NEW f \in {SetDefaults, StrictMode, AsReader} \cup OtherSettings
    PROVE  IsSettings(f)
<1>1. DOMAIN SetDefaults = {"allowComments", "allowTrailingCommas", "strictRoot", "allowDroppedNullPlaceholders",
        "allowNumericKeys", "allowSingleQuotes", "failIfExtra", "rejectDupKeys", "allowSpecialFloats", "skipBom"}
  BY DEF SetDefaults
<1> DEFINE D == DOMAIN SetDefaults
<1> DEFINE InF(g) == DOMAIN g = D /\ \A x \in D : g[x] \in BOOLEAN
<1>2. CASE f \in {SetDefaults, StrictMode, AsReader}
  <2>1. InF(SetDefaults)
    <3>0. IsSettings(SetDefaults)
      BY DEF IsSettings, SetDefaults
    <3>1. \A x \in D : SetDefaults[x] \in BOOLEAN
      BY <1>1, <3>0 DEF IsSettings
    <3>2. QED
      BY <3>1, Zenon
  <2>2. \A g, a, v : InF(g) /\ a \in D /\ v \in BOOLEAN => InF([g EXCEPT ![a] = v])
    <3> HIDE DEF D
    <3>1. QED
      OBVIOUS
  <2>3. /\ "allowComments" \in D /\ "allowTrailingCommas" \in D /\ "strictRoot" \in D /\ "failIfExtra" \in D
        /\ "rejectDupKeys" \in D /\ "skipBom" \in D
    BY <1>1
  <2> HIDE DEF D, InF
  <2>4. InF(StrictMode)
    <3> DEFINE g1 == [SetDefaults EXCEPT !["allowComments"] = FALSE]
    <3> DEFINE g2 == [g1 EXCEPT !["allowTrailingCommas"] = FALSE]
    <3> DEFINE g3 == [g2 EXCEPT !["strictRoot"] = TRUE]
    <3> DEFINE g4 == [g3 EXCEPT !["failIfExtra"] = TRUE]
    <3> DEFINE g5 == [g4 EXCEPT !["rejectDupKeys"] = TRUE]
    <3>0. StrictMode = g5
      BY Zenon DEF StrictMode
    <3>1. InF(g1)
      BY <2>1, <2>2, <2>3
    <3> HIDE DEF g1
    <3>2. InF(g2)
      BY <3>1, <2>2, <2>3
    <3> HIDE DEF g2
    <3>3. InF(g3)
      BY <3>2, <2>2, <2>3
    <3> HIDE DEF g3
    <3>4. InF(g4)
      BY <3>3, <2>2, <2>3
    <3> HIDE DEF g4
    <3>5. InF(g5)
      BY <3>4, <2>2, <2>3
    <3>6. QED
      BY <3>0, <3>5
  <2>5. InF(AsReader)
    <3> DEFINE g1 == [SetDefaults EXCEPT !["allowTrailingCommas"] = FALSE]
    <3> DEFINE g2 == [g1 EXCEPT !["skipBom"] = FALSE]
    <3>0. AsReader = g2
      BY Zenon DEF AsReader
    <3>1. InF(g1)
      BY <2>1, <2>2, <2>3
    <3> HIDE DEF g1
    <3>2. InF(g2)
      BY <3>1, <2>2, <2>3
    <3>3. QED
      BY <3>0, <3>2
  <2>6. InF(f)
    BY <1>2, <2>1, <2>4, <2>5
  <2>7. QED
    BY <1>1, <2>6 DEF IsSettings, D, InF
<1>3. CASE f \in OtherSettings
  <2>1. f \in [DOMAIN SetDefaults -> BOOLEAN]
    BY <1>3, CharReaderAssumption
  <2>2. QED
    BY <1>1, <2>1 DEF IsSettings
<1>4. QED
  BY <1>2, <1>3

\* OurReader accepts the documents of its grammar, and throws only of deep ones.
CharReadsItsGrammar(doc, f) ==
    IF ParseChars(doc, f).thrown THEN Nesting(doc) >= StackLimit
    ELSE /\ ParseChars(doc, f).ok <=> IsDocument(doc, f)
         /\ ParseChars(doc, f).ok <=> ParseChars(doc, f).errors = <<>>

LEMMA CharGrammarRead ==
    ASSUME NEW doc \in Seq(CharTokens), NEW f \in {SetDefaults, StrictMode, AsReader} \cup OtherSettings
    PROVE  CharReadsItsGrammar(doc, f)
<1>1. IsSettings(f)
  BY SettingsAre
<1>2. CASE CharRead(doc, f).thrown
  <2>1. ParseChars(doc, f).thrown
    BY <1>2, ParseCharsIs, Zenon
  <2>2. Nesting(doc) >= StackLimit
    BY <1>2, ThrownIsDeep
  <2>3. QED
    BY <2>1, <2>2 DEF CharReadsItsGrammar
<1>3. CASE ~CharRead(doc, f).thrown
  BY <1>1, <1>3, DocumentsRead, Zenon DEF CharReadsItsGrammar
<1>4. QED
  BY <1>2, <1>3

-----------------------------------------------------------------------------
(* The grammar of Reader is that of OurReader under the settings AsReader. *)

LEMMA AsReaderIs ==
    /\ AsReader.allowComments = TRUE /\ AsReader.allowTrailingCommas = FALSE /\ AsReader.strictRoot = FALSE
    /\ AsReader.allowDroppedNullPlaceholders = FALSE /\ AsReader.allowNumericKeys = FALSE
    /\ AsReader.allowSingleQuotes = FALSE /\ AsReader.failIfExtra = FALSE /\ AsReader.rejectDupKeys = FALSE
    /\ AsReader.allowSpecialFloats = FALSE /\ AsReader.skipBom = FALSE
BY DEF AsReader, SetDefaults

LEMMA AsReaderTokens ==
    /\ IsSettings(AsReader)
    /\ Refused(AsReader) = {"bom"} \cup SingleQuoted \cup SpecialFloats
    /\ CharTexts \ Refused(AsReader) = Strings \cup Scalars
    /\ NameTokens(AsReader) = Strings
<1>1. IsSettings(AsReader)
  BY SettingsAre
<1>2. Refused(AsReader) = {"bom"} \cup SingleQuoted \cup SpecialFloats
  BY AsReaderIs DEF Refused
<1>3. \A t \in Strings \cup Scalars : t \notin {"bom"} \cup SingleQuoted \cup SpecialFloats
  BY CharReaderAssumption DEF Tokens
<1>4. CharTexts \ Refused(AsReader) = Strings \cup Scalars
  BY <1>2, <1>3 DEF CharTexts
<1>5. NameTokens(AsReader) = Strings
  BY <1>2, <1>3, AsReaderIs DEF NameTokens
<1>6. QED
  BY <1>1, <1>2, <1>4, <1>5

LEMMA AsReaderHasValue ==
    ASSUME NEW T, NEW doc \in Seq(T), NEW i \in 1 .. Len(doc) + 1, NEW j \in 0 .. Len(doc)
    PROVE  /\ HasValue(doc, AsReader, i, j) <=>
                 /\ i <= j
                 /\ \/ doc[i] = "/" /\ HasValue(doc, AsReader, i + 1, j)
                    \/ i = j /\ doc[i] \in Strings \cup Scalars
                    \/ i < j /\ doc[i] = "[" /\ doc[j] = "]" /\ (j = i + 1 \/ HasElements(doc, AsReader, i + 1, j - 1))
                    \/ i < j /\ doc[i] = "{" /\ doc[j] = "}" /\ HasMembers(doc, AsReader, i + 1, j - 1, TRUE, {})
           /\ HasValue(doc, AsReader, i, j) => i <= j
<1>1. AsReader.allowComments = TRUE
  BY AsReaderIs
<1> DEFINE f == AsReader
<1>2. IsSettings(f) /\ CharTexts \ Refused(f) = Strings \cup Scalars
  BY AsReaderTokens
<1>3. HasValue(doc, f, i, j) <=>
             /\ i <= j
             /\ \/ f.allowComments /\ doc[i] = "/" /\ HasValue(doc, f, i + 1, j)
                \/ i = j /\ doc[i] \in CharTexts \ Refused(f)
                \/ i < j /\ doc[i] = "[" /\ doc[j] = "]" /\ (j = i + 1 \/ HasElements(doc, f, i + 1, j - 1))
                \/ i < j /\ doc[i] = "{" /\ doc[j] = "}" /\ HasMembers(doc, f, i + 1, j - 1, TRUE, {})
  <2> HIDE DEF f
  <2>1. QED
    BY <1>2, ValueRule, Zenon
<1>4. QED
  BY <1>1, <1>2, <1>3, Zenon

LEMMA AsReaderMayBe ==
    ASSUME NEW doc, NEW i, NEW j
    PROVE  MayBeValue(doc, AsReader, i, j) <=> HasValue(doc, AsReader, i, j)
<1>1. AsReader.allowDroppedNullPlaceholders = FALSE
  BY AsReaderIs
<1>2. ~Dropped(doc, i, j, AsReader)
  BY <1>1, Zenon DEF Dropped
<1>3. QED
  BY <1>2, MayBeValueIs, Zenon

LEMMA AsReaderHasElements ==
    ASSUME NEW T, NEW doc \in Seq(T), NEW i \in 1 .. Len(doc) + 1, NEW j \in 0 .. Len(doc)
    PROVE  HasElements(doc, AsReader, i, j) <=>
             \E k \in i .. j :
                 /\ HasValue(doc, AsReader, i, k)
                 /\ \E t \in k + 1 .. j + 1 :
                       /\ Comments(doc, k + 1, t - 1)
                       /\ t = j + 1 \/ (doc[t] = "," /\ HasElements(doc, AsReader, t + 1, j))
<1> DEFINE f == AsReader
<1> DEFINE rest(k) == \E t \in k + 1 .. j + 1 :
                       /\ Comments(doc, k + 1, t - 1)
                       /\ t = j + 1 \/ (doc[t] = "," /\ HasElements(doc, f, t + 1, j))
<1>1. f.allowTrailingCommas = FALSE /\ IsSettings(f)
  BY AsReaderIs, AsReaderTokens
<1>2. HasElements(doc, f, i, j) <=> \E k \in i - 1 .. j : HasValue(doc, f, i, k) /\ rest(k)
  <2>0. \A k : MayBeValue(doc, f, i, k) <=> HasValue(doc, f, i, k)
    BY AsReaderMayBe
  <2> HIDE DEF f
  <2>1. HasElements(doc, f, i, j) <=>
             \E k \in i - 1 .. j :
                 /\ MayBeValue(doc, f, i, k)
                 /\ \E t \in k + 1 .. j + 1 :
                       /\ Comments(doc, k + 1, t - 1)
                       /\ \/ t = j + 1
                          \/ doc[t] = "," /\ HasElements(doc, f, t + 1, j)
                          \/ doc[t] = "," /\ t = j /\ f.allowTrailingCommas /\ ~f.allowDroppedNullPlaceholders
    BY <1>1, ElementsRule, Zenon
  <2>2. QED
    BY <1>1, <2>0, <2>1, Zenon
<1> HIDE DEF rest
<1>3. \A k \in i - 1 .. j : HasValue(doc, f, i, k) => k \in i .. j
  <2>1. SUFFICES ASSUME NEW k \in i - 1 .. j, HasValue(doc, f, i, k) PROVE k \in i .. j
    OBVIOUS
  <2>2. Len(doc) \in Nat /\ k \in 0 .. Len(doc)
    OBVIOUS
  <2>3. i <= k
    BY <2>1, <2>2, AsReaderHasValue
  <2>4. QED
    BY <2>1, <2>3
<1>4. \A k \in i .. j : k \in i - 1 .. j
  OBVIOUS
<1>5. HasElements(doc, f, i, j) <=> \E k \in i .. j : HasValue(doc, f, i, k) /\ rest(k)
  BY <1>2, <1>3, <1>4, Zenon
<1>6. QED
  BY <1>5, Zenon DEF rest

\* The members of Reader, as the grammar has them.
MoreFollow(doc, k, t, j, is) ==
    \/ t = j + 1
    \/ doc[k + 1] \in {",", "/"} /\ doc[t] \notin {"}", "/"} /\ is
NoName(name) == name = ""
MemberFollows(doc, x, q, j) ==
    \E k \in q + 2 .. j :
        /\ x[<<"value", q + 2, k, FALSE>>]
        /\ \E t \in k + 1 .. j + 1 :
              Comments(doc, k + 1, t - 1) /\ MoreFollow(doc, k, t, j, x[<<"object", t + 1, j, NoName(doc[q])>>])
MemberStands(doc, x, q, j) ==
    q + 2 <= j /\ doc[q] \in Strings /\ doc[q + 1] = ":" /\ MemberFollows(doc, x, q, j)

LEMMA IsMembersAre ==
    ASSUME NEW doc, NEW x, NEW i, NEW j, NEW u
    PROVE  IsMembers(doc, x, i, j, u) <=>
             \E m \in i .. j + 1 : Comments(doc, i, m - 1) /\ ((m = j + 1 /\ u) \/ MemberStands(doc, x, m, j))
BY Zenon DEF IsMembers, MemberStands, MemberFollows, MoreFollow, NoName

LEMMA AsReaderMore ==
    ASSUME NEW doc, NEW k, NEW t, NEW j, NEW name, NEW names
    PROVE  MoreMembers(doc, AsReader, k, t, j, name, names) <=>
             MoreFollow(doc, k, t, j, HasMembers(doc, AsReader, t + 1, j, NoName(name), names \cup {name}))
<1>1. AsReader.allowTrailingCommas = FALSE
  BY AsReaderIs
<1>2. (name = "" \/ AsReader.allowTrailingCommas) = NoName(name)
  BY <1>1, Zenon DEF NoName
<1>3. QED
  BY <1>2, Zenon DEF MoreMembers, MoreFollow

LEMMA AsReaderName ==
    ASSUME NEW doc, NEW q, NEW names
    PROVE  NameIs(doc, AsReader, q, names) <=> doc[q] \in Strings
<1>1. AsReader.rejectDupKeys = FALSE
  BY AsReaderIs
<1>2. QED
  BY <1>1, AsReaderTokens, Zenon DEF NameIs

\* What stands in the spans from a place on, to an end at most, is what x says.
ValueSpansAgree(doc, x, p, e) ==
    \A i \in p .. Len(doc) + 1, j \in 0 .. e : x[<<"value", i, j, FALSE>>] <=> HasValue(doc, AsReader, i, j)
ElementSpansAgree(doc, x, p, e) ==
    \A i \in p .. Len(doc) + 1, j \in 0 .. e : x[<<"array", i, j, FALSE>>] <=> HasElements(doc, AsReader, i, j)
MemberSpansAgree(doc, x, p, e) ==
    \A i \in p .. Len(doc) + 1, j \in 0 .. e, u \in BOOLEAN, names \in SUBSET CharNames :
        x[<<"object", i, j, u>>] <=> HasMembers(doc, AsReader, i, j, u, names)

LEMMA ValueSame ==
    ASSUME NEW T, NEW doc \in Seq(T), NEW x, NEW i \in 1 .. Len(doc) + 1, NEW j \in 0 .. Len(doc),
           ValueSpansAgree(doc, x, i + 1, j), ElementSpansAgree(doc, x, i + 1, j), MemberSpansAgree(doc, x, i + 1, j)
    PROVE  IsValue(doc, x, i, j) <=> HasValue(doc, AsReader, i, j)
<1>1. CASE ~(i <= j)
  <2>1. ~HasValue(doc, AsReader, i, j)
    BY <1>1, AsReaderHasValue
  <2>2. QED
    BY <1>1, <2>1, Zenon DEF IsValue
<1>2. CASE i <= j
  <2>0. i + 1 \in i + 1 .. Len(doc) + 1 /\ j \in 0 .. j /\ j - 1 \in 0 .. j
    BY <1>2
  <2>1. x[<<"value", i + 1, j, FALSE>>] <=> HasValue(doc, AsReader, i + 1, j)
    BY <2>0, Zenon DEF ValueSpansAgree
  <2>2. x[<<"array", i + 1, j - 1, FALSE>>] <=> HasElements(doc, AsReader, i + 1, j - 1)
    BY <2>0, Zenon DEF ElementSpansAgree
  <2>3. x[<<"object", i + 1, j - 1, TRUE>>] <=> HasMembers(doc, AsReader, i + 1, j - 1, TRUE, {})
    <3>1. TRUE \in BOOLEAN /\ {} \in SUBSET CharNames
      OBVIOUS
    <3>2. QED
      BY <2>0, <3>1, Zenon DEF MemberSpansAgree
  <2>4. HasValue(doc, AsReader, i, j) <=>
                 /\ i <= j
                 /\ \/ doc[i] = "/" /\ HasValue(doc, AsReader, i + 1, j)
                    \/ i = j /\ doc[i] \in Strings \cup Scalars
                    \/ i < j /\ doc[i] = "[" /\ doc[j] = "]" /\ (j = i + 1 \/ HasElements(doc, AsReader, i + 1, j - 1))
                    \/ i < j /\ doc[i] = "{" /\ doc[j] = "}" /\ HasMembers(doc, AsReader, i + 1, j - 1, TRUE, {})
    BY AsReaderHasValue, Zenon
  <2>5. QED
    BY <2>1, <2>2, <2>3, <2>4, Zenon DEF IsValue
<1>3. QED
  BY <1>1, <1>2

LEMMA ElementsSame ==
    ASSUME NEW T, NEW doc \in Seq(T), NEW x, NEW i \in 1 .. Len(doc) + 1, NEW j \in 0 .. Len(doc),
           ValueSpansAgree(doc, x, i, j), ElementSpansAgree(doc, x, i + 1, j)
    PROVE  IsElements(doc, x, i, j) <=> HasElements(doc, AsReader, i, j)
<1>1. HasElements(doc, AsReader, i, j) <=>
             \E k \in i .. j :
                 /\ HasValue(doc, AsReader, i, k)
                 /\ \E t \in k + 1 .. j + 1 :
                       /\ Comments(doc, k + 1, t - 1)
                       /\ t = j + 1 \/ (doc[t] = "," /\ HasElements(doc, AsReader, t + 1, j))
  BY AsReaderHasElements, Zenon
<1>2. ASSUME NEW k \in i .. j PROVE x[<<"value", i, k, FALSE>>] <=> HasValue(doc, AsReader, i, k)
  <2>1. i \in i .. Len(doc) + 1 /\ k \in 0 .. j
    OBVIOUS
  <2>2. QED
    BY <2>1, Zenon DEF ValueSpansAgree
<1>3. ASSUME NEW k \in i .. j, NEW t \in k + 1 .. j + 1, t # j + 1
      PROVE  x[<<"array", t + 1, j, FALSE>>] <=> HasElements(doc, AsReader, t + 1, j)
  <2>1. t + 1 \in i + 1 .. Len(doc) + 1 /\ j \in 0 .. j
    BY <1>3
  <2>2. QED
    BY <2>1, Zenon DEF ElementSpansAgree
<1>4. QED
  BY <1>1, <1>2, <1>3, Zenon DEF IsElements

LEMMA MembersSame ==
    ASSUME NEW T, NEW doc \in Seq(T), NEW x, NEW i \in 1 .. Len(doc) + 1, NEW j \in 0 .. Len(doc),
           NEW u \in BOOLEAN, NEW names \in SUBSET CharNames,
           ValueSpansAgree(doc, x, i, j), MemberSpansAgree(doc, x, i + 1, j)
    PROVE  IsMembers(doc, x, i, j, u) <=> HasMembers(doc, AsReader, i, j, u, names)
<1>0. Len(doc) \in Nat
  OBVIOUS
<1>1. ASSUME NEW m \in i .. j + 1 PROVE MemberStands(doc, x, m, j) <=> FirstMember(doc, AsReader, m, j, names)
  <2>1. CASE ~(m + 1 <= j /\ doc[m] \in Strings)
    <3>1. ~(m + 2 <= j /\ doc[m] \in Strings)
      BY <2>1
    <3>2. ~MemberStands(doc, x, m, j)
      BY <3>1, Zenon DEF MemberStands
    <3>3. ~FirstMember(doc, AsReader, m, j, names)
      BY <2>1, AsReaderName, Zenon DEF FirstMember
    <3>4. QED
      BY <3>2, <3>3
  <2>2. CASE m + 1 <= j /\ doc[m] \in Strings
    <3>0. m + 2 \in 1 .. Len(doc) + 1 /\ m + 2 \in i .. Len(doc) + 1
      BY <2>2, <1>0
    <3>1. ASSUME NEW k \in m + 1 .. j
          PROVE  MayBeValue(doc, AsReader, m + 2, k) <=> (k \in m + 2 .. j /\ x[<<"value", m + 2, k, FALSE>>])
      <4>1. k \in 0 .. j /\ k \in 0 .. Len(doc)
        OBVIOUS
      <4>2. x[<<"value", m + 2, k, FALSE>>] <=> HasValue(doc, AsReader, m + 2, k)
        BY <3>0, <4>1, Zenon DEF ValueSpansAgree
      <4>3. HasValue(doc, AsReader, m + 2, k) => m + 2 <= k
        BY <3>0, <4>1, AsReaderHasValue
      <4>4. m + 2 <= k <=> k \in m + 2 .. j
        OBVIOUS
      <4>5. QED
        BY <4>2, <4>3, <4>4, AsReaderMayBe, Zenon
    <3>2. ASSUME NEW k \in m + 1 .. j, NEW t \in k + 1 .. j + 1
          PROVE  MoreMembers(doc, AsReader, k, t, j, doc[m], names)
                   <=> MoreFollow(doc, k, t, j, x[<<"object", t + 1, j, NoName(doc[m])>>])
      <4> DEFINE more == names \cup {doc[m]}
      <4>1. NoName(doc[m]) \in BOOLEAN /\ more \in SUBSET CharNames
        <5>1. doc[m] \in CharNames
          BY <2>2 DEF CharNames
        <5>2. NoName(doc[m]) \in BOOLEAN
          BY Zenon DEF NoName
        <5>3. QED
          BY <5>1, <5>2
      <4>2. MoreMembers(doc, AsReader, k, t, j, doc[m], names) <=>
               MoreFollow(doc, k, t, j, HasMembers(doc, AsReader, t + 1, j, NoName(doc[m]), more))
        BY AsReaderMore
      <4>3. CASE t = j + 1
        BY <4>2, <4>3, Zenon DEF MoreFollow
      <4>4. CASE t # j + 1
        <5>1. t + 1 \in i + 1 .. Len(doc) + 1 /\ j \in 0 .. j
          BY <4>4
        <5> HIDE DEF more
        <5>2. x[<<"object", t + 1, j, NoName(doc[m])>>] <=> HasMembers(doc, AsReader, t + 1, j, NoName(doc[m]), more)
          BY <4>1, <5>1, Zenon DEF MemberSpansAgree
        <5>3. QED
          BY <4>2, <5>2, Zenon DEF MoreFollow
      <4>5. QED
        BY <4>3, <4>4
    <3> DEFINE after(k) == \E t \in k + 1 .. j + 1 :
              Comments(doc, k + 1, t - 1) /\ MoreFollow(doc, k, t, j, x[<<"object", t + 1, j, NoName(doc[m])>>])
    <3>3. MemberValue(doc, AsReader, m, j, names) <=>
            \E k \in m + 1 .. j : MayBeValue(doc, AsReader, m + 2, k) /\ after(k)
      BY <3>2, Zenon DEF MemberValue
    <3>4. MemberFollows(doc, x, m, j) <=> \E k \in m + 2 .. j : x[<<"value", m + 2, k, FALSE>>] /\ after(k)
      BY Zenon DEF MemberFollows
    <3> HIDE DEF after
    <3>5. \A k \in m + 2 .. j : k \in m + 1 .. j /\ m + 2 <= j
      OBVIOUS
    <3>6. MemberValue(doc, AsReader, m, j, names) <=> MemberFollows(doc, x, m, j)
      BY <3>1, <3>3, <3>4, <3>5, Zenon
    <3>7. MemberFollows(doc, x, m, j) => m + 2 <= j
      BY <3>4, <3>5, Zenon
    <3>8. QED
      BY <2>2, <3>6, <3>7, AsReaderName, Zenon DEF MemberStands, FirstMember
  <2>3. QED
    BY <2>1, <2>2
<1>2. HasMembers(doc, AsReader, i, j, u, names) <=>
        \E m \in i .. j + 1 : Comments(doc, i, m - 1) /\ ((m = j + 1 /\ u) \/ FirstMember(doc, AsReader, m, j, names))
  BY AsReaderTokens, MembersRule
<1>3. IsMembers(doc, x, i, j, u) <=>
        \E m \in i .. j + 1 : Comments(doc, i, m - 1) /\ ((m = j + 1 /\ u) \/ MemberStands(doc, x, m, j))
  BY IsMembersAre
<1>4. QED
  BY <1>1, <1>2, <1>3, Zenon

LEMMA SpanIs ==
    ASSUME NEW T, NEW doc \in Seq(T), NEW s \in Spans(doc)
    PROVE  IsSpan(doc, s) /\ s[4] \in BOOLEAN /\ s = <<s[1], s[2], s[3], s[4]>>
BY DEF Spans, IsSpan

LEMMA SpansAre ==
    ASSUME NEW T, NEW doc \in Seq(T), NEW e \in {"value", "object", "array"}, NEW i \in 1 .. Len(doc) + 1,
           NEW j \in 0 .. Len(doc), NEW b \in BOOLEAN
    PROVE  <<e, i, j, b>> \in Spans(doc)
BY DEF Spans

\* Whatever the names before it, a span is what x says.
NamedSpan(s, names) == <<s[1], s[2], s[3], s[4], names>>
SpanSame(doc, x, s) ==
    \A names \in SUBSET CharNames : x[s] <=> CharGrammar(doc, AsReader)[NamedSpan(s, names)]
SameInside(doc, x, s) ==
    \A r \in Spans(doc) : SpanMeasure(doc, r) < SpanMeasure(doc, s) => SpanSame(doc, x, r)

LEMMA NamedSpanHas ==
    ASSUME NEW T, NEW doc \in Seq(T), NEW s \in Spans(doc), NEW names \in SUBSET CharNames
    PROVE  /\ CharGrammar(doc, AsReader)[NamedSpan(s, names)] \in BOOLEAN
           /\ s[1] = "value" => CharGrammar(doc, AsReader)[NamedSpan(s, names)] = HasValue(doc, AsReader, s[2], s[3])
           /\ s[1] = "array" => CharGrammar(doc, AsReader)[NamedSpan(s, names)] = HasElements(doc, AsReader, s[2], s[3])
           /\ s[1] = "object" =>
                CharGrammar(doc, AsReader)[NamedSpan(s, names)] = HasMembers(doc, AsReader, s[2], s[3], s[4], names)
<1> DEFINE g == CharGrammar(doc, AsReader)
<1> DEFINE r == NamedSpan(s, names)
<1>1. IsSpan(doc, s) /\ s[4] \in BOOLEAN
  BY SpanIs
<1>2. s[1] \in {"value", "object", "array"} /\ s[2] \in 1 .. Len(doc) + 1 /\ s[3] \in 0 .. Len(doc)
  BY <1>1 DEF IsSpan
<1>3. r \in CharSpans(doc)
  BY <1>1, <1>2, CharSpansAre DEF NamedSpan
<1>4. r[1] = s[1] /\ r[2] = s[2] /\ r[3] = s[3]
  BY DEF NamedSpan
<1>5. \A y \in CharSpans(doc) : g[y] = CharDerived(doc, g, y, AsReader) /\ g[y] \in BOOLEAN
  BY AsReaderTokens, CharGrammarIs
<1>6. s[1] = "value" => g[r] = HasValue(doc, AsReader, s[2], s[3])
  <2> DEFINE v == <<"value", s[2], s[3], FALSE, {}>>
  <2>1. v \in CharSpans(doc)
    BY <1>2, CharSpansAre
  <2>2. v[1] = "value" /\ v[2] = s[2] /\ v[3] = s[3] /\ HasValue(doc, AsReader, s[2], s[3]) = g[v]
    BY DEF HasValue
  <2> HIDE DEF v, r, g
  <2>3. QED
    BY <1>3, <1>4, <1>5, <2>1, <2>2, Zenon DEF CharDerived
<1>7. s[1] = "array" => g[r] = HasElements(doc, AsReader, s[2], s[3])
  <2> DEFINE v == <<"array", s[2], s[3], FALSE, {}>>
  <2>1. v \in CharSpans(doc)
    BY <1>2, CharSpansAre
  <2>2. v[1] = "array" /\ v[2] = s[2] /\ v[3] = s[3] /\ HasElements(doc, AsReader, s[2], s[3]) = g[v]
    BY DEF HasElements
  <2>3. "array" # "value" /\ "array" # "object"
    OBVIOUS
  <2> HIDE DEF v, r, g
  <2>4. QED
    BY <1>3, <1>4, <1>5, <2>1, <2>2, <2>3, Zenon DEF CharDerived
<1>8. s[1] = "object" => g[r] = HasMembers(doc, AsReader, s[2], s[3], s[4], names)
  BY DEF HasMembers, NamedSpan
<1>9. QED
  BY <1>3, <1>5, <1>6, <1>7, <1>8

LEMMA SmallerSpan ==
    ASSUME NEW T, NEW doc \in Seq(T), NEW s \in Spans(doc), NEW e \in {"value", "object", "array"}, NEW i \in 1 .. Len(doc) + 1,
           NEW j \in 0 .. Len(doc), NEW b \in BOOLEAN, i >= s[2], j <= s[3], i > s[2] \/ (e = "value" /\ s[1] # "value")
    PROVE  /\ <<e, i, j, b>> \in Spans(doc)
           /\ SpanMeasure(doc, <<e, i, j, b>>) < SpanMeasure(doc, s)
<1> DEFINE r == <<e, i, j, b>>
<1>1. r \in Spans(doc)
  BY SpansAre
<1>2. r[1] = e /\ r[2] = i /\ r[3] = j
  OBVIOUS
<1> HIDE DEF r
<1>3. SpanMeasure(doc, r) < SpanMeasure(doc, s)
  <2>1. IsSpan(doc, s)
    BY SpanIs
  <2>2. IsSpan(doc, r)
    BY <1>2 DEF IsSpan
  <2>3. r[2] >= s[2] /\ r[3] <= s[3] /\ (r[2] > s[2] \/ (r[1] = "value" /\ s[1] # "value"))
    BY <1>2
  <2>4. QED
    BY <2>1, <2>2, <2>3, InnerSpanSmaller
<1>4. QED
  BY <1>1, <1>3 DEF r

LEMMA AgreeFromInside ==
    ASSUME NEW T, NEW doc \in Seq(T), NEW x, NEW s \in Spans(doc), SameInside(doc, x, s)
    PROVE  /\ ValueSpansAgree(doc, x, s[2] + 1, s[3]) /\ (s[1] # "value" => ValueSpansAgree(doc, x, s[2], s[3]))
           /\ ElementSpansAgree(doc, x, s[2] + 1, s[3]) /\ MemberSpansAgree(doc, x, s[2] + 1, s[3])
<1>0. Len(doc) \in Nat /\ s[2] \in 1 .. Len(doc) + 1 /\ s[3] \in 0 .. Len(doc) /\ {} \in SUBSET CharNames
  BY SpanIs DEF IsSpan
<1>1. ASSUME NEW e \in {"value", "object", "array"}, NEW i \in s[2] .. Len(doc) + 1, NEW j \in 0 .. s[3],
             NEW b \in BOOLEAN, i > s[2] \/ (e = "value" /\ s[1] # "value"), NEW names \in SUBSET CharNames
      PROVE  /\ <<e, i, j, b>> \in Spans(doc)
             /\ x[<<e, i, j, b>>] <=> CharGrammar(doc, AsReader)[NamedSpan(<<e, i, j, b>>, names)]
  <2>1. i \in 1 .. Len(doc) + 1 /\ j \in 0 .. Len(doc) /\ i >= s[2] /\ j <= s[3]
    BY <1>0
  <2> DEFINE r == <<e, i, j, b>>
  <2>2. r \in Spans(doc) /\ SpanMeasure(doc, r) < SpanMeasure(doc, s)
    BY <1>1, <2>1, SmallerSpan
  <2> HIDE DEF r
  <2>3. x[r] <=> CharGrammar(doc, AsReader)[NamedSpan(r, names)]
    BY <2>2 DEF SameInside, SpanSame
  <2>4. QED
    BY <2>2, <2>3 DEF r
<1>2. ASSUME NEW i \in s[2] .. Len(doc) + 1, NEW j \in 0 .. s[3], i > s[2] \/ s[1] # "value"
      PROVE  x[<<"value", i, j, FALSE>>] <=> HasValue(doc, AsReader, i, j)
  <2> DEFINE r == <<"value", i, j, FALSE>>
  <2>0. "value" \in {"value", "object", "array"}
    OBVIOUS
  <2>1. r \in Spans(doc) /\ (x[r] <=> CharGrammar(doc, AsReader)[NamedSpan(r, {})])
    BY <1>0, <1>1, <1>2, <2>0
  <2>2. r[1] = "value" /\ r[2] = i /\ r[3] = j
    OBVIOUS
  <2> HIDE DEF r
  <2>3. x[r] <=> HasValue(doc, AsReader, i, j)
    BY <1>0, <2>1, <2>2, NamedSpanHas
  <2>4. QED
    BY <2>3 DEF r
<1>3. ASSUME NEW i \in s[2] + 1 .. Len(doc) + 1, NEW j \in 0 .. s[3]
      PROVE  x[<<"array", i, j, FALSE>>] <=> HasElements(doc, AsReader, i, j)
  <2> DEFINE r == <<"array", i, j, FALSE>>
  <2>0. "array" \in {"value", "object", "array"} /\ i \in s[2] .. Len(doc) + 1 /\ i > s[2]
    BY <1>0
  <2>1. r \in Spans(doc) /\ (x[r] <=> CharGrammar(doc, AsReader)[NamedSpan(r, {})])
    BY <1>0, <1>1, <2>0
  <2>2. r[1] = "array" /\ r[2] = i /\ r[3] = j
    OBVIOUS
  <2> HIDE DEF r
  <2>3. x[r] <=> HasElements(doc, AsReader, i, j)
    BY <1>0, <2>1, <2>2, NamedSpanHas
  <2>4. QED
    BY <2>3 DEF r
<1>4. ASSUME NEW i \in s[2] + 1 .. Len(doc) + 1, NEW j \in 0 .. s[3], NEW u \in BOOLEAN, NEW names \in SUBSET CharNames
      PROVE  x[<<"object", i, j, u>>] <=> HasMembers(doc, AsReader, i, j, u, names)
  <2> DEFINE r == <<"object", i, j, u>>
  <2>0. "object" \in {"value", "object", "array"} /\ i \in s[2] .. Len(doc) + 1 /\ i > s[2]
    BY <1>0
  <2>1. r \in Spans(doc) /\ (x[r] <=> CharGrammar(doc, AsReader)[NamedSpan(r, names)])
    BY <1>0, <1>1, <2>0
  <2>2. r[1] = "object" /\ r[2] = i /\ r[3] = j /\ r[4] = u
    OBVIOUS
  <2> HIDE DEF r
  <2>3. x[r] <=> HasMembers(doc, AsReader, i, j, u, names)
    BY <2>1, <2>2, NamedSpanHas
  <2>4. QED
    BY <2>3 DEF r
<1>5. ValueSpansAgree(doc, x, s[2] + 1, s[3])
  <2>1. \A i \in s[2] + 1 .. Len(doc) + 1 : i \in s[2] .. Len(doc) + 1 /\ i > s[2]
    BY <1>0
  <2>2. QED
    BY <1>2, <2>1, Zenon DEF ValueSpansAgree
<1>6. s[1] # "value" => ValueSpansAgree(doc, x, s[2], s[3])
  BY <1>2, Zenon DEF ValueSpansAgree
<1>7. ElementSpansAgree(doc, x, s[2] + 1, s[3])
  BY <1>3, Zenon DEF ElementSpansAgree
<1>8. MemberSpansAgree(doc, x, s[2] + 1, s[3])
  BY <1>4, Zenon DEF MemberSpansAgree
<1>9. QED
  BY <1>5, <1>6, <1>7, <1>8

LEMMA DerivedSame ==
    ASSUME NEW T, NEW doc \in Seq(T), NEW x, NEW s \in Spans(doc), SameInside(doc, x, s), NEW names \in SUBSET CharNames
    PROVE  /\ Derived(doc, x, s) <=> CharGrammar(doc, AsReader)[NamedSpan(s, names)]
           /\ Derived(doc, x, s) \in BOOLEAN
<1>0. /\ s[1] \in {"value", "object", "array"} /\ s[2] \in 1 .. Len(doc) + 1 /\ s[3] \in 0 .. Len(doc)
      /\ s[4] \in BOOLEAN
  BY SpanIs DEF IsSpan
<1>1. /\ ValueSpansAgree(doc, x, s[2] + 1, s[3]) /\ (s[1] # "value" => ValueSpansAgree(doc, x, s[2], s[3]))
      /\ ElementSpansAgree(doc, x, s[2] + 1, s[3]) /\ MemberSpansAgree(doc, x, s[2] + 1, s[3])
  BY AgreeFromInside
<1>2. CASE s[1] = "value"
  <2>1. Derived(doc, x, s) = IsValue(doc, x, s[2], s[3])
    BY <1>2 DEF Derived
  <2>2. IsValue(doc, x, s[2], s[3]) <=> HasValue(doc, AsReader, s[2], s[3])
    BY <1>0, <1>1, ValueSame
  <2>3. IsValue(doc, x, s[2], s[3]) \in BOOLEAN
    BY DEF IsValue
  <2>4. QED
    BY <1>2, <2>1, <2>2, <2>3, NamedSpanHas
<1>3. CASE s[1] = "array"
  <2>1. Derived(doc, x, s) = IsElements(doc, x, s[2], s[3])
    BY <1>3 DEF Derived
  <2>2. IsElements(doc, x, s[2], s[3]) <=> HasElements(doc, AsReader, s[2], s[3])
    BY <1>0, <1>1, <1>3, ElementsSame
  <2>3. IsElements(doc, x, s[2], s[3]) \in BOOLEAN
    BY DEF IsElements
  <2>4. QED
    BY <1>3, <2>1, <2>2, <2>3, NamedSpanHas
<1>4. CASE s[1] = "object"
  <2>1. Derived(doc, x, s) = IsMembers(doc, x, s[2], s[3], s[4])
    BY <1>4 DEF Derived
  <2>2. IsMembers(doc, x, s[2], s[3], s[4]) <=> HasMembers(doc, AsReader, s[2], s[3], s[4], names)
    BY <1>0, <1>1, <1>4, MembersSame
  <2>3. IsMembers(doc, x, s[2], s[3], s[4]) \in BOOLEAN
    BY DEF IsMembers
  <2>4. QED
    BY <1>4, <2>1, <2>2, <2>3, NamedSpanHas
<1>5. QED
  BY <1>0, <1>2, <1>3, <1>4

\* What holds of a span when it holds of the smaller ones holds of every span.
LEMMA SpansInduction ==
    ASSUME NEW T, NEW doc \in Seq(T), NEW x,
           \A s \in Spans(doc) : SameInside(doc, x, s) => SpanSame(doc, x, s)
    PROVE  \A s \in Spans(doc) : SpanSame(doc, x, s)
<1> DEFINE D == Spans(doc)
<1> DEFINE m == [s \in D |-> SpanMeasure(doc, s)]
<1> DEFINE S == {s \in D : SpanSame(doc, x, s)}
<1>1. \A s \in D : m[s] \in Nat
  <2>1. ASSUME NEW s \in D PROVE SpanMeasure(doc, s) \in Nat
    <3>1. IsSpan(doc, s)
      BY SpanIs
    <3>2. Len(doc) \in Nat
      OBVIOUS
    <3>3. QED
      BY <3>1, <3>2, SpanMeasureIs
  <2>2. QED
    BY <2>1
<1>2. ASSUME NEW s \in D, \A r \in D : m[r] < m[s] => r \in S PROVE s \in S
  <2>1. SameInside(doc, x, s)
    BY <1>2 DEF SameInside
  <2>2. QED
    BY <2>1
<1> HIDE DEF D, m, S
<1>3. \A s \in D : s \in S
  BY <1>1, <1>2, MeasureInduction
<1>4. QED
  BY <1>3 DEF D, S

\* The grammar of Reader has what that of OurReader has.
LEMMA GrammarIs ==
    ASSUME NEW T, NEW doc \in Seq(T)
    PROVE  \A s \in Spans(doc) : SpanSame(doc, Grammar(doc), s)
<1> DEFINE g == CharGrammar(doc, AsReader)
<1> DEFINE x == [s \in Spans(doc) |-> g[NamedSpan(s, {})]]
<1> DEFINE P(is) == is = [s \in Spans(doc) |-> Derived(doc, is, s)]
<1>0. {} \in SUBSET CharNames
  OBVIOUS
<1>1. \A s \in Spans(doc) : x[s] = g[NamedSpan(s, {})]
  OBVIOUS
<1>2. x = [s \in Spans(doc) |-> x[s]]
  OBVIOUS
<1> HIDE DEF x
<1>3. ASSUME NEW s \in Spans(doc), SameInside(doc, x, s) PROVE SpanSame(doc, x, s)
  <2>1. \A names \in SUBSET CharNames : Derived(doc, x, s) <=> g[NamedSpan(s, names)]
    BY <1>3, DerivedSame
  <2> HIDE DEF g
  <2>2. x[s] <=> Derived(doc, x, s)
    BY <1>0, <1>1, <2>1
  <2>3. QED
    BY <2>1, <2>2, Zenon DEF SpanSame, g
<1>4. \A s \in Spans(doc) : SpanSame(doc, x, s)
  BY <1>3, SpansInduction
<1>5. \A s \in Spans(doc) : x[s] = Derived(doc, x, s)
  <2>1. ASSUME NEW s \in Spans(doc) PROVE x[s] = Derived(doc, x, s)
    <3>1. SameInside(doc, x, s)
      BY <1>4 DEF SameInside
    <3>2. (Derived(doc, x, s) <=> g[NamedSpan(s, {})]) /\ Derived(doc, x, s) \in BOOLEAN
      BY <1>0, <3>1, DerivedSame
    <3>3. g[NamedSpan(s, {})] \in BOOLEAN
      BY <1>0, NamedSpanHas
    <3> HIDE DEF g
    <3>4. QED
      BY <1>1, <3>2, <3>3
  <2>2. QED
    BY <2>1
<1>6. P(x)
  BY <1>2, <1>5, Zenon
<1>7. P(Grammar(doc))
  <2> DEFINE X == Grammar(doc)
  <2>1. X = CHOOSE is : P(is)
    BY Zenon DEF Grammar
  <2> HIDE DEF P, X
  <2>2. P(X)
    BY <1>6, <2>1, Zenon
  <2>3. QED
    BY <2>2 DEF X
<1> DEFINE y == Grammar(doc)
<1>8. \A s \in Spans(doc) : y[s] = Derived(doc, y, s)
  <2> HIDE DEF y
  <2>1. y = [s \in Spans(doc) |-> Derived(doc, y, s)]
    BY <1>7 DEF y
  <2>2. QED
    BY <2>1, Zenon
<1> HIDE DEF y
<1>9. ASSUME NEW s \in Spans(doc), SameInside(doc, y, s) PROVE SpanSame(doc, y, s)
  <2>1. \A names \in SUBSET CharNames : Derived(doc, y, s) <=> g[NamedSpan(s, names)]
    BY <1>9, DerivedSame
  <2>2. y[s] = Derived(doc, y, s)
    BY <1>8
  <2>3. QED
    BY <2>1, <2>2, Zenon DEF SpanSame
<1>10. \A s \in Spans(doc) : SpanSame(doc, y, s)
  BY <1>9, SpansInduction
<1>11. QED
  BY <1>10 DEF y

\* A document begins with a value of Reader when it is one for OurReader.
LEMMA BeginsAreDocuments ==
    ASSUME NEW T, NEW doc \in Seq(T)
    PROVE  BeginsWithValue(doc) <=> IsDocument(doc, AsReader)
<1>0. Len(doc) \in Nat /\ {} \in SUBSET CharNames
  OBVIOUS
<1>1. \A k \in 1 .. Len(doc) : Grammar(doc)[<<"value", 1, k, FALSE>>] <=> HasValue(doc, AsReader, 1, k)
  <2>1. ASSUME NEW k \in 1 .. Len(doc) PROVE Grammar(doc)[<<"value", 1, k, FALSE>>] <=> HasValue(doc, AsReader, 1, k)
    <3> DEFINE s == <<"value", 1, k, FALSE>>
    <3>1. "value" \in {"value", "object", "array"} /\ 1 \in 1 .. Len(doc) + 1 /\ k \in 0 .. Len(doc) /\ FALSE \in BOOLEAN
      OBVIOUS
    <3>2. s \in Spans(doc)
      BY <3>1, SpansAre
    <3>3. s[1] = "value" /\ s[2] = 1 /\ s[3] = k
      OBVIOUS
    <3> HIDE DEF s
    <3>4. SpanSame(doc, Grammar(doc), s)
      BY <3>2, GrammarIs
    <3>5. Grammar(doc)[s] <=> CharGrammar(doc, AsReader)[NamedSpan(s, {})]
      BY <1>0, <3>4 DEF SpanSame
    <3>6. Grammar(doc)[s] <=> HasValue(doc, AsReader, 1, k)
      BY <1>0, <3>2, <3>3, <3>5, NamedSpanHas
    <3>7. QED
      BY <3>6 DEF s
  <2>2. QED
    BY <2>1
<1>2. StartOf(doc, AsReader) = 1
  BY AsReaderIs DEF StartOf
<1>3. \A k : EndsWell(doc, AsReader, k) /\ BeginsWell(doc, AsReader)
  BY AsReaderIs, Zenon DEF EndsWell, BeginsWell
<1>4. IsDocument(doc, AsReader) <=> \E k \in 1 - 1 .. Len(doc) : HasValue(doc, AsReader, 1, k)
  BY <1>2, <1>3, DocumentIs, AsReaderMayBe, Zenon
<1>5. \A k \in 1 - 1 .. Len(doc) : HasValue(doc, AsReader, 1, k) => k \in 1 .. Len(doc)
  <2>1. SUFFICES ASSUME NEW k \in 1 - 1 .. Len(doc), HasValue(doc, AsReader, 1, k) PROVE k \in 1 .. Len(doc)
    OBVIOUS
  <2>2. k \in 0 .. Len(doc) /\ 1 \in 1 .. Len(doc) + 1
    OBVIOUS
  <2>3. 1 <= k
    BY <2>1, <2>2, AsReaderHasValue
  <2>4. QED
    BY <2>2, <2>3
<1>6. \A k \in 1 .. Len(doc) : k \in 1 - 1 .. Len(doc)
  OBVIOUS
<1>7. QED
  BY <1>1, <1>4, <1>5, <1>6, Zenon DEF BeginsWithValue

-----------------------------------------------------------------------------
(* What OurReader reads as Reader does.                                    *)

ReaderValue(doc, p, d) == Reads(doc)[<<"value", p, d, FALSE>>]
ReaderMembers(doc, p, d, u) == Reads(doc)[<<"object", p, d, u>>]
ReaderElements(doc, p, d) == Reads(doc)[<<"array", p, d, FALSE>>]

LEMMA ReaderReadIs ==
    ASSUME NEW T, NEW doc \in Seq(T), NEW c \in Calls(doc)
    PROVE  IsOutcome(doc, c[2], Reads(doc)[c])
<1> DEFINE r == Reads(doc)[c]
<1>1. r \in ReaderOutcomes(doc, c) /\ c[2] \in Places(doc)
  BY ReadsAre, CallIs DEF ReaderReads, Readers, ReaderOutcomes, IsCall
<1> HIDE DEF r
<1>2. r \in Outcomes(doc, c[2], CallValues(Strings, ReaderTree, c))
  BY <1>1 DEF ReaderOutcomes, CallOutcomes
<1>3. QED
  BY <1>1, <1>2, OutcomeIs DEF IsOutcome, r

LEMMA ReaderOutcome ==
    ASSUME NEW T, NEW doc \in Seq(T), NEW p \in Places(doc), NEW d \in 1 .. StackLimit
    PROVE  /\ IsOutcome(doc, p, ReaderValue(doc, p, d + 1))
           /\ \A u \in BOOLEAN : IsOutcome(doc, p, ReaderMembers(doc, p, d, u))
           /\ IsOutcome(doc, p, ReaderElements(doc, p, d))
<1>1. d + 1 \in 1 .. StackLimit + 1 /\ d \in 1 .. StackLimit + 1 /\ d <= StackLimit /\ FALSE \in BOOLEAN
  BY ReaderAssumption
<1>2. IsOutcome(doc, p, ReaderValue(doc, p, d + 1))
  <2> DEFINE c == <<"value", p, d + 1, FALSE>>
  <2>1. c \in Calls(doc)
    BY <1>1, CallsAre
  <2>2. c[2] = p /\ ReaderValue(doc, p, d + 1) = Reads(doc)[c]
    BY DEF ReaderValue
  <2> HIDE DEF c
  <2>3. QED
    BY <2>1, <2>2, ReaderReadIs, Zenon
<1>3. ASSUME NEW u \in BOOLEAN PROVE IsOutcome(doc, p, ReaderMembers(doc, p, d, u))
  <2> DEFINE c == <<"object", p, d, u>>
  <2>1. c \in Calls(doc)
    BY <1>1, CallsAre
  <2>2. c[2] = p /\ ReaderMembers(doc, p, d, u) = Reads(doc)[c]
    BY DEF ReaderMembers
  <2> HIDE DEF c
  <2>3. QED
    BY <2>1, <2>2, ReaderReadIs, Zenon
<1>4. IsOutcome(doc, p, ReaderElements(doc, p, d))
  <2> DEFINE c == <<"array", p, d, FALSE>>
  <2>1. c \in Calls(doc)
    BY <1>1, CallsAre
  <2>2. c[2] = p /\ ReaderElements(doc, p, d) = Reads(doc)[c]
    BY DEF ReaderElements
  <2> HIDE DEF c
  <2>3. QED
    BY <2>1, <2>2, ReaderReadIs, Zenon
<1>5. QED
  BY <1>2, <1>3, <1>4

\* A value, the elements and the members as Reader reads them.
ReaderByToken(doc, d, q, token) ==
    IF token = "{" THEN ReaderMembers(doc, q + 1, d, TRUE)
    ELSE IF token = "[" /\ Token(doc, q + 1) = "]" THEN Success(ArrayValue(<<>>), q + 2)
    ELSE IF token = "[" THEN ReaderElements(doc, q + 1, d)
    ELSE IF token \in Strings \cup Scalars THEN Success(ScalarValue(token), q + 1)
    ELSE Failure(Next_(doc, q), <<q>>)
ReaderElementsFrom(doc, d, child, q) ==
    IF ~child.ok THEN FailedInside(doc, child, "]")
    ELSE IF Token(doc, q) = "]" THEN Success(ArrayValue(<<child.value>>), q + 1)
    ELSE IF Token(doc, q) # "," THEN AddErrorAndRecover(doc, q, "]")
    ELSE FromElement(child.value, ReaderElements(doc, q + 1, d))
ReaderMembersFrom(doc, d, u, q, name, child, separator) ==
    IF EmptyObject(doc, q, u) THEN Success(ObjectValue(NoMembers), q + 1)
    ELSE IF name \notin Strings THEN AddErrorAndRecover(doc, q, "}")
    ELSE IF Token(doc, q + 1) # ":" THEN AddErrorAndRecover(doc, q + 1, "}")
    ELSE IF ~child.ok THEN FailedInside(doc, child, "}")
    ELSE IF SeparatorMissing(doc, child.at) THEN AddErrorAndRecover(doc, child.at, "}")
    ELSE IF Token(doc, separator) = "}"
         THEN Success(ObjectValue(WithMember(name, child.value, NoMembers)), separator + 1)
    ELSE FromMember(name, child.value, ReaderMembers(doc, Next_(doc, separator), d, name = ""))

LEMMA ReaderValueRead ==
    ASSUME NEW T, NEW doc \in Seq(T), NEW p \in Places(doc), NEW d \in 1 .. StackLimit
    PROVE  ReaderValue(doc, p, d) = ReaderByToken(doc, d, AfterComments(doc, p), Token(doc, AfterComments(doc, p)))
<1> DEFINE c == <<"value", p, d, FALSE>>
<1>1. d \in 1 .. StackLimit + 1 /\ ~(d > StackLimit) /\ FALSE \in BOOLEAN
  BY ReaderAssumption
<1>2. c \in Calls(doc)
  BY <1>1, CallsAre
<1>3. c[1] = "value" /\ c[2] = p /\ c[3] = d
  OBVIOUS
<1>4. ReaderValue(doc, p, d) = Reads(doc)[c]
  BY DEF ReaderValue
<1> HIDE DEF c
<1>5. Reads(doc)[c] = ReadValue(doc, Reads(doc), p, d)
  BY <1>2, <1>3, ReadsAre, Zenon DEF Called
<1>6. QED
  BY <1>1, <1>4, <1>5, Zenon DEF ReadValue, ReaderByToken, ReaderMembers, ReaderElements

LEMMA ReaderThrows ==
    ASSUME NEW T, NEW doc \in Seq(T), NEW p \in Places(doc), NEW d, d = StackLimit + 1
    PROVE  ReaderValue(doc, p, d) = Thrown
<1> DEFINE c == <<"value", p, d, FALSE>>
<1>1. d \in 1 .. StackLimit + 1 /\ d > StackLimit /\ FALSE \in BOOLEAN
  BY ReaderAssumption
<1>2. c \in Calls(doc)
  BY <1>1, CallsAre
<1>3. c[1] = "value" /\ c[2] = p /\ c[3] = d
  OBVIOUS
<1>4. ReaderValue(doc, p, d) = Reads(doc)[c]
  BY DEF ReaderValue
<1> HIDE DEF c
<1>5. Reads(doc)[c] = ReadValue(doc, Reads(doc), p, d)
  BY <1>2, <1>3, ReadsAre, Zenon DEF Called
<1>6. QED
  BY <1>1, <1>4, <1>5, Zenon DEF ReadValue

LEMMA ReaderElementsRead ==
    ASSUME NEW T, NEW doc \in Seq(T), NEW p \in Places(doc), NEW d \in 1 .. StackLimit
    PROVE  ReaderElements(doc, p, d) =
             ReaderElementsFrom(doc, d, ReaderValue(doc, p, d + 1), AfterComments(doc, ReaderValue(doc, p, d + 1).at))
<1> DEFINE c == <<"array", p, d, FALSE>>
<1>1. d \in 1 .. StackLimit + 1 /\ d <= StackLimit /\ FALSE \in BOOLEAN
  BY ReaderAssumption
<1>2. c \in Calls(doc)
  BY <1>1, CallsAre
<1>3. c[1] = "array" /\ c[2] = p /\ c[3] = d /\ c[1] # "value" /\ c[1] # "object"
  OBVIOUS
<1>4. ReaderElements(doc, p, d) = Reads(doc)[c]
  BY DEF ReaderElements
<1> HIDE DEF c
<1>5. Reads(doc)[c] = ReadArray(doc, Reads(doc), p, d)
  BY <1>2, <1>3, ReadsAre, Zenon DEF Called
<1>6. QED
  BY <1>4, <1>5, Zenon DEF ReadArray, ReaderElementsFrom, ReaderValue, ReaderElements

LEMMA ReaderMembersRead ==
    ASSUME NEW T, NEW doc \in Seq(T), NEW p \in Places(doc), NEW d \in 1 .. StackLimit, NEW u \in BOOLEAN,
           NEW q, q = AfterComments(doc, p), NEW child, child = ReaderValue(doc, q + 2, d + 1)
    PROVE  ReaderMembers(doc, p, d, u) =
             ReaderMembersFrom(doc, d, u, q, Token(doc, q), child, AfterComments(doc, child.at))
<1> DEFINE c == <<"object", p, d, u>>
<1>1. d \in 1 .. StackLimit + 1 /\ d <= StackLimit
  BY ReaderAssumption
<1>2. c \in Calls(doc)
  BY <1>1, CallsAre
<1>3. c[1] = "object" /\ c[2] = p /\ c[3] = d /\ c[4] = u /\ c[1] # "value"
  OBVIOUS
<1>4. ReaderMembers(doc, p, d, u) = Reads(doc)[c]
  BY DEF ReaderMembers
<1> HIDE DEF c
<1>5. Reads(doc)[c] = ReadObject(doc, Reads(doc), p, d, u)
  BY <1>2, <1>3, ReadsAre, Zenon DEF Called
<1>6. QED
  BY <1>4, <1>5, Zenon DEF ReadObject, ReaderMembersFrom, ReaderValue, ReaderMembers

\* The settings under which OurReader takes the tokens that Reader takes, and
\* what it has to read as Reader does: everything, or, when it allows a comma at
\* the end, what Reader accepts.
LikeReader(f) ==
    /\ IsSettings(f) /\ f.allowComments /\ ~f.allowDroppedNullPlaceholders /\ ~f.rejectDupKeys
    /\ CharTexts \ Refused(f) = Strings \cup Scalars /\ NameTokens(f) = Strings
Compared(f, r) == ~f.allowTrailingCommas \/ r.ok

CallSame(doc, f, c) ==
    /\ c[1] = "value" =>
         (Compared(f, ReaderValue(doc, c[2], c[3])) => CharReads(doc, f)[c] = ReaderValue(doc, c[2], c[3]))
    /\ c[1] = "object" =>
         (Compared(f, ReaderMembers(doc, c[2], c[3], c[4]))
             => CharReads(doc, f)[c] = ReaderMembers(doc, c[2], c[3], c[4]))
    /\ c[1] = "array" =>
         (Compared(f, ReaderElements(doc, c[2], c[3])) /\ (c[4] => Token(doc, c[2]) # "]")
             => CharReads(doc, f)[c] = ReaderElements(doc, c[2], c[3]))
InsideSame(doc, f, c) == \A y \in CharCalls(doc) : CallInside(c, y) => CallSame(doc, f, y)

LEMMA ValueInsideSame ==
    ASSUME NEW T, NEW doc \in Seq(T), NEW f, NEW c, InsideSame(doc, f, c), NEW q \in Places(doc),
           NEW d \in 1 .. StackLimit, q > c[2] \/ (q = c[2] /\ c[1] # "value"), Compared(f, ReaderValue(doc, q, d + 1))
    PROVE  ValueAt(doc, f, q, d + 1) = ReaderValue(doc, q, d + 1)
<1> DEFINE y == <<"value", q, d + 1, FALSE, {}>>
<1>1. d + 1 \in 1 .. StackLimit + 1 /\ {} \in SUBSET CharNames
  BY ReaderAssumption
<1>2. y \in CharCalls(doc)
  BY <1>1, CharCallsAre
<1>3. y[1] = "value" /\ y[2] = q /\ y[3] = d + 1
  OBVIOUS
<1>4. ValueAt(doc, f, q, d + 1) = CharReads(doc, f)[y]
  BY DEF ValueAt
<1> HIDE DEF y
<1>5. CallSame(doc, f, y)
  BY <1>2, <1>3, Zenon DEF InsideSame, CallInside
<1>6. QED
  BY <1>3, <1>4, <1>5, Zenon DEF CallSame

LEMMA MembersInsideSame ==
    ASSUME NEW T, NEW doc \in Seq(T), NEW f, NEW c, InsideSame(doc, f, c), NEW q \in Places(doc),
           NEW d \in 1 .. StackLimit, NEW u \in BOOLEAN, NEW names \in SUBSET CharNames, q > c[2],
           Compared(f, ReaderMembers(doc, q, d, u))
    PROVE  MembersAt(doc, f, q, d, u, names) = ReaderMembers(doc, q, d, u)
<1> DEFINE y == <<"object", q, d, u, names>>
<1>1. d \in 1 .. StackLimit + 1 /\ d <= StackLimit
  BY ReaderAssumption
<1>2. y \in CharCalls(doc)
  BY <1>1, CharCallsAre
<1>3. y[1] = "object" /\ y[2] = q /\ y[3] = d /\ y[4] = u
  OBVIOUS
<1>4. MembersAt(doc, f, q, d, u, names) = CharReads(doc, f)[y]
  BY DEF MembersAt
<1> HIDE DEF y
<1>5. CallSame(doc, f, y)
  BY <1>2, <1>3, Zenon DEF InsideSame, CallInside
<1>6. QED
  BY <1>3, <1>4, <1>5, Zenon DEF CallSame

LEMMA ElementsInsideSame ==
    ASSUME NEW T, NEW doc \in Seq(T), NEW f, NEW c, InsideSame(doc, f, c), NEW q \in Places(doc),
           NEW d \in 1 .. StackLimit, NEW first \in BOOLEAN, q > c[2],
           Compared(f, ReaderElements(doc, q, d)), first => Token(doc, q) # "]"
    PROVE  ElementsAt(doc, f, q, d, first) = ReaderElements(doc, q, d)
<1> DEFINE y == <<"array", q, d, first, {}>>
<1>1. d \in 1 .. StackLimit + 1 /\ d <= StackLimit /\ {} \in SUBSET CharNames
  BY ReaderAssumption
<1>2. y \in CharCalls(doc)
  BY <1>1, CharCallsAre
<1>3. y[1] = "array" /\ y[2] = q /\ y[3] = d /\ y[4] = first
  OBVIOUS
<1>4. ElementsAt(doc, f, q, d, first) = CharReads(doc, f)[y]
  BY DEF ElementsAt
<1> HIDE DEF y
<1>5. CallSame(doc, f, y)
  BY <1>2, <1>3, Zenon DEF InsideSame, CallInside
<1>6. QED
  BY <1>3, <1>4, <1>5, Zenon DEF CallSame

\* A token that no value begins with.
BeginsAValue(token) == token \in {"{", "["} \/ token \in Strings \cup Scalars

LEMMA NoValueAt ==
    ASSUME NEW T, NEW doc \in Seq(T), NEW p \in Places(doc), p <= Len(doc), NEW d \in 1 .. StackLimit + 1,
           ~BeginsAValue(Token(doc, p)), Token(doc, p) # "/"
    PROVE  ~ReaderValue(doc, p, d).ok
<1>1. CASE d = StackLimit + 1
  <2>1. ReaderValue(doc, p, d) = Thrown
    BY <1>1, ReaderThrows
  <2>2. Thrown.ok = FALSE
    BY DEF Thrown
  <2>3. QED
    BY <2>1, <2>2, Zenon
<1>2. CASE d # StackLimit + 1
  <2>1. d \in 1 .. StackLimit
    BY <1>2, ReaderAssumption
  <2> DEFINE q == AfterComments(doc, p)
  <2>2. ReaderValue(doc, p, d) = ReaderByToken(doc, d, q, Token(doc, q))
    BY <2>1, ReaderValueRead
  <2>3. q = p
    <3>1. doc[p] # "/"
      BY DEF Token
    <3>2. p \in p .. Len(doc) /\ Len(doc) \in Nat /\ p \in Nat
      BY PlacesAre
    <3>3. Comments(doc, p, p - 1)
      BY <3>2 DEF Comments
    <3>4. QED
      BY <3>1, <3>2, <3>3, FirstPlace
  <2> HIDE DEF q
  <2>4. ReaderByToken(doc, d, q, Token(doc, q)) = Failure(Next_(doc, q), <<q>>)
    BY <2>3, Zenon DEF ReaderByToken, BeginsAValue
  <2>5. Failure(Next_(doc, q), <<q>>).ok = FALSE
    BY DEF Failure
  <2>6. QED
    BY <2>2, <2>4, <2>5, Zenon
<1>3. QED
  BY <1>1, <1>2

LEMMA NoValueAtBracket ==
    ASSUME NEW T, NEW doc \in Seq(T), NEW p \in Places(doc), NEW d \in 1 .. StackLimit, Token(doc, p) = "]"
    PROVE  ~ReaderValue(doc, p, d + 1).ok
<1>1. p <= Len(doc) /\ d + 1 \in 1 .. StackLimit + 1
  BY ReaderAssumption DEF Token
<1>2. ~BeginsAValue(Token(doc, p)) /\ Token(doc, p) # "/"
  <2>1. "]" \notin Strings \cup Scalars
    BY ReaderAssumption, Zenon DEF Marks
  <2>2. QED
    BY <2>1, Zenon DEF BeginsAValue
<1>3. QED
  BY <1>1, <1>2, NoValueAt

LEMMA ElementsReadSame ==
    ASSUME NEW T, NEW doc \in Seq(T), NEW f, LikeReader(f), NEW c, InsideSame(doc, f, c),
           NEW p \in Places(doc), CallsFrom(c, "array", p), NEW d \in 1 .. StackLimit, NEW first \in BOOLEAN,
           Compared(f, ReaderElements(doc, p, d)), first => Token(doc, p) # "]"
    PROVE  ElementsAt(doc, f, p, d, first) = ReaderElements(doc, p, d)
<1> DEFINE r == ReaderElements(doc, p, d)
<1> DEFINE child == ReaderValue(doc, p, d + 1)
<1> DEFINE q == AfterComments(doc, child.at)
<1> DEFINE rest == ReaderElements(doc, q + 1, d)
<1>0. f.allowTrailingCommas \in BOOLEAN
  BY DEF LikeReader, IsSettings
<1>1. r = ReaderElementsFrom(doc, d, child, q)
  BY ReaderElementsRead
<1>2. IsOutcome(doc, p, child)
  BY ReaderOutcome
<1>3. ElementsAt(doc, f, p, d, first) =
        ReadElements(doc, f, p, d, first, ValueAt(doc, f, p, d + 1), AfterComments(doc, ValueAt(doc, f, p, d + 1).at))
  BY ElementsRead
<1>4. child.ok \in BOOLEAN /\ child.thrown \in BOOLEAN /\ child.at \in Places(doc) /\ (child.ok => child.at >= p)
  BY <1>2 DEF IsOutcome
<1>5. q \in Places(doc) /\ q >= child.at
  <2> HIDE DEF child
  <2>1. QED
    BY <1>4, AfterCommentsIs
<1>6. Token(doc, p) = "]" => ~child.ok
  BY NoValueAtBracket
<1>c. Compared(f, child) => ValueAt(doc, f, p, d + 1) = child
  BY ValueInsideSame DEF CallsFrom
<1> HIDE DEF child, q, r
<1>g. SUFFICES ElementsAt(doc, f, p, d, first) = r
  BY DEF r
<1>k. Compared(f, r)
  BY DEF r
<1>7. ~child.ok => r = FailedInside(doc, child, "]") /\ r.ok = FALSE
  <2>1. ASSUME ~child.ok PROVE r = FailedInside(doc, child, "]") /\ r.ok = FALSE
    <3>1. r = FailedInside(doc, child, "]")
      BY <1>1, <2>1, Zenon DEF ReaderElementsFrom
    <3>2. child.ok = FALSE
      BY <1>4, <2>1
    <3>3. QED
      BY <1>4, <3>1, <3>2, FailedInsideGives, Zenon
  <2>2. QED
    BY <2>1
<1>8. Compared(f, child)
  BY <1>7, <1>k, Zenon DEF Compared
<1>9. ValueAt(doc, f, p, d + 1) = child
  BY <1>8, <1>c
<1>10. ElementsAt(doc, f, p, d, first) = ReadElements(doc, f, p, d, first, child, q)
  BY <1>3, <1>9, Zenon DEF q
<1>11. ~ArrayEnds(Token(doc, p), first, f)
  BY <1>6, <1>7, <1>k, Zenon DEF Compared, ArrayEnds
<1>12. CASE child.ok /\ Token(doc, q) = ","
  <2>1. Token(doc, q) # "]" /\ Token(doc, q) # "end"
    BY <1>12
  <2>2. q + 1 \in Places(doc)
    BY <1>5, <2>1, TokenIs
  <2>3. q + 1 > p
    <3>1. q \in Nat /\ p \in Nat /\ child.at \in Nat
      BY <1>4, <1>5, PlacesAre
    <3>2. child.at >= p
      BY <1>4, <1>12, Zenon
    <3>3. QED
      BY <1>5, <3>1, <3>2
  <2>4. IsOutcome(doc, q + 1, rest)
    BY <2>2, ReaderOutcome
  <2>5. rest = ReaderElements(doc, q + 1, d)
    OBVIOUS
  <2>6. Compared(f, rest) => ElementsAt(doc, f, q + 1, d, FALSE) = rest
    <3>1. q + 1 > c[2] /\ FALSE \in BOOLEAN
      BY <2>3 DEF CallsFrom
    <3>2. QED
      BY <2>2, <3>1, ElementsInsideSame
  <2> HIDE DEF rest
  <2>7. r = FromElement(child.value, rest)
    BY <1>1, <1>12, <2>1, <2>5, Zenon DEF ReaderElementsFrom
  <2>8. r.ok = rest.ok
    <3>1. Settled(rest)
      BY <2>4 DEF IsOutcome, Settled
    <3>2. QED
      BY <2>7, <3>1, FromElementGives, Zenon DEF SameEnd
  <2>9. ElementsAt(doc, f, q + 1, d, FALSE) = rest
    BY <1>k, <2>6, <2>8, Zenon DEF Compared
  <2>10. ElementsAt(doc, f, p, d, first) = FromElement(child.value, rest)
    BY <1>10, <1>11, <1>12, <2>1, <2>9, Zenon DEF ReadElements
  <2>11. QED
    BY <2>7, <2>10
<1>13. CASE ~(child.ok /\ Token(doc, q) = ",")
  BY <1>1, <1>10, <1>11, <1>13, Zenon DEF ReadElements, ReaderElementsFrom
<1>14. QED
  BY <1>12, <1>13

LEMMA MembersReadSame ==
    ASSUME NEW T, NEW doc \in Seq(T), NEW f, LikeReader(f), NEW c, InsideSame(doc, f, c),
           NEW p \in Places(doc), CallsFrom(c, "object", p), NEW d \in 1 .. StackLimit, NEW u \in BOOLEAN,
           NEW names \in SUBSET CharNames, Compared(f, ReaderMembers(doc, p, d, u))
    PROVE  MembersAt(doc, f, p, d, u, names) = ReaderMembers(doc, p, d, u)
<1> DEFINE r == ReaderMembers(doc, p, d, u)
<1> DEFINE q == AfterComments(doc, p)
<1> DEFINE name == Token(doc, q)
<1> DEFINE seen == CharToken(doc, q, f)
<1> DEFINE child == ReaderValue(doc, q + 2, d + 1)
<1> DEFINE read == ValueAt(doc, f, q + 2, d + 1)
<1> DEFINE s == AfterComments(doc, child.at)
<1> DEFINE b == name = ""
<1> DEFINE rest == ReaderMembers(doc, Next_(doc, s), d, b)
<1>0. f.allowTrailingCommas \in BOOLEAN /\ NameTokens(f) = Strings /\ CharTexts \ Refused(f) = Strings \cup Scalars
  BY DEF LikeReader, IsSettings
<1>e. q = AfterComments(doc, p) /\ child = ReaderValue(doc, q + 2, d + 1) /\ read = ValueAt(doc, f, q + 2, d + 1)
  OBVIOUS
<1>1. r = ReaderMembersFrom(doc, d, u, q, name, child, s)
  <2> HIDE DEF q, child
  <2>1. QED
    BY <1>e, ReaderMembersRead
<1>2. MembersAt(doc, f, p, d, u, names) =
        ReadMembers(doc, f, d, u, names, q, seen, read, AfterComments(doc, read.at))
  <2> HIDE DEF q, read
  <2>1. QED
    BY <1>e, MembersRead
<1>3. q \in Places(doc) /\ q >= p
  BY AfterCommentsIs
<1> HIDE DEF q
<1>4. Sees(doc, f, q, seen)
  BY <1>3, SeenToken
<1>n. /\ Len(doc) \in Nat /\ p \in Nat /\ p >= 1 /\ q \in Nat /\ q >= 1 /\ q <= Len(doc) + 1
  <2>1. q \in Nat /\ q >= 1 /\ q <= Len(doc) + 1
    BY <1>3, PlacesAre
  <2>2. QED
    BY <2>1, PlacesAre
<1>5. /\ seen = "}" <=> name = "}"
      /\ seen \in Strings <=> name \in Strings
      /\ seen \in Strings => seen = name
  <2>1. seen = "}" <=> name = "}"
    BY <1>4, Zenon DEF Sees, PlainMarks
  <2>2. seen = IF name \in Refused(f) THEN "x" ELSE name
    BY DEF CharToken
  <2>3. "x" \notin Strings /\ (name \in Strings => name \notin Refused(f))
    <3>1. "x" \notin Strings
      BY ReaderAssumption, Zenon DEF Marks
    <3>2. QED
      BY <1>0, <3>1
  <2> HIDE DEF seen, name
  <2>4. QED
    BY <2>1, <2>2, <2>3, Zenon
<1>f. s = AfterComments(doc, child.at) /\ rest = ReaderMembers(doc, Next_(doc, s), d, b) /\ b = (name = "")
  OBVIOUS
<1>b. b \in BOOLEAN
  BY Zenon
<1> HIDE DEF name, seen, child, read, s, b, r, rest
<1>g. SUFFICES MembersAt(doc, f, p, d, u, names) = r
  BY DEF r
<1>k. Compared(f, r)
  BY DEF r
<1>6. CASE name = "}"
  <2>1. "}" \notin Strings
    BY ReaderAssumption, Zenon DEF Marks
  <2>2. Token(doc, q) = "}"
    BY <1>6, Zenon DEF name
  <2>3. CASE u
    <3>1. r = Success(ObjectValue(NoMembers), q + 1)
      BY <1>1, <2>2, <2>3, Zenon DEF ReaderMembersFrom, EmptyObject
    <3>2. ObjectEnds(seen, u, f)
      BY <1>5, <1>6, <2>3, Zenon DEF ObjectEnds
    <3>3. QED
      BY <1>2, <3>1, <3>2, Zenon DEF ReadMembers
  <2>4. CASE ~u
    <3>1. r = AddErrorAndRecover(doc, q, "}")
      BY <1>1, <1>6, <2>1, <2>4, Zenon DEF ReaderMembersFrom, EmptyObject
    <3>2. r.ok = FALSE
      BY <3>1, ErrorGives, Zenon
    <3>3. ~f.allowTrailingCommas
      BY <1>k, <3>2, Zenon DEF Compared
    <3>4. ~ObjectEnds(seen, u, f)
      BY <2>4, <3>3, Zenon DEF ObjectEnds
    <3>5. seen \notin NameTokens(f)
      BY <1>0, <1>5, <1>6, <2>1, Zenon
    <3>6. QED
      BY <1>2, <3>1, <3>4, <3>5, Zenon DEF ReadMembers
  <2>5. QED
    BY <2>3, <2>4
<1>7. name # "}" => ~EmptyObject(doc, q, u) /\ ~ObjectEnds(seen, u, f)
  BY <1>5, Zenon DEF EmptyObject, ObjectEnds, name
<1>8. CASE name # "}" /\ name \notin Strings
  <2>1. r = AddErrorAndRecover(doc, q, "}")
    BY <1>1, <1>7, <1>8, Zenon DEF ReaderMembersFrom
  <2>2. seen \notin NameTokens(f)
    BY <1>0, <1>5, <1>8, Zenon
  <2>3. QED
    BY <1>2, <1>7, <1>8, <2>1, <2>2, Zenon DEF ReadMembers
<1> DEFINE named == name # "}" /\ name \in Strings
<1>9. named => /\ ~EmptyObject(doc, q, u) /\ ~ObjectEnds(seen, u, f) /\ seen = name
               /\ ~(seen \notin NameTokens(f) \/ (f.rejectDupKeys /\ seen \in names))
  BY <1>0, <1>5, <1>7, Zenon DEF LikeReader
<1>10. CASE named /\ Token(doc, q + 1) # ":"
  <2>1. r = AddErrorAndRecover(doc, q + 1, "}")
    BY <1>1, <1>9, <1>10, Zenon DEF ReaderMembersFrom
  <2>2. QED
    BY <1>2, <1>9, <1>10, <2>1, Zenon DEF ReadMembers
<1>11. CASE named /\ Token(doc, q + 1) = ":"
  <2>1. q + 2 \in Places(doc) /\ q + 2 > p
    <3>1. q + 1 <= Len(doc)
      BY <1>11, Zenon DEF Token
    <3>2. QED
      BY <1>n, <1>3, <3>1 DEF Places
  <2>2. IsOutcome(doc, q + 2, child)
    BY <1>e, <2>1, ReaderOutcome
  <2>3. child.ok \in BOOLEAN /\ child.thrown \in BOOLEAN /\ child.at \in Places(doc) /\ (child.ok => child.at >= q + 2)
    BY <2>2 DEF IsOutcome
  <2>4. ~child.ok => r = FailedInside(doc, child, "}") /\ r.ok = FALSE
    <3>1. ASSUME ~child.ok PROVE r = FailedInside(doc, child, "}") /\ r.ok = FALSE
      <4>1. r = FailedInside(doc, child, "}")
        BY <1>1, <1>9, <1>11, <3>1, Zenon DEF ReaderMembersFrom
      <4>2. child.ok = FALSE
        BY <2>3, <3>1
      <4>3. QED
        BY <2>3, <4>1, <4>2, FailedInsideGives, Zenon
    <3>2. QED
      BY <3>1
  <2>5. Compared(f, child)
    BY <1>k, <2>4, Zenon DEF Compared
  <2>6. read = child
    <3>1. q + 2 > c[2]
      BY <2>1 DEF CallsFrom
    <3>2. QED
      BY <1>e, <2>1, <2>5, <3>1, ValueInsideSame
  <2>7. MembersAt(doc, f, p, d, u, names) = ReadMembers(doc, f, d, u, names, q, name, child, s)
    BY <1>2, <1>9, <1>11, <1>f, <2>6, Zenon
  <2>8. ~ObjectEnds(name, u, f) /\ ~(name \notin NameTokens(f) \/ (f.rejectDupKeys /\ name \in names)) /\ name \in Strings
    BY <1>9, <1>11, Zenon
  <2>9. CASE ~child.ok \/ SeparatorMissing(doc, child.at) \/ Token(doc, s) = "}"
    <3>1. CASE ~child.ok
      <4>1. MembersAt(doc, f, p, d, u, names) = FailedInside(doc, child, "}")
        BY <1>11, <2>7, <2>8, <3>1, Zenon DEF ReadMembers
      <4>2. QED
        BY <2>4, <3>1, <4>1, Zenon
    <3>2. CASE child.ok /\ SeparatorMissing(doc, child.at)
      <4>1. MembersAt(doc, f, p, d, u, names) = AddErrorAndRecover(doc, child.at, "}")
        BY <1>11, <2>7, <2>8, <3>2, Zenon DEF ReadMembers
      <4>2. r = AddErrorAndRecover(doc, child.at, "}")
        BY <1>1, <1>9, <1>11, <2>8, <3>2, Zenon DEF ReaderMembersFrom
      <4>3. QED
        BY <4>1, <4>2
    <3>3. CASE child.ok /\ ~SeparatorMissing(doc, child.at) /\ Token(doc, s) = "}"
      <4> DEFINE v == Success(ObjectValue(WithMember(name, child.value, NoMembers)), s + 1)
      <4>1. MembersAt(doc, f, p, d, u, names) = v
        BY <1>11, <2>7, <2>8, <3>3, Zenon DEF ReadMembers
      <4>2. r = v
        BY <1>1, <1>9, <1>11, <2>8, <3>3, Zenon DEF ReaderMembersFrom
      <4>3. QED
        BY <4>1, <4>2
    <3>4. QED
      BY <2>9, <3>1, <3>2, <3>3
  <2>10. CASE child.ok /\ ~SeparatorMissing(doc, child.at) /\ Token(doc, s) # "}"
    <3>1. s \in Places(doc) /\ s >= child.at
      BY <1>f, <2>3, AfterCommentsIs
    <3>2. Next_(doc, s) \in Places(doc) /\ Next_(doc, s) >= s
      BY <3>1, NextPlace
    <3> DEFINE t == Next_(doc, s)
    <3>3. t \in Places(doc) /\ t >= s /\ t = Next_(doc, s)
      BY <3>2
    <3> HIDE DEF t
    <3>4. t > c[2]
      <4>1. t \in Nat
        BY <3>3, PlacesAre
      <4>2. s \in Nat
        BY <3>1, PlacesAre
      <4>3. child.at \in Nat /\ child.at >= q + 2
        BY <2>3, <2>10, PlacesAre
      <4>4. t > p
        BY <1>n, <2>1, <3>1, <3>3, <4>1, <4>2, <4>3
      <4>5. QED
        BY <4>4 DEF CallsFrom
    <3> DEFINE more == names \cup {name}
    <3>5. more \in SUBSET CharNames
      BY <1>11 DEF CharNames
    <3>6. rest = ReaderMembers(doc, t, d, b)
      BY <1>f, <3>3, Zenon
    <3> HIDE DEF more
    <3>7. IsOutcome(doc, t, rest)
      BY <1>b, <3>3, <3>6, ReaderOutcome
    <3>8. r = FromMember(name, child.value, rest)
      BY <1>1, <1>9, <1>11, <1>f, <2>8, <2>10, Zenon DEF ReaderMembersFrom
    <3>9. r.ok = rest.ok
      <4>1. Settled(rest)
        BY <3>7 DEF IsOutcome, Settled
      <4>2. SameEnd(FromMember(name, child.value, rest), rest)
        BY <4>1, FromMemberGives
      <4>3. QED
        BY <3>8, <4>2, Zenon DEF SameEnd
    <3>10. Compared(f, rest)
      BY <1>k, <3>9, Zenon DEF Compared
    <3>11. MembersAt(doc, f, t, d, b, more) = rest
      BY <1>b, <3>3, <3>4, <3>5, <3>6, <3>10, MembersInsideSame
    <3>12. MembersAt(doc, f, p, d, u, names) = FromMember(name, child.value, MembersAt(doc, f, t, d, b, more))
      BY <1>11, <1>f, <2>7, <2>8, <2>10, <3>3, Zenon DEF ReadMembers, more
    <3>13. QED
      BY <3>8, <3>11, <3>12, Zenon
  <2>11. QED
    BY <2>3, <2>9, <2>10, Zenon
<1>12. QED
  BY <1>6, <1>8, <1>10, <1>11, Zenon

LEMMA ValueReadSame ==
    ASSUME NEW T, NEW doc \in Seq(T), NEW f, LikeReader(f), NEW c, InsideSame(doc, f, c),
           NEW p \in Places(doc), CallsFrom(c, "value", p), NEW d \in 1 .. StackLimit,
           Compared(f, ReaderValue(doc, p, d))
    PROVE  ValueAt(doc, f, p, d) = ReaderValue(doc, p, d)
<1> DEFINE r == ReaderValue(doc, p, d)
<1> DEFINE q == AfterComments(doc, p)
<1> DEFINE token == Token(doc, q)
<1> DEFINE seen == CharToken(doc, q, f)
<1>0. /\ f.allowComments /\ f.allowDroppedNullPlaceholders \in BOOLEAN /\ ~f.allowDroppedNullPlaceholders
      /\ CharTexts \ Refused(f) = Strings \cup Scalars
  BY DEF LikeReader, IsSettings
<1>1. r = ReaderByToken(doc, d, q, token)
  BY ReaderValueRead
<1>2. ValueAt(doc, f, p, d) = ReadByToken(doc, f, d, q, seen)
  <2>1. BeforeValue(doc, p, f) = q
    BY <1>0 DEF BeforeValue
  <2>2. QED
    BY <2>1, ValueRead
<1>3. q \in Places(doc) /\ q >= p
  BY AfterCommentsIs
<1>t. token # "end" => q + 1 \in Places(doc)
  <2> HIDE DEF q
  <2>1. QED
    BY <1>3, TokenIs
<1> HIDE DEF q
<1>4. Sees(doc, f, q, seen)
  BY <1>3, SeenToken
<1>5. seen = "{" <=> token = "{"
  BY <1>4, Zenon DEF Sees, PlainMarks
<1>6. seen = "[" <=> token = "["
  BY <1>4, Zenon DEF Sees, PlainMarks
<1>7. /\ seen \in CharTexts <=> token \in Strings \cup Scalars
      /\ seen \in CharTexts => seen = token
  <2>1. /\ seen \in CharTexts <=> (q <= Len(doc) /\ doc[q] \in CharTexts \ Refused(f))
        /\ seen \in CharTexts => seen = doc[q]
    BY <1>4, Zenon DEF Sees
  <2>2. token = IF q <= Len(doc) THEN doc[q] ELSE "end"
    BY DEF Token
  <2>3. "end" \notin Strings \cup Scalars
    BY ReaderAssumption
  <2> HIDE DEF seen, token
  <2>4. QED
    BY <1>0, <2>1, <2>2, <2>3, Zenon
<1>8. token = "{" \/ token = "[" => q + 1 \in Places(doc) /\ q + 1 > c[2]
  <2>1. token = "{" \/ token = "[" => token # "end"
    BY Zenon
  <2>2. q + 1 > c[2]
    <3>1. q \in Nat /\ p \in Nat
      BY <1>3, PlacesAre
    <3>2. c[2] = p
      BY Zenon DEF CallsFrom
    <3>3. QED
      BY <1>3, <3>1, <3>2
  <2>3. QED
    BY <1>t, <2>1, <2>2, Zenon
<1> HIDE DEF r, token, seen
<1>g. SUFFICES ValueAt(doc, f, p, d) = r
  BY DEF r
<1>k. Compared(f, r)
  BY DEF r
<1>9. CASE token = "{"
  <2>1. r = ReaderMembers(doc, q + 1, d, TRUE)
    BY <1>1, <1>9, Zenon DEF ReaderByToken
  <2>2. ValueAt(doc, f, p, d) = MembersAt(doc, f, q + 1, d, TRUE, {})
    BY <1>2, <1>5, <1>9, Zenon DEF ReadByToken
  <2>3. q + 1 \in Places(doc) /\ q + 1 > c[2]
    BY <1>8, <1>9, Zenon
  <2>4. TRUE \in BOOLEAN /\ {} \in SUBSET CharNames
    OBVIOUS
  <2>5. MembersAt(doc, f, q + 1, d, TRUE, {}) = ReaderMembers(doc, q + 1, d, TRUE)
    BY <1>k, <2>1, <2>3, <2>4, MembersInsideSame
  <2>6. QED
    BY <2>1, <2>2, <2>5
<1>10. CASE token = "[" /\ Token(doc, q + 1) = "]"
  <2>1. r = Success(ArrayValue(<<>>), q + 2)
    BY <1>1, <1>10, Zenon DEF ReaderByToken
  <2>2. ValueAt(doc, f, p, d) = ElementsAt(doc, f, q + 1, d, TRUE)
    BY <1>2, <1>6, <1>10, Zenon DEF ReadByToken
  <2> DEFINE z == q + 1
  <2>3. z \in Places(doc) /\ Token(doc, z) = "]" /\ z + 1 = q + 2
    <3>1. z \in Places(doc)
      BY <1>8, <1>10, Zenon
    <3>2. q \in Nat
      BY <1>3, PlacesAre
    <3>3. QED
      BY <1>10, <3>1, <3>2
  <2>z. ElementsAt(doc, f, z, d, TRUE) = ElementsAt(doc, f, q + 1, d, TRUE)
    OBVIOUS
  <2> HIDE DEF z
  <2>4. ElementsAt(doc, f, z, d, TRUE) =
           ReadElements(doc, f, z, d, TRUE, ValueAt(doc, f, z, d + 1), AfterComments(doc, ValueAt(doc, f, z, d + 1).at))
    BY <2>3, ElementsRead
  <2>5. ElementsAt(doc, f, z, d, TRUE) = Success(ArrayValue(<<>>), z + 1)
    BY <2>3, <2>4, Zenon DEF ReadElements, ArrayEnds
  <2>6. QED
    BY <2>1, <2>2, <2>3, <2>5, <2>z, Zenon
<1>11. CASE token = "[" /\ Token(doc, q + 1) # "]"
  <2>1. r = ReaderElements(doc, q + 1, d)
    BY <1>1, <1>11, Zenon DEF ReaderByToken
  <2>2. ValueAt(doc, f, p, d) = ElementsAt(doc, f, q + 1, d, TRUE)
    BY <1>2, <1>6, <1>11, Zenon DEF ReadByToken
  <2>3. q + 1 \in Places(doc) /\ q + 1 > c[2] /\ TRUE \in BOOLEAN
    BY <1>8, <1>11, Zenon
  <2>4. ElementsAt(doc, f, q + 1, d, TRUE) = ReaderElements(doc, q + 1, d)
    BY <1>k, <1>11, <2>1, <2>3, ElementsInsideSame
  <2>5. QED
    BY <2>1, <2>2, <2>4
<1>12. CASE token \notin {"{", "["}
  <2>1. seen # "{" /\ seen # "["
    BY <1>5, <1>6, <1>12, Zenon
  <2>2. CASE token \in Strings \cup Scalars
    <3>1. r = Success(ScalarValue(token), q + 1)
      BY <1>1, <1>12, <2>2, Zenon DEF ReaderByToken
    <3>2. seen = token /\ seen \in CharTexts
      BY <1>7, <2>2, Zenon
    <3>3. QED
      BY <1>2, <2>1, <3>1, <3>2, Zenon DEF ReadByToken
  <2>3. CASE token \notin Strings \cup Scalars
    <3>1. r = Failure(Next_(doc, q), <<q>>)
      BY <1>1, <1>12, <2>3, Zenon DEF ReaderByToken
    <3>2. seen \notin CharTexts
      BY <1>7, <2>3, Zenon
    <3>3. QED
      BY <1>0, <1>2, <2>1, <3>1, <3>2, Zenon DEF ReadByToken
  <2>4. QED
    BY <2>2, <2>3
<1>13. QED
  BY <1>9, <1>10, <1>11, <1>12, Zenon

LEMMA CallReadSame ==
    ASSUME NEW T, NEW doc \in Seq(T), NEW f, LikeReader(f), NEW c \in CharCalls(doc), InsideSame(doc, f, c)
    PROVE  CallSame(doc, f, c)
<1>1. IsCall(doc, c) /\ c[4] \in BOOLEAN /\ c[5] \in SUBSET CharNames
  BY CharCallIs
<1>2. c[2] \in Places(doc) /\ c[3] \in 1 .. StackLimit + 1 /\ (c[1] = "value" \/ c[3] <= StackLimit)
  BY <1>1 DEF IsCall
<1>3. (c[3] <= StackLimit => c[3] \in 1 .. StackLimit) /\ (~(c[3] <= StackLimit) => c[3] = StackLimit + 1)
  BY <1>2, ReaderAssumption
<1>4. CASE c[1] = "value"
  <2>1. CallsFrom(c, "value", c[2]) /\ c[1] # "object" /\ c[1] # "array"
    BY <1>4 DEF CallsFrom
  <2>2. Compared(f, ReaderValue(doc, c[2], c[3])) => ValueAt(doc, f, c[2], c[3]) = ReaderValue(doc, c[2], c[3])
    <3>1. CASE c[3] <= StackLimit
      BY <1>2, <1>3, <2>1, <3>1, ValueReadSame
    <3>2. CASE ~(c[3] <= StackLimit)
      <4>1. ValueAt(doc, f, c[2], c[3]) = Thrown
        BY <1>2, <1>3, <3>2, ThrownBelow
      <4>2. ReaderValue(doc, c[2], c[3]) = Thrown
        BY <1>2, <1>3, <3>2, ReaderThrows
      <4>3. QED
        BY <4>1, <4>2
    <3>3. QED
      BY <3>1, <3>2
  <2>3. CharReads(doc, f)[c] = ValueAt(doc, f, c[2], c[3])
    BY <1>4, CallGives
  <2>4. QED
    BY <2>1, <2>2, <2>3, Zenon DEF CallSame
<1>5. CASE c[1] = "object"
  <2>1. CallsFrom(c, "object", c[2]) /\ c[3] <= StackLimit /\ c[1] # "value" /\ c[1] # "array"
    BY <1>2, <1>5 DEF CallsFrom
  <2>2. Compared(f, ReaderMembers(doc, c[2], c[3], c[4]))
          => MembersAt(doc, f, c[2], c[3], c[4], c[5]) = ReaderMembers(doc, c[2], c[3], c[4])
    BY <1>1, <1>2, <1>3, <2>1, MembersReadSame
  <2>3. CharReads(doc, f)[c] = MembersAt(doc, f, c[2], c[3], c[4], c[5])
    BY <1>5, CallGives
  <2>4. QED
    BY <2>1, <2>2, <2>3, Zenon DEF CallSame
<1>6. CASE c[1] = "array"
  <2>1. CallsFrom(c, "array", c[2]) /\ c[3] <= StackLimit /\ c[1] # "value" /\ c[1] # "object"
    BY <1>2, <1>6 DEF CallsFrom
  <2>2. Compared(f, ReaderElements(doc, c[2], c[3])) /\ (c[4] => Token(doc, c[2]) # "]")
          => ElementsAt(doc, f, c[2], c[3], c[4]) = ReaderElements(doc, c[2], c[3])
    BY <1>1, <1>2, <1>3, <2>1, ElementsReadSame
  <2>3. CharReads(doc, f)[c] = ElementsAt(doc, f, c[2], c[3], c[4])
    BY <1>6, CallGives
  <2>4. QED
    BY <2>1, <2>2, <2>3, Zenon DEF CallSame
<1>7. QED
  BY <1>1, <1>4, <1>5, <1>6 DEF IsCall

LEMMA CallsReadSame ==
    ASSUME NEW T, NEW doc \in Seq(T), NEW f, LikeReader(f)
    PROVE  \A c \in CharCalls(doc) : CallSame(doc, f, c)
<1> DEFINE S == {c \in CharCalls(doc) : CallSame(doc, f, c)}
<1>1. ASSUME NEW c \in CharCalls(doc), \A y \in CharCalls(doc) : CallInside(c, y) => y \in S PROVE c \in S
  <2>1. InsideSame(doc, f, c)
    BY <1>1 DEF InsideSame
  <2>2. QED
    BY <2>1, CallReadSame
<1>2. \A c \in CharCalls(doc) : c \in S
  <2> HIDE DEF S
  <2>1. QED
    BY <1>1, CallsInduction DEF HoldsFromInside
<1>3. QED
  BY <1>2

\* A document from its first token on.
LEMMA DocumentReadSame ==
    ASSUME NEW T, NEW doc \in Seq(T), NEW f, LikeReader(f), StartOf(doc, f) = 1, f.failIfExtra = FALSE, f.strictRoot = FALSE,
           Compared(f, ParseDocument(doc))
    PROVE  ParseChars(doc, f) = ParseDocument(doc)
<1> DEFINE c == <<"value", 1, 1, FALSE, {}>>
<1>1. StackLimit \in Nat /\ {} \in SUBSET CharNames /\ 1 \in 1 .. StackLimit + 1 /\ 1 \in Places(doc) /\ FALSE \in BOOLEAN
  BY ReaderAssumption DEF Places
<1>2. c \in CharCalls(doc)
  BY <1>1, CharCallsAre
<1>3. c[1] = "value" /\ c[2] = 1 /\ c[3] = 1
  OBVIOUS
<1>4. CharRead(doc, f) = CharReads(doc, f)[c]
  BY Zenon DEF CharRead
<1>5. ParseDocument(doc) = ReaderValue(doc, 1, 1)
  BY DEF ParseDocument, ReaderValue
<1> HIDE DEF c
<1>6. CharReads(doc, f)[c] = ReaderValue(doc, 1, 1)
  <2>1. CallSame(doc, f, c)
    BY <1>2, CallsReadSame
  <2>2. QED
    BY <1>3, <1>5, <2>1, Zenon DEF CallSame
<1>7. ParseChars(doc, f) = CharRead(doc, f)
  BY ParseCharsIs, Zenon
<1>8. QED
  BY <1>4, <1>5, <1>6, <1>7

LEMMA AsReaderSame ==
    ASSUME NEW T, NEW doc \in Seq(T)
    PROVE  ParseChars(doc, AsReader) = ParseDocument(doc)
<1>1. LikeReader(AsReader)
  BY AsReaderIs, AsReaderTokens DEF LikeReader
<1>2. StartOf(doc, AsReader) = 1
  BY AsReaderIs DEF StartOf
<1>3. Compared(AsReader, ParseDocument(doc))
  BY AsReaderIs DEF Compared
<1>4. AsReader.failIfExtra = FALSE /\ AsReader.strictRoot = FALSE
  BY AsReaderIs
<1>5. QED
  BY <1>1, <1>2, <1>3, <1>4, DocumentReadSame

LEMMA SetDefaultsSame ==
    ASSUME NEW doc \in Seq(CharTokens), ParseDocument(doc).ok
    PROVE  ParseChars(doc, SetDefaults) = ParseDocument(doc)
<1> DEFINE f == SetDefaults
<1>0. /\ f.allowComments = TRUE /\ f.allowDroppedNullPlaceholders = FALSE /\ f.rejectDupKeys = FALSE
      /\ f.allowNumericKeys = FALSE /\ f.allowSingleQuotes = FALSE /\ f.allowSpecialFloats = FALSE
      /\ f.failIfExtra = FALSE /\ f.strictRoot = FALSE
  BY DEF SetDefaults
<1>1. IsSettings(f)
  BY SettingsAre
<1> HIDE DEF f
<1>2. Refused(f) = Refused(AsReader) /\ NameTokens(f) = NameTokens(AsReader)
  <2>1. Refused(f) = {"bom"} \cup SingleQuoted \cup SpecialFloats
    BY <1>0 DEF Refused
  <2>2. Refused(f) = Refused(AsReader)
    BY <2>1, AsReaderTokens
  <2>3. NameTokens(f) = (Strings \cup SingleQuoted) \ Refused(f)
    BY <1>0 DEF NameTokens
  <2>4. NameTokens(AsReader) = (Strings \cup SingleQuoted) \ Refused(AsReader)
    BY AsReaderIs DEF NameTokens
  <2>5. QED
    BY <2>2, <2>3, <2>4
<1>3. LikeReader(f)
  BY <1>0, <1>1, <1>2, AsReaderTokens DEF LikeReader
<1>4. StartOf(doc, f) = 1
  <2>1. ASSUME Token(doc, 1) = "bom" PROVE FALSE
    <3>1. 1 \in Places(doc) /\ 1 <= Len(doc) /\ 1 \in 1 .. StackLimit + 1
      BY <2>1, ReaderAssumption DEF Places, Token
    <3>2. "bom" \notin Tokens
      BY CharReaderAssumption
    <3>3. ~BeginsAValue(Token(doc, 1)) /\ Token(doc, 1) # "/"
      BY <2>1, <3>2, Zenon DEF BeginsAValue, Tokens, Marks
    <3>4. ~ReaderValue(doc, 1, 1).ok
      BY <3>1, <3>3, NoValueAt
    <3>5. QED
      BY <3>4 DEF ParseDocument, ReaderValue
  <2>2. QED
    BY <2>1 DEF StartOf
<1>5. Compared(f, ParseDocument(doc))
  BY DEF Compared
<1>6. ParseChars(doc, f) = ParseDocument(doc)
  BY <1>0, <1>3, <1>4, <1>5, DocumentReadSame
<1>7. QED
  BY <1>6 DEF f

LEMMA DocumentsAreRead == ReaderIInv => ReadsItsGrammar
<1> SUFFICES ASSUME ReaderIInv PROVE ReadsItsGrammar
  OBVIOUS
<1> DEFINE r == ParseDocument(document)
<1>1. document \in Seq(Tokens) /\ parsed = r
  BY DEF ReaderIInv
<1>2. document \in Seq(CharTokens) /\ 1 \in Places(document)
  BY <1>1 DEF CharTokens, Places
<1>3. r = ParseChars(document, AsReader)
  BY <1>2, AsReaderSame
<1>4. CharReadsItsGrammar(document, AsReader)
  BY <1>2, CharGrammarRead
<1>5. BeginsWithValue(document) <=> IsDocument(document, AsReader)
  BY <1>2, BeginsAreDocuments
<1>6. r \in Outcomes(document, 1, ReaderTree[StackLimit])
  BY <1>2, ReadsOutcome
<1> HIDE DEF r
<1>7. CASE r.thrown
  BY <1>1, <1>3, <1>4, <1>7, Zenon DEF CharReadsItsGrammar, ReadsItsGrammar
<1>8. CASE ~r.thrown
  <2>1. r.ok <=> BeginsWithValue(document)
    BY <1>3, <1>4, <1>5, <1>8, Zenon DEF CharReadsItsGrammar
  <2>2. /\ r.ok => r.errors = <<>>
        /\ ~r.ok => \E e \in Places(document) : r.errors = <<e>>
    BY <1>2, <1>6, <1>8, OutcomeIs
  <2>3. Len(r.errors) = (IF r.ok THEN 0 ELSE 1)
    BY <2>2
  <2>4. QED
    BY <1>1, <1>8, <2>1, <2>3, Zenon DEF ReadsItsGrammar
<1>9. QED
  BY <1>7, <1>8

\* Reader accepts exactly the documents that begin with a value of the grammar.
THEOREM ReadsItsGrammarHolds == ReaderSpec => []ReadsItsGrammar
BY ReaderInductive, DocumentsAreRead, PTL

LEMMA BothAreRead == ReaderIInv /\ CharIInv => ReadersReadTheirGrammar
<1> SUFFICES ASSUME ReaderIInv, CharIInv PROVE ReadersReadTheirGrammar
  OBVIOUS
<1>1. /\ settings \in {SetDefaults, StrictMode, AsReader} \cup OtherSettings
      /\ charDocument \in Seq(CharTokens) /\ charParsed = ParseChars(charDocument, settings)
  BY DEF CharIInv
<1>2. ReadsItsGrammar
  BY DocumentsAreRead
<1>3. CharReadsItsGrammar(charDocument, settings)
  BY <1>1, CharGrammarRead
<1>4. settings = AsReader => charParsed = ParseDocument(charDocument)
  BY <1>1, AsReaderSame
<1>5. settings = SetDefaults /\ ParseDocument(charDocument).ok => charParsed = ParseDocument(charDocument)
  BY <1>1, SetDefaultsSame
<1>6. QED
  BY <1>1, <1>2, <1>3, <1>4, <1>5, Zenon DEF CharReadsItsGrammar, ReadersReadTheirGrammar

-----------------------------------------------------------------------------
(* The writers of JSON: lists that are made step by step, and texts.       *)

StepsIn(N, V, g) == \A k \in 1 .. N : \A x \in V : g[<<k, x>>] \in V
StepsOn(N, b, g, f) == f[0] = b /\ \A k \in 1 .. N : f[k] = g[<<k, f[k - 1]>>]

LEMMA Stepwise ==
    ASSUME NEW N \in Nat, NEW V, NEW b \in V, NEW g, StepsIn(N, V, g)
    PROVE  \E f \in [0 .. N -> V] : StepsOn(N, b, g, f)
<1> DEFINE Made(n, f) == f[0] = b /\ \A k \in 1 .. n : f[k] = g[<<k, f[k - 1]>>]
<1> DEFINE M == {n \in Nat : n <= N => \E f \in [0 .. n -> V] : Made(n, f)}
<1>1. 0 \in M
  <2> DEFINE f == [k \in 0 .. 0 |-> b]
  <2>1. f \in [0 .. 0 -> V] /\ Made(0, f)
    OBVIOUS
  <2>2. QED
    BY <2>1
<1>2. ASSUME NEW n \in Nat, n \in M PROVE n + 1 \in M
  <2>1. SUFFICES ASSUME n + 1 <= N PROVE \E f \in [0 .. n + 1 -> V] : Made(n + 1, f)
    OBVIOUS
  <2>2. PICK f \in [0 .. n -> V] : Made(n, f)
    BY <1>2, <2>1
  <2> DEFINE x == g[<<n + 1, f[n]>>]
  <2>3. x \in V
    BY <2>1 DEF StepsIn
  <2> HIDE DEF x
  <2> DEFINE h == [k \in 0 .. n + 1 |-> IF k = n + 1 THEN x ELSE f[k]]
  <2>4. h \in [0 .. n + 1 -> V]
    BY <2>3
  <2>5. h[n + 1] = x /\ \A k \in 0 .. n : h[k] = f[k]
    OBVIOUS
  <2> HIDE DEF h
  <2>6. h[0] = b
    BY <2>2, <2>5
  <2>7. ASSUME NEW k \in 1 .. n + 1 PROVE h[k] = g[<<k, h[k - 1]>>]
    <3>1. k - 1 \in 0 .. n /\ h[k - 1] = f[k - 1]
      BY <2>5
    <3>2. CASE k = n + 1
      <4>1. k - 1 = n
        BY <3>2
      <4>2. QED
        BY <2>5, <3>1, <3>2, <4>1 DEF x
    <3>3. CASE k # n + 1
      <4>1. k \in 1 .. n
        BY <3>3
      <4>2. QED
        BY <2>2, <2>5, <3>1, <4>1
    <3>4. QED
      BY <3>2, <3>3
  <2>8. QED
    BY <2>4, <2>6, <2>7
<1> HIDE DEF M
<1>3. \A n \in Nat : n \in M
  BY <1>1, <1>2, AllNumbers
<1>4. N \in M
  BY <1>3
<1>5. QED
  BY <1>4 DEF M, StepsOn

\* What holds at the beginning and is kept by every step holds at the end.
LEMMA StepsKeep ==
    ASSUME NEW N \in Nat, NEW S, 0 \in S, \A k \in 1 .. N : k - 1 \in S => k \in S
    PROVE  \A k \in 0 .. N : k \in S
<1> DEFINE M == {n \in Nat : n <= N => n \in S}
<1>1. 0 \in M
  OBVIOUS
<1>2. ASSUME NEW n \in Nat, n \in M PROVE n + 1 \in M
  <2>1. SUFFICES ASSUME n + 1 <= N PROVE n + 1 \in S
    OBVIOUS
  <2>2. n \in S /\ n + 1 \in 1 .. N /\ (n + 1) - 1 = n
    BY <1>2, <2>1
  <2>3. QED
    BY <2>2
<1> HIDE DEF M
<1>3. \A n \in Nat : n \in M
  BY <1>1, <1>2, AllNumbers
<1>4. QED
  BY <1>3 DEF M

LEMMA StepsKeepBack ==
    ASSUME NEW N \in Nat, NEW S, N \in S, \A k \in 1 .. N : k \in S => k - 1 \in S
    PROVE  \A k \in 0 .. N : k \in S
<1> DEFINE M == {n \in Nat : n <= N => N - n \in S}
<1>1. 0 \in M
  OBVIOUS
<1>2. ASSUME NEW n \in Nat, n \in M PROVE n + 1 \in M
  <2>1. SUFFICES ASSUME n + 1 <= N PROVE N - (n + 1) \in S
    OBVIOUS
  <2>2. N - n \in S /\ N - n \in 1 .. N /\ (N - n) - 1 = N - (n + 1)
    BY <1>2, <2>1
  <2>3. QED
    BY <2>2
<1> HIDE DEF M
<1>3. \A n \in Nat : n \in M
  BY <1>1, <1>2, AllNumbers
<1>4. ASSUME NEW k \in 0 .. N PROVE k \in S
  <2>1. N - k \in Nat /\ N - k <= N /\ N - (N - k) = k
    OBVIOUS
  <2>2. N - k \in M
    BY <1>3, <2>1
  <2>3. QED
    BY <2>1, <2>2 DEF M
<1>5. QED
  BY <1>4

LEMMA OneToken ==
    ASSUME NEW A, NEW x \in A
    PROVE  <<x>> \in Seq(A) /\ Len(<<x>>) = 1 /\ <<x>>[1] = x
OBVIOUS

LEMMA TwoTokens ==
    ASSUME NEW A, NEW x \in A, NEW y \in A
    PROVE  <<x, y>> \in Seq(A) /\ Len(<<x, y>>) = 2 /\ <<x, y>>[1] = x /\ <<x, y>>[2] = y
OBVIOUS

LEMMA ConcatIs ==
    ASSUME NEW A, NEW s \in Seq(A), NEW t \in Seq(A)
    PROVE  s \o t \in Seq(A) /\ Len(s \o t) = Len(s) + Len(t)
OBVIOUS

LEMMA TwiceConcat ==
    ASSUME NEW A, NEW x \in Seq(A), NEW c \in Seq(A), NEW t \in Seq(A)
    PROVE  (x \o c) \o t \in Seq(A) /\ Len((x \o c) \o t) = (Len(x) + Len(c)) + Len(t)
OBVIOUS

LEMMA EmptyConcat ==
    ASSUME NEW A, NEW s \in Seq(A)
    PROVE  <<>> \o s = s /\ s \o <<>> = s /\ <<>> \in Seq(A)
OBVIOUS

LEMMA ElementsAre ==
    ASSUME NEW A, NEW s \in Seq(A)
    PROVE  /\ Len(s) \in Nat /\ DOMAIN s = 1 .. Len(s) /\ \A i \in 1 .. Len(s) : s[i] \in A
           /\ s = [i \in 1 .. Len(s) |-> s[i]] /\ (s # <<>> <=> Len(s) >= 1)
OBVIOUS

LEMMA SequenceIs ==
    ASSUME NEW A, NEW n \in Nat, NEW s, s = [i \in 1 .. n |-> s[i]], \A i \in 1 .. n : s[i] \in A
    PROVE  s \in Seq(A) /\ Len(s) = n
<1>1. s \in [1 .. n -> A]
  BY Zenon
<1>2. s \in Seq(A)
  BY <1>1, SeqDef
<1>3. QED
  BY <1>1, <1>2

\* The text t stands in a document from p on.
Stands(doc, p, t) == \A i \in 1 .. Len(t) : (p + i) - 1 <= Len(doc) /\ doc[(p + i) - 1] = t[i]

LEMMA StandsBoth ==
    ASSUME NEW A, NEW doc \in Seq(A), NEW p \in Nat, p >= 1, NEW s \in Seq(A), NEW t \in Seq(A)
    PROVE  /\ Stands(doc, p, s \o t) <=> (Stands(doc, p, s) /\ Stands(doc, p + Len(s), t))
           /\ s \o t \in Seq(A) /\ Len(s \o t) = Len(s) + Len(t)
<1> DEFINE u == s \o t
<1>1. /\ u \in Seq(A) /\ Len(s) \in Nat /\ Len(t) \in Nat /\ Len(u) = Len(s) + Len(t)
      /\ \A i \in 1 .. Len(s) : u[i] = s[i]
      /\ \A i \in 1 .. Len(t) : u[Len(s) + i] = t[i]
  OBVIOUS
<1> HIDE DEF u
<1>2. ASSUME Stands(doc, p, u) PROVE Stands(doc, p, s)
  <2>1. ASSUME NEW i \in 1 .. Len(s) PROVE (p + i) - 1 <= Len(doc) /\ doc[(p + i) - 1] = s[i]
    BY <1>1, <1>2 DEF Stands
  <2>2. QED
    BY <2>1 DEF Stands
<1>3. ASSUME Stands(doc, p, u) PROVE Stands(doc, p + Len(s), t)
  <2>1. ASSUME NEW i \in 1 .. Len(t) PROVE ((p + Len(s)) + i) - 1 <= Len(doc) /\ doc[((p + Len(s)) + i) - 1] = t[i]
    <3>1. Len(s) + i \in 1 .. Len(u) /\ (p + (Len(s) + i)) - 1 = ((p + Len(s)) + i) - 1 /\ u[Len(s) + i] = t[i]
      BY <1>1
    <3>2. (p + (Len(s) + i)) - 1 <= Len(doc) /\ doc[(p + (Len(s) + i)) - 1] = u[Len(s) + i]
      BY <1>3, <3>1 DEF Stands
    <3>3. QED
      BY <3>1, <3>2
  <2>2. QED
    BY <2>1 DEF Stands
<1>4. ASSUME Stands(doc, p, s), Stands(doc, p + Len(s), t) PROVE Stands(doc, p, u)
  <2>1. ASSUME NEW i \in 1 .. Len(u) PROVE (p + i) - 1 <= Len(doc) /\ doc[(p + i) - 1] = u[i]
    <3>1. CASE i <= Len(s)
      <4>1. i \in 1 .. Len(s)
        BY <1>1, <3>1
      <4>2. QED
        BY <1>1, <1>4, <4>1 DEF Stands
    <3>2. CASE i > Len(s)
      <4> DEFINE k == i - Len(s)
      <4>1. k \in 1 .. Len(t) /\ i = Len(s) + k /\ ((p + Len(s)) + k) - 1 = (p + i) - 1
        BY <1>1, <3>2
      <4> HIDE DEF k
      <4>2. ((p + Len(s)) + k) - 1 <= Len(doc) /\ doc[((p + Len(s)) + k) - 1] = t[k]
        BY <1>4, <4>1 DEF Stands
      <4>3. u[i] = t[k]
        BY <1>1, <4>1
      <4>4. QED
        BY <4>1, <4>2, <4>3
    <3>3. QED
      BY <1>1, <3>1, <3>2
  <2>2. QED
    BY <2>1 DEF Stands
<1>5. QED
  BY <1>1, <1>2, <1>3, <1>4 DEF u

LEMMA StandsAll ==
    ASSUME NEW A, NEW doc \in Seq(A)
    PROVE  Stands(doc, 1, doc)
<1>1. Len(doc) \in Nat /\ \A i \in 1 .. Len(doc) : (1 + i) - 1 = i
  OBVIOUS
<1>2. QED
  BY <1>1 DEF Stands

TextLists == Seq(Seq(Tokens))

LEMMA TextListsAre ==
    ASSUME NEW texts \in TextLists
    PROVE  /\ Len(texts) \in Nat /\ DOMAIN texts = 1 .. Len(texts) /\ \A i \in 1 .. Len(texts) : texts[i] \in Seq(Tokens)
           /\ texts # <<>> <=> Len(texts) >= 1
BY ElementsAre DEF TextLists

\* Texts with commas between them, from the first k of them.
JoinStep(texts, k, x) == (x \o Comma(k)) \o texts[k]
Joins(texts, j) ==
    /\ j[0] = <<>>
    /\ \A k \in 1 .. Len(texts) : j[k] = JoinStep(texts, k, j[k - 1])

LEMMA CommaIs ==
    ASSUME NEW k
    PROVE  Comma(k) \in Seq(Tokens) /\ Len(Comma(k)) = (IF k = 1 THEN 0 ELSE 1)
<1> DEFINE x == ","
<1>1. x \in Tokens
  BY Zenon DEF Tokens, Marks
<1>2. Comma(k) = IF k = 1 THEN <<>> ELSE <<x>>
  BY Zenon DEF Comma
<1> HIDE DEF x
<1>3. QED
  BY <1>1, <1>2, OneToken, EmptyConcat

LEMMA JoinStepIs ==
    ASSUME NEW texts \in TextLists, NEW k \in 1 .. Len(texts), NEW x \in Seq(Tokens)
    PROVE  /\ JoinStep(texts, k, x) \in Seq(Tokens)
           /\ Len(JoinStep(texts, k, x)) = (Len(x) + Len(Comma(k))) + Len(texts[k])
<1>1. texts[k] \in Seq(Tokens)
  BY TextListsAre
<1>2. Comma(k) \in Seq(Tokens)
  BY CommaIs
<1>3. QED
  BY <1>1, <1>2, TwiceConcat DEF JoinStep

LEMMA WithCommasIs ==
    ASSUME NEW texts \in TextLists
    PROVE  \E j \in [0 .. Len(texts) -> Seq(Tokens)] : Joins(texts, j) /\ WithCommas(texts) = j[Len(texts)]
<1> DEFINE n == Len(texts)
<1> DEFINE V == Seq(Tokens)
<1> DEFINE b == <<>>
<1> DEFINE Step(k, x) == JoinStep(texts, k, x)
<1> DEFINE g == [y \in (1 .. n) \X V |-> Step(y[1], y[2])]
<1> DEFINE P(j) == j = [k \in 0 .. n |-> IF k = 0 THEN b ELSE Step(k, j[k - 1])]
<1> DEFINE j == CHOOSE f : P(f)
<1>0. n \in Nat /\ b \in V
  BY TextListsAre, EmptyConcat
<1>1. \A k \in 1 .. n : \A x \in V : Step(k, x) \in V
  BY JoinStepIs
<1>2. WithCommas(texts) = j[n]
  BY Zenon DEF WithCommas, JoinStep
<1>3. Joins(texts, j) <=> j[0] = b /\ \A k \in 1 .. n : j[k] = Step(k, j[k - 1])
  BY Zenon DEF Joins
<1> HIDE DEF n, V, b, Step
<1>4. \A k \in 1 .. n : \A x \in V : g[<<k, x>>] = Step(k, x)
  OBVIOUS
<1> HIDE DEF g
<1>5. PICK f \in [0 .. n -> V] : f[0] = b /\ \A k \in 1 .. n : f[k] = g[<<k, f[k - 1]>>]
  <2>1. StepsIn(n, V, g)
    BY <1>1, <1>4 DEF StepsIn
  <2>2. PICK f \in [0 .. n -> V] : StepsOn(n, b, g, f)
    BY <1>0, <2>1, Stepwise, Zenon
  <2>3. QED
    BY <2>2, Zenon DEF StepsOn
<1>6. P(f)
  <2>1. ASSUME NEW k \in 0 .. n PROVE f[k] = IF k = 0 THEN b ELSE Step(k, f[k - 1])
    <3>1. CASE k = 0
      BY <1>5, <3>1
    <3>2. CASE k # 0
      <4>1. k \in 1 .. n /\ k - 1 \in 0 .. n
        BY <1>0, <3>2
      <4>2. f[k - 1] \in V /\ f[k] = g[<<k, f[k - 1]>>]
        BY <1>5, <4>1
      <4>3. QED
        BY <1>4, <3>2, <4>1, <4>2
    <3>3. QED
      BY <3>1, <3>2
  <2>2. QED
    BY <1>5, <2>1
<1>7. P(j)
  <2> HIDE DEF P
  <2>1. QED
    BY <1>6, Zenon
<1> HIDE DEF j
<1>8. j[0] = b /\ \A k \in 1 .. n : j[k] = Step(k, j[k - 1])
  <2>1. \A k \in 0 .. n : j[k] = IF k = 0 THEN b ELSE Step(k, j[k - 1])
    BY <1>7
  <2>2. 0 \in 0 .. n /\ \A k \in 1 .. n : k \in 0 .. n /\ k # 0
    BY <1>0
  <2>3. QED
    BY <2>1, <2>2, Zenon
<1>9. \A k \in 0 .. n : j[k] \in V
  <2> DEFINE S == {k \in 0 .. n : j[k] \in V}
  <2>1. 0 \in S
    BY <1>0, <1>8
  <2>2. ASSUME NEW k \in 1 .. n, k - 1 \in S PROVE k \in S
    BY <1>0, <1>1, <1>8, <2>2
  <2> HIDE DEF S
  <2>3. \A k \in 0 .. n : k \in S
    BY <1>0, <2>1, <2>2, StepsKeep
  <2>4. QED
    BY <2>3 DEF S
<1>10. j \in [0 .. n -> V]
  <2>1. j = [k \in 0 .. n |-> j[k]]
    BY <1>7
  <2>2. QED
    BY <1>9, <2>1
<1>11. QED
  BY <1>2, <1>3, <1>8, <1>10, Zenon DEF n, V

\* Where each of the texts begins.
IsComma(doc, q) == q <= Len(doc) /\ doc[q] = ","
BeginsAt(j, p, i) == (p + Len(j[i - 1])) + Len(Comma(i))

LEMMA CommaStands ==
    ASSUME NEW doc, NEW p \in Nat, NEW k, k # 1, Stands(doc, p, Comma(k))
    PROVE  IsComma(doc, p)
<1> DEFINE x == ","
<1>1. Comma(k) = <<x>> /\ x \in Tokens
  BY Zenon DEF Comma, Tokens, Marks
<1> HIDE DEF x
<1>2. Len(Comma(k)) = 1 /\ Comma(k)[1] = x
  BY <1>1, OneToken
<1>3. 1 \in 1 .. Len(Comma(k)) /\ (p + 1) - 1 = p
  BY <1>2
<1>4. p <= Len(doc) /\ doc[p] = x
  BY <1>2, <1>3 DEF Stands
<1>5. QED
  BY <1>4, Zenon DEF IsComma, x

\* One step of the joined texts, in a document.
LEMMA StepStands ==
    ASSUME NEW doc \in Seq(Tokens), NEW p \in Nat, p >= 1, NEW x \in Seq(Tokens), NEW c \in Seq(Tokens), NEW t \in Seq(Tokens),
           Stands(doc, p, (x \o c) \o t)
    PROVE  /\ Stands(doc, p, x) /\ Stands(doc, p + Len(x), c) /\ Stands(doc, (p + Len(x)) + Len(c), t)
           /\ Len((x \o c) \o t) = (Len(x) + Len(c)) + Len(t)
<1>0. Len(x) \in Nat /\ Len(c) \in Nat /\ Len(t) \in Nat
  BY ElementsAre
<1>1. x \o c \in Seq(Tokens) /\ Len(x \o c) = Len(x) + Len(c)
  BY ConcatIs
<1>2. Stands(doc, p, x \o c) /\ Stands(doc, p + Len(x \o c), t)
  BY <1>1, StandsBoth
<1>3. Stands(doc, p, x) /\ Stands(doc, p + Len(x), c)
  BY <1>2, StandsBoth
<1>4. p + Len(x \o c) = (p + Len(x)) + Len(c)
  BY <1>0, <1>1
<1>5. Len((x \o c) \o t) = (Len(x) + Len(c)) + Len(t)
  BY TwiceConcat
<1>6. QED
  BY <1>2, <1>3, <1>4, <1>5

LEMMA TextsStand ==
    ASSUME NEW doc \in Seq(Tokens), NEW p \in Nat, p >= 1, NEW texts \in TextLists,
           NEW j \in [0 .. Len(texts) -> Seq(Tokens)], Joins(texts, j), Stands(doc, p, j[Len(texts)])
    PROVE  \A i \in 1 .. Len(texts) :
                 /\ BeginsAt(j, p, i) \in Nat /\ BeginsAt(j, p, i) >= 1
                 /\ i = 1 => BeginsAt(j, p, i) = p
                 /\ Stands(doc, BeginsAt(j, p, i), texts[i])
                 /\ BeginsAt(j, p, i) + Len(texts[i]) = p + Len(j[i])
                 /\ i < Len(texts) => /\ IsComma(doc, BeginsAt(j, p, i) + Len(texts[i]))
                                      /\ BeginsAt(j, p, i + 1) = (BeginsAt(j, p, i) + Len(texts[i])) + 1
<1> DEFINE n == Len(texts)
<1> DEFINE V == Seq(Tokens)
<1> DEFINE S == {k \in 0 .. n : Stands(doc, p, j[k])}
<1>0. n \in Nat /\ \A i \in 1 .. n : texts[i] \in V
  BY TextListsAre
<1>v. \A x \in V : Len(x) \in Nat
  BY ElementsAre
<1>j. j \in [0 .. n -> V] /\ Stands(doc, p, j[n])
  OBVIOUS
<1>c. \A k : Comma(k) \in V /\ Len(Comma(k)) = (IF k = 1 THEN 0 ELSE 1)
  BY CommaIs
<1>1. \A k \in 1 .. n : j[k] = (j[k - 1] \o Comma(k)) \o texts[k]
  BY Zenon DEF Joins, JoinStep
<1>b. j[0] = <<>> /\ Len(<<>>) = 0
  BY DEF Joins
<1>s. \A x, c, t \in V : Stands(doc, p, (x \o c) \o t) =>
           /\ Stands(doc, p, x) /\ Stands(doc, p + Len(x), c) /\ Stands(doc, (p + Len(x)) + Len(c), t)
           /\ Len((x \o c) \o t) = (Len(x) + Len(c)) + Len(t)
  BY StepStands
<1> HIDE DEF n, V
<1>2. ASSUME NEW k \in 1 .. n, Stands(doc, p, j[k])
      PROVE  /\ Stands(doc, p, j[k - 1]) /\ Stands(doc, p + Len(j[k - 1]), Comma(k))
             /\ Stands(doc, BeginsAt(j, p, k), texts[k])
             /\ Len(j[k]) = (Len(j[k - 1]) + Len(Comma(k))) + Len(texts[k])
  <2>1. k - 1 \in 0 .. n
    BY <1>0
  <2>2. j[k - 1] \in V /\ texts[k] \in V /\ Comma(k) \in V
    BY <1>0, <1>j, <1>c, <2>1
  <2>3. j[k] = (j[k - 1] \o Comma(k)) \o texts[k]
    BY <1>1
  <2> DEFINE x == j[k - 1]
  <2> DEFINE c == Comma(k)
  <2> DEFINE t == texts[k]
  <2>4. BeginsAt(j, p, k) = (p + Len(x)) + Len(c)
    BY DEF BeginsAt
  <2>5. x \in V /\ c \in V /\ t \in V /\ j[k] = (x \o c) \o t
    BY <2>2, <2>3
  <2> HIDE DEF x, c, t
  <2>6. /\ Stands(doc, p, x) /\ Stands(doc, p + Len(x), c) /\ Stands(doc, (p + Len(x)) + Len(c), t)
        /\ Len(j[k]) = (Len(x) + Len(c)) + Len(t)
    BY <1>2, <1>s, <2>5
  <2>7. QED
    BY <2>4, <2>6, Zenon DEF x, c, t
<1>3. \A k \in 0 .. n : Stands(doc, p, j[k])
  <2>1. n \in S
    BY <1>0, <1>j
  <2>2. ASSUME NEW k \in 1 .. n, k \in S PROVE k - 1 \in S
    <3>1. k - 1 \in 0 .. n
      BY <1>0
    <3>2. QED
      BY <1>2, <2>2, <3>1
  <2> HIDE DEF S
  <2>3. \A k \in 0 .. n : k \in S
    BY <1>0, <2>1, <2>2, StepsKeepBack
  <2>4. QED
    BY <2>3 DEF S
<1>5. ASSUME NEW i \in 1 .. n
      PROVE  /\ BeginsAt(j, p, i) \in Nat /\ BeginsAt(j, p, i) >= 1
             /\ i = 1 => BeginsAt(j, p, i) = p
             /\ Stands(doc, BeginsAt(j, p, i), texts[i])
             /\ BeginsAt(j, p, i) + Len(texts[i]) = p + Len(j[i])
  <2>1. i \in 0 .. n /\ i - 1 \in 0 .. n
    BY <1>0
  <2>2. Len(j[i - 1]) \in Nat /\ Len(Comma(i)) \in Nat /\ Len(texts[i]) \in Nat
    BY <1>0, <1>v, <1>j, <1>c, <2>1
  <2>3. Stands(doc, BeginsAt(j, p, i), texts[i]) /\ Len(j[i]) = (Len(j[i - 1]) + Len(Comma(i))) + Len(texts[i])
    BY <1>2, <1>3, <2>1
  <2>4. BeginsAt(j, p, i) = (p + Len(j[i - 1])) + Len(Comma(i))
    BY DEF BeginsAt
  <2>5. i = 1 => Len(j[i - 1]) = 0 /\ Len(Comma(i)) = 0
    BY <1>b, <1>c
  <2> DEFINE b == BeginsAt(j, p, i)
  <2> DEFINE x == Len(j[i - 1])
  <2> DEFINE y == Len(Comma(i))
  <2> DEFINE z == Len(texts[i])
  <2> DEFINE e == Len(j[i])
  <2>6. x \in Nat /\ y \in Nat /\ z \in Nat /\ e = (x + y) + z /\ b = (p + x) + y /\ (i = 1 => x = 0 /\ y = 0)
    BY <2>2, <2>3, <2>4, <2>5
  <2> HIDE DEF b, x, y, z, e
  <2>7. b \in Nat /\ b >= 1 /\ (i = 1 => b = p) /\ b + z = p + e
    BY <2>6
  <2>8. QED
    BY <2>3, <2>7, Zenon DEF b, z, e
<1>6. ASSUME NEW i \in 1 .. n, i < n
      PROVE  /\ IsComma(doc, BeginsAt(j, p, i) + Len(texts[i]))
             /\ BeginsAt(j, p, i + 1) = (BeginsAt(j, p, i) + Len(texts[i])) + 1
  <2> DEFINE k == i + 1
  <2>1. k \in 1 .. n /\ k - 1 = i /\ k # 1 /\ k \in 0 .. n /\ i \in 0 .. n
    BY <1>0, <1>6
  <2> HIDE DEF k
  <2>2. Stands(doc, p + Len(j[i]), Comma(k)) /\ Len(Comma(k)) = 1 /\ Len(j[i]) \in Nat
    BY <1>2, <1>3, <1>c, <1>j, <1>v, <2>1
  <2>3. IsComma(doc, p + Len(j[i]))
    BY <2>1, <2>2, CommaStands
  <2>4. BeginsAt(j, p, k) = (p + Len(j[i])) + 1
    BY <2>1, <2>2 DEF BeginsAt
  <2>5. BeginsAt(j, p, i) + Len(texts[i]) = p + Len(j[i])
    BY <1>5
  <2>6. QED
    BY <2>3, <2>4, <2>5 DEF k
<1>7. QED
  BY <1>5, <1>6 DEF n

-----------------------------------------------------------------------------
(* The parts of a value.                                                   *)

LEMMA LeafHasNoChildren ==
    ASSUME NEW u \in ReaderLeaves
    PROVE  Children(u) = {} /\ u.type = "scalar" /\ u.text \in Strings \cup Scalars
BY DEF ReaderLeaves, Children

LEMMA ArrayIs ==
    ASSUME NEW T, NEW u \in Arrays(T)
    PROVE  /\ u.type = "array" /\ u.elements \in Seq(T) /\ u = ArrayValue(u.elements)
           /\ Children(u) = {u.elements[i] : i \in DOMAIN u.elements} /\ Children(u) \subseteq T
<1>1. u.type = "array" /\ u.elements \in Seq(T) /\ u = ArrayValue(u.elements)
  BY DEF Arrays, ArrayValue
<1>2. Children(u) = {u.elements[i] : i \in DOMAIN u.elements}
  BY <1>1, Zenon DEF Children
<1>3. DOMAIN u.elements = 1 .. Len(u.elements) /\ \A i \in 1 .. Len(u.elements) : u.elements[i] \in T
  BY <1>1, ElementsAre
<1>4. QED
  BY <1>1, <1>2, <1>3

LEMMA ObjectIs ==
    ASSUME NEW names, NEW T, NEW u \in Objects(names, T)
    PROVE  /\ u.type = "object" /\ DOMAIN u.members \subseteq names /\ u = ObjectValue(u.members)
           /\ Children(u) \subseteq T /\ \A n \in DOMAIN u.members : u.members[n] \in T /\ u.members[n] \in Children(u)
           /\ u.members \in [DOMAIN u.members -> T]
<1>1. u.type = "object" /\ u = ObjectValue(u.members)
  BY DEF Objects, ObjectValue
<1>2. PICK S \in SUBSET names : u.members \in [S -> T]
  BY DEF Objects
<1>3. DOMAIN u.members = S
  BY <1>2
<1>4. DOMAIN u.members \subseteq names /\ u.members \in [DOMAIN u.members -> T] /\ \A n \in DOMAIN u.members : u.members[n] \in T
  BY <1>2, <1>3
<1>5. "object" # "array"
  OBVIOUS
<1>6. Children(u) = {u.members[n] : n \in DOMAIN u.members}
  BY <1>1, <1>5, Zenon DEF Children
<1>7. QED
  BY <1>1, <1>4, <1>6

\* The values of a level, and what is in them.
LEMMA LevelIs ==
    ASSUME NEW names, NEW n \in 0 .. StackLimit, NEW u \in Trees(names, ReaderLeaves)[n]
    PROVE  /\ n >= 1 /\ n - 1 \in 0 .. StackLimit
           /\ Children(u) \subseteq Trees(names, ReaderLeaves)[n - 1]
           /\ \/ u \in ReaderLeaves
              \/ u \in Arrays(Trees(names, ReaderLeaves)[n - 1])
              \/ u \in Objects(names, Trees(names, ReaderLeaves)[n - 1])
<1>1. n >= 1 /\ n - 1 \in 0 .. StackLimit /\ n \in 1 .. StackLimit
  BY TreesAre, ReaderAssumption
<1>2. u \in Level(names, ReaderLeaves, Trees(names, ReaderLeaves)[n - 1])
  BY <1>1, TreesAre
<1>3. \/ u \in ReaderLeaves
      \/ u \in Arrays(Trees(names, ReaderLeaves)[n - 1])
      \/ u \in Objects(names, Trees(names, ReaderLeaves)[n - 1])
  BY <1>2, Zenon DEF Level
<1>4. Children(u) \subseteq Trees(names, ReaderLeaves)[n - 1]
  <2> DEFINE T == Trees(names, ReaderLeaves)[n - 1]
  <2>1. u \in ReaderLeaves \/ u \in Arrays(T) \/ u \in Objects(names, T)
    BY <1>3
  <2> HIDE DEF T
  <2>2. u \in ReaderLeaves => Children(u) \subseteq T
    BY LeafHasNoChildren
  <2>3. u \in Arrays(T) => Children(u) \subseteq T
    BY ArrayIs
  <2>4. u \in Objects(names, T) => Children(u) \subseteq T
    BY ObjectIs
  <2>5. Children(u) \subseteq T
    BY <2>1, <2>2, <2>3, <2>4
  <2>6. QED
    BY <2>5 DEF T
<1>5. QED
  BY <1>1, <1>3, <1>4

\* Closed under what is in a value.
Closed(D) == \A u \in D : Children(u) \subseteq D

LEMMA PartsAre ==
    ASSUME NEW names, NEW v \in Trees(names, ReaderLeaves)[StackLimit]
    PROVE  v \in Parts(v) /\ Parts(v) \subseteq Trees(names, ReaderLeaves)[StackLimit] /\ Closed(Parts(v))
<1> DEFINE n == StackLimit
<1> DEFINE tree == Trees(names, ReaderLeaves)
<1> DEFINE V == SUBSET tree[n]
<1> DEFINE b == {v}
<1> DEFINE Step(x) == x \cup UNION {Children(u) : u \in x}
<1> DEFINE g == [y \in (1 .. n) \X V |-> Step(y[2])]
<1> DEFINE P(j) == j = [k \in 0 .. n |-> IF k = 0 THEN b ELSE Step(j[k - 1])]
<1> DEFINE j == CHOOSE f : P(f)
<1>0. n \in Nat /\ b \in V /\ n \in 0 .. n
  BY ReaderAssumption
<1>l. \A k \in 0 .. n : tree[k] \subseteq tree[n]
  BY TreesWithin
<1>c. \A k \in 0 .. n : \A u \in tree[k] : k >= 1 /\ Children(u) \subseteq tree[k - 1]
  BY LevelIs
<1>e. tree[0] = {}
  BY TreesAre
<1>1. ASSUME NEW x \in V PROVE Step(x) \in V
  <2>1. \A u \in x : Children(u) \subseteq tree[n]
    <3>1. \A u \in x : Children(u) \subseteq tree[n - 1] /\ n - 1 \in 0 .. n
      BY <1>0, <1>c
    <3>2. QED
      BY <3>1, <1>l
  <2>2. QED
    BY <2>1
<1>2. Parts(v) = j[n]
  BY Zenon DEF Parts
<1>v. v \in tree[n]
  OBVIOUS
<1> HIDE DEF n, tree
<1>4. \A k \in 1 .. n : \A x \in V : g[<<k, x>>] = Step(x)
  OBVIOUS
<1> HIDE DEF g
<1> HIDE DEF V, b, Step
<1>5. PICK f \in [0 .. n -> V] : f[0] = b /\ \A k \in 1 .. n : f[k] = g[<<k, f[k - 1]>>]
  <2>1. StepsIn(n, V, g)
    BY <1>1, <1>4 DEF StepsIn
  <2>2. PICK f \in [0 .. n -> V] : StepsOn(n, b, g, f)
    BY <1>0, <2>1, Stepwise, Zenon
  <2>3. QED
    BY <2>2, Zenon DEF StepsOn
<1>6. P(f)
  <2>1. ASSUME NEW k \in 0 .. n PROVE f[k] = IF k = 0 THEN b ELSE Step(f[k - 1])
    <3>1. CASE k = 0
      BY <1>5, <3>1
    <3>2. CASE k # 0
      <4>1. k \in 1 .. n /\ k - 1 \in 0 .. n
        BY <1>0, <3>2
      <4>2. f[k - 1] \in V /\ f[k] = g[<<k, f[k - 1]>>]
        BY <1>5, <4>1
      <4>3. QED
        BY <1>4, <3>2, <4>1, <4>2
    <3>3. QED
      BY <3>1, <3>2
  <2>2. QED
    BY <1>5, <2>1
<1>7. P(j)
  <2> HIDE DEF P
  <2>1. QED
    BY <1>6, Zenon
<1> HIDE DEF j
<1>8. j[0] = b /\ \A k \in 1 .. n : j[k] = Step(j[k - 1])
  <2>1. \A k \in 0 .. n : j[k] = IF k = 0 THEN b ELSE Step(j[k - 1])
    BY <1>7
  <2>2. 0 \in 0 .. n /\ \A k \in 1 .. n : k \in 0 .. n /\ k # 0
    BY <1>0
  <2>3. QED
    BY <2>1, <2>2, Zenon
<1>9. \A k \in 0 .. n : j[k] \in V
  <2> DEFINE S == {k \in 0 .. n : j[k] \in V}
  <2>1. 0 \in S
    BY <1>0, <1>8
  <2>2. ASSUME NEW k \in 1 .. n, k - 1 \in S PROVE k \in S
    BY <1>0, <1>1, <1>8, <2>2
  <2> HIDE DEF S
  <2>3. \A k \in 0 .. n : k \in S
    BY <1>0, <2>1, <2>2, StepsKeep
  <2>4. QED
    BY <2>3 DEF S
<1>10. \A k \in 0 .. n : v \in j[k]
  <2> DEFINE S == {k \in 0 .. n : v \in j[k]}
  <2>1. 0 \in S
    BY <1>0, <1>8 DEF b
  <2>2. ASSUME NEW k \in 1 .. n, k - 1 \in S PROVE k \in S
    BY <1>0, <1>8, <2>2 DEF Step
  <2> HIDE DEF S
  <2>3. \A k \in 0 .. n : k \in S
    BY <1>0, <2>1, <2>2, StepsKeep
  <2>4. QED
    BY <2>3 DEF S
<1>11. \A k \in 0 .. n : \A u \in j[k] : u \in tree[n - k] \/ (k >= 1 /\ Children(u) \subseteq j[k])
  <2> DEFINE I(k) == \A u \in j[k] : u \in tree[n - k] \/ (k >= 1 /\ Children(u) \subseteq j[k])
  <2> DEFINE S == {k \in 0 .. n : I(k)}
  <2>1. 0 \in S
    BY <1>0, <1>8, <1>v DEF b
  <2>2. ASSUME NEW k \in 1 .. n, k - 1 \in S PROVE k \in S
    <3>1. k - 1 \in 0 .. n /\ n - (k - 1) \in 0 .. n /\ (n - (k - 1)) - 1 = n - k /\ k \in 0 .. n /\ k >= 1
      BY <1>0
    <3>2. j[k] = j[k - 1] \cup UNION {Children(u) : u \in j[k - 1]}
      BY <1>8 DEF Step
    <3>3. \A w \in j[k - 1] : w \in tree[n - (k - 1)] \/ Children(w) \subseteq j[k - 1]
      BY <2>2
    <3>4. \A w \in j[k - 1] : Children(w) \subseteq tree[n - k] \/ Children(w) \subseteq j[k - 1]
      <4>1. \A w \in tree[n - (k - 1)] : Children(w) \subseteq tree[n - k]
        BY <1>c, <3>1
      <4>2. QED
        BY <3>3, <4>1, Zenon
    <3>5. \A w \in j[k - 1] : Children(w) \subseteq j[k]
      BY <3>2
    <3>6. I(k)
      <4> SUFFICES ASSUME NEW u \in j[k], u \notin tree[n - k] PROVE Children(u) \subseteq j[k]
        BY <3>1
      <4>1. u \in j[k - 1]
        BY <3>2, <3>4
      <4>2. QED
        BY <3>5, <4>1
    <3>7. QED
      BY <3>1, <3>6
  <2> HIDE DEF S
  <2>3. \A k \in 0 .. n : k \in S
    BY <1>0, <2>1, <2>2, StepsKeep
  <2>4. QED
    BY <2>3 DEF S
<1>12. QED
  <2>1. n - n = 0
    BY <1>0
  <2>2. v \in j[n] /\ j[n] \in V /\ \A u \in j[n] : Children(u) \subseteq j[n]
    BY <1>0, <1>9, <1>10, <1>11, <1>e, <2>1
  <2>3. QED
    BY <1>2, <2>2, Zenon DEF Closed, n, tree, V

\* The names of the members, each once.
IsNaming(s, X) ==
    /\ s \in Seq(Strings) /\ {s[i] : i \in 1 .. Len(s)} = X
    /\ \A i, k \in 1 .. Len(s) : s[i] = s[k] => i = k

LEMMA NamingGrows ==
    ASSUME NEW s, NEW X, IsNaming(s, X), NEW n \in Strings, n \notin X
    PROVE  IsNaming(Append(s, n), X \cup {n})
<1>1. s \in Seq(Strings) /\ {s[i] : i \in 1 .. Len(s)} = X /\ Len(s) \in Nat
  BY DEF IsNaming
<1>2. \A i, k \in 1 .. Len(s) : s[i] = s[k] => i = k
  BY DEF IsNaming
<1>3. /\ Append(s, n) \in Seq(Strings) /\ Len(Append(s, n)) = Len(s) + 1 /\ Append(s, n)[Len(s) + 1] = n
      /\ \A i \in 1 .. Len(s) : Append(s, n)[i] = s[i]
  BY <1>1
<1>4. \A i \in 1 .. Len(s) + 1 : i \in 1 .. Len(s) \/ i = Len(s) + 1
  BY <1>1
<1>5. \A i \in 1 .. Len(s) : s[i] # n /\ i \in 1 .. Len(s) + 1
  BY <1>1
<1>6. {Append(s, n)[i] : i \in 1 .. Len(s) + 1} = X \cup {n}
  BY <1>1, <1>3, <1>4, <1>5
<1>7. \A i, k \in 1 .. Len(s) + 1 : Append(s, n)[i] = Append(s, n)[k] => i = k
  BY <1>2, <1>3, <1>4, <1>5
<1>8. QED
  BY <1>3, <1>6, <1>7 DEF IsNaming

LEMMA MemberNamesAre ==
    ASSUME NEW u, DOMAIN u.members \subseteq Strings
    PROVE  IsNaming(MemberNames(u), DOMAIN u.members)
<1> DEFINE n == Len(NameOrder)
<1> DEFINE V == Seq(Strings)
<1> DEFINE b == <<>>
<1> DEFINE M == DOMAIN u.members
<1> DEFINE Step(k, x) == IF NameOrder[k] \in DOMAIN u.members THEN Append(x, NameOrder[k]) ELSE x
<1> DEFINE P(j) == j = [k \in 0 .. n |-> IF k = 0 THEN b ELSE Step(k, j[k - 1])]
<1> DEFINE j == CHOOSE h : P(h)
<1>o. /\ n \in Nat /\ \A k \in 1 .. n : NameOrder[k] \in Strings
      /\ \A x \in Strings : \E i \in 1 .. n : NameOrder[i] = x
      /\ \A i, k \in 1 .. n : NameOrder[i] = NameOrder[k] => i = k
  <2>1. NameOrder \in Seq(Strings)
    BY WriterAssumption
  <2>2. n \in Nat /\ DOMAIN NameOrder = 1 .. n /\ \A k \in 1 .. n : NameOrder[k] \in Strings
    BY <2>1, ElementsAre
  <2>3. QED
    BY <2>2, WriterAssumption
<1>0. n \in Nat /\ b \in V
  BY <1>o, EmptyConcat
<1>1. \A k \in 1 .. n : \A x \in V : Step(k, x) \in V
  BY <1>o
<1>2. MemberNames(u) = j[n]
  BY Zenon DEF MemberNames
<1>s. \A k, x : Step(k, x) = IF NameOrder[k] \in M THEN Append(x, NameOrder[k]) ELSE x
  OBVIOUS
<1>b. IsNaming(b, {})
  BY <1>0 DEF IsNaming
<1>m. M \subseteq Strings
  OBVIOUS
<1> HIDE DEF n, V, b, Step, M
<1> DEFINE g == [y \in (1 .. n) \X V |-> Step(y[1], y[2])]
<1>4. \A k \in 1 .. n : \A x \in V : g[<<k, x>>] = Step(k, x)
  OBVIOUS
<1> HIDE DEF g
<1>5. PICK f \in [0 .. n -> V] : f[0] = b /\ \A k \in 1 .. n : f[k] = g[<<k, f[k - 1]>>]
  <2>1. StepsIn(n, V, g)
    BY <1>1, <1>4 DEF StepsIn
  <2>2. PICK f \in [0 .. n -> V] : StepsOn(n, b, g, f)
    BY <1>0, <2>1, Stepwise, Zenon
  <2>3. QED
    BY <2>2, Zenon DEF StepsOn
<1>6. P(f)
  <2>1. ASSUME NEW k \in 0 .. n PROVE f[k] = IF k = 0 THEN b ELSE Step(k, f[k - 1])
    <3>1. CASE k = 0
      BY <1>5, <3>1
    <3>2. CASE k # 0
      <4>1. k \in 1 .. n /\ k - 1 \in 0 .. n
        BY <1>0, <3>2
      <4>2. f[k - 1] \in V /\ f[k] = g[<<k, f[k - 1]>>]
        BY <1>5, <4>1
      <4>3. QED
        BY <1>4, <3>2, <4>1, <4>2
    <3>3. QED
      BY <3>1, <3>2
  <2>2. QED
    BY <1>5, <2>1
<1>7. P(j)
  <2> HIDE DEF P
  <2>1. QED
    BY <1>6, Zenon
<1> HIDE DEF j
<1>8. j[0] = b /\ \A k \in 1 .. n : j[k] = Step(k, j[k - 1])
  <2>1. \A k \in 0 .. n : j[k] = IF k = 0 THEN b ELSE Step(k, j[k - 1])
    BY <1>7
  <2>2. 0 \in 0 .. n /\ \A k \in 1 .. n : k \in 0 .. n /\ k # 0
    BY <1>0
  <2>3. QED
    BY <2>1, <2>2, Zenon
<1>9. \A k \in 0 .. n : j[k] \in V
  <2> DEFINE S == {k \in 0 .. n : j[k] \in V}
  <2>1. 0 \in S
    BY <1>0, <1>8
  <2>2. ASSUME NEW k \in 1 .. n, k - 1 \in S PROVE k \in S
    BY <1>0, <1>1, <1>8, <2>2
  <2> HIDE DEF S
  <2>3. \A k \in 0 .. n : k \in S
    BY <1>0, <2>1, <2>2, StepsKeep
  <2>4. QED
    BY <2>3 DEF S
<1>10. j \in [0 .. n -> V]
  <2>1. j = [k \in 0 .. n |-> j[k]]
    BY <1>7
  <2>2. QED
    BY <1>9, <2>1
<1>11. \A k \in 0 .. n : IsNaming(j[k], {x \in M : \E i \in 1 .. k : NameOrder[i] = x})
  <2> DEFINE X(k) == {x \in M : \E i \in 1 .. k : NameOrder[i] = x}
  <2> DEFINE S == {k \in 0 .. n : IsNaming(j[k], X(k))}
  <2>1. 0 \in S
    <3>1. X(0) = {} /\ 0 \in 0 .. n
      BY <1>0
    <3> HIDE DEF X
    <3>2. IsNaming(j[0], X(0))
      BY <1>8, <1>b, <3>1
    <3>3. QED
      BY <3>1, <3>2
  <2>2. ASSUME NEW k \in 1 .. n, k - 1 \in S PROVE k \in S
    <3> DEFINE o == NameOrder[k]
    <3>1. k \in Nat /\ k >= 1 /\ k \in 0 .. n /\ \A i \in 1 .. k - 1 : i \in 1 .. k /\ i \in 1 .. n /\ i # k
      BY <1>0
    <3>2. \A i \in 1 .. k : i \in 1 .. k - 1 \/ i = k
      BY <1>0
    <3>3. IsNaming(j[k - 1], X(k - 1)) /\ o \in Strings
      BY <1>o, <2>2
    <3>4. j[k] = IF o \in M THEN Append(j[k - 1], o) ELSE j[k - 1]
      BY <1>8, <1>s
    <3>5. o \notin X(k - 1)
      BY <1>o, <3>1
    <3>6. X(k) = IF o \in M THEN X(k - 1) \cup {o} ELSE X(k - 1)
      BY <3>1, <3>2
    <3> HIDE DEF X, o
    <3>7. CASE o \in M
      <4>1. IsNaming(Append(j[k - 1], o), X(k - 1) \cup {o})
        BY <3>3, <3>5, NamingGrows
      <4>2. QED
        BY <3>1, <3>4, <3>6, <3>7, <4>1
    <3>8. CASE o \notin M
      BY <3>1, <3>3, <3>4, <3>6, <3>8
    <3>9. QED
      BY <3>7, <3>8
  <2> HIDE DEF S
  <2>3. \A k \in 0 .. n : k \in S
    BY <1>0, <2>1, <2>2, StepsKeep
  <2>4. QED
    BY <2>3 DEF S
<1>12. {x \in M : \E i \in 1 .. n : NameOrder[i] = x} = M
  BY <1>o, <1>m
<1>13. n \in 0 .. n
  BY <1>0
<1>14. IsNaming(j[n], M)
  BY <1>11, <1>12, <1>13
<1>15. QED
  BY <1>2, <1>14 DEF M

\* The least level a value is of: what is in it is of a lower one.
LEMMA HeightsAre ==
    ASSUME NEW D, D \subseteq ReaderTree[StackLimit], Closed(D)
    PROVE  \E m \in [D -> 0 .. StackLimit] : \A u \in D : \A c \in Children(u) : m[c] < m[u]
<1> DEFINE N == StackLimit
<1> DEFINE tree == ReaderTree
<1> DEFINE FirstAt(u, l) == u \in tree[l] /\ \A i \in 0 .. N : u \in tree[i] => l <= i
<1>0. N \in Nat /\ tree[0] = {}
  BY ReaderAssumption, TreesAre DEF ReaderTree
<1>c. \A k \in 0 .. N : \A u \in tree[k] : k >= 1 /\ k - 1 \in 0 .. N /\ Children(u) \subseteq tree[k - 1]
  BY LevelIs DEF ReaderTree
<1>d. D \subseteq tree[N] /\ \A u \in D : Children(u) \subseteq D
  BY DEF Closed
<1> HIDE DEF N, tree
<1>1. ASSUME NEW u \in D PROVE \E l \in 0 .. N : FirstAt(u, l)
  <2> DEFINE S == {k \in 0 .. N : (\A i \in 0 .. k : u \notin tree[i]) \/ \E l \in 0 .. N : FirstAt(u, l)}
  <2>1. 0 \in S
    <3>1. \A i \in 0 .. 0 : i = 0
      OBVIOUS
    <3>2. QED
      BY <1>0, <3>1
  <2>2. ASSUME NEW k \in 1 .. N, k - 1 \in S PROVE k \in S
    <3> SUFFICES ASSUME \A i \in 0 .. k - 1 : u \notin tree[i], \E i \in 0 .. k : u \in tree[i]
                 PROVE  FirstAt(u, k)
      BY <1>0, <2>2
    <3>1. u \in tree[k]
      BY <1>0
    <3>2. ASSUME NEW i \in 0 .. N, u \in tree[i] PROVE k <= i
      BY <1>0, <3>2
    <3>3. QED
      BY <3>1, <3>2
  <2> HIDE DEF S
  <2>3. \A k \in 0 .. N : k \in S
    BY <1>0, <2>1, <2>2, StepsKeep
  <2>4. N \in S /\ u \in tree[N] /\ N \in 0 .. N
    BY <1>0, <1>d, <2>3
  <2>5. QED
    BY <2>4 DEF S
<1> HIDE DEF FirstAt
<1> DEFINE m == [u \in D |-> CHOOSE l \in 0 .. N : FirstAt(u, l)]
<1>2. \A u \in D : m[u] \in 0 .. N /\ FirstAt(u, m[u])
  BY <1>1
<1>3. m \in [D -> 0 .. N]
  <2>1. m = [u \in D |-> m[u]]
    OBVIOUS
  <2> HIDE DEF m
  <2>2. QED
    BY <1>2, <2>1
<1> HIDE DEF m
<1>4. ASSUME NEW u \in D, NEW c \in Children(u) PROVE m[c] < m[u]
  <2>1. m[u] \in 0 .. N /\ u \in tree[m[u]] /\ c \in D
    BY <1>2, <1>4, <1>d DEF FirstAt
  <2>2. m[u] - 1 \in 0 .. N /\ c \in tree[m[u] - 1]
    BY <1>c, <1>4, <2>1
  <2>3. m[c] \in 0 .. N /\ m[c] <= m[u] - 1
    BY <1>2, <2>1, <2>2 DEF FirstAt
  <2>4. QED
    BY <1>0, <2>1, <2>3
<1>5. QED
  BY <1>3, <1>4 DEF N

\* The names that are no longer than their C strings, and the values whose names
\* all are.
PlainNames == {n \in Strings : CStringOf[n] = n}
PlainTree == Trees(PlainNames, ReaderLeaves)

LEMMA LevelOf ==
    ASSUME NEW names, NEW T, NEW others, NEW U, NEW u,
           u \in ReaderLeaves \/ u \in Arrays(T) \/ u \in Objects(names, T),
           Children(u) \subseteq U, u.type = "object" => DOMAIN u.members \subseteq others
    PROVE  u \in Level(others, ReaderLeaves, U)
<1>1. u \in ReaderLeaves => u \in Level(others, ReaderLeaves, U)
  BY DEF Level
<1>2. ASSUME u \in Arrays(T) PROVE u \in Arrays(U)
  <2>1. u.type = "array" /\ u.elements \in Seq(T) /\ u = ArrayValue(u.elements)
        /\ Children(u) = {u.elements[i] : i \in DOMAIN u.elements}
    BY <1>2, ArrayIs
  <2>2. /\ Len(u.elements) \in Nat /\ DOMAIN u.elements = 1 .. Len(u.elements)
        /\ u.elements = [i \in 1 .. Len(u.elements) |-> u.elements[i]]
    BY <2>1, ElementsAre
  <2>3. \A i \in 1 .. Len(u.elements) : u.elements[i] \in U
    BY <2>1, <2>2
  <2>4. u.elements \in Seq(U)
    BY <2>2, <2>3, SequenceIs
  <2>5. QED
    BY <2>1, <2>4 DEF Arrays, ArrayValue
<1>3. ASSUME u \in Objects(names, T) PROVE u \in Objects(others, U)
  <2>1. /\ u.type = "object" /\ u = ObjectValue(u.members) /\ u.members \in [DOMAIN u.members -> T]
        /\ \A n \in DOMAIN u.members : u.members[n] \in Children(u)
    BY <1>3, ObjectIs
  <2>2. u.members \in [DOMAIN u.members -> U] /\ DOMAIN u.members \in SUBSET others
    BY <2>1
  <2>3. QED
    BY <2>1, <2>2 DEF Objects, ObjectValue
<1>4. QED
  BY <1>1, <1>2, <1>3 DEF Level

LEMMA ObjectsHaveNames ==
    ASSUME NEW names, NEW n \in 0 .. StackLimit, NEW u \in Trees(names, ReaderLeaves)[n], u.type = "object"
    PROVE  u \in Objects(names, Trees(names, ReaderLeaves)[n - 1]) /\ DOMAIN u.members \subseteq names
<1>1. \/ u \in ReaderLeaves
      \/ u \in Arrays(Trees(names, ReaderLeaves)[n - 1])
      \/ u \in Objects(names, Trees(names, ReaderLeaves)[n - 1])
  BY LevelIs
<1>2. u \notin ReaderLeaves
  BY LeafHasNoChildren
<1>3. u \notin Arrays(Trees(names, ReaderLeaves)[n - 1])
  BY DEF Arrays
<1>4. u \in Objects(names, Trees(names, ReaderLeaves)[n - 1])
  BY <1>1, <1>2, <1>3, Zenon
<1>5. DOMAIN u.members \subseteq names
  <2> DEFINE T == Trees(names, ReaderLeaves)[n - 1]
  <2>1. u \in Objects(names, T)
    BY <1>4
  <2> HIDE DEF T
  <2>2. QED
    BY <2>1, ObjectIs
<1>6. QED
  BY <1>4, <1>5

\* Whether every name is plain, from the names or from the values.
LEMMA PlainIs ==
    ASSUME NEW v \in ReaderTree[StackLimit]
    PROVE  (\A n \in NamesOf(v) : CStringOf[n] = n) <=> v \in PlainTree[StackLimit]
<1> DEFINE N == StackLimit
<1>0. N \in Nat /\ N \in 0 .. N
  BY ReaderAssumption
<1>n. NamesOf(v) = UNION {DOMAIN u.members : u \in {u \in Parts(v) : u.type = "object"}}
  BY Zenon DEF NamesOf
<1>1. ASSUME v \in PlainTree[N] PROVE \A n \in NamesOf(v) : CStringOf[n] = n
  <2>1. Parts(v) \subseteq PlainTree[N]
    BY <1>1, PartsAre DEF PlainTree
  <2>2. \A u \in Parts(v) : u.type = "object" => DOMAIN u.members \subseteq PlainNames
    BY <1>0, <2>1, ObjectsHaveNames DEF PlainTree
  <2>3. QED
    BY <1>n, <2>2 DEF PlainNames
<1>2. ASSUME \A n \in NamesOf(v) : CStringOf[n] = n PROVE v \in PlainTree[N]
  <2> DEFINE D == Parts(v)
  <2>1. v \in D /\ D \subseteq ReaderTree[N] /\ \A u \in D : Children(u) \subseteq D
    BY PartsAre DEF ReaderTree, Closed
  <2>2. \A u \in D : u.type = "object" => \A n \in DOMAIN u.members : CStringOf[n] = n
    BY <1>2, <1>n
  <2> DEFINE S == {k \in 0 .. N : \A u \in D : u \in ReaderTree[k] => u \in PlainTree[k]}
  <2> HIDE DEF D
  <2>3. 0 \in S
    BY <1>0, TreesAre DEF ReaderTree
  <2>4. ASSUME NEW k \in 1 .. N, k - 1 \in S PROVE k \in S
    <3> SUFFICES ASSUME NEW u \in D, u \in ReaderTree[k] PROVE u \in PlainTree[k]
      BY <1>0
    <3>1. k \in 0 .. N /\ k - 1 \in 0 .. N
      BY <1>0
    <3>2. /\ Children(u) \subseteq ReaderTree[k - 1]
          /\ u \in ReaderLeaves \/ u \in Arrays(ReaderTree[k - 1]) \/ u \in Objects(Strings, ReaderTree[k - 1])
      BY <3>1, LevelIs DEF ReaderTree
    <3>3. Children(u) \subseteq PlainTree[k - 1]
      BY <2>1, <2>4, <3>2
    <3>4. u.type = "object" => DOMAIN u.members \subseteq PlainNames
      <4>1. u.type = "object" => DOMAIN u.members \subseteq Strings
        BY <3>1, ObjectsHaveNames DEF ReaderTree
      <4>2. QED
        BY <2>2, <4>1 DEF PlainNames
    <3>5. u \in Level(PlainNames, ReaderLeaves, PlainTree[k - 1])
      BY <3>2, <3>3, <3>4, LevelOf
    <3>6. QED
      BY <3>5, TreesAre DEF PlainTree
  <2> HIDE DEF S
  <2>5. \A k \in 0 .. N : k \in S
    BY <1>0, <2>3, <2>4, StepsKeep
  <2>6. QED
    BY <1>0, <2>1, <2>5 DEF S
<1>3. QED
  BY <1>1, <1>2

-----------------------------------------------------------------------------
(* The text of a value, which the writers without a layout and those with  *)
(* one write: of a part as text has it.                                    *)

NameAs(c, n) == IF c THEN CStringOf[n] ELSE n
ElementTexts(text, u) == [i \in DOMAIN u.elements |-> text[u.elements[i]]]
NamedText(name, t) == <<name, ":">> \o t
MemberTexts(c, text, u) ==
    [i \in DOMAIN MemberNames(u) |-> NamedText(NameAs(c, MemberNames(u)[i]), text[u.members[MemberNames(u)[i]]])]
TextAs(c, text, u) ==
    IF u.type = "scalar" THEN <<u.text>>
    ELSE IF u.type = "array" THEN <<"[">> \o WithCommas(ElementTexts(text, u)) \o <<"]">>
    ELSE <<"{">> \o WithCommas(MemberTexts(c, text, u)) \o <<"}">>

LEMMA FastValueIs ==
    ASSUME NEW text, NEW u
    PROVE  FastValue(text, u) = TextAs(FALSE, text, u)
<1>1. \A n : NameAs(FALSE, n) = n
  BY DEF NameAs
<1>2. MemberTexts(FALSE, text, u) =
        [i \in DOMAIN MemberNames(u) |-> <<MemberNames(u)[i], ":">> \o text[u.members[MemberNames(u)[i]]]]
  BY <1>1, Zenon DEF MemberTexts, NamedText
<1>3. QED
  BY <1>2, Zenon DEF FastValue, TextAs, ElementTexts

LEMMA NameAsIs ==
    ASSUME NEW c \in BOOLEAN, NEW n \in Strings
    PROVE  NameAs(c, n) \in Strings /\ (c => NameAs(c, n) \in PlainNames) /\ (~c \/ n \in PlainNames => NameAs(c, n) = n)
BY WriterAssumption DEF NameAs, PlainNames

TextsIn(text, u) == \A x \in Children(u) : text[x] \in Seq(Tokens)
BeginsText(t) == t \in Seq(Tokens) /\ Len(t) >= 1 /\ BeginsAValue(t[1])

LEMMA ElementTextsAre ==
    ASSUME NEW T, NEW u \in Arrays(T), NEW text, TextsIn(text, u)
    PROVE  /\ ElementTexts(text, u) \in TextLists /\ Len(ElementTexts(text, u)) = Len(u.elements)
           /\ Len(u.elements) \in Nat
           /\ \A i \in 1 .. Len(u.elements) :
                ElementTexts(text, u)[i] = text[u.elements[i]] /\ u.elements[i] \in Children(u) /\ u.elements[i] \in T
<1> DEFINE n == Len(u.elements)
<1> DEFINE s == ElementTexts(text, u)
<1>1. u.elements \in Seq(T) /\ Children(u) = {u.elements[i] : i \in DOMAIN u.elements}
  BY ArrayIs
<1>2. n \in Nat /\ DOMAIN u.elements = 1 .. n /\ \A i \in 1 .. n : u.elements[i] \in T
  BY <1>1, ElementsAre
<1>3. \A i \in 1 .. n : u.elements[i] \in Children(u)
  BY <1>1, <1>2
<1>4. s = [i \in 1 .. n |-> text[u.elements[i]]]
  BY <1>2 DEF ElementTexts
<1>5. s = [i \in 1 .. n |-> s[i]] /\ \A i \in 1 .. n : s[i] = text[u.elements[i]]
  BY <1>4
<1>6. \A i \in 1 .. n : s[i] \in Seq(Tokens)
  BY <1>3, <1>5 DEF TextsIn
<1> HIDE DEF s
<1>7. s \in TextLists /\ Len(s) = n
  BY <1>2, <1>5, <1>6, SequenceIs DEF TextLists
<1>8. QED
  BY <1>2, <1>3, <1>5, <1>7 DEF s

LEMMA MemberTextsAre ==
    ASSUME NEW T, NEW u \in Objects(Strings, T), NEW text, TextsIn(text, u), NEW c \in BOOLEAN
    PROVE  /\ MemberTexts(c, text, u) \in TextLists /\ Len(MemberTexts(c, text, u)) = Len(MemberNames(u))
           /\ IsNaming(MemberNames(u), DOMAIN u.members) /\ Len(MemberNames(u)) \in Nat
           /\ DOMAIN MemberNames(u) = 1 .. Len(MemberNames(u))
           /\ \A i \in 1 .. Len(MemberNames(u)) :
                /\ MemberTexts(c, text, u)[i] = NamedText(NameAs(c, MemberNames(u)[i]), text[u.members[MemberNames(u)[i]]])
                /\ MemberNames(u)[i] \in Strings /\ MemberNames(u)[i] \in DOMAIN u.members
                /\ u.members[MemberNames(u)[i]] \in Children(u) /\ u.members[MemberNames(u)[i]] \in T
<1> DEFINE ns == MemberNames(u)
<1> DEFINE n == Len(ns)
<1> DEFINE s == MemberTexts(c, text, u)
<1> DEFINE Item(i) == NamedText(NameAs(c, ns[i]), text[u.members[ns[i]]])
<1>1. DOMAIN u.members \subseteq Strings /\ \A x \in DOMAIN u.members : u.members[x] \in T /\ u.members[x] \in Children(u)
  BY ObjectIs
<1>2. IsNaming(ns, DOMAIN u.members)
  BY <1>1, MemberNamesAre
<1>3. ns \in Seq(Strings) /\ {ns[i] : i \in 1 .. n} = DOMAIN u.members
  BY <1>2 DEF IsNaming
<1>4. n \in Nat /\ DOMAIN ns = 1 .. n /\ \A i \in 1 .. n : ns[i] \in Strings
  BY <1>3, ElementsAre
<1>5. s = [i \in 1 .. n |-> Item(i)]
  BY <1>4 DEF MemberTexts
<1> HIDE DEF ns, n
<1>6. \A i \in 1 .. n : ns[i] \in DOMAIN u.members /\ u.members[ns[i]] \in Children(u)
  BY <1>1, <1>3
<1>7. ASSUME NEW i \in 1 .. n PROVE Item(i) \in Seq(Tokens)
  <2> DEFINE a == NameAs(c, ns[i])
  <2> DEFINE t == text[u.members[ns[i]]]
  <2>1. a \in Tokens
    BY <1>4, NameAsIs DEF Tokens
  <2>2. ":" \in Tokens
    BY Zenon DEF Tokens, Marks
  <2>3. t \in Seq(Tokens)
    BY <1>6 DEF TextsIn
  <2> HIDE DEF a, t
  <2>4. <<a, ":">> \in Seq(Tokens)
    BY <2>1, <2>2, TwoTokens
  <2>5. <<a, ":">> \o t \in Seq(Tokens)
    BY <2>3, <2>4, ConcatIs
  <2>6. QED
    BY <2>5 DEF a, t, NamedText
<1> HIDE DEF Item
<1>8. s = [i \in 1 .. n |-> s[i]] /\ \A i \in 1 .. n : s[i] = Item(i)
  BY <1>5
<1> HIDE DEF s
<1>9. \A i \in 1 .. n : s[i] \in Seq(Tokens)
  BY <1>7, <1>8
<1>10. s \in TextLists /\ Len(s) = n
  BY <1>4, <1>8, <1>9, SequenceIs DEF TextLists
<1>11. \A i \in 1 .. n : /\ s[i] = Item(i) /\ ns[i] \in Strings /\ ns[i] \in DOMAIN u.members
                         /\ u.members[ns[i]] \in Children(u) /\ u.members[ns[i]] \in T
  BY <1>1, <1>4, <1>6, <1>8
<1>12. QED
  BY <1>2, <1>4, <1>10, <1>11, Zenon DEF s, n, ns, Item

\* A text in brackets.
LEMMA BracketedIs ==
    ASSUME NEW A, NEW x \in A, NEW y \in A, NEW s \in Seq(A)
    PROVE  /\ (<<x>> \o s) \o <<y>> \in Seq(A) /\ Len((<<x>> \o s) \o <<y>>) = (1 + Len(s)) + 1
           /\ ((<<x>> \o s) \o <<y>>)[1] = x /\ Len(s) \in Nat
<1>1. <<x>> \in Seq(A) /\ <<y>> \in Seq(A) /\ Len(<<x>>) = 1 /\ Len(<<y>>) = 1 /\ <<x>>[1] = x
  BY OneToken
<1>2. Len(s) \in Nat
  BY ElementsAre
<1>3. <<x>> \o s \in Seq(A) /\ Len(<<x>> \o s) = 1 + Len(s)
  BY <1>1, ConcatIs
<1>4. (<<x>> \o s) \o <<y>> \in Seq(A) /\ Len((<<x>> \o s) \o <<y>>) = (1 + Len(s)) + 1
  BY <1>1, <1>3, ConcatIs
<1>5. (<<x>> \o s)[1] = x
  BY <1>1, <1>2
<1>6. ((<<x>> \o s) \o <<y>>)[1] = (<<x>> \o s)[1]
  <2> DEFINE z == <<x>> \o s
  <2>1. z \in Seq(A) /\ Len(z) >= 1 /\ <<y>> \in Seq(A)
    BY <1>1, <1>2, <1>3
  <2> HIDE DEF z
  <2>2. (z \o <<y>>)[1] = z[1]
    BY <2>1
  <2>3. QED
    BY <2>2 DEF z
<1>7. QED
  BY <1>2, <1>4, <1>5, <1>6

LEMMA JoinedIs ==
    ASSUME NEW texts \in TextLists
    PROVE  WithCommas(texts) \in Seq(Tokens)
<1>1. PICK j \in [0 .. Len(texts) -> Seq(Tokens)] : WithCommas(texts) = j[Len(texts)]
  BY WithCommasIs
<1>2. Len(texts) \in 0 .. Len(texts)
  BY TextListsAre
<1>3. QED
  BY <1>1, <1>2

LEMMA TextAsIs ==
    ASSUME NEW n \in 0 .. StackLimit, NEW u \in ReaderTree[n], NEW text, TextsIn(text, u), NEW c \in BOOLEAN
    PROVE  BeginsText(TextAs(c, text, u))
<1> DEFINE T == ReaderTree[n - 1]
<1>1. u \in ReaderLeaves \/ u \in Arrays(T) \/ u \in Objects(Strings, T)
  BY LevelIs DEF ReaderTree
<1> HIDE DEF T
<1>2. CASE u \in ReaderLeaves
  <2> DEFINE x == u.text
  <2>1. u.type = "scalar" /\ x \in Strings \cup Scalars
    BY <1>2, LeafHasNoChildren
  <2>2. TextAs(c, text, u) = <<x>>
    BY <2>1, Zenon DEF TextAs
  <2>3. x \in Tokens /\ BeginsAValue(x)
    BY <2>1, Zenon DEF Tokens, BeginsAValue
  <2> HIDE DEF x
  <2>4. <<x>> \in Seq(Tokens) /\ Len(<<x>>) >= 1 /\ <<x>>[1] = x
    BY <2>3, OneToken
  <2>5. QED
    BY <2>2, <2>3, <2>4 DEF BeginsText
<1>3. CASE u \in Arrays(T)
  <2> DEFINE x == "["
  <2> DEFINE y == "]"
  <2> DEFINE s == WithCommas(ElementTexts(text, u))
  <2>1. u.type = "array"
    BY <1>3, ArrayIs
  <2>2. TextAs(c, text, u) = (<<x>> \o s) \o <<y>>
    BY <2>1 DEF TextAs
  <2>3. x \in Tokens /\ y \in Tokens /\ BeginsAValue(x)
    BY Zenon DEF Tokens, Marks, BeginsAValue
  <2>4. s \in Seq(Tokens)
    BY <1>3, ElementTextsAre, JoinedIs
  <2> HIDE DEF x, y, s
  <2>5. QED
    BY <2>2, <2>3, <2>4, BracketedIs DEF BeginsText
<1>4. CASE u \in Objects(Strings, T)
  <2> DEFINE x == "{"
  <2> DEFINE y == "}"
  <2> DEFINE s == WithCommas(MemberTexts(c, text, u))
  <2>1. u.type = "object"
    BY <1>4, ObjectIs
  <2>0. "object" # "array" /\ "object" # "scalar"
    OBVIOUS
  <2>2. TextAs(c, text, u) = (<<x>> \o s) \o <<y>>
    BY <2>0, <2>1, Zenon DEF TextAs
  <2>3. x \in Tokens /\ y \in Tokens /\ BeginsAValue(x)
    BY Zenon DEF Tokens, Marks, BeginsAValue
  <2>4. s \in Seq(Tokens)
    BY <1>4, MemberTextsAre, JoinedIs
  <2> HIDE DEF x, y, s
  <2>5. QED
    BY <2>2, <2>3, <2>4, BracketedIs DEF BeginsText
<1>5. QED
  BY <1>1, <1>2, <1>3, <1>4

LEMMA TextSame ==
    ASSUME NEW n \in 0 .. StackLimit, NEW u \in ReaderTree[n], NEW f, NEW g, \A x \in Children(u) : f[x] = g[x],
           NEW c
    PROVE  TextAs(c, f, u) = TextAs(c, g, u)
<1> DEFINE T == ReaderTree[n - 1]
<1>1. u \in ReaderLeaves \/ u \in Arrays(T) \/ u \in Objects(Strings, T)
  BY LevelIs DEF ReaderTree
<1> HIDE DEF T
<1>2. CASE u \in ReaderLeaves
  <2>1. u.type = "scalar"
    BY <1>2, LeafHasNoChildren
  <2>2. QED
    BY <2>1, Zenon DEF TextAs
<1>3. CASE u \in Arrays(T)
  <2>1. u.type = "array" /\ Children(u) = {u.elements[i] : i \in DOMAIN u.elements} /\ "array" # "scalar"
    BY <1>3, ArrayIs
  <2>2. \A i \in DOMAIN u.elements : f[u.elements[i]] = g[u.elements[i]]
    BY <2>1
  <2>3. ElementTexts(f, u) = ElementTexts(g, u)
    BY <2>2, Zenon DEF ElementTexts
  <2>4. QED
    BY <2>1, <2>3, Zenon DEF TextAs
<1>4. CASE u \in Objects(Strings, T)
  <2>1. u.type = "object" /\ \A x \in DOMAIN u.members : u.members[x] \in Children(u)
    BY <1>4, ObjectIs
  <2>2. DOMAIN u.members \subseteq Strings
    BY <1>4, ObjectIs
  <2>3. IsNaming(MemberNames(u), DOMAIN u.members)
    BY <2>2, MemberNamesAre
  <2>4. MemberNames(u) \in Seq(Strings) /\ \A i \in 1 .. Len(MemberNames(u)) : MemberNames(u)[i] \in DOMAIN u.members
    BY <2>3 DEF IsNaming
  <2>5. DOMAIN MemberNames(u) = 1 .. Len(MemberNames(u))
    BY <2>4, ElementsAre
  <2>6. \A i \in DOMAIN MemberNames(u) : f[u.members[MemberNames(u)[i]]] = g[u.members[MemberNames(u)[i]]]
    BY <2>1, <2>4, <2>5
  <2>7. MemberTexts(c, f, u) = MemberTexts(c, g, u)
    BY <2>6, Zenon DEF MemberTexts
  <2>8. "object" # "array" /\ "object" # "scalar"
    OBVIOUS
  <2>9. QED
    BY <2>1, <2>7, <2>8, Zenon DEF TextAs
<1>5. QED
  BY <1>1, <1>2, <1>3, <1>4

\* What text has of every value of D is its text.
TextMap(c, D, text) ==
    text \in [D -> Seq(Tokens)] /\ \A u \in D : text[u] = TextAs(c, text, u) /\ BeginsText(text[u])
PartsOfTree(D) == D \subseteq ReaderTree[StackLimit] /\ Closed(D)

LEMMA MapIsTextMap ==
    ASSUME NEW D, PartsOfTree(D), NEW c \in BOOLEAN, NEW text, text = [u \in D |-> text[u]],
           \A u \in D : text[u] = TextAs(c, text, u)
    PROVE  TextMap(c, D, text)
<1> DEFINE S == {u \in D : text[u] \in Seq(Tokens)}
<1>0. D \subseteq ReaderTree[StackLimit] /\ Closed(D) /\ \A u \in D : Children(u) \subseteq D
  BY DEF PartsOfTree, Closed
<1>n. StackLimit \in Nat /\ StackLimit \in 0 .. StackLimit
  BY ReaderAssumption
<1>1. PICK m \in [D -> 0 .. StackLimit] : \A u \in D : \A x \in Children(u) : m[x] < m[u]
  BY <1>0, HeightsAre
<1>2. ASSUME NEW u \in D, \A x \in Children(u) : text[x] \in Seq(Tokens) PROVE BeginsText(text[u])
  <2>1. u \in ReaderTree[StackLimit] /\ TextsIn(text, u)
    BY <1>0, <1>2 DEF TextsIn
  <2>2. BeginsText(TextAs(c, text, u))
    BY <1>n, <2>1, TextAsIs
  <2>3. QED
    BY <2>2
<1>3. ASSUME NEW u \in D, \A x \in D : m[x] < m[u] => x \in S PROVE u \in S
  <2>1. \A x \in Children(u) : text[x] \in Seq(Tokens)
    BY <1>0, <1>1, <1>3
  <2>2. QED
    BY <1>2, <2>1 DEF BeginsText
<1> HIDE DEF S
<1>4. \A x \in D : m[x] \in Nat
  BY <1>1, <1>n
<1>5. \A x \in D : x \in S
  BY <1>3, <1>4, MeasureInduction
<1>6. \A x \in D : text[x] \in Seq(Tokens)
  BY <1>5 DEF S
<1>7. text \in [D -> Seq(Tokens)]
  BY <1>6
<1>8. \A u \in D : BeginsText(text[u])
  BY <1>0, <1>2, <1>6
<1>9. QED
  BY <1>7, <1>8 DEF TextMap

LEMMA TextMapExists ==
    ASSUME NEW D, PartsOfTree(D), NEW c \in BOOLEAN
    PROVE  \E text : TextMap(c, D, text) /\ text = [u \in D |-> TextAs(c, text, u)]
<1> DEFINE M == StackLimit
<1> DEFINE F == [D -> Seq(Tokens)]
<1> DEFINE G == [f \in F |-> [u \in D |-> TextAs(c, f, u)]]
<1>0. D \subseteq ReaderTree[M] /\ Closed(D) /\ \A u \in D : Children(u) \subseteq D
  BY DEF PartsOfTree, Closed
<1>n. M \in Nat /\ M \in 0 .. M
  BY ReaderAssumption
<1>1. PICK m \in [D -> 0 .. M] : \A u \in D : \A x \in Children(u) : m[x] < m[u]
  BY <1>0, HeightsAre
<1>2. ASSUME NEW f \in F, NEW u \in D PROVE TextAs(c, f, u) \in Seq(Tokens)
  <2>1. TextsIn(f, u)
    BY <1>0 DEF TextsIn
  <2>2. BeginsText(TextAs(c, f, u))
    BY <1>0, <1>n, <2>1, TextAsIs
  <2>3. QED
    BY <2>2 DEF BeginsText
<1>3. G \in [F -> F]
  BY <1>2
<1>4. F # {} /\ FunctionsOn(F, D)
  <2>1. <<>> \in Seq(Tokens)
    BY EmptyConcat
  <2>2. [u \in D |-> <<>>] \in F
    BY <2>1
  <2>3. QED
    BY <2>2 DEF FunctionsOn
<1>5. DependsBelow(G, F, D, m)
  <2> SUFFICES ASSUME NEW f \in F, NEW g \in F, NEW u \in D, \A y \in D : m[y] < m[u] => f[y] = g[y]
               PROVE  G[f][u] = G[g][u]
    BY DEF DependsBelow
  <2>1. \A x \in Children(u) : f[x] = g[x]
    BY <1>0, <1>1
  <2>2. TextAs(c, f, u) = TextAs(c, g, u)
    BY <1>0, <1>n, <2>1, TextSame
  <2>3. QED
    BY <2>2
<1>6. M \in Nat /\ \A x \in D : m[x] \in 0 .. M
  BY <1>n, <1>1
<1> HIDE DEF F, G, M
<1>7. Recursive(D, M, m, F, G)
  BY <1>3, <1>4, <1>5, <1>6 DEF Recursive
<1>8. PICK f \in F : f = G[f]
  BY <1>7, MeasuredRecursion
<1>9. f = [u \in D |-> TextAs(c, f, u)]
  BY <1>8 DEF G
<1>10. f = [u \in D |-> f[u]] /\ \A u \in D : f[u] = TextAs(c, f, u)
  BY <1>9
<1>11. QED
  BY <1>9, <1>10, MapIsTextMap

\* What FastWriter writes is the text of the value.
LEMMA FastTextIs ==
    ASSUME NEW v \in ReaderTree[StackLimit]
    PROVE  /\ PartsOfTree(Parts(v)) /\ v \in Parts(v)
           /\ \E text : TextMap(FALSE, Parts(v), text) /\ FastText(v) = text[v]
<1> DEFINE D == Parts(v)
<1> DEFINE P(f) == f = [u \in D |-> FastValue(f, u)]
<1> DEFINE j == CHOOSE h : P(h)
<1>1. PartsOfTree(D) /\ v \in D
  BY PartsAre DEF PartsOfTree, ReaderTree
<1>2. FastText(v) = j[v]
  BY Zenon DEF FastText
<1> HIDE DEF D
<1>3. PICK f : f = [u \in D |-> TextAs(FALSE, f, u)]
  <2>1. PICK f : TextMap(FALSE, D, f) /\ f = [u \in D |-> TextAs(FALSE, f, u)]
    BY <1>1, TextMapExists
  <2>2. QED
    BY <2>1, Zenon
<1>4. \A h : [u \in D |-> FastValue(h, u)] = [u \in D |-> TextAs(FALSE, h, u)]
  BY FastValueIs, Zenon
<1>5. P(f)
  BY <1>3, <1>4
<1>6. P(j)
  <2> HIDE DEF P
  <2>1. QED
    BY <1>5, Zenon
<1> HIDE DEF j
<1>7. j = [u \in D |-> TextAs(FALSE, j, u)]
  BY <1>4, <1>6
<1>8. j = [u \in D |-> j[u]] /\ \A u \in D : j[u] = TextAs(FALSE, j, u)
  BY <1>7
<1>9. TextMap(FALSE, D, j)
  BY <1>1, <1>8, MapIsTextMap
<1>10. QED
  BY <1>1, <1>2, <1>9 DEF D

-----------------------------------------------------------------------------
(* What Reader reads of the text of a value.                               *)

LEMMA NotAComment ==
    ASSUME NEW doc \in Seq(Tokens), NEW p \in Nat, p >= 1, p <= Len(doc), doc[p] # "/"
    PROVE  AfterComments(doc, p) = p /\ Token(doc, p) = doc[p] /\ p \in Places(doc)
<1>0. Len(doc) \in Nat
  BY ElementsAre
<1>1. p \in Places(doc)
  BY <1>0 DEF Places
<1>2. /\ AfterComments(doc, p) \in Places(doc) /\ AfterComments(doc, p) >= p
      /\ \A k \in p .. AfterComments(doc, p) - 1 : doc[k] = "/"
  BY <1>1, AfterCommentsIs
<1> DEFINE a == AfterComments(doc, p)
<1> HIDE DEF a
<1>3. a \in Nat /\ a >= p /\ \A k \in p .. a - 1 : doc[k] = "/"
  BY <1>0, <1>2 DEF a, Places
<1>4. a = p
  <2> SUFFICES ASSUME a # p PROVE FALSE
    OBVIOUS
  <2>1. p \in p .. a - 1
    BY <1>3
  <2>2. QED
    BY <1>3, <2>1
<1>5. QED
  BY <1>1, <1>4 DEF a, Token

LEMMA SuccessHas ==
    ASSUME NEW v, NEW q
    PROVE  Success(v, q).ok /\ Success(v, q).value = v /\ Success(v, q).at = q
BY DEF Success

LEMMA LastElementRead ==
    ASSUME NEW doc, NEW d, NEW v, NEW q, Token(doc, q) = "]"
    PROVE  ReaderElementsFrom(doc, d, Success(v, q), q) = Success(ArrayValue(<<v>>), q + 1)
BY SuccessHas, Zenon DEF ReaderElementsFrom

LEMMA NextElementRead ==
    ASSUME NEW doc, NEW d, NEW v, NEW q, IsComma(doc, q), NEW K, NEW e,
           ReaderElements(doc, q + 1, d) = Success(ArrayValue(K), e)
    PROVE  ReaderElementsFrom(doc, d, Success(v, q), q) = Success(ArrayValue(<<v>> \o K), e)
<1>1. Token(doc, q) = "," /\ "," # "]"
  BY Zenon DEF IsComma, Token
<1>2. ReaderElementsFrom(doc, d, Success(v, q), q) = FromElement(v, ReaderElements(doc, q + 1, d))
  BY <1>1, SuccessHas, Zenon DEF ReaderElementsFrom
<1>3. FromElement(v, Success(ArrayValue(K), e)) = Success(ArrayValue(<<v>> \o K), e)
  BY DEF FromElement, Success, ArrayValue
<1>4. QED
  BY <1>2, <1>3, Zenon

LEMMA StringsAreNoMarks ==
    ASSUME NEW s \in Strings \cup Scalars
    PROVE  s # "{" /\ s # "}" /\ s # "[" /\ s # "]" /\ s # "," /\ s # "/" /\ s # "end"
<1>1. s \notin Marks /\ s # "end"
  BY ReaderAssumption, Zenon
<1>2. QED
  BY <1>1, Zenon DEF Marks

\* A member, from its name on, with what stands behind its value.
MemberAt(doc, q) == q >= 1 /\ q + 1 <= Len(doc) /\ doc[q] \in Strings /\ doc[q + 1] = ":"
ClosesAt(doc, q) == q <= Len(doc) /\ doc[q] = "}"

MemberReadAs(doc, q, d, v, a) ==
    IF Token(doc, a) = "}" THEN Success(ObjectValue(WithMember(doc[q], v, NoMembers)), a + 1)
    ELSE FromMember(doc[q], v, ReaderMembers(doc, Next_(doc, a), d, NoName(doc[q])))

LEMMA MemberRead ==
    ASSUME NEW doc \in Seq(Tokens), NEW q \in Nat, MemberAt(doc, q), NEW d \in 1 .. StackLimit, NEW u \in BOOLEAN,
           NEW v, NEW a \in Nat, a >= 1, ReaderValue(doc, q + 2, d + 1) = Success(v, a),
           ClosesAt(doc, a) \/ IsComma(doc, a)
    PROVE  ReaderMembers(doc, q, d, u) = MemberReadAs(doc, q, d, v, a)
<1> DEFINE name == doc[q]
<1> DEFINE child == Success(v, a)
<1>0. Len(doc) \in Nat
  BY ElementsAre
<1>1. q >= 1 /\ q + 1 <= Len(doc) /\ q <= Len(doc) /\ q \in Places(doc) /\ q + 1 \in Nat
  BY <1>0 DEF MemberAt, Places
<1>2. name \in Strings /\ doc[q + 1] = ":"
  BY DEF MemberAt
<1>3. name # "/" /\ name # "}"
  BY <1>2, StringsAreNoMarks, Zenon
<1>4. AfterComments(doc, q) = q /\ Token(doc, q) = name
  BY <1>1, <1>3, NotAComment
<1>5. Token(doc, q + 1) = ":"
  BY <1>1, <1>2 DEF Token
<1>6. a <= Len(doc) /\ doc[a] # "/" /\ doc[a] \in {"}", ",", "/"}
  <2>1. CASE ClosesAt(doc, a)
    BY <2>1, Zenon DEF ClosesAt
  <2>2. CASE IsComma(doc, a)
    BY <2>2, Zenon DEF IsComma
  <2>3. QED
    BY <2>1, <2>2, Zenon
<1>7. AfterComments(doc, a) = a /\ Token(doc, a) = doc[a]
  <2>1. a <= Len(doc) /\ doc[a] # "/"
    BY <1>6, Zenon
  <2>2. QED
    BY <2>1, NotAComment
<1>8. ~SeparatorMissing(doc, a)
  BY <1>6, <1>7, Zenon DEF SeparatorMissing
<1>9. ~EmptyObject(doc, q, u)
  BY <1>3, <1>4, Zenon DEF EmptyObject
<1>10. child = ReaderValue(doc, q + 2, d + 1) /\ child.at = a /\ child.ok /\ child.value = v
  <2>1. child.at = a /\ child.ok /\ child.value = v
    BY SuccessHas
  <2>2. child = ReaderValue(doc, q + 2, d + 1)
    BY Zenon
  <2>3. QED
    BY <2>1, <2>2, Zenon
<1>11. ReaderMembers(doc, q, d, u) = ReaderMembersFrom(doc, d, u, q, name, child, a)
  <2> HIDE DEF child
  <2>1. ReaderMembers(doc, q, d, u) =
          ReaderMembersFrom(doc, d, u, q, Token(doc, q), child, AfterComments(doc, child.at))
    BY <1>1, <1>4, <1>10, ReaderMembersRead
  <2>2. QED
    BY <1>4, <1>7, <1>10, <2>1, Zenon
<1> HIDE DEF child, name
<1>12. QED
  BY <1>2, <1>5, <1>8, <1>9, <1>10, <1>11, Zenon DEF ReaderMembersFrom, NoName, name, MemberReadAs

LEMMA LastMemberRead ==
    ASSUME NEW doc \in Seq(Tokens), NEW q \in Nat, MemberAt(doc, q), NEW d \in 1 .. StackLimit, NEW u \in BOOLEAN,
           NEW v, NEW a \in Nat, a >= 1, ReaderValue(doc, q + 2, d + 1) = Success(v, a), ClosesAt(doc, a)
    PROVE  ReaderMembers(doc, q, d, u) = Success(ObjectValue(WithMember(doc[q], v, NoMembers)), a + 1)
<1>1. Token(doc, a) = "}"
  BY Zenon DEF ClosesAt, Token
<1>2. ReaderMembers(doc, q, d, u) = MemberReadAs(doc, q, d, v, a)
  BY MemberRead
<1>3. QED
  BY <1>1, <1>2, Zenon DEF MemberReadAs

LEMMA NextMemberRead ==
    ASSUME NEW doc \in Seq(Tokens), NEW q \in Nat, MemberAt(doc, q), NEW d \in 1 .. StackLimit, NEW u \in BOOLEAN,
           NEW v, NEW a \in Nat, a >= 1, ReaderValue(doc, q + 2, d + 1) = Success(v, a), IsComma(doc, a),
           NEW K, NEW e, ReaderMembers(doc, a + 1, d, NoName(doc[q])) = Success(ObjectValue(K), e)
    PROVE  ReaderMembers(doc, q, d, u) = Success(ObjectValue(WithMember(doc[q], v, K)), e)
<1>1. Token(doc, a) # "}" /\ Next_(doc, a) = a + 1
  BY Zenon DEF IsComma, Token, Next_
<1>2. ReaderMembers(doc, q, d, u) = MemberReadAs(doc, q, d, v, a)
  BY MemberRead
<1>3. ReaderMembers(doc, q, d, u) = FromMember(doc[q], v, Success(ObjectValue(K), e))
  BY <1>1, <1>2, Zenon DEF MemberReadAs
<1>4. FromMember(doc[q], v, Success(ObjectValue(K), e)) = Success(ObjectValue(WithMember(doc[q], v, K)), e)
  BY DEF FromMember, Success, ObjectValue
<1>5. QED
  BY <1>3, <1>4, Zenon

\* What is read is the value itself when names are not cut at a NUL, or need not
\* be; otherwise it is a value whose names are plain.
Faithful(c, n, u) == ~c \/ u \in PlainTree[n]
ReadsBack(doc, p, d, t, c, n, u) ==
    \E k : /\ ReaderValue(doc, p, d) = Success(k, p + Len(t))
           /\ c => k \in PlainTree[n]
           /\ Faithful(c, n, u) => k = u
ReadsBackWhereItStands(doc, d, text, c, n, u) ==
    \A p \in Nat : p >= 1 /\ Stands(doc, p, text[u]) => ReadsBack(doc, p, d, text[u], c, n, u)
ChildrenReadBack(doc, d, text, c, n, u) ==
    \A x \in Children(u) : BeginsText(text[x]) /\ ReadsBackWhereItStands(doc, d, text, c, n, x)

LEMMA FaithfulInside ==
    ASSUME NEW c, NEW n \in 0 .. StackLimit, NEW u, Faithful(c, n, u)
    PROVE  /\ \A x \in Children(u) : Faithful(c, n - 1, x)
           /\ c /\ u.type = "object" => DOMAIN u.members \subseteq PlainNames
<1>1. CASE ~c
  BY <1>1 DEF Faithful
<1>2. CASE u \in PlainTree[n]
  <2>1. Children(u) \subseteq PlainTree[n - 1]
    BY <1>2, LevelIs DEF PlainTree
  <2>2. u.type = "object" => DOMAIN u.members \subseteq PlainNames
    BY <1>2, ObjectsHaveNames DEF PlainTree
  <2>3. QED
    BY <2>1, <2>2 DEF Faithful
<1>3. QED
  BY <1>1, <1>2 DEF Faithful

\* The elements from one on.
From(s, i) == [k \in 1 .. ((Len(s) + 1) - i) |-> s[(i + k) - 1]]

LEMMA FromIs ==
    ASSUME NEW T, NEW s \in Seq(T)
    PROVE  /\ Len(s) \in Nat /\ (Len(s) >= 1 => <<s[Len(s)]>> = From(s, Len(s))) /\ From(s, 1) = s
           /\ \A i \in 1 .. Len(s) : i < Len(s) => <<s[i]>> \o From(s, i + 1) = From(s, i)
<1> DEFINE n == Len(s)
<1>1. n \in Nat /\ s = [k \in 1 .. n |-> s[k]] /\ \A i \in 1 .. n : s[i] \in T
  BY ElementsAre
<1>2. ASSUME n >= 1 PROVE <<s[n]>> = From(s, n)
  <2>1. (n + 1) - n = 1 /\ \A k \in 1 .. 1 : (n + k) - 1 = n /\ k = 1
    BY <1>1
  <2>0. From(s, n) = [k \in 1 .. (n + 1) - n |-> s[(n + k) - 1]]
    BY DEF From
  <2>2. From(s, n) = [k \in 1 .. 1 |-> s[n]]
    BY <2>0, <2>1, Zenon
  <2> DEFINE x == s[n]
  <2> HIDE DEF x
  <2>3. <<x>> = [k \in 1 .. 1 |-> x]
    OBVIOUS
  <2>4. QED
    BY <2>2, <2>3 DEF x
<1>3. From(s, 1) = s
  <2>1. (n + 1) - 1 = n /\ \A k \in 1 .. n : (1 + k) - 1 = k
    BY <1>1
  <2>2. From(s, 1) = [k \in 1 .. n |-> s[k]]
    BY <2>1 DEF From
  <2>3. QED
    BY <1>1, <2>2
<1>4. ASSUME NEW i \in 1 .. n, i < n PROVE <<s[i]>> \o From(s, i + 1) = From(s, i)
  <2> DEFINE h == From(s, i + 1)
  <2> DEFINE g == From(s, i)
  <2> DEFINE m == n - i
  <2> DEFINE x == s[i]
  <2>1. m \in Nat /\ (n + 1) - (i + 1) = m /\ (n + 1) - i = m + 1
    BY <1>1
  <2>2. h = [k \in 1 .. m |-> s[((i + 1) + k) - 1]]
    BY <2>1 DEF From
  <2>3. g = [k \in 1 .. m + 1 |-> s[(i + k) - 1]]
    BY <2>1 DEF From
  <2>4. \A k \in 1 .. m : ((i + 1) + k) - 1 = i + k /\ i + k \in 1 .. n
    BY <1>1
  <2>5. \A k \in 1 .. m + 1 : (i + k) - 1 \in 1 .. n
    BY <1>1
  <2>6. h = [k \in 1 .. m |-> h[k]] /\ \A k \in 1 .. m : h[k] = s[i + k] /\ h[k] \in T
    BY <1>1, <2>2, <2>4
  <2>7. g = [k \in 1 .. m + 1 |-> g[k]] /\ \A k \in 1 .. m + 1 : g[k] = s[(i + k) - 1] /\ g[k] \in T
    BY <1>1, <2>3, <2>5
  <2> HIDE DEF h, g, m, n
  <2>8. h \in Seq(T) /\ Len(h) = m /\ g \in Seq(T) /\ Len(g) = m + 1
    <3>1. h \in Seq(T) /\ Len(h) = m
      BY <2>1, <2>6, SequenceIs
    <3> DEFINE l == m + 1
    <3>2. l \in Nat /\ g = [k \in 1 .. l |-> g[k]] /\ \A k \in 1 .. l : g[k] \in T
      BY <2>1, <2>7
    <3> HIDE DEF l
    <3>3. g \in Seq(T) /\ Len(g) = l
      BY <3>2, SequenceIs
    <3>4. QED
      BY <3>1, <3>3 DEF l
  <2>9. g[1] = x /\ x \in T
    <3>1. 1 \in 1 .. m + 1 /\ (i + 1) - 1 = i
      BY <2>1
    <3>2. QED
      BY <2>7, <3>1
  <2>10. \A k \in 1 .. m : g[k + 1] = h[k]
    <3> SUFFICES ASSUME NEW k \in 1 .. m PROVE g[k + 1] = h[k]
      OBVIOUS
    <3>1. k + 1 \in 1 .. m + 1 /\ (i + (k + 1)) - 1 = i + k
      BY <1>1, <2>1
    <3>2. QED
      BY <2>6, <2>7, <3>1
  <2> HIDE DEF x
  <2>11. <<x>> \o h = g
    <3>1. <<x>> \o h \in Seq(T) /\ Len(<<x>> \o h) = m + 1
      BY <2>1, <2>8, <2>9
    <3>2. \A k \in 1 .. m + 1 : (<<x>> \o h)[k] = g[k]
      <4> SUFFICES ASSUME NEW k \in 1 .. m + 1 PROVE (<<x>> \o h)[k] = g[k]
        OBVIOUS
      <4>1. CASE k = 1
        BY <2>1, <2>8, <2>9, <4>1
      <4>2. CASE k # 1
        <5>1. k - 1 \in 1 .. m /\ (k - 1) + 1 = k
          BY <2>1, <4>2
        <5>2. (<<x>> \o h)[k] = h[k - 1]
          BY <2>1, <2>8, <5>1
        <5>3. QED
          BY <2>10, <5>1, <5>2
      <4>3. QED
        BY <4>1, <4>2
    <3> DEFINE l == <<x>> \o h
    <3> HIDE DEF l
    <3>3. l \in Seq(T) /\ Len(l) = m + 1 /\ \A k \in 1 .. m + 1 : l[k] = g[k]
      BY <3>1, <3>2 DEF l
    <3>4. l = [k \in 1 .. m + 1 |-> l[k]] /\ g = [k \in 1 .. m + 1 |-> g[k]]
      BY <2>8, <3>3, ElementsAre
    <3>5. l = g
      BY <3>3, <3>4
    <3>6. QED
      BY <3>5 DEF l
  <2>12. QED
    BY <2>11 DEF h, g, x
<1>5. QED
  BY <1>1, <1>2, <1>3, <1>4

LEMMA TextBegins ==
    ASSUME NEW doc \in Seq(Tokens), NEW p \in Nat, p >= 1, NEW t, BeginsText(t), Stands(doc, p, t)
    PROVE  /\ p <= Len(doc) /\ p \in Places(doc) /\ doc[p] = t[1] /\ BeginsAValue(doc[p])
           /\ p + Len(t) \in Nat /\ p + Len(t) >= 1
<1>0. Len(doc) \in Nat
  BY ElementsAre
<1>1. t \in Seq(Tokens) /\ Len(t) >= 1 /\ BeginsAValue(t[1])
  BY DEF BeginsText
<1>2. Len(t) \in Nat
  BY <1>1, ElementsAre
<1>3. 1 \in 1 .. Len(t) /\ (p + 1) - 1 = p
  BY <1>1, <1>2
<1>4. p <= Len(doc) /\ doc[p] = t[1]
  BY <1>3 DEF Stands
<1>5. QED
  BY <1>0, <1>1, <1>2, <1>4 DEF Places

\* An element, the last one or one before others.
ElementReadAs(doc, b, d, k, a) == b \in Places(doc) /\ ReaderValue(doc, b, d + 1) = Success(k, a)

LEMMA LastElementReadBack ==
    ASSUME NEW doc \in Seq(Tokens), NEW b, NEW d \in 1 .. StackLimit, NEW k, NEW a \in Nat, a >= 1,
           ElementReadAs(doc, b, d, k, a), a <= Len(doc), doc[a] = "]"
    PROVE  ReaderElements(doc, b, d) = Success(ArrayValue(<<k>>), a + 1)
<1>1. AfterComments(doc, a) = a /\ Token(doc, a) = "]"
  BY NotAComment
<1>2. b \in Places(doc) /\ ReaderValue(doc, b, d + 1) = Success(k, a)
  BY DEF ElementReadAs
<1> DEFINE child == ReaderValue(doc, b, d + 1)
<1>3. ReaderElements(doc, b, d) = ReaderElementsFrom(doc, d, child, AfterComments(doc, child.at))
  BY <1>2, ReaderElementsRead
<1>s. Success(k, a).at = a
  BY SuccessHas
<1>4. child = Success(k, a) /\ child.at = a
  BY <1>2, <1>s, Zenon
<1>5. ReaderElements(doc, b, d) = ReaderElementsFrom(doc, d, Success(k, a), a)
  BY <1>1, <1>3, <1>4, Zenon
<1>6. ReaderElementsFrom(doc, d, Success(k, a), a) = Success(ArrayValue(<<k>>), a + 1)
  BY <1>1, LastElementRead
<1>7. QED
  BY <1>5, <1>6, Zenon

LEMMA NextElementReadBack ==
    ASSUME NEW doc \in Seq(Tokens), NEW b, NEW d \in 1 .. StackLimit, NEW k, NEW a \in Nat, a >= 1,
           ElementReadAs(doc, b, d, k, a), IsComma(doc, a), NEW K, NEW e,
           ReaderElements(doc, a + 1, d) = Success(ArrayValue(K), e)
    PROVE  ReaderElements(doc, b, d) = Success(ArrayValue(<<k>> \o K), e)
<1> DEFINE x == ","
<1>0. a <= Len(doc) /\ doc[a] = x /\ x # "/"
  BY Zenon DEF IsComma
<1> HIDE DEF x
<1>1. AfterComments(doc, a) = a /\ Token(doc, a) = x
  BY <1>0, NotAComment
<1>2. b \in Places(doc) /\ ReaderValue(doc, b, d + 1) = Success(k, a)
  BY DEF ElementReadAs
<1> DEFINE child == ReaderValue(doc, b, d + 1)
<1>3. ReaderElements(doc, b, d) = ReaderElementsFrom(doc, d, child, AfterComments(doc, child.at))
  BY <1>2, ReaderElementsRead
<1>s. Success(k, a).at = a
  BY SuccessHas
<1>4. child = Success(k, a) /\ child.at = a
  BY <1>2, <1>s, Zenon
<1>5. ReaderElements(doc, b, d) = ReaderElementsFrom(doc, d, Success(k, a), a)
  BY <1>1, <1>3, <1>4, Zenon
<1>6. ReaderElementsFrom(doc, d, Success(k, a), a) = Success(ArrayValue(<<k>> \o K), e)
  BY NextElementRead
<1>7. QED
  BY <1>5, <1>6, Zenon

\* The places at which the texts begin that stand in a document with a comma
\* between two of them, and the place e behind them.
LaidOut(doc, p, ts, e, B) ==
    \A i \in 1 .. Len(ts) :
        /\ B[i] \in Nat /\ B[i] >= 1 /\ (i = 1 => B[i] = p) /\ Stands(doc, B[i], ts[i])
        /\ i < Len(ts) => IsComma(doc, B[i] + Len(ts[i])) /\ B[i + 1] = (B[i] + Len(ts[i])) + 1
        /\ i = Len(ts) => B[i] + Len(ts[i]) = e

LEMMA TextsLaidOut ==
    ASSUME NEW doc \in Seq(Tokens), NEW p \in Nat, p >= 1, NEW ts \in TextLists, NEW w, w = WithCommas(ts), Stands(doc, p, w)
    PROVE  \E B : LaidOut(doc, p, ts, p + Len(w), B)
<1> DEFINE m == Len(ts)
<1>1. PICK j \in [0 .. m -> Seq(Tokens)] : Joins(ts, j) /\ w = j[m]
  BY WithCommasIs
<1>2. m \in Nat
  BY TextListsAre
<1> DEFINE B == [i \in 1 .. m |-> BeginsAt(j, p, i)]
<1>3. \A i \in 1 .. m :
        /\ BeginsAt(j, p, i) \in Nat /\ BeginsAt(j, p, i) >= 1
        /\ i = 1 => BeginsAt(j, p, i) = p
        /\ Stands(doc, BeginsAt(j, p, i), ts[i])
        /\ BeginsAt(j, p, i) + Len(ts[i]) = p + Len(j[i])
        /\ i < m => /\ IsComma(doc, BeginsAt(j, p, i) + Len(ts[i]))
                    /\ BeginsAt(j, p, i + 1) = (BeginsAt(j, p, i) + Len(ts[i])) + 1
  <2>1. Joins(ts, j) /\ Stands(doc, p, j[m])
    BY <1>1
  <2>2. QED
    BY <2>1, TextsStand
<1>4. \A i \in 1 .. m : B[i] = BeginsAt(j, p, i)
  OBVIOUS
<1>5. \A i \in 1 .. m : i < m => i + 1 \in 1 .. m
  BY <1>2
<1>6. p + Len(w) = p + Len(j[m])
  BY <1>1
<1> HIDE DEF B, m
<1>7. \A i \in 1 .. m :
        /\ B[i] \in Nat /\ B[i] >= 1 /\ (i = 1 => B[i] = p) /\ Stands(doc, B[i], ts[i])
        /\ i < m => IsComma(doc, B[i] + Len(ts[i])) /\ B[i + 1] = (B[i] + Len(ts[i])) + 1
        /\ i = m => B[i] + Len(ts[i]) = p + Len(w)
  BY <1>3, <1>4, <1>5, <1>6, Zenon
<1>8. QED
  BY <1>7 DEF LaidOut, m

\* The elements of an array whose texts stand from p on, before a bracket at e.
ElementsStand(doc, c, n, d, T, u, text, p, w, e) ==
    /\ doc \in Seq(Tokens) /\ c \in BOOLEAN /\ n \in 0 .. StackLimit /\ d \in 1 .. StackLimit
    /\ u \in Arrays(T) /\ u.elements # <<>> /\ ChildrenReadBack(doc, d + 1, text, c, n - 1, u)
    /\ p \in Nat /\ p >= 1 /\ w = WithCommas(ElementTexts(text, u)) /\ Stands(doc, p, w)
    /\ e = p + Len(w) /\ e <= Len(doc) /\ doc[e] = "]"

LEMMA ElementsReadBack ==
    ASSUME NEW doc, NEW c, NEW n, NEW d, NEW T, NEW u, NEW text, NEW p, NEW w, NEW e,
           ElementsStand(doc, c, n, d, T, u, text, p, w, e)
    PROVE  /\ p <= Len(doc) /\ BeginsAValue(doc[p])
           /\ \E K : /\ ReaderElements(doc, p, d) = Success(ArrayValue(K), e + 1)
                     /\ c => K \in Seq(PlainTree[n - 1])
                     /\ Faithful(c, n, u) => K = u.elements
<1> /\ doc \in Seq(Tokens) /\ c \in BOOLEAN /\ n \in 0 .. StackLimit /\ d \in 1 .. StackLimit
    /\ u \in Arrays(T) /\ u.elements # <<>> /\ ChildrenReadBack(doc, d + 1, text, c, n - 1, u)
    /\ p \in Nat /\ p >= 1 /\ w = WithCommas(ElementTexts(text, u)) /\ Stands(doc, p, w)
    /\ e = p + Len(w) /\ e <= Len(doc) /\ doc[e] = "]"
  BY DEF ElementsStand
<1> DEFINE s == u.elements
<1> DEFINE m == Len(s)
<1> DEFINE ts == ElementTexts(text, u)
<1> DEFINE U == PlainTree[n - 1]
<1> DEFINE F == Faithful(c, n, u)
<1>1. TextsIn(text, u)
  BY DEF TextsIn, ChildrenReadBack, BeginsText
<1>2. /\ ts \in TextLists /\ Len(ts) = m /\ m \in Nat
      /\ \A i \in 1 .. m : ts[i] = text[s[i]] /\ s[i] \in Children(u)
  BY <1>1, ElementTextsAre
<1>3. s \in Seq(T) /\ m >= 1
  <2>1. s \in Seq(T)
    BY ArrayIs
  <2>2. QED
    BY <2>1, ElementsAre
<1>4. PICK b : LaidOut(doc, p, ts, e, b)
  BY <1>2, TextsLaidOut
<1> DEFINE B(i) == b[i]
<1> DEFINE A(i) == b[i] + Len(ts[i])
<1>5. \A i \in 1 .. m :
        /\ B(i) \in Nat /\ B(i) >= 1 /\ (i = 1 => B(i) = p) /\ Stands(doc, B(i), ts[i])
        /\ i < m => IsComma(doc, A(i)) /\ B(i + 1) = A(i) + 1
        /\ i = m => A(i) = e
  BY <1>2, <1>4, Zenon DEF LaidOut
<1>f. F => \A i \in 1 .. m : Faithful(c, n - 1, s[i])
  BY <1>2, FaithfulInside
<1> DEFINE Item(i, k) == ElementReadAs(doc, B(i), d, k, A(i)) /\ (c => k \in U) /\ (F => k = s[i])
<1> DEFINE Rest(i, K) == ReaderElements(doc, B(i), d) = Success(ArrayValue(K), e + 1) /\ (c => K \in Seq(U)) /\ (F => K = From(s, i))
<1>6. ASSUME NEW i \in 1 .. m PROVE A(i) \in Nat /\ A(i) >= 1 /\ \E k : Item(i, k)
  <2>1. BeginsText(ts[i]) /\ ReadsBackWhereItStands(doc, d + 1, text, c, n - 1, s[i])
    BY <1>2 DEF ChildrenReadBack
  <2>2. B(i) \in Nat /\ B(i) >= 1 /\ Stands(doc, B(i), text[s[i]])
    BY <1>2, <1>5
  <2>3. ReadsBack(doc, B(i), d + 1, text[s[i]], c, n - 1, s[i])
    BY <2>1, <2>2, Zenon DEF ReadsBackWhereItStands
  <2>4. PICK k : /\ ReaderValue(doc, B(i), d + 1) = Success(k, A(i)) /\ (c => k \in U)
                 /\ (Faithful(c, n - 1, s[i]) => k = s[i])
    <3>1. text[s[i]] = ts[i]
      BY <1>2
    <3>2. QED
      BY <2>3, <3>1, Zenon DEF ReadsBack
  <2>5. A(i) \in Nat /\ A(i) >= 1 /\ B(i) \in Places(doc)
    BY <1>5, <2>1, TextBegins
  <2>6. Item(i, k)
    BY <1>f, <2>4, <2>5, Zenon DEF ElementReadAs
  <2>7. QED
    BY <2>5, <2>6
<1>m. m \in 1 .. m /\ 1 \in 1 .. m
  BY <1>2, <1>3
<1>e. A(m) = e
  BY <1>5, <1>m
<1>g. From(s, 1) = s /\ <<s[m]>> = From(s, m) /\ \A i \in 1 .. m : i < m => <<s[i]>> \o From(s, i + 1) = From(s, i)
  BY <1>3, FromIs
<1>7. \E K : Rest(m, K)
  <2>1. PICK k : Item(m, k)
    BY <1>6, <1>m, Zenon
  <2>2. A(m) \in Nat /\ A(m) >= 1
    BY <1>6, <1>m, Zenon
  <2>3. ReaderElements(doc, B(m), d) = Success(ArrayValue(<<k>>), e + 1)
    BY <1>e, <2>1, <2>2, LastElementReadBack
  <2>4. c => <<k>> \in Seq(U)
    BY <2>1, OneToken
  <2>5. F => <<k>> = From(s, m)
    BY <1>g, <2>1
  <2>6. QED
    BY <2>3, <2>4, <2>5
<1>8. ASSUME NEW i \in 1 .. m, i < m, \E K : Rest(i + 1, K) PROVE \E K : Rest(i, K)
  <2>1. PICK k : Item(i, k)
    BY <1>6
  <2>2. PICK K : Rest(i + 1, K)
    BY <1>8
  <2>3. A(i) \in Nat /\ A(i) >= 1 /\ IsComma(doc, A(i)) /\ B(i + 1) = A(i) + 1
    BY <1>5, <1>6, <1>8
  <2>4. ReaderElements(doc, B(i), d) = Success(ArrayValue(<<k>> \o K), e + 1)
    <3> DEFINE a == A(i)
    <3>1. ElementReadAs(doc, B(i), d, k, a) /\ a \in Nat /\ a >= 1 /\ IsComma(doc, a)
      BY <2>1, <2>3
    <3>2. ReaderElements(doc, a + 1, d) = Success(ArrayValue(K), e + 1)
      BY <2>2, <2>3
    <3> HIDE DEF a, B
    <3>3. QED
      BY <3>1, <3>2, NextElementReadBack
  <2>5. c => <<k>> \o K \in Seq(U)
    BY <2>1, <2>2, OneToken, ConcatIs
  <2>6. F => <<k>> \o K = From(s, i)
    BY <1>g, <1>8, <2>1, <2>2
  <2>7. QED
    BY <2>4, <2>5, <2>6
<1>9. \E K : Rest(1, K)
  <2> DEFINE S == {i \in 0 .. m : i >= 1 => \E K : Rest(i, K)}
  <2> HIDE DEF Rest
  <2>1. m \in S
    BY <1>2, <1>7
  <2>2. ASSUME NEW i \in 1 .. m, i \in S PROVE i - 1 \in S
    <3>1. i - 1 \in 0 .. m /\ i >= 1 /\ (i - 1) + 1 = i
      BY <1>2
    <3>2. ASSUME i - 1 >= 1 PROVE \E K : Rest(i - 1, K)
      <4>1. i - 1 \in 1 .. m /\ i - 1 < m
        BY <1>2, <3>2
      <4>2. \E K : Rest((i - 1) + 1, K)
        BY <2>2, <3>1
      <4>3. QED
        BY <1>8, <4>1, <4>2
    <3>3. QED
      BY <3>1, <3>2
  <2> HIDE DEF S
  <2>3. \A i \in 0 .. m : i \in S
    BY <1>2, <2>1, <2>2, StepsKeepBack
  <2>4. 1 \in S /\ 1 >= 1
    BY <1>2, <1>3, <2>3
  <2>5. QED
    BY <2>4 DEF S
<1>10. PICK K : Rest(1, K)
  BY <1>9
<1>11. B(1) = p /\ p <= Len(doc) /\ BeginsAValue(doc[p])
  <2>1. B(1) = p /\ Stands(doc, p, ts[1]) /\ BeginsText(ts[1])
    BY <1>2, <1>5, <1>m DEF ChildrenReadBack
  <2>2. p <= Len(doc) /\ BeginsAValue(doc[p])
    BY <2>1, TextBegins
  <2>3. QED
    BY <2>1, <2>2
<1>12. QED
  BY <1>10, <1>11, <1>g

LEMMA NamedTextStands ==
    ASSUME NEW doc \in Seq(Tokens), NEW b \in Nat, b >= 1, NEW a \in Strings, NEW t, BeginsText(t),
           Stands(doc, b, NamedText(a, t))
    PROVE  /\ MemberAt(doc, b) /\ doc[b] = a /\ b + 2 \in Nat /\ b + 2 >= 1 /\ Stands(doc, b + 2, t)
           /\ b + Len(NamedText(a, t)) = (b + 2) + Len(t)
<1> DEFINE l == <<a, ":">>
<1>0. a \in Tokens /\ ":" \in Tokens
  BY Zenon DEF Tokens, Marks
<1>1. l \in Seq(Tokens) /\ Len(l) = 2 /\ l[1] = a /\ l[2] = ":"
  BY <1>0, TwoTokens
<1>2. t \in Seq(Tokens) /\ Len(t) \in Nat
  BY ElementsAre DEF BeginsText
<1>3. Stands(doc, b, l \o t) /\ NamedText(a, t) = l \o t
  BY DEF NamedText
<1> HIDE DEF l
<1>d. l \in Seq(Tokens) /\ t \in Seq(Tokens)
  BY <1>1, <1>2
<1>4. Stands(doc, b, l) /\ Stands(doc, b + Len(l), t) /\ Len(l \o t) = Len(l) + Len(t)
  BY <1>3, <1>d, StandsBoth
<1>5. 1 \in 1 .. Len(l) /\ 2 \in 1 .. Len(l) /\ (b + 1) - 1 = b /\ (b + 2) - 1 = b + 1
  BY <1>1
<1>6. b + 1 <= Len(doc) /\ doc[b] = a /\ doc[b + 1] = ":"
  BY <1>1, <1>4, <1>5 DEF Stands
<1>7. MemberAt(doc, b)
  BY <1>6 DEF MemberAt
<1>8. b + Len(l \o t) = (b + 2) + Len(t) /\ b + Len(l) = b + 2
  BY <1>1, <1>2, <1>4
<1>9. QED
  BY <1>3, <1>4, <1>6, <1>7, <1>8

\* The members from one on.
MembersOn(u, i) ==
    [x \in {MemberNames(u)[k] : k \in i .. Len(MemberNames(u))} |-> u.members[x]]

LEMMA MembersOnAre ==
    ASSUME NEW T, NEW u \in Objects(Strings, T), NEW ns, ns = MemberNames(u), NEW m, m = Len(ns), m >= 1
    PROVE  /\ MembersOn(u, 1) = u.members
           /\ WithMember(ns[m], u.members[ns[m]], NoMembers) = MembersOn(u, m)
           /\ \A i \in 1 .. m : i < m => WithMember(ns[i], u.members[ns[i]], MembersOn(u, i + 1)) = MembersOn(u, i)
<1>1. DOMAIN u.members \subseteq Strings /\ u.members \in [DOMAIN u.members -> T]
  BY ObjectIs
<1>2. IsNaming(ns, DOMAIN u.members)
  BY <1>1, MemberNamesAre
<1>3. /\ ns \in Seq(Strings) /\ {ns[k] : k \in 1 .. m} = DOMAIN u.members
      /\ \A i, k \in 1 .. m : ns[i] = ns[k] => i = k
  BY <1>2 DEF IsNaming
<1>4. m \in Nat
  BY <1>3, ElementsAre
<1> DEFINE X(i) == {ns[k] : k \in i .. m}
<1>5. \A i : MembersOn(u, i) = [x \in X(i) |-> u.members[x]]
  BY DEF MembersOn
<1>6. MembersOn(u, 1) = u.members
  <2>1. X(1) = DOMAIN u.members
    BY <1>3
  <2> HIDE DEF X
  <2>2. MembersOn(u, 1) = [x \in DOMAIN u.members |-> u.members[x]]
    BY <1>5, <2>1
  <2>3. QED
    BY <1>1, <2>2
<1>7. WithMember(ns[m], u.members[ns[m]], NoMembers) = MembersOn(u, m)
  <2>1. X(m) = {ns[m]}
    BY <1>4
  <2>2. DOMAIN NoMembers = {}
    BY DEF NoMembers
  <2> DEFINE name == ns[m]
  <2> HIDE DEF X, name
  <2>3. WithMember(name, u.members[name], NoMembers) = [x \in {name} |-> u.members[name]]
    BY <2>2 DEF WithMember
  <2>4. MembersOn(u, m) = [x \in {name} |-> u.members[x]]
    BY <1>5, <2>1 DEF name
  <2>5. [x \in {name} |-> u.members[x]] = [x \in {name} |-> u.members[name]]
    OBVIOUS
  <2>6. QED
    BY <2>3, <2>4, <2>5 DEF name
<1>8. ASSUME NEW i \in 1 .. m, i < m
      PROVE  WithMember(ns[i], u.members[ns[i]], MembersOn(u, i + 1)) = MembersOn(u, i)
  <2> DEFINE name == ns[i]
  <2> DEFINE rest == MembersOn(u, i + 1)
  <2>1. X(i) = {name} \cup X(i + 1)
    <3>1. \A k : k \in i .. m <=> (k = i \/ k \in i + 1 .. m)
      BY <1>4
    <3>2. QED
      BY <3>1
  <2>2. name \notin X(i + 1)
    <3>1. \A k \in i + 1 .. m : k \in 1 .. m /\ k # i
      BY <1>4
    <3>2. QED
      BY <1>3, <3>1
  <2> HIDE DEF X
  <2>3. rest = [x \in X(i + 1) |-> u.members[x]]
    BY <1>5
  <2> HIDE DEF name, rest
  <2>4. DOMAIN rest = X(i + 1) /\ \A x \in X(i + 1) : rest[x] = u.members[x]
    BY <2>3
  <2>5. WithMember(name, u.members[name], rest) = [x \in {name} \cup X(i + 1) |-> u.members[x]]
    BY <2>2, <2>4 DEF WithMember
  <2>6. MembersOn(u, i) = [x \in {name} \cup X(i + 1) |-> u.members[x]]
    BY <1>5, <2>1
  <2>7. QED
    BY <2>5, <2>6 DEF name, rest
<1>9. QED
  BY <1>6, <1>7, <1>8

\* The members of an object, as the elements of an array.
MembersStandAt(doc, c, n, d, T, u, text, p, w, e) ==
    /\ doc \in Seq(Tokens) /\ c \in BOOLEAN /\ n \in 0 .. StackLimit /\ d \in 1 .. StackLimit
    /\ u \in Objects(Strings, T) /\ MemberNames(u) # <<>> /\ ChildrenReadBack(doc, d + 1, text, c, n - 1, u)
    /\ p \in Nat /\ p >= 1 /\ w = WithCommas(MemberTexts(c, text, u)) /\ Stands(doc, p, w)
    /\ e = p + Len(w) /\ ClosesAt(doc, e)

LEMMA MembersReadBack ==
    ASSUME NEW doc, NEW c, NEW n, NEW d, NEW T, NEW u, NEW text, NEW p, NEW w, NEW e,
           MembersStandAt(doc, c, n, d, T, u, text, p, w, e)
    PROVE  \E K : /\ \A y \in BOOLEAN : ReaderMembers(doc, p, d, y) = Success(ObjectValue(K), e + 1)
                  /\ c => ObjectValue(K) \in Objects(PlainNames, PlainTree[n - 1])
                  /\ Faithful(c, n, u) => K = u.members
<1> /\ doc \in Seq(Tokens) /\ c \in BOOLEAN /\ n \in 0 .. StackLimit /\ d \in 1 .. StackLimit
    /\ u \in Objects(Strings, T) /\ MemberNames(u) # <<>> /\ ChildrenReadBack(doc, d + 1, text, c, n - 1, u)
    /\ p \in Nat /\ p >= 1 /\ w = WithCommas(MemberTexts(c, text, u)) /\ Stands(doc, p, w)
    /\ e = p + Len(w) /\ ClosesAt(doc, e)
  BY DEF MembersStandAt
<1> DEFINE ns == MemberNames(u)
<1> DEFINE m == Len(ns)
<1> DEFINE ts == MemberTexts(c, text, u)
<1> DEFINE U == PlainTree[n - 1]
<1> DEFINE F == Faithful(c, n, u)
<1> DEFINE N(i) == NameAs(c, ns[i])
<1> DEFINE X(i) == u.members[ns[i]]
<1>1. TextsIn(text, u)
  BY DEF TextsIn, ChildrenReadBack, BeginsText
<1>2. /\ ts \in TextLists /\ Len(ts) = m /\ m \in Nat /\ DOMAIN ns = 1 .. m
      /\ \A i \in 1 .. m :
           ts[i] = NamedText(N(i), text[X(i)]) /\ ns[i] \in Strings /\ ns[i] \in DOMAIN u.members /\ X(i) \in Children(u)
  BY <1>1, MemberTextsAre
<1>3. m >= 1
  <2>1. IsNaming(ns, DOMAIN u.members)
    BY <1>1, MemberTextsAre
  <2>2. ns \in Seq(Strings)
    BY <2>1 DEF IsNaming
  <2>3. QED
    BY <2>2, ElementsAre
<1>4. PICK b : LaidOut(doc, p, ts, e, b)
  BY <1>2, TextsLaidOut
<1> DEFINE B(i) == b[i]
<1> DEFINE A(i) == b[i] + Len(ts[i])
<1>5. \A i \in 1 .. m :
        /\ B(i) \in Nat /\ B(i) >= 1 /\ (i = 1 => B(i) = p) /\ Stands(doc, B(i), ts[i])
        /\ i < m => IsComma(doc, A(i)) /\ B(i + 1) = A(i) + 1
        /\ i = m => A(i) = e
  BY <1>2, <1>4, Zenon DEF LaidOut
<1>t. u.type = "object"
  BY ObjectIs
<1>f. F => \A i \in 1 .. m : Faithful(c, n - 1, X(i)) /\ (c => ns[i] \in PlainNames)
  BY <1>2, <1>t, FaithfulInside
<1>n. \A i \in 1 .. m : N(i) \in Strings /\ (c => N(i) \in PlainNames) /\ (F => N(i) = ns[i])
  BY <1>2, <1>f, NameAsIs
<1> DEFINE Item(i, k) ==
             /\ ReaderValue(doc, B(i) + 2, d + 1) = Success(k, A(i)) /\ (c => k \in U) /\ (F => k = X(i))
<1> DEFINE Rest(i, K) ==
             /\ \A y \in BOOLEAN : ReaderMembers(doc, B(i), d, y) = Success(ObjectValue(K), e + 1)
             /\ (c => ObjectValue(K) \in Objects(PlainNames, U)) /\ (F => K = MembersOn(u, i))
<1>6. ASSUME NEW i \in 1 .. m
      PROVE  /\ A(i) \in Nat /\ A(i) >= 1 /\ MemberAt(doc, B(i)) /\ doc[B(i)] = N(i)
             /\ \E k : Item(i, k)
  <2> DEFINE t == text[X(i)]
  <2>1. BeginsText(t) /\ ReadsBackWhereItStands(doc, d + 1, text, c, n - 1, X(i))
    BY <1>2 DEF ChildrenReadBack
  <2>2. B(i) \in Nat /\ B(i) >= 1 /\ Stands(doc, B(i), NamedText(N(i), t)) /\ ts[i] = NamedText(N(i), t)
    BY <1>2, <1>5, Zenon
  <2>3. /\ MemberAt(doc, B(i)) /\ doc[B(i)] = N(i) /\ B(i) + 2 \in Nat /\ B(i) + 2 >= 1 /\ Stands(doc, B(i) + 2, t)
        /\ B(i) + Len(NamedText(N(i), t)) = (B(i) + 2) + Len(t)
    <3> DEFINE name == N(i)
    <3> DEFINE q == B(i)
    <3>1. name \in Strings /\ q \in Nat /\ q >= 1 /\ BeginsText(t) /\ Stands(doc, q, NamedText(name, t))
      BY <1>n, <2>1, <2>2
    <3> HIDE DEF name, q, t
    <3>2. /\ MemberAt(doc, q) /\ doc[q] = name /\ q + 2 \in Nat /\ q + 2 >= 1 /\ Stands(doc, q + 2, t)
          /\ q + Len(NamedText(name, t)) = (q + 2) + Len(t)
      BY <3>1, NamedTextStands
    <3>3. QED
      BY <3>2, Zenon DEF name, q
  <2>4. A(i) = (B(i) + 2) + Len(t)
    BY <2>2, <2>3, Zenon
  <2>5. ReadsBack(doc, B(i) + 2, d + 1, t, c, n - 1, X(i))
    BY <2>1, <2>3, Zenon DEF ReadsBackWhereItStands
  <2>6. PICK k : /\ ReaderValue(doc, B(i) + 2, d + 1) = Success(k, A(i)) /\ (c => k \in U)
                 /\ (Faithful(c, n - 1, X(i)) => k = X(i))
    BY <2>4, <2>5, Zenon DEF ReadsBack
  <2>7. A(i) \in Nat /\ A(i) >= 1
    <3> DEFINE q == B(i) + 2
    <3>1. q \in Nat /\ q >= 1 /\ BeginsText(t) /\ Stands(doc, q, t)
      BY <2>1, <2>3
    <3> HIDE DEF q, t
    <3>2. q + Len(t) \in Nat /\ q + Len(t) >= 1
      BY <3>1, TextBegins
    <3>3. QED
      BY <2>4, <3>2, Zenon DEF q
  <2>8. Item(i, k)
    BY <1>f, <2>6, Zenon
  <2>9. QED
    BY <2>3, <2>7, <2>8, Zenon
<1>m. m \in 1 .. m /\ 1 \in 1 .. m
  BY <1>2, <1>3
<1>e. A(m) = e
  BY <1>5, <1>m
<1>g. /\ MembersOn(u, 1) = u.members
      /\ WithMember(ns[m], X(m), NoMembers) = MembersOn(u, m)
      /\ \A i \in 1 .. m : i < m => WithMember(ns[i], X(i), MembersOn(u, i + 1)) = MembersOn(u, i)
  BY <1>3, MembersOnAre
<1>y. \A x : NoName(x) \in BOOLEAN
  BY Zenon DEF NoName
<1>7. \E K : Rest(m, K)
  <2>1. PICK k : Item(m, k)
    BY <1>6, <1>m, Zenon
  <2>2. e \in Nat /\ e >= 1 /\ MemberAt(doc, B(m)) /\ doc[B(m)] = N(m) /\ B(m) \in Nat
    BY <1>5, <1>6, <1>e, <1>m, Zenon
  <2> DEFINE K == WithMember(N(m), k, NoMembers)
  <2>3. \A y \in BOOLEAN : ReaderMembers(doc, B(m), d, y) = Success(ObjectValue(K), e + 1)
    <3> DEFINE q == B(m)
    <3> DEFINE name == N(m)
    <3>1. ReaderValue(doc, q + 2, d + 1) = Success(k, e) /\ q \in Nat /\ MemberAt(doc, q) /\ doc[q] = name
      BY <1>e, <2>1, <2>2, Zenon
    <3> HIDE DEF q, name
    <3>2. \A y \in BOOLEAN : ReaderMembers(doc, q, d, y) = Success(ObjectValue(WithMember(doc[q], k, NoMembers)), e + 1)
      BY <2>2, <3>1, LastMemberRead
    <3>3. QED
      BY <3>1, <3>2, Zenon DEF q, name
  <2>4. c => ObjectValue(K) \in Objects(PlainNames, U)
    <3> DEFINE name == N(m)
    <3>1. c => name \in PlainNames /\ k \in U
      BY <1>m, <1>n, <2>1
    <3> HIDE DEF name, U
    <3>2. c => ObjectValue(WithMember(name, k, NoMembers)) \in Objects(PlainNames, U)
      BY <3>1, NoMembersIs, NewMembers
    <3>3. QED
      BY <3>2 DEF name, U
  <2>5. F => K = MembersOn(u, m)
    BY <1>g, <1>m, <1>n, <2>1, Zenon
  <2>6. QED
    BY <2>3, <2>4, <2>5
<1>8. ASSUME NEW i \in 1 .. m, i < m, \E K : Rest(i + 1, K) PROVE \E K : Rest(i, K)
  <2>1. PICK k : Item(i, k)
    BY <1>6
  <2>2. PICK K : Rest(i + 1, K)
    BY <1>8
  <2>3. /\ A(i) \in Nat /\ A(i) >= 1 /\ IsComma(doc, A(i)) /\ B(i + 1) = A(i) + 1
        /\ MemberAt(doc, B(i)) /\ doc[B(i)] = N(i) /\ B(i) \in Nat
    BY <1>5, <1>6, <1>8, Zenon
  <2> DEFINE L == WithMember(N(i), k, K)
  <2>4. \A y \in BOOLEAN : ReaderMembers(doc, B(i), d, y) = Success(ObjectValue(L), e + 1)
    <3> DEFINE a == A(i)
    <3> DEFINE q == B(i)
    <3> DEFINE name == N(i)
    <3> DEFINE end == e + 1
    <3>1. /\ ReaderValue(doc, q + 2, d + 1) = Success(k, a) /\ q \in Nat /\ MemberAt(doc, q) /\ doc[q] = name
          /\ a \in Nat /\ a >= 1 /\ IsComma(doc, a)
      BY <2>1, <2>3, Zenon
    <3>2. ReaderMembers(doc, a + 1, d, NoName(doc[q])) = Success(ObjectValue(K), end)
      BY <1>y, <2>2, <2>3, Zenon
    <3> HIDE DEF a, q, name, end
    <3>3. \A y \in BOOLEAN : ReaderMembers(doc, q, d, y) = Success(ObjectValue(WithMember(doc[q], k, K)), end)
      BY <3>1, <3>2, NextMemberRead
    <3>4. QED
      BY <3>1, <3>3, Zenon DEF q, name, end
  <2>5. c => ObjectValue(L) \in Objects(PlainNames, U)
    <3> DEFINE name == N(i)
    <3>1. c => name \in PlainNames /\ k \in U /\ ObjectValue(K) \in Objects(PlainNames, U)
      BY <1>n, <2>1, <2>2
    <3> HIDE DEF name, U
    <3>2. c => ObjectValue(WithMember(name, k, K)) \in Objects(PlainNames, U)
      BY <3>1, NewMembers
    <3>3. QED
      BY <3>2 DEF name, U
  <2>6. F => L = MembersOn(u, i)
    BY <1>g, <1>n, <1>8, <2>1, <2>2, Zenon
  <2>7. QED
    BY <2>4, <2>5, <2>6
<1>9. \E K : Rest(1, K)
  <2> DEFINE S == {i \in 0 .. m : i >= 1 => \E K : Rest(i, K)}
  <2> HIDE DEF Rest
  <2>1. m \in S
    BY <1>2, <1>7
  <2>2. ASSUME NEW i \in 1 .. m, i \in S PROVE i - 1 \in S
    <3>1. i - 1 \in 0 .. m /\ i >= 1 /\ (i - 1) + 1 = i
      BY <1>2
    <3>2. ASSUME i - 1 >= 1 PROVE \E K : Rest(i - 1, K)
      <4>1. i - 1 \in 1 .. m /\ i - 1 < m
        BY <1>2, <3>2
      <4>2. \E K : Rest((i - 1) + 1, K)
        BY <2>2, <3>1
      <4>3. QED
        BY <1>8, <4>1, <4>2
    <3>3. QED
      BY <3>1, <3>2
  <2> HIDE DEF S
  <2>3. \A i \in 0 .. m : i \in S
    BY <1>2, <2>1, <2>2, StepsKeepBack
  <2>4. 1 \in S /\ 1 >= 1
    BY <1>2, <1>3, <2>3
  <2>5. QED
    BY <2>4 DEF S
<1>10. PICK K : Rest(1, K)
  BY <1>9
<1>11. B(1) = p
  BY <1>5, <1>m
<1>12. QED
  BY <1>10, <1>11, <1>g, Zenon

OpensAt(doc, p) == p <= Len(doc) /\ doc[p] = "{"

LEMMA ReadsObject ==
    ASSUME NEW doc \in Seq(Tokens), NEW p \in Nat, p >= 1, OpensAt(doc, p), NEW d \in 1 .. StackLimit
    PROVE  ReaderValue(doc, p, d) = ReaderMembers(doc, p + 1, d, TRUE)
<1> DEFINE x == "{"
<1>0. p <= Len(doc) /\ doc[p] = x /\ x # "/"
  BY Zenon DEF OpensAt
<1> HIDE DEF x
<1>1. AfterComments(doc, p) = p /\ Token(doc, p) = x /\ p \in Places(doc)
  BY <1>0, NotAComment
<1>2. ReaderValue(doc, p, d) = ReaderByToken(doc, d, AfterComments(doc, p), Token(doc, AfterComments(doc, p)))
  BY <1>1, ReaderValueRead
<1>3. ReaderValue(doc, p, d) = ReaderByToken(doc, d, p, x)
  BY <1>1, <1>2, Zenon
<1>4. QED
  BY <1>3, Zenon DEF ReaderByToken, x

LEMMA ReadsArray ==
    ASSUME NEW doc \in Seq(Tokens), NEW p \in Nat, p >= 1, p <= Len(doc), doc[p] = "[", NEW d \in 1 .. StackLimit
    PROVE  ReaderValue(doc, p, d) = IF Token(doc, p + 1) = "]" THEN Success(ArrayValue(<<>>), p + 2)
                                    ELSE ReaderElements(doc, p + 1, d)
<1>1. AfterComments(doc, p) = p /\ Token(doc, p) = "[" /\ p \in Places(doc)
  BY NotAComment
<1>2. ReaderValue(doc, p, d) = ReaderByToken(doc, d, AfterComments(doc, p), Token(doc, AfterComments(doc, p)))
  BY <1>1, ReaderValueRead
<1>3. ReaderValue(doc, p, d) = ReaderByToken(doc, d, p, "[")
  BY <1>1, <1>2, Zenon
<1>4. "[" # "{"
  BY Zenon
<1>5. QED
  BY <1>3, <1>4, Zenon DEF ReaderByToken

LEMMA ReadsScalar ==
    ASSUME NEW doc \in Seq(Tokens), NEW p \in Nat, p >= 1, p <= Len(doc), doc[p] \in Strings \cup Scalars,
           NEW d \in 1 .. StackLimit
    PROVE  ReaderValue(doc, p, d) = Success(ScalarValue(doc[p]), p + 1)
<1> DEFINE x == doc[p]
<1>0. x # "{" /\ x # "[" /\ x # "/"
  BY StringsAreNoMarks, Zenon
<1>c. x # "/"
  BY <1>0, Zenon
<1>1. AfterComments(doc, p) = p /\ Token(doc, p) = x /\ p \in Places(doc)
  BY <1>c, NotAComment
<1>2. ReaderValue(doc, p, d) = ReaderByToken(doc, d, AfterComments(doc, p), Token(doc, AfterComments(doc, p)))
  BY <1>1, ReaderValueRead
<1>3. ReaderValue(doc, p, d) = ReaderByToken(doc, d, p, x)
  BY <1>1, <1>2, Zenon
<1>4. QED
  BY <1>0, <1>3, Zenon DEF ReaderByToken

LEMMA ReadsNoMembers ==
    ASSUME NEW doc \in Seq(Tokens), NEW p \in Nat, p >= 1, ClosesAt(doc, p), NEW d \in 1 .. StackLimit
    PROVE  ReaderMembers(doc, p, d, TRUE) = Success(ObjectValue(NoMembers), p + 1)
<1> DEFINE x == "}"
<1>0. p <= Len(doc) /\ doc[p] = x /\ x # "/"
  BY Zenon DEF ClosesAt
<1> HIDE DEF x
<1>1. AfterComments(doc, p) = p /\ Token(doc, p) = x /\ p \in Places(doc)
  BY <1>0, NotAComment
<1> DEFINE child == ReaderValue(doc, p + 2, d + 1)
<1>2. ReaderMembers(doc, p, d, TRUE) =
        ReaderMembersFrom(doc, d, TRUE, p, Token(doc, p), child, AfterComments(doc, child.at))
  <2>1. p = AfterComments(doc, p) /\ p \in Places(doc) /\ child = ReaderValue(doc, p + 2, d + 1)
    BY <1>1
  <2> HIDE DEF child
  <2>2. \A u \in BOOLEAN : ReaderMembers(doc, p, d, u) =
          ReaderMembersFrom(doc, d, u, p, Token(doc, p), child, AfterComments(doc, child.at))
    BY <2>1, ReaderMembersRead
  <2>3. QED
    BY <2>2, Zenon
<1>3. EmptyObject(doc, p, TRUE)
  BY <1>1, Zenon DEF EmptyObject, x
<1> HIDE DEF child
<1>4. QED
  BY <1>2, <1>3, Zenon DEF ReaderMembersFrom

LEMMA NothingJoined ==
    ASSUME NEW ts \in TextLists, Len(ts) = 0
    PROVE  WithCommas(ts) = <<>>
<1>1. PICK j \in [0 .. Len(ts) -> Seq(Tokens)] : Joins(ts, j) /\ WithCommas(ts) = j[Len(ts)]
  BY WithCommasIs
<1>2. QED
  BY <1>1, Zenon DEF Joins

\* Where the parts of a text in brackets stand.
LEMMA BracketsStand ==
    ASSUME NEW doc \in Seq(Tokens), NEW p \in Nat, p >= 1, NEW x \in Tokens, NEW y \in Tokens, NEW w \in Seq(Tokens),
           Stands(doc, p, (<<x>> \o w) \o <<y>>)
    PROVE  /\ p <= Len(doc) /\ doc[p] = x /\ Stands(doc, p + 1, w) /\ Len(w) \in Nat
           /\ (p + 1) + Len(w) <= Len(doc) /\ doc[(p + 1) + Len(w)] = y
           /\ ((p + 1) + Len(w)) + 1 = p + Len((<<x>> \o w) \o <<y>>)
<1> DEFINE a == <<x>>
<1> DEFINE z == <<y>>
<1>1. a \in Seq(Tokens) /\ z \in Seq(Tokens) /\ Len(a) = 1 /\ Len(z) = 1 /\ a[1] = x /\ z[1] = y
  BY OneToken
<1>2. Len(w) \in Nat
  BY ElementsAre
<1>3. Stands(doc, p, (a \o w) \o z)
  OBVIOUS
<1>d. Len((a \o w) \o z) = Len((<<x>> \o w) \o <<y>>)
  OBVIOUS
<1> HIDE DEF a, z
<1>t. a \in Seq(Tokens) /\ z \in Seq(Tokens)
  BY <1>1
<1>4. /\ Stands(doc, p, a) /\ Stands(doc, p + Len(a), w) /\ Stands(doc, (p + Len(a)) + Len(w), z)
      /\ Len((a \o w) \o z) = (Len(a) + Len(w)) + Len(z)
  BY <1>3, <1>t, StepStands
<1> DEFINE e == (p + 1) + Len(w)
<1>5. Stands(doc, p + 1, w) /\ Stands(doc, e, z) /\ e \in Nat /\ e + 1 = p + Len((a \o w) \o z)
  BY <1>1, <1>2, <1>4
<1> HIDE DEF e
<1>6. 1 \in 1 .. 1 /\ (p + 1) - 1 = p /\ (e + 1) - 1 = e
  BY <1>5
<1>7. p <= Len(doc) /\ doc[p] = x
  BY <1>1, <1>4, <1>6 DEF Stands
<1>8. e <= Len(doc) /\ doc[e] = y
  BY <1>1, <1>5, <1>6 DEF Stands
<1>9. QED
  BY <1>2, <1>5, <1>7, <1>8, <1>d DEF e

LEMMA ScalarReadsBack ==
    ASSUME NEW doc \in Seq(Tokens), NEW c \in BOOLEAN, NEW n \in 1 .. StackLimit, NEW d \in 1 .. StackLimit,
           NEW u \in ReaderLeaves, NEW text, NEW p \in Nat, p >= 1, Stands(doc, p, TextAs(c, text, u))
    PROVE  ReadsBack(doc, p, d, TextAs(c, text, u), c, n, u)
<1> DEFINE x == u.text
<1> DEFINE t == TextAs(c, text, u)
<1>1. u.type = "scalar" /\ x \in Strings \cup Scalars /\ u = ScalarValue(x)
  BY LeafHasNoChildren DEF ReaderLeaves, ScalarValue
<1>2. t = <<x>>
  BY <1>1, Zenon DEF TextAs
<1>3. Stands(doc, p, t)
  OBVIOUS
<1> HIDE DEF t, x
<1>4. Len(t) = 1 /\ t[1] = x
  BY <1>2
<1>5. 1 \in 1 .. Len(t) /\ (p + 1) - 1 = p
  BY <1>4
<1>6. p <= Len(doc) /\ doc[p] = x
  BY <1>3, <1>4, <1>5 DEF Stands
<1>7. ReaderValue(doc, p, d) = Success(u, p + Len(t))
  BY <1>1, <1>4, <1>6, ReadsScalar
<1>8. u \in PlainTree[n]
  BY TreesAre DEF PlainTree, Level
<1>9. QED
  BY <1>7, <1>8 DEF ReadsBack, t

LEMMA PlainLevel ==
    ASSUME NEW n \in 1 .. StackLimit
    PROVE  PlainTree[n] = Level(PlainNames, ReaderLeaves, PlainTree[n - 1])
BY TreesAre DEF PlainTree

LEMMA ArrayReadsBack ==
    ASSUME NEW doc \in Seq(Tokens), NEW c \in BOOLEAN, NEW n \in 1 .. StackLimit, NEW d \in 1 .. StackLimit,
           NEW T, NEW u \in Arrays(T), NEW text, ChildrenReadBack(doc, d + 1, text, c, n - 1, u),
           NEW p \in Nat, p >= 1, Stands(doc, p, TextAs(c, text, u))
    PROVE  ReadsBack(doc, p, d, TextAs(c, text, u), c, n, u)
<1> DEFINE x == "["
<1> DEFINE y == "]"
<1> DEFINE ts == ElementTexts(text, u)
<1> DEFINE w == WithCommas(ts)
<1> DEFINE t == TextAs(c, text, u)
<1> DEFINE e == (p + 1) + Len(w)
<1>1. u.type = "array" /\ u = ArrayValue(u.elements) /\ u.elements \in Seq(T)
  BY ArrayIs
<1>2. t = (<<x>> \o w) \o <<y>>
  BY <1>1 DEF TextAs
<1>3. TextsIn(text, u)
  BY DEF TextsIn, ChildrenReadBack, BeginsText
<1>4. ts \in TextLists /\ Len(ts) = Len(u.elements)
  BY <1>3, ElementTextsAre
<1>5. w \in Seq(Tokens)
  BY <1>4, JoinedIs
<1>6. x \in Tokens /\ y \in Tokens /\ ~BeginsAValue(y)
  <2>1. x \in Tokens /\ y \in Tokens
    BY Zenon DEF Tokens, Marks
  <2>2. y \notin Strings \cup Scalars
    BY StringsAreNoMarks, Zenon
  <2>3. y # "{" /\ y # "["
    BY Zenon
  <2>4. QED
    BY <2>1, <2>2, <2>3, Zenon DEF BeginsAValue
<1>7. Stands(doc, p, t) /\ n \in 0 .. StackLimit
  OBVIOUS
<1> HIDE DEF w, t, x, y
<1>8. /\ p <= Len(doc) /\ doc[p] = x /\ Stands(doc, p + 1, w) /\ Len(w) \in Nat
      /\ e <= Len(doc) /\ doc[e] = y /\ e + 1 = p + Len(t)
  BY <1>2, <1>5, <1>6, <1>7, BracketsStand
<1>9. ReaderValue(doc, p, d) = IF Token(doc, p + 1) = "]" THEN Success(ArrayValue(<<>>), p + 2)
                               ELSE ReaderElements(doc, p + 1, d)
  BY <1>8, ReadsArray DEF x
<1>10. CASE u.elements = <<>>
  <2>1. Len(ts) = 0
    BY <1>4, <1>10
  <2>2. w = <<>>
    BY <1>4, <2>1, NothingJoined DEF w
  <2>3. e = p + 1 /\ p + 2 = p + Len(t)
    BY <1>8, <2>2
  <2>4. Token(doc, p + 1) = "]"
    BY <1>8, <2>3 DEF Token, y
  <2>5. ReaderValue(doc, p, d) = Success(u, p + Len(t))
    BY <1>1, <1>9, <1>10, <2>3, <2>4
  <2>6. u \in PlainTree[n]
    <3>1. <<>> \in Seq(PlainTree[n - 1])
      BY EmptyConcat
    <3>2. u \in Arrays(PlainTree[n - 1])
      BY <1>1, <1>10, <3>1 DEF Arrays, ArrayValue
    <3>3. QED
      BY <3>2, PlainLevel DEF Level
  <2>7. QED
    BY <2>5, <2>6 DEF ReadsBack, t
<1>11. CASE u.elements # <<>>
  <2> DEFINE q == p + 1
  <2> DEFINE f == q + Len(w)
  <2>1. q \in Nat /\ q >= 1 /\ w = WithCommas(ts) /\ Stands(doc, q, w) /\ f <= Len(doc) /\ doc[f] = "]"
    BY <1>8 DEF w, y
  <2> HIDE DEF q, ts
  <2>2. /\ q <= Len(doc) /\ BeginsAValue(doc[q])
        /\ \E K : /\ ReaderElements(doc, q, d) = Success(ArrayValue(K), f + 1)
                  /\ c => K \in Seq(PlainTree[n - 1])
                  /\ Faithful(c, n, u) => K = u.elements
    <3> HIDE DEF f
    <3>1. f = q + Len(w) /\ w = WithCommas(ElementTexts(text, u))
      BY <2>1 DEF f, ts
    <3>2. QED
      <4>1. ElementsStand(doc, c, n, d, T, u, text, q, w, f)
        BY <1>7, <1>11, <2>1, <3>1 DEF ElementsStand
      <4>2. QED
        BY <4>1, ElementsReadBack
  <2>3. PICK K : /\ ReaderElements(doc, q, d) = Success(ArrayValue(K), f + 1)
                 /\ c => K \in Seq(PlainTree[n - 1])
                 /\ Faithful(c, n, u) => K = u.elements
    BY <2>2
  <2>4. Token(doc, q) # "]"
    BY <1>6, <2>2 DEF Token, y
  <2>5. ReaderValue(doc, p, d) = Success(ArrayValue(K), p + Len(t))
    <3>1. f + 1 = p + Len(t)
      BY <1>8 DEF q
    <3>2. ReaderValue(doc, p, d) = ReaderElements(doc, q, d)
      BY <1>9, <2>4, Zenon DEF q
    <3>3. QED
      BY <2>3, <3>1, <3>2, Zenon
  <2>6. c => ArrayValue(K) \in PlainTree[n]
    <3>1. c => ArrayValue(K) \in Arrays(PlainTree[n - 1])
      BY <2>3 DEF Arrays, ArrayValue
    <3>2. QED
      BY <3>1, PlainLevel DEF Level
  <2>7. Faithful(c, n, u) => ArrayValue(K) = u
    BY <1>1, <2>3
  <2>8. QED
    BY <2>5, <2>6, <2>7, Zenon DEF ReadsBack, t
<1>12. QED
  BY <1>10, <1>11

LEMMA ObjectReadsBack ==
    ASSUME NEW doc \in Seq(Tokens), NEW c \in BOOLEAN, NEW n \in 1 .. StackLimit, NEW d \in 1 .. StackLimit,
           NEW T, NEW u \in Objects(Strings, T), NEW text, ChildrenReadBack(doc, d + 1, text, c, n - 1, u),
           NEW p \in Nat, p >= 1, Stands(doc, p, TextAs(c, text, u))
    PROVE  ReadsBack(doc, p, d, TextAs(c, text, u), c, n, u)
<1> DEFINE x == "{"
<1> DEFINE y == "}"
<1> DEFINE ns == MemberNames(u)
<1> DEFINE ts == MemberTexts(c, text, u)
<1> DEFINE w == WithCommas(ts)
<1> DEFINE t == TextAs(c, text, u)
<1> DEFINE e == (p + 1) + Len(w)
<1>1. u.type = "object" /\ u = ObjectValue(u.members) /\ u.members \in [DOMAIN u.members -> T]
  BY ObjectIs
<1>2. t = (<<x>> \o w) \o <<y>>
  <2>1. "object" # "scalar" /\ "object" # "array"
    OBVIOUS
  <2>2. QED
    BY <1>1, <2>1, Zenon DEF TextAs
<1>3. TextsIn(text, u)
  BY DEF TextsIn, ChildrenReadBack, BeginsText
<1>4. ts \in TextLists /\ Len(ts) = Len(ns) /\ IsNaming(ns, DOMAIN u.members)
  BY <1>3, MemberTextsAre
<1>5. w \in Seq(Tokens)
  BY <1>4, JoinedIs
<1>6. x \in Tokens /\ y \in Tokens
  BY Zenon DEF Tokens, Marks
<1>7. Stands(doc, p, t) /\ n \in 0 .. StackLimit
  OBVIOUS
<1> HIDE DEF w, t, x, y
<1>8. /\ p <= Len(doc) /\ doc[p] = x /\ Stands(doc, p + 1, w) /\ Len(w) \in Nat
      /\ e <= Len(doc) /\ doc[e] = y /\ e + 1 = p + Len(t)
  BY <1>2, <1>5, <1>6, <1>7, BracketsStand
<1>9. ReaderValue(doc, p, d) = ReaderMembers(doc, p + 1, d, TRUE)
  <2>1. OpensAt(doc, p)
    BY <1>8, Zenon DEF OpensAt, x
  <2>2. QED
    BY <2>1, ReadsObject
<1>c. ClosesAt(doc, e)
  BY <1>8, Zenon DEF ClosesAt, y
<1>10. CASE ns = <<>>
  <2>1. Len(ts) = 0
    BY <1>4, <1>10
  <2>2. w = <<>>
    BY <1>4, <2>1, NothingJoined DEF w
  <2>3. e = p + 1 /\ p + 2 = p + Len(t) /\ (p + 1) + 1 = p + 2
    BY <1>8, <2>2
  <2>4. ReaderMembers(doc, p + 1, d, TRUE) = Success(ObjectValue(NoMembers), (p + 1) + 1)
    <3> DEFINE q == p + 1
    <3>1. ClosesAt(doc, q) /\ q \in Nat /\ q >= 1
      BY <1>c, <2>3
    <3> HIDE DEF q
    <3>2. ReaderMembers(doc, q, d, TRUE) = Success(ObjectValue(NoMembers), q + 1)
      BY <3>1, ReadsNoMembers
    <3>3. QED
      BY <3>2 DEF q
  <2>5. u.members = NoMembers /\ DOMAIN u.members = {}
    <3>1. DOMAIN u.members = {}
      BY <1>4, <1>10 DEF IsNaming
    <3>2. QED
      BY <1>1, <3>1 DEF NoMembers
  <2>6. ReaderValue(doc, p, d) = Success(u, p + Len(t))
    BY <1>1, <1>9, <2>3, <2>4, <2>5
  <2>7. u \in PlainTree[n]
    <3>1. u \in Objects(PlainNames, PlainTree[n - 1])
      BY <1>1, <2>5, NoMembersIs
    <3>2. QED
      BY <3>1, PlainLevel DEF Level
  <2>8. QED
    BY <2>6, <2>7 DEF ReadsBack, t
<1>11. CASE ns # <<>>
  <2> DEFINE q == p + 1
  <2> DEFINE f == q + Len(w)
  <2>1. q \in Nat /\ q >= 1 /\ w = WithCommas(ts) /\ Stands(doc, q, w) /\ ClosesAt(doc, f)
    BY <1>8, <1>c DEF w
  <2> HIDE DEF q, ts
  <2>2. \E K : /\ \A z \in BOOLEAN : ReaderMembers(doc, q, d, z) = Success(ObjectValue(K), f + 1)
               /\ c => ObjectValue(K) \in Objects(PlainNames, PlainTree[n - 1])
               /\ Faithful(c, n, u) => K = u.members
    <3> HIDE DEF f
    <3>1. f = q + Len(w) /\ w = WithCommas(MemberTexts(c, text, u))
      BY <2>1 DEF f, ts
    <3>2. QED
      <4>1. MembersStandAt(doc, c, n, d, T, u, text, q, w, f)
        BY <1>7, <1>11, <2>1, <3>1 DEF MembersStandAt
      <4>2. QED
        BY <4>1, MembersReadBack
  <2>3. PICK K : /\ ReaderMembers(doc, q, d, TRUE) = Success(ObjectValue(K), f + 1)
                 /\ c => ObjectValue(K) \in Objects(PlainNames, PlainTree[n - 1])
                 /\ Faithful(c, n, u) => K = u.members
    BY <2>2
  <2>5. ReaderValue(doc, p, d) = Success(ObjectValue(K), p + Len(t))
    <3>1. f + 1 = p + Len(t)
      BY <1>8 DEF q
    <3>2. ReaderValue(doc, p, d) = ReaderMembers(doc, q, d, TRUE)
      BY <1>9, Zenon DEF q
    <3>3. QED
      BY <2>3, <3>1, <3>2, Zenon
  <2>6. c => ObjectValue(K) \in PlainTree[n]
    BY <2>3, PlainLevel DEF Level
  <2>7. Faithful(c, n, u) => ObjectValue(K) = u
    BY <1>1, <2>3
  <2>8. QED
    BY <2>5, <2>6, <2>7, Zenon DEF ReadsBack, t
<1>12. QED
  BY <1>10, <1>11

\* What Reader reads where the text of a value stands.
LEMMA TextsReadBack ==
    ASSUME NEW doc \in Seq(Tokens), NEW c \in BOOLEAN, NEW D, PartsOfTree(D), NEW text, TextMap(c, D, text)
    PROVE  \A n \in 0 .. StackLimit : \A u \in D :
               u \in ReaderTree[n] => ReadsBackWhereItStands(doc, (StackLimit + 1) - n, text, c, n, u)
<1> DEFINE N == StackLimit
<1> DEFINE Good(n) == \A u \in D : u \in ReaderTree[n] => ReadsBackWhereItStands(doc, (N + 1) - n, text, c, n, u)
<1> DEFINE S == {n \in 0 .. N : Good(n)}
<1>0. N \in Nat /\ ReaderTree[0] = {}
  BY ReaderAssumption, TreesAre DEF ReaderTree
<1>d. \A u \in D : Children(u) \subseteq D /\ text[u] = TextAs(c, text, u) /\ BeginsText(text[u])
  BY DEF PartsOfTree, Closed, TextMap
<1>1. 0 \in S
  BY <1>0
<1>2. ASSUME NEW n \in 1 .. N, n - 1 \in S PROVE n \in S
  <2> DEFINE d == (N + 1) - n
  <2>1. n \in 0 .. N /\ d \in 1 .. N /\ d + 1 = (N + 1) - (n - 1)
    BY <1>0
  <2>2. \A x \in D : x \in ReaderTree[n - 1] => ReadsBackWhereItStands(doc, d + 1, text, c, n - 1, x)
    BY <1>2, <2>1
  <2> HIDE DEF d
  <2>3. ASSUME NEW u \in D, u \in ReaderTree[n], NEW p \in Nat, p >= 1, Stands(doc, p, text[u])
        PROVE  ReadsBack(doc, p, d, text[u], c, n, u)
    <3> DEFINE T == ReaderTree[n - 1]
    <3>1. Children(u) \subseteq T /\ (u \in ReaderLeaves \/ u \in Arrays(T) \/ u \in Objects(Strings, T))
      BY <2>1, <2>3, LevelIs DEF ReaderTree
    <3>2. ChildrenReadBack(doc, d + 1, text, c, n - 1, u)
      BY <1>d, <2>2, <3>1 DEF ChildrenReadBack
    <3>3. text[u] = TextAs(c, text, u) /\ Stands(doc, p, TextAs(c, text, u))
      BY <1>d, <2>3
    <3> HIDE DEF T, N
    <3>4. ReadsBack(doc, p, d, TextAs(c, text, u), c, n, u)
      <4>0. n \in 1 .. StackLimit /\ d \in 1 .. StackLimit
        BY <2>1 DEF N
      <4>1. CASE u \in ReaderLeaves
        BY <2>3, <3>3, <4>0, <4>1, ScalarReadsBack
      <4>2. CASE u \in Arrays(T)
        BY <2>3, <3>2, <3>3, <4>0, <4>2, ArrayReadsBack
      <4>3. CASE u \in Objects(Strings, T)
        BY <2>3, <3>2, <3>3, <4>0, <4>3, ObjectReadsBack
      <4>4. QED
        BY <3>1, <4>1, <4>2, <4>3
    <3>5. QED
      BY <3>3, <3>4, Zenon
  <2>4. Good(n)
    BY <2>3, Zenon DEF ReadsBackWhereItStands, d
  <2>5. QED
    BY <2>1, <2>4
<1> HIDE DEF S, Good
<1>3. \A n \in 0 .. N : n \in S
  BY <1>0, <1>1, <1>2, StepsKeep
<1>4. \A n \in 0 .. N : Good(n)
  BY <1>3 DEF S
<1>5. QED
  BY <1>4 DEF Good

\* What is written of a value that was read is accepted, and is the value
\* unless a name of it is cut.
LEMMA TextIsReadBack ==
    ASSUME NEW v \in ReaderTree[StackLimit], NEW c \in BOOLEAN, NEW text, TextMap(c, Parts(v), text)
    PROVE  ParseDocument(text[v]).ok /\ (ReadBack(text[v], v) <=> Faithful(c, StackLimit, v))
<1> DEFINE N == StackLimit
<1> DEFINE doc == text[v]
<1>1. PartsOfTree(Parts(v)) /\ v \in Parts(v)
  BY FastTextIs
<1>2. doc \in Seq(Tokens) /\ N \in Nat /\ N \in 0 .. N /\ (N + 1) - N = 1
  BY <1>1, ReaderAssumption DEF TextMap
<1>3. ReadsBackWhereItStands(doc, (N + 1) - N, text, c, N, v)
  BY <1>1, <1>2, TextsReadBack
<1>4. Stands(doc, 1, text[v]) /\ 1 \in Nat /\ 1 >= 1
  BY <1>2, StandsAll
<1>5. ReadsBack(doc, 1, 1, doc, c, N, v)
  BY <1>2, <1>3, <1>4 DEF ReadsBackWhereItStands
<1> HIDE DEF doc
<1>6. PICK k : /\ ReaderValue(doc, 1, 1) = Success(k, 1 + Len(doc)) /\ (c => k \in PlainTree[N])
               /\ (Faithful(c, N, v) => k = v)
  BY <1>5, Zenon DEF ReadsBack
<1>7. ParseDocument(doc) = Success(k, 1 + Len(doc))
  BY <1>6, Zenon DEF ParseDocument, ReaderValue
<1>8. Len(doc) \in Nat /\ 1 + Len(doc) = Len(doc) + 1
  BY <1>2, ElementsAre
<1>9. ReadBack(doc, v) <=> k = v
  <2> DEFINE r == ParseDocument(doc)
  <2>1. r.ok /\ r.value = k /\ r.at = Len(doc) + 1
    BY <1>7, <1>8, SuccessHas
  <2>2. ReadBack(doc, v) <=> r.ok /\ r.value = v /\ r.at = Len(doc) + 1
    BY Zenon DEF ReadBack
  <2> HIDE DEF r
  <2>3. QED
    BY <2>1, <2>2
<1>10. ParseDocument(doc).ok
  BY <1>7, SuccessHas
<1>11. k = v => Faithful(c, N, v)
  BY <1>6 DEF Faithful
<1>12. QED
  BY <1>6, <1>9, <1>10, <1>11 DEF doc

\* Appending to what a writer has.
LEMMA WritersAre ==
    ASSUME NEW w
    PROVE  w \in Writers <=> /\ w \in [document : Seq(Tokens), children : TextLists,
                                       adding : BOOLEAN, comments : BOOLEAN, cNames : BOOLEAN]
                             /\ w.comments => w.children = <<>> /\ ~w.adding
BY Zenon DEF Writers, TextLists

LEMMA WriterHas ==
    ASSUME NEW w \in Writers
    PROVE  /\ w.document \in Seq(Tokens) /\ w.children \in TextLists
           /\ {w.adding, w.comments, w.cNames} \subseteq BOOLEAN
           /\ w.comments => w.children = <<>> /\ ~w.adding
BY WritersAre

LEMMA EmitIs ==
    ASSUME NEW w \in Writers, NEW t \in Seq(Tokens)
    PROVE  /\ Emit(w, t) \in Writers /\ Emit(w, t).document = w.document \o t
           /\ Emit(w, t).children = w.children /\ Emit(w, t).adding = w.adding
           /\ Emit(w, t).comments = w.comments /\ Emit(w, t).cNames = w.cNames
<1> DEFINE d == w.document \o t
<1>1. d \in Seq(Tokens)
  BY WriterHas, ConcatIs
<1>2. Emit(w, t) = [w EXCEPT !.document = d]
  BY Zenon DEF Emit
<1> HIDE DEF d
<1>3. w \in [document : Seq(Tokens), children : TextLists,
             adding : BOOLEAN, comments : BOOLEAN, cNames : BOOLEAN] /\ (w.comments => w.children = <<>> /\ ~w.adding)
  BY WritersAre
<1> DEFINE r == [w EXCEPT !.document = d]
<1>4. r \in [document : Seq(Tokens), children : TextLists,
             adding : BOOLEAN, comments : BOOLEAN, cNames : BOOLEAN]
  BY <1>1, <1>3
<1>5. /\ r.document = d /\ r.children = w.children /\ r.adding = w.adding
      /\ r.comments = w.comments /\ r.cNames = w.cNames
  BY <1>3
<1>6. r \in Writers
  <2> HIDE DEF r
  <2>1. QED
    BY <1>3, <1>4, <1>5, WritersAre
<1> HIDE DEF r
<1>7. QED
  BY <1>2, <1>5, <1>6 DEF d, r

LEMMA AppendedIs ==
    ASSUME NEW s \in TextLists, NEW t \in Seq(Tokens)
    PROVE  /\ Append(s, t) \in TextLists /\ Len(Append(s, t)) = Len(s) + 1
           /\ Append(s, t)[Len(s) + 1] = t /\ \A i \in 1 .. Len(s) : Append(s, t)[i] = s[i]
<1> DEFINE A == Seq(Tokens)
<1>1. s \in Seq(A) /\ t \in A
  BY DEF TextLists
<1> HIDE DEF A
<1>2. /\ Append(s, t) \in Seq(A) /\ Len(Append(s, t)) = Len(s) + 1
      /\ Append(s, t)[Len(s) + 1] = t /\ \A i \in 1 .. Len(s) : Append(s, t)[i] = s[i]
  BY <1>1
<1>3. QED
  BY <1>2 DEF A, TextLists

LEMMA PushIs ==
    ASSUME NEW w \in Writers, NEW t \in Seq(Tokens)
    PROVE  /\ PushValue(w, t) \in Writers /\ PushValue(w, t).adding = w.adding
           /\ PushValue(w, t).comments = w.comments /\ PushValue(w, t).cNames = w.cNames
           /\ w.adding => /\ PushValue(w, t).document = w.document
                          /\ PushValue(w, t).children = Append(w.children, t)
           /\ ~w.adding => PushValue(w, t).document = w.document \o t
<1>1. CASE w.adding
  <2> DEFINE c == Append(w.children, t)
  <2>1. w.children \in TextLists /\ ~w.comments
    BY <1>1, WriterHas
  <2>2. c \in TextLists
    BY <2>1, AppendedIs
  <2>3. PushValue(w, t) = [w EXCEPT !.children = c]
    BY <1>1, Zenon DEF PushValue
  <2> HIDE DEF c
  <2>4. w \in [document : Seq(Tokens), children : TextLists, adding : BOOLEAN, comments : BOOLEAN, cNames : BOOLEAN]
    BY WritersAre
  <2> DEFINE r == [w EXCEPT !.children = c]
  <2>5. /\ r.document = w.document /\ r.children = c /\ r.adding = w.adding
        /\ r.comments = w.comments /\ r.cNames = w.cNames
        /\ r \in [document : Seq(Tokens), children : TextLists, adding : BOOLEAN, comments : BOOLEAN, cNames : BOOLEAN]
    BY <2>2, <2>4
  <2> HIDE DEF r
  <2>6. r \in Writers
    BY <2>1, <2>5, WritersAre
  <2>7. QED
    BY <1>1, <2>3, <2>5, <2>6 DEF c, r
<1>2. CASE ~w.adding
  <2>1. PushValue(w, t) = Emit(w, t)
    BY <1>2, Zenon DEF PushValue
  <2>2. QED
    BY <1>2, <2>1, EmitIs
<1>3. QED
  BY <1>1, <1>2

\* The changes of childValues_ and addChildValues_ by IsMultilineArray.
Filler(w) == [w EXCEPT !.children = <<>>, !.adding = TRUE]
Cleared(w) == [w EXCEPT !.children = <<>>]
Filled(w) == [w EXCEPT !.adding = FALSE]

LEMMA FillerIs ==
    ASSUME NEW w \in Writers, ~w.comments
    PROVE  /\ Filler(w) \in Writers /\ Filler(w).document = w.document /\ Filler(w).children = <<>>
           /\ Filler(w).adding = TRUE /\ Filler(w).comments = w.comments /\ Filler(w).cNames = w.cNames
<1> DEFINE r == Filler(w)
<1>1. w \in [document : Seq(Tokens), children : TextLists, adding : BOOLEAN, comments : BOOLEAN, cNames : BOOLEAN]
  BY WritersAre
<1>2. <<>> \in TextLists
  BY EmptyConcat DEF TextLists
<1>3. /\ r.document = w.document /\ r.children = <<>> /\ r.adding = TRUE
      /\ r.comments = w.comments /\ r.cNames = w.cNames
      /\ r \in [document : Seq(Tokens), children : TextLists, adding : BOOLEAN, comments : BOOLEAN, cNames : BOOLEAN]
  BY <1>1, <1>2 DEF Filler
<1> HIDE DEF r
<1>4. r \in Writers
  BY <1>3, WritersAre
<1>5. QED
  BY <1>3, <1>4 DEF r

LEMMA ClearedIs ==
    ASSUME NEW w \in Writers
    PROVE  /\ Cleared(w) \in Writers /\ Cleared(w).document = w.document /\ Cleared(w).children = <<>>
           /\ Cleared(w).adding = w.adding /\ Cleared(w).comments = w.comments /\ Cleared(w).cNames = w.cNames
<1> DEFINE r == Cleared(w)
<1>1. /\ w \in [document : Seq(Tokens), children : TextLists, adding : BOOLEAN, comments : BOOLEAN, cNames : BOOLEAN]
      /\ w.comments => ~w.adding
  BY WritersAre
<1>2. <<>> \in TextLists
  BY EmptyConcat DEF TextLists
<1>3. /\ r.document = w.document /\ r.children = <<>> /\ r.adding = w.adding
      /\ r.comments = w.comments /\ r.cNames = w.cNames
      /\ r \in [document : Seq(Tokens), children : TextLists, adding : BOOLEAN, comments : BOOLEAN, cNames : BOOLEAN]
  BY <1>1, <1>2 DEF Cleared
<1> HIDE DEF r
<1>4. r \in Writers
  BY <1>1, <1>3, WritersAre
<1>5. QED
  BY <1>3, <1>4 DEF r

LEMMA FilledIs ==
    ASSUME NEW w \in Writers
    PROVE  /\ Filled(w) \in Writers /\ Filled(w).document = w.document /\ Filled(w).children = w.children
           /\ Filled(w).adding = FALSE /\ Filled(w).comments = w.comments /\ Filled(w).cNames = w.cNames
<1> DEFINE r == Filled(w)
<1>1. /\ w \in [document : Seq(Tokens), children : TextLists, adding : BOOLEAN, comments : BOOLEAN, cNames : BOOLEAN]
      /\ w.comments => w.children = <<>>
  BY WritersAre
<1>2. /\ r.document = w.document /\ r.children = w.children /\ r.adding = FALSE
      /\ r.comments = w.comments /\ r.cNames = w.cNames
      /\ r \in [document : Seq(Tokens), children : TextLists, adding : BOOLEAN, comments : BOOLEAN, cNames : BOOLEAN]
  BY <1>1 DEF Filled
<1> HIDE DEF r
<1>3. r \in Writers
  BY <1>1, <1>2, WritersAre
<1>4. QED
  BY <1>2, <1>3 DEF r

\* Two lists that are made in the same steps.
LEMMA StepsSame ==
    ASSUME NEW N \in Nat, NEW V, NEW f \in [0 .. N -> V], NEW g \in [0 .. N -> V], f[0] = g[0],
           \A k \in 1 .. N : f[k - 1] = g[k - 1] => f[k] = g[k]
    PROVE  f = g
<1> DEFINE S == {k \in 0 .. N : f[k] = g[k]}
<1>1. 0 \in S
  OBVIOUS
<1>2. ASSUME NEW k \in 1 .. N, k - 1 \in S PROVE k \in S
  BY <1>2
<1> HIDE DEF S
<1>3. \A k \in 0 .. N : k \in S
  BY <1>1, <1>2, StepsKeep
<1>4. QED
  BY <1>3 DEF S

LEMMA SameLists ==
    ASSUME NEW s \in TextLists, NEW t \in TextLists, Len(s) = Len(t), \A i \in 1 .. Len(s) : s[i] = t[i]
    PROVE  s = t
<1> DEFINE A == Seq(Tokens)
<1>1. s \in Seq(A) /\ t \in Seq(A)
  BY DEF TextLists
<1> HIDE DEF A
<1>2. s = [i \in 1 .. Len(s) |-> s[i]] /\ t = [i \in 1 .. Len(t) |-> t[i]]
  BY <1>1, ElementsAre
<1>3. QED
  BY <1>2

\* What a writer has after it wrote a text, and when it can: while childValues_
\* is filled it has no nested value to write that is not empty.
Allowed(w, u) == w.adding => ~Nested(u) \/ IsEmpty(u)
Wrote(w, t, r) ==
    /\ r.adding = w.adding /\ r.comments = w.comments /\ r.cNames = w.cNames
    /\ w.adding => r.document = w.document /\ r.children = Append(w.children, t)
    /\ ~w.adding => r.document = w.document \o t
StyledWell(styled, tx, u) ==
    \A w \in Writers : \A x \in Children(u) :
        styled[<<w, x>>] \in Writers /\ (Allowed(w, x) => Wrote(w, tx[w.cNames][x], styled[<<w, x>>]))
TextsWell(tx, u) == \A c \in BOOLEAN : TextsIn(tx[c], u)
StyledTypes(styled, u) == \A w \in Writers : \A x \in Children(u) : styled[<<w, x>>] \in Writers

\* What IsMultilineArray makes of childValues_, once it is filled.
ShapeDecides(u) == \/ Len(u.elements) * 3 >= RightMargin
                   \/ \E i \in 1 .. Len(u.elements) : Nested(u.elements[i]) /\ ~IsEmpty(u.elements[i])
Fills(styled, w, u, j) ==
    j[0] = Filler(w) /\ \A k \in 1 .. Len(u.elements) : j[k] = styled[<<j[k - 1], u.elements[k]>>]
IsWide(u, final) ==
    4 + (Len(u.elements) - 1) * 2 + FoldLeft(LAMBDA a, c : a + LengthOf(c), 0, final.children) >= RightMargin
ArrayLayout(w, u, final) ==
    IF ShapeDecides(u) THEN [multiLine |-> TRUE, writer |-> Cleared(w)]
    ELSE [multiLine |-> IsWide(u, final), writer |-> Filled(final)]

LEMMA FillingIs ==
    ASSUME NEW T, NEW u \in Arrays(T), NEW styled, StyledTypes(styled, u), NEW w \in Writers, ~w.comments
    PROVE  \E j \in [0 .. Len(u.elements) -> Writers] :
               Fills(styled, w, u, j) /\ IsMultilineArray(styled, w, u) = ArrayLayout(w, u, j[Len(u.elements)])
<1> DEFINE n == Len(u.elements)
<1> DEFINE V == Writers
<1> DEFINE b == [w EXCEPT !.children = <<>>, !.adding = TRUE]
<1> DEFINE Step(k, x) == styled[<<x, u.elements[k]>>]
<1> DEFINE P(j) == j = [k \in 0 .. n |-> IF k = 0 THEN b ELSE Step(k, j[k - 1])]
<1> DEFINE j == CHOOSE h : P(h)
<1>0. n \in Nat /\ b \in V
  <2>1. u.elements \in Seq(T)
    BY ArrayIs
  <2>2. b = Filler(w)
    BY Zenon DEF Filler
  <2> HIDE DEF b
  <2>3. QED
    BY <2>1, <2>2, ElementsAre, FillerIs
<1>1. \A k \in 1 .. n : \A x \in V : Step(k, x) \in V
  <2>1. \A k \in 1 .. n : u.elements[k] \in Children(u)
    <3>1. Children(u) = {u.elements[i] : i \in DOMAIN u.elements} /\ u.elements \in Seq(T)
      BY ArrayIs
    <3>2. DOMAIN u.elements = 1 .. n
      BY <3>1, ElementsAre
    <3>3. QED
      BY <3>1, <3>2
  <2>2. QED
    BY <2>1, Zenon DEF StyledTypes
<1>2. IsMultilineArray(styled, w, u) = ArrayLayout(w, u, j[n])
  BY Zenon DEF IsMultilineArray, ArrayLayout, IsWide, ShapeDecides, Cleared, Filled
<1>3. Fills(styled, w, u, j) <=> j[0] = b /\ \A k \in 1 .. n : j[k] = Step(k, j[k - 1])
  BY Zenon DEF Fills, Filler
<1> HIDE DEF n, V, b, Step
<1> DEFINE g == [y \in (1 .. n) \X V |-> Step(y[1], y[2])]
<1>4. \A k \in 1 .. n : \A x \in V : g[<<k, x>>] = Step(k, x)
  OBVIOUS
<1> HIDE DEF g
<1>5. PICK f \in [0 .. n -> V] : f[0] = b /\ \A k \in 1 .. n : f[k] = g[<<k, f[k - 1]>>]
  <2>1. StepsIn(n, V, g)
    BY <1>1, <1>4 DEF StepsIn
  <2>2. PICK f \in [0 .. n -> V] : StepsOn(n, b, g, f)
    BY <1>0, <2>1, Stepwise, Zenon
  <2>3. QED
    BY <2>2, Zenon DEF StepsOn
<1>6. P(f)
  <2>1. ASSUME NEW k \in 0 .. n PROVE f[k] = IF k = 0 THEN b ELSE Step(k, f[k - 1])
    <3>1. CASE k = 0
      BY <1>5, <3>1
    <3>2. CASE k # 0
      <4>1. k \in 1 .. n /\ k - 1 \in 0 .. n
        BY <1>0, <3>2
      <4>2. f[k - 1] \in V /\ f[k] = g[<<k, f[k - 1]>>]
        BY <1>5, <4>1
      <4>3. QED
        BY <1>4, <3>2, <4>1, <4>2
    <3>3. QED
      BY <3>1, <3>2
  <2>2. QED
    BY <1>5, <2>1
<1>7. P(j)
  <2> HIDE DEF P
  <2>1. QED
    BY <1>6, Zenon
<1> HIDE DEF j
<1>8. j[0] = b /\ \A k \in 1 .. n : j[k] = Step(k, j[k - 1])
  <2>1. \A k \in 0 .. n : j[k] = IF k = 0 THEN b ELSE Step(k, j[k - 1])
    BY <1>7
  <2>2. 0 \in 0 .. n /\ \A k \in 1 .. n : k \in 0 .. n /\ k # 0
    BY <1>0
  <2>3. QED
    BY <2>1, <2>2, Zenon
<1>9. \A k \in 0 .. n : j[k] \in V
  <2> DEFINE S == {k \in 0 .. n : j[k] \in V}
  <2>1. 0 \in S
    BY <1>0, <1>8
  <2>2. ASSUME NEW k \in 1 .. n, k - 1 \in S PROVE k \in S
    BY <1>0, <1>1, <1>8, <2>2
  <2> HIDE DEF S
  <2>3. \A k \in 0 .. n : k \in S
    BY <1>0, <2>1, <2>2, StepsKeep
  <2>4. QED
    BY <2>3 DEF S
<1>10. j \in [0 .. n -> V]
  <2>1. j = [k \in 0 .. n |-> j[k]]
    BY <1>7
  <2>2. QED
    BY <1>9, <2>1
<1>11. QED
  BY <1>2, <1>3, <1>8, <1>10, Zenon DEF n, V

\* While childValues_ is filled each element adds its text to it.
LEMMA FilledTexts ==
    ASSUME NEW T, NEW u \in Arrays(T), NEW tx, TextsWell(tx, u), NEW styled, StyledWell(styled, tx, u),
           NEW w \in Writers, ~w.comments, ~ShapeDecides(u),
           NEW j \in [0 .. Len(u.elements) -> Writers], Fills(styled, w, u, j)
    PROVE  LET final == j[Len(u.elements)]
           IN  /\ final.comments = w.comments /\ final.cNames = w.cNames /\ final.document = w.document
               /\ final.children = ElementTexts(tx[w.cNames], u)
<1> DEFINE n == Len(u.elements)
<1> DEFINE c == w.cNames
<1> DEFINE text == tx[c]
<1> DEFINE ts == ElementTexts(text, u)
<1> DEFINE Full(r, k) == /\ r.adding = TRUE /\ r.comments = w.comments /\ r.cNames = c /\ r.document = w.document
                         /\ Len(r.children) = k /\ \A i \in 1 .. k : r.children[i] = ts[i]
<1> DEFINE S == {k \in 0 .. n : Full(j[k], k)}
<1>1. /\ ts \in TextLists /\ Len(ts) = n /\ n \in Nat
      /\ \A i \in 1 .. n : ts[i] = text[u.elements[i]] /\ u.elements[i] \in Children(u)
  <2>1. c \in BOOLEAN
    BY WriterHas
  <2>2. TextsIn(text, u)
    BY <2>1 DEF TextsWell
  <2> HIDE DEF text
  <2>3. QED
    BY <2>2, ElementTextsAre
<1>2. \A i \in 1 .. n : ts[i] \in Seq(Tokens)
  BY <1>1, TextListsAre
<1>3. 0 \in S
  <2>1. j[0] = Filler(w)
    BY Zenon DEF Fills
  <2>2. Len(<<>>) = 0
    OBVIOUS
  <2> DEFINE r == Filler(w)
  <2>3. /\ r.adding = TRUE /\ r.comments = w.comments /\ r.cNames = w.cNames /\ r.document = w.document
        /\ r.children = <<>>
    BY FillerIs
  <2>5. Full(r, 0)
    <3> HIDE DEF ts, r
    <3>1. \A i \in 1 .. 0 : r.children[i] = ts[i]
      OBVIOUS
    <3>2. QED
      BY <2>2, <2>3, <3>1
  <2>4. QED
    BY <1>1, <2>1, <2>5
<1>4. ASSUME NEW k \in 1 .. n, k - 1 \in S PROVE k \in S
  <2> DEFINE x == j[k - 1]
  <2> DEFINE e == u.elements[k]
  <2> DEFINE r == styled[<<x, e>>]
  <2>1. k - 1 \in 0 .. n /\ x \in Writers /\ Full(x, k - 1) /\ e \in Children(u)
    BY <1>1, <1>4
  <2>2. j[k] = r
    BY Zenon DEF Fills
  <2>3. Allowed(x, e)
    BY DEF Allowed, ShapeDecides
  <2> HIDE DEF x, e
  <2>4. r \in Writers /\ Wrote(x, tx[x.cNames][e], r)
    BY <2>1, <2>3, Zenon DEF StyledWell
  <2>5. tx[x.cNames][e] = ts[k]
    BY <1>1, <2>1 DEF e
  <2>6. x.children \in TextLists /\ ts[k] \in Seq(Tokens) /\ Len(x.children) = k - 1
    BY <1>2, <2>1, WriterHas
  <2>7. /\ r.adding = x.adding /\ r.comments = x.comments /\ r.cNames = x.cNames /\ r.document = x.document
        /\ r.children = Append(x.children, ts[k])
    BY <2>1, <2>4, <2>5 DEF Wrote
  <2> HIDE DEF ts, text, c
  <2>8. /\ Len(r.children) = k /\ r.children[k] = ts[k] /\ \A i \in 1 .. k - 1 : r.children[i] = x.children[i]
    <3>1. (k - 1) + 1 = k
      BY <1>1
    <3>2. QED
      BY <2>6, <2>7, <3>1, AppendedIs
  <2>9. \A i \in 1 .. k : r.children[i] = ts[i]
    BY <1>1, <2>1, <2>8
  <2>10. Full(r, k)
    BY <2>1, <2>7, <2>8, <2>9
  <2>11. k \in 0 .. n
    BY <1>1
  <2> HIDE DEF Full, r
  <2>12. j[k] \in Writers /\ Full(j[k], k)
    BY <2>2, <2>4, <2>10, Zenon
  <2>13. QED
    BY <2>11, <2>12
<1> HIDE DEF S
<1>5. \A k \in 0 .. n : k \in S
  BY <1>1, <1>3, <1>4, StepsKeep
<1>6. Full(j[n], n) /\ j[n] \in Writers
  <2>1. n \in 0 .. n
    BY <1>1
  <2>2. QED
    BY <1>5, <2>1 DEF S
<1>7. j[n].children = ts
  <2> HIDE DEF ts, n
  <2>1. j[n].children \in TextLists
    BY <1>6, WriterHas
  <2>2. QED
    BY <1>1, <1>6, <2>1, SameLists
<1>8. QED
  BY <1>6, <1>7

\* What Layout gives: the elements are in childValues_ when it decides for one line.
LaidOutWell(tx, w, u, m) ==
    /\ m.writer \in Writers /\ m.writer.document = w.document
    /\ m.writer.comments = w.comments /\ m.writer.cNames = w.cNames
    /\ ~w.adding => ~m.writer.adding
    /\ m.writer.children = <<>> \/ m.writer.children = ElementTexts(tx[w.cNames], u)
    /\ ~m.multiLine => m.writer.children = ElementTexts(tx[w.cNames], u)

LEMMA LayoutIs ==
    ASSUME NEW T, NEW u \in Arrays(T), NEW tx, TextsWell(tx, u), NEW styled, StyledWell(styled, tx, u),
           NEW w \in Writers
    PROVE  LaidOutWell(tx, w, u, Layout(styled, w, u))
<1>1. CASE w.comments
  <2> DEFINE m == Layout(styled, w, u)
  <2>1. m = [multiLine |-> TRUE, writer |-> w]
    BY <1>1, Zenon DEF Layout
  <2>2. m.multiLine = TRUE /\ m.writer = w
    BY <2>1
  <2> HIDE DEF m
  <2>3. w.children = <<>>
    BY <1>1, WriterHas
  <2>4. QED
    BY <2>2, <2>3 DEF LaidOutWell, m
<1>2. CASE ~w.comments
  <2> DEFINE n == Len(u.elements)
  <2> DEFINE m == Layout(styled, w, u)
  <2>1. StyledTypes(styled, u)
    BY Zenon DEF StyledWell, StyledTypes
  <2>2. PICK j \in [0 .. n -> Writers] : Fills(styled, w, u, j) /\ IsMultilineArray(styled, w, u) = ArrayLayout(w, u, j[n])
    BY <1>2, <2>1, FillingIs
  <2>3. m = ArrayLayout(w, u, j[n])
    BY <1>2, <2>2, Zenon DEF Layout
  <2> HIDE DEF m
  <2>4. CASE ShapeDecides(u)
    <3>1. m = [multiLine |-> TRUE, writer |-> Cleared(w)]
      BY <2>3, <2>4, Zenon DEF ArrayLayout
    <3>2. m.multiLine = TRUE /\ m.writer = Cleared(w)
      BY <3>1
    <3>3. QED
      BY <3>2, ClearedIs DEF LaidOutWell, m
  <2>5. CASE ~ShapeDecides(u)
    <3> DEFINE final == j[n]
    <3>1. m = [multiLine |-> IsWide(u, final), writer |-> Filled(final)]
      BY <2>3, <2>5, Zenon DEF ArrayLayout
    <3>2. m.writer = Filled(final)
      BY <3>1
    <3>3. /\ final.comments = w.comments /\ final.cNames = w.cNames /\ final.document = w.document
          /\ final.children = ElementTexts(tx[w.cNames], u)
      BY <1>2, <2>2, <2>5, FilledTexts
    <3>4. final \in Writers
      <4>1. n \in Nat
        <5>1. u.elements \in Seq(T)
          BY ArrayIs
        <5>2. QED
          BY <5>1, ElementsAre
      <4>2. QED
        BY <2>2, <4>1
    <3> HIDE DEF final
    <3>5. /\ Filled(final) \in Writers /\ Filled(final).document = final.document /\ Filled(final).children = final.children
          /\ Filled(final).adding = FALSE /\ Filled(final).comments = final.comments /\ Filled(final).cNames = final.cNames
      BY <3>4, FilledIs
    <3>6. QED
      BY <3>2, <3>3, <3>5 DEF LaidOutWell, m
  <2>6. QED
    BY <2>4, <2>5
<1>3. QED
  BY <1>1, <1>2

\* A document to which texts are added one by one.
LEMMA ConcatAgain ==
    ASSUME NEW A, NEW a \in Seq(A), NEW b \in Seq(A), NEW c \in Seq(A)
    PROVE  (a \o b) \o c = a \o (b \o c)
OBVIOUS

Regroups(a, b, c) == (a \o b) \o c = a \o (b \o c)

LEMMA TextsRegroup ==
    \A a, b, c \in Seq(Tokens) : Regroups(a, b, c)
<1> TAKE a, b, c \in Seq(Tokens)
<1>1. QED
  BY ConcatAgain DEF Regroups

LEMMA DocumentGrows ==
    ASSUME NEW ts \in TextLists, NEW base \in Seq(Tokens), NEW d \in [0 .. Len(ts) -> Seq(Tokens)], d[0] = base,
           \A k \in 1 .. Len(ts) : d[k] = (d[k - 1] \o Comma(k)) \o ts[k]
    PROVE  d[Len(ts)] = base \o WithCommas(ts) /\ WithCommas(ts) \in Seq(Tokens)
<1> DEFINE n == Len(ts)
<1> DEFINE V == Seq(Tokens)
<1>0. n \in Nat /\ n \in 0 .. n /\ \A i \in 1 .. n : ts[i] \in V
  BY TextListsAre
<1>a. \A a, b, c \in V : Regroups(a, b, c)
  BY TextsRegroup
<1>1. PICK j \in [0 .. n -> V] : Joins(ts, j) /\ WithCommas(ts) = j[n]
  BY WithCommasIs
<1>c. \A k : Comma(k) \in V
  BY CommaIs
<1>2. j[0] = <<>> /\ \A k \in 1 .. n : j[k] = (j[k - 1] \o Comma(k)) \o ts[k]
  BY <1>1, Zenon DEF Joins, JoinStep
<1> DEFINE S == {k \in 0 .. n : d[k] = base \o j[k]}
<1>3. 0 \in S
  <2>1. base \o <<>> = base
    BY EmptyConcat
  <2>2. QED
    BY <1>0, <1>2, <2>1
<1>4. ASSUME NEW k \in 1 .. n, k - 1 \in S PROVE k \in S
  <2> DEFINE x == j[k - 1]
  <2> DEFINE c == Comma(k)
  <2> DEFINE t == ts[k]
  <2>1. k - 1 \in 0 .. n /\ k \in 0 .. n /\ d[k - 1] = base \o x
    BY <1>0, <1>4
  <2>2. x \in V /\ c \in V /\ t \in V
    BY <1>0, <1>1, <1>c, <2>1
  <2>3. d[k] = ((base \o x) \o c) \o t /\ j[k] = (x \o c) \o t
    BY <1>2, <2>1
  <2> HIDE DEF x, c, t, V
  <2>4. ((base \o x) \o c) \o t = base \o ((x \o c) \o t)
    <3> DEFINE y == base \o x
    <3> DEFINE z == c \o t
    <3>1. y \in V /\ z \in V /\ base \in V
      BY <2>2, ConcatIs DEF V
    <3> HIDE DEF y, z
    <3>2. Regroups(y, c, t) /\ Regroups(base, x, z) /\ Regroups(x, c, t)
      BY <1>a, <2>2, <3>1, Zenon
    <3>3. (y \o c) \o t = y \o z
      BY <3>2, Zenon DEF Regroups, z
    <3>4. y \o z = base \o (x \o z)
      BY <3>2, Zenon DEF Regroups, y
    <3>5. (x \o c) \o t = x \o z
      BY <3>2, Zenon DEF Regroups, z
    <3>6. QED
      BY <3>3, <3>4, <3>5, Zenon DEF y
  <2>5. QED
    BY <2>1, <2>3, <2>4
<1> HIDE DEF S
<1>5. \A k \in 0 .. n : k \in S
  BY <1>0, <1>3, <1>4, StepsKeep
<1>6. d[n] = base \o j[n]
  BY <1>0, <1>5 DEF S
<1>7. j[n] \in V
  BY <1>0, <1>1
<1>8. QED
  BY <1>1, <1>6, <1>7

\* The elements of an array, written one by one from childValues_ or at their place.
ElementStep(styled, u, m, k, x) ==
    IF m.writer.children # <<>> THEN Emit(Emit(x, Comma(k)), x.children[k])
    ELSE styled[<<Emit(x, Comma(k)), u.elements[k]>>]
WritesElements(styled, u, m, j) ==
    /\ j[0] = Emit(m.writer, <<"[">>)
    /\ \A k \in 1 .. Len(u.elements) : j[k] = ElementStep(styled, u, m, k, j[k - 1])
ArrayWritten(w, u, m, final) ==
    IF u.elements = <<>> THEN PushValue(w, <<"[", "]">>)
    ELSE IF m.multiLine THEN Emit(final, <<"]">>)
    ELSE Emit(m.writer, <<"[">> \o WithCommas(m.writer.children) \o <<"]">>)
\* The writers that still have what childValues_ was filled with.
Keeping(m) == {x \in Writers : m.writer.children # <<>> => x.children = m.writer.children}

LEMMA SmallTexts ==
    /\ <<"[">> \in Seq(Tokens) /\ <<"]">> \in Seq(Tokens) /\ <<"[", "]">> = (<<"[">> \o <<>>) \o <<"]">>
    /\ <<"[", "]">> \in Seq(Tokens)
<1>1. "[" \in Tokens /\ "]" \in Tokens
  BY Zenon DEF Tokens, Marks
<1>2. QED
  BY <1>1

LEMMA ElementStepIs ==
    ASSUME NEW T, NEW u \in Arrays(T), NEW styled, StyledTypes(styled, u), NEW m, m.writer \in Writers,
           m.writer.children = <<>> \/ Len(m.writer.children) = Len(u.elements),
           NEW k \in 1 .. Len(u.elements), NEW x \in Keeping(m)
    PROVE  ElementStep(styled, u, m, k, x) \in Keeping(m)
<1> DEFINE y == Emit(x, Comma(k))
<1>1. x \in Writers /\ Comma(k) \in Seq(Tokens) /\ (m.writer.children # <<>> => x.children = m.writer.children)
  BY CommaIs DEF Keeping
<1>2. y \in Writers /\ y.children = x.children
  BY <1>1, EmitIs
<1> HIDE DEF y
<1>3. CASE m.writer.children # <<>>
  <2> DEFINE t == x.children[k]
  <2>1. x.children \in TextLists /\ Len(x.children) = Len(u.elements)
    BY <1>1, <1>3, WriterHas
  <2>2. t \in Seq(Tokens)
    BY <2>1, TextListsAre
  <2>3. ElementStep(styled, u, m, k, x) = Emit(y, t)
    BY <1>3, Zenon DEF ElementStep, y
  <2> HIDE DEF t
  <2>4. Emit(y, t) \in Writers /\ Emit(y, t).children = y.children
    BY <1>2, <2>2, EmitIs
  <2>5. QED
    BY <1>1, <1>2, <2>3, <2>4 DEF Keeping
<1>4. CASE m.writer.children = <<>>
  <2>1. u.elements[k] \in Children(u)
    <3>1. Children(u) = {u.elements[i] : i \in DOMAIN u.elements} /\ u.elements \in Seq(T)
      BY ArrayIs
    <3>2. DOMAIN u.elements = 1 .. Len(u.elements)
      BY <3>1, ElementsAre
    <3>3. QED
      BY <3>1, <3>2
  <2>2. ElementStep(styled, u, m, k, x) = styled[<<y, u.elements[k]>>]
    BY <1>4, Zenon DEF ElementStep, y
  <2>3. styled[<<y, u.elements[k]>>] \in Writers
    BY <1>2, <2>1, Zenon DEF StyledTypes
  <2>4. QED
    BY <1>4, <2>2, <2>3 DEF Keeping
<1>5. QED
  BY <1>3, <1>4

LEMMA ElementsWritten ==
    ASSUME NEW T, NEW u \in Arrays(T), NEW styled, StyledTypes(styled, u), NEW w,
           LET m == Layout(styled, w, u)
           IN  m.writer \in Writers /\ (m.writer.children = <<>> \/ Len(m.writer.children) = Len(u.elements))
    PROVE  LET m == Layout(styled, w, u)
           IN  \E j \in [0 .. Len(u.elements) -> Keeping(m)] :
                  /\ WritesElements(styled, u, m, j)
                  /\ WriteArrayValue(styled, w, u) = ArrayWritten(w, u, m, j[Len(u.elements)])
<1> DEFINE m == Layout(styled, w, u)
<1> DEFINE n == Len(u.elements)
<1> DEFINE V == Keeping(m)
<1> DEFINE b == Emit(m.writer, <<"[">>)
<1> DEFINE Step(k, x) == ElementStep(styled, u, m, k, x)
<1> DEFINE P(j) == j = [k \in 0 .. n |-> IF k = 0 THEN b ELSE Step(k, j[k - 1])]
<1> DEFINE j == CHOOSE h : P(h)
<1>0. n \in Nat /\ b \in V
  <2>1. u.elements \in Seq(T)
    BY ArrayIs
  <2>2. b \in Writers /\ b.children = m.writer.children
    BY SmallTexts, EmitIs
  <2> HIDE DEF b
  <2>3. QED
    BY <2>1, <2>2, ElementsAre DEF Keeping
<1>1. \A k \in 1 .. n : \A x \in V : Step(k, x) \in V
  BY ElementStepIs
<1>2. WriteArrayValue(styled, w, u) = ArrayWritten(w, u, m, j[n])
  BY Zenon DEF WriteArrayValue, ArrayWritten, ElementStep
<1>3. WritesElements(styled, u, m, j) <=> j[0] = b /\ \A k \in 1 .. n : j[k] = Step(k, j[k - 1])
  BY Zenon DEF WritesElements
<1> HIDE DEF m, n, V, b, Step
<1> DEFINE g == [y \in (1 .. n) \X V |-> Step(y[1], y[2])]
<1>4. \A k \in 1 .. n : \A x \in V : g[<<k, x>>] = Step(k, x)
  OBVIOUS
<1> HIDE DEF g
<1>5. PICK f \in [0 .. n -> V] : f[0] = b /\ \A k \in 1 .. n : f[k] = g[<<k, f[k - 1]>>]
  <2>1. StepsIn(n, V, g)
    BY <1>1, <1>4 DEF StepsIn
  <2>2. PICK f \in [0 .. n -> V] : StepsOn(n, b, g, f)
    BY <1>0, <2>1, Stepwise, Zenon
  <2>3. QED
    BY <2>2, Zenon DEF StepsOn
<1>6. P(f)
  <2>1. ASSUME NEW k \in 0 .. n PROVE f[k] = IF k = 0 THEN b ELSE Step(k, f[k - 1])
    <3>1. CASE k = 0
      BY <1>5, <3>1
    <3>2. CASE k # 0
      <4>1. k \in 1 .. n /\ k - 1 \in 0 .. n
        BY <1>0, <3>2
      <4>2. f[k - 1] \in V /\ f[k] = g[<<k, f[k - 1]>>]
        BY <1>5, <4>1
      <4>3. QED
        BY <1>4, <3>2, <4>1, <4>2
    <3>3. QED
      BY <3>1, <3>2
  <2>2. QED
    BY <1>5, <2>1
<1>7. P(j)
  <2> HIDE DEF P
  <2>1. QED
    BY <1>6, Zenon
<1> HIDE DEF j
<1>8. j[0] = b /\ \A k \in 1 .. n : j[k] = Step(k, j[k - 1])
  <2>1. \A k \in 0 .. n : j[k] = IF k = 0 THEN b ELSE Step(k, j[k - 1])
    BY <1>7
  <2>2. 0 \in 0 .. n /\ \A k \in 1 .. n : k \in 0 .. n /\ k # 0
    BY <1>0
  <2>3. QED
    BY <2>1, <2>2, Zenon
<1>9. \A k \in 0 .. n : j[k] \in V
  <2> DEFINE S == {k \in 0 .. n : j[k] \in V}
  <2>1. 0 \in S
    BY <1>0, <1>8
  <2>2. ASSUME NEW k \in 1 .. n, k - 1 \in S PROVE k \in S
    BY <1>0, <1>1, <1>8, <2>2
  <2> HIDE DEF S
  <2>3. \A k \in 0 .. n : k \in S
    BY <1>0, <2>1, <2>2, StepsKeep
  <2>4. QED
    BY <2>3 DEF S
<1>10. j \in [0 .. n -> V]
  <2>1. j = [k \in 0 .. n |-> j[k]]
    BY <1>7
  <2>2. QED
    BY <1>9, <2>1
<1>11. QED
  BY <1>2, <1>3, <1>8, <1>10, Zenon DEF m, n, V

WritesWell(tx, w, u, r) == r \in Writers /\ (Allowed(w, u) => Wrote(w, TextAs(w.cNames, tx[w.cNames], u), r))

\* A writer that is not filling childValues_ and has written no more than to its document.
Onwards(w, x) == x \in Writers /\ ~x.adding /\ x.comments = w.comments /\ x.cNames = w.cNames

LEMMA EmitOnwards ==
    ASSUME NEW w, NEW x, Onwards(w, x), NEW t \in Seq(Tokens)
    PROVE  Onwards(w, Emit(x, t)) /\ Emit(x, t).document = x.document \o t /\ Emit(x, t).children = x.children
<1>1. x \in Writers
  BY DEF Onwards
<1>2. QED
  BY <1>1, EmitIs DEF Onwards

Adds(w, x, r, t) == Onwards(w, r) /\ r.document = x.document \o t
StyledNext(w, x, u, e, tx, styled) == Onwards(w, x) /\ e \in Children(u) /\ StyledWell(styled, tx, u)

LEMMA StyledOnwards ==
    ASSUME NEW w, NEW x, NEW u, NEW e, NEW tx, NEW styled, StyledNext(w, x, u, e, tx, styled)
    PROVE  Adds(w, x, styled[<<x, e>>], tx[w.cNames][e])
<1> Onwards(w, x) /\ e \in Children(u) /\ StyledWell(styled, tx, u)
  BY DEF StyledNext
<1> DEFINE r == styled[<<x, e>>]
<1>1. x \in Writers /\ Allowed(x, e) /\ x.cNames = w.cNames
  BY DEF Onwards, Allowed
<1>2. r \in Writers /\ Wrote(x, tx[x.cNames][e], r)
  BY <1>1, Zenon DEF StyledWell
<1> HIDE DEF r
<1>3. /\ ~r.adding /\ r.comments = x.comments /\ r.cNames = x.cNames
      /\ r.document = x.document \o tx[w.cNames][e]
  BY <1>1, <1>2 DEF Wrote, Onwards
<1>4. QED
  BY <1>2, <1>3 DEF Onwards, Adds, r

ElementNext(T, u, tx, styled, w, m, k, x) ==
    /\ u \in Arrays(T) /\ TextsWell(tx, u) /\ StyledWell(styled, tx, u) /\ w \in Writers /\ LaidOutWell(tx, w, u, m)
    /\ k \in 1 .. Len(u.elements) /\ x \in Keeping(m) /\ Onwards(w, x)

AddsElement(w, x, r, k, ts) == Onwards(w, r) /\ r.document = (x.document \o Comma(k)) \o ts[k]

\* Each element adds its text and the comma before it.
LEMMA ElementOnwards ==
    ASSUME NEW T, NEW u, NEW tx, NEW styled, NEW w, NEW m, NEW k, NEW x, ElementNext(T, u, tx, styled, w, m, k, x)
    PROVE  AddsElement(w, x, ElementStep(styled, u, m, k, x), k, ElementTexts(tx[w.cNames], u))
<1> /\ u \in Arrays(T) /\ TextsWell(tx, u) /\ StyledWell(styled, tx, u) /\ w \in Writers /\ LaidOutWell(tx, w, u, m)
    /\ k \in 1 .. Len(u.elements) /\ x \in Keeping(m) /\ Onwards(w, x)
  BY DEF ElementNext
<1> DEFINE n == Len(u.elements)
<1> DEFINE text == tx[w.cNames]
<1> DEFINE ts == ElementTexts(text, u)
<1> DEFINE z == Emit(x, Comma(k))
<1>1. TextsIn(text, u)
  BY WriterHas DEF TextsWell
<1>2. /\ ts \in TextLists /\ Len(ts) = n /\ n \in Nat
      /\ \A i \in 1 .. n : ts[i] = text[u.elements[i]] /\ u.elements[i] \in Children(u)
  <2> HIDE DEF text
  <2>1. QED
    BY <1>1, ElementTextsAre
<1>3. Onwards(w, z) /\ z.document = x.document \o Comma(k)
  BY CommaIs, EmitOnwards
<1>4. ts[k] \in Seq(Tokens)
  BY <1>2, TextListsAre
<1>5. CASE m.writer.children # <<>>
  <2>1. m.writer.children = ts /\ x.children = ts
    BY <1>5 DEF LaidOutWell, Keeping
  <2>2. ElementStep(styled, u, m, k, x) = Emit(z, ts[k])
    BY <1>5, <2>1, Zenon DEF ElementStep
  <2> HIDE DEF z, ts
  <2>3. Onwards(w, Emit(z, ts[k])) /\ Emit(z, ts[k]).document = z.document \o ts[k]
    BY <1>3, <1>4, EmitOnwards
  <2>4. QED
    BY <1>3, <2>2, <2>3 DEF ts, AddsElement
<1>6. CASE m.writer.children = <<>>
  <2> DEFINE e == u.elements[k]
  <2>1. ElementStep(styled, u, m, k, x) = styled[<<z, e>>]
    BY <1>6, Zenon DEF ElementStep
  <2>2. e \in Children(u) /\ ts[k] = tx[w.cNames][e]
    BY <1>2
  <2> HIDE DEF z, ts, e
  <2>3. Onwards(w, styled[<<z, e>>]) /\ styled[<<z, e>>].document = z.document \o tx[w.cNames][e]
    <3>1. StyledNext(w, z, u, e, tx, styled)
      BY <1>3, <2>2, Zenon DEF StyledNext
    <3>2. Adds(w, z, styled[<<z, e>>], tx[w.cNames][e])
      BY <3>1, StyledOnwards
    <3>3. QED
      BY <3>2, Zenon DEF Adds
  <2>4. QED
    BY <1>3, <2>1, <2>2, <2>3 DEF ts, AddsElement
<1>7. QED
  BY <1>5, <1>6

\* All texts, one after the other.
AddsAll(w, ts, j) ==
    /\ ts \in TextLists /\ Onwards(w, j[0])
    /\ \A k \in 1 .. Len(ts) : Onwards(w, j[k - 1]) => AddsElement(w, j[k - 1], j[k], k, ts)

LEMMA AllOnwards ==
    ASSUME NEW w, NEW ts, NEW j, AddsAll(w, ts, j)
    PROVE  Adds(w, j[0], j[Len(ts)], WithCommas(ts)) /\ Onwards(w, j[Len(ts)])
<1> DEFINE n == Len(ts)
<1> DEFINE base == j[0].document
<1> DEFINE d == [k \in 0 .. n |-> j[k].document]
<1>1. ts \in TextLists /\ n \in Nat /\ n \in 0 .. n
  BY TextListsAre DEF AddsAll
<1>2. \A k \in 1 .. n : Onwards(w, j[k - 1]) => AddsElement(w, j[k - 1], j[k], k, ts)
  BY DEF AddsAll
<1>3. \A k \in 0 .. n : Onwards(w, j[k])
  <2> DEFINE S == {k \in 0 .. n : Onwards(w, j[k])}
  <2>1. 0 \in S
    BY <1>1 DEF AddsAll
  <2>2. ASSUME NEW k \in 1 .. n, k - 1 \in S PROVE k \in S
    <3>1. Onwards(w, j[k - 1]) /\ k \in 0 .. n
      BY <1>1, <2>2
    <3>2. Onwards(w, j[k])
      BY <1>2, <3>1 DEF AddsElement
    <3>3. QED
      BY <3>1, <3>2
  <2> HIDE DEF S
  <2>3. \A k \in 0 .. n : k \in S
    BY <1>1, <2>1, <2>2, StepsKeep
  <2>4. QED
    BY <2>3 DEF S
<1>4. d \in [0 .. n -> Seq(Tokens)] /\ \A k \in 0 .. n : d[k] = j[k].document
  <2>1. \A k \in 0 .. n : j[k].document \in Seq(Tokens)
    BY <1>3, WriterHas DEF Onwards
  <2>2. QED
    BY <2>1
<1>5. \A k \in 1 .. n : d[k] = (d[k - 1] \o Comma(k)) \o ts[k]
  <2> SUFFICES ASSUME NEW k \in 1 .. n PROVE d[k] = (d[k - 1] \o Comma(k)) \o ts[k]
    OBVIOUS
  <2>1. k \in 0 .. n /\ k - 1 \in 0 .. n
    BY <1>1
  <2>2. AddsElement(w, j[k - 1], j[k], k, ts)
    BY <1>2, <1>3, <2>1
  <2>3. QED
    BY <1>4, <2>1, <2>2 DEF AddsElement
<1>6. d[0] = base /\ 0 \in 0 .. n
  BY <1>1, <1>4
<1>7. base \in Seq(Tokens)
  BY <1>4, <1>6
<1>8. d[n] = base \o WithCommas(ts)
  <2> HIDE DEF d, base, n
  <2>1. QED
    BY <1>1, <1>4, <1>5, <1>6, <1>7, DocumentGrows DEF n
<1>9. QED
  BY <1>1, <1>3, <1>4, <1>8 DEF Adds

\* All elements of an array.
LEMMA ElementsOnwards ==
    ASSUME NEW T, NEW u \in Arrays(T), NEW tx, TextsWell(tx, u), NEW styled, StyledWell(styled, tx, u),
           NEW w \in Writers, ~w.adding, NEW m, LaidOutWell(tx, w, u, m),
           NEW j \in [0 .. Len(u.elements) -> Keeping(m)], WritesElements(styled, u, m, j)
    PROVE  LET final == j[Len(u.elements)]
           IN  /\ Onwards(w, final)
               /\ final.document = (w.document \o <<"[">>) \o WithCommas(ElementTexts(tx[w.cNames], u))
<1> DEFINE n == Len(u.elements)
<1> DEFINE text == tx[w.cNames]
<1> DEFINE ts == ElementTexts(text, u)
<1>1. TextsIn(text, u)
  BY WriterHas DEF TextsWell
<1>2. ts \in TextLists /\ Len(ts) = n /\ n \in Nat /\ n \in 0 .. n
  <2> HIDE DEF text
  <2>1. QED
    BY <1>1, ElementTextsAre
<1>3. Onwards(w, m.writer) /\ m.writer.document = w.document
  BY DEF LaidOutWell, Onwards
<1>4. Onwards(w, j[0]) /\ j[0].document = w.document \o <<"[">>
  <2>1. j[0] = Emit(m.writer, <<"[">>)
    BY DEF WritesElements
  <2>2. QED
    BY <1>3, <2>1, SmallTexts, EmitOnwards
<1>5. ASSUME NEW k \in 1 .. n, Onwards(w, j[k - 1]) PROVE AddsElement(w, j[k - 1], j[k], k, ts)
  <2>1. j[k] = ElementStep(styled, u, m, k, j[k - 1])
    BY Zenon DEF WritesElements
  <2>2. j[k - 1] \in Keeping(m)
    BY <1>2
  <2>3. ElementNext(T, u, tx, styled, w, m, k, j[k - 1])
    BY <1>5, <2>2, Zenon DEF ElementNext
  <2>4. AddsElement(w, j[k - 1], ElementStep(styled, u, m, k, j[k - 1]), k, ts)
    BY <2>3, ElementOnwards
  <2>5. QED
    BY <2>1, <2>4, Zenon
<1>6. AddsAll(w, ts, j)
  <2> HIDE DEF ts
  <2>1. QED
    BY <1>2, <1>4, <1>5, Zenon DEF AddsAll
<1>7. Adds(w, j[0], j[Len(ts)], WithCommas(ts)) /\ Onwards(w, j[Len(ts)])
  <2> HIDE DEF ts
  <2>1. QED
    BY <1>6, AllOnwards
<1>8. QED
  BY <1>2, <1>4, <1>7 DEF Adds

LEMMA PushWrote ==
    ASSUME NEW w \in Writers, NEW t \in Seq(Tokens)
    PROVE  PushValue(w, t) \in Writers /\ Wrote(w, t, PushValue(w, t))
BY PushIs DEF Wrote

\* Before, between and after.
Surrounded(d, a, s, b) == ((d \o a) \o s) \o b = d \o ((a \o s) \o b)

LEMMA Around ==
    ASSUME NEW d \in Seq(Tokens), NEW a \in Seq(Tokens), NEW s \in Seq(Tokens), NEW b \in Seq(Tokens)
    PROVE  Surrounded(d, a, s, b)
<1> DEFINE V == Seq(Tokens)
<1>a. \A x, y, z \in V : Regroups(x, y, z)
  BY TextsRegroup
<1>b. \A x, y \in V : x \o y \in V
  BY ConcatIs
<1> DEFINE as == a \o s
<1>1. d \in V /\ a \in V /\ s \in V /\ b \in V /\ as \in V
  BY <1>b
<1> HIDE DEF V
<1> HIDE DEF as
<1>2. Regroups(d, a, s) /\ Regroups(d, as, b)
  BY <1>a, <1>1, Zenon
<1>3. (d \o a) \o s = d \o as
  BY <1>2, Zenon DEF Regroups, as
<1>4. (d \o as) \o b = d \o (as \o b)
  BY <1>2, Zenon DEF Regroups
<1>5. QED
  BY <1>3, <1>4, Zenon DEF as, Surrounded

LEMMA ArrayWell ==
    ASSUME NEW T, NEW u \in Arrays(T), NEW tx, TextsWell(tx, u), NEW styled, StyledWell(styled, tx, u),
           NEW w \in Writers
    PROVE  WritesWell(tx, w, u, WriteArrayValue(styled, w, u))
<1> DEFINE n == Len(u.elements)
<1> DEFINE text == tx[w.cNames]
<1> DEFINE ts == ElementTexts(text, u)
<1> DEFINE s == WithCommas(ts)
<1> DEFINE m == Layout(styled, w, u)
<1> DEFINE r == WriteArrayValue(styled, w, u)
<1> DEFINE t == TextAs(w.cNames, text, u)
<1>1. TextsIn(text, u)
  BY WriterHas DEF TextsWell
<1>2. ts \in TextLists /\ Len(ts) = n /\ n \in Nat /\ n \in 0 .. n
  <2> HIDE DEF text
  <2>1. QED
    BY <1>1, ElementTextsAre
<1>3. s \in Seq(Tokens)
  <2> HIDE DEF ts
  <2>1. QED
    BY <1>2, JoinedIs
<1>4. u.type = "array" /\ u.elements \in Seq(T)
  BY ArrayIs
<1>5. t = (<<"[">> \o s) \o <<"]">>
  <2>1. "array" # "scalar"
    OBVIOUS
  <2>2. QED
    BY <1>4, <2>1, Zenon DEF TextAs
<1>6. t \in Seq(Tokens)
  <2> HIDE DEF s, t
  <2>1. QED
    BY <1>3, <1>5, SmallTexts, ConcatIs
<1>7. LaidOutWell(tx, w, u, m)
  BY LayoutIs
<1>8. m.writer \in Writers /\ (m.writer.children = <<>> \/ m.writer.children = ts)
  BY <1>7 DEF LaidOutWell
<1>9. PICK j \in [0 .. n -> Keeping(m)] : WritesElements(styled, u, m, j) /\ r = ArrayWritten(w, u, m, j[n])
  <2>1. StyledTypes(styled, u)
    BY Zenon DEF StyledWell, StyledTypes
  <2>2. m.writer \in Writers /\ (m.writer.children = <<>> \/ Len(m.writer.children) = n)
    BY <1>2, <1>8
  <2>3. QED
    BY <2>1, <2>2, ElementsWritten
<1>l. j[n] \in Keeping(m) /\ j[n] \in Writers
  BY <1>2, <1>9 DEF Keeping
<1>10. CASE u.elements = <<>>
  <2>1. Len(ts) = 0
    BY <1>2, <1>10
  <2>2. s = <<>>
    <3> HIDE DEF ts
    <3>1. QED
      BY <1>2, <2>1, NothingJoined
  <2>3. t = <<"[", "]">>
    <3> HIDE DEF s, t
    <3>1. QED
      BY <1>5, <2>2, SmallTexts
  <2>4. r = PushValue(w, t)
    BY <1>9, <1>10, <2>3, Zenon DEF ArrayWritten
  <2> HIDE DEF r, t
  <2>5. r \in Writers /\ Wrote(w, t, r)
    BY <1>6, <2>4, PushWrote
  <2>6. QED
    BY <2>5 DEF WritesWell, r, t
<1>11. CASE u.elements # <<>>
  <2>a. Allowed(w, u) => ~w.adding
    BY <1>4, <1>11 DEF Allowed, Nested, IsEmpty
  <2>1. CASE m.multiLine
    <3> DEFINE final == j[n]
    <3>1. r = Emit(final, <<"]">>)
      BY <1>9, <1>11, <2>1, Zenon DEF ArrayWritten
    <3>2. ~w.adding => Onwards(w, final) /\ final.document = (w.document \o <<"[">>) \o s
      <4> SUFFICES ASSUME ~w.adding PROVE Onwards(w, final) /\ final.document = (w.document \o <<"[">>) \o s
        OBVIOUS
      <4> HIDE DEF m
      <4>1. QED
        BY <1>7, <1>9, ElementsOnwards
    <3> HIDE DEF final, r, s, t
    <3>3. final \in Writers /\ <<"]">> \in Seq(Tokens)
      BY <1>l, SmallTexts DEF final
    <3>4. /\ r \in Writers /\ r.document = final.document \o <<"]">> /\ r.adding = final.adding
          /\ r.comments = final.comments /\ r.cNames = final.cNames
      BY <3>1, <3>3, EmitIs
    <3>5. ~w.adding => r.document = w.document \o t
      <4> SUFFICES ASSUME ~w.adding PROVE r.document = w.document \o t
        OBVIOUS
      <4>1. w.document \in Seq(Tokens) /\ <<"[">> \in Seq(Tokens)
        BY WriterHas, SmallTexts
      <4>2. ((w.document \o <<"[">>) \o s) \o <<"]">> = w.document \o ((<<"[">> \o s) \o <<"]">>)
        <5>1. Surrounded(w.document, <<"[">>, s, <<"]">>)
          BY <1>3, <3>3, <4>1, Around
        <5>2. QED
          BY <5>1, Zenon DEF Surrounded
      <4>3. QED
        BY <1>5, <3>2, <3>4, <4>2
    <3>6. ~w.adding => ~r.adding /\ r.comments = w.comments /\ r.cNames = w.cNames
      BY <3>2, <3>4 DEF Onwards
    <3>7. ~w.adding => Wrote(w, t, r)
      <4>1. {w.adding, r.adding} \subseteq BOOLEAN
        BY <3>4, WriterHas
      <4>2. QED
        BY <3>5, <3>6, <4>1 DEF Wrote
    <3>8. QED
      BY <2>a, <3>4, <3>7 DEF WritesWell, r, t
  <2>2. CASE ~m.multiLine
    <3> DEFINE x == m.writer
    <3>1. x.children = ts
      BY <1>7, <2>2 DEF LaidOutWell
    <3>2. r = Emit(x, t)
      <4>1. r = Emit(x, <<"[">> \o WithCommas(x.children) \o <<"]">>)
        BY <1>9, <1>11, <2>2, Zenon DEF ArrayWritten
      <4>2. QED
        BY <1>5, <3>1, <4>1
    <3>3. ~w.adding => Onwards(w, x) /\ x.document = w.document
      BY <1>7 DEF LaidOutWell, Onwards
    <3>4. x \in Writers
      BY <1>8
    <3> HIDE DEF x, r, t
    <3>5. /\ r \in Writers /\ r.document = x.document \o t /\ r.adding = x.adding
          /\ r.comments = x.comments /\ r.cNames = x.cNames
      BY <1>6, <3>2, <3>4, EmitIs
    <3>6. ~w.adding => /\ ~r.adding /\ r.comments = w.comments /\ r.cNames = w.cNames
                       /\ r.document = w.document \o t
      BY <3>3, <3>5 DEF Onwards
    <3>7. ~w.adding => Wrote(w, t, r)
      <4>1. {w.adding, r.adding} \subseteq BOOLEAN
        BY <3>5, WriterHas
      <4>2. QED
        BY <3>6, <4>1 DEF Wrote
    <3>8. QED
      BY <2>a, <3>5, <3>7 DEF WritesWell, r, t
  <2>3. QED
    BY <2>1, <2>2
<1>12. QED
  BY <1>10, <1>11

LEMMA ConcatHas ==
    ASSUME NEW A, NEW s \in Seq(A), NEW t \in Seq(A)
    PROVE  /\ s \o t \in Seq(A) /\ Len(s) \in Nat /\ Len(t) \in Nat /\ Len(s \o t) = Len(s) + Len(t)
           /\ \A i \in 1 .. Len(s) : (s \o t)[i] = s[i]
           /\ \A i \in 1 .. Len(t) : (s \o t)[Len(s) + i] = t[i]
OBVIOUS

LEMMA PairIs ==
    ASSUME NEW A, NEW x \in A, NEW y \in A
    PROVE  <<x, y>> = (<<x>> \o <<>>) \o <<y>>
<1>1. <<x>> \o <<>> = <<x>>
  BY OneToken, EmptyConcat
<1>2. <<x>> \o <<y>> = <<x, y>>
  <2> DEFINE a == <<x>>
  <2> DEFINE b == <<y>>
  <2>1. a \in Seq(A) /\ b \in Seq(A) /\ Len(a) = 1 /\ Len(b) = 1 /\ a[1] = x /\ b[1] = y
    BY OneToken
  <2>2. <<x, y>> \in Seq(A) /\ Len(<<x, y>>) = 2 /\ <<x, y>>[1] = x /\ <<x, y>>[2] = y
    BY TwoTokens
  <2> HIDE DEF a, b
  <2> DEFINE p == a \o b
  <2>3. p \in Seq(A) /\ Len(p) = 2 /\ p[1] = x /\ p[2] = y
    <3>1. /\ p \in Seq(A) /\ Len(p) = Len(a) + Len(b)
          /\ \A i \in 1 .. Len(a) : p[i] = a[i]
          /\ \A i \in 1 .. Len(b) : p[Len(a) + i] = b[i]
      BY <2>1, ConcatHas
    <3> HIDE DEF p
    <3>2. Len(a) + 1 = 2 /\ 1 \in 1 .. Len(a) /\ 1 \in 1 .. Len(b)
      BY <2>1
    <3>3. QED
      BY <2>1, <3>1, <3>2
  <2> DEFINE q == <<x, y>>
  <2> HIDE DEF p, q
  <2>4. p = [i \in 1 .. 2 |-> p[i]] /\ q = [i \in 1 .. 2 |-> q[i]]
    <3>1. p = [i \in 1 .. 2 |-> p[i]]
      BY <2>3, ElementsAre
    <3>2. q \in Seq(A) /\ Len(q) = 2
      BY <2>2 DEF q
    <3>3. q = [i \in 1 .. 2 |-> q[i]]
      BY <3>2, ElementsAre
    <3>4. QED
      BY <3>1, <3>3, Zenon
  <2>5. \A i \in 1 .. 2 : p[i] = q[i]
    BY <2>2, <2>3 DEF p, q
  <2>6. p = q
    BY <2>4, <2>5
  <2>7. QED
    BY <2>6 DEF p, q, a, b
<1>3. QED
  BY <1>1, <1>2

\* The braces of an object.
OpenObject == <<"{">>
CloseObject == <<"}">>
NoObject == <<"{", "}">>

LEMMA BracesAre ==
    /\ OpenObject \in Seq(Tokens) /\ CloseObject \in Seq(Tokens)
    /\ NoObject = (OpenObject \o <<>>) \o CloseObject
<1> DEFINE x == "{"
<1> DEFINE y == "}"
<1>1. x \in Tokens /\ y \in Tokens
  BY Zenon DEF Tokens, Marks
<1>2. OpenObject = <<x>> /\ CloseObject = <<y>> /\ NoObject = <<x, y>>
  BY Zenon DEF OpenObject, CloseObject, NoObject
<1> HIDE DEF x, y
<1>3. QED
  BY <1>1, <1>2, PairIs, OneToken

\* The members of an object, written one by one.
NameBefore(w, u, k) == Comma(k) \o <<NameText(w, MemberNames(u)[k]), ":">>
MemberStep(styled, w, u, k, x) ==
    styled[<<Emit(x, NameBefore(w, u, k)), u.members[MemberNames(u)[k]]>>]
WritesMembers(styled, w, u, j) ==
    /\ j[0] = Emit(w, OpenObject)
    /\ \A k \in 1 .. Len(MemberNames(u)) : j[k] = MemberStep(styled, w, u, k, j[k - 1])
ObjectWritten(w, u, final) ==
    IF MemberNames(u) = <<>> THEN PushValue(w, NoObject) ELSE Emit(final, CloseObject)

LEMMA NamesHere ==
    ASSUME NEW T, NEW u \in Objects(Strings, T)
    PROVE  /\ MemberNames(u) \in Seq(Strings) /\ Len(MemberNames(u)) \in Nat
           /\ \A k \in 1 .. Len(MemberNames(u)) :
                MemberNames(u)[k] \in Strings /\ u.members[MemberNames(u)[k]] \in Children(u)
<1>1. DOMAIN u.members \subseteq Strings /\ \A x \in DOMAIN u.members : u.members[x] \in Children(u)
  BY ObjectIs
<1>2. IsNaming(MemberNames(u), DOMAIN u.members)
  BY <1>1, MemberNamesAre
<1>3. MemberNames(u) \in Seq(Strings) /\ \A i \in 1 .. Len(MemberNames(u)) : MemberNames(u)[i] \in DOMAIN u.members
  BY <1>2 DEF IsNaming
<1>4. Len(MemberNames(u)) \in Nat
  BY <1>3, ElementsAre
<1>5. QED
  BY <1>1, <1>3, <1>4

LEMMA NameBeforeIs ==
    ASSUME NEW T, NEW u \in Objects(Strings, T), NEW w \in Writers, NEW k \in 1 .. Len(MemberNames(u))
    PROVE  NameBefore(w, u, k) \in Seq(Tokens)
<1> DEFINE name == NameText(w, MemberNames(u)[k])
<1> DEFINE x == ":"
<1>1. name \in Strings
  BY NamesHere, WriterAssumption DEF NameText
<1>2. name \in Tokens /\ x \in Tokens
  BY <1>1, Zenon DEF Tokens, Marks
<1>3. NameBefore(w, u, k) = Comma(k) \o <<name, x>>
  BY Zenon DEF NameBefore
<1> HIDE DEF name, x
<1>4. Comma(k) \in Seq(Tokens) /\ <<name, x>> \in Seq(Tokens)
  BY <1>2, CommaIs, TwoTokens
<1>5. QED
  BY <1>3, <1>4, ConcatIs

LEMMA MembersWritten ==
    ASSUME NEW T, NEW u \in Objects(Strings, T), NEW styled, StyledTypes(styled, u), NEW w \in Writers
    PROVE  \E j \in [0 .. Len(MemberNames(u)) -> Writers] :
               /\ WritesMembers(styled, w, u, j)
               /\ WriteObjectValue(styled, w, u) = ObjectWritten(w, u, j[Len(MemberNames(u))])
<1> DEFINE n == Len(MemberNames(u))
<1> DEFINE V == Writers
<1> DEFINE b == Emit(w, <<"{">>)
<1> DEFINE Step(k, x) == MemberStep(styled, w, u, k, x)
<1> DEFINE P(j) == j = [k \in 0 .. n |-> IF k = 0 THEN b ELSE Step(k, j[k - 1])]
<1> DEFINE j == CHOOSE h : P(h)
<1>0. n \in Nat /\ b \in V
  <2>1. b = Emit(w, OpenObject)
    BY Zenon DEF OpenObject
  <2> HIDE DEF b
  <2>2. QED
    BY <2>1, NamesHere, BracesAre, EmitIs
<1>1. \A k \in 1 .. n : \A x \in V : Step(k, x) \in V
  <2> SUFFICES ASSUME NEW k \in 1 .. n, NEW x \in V PROVE Step(k, x) \in V
    <3> HIDE DEF Step
    <3>1. QED
      OBVIOUS
  <2> HIDE DEF b
  <2>1. Emit(x, NameBefore(w, u, k)) \in Writers
    BY NameBeforeIs, EmitIs
  <2>2. u.members[MemberNames(u)[k]] \in Children(u)
    BY NamesHere
  <2>3. QED
    BY <2>1, <2>2, Zenon DEF StyledTypes, MemberStep
<1>2. WriteObjectValue(styled, w, u) = ObjectWritten(w, u, j[n])
  BY Zenon DEF WriteObjectValue, ObjectWritten, MemberStep, NameBefore, NoObject, CloseObject
<1>3. WritesMembers(styled, w, u, j) <=> j[0] = b /\ \A k \in 1 .. n : j[k] = Step(k, j[k - 1])
  BY Zenon DEF WritesMembers, OpenObject
<1> HIDE DEF n, V, b, Step
<1> DEFINE g == [y \in (1 .. n) \X V |-> Step(y[1], y[2])]
<1>4. \A k \in 1 .. n : \A x \in V : g[<<k, x>>] = Step(k, x)
  OBVIOUS
<1> HIDE DEF g
<1>5. PICK f \in [0 .. n -> V] : f[0] = b /\ \A k \in 1 .. n : f[k] = g[<<k, f[k - 1]>>]
  <2>1. StepsIn(n, V, g)
    BY <1>1, <1>4 DEF StepsIn
  <2>2. PICK f \in [0 .. n -> V] : StepsOn(n, b, g, f)
    BY <1>0, <2>1, Stepwise, Zenon
  <2>3. QED
    BY <2>2, Zenon DEF StepsOn
<1>6. P(f)
  <2>1. ASSUME NEW k \in 0 .. n PROVE f[k] = IF k = 0 THEN b ELSE Step(k, f[k - 1])
    <3>1. CASE k = 0
      BY <1>5, <3>1
    <3>2. CASE k # 0
      <4>1. k \in 1 .. n /\ k - 1 \in 0 .. n
        BY <1>0, <3>2
      <4>2. f[k - 1] \in V /\ f[k] = g[<<k, f[k - 1]>>]
        BY <1>5, <4>1
      <4>3. QED
        BY <1>4, <3>2, <4>1, <4>2
    <3>3. QED
      BY <3>1, <3>2
  <2>2. QED
    BY <1>5, <2>1
<1>7. P(j)
  <2> HIDE DEF P
  <2>1. QED
    BY <1>6, Zenon
<1> HIDE DEF j
<1>8. j[0] = b /\ \A k \in 1 .. n : j[k] = Step(k, j[k - 1])
  <2>1. \A k \in 0 .. n : j[k] = IF k = 0 THEN b ELSE Step(k, j[k - 1])
    BY <1>7
  <2>2. 0 \in 0 .. n /\ \A k \in 1 .. n : k \in 0 .. n /\ k # 0
    BY <1>0
  <2>3. QED
    BY <2>1, <2>2, Zenon
<1>9. \A k \in 0 .. n : j[k] \in V
  <2> DEFINE S == {k \in 0 .. n : j[k] \in V}
  <2>1. 0 \in S
    BY <1>0, <1>8
  <2>2. ASSUME NEW k \in 1 .. n, k - 1 \in S PROVE k \in S
    BY <1>0, <1>1, <1>8, <2>2
  <2> HIDE DEF S
  <2>3. \A k \in 0 .. n : k \in S
    BY <1>0, <2>1, <2>2, StepsKeep
  <2>4. QED
    BY <2>3 DEF S
<1>10. j \in [0 .. n -> V]
  <2>1. j = [k \in 0 .. n |-> j[k]]
    BY <1>7
  <2>2. QED
    BY <1>9, <2>1
<1>11. QED
  BY <1>2, <1>3, <1>8, <1>10, Zenon DEF n, V

\* A text that is added in two pieces after a document.
InPieces(d, c, a, t) == (d \o (c \o a)) \o t = (d \o c) \o (a \o t)

LEMMA Pieces ==
    ASSUME NEW d \in Seq(Tokens), NEW c \in Seq(Tokens), NEW a \in Seq(Tokens), NEW t \in Seq(Tokens)
    PROVE  InPieces(d, c, a, t)
<1> DEFINE V == Seq(Tokens)
<1>a. \A x, y, z \in V : Regroups(x, y, z)
  BY TextsRegroup
<1>b. \A x, y \in V : x \o y \in V
  BY ConcatIs
<1> DEFINE ca == c \o a
<1> DEFINE dc == d \o c
<1>0. d \in V /\ c \in V /\ a \in V /\ t \in V
  OBVIOUS
<1> HIDE DEF V
<1>1. dc \in V /\ ca \in V
  BY <1>0, <1>b
<1> HIDE DEF dc, ca
<1>2. Regroups(d, c, a) /\ Regroups(dc, a, t)
  BY <1>0, <1>1, <1>a, Zenon
<1>3. dc \o a = d \o ca
  BY <1>2, Zenon DEF Regroups, dc, ca
<1>4. (dc \o a) \o t = dc \o (a \o t)
  BY <1>2, Zenon DEF Regroups
<1>5. QED
  BY <1>3, <1>4, Zenon DEF dc, ca, InPieces

MemberNext(T, u, tx, styled, w, k, x) ==
    /\ u \in Objects(Strings, T) /\ TextsWell(tx, u) /\ StyledWell(styled, tx, u) /\ w \in Writers
    /\ k \in 1 .. Len(MemberNames(u)) /\ Onwards(w, x)

\* Each member adds its name and its text, and the comma before them.
LEMMA MemberOnwards ==
    ASSUME NEW T, NEW u, NEW tx, NEW styled, NEW w, NEW k, NEW x, MemberNext(T, u, tx, styled, w, k, x)
    PROVE  AddsElement(w, x, MemberStep(styled, w, u, k, x), k, MemberTexts(w.cNames, tx[w.cNames], u))
<1> /\ u \in Objects(Strings, T) /\ TextsWell(tx, u) /\ StyledWell(styled, tx, u) /\ w \in Writers
    /\ k \in 1 .. Len(MemberNames(u)) /\ Onwards(w, x)
  BY DEF MemberNext
<1> DEFINE c == w.cNames
<1> DEFINE text == tx[c]
<1> DEFINE ts == MemberTexts(c, text, u)
<1> DEFINE name == NameAs(c, MemberNames(u)[k])
<1> DEFINE colon == ":"
<1> DEFINE e == u.members[MemberNames(u)[k]]
<1> DEFINE a == <<name, colon>>
<1> DEFINE y == Emit(x, NameBefore(w, u, k))
<1>0. c \in BOOLEAN /\ TextsIn(text, u)
  BY WriterHas DEF TextsWell
<1>1. ts[k] = NamedText(name, text[e]) /\ e \in Children(u) /\ MemberNames(u)[k] \in Strings
  <2> HIDE DEF c, text, a, y, colon
  <2>1. QED
    BY <1>0, MemberTextsAre
<1>2. ts[k] = a \o text[e]
  BY <1>1, Zenon DEF NamedText
<1>3. NameBefore(w, u, k) = Comma(k) \o a
  BY Zenon DEF NameBefore, NameText, NameAs
<1>4. a \in Seq(Tokens)
  <2>1. name \in Strings
    <3> HIDE DEF c
    <3>1. QED
      BY <1>0, <1>1, NameAsIs
  <2>2. name \in Tokens /\ colon \in Tokens
    BY <2>1, Zenon DEF Tokens, Marks
  <2> HIDE DEF name, colon
  <2>3. QED
    BY <2>2, TwoTokens
<1>5. text[e] \in Seq(Tokens)
  BY <1>0, <1>1 DEF TextsIn
<1>6. Comma(k) \in Seq(Tokens) /\ NameBefore(w, u, k) \in Seq(Tokens)
  BY CommaIs, NameBeforeIs
<1>7. Onwards(w, y) /\ y.document = x.document \o NameBefore(w, u, k)
  BY <1>6, EmitOnwards
<1>8. MemberStep(styled, w, u, k, x) = styled[<<y, e>>]
  BY Zenon DEF MemberStep
<1>9. Adds(w, y, styled[<<y, e>>], text[e])
  <2>1. StyledNext(w, y, u, e, tx, styled)
    BY <1>1, <1>7, Zenon DEF StyledNext
  <2>2. QED
    BY <2>1, StyledOnwards
<1>10. x.document \in Seq(Tokens)
  BY WriterHas DEF Onwards
<1> HIDE DEF ts, a, y, e, text
<1>11. InPieces(x.document, Comma(k), a, text[e])
  BY <1>4, <1>5, <1>6, <1>10, Pieces
<1>12. styled[<<y, e>>].document = (x.document \o Comma(k)) \o ts[k]
  <2>1. styled[<<y, e>>].document = (x.document \o (Comma(k) \o a)) \o text[e]
    BY <1>3, <1>7, <1>9, Zenon DEF Adds
  <2>2. QED
    BY <1>2, <1>11, <2>1, Zenon DEF InPieces
<1>13. Onwards(w, styled[<<y, e>>])
  BY <1>9, Zenon DEF Adds
<1>14. QED
  BY <1>8, <1>12, <1>13, Zenon DEF AddsElement, ts, text, c

LEMMA ObjectWell ==
    ASSUME NEW T, NEW u \in Objects(Strings, T), NEW tx, TextsWell(tx, u), NEW styled, StyledWell(styled, tx, u),
           NEW w \in Writers
    PROVE  WritesWell(tx, w, u, WriteObjectValue(styled, w, u))
<1> DEFINE n == Len(MemberNames(u))
<1> DEFINE c == w.cNames
<1> DEFINE text == tx[c]
<1> DEFINE ts == MemberTexts(c, text, u)
<1> DEFINE s == WithCommas(ts)
<1> DEFINE r == WriteObjectValue(styled, w, u)
<1> DEFINE t == TextAs(c, text, u)
<1>0. c \in BOOLEAN /\ TextsIn(text, u)
  BY WriterHas DEF TextsWell
<1>1. ts \in TextLists /\ Len(ts) = n /\ n \in Nat /\ n \in 0 .. n /\ IsNaming(MemberNames(u), DOMAIN u.members)
  <2> HIDE DEF c, text
  <2>1. QED
    BY <1>0, MemberTextsAre
<1>2. s \in Seq(Tokens)
  <2> HIDE DEF ts
  <2>1. QED
    BY <1>1, JoinedIs
<1>3. u.type = "object"
  BY ObjectIs
<1>4. t = (OpenObject \o s) \o CloseObject
  <2>1. "object" # "scalar" /\ "object" # "array"
    OBVIOUS
  <2>2. QED
    BY <1>3, <2>1, Zenon DEF TextAs, OpenObject, CloseObject
<1>5. t \in Seq(Tokens)
  <2> HIDE DEF s, t
  <2>1. QED
    BY <1>2, <1>4, BracesAre, ConcatIs
<1>6. PICK j \in [0 .. n -> Writers] : WritesMembers(styled, w, u, j) /\ r = ObjectWritten(w, u, j[n])
  <2>1. StyledTypes(styled, u)
    BY Zenon DEF StyledWell, StyledTypes
  <2> HIDE DEF r
  <2>2. QED
    BY <2>1, MembersWritten DEF r
<1>7. CASE MemberNames(u) = <<>>
  <2>1. Len(ts) = 0
    BY <1>1, <1>7
  <2>2. s = <<>>
    <3> HIDE DEF ts
    <3>1. QED
      BY <1>1, <2>1, NothingJoined
  <2>3. t = NoObject
    <3> HIDE DEF s, t
    <3>1. QED
      BY <1>4, <2>2, BracesAre
  <2>4. r = PushValue(w, t)
    BY <1>6, <1>7, <2>3, Zenon DEF ObjectWritten
  <2> HIDE DEF r, t
  <2>5. r \in Writers /\ Wrote(w, t, r)
    BY <1>5, <2>4, PushWrote
  <2>6. QED
    BY <2>5 DEF WritesWell, r, t
<1>8. CASE MemberNames(u) # <<>>
  <2> DEFINE final == j[n]
  <2>1. Allowed(w, u) => ~w.adding
    <3>1. DOMAIN u.members # {}
      <4>1. n >= 1 /\ \A i \in 1 .. n : MemberNames(u)[i] \in DOMAIN u.members
        <5>1. MemberNames(u) \in Seq(Strings) /\ \A i \in 1 .. n : MemberNames(u)[i] \in DOMAIN u.members
          BY <1>1 DEF IsNaming
        <5>2. QED
          BY <1>8, <5>1, ElementsAre
      <4>2. QED
        BY <1>1, <4>1
    <3>2. QED
      BY <1>3, <3>1 DEF Allowed, Nested, IsEmpty
  <2>2. r = Emit(final, CloseObject)
    BY <1>6, <1>8, Zenon DEF ObjectWritten
  <2>3. final \in Writers
    BY <1>1, <1>6
  <2>4. ~w.adding => Onwards(w, final) /\ final.document = (w.document \o OpenObject) \o s
    <3> SUFFICES ASSUME ~w.adding PROVE Onwards(w, final) /\ final.document = (w.document \o OpenObject) \o s
      OBVIOUS
    <3>1. Onwards(w, j[0]) /\ j[0].document = w.document \o OpenObject
      <4>1. j[0] = Emit(w, OpenObject) /\ Onwards(w, w)
        BY <1>6 DEF WritesMembers, Onwards
      <4>2. QED
        BY <4>1, BracesAre, EmitOnwards
    <3>2. ASSUME NEW k \in 1 .. n, Onwards(w, j[k - 1]) PROVE AddsElement(w, j[k - 1], j[k], k, ts)
      <4>1. j[k] = MemberStep(styled, w, u, k, j[k - 1])
        BY <1>6, Zenon DEF WritesMembers
      <4>2. MemberNext(T, u, tx, styled, w, k, j[k - 1])
        BY <3>2, Zenon DEF MemberNext
      <4>3. AddsElement(w, j[k - 1], MemberStep(styled, w, u, k, j[k - 1]), k, ts)
        BY <4>2, MemberOnwards
      <4>4. QED
        BY <4>1, <4>3, Zenon
    <3> HIDE DEF ts
    <3>3. AddsAll(w, ts, j)
      BY <1>1, <3>1, <3>2, Zenon DEF AddsAll
    <3>4. Adds(w, j[0], j[Len(ts)], WithCommas(ts)) /\ Onwards(w, j[Len(ts)])
      BY <3>3, AllOnwards
    <3>5. QED
      BY <1>1, <3>1, <3>4 DEF Adds
  <2> HIDE DEF final, r, s, t, c
  <2>5. /\ r \in Writers /\ r.document = final.document \o CloseObject /\ r.adding = final.adding
        /\ r.comments = final.comments /\ r.cNames = final.cNames
    BY <2>2, <2>3, BracesAre, EmitIs
  <2>6. ~w.adding => r.document = w.document \o t
    <3> SUFFICES ASSUME ~w.adding PROVE r.document = w.document \o t
      OBVIOUS
    <3>1. w.document \in Seq(Tokens)
      BY WriterHas
    <3>2. Surrounded(w.document, OpenObject, s, CloseObject)
      BY <1>2, <3>1, BracesAre, Around
    <3>3. ((w.document \o OpenObject) \o s) \o CloseObject = w.document \o ((OpenObject \o s) \o CloseObject)
      BY <3>2, Zenon DEF Surrounded
    <3>4. QED
      BY <1>4, <2>4, <2>5, <3>3
  <2>7. ~w.adding => ~r.adding /\ r.comments = w.comments /\ r.cNames = w.cNames
    BY <2>4, <2>5 DEF Onwards
  <2>8. ~w.adding => Wrote(w, t, r)
    <3>1. {w.adding, r.adding} \subseteq BOOLEAN
      BY <2>5, WriterHas
    <3>2. QED
      BY <2>6, <2>7, <3>1 DEF Wrote
  <2>9. QED
    BY <2>1, <2>5, <2>8 DEF WritesWell, r, t, c
<1>9. QED
  BY <1>7, <1>8

LEMMA ScalarWell ==
    ASSUME NEW u \in ReaderLeaves, NEW tx, NEW styled, NEW w \in Writers
    PROVE  WritesWell(tx, w, u, StyledValue(styled, w, u))
<1> DEFINE x == u.text
<1>1. u.type = "scalar" /\ x \in Strings \cup Scalars
  BY LeafHasNoChildren DEF ReaderLeaves, ScalarValue
<1>2. x \in Tokens
  BY <1>1, Zenon DEF Tokens
<1> DEFINE t == <<x>>
<1>3. StyledValue(styled, w, u) = PushValue(w, t) /\ TextAs(w.cNames, tx[w.cNames], u) = t
  BY <1>1, Zenon DEF StyledValue, TextAs
<1>4. t \in Seq(Tokens)
  <2> HIDE DEF x
  <2>1. QED
    BY <1>2, OneToken
<1> HIDE DEF t
<1>5. PushValue(w, t) \in Writers /\ Wrote(w, t, PushValue(w, t))
  BY <1>4, PushWrote
<1>6. QED
  BY <1>3, <1>5, Zenon DEF WritesWell

\* What writeValue makes of a value, when it does the same of what is in it.
LEMMA StyledValueWell ==
    ASSUME NEW n \in 0 .. StackLimit, NEW u \in ReaderTree[n], NEW tx, TextsWell(tx, u),
           NEW styled, StyledWell(styled, tx, u), NEW w \in Writers
    PROVE  WritesWell(tx, w, u, StyledValue(styled, w, u))
<1> DEFINE T == ReaderTree[n - 1]
<1>1. u \in ReaderLeaves \/ u \in Arrays(T) \/ u \in Objects(Strings, T)
  BY LevelIs DEF ReaderTree
<1> HIDE DEF T
<1>2. CASE u \in ReaderLeaves
  BY <1>2, ScalarWell
<1>3. CASE u \in Arrays(T)
  <2>1. u.type = "array" /\ "array" # "scalar"
    BY <1>3, ArrayIs
  <2>2. StyledValue(styled, w, u) = WriteArrayValue(styled, w, u)
    BY <2>1, Zenon DEF StyledValue
  <2>3. WritesWell(tx, w, u, WriteArrayValue(styled, w, u))
    BY <1>3, ArrayWell
  <2>4. QED
    BY <2>2, <2>3, Zenon
<1>4. CASE u \in Objects(Strings, T)
  <2>1. u.type = "object" /\ "object" # "scalar" /\ "object" # "array"
    BY <1>4, ObjectIs
  <2>2. StyledValue(styled, w, u) = WriteObjectValue(styled, w, u)
    BY <2>1, Zenon DEF StyledValue
  <2>3. WritesWell(tx, w, u, WriteObjectValue(styled, w, u))
    BY <1>4, ObjectWell
  <2>4. QED
    BY <2>2, <2>3, Zenon
<1>5. QED
  BY <1>1, <1>2, <1>3, <1>4

\* It depends on nothing else.
Agree(f, g, u) == \A w \in Writers : \A x \in Children(u) : f[<<w, x>>] = g[<<w, x>>]
BothWell(f, g, tx, u) ==
    TextsWell(tx, u) /\ StyledWell(f, tx, u) /\ StyledWell(g, tx, u) /\ Agree(f, g, u)

LEMMA ElementsHere ==
    ASSUME NEW T, NEW u \in Arrays(T)
    PROVE  Len(u.elements) \in Nat /\ \A k \in 1 .. Len(u.elements) : u.elements[k] \in Children(u)
<1>1. Children(u) = {u.elements[i] : i \in DOMAIN u.elements} /\ u.elements \in Seq(T)
  BY ArrayIs
<1>2. DOMAIN u.elements = 1 .. Len(u.elements) /\ Len(u.elements) \in Nat
  BY <1>1, ElementsAre
<1>3. QED
  BY <1>1, <1>2

LEMMA LayoutSame ==
    ASSUME NEW T, NEW u \in Arrays(T), NEW f, NEW g, NEW tx, BothWell(f, g, tx, u), NEW w \in Writers
    PROVE  Layout(f, w, u) = Layout(g, w, u)
<1>1. CASE w.comments
  BY <1>1, Zenon DEF Layout
<1>2. CASE ~w.comments
  <2> DEFINE n == Len(u.elements)
  <2>0. n \in Nat /\ \A k \in 1 .. n : u.elements[k] \in Children(u)
    BY ElementsHere
  <2>1. StyledTypes(f, u) /\ StyledTypes(g, u)
    BY Zenon DEF StyledWell, StyledTypes, BothWell
  <2>2. PICK i \in [0 .. n -> Writers] : Fills(f, w, u, i) /\ IsMultilineArray(f, w, u) = ArrayLayout(w, u, i[n])
    BY <1>2, <2>1, FillingIs
  <2>3. PICK j \in [0 .. n -> Writers] : Fills(g, w, u, j) /\ IsMultilineArray(g, w, u) = ArrayLayout(w, u, j[n])
    BY <1>2, <2>1, FillingIs
  <2>4. i[0] = j[0]
    BY <2>2, <2>3, Zenon DEF Fills
  <2>5. ASSUME NEW k \in 1 .. n, i[k - 1] = j[k - 1] PROVE i[k] = j[k]
    <3> DEFINE x == i[k - 1]
    <3> DEFINE e == u.elements[k]
    <3>1. x \in Writers /\ e \in Children(u)
      BY <2>0
    <3>2. i[k] = f[<<x, e>>] /\ j[k] = g[<<x, e>>]
      BY <2>2, <2>3, <2>5, Zenon DEF Fills
    <3>3. f[<<x, e>>] = g[<<x, e>>]
      BY <3>1, Zenon DEF BothWell, Agree
    <3>4. QED
      BY <3>2, <3>3
  <2>6. i = j
    <3> HIDE DEF n
    <3>1. QED
      BY <2>0, <2>4, <2>5, StepsSame
  <2>7. QED
    BY <1>2, <2>2, <2>3, <2>6, Zenon DEF Layout
<1>3. QED
  BY <1>1, <1>2

LEMMA ArraySame ==
    ASSUME NEW T, NEW u \in Arrays(T), NEW f, NEW g, NEW tx, BothWell(f, g, tx, u), NEW w \in Writers
    PROVE  WriteArrayValue(f, w, u) = WriteArrayValue(g, w, u)
<1> DEFINE n == Len(u.elements)
<1> DEFINE m == Layout(f, w, u)
<1> DEFINE ts == ElementTexts(tx[w.cNames], u)
<1>0. n \in Nat /\ \A k \in 1 .. n : u.elements[k] \in Children(u)
  BY ElementsHere
<1>1. StyledTypes(f, u) /\ StyledTypes(g, u)
  BY Zenon DEF StyledWell, StyledTypes, BothWell
<1>2. m = Layout(g, w, u)
  BY LayoutSame
<1>3. LaidOutWell(tx, w, u, m)
  BY LayoutIs DEF BothWell
<1>4. Len(ts) = n
  <2> DEFINE text == tx[w.cNames]
  <2>1. TextsIn(text, u)
    BY WriterHas DEF TextsWell, BothWell
  <2> HIDE DEF text
  <2>2. Len(ElementTexts(text, u)) = n
    BY <2>1, ElementTextsAre
  <2>3. QED
    BY <2>2 DEF text
<1>5. m.writer \in Writers /\ (m.writer.children = <<>> \/ Len(m.writer.children) = n)
  <2> HIDE DEF m
  <2>1. QED
    BY <1>3, <1>4 DEF LaidOutWell
<1>6. PICK i \in [0 .. n -> Keeping(m)] :
          WritesElements(f, u, m, i) /\ WriteArrayValue(f, w, u) = ArrayWritten(w, u, m, i[n])
  BY <1>1, <1>5, ElementsWritten
<1>7. PICK j \in [0 .. n -> Keeping(m)] :
          WritesElements(g, u, m, j) /\ WriteArrayValue(g, w, u) = ArrayWritten(w, u, m, j[n])
  <2> DEFINE o == Layout(g, w, u)
  <2>1. o.writer \in Writers /\ (o.writer.children = <<>> \/ Len(o.writer.children) = n)
    BY <1>2, <1>5
  <2>2. \E j \in [0 .. n -> Keeping(o)] :
            WritesElements(g, u, o, j) /\ WriteArrayValue(g, w, u) = ArrayWritten(w, u, o, j[n])
    BY <1>1, <2>1, ElementsWritten
  <2>3. QED
    BY <1>2, <2>2, Zenon
<1> HIDE DEF m
<1>8. i[0] = j[0]
  BY <1>6, <1>7, Zenon DEF WritesElements
<1>9. ASSUME NEW k \in 1 .. n, i[k - 1] = j[k - 1] PROVE i[k] = j[k]
  <2> DEFINE x == i[k - 1]
  <2> DEFINE y == Emit(x, Comma(k))
  <2> DEFINE e == u.elements[k]
  <2>1. x \in Writers
    BY <1>0 DEF Keeping
  <2>2. e \in Children(u)
    BY <1>0
  <2>3. y \in Writers
    BY <2>1, CommaIs, EmitIs
  <2>4. f[<<y, e>>] = g[<<y, e>>]
    BY <2>2, <2>3, Zenon DEF BothWell, Agree
  <2>5. ElementStep(f, u, m, k, x) = ElementStep(g, u, m, k, x)
    BY <2>4, Zenon DEF ElementStep
  <2>6. i[k] = ElementStep(f, u, m, k, x) /\ j[k] = ElementStep(g, u, m, k, x)
    BY <1>6, <1>7, <1>9, Zenon DEF WritesElements
  <2>7. QED
    BY <2>5, <2>6
<1>10. i = j
  <2> DEFINE V == Keeping(m)
  <2>1. i \in [0 .. n -> V] /\ j \in [0 .. n -> V]
    BY <1>6, <1>7
  <2> HIDE DEF n, V
  <2>2. QED
    BY <1>0, <1>8, <1>9, <2>1, StepsSame
<1>11. QED
  BY <1>6, <1>7, <1>10

LEMMA ObjectSame ==
    ASSUME NEW T, NEW u \in Objects(Strings, T), NEW f, NEW g, NEW tx, BothWell(f, g, tx, u), NEW w \in Writers
    PROVE  WriteObjectValue(f, w, u) = WriteObjectValue(g, w, u)
<1> DEFINE n == Len(MemberNames(u))
<1>0. n \in Nat /\ \A k \in 1 .. n : u.members[MemberNames(u)[k]] \in Children(u)
  BY NamesHere
<1>1. StyledTypes(f, u) /\ StyledTypes(g, u)
  BY Zenon DEF StyledWell, StyledTypes, BothWell
<1>2. PICK i \in [0 .. n -> Writers] :
          WritesMembers(f, w, u, i) /\ WriteObjectValue(f, w, u) = ObjectWritten(w, u, i[n])
  BY <1>1, MembersWritten
<1>3. PICK j \in [0 .. n -> Writers] :
          WritesMembers(g, w, u, j) /\ WriteObjectValue(g, w, u) = ObjectWritten(w, u, j[n])
  BY <1>1, MembersWritten
<1>4. i[0] = j[0]
  BY <1>2, <1>3, Zenon DEF WritesMembers
<1>5. ASSUME NEW k \in 1 .. n, i[k - 1] = j[k - 1] PROVE i[k] = j[k]
  <2> DEFINE x == i[k - 1]
  <2> DEFINE y == Emit(x, NameBefore(w, u, k))
  <2> DEFINE e == u.members[MemberNames(u)[k]]
  <2>1. x \in Writers /\ e \in Children(u)
    BY <1>0
  <2>2. y \in Writers
    BY <2>1, NameBeforeIs, EmitIs
  <2>3. f[<<y, e>>] = g[<<y, e>>]
    BY <2>1, <2>2, Zenon DEF BothWell, Agree
  <2>4. i[k] = f[<<y, e>>] /\ j[k] = g[<<y, e>>]
    BY <1>2, <1>3, <1>5, Zenon DEF WritesMembers, MemberStep
  <2>5. QED
    BY <2>3, <2>4
<1>6. i = j
  <2> HIDE DEF n
  <2>1. QED
    BY <1>0, <1>4, <1>5, StepsSame
<1>7. QED
  BY <1>2, <1>3, <1>6

LEMMA StyledSame ==
    ASSUME NEW n \in 0 .. StackLimit, NEW u \in ReaderTree[n], NEW f, NEW g, NEW tx, BothWell(f, g, tx, u),
           NEW w \in Writers
    PROVE  StyledValue(f, w, u) = StyledValue(g, w, u)
<1> DEFINE T == ReaderTree[n - 1]
<1>1. u \in ReaderLeaves \/ u \in Arrays(T) \/ u \in Objects(Strings, T)
  BY LevelIs DEF ReaderTree
<1> HIDE DEF T
<1>2. CASE u \in ReaderLeaves
  <2>1. u.type = "scalar"
    BY <1>2, LeafHasNoChildren
  <2>2. QED
    BY <2>1, Zenon DEF StyledValue
<1>3. CASE u \in Arrays(T)
  <2>1. u.type = "array" /\ "array" # "scalar" /\ WriteArrayValue(f, w, u) = WriteArrayValue(g, w, u)
    BY <1>3, ArrayIs, ArraySame
  <2>2. QED
    BY <2>1, Zenon DEF StyledValue
<1>4. CASE u \in Objects(Strings, T)
  <2>1. /\ u.type = "object" /\ "object" # "scalar" /\ "object" # "array"
        /\ WriteObjectValue(f, w, u) = WriteObjectValue(g, w, u)
    BY <1>4, ObjectIs, ObjectSame
  <2>2. QED
    BY <2>1, Zenon DEF StyledValue
<1>5. QED
  BY <1>1, <1>2, <1>3, <1>4

\* The texts of D, with names as they are and as C strings.
BothTexts(D, tx) == PartsOfTree(D) /\ \A c \in BOOLEAN : TextMap(c, D, tx[c])
StyledAll(D, tx, f) == \A w \in Writers : \A u \in D : WritesWell(tx, w, u, f[<<w, u>>])
ChildrenIn(u, S) == Children(u) \subseteq S

LEMMA TextsHere ==
    ASSUME NEW D, NEW tx, BothTexts(D, tx), NEW u \in D
    PROVE  /\ TextsWell(tx, u) /\ ChildrenIn(u, D) /\ u \in ReaderTree[StackLimit]
           /\ \A w \in Writers : /\ tx[w.cNames][u] = TextAs(w.cNames, tx[w.cNames], u)
                                 /\ tx[w.cNames][u] \in Seq(Tokens)
<1>1. /\ \A c \in BOOLEAN : TextMap(c, D, tx[c])
      /\ Children(u) \subseteq D /\ u \in ReaderTree[StackLimit]
  BY DEF BothTexts, PartsOfTree, Closed
<1>2. ASSUME NEW c \in BOOLEAN PROVE \A x \in D : tx[c][x] \in Seq(Tokens) /\ tx[c][x] = TextAs(c, tx[c], x)
  <2> DEFINE text == tx[c]
  <2>1. TextMap(c, D, text)
    BY <1>1
  <2> HIDE DEF text
  <2>2. \A x \in D : text[x] \in Seq(Tokens) /\ text[x] = TextAs(c, text, x)
    BY <2>1 DEF TextMap
  <2>3. QED
    BY <2>2 DEF text
<1>3. TextsWell(tx, u)
  <2> SUFFICES ASSUME NEW c \in BOOLEAN PROVE TextsIn(tx[c], u)
    BY DEF TextsWell
  <2>1. \A x \in Children(u) : tx[c][x] \in Seq(Tokens)
    BY <1>1, <1>2
  <2>2. QED
    BY <2>1, Zenon DEF TextsIn
<1>4. ASSUME NEW w \in Writers
      PROVE  /\ tx[w.cNames][u] = TextAs(w.cNames, tx[w.cNames], u)
             /\ tx[w.cNames][u] \in Seq(Tokens)
  <2>1. w.cNames \in BOOLEAN
    BY WriterHas
  <2>2. QED
    BY <1>2, <2>1
<1>5. QED
  BY <1>1, <1>3, <1>4 DEF ChildrenIn

\* What is written well of the children.
LEMMA StyledInside ==
    ASSUME NEW D, NEW tx, BothTexts(D, tx), NEW u \in D, NEW S, ChildrenIn(u, S), NEW f, StyledAll(S, tx, f)
    PROVE  StyledWell(f, tx, u)
<1> SUFFICES ASSUME NEW w \in Writers, NEW x \in Children(u)
             PROVE  f[<<w, x>>] \in Writers /\ (Allowed(w, x) => Wrote(w, tx[w.cNames][x], f[<<w, x>>]))
  BY Zenon DEF StyledWell
<1>1. x \in D /\ x \in S
  BY TextsHere DEF ChildrenIn
<1>2. tx[w.cNames][x] = TextAs(w.cNames, tx[w.cNames], x)
  BY <1>1, TextsHere
<1>3. WritesWell(tx, w, x, f[<<w, x>>])
  BY <1>1, Zenon DEF StyledAll
<1>4. QED
  BY <1>2, <1>3, Zenon DEF WritesWell

LEMMA StyledAt ==
    ASSUME NEW D, NEW tx, BothTexts(D, tx), NEW u \in D, NEW f, StyledWell(f, tx, u), NEW w \in Writers
    PROVE  WritesWell(tx, w, u, StyledValue(f, w, u))
<1>1. TextsWell(tx, u) /\ u \in ReaderTree[StackLimit] /\ StackLimit \in 0 .. StackLimit
  BY TextsHere, ReaderAssumption
<1>2. QED
  BY <1>1, StyledValueWell

LEMMA StyledExists ==
    ASSUME NEW D, NEW tx, BothTexts(D, tx)
    PROVE  \E f : f = [c \in Writers \X D |-> StyledValue(f, c[1], c[2])]
<1> DEFINE M == StackLimit
<1> DEFINE X == Writers \X D
<1> DEFINE F == {f \in [X -> Writers] : StyledAll(D, tx, f)}
<1> DEFINE G == [f \in F |-> [c \in X |-> StyledValue(f, c[1], c[2])]]
<1>0. D \subseteq ReaderTree[M] /\ Closed(D) /\ \A u \in D : Children(u) \subseteq D
  BY DEF BothTexts, PartsOfTree, Closed
<1>n. M \in Nat /\ M \in 0 .. M
  BY ReaderAssumption
<1>1. PICK h \in [D -> 0 .. M] : \A u \in D : \A x \in Children(u) : h[x] < h[u]
  BY <1>0, HeightsAre
<1> DEFINE m == [c \in X |-> h[c[2]]]
<1>2. ASSUME NEW f \in F, NEW u \in D PROVE StyledWell(f, tx, u)
  <2>1. ChildrenIn(u, D) /\ StyledAll(D, tx, f)
    BY <1>0 DEF ChildrenIn
  <2> HIDE DEF F, X
  <2>2. QED
    BY <2>1, StyledInside
<1>3. ASSUME NEW f \in F, NEW w \in Writers, NEW u \in D PROVE WritesWell(tx, w, u, StyledValue(f, w, u))
  <2>1. StyledWell(f, tx, u)
    BY <1>2
  <2> HIDE DEF F, X
  <2>2. QED
    BY <2>1, StyledAt
<1>p. \A w \in Writers : \A u \in D : <<w, u>> \in X /\ <<w, u>>[1] = w /\ <<w, u>>[2] = u
  OBVIOUS
<1>q. \A c \in X : c[1] \in Writers /\ c[2] \in D /\ c = <<c[1], c[2]>>
  OBVIOUS
<1>4. G \in [F -> F]
  <2> SUFFICES ASSUME NEW f \in F PROVE [c \in X |-> StyledValue(f, c[1], c[2])] \in F
    OBVIOUS
  <2> DEFINE g == [c \in X |-> StyledValue(f, c[1], c[2])]
  <2>1. \A w \in Writers : \A u \in D : StyledValue(f, w, u) \in Writers /\ WritesWell(tx, w, u, StyledValue(f, w, u))
    BY <1>3 DEF WritesWell
  <2> HIDE DEF F, X
  <2>2. g \in [X -> Writers]
    BY <1>q, <2>1
  <2>3. \A w \in Writers : \A u \in D : g[<<w, u>>] = StyledValue(f, w, u)
    BY <1>p
  <2> HIDE DEF g
  <2>4. StyledAll(D, tx, g)
    BY <2>1, <2>3 DEF StyledAll
  <2>5. g \in F
    BY <2>2, <2>4 DEF F
  <2>6. QED
    BY <2>5 DEF g
<1>5. F # {} /\ FunctionsOn(F, X)
  <2> DEFINE t(w, u) == tx[w.cNames][u]
  <2> DEFINE g == [c \in X |-> PushValue(c[1], t(c[1], c[2]))]
  <2>1. ASSUME NEW w \in Writers, NEW u \in D
        PROVE  PushValue(w, t(w, u)) \in Writers /\ WritesWell(tx, w, u, PushValue(w, t(w, u)))
    <3>1. t(w, u) = TextAs(w.cNames, tx[w.cNames], u) /\ t(w, u) \in Seq(Tokens)
      BY TextsHere
    <3>2. PushValue(w, t(w, u)) \in Writers /\ Wrote(w, t(w, u), PushValue(w, t(w, u)))
      <4> DEFINE y == t(w, u)
      <4>1. y \in Seq(Tokens)
        BY <3>1
      <4> HIDE DEF y
      <4>2. PushValue(w, y) \in Writers /\ Wrote(w, y, PushValue(w, y))
        BY <4>1, PushWrote
      <4>3. QED
        BY <4>2 DEF y
    <3>3. QED
      BY <3>1, <3>2 DEF WritesWell
  <2> HIDE DEF t, X
  <2>2. g \in [X -> Writers]
    BY <1>q, <2>1
  <2>3. \A w \in Writers : \A u \in D : g[<<w, u>>] = PushValue(w, t(w, u))
    BY <1>p
  <2> HIDE DEF g
  <2>4. StyledAll(D, tx, g)
    BY <2>1, <2>3 DEF StyledAll
  <2>5. g \in F
    BY <2>2, <2>4 DEF F
  <2>6. FunctionsOn(F, X)
    BY DEF FunctionsOn
  <2>7. QED
    BY <2>5, <2>6
<1>6. DependsBelow(G, F, X, m)
  <2> SUFFICES ASSUME NEW f \in F, NEW g \in F, NEW c \in X, \A y \in X : m[y] < m[c] => f[y] = g[y]
               PROVE  G[f][c] = G[g][c]
    BY DEF DependsBelow
  <2> DEFINE w == c[1]
  <2> DEFINE u == c[2]
  <2>1. w \in Writers /\ u \in D /\ c = <<w, u>> /\ m[c] = h[u]
    BY <1>q
  <2>2. Agree(f, g, u)
    <3> SUFFICES ASSUME NEW a \in Writers, NEW x \in Children(u) PROVE f[<<a, x>>] = g[<<a, x>>]
      BY Zenon DEF Agree
    <3>1. x \in D /\ h[x] < h[u]
      BY <1>0, <1>1, <2>1
    <3>2. <<a, x>> \in X /\ m[<<a, x>>] = h[x]
      BY <3>1
    <3>3. QED
      BY <2>1, <3>1, <3>2
  <2>3. BothWell(f, g, tx, u)
    <3>1. StyledWell(f, tx, u) /\ StyledWell(g, tx, u)
      BY <1>2, <2>1
    <3>2. TextsWell(tx, u)
      <4> HIDE DEF u
      <4>1. QED
        BY <2>1, TextsHere
    <3>3. QED
      BY <2>2, <3>1, <3>2, Zenon DEF BothWell
  <2>4. StyledValue(f, w, u) = StyledValue(g, w, u)
    <3> HIDE DEF w, u, F, X, m
    <3>1. u \in ReaderTree[StackLimit] /\ StackLimit \in 0 .. StackLimit
      BY <1>0, <1>n, <2>1
    <3>2. QED
      BY <2>1, <2>3, <3>1, StyledSame
  <2>5. G[f][c] = StyledValue(f, w, u) /\ G[g][c] = StyledValue(g, w, u)
    OBVIOUS
  <2>6. QED
    BY <2>4, <2>5
<1>7. M \in Nat /\ \A c \in X : m[c] \in 0 .. M
  BY <1>n, <1>1, <1>q
<1> HIDE DEF F, G, M, X, m
<1>8. Recursive(X, M, m, F, G)
  BY <1>4, <1>5, <1>6, <1>7 DEF Recursive
<1>9. PICK f \in F : f = G[f]
  BY <1>8, MeasuredRecursion
<1>10. f = [c \in X |-> StyledValue(f, c[1], c[2])]
  BY <1>9 DEF G
<1>11. QED
  BY <1>10 DEF X

\* Whatever the writer that WriteValue takes, it writes the text of the value.
LEMMA WriteValueIs ==
    ASSUME NEW v, NEW tx, BothTexts(Parts(v), tx), v \in Parts(v), NEW w \in Writers
    PROVE  WritesWell(tx, w, v, WriteValue(w, v))
<1> DEFINE D == Parts(v)
<1> DEFINE X == Writers \X D
<1> DEFINE P(f) == f = [c \in X |-> StyledValue(f, c[1], c[2])]
<1> DEFINE j == CHOOSE h : P(h)
<1>1. WriteValue(w, v) = j[<<w, v>>]
  BY Zenon DEF WriteValue
<1> HIDE DEF D
<1>0. /\ BothTexts(D, tx) /\ v \in D /\ D \subseteq ReaderTree[StackLimit] /\ Closed(D)
      /\ \A u \in D : Children(u) \subseteq D
  BY DEF D, BothTexts, PartsOfTree, Closed
<1>2. PICK f : P(f)
  BY <1>0, StyledExists
<1>3. P(j)
  <2> HIDE DEF P
  <2>1. QED
    BY <1>2, Zenon
<1> HIDE DEF j
<1>4. \A a \in Writers : \A u \in D : j[<<a, u>>] = StyledValue(j, a, u)
  <2>1. \A c \in X : j[c] = StyledValue(j, c[1], c[2])
    BY <1>3
  <2>2. \A a \in Writers : \A u \in D : <<a, u>> \in X /\ <<a, u>>[1] = a /\ <<a, u>>[2] = u
    OBVIOUS
  <2> HIDE DEF X
  <2>3. QED
    BY <2>1, <2>2
<1>5. PICK h \in [D -> 0 .. StackLimit] : \A u \in D : \A x \in Children(u) : h[x] < h[u]
  BY <1>0, HeightsAre
<1> DEFINE S == {u \in D : \A a \in Writers : WritesWell(tx, a, u, j[<<a, u>>])}
<1>6. ASSUME NEW u \in D, \A x \in D : h[x] < h[u] => x \in S PROVE u \in S
  <2>1. StyledAll(S, tx, j)
    BY Zenon DEF StyledAll
  <2>2. ChildrenIn(u, S)
    <3> HIDE DEF S
    <3>1. QED
      BY <1>0, <1>5, <1>6 DEF ChildrenIn
  <2> HIDE DEF S
  <2>3. StyledWell(j, tx, u)
    BY <1>0, <2>1, <2>2, StyledInside
  <2>4. \A a \in Writers : WritesWell(tx, a, u, StyledValue(j, a, u))
    BY <1>0, <2>3, StyledAt
  <2>5. QED
    BY <1>4, <2>4 DEF S
<1> HIDE DEF S
<1>7. \A x \in D : h[x] \in Nat
  BY <1>5, ReaderAssumption
<1>8. v \in S
  BY <1>0, <1>6, <1>7, MeasureInduction
<1>9. QED
  BY <1>1, <1>8 DEF S

LEMMA BegunIs ==
    ASSUME NEW comments \in BOOLEAN, NEW cNames \in BOOLEAN
    PROVE  LET w == Begun(comments, cNames)
           IN  w \in Writers /\ w.document = <<>> /\ w.adding = FALSE /\ w.cNames = cNames
<1> DEFINE w == Begun(comments, cNames)
<1>1. <<>> \in TextLists /\ <<>> \in Seq(Tokens)
  BY EmptyConcat DEF TextLists
<1>2. /\ w \in [document : Seq(Tokens), children : TextLists, adding : BOOLEAN, comments : BOOLEAN, cNames : BOOLEAN]
      /\ w.children = <<>> /\ w.document = <<>> /\ w.adding = FALSE /\ w.cNames = cNames
  BY <1>1 DEF Begun
<1> HIDE DEF w
<1>3. w \in Writers
  BY <1>2, WritersAre
<1>4. QED
  BY <1>2, <1>3 DEF w

LEMMA BegunWrites ==
    ASSUME NEW v, NEW tx, BothTexts(Parts(v), tx), v \in Parts(v), NEW comments \in BOOLEAN, NEW cNames \in BOOLEAN
    PROVE  WriteValue(Begun(comments, cNames), v).document = tx[cNames][v]
<1> DEFINE w == Begun(comments, cNames)
<1> DEFINE r == WriteValue(w, v)
<1> DEFINE t == tx[cNames][v]
<1>1. w \in Writers /\ w.document = <<>> /\ w.adding = FALSE /\ w.cNames = cNames
  BY BegunIs
<1> HIDE DEF w
<1>2. WritesWell(tx, w, v, r)
  BY <1>1, WriteValueIs
<1>3. TextAs(w.cNames, tx[w.cNames], v) = t /\ t \in Seq(Tokens)
  <2> DEFINE D == Parts(v)
  <2> HIDE DEF D
  <2>1. BothTexts(D, tx) /\ v \in D
    BY DEF D
  <2>2. tx[w.cNames][v] = TextAs(w.cNames, tx[w.cNames], v) /\ tx[w.cNames][v] \in Seq(Tokens)
    BY <1>1, <2>1, TextsHere
  <2>3. QED
    BY <1>1, <2>2
<1> HIDE DEF r, t
<1>4. Wrote(w, t, r)
  BY <1>1, <1>2, <1>3 DEF WritesWell, Allowed
<1>5. r.document = <<>> \o t
  BY <1>1, <1>4 DEF Wrote
<1>6. <<>> \o t = t
  BY <1>3, EmptyConcat
<1>7. QED
  BY <1>5, <1>6 DEF r, t, w

\* Every writer, of every value that the reader can give.
LEMMA WritersAreReadBack ==
    ASSUME NEW v \in ReaderTree[StackLimit]
    PROVE  LET plain == \A n \in NamesOf(v) : CStringOf[n] = n
           IN  /\ \A text \in {FastText(v), BuiltText(v, TRUE), BuiltText(v, FALSE)} : ReadBack(text, v)
               /\ plain <=> ReadBack(StyledText(v), v)
               /\ ParseDocument(StyledText(v)).ok
<1> DEFINE D == Parts(v)
<1> DEFINE plain == \A n \in NamesOf(v) : CStringOf[n] = n
<1>1. PICK t : TextMap(FALSE, D, t) /\ FastText(v) = t[v]
  BY FastTextIs
<1>2. PartsOfTree(D) /\ v \in D
  BY FastTextIs
<1>3. \E x : TextMap(TRUE, D, x)
  <2> HIDE DEF D
  <2>1. QED
    BY <1>2, TextMapExists
<1>4. PICK s : TextMap(TRUE, D, s)
  BY <1>3
<1> DEFINE tx == [c \in BOOLEAN |-> IF c THEN s ELSE t]
<1>5. tx[TRUE] = s /\ tx[FALSE] = t /\ \A c \in BOOLEAN : c = TRUE \/ c = FALSE
  OBVIOUS
<1> HIDE DEF tx
<1>6. BothTexts(D, tx)
  <2>1. \A c \in BOOLEAN : TextMap(c, D, tx[c])
    <3> HIDE DEF D
    <3>1. TextMap(TRUE, D, tx[TRUE]) /\ TextMap(FALSE, D, tx[FALSE])
      BY <1>1, <1>4, <1>5
    <3>2. QED
      BY <1>5, <3>1, Zenon
  <2>2. QED
    BY <1>2, <2>1, Zenon DEF BothTexts
<1>7. StyledText(v) = s[v]
  <2>1. WriteValue(Begun(FALSE, TRUE), v).document = tx[TRUE][v]
    BY <1>2, <1>6, BegunWrites
  <2>2. QED
    BY <1>5, <2>1, Zenon DEF StyledText
<1>8. BuiltText(v, TRUE) = t[v] /\ BuiltText(v, FALSE) = t[v]
  <2>1. \A c \in BOOLEAN : WriteValue(Begun(c, FALSE), v).document = tx[FALSE][v]
    BY <1>2, <1>6, BegunWrites
  <2>2. QED
    BY <1>5, <2>1, Zenon DEF BuiltText
<1>9. ReadBack(t[v], v)
  <2>1. FALSE \in BOOLEAN /\ Faithful(FALSE, StackLimit, v)
    BY DEF Faithful
  <2>2. ReadBack(t[v], v) <=> Faithful(FALSE, StackLimit, v)
    BY <1>1, <2>1, TextIsReadBack
  <2>3. QED
    BY <2>1, <2>2
<1>10. ParseDocument(s[v]).ok /\ (ReadBack(s[v], v) <=> v \in PlainTree[StackLimit])
  <2>1. Faithful(TRUE, StackLimit, v) <=> v \in PlainTree[StackLimit]
    BY DEF Faithful
  <2>2. ParseDocument(s[v]).ok /\ (ReadBack(s[v], v) <=> Faithful(TRUE, StackLimit, v))
    BY <1>4, TextIsReadBack
  <2>3. QED
    BY <2>1, <2>2
<1>11. plain <=> v \in PlainTree[StackLimit]
  BY PlainIs
<1>12. QED
  BY <1>1, <1>7, <1>8, <1>9, <1>10, <1>11, Zenon

LEMMA WhatIsWrittenIsRead == ReaderIInv => WritersRoundTrip
<1> SUFFICES ASSUME ReaderIInv, parsed.ok
             PROVE  LET v == parsed.value
                        plain == \A n \in NamesOf(v) : CStringOf[n] = n
                    IN  /\ \A text \in {FastText(v), BuiltText(v, TRUE), BuiltText(v, FALSE)} : ReadBack(text, v)
                        /\ plain <=> ReadBack(StyledText(v), v)
                        /\ ParseDocument(StyledText(v)).ok
  BY Zenon DEF WritersRoundTrip
<1>1. document \in Seq(Tokens) /\ parsed = ParseDocument(document)
  BY DEF ReaderIInv
<1>2. parsed.value \in ReaderTree[StackLimit]
  <2>1. document \in Seq(CharTokens) /\ 1 \in Places(document)
    BY <1>1 DEF CharTokens, Places
  <2>2. parsed \in Outcomes(document, 1, ReaderTree[StackLimit])
    BY <1>1, <2>1, ReadsOutcome
  <2>3. QED
    BY <2>1, <2>2, OutcomeIs
<1> DEFINE u == parsed.value
<1> HIDE DEF u
<1>3. u \in ReaderTree[StackLimit]
  BY <1>2 DEF u
<1>4. LET plain == \A n \in NamesOf(u) : CStringOf[n] = n
      IN  /\ \A text \in {FastText(u), BuiltText(u, TRUE), BuiltText(u, FALSE)} : ReadBack(text, u)
          /\ plain <=> ReadBack(StyledText(u), u)
          /\ ParseDocument(StyledText(u)).ok
  BY <1>3, WritersAreReadBack
<1>5. QED
  BY <1>4, Zenon DEF u
=============================================================================
