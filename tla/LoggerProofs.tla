---------------------------- MODULE LoggerProofs ----------------------------
(***************************************************************************)
(* Logger, for every number of threads, lines and buffers and every limit: *)
(* a buffer is in one place, a line is lost only at the limit, and the     *)
(* lines of a thread reach the file once each and in order.                *)
(***************************************************************************)
EXTENDS Logger, Integers, FiniteSetTheorems, SequenceTheorems, WellFoundedInduction, TLAPS

\* A set of natural numbers has a least element: the first free slot of a
\* vector and the lowest free descriptor exist.  From the well-foundedness of <.
LEMMA Minimum ==
    ASSUME NEW S, S \subseteq Nat, S # {}
    PROVE  \E m \in S : \A n \in S : m <= n
<1> DEFINE R == OpToRel(<, Nat)
<1>1. IsWellFoundedOn(R, Nat)
  BY NatLessThanWellFounded
<1>2. \A x, y \in Nat : <<x, y>> \in R <=> x < y
  BY DEF OpToRel
<1> HIDE DEF R
<1>3. PICK m \in S : \A n \in S : ~(<<n, m>> \in R)
  BY <1>1, WFMin
<1>4. \A n \in S : ~(n < m)
  BY <1>2, <1>3, Zenon
<1>5. QED
  BY <1>4

\* A set of numbers up to n is finite.
LEMMA FiniteRange ==
    ASSUME NEW n \in Nat, NEW S, \A i \in S : i \in Nat /\ i <= n
    PROVE  IsFiniteSet(S)
<1>1. S \in SUBSET Nat /\ \A i \in S : i <= n
  OBVIOUS
<1>2. QED
  BY <1>1, FS_BoundedSetOfNaturals

-----------------------------------------------------------------------------

\* The places of a buffer, as values: with the threads f, in the flush queue q,
\* on the free list r, in the flush thread's hand p.
Has(b, c) == IF b = c THEN 1 ELSE 0
In(b, S) == IF b \in S THEN 1 ELSE 0
Holders(f, b) == {w \in Writers : b \in f[w]}
Ledger(b, f, q, r, p) == Cardinality(Holders(f, b)) + Places(b, q) + Places(b, r) + Has(b, p)

\* Types, but for the file and the contents of lines.
Thread == [pc : WriterStates, cur : Bufs \cup {None}, seen : Nat, count : Nat]
Buffer == [lines : Seq(Writers \X Nat), state : {"FREE", "FLUSH"}]
LoggerTypes ==
    /\ map \in [Writers -> Bufs \cup {None}]
    /\ buf \in [Bufs -> Buffer]
    /\ flushq \in Seq(Bufs) /\ freeq \in Seq(Bufs)
    /\ th \in [Writers -> Thread]
    /\ flush \in [pc : FlushStates, p : Bufs \cup {None}]
    /\ close \in [pc : CloseStates, unpushed : SUBSET Writers]
    /\ total \in Nat /\ made \in 0 .. MaxBufs
    /\ dropped \in BOOLEAN

\* What a place in the code says of the variables there.
WriterInv == \A w \in Writers :
    /\ th[w].pc # "idle" => th[w].cur \in Bufs
    /\ th[w].pc \in {"count", "store", "retest"} => map[w] = th[w].cur
    /\ th[w].pc = "busy" => dropped
FlushInv == flush.pc \in {"write", "give"} <=> flush.p # None
CloseInv == /\ close.pc # "alive" => /\ \A w \in Writers : th[w].pc = "idle"
                                     /\ \A w \in close.unpushed : map[w] # None
            /\ close.pc \in {"notify", "join", "deleted"} => close.unpushed = {}

\* An increment of buftotalnum belongs to a buffer that was made: lost or not,
\* buftotalnum is never too large.
CounterInv == /\ total <= made
              /\ \A w \in Writers : th[w].pc \in {"count", "recount"} => th[w].seen < made

\* The places of every buffer, and which of them are FREE.
Clean == ~dropped /\ close.pc # "deleted"
OwnedBy == [w \in Writers |-> Owned(w)]
PlaceInv == Clean => \A b \in Bufs :
                Ledger(b, OwnedBy, flushq, freeq, flush.p) = IF b <= made THEN 1 ELSE 0
FreeInv == Clean =>
    /\ \A w \in Writers : th[w].pc # "push" => \A b \in Owned(w) : buf[b].state = "FREE"
    /\ \A b \in Bufs : b > made => buf[b].state = "FREE"
    /\ \A i \in 1 .. Len(freeq) : buf[freeq[i]].state = "FREE"
    /\ flush.pc = "give" => buf[flush.p].state = "FREE"

LoggerInv == /\ LoggerTypes /\ WriterInv /\ FlushInv /\ CloseInv /\ CounterInv
             /\ PlaceInv /\ FreeInv /\ DropsAtLimit

-----------------------------------------------------------------------------

LEMMA HoldersFinite ==
    ASSUME NEW f, NEW b
    PROVE  IsFiniteSet(Holders(f, b)) /\ Cardinality(Holders(f, b)) \in Nat
BY WritersAssumption, FS_Subset, FS_CardinalityType DEF Holders

\* What a thread takes or hands over.
LEMMA HoldersMove ==
    ASSUME NEW f, NEW g, NEW w \in Writers, \A v \in Writers \ {w} : g[v] = f[v], NEW b
    PROVE  Cardinality(Holders(g, b)) = Cardinality(Holders(f, b)) - In(b, f[w]) + In(b, g[w])
<1> DEFINE D == {v \in Writers \ {w} : b \in f[v]}
<1>1. IsFiniteSet(D) /\ Cardinality(D) \in Nat
  BY WritersAssumption, FS_Subset, FS_CardinalityType
<1>2. w \notin D
  OBVIOUS
<1>3. Holders(f, b) = IF b \in f[w] THEN D \cup {w} ELSE D
  BY DEF Holders
<1>4. Holders(g, b) = IF b \in g[w] THEN D \cup {w} ELSE D
  BY DEF Holders
<1> HIDE DEF D
<1>5. Cardinality(D \cup {w}) = Cardinality(D) + 1
  BY <1>1, <1>2, FS_AddElement
<1>6. Cardinality(Holders(f, b)) = Cardinality(D) + In(b, f[w])
  BY <1>1, <1>3, <1>5 DEF In
<1>7. Cardinality(Holders(g, b)) = Cardinality(D) + In(b, g[w])
  BY <1>1, <1>4, <1>5 DEF In
<1>8. In(b, f[w]) \in Nat /\ In(b, g[w]) \in Nat
  BY DEF In
<1>9. QED
  BY <1>1, <1>6, <1>7, <1>8

Moved(f, g, w, b) == Cardinality(Holders(g, b)) = Cardinality(Holders(f, b)) - In(b, f[w]) + In(b, g[w])

LEMMA HoldersMoved ==
    ASSUME NEW f, NEW g, NEW w, w \in Writers, \A v \in Writers \ {w} : g[v] = f[v], NEW b
    PROVE  Moved(f, g, w, b)
BY HoldersMove DEF Moved

\* Two threads that hold a buffer count two.
LEMMA HoldersTwo ==
    ASSUME NEW f, NEW b, NEW v \in Writers, NEW w \in Writers, b \in f[v], b \in f[w],
           Cardinality(Holders(f, b)) <= 1
    PROVE  v = w
<1>1. IsFiniteSet(Holders(f, b)) /\ Cardinality(Holders(f, b)) \in Nat
  BY HoldersFinite
<1>2. {v, w} \in SUBSET Holders(f, b)
  BY DEF Holders
<1>3. Cardinality({v, w}) <= 1
  <2>1. Cardinality({v, w}) <= Cardinality(Holders(f, b)) /\ IsFiniteSet({v, w})
    BY <1>1, <1>2, FS_Subset
  <2>2. Cardinality({v, w}) \in Nat
    BY <2>1, FS_CardinalityType
  <2>3. QED
    BY <1>1, <2>1, <2>2
<1>4. IsFiniteSet({v}) /\ Cardinality({v}) = 1
  BY FS_Singleton
<1>5. Cardinality({v} \cup {w}) = IF w \in {v} THEN 1 ELSE 2
  BY <1>4, FS_AddElement
<1>6. {v} \cup {w} = {v, w}
  OBVIOUS
<1>7. QED
  BY <1>3, <1>5, <1>6

LEMMA PlacesFinite ==
    ASSUME NEW q \in Seq(Bufs), NEW b
    PROVE  Places(b, q) \in Nat
<1>1. DOMAIN q = 1 .. Len(q) /\ Len(q) \in Nat
  OBVIOUS
<1>2. IsFiniteSet(DOMAIN q)
  BY <1>1, FS_Interval
<1>3. {i \in DOMAIN q : q[i] = b} \in SUBSET DOMAIN q
  OBVIOUS
<1>4. QED
  BY <1>2, <1>3, FS_Subset, FS_CardinalityType DEF Places

\* A buffer that is in a queue is counted there.
LEMMA PlacesSeen ==
    ASSUME NEW q \in Seq(Bufs), NEW i \in 1 .. Len(q)
    PROVE  Places(q[i], q) > 0
<1> DEFINE S == {j \in DOMAIN q : q[j] = q[i]}
<1>1. DOMAIN q = 1 .. Len(q) /\ Len(q) \in Nat
  OBVIOUS
<1>2. IsFiniteSet(S)
  <2>1. \A j \in S : j \in Nat /\ j <= Len(q)
    BY <1>1
  <2> HIDE DEF S
  <2>2. QED
    BY <1>1, <2>1, FiniteRange
<1>3. S # {}
  BY <1>1
<1>4. Places(q[i], q) = Cardinality(S)
  BY DEF Places
<1> HIDE DEF S
<1>5. Cardinality(S) \in Nat /\ Cardinality(S) # 0
  BY <1>2, <1>3, FS_EmptySet, FS_CardinalityType
<1>6. QED
  BY <1>4, <1>5

LEMMA PlacesAppend ==
    ASSUME NEW q \in Seq(Bufs), NEW c \in Bufs, NEW b
    PROVE  Places(b, Append(q, c)) = Places(b, q) + Has(b, c)
<1> DEFINE n == Len(q)
<1> DEFINE S == {i \in 1 .. n : q[i] = b}
<1> DEFINE U == {i \in 1 .. n + 1 : Append(q, c)[i] = b}
<1>1. n \in Nat /\ DOMAIN q = 1 .. n /\ DOMAIN Append(q, c) = 1 .. n + 1
  OBVIOUS
<1>2. Append(q, c)[n + 1] = c /\ \A i \in 1 .. n : Append(q, c)[i] = q[i]
  OBVIOUS
<1>3. U = IF b = c THEN S \cup {n + 1} ELSE S
  BY <1>1, <1>2
<1>4. IsFiniteSet(S) /\ n + 1 \notin S
  <2>1. n + 1 \notin S /\ \A j \in S : j \in Nat /\ j <= n
    BY <1>1
  <2> HIDE DEF S, n
  <2>2. QED
    BY <1>1, <2>1, FiniteRange
<1>5. Places(b, q) = Cardinality(S) /\ Places(b, Append(q, c)) = Cardinality(U)
  BY <1>1 DEF Places
<1> HIDE DEF S, U, n
<1>6. Cardinality(S \cup {n + 1}) = Cardinality(S) + 1 /\ Cardinality(S) \in Nat
  BY <1>4, FS_AddElement, FS_CardinalityType
<1>7. QED
  BY <1>3, <1>5, <1>6 DEF Has

LEMMA PlacesTail ==
    ASSUME NEW q \in Seq(Bufs), q # <<>>, NEW b
    PROVE  Places(b, Tail(q)) = Places(b, q) - Has(b, Head(q))
<1> DEFINE n == Len(q)
<1> DEFINE S == {i \in 2 .. n : q[i] = b}
<1> DEFINE V == {i \in 1 .. n - 1 : Tail(q)[i] = b}
<1> DEFINE U == {i \in DOMAIN q : q[i] = b}
<1> DEFINE shift == [i \in V |-> i + 1]
<1>1. /\ n \in Nat /\ n > 0 /\ DOMAIN q = 1 .. n /\ DOMAIN Tail(q) = 1 .. n - 1
      /\ Head(q) = q[1] /\ \A i \in 1 .. n - 1 : Tail(q)[i] = q[i + 1]
  OBVIOUS
<1>2. shift \in [V -> S]
  BY <1>1
<1>3. \A i, j \in V : shift[i] = shift[j] => i = j
  BY <1>1
<1>4. \A j \in S : \E i \in V : shift[i] = j
  <2>1. SUFFICES ASSUME NEW j \in S PROVE \E i \in V : shift[i] = j
    OBVIOUS
  <2>2. j - 1 \in V /\ shift[j - 1] = j
    BY <1>1
  <2>3. QED
    BY <2>2
<1>5. IsFiniteSet(S) /\ IsFiniteSet(V) /\ 1 \notin S
  <2>1. 1 \notin S /\ \A j \in S : j \in Nat /\ j <= n
    BY <1>1
  <2>2. \A j \in V : j \in Nat /\ j <= n
    BY <1>1
  <2> HIDE DEF S, V, n
  <2>3. QED
    BY <1>1, <2>1, <2>2, FiniteRange
<1>6. U = IF b = Head(q) THEN S \cup {1} ELSE S
  BY <1>1
<1>7. Places(b, Tail(q)) = Cardinality(V) /\ Places(b, q) = Cardinality(U)
  BY <1>1 DEF Places
<1> HIDE DEF S, V, U, n, shift
<1>8. Cardinality(S) = Cardinality(V)
  <2>1. shift \in Bijection(V, S)
    BY <1>2, <1>3, <1>4 DEF Bijection, Injection, Surjection, IsInjective
  <2>2. ExistsBijection(V, S)
    BY <2>1 DEF ExistsBijection
  <2>3. QED
    BY <1>5, <2>2, FS_Bijection
<1>9. Cardinality(S \cup {1}) = Cardinality(S) + 1 /\ Cardinality(S) \in Nat
  BY <1>5, FS_AddElement, FS_CardinalityType
<1>10. Places(b, q) = Cardinality(S) + Has(b, Head(q))
  <2>1. CASE b = Head(q)
    BY <1>6, <1>7, <1>9, <2>1 DEF Has
  <2>2. CASE b # Head(q)
    BY <1>6, <1>7, <1>9, <2>2 DEF Has
  <2>3. QED
    BY <2>1, <2>2
<1>11. Has(b, Head(q)) \in Nat
  BY DEF Has
<1>12. QED
  BY <1>7, <1>8, <1>9, <1>10, <1>11

-----------------------------------------------------------------------------

LEMMA NoneIsNoBuf == None \notin Bufs /\ Bufs \subseteq Nat
BY NoneAssumption, BoundsAssumption DEF Bufs

LEMMA OwnedTypes ==
    ASSUME LoggerTypes, WriterInv
    PROVE  \A w \in Writers : Owned(w) \subseteq Bufs
BY DEF LoggerTypes, WriterInv, Owned, At

\* Owned, one rule for each place.
OwnedRule(w) ==
    /\ th[w].pc \in {"notify", "replace"} => Owned(w) = {}
    /\ th[w].pc = "idle" => Owned(w) = IF close.pc = "alive" \/ w \in close.unpushed
                                      THEN {map[w]} \ {None} ELSE {}
    /\ th[w].pc \notin {"notify", "replace", "idle"} => Owned(w) = {th[w].cur}

LEMMA OwnedRules ==
    ASSUME NEW w \in Writers
    PROVE  OwnedRule(w) /\ OwnedRule(w)'
<1>1. OwnedRule(w)
  BY Zenon DEF OwnedRule, Owned, At
<1>2. OwnedRule(w)'
  BY Zenon DEF OwnedRule, Owned, At
<1>3. QED
  BY <1>1, <1>2

\* Nobody who is left alone gains or loses a buffer.
LEMMA OwnedSame ==
    ASSUME NEW w \in Writers, th'[w] = th[w], map'[w] = map[w], UNCHANGED close
    PROVE  Owned(w)' = Owned(w)
BY DEF Owned, At

LEMMA LoggerInitInv == Init => LoggerInv
<1>1. SUFFICES ASSUME Init PROVE LoggerInv
  OBVIOUS
<1>2. LoggerTypes
  <2>1. MaxBufs \in Nat
    BY BoundsAssumption
  <2>2. buf \in [Bufs -> Buffer]
    BY <1>1 DEF Init, Buffer
  <2>3. th \in [Writers -> Thread]
    BY <1>1 DEF Init, Thread, WriterStates
  <2>4. flush \in [pc : FlushStates, p : Bufs \cup {None}] /\ close \in [pc : CloseStates, unpushed : SUBSET Writers]
    BY <1>1 DEF Init, FlushStates, CloseStates
  <2>5. map \in [Writers -> Bufs \cup {None}] /\ flushq \in Seq(Bufs) /\ freeq \in Seq(Bufs)
    BY <1>1 DEF Init
  <2>6. total \in Nat /\ made \in 0 .. MaxBufs
    BY <1>1, <2>1 DEF Init
  <2>7. dropped \in BOOLEAN
    BY <1>1, Zenon DEF Init
  <2>8. QED
    BY <2>2, <2>3, <2>4, <2>5, <2>6, <2>7 DEF LoggerTypes
<1>3. \A w \in Writers : th[w].pc = "idle" /\ Owned(w) = {}
  BY <1>1 DEF Init, Owned, At
<1>4. WriterInv /\ FlushInv /\ CloseInv /\ CounterInv /\ DropsAtLimit /\ FreeInv
  BY <1>1, <1>3 DEF Init, WriterInv, FlushInv, CloseInv, CounterInv, DropsAtLimit, FreeInv
<1>5. PlaceInv
  <2>1. SUFFICES ASSUME NEW b \in Bufs
                 PROVE  Ledger(b, OwnedBy, flushq, freeq, flush.p) = IF b <= made THEN 1 ELSE 0
    BY DEF PlaceInv
  <2>2. Holders(OwnedBy, b) = {}
    BY <1>3 DEF Holders, OwnedBy
  <2>3. {i \in DOMAIN <<>> : <<>>[i] = b} = {}
    OBVIOUS
  <2>4. Places(b, flushq) = 0 /\ Places(b, freeq) = 0
    BY <1>1, <2>3, FS_EmptySet DEF Init, Places
  <2>5. Has(b, flush.p) = 0
    BY <1>1, NoneIsNoBuf DEF Init, Has
  <2>6. ~(b <= made)
    BY <1>1, BoundsAssumption DEF Init, Bufs
  <2>7. QED
    BY <2>2, <2>4, <2>5, <2>6, FS_EmptySet DEF Ledger
<1>6. QED
  BY <1>2, <1>4, <1>5 DEF LoggerInv

-----------------------------------------------------------------------------
(* What one place implies: the buffer is in no other.                      *)

LEMMA LedgerParts ==
    ASSUME LoggerTypes, NEW b
    PROVE  /\ Cardinality(Holders(OwnedBy, b)) \in Nat
           /\ Places(b, flushq) \in Nat /\ Places(b, freeq) \in Nat
           /\ Has(b, flush.p) \in Nat
BY HoldersFinite, PlacesFinite DEF LoggerTypes, Has

LEMMA HolderCounts ==
    ASSUME NEW f, NEW b, NEW w \in Writers, b \in f[w]
    PROVE  Cardinality(Holders(f, b)) > 0
<1>1. IsFiniteSet(Holders(f, b)) /\ Cardinality(Holders(f, b)) \in Nat
  BY HoldersFinite
<1>2. Holders(f, b) # {}
  BY DEF Holders
<1>3. QED
  BY <1>1, <1>2, FS_EmptySet

LEMMA OwnedAlone ==
    ASSUME LoggerInv, Clean, NEW w \in Writers, NEW b \in Owned(w)
    PROVE  /\ b \in Bufs /\ b <= made
           /\ \A v \in Writers : b \in Owned(v) => v = w
           /\ \A i \in 1 .. Len(flushq) : flushq[i] # b
           /\ \A i \in 1 .. Len(freeq) : freeq[i] # b
           /\ flush.p # b
<1>1. b \in Bufs /\ b \in OwnedBy[w]
  BY OwnedTypes DEF LoggerInv, OwnedBy
<1>2. /\ Cardinality(Holders(OwnedBy, b)) \in Nat
      /\ Places(b, flushq) \in Nat /\ Places(b, freeq) \in Nat
      /\ Has(b, flush.p) \in Nat
  BY LedgerParts DEF LoggerInv
<1>3. Cardinality(Holders(OwnedBy, b)) > 0
  BY <1>1, HolderCounts
<1>4. Ledger(b, OwnedBy, flushq, freeq, flush.p) = IF b <= made THEN 1 ELSE 0
  BY <1>1 DEF LoggerInv, PlaceInv
<1>5. /\ b <= made /\ Cardinality(Holders(OwnedBy, b)) <= 1
      /\ Places(b, flushq) = 0 /\ Places(b, freeq) = 0 /\ Has(b, flush.p) = 0
  BY <1>2, <1>3, <1>4 DEF Ledger
<1>6. \A v \in Writers : b \in Owned(v) => v = w
  BY <1>1, <1>5, HoldersTwo DEF OwnedBy
<1>7. \A i \in 1 .. Len(flushq) : flushq[i] # b
  <2>1. flushq \in Seq(Bufs)
    BY DEF LoggerInv, LoggerTypes
  <2>2. SUFFICES ASSUME NEW i \in 1 .. Len(flushq), flushq[i] = b PROVE FALSE
    OBVIOUS
  <2>3. QED
    BY <1>5, <2>1, <2>2, PlacesSeen
<1>8. \A i \in 1 .. Len(freeq) : freeq[i] # b
  <2>1. freeq \in Seq(Bufs)
    BY DEF LoggerInv, LoggerTypes
  <2>2. SUFFICES ASSUME NEW i \in 1 .. Len(freeq), freeq[i] = b PROVE FALSE
    OBVIOUS
  <2>3. QED
    BY <1>5, <2>1, <2>2, PlacesSeen
<1>9. flush.p # b
  BY <1>5 DEF Has
<1>10. QED
  BY <1>1, <1>5, <1>6, <1>7, <1>8, <1>9

-----------------------------------------------------------------------------
(* What a step leaves of the places and of the free buffers.               *)

\* A thread w has moved, the others have not.
LEMMA WriterMoves ==
    ASSUME NEW w \in Writers, \A v \in Writers \ {w} : Owned(v)' = Owned(v), NEW b
    PROVE  Cardinality(Holders(OwnedBy', b))
             = Cardinality(Holders(OwnedBy, b)) - In(b, Owned(w)) + In(b, Owned(w)')
<1> DEFINE f == OwnedBy
<1> DEFINE g == OwnedBy'
<1>1. \A v \in Writers \ {w} : g[v] = f[v]
  BY DEF OwnedBy
<1>2. f[w] = Owned(w) /\ g[w] = Owned(w)'
  BY DEF OwnedBy
<1> HIDE DEF f, g
<1>3. Moved(f, g, w, b)
  BY <1>1, HoldersMoved, Zenon
<1>4. QED
  BY <1>2, <1>3, Zenon DEF Moved, f, g

\* A step in which every buffer stays where it is.
LEMMA PlaceSame ==
    ASSUME PlaceInv, UNCHANGED <<flushq, freeq, flush.p, made>>, Clean' => Clean,
           \A w \in Writers : Owned(w)' = Owned(w)
    PROVE  PlaceInv'
<1>1. OwnedBy' = OwnedBy
  BY DEF OwnedBy
<1>2. QED
  BY <1>1 DEF PlaceInv, Ledger

LEMMA FreeSame ==
    ASSUME LoggerInv, UNCHANGED <<freeq, flush.p, made>>, Clean' => Clean,
           flush'.pc = "give" => flush.pc = "give",
           \A b \in Bufs : buf'[b].state = buf[b].state,
           \A w \in Writers : Owned(w)' = Owned(w) /\ (th'[w].pc # "push" => th[w].pc # "push")
    PROVE  FreeInv'
<1>1. \A w \in Writers : Owned(w) \subseteq Bufs
  BY OwnedTypes DEF LoggerInv
<1>2. freeq \in Seq(Bufs) /\ flush.p \in Bufs \cup {None} /\ (flush.pc = "give" => flush.p # None)
  BY DEF LoggerInv, LoggerTypes, FlushInv
<1>3. FreeInv
  BY DEF LoggerInv
<1>4. QED
  BY <1>1, <1>2, <1>3 DEF FreeInv

\* A thread in Append runs before the destructor does.
LEMMA WriterAlive ==
    ASSUME LoggerInv, NEW w \in Writers, th[w].pc # "idle"
    PROVE  close.pc = "alive"
BY DEF LoggerInv, CloseInv

\* What a step makes of the thread w, and that it leaves the others alone.
Became(w, place, b, number, lines) ==
    /\ th'[w].pc = place /\ th'[w].cur = b /\ th'[w].seen = number /\ th'[w].count = lines
    /\ \A v \in Writers \ {w} : th'[v] = th[v]

LEMMA GotoIs ==
    ASSUME th \in [Writers -> Thread], NEW w \in Writers, NEW place \in WriterStates, Goto(w, place)
    PROVE  /\ th' \in [Writers -> Thread]
           /\ Became(w, place, th[w].cur, th[w].seen, th[w].count)
<1>1. th[w] \in Thread
  OBVIOUS
<1> DEFINE r == [th[w] EXCEPT !.pc = place]
<1>2. /\ r \in Thread
      /\ r.pc = place /\ r.cur = th[w].cur /\ r.seen = th[w].seen /\ r.count = th[w].count
  BY <1>1 DEF Thread
<1>3. th' = [th EXCEPT ![w] = r]
  BY DEF Goto
<1> HIDE DEF r
<1>4. th'[w] = r /\ \A v \in Writers \ {w} : th'[v] = th[v]
  BY <1>3
<1>5. th' \in [Writers -> Thread]
  BY <1>2, <1>3
<1>6. QED
  BY <1>2, <1>4, <1>5 DEF Became

LEMMA UseIs ==
    ASSUME th \in [Writers -> Thread], NEW w \in Writers, NEW place \in WriterStates,
           NEW b \in Bufs \cup {None}, Use(w, b, place)
    PROVE  /\ th' \in [Writers -> Thread]
           /\ Became(w, place, b, th[w].seen, th[w].count)
<1> DEFINE t == [th EXCEPT ![w].pc = place]
<1> DEFINE q == t[w]
<1> DEFINE r == [q EXCEPT !.cur = b]
<1>1. t \in [Writers -> Thread] /\ \A v \in Writers \ {w} : t[v] = th[v]
  <2> DEFINE x == [th[w] EXCEPT !.pc = place]
  <2>1. x \in Thread
    BY DEF Thread
  <2>2. t = [th EXCEPT ![w] = x]
    OBVIOUS
  <2> HIDE DEF x, t
  <2>3. QED
    BY <2>1, <2>2
<1>2. q \in Thread /\ q.pc = place /\ q.seen = th[w].seen /\ q.count = th[w].count
  BY DEF Thread
<1>3. th' = [t EXCEPT ![w] = r]
  BY DEF Use
<1> HIDE DEF q, t
<1>4. /\ r \in Thread
      /\ r.pc = place /\ r.cur = b /\ r.seen = th[w].seen /\ r.count = th[w].count
  BY <1>2 DEF Thread
<1> HIDE DEF r
<1>5. th'[w] = r /\ \A v \in Writers \ {w} : th'[v] = th[v]
  BY <1>1, <1>3
<1>6. th' \in [Writers -> Thread]
  BY <1>1, <1>3, <1>4
<1>7. QED
  BY <1>4, <1>5, <1>6 DEF Became

\* A store and the change to FLUSH: what they make of the buffers.
LEMMA StoreInIs ==
    ASSUME buf \in [Bufs -> Buffer], NEW b \in Bufs, NEW w \in Writers, th[w].count \in Nat,
           StoreIn(b, w)
    PROVE  buf' \in [Bufs -> Buffer] /\ \A c \in Bufs : buf'[c].state = buf[c].state
<1> DEFINE r == [buf[b] EXCEPT !.lines = Append(@, <<w, th[w].count>>)]
<1>1. buf[b] \in Buffer /\ Append(buf[b].lines, <<w, th[w].count>>) \in Seq(Writers \X Nat)
  BY DEF Buffer
<1>2. r \in Buffer /\ r.state = buf[b].state
  BY <1>1 DEF Buffer
<1>3. buf' = [buf EXCEPT ![b] = r]
  BY DEF StoreIn
<1> HIDE DEF r
<1>4. QED
  BY <1>2, <1>3

LEMMA ToFlushIs ==
    ASSUME buf \in [Bufs -> Buffer], NEW b \in Bufs, buf' = [buf EXCEPT ![b].state = "FLUSH"]
    PROVE  buf' \in [Bufs -> Buffer] /\ \A c \in Bufs \ {b} : buf'[c] = buf[c]
<1> DEFINE r == [buf[b] EXCEPT !.state = "FLUSH"]
<1>1. r \in Buffer
  BY DEF Buffer
<1>2. buf' = [buf EXCEPT ![b] = r]
  OBVIOUS
<1> HIDE DEF r
<1>3. QED
  BY <1>1, <1>2

LEMMA NotifyOneIs ==
    ASSUME LoggerTypes, NotifyOne
    PROVE  /\ flush' \in [pc : FlushStates, p : Bufs \cup {None}] /\ flush'.p = flush.p
           /\ flush'.pc = flush.pc \/ (flush.pc = "blocked" /\ flush'.pc = "test")
BY DEF LoggerTypes, NotifyOne, FlushStates

LEMMA OwnedOthers ==
    ASSUME NEW w \in Writers, NEW place, NEW b, NEW number, NEW lines,
           Became(w, place, b, number, lines), UNCHANGED close,
           \A v \in Writers \ {w} : map'[v] = map[v]
    PROVE  \A v \in Writers \ {w} : Owned(v)' = Owned(v)
BY OwnedSame DEF Became

\* A buffer is made for a thread that had none.
LEMMA PlaceNew ==
    ASSUME LoggerInv, NEW w \in Writers, Owned(w) = {}, Owned(w)' = {made'}, made' = made + 1,
           \A v \in Writers \ {w} : Owned(v)' = Owned(v),
           UNCHANGED <<flushq, freeq, flush.p>>, Clean' => Clean
    PROVE  PlaceInv'
<1>1. SUFFICES ASSUME Clean, NEW b \in Bufs
               PROVE  Ledger(b, OwnedBy', flushq, freeq, flush.p) = IF b <= made + 1 THEN 1 ELSE 0
  BY DEF PlaceInv, Ledger
<1>2. Ledger(b, OwnedBy, flushq, freeq, flush.p) = IF b <= made THEN 1 ELSE 0
  BY <1>1 DEF LoggerInv, PlaceInv
<1>3. Cardinality(Holders(OwnedBy', b))
        = Cardinality(Holders(OwnedBy, b)) - In(b, Owned(w)) + In(b, Owned(w)')
  BY WriterMoves
<1>4. In(b, Owned(w)) = 0 /\ In(b, Owned(w)') = IF b = made + 1 THEN 1 ELSE 0
  BY DEF In
<1>5. LoggerTypes /\ b \in Nat /\ made \in Nat
  BY NoneIsNoBuf, BoundsAssumption DEF LoggerInv, LoggerTypes
<1>6. /\ Cardinality(Holders(OwnedBy, b)) \in Nat
      /\ Places(b, flushq) \in Nat /\ Places(b, freeq) \in Nat
      /\ Has(b, flush.p) \in Nat
  BY <1>5, LedgerParts
<1>7. QED
  BY <1>2, <1>3, <1>4, <1>5, <1>6 DEF Ledger

\* A thread puts its buffer on the flush queue.
LEMMA PlaceToFlush ==
    ASSUME LoggerInv, NEW w \in Writers, NEW c \in Bufs, Owned(w) = {c}, Owned(w)' = {},
           flushq' = Append(flushq, c), \A v \in Writers \ {w} : Owned(v)' = Owned(v),
           UNCHANGED <<freeq, flush.p, made>>, Clean' => Clean
    PROVE  PlaceInv'
<1>1. SUFFICES ASSUME Clean, NEW b \in Bufs
               PROVE  Ledger(b, OwnedBy', flushq', freeq, flush.p) = IF b <= made THEN 1 ELSE 0
  BY DEF PlaceInv, Ledger
<1>2. Ledger(b, OwnedBy, flushq, freeq, flush.p) = IF b <= made THEN 1 ELSE 0
  BY <1>1 DEF LoggerInv, PlaceInv
<1>3. Cardinality(Holders(OwnedBy', b))
        = Cardinality(Holders(OwnedBy, b)) - In(b, Owned(w)) + In(b, Owned(w)')
  BY WriterMoves
<1>4. In(b, Owned(w)) = Has(b, c) /\ In(b, Owned(w)') = 0 /\ Has(b, c) \in Nat
  BY DEF In, Has
<1>5. Places(b, flushq') = Places(b, flushq) + Has(b, c)
  BY PlacesAppend DEF LoggerInv, LoggerTypes
<1>6. /\ Cardinality(Holders(OwnedBy, b)) \in Nat
      /\ Places(b, flushq) \in Nat /\ Places(b, freeq) \in Nat
      /\ Has(b, flush.p) \in Nat
  BY LedgerParts DEF LoggerInv
<1>7. QED
  BY <1>2, <1>3, <1>4, <1>5, <1>6 DEF Ledger

\* A thread that had no buffer takes the first free one.
LEMMA PlaceFromFree ==
    ASSUME LoggerInv, NEW w \in Writers, freeq # <<>>, Owned(w) = {}, Owned(w)' = {Head(freeq)},
           freeq' = Tail(freeq), \A v \in Writers \ {w} : Owned(v)' = Owned(v),
           UNCHANGED <<flushq, flush.p, made>>, Clean' => Clean
    PROVE  PlaceInv'
<1>1. SUFFICES ASSUME Clean, NEW b \in Bufs
               PROVE  Ledger(b, OwnedBy', flushq, freeq', flush.p) = IF b <= made THEN 1 ELSE 0
  BY DEF PlaceInv, Ledger
<1>2. Ledger(b, OwnedBy, flushq, freeq, flush.p) = IF b <= made THEN 1 ELSE 0
  BY <1>1 DEF LoggerInv, PlaceInv
<1>3. Cardinality(Holders(OwnedBy', b))
        = Cardinality(Holders(OwnedBy, b)) - In(b, Owned(w)) + In(b, Owned(w)')
  BY WriterMoves
<1>4. /\ In(b, Owned(w)) = 0 /\ In(b, Owned(w)') = Has(b, Head(freeq))
      /\ Has(b, Head(freeq)) \in Nat
  BY DEF In, Has
<1>5. Places(b, freeq') = Places(b, freeq) - Has(b, Head(freeq))
  BY PlacesTail DEF LoggerInv, LoggerTypes
<1>6. /\ Cardinality(Holders(OwnedBy, b)) \in Nat
      /\ Places(b, flushq) \in Nat /\ Places(b, freeq) \in Nat
      /\ Has(b, flush.p) \in Nat
  BY LedgerParts DEF LoggerInv
<1>7. QED
  BY <1>2, <1>3, <1>4, <1>5, <1>6 DEF Ledger

-----------------------------------------------------------------------------
(* Append.                                                                 *)

LEMMA CountFirstInv ==
    ASSUME LoggerInv, NEW w \in Writers, CountFirst(w)
    PROVE  LoggerInv'
<1>1. th[w].pc = "count" /\ th[w].seen \in Nat /\ th[w].seen < made
  BY DEF LoggerInv, LoggerTypes, Thread, CounterInv, CountFirst, At
<1>2. th' \in [Writers -> Thread] /\ Became(w, "store", th[w].cur, th[w].seen, th[w].count)
  BY GotoIs DEF LoggerInv, LoggerTypes, CountFirst, WriterStates
<1>3. LoggerTypes'
  BY <1>1, <1>2 DEF LoggerInv, LoggerTypes, CountFirst, Counted
<1>4. WriterInv' /\ FlushInv' /\ CloseInv' /\ DropsAtLimit'
  BY <1>1, <1>2 DEF LoggerInv, CountFirst, Counted, Became, WriterInv, FlushInv, CloseInv, DropsAtLimit
<1>5. CounterInv'
  <2>1. total' <= made /\ UNCHANGED made
    BY <1>1, BoundsAssumption DEF LoggerInv, LoggerTypes, CountFirst, Counted
  <2>2. QED
    BY <1>2, <2>1 DEF LoggerInv, Became, CounterInv
<1>6. \A v \in Writers : Owned(v)' = Owned(v)
  <2>1. Owned(w)' = Owned(w)
    BY <1>1, <1>2, OwnedRules DEF OwnedRule, CountFirst, Counted, Became
  <2>2. QED
    BY <1>2, <2>1, OwnedOthers DEF CountFirst, Counted
<1>7. PlaceInv'
  BY <1>6, PlaceSame DEF LoggerInv, CountFirst, Counted, Clean
<1>8. FreeInv'
  BY <1>1, <1>2, <1>6, FreeSame DEF CountFirst, Counted, Became, Clean
<1>9. QED
  BY <1>3, <1>4, <1>5, <1>7, <1>8 DEF LoggerInv

LEMMA StoreInv ==
    ASSUME LoggerInv, NEW w \in Writers, Store(w)
    PROVE  LoggerInv'
<1>1. /\ th[w].pc = "store" /\ th[w].cur \in Bufs /\ th[w].count \in Nat /\ map[w] = th[w].cur
      /\ close.pc = "alive" /\ buf \in [Bufs -> Buffer] /\ th \in [Writers -> Thread]
  BY WriterAlive DEF LoggerInv, LoggerTypes, Thread, WriterInv, Store, At
<1>2. /\ UNCHANGED <<map, flushq, freeq, total, made, flush, start, file, close, dropped>>
      /\ th' \in [Writers -> Thread] /\ buf' \in [Bufs -> Buffer]
      /\ \A c \in Bufs : buf'[c].state = buf[c].state
      /\ \/ Became(w, "idle", None, th[w].seen, th[w].count)
         \/ Became(w, "retest", th[w].cur, th[w].seen, th[w].count)
  <2>1. CASE Room(th[w].cur)
    BY <1>1, <2>1, UseIs, StoreInIs DEF Store, Return, WriterStates, poolVars
  <2>2. CASE ~Room(th[w].cur)
    BY <1>1, <2>2, GotoIs DEF Store, WriterStates, poolVars
  <2>3. QED
    BY <2>1, <2>2
<1>3. LoggerTypes'
  BY <1>2 DEF LoggerInv, LoggerTypes
<1>4. WriterInv' /\ FlushInv' /\ CloseInv' /\ DropsAtLimit'
  BY <1>1, <1>2 DEF LoggerInv, Became, WriterInv, FlushInv, CloseInv, DropsAtLimit
<1>5. CounterInv'
  BY <1>1, <1>2 DEF LoggerInv, LoggerTypes, Became, CounterInv
<1>6. \A v \in Writers : Owned(v)' = Owned(v)
  <2>1. {map[w]} \ {None} = {th[w].cur}
    BY <1>1, NoneIsNoBuf
  <2>2. OwnedRule(w) /\ OwnedRule(w)'
    BY OwnedRules
  <2>3. Owned(w)' = Owned(w)
    BY <1>1, <1>2, <2>1, <2>2 DEF OwnedRule, Became
  <2>4. QED
    BY <1>2, <2>3, OwnedOthers
<1>7. PlaceInv'
  BY <1>2, <1>6, PlaceSame DEF LoggerInv, Clean
<1>8. FreeInv'
  BY <1>1, <1>2, <1>6, FreeSame DEF Became, Clean
<1>9. QED
  BY <1>3, <1>4, <1>5, <1>7, <1>8 DEF LoggerInv

LEMMA RetestInv ==
    ASSUME LoggerInv, NEW w \in Writers, Retest(w)
    PROVE  LoggerInv'
<1>1. /\ th[w].pc = "retest" /\ th[w].cur \in Bufs /\ map[w] = th[w].cur /\ close.pc = "alive"
      /\ buf \in [Bufs -> Buffer] /\ th \in [Writers -> Thread]
  BY WriterAlive DEF LoggerInv, LoggerTypes, Thread, WriterInv, Retest, At
<1>2. UNCHANGED <<map, flushq, freeq, total, made, flush, start, file, close, dropped>>
  BY DEF Retest, poolVars
<1>3. Owned(w) = {th[w].cur}
  BY <1>1, OwnedRules DEF OwnedRule
<1>4. ~dropped => buf[th[w].cur].state = "FREE"
  BY <1>1, <1>3 DEF LoggerInv, FreeInv, Clean
<1>5. CASE buf[th[w].cur].state = "FREE"
  <2>1. th' \in [Writers -> Thread] /\ Became(w, "push", th[w].cur, th[w].seen, th[w].count)
    BY <1>1, <1>5, GotoIs DEF Retest, WriterStates
  <2>2. buf' \in [Bufs -> Buffer] /\ \A c \in Bufs \ {th[w].cur} : buf'[c] = buf[c]
    BY <1>1, <1>5, ToFlushIs DEF Retest
  <2>3. LoggerTypes'
    BY <1>2, <2>1, <2>2 DEF LoggerInv, LoggerTypes
  <2>4. WriterInv' /\ FlushInv' /\ CloseInv' /\ DropsAtLimit'
    BY <1>1, <1>2, <2>1 DEF LoggerInv, Became, WriterInv, FlushInv, CloseInv, DropsAtLimit
  <2>5. CounterInv'
    BY <1>1, <1>2, <2>1 DEF LoggerInv, LoggerTypes, Became, CounterInv
  <2>6. \A v \in Writers : Owned(v)' = Owned(v)
    <3>1. Owned(w)' = Owned(w)
      BY <1>1, <2>1, OwnedRules DEF OwnedRule, Became
    <3>2. QED
      BY <1>2, <2>1, <3>1, OwnedOthers
  <2>7. PlaceInv'
    BY <1>2, <2>6, PlaceSame DEF LoggerInv, Clean
  <2>8. FreeInv'
    <3>1. SUFFICES ASSUME Clean PROVE FreeInv'
      BY <1>2 DEF FreeInv, Clean
    <3>2. /\ th[w].cur <= made
          /\ \A v \in Writers : th[w].cur \in Owned(v) => v = w
          /\ \A j \in 1 .. Len(freeq) : freeq[j] # th[w].cur
          /\ flush.p # th[w].cur
      BY <1>3, <3>1, OwnedAlone
    <3>3. /\ \A v \in Writers : Owned(v) \subseteq Bufs
          /\ freeq \in Seq(Bufs) /\ (flush.pc = "give" => flush.p \in Bufs)
      BY OwnedTypes DEF LoggerInv, LoggerTypes, FlushInv
    <3>4. \A v \in Writers : th'[v].pc # "push" => \A b \in Owned(v) : buf'[b].state = "FREE"
      <4>1. SUFFICES ASSUME NEW v \in Writers, th'[v].pc # "push", NEW b \in Owned(v)
                     PROVE  buf'[b].state = "FREE"
        OBVIOUS
      <4>2. v # w /\ th[v].pc # "push"
        BY <2>1, <4>1 DEF Became
      <4>3. b \in Bufs \ {th[w].cur}
        BY <3>2, <3>3, <4>2
      <4>4. buf[b].state = "FREE"
        BY <3>1, <4>2 DEF LoggerInv, FreeInv
      <4>5. QED
        BY <2>2, <4>3, <4>4
    <3>5. \A b \in Bufs : b > made => buf'[b].state = "FREE"
      BY <1>1, <2>2, <3>1, <3>2, NoneIsNoBuf, BoundsAssumption DEF LoggerInv, LoggerTypes, FreeInv
    <3>6. \A j \in 1 .. Len(freeq) : buf'[freeq[j]].state = "FREE"
      BY <2>2, <3>1, <3>2, <3>3 DEF LoggerInv, FreeInv
    <3>7. flush.pc = "give" => buf'[flush.p].state = "FREE"
      BY <2>2, <3>1, <3>2, <3>3 DEF LoggerInv, FreeInv
    <3>8. QED
      BY <1>2, <2>6, <3>4, <3>5, <3>6, <3>7 DEF FreeInv
  <2>9. QED
    BY <2>3, <2>4, <2>5, <2>7, <2>8 DEF LoggerInv
<1>6. CASE buf[th[w].cur].state # "FREE"
  <2>1. th' \in [Writers -> Thread] /\ Became(w, "busy", th[w].cur, th[w].seen, th[w].count)
    BY <1>1, <1>6, GotoIs DEF Retest, WriterStates
  <2>2. buf' = buf /\ dropped /\ dropped'
    BY <1>2, <1>4, <1>6 DEF Retest
  <2>3. LoggerTypes'
    BY <1>2, <2>1, <2>2 DEF LoggerInv, LoggerTypes
  <2>4. WriterInv' /\ FlushInv' /\ CloseInv' /\ DropsAtLimit'
    BY <1>1, <1>2, <2>1, <2>2 DEF LoggerInv, Became, WriterInv, FlushInv, CloseInv, DropsAtLimit
  <2>5. CounterInv'
    BY <1>1, <1>2, <2>1 DEF LoggerInv, LoggerTypes, Became, CounterInv
  <2>6. PlaceInv' /\ FreeInv'
    BY <2>2 DEF PlaceInv, FreeInv, Clean
  <2>7. QED
    BY <2>3, <2>4, <2>5, <2>6 DEF LoggerInv
<1>7. QED
  BY <1>5, <1>6

LEMMA PushFlushInv ==
    ASSUME LoggerInv, NEW w \in Writers, PushFlush(w)
    PROVE  LoggerInv'
<1>1. /\ th[w].pc = "push" /\ th[w].cur \in Bufs /\ close.pc = "alive"
      /\ th \in [Writers -> Thread] /\ flushq \in Seq(Bufs)
  BY WriterAlive DEF LoggerInv, LoggerTypes, Thread, WriterInv, PushFlush, At
<1>2. /\ th' \in [Writers -> Thread]
      /\ Became(w, "notify", th[w].cur, th[w].seen, th[w].count)
  BY <1>1, GotoIs DEF PushFlush, WriterStates
<1>3. /\ UNCHANGED <<map, buf, freeq, total, made, flush, start, file, close, dropped>>
      /\ flushq' = Append(flushq, th[w].cur)
  BY DEF PushFlush, poolVars, Queue
<1>4. LoggerTypes'
  BY <1>1, <1>2, <1>3 DEF LoggerInv, LoggerTypes
<1>5. WriterInv' /\ FlushInv' /\ CloseInv' /\ DropsAtLimit'
  BY <1>1, <1>2, <1>3 DEF LoggerInv, Became, WriterInv, FlushInv, CloseInv, DropsAtLimit
<1>6. CounterInv'
  BY <1>1, <1>2, <1>3 DEF LoggerInv, LoggerTypes, Became, CounterInv
<1>7. Owned(w) = {th[w].cur} /\ Owned(w)' = {}
  BY <1>1, <1>2, OwnedRules DEF OwnedRule, Became
<1>8. \A v \in Writers \ {w} : Owned(v)' = Owned(v)
  BY <1>2, <1>3, OwnedOthers
<1>9. PlaceInv'
  BY <1>1, <1>3, <1>7, <1>8, PlaceToFlush DEF Clean
<1>10. FreeInv'
  BY <1>2, <1>3, <1>7, <1>8 DEF LoggerInv, FreeInv, Became, Clean
<1>11. QED
  BY <1>4, <1>5, <1>6, <1>9, <1>10 DEF LoggerInv

LEMMA NotifyInv ==
    ASSUME LoggerInv, NEW w \in Writers, Notify(w)
    PROVE  LoggerInv'
<1>1. th[w].pc = "notify" /\ th[w].cur \in Bufs /\ close.pc = "alive" /\ th \in [Writers -> Thread]
  BY WriterAlive DEF LoggerInv, LoggerTypes, Thread, WriterInv, Notify, At
<1>2. /\ th' \in [Writers -> Thread]
      /\ Became(w, "replace", th[w].cur, th[w].seen, th[w].count)
  BY <1>1, GotoIs DEF Notify, WriterStates
<1>3. UNCHANGED <<map, buf, flushq, freeq, total, made, start, file, close, dropped>>
  BY DEF Notify, poolVars
<1>4. /\ flush' \in [pc : FlushStates, p : Bufs \cup {None}] /\ flush'.p = flush.p
      /\ flush'.pc = flush.pc \/ (flush.pc = "blocked" /\ flush'.pc = "test")
  BY NotifyOneIs DEF LoggerInv, Notify
<1>5. LoggerTypes'
  BY <1>2, <1>3, <1>4 DEF LoggerInv, LoggerTypes
<1>6. WriterInv' /\ FlushInv' /\ CloseInv' /\ DropsAtLimit'
  BY <1>1, <1>2, <1>3, <1>4 DEF LoggerInv, Became, WriterInv, FlushInv, CloseInv, DropsAtLimit
<1>7. CounterInv'
  BY <1>1, <1>2, <1>3 DEF LoggerInv, LoggerTypes, Became, CounterInv
<1>8. \A v \in Writers : Owned(v)' = Owned(v)
  <2>1. Owned(w)' = Owned(w)
    BY <1>1, <1>2, OwnedRules DEF OwnedRule, Became
  <2>2. QED
    BY <1>2, <1>3, <2>1, OwnedOthers
<1>9. PlaceInv'
  BY <1>3, <1>4, <1>8, PlaceSame DEF LoggerInv, Clean
<1>10. FreeInv'
  BY <1>1, <1>2, <1>3, <1>4, <1>8, FreeSame DEF Became, Clean
<1>11. QED
  BY <1>5, <1>6, <1>7, <1>9, <1>10 DEF LoggerInv

LEMMA TakeFreeInv ==
    ASSUME LoggerInv, NEW w \in Writers, TakeFree(w)
    PROVE  LoggerInv'
<1>1. /\ th[w].pc = "replace" /\ th[w].count \in Nat /\ close.pc = "alive"
      /\ th \in [Writers -> Thread] /\ buf \in [Bufs -> Buffer] /\ freeq \in Seq(Bufs)
  BY WriterAlive DEF LoggerInv, LoggerTypes, Thread, TakeFree, At
<1>2. /\ freeq # <<>> /\ freeq' = Tail(freeq)
      /\ UNCHANGED <<map, flushq, total, made, flush, start, file, close, dropped>>
  BY DEF TakeFree, PopFree, poolVars
<1>3. /\ Head(freeq) = freeq[1] /\ 1 \in 1 .. Len(freeq) /\ Head(freeq) \in Bufs
      /\ freeq' \in Seq(Bufs) /\ Len(freeq') = Len(freeq) - 1 /\ Len(freeq) \in Nat
      /\ \A i \in 1 .. Len(freeq') : i + 1 \in 1 .. Len(freeq) /\ freeq'[i] = freeq[i + 1]
  BY <1>1, <1>2
<1>4. /\ th' \in [Writers -> Thread]
      /\ Became(w, "update", Head(freeq), th[w].seen, th[w].count)
  BY <1>1, <1>3, UseIs DEF TakeFree, WriterStates
<1>5. buf' \in [Bufs -> Buffer] /\ \A b \in Bufs : buf'[b].state = buf[b].state
  BY <1>1, <1>3, StoreInIs DEF TakeFree
<1>6. LoggerTypes'
  BY <1>2, <1>3, <1>4, <1>5 DEF LoggerInv, LoggerTypes
<1>7. WriterInv' /\ FlushInv' /\ CloseInv' /\ DropsAtLimit'
  BY <1>1, <1>2, <1>3, <1>4 DEF LoggerInv, Became, WriterInv, FlushInv, CloseInv, DropsAtLimit
<1>8. CounterInv'
  BY <1>1, <1>2, <1>4 DEF LoggerInv, LoggerTypes, Became, CounterInv
<1>9. Owned(w) = {} /\ Owned(w)' = {Head(freeq)}
  BY <1>1, <1>4, OwnedRules DEF OwnedRule, Became
<1>10. \A v \in Writers \ {w} : Owned(v)' = Owned(v)
  BY <1>2, <1>4, OwnedOthers
<1>11. PlaceInv'
  BY <1>2, <1>9, <1>10, PlaceFromFree DEF Clean
<1>12. FreeInv'
  <2>1. SUFFICES ASSUME Clean PROVE FreeInv'
    BY <1>2 DEF FreeInv, Clean
  <2>2. FreeInv
    BY DEF LoggerInv
  <2>3. /\ \A v \in Writers : Owned(v) \subseteq Bufs
        /\ flush.pc = "give" => flush.p \in Bufs
    BY OwnedTypes DEF LoggerInv, LoggerTypes, FlushInv
  <2>4. \A v \in Writers : th'[v].pc # "push" => \A b \in Owned(v)' : buf'[b].state = "FREE"
    <3>1. \A b \in Owned(w)' : buf'[b].state = "FREE"
      BY <1>3, <1>5, <1>9, <2>1, <2>2 DEF FreeInv
    <3>2. QED
      BY <1>4, <1>5, <1>10, <2>1, <2>2, <2>3, <3>1 DEF FreeInv, Became
  <2>5. \A i \in 1 .. Len(freeq') : buf'[freeq'[i]].state = "FREE"
    BY <1>1, <1>3, <1>5, <2>1, <2>2 DEF FreeInv
  <2>6. QED
    BY <1>2, <1>5, <2>1, <2>2, <2>3, <2>4, <2>5 DEF FreeInv
<1>13. QED
  BY <1>6, <1>7, <1>8, <1>11, <1>12 DEF LoggerInv

LEMMA DropInv ==
    ASSUME LoggerInv, NEW w \in Writers, Drop(w)
    PROVE  LoggerInv'
<1>1. th[w].pc = "replace" /\ close.pc = "alive" /\ th \in [Writers -> Thread]
  BY WriterAlive DEF LoggerInv, LoggerTypes, Thread, Drop, At
<1>2. /\ dropped' /\ total >= Limit
      /\ UNCHANGED <<map, buf, flushq, freeq, total, made, flush, start, file, close>>
  BY DEF Drop, AtLimit, poolVars
<1>3. th' \in [Writers -> Thread] /\ Became(w, "idle", None, th[w].seen, th[w].count)
  BY <1>1, UseIs DEF Drop, Return, WriterStates
<1>4. dropped' \in BOOLEAN
  BY Zenon DEF Drop
<1>5. LoggerTypes'
  BY <1>2, <1>3, <1>4 DEF LoggerInv, LoggerTypes
<1>6. WriterInv' /\ FlushInv' /\ CloseInv'
  BY <1>1, <1>2, <1>3 DEF LoggerInv, Became, WriterInv, FlushInv, CloseInv
<1>7. CounterInv' /\ DropsAtLimit'
  BY <1>2, <1>3, SizesAssumption, BoundsAssumption
     DEF LoggerInv, LoggerTypes, Became, CounterInv, DropsAtLimit
<1>8. PlaceInv' /\ FreeInv'
  BY <1>2 DEF PlaceInv, FreeInv, Clean
<1>9. QED
  BY <1>5, <1>6, <1>7, <1>8 DEF LoggerInv

LEMMA BusyInv ==
    ASSUME LoggerInv, NEW w \in Writers, Busy(w)
    PROVE  LoggerInv'
<1>1. /\ th[w].pc = "busy" /\ close.pc = "alive" /\ th \in [Writers -> Thread]
      /\ freeq \in Seq(Bufs) /\ dropped
  BY WriterAlive DEF LoggerInv, LoggerTypes, Thread, WriterInv, Busy, At
<1>2. dropped' /\ UNCHANGED <<map, buf, flushq, total, made, flush, start, file, close>>
  BY DEF Busy, poolVars
<1>3. /\ th' \in [Writers -> Thread] /\ freeq' \in Seq(Bufs)
      /\ \/ Head(freeq) \in Bufs /\ Became(w, "update", Head(freeq), th[w].seen, th[w].count)
         \/ Became(w, "idle", None, th[w].seen, th[w].count)
  <2>1. CASE PopFree /\ Use(w, Head(freeq), "update")
    <3>1. Head(freeq) \in Bufs /\ Tail(freeq) \in Seq(Bufs)
      BY <1>1, <2>1 DEF PopFree
    <3>2. QED
      BY <1>1, <2>1, <3>1, UseIs DEF PopFree, WriterStates
  <2>2. CASE Return(w) /\ UNCHANGED freeq
    BY <1>1, <2>2, UseIs DEF Return, WriterStates
  <2>3. QED
    BY <2>1, <2>2 DEF Busy
<1>4. dropped' \in BOOLEAN
  BY Zenon DEF Busy
<1>5. LoggerTypes'
  BY <1>2, <1>3, <1>4 DEF LoggerInv, LoggerTypes
<1>6. WriterInv' /\ FlushInv' /\ CloseInv' /\ DropsAtLimit'
  BY <1>1, <1>2, <1>3 DEF LoggerInv, Became, WriterInv, FlushInv, CloseInv, DropsAtLimit
<1>7. CounterInv'
  BY <1>2, <1>3 DEF LoggerInv, LoggerTypes, Became, CounterInv
<1>8. PlaceInv' /\ FreeInv'
  BY <1>2 DEF PlaceInv, FreeInv, Clean
<1>9. QED
  BY <1>5, <1>6, <1>7, <1>8 DEF LoggerInv

LEMMA UpdateInv ==
    ASSUME LoggerInv, NEW w \in Writers, Update(w)
    PROVE  LoggerInv'
<1>1. /\ th[w].pc = "update" /\ th[w].cur \in Bufs /\ close.pc = "alive"
      /\ th \in [Writers -> Thread] /\ map \in [Writers -> Bufs \cup {None}]
  BY WriterAlive DEF LoggerInv, LoggerTypes, Thread, WriterInv, Update, At
<1>2. th' \in [Writers -> Thread] /\ Became(w, "idle", None, th[w].seen, th[w].count)
  BY <1>1, UseIs DEF Update, Return, WriterStates
<1>3. UNCHANGED <<buf, flushq, freeq, total, made, flush, start, file, close, dropped>>
  BY DEF Update, poolVars
<1>4. /\ map' \in [Writers -> Bufs \cup {None}]
      /\ map'[w] = th[w].cur /\ \A v \in Writers \ {w} : map'[v] = map[v]
  BY <1>1 DEF Update
<1>5. LoggerTypes'
  BY <1>2, <1>3, <1>4 DEF LoggerInv, LoggerTypes
<1>6. WriterInv' /\ FlushInv' /\ CloseInv' /\ DropsAtLimit'
  BY <1>1, <1>2, <1>3, <1>4 DEF LoggerInv, Became, WriterInv, FlushInv, CloseInv, DropsAtLimit
<1>7. CounterInv'
  BY <1>2, <1>3 DEF LoggerInv, LoggerTypes, Became, CounterInv
<1>8. \A v \in Writers : Owned(v)' = Owned(v)
  <2>1. {map'[w]} \ {None} = {th[w].cur}
    BY <1>1, <1>4, NoneIsNoBuf
  <2>2. OwnedRule(w) /\ OwnedRule(w)'
    BY OwnedRules
  <2>3. Owned(w)' = Owned(w)
    BY <1>1, <1>2, <1>3, <2>1, <2>2 DEF OwnedRule, Became
  <2>4. QED
    BY <1>2, <1>3, <1>4, <2>3, OwnedOthers
<1>9. PlaceInv'
  BY <1>3, <1>8, PlaceSame DEF LoggerInv, Clean
<1>10. FreeInv'
  BY <1>1, <1>2, <1>3, <1>8, FreeSame DEF Became, Clean
<1>11. QED
  BY <1>5, <1>6, <1>7, <1>9, <1>10 DEF LoggerInv

\* A buffer that is made is FREE: nobody has had it.
LEMMA FreeNew ==
    ASSUME LoggerInv, NEW w \in Writers, Owned(w)' = {made'}, made' = made + 1, made' \in Bufs,
           \A v \in Writers \ {w} : Owned(v)' = Owned(v) /\ th'[v] = th[v],
           UNCHANGED <<buf, freeq, flush>>, Clean' => Clean
    PROVE  FreeInv'
<1>1. FreeInv /\ made \in Nat /\ Bufs \subseteq Nat
  BY NoneIsNoBuf, BoundsAssumption DEF LoggerInv, LoggerTypes
<1>2. SUFFICES ASSUME Clean PROVE FreeInv'
  BY DEF FreeInv
<1>3. buf[made'].state = "FREE"
  BY <1>1, <1>2 DEF FreeInv
<1>4. \A b \in Bufs : b > made' => buf'[b].state = "FREE"
  <2>1. SUFFICES ASSUME NEW b \in Bufs, b > made' PROVE buf'[b].state = "FREE"
    OBVIOUS
  <2>2. b \in Nat /\ b > made
    BY <1>1, <2>1
  <2>3. QED
    BY <1>1, <1>2, <2>2 DEF FreeInv
<1>5. \A v \in Writers : th'[v].pc # "push" => \A b \in Owned(v)' : buf'[b].state = "FREE"
  <2>1. SUFFICES ASSUME NEW v \in Writers, th'[v].pc # "push", NEW b \in Owned(v)'
                 PROVE  buf'[b].state = "FREE"
    OBVIOUS
  <2>2. CASE v = w
    BY <1>3, <2>1, <2>2
  <2>3. CASE v # w
    BY <1>1, <1>2, <2>1, <2>3 DEF FreeInv
  <2>4. QED
    BY <2>2, <2>3
<1>6. QED
  BY <1>1, <1>2, <1>4, <1>5 DEF FreeInv

LEMMA MakeIs ==
    ASSUME LoggerTypes, Make
    PROVE  made' = made + 1 /\ made' \in Bufs /\ made' \in 0 .. MaxBufs /\ made \in Nat
BY BoundsAssumption DEF LoggerTypes, Make, Bufs

LEMMA NewBufferInv ==
    ASSUME LoggerInv, NEW w \in Writers, NewBuffer(w)
    PROVE  LoggerInv'
<1>1. /\ th[w].pc = "replace" /\ th[w].count \in Nat /\ close.pc = "alive"
      /\ th \in [Writers -> Thread] /\ total \in Nat /\ total <= made
  BY WriterAlive DEF LoggerInv, LoggerTypes, Thread, CounterInv, NewBuffer, At
<1>2. UNCHANGED <<map, buf, flushq, freeq, total, flush, start, file, close, dropped>>
  BY DEF NewBuffer
<1>3. made' = made + 1 /\ made' \in Bufs /\ made' \in 0 .. MaxBufs /\ made \in Nat
  BY MakeIs DEF LoggerInv, NewBuffer
<1>4. th' \in [Writers -> Thread] /\ Became(w, "recount", made', total, th[w].count)
  <2> DEFINE r == [pc |-> "recount", cur |-> made', seen |-> total, count |-> th[w].count]
  <2>1. /\ r \in Thread
        /\ r.pc = "recount" /\ r.cur = made' /\ r.seen = total /\ r.count = th[w].count
    BY <1>1, <1>3 DEF Thread, WriterStates
  <2>2. th' = [th EXCEPT ![w] = r]
    BY DEF NewBuffer
  <2> HIDE DEF r
  <2>3. QED
    BY <1>1, <2>1, <2>2 DEF Became
<1>5. LoggerTypes'
  BY <1>2, <1>3, <1>4 DEF LoggerInv, LoggerTypes
<1>6. WriterInv' /\ FlushInv' /\ CloseInv'
  BY <1>1, <1>2, <1>3, <1>4 DEF LoggerInv, Became, WriterInv, FlushInv, CloseInv
<1>7. CounterInv'
  <2>1. total' <= made' /\ total < made'
    BY <1>1, <1>2, <1>3
  <2>2. \A v \in Writers : th[v].seen \in Nat
    BY <1>1 DEF Thread
  <2>3. QED
    BY <1>3, <1>4, <2>1, <2>2 DEF LoggerInv, Became, CounterInv
<1>8. DropsAtLimit'
  BY <1>2, <1>3, SizesAssumption DEF LoggerInv, DropsAtLimit
<1>9. Owned(w) = {} /\ Owned(w)' = {made'}
  BY <1>1, <1>4, OwnedRules DEF OwnedRule, Became
<1>10. \A v \in Writers \ {w} : Owned(v)' = Owned(v) /\ th'[v] = th[v]
  BY <1>2, <1>4, OwnedOthers DEF Became
<1>11. PlaceInv'
  BY <1>2, <1>3, <1>9, <1>10, PlaceNew DEF Clean
<1>12. FreeInv'
  BY <1>2, <1>3, <1>9, <1>10, FreeNew DEF Clean
<1>13. QED
  BY <1>5, <1>6, <1>7, <1>8, <1>11, <1>12 DEF LoggerInv

LEMMA RecountInv ==
    ASSUME LoggerInv, NEW w \in Writers, Recount(w)
    PROVE  LoggerInv'
<1>1. /\ th[w].pc = "recount" /\ th[w].cur \in Bufs /\ th[w].count \in Nat
      /\ th[w].seen \in Nat /\ th[w].seen < made
      /\ th \in [Writers -> Thread] /\ buf \in [Bufs -> Buffer]
  BY DEF LoggerInv, LoggerTypes, Thread, WriterInv, CounterInv, Recount, At
<1>2. /\ total' = th[w].seen + 1
      /\ UNCHANGED <<map, flushq, freeq, made, flush, start, file, close, dropped>>
  BY DEF Recount, Counted
<1>3. th' \in [Writers -> Thread] /\ Became(w, "update", th[w].cur, th[w].seen, th[w].count)
  BY <1>1, GotoIs DEF Recount, WriterStates
<1>4. buf' \in [Bufs -> Buffer] /\ \A b \in Bufs : buf'[b].state = buf[b].state
  BY <1>1, StoreInIs DEF Recount
<1>5. LoggerTypes'
  BY <1>1, <1>2, <1>3, <1>4 DEF LoggerInv, LoggerTypes
<1>6. WriterInv' /\ FlushInv' /\ CloseInv' /\ DropsAtLimit'
  BY <1>1, <1>2, <1>3 DEF LoggerInv, Became, WriterInv, FlushInv, CloseInv, DropsAtLimit
<1>7. CounterInv'
  <2>1. total' <= made /\ UNCHANGED made
    BY <1>1, <1>2, BoundsAssumption DEF LoggerInv, LoggerTypes
  <2>2. QED
    BY <1>3, <2>1 DEF LoggerInv, Became, CounterInv
<1>8. \A v \in Writers : Owned(v)' = Owned(v)
  <2>1. Owned(w)' = Owned(w)
    BY <1>1, <1>3, OwnedRules DEF OwnedRule, Became
  <2>2. QED
    BY <1>2, <1>3, <2>1, OwnedOthers
<1>9. PlaceInv'
  BY <1>2, <1>8, PlaceSame DEF LoggerInv, Clean
<1>10. FreeInv'
  BY <1>1, <1>2, <1>3, <1>4, <1>8, FreeSame DEF Became, Clean
<1>11. QED
  BY <1>5, <1>6, <1>7, <1>9, <1>10 DEF LoggerInv

LEMMA LookupInv ==
    ASSUME LoggerInv, NEW w \in Writers, Lookup(w)
    PROVE  LoggerInv'
<1>1. /\ th[w].pc = "idle" /\ th[w].count \in Nat /\ th[w].seen \in Nat /\ close.pc = "alive"
      /\ map[w] \in Bufs \cup {None} /\ map \in [Writers -> Bufs \cup {None}]
      /\ th \in [Writers -> Thread] /\ total \in Nat /\ total <= made
  BY DEF LoggerInv, LoggerTypes, Thread, CounterInv, Lookup, At
<1>2. UNCHANGED <<buf, flushq, freeq, total, flush, start, file, close, dropped>>
  BY DEF Lookup
<1>3. OwnedRule(w) /\ OwnedRule(w)'
  BY OwnedRules
<1>4. CASE /\ map[w] # None
           /\ th' = [th EXCEPT ![w] = [pc |-> "store", cur |-> map[w], seen |-> @.seen,
                                       count |-> @.count + 1]]
           /\ UNCHANGED <<map, made>>
  <2> DEFINE r == [pc |-> "store", cur |-> map[w], seen |-> th[w].seen, count |-> th[w].count + 1]
  <2>1. /\ r \in Thread /\ r.pc = "store" /\ r.cur = map[w]
        /\ r.seen = th[w].seen /\ r.count = th[w].count + 1
    BY <1>1 DEF Thread, WriterStates
  <2>2. th' = [th EXCEPT ![w] = r]
    BY <1>4
  <2> HIDE DEF r
  <2>3. th' \in [Writers -> Thread] /\ Became(w, "store", map[w], th[w].seen, th[w].count + 1)
    BY <1>1, <2>1, <2>2 DEF Became
  <2>4. LoggerTypes'
    BY <1>2, <1>4, <2>3 DEF LoggerInv, LoggerTypes
  <2>5. WriterInv' /\ FlushInv' /\ CloseInv' /\ DropsAtLimit'
    BY <1>1, <1>2, <1>4, <2>3 DEF LoggerInv, Became, WriterInv, FlushInv, CloseInv, DropsAtLimit
  <2>6. CounterInv'
    BY <1>2, <1>4, <2>3 DEF LoggerInv, LoggerTypes, Became, CounterInv
  <2>7. \A v \in Writers : Owned(v)' = Owned(v)
    <3>1. {map[w]} \ {None} = {map[w]}
      BY <1>4
    <3>2. Owned(w)' = Owned(w)
      BY <1>1, <1>3, <2>3, <3>1 DEF OwnedRule, Became
    <3>3. QED
      BY <1>2, <1>4, <2>3, <3>2, OwnedOthers
  <2>8. PlaceInv'
    BY <1>2, <1>4, <2>7, PlaceSame DEF LoggerInv, Clean
  <2>9. FreeInv'
    BY <1>1, <1>2, <1>4, <2>3, <2>7, FreeSame DEF Became, Clean
  <2>10. QED
    BY <2>4, <2>5, <2>6, <2>8, <2>9 DEF LoggerInv
<1>5. CASE /\ map[w] = None
           /\ Make
           /\ th' = [th EXCEPT ![w] = [pc |-> "count", cur |-> made', seen |-> total,
                                       count |-> @.count + 1]]
           /\ map' = [map EXCEPT ![w] = made']
  <2>1. made' = made + 1 /\ made' \in Bufs /\ made' \in 0 .. MaxBufs /\ made \in Nat
    BY <1>5, MakeIs DEF LoggerInv
  <2>2. th' \in [Writers -> Thread] /\ Became(w, "count", made', total, th[w].count + 1)
    <3> DEFINE r == [pc |-> "count", cur |-> made', seen |-> total, count |-> th[w].count + 1]
    <3>1. /\ r \in Thread /\ r.pc = "count" /\ r.cur = made'
          /\ r.seen = total /\ r.count = th[w].count + 1
      BY <1>1, <2>1 DEF Thread, WriterStates
    <3>2. th' = [th EXCEPT ![w] = r]
      BY <1>5
    <3> HIDE DEF r
    <3>3. QED
      BY <1>1, <3>1, <3>2 DEF Became
  <2>3. /\ map' \in [Writers -> Bufs \cup {None}]
        /\ map'[w] = made' /\ \A v \in Writers \ {w} : map'[v] = map[v]
    BY <1>1, <1>5, <2>1
  <2>4. LoggerTypes'
    BY <1>2, <2>1, <2>2, <2>3 DEF LoggerInv, LoggerTypes
  <2>5. WriterInv' /\ FlushInv' /\ CloseInv'
    BY <1>1, <1>2, <2>1, <2>2, <2>3 DEF LoggerInv, Became, WriterInv, FlushInv, CloseInv
  <2>6. CounterInv'
    <3>1. total' <= made' /\ total < made'
      BY <1>1, <1>2, <2>1
    <3>2. \A v \in Writers : th[v].seen \in Nat
      BY <1>1 DEF Thread
    <3>3. QED
      BY <2>1, <2>2, <3>1, <3>2 DEF LoggerInv, Became, CounterInv
  <2>7. DropsAtLimit'
    BY <1>2, <2>1, SizesAssumption DEF LoggerInv, DropsAtLimit
  <2>8. Owned(w) = {} /\ Owned(w)' = {made'}
    BY <1>1, <1>3, <1>5, <2>2 DEF OwnedRule, Became
  <2>9. \A v \in Writers \ {w} : Owned(v)' = Owned(v) /\ th'[v] = th[v]
    BY <1>2, <2>2, <2>3, OwnedOthers DEF Became
  <2>10. PlaceInv'
    BY <1>2, <2>1, <2>8, <2>9, PlaceNew DEF Clean
  <2>11. FreeInv'
    BY <1>2, <2>1, <2>8, <2>9, FreeNew DEF Clean
  <2>12. QED
    BY <2>4, <2>5, <2>6, <2>7, <2>10, <2>11 DEF LoggerInv
<1>6. QED
  BY <1>4, <1>5 DEF Lookup

-----------------------------------------------------------------------------
(* Flush.                                                                  *)

\* A step that leaves the threads, the map and the destructor alone.
LEMMA ThreadsStill ==
    ASSUME LoggerInv, UNCHANGED <<map, th, close, total, made, dropped>>
    PROVE  /\ WriterInv' /\ CloseInv' /\ CounterInv' /\ DropsAtLimit'
           /\ \A w \in Writers : Owned(w)' = Owned(w)
<1>1. \A w \in Writers : Owned(w)' = Owned(w)
  BY OwnedSame
<1>2. QED
  BY <1>1 DEF LoggerInv, WriterInv, CloseInv, CounterInv, DropsAtLimit

LEMMA FlushGotoIs ==
    ASSUME LoggerTypes, NEW from, NEW to \in FlushStates, FlushGoto(from, to)
    PROVE  /\ flush.pc = from /\ flush'.pc = to /\ flush'.p = flush.p
           /\ flush' \in [pc : FlushStates, p : Bufs \cup {None}]
BY DEF LoggerTypes, FlushGoto

\* A step of the flush thread that moves no buffer.
LEMMA FlushStill ==
    ASSUME LoggerInv, UNCHANGED <<map, buf, flushq, freeq, total, made, th, close, dropped>>,
           flush' \in [pc : FlushStates, p : Bufs \cup {None}], flush'.p = flush.p,
           flush'.pc \in {"write", "give"} <=> flush.pc \in {"write", "give"},
           flush'.pc = "give" => flush.pc = "give"
    PROVE  LoggerInv'
<1>1. LoggerTypes' /\ FlushInv'
  BY DEF LoggerInv, LoggerTypes, FlushInv
<1>2. /\ WriterInv' /\ CloseInv' /\ CounterInv' /\ DropsAtLimit'
      /\ \A w \in Writers : Owned(w)' = Owned(w)
  BY ThreadsStill
<1>3. PlaceInv'
  BY <1>2, PlaceSame DEF LoggerInv, Clean
<1>4. FreeInv'
  BY <1>2, FreeSame DEF Clean
<1>5. QED
  BY <1>1, <1>2, <1>3, <1>4 DEF LoggerInv

LEMMA FlushStartInv == LoggerInv /\ FlushStart => LoggerInv'
<1>1. SUFFICES ASSUME LoggerInv, FlushStart PROVE LoggerInv'
  OBVIOUS
<1>2. /\ flush.pc = "begin" /\ flush'.pc = "test" /\ flush'.p = flush.p
      /\ flush' \in [pc : FlushStates, p : Bufs \cup {None}]
  BY <1>1, FlushGotoIs DEF LoggerInv, FlushStart, FlushStates
<1>3. QED
  BY <1>1, <1>2, FlushStill DEF FlushStart, poolVars

LEMMA FlushWaitInv == LoggerInv /\ FlushWait => LoggerInv'
<1>1. SUFFICES ASSUME LoggerInv, FlushWait PROVE LoggerInv'
  OBVIOUS
<1>2. /\ flush.pc \in {"wait", "blocked"} /\ flush'.pc \in {"blocked", "test"}
      /\ flush'.p = flush.p /\ flush' \in [pc : FlushStates, p : Bufs \cup {None}]
  BY <1>1, FlushGotoIs DEF LoggerInv, FlushWait, FlushStates
<1>3. QED
  BY <1>1, <1>2, FlushStill DEF FlushWait, poolVars

\* The flush thread takes the first full buffer.
LEMMA FlushTakeInv ==
    ASSUME LoggerInv, flushq # <<>>, flush.pc = "test",
           flush' = [pc |-> "write", p |-> Head(flushq)], flushq' = Tail(flushq),
           UNCHANGED <<map, buf, freeq, total, made, th, start, file, close, dropped>>
    PROVE  LoggerInv'
<1>1. /\ flushq \in Seq(Bufs) /\ Head(flushq) \in Bufs /\ Tail(flushq) \in Seq(Bufs)
      /\ flush.p = None
  BY DEF LoggerInv, LoggerTypes, FlushInv
<1>2. LoggerTypes'
  BY <1>1 DEF LoggerInv, LoggerTypes, FlushStates
<1>3. FlushInv'
  BY <1>1, NoneIsNoBuf DEF FlushInv
<1>4. /\ WriterInv' /\ CloseInv' /\ CounterInv' /\ DropsAtLimit'
      /\ \A w \in Writers : Owned(w)' = Owned(w)
  BY ThreadsStill
<1>5. PlaceInv'
  <2>1. OwnedBy' = OwnedBy
    BY <1>4 DEF OwnedBy
  <2>2. SUFFICES ASSUME Clean, NEW b \in Bufs
                 PROVE  Ledger(b, OwnedBy, flushq', freeq, flush'.p) = IF b <= made THEN 1 ELSE 0
    BY <2>1 DEF PlaceInv, Ledger, Clean
  <2>3. Ledger(b, OwnedBy, flushq, freeq, flush.p) = IF b <= made THEN 1 ELSE 0
    BY <2>2 DEF LoggerInv, PlaceInv
  <2>4. Places(b, flushq') = Places(b, flushq) - Has(b, Head(flushq))
    BY <1>1, PlacesTail
  <2>5. /\ Has(b, flush.p) = 0 /\ Has(b, flush'.p) = Has(b, Head(flushq))
        /\ Has(b, Head(flushq)) \in Nat
    BY <1>1, NoneIsNoBuf DEF Has
  <2>6. /\ Cardinality(Holders(OwnedBy, b)) \in Nat
        /\ Places(b, flushq) \in Nat /\ Places(b, freeq) \in Nat
    BY LedgerParts DEF LoggerInv
  <2>7. QED
    BY <2>3, <2>4, <2>5, <2>6 DEF Ledger
<1>6. FreeInv'
  BY <1>4 DEF LoggerInv, FreeInv, Clean
<1>7. QED
  BY <1>2, <1>3, <1>4, <1>5, <1>6 DEF LoggerInv

LEMMA FlushTestInv == LoggerInv /\ FlushTest => LoggerInv'
<1>1. SUFFICES ASSUME LoggerInv, FlushTest PROVE LoggerInv'
  OBVIOUS
<1>2. UNCHANGED <<map, buf, freeq, total, made, th, start, file, close, dropped>>
  BY <1>1 DEF FlushTest, poolVars
<1>3. CASE \E to \in {"wait", "exited"} : FlushGoto("test", to) /\ UNCHANGED flushq
  <2>1. PICK to \in {"wait", "exited"} : FlushGoto("test", to) /\ UNCHANGED flushq
    BY <1>3
  <2>2. /\ flush.pc = "test" /\ flush'.pc = to /\ flush'.p = flush.p
        /\ flush' \in [pc : FlushStates, p : Bufs \cup {None}]
    BY <1>1, <2>1, FlushGotoIs DEF LoggerInv, FlushStates
  <2>3. QED
    BY <1>1, <1>2, <2>1, <2>2, FlushStill
<1>4. CASE /\ flushq # <<>> /\ flush.pc = "test"
           /\ flush' = [pc |-> "write", p |-> Head(flushq)] /\ flushq' = Tail(flushq)
  BY <1>1, <1>2, <1>4, FlushTakeInv
<1>5. QED
  BY <1>1, <1>3, <1>4 DEF FlushTest

LEMMA FlushWriteInv == LoggerInv /\ FlushWrite => LoggerInv'
<1>1. SUFFICES ASSUME LoggerInv, FlushWrite PROVE LoggerInv'
  OBVIOUS
<1>2. /\ flush.pc = "write" /\ flush'.pc = "give" /\ flush'.p = flush.p
      /\ flush' \in [pc : FlushStates, p : Bufs \cup {None}]
  BY <1>1, FlushGotoIs DEF LoggerInv, FlushWrite, FlushStates
<1>3. /\ UNCHANGED <<map, flushq, freeq, total, made, th, start, close, dropped>>
      /\ buf' = [buf EXCEPT ![flush.p] = [lines |-> <<>>, state |-> "FREE"]]
  BY <1>1 DEF FlushWrite, poolVars
<1>4. flush.p \in Bufs /\ buf \in [Bufs -> Buffer]
  BY <1>1, <1>2 DEF LoggerInv, LoggerTypes, FlushInv
<1>5. /\ buf' \in [Bufs -> Buffer] /\ buf'[flush.p].state = "FREE"
      /\ \A b \in Bufs \ {flush.p} : buf'[b] = buf[b]
  <2> DEFINE r == [lines |-> <<>>, state |-> "FREE"]
  <2>1. r \in Buffer /\ r.state = "FREE"
    BY DEF Buffer
  <2>2. buf' = [buf EXCEPT ![flush.p] = r]
    BY <1>3
  <2> HIDE DEF r
  <2>3. QED
    BY <1>4, <2>1, <2>2
<1>6. LoggerTypes' /\ FlushInv'
  BY <1>1, <1>2, <1>3, <1>5 DEF LoggerInv, LoggerTypes, FlushInv
<1>7. /\ WriterInv' /\ CloseInv' /\ CounterInv' /\ DropsAtLimit'
      /\ \A w \in Writers : Owned(w)' = Owned(w)
  BY <1>1, <1>3, ThreadsStill
<1>8. PlaceInv'
  BY <1>1, <1>2, <1>3, <1>7, PlaceSame DEF LoggerInv, Clean
<1>9. FreeInv'
  <2>1. \A b \in Bufs : buf[b].state = "FREE" => buf'[b].state = "FREE"
    BY <1>5
  <2>2. (\A w \in Writers : Owned(w) \subseteq Bufs) /\ freeq \in Seq(Bufs)
    BY <1>1, OwnedTypes DEF LoggerInv, LoggerTypes
  <2>3. QED
    BY <1>1, <1>2, <1>3, <1>5, <1>7, <2>1, <2>2 DEF LoggerInv, FreeInv, Clean
<1>10. QED
  BY <1>6, <1>7, <1>8, <1>9 DEF LoggerInv

LEMMA FlushGiveInv == LoggerInv /\ FlushGive => LoggerInv'
<1>1. SUFFICES ASSUME LoggerInv, FlushGive PROVE LoggerInv'
  OBVIOUS
<1>2. /\ flush.pc = "give" /\ freeq' = Append(freeq, flush.p)
      /\ flush' = [pc |-> "test", p |-> None]
      /\ UNCHANGED <<map, buf, flushq, total, made, th, start, file, close, dropped>>
  BY <1>1 DEF FlushGive, poolVars
<1>3. flush.p \in Bufs /\ freeq \in Seq(Bufs)
  BY <1>1, <1>2 DEF LoggerInv, LoggerTypes, FlushInv
<1>4. /\ freeq' \in Seq(Bufs) /\ Len(freeq') = Len(freeq) + 1 /\ Len(freeq) \in Nat
      /\ \A i \in 1 .. Len(freeq') : freeq'[i] = IF i <= Len(freeq) THEN freeq[i] ELSE flush.p
  BY <1>2, <1>3
<1>5. LoggerTypes' /\ FlushInv'
  BY <1>1, <1>2, <1>4 DEF LoggerInv, LoggerTypes, FlushInv, FlushStates
<1>6. /\ WriterInv' /\ CloseInv' /\ CounterInv' /\ DropsAtLimit'
      /\ \A w \in Writers : Owned(w)' = Owned(w)
  BY <1>1, <1>2, ThreadsStill
<1>7. PlaceInv'
  <2>1. OwnedBy' = OwnedBy
    BY <1>6 DEF OwnedBy
  <2>2. SUFFICES ASSUME Clean, NEW b \in Bufs
                 PROVE  Ledger(b, OwnedBy, flushq, freeq', flush'.p) = IF b <= made THEN 1 ELSE 0
    BY <1>2, <2>1 DEF PlaceInv, Ledger, Clean
  <2>3. Ledger(b, OwnedBy, flushq, freeq, flush.p) = IF b <= made THEN 1 ELSE 0
    BY <1>1, <2>2 DEF LoggerInv, PlaceInv
  <2>4. Places(b, freeq') = Places(b, freeq) + Has(b, flush.p)
    BY <1>2, <1>3, PlacesAppend
  <2>5. Has(b, flush'.p) = 0 /\ Has(b, flush.p) \in Nat
    BY <1>2, NoneIsNoBuf DEF Has
  <2>6. /\ Cardinality(Holders(OwnedBy, b)) \in Nat
        /\ Places(b, flushq) \in Nat /\ Places(b, freeq) \in Nat
    BY <1>1, LedgerParts DEF LoggerInv
  <2>7. QED
    BY <2>3, <2>4, <2>5, <2>6 DEF Ledger
<1>8. FreeInv'
  <2>1. SUFFICES ASSUME Clean PROVE FreeInv'
    BY <1>2 DEF FreeInv, Clean
  <2>2. FreeInv
    BY <1>1 DEF LoggerInv
  <2>3. \A i \in 1 .. Len(freeq') : buf[freeq'[i]].state = "FREE"
    BY <1>2, <1>4, <2>1, <2>2 DEF FreeInv
  <2>4. QED
    BY <1>2, <1>6, <2>1, <2>2, <2>3 DEF FreeInv
<1>9. QED
  BY <1>5, <1>6, <1>7, <1>8 DEF LoggerInv

-----------------------------------------------------------------------------
(* ~Logger.                                                                *)

\* close, as the steps of the destructor leave it.
CloseIs(place, left) == /\ close' \in [pc : CloseStates, unpushed : SUBSET Writers]
                        /\ close'.pc = place /\ close'.unpushed = left

LEMMA CloseInvStep == LoggerInv /\ Close => LoggerInv'
<1>1. SUFFICES ASSUME LoggerInv, Close PROVE LoggerInv'
  OBVIOUS
<1>2. /\ close.pc = "alive" /\ \A w \in Writers : th[w].pc = "idle"
      /\ UNCHANGED <<map, buf, flushq, freeq, total, made, th, flush, start, file, dropped>>
  BY <1>1 DEF Close, At, poolVars
<1>3. CloseIs("pushing", {w \in Writers : map[w] # None})
  BY <1>1 DEF Close, CloseStates, CloseIs
<1>4. LoggerTypes'
  BY <1>1, <1>2, <1>3 DEF LoggerInv, LoggerTypes, CloseIs
<1>5. WriterInv' /\ FlushInv' /\ CloseInv' /\ CounterInv' /\ DropsAtLimit'
  BY <1>1, <1>2, <1>3
     DEF LoggerInv, WriterInv, FlushInv, CloseInv, CounterInv, DropsAtLimit, CloseIs
<1>6. \A w \in Writers : Owned(w)' = Owned(w)
  <2>1. SUFFICES ASSUME NEW w \in Writers PROVE Owned(w)' = Owned(w)
    OBVIOUS
  <2>2. OwnedRule(w) /\ OwnedRule(w)'
    BY OwnedRules
  <2>3. w \in close'.unpushed <=> map[w] # None
    BY <1>3 DEF CloseIs
  <2>4. map[w] = None => {map[w]} \ {None} = {}
    OBVIOUS
  <2>5. QED
    BY <1>2, <1>3, <2>2, <2>3, <2>4 DEF OwnedRule, CloseIs
<1>7. PlaceInv'
  BY <1>1, <1>2, <1>6, PlaceSame DEF LoggerInv, Clean
<1>8. FreeInv'
  BY <1>1, <1>2, <1>6, FreeSame DEF Clean
<1>9. QED
  BY <1>4, <1>5, <1>7, <1>8 DEF LoggerInv

LEMMA ClosePushInv ==
    ASSUME LoggerInv, NEW w \in Writers, ClosePush(w)
    PROVE  LoggerInv'
<1>1. /\ close.pc = "pushing" /\ w \in close.unpushed /\ \A v \in Writers : th[v].pc = "idle"
      /\ map[w] \in Bufs /\ close.unpushed \in SUBSET Writers
      /\ buf \in [Bufs -> Buffer] /\ flushq \in Seq(Bufs) /\ freeq \in Seq(Bufs)
  BY DEF LoggerInv, LoggerTypes, CloseInv, ClosePush
<1>2. /\ flushq' = Append(flushq, map[w])
      /\ UNCHANGED <<map, freeq, total, made, th, flush, start, file, dropped>>
  BY DEF ClosePush, Queue, poolVars
<1>3. CloseIs("pushing", close.unpushed \ {w})
  BY <1>1 DEF LoggerInv, LoggerTypes, ClosePush, CloseIs, CloseStates
<1>4. buf' \in [Bufs -> Buffer] /\ \A b \in Bufs \ {map[w]} : buf'[b] = buf[b]
  BY <1>1, ToFlushIs DEF ClosePush
<1>5. LoggerTypes'
  BY <1>1, <1>2, <1>3, <1>4 DEF LoggerInv, LoggerTypes, CloseIs
<1>6. WriterInv' /\ FlushInv' /\ CloseInv' /\ CounterInv' /\ DropsAtLimit'
  BY <1>1, <1>2, <1>3
     DEF LoggerInv, WriterInv, FlushInv, CloseInv, CounterInv, DropsAtLimit, CloseIs
<1>7. Owned(w) = {map[w]} /\ Owned(w)' = {}
  <2>1. OwnedRule(w) /\ OwnedRule(w)'
    BY OwnedRules
  <2>2. {map[w]} \ {None} = {map[w]}
    BY <1>1, NoneIsNoBuf
  <2>3. QED
    BY <1>1, <1>2, <1>3, <2>1, <2>2 DEF OwnedRule, CloseIs
<1>8. \A v \in Writers \ {w} : Owned(v)' = Owned(v)
  <2>1. SUFFICES ASSUME NEW v \in Writers \ {w} PROVE Owned(v)' = Owned(v)
    OBVIOUS
  <2>2. OwnedRule(v) /\ OwnedRule(v)'
    BY OwnedRules
  <2>3. v \in close'.unpushed <=> v \in close.unpushed
    BY <1>3 DEF CloseIs
  <2>4. QED
    BY <1>1, <1>2, <1>3, <2>2, <2>3 DEF OwnedRule, CloseIs
<1>9. PlaceInv'
  BY <1>1, <1>2, <1>7, <1>8, PlaceToFlush DEF Clean
<1>10. FreeInv'
  <2>1. SUFFICES ASSUME Clean PROVE FreeInv'
    BY <1>1, <1>2 DEF FreeInv, Clean
  <2>2. /\ map[w] <= made
        /\ \A v \in Writers : map[w] \in Owned(v) => v = w
        /\ \A i \in 1 .. Len(freeq) : freeq[i] # map[w]
        /\ flush.p # map[w]
    BY <1>7, <2>1, OwnedAlone
  <2>3. /\ \A v \in Writers : Owned(v) \subseteq Bufs
        /\ flush.pc = "give" => flush.p \in Bufs
    BY OwnedTypes DEF LoggerInv, LoggerTypes, FlushInv
  <2>4. FreeInv
    BY DEF LoggerInv
  <2>5. \A v \in Writers : \A b \in Owned(v)' : buf'[b].state = "FREE"
    <3>1. SUFFICES ASSUME NEW v \in Writers, NEW b \in Owned(v)' PROVE buf'[b].state = "FREE"
      OBVIOUS
    <3>2. v # w /\ b \in Owned(v)
      BY <1>7, <1>8, <3>1
    <3>3. b \in Bufs \ {map[w]} /\ buf[b].state = "FREE"
      BY <1>1, <2>1, <2>2, <2>3, <2>4, <3>2 DEF FreeInv
    <3>4. QED
      BY <1>4, <3>3
  <2>6. \A b \in Bufs : b > made => buf'[b].state = "FREE"
    <3>1. SUFFICES ASSUME NEW b \in Bufs, b > made PROVE buf'[b].state = "FREE"
      OBVIOUS
    <3>2. b \in Bufs \ {map[w]}
      BY <1>1, <2>2, <3>1, NoneIsNoBuf, BoundsAssumption DEF LoggerInv, LoggerTypes
    <3>3. QED
      BY <1>4, <2>1, <2>4, <3>1, <3>2 DEF FreeInv
  <2>7. \A i \in 1 .. Len(freeq) : buf'[freeq[i]].state = "FREE"
    BY <1>1, <1>4, <2>1, <2>2, <2>4 DEF FreeInv
  <2>8. flush.pc = "give" => buf'[flush.p].state = "FREE"
    BY <1>4, <2>1, <2>2, <2>3, <2>4 DEF FreeInv
  <2>9. QED
    BY <1>2, <2>5, <2>6, <2>7, <2>8 DEF FreeInv
<1>11. QED
  BY <1>5, <1>6, <1>9, <1>10 DEF LoggerInv

\* A step of the destructor behind its loop: no buffer of the map is left to it.
LEMMA CloseStill ==
    ASSUME LoggerInv, close.pc \in {"pushing", "notify"}, close.unpushed = {},
           NEW place \in {"notify", "join"}, CloseIs(place, {}),
           flush' \in [pc : FlushStates, p : Bufs \cup {None}], flush'.p = flush.p,
           flush'.pc = flush.pc \/ (flush.pc = "blocked" /\ flush'.pc = "test"),
           UNCHANGED <<map, buf, flushq, freeq, total, made, th, dropped>>
    PROVE  LoggerInv'
<1>1. \A w \in Writers : th[w].pc = "idle"
  BY DEF LoggerInv, CloseInv
<1>2. LoggerTypes'
  BY DEF LoggerInv, LoggerTypes, CloseIs
<1>3. WriterInv' /\ FlushInv' /\ CloseInv' /\ CounterInv' /\ DropsAtLimit'
  BY <1>1 DEF LoggerInv, WriterInv, FlushInv, CloseInv, CounterInv, DropsAtLimit, CloseIs
<1>4. \A w \in Writers : Owned(w)' = Owned(w)
  BY <1>1, OwnedRules DEF OwnedRule, CloseIs
<1>5. PlaceInv'
  BY <1>4, PlaceSame DEF LoggerInv, Clean
<1>6. FreeInv'
  BY <1>4, FreeSame DEF Clean
<1>7. QED
  BY <1>2, <1>3, <1>5, <1>6 DEF LoggerInv

LEMMA CloseStopInv == LoggerInv /\ CloseStop => LoggerInv'
<1>1. SUFFICES ASSUME LoggerInv, CloseStop PROVE LoggerInv'
  OBVIOUS
<1>2. close.pc = "pushing" /\ close.unpushed = {} /\ CloseIs("notify", {})
  BY <1>1 DEF CloseStop, CloseIs, CloseStates
<1>3. /\ flush' \in [pc : FlushStates, p : Bufs \cup {None}] /\ flush'.p = flush.p
      /\ flush'.pc = flush.pc \/ (flush.pc = "blocked" /\ flush'.pc = "test")
  BY <1>1, NotifyOneIs DEF LoggerInv, CloseStop
<1>4. QED
  BY <1>1, <1>2, <1>3, CloseStill DEF CloseStop, poolVars

LEMMA CloseNotifyInv == LoggerInv /\ CloseNotify => LoggerInv'
<1>1. SUFFICES ASSUME LoggerInv, CloseNotify PROVE LoggerInv'
  OBVIOUS
<1>2. close.pc = "notify" /\ close.unpushed = {} /\ CloseIs("join", {})
  BY <1>1 DEF LoggerInv, LoggerTypes, CloseInv, CloseNotify, CloseIs, CloseStates
<1>3. /\ flush' \in [pc : FlushStates, p : Bufs \cup {None}] /\ flush'.p = flush.p
      /\ flush'.pc = flush.pc \/ (flush.pc = "blocked" /\ flush'.pc = "test")
  BY <1>1, NotifyOneIs DEF LoggerInv, CloseNotify
<1>4. QED
  BY <1>1, <1>2, <1>3, CloseStill DEF CloseNotify, poolVars

LEMMA CloseJoinInv == LoggerInv /\ CloseJoin => LoggerInv'
<1>1. SUFFICES ASSUME LoggerInv, CloseJoin PROVE LoggerInv'
  OBVIOUS
<1>2. /\ close.pc = "join" /\ flushq' = <<>> /\ freeq' = <<>>
      /\ UNCHANGED <<map, buf, total, made, th, flush, start, file, dropped>>
  BY <1>1 DEF CloseJoin, poolVars
<1>3. CloseIs("deleted", close.unpushed)
  BY <1>1 DEF LoggerInv, LoggerTypes, CloseJoin, CloseIs, CloseStates
<1>4. LoggerTypes'
  BY <1>1, <1>2, <1>3 DEF LoggerInv, LoggerTypes, CloseIs
<1>5. WriterInv' /\ FlushInv' /\ CloseInv' /\ CounterInv' /\ DropsAtLimit'
  BY <1>1, <1>2, <1>3
     DEF LoggerInv, WriterInv, FlushInv, CloseInv, CounterInv, DropsAtLimit, CloseIs
<1>6. PlaceInv' /\ FreeInv'
  BY <1>3 DEF PlaceInv, FreeInv, Clean, CloseIs
<1>7. QED
  BY <1>4, <1>5, <1>6 DEF LoggerInv

-----------------------------------------------------------------------------
(* The theorems.                                                           *)

LEMMA LoggerStutter == LoggerInv /\ UNCHANGED vars => LoggerInv'
<1>1. SUFFICES ASSUME LoggerInv, UNCHANGED vars PROVE LoggerInv'
  OBVIOUS
<1>2. UNCHANGED <<map, buf, flushq, freeq, total, made, th, flush, close, dropped>>
  BY <1>1 DEF vars
<1>3. LoggerTypes' /\ FlushInv'
  BY <1>1, <1>2 DEF LoggerInv, LoggerTypes, FlushInv
<1>4. /\ WriterInv' /\ CloseInv' /\ CounterInv' /\ DropsAtLimit'
      /\ \A w \in Writers : Owned(w)' = Owned(w)
  BY <1>1, <1>2, ThreadsStill
<1>5. PlaceInv' /\ FreeInv'
  BY <1>1, <1>2, <1>4, PlaceSame, FreeSame DEF LoggerInv, Clean
<1>6. QED
  BY <1>3, <1>4, <1>5 DEF LoggerInv

LEMMA LoggerStep == LoggerInv /\ [Next]_vars => LoggerInv'
<1>1. SUFFICES ASSUME LoggerInv, Next PROVE LoggerInv'
  BY LoggerStutter
<1>2. CASE \E w \in Writers : Lookup(w)
  BY <1>1, <1>2, LookupInv
<1>3. CASE \E w \in Writers : WriterStep(w)
  BY <1>1, <1>3, CountFirstInv, StoreInv, RetestInv, PushFlushInv, NotifyInv, TakeFreeInv,
     NewBufferInv, RecountInv, DropInv, UpdateInv, BusyInv DEF WriterStep
<1>4. CASE FlushNext
  BY <1>1, <1>4, FlushStartInv, FlushTestInv, FlushWaitInv, FlushWriteInv, FlushGiveInv DEF FlushNext
<1>5. CASE Close
  BY <1>1, <1>5, CloseInvStep
<1>6. CASE CloseStep
  BY <1>1, <1>6, CloseStopInv, CloseNotifyInv, CloseJoinInv, ClosePushInv DEF CloseStep
<1>7. QED
  BY <1>1, <1>2, <1>3, <1>4, <1>5, <1>6 DEF Next

\* The inductive invariant holds: types, what each place of Append implies,
\* the bound on buftotalnum, and the place and state of every buffer.
THEOREM LoggerInvariant == Spec => []LoggerInv
<1>1. Init => LoggerInv
  BY LoggerInitInv
<1>2. LoggerInv /\ [Next]_vars => LoggerInv'
  BY LoggerStep
<1>3. QED
  BY <1>1, <1>2, PTL DEF Spec

\* Until a line is dropped every buffer that was made is in one place only:
\* with one thread that logs, in the flush queue, in the flush thread's hand or
\* on the free list (Append, Flush and ~Logger).
THEOREM OnePlaceHolds == Spec => []OnePlace
<1>1. LoggerInv => OnePlace
  <2>1. SUFFICES ASSUME LoggerInv, ~dropped, close.pc # "deleted", NEW b \in 1 .. made
                 PROVE  Cardinality({w \in Writers : b \in Owned(w)}) + Places(b, flushq)
                          + Places(b, freeq) + (IF b = flush.p THEN 1 ELSE 0) = 1
    BY DEF OnePlace
  <2>2. b \in Bufs /\ b <= made
    BY <2>1, BoundsAssumption DEF LoggerInv, LoggerTypes, Bufs
  <2>3. Ledger(b, OwnedBy, flushq, freeq, flush.p) = 1
    BY <2>1, <2>2 DEF LoggerInv, PlaceInv, Clean
  <2>4. Holders(OwnedBy, b) = {w \in Writers : b \in Owned(w)}
    BY DEF Holders, OwnedBy
  <2>5. QED
    BY <2>3, <2>4 DEF Ledger, Has
<1>2. QED
  BY <1>1, LoggerInvariant, PTL

\* A line is dropped only when as many buffers as MEM_LIMIT allows were made:
\* increments of buftotalnum that are lost only let the log make more.
THEOREM DropsAtLimitHolds == Spec => []DropsAtLimit
<1>1. LoggerInv => DropsAtLimit
  BY DEF LoggerInv
<1>2. QED
  BY <1>1, LoggerInvariant, PTL

-----------------------------------------------------------------------------
(* Joining sequences.                                                      *)

\* The function that FlattenSeq computes with: f[i] joins the first i of n sequences.
Joins(q, n, f) == f = [i \in 1 .. n |-> IF i = 1 THEN q[i] ELSE f[i - 1] \o q[i]]

LEMMA JoinsAgree ==
    ASSUME NEW n \in Nat, NEW k \in Nat, n <= k, NEW l \in Nat, n <= l,
           NEW q, NEW f, Joins(q, k, f), NEW r, NEW g, Joins(r, l, g),
           \A i \in 1 .. n : q[i] = r[i]
    PROVE  \A i \in 1 .. n : f[i] = g[i]
<1> DEFINE B == {i \in 1 .. n : f[i] # g[i]}
<1>1. SUFFICES ASSUME B # {} PROVE FALSE
  OBVIOUS
<1>2. PICK m \in B : \A i \in B : m <= i
  <2>1. B \subseteq Nat
    OBVIOUS
  <2>2. QED
    BY <1>1, <2>1, Minimum
<1>3. /\ f[m] = IF m = 1 THEN q[m] ELSE f[m - 1] \o q[m]
      /\ g[m] = IF m = 1 THEN r[m] ELSE g[m - 1] \o r[m]
  <2>1. m \in 1 .. k /\ m \in 1 .. l
    OBVIOUS
  <2>2. QED
    BY <2>1 DEF Joins
<1>4. m # 1 => m - 1 \in 1 .. n /\ m - 1 \notin B
  BY <1>2
<1>5. f[m] = g[m]
  BY <1>3, <1>4
<1>6. QED
  BY <1>5

LEMMA JoinsExists ==
    ASSUME NEW q, Len(q) \in Nat
    PROVE  \E f : Joins(q, Len(q), f)
<1> DEFINE B == {n \in 0 .. Len(q) : ~\E f : Joins(q, n, f)}
<1>1. SUFFICES ASSUME B # {} PROVE FALSE
  <2>1. B = {} => Len(q) \notin B
    OBVIOUS
  <2>2. B = {} => \E f : Joins(q, Len(q), f)
    BY <2>1
  <2>3. QED
    BY <2>2
<1>2. PICK m \in B : \A i \in B : m <= i
  <2>1. B \subseteq Nat
    OBVIOUS
  <2> HIDE DEF B
  <2>2. QED
    BY <1>1, <2>1, Minimum
<1>3. CASE m = 0
  <2>1. Joins(q, 0, [i \in 1 .. 0 |-> q[i]])
    BY DEF Joins
  <2>2. QED
    BY <1>2, <1>3, <2>1
<1>4. CASE m # 0
  <2>1. m - 1 \in 0 .. Len(q) /\ m - 1 \notin B
    BY <1>2, <1>4
  <2>2. PICK f : Joins(q, m - 1, f)
    BY <2>1
  <2> DEFINE last == IF m = 1 THEN q[m] ELSE f[m - 1] \o q[m]
  <2> DEFINE g == [i \in 1 .. m |-> IF i = m THEN last ELSE f[i]]
  <2>3. m \in Nat /\ m > 0
    BY <1>4
  <2>4. ASSUME NEW i \in 1 .. m
        PROVE  g[i] = IF i = 1 THEN q[i] ELSE g[i - 1] \o q[i]
    <3>1. i # 1 => i - 1 \in 1 .. m - 1
      BY <2>3
    <3>2. CASE i = m
      <4>1. i # 1 => g[i - 1] = f[i - 1]
        BY <2>3, <3>1
      <4>2. QED
        BY <2>3, <3>2, <4>1
    <3>3. CASE i # m
      <4>1. i \in 1 .. m - 1
        BY <2>3, <3>3
      <4>2. f[i] = IF i = 1 THEN q[i] ELSE f[i - 1] \o q[i]
        BY <2>2, <4>1 DEF Joins
      <4>3. g[i] = f[i] /\ (i # 1 => g[i - 1] = f[i - 1])
        BY <2>3, <3>1, <4>1
      <4>4. QED
        BY <4>2, <4>3
    <3>4. QED
      BY <3>2, <3>3
  <2>5. Joins(q, m, g)
    <3>1. g = [i \in 1 .. m |-> g[i]]
      OBVIOUS
    <3> HIDE DEF g
    <3>2. QED
      BY <2>4, <3>1 DEF Joins
  <2> HIDE DEF g
  <2>6. QED
    BY <1>2, <2>5
<1>5. QED
  BY <1>3, <1>4

LEMMA FlattenIs ==
    ASSUME NEW q, Len(q) \in Nat, Len(q) # 0, NEW f, Joins(q, Len(q), f)
    PROVE  FlattenSeq(q) = f[Len(q)]
<1> DEFINE g == CHOOSE g : g = [i \in 1 .. Len(q) |-> IF i = 1 THEN q[i] ELSE g[i - 1] \o q[i]]
<1>1. FlattenSeq(q) = g[Len(q)]
  BY DEF FlattenSeq
<1>2. \E h : h = [i \in 1 .. Len(q) |-> IF i = 1 THEN q[i] ELSE h[i - 1] \o q[i]]
  BY DEF Joins
<1>3. Joins(q, Len(q), g)
  BY <1>2 DEF Joins
<1> HIDE DEF g
<1>4. \A i \in 1 .. Len(q) : g[i] = f[i]
  <2>1. PICK n \in Nat : n = Len(q)
    OBVIOUS
  <2>2. n <= n /\ Joins(q, n, g) /\ Joins(q, n, f) /\ \A i \in 1 .. n : q[i] = q[i]
    BY <1>3, <2>1
  <2>3. \A i \in 1 .. n : g[i] = f[i]
    BY <2>2, JoinsAgree
  <2>4. QED
    BY <2>1, <2>3
<1>5. QED
  BY <1>1, <1>4

LEMMA FlattenEmpty ==
    FlattenSeq(<<>>) = <<>>
BY DEF FlattenSeq

LEMMA JoinsTyped ==
    ASSUME NEW T, NEW q \in Seq(Seq(T)), NEW f, Joins(q, Len(q), f)
    PROVE  \A i \in 1 .. Len(q) : f[i] \in Seq(T)
<1> DEFINE B == {i \in 1 .. Len(q) : f[i] \notin Seq(T)}
<1>1. SUFFICES ASSUME B # {} PROVE FALSE
  OBVIOUS
<1>2. PICK m \in B : \A i \in B : m <= i
  <2>1. B \subseteq Nat
    OBVIOUS
  <2>2. QED
    BY <1>1, <2>1, Minimum
<1>3. f[m] = IF m = 1 THEN q[m] ELSE f[m - 1] \o q[m]
  BY DEF Joins
<1>4. m # 1 => m - 1 \in 1 .. Len(q) /\ m - 1 \notin B
  BY <1>2
<1>5. q[m] \in Seq(T)
  OBVIOUS
<1>6. m # 1 => f[m - 1] \in Seq(T)
  BY <1>4
<1>7. f[m] \in Seq(T)
  BY <1>3, <1>5, <1>6
<1>8. QED
  BY <1>7

LEMMA FlattenTyped ==
    ASSUME NEW T, NEW q \in Seq(Seq(T))
    PROVE  FlattenSeq(q) \in Seq(T)
<1>1. Len(q) \in Nat
  OBVIOUS
<1>2. CASE Len(q) = 0
  <2>1. q = <<>>
    BY <1>2
  <2>2. FlattenSeq(q) = <<>>
    BY <2>1, FlattenEmpty
  <2>3. QED
    BY <2>2
<1>3. CASE Len(q) # 0
  <2>1. PICK f : Joins(q, Len(q), f)
    BY <1>1, JoinsExists
  <2>2. FlattenSeq(q) = f[Len(q)]
    BY <1>1, <1>3, <2>1, FlattenIs
  <2>3. \A i \in 1 .. Len(q) : f[i] \in Seq(T)
    BY <2>1, JoinsTyped
  <2>4. QED
    BY <1>1, <1>3, <2>2, <2>3
<1>4. QED
  BY <1>2, <1>3

LEMMA FlattenAppend ==
    ASSUME NEW T, NEW q \in Seq(Seq(T)), NEW a \in Seq(T)
    PROVE  FlattenSeq(Append(q, a)) = FlattenSeq(q) \o a
<1> DEFINE n == Len(q)  r == Append(q, a)
<1>1. n \in Nat /\ Len(r) = n + 1 /\ r[n + 1] = a /\ \A i \in 1 .. n : r[i] = q[i]
  OBVIOUS
<1>2. r \in Seq(Seq(T))
  OBVIOUS
<1> HIDE DEF n, r
<1>3. Len(r) \in Nat /\ Len(r) # 0
  BY <1>1
<1>4. PICK g : Joins(r, Len(r), g)
  BY <1>3, JoinsExists
<1>5. FlattenSeq(r) = g[n + 1]
  BY <1>1, <1>3, <1>4, FlattenIs
<1>6. \A i \in 1 .. n + 1 : g[i] = IF i = 1 THEN r[i] ELSE g[i - 1] \o r[i]
  BY <1>1, <1>4 DEF Joins
<1>7. CASE n = 0
  <2>1. FlattenSeq(r) = a
    BY <1>1, <1>5, <1>6, <1>7
  <2>2. q = <<>>
    BY <1>7 DEF n
  <2>3. <<>> \o a = a
    OBVIOUS
  <2>4. QED
    BY <2>1, <2>2, <2>3, FlattenEmpty DEF r
<1>8. CASE n # 0
  <2>1. PICK f : Joins(q, Len(q), f)
    BY <1>1, JoinsExists DEF n
  <2>2. FlattenSeq(q) = f[n]
    BY <1>1, <1>8, <2>1, FlattenIs DEF n
  <2>3. \A i \in 1 .. n : f[i] = g[i]
    <3>1. PICK k \in Nat : k = n + 1
      BY <1>1
    <3>2. n \in Nat /\ n <= n /\ n <= k
      BY <1>1, <3>1
    <3>3. \A i \in 1 .. n : q[i] = r[i]
      BY <1>1
    <3>4. Joins(q, n, f) /\ Joins(r, k, g)
      BY <1>1, <1>4, <2>1, <3>1 DEF n
    <3> HIDE <1>1, <1>2, <1>4, <1>6, <2>1
    <3>5. QED
      BY <3>2, <3>3, <3>4, JoinsAgree
  <2>4. g[n + 1] = g[n] \o a
    <3>1. n + 1 \in 1 .. n + 1 /\ n + 1 # 1 /\ (n + 1) - 1 = n
      BY <1>1, <1>8
    <3>2. QED
      BY <1>1, <1>6, <3>1
  <2>5. f[n] = g[n]
    BY <1>1, <1>8, <2>3
  <2>6. QED
    BY <1>5, <2>2, <2>4, <2>5 DEF r
<1>9. QED
  BY <1>7, <1>8

LEMMA Associates ==
    ASSUME NEW T, NEW a, a \in Seq(T), NEW b, b \in Seq(T), NEW c, c \in Seq(T)
    PROVE  /\ (a \o b) \o c = a \o (b \o c) /\ a \o b \in Seq(T)
           /\ a \o <<>> = a /\ <<>> \o a = a
OBVIOUS

\* \o, for the provers a function like any other.
Cat(a, b) == a \o b

LEMMA CatAssociates ==
    ASSUME NEW T, NEW a, a \in Seq(T), NEW b, b \in Seq(T), NEW c, c \in Seq(T)
    PROVE  Cat(Cat(a, b), c) = Cat(a, Cat(b, c)) /\ Cat(a, b) \in Seq(T)
BY Associates DEF Cat

LEMMA FlattenHead ==
    ASSUME NEW T, NEW q \in Seq(Seq(T)), q # <<>>
    PROVE  FlattenSeq(q) = Head(q) \o FlattenSeq(Tail(q))
<1> DEFINE r == Tail(q)  n == Len(r)
<1>1. n \in Nat /\ r \in Seq(Seq(T)) /\ Len(q) = n + 1 /\ \A i \in 1 .. n : r[i] = q[i + 1]
  OBVIOUS
<1>2. Head(q) = q[1] /\ q[1] \in Seq(T)
  OBVIOUS
<1> HIDE DEF r, n
<1>3. Len(q) \in Nat /\ Len(q) # 0
  BY <1>1
<1>4. PICK f : Joins(q, Len(q), f)
  BY <1>3, JoinsExists
<1>5. FlattenSeq(q) = f[n + 1]
  BY <1>1, <1>3, <1>4, FlattenIs
<1>6. \A i \in 1 .. n + 1 : f[i] = IF i = 1 THEN q[i] ELSE f[i - 1] \o q[i]
  BY <1>1, <1>4 DEF Joins
<1>7. CASE n = 0
  <2>1. FlattenSeq(q) = q[1]
    BY <1>5, <1>6, <1>7
  <2>2. r = <<>>
    BY <1>1, <1>7 DEF n
  <2>3. q[1] \o <<>> = q[1]
    BY <1>2
  <2>4. QED
    BY <1>2, <2>1, <2>2, <2>3, FlattenEmpty DEF r
<1>8. CASE n # 0
  <2>1. n = Len(r)
    BY DEF n
  <2>2. PICK g : Joins(r, n, g)
    BY <1>1, <2>1, JoinsExists
  <2>3. FlattenSeq(r) = g[n]
    BY <1>1, <1>8, <2>1, <2>2, FlattenIs
  <2>4. \A i \in 1 .. n : g[i] \in Seq(T)
    BY <1>1, <2>1, <2>2, JoinsTyped
  <2>5. \A i \in 1 .. n : g[i] = IF i = 1 THEN r[i] ELSE g[i - 1] \o r[i]
    BY <2>2 DEF Joins
  <2>6. \A i \in 1 .. n : q[i + 1] \in Seq(T)
    BY <1>1
  <2> DEFINE B == {i \in 1 .. n : f[i + 1] # q[1] \o g[i]}
  <2>7. B = {}
    <3>1. SUFFICES ASSUME B # {} PROVE FALSE
      OBVIOUS
    <3>2. \A i : i \in B <=> i \in 1 .. n /\ f[i + 1] # q[1] \o g[i]
      OBVIOUS
    <3> HIDE DEF B
    <3>3. PICK m \in B : \A i \in B : m <= i
      <4>1. B \subseteq Nat
        <5>1. 1 .. n \subseteq Nat
          BY <1>1
        <5>2. QED
          BY <3>2, <5>1, Zenon
      <4>2. QED
        BY <3>1, <4>1, Minimum
    <3>4. m \in 1 .. n /\ m + 1 \in 1 .. n + 1 /\ m + 1 # 1 /\ (m + 1) - 1 = m
      <4>1. m \in 1 .. n
        BY <3>2, Zenon
      <4>2. QED
        BY <1>1, <4>1
    <3>5. f[m + 1] = f[m] \o q[m + 1] /\ r[m] = q[m + 1]
      BY <1>1, <1>6, <3>4
    <3>6. CASE m = 1
      <4>1. f[m] = q[1]
        BY <1>1, <1>6, <3>6
      <4>2. g[m] = q[m + 1]
        BY <2>5, <3>4, <3>5, <3>6
      <4>3. QED
        BY <3>2, <3>3, <3>5, <4>1, <4>2
    <3>7. CASE m # 1
      <4>1. m - 1 \in 1 .. n /\ m - 1 \notin B /\ (m - 1) + 1 = m
        BY <1>1, <3>3, <3>4, <3>7
      <4>2. f[m] = q[1] \o g[m - 1]
        BY <3>2, <4>1
      <4>3. g[m] = g[m - 1] \o q[m + 1]
        BY <2>5, <3>4, <3>5, <3>7
      <4>4. (q[1] \o g[m - 1]) \o q[m + 1] = q[1] \o (g[m - 1] \o q[m + 1])
        <5>1. q[1] \in Seq(T) /\ g[m - 1] \in Seq(T) /\ q[m + 1] \in Seq(T)
          BY <1>2, <2>4, <2>6, <3>4, <4>1
        <5> DEFINE a == q[1]  b == g[m - 1]  c == q[m + 1]
        <5>2. a \in Seq(T) /\ b \in Seq(T) /\ c \in Seq(T)
          BY <5>1, Zenon
        <5> HIDE DEF a, b, c
        <5>3. Cat(Cat(a, b), c) = Cat(a, Cat(b, c))
          BY <5>2, CatAssociates
        <5>4. QED
          BY <5>3, Zenon DEF Cat, a, b, c
      <4>5. QED
        BY <3>2, <3>3, <3>5, <4>2, <4>3, <4>4
    <3>8. QED
      BY <3>6, <3>7
  <2>8. f[n + 1] = q[1] \o g[n]
    <3>1. n \in 1 .. n
      BY <1>1, <1>8
    <3>2. n \notin B
      BY <2>7
    <3>3. QED
      BY <3>1, <3>2
  <2>9. QED
    BY <1>2, <1>5, <2>3, <2>8 DEF r
<1>9. QED
  BY <1>7, <1>8

-----------------------------------------------------------------------------
(* The contents of the buffers and of the file.                            *)

\* The lines of w, when f holds the buffers: in the queue q, oldest first, in
\* the hand p of the flush thread, in the buffer that w owns; and, with those in
\* the file, all.
Waiting(w, f, q) == FlattenSeq([i \in DOMAIN q |-> Of(w, f[q[i]].lines)])
InHand(w, f, p) == IF p = None THEN <<>> ELSE Of(w, f[p].lines)
InOwn(w, f, o) == IF o = {} THEN <<>> ELSE Of(w, f[CHOOSE b \in Bufs : b \in o].lines)
Whole(w, written, f, p, q, o) == written \o (InHand(w, f, p) \o (Waiting(w, f, q) \o InOwn(w, f, o)))

\* Exact types of what the lines are made of; in Append a line is being logged.
Line == Writers \X (1 .. MaxLines)
Holds(f) == \A b \in Bufs : f[b].lines \in Seq(Line)
Counts == \A w \in Writers : /\ th[w].seen <= made /\ th[w].count <= MaxLines
                             /\ th[w].pc # "idle" => th[w].count >= 1
LineTypes ==
    /\ Holds(buf) /\ Counts
    /\ start \in BOOLEAN
    /\ file \in [Writers -> Seq(1 .. MaxLines)]

\* A buffer that is free, written or not yet made is empty, and the buffer of
\* a thread holds no line of another.
Empty(f, b) == f[b].lines = <<>>
Pure(f, w, b) == \A v \in Writers : v # w => Of(v, f[b].lines) = <<>>
EmptyInv == Clean =>
    /\ \A b \in Bufs : b > made => Empty(buf, b)
    /\ \A i \in 1 .. Len(freeq) : Empty(buf, freeq[i])
    /\ flush.pc = "give" => Empty(buf, flush.p)
    /\ \A w \in Writers : \A b \in Owned(w) : Pure(buf, w, b)

\* The flush thread stops behind the last push of the destructor, with an
\* empty queue, and the destructor waits for it.
Pushed == close.pc \in {"notify", "join", "deleted"}
ExitInv == /\ flush.pc = "exited" => flushq = <<>> /\ Pushed
           /\ close.pc = "deleted" => flush.pc = "exited"
           /\ ~start => flush.pc = "begin" \/ Pushed

\* The lines of w, from the file to its own buffer, are those it has stored.
Numbers(n) == [i \in 1 .. n |-> i]
ContentInv == ~dropped =>
    \A w \in Writers : Whole(w, file[w], buf, flush.p, flushq, Owned(w)) = Numbers(Stored(w))

FileInv == LineTypes /\ EmptyInv /\ ExitInv /\ ContentInv

LEMMA OfTyped ==
    ASSUME NEW w, NEW s \in Seq(Line)
    PROVE  Of(w, s) \in Seq(1 .. MaxLines)
<1> DEFINE p == [i \in DOMAIN s |-> IF s[i][1] = w THEN <<s[i][2]>> ELSE <<>>]
<1>1. \A i \in 1 .. Len(s) : s[i] \in Line
  OBVIOUS
<1>2. \A i \in 1 .. Len(s) : p[i] \in Seq(1 .. MaxLines)
  <2>1. \A m \in Line : \E k \in 1 .. MaxLines : k = m[2]
    BY DEF Line
  <2>2. \A k \in 1 .. MaxLines : <<k>> \in Seq(1 .. MaxLines) /\ <<>> \in Seq(1 .. MaxLines)
    OBVIOUS
  <2>3. \A m \in Line : (IF m[1] = w THEN <<m[2]>> ELSE <<>>) \in Seq(1 .. MaxLines)
    BY <2>1, <2>2
  <2>4. QED
    BY <1>1, <2>3
<1>3. p \in Seq(Seq(1 .. MaxLines))
  <2>1. DOMAIN s = 1 .. Len(s) /\ Len(s) \in Nat /\ p = [i \in 1 .. Len(s) |-> p[i]]
    OBVIOUS
  <2> HIDE DEF p
  <2>2. QED
    BY <1>2, <2>1
<1> HIDE DEF p
<1>4. FlattenSeq(p) \in Seq(1 .. MaxLines)
  BY <1>3, FlattenTyped
<1>5. QED
  BY <1>4 DEF Of, p

LEMMA OfEmpty == \A w : Of(w, <<>>) = <<>>
<1>1. SUFFICES ASSUME NEW w PROVE Of(w, <<>>) = <<>>
  OBVIOUS
<1>2. [i \in DOMAIN <<>> |-> IF <<>>[i][1] = w THEN <<<<>>[i][2]>> ELSE <<>>] = <<>>
  OBVIOUS
<1>3. QED
  BY <1>2, FlattenEmpty DEF Of

LEMMA AppendIs ==
    ASSUME NEW T, NEW p \in Seq(T), NEW x \in T
    PROVE  /\ Append(p, x) \in Seq(T) /\ Len(Append(p, x)) = Len(p) + 1 /\ Len(p) \in Nat
           /\ Append(p, x)[Len(p) + 1] = x
           /\ \A i \in 1 .. Len(p) : Append(p, x)[i] = p[i]
OBVIOUS

\* A function that has one value more than a sequence.
Extends(r, p, x) == /\ r = [i \in 1 .. Len(p) + 1 |-> r[i]]
                    /\ \A i \in 1 .. Len(p) : r[i] = p[i]
                    /\ r[Len(p) + 1] = x

LEMMA ExtendIs ==
    ASSUME NEW T, NEW p, p \in Seq(T), NEW x, x \in T, NEW r, Extends(r, p, x)
    PROVE  r = Append(p, x)
<1> DEFINE a == Append(p, x)  n == Len(p)
<1>1. r = [i \in 1 .. n + 1 |-> r[i]] /\ r[n + 1] = x /\ \A i \in 1 .. n : r[i] = p[i]
  BY DEF Extends
<1>2. n \in Nat /\ a \in Seq(T) /\ Len(a) = n + 1 /\ a[n + 1] = x /\ \A i \in 1 .. n : a[i] = p[i]
  BY AppendIs
<1> HIDE DEF a, n
<1>3. \A i \in 1 .. n + 1 : a[i] \in T
  BY <1>2
<1>4. \A i \in 1 .. n + 1 : r[i] = a[i] /\ r[i] \in T
  <2>1. \A i \in 1 .. n + 1 : i \in 1 .. n \/ i = n + 1
    BY <1>2
  <2>2. QED
    BY <1>1, <1>2, <1>3, <2>1
<1>5. r \in Seq(T) /\ Len(r) = n + 1
  BY <1>1, <1>2, <1>4
<1>6. r = a
  BY <1>2, <1>4, <1>5, SeqEqual
<1>7. QED
  BY <1>6 DEF a

LEMMA OfAppend ==
    ASSUME NEW w, NEW s \in Seq(Line), NEW l \in Line
    PROVE  Of(w, Append(s, l)) = Of(w, s) \o (IF l[1] = w THEN <<l[2]>> ELSE <<>>)
<1> DEFINE p == [i \in DOMAIN s |-> IF s[i][1] = w THEN <<s[i][2]>> ELSE <<>>]
<1> DEFINE t == Append(s, l)
<1> DEFINE r == [i \in DOMAIN t |-> IF t[i][1] = w THEN <<t[i][2]>> ELSE <<>>]
<1> DEFINE x == IF l[1] = w THEN <<l[2]>> ELSE <<>>
<1>1. /\ Len(s) \in Nat /\ DOMAIN t = 1 .. Len(s) + 1 /\ t[Len(s) + 1] = l
      /\ \A i \in 1 .. Len(s) : t[i] = s[i] /\ s[i] \in Line
  OBVIOUS
<1>2. x \in Seq(1 .. MaxLines) /\ \A i \in 1 .. Len(s) : p[i] \in Seq(1 .. MaxLines)
  <2>1. \A m \in Line : \E k \in 1 .. MaxLines : k = m[2]
    BY DEF Line
  <2>2. \A k \in 1 .. MaxLines : <<k>> \in Seq(1 .. MaxLines) /\ <<>> \in Seq(1 .. MaxLines)
    OBVIOUS
  <2>3. \A m \in Line : (IF m[1] = w THEN <<m[2]>> ELSE <<>>) \in Seq(1 .. MaxLines)
    BY <2>1, <2>2
  <2>4. QED
    BY <1>1, <2>3
<1>3. p \in Seq(Seq(1 .. MaxLines)) /\ Len(p) = Len(s)
  <2>1. DOMAIN s = 1 .. Len(s) /\ Len(s) \in Nat /\ p = [i \in 1 .. Len(s) |-> p[i]]
    OBVIOUS
  <2> HIDE DEF p
  <2>2. QED
    BY <1>2, <2>1
<1>4. Extends(r, p, x)
  <2>1. r = [i \in 1 .. Len(p) + 1 |-> r[i]]
    BY <1>1, <1>3
  <2>2. \A i \in 1 .. Len(s) : r[i] = p[i]
    BY <1>1
  <2>3. r[Len(s) + 1] = x
    BY <1>1
  <2> HIDE DEF p, r, x
  <2>4. QED
    BY <1>3, <2>1, <2>2, <2>3 DEF Extends
<1> HIDE DEF p, r, x
<1>5. r = Append(p, x)
  <2> DEFINE T == Seq(1 .. MaxLines)
  <2>1. p \in Seq(T) /\ x \in T
    BY <1>2, <1>3
  <2> HIDE DEF T
  <2>2. QED
    BY <1>4, <2>1, ExtendIs, Zenon
<1>6. FlattenSeq(r) = FlattenSeq(p) \o x
  BY <1>2, <1>3, <1>5, FlattenAppend
<1>7. QED
  BY <1>6 DEF Of, p, r, x

-----------------------------------------------------------------------------
(* The lines that wait in a queue.                                         *)

LEMMA WaitingTyped ==
    ASSUME NEW w, NEW f, Holds(f), NEW q \in Seq(Bufs)
    PROVE  Waiting(w, f, q) \in Seq(1 .. MaxLines)
<1> DEFINE p == [i \in DOMAIN q |-> Of(w, f[q[i]].lines)]
<1>1. \A i \in 1 .. Len(q) : p[i] \in Seq(1 .. MaxLines)
  <2>1. SUFFICES ASSUME NEW i \in 1 .. Len(q) PROVE Of(w, f[q[i]].lines) \in Seq(1 .. MaxLines)
    OBVIOUS
  <2>2. f[q[i]].lines \in Seq(Line)
    BY DEF Holds
  <2>3. QED
    BY <2>2, OfTyped
<1>2. p \in Seq(Seq(1 .. MaxLines))
  <2>1. Len(q) \in Nat /\ p = [i \in 1 .. Len(q) |-> p[i]]
    OBVIOUS
  <2> HIDE DEF p
  <2>2. QED
    BY <1>1, <2>1
<1> HIDE DEF p
<1>3. FlattenSeq(p) \in Seq(1 .. MaxLines)
  BY <1>2, FlattenTyped
<1>4. QED
  BY <1>3 DEF Waiting, p

LEMMA WaitingEmpty == \A w, f : Waiting(w, f, <<>>) = <<>>
<1>1. SUFFICES ASSUME NEW w, NEW f PROVE Waiting(w, f, <<>>) = <<>>
  OBVIOUS
<1>2. [i \in DOMAIN <<>> |-> Of(w, f[<<>>[i]].lines)] = <<>>
  OBVIOUS
<1>3. QED
  BY <1>2, FlattenEmpty DEF Waiting

\* Only what the buffers of the queue hold counts.
LEMMA WaitingSame ==
    ASSUME NEW w, NEW f, NEW g, NEW q \in Seq(Bufs),
           \A i \in 1 .. Len(q) : f[q[i]].lines = g[q[i]].lines
    PROVE  Waiting(w, f, q) = Waiting(w, g, q)
<1>1. [i \in DOMAIN q |-> Of(w, f[q[i]].lines)] = [i \in DOMAIN q |-> Of(w, g[q[i]].lines)]
  OBVIOUS
<1>2. QED
  BY <1>1 DEF Waiting

LEMMA WaitingAppend ==
    ASSUME NEW w, NEW f, Holds(f), NEW q \in Seq(Bufs), NEW b \in Bufs
    PROVE  Waiting(w, f, Append(q, b)) = Waiting(w, f, q) \o Of(w, f[b].lines)
<1> DEFINE p == [i \in DOMAIN q |-> Of(w, f[q[i]].lines)]
<1> DEFINE t == Append(q, b)
<1> DEFINE r == [i \in DOMAIN t |-> Of(w, f[t[i]].lines)]
<1> DEFINE x == Of(w, f[b].lines)
<1>1. /\ Len(q) \in Nat /\ DOMAIN t = 1 .. Len(q) + 1 /\ t[Len(q) + 1] = b
      /\ \A i \in 1 .. Len(q) : t[i] = q[i] /\ q[i] \in Bufs
  OBVIOUS
<1>2. \A c \in Bufs : Of(w, f[c].lines) \in Seq(1 .. MaxLines)
  BY OfTyped DEF Holds
<1>3. x \in Seq(1 .. MaxLines) /\ \A i \in 1 .. Len(q) : p[i] \in Seq(1 .. MaxLines)
  BY <1>1, <1>2
<1>4. p \in Seq(Seq(1 .. MaxLines)) /\ Len(p) = Len(q)
  <2>1. DOMAIN q = 1 .. Len(q) /\ Len(q) \in Nat /\ p = [i \in 1 .. Len(q) |-> p[i]]
    OBVIOUS
  <2> HIDE DEF p
  <2>2. QED
    BY <1>3, <2>1
<1>5. Extends(r, p, x)
  <2>1. r = [i \in 1 .. Len(p) + 1 |-> r[i]]
    BY <1>1, <1>4
  <2>2. \A i \in 1 .. Len(q) : r[i] = p[i]
    BY <1>1
  <2>3. r[Len(q) + 1] = x
    BY <1>1
  <2> HIDE DEF p, r, x
  <2>4. QED
    BY <1>4, <2>1, <2>2, <2>3 DEF Extends
<1> HIDE DEF p, r, x
<1>6. r = Append(p, x)
  <2> DEFINE T == Seq(1 .. MaxLines)
  <2>1. p \in Seq(T) /\ x \in T
    BY <1>3, <1>4
  <2> HIDE DEF T
  <2>2. QED
    BY <1>5, <2>1, ExtendIs, Zenon
<1>7. FlattenSeq(r) = FlattenSeq(p) \o x
  BY <1>3, <1>4, <1>6, FlattenAppend
<1>8. QED
  BY <1>7 DEF Waiting, p, r, x

LEMMA WaitingTake ==
    ASSUME NEW w, NEW f, Holds(f), NEW q \in Seq(Bufs), q # <<>>
    PROVE  Waiting(w, f, q) = Of(w, f[Head(q)].lines) \o Waiting(w, f, Tail(q))
<1> DEFINE p == [i \in DOMAIN q |-> Of(w, f[q[i]].lines)]
<1> DEFINE t == Tail(q)
<1> DEFINE r == [i \in DOMAIN t |-> Of(w, f[t[i]].lines)]
<1>1. /\ Len(q) \in Nat /\ Len(q) # 0 /\ DOMAIN t = 1 .. Len(q) - 1 /\ Head(q) = q[1]
      /\ \A i \in 1 .. Len(q) - 1 : t[i] = q[i + 1]
      /\ \A i \in 1 .. Len(q) : q[i] \in Bufs
  OBVIOUS
<1>2. \A c \in Bufs : Of(w, f[c].lines) \in Seq(1 .. MaxLines)
  BY OfTyped DEF Holds
<1>3. p \in Seq(Seq(1 .. MaxLines)) /\ Len(p) = Len(q)
  <2>1. DOMAIN q = 1 .. Len(q) /\ Len(q) \in Nat /\ p = [i \in 1 .. Len(q) |-> p[i]]
    OBVIOUS
  <2>2. \A i \in 1 .. Len(q) : p[i] \in Seq(1 .. MaxLines)
    BY <1>1, <1>2
  <2> HIDE DEF p
  <2>3. QED
    BY <2>1, <2>2
<1>4. p # <<>> /\ Head(p) = Of(w, f[Head(q)].lines)
  BY <1>1, <1>3
<1>5. Tail(p) = r
  <2>1. /\ Tail(p) \in Seq(Seq(1 .. MaxLines)) /\ Len(Tail(p)) = Len(q) - 1
        /\ \A i \in 1 .. Len(q) - 1 : Tail(p)[i] = p[i + 1]
    BY <1>1, <1>3, <1>4
  <2>2. \A i \in 1 .. Len(q) - 1 : r[i] = p[i + 1] /\ p[i + 1] \in Seq(1 .. MaxLines)
    BY <1>1, <1>2
  <2>3. r = [i \in 1 .. Len(q) - 1 |-> r[i]]
    BY <1>1
  <2> HIDE DEF p, r
  <2>4. r \in Seq(Seq(1 .. MaxLines)) /\ Len(r) = Len(q) - 1
    BY <1>1, <2>2, <2>3
  <2>5. QED
    BY <1>1, <2>1, <2>2, <2>4, SeqEqual
<1> HIDE DEF p, r
<1>6. FlattenSeq(p) = Head(p) \o FlattenSeq(Tail(p))
  BY <1>3, <1>4, FlattenHead
<1>7. QED
  BY <1>4, <1>5, <1>6 DEF Waiting, p, r

-----------------------------------------------------------------------------
(* All lines of a thread: what the steps make of them.                     *)

LEMMA AssociatesFive ==
    ASSUME NEW T, NEW h, h \in Seq(T), NEW a, a \in Seq(T), NEW b, b \in Seq(T),
           NEW d, d \in Seq(T), NEW e, e \in Seq(T)
    PROVE  Cat(Cat(h, Cat(a, Cat(b, d))), e) = Cat(h, Cat(a, Cat(b, Cat(d, e))))
<1>1. Cat(Cat(b, d), e) = Cat(b, Cat(d, e)) /\ Cat(b, d) \in Seq(T)
  BY CatAssociates
<1>2. Cat(Cat(a, Cat(b, d)), e) = Cat(a, Cat(Cat(b, d), e)) /\ Cat(a, Cat(b, d)) \in Seq(T)
  BY <1>1, CatAssociates
<1>3. Cat(Cat(h, Cat(a, Cat(b, d))), e) = Cat(h, Cat(Cat(a, Cat(b, d)), e))
  BY <1>2, CatAssociates
<1>4. QED
  BY <1>1, <1>2, <1>3

LEMMA InOwnIs ==
    ASSUME NEW w, NEW f
    PROVE  InOwn(w, f, {}) = <<>> /\ \A b \in Bufs : InOwn(w, f, {b}) = Of(w, f[b].lines)
<1>1. InOwn(w, f, {}) = <<>>
  BY DEF InOwn
<1>2. ASSUME NEW b \in Bufs PROVE InOwn(w, f, {b}) = Of(w, f[b].lines)
  <2>1. (CHOOSE c \in Bufs : c \in {b}) = b
    OBVIOUS
  <2>2. QED
    BY <2>1 DEF InOwn
<1>3. QED
  BY <1>1, <1>2

\* A thread owns one buffer or none.
Single(o) == o = {} \/ \E b \in Bufs : o = {b}

LEMMA OwnSame ==
    ASSUME NEW w, NEW f, NEW g, NEW o, Single(o), \A b \in o : f[b].lines = g[b].lines
    PROVE  InOwn(w, f, o) = InOwn(w, g, o)
<1>1. CASE o = {}
  BY <1>1, InOwnIs
<1>2. CASE \E b \in Bufs : o = {b}
  <2>1. PICK b \in Bufs : o = {b}
    BY <1>2
  <2>2. InOwn(w, f, o) = Of(w, f[b].lines) /\ InOwn(w, g, o) = Of(w, g[b].lines)
    BY <2>1, InOwnIs
  <2>3. f[b].lines = g[b].lines
    BY <2>1
  <2>4. QED
    BY <2>2, <2>3
<1>3. QED
  BY <1>1, <1>2 DEF Single

LEMMA WholeTyped ==
    ASSUME NEW w, NEW f, Holds(f), NEW q \in Seq(Bufs), NEW p \in Bufs \cup {None},
           NEW o, Single(o)
    PROVE  /\ InHand(w, f, p) \in Seq(1 .. MaxLines)
           /\ Waiting(w, f, q) \in Seq(1 .. MaxLines)
           /\ InOwn(w, f, o) \in Seq(1 .. MaxLines)
<1>1. \A b \in Bufs : Of(w, f[b].lines) \in Seq(1 .. MaxLines)
  BY OfTyped DEF Holds
<1>2. <<>> \in Seq(1 .. MaxLines)
  OBVIOUS
<1>3. InHand(w, f, p) \in Seq(1 .. MaxLines)
  BY <1>1, <1>2 DEF InHand
<1>4. InOwn(w, f, o) \in Seq(1 .. MaxLines)
  BY <1>1, <1>2, InOwnIs DEF Single
<1>5. QED
  BY <1>3, <1>4, WaitingTyped

\* f and g agree on the buffers that count.
SameLines(f, g, p, q, o) == /\ \A i \in 1 .. Len(q) : f[q[i]].lines = g[q[i]].lines
                            /\ p # None => f[p].lines = g[p].lines
                            /\ \A b \in o : f[b].lines = g[b].lines

LEMMA WholeSame ==
    ASSUME NEW w, NEW h, NEW f, NEW g, NEW q \in Seq(Bufs), NEW p \in Bufs \cup {None},
           NEW o, Single(o), SameLines(f, g, p, q, o)
    PROVE  Whole(w, h, f, p, q, o) = Whole(w, h, g, p, q, o)
<1>1. Waiting(w, f, q) = Waiting(w, g, q)
  BY WaitingSame DEF SameLines
<1>2. InHand(w, f, p) = InHand(w, g, p)
  BY DEF InHand, SameLines
<1>3. InOwn(w, f, o) = InOwn(w, g, o)
  BY OwnSame DEF SameLines
<1>4. QED
  BY <1>1, <1>2, <1>3 DEF Whole

\* The buffer c of g is that of f with the line n of w added.
Adds(f, g, c, w, n) == g[c].lines = Append(f[c].lines, <<w, n>>)

\* The buffer that w owns gets a line.
LEMMA WholeStore ==
    ASSUME NEW w \in Writers, NEW h \in Seq(1 .. MaxLines), NEW f, Holds(f), NEW g,
           NEW q \in Seq(Bufs), NEW p \in Bufs \cup {None}, NEW c \in Bufs, NEW n \in 1 .. MaxLines,
           SameLines(f, g, p, q, {}),
           Adds(f, g, c, w, n)
    PROVE  Whole(w, h, g, p, q, {c}) = Cat(Whole(w, h, f, p, q, {c}), <<n>>)
<1> DEFINE T == 1 .. MaxLines
<1>1. Waiting(w, f, q) = Waiting(w, g, q)
  BY WaitingSame DEF SameLines
<1>2. InHand(w, f, p) = InHand(w, g, p)
  BY DEF InHand, SameLines
<1>3. InOwn(w, g, {c}) = InOwn(w, f, {c}) \o <<n>>
  <2>1. <<w, n>> \in Line /\ <<w, n>>[1] = w /\ <<w, n>>[2] = n /\ f[c].lines \in Seq(Line)
    BY DEF Line, Holds
  <2>2. Of(w, g[c].lines) = Of(w, f[c].lines) \o <<n>>
    <3> DEFINE l == <<w, n>>
    <3> DEFINE s == f[c].lines
    <3>1. l \in Line /\ l[1] = w /\ l[2] = n /\ s \in Seq(Line)
      BY <2>1
    <3>2. g[c].lines = Append(s, l)
      BY DEF Adds
    <3> HIDE DEF l, s
    <3>3. Of(w, Append(s, l)) = Of(w, s) \o (IF l[1] = w THEN <<l[2]>> ELSE <<>>)
      BY <3>1, OfAppend
    <3>4. QED
      BY <3>1, <3>2, <3>3, Zenon DEF s
  <2>3. QED
    BY <2>2, InOwnIs
<1> DEFINE a == InHand(w, f, p)  b == Waiting(w, f, q)  d == InOwn(w, f, {c})  e == <<n>>
<1>4. a \in Seq(T) /\ b \in Seq(T) /\ d \in Seq(T) /\ e \in Seq(T)
  <2>1. Single({c})
    BY DEF Single
  <2>2. e \in Seq(T)
    OBVIOUS
  <2>3. QED
    BY <2>1, <2>2, WholeTyped
<1>5. Whole(w, h, f, p, q, {c}) = h \o (a \o (b \o d))
  BY DEF Whole
<1>6. Whole(w, h, g, p, q, {c}) = h \o (a \o (b \o (d \o e)))
  BY <1>1, <1>2, <1>3 DEF Whole
<1>7. h \in Seq(T)
  OBVIOUS
<1> HIDE DEF T, a, b, d, e
<1>8. (h \o (a \o (b \o d))) \o e = h \o (a \o (b \o (d \o e)))
  <2>1. Cat(Cat(h, Cat(a, Cat(b, d))), e) = Cat(h, Cat(a, Cat(b, Cat(d, e))))
    BY <1>4, <1>7, AssociatesFive
  <2>2. QED
    BY <2>1, Zenon DEF Cat
<1>9. QED
  BY <1>5, <1>6, <1>8 DEF e, Cat

\* A buffer goes to the end of the flush queue: that of w, or one that holds
\* no line of w.
LEMMA WholePush ==
    ASSUME NEW w, NEW h, NEW f, Holds(f), NEW q \in Seq(Bufs), NEW p \in Bufs \cup {None}, NEW b \in Bufs
    PROVE  Whole(w, h, f, p, Append(q, b), {}) = Whole(w, h, f, p, q, {b})
<1> DEFINE x == Waiting(w, f, q)  y == Of(w, f[b].lines)  T == 1 .. MaxLines
<1>1. Waiting(w, f, Append(q, b)) = x \o y
  BY WaitingAppend
<1>2. x \in Seq(T) /\ y \in Seq(T)
  BY WaitingTyped, OfTyped DEF Holds
<1>3. InOwn(w, f, {}) = <<>> /\ InOwn(w, f, {b}) = y
  BY InOwnIs
<1> HIDE DEF x, y, T
<1>4. (x \o y) \o <<>> = x \o y
  <2>1. x \o y \in Seq(T)
    BY <1>2, Associates
  <2>2. QED
    BY <2>1, Associates
<1>5. QED
  BY <1>1, <1>3, <1>4 DEF Whole, x

LEMMA WholePushOther ==
    ASSUME NEW w, NEW h, NEW f, Holds(f), NEW q \in Seq(Bufs), NEW p \in Bufs \cup {None}, NEW b \in Bufs,
           NEW o, Of(w, f[b].lines) = <<>>
    PROVE  Whole(w, h, f, p, Append(q, b), o) = Whole(w, h, f, p, q, o)
<1> DEFINE x == Waiting(w, f, q)  T == 1 .. MaxLines
<1>1. Waiting(w, f, Append(q, b)) = x \o <<>>
  BY WaitingAppend
<1>2. x \in Seq(T)
  BY WaitingTyped DEF Holds
<1> HIDE DEF x, T
<1>3. x \o <<>> = x
  BY <1>2, Associates
<1>4. QED
  BY <1>1, <1>3 DEF Whole, x

\* The flush thread takes the first buffer.
LEMMA WholeTake ==
    ASSUME NEW w, NEW h, NEW f, Holds(f), NEW q \in Seq(Bufs), q # <<>>, NEW o, Single(o)
    PROVE  Whole(w, h, f, Head(q), Tail(q), o) = Whole(w, h, f, None, q, o)
<1> DEFINE x == Of(w, f[Head(q)].lines)  y == Waiting(w, f, Tail(q))  z == InOwn(w, f, o)
<1> DEFINE T == 1 .. MaxLines
<1>1. Head(q) \in Bufs /\ Tail(q) \in Seq(Bufs)
  OBVIOUS
<1>2. InHand(w, f, Head(q)) = x /\ InHand(w, f, None) = <<>> /\ Waiting(w, f, q) = x \o y
  BY <1>1, NoneIsNoBuf, WaitingTake DEF InHand
<1>3. x \in Seq(T) /\ y \in Seq(T) /\ z \in Seq(T)
  BY <1>1, WholeTyped, OfTyped DEF Holds
<1>4. Whole(w, h, f, Head(q), Tail(q), o) = h \o (x \o (y \o z))
  BY <1>2 DEF Whole
<1>5. Whole(w, h, f, None, q, o) = h \o (<<>> \o ((x \o y) \o z))
  BY <1>2 DEF Whole
<1> HIDE DEF x, y, z, T
<1>6. (x \o y) \o z = x \o (y \o z) /\ (x \o y) \o z \in Seq(T)
  <2>1. x \o y \in Seq(T)
    BY <1>3, Associates
  <2>2. QED
    BY <1>3, <2>1, Associates
<1>7. <<>> \o ((x \o y) \o z) = (x \o y) \o z
  BY <1>6
<1>8. QED
  BY <1>4, <1>5, <1>6, <1>7

\* The flush thread writes the buffer in its hand and empties it.
LEMMA WholeWrite ==
    ASSUME NEW w, NEW h \in Seq(1 .. MaxLines), NEW f, Holds(f), NEW g, NEW q \in Seq(Bufs),
           NEW p \in Bufs, NEW o, Single(o),
           SameLines(f, g, None, q, o), Empty(g, p)
    PROVE  Whole(w, Cat(h, Of(w, f[p].lines)), g, p, q, o) = Whole(w, h, f, p, q, o)
<1> DEFINE x == Of(w, f[p].lines)  y == Waiting(w, f, q)  z == InOwn(w, f, o)
<1> DEFINE T == 1 .. MaxLines
<1>1. Waiting(w, g, q) = y
  BY WaitingSame DEF SameLines
<1>2. InOwn(w, g, o) = z
  BY OwnSame DEF SameLines
<1>3. InHand(w, f, p) = x /\ InHand(w, g, p) = <<>>
  BY NoneIsNoBuf, OfEmpty DEF InHand, Empty
<1>4. h \in Seq(T) /\ x \in Seq(T) /\ y \in Seq(T) /\ z \in Seq(T)
  BY WholeTyped, OfTyped DEF Holds
<1>5. Whole(w, h \o x, g, p, q, o) = (h \o x) \o (<<>> \o (y \o z))
  BY <1>1, <1>2, <1>3 DEF Whole
<1>6. Whole(w, h, f, p, q, o) = h \o (x \o (y \o z))
  BY <1>3 DEF Whole
<1> HIDE DEF x, y, z, T
<1>7. y \o z \in Seq(T) /\ <<>> \o (y \o z) = y \o z
  <2>1. y \o z \in Seq(T)
    BY <1>4, Associates
  <2>2. QED
    BY <2>1
<1>8. (h \o x) \o (y \o z) = h \o (x \o (y \o z))
  <2> DEFINE yz == y \o z
  <2>1. yz \in Seq(T)
    BY <1>7
  <2> HIDE DEF yz
  <2>2. Cat(Cat(h, x), yz) = Cat(h, Cat(x, yz))
    BY <1>4, <2>1, CatAssociates
  <2>3. QED
    BY <2>2, Zenon DEF Cat, yz
<1>9. QED
  BY <1>5, <1>6, <1>7, <1>8 DEF x, Cat

\* The flush thread gives back an empty buffer.
LEMMA WholeGive ==
    ASSUME NEW w, NEW h, NEW f, NEW q, NEW p \in Bufs, NEW o, Empty(f, p)
    PROVE  Whole(w, h, f, None, q, o) = Whole(w, h, f, p, q, o)
<1>1. InHand(w, f, p) = <<>> /\ InHand(w, f, None) = <<>>
  BY NoneIsNoBuf, OfEmpty DEF InHand, Empty
<1>2. QED
  BY <1>1 DEF Whole

LEMMA NumbersNext ==
    ASSUME NEW n \in Nat
    PROVE  Cat(Numbers(n), <<n + 1>>) = Numbers(n + 1)
<1>1. Numbers(n) \in Seq(Nat) /\ Len(Numbers(n)) = n
  BY DEF Numbers
<1>2. /\ Numbers(n + 1) \in Seq(Nat) /\ Len(Numbers(n + 1)) = n + 1
      /\ \A i \in 1 .. n + 1 : Numbers(n + 1)[i] = i
  BY DEF Numbers
<1>3. \A i \in 1 .. n : Numbers(n)[i] = i
  BY DEF Numbers
<1> DEFINE a == Numbers(n)  b == Numbers(n + 1)
<1> HIDE DEF a, b
<1>4. /\ a \o <<n + 1>> \in Seq(Nat) /\ Len(a \o <<n + 1>>) = n + 1
      /\ \A i \in 1 .. n + 1 : (a \o <<n + 1>>)[i] = i
  BY <1>1, <1>3 DEF a
<1>5. a \o <<n + 1>> = b
  BY <1>2, <1>4, SeqEqual DEF b
<1>6. QED
  BY <1>5 DEF a, b, Cat

-----------------------------------------------------------------------------
(* The contents of the file: what a step leaves of FileInv.                *)

\* b is with w and nowhere else.
Alone(w, b, f, q, r, p) == /\ \A v \in Writers : b \in f[v] => v = w
                           /\ \A i \in 1 .. Len(q) : q[i] # b
                           /\ \A i \in 1 .. Len(r) : r[i] # b
                           /\ p # b

LEMMA HolderAlone ==
    ASSUME NEW f, NEW q \in Seq(Bufs), NEW r \in Seq(Bufs), NEW p, NEW w \in Writers, NEW b,
           b \in f[w], Ledger(b, f, q, r, p) <= 1
    PROVE  Alone(w, b, f, q, r, p)
<1>1. /\ Cardinality(Holders(f, b)) \in Nat /\ Cardinality(Holders(f, b)) > 0
      /\ Places(b, q) \in Nat /\ Places(b, r) \in Nat /\ Has(b, p) \in {0, 1}
  BY HoldersFinite, HolderCounts, PlacesFinite DEF Has
<1>2. /\ Cardinality(Holders(f, b)) <= 1
      /\ Places(b, q) = 0 /\ Places(b, r) = 0 /\ Has(b, p) = 0
  BY <1>1 DEF Ledger
<1>3. \A v \in Writers : b \in f[v] => v = w
  BY <1>2, HoldersTwo
<1>4. \A i \in 1 .. Len(q) : q[i] # b
  BY <1>2, PlacesSeen
<1>5. \A i \in 1 .. Len(r) : r[i] # b
  BY <1>2, PlacesSeen
<1>6. QED
  BY <1>2, <1>3, <1>4, <1>5 DEF Has, Alone

\* The same of the state behind a step.
LEMMA OwnedAloneNext ==
    ASSUME LoggerInv', Clean', NEW w \in Writers, NEW b, b \in Owned(w)', b \in Bufs
    PROVE  /\ b <= made'
           /\ \A v \in Writers : b \in Owned(v)' => v = w
           /\ \A i \in 1 .. Len(flushq') : flushq'[i] # b
           /\ \A i \in 1 .. Len(freeq') : freeq'[i] # b
           /\ flush'.p # b
<1> DEFINE f == OwnedBy'  q == flushq'  r == freeq'  p == flush'.p
<1>1. q \in Seq(Bufs) /\ r \in Seq(Bufs) /\ b \in f[w]
  BY DEF LoggerInv, LoggerTypes, OwnedBy
<1>2. Ledger(b, f, q, r, p) = IF b <= made' THEN 1 ELSE 0
  BY DEF LoggerInv, PlaceInv, Ledger
<1>3. \A v \in Writers : f[v] = Owned(v)'
  BY DEF OwnedBy
<1> HIDE DEF f, q, r, p
<1>4. /\ Cardinality(Holders(f, b)) \in Nat /\ Cardinality(Holders(f, b)) > 0
      /\ Places(b, q) \in Nat /\ Places(b, r) \in Nat /\ Has(b, p) \in {0, 1}
  BY <1>1, HoldersFinite, HolderCounts, PlacesFinite DEF Has
<1>5. b <= made'
  BY <1>2, <1>4 DEF Ledger
<1>6. Ledger(b, f, q, r, p) <= 1
  BY <1>2
<1>7. Alone(w, b, f, q, r, p)
  BY <1>1, <1>6, HolderAlone
<1>8. QED
  BY <1>3, <1>5, <1>7 DEF Alone, q, r, p

LEMMA HandAlone ==
    ASSUME LoggerInv, Clean, flush.p # None
    PROVE  /\ flush.p \in Bufs /\ flush.p <= made
           /\ \A i \in 1 .. Len(flushq) : flushq[i] # flush.p
           /\ \A i \in 1 .. Len(freeq) : freeq[i] # flush.p
           /\ \A w \in Writers : flush.p \notin Owned(w)
<1> DEFINE b == flush.p
<1>1. b \in Bufs /\ flushq \in Seq(Bufs) /\ freeq \in Seq(Bufs)
  BY DEF LoggerInv, LoggerTypes
<1>2. Ledger(b, OwnedBy, flushq, freeq, b) = IF b <= made THEN 1 ELSE 0
  BY <1>1 DEF LoggerInv, PlaceInv
<1> HIDE DEF b
<1>3. /\ Cardinality(Holders(OwnedBy, b)) \in Nat
      /\ Places(b, flushq) \in Nat /\ Places(b, freeq) \in Nat /\ Has(b, b) = 1
  BY <1>1, LedgerParts DEF LoggerInv, Has
<1>4. b <= made /\ Places(b, flushq) = 0 /\ Places(b, freeq) = 0
  BY <1>2, <1>3 DEF Ledger
<1>5. \A i \in 1 .. Len(flushq) : flushq[i] # b
  BY <1>1, <1>4, PlacesSeen
<1>6. \A i \in 1 .. Len(freeq) : freeq[i] # b
  BY <1>1, <1>4, PlacesSeen
<1>7. \A w \in Writers : b \notin Owned(w)
  BY OwnedAlone DEF b
<1>8. QED
  BY <1>1, <1>4, <1>5, <1>6, <1>7 DEF b

LEMMA OwnedSingle ==
    /\ LoggerInv => \A w \in Writers : Single(Owned(w))
    /\ LoggerInv' => \A w \in Writers : Single(Owned(w)')
<1>1. ASSUME LoggerInv, NEW w \in Writers PROVE Single(Owned(w))
  <2>1. OwnedRule(w)
    BY OwnedRules
  <2>2. map[w] \in Bufs \cup {None} /\ (th[w].pc # "idle" => th[w].cur \in Bufs)
    BY <1>1 DEF LoggerInv, LoggerTypes, WriterInv
  <2>3. {map[w]} \ {None} = IF map[w] = None THEN {} ELSE {map[w]}
    OBVIOUS
  <2>4. QED
    BY <2>1, <2>2, <2>3 DEF OwnedRule, Single
<1>2. ASSUME LoggerInv', NEW w \in Writers PROVE Single(Owned(w)')
  <2>1. OwnedRule(w)'
    BY OwnedRules
  <2>2. map'[w] \in Bufs \cup {None} /\ (th'[w].pc # "idle" => th'[w].cur \in Bufs)
    BY <1>2 DEF LoggerInv, LoggerTypes, WriterInv
  <2>3. {map'[w]} \ {None} = IF map'[w] = None THEN {} ELSE {map'[w]}
    OBVIOUS
  <2>4. QED
    BY <2>1, <2>2, <2>3 DEF OwnedRule, Single
<1>3. QED
  BY <1>1, <1>2

\* A step that moves no line: a thread that had no buffer may get an empty one.
LEMMA QuietStep ==
    ASSUME LoggerInv, LoggerInv', FileInv, Counts', ExitInv', start' \in BOOLEAN,
           UNCHANGED <<flushq, flush.p, file, dropped>>, made <= made',
           Clean' => Clean /\ UNCHANGED freeq,
           flush'.pc = "give" => flush.pc = "give",
           \A b \in Bufs : buf'[b].lines = buf[b].lines,
           \A w \in Writers : Stored(w)' = Stored(w),
           \A w \in Writers : \/ Owned(w)' = Owned(w)
                              \/ /\ Owned(w) = {}
                                 /\ \E b \in Bufs : Owned(w)' = {b} /\ (~dropped => Empty(buf, b))
    PROVE  FileInv'
<1>1. /\ flushq \in Seq(Bufs) /\ freeq \in Seq(Bufs) /\ flush.p \in Bufs \cup {None}
      /\ flush.pc = "give" => flush.p \in Bufs
      /\ made \in Nat /\ made' \in Nat /\ Bufs \subseteq Nat
  BY NoneIsNoBuf, BoundsAssumption DEF LoggerInv, LoggerTypes, FlushInv
<1>2. LineTypes'
  BY DEF FileInv, LineTypes, Holds
<1>3. EmptyInv'
  <2>1. SUFFICES ASSUME Clean' PROVE EmptyInv'
    BY DEF EmptyInv
  <2>2. Clean /\ UNCHANGED freeq /\ EmptyInv
    BY <2>1 DEF FileInv
  <2>3. \A b \in Bufs : b > made' => Empty(buf', b)
    <3>1. \A b \in Bufs : b > made' => b > made
      BY <1>1
    <3>2. QED
      BY <2>2, <3>1 DEF EmptyInv, Empty
  <2>4. \A i \in 1 .. Len(freeq') : Empty(buf', freeq'[i])
    <3>1. \A i \in 1 .. Len(freeq) : freeq[i] \in Bufs
      BY <1>1
    <3>2. QED
      BY <2>2, <3>1 DEF EmptyInv, Empty
  <2>5. flush'.pc = "give" => Empty(buf', flush'.p)
    BY <1>1, <2>2 DEF EmptyInv, Empty
  <2>6. ASSUME NEW w \in Writers, NEW b \in Owned(w)' PROVE Pure(buf', w, b)
    <3>1. CASE Owned(w)' = Owned(w)
      <4>1. b \in Bufs /\ Pure(buf, w, b)
        BY <2>2, <2>6, <3>1, OwnedTypes DEF EmptyInv, LoggerInv
      <4>2. QED
        BY <4>1 DEF Pure
    <3>2. CASE \E c \in Bufs : Owned(w)' = {c} /\ (~dropped => Empty(buf, c))
      <4>1. b \in Bufs /\ Empty(buf, b)
        BY <2>2, <2>6, <3>2 DEF Clean
      <4>2. QED
        BY <4>1, OfEmpty DEF Pure, Empty
    <3>3. QED
      BY <3>1, <3>2
  <2>7. QED
    BY <2>3, <2>4, <2>5, <2>6 DEF EmptyInv
<1>4. ContentInv'
  <2>1. SUFFICES ASSUME ~dropped, NEW w \in Writers
                 PROVE  Whole(w, file[w], buf', flush.p, flushq, Owned(w)') = Numbers(Stored(w))
    BY DEF ContentInv
  <2>2. Whole(w, file[w], buf, flush.p, flushq, Owned(w)) = Numbers(Stored(w))
    BY <2>1 DEF FileInv, ContentInv
  <2>3. Single(Owned(w)) /\ Single(Owned(w)') /\ Owned(w)' \subseteq Bufs
    BY OwnedSingle DEF Single
  <2>4. Whole(w, file[w], buf', flush.p, flushq, Owned(w)')
          = Whole(w, file[w], buf, flush.p, flushq, Owned(w)')
    <3>1. \A i \in 1 .. Len(flushq) : flushq[i] \in Bufs
      BY <1>1
    <3>2. PICK o, f, g, p, q : o = Owned(w)' /\ f = buf' /\ g = buf /\ p = flush.p /\ q = flushq
      OBVIOUS
    <3>3. Single(o) /\ SameLines(f, g, p, q, o) /\ q \in Seq(Bufs) /\ p \in Bufs \cup {None}
      BY <1>1, <2>3, <3>1, <3>2 DEF SameLines
    <3>4. \A h : Whole(w, h, f, p, q, o) = Whole(w, h, g, p, q, o)
      BY <3>3, WholeSame
    <3>5. QED
      BY <3>2, <3>4
  <2>5. Whole(w, file[w], buf, flush.p, flushq, Owned(w)')
          = Whole(w, file[w], buf, flush.p, flushq, Owned(w))
    <3>1. CASE Owned(w)' = Owned(w)
      BY <3>1
    <3>2. CASE Owned(w) = {} /\ \E b \in Bufs : Owned(w)' = {b} /\ (~dropped => Empty(buf, b))
      <4>1. PICK b \in Bufs : Owned(w)' = {b} /\ buf[b].lines = <<>>
        BY <2>1, <3>2 DEF Empty
      <4>2. InOwn(w, buf, {b}) = Of(w, buf[b].lines) /\ InOwn(w, buf, {}) = <<>>
        BY InOwnIs, Zenon
      <4>3. QED
        BY <3>2, <4>1, <4>2, OfEmpty DEF Whole
    <3>3. QED
      BY <3>1, <3>2
  <2>6. QED
    BY <2>2, <2>4, <2>5
<1>5. QED
  BY <1>2, <1>3, <1>4 DEF FileInv

LEMMA StoreLines ==
    ASSUME LoggerTypes, LineTypes, NEW c \in Bufs, NEW w \in Writers, th[w].count \in 1 .. MaxLines,
           StoreIn(c, w)
    PROVE  /\ Holds(buf') /\ buf'[c].lines = Append(buf[c].lines, <<w, th[w].count>>)
           /\ \A b \in Bufs \ {c} : buf'[b] = buf[b]
<1>1. buf \in [Bufs -> Buffer] /\ buf[c].lines \in Seq(Line) /\ <<w, th[w].count>> \in Line
  BY DEF LoggerTypes, LineTypes, Holds, Line
<1> DEFINE l == Append(buf[c].lines, <<w, th[w].count>>)
<1>2. l \in Seq(Line)
  BY <1>1
<1> DEFINE r == [buf[c] EXCEPT !.lines = l]
<1>3. r.lines = l
  BY <1>1 DEF Buffer
<1>4. buf' = [buf EXCEPT ![c] = r]
  BY DEF StoreIn
<1> HIDE DEF r
<1>5. buf'[c] = r /\ \A b \in Bufs \ {c} : buf'[b] = buf[b]
  BY <1>1, <1>4
<1> HIDE DEF l
<1>6. Holds(buf')
  BY <1>2, <1>3, <1>5 DEF LineTypes, Holds
<1>7. QED
  BY <1>3, <1>5, <1>6 DEF l

LEMMA StoreContent ==
    ASSUME NEW w \in Writers, NEW h \in Seq(1 .. MaxLines), NEW f, Holds(f), NEW g,
           NEW q \in Seq(Bufs), NEW p \in Bufs \cup {None}, NEW c \in Bufs, NEW n \in 1 .. MaxLines,
           SameLines(f, g, p, q, {}), Adds(f, g, c, w, n),
           NEW o, o = {c} \/ (o = {} /\ Empty(f, c)), Whole(w, h, f, p, q, o) = Numbers(n - 1)
    PROVE  Whole(w, h, g, p, q, {c}) = Numbers(n)
<1>1. Whole(w, h, f, p, q, {c}) = Numbers(n - 1)
  <2>1. CASE o = {c}
    BY <2>1
  <2>2. CASE o = {} /\ Empty(f, c)
    <3>1. InOwn(w, f, {c}) = Of(w, f[c].lines) /\ InOwn(w, f, {}) = <<>>
      BY InOwnIs
    <3>2. InOwn(w, f, {c}) = InOwn(w, f, {})
      BY <2>2, <3>1, OfEmpty DEF Empty
    <3>3. QED
      BY <2>2, <3>2 DEF Whole
  <2>3. QED
    BY <2>1, <2>2
<1>2. Whole(w, h, g, p, q, {c}) = Cat(Whole(w, h, f, p, q, {c}), <<n>>)
  BY WholeStore
<1>3. PICK m \in Nat : m = n - 1 /\ m + 1 = n
  OBVIOUS
<1>4. Cat(Numbers(m), <<m + 1>>) = Numbers(m + 1)
  BY NumbersNext
<1>5. QED
  BY <1>1, <1>2, <1>3, <1>4

\* A thread stores its line in a buffer that is, or becomes, its own.
LEMMA StoreStep ==
    ASSUME LoggerInv, LoggerInv', FileInv, Counts', ExitInv', NEW w \in Writers, NEW c \in Bufs,
           th[w].count \in 1 .. MaxLines, StoreIn(c, w), close.pc = "alive",
           ~dropped => Owned(w) = {c} \/ (Owned(w) = {} /\ Empty(buf, c)),
           Owned(w)' = {c}, \A v \in Writers \ {w} : Owned(v)' = Owned(v),
           UNCHANGED <<flushq, flush, file, start, close, dropped, made>>,
           \A i \in 1 .. Len(freeq') : \E j \in 1 .. Len(freeq) : freeq'[i] = freeq[j],
           Stored(w) = th[w].count - 1, Stored(w)' = th[w].count,
           \A v \in Writers \ {w} : Stored(v)' = Stored(v)
    PROVE  FileInv'
<1>1. /\ flushq \in Seq(Bufs) /\ freeq \in Seq(Bufs) /\ flush.p \in Bufs \cup {None}
      /\ flush.pc = "give" => flush.p \in Bufs
      /\ made \in Nat /\ Bufs \subseteq Nat
  BY NoneIsNoBuf, BoundsAssumption DEF LoggerInv, LoggerTypes, FlushInv
<1>2. /\ Holds(buf') /\ buf'[c].lines = Append(buf[c].lines, <<w, th[w].count>>)
      /\ \A b \in Bufs \ {c} : buf'[b] = buf[b]
  BY StoreLines DEF LoggerInv, FileInv
<1>3. LineTypes'
  BY <1>2 DEF FileInv, LineTypes
<1>4. Clean <=> ~dropped
  BY DEF Clean
<1>5. ~dropped => /\ c <= made
                  /\ \A v \in Writers : c \in Owned(v)' => v = w
                  /\ \A i \in 1 .. Len(flushq) : flushq[i] # c
                  /\ \A i \in 1 .. Len(freeq') : freeq'[i] # c
                  /\ flush.p # c
  BY <1>4, OwnedAloneNext DEF Clean
<1>6. EmptyInv'
  <2>1. SUFFICES ASSUME ~dropped PROVE EmptyInv'
    BY DEF EmptyInv, Clean
  <2>2. Clean /\ EmptyInv
    BY <1>4, <2>1 DEF FileInv
  <2>3. \A b \in Bufs : b > made => Empty(buf', b)
    <3>1. \A b \in Bufs : b > made => b # c
      BY <1>1, <1>5, <2>1
    <3>2. QED
      BY <1>2, <2>2, <3>1 DEF EmptyInv, Empty
  <2>4. \A i \in 1 .. Len(freeq') : Empty(buf', freeq'[i])
    <3>1. \A j \in 1 .. Len(freeq) : freeq[j] \in Bufs
      BY <1>1
    <3>2. \A i \in 1 .. Len(freeq') : freeq'[i] \in Bufs \ {c} /\ Empty(buf, freeq'[i])
      BY <1>5, <2>1, <2>2, <3>1 DEF EmptyInv
    <3>3. QED
      BY <1>2, <3>2 DEF Empty
  <2>5. flush.pc = "give" => Empty(buf', flush.p)
    BY <1>1, <1>2, <1>5, <2>1, <2>2 DEF EmptyInv, Empty
  <2>6. ASSUME NEW v \in Writers, NEW b \in Owned(v)' PROVE Pure(buf', v, b)
    <3>1. CASE v = w
      <4>1. b = c /\ Pure(buf, w, c)
        BY <2>1, <2>2, <2>6, <3>1, OfEmpty DEF EmptyInv, Pure, Empty
      <4>2. ASSUME NEW u \in Writers, u # w PROVE Of(u, buf'[c].lines) = <<>>
        <5> PICK s, l : s = buf[c].lines /\ l = <<w, th[w].count>>
          OBVIOUS
        <5>1. s \in Seq(Line) /\ l \in Line /\ l[1] # u
          BY <4>2 DEF FileInv, LineTypes, Holds, Line
        <5>2. Of(u, Append(s, l)) = Of(u, s) \o <<>>
          BY <5>1, OfAppend
        <5>3. Of(u, s) = <<>>
          BY <4>1, <4>2 DEF Pure
        <5>4. QED
          BY <1>2, <5>2, <5>3
      <4>3. QED
        BY <3>1, <4>1, <4>2 DEF Pure
    <3>2. CASE v # w
      <4>1. b \in Owned(v) /\ b # c
        BY <1>5, <2>1, <2>6, <3>2
      <4>2. b \in Bufs /\ Pure(buf, v, b)
        BY <2>2, <4>1, OwnedTypes DEF EmptyInv, LoggerInv
      <4>3. QED
        BY <1>2, <4>1, <4>2 DEF Pure
    <3>3. QED
      BY <3>1, <3>2
  <2>7. QED
    BY <2>3, <2>4, <2>5, <2>6 DEF EmptyInv
<1>7. ContentInv'
  <2>1. SUFFICES ASSUME ~dropped, NEW v \in Writers
                 PROVE  Whole(v, file[v], buf', flush.p, flushq, Owned(v)') = Numbers(Stored(v)')
    BY DEF ContentInv
  <2>2. Whole(v, file[v], buf, flush.p, flushq, Owned(v)) = Numbers(Stored(v))
    BY <2>1 DEF FileInv, ContentInv
  <2>3. PICK f, g, p, q, h : /\ f = buf /\ g = buf' /\ p = flush.p /\ q = flushq /\ h = file[v]
    OBVIOUS
  <2>4. /\ q \in Seq(Bufs) /\ p \in Bufs \cup {None} /\ Holds(f) /\ h \in Seq(1 .. MaxLines)
        /\ SameLines(f, g, p, q, {})
    <3>1. \A i \in 1 .. Len(flushq) : flushq[i] \in Bufs \ {c}
      BY <1>1, <1>5, <2>1
    <3>2. QED
      BY <1>1, <1>2, <1>5, <2>1, <2>3, <3>1 DEF FileInv, LineTypes, SameLines
  <2>5. CASE v = w
    <3>1. PICK n, o : n = th[w].count /\ o = Owned(w)
      OBVIOUS
    <3>2. n \in 1 .. MaxLines /\ Adds(f, g, c, w, n)
      BY <1>2, <2>3, <3>1 DEF Adds
    <3>3. o = {c} \/ (o = {} /\ Empty(f, c))
      BY <2>1, <2>3, <3>1
    <3>4. Whole(w, h, f, p, q, o) = Numbers(n - 1)
      BY <2>2, <2>3, <2>5, <3>1
    <3>5. Whole(w, h, g, p, q, {c}) = Numbers(n)
      BY <2>4, <3>2, <3>3, <3>4, StoreContent
    <3>6. QED
      BY <2>3, <2>5, <3>1, <3>5
  <2>6. CASE v # w
    <3>1. Owned(v)' = Owned(v) /\ Stored(v)' = Stored(v)
      BY <2>6
    <3>2. PICK o : o = Owned(v)
      OBVIOUS
    <3>3. \A b \in o : b \in Bufs \ {c}
      BY <1>5, <2>1, <2>6, <3>1, <3>2, OwnedTypes DEF LoggerInv
    <3>4. Single(o) /\ SameLines(f, g, p, q, o)
      BY <1>2, <2>3, <2>4, <3>2, <3>3, OwnedSingle DEF SameLines
    <3>5. Whole(v, h, f, p, q, o) = Whole(v, h, g, p, q, o)
      BY <2>4, <3>4, WholeSame
    <3>6. QED
      BY <2>2, <2>3, <3>1, <3>2, <3>5
  <2>7. QED
    BY <2>5, <2>6
<1>8. QED
  BY <1>3, <1>6, <1>7 DEF FileInv

\* A thread, or the destructor for it, puts its buffer on the flush queue.
LEMMA PushStep ==
    ASSUME LoggerInv, LoggerInv', FileInv, Counts', ExitInv', NEW w \in Writers, NEW c \in Bufs,
           Owned(w) = {c}, Owned(w)' = {}, \A v \in Writers \ {w} : Owned(v)' = Owned(v),
           flushq' = Append(flushq, c), \A b \in Bufs : buf'[b].lines = buf[b].lines,
           UNCHANGED <<freeq, flush, file, start, dropped, made>>, close.pc # "deleted",
           \A v \in Writers : Stored(v)' = Stored(v)
    PROVE  FileInv'
<1>1. /\ flushq \in Seq(Bufs) /\ flushq' \in Seq(Bufs) /\ freeq \in Seq(Bufs)
      /\ flush.p \in Bufs \cup {None} /\ (flush.pc = "give" => flush.p \in Bufs)
  BY DEF LoggerInv, LoggerTypes, FlushInv
<1>2. LineTypes'
  BY DEF FileInv, LineTypes, Holds
<1>3. EmptyInv'
  <2>1. SUFFICES ASSUME ~dropped PROVE EmptyInv'
    BY DEF EmptyInv, Clean
  <2>2. EmptyInv /\ Clean
    BY <2>1 DEF FileInv, Clean
  <2>3. \A b \in Bufs : b > made => Empty(buf', b)
    BY <2>2 DEF EmptyInv, Empty
  <2>4. \A i \in 1 .. Len(freeq) : Empty(buf', freeq[i])
    <3>1. \A i \in 1 .. Len(freeq) : freeq[i] \in Bufs
      BY <1>1
    <3>2. QED
      BY <2>2, <3>1 DEF EmptyInv, Empty
  <2>5. flush.pc = "give" => Empty(buf', flush.p)
    BY <1>1, <2>2 DEF EmptyInv, Empty
  <2>6. ASSUME NEW v \in Writers, NEW b \in Owned(v)' PROVE Pure(buf', v, b)
    <3>1. b \in Owned(v)
      BY <2>6
    <3>2. b \in Bufs /\ Pure(buf, v, b)
      BY <2>2, <3>1, OwnedTypes DEF EmptyInv, LoggerInv
    <3>3. QED
      BY <3>2 DEF Pure
  <2>7. QED
    BY <2>3, <2>4, <2>5, <2>6 DEF EmptyInv
<1>4. ContentInv'
  <2>1. SUFFICES ASSUME ~dropped, NEW v \in Writers
                 PROVE  Whole(v, file[v], buf', flush.p, flushq', Owned(v)') = Numbers(Stored(v))
    BY DEF ContentInv
  <2>2. Whole(v, file[v], buf, flush.p, flushq, Owned(v)) = Numbers(Stored(v))
    BY <2>1 DEF FileInv, ContentInv
  <2>3. PICK f, g, p, q, h, o, t : /\ f = buf /\ g = buf' /\ p = flush.p /\ q = flushq
                                   /\ h = file[v] /\ o = Owned(v)' /\ t = Append(q, c)
    OBVIOUS
  <2>4. q \in Seq(Bufs) /\ t \in Seq(Bufs) /\ p \in Bufs \cup {None} /\ Holds(f)
    BY <1>1, <2>3 DEF FileInv, LineTypes
  <2>5. Whole(v, h, g, p, t, o) = Whole(v, h, f, p, t, o)
    <3>1. Single(o) /\ o \subseteq Bufs
      BY <2>3, OwnedSingle DEF Single
    <3>2. \A i \in 1 .. Len(t) : t[i] \in Bufs
      BY <2>4
    <3>3. SameLines(f, g, p, t, o)
      BY <2>3, <2>4, <3>1, <3>2 DEF SameLines
    <3>4. QED
      BY <2>4, <3>1, <3>3, WholeSame
  <2>6. CASE v = w
    <3>1. Whole(v, h, f, p, t, {}) = Whole(v, h, f, p, q, {c})
      BY <2>3, <2>4, WholePush
    <3>2. QED
      BY <2>2, <2>3, <2>5, <2>6, <3>1
  <2>7. CASE v # w
    <3>1. Pure(buf, w, c)
      BY <2>1 DEF FileInv, EmptyInv, Clean
    <3>2. Of(v, f[c].lines) = <<>>
      BY <2>3, <2>7, <3>1 DEF Pure
    <3>3. Whole(v, h, f, p, Append(q, c), o) = Whole(v, h, f, p, q, o)
      BY <2>4, <3>2, WholePushOther
    <3>4. o = Owned(v)
      BY <2>3, <2>7
    <3>5. QED
      BY <2>2, <2>3, <2>5, <3>3, <3>4
  <2>8. QED
    BY <2>6, <2>7
<1>5. QED
  BY <1>2, <1>3, <1>4 DEF FileInv

-----------------------------------------------------------------------------
(* The contents of the file: Flush.                                        *)

\* A step of the flush thread leaves the threads as they are.
LEMMA FlushAside ==
    ASSUME UNCHANGED <<map, th, made, close>>, LineTypes
    PROVE  /\ Counts'
           /\ \A w \in Writers : Owned(w)' = Owned(w) /\ Stored(w)' = Stored(w)
<1>1. \A w \in Writers : Stored(w)' = Stored(w)
  BY DEF Stored
<1>2. QED
  BY <1>1, OwnedSame DEF LineTypes, Counts

LEMMA FlushTakeFile ==
    ASSUME LoggerInv, LoggerInv', FileInv, flushq # <<>>, flush.pc = "test",
           flush' = [pc |-> "write", p |-> Head(flushq)], flushq' = Tail(flushq),
           UNCHANGED <<map, buf, freeq, total, made, th, start, file, close, dropped>>
    PROVE  FileInv'
<1>1. /\ Counts'
      /\ \A w \in Writers : Owned(w)' = Owned(w) /\ Stored(w)' = Stored(w)
  BY FlushAside DEF FileInv
<1>2. LineTypes' /\ ExitInv' /\ EmptyInv'
  BY <1>1 DEF FileInv, LineTypes, ExitInv, Pushed, EmptyInv, Clean
<1>3. ContentInv'
  <2>1. SUFFICES ASSUME ~dropped, NEW w \in Writers
                 PROVE  Whole(w, file[w], buf, Head(flushq), Tail(flushq), Owned(w)) = Numbers(Stored(w))
    BY <1>1 DEF ContentInv
  <2>2. Whole(w, file[w], buf, flush.p, flushq, Owned(w)) = Numbers(Stored(w))
    BY <2>1 DEF FileInv, ContentInv
  <2>3. flush.p = None
    BY DEF LoggerInv, FlushInv
  <2>4. PICK f, q, h, o : f = buf /\ q = flushq /\ h = file[w] /\ o = Owned(w)
    OBVIOUS
  <2>5. q \in Seq(Bufs) /\ q # <<>> /\ Holds(f) /\ Single(o)
    BY <2>4, OwnedSingle DEF LoggerInv, LoggerTypes, FileInv, LineTypes
  <2>6. Whole(w, h, f, Head(q), Tail(q), o) = Whole(w, h, f, None, q, o)
    BY <2>5, WholeTake
  <2>7. QED
    BY <2>2, <2>3, <2>4, <2>6
<1>4. QED
  BY <1>2, <1>3 DEF FileInv

LEMMA FlushWriteFile ==
    ASSUME LoggerInv, LoggerInv', FileInv, FlushWrite
    PROVE  FileInv'
<1>1. /\ flush.pc = "write" /\ flush'.pc = "give" /\ flush'.p = flush.p /\ flush.p \in Bufs
  BY FlushGotoIs DEF LoggerInv, LoggerTypes, FlushInv, FlushWrite, FlushStates
<1>2. /\ file' = [w \in Writers |-> file[w] \o Of(w, buf[flush.p].lines)]
      /\ UNCHANGED <<map, flushq, freeq, total, made, th, start, close, dropped>>
  BY DEF FlushWrite, poolVars
<1>3. buf'[flush.p].lines = <<>> /\ \A b \in Bufs \ {flush.p} : buf'[b] = buf[b]
  <2> DEFINE r == [lines |-> <<>>, state |-> "FREE"]
  <2>1. r.lines = <<>> /\ buf' = [buf EXCEPT ![flush.p] = r] /\ buf \in [Bufs -> Buffer]
    BY DEF FlushWrite, LoggerInv, LoggerTypes
  <2> HIDE DEF r
  <2>2. QED
    BY <1>1, <2>1
<1>4. /\ Counts'
      /\ \A w \in Writers : Owned(w)' = Owned(w) /\ Stored(w)' = Stored(w)
  BY <1>2, FlushAside DEF FileInv
<1>5. LineTypes'
  <2>1. Holds(buf')
    <3>1. <<>> \in Seq(Line)
      OBVIOUS
    <3>2. QED
      BY <1>3, <3>1 DEF FileInv, LineTypes, Holds
  <2>2. ASSUME NEW w \in Writers PROVE file[w] \o Of(w, buf[flush.p].lines) \in Seq(1 .. MaxLines)
    <3>1. file[w] \in Seq(1 .. MaxLines) /\ Of(w, buf[flush.p].lines) \in Seq(1 .. MaxLines)
      BY <1>1, OfTyped DEF FileInv, LineTypes, Holds
    <3>2. QED
      BY <3>1
  <2>3. file' \in [Writers -> Seq(1 .. MaxLines)]
    BY <1>2, <2>2
  <2>4. QED
    BY <1>2, <1>4, <2>1, <2>3 DEF FileInv, LineTypes
<1>6. ExitInv'
  BY <1>1, <1>2 DEF FileInv, ExitInv, Pushed
<1>7. close.pc # "deleted" /\ flush.p # None
  BY <1>1, NoneIsNoBuf DEF FileInv, ExitInv
<1>8. /\ flushq \in Seq(Bufs) /\ freeq \in Seq(Bufs)
      /\ ~dropped => /\ \A i \in 1 .. Len(flushq) : flushq[i] # flush.p
                     /\ \A w \in Writers : flush.p \notin Owned(w)
  BY <1>7, HandAlone DEF LoggerInv, LoggerTypes, Clean
<1>9. EmptyInv'
  <2>1. SUFFICES ASSUME Clean PROVE EmptyInv'
    BY <1>2 DEF EmptyInv, Clean
  <2>2. EmptyInv
    BY DEF FileInv
  <2>3. \A b \in Bufs : Empty(buf, b) => Empty(buf', b)
    BY <1>3 DEF Empty
  <2>4. \A b \in Bufs : b > made => Empty(buf', b)
    BY <2>1, <2>2, <2>3 DEF EmptyInv
  <2>5. \A i \in 1 .. Len(freeq) : Empty(buf', freeq[i])
    <3>1. \A i \in 1 .. Len(freeq) : freeq[i] \in Bufs
      BY <1>8
    <3>2. QED
      BY <2>1, <2>2, <2>3, <3>1 DEF EmptyInv
  <2>6. Empty(buf', flush.p)
    BY <1>3 DEF Empty
  <2>7. ASSUME NEW v \in Writers, NEW b \in Owned(v) PROVE Pure(buf', v, b)
    <3>1. b \in Bufs \ {flush.p}
      BY <1>8, <2>1, <2>7, OwnedTypes DEF LoggerInv, Clean
    <3>2. Pure(buf, v, b)
      BY <2>1, <2>2, <2>7 DEF EmptyInv
    <3>3. QED
      BY <1>3, <3>1, <3>2 DEF Pure
  <2>8. QED
    BY <1>1, <1>2, <1>4, <2>4, <2>5, <2>6, <2>7 DEF EmptyInv
<1>10. ContentInv'
  <2>1. SUFFICES ASSUME ~dropped, NEW w \in Writers
                 PROVE  Whole(w, file'[w], buf', flush.p, flushq, Owned(w)) = Numbers(Stored(w))
    BY <1>1, <1>2, <1>4 DEF ContentInv
  <2>2. Whole(w, file[w], buf, flush.p, flushq, Owned(w)) = Numbers(Stored(w))
    BY <2>1 DEF FileInv, ContentInv
  <2>3. PICK f, g, p, q, h, o : /\ f = buf /\ g = buf' /\ p = flush.p /\ q = flushq
                                /\ h = file[w] /\ o = Owned(w)
    OBVIOUS
  <2>4. /\ q \in Seq(Bufs) /\ p \in Bufs /\ Holds(f) /\ h \in Seq(1 .. MaxLines)
        /\ Single(o) /\ Empty(g, p)
    BY <1>1, <1>3, <1>8, <2>3, OwnedSingle DEF FileInv, LineTypes, Empty
  <2>5. SameLines(f, g, None, q, o)
    <3>1. \A i \in 1 .. Len(flushq) : flushq[i] \in Bufs \ {flush.p}
      BY <1>8, <2>1
    <3>2. \A b \in o : b \in Bufs \ {flush.p}
      BY <1>8, <2>1, <2>3, OwnedTypes DEF LoggerInv
    <3>3. QED
      BY <1>3, <2>3, <3>1, <3>2 DEF SameLines
  <2>6. Whole(w, Cat(h, Of(w, f[p].lines)), g, p, q, o) = Whole(w, h, f, p, q, o)
    BY <2>4, <2>5, WholeWrite
  <2>7. file'[w] = Cat(h, Of(w, f[p].lines))
    BY <1>2, <2>3 DEF Cat
  <2>8. QED
    BY <2>2, <2>3, <2>6, <2>7
<1>11. QED
  BY <1>5, <1>6, <1>9, <1>10 DEF FileInv

LEMMA FlushGiveFile ==
    ASSUME LoggerInv, LoggerInv', FileInv, FlushGive
    PROVE  FileInv'
<1>1. /\ flush.pc = "give" /\ freeq' = Append(freeq, flush.p)
      /\ flush' = [pc |-> "test", p |-> None]
      /\ UNCHANGED <<map, buf, flushq, total, made, th, start, file, close, dropped>>
  BY DEF FlushGive, poolVars
<1>2. flush.p \in Bufs /\ freeq \in Seq(Bufs)
  BY <1>1 DEF LoggerInv, LoggerTypes, FlushInv
<1>3. \A i \in 1 .. Len(freeq') : \/ \E j \in 1 .. Len(freeq) : freeq'[i] = freeq[j]
                                 \/ freeq'[i] = flush.p
  BY <1>1, <1>2
<1>4. /\ Counts'
      /\ \A w \in Writers : Owned(w)' = Owned(w) /\ Stored(w)' = Stored(w)
  BY <1>1, FlushAside DEF FileInv
<1>5. LineTypes' /\ ExitInv'
  BY <1>1, <1>4 DEF FileInv, LineTypes, ExitInv, Pushed
<1>6. close.pc # "deleted"
  BY <1>1 DEF FileInv, ExitInv
<1>7. Clean => Empty(buf, flush.p)
  BY <1>1 DEF FileInv, EmptyInv
<1>8. EmptyInv'
  <2>1. SUFFICES ASSUME Clean PROVE EmptyInv'
    BY <1>1 DEF EmptyInv, Clean
  <2>2. \A i \in 1 .. Len(freeq') : Empty(buf, freeq'[i])
    BY <1>3, <1>7, <2>1 DEF FileInv, EmptyInv
  <2>3. QED
    BY <1>1, <1>4, <2>1, <2>2 DEF FileInv, EmptyInv
<1>9. ContentInv'
  <2>1. SUFFICES ASSUME ~dropped, NEW w \in Writers
                 PROVE  Whole(w, file[w], buf, None, flushq, Owned(w)) = Numbers(Stored(w))
    BY <1>1, <1>4 DEF ContentInv
  <2>2. Whole(w, file[w], buf, flush.p, flushq, Owned(w)) = Numbers(Stored(w))
    BY <2>1 DEF FileInv, ContentInv
  <2>3. PICK f, p : f = buf /\ p = flush.p
    OBVIOUS
  <2>4. p \in Bufs /\ Empty(f, p)
    BY <1>2, <1>6, <1>7, <2>1, <2>3 DEF Clean
  <2>5. \A h, q, o : Whole(w, h, f, None, q, o) = Whole(w, h, f, p, q, o)
    BY <2>4, WholeGive
  <2>6. QED
    BY <2>2, <2>3, <2>5
<1>10. QED
  BY <1>5, <1>8, <1>9 DEF FileInv

\* A step of the flush thread that moves no buffer.
LEMMA FlushQuiet ==
    ASSUME LoggerInv, LoggerInv', FileInv, ExitInv', start' \in BOOLEAN, flush'.p = flush.p,
           flush'.pc = "give" => flush.pc = "give",
           UNCHANGED <<map, buf, flushq, freeq, total, made, th, file, close, dropped>>
    PROVE  FileInv'
<1>1. /\ Counts'
      /\ \A w \in Writers : Owned(w)' = Owned(w) /\ Stored(w)' = Stored(w)
  BY FlushAside DEF FileInv
<1>2. made \in Nat
  BY BoundsAssumption DEF LoggerInv, LoggerTypes
<1>3. QED
  BY <1>1, <1>2, QuietStep DEF Clean

LEMMA FlushFile ==
    ASSUME LoggerInv, LoggerInv', FileInv, FlushNext
    PROVE  FileInv'
<1>1. CASE FlushStart
  <2>1. flush.pc = "begin" /\ flush'.pc = "test" /\ flush'.p = flush.p
    BY <1>1, FlushGotoIs DEF LoggerInv, FlushStart, FlushStates
  <2>2. start' /\ UNCHANGED <<map, buf, flushq, freeq, total, made, th, file, close, dropped>>
    BY <1>1 DEF FlushStart, poolVars
  <2>3. start' \in BOOLEAN
    BY <1>1, Zenon DEF FlushStart
  <2>4. ExitInv'
    BY <2>1, <2>2 DEF FileInv, ExitInv, Pushed
  <2>5. QED
    BY <2>1, <2>2, <2>3, <2>4, FlushQuiet
<1>2. CASE FlushTest
  <2>1. UNCHANGED <<map, buf, freeq, total, made, th, start, file, close, dropped>>
    BY <1>2 DEF FlushTest, poolVars
  <2>2. CASE FlushGoto("test", "wait") /\ UNCHANGED flushq
    <3>1. flush.pc = "test" /\ flush'.pc = "wait" /\ flush'.p = flush.p
      BY <2>2, FlushGotoIs DEF LoggerInv, FlushStates
    <3>2. ExitInv' /\ start' \in BOOLEAN
      BY <2>1, <2>2, <3>1 DEF FileInv, LineTypes, ExitInv, Pushed
    <3>3. QED
      BY <2>1, <2>2, <3>1, <3>2, FlushQuiet
  <2>3. CASE Finished /\ FlushGoto("test", "exited") /\ UNCHANGED flushq
    <3>1. flush.pc = "test" /\ flush'.pc = "exited" /\ flush'.p = flush.p
      BY <2>3, FlushGotoIs DEF LoggerInv, FlushStates
    <3>2. ExitInv' /\ start' \in BOOLEAN
      BY <2>1, <2>3, <3>1 DEF FileInv, LineTypes, ExitInv, Pushed, Finished
    <3>3. QED
      BY <2>1, <2>3, <3>1, <3>2, FlushQuiet
  <2>4. CASE /\ flushq # <<>> /\ flush.pc = "test"
             /\ flush' = [pc |-> "write", p |-> Head(flushq)] /\ flushq' = Tail(flushq)
    BY <2>1, <2>4, FlushTakeFile
  <2>5. QED
    BY <1>2, <2>2, <2>3, <2>4 DEF FlushTest
<1>3. CASE FlushWait
  <2>1. /\ flush.pc \in {"wait", "blocked"} /\ flush'.pc \in {"blocked", "test"} /\ flush'.p = flush.p
    BY <1>3, FlushGotoIs DEF LoggerInv, FlushWait, FlushStates
  <2>2. UNCHANGED <<map, buf, flushq, freeq, total, made, th, start, file, close, dropped>>
    BY <1>3 DEF FlushWait, poolVars
  <2>3. ExitInv' /\ start' \in BOOLEAN
    BY <2>1, <2>2 DEF FileInv, LineTypes, ExitInv, Pushed
  <2>4. QED
    BY <2>1, <2>2, <2>3, FlushQuiet
<1>4. QED
  BY <1>1, <1>2, <1>3, FlushWriteFile, FlushGiveFile DEF FlushNext

-----------------------------------------------------------------------------
(* The contents of the file: Append.                                       *)

\* Before the destructor runs the flush thread does not stop.
LEMMA AliveExit ==
    ASSUME ExitInv, close.pc = "alive", UNCHANGED <<close, start>>,
           flush'.pc = flush.pc \/ (flush.pc = "blocked" /\ flush'.pc = "test")
    PROVE  ExitInv'
BY DEF ExitInv, Pushed

LEMMA WriterCounts ==
    ASSUME Counts, th \in [Writers -> Thread], NEW w \in Writers, NEW place, NEW b,
           NEW number, NEW n, Became(w, place, b, number, n),
           number <= made', n <= MaxLines, place # "idle" => n >= 1,
           made \in Nat, made' \in Nat, made <= made'
    PROVE  /\ Counts'
           /\ \A v \in Writers \ {w} : Stored(v)' = Stored(v)
<1>1. \A v \in Writers \ {w} : Stored(v)' = Stored(v)
  BY DEF Became, Stored
<1>2. /\ \A v \in Writers : th[v].seen \in Nat
      /\ \A i \in Nat : i <= made => i <= made'
  BY DEF Thread
<1>3. Counts'
  <2>1. SUFFICES ASSUME NEW v \in Writers
                 PROVE  /\ th'[v].seen <= made' /\ th'[v].count <= MaxLines
                        /\ th'[v].pc # "idle" => th'[v].count >= 1
    BY DEF Counts
  <2>2. CASE v = w
    BY <2>2 DEF Became
  <2>3. CASE v # w
    <3>1. th'[v] = th[v]
      BY <2>3 DEF Became
    <3>2. /\ th[v].seen <= made /\ th[v].count <= MaxLines
          /\ th[v].pc # "idle" => th[v].count >= 1
      BY DEF Counts
    <3>3. th[v].seen <= made'
      BY <1>2, <3>2, Zenon
    <3>4. QED
      BY <3>1, <3>2, <3>3
  <2>4. QED
    BY <2>2, <2>3
<1>4. QED
  BY <1>1, <1>3

\* Where a thread is whose line is not stored.
Storing == {"count", "store", "retest", "push", "notify", "replace", "recount", "busy"}

LEMMA StoredIs ==
    ASSUME NEW w \in Writers, NEW place, NEW b, NEW number, NEW n, Became(w, place, b, number, n)
    PROVE  /\ place \in {"idle", "update"} => Stored(w)' = n
           /\ place \in Storing => Stored(w)' = n - 1
           /\ th[w].pc \in {"idle", "update"} => Stored(w) = th[w].count
           /\ th[w].pc \in Storing => Stored(w) = th[w].count - 1
BY DEF Stored, Became, Storing

\* What holds of a thread at any place in Append.
LEMMA WriterHas ==
    ASSUME LoggerInv, FileInv, NEW w \in Writers, th[w].pc # "idle"
    PROVE  /\ close.pc = "alive" /\ th[w].cur \in Bufs /\ th[w].count \in 1 .. MaxLines
           /\ th[w].seen <= made /\ made \in Nat
           /\ th \in [Writers -> Thread] /\ buf \in [Bufs -> Buffer] /\ freeq \in Seq(Bufs)
           /\ Counts /\ ExitInv /\ start \in BOOLEAN
<1>1. close.pc = "alive"
  BY WriterAlive
<1>2. th[w].cur \in Bufs /\ th[w].count \in Nat
  BY DEF LoggerInv, LoggerTypes, Thread, WriterInv
<1>3. th[w].count \in 1 .. MaxLines /\ th[w].seen <= made
  <2>1. Counts
    BY DEF FileInv, LineTypes
  <2>2. th[w].count <= MaxLines /\ th[w].count >= 1 /\ th[w].seen <= made
    BY <2>1 DEF Counts
  <2>3. PICK n \in Nat : n = th[w].count
    BY <1>2
  <2>4. n \in 1 .. MaxLines
    BY <2>2, <2>3, BoundsAssumption
  <2>5. QED
    BY <2>2, <2>3, <2>4
<1>4. QED
  BY <1>1, <1>2, <1>3, BoundsAssumption DEF LoggerInv, LoggerTypes, FileInv, LineTypes

\* A step of a thread that moves neither a line nor a buffer.
LEMMA WriterQuiet ==
    ASSUME LoggerInv, LoggerInv', FileInv, NEW w \in Writers, th[w].pc # "idle",
           NEW place, Became(w, place, th[w].cur, th[w].seen, th[w].count),
           \/ th[w].pc \in Storing /\ place \in Storing
           \/ th[w].pc = "update" /\ place = "idle",
           UNCHANGED <<flushq, freeq, made, flush.p, start, file, close, dropped>>,
           flush'.pc = flush.pc \/ (flush.pc = "blocked" /\ flush'.pc = "test"),
           \A b \in Bufs : buf'[b].lines = buf[b].lines,
           \A v \in Writers : Owned(v)' = Owned(v)
    PROVE  FileInv'
<1>1. /\ close.pc = "alive" /\ th[w].count \in 1 .. MaxLines /\ th[w].seen <= made /\ made \in Nat
      /\ th \in [Writers -> Thread] /\ Counts /\ ExitInv /\ start \in BOOLEAN
  BY WriterHas
<1>2. Counts' /\ \A v \in Writers \ {w} : Stored(v)' = Stored(v)
  BY <1>1, WriterCounts
<1>3. Stored(w)' = Stored(w)
  BY StoredIs DEF Storing
<1>4. ExitInv'
  BY <1>1, AliveExit
<1>5. QED
  BY <1>1, <1>2, <1>3, <1>4, QuietStep DEF Clean

LEMMA CountFirstFile ==
    ASSUME LoggerInv, LoggerInv', FileInv, NEW w \in Writers, CountFirst(w)
    PROVE  FileInv'
<1>1. th[w].pc = "count" /\ th \in [Writers -> Thread]
  BY DEF LoggerInv, LoggerTypes, CountFirst, At
<1>2. Became(w, "store", th[w].cur, th[w].seen, th[w].count)
  BY <1>1, GotoIs DEF CountFirst, WriterStates
<1>3. UNCHANGED <<map, buf, flushq, freeq, made, flush, start, file, close, dropped>>
  BY DEF CountFirst, Counted
<1>4. \A v \in Writers : Owned(v)' = Owned(v)
  <2>1. Owned(w)' = Owned(w)
    BY <1>1, <1>2, <1>3, OwnedRules DEF OwnedRule, Became
  <2>2. QED
    BY <1>2, <1>3, <2>1, OwnedOthers
<1>5. QED
  BY <1>1, <1>2, <1>3, <1>4, WriterQuiet DEF Storing

LEMMA StoreFile ==
    ASSUME LoggerInv, LoggerInv', FileInv, NEW w \in Writers, Store(w)
    PROVE  FileInv'
<1>1. /\ th[w].pc = "store" /\ map[w] = th[w].cur /\ th[w].cur \in Bufs /\ close.pc = "alive"
      /\ th[w].count \in 1 .. MaxLines /\ th[w].seen <= made /\ made \in Nat
      /\ th \in [Writers -> Thread] /\ Counts /\ ExitInv
  <2>1. th[w].pc = "store"
    BY DEF Store, At
  <2>2. map[w] = th[w].cur
    BY <2>1 DEF LoggerInv, WriterInv
  <2>3. QED
    BY <2>1, <2>2, WriterHas
<1>2. UNCHANGED <<map, flushq, freeq, made, flush, start, file, close, dropped>>
  BY DEF Store, poolVars
<1>3. Owned(w) = {th[w].cur}
  BY <1>1, OwnedRules DEF OwnedRule
<1>4. CASE Room(th[w].cur)
  <2>1. StoreIn(th[w].cur, w) /\ Became(w, "idle", None, th[w].seen, th[w].count)
    BY <1>1, <1>4, UseIs DEF Store, Return, WriterStates
  <2>2. {map[w]} \ {None} = {th[w].cur}
    BY <1>1, NoneIsNoBuf
  <2>3. Owned(w)' = {th[w].cur}
    BY <1>1, <1>2, <2>1, <2>2, OwnedRules DEF OwnedRule, Became
  <2>4. \A v \in Writers \ {w} : Owned(v)' = Owned(v)
    BY <1>2, <2>1, OwnedOthers
  <2>5. Counts' /\ \A v \in Writers \ {w} : Stored(v)' = Stored(v)
    <3>1. th[w].seen <= made' /\ th[w].count <= MaxLines /\ made' = made
      BY <1>1, <1>2, BoundsAssumption
    <3>2. QED
      BY <1>1, <2>1, <3>1, WriterCounts
  <2>6. Stored(w) = th[w].count - 1 /\ Stored(w)' = th[w].count
    BY <1>1, <2>1, StoredIs DEF Storing
  <2>7. ExitInv'
    BY <1>1, <1>2, AliveExit
  <2>8. \A i \in 1 .. Len(freeq') : \E j \in 1 .. Len(freeq) : freeq'[i] = freeq[j]
    BY <1>2
  <2>9. QED
    BY <1>1, <1>2, <1>3, <2>1, <2>3, <2>4, <2>5, <2>6, <2>7, <2>8, StoreStep
<1>5. CASE ~Room(th[w].cur)
  <2>1. UNCHANGED buf /\ Became(w, "retest", th[w].cur, th[w].seen, th[w].count)
    BY <1>1, <1>5, GotoIs DEF Store, WriterStates
  <2>2. \A v \in Writers : Owned(v)' = Owned(v)
    <3>1. Owned(w)' = Owned(w)
      BY <1>1, <1>3, <2>1, OwnedRules DEF OwnedRule, Became
    <3>2. QED
      BY <1>2, <2>1, <3>1, OwnedOthers
  <2>3. QED
    BY <1>1, <1>2, <2>1, <2>2, WriterQuiet DEF Storing
<1>6. QED
  BY <1>4, <1>5

LEMMA ToFlushLines ==
    ASSUME buf \in [Bufs -> Buffer], NEW b \in Bufs, buf' = [buf EXCEPT ![b].state = "FLUSH"]
    PROVE  \A c \in Bufs : buf'[c].lines = buf[c].lines
<1> DEFINE r == [buf[b] EXCEPT !.state = "FLUSH"]
<1>1. r.lines = buf[b].lines
  BY DEF Buffer
<1>2. buf' = [buf EXCEPT ![b] = r]
  OBVIOUS
<1> HIDE DEF r
<1>3. QED
  BY <1>1, <1>2

LEMMA RetestFile ==
    ASSUME LoggerInv, LoggerInv', FileInv, NEW w \in Writers, Retest(w)
    PROVE  FileInv'
<1>1. th[w].pc = "retest" /\ th[w].cur \in Bufs /\ th \in [Writers -> Thread] /\ buf \in [Bufs -> Buffer]
  BY DEF LoggerInv, LoggerTypes, WriterInv, Retest, At
<1>2. UNCHANGED <<map, flushq, freeq, made, flush, start, file, close, dropped>>
  BY DEF Retest, poolVars
<1>3. PICK place \in {"push", "busy"} : Became(w, place, th[w].cur, th[w].seen, th[w].count)
  BY <1>1, GotoIs DEF Retest, WriterStates
<1>4. \A b \in Bufs : buf'[b].lines = buf[b].lines
  <2>1. CASE buf' = buf
    BY <2>1
  <2>2. CASE buf' = [buf EXCEPT ![th[w].cur].state = "FLUSH"]
    BY <1>1, <2>2, ToFlushLines
  <2>3. QED
    BY <2>1, <2>2 DEF Retest
<1>5. \A v \in Writers : Owned(v)' = Owned(v)
  <2>1. Owned(w)' = Owned(w)
    BY <1>1, <1>3, OwnedRules DEF OwnedRule, Became
  <2>2. QED
    BY <1>2, <1>3, <2>1, OwnedOthers
<1>6. QED
  BY <1>1, <1>2, <1>3, <1>4, <1>5, WriterQuiet DEF Storing

LEMMA PushFlushFile ==
    ASSUME LoggerInv, LoggerInv', FileInv, NEW w \in Writers, PushFlush(w)
    PROVE  FileInv'
<1>1. /\ th[w].pc = "push" /\ th[w].cur \in Bufs /\ close.pc = "alive"
      /\ th[w].count \in 1 .. MaxLines /\ th[w].seen <= made /\ made \in Nat
      /\ th \in [Writers -> Thread] /\ Counts /\ ExitInv
  BY WriterHas DEF PushFlush, At
<1>2. Became(w, "notify", th[w].cur, th[w].seen, th[w].count)
  BY <1>1, GotoIs DEF PushFlush, WriterStates
<1>3. /\ UNCHANGED <<map, buf, freeq, made, flush, start, file, close, dropped>>
      /\ flushq' = Append(flushq, th[w].cur)
  BY DEF PushFlush, poolVars, Queue
<1>4. Owned(w) = {th[w].cur} /\ Owned(w)' = {}
  BY <1>1, <1>2, OwnedRules DEF OwnedRule, Became
<1>5. \A v \in Writers \ {w} : Owned(v)' = Owned(v)
  BY <1>2, <1>3, OwnedOthers
<1>6. Counts' /\ \A v \in Writers \ {w} : Stored(v)' = Stored(v)
  <2>1. th[w].seen <= made' /\ th[w].count <= MaxLines /\ th[w].count >= 1 /\ made' = made
    BY <1>1, <1>3, BoundsAssumption
  <2>2. QED
    BY <1>1, <1>2, <2>1, WriterCounts
<1>7. Stored(w)' = Stored(w)
  BY <1>1, <1>2, StoredIs DEF Storing
<1>8. ExitInv'
  BY <1>1, <1>3, AliveExit
<1>9. QED
  BY <1>1, <1>3, <1>4, <1>5, <1>6, <1>7, <1>8, PushStep

LEMMA NotifyFile ==
    ASSUME LoggerInv, LoggerInv', FileInv, NEW w \in Writers, Notify(w)
    PROVE  FileInv'
<1>1. th[w].pc = "notify" /\ th \in [Writers -> Thread]
  BY DEF LoggerInv, LoggerTypes, Notify, At
<1>2. Became(w, "replace", th[w].cur, th[w].seen, th[w].count)
  BY <1>1, GotoIs DEF Notify, WriterStates
<1>3. UNCHANGED <<map, buf, flushq, freeq, made, start, file, close, dropped>>
  BY DEF Notify, poolVars
<1>4. flush'.p = flush.p /\ (flush'.pc = flush.pc \/ (flush.pc = "blocked" /\ flush'.pc = "test"))
  BY NotifyOneIs DEF LoggerInv, Notify
<1>5. \A v \in Writers : Owned(v)' = Owned(v)
  <2>1. Owned(w)' = Owned(w)
    BY <1>1, <1>2, OwnedRules DEF OwnedRule, Became
  <2>2. QED
    BY <1>2, <1>3, <2>1, OwnedOthers
<1>6. QED
  BY <1>1, <1>2, <1>3, <1>4, <1>5, WriterQuiet DEF Storing

LEMMA TakeFreeFile ==
    ASSUME LoggerInv, LoggerInv', FileInv, NEW w \in Writers, TakeFree(w)
    PROVE  FileInv'
<1>1. /\ th[w].pc = "replace" /\ close.pc = "alive"
      /\ th[w].count \in 1 .. MaxLines /\ th[w].seen <= made /\ made \in Nat
      /\ th \in [Writers -> Thread] /\ freeq \in Seq(Bufs) /\ Counts /\ ExitInv
  BY WriterHas DEF TakeFree, At
<1>2. /\ freeq # <<>> /\ freeq' = Tail(freeq) /\ StoreIn(Head(freeq), w)
      /\ UNCHANGED <<map, flushq, made, flush, start, file, close, dropped>>
  BY DEF TakeFree, PopFree, poolVars
<1>3. /\ Head(freeq) = freeq[1] /\ 1 \in 1 .. Len(freeq) /\ Head(freeq) \in Bufs
      /\ \A i \in 1 .. Len(freeq') : i + 1 \in 1 .. Len(freeq) /\ freeq'[i] = freeq[i + 1]
  BY <1>1, <1>2
<1>4. PICK c \in Bufs : c = Head(freeq)
  BY <1>3
<1>5. Became(w, "update", c, th[w].seen, th[w].count)
  BY <1>1, <1>4, UseIs DEF TakeFree, WriterStates
<1>6. Owned(w) = {} /\ Owned(w)' = {c}
  BY <1>1, <1>5, OwnedRules DEF OwnedRule, Became
<1>7. \A v \in Writers \ {w} : Owned(v)' = Owned(v)
  BY <1>2, <1>5, OwnedOthers
<1>8. ~dropped => Empty(buf, c)
  BY <1>1, <1>3, <1>4 DEF FileInv, EmptyInv, Clean
<1>9. Counts' /\ \A v \in Writers \ {w} : Stored(v)' = Stored(v)
  <2>1. th[w].seen <= made' /\ th[w].count <= MaxLines /\ th[w].count >= 1 /\ made' = made
    BY <1>1, <1>2, BoundsAssumption
  <2>2. QED
    BY <1>1, <1>5, <2>1, WriterCounts
<1>10. Stored(w) = th[w].count - 1 /\ Stored(w)' = th[w].count
  BY <1>1, <1>5, StoredIs DEF Storing
<1>11. ExitInv'
  BY <1>1, <1>2, AliveExit
<1>12. \A i \in 1 .. Len(freeq') : \E j \in 1 .. Len(freeq) : freeq'[i] = freeq[j]
  BY <1>3
<1>13. StoreIn(c, w)
  BY <1>2, <1>4
<1>14. QED
  BY <1>1, <1>2, <1>6, <1>7, <1>8, <1>9, <1>10, <1>11, <1>12, <1>13, StoreStep

LEMMA RecountFile ==
    ASSUME LoggerInv, LoggerInv', FileInv, NEW w \in Writers, Recount(w)
    PROVE  FileInv'
<1>1. /\ th[w].pc = "recount" /\ th[w].cur \in Bufs /\ close.pc = "alive"
      /\ th[w].count \in 1 .. MaxLines /\ th[w].seen <= made /\ made \in Nat
      /\ th \in [Writers -> Thread] /\ Counts /\ ExitInv
  BY WriterHas DEF Recount, At
<1>2. /\ StoreIn(th[w].cur, w)
      /\ UNCHANGED <<map, flushq, freeq, made, flush, start, file, close, dropped>>
  BY DEF Recount, Counted
<1>3. Became(w, "update", th[w].cur, th[w].seen, th[w].count)
  BY <1>1, GotoIs DEF Recount, WriterStates
<1>4. Owned(w) = {th[w].cur} /\ Owned(w)' = {th[w].cur}
  BY <1>1, <1>3, OwnedRules DEF OwnedRule, Became
<1>5. \A v \in Writers \ {w} : Owned(v)' = Owned(v)
  BY <1>2, <1>3, OwnedOthers
<1>6. Counts' /\ \A v \in Writers \ {w} : Stored(v)' = Stored(v)
  <2>1. th[w].seen <= made' /\ th[w].count <= MaxLines /\ th[w].count >= 1 /\ made' = made
    BY <1>1, <1>2, BoundsAssumption
  <2>2. QED
    BY <1>1, <1>3, <2>1, WriterCounts
<1>7. Stored(w) = th[w].count - 1 /\ Stored(w)' = th[w].count
  BY <1>1, <1>3, StoredIs DEF Storing
<1>8. ExitInv'
  BY <1>1, <1>2, AliveExit
<1>9. \A i \in 1 .. Len(freeq') : \E j \in 1 .. Len(freeq) : freeq'[i] = freeq[j]
  BY <1>2
<1>10. QED
  BY <1>1, <1>2, <1>4, <1>5, <1>6, <1>7, <1>8, <1>9, StoreStep

LEMMA UpdateFile ==
    ASSUME LoggerInv, LoggerInv', FileInv, NEW w \in Writers, Update(w)
    PROVE  FileInv'
<1>1. /\ th[w].pc = "update" /\ th[w].cur \in Bufs /\ close.pc = "alive"
      /\ th[w].count \in 1 .. MaxLines /\ th[w].seen <= made /\ made \in Nat
      /\ th \in [Writers -> Thread] /\ map \in [Writers -> Bufs \cup {None}]
      /\ Counts /\ ExitInv /\ start \in BOOLEAN
  <2>1. th[w].pc = "update"
    BY DEF Update, At
  <2>2. map \in [Writers -> Bufs \cup {None}]
    BY DEF LoggerInv, LoggerTypes
  <2>3. QED
    BY <2>1, <2>2, WriterHas
<1>2. Became(w, "idle", None, th[w].seen, th[w].count)
  BY <1>1, UseIs DEF Update, Return, WriterStates
<1>3. UNCHANGED <<buf, flushq, freeq, made, flush, start, file, close, dropped>>
  BY DEF Update, poolVars
<1>4. map'[w] = th[w].cur /\ \A v \in Writers \ {w} : map'[v] = map[v]
  BY <1>1 DEF Update
<1>5. \A v \in Writers : Owned(v)' = Owned(v)
  <2>1. {map'[w]} \ {None} = {th[w].cur}
    BY <1>1, <1>4, NoneIsNoBuf
  <2>2. OwnedRule(w) /\ OwnedRule(w)'
    BY OwnedRules
  <2>3. Owned(w)' = Owned(w)
    BY <1>1, <1>2, <1>3, <2>1, <2>2 DEF OwnedRule, Became
  <2>4. QED
    BY <1>2, <1>3, <1>4, <2>3, OwnedOthers
<1>6. Counts' /\ \A v \in Writers \ {w} : Stored(v)' = Stored(v)
  <2>1. th[w].seen <= made' /\ th[w].count <= MaxLines /\ made' = made
    BY <1>1, <1>3, BoundsAssumption
  <2>2. QED
    BY <1>1, <1>2, <2>1, WriterCounts
<1>7. Stored(w)' = Stored(w)
  BY <1>1, <1>2, StoredIs
<1>8. ExitInv'
  BY <1>1, <1>3, AliveExit
<1>9. QED
  BY <1>1, <1>3, <1>5, <1>6, <1>7, <1>8, QuietStep DEF Clean

\* A line is dropped: nothing is said of the contents any more.
LEMMA DropStep ==
    ASSUME LoggerInv, FileInv, NEW w \in Writers, th[w].pc # "idle", NEW place, NEW b,
           Became(w, place, b, th[w].seen, th[w].count), dropped',
           UNCHANGED <<buf, made, flush, start, file, close>>
    PROVE  FileInv'
<1>1. /\ close.pc = "alive" /\ th[w].count \in 1 .. MaxLines /\ th[w].seen <= made /\ made \in Nat
      /\ th \in [Writers -> Thread] /\ Counts /\ ExitInv
  BY WriterHas
<1>2. Counts'
  <2>1. th[w].seen <= made' /\ th[w].count <= MaxLines /\ th[w].count >= 1 /\ made' = made
    BY <1>1, BoundsAssumption
  <2>2. QED
    BY <1>1, <2>1, WriterCounts
<1>3. ExitInv'
  BY <1>1, AliveExit
<1>4. LineTypes' /\ EmptyInv' /\ ContentInv'
  BY <1>2 DEF FileInv, LineTypes, EmptyInv, ContentInv, Clean
<1>5. QED
  BY <1>3, <1>4 DEF FileInv

LEMMA DropFile ==
    ASSUME LoggerInv, FileInv, NEW w \in Writers, Drop(w) \/ Busy(w)
    PROVE  FileInv'
<1>1. th[w].pc \in {"replace", "busy"} /\ th \in [Writers -> Thread] /\ freeq \in Seq(Bufs)
  BY DEF LoggerInv, LoggerTypes, Drop, Busy, At
<1>2. dropped' /\ UNCHANGED <<buf, made, flush, start, file, close>>
  BY DEF Drop, Busy, poolVars
<1>3. \E place, b : Became(w, place, b, th[w].seen, th[w].count)
  <2>1. CASE Return(w)
    BY <1>1, <2>1, UseIs DEF Return, WriterStates
  <2>2. CASE PopFree /\ Use(w, Head(freeq), "update")
    <3>1. Head(freeq) \in Bufs
      BY <1>1, <2>2 DEF PopFree
    <3>2. QED
      BY <1>1, <2>2, <3>1, UseIs DEF WriterStates
  <2>3. QED
    BY <2>1, <2>2 DEF Drop, Busy
<1>4. QED
  BY <1>1, <1>2, <1>3, DropStep

\* A thread gets a buffer that was not there before the step.
LEMMA MadeFile ==
    ASSUME LoggerInv, LoggerInv', FileInv, NEW w \in Writers, close.pc = "alive",
           th \in [Writers -> Thread], NEW place \in Storing, NEW n \in 1 .. MaxLines,
           Became(w, place, made', total, n), Make, total <= made, made' \in Bufs,
           Stored(w) = n - 1, Owned(w) = {}, Owned(w)' = {made'},
           \A v \in Writers \ {w} : Owned(v)' = Owned(v),
           UNCHANGED <<buf, flushq, freeq, flush, start, file, close, dropped>>
    PROVE  FileInv'
<1>1. /\ made' = made + 1 /\ made \in Nat /\ made' \in Nat /\ total \in Nat
      /\ Counts /\ ExitInv /\ start \in BOOLEAN
  BY MakeIs DEF LoggerInv, LoggerTypes, FileInv, LineTypes
<1>2. total <= made' /\ made <= made' /\ made' > made
  BY <1>1
<1>3. Counts' /\ \A v \in Writers \ {w} : Stored(v)' = Stored(v)
  <2>1. n <= MaxLines /\ n >= 1
    BY BoundsAssumption
  <2>2. QED
    BY <1>1, <1>2, <2>1, WriterCounts
<1>4. Stored(w)' = Stored(w)
  BY StoredIs
<1>5. ExitInv'
  BY <1>1, AliveExit
<1>6. ~dropped => Empty(buf, made')
  <2>1. ~dropped => EmptyInv /\ Clean
    BY DEF FileInv, Clean
  <2>2. \A b \in Bufs : b > made /\ ~dropped => Empty(buf, b)
    BY <2>1 DEF EmptyInv
  <2>3. QED
    BY <1>2, <2>2
<1>7. QED
  BY <1>1, <1>2, <1>3, <1>4, <1>5, <1>6, QuietStep DEF Clean

LEMMA NewBufferFile ==
    ASSUME LoggerInv, LoggerInv', FileInv, NEW w \in Writers, NewBuffer(w)
    PROVE  FileInv'
<1>1. /\ th[w].pc = "replace" /\ th[w].count \in 1 .. MaxLines /\ close.pc = "alive"
      /\ th \in [Writers -> Thread]
  BY WriterHas DEF NewBuffer, At
<1>2. /\ Make /\ UNCHANGED <<map, buf, flushq, freeq, flush, start, file, close, dropped>>
      /\ total <= made
  BY DEF NewBuffer, LoggerInv, CounterInv
<1>3. made' \in Bufs
  BY <1>2, MakeIs DEF LoggerInv
<1>4. Became(w, "recount", made', total, th[w].count)
  <2> DEFINE r == [pc |-> "recount", cur |-> made', seen |-> total, count |-> th[w].count]
  <2>1. r.pc = "recount" /\ r.cur = made' /\ r.seen = total /\ r.count = th[w].count
    OBVIOUS
  <2>2. th' = [th EXCEPT ![w] = r]
    BY DEF NewBuffer
  <2> HIDE DEF r
  <2>3. QED
    BY <1>1, <2>1, <2>2 DEF Became
<1>5. Owned(w) = {} /\ Owned(w)' = {made'}
  BY <1>1, <1>4, OwnedRules DEF OwnedRule, Became
<1>6. \A v \in Writers \ {w} : Owned(v)' = Owned(v)
  BY <1>2, <1>4, OwnedOthers
<1>7. Stored(w) = th[w].count - 1
  BY <1>1, <1>4, StoredIs DEF Storing
<1>8. "recount" \in Storing
  BY DEF Storing
<1>9. QED
  BY <1>1, <1>2, <1>3, <1>4, <1>5, <1>6, <1>7, <1>8, MadeFile

LEMMA LookupFile ==
    ASSUME LoggerInv, LoggerInv', FileInv, NEW w \in Writers, Lookup(w)
    PROVE  FileInv'
<1>1. /\ th[w].pc = "idle" /\ th[w].count \in Nat /\ close.pc = "alive"
      /\ map[w] \in Bufs \cup {None} /\ map \in [Writers -> Bufs \cup {None}]
      /\ th \in [Writers -> Thread] /\ total <= made /\ made \in Nat
      /\ Counts /\ ExitInv /\ start \in BOOLEAN
  BY BoundsAssumption
     DEF LoggerInv, LoggerTypes, Thread, CounterInv, FileInv, LineTypes, Lookup, At
<1>2. PICK n \in 1 .. MaxLines : n = th[w].count + 1
  <2>1. th[w].count < MaxLines
    BY DEF Lookup
  <2>2. PICK m \in Nat : m = th[w].count
    BY <1>1
  <2>3. m + 1 \in 1 .. MaxLines
    BY <2>1, <2>2, BoundsAssumption
  <2>4. QED
    BY <2>2, <2>3
<1>3. th[w].count = n - 1
  BY <1>1, <1>2
<1>4. UNCHANGED <<buf, flushq, freeq, total, flush, start, file, close, dropped>>
  BY DEF Lookup
<1>5. OwnedRule(w) /\ OwnedRule(w)'
  BY OwnedRules
<1>6. Stored(w) = n - 1
  BY <1>1, <1>3 DEF Stored
<1>7. CASE /\ map[w] # None
           /\ th' = [th EXCEPT ![w] = [pc |-> "store", cur |-> map[w], seen |-> @.seen,
                                       count |-> @.count + 1]]
           /\ UNCHANGED <<map, made>>
  <2>1. Became(w, "store", map[w], th[w].seen, n)
    <3> DEFINE r == [pc |-> "store", cur |-> map[w], seen |-> th[w].seen, count |-> th[w].count + 1]
    <3>1. r.pc = "store" /\ r.cur = map[w] /\ r.seen = th[w].seen /\ r.count = n
      BY <1>2
    <3>2. th' = [th EXCEPT ![w] = r]
      BY <1>7
    <3> HIDE DEF r
    <3>3. QED
      BY <1>1, <3>1, <3>2 DEF Became
  <2>2. \A v \in Writers : Owned(v)' = Owned(v)
    <3>1. {map[w]} \ {None} = {map[w]}
      BY <1>7
    <3>2. Owned(w)' = Owned(w)
      BY <1>1, <1>5, <2>1, <3>1 DEF OwnedRule, Became
    <3>3. QED
      BY <1>4, <1>7, <2>1, <3>2, OwnedOthers
  <2>3. Counts' /\ \A v \in Writers \ {w} : Stored(v)' = Stored(v)
    <3>1. th[w].seen <= made' /\ n <= MaxLines /\ n >= 1 /\ made' = made
      BY <1>1, <1>7, BoundsAssumption DEF Counts
    <3>2. QED
      BY <1>1, <2>1, <3>1, WriterCounts
  <2>4. Stored(w)' = Stored(w)
    BY <1>6, <2>1, StoredIs DEF Storing
  <2>5. ExitInv'
    BY <1>1, <1>4, AliveExit
  <2>6. QED
    BY <1>1, <1>4, <1>7, <2>2, <2>3, <2>4, <2>5, QuietStep DEF Clean
<1>8. CASE /\ map[w] = None
           /\ Make
           /\ th' = [th EXCEPT ![w] = [pc |-> "count", cur |-> made', seen |-> total,
                                       count |-> @.count + 1]]
           /\ map' = [map EXCEPT ![w] = made']
  <2>1. made' \in Bufs
    BY <1>8, MakeIs DEF LoggerInv
  <2>2. Became(w, "count", made', total, n)
    <3> DEFINE r == [pc |-> "count", cur |-> made', seen |-> total, count |-> th[w].count + 1]
    <3>1. r.pc = "count" /\ r.cur = made' /\ r.seen = total /\ r.count = n
      BY <1>2
    <3>2. th' = [th EXCEPT ![w] = r]
      BY <1>8
    <3> HIDE DEF r
    <3>3. QED
      BY <1>1, <3>1, <3>2 DEF Became
  <2>3. \A v \in Writers \ {w} : map'[v] = map[v]
    BY <1>1, <1>8
  <2>4. Owned(w) = {} /\ Owned(w)' = {made'}
    <3>1. {map[w]} \ {None} = {}
      BY <1>8
    <3>2. QED
      BY <1>1, <1>5, <2>2, <3>1 DEF OwnedRule, Became
  <2>5. \A v \in Writers \ {w} : Owned(v)' = Owned(v)
    BY <1>4, <2>2, <2>3, OwnedOthers
  <2>6. "count" \in Storing
    BY DEF Storing
  <2>7. QED
    BY <1>1, <1>4, <1>6, <1>8, <2>1, <2>2, <2>4, <2>5, <2>6, MadeFile
<1>9. QED
  BY <1>7, <1>8 DEF Lookup

-----------------------------------------------------------------------------
(* The contents of the file: ~Logger.                                      *)

\* A step of the destructor changes nothing that a thread has.
LEMMA CloseAside ==
    ASSUME FileInv, UNCHANGED <<th, made>>
    PROVE  Counts' /\ \A w \in Writers : Stored(w)' = Stored(w)
BY DEF FileInv, LineTypes, Counts, Stored

\* A step of the destructor that moves no buffer.
LEMMA CloseQuiet ==
    ASSUME LoggerInv, LoggerInv', FileInv, ExitInv', start' \in BOOLEAN, flush'.p = flush.p,
           flush'.pc = "give" => flush.pc = "give",
           UNCHANGED <<buf, flushq, made, th, file, dropped>>,
           Clean' => Clean /\ UNCHANGED freeq, \A w \in Writers : Owned(w)' = Owned(w)
    PROVE  FileInv'
<1>1. Counts' /\ \A w \in Writers : Stored(w)' = Stored(w)
  BY CloseAside
<1>2. made \in Nat
  BY BoundsAssumption DEF LoggerInv, LoggerTypes
<1>3. QED
  BY <1>1, <1>2, QuietStep

LEMMA CloseFileStep ==
    ASSUME LoggerInv, LoggerInv', FileInv, Close
    PROVE  FileInv'
<1>1. /\ close.pc = "alive" /\ \A w \in Writers : th[w].pc = "idle"
      /\ UNCHANGED <<map, buf, flushq, freeq, made, th, flush, start, file, dropped>>
  BY DEF Close, At, poolVars
<1>2. CloseIs("pushing", {w \in Writers : map[w] # None})
  BY DEF Close, CloseStates, CloseIs
<1>3. \A w \in Writers : Owned(w)' = Owned(w)
  <2>1. SUFFICES ASSUME NEW w \in Writers PROVE Owned(w)' = Owned(w)
    OBVIOUS
  <2>2. OwnedRule(w) /\ OwnedRule(w)'
    BY OwnedRules
  <2>3. w \in close'.unpushed <=> map[w] # None
    BY <1>2 DEF CloseIs
  <2>4. map[w] = None => {map[w]} \ {None} = {}
    OBVIOUS
  <2>5. QED
    BY <1>1, <1>2, <2>2, <2>3, <2>4 DEF OwnedRule, CloseIs
<1>4. ExitInv' /\ start' \in BOOLEAN
  BY <1>1, <1>2 DEF FileInv, LineTypes, ExitInv, Pushed, CloseIs
<1>5. QED
  BY <1>1, <1>3, <1>4, CloseQuiet DEF Clean

LEMMA ClosePushFile ==
    ASSUME LoggerInv, LoggerInv', FileInv, NEW w \in Writers, ClosePush(w)
    PROVE  FileInv'
<1>1. /\ close.pc = "pushing" /\ w \in close.unpushed /\ \A v \in Writers : th[v].pc = "idle"
      /\ map[w] \in Bufs /\ close.unpushed \in SUBSET Writers
      /\ buf \in [Bufs -> Buffer]
  BY DEF LoggerInv, LoggerTypes, CloseInv, ClosePush
<1>2. /\ flushq' = Append(flushq, map[w])
      /\ UNCHANGED <<map, freeq, made, th, flush, start, file, dropped>>
  BY DEF ClosePush, Queue, poolVars
<1>3. CloseIs("pushing", close.unpushed \ {w})
  BY <1>1 DEF LoggerInv, LoggerTypes, ClosePush, CloseIs, CloseStates
<1>4. \A b \in Bufs : buf'[b].lines = buf[b].lines
  BY <1>1, ToFlushLines DEF ClosePush
<1>5. Owned(w) = {map[w]} /\ Owned(w)' = {}
  <2>1. OwnedRule(w) /\ OwnedRule(w)'
    BY OwnedRules
  <2>2. {map[w]} \ {None} = {map[w]}
    BY <1>1, NoneIsNoBuf
  <2>3. QED
    BY <1>1, <1>2, <1>3, <2>1, <2>2 DEF OwnedRule, CloseIs
<1>6. \A v \in Writers \ {w} : Owned(v)' = Owned(v)
  <2>1. SUFFICES ASSUME NEW v \in Writers \ {w} PROVE Owned(v)' = Owned(v)
    OBVIOUS
  <2>2. OwnedRule(v) /\ OwnedRule(v)'
    BY OwnedRules
  <2>3. v \in close'.unpushed <=> v \in close.unpushed
    BY <1>3 DEF CloseIs
  <2>4. QED
    BY <1>1, <1>2, <1>3, <2>2, <2>3 DEF OwnedRule, CloseIs
<1>7. Counts' /\ \A v \in Writers : Stored(v)' = Stored(v)
  BY <1>2, CloseAside
<1>8. ExitInv'
  BY <1>1, <1>2, <1>3 DEF FileInv, ExitInv, Pushed, CloseIs
<1>9. QED
  BY <1>1, <1>2, <1>4, <1>5, <1>6, <1>7, <1>8, PushStep

LEMMA CloseStopFile ==
    ASSUME LoggerInv, LoggerInv', FileInv, CloseStop \/ CloseNotify
    PROVE  FileInv'
<1>1. /\ close.pc \in {"pushing", "notify"} /\ close.unpushed = {}
      /\ \A w \in Writers : th[w].pc = "idle"
  BY DEF LoggerInv, CloseInv, CloseStop, CloseNotify
<1>2. \E place \in {"notify", "join"} : CloseIs(place, {})
  <2>1. close \in [pc : CloseStates, unpushed : SUBSET Writers]
    BY DEF LoggerInv, LoggerTypes
  <2>2. QED
    BY <1>1, <2>1 DEF CloseStop, CloseNotify, CloseIs, CloseStates
<1>3. UNCHANGED <<map, buf, flushq, freeq, made, th, file, dropped>>
  BY DEF CloseStop, CloseNotify, poolVars
<1>4. flush'.p = flush.p /\ (flush'.pc = flush.pc \/ (flush.pc = "blocked" /\ flush'.pc = "test"))
  BY NotifyOneIs DEF LoggerInv, CloseStop, CloseNotify
<1>5. start' \in BOOLEAN
  <2>1. start' = FALSE \/ start' = start
    BY Zenon DEF CloseStop, CloseNotify
  <2>2. QED
    BY <2>1 DEF FileInv, LineTypes
<1>6. ExitInv'
  BY <1>1, <1>2, <1>3, <1>4 DEF FileInv, ExitInv, Pushed, CloseIs
<1>7. \A w \in Writers : Owned(w)' = Owned(w)
  BY <1>1, <1>2, <1>3, OwnedRules DEF OwnedRule, CloseIs
<1>8. QED
  BY <1>1, <1>3, <1>4, <1>5, <1>6, <1>7, CloseQuiet DEF Clean

LEMMA CloseJoinFile ==
    ASSUME LoggerInv, LoggerInv', FileInv, CloseJoin
    PROVE  FileInv'
<1>1. /\ close.pc = "join" /\ flush.pc = "exited" /\ flushq' = <<>>
      /\ UNCHANGED <<map, buf, made, th, flush, start, file, dropped>>
  BY DEF CloseJoin, poolVars
<1>2. CloseIs("deleted", {}) /\ close.unpushed = {} /\ \A w \in Writers : th[w].pc = "idle"
  BY <1>1 DEF LoggerInv, LoggerTypes, CloseInv, CloseJoin, CloseIs, CloseStates
<1>3. flushq = <<>> /\ start \in BOOLEAN
  BY <1>1 DEF FileInv, LineTypes, ExitInv
<1>4. ExitInv'
  BY <1>1, <1>2 DEF FileInv, ExitInv, Pushed, CloseIs
<1>5. \A w \in Writers : Owned(w)' = Owned(w)
  BY <1>1, <1>2, OwnedRules DEF OwnedRule, CloseIs
<1>6. ~Clean'
  BY <1>2 DEF Clean, CloseIs
<1>7. QED
  BY <1>1, <1>3, <1>4, <1>5, <1>6, CloseQuiet

-----------------------------------------------------------------------------
(* The contents of the file: the theorems.                                 *)

LEMMA FileInit == Init => FileInv
<1>1. SUFFICES ASSUME Init PROVE FileInv
  OBVIOUS
<1>2. \A b \in Bufs : buf[b].lines = <<>>
  BY <1>1 DEF Init
<1>3. \A w \in Writers : /\ th[w].pc = "idle" /\ th[w].seen = 0 /\ th[w].count = 0
                         /\ file[w] = <<>> /\ map[w] = None
  BY <1>1 DEF Init
<1>4. \A w \in Writers : Owned(w) = {} /\ Stored(w) = 0
  BY <1>1, <1>3 DEF Init, Owned, Stored, At
<1>5. LineTypes
  <2>1. Holds(buf)
    <3>1. <<>> \in Seq(Line)
      OBVIOUS
    <3>2. QED
      BY <1>2, <3>1 DEF Holds
  <2>2. Counts
    BY <1>1, <1>3, BoundsAssumption DEF Counts, Init
  <2>3. start \in BOOLEAN
    BY <1>1, Zenon DEF Init
  <2>4. file \in [Writers -> Seq(1 .. MaxLines)]
    BY <1>1 DEF Init
  <2>5. QED
    BY <2>1, <2>2, <2>3, <2>4 DEF LineTypes
<1>6. EmptyInv /\ ExitInv
  <2>1. freeq = <<>> /\ flush.pc = "begin" /\ close.pc = "alive"
    BY <1>1 DEF Init
  <2>2. \A i \in 1 .. Len(freeq) : FALSE
    BY <2>1
  <2>3. QED
    BY <1>2, <1>4, <2>1, <2>2 DEF EmptyInv, ExitInv, Empty
<1>7. ContentInv
  <2>1. SUFFICES ASSUME NEW w \in Writers
                 PROVE  Whole(w, file[w], buf, flush.p, flushq, Owned(w)) = Numbers(Stored(w))
    BY DEF ContentInv
  <2>2. flush.p = None /\ flushq = <<>>
    BY <1>1 DEF Init
  <2>3. InHand(w, buf, None) = <<>> /\ Waiting(w, buf, <<>>) = <<>> /\ InOwn(w, buf, {}) = <<>>
    <3>1. InHand(w, buf, None) = <<>>
      BY DEF InHand
    <3>2. Waiting(w, buf, <<>>) = <<>>
      BY WaitingEmpty, Zenon
    <3>3. InOwn(w, buf, {}) = <<>>
      BY InOwnIs, Zenon
    <3>4. QED
      BY <3>1, <3>2, <3>3
  <2>4. Numbers(0) = <<>>
    BY DEF Numbers
  <2>5. <<>> \o <<>> = <<>>
    OBVIOUS
  <2>6. Whole(w, <<>>, buf, None, <<>>, {}) = <<>>
    BY <2>3, <2>5 DEF Whole
  <2>7. file[w] = <<>> /\ Owned(w) = {} /\ Stored(w) = 0
    BY <1>3, <1>4
  <2>8. QED
    BY <2>2, <2>4, <2>6, <2>7
<1>8. QED
  BY <1>5, <1>6, <1>7 DEF FileInv

LEMMA FileStutter ==
    ASSUME LoggerInv, LoggerInv', FileInv, UNCHANGED vars
    PROVE  FileInv'
<1>1. UNCHANGED <<map, buf, flushq, freeq, total, made, th, flush, start, file, close, dropped>>
  BY DEF vars
<1>2. ExitInv' /\ start' \in BOOLEAN
  BY <1>1 DEF FileInv, LineTypes, ExitInv, Pushed
<1>3. QED
  BY <1>1, <1>2, FlushQuiet

LEMMA FileStep == LoggerInv /\ LoggerInv' /\ FileInv /\ [Next]_vars => FileInv'
<1>1. SUFFICES ASSUME LoggerInv, LoggerInv', FileInv, Next PROVE FileInv'
  BY FileStutter
<1>2. CASE \E w \in Writers : Lookup(w)
  BY <1>1, <1>2, LookupFile
<1>3. CASE \E w \in Writers : WriterStep(w)
  BY <1>1, <1>3, CountFirstFile, StoreFile, RetestFile, PushFlushFile, NotifyFile, TakeFreeFile,
     NewBufferFile, RecountFile, UpdateFile, DropFile DEF WriterStep
<1>4. CASE FlushNext
  BY <1>1, <1>4, FlushFile
<1>5. CASE Close
  BY <1>1, <1>5, CloseFileStep
<1>6. CASE CloseStep
  BY <1>1, <1>6, CloseStopFile, CloseJoinFile, ClosePushFile DEF CloseStep
<1>7. QED
  BY <1>1, <1>2, <1>3, <1>4, <1>5, <1>6 DEF Next

\* The second inductive invariant: the lines of a thread, from the file over
\* the flush queue to its own buffer, are those that it has stored (Append,
\* FlushToFile), and the flush thread ends with nothing left to write.
THEOREM FileInvariant == Spec => []FileInv
<1>1. Init => FileInv
  BY FileInit
<1>2. LoggerInv /\ LoggerInv' /\ FileInv /\ [Next]_vars => FileInv'
  BY FileStep
<1>3. QED
  BY <1>1, <1>2, LoggerInvariant, PTL DEF Spec

LEMMA SetToSeqIs ==
    /\ SetToSeq({}) = <<>>
    /\ \A b : SetToSeq({b}) = <<b>>
<1>1. SetToSeq({}) = <<>>
  <2>1. Cardinality({}) = 0 /\ 1 .. 0 = {}
    BY FS_EmptySet
  <2>2. \A f \in [1 .. Cardinality({}) -> {}] : f = <<>>
    BY <2>1
  <2>3. <<>> \in [1 .. Cardinality({}) -> {}] /\ IsInjective(<<>>)
    BY <2>1 DEF IsInjective
  <2>4. SetToSeq({}) \in [1 .. Cardinality({}) -> {}]
    BY <2>3, Zenon DEF SetToSeq
  <2>5. QED
    BY <2>2, <2>4, Zenon
<1>2. ASSUME NEW b PROVE SetToSeq({b}) = <<b>>
  <2>1. Cardinality({b}) = 1 /\ 1 .. 1 = {1}
    BY FS_Singleton
  <2>2. \A f \in [1 .. Cardinality({b}) -> {b}] : f = <<b>>
    BY <2>1
  <2>3. <<b>> \in [1 .. Cardinality({b}) -> {b}] /\ IsInjective(<<b>>)
    BY <2>1 DEF IsInjective
  <2>4. SetToSeq({b}) \in [1 .. Cardinality({b}) -> {b}]
    BY <2>3, Zenon DEF SetToSeq
  <2>5. QED
    BY <2>2, <2>4, Zenon
<1>3. QED
  BY <1>1, <1>2

\* What is on the way to the file, taken as one queue of buffers.
LEMMA AheadIs ==
    ASSUME NEW w, NEW f, Holds(f), NEW q \in Seq(Bufs), NEW p \in Bufs \cup {None},
           NEW o, Single(o)
    PROVE  Waiting(w, f, ((IF p = None THEN <<>> ELSE <<p>>) \o q) \o SetToSeq(o))
             = InHand(w, f, p) \o (Waiting(w, f, q) \o InOwn(w, f, o))
<1> DEFINE T == 1 .. MaxLines
<1> DEFINE x == InHand(w, f, p)  y == Waiting(w, f, q)  z == InOwn(w, f, o)
<1> DEFINE s == (IF p = None THEN <<>> ELSE <<p>>) \o q
<1>1. x \in Seq(T) /\ y \in Seq(T) /\ z \in Seq(T)
  BY WholeTyped
<1>2. s \in Seq(Bufs) /\ Waiting(w, f, s) = Cat(x, y)
  <2>1. CASE p = None
    <3>1. s = q /\ x = <<>>
      BY <2>1 DEF InHand
    <3> HIDE DEF s, x
    <3>2. Cat(<<>>, y) = y
      BY <1>1 DEF Cat
    <3>3. QED
      BY <3>1, <3>2
  <2>2. CASE p # None
    <3>1. p \in Bufs /\ s = <<p>> \o q /\ x = Of(w, f[p].lines)
      BY <2>2 DEF InHand
    <3> HIDE DEF s, x
    <3>2. s \in Seq(Bufs) /\ s # <<>> /\ Head(s) = p /\ Tail(s) = q
      BY <3>1
    <3>3. Waiting(w, f, s) = Of(w, f[Head(s)].lines) \o Waiting(w, f, Tail(s))
      BY <3>2, WaitingTake
    <3>4. QED
      BY <3>1, <3>2, <3>3 DEF Cat
  <2>3. QED
    BY <2>1, <2>2
<1> HIDE DEF s
<1>3. Waiting(w, f, s \o SetToSeq(o)) = Cat(Waiting(w, f, s), z)
  <2>1. Waiting(w, f, s) \in Seq(T)
    BY <1>2, WaitingTyped
  <2>2. CASE o = {}
    <3>1. SetToSeq(o) = <<>> /\ z = <<>>
      BY <2>2, SetToSeqIs, InOwnIs
    <3>2. s \o <<>> = s
      BY <1>2
    <3>3. PICK a \in Seq(T) : a = Waiting(w, f, s)
      BY <2>1
    <3>4. Cat(a, <<>>) = a
      BY DEF Cat
    <3> HIDE DEF z
    <3>5. QED
      BY <3>1, <3>2, <3>3, <3>4
  <2>3. CASE \E b \in Bufs : o = {b}
    <3>1. PICK b \in Bufs : o = {b}
      BY <2>3
    <3>2. SetToSeq(o) = <<b>> /\ z = Of(w, f[b].lines)
      BY <3>1, SetToSeqIs, InOwnIs
    <3>3. s \o <<b>> = Append(s, b)
      BY <1>2
    <3>4. Waiting(w, f, Append(s, b)) = Cat(Waiting(w, f, s), Of(w, f[b].lines))
      BY <1>2, WaitingAppend DEF Cat
    <3> HIDE DEF z
    <3>5. QED
      BY <3>2, <3>3, <3>4
  <2>4. QED
    BY <2>2, <2>3 DEF Single
<1> HIDE DEF x, y, z
<1>4. Cat(Cat(x, y), z) = Cat(x, Cat(y, z))
  BY <1>1, CatAssociates
<1>5. QED
  BY <1>2, <1>3, <1>4 DEF s, x, y, z, Cat

\* Until a line is dropped, the lines of a thread are in the file, then in the
\* buffers on the way to the file, then in its own buffer, each once and in the
\* order in which they were logged (Append, Flush, ~Logger), for every number
\* of threads, lines and buffers.
THEOREM LinesInOrderHolds == Spec => []LinesInOrder
<1>1. LoggerInv /\ FileInv => LinesInOrder
  <2>1. SUFFICES ASSUME LoggerInv, FileInv, ~dropped, NEW w \in Writers
                 PROVE  file[w] \o Waiting(w, buf, Ahead(w)) = Numbers(Stored(w))
    BY DEF LinesInOrder, Waiting, Numbers
  <2>2. Whole(w, file[w], buf, flush.p, flushq, Owned(w)) = Numbers(Stored(w))
    BY <2>1 DEF FileInv, ContentInv
  <2>3. PICK f, p, q, o : f = buf /\ p = flush.p /\ q = flushq /\ o = Owned(w)
    OBVIOUS
  <2>4. /\ Holds(f) /\ q \in Seq(Bufs) /\ p \in Bufs \cup {None} /\ Single(o)
    BY <2>1, <2>3, OwnedSingle DEF LoggerInv, LoggerTypes, FileInv, LineTypes
  <2>5. Waiting(w, f, ((IF p = None THEN <<>> ELSE <<p>>) \o q) \o SetToSeq(o))
          = InHand(w, f, p) \o (Waiting(w, f, q) \o InOwn(w, f, o))
    BY <2>4, AheadIs
  <2>6. Ahead(w) = ((IF p = None THEN <<>> ELSE <<p>>) \o q) \o SetToSeq(o)
    BY <2>3, Zenon DEF Ahead
  <2>7. QED
    BY <2>2, <2>3, <2>5, <2>6 DEF Whole
<1>2. QED
  BY <1>1, LoggerInvariant, FileInvariant, PTL

\* When the destructor has joined the flush thread every line that was not
\* dropped at the limit is in the file: the thread ends only behind the last
\* push, with an empty queue (Flush and ~Logger).
THEOREM ClosedHasAllHolds == Spec => []ClosedHasAll
<1>1. LoggerInv /\ FileInv => ClosedHasAll
  <2>1. SUFFICES ASSUME LoggerInv, FileInv, close.pc = "deleted", ~dropped, NEW w \in Writers
                 PROVE  file[w] = Numbers(th[w].count)
    BY DEF ClosedHasAll, Numbers
  <2>2. flush.pc = "exited" /\ flushq = <<>> /\ flush.p = None
    BY <2>1 DEF FileInv, ExitInv, LoggerInv, FlushInv
  <2>3. th[w].pc = "idle" /\ close.unpushed = {}
    BY <2>1 DEF LoggerInv, CloseInv
  <2>4. Owned(w) = {} /\ Stored(w) = th[w].count
    BY <2>1, <2>3, OwnedRules DEF OwnedRule, Stored
  <2>5. Whole(w, file[w], buf, None, <<>>, {}) = Numbers(th[w].count)
    BY <2>1, <2>2, <2>4 DEF FileInv, ContentInv
  <2>6. InHand(w, buf, None) = <<>> /\ Waiting(w, buf, <<>>) = <<>> /\ InOwn(w, buf, {}) = <<>>
    <3>1. InHand(w, buf, None) = <<>>
      BY DEF InHand
    <3>2. Waiting(w, buf, <<>>) = <<>>
      BY WaitingEmpty, Zenon
    <3>3. InOwn(w, buf, {}) = <<>>
      BY InOwnIs, Zenon
    <3>4. QED
      BY <3>1, <3>2, <3>3
  <2>7. PICK h \in Seq(1 .. MaxLines) : h = file[w]
    BY <2>1 DEF FileInv, LineTypes
  <2>8. h \o (<<>> \o (<<>> \o <<>>)) = h
    OBVIOUS
  <2>9. QED
    BY <2>5, <2>6, <2>7, <2>8 DEF Whole
<1>2. QED
  BY <1>1, LoggerInvariant, FileInvariant, PTL

\* The types, exact: buftotalnum never exceeds the buffers that were made, and
\* every stored line is one that its thread has logged (Append).
THEOREM LoggerTypeCorrect == Spec => []TypeOK
<1>1. LoggerInv /\ FileInv => TypeOK
  <2>1. SUFFICES ASSUME LoggerInv, FileInv PROVE TypeOK
    OBVIOUS
  <2>2. MaxBufs \in Nat /\ MaxLines \in Nat
    BY BoundsAssumption
  <2>3. made \in 0 .. MaxBufs /\ total \in 0 .. MaxBufs
    BY <2>1, <2>2 DEF LoggerInv, LoggerTypes, CounterInv
  <2>4. buf \in [Bufs -> [lines : Seq(Writers \X (1 .. MaxLines)), state : {"FREE", "FLUSH"}]]
    <3>1. buf \in [Bufs -> Buffer] /\ \A b \in Bufs : buf[b].lines \in Seq(Line)
      BY <2>1 DEF LoggerInv, LoggerTypes, FileInv, LineTypes, Holds
    <3>2. \A b \in Bufs : buf[b] \in [lines : Seq(Line), state : {"FREE", "FLUSH"}]
      BY <3>1 DEF Buffer
    <3>3. QED
      BY <3>1, <3>2 DEF Line
  <2>5. th \in [Writers -> [pc : WriterStates, cur : Bufs \cup {None},
                            seen : 0 .. MaxBufs, count : 0 .. MaxLines]]
    <3>1. th \in [Writers -> Thread] /\ Counts
      BY <2>1 DEF LoggerInv, LoggerTypes, FileInv, LineTypes
    <3>2. ASSUME NEW w \in Writers
          PROVE  th[w] \in [pc : WriterStates, cur : Bufs \cup {None},
                            seen : 0 .. MaxBufs, count : 0 .. MaxLines]
      <4>1. th[w] \in Thread /\ th[w].seen <= made /\ th[w].count <= MaxLines
        BY <3>1 DEF Counts
      <4>2. th[w].seen \in Nat /\ th[w].count \in Nat
        BY <4>1 DEF Thread
      <4>3. th[w].seen \in 0 .. MaxBufs /\ th[w].count \in 0 .. MaxLines
        BY <2>2, <2>3, <4>1, <4>2
      <4>4. QED
        BY <4>1, <4>3 DEF Thread
    <3>3. QED
      BY <3>1, <3>2
  <2>6. /\ map \in [Writers -> Bufs \cup {None}]
        /\ flushq \in Seq(Bufs) /\ freeq \in Seq(Bufs)
        /\ flush \in [pc : FlushStates, p : Bufs \cup {None}]
        /\ close \in [pc : CloseStates, unpushed : SUBSET Writers]
    BY <2>1 DEF LoggerInv, LoggerTypes
  <2>7. file \in [Writers -> Seq(1 .. MaxLines)]
    BY <2>1 DEF FileInv, LineTypes
  <2>8. start \in BOOLEAN /\ dropped \in BOOLEAN
    BY <2>1, Zenon DEF LoggerInv, LoggerTypes, FileInv, LineTypes
  <2>9. QED
    BY <2>3, <2>4, <2>5, <2>6, <2>7, <2>8 DEF TypeOK
<1>2. QED
  BY <1>1, LoggerInvariant, FileInvariant, PTL
=============================================================================
