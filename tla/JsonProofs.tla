----------------------------- MODULE JsonProofs ----------------------------
(***************************************************************************)
(* JsonValue, for any elements and any size: its types, and that the map   *)
(* with missing indices implements the list JsonArray.                     *)
(*                                                                         *)
(* JsonText, for any characters and any length: its types, and that what   *)
(* is written of a string is read as that string.                          *)
(*                                                                         *)
(* JsonNumber, for any widths of the types and any number of digits: its   *)
(* types, that what is written of a number is read as that number, and     *)
(* what the conversions give.                                              *)
(*                                                                         *)
(* JsonReader and JsonCharReader, for any tokens, settings, length and     *)
(* limit of nesting: their types, what a read gives, and that a call of    *)
(* OurReader reads what its grammar has at that place.                     *)
(***************************************************************************)
EXTENDS JsonValue, JsonText, JsonNumber, JsonWriter, JsonCharReader, FiniteSetTheorems, SequenceTheorems, WellFoundedInduction,
        TLAPS

\* A set of natural numbers has a least element: the first free slot of a
\* vector and the lowest free descriptor exist.  From the well-foundedness of <.
LEMMA Minimum ==
    ASSUME NEW S, S \subseteq Nat, S # {}
    PROVE  \E m \in S : \A n \in S : m <= n
<1> DEFINE R == OpToRel(<, Nat)
<1>1. IsWellFoundedOn(R, Nat)
  BY NatLessThanWellFounded
<1>2. \A x, y \in Nat : <<x, y>> \in R <=> x < y
  BY DEF OpToRel
<1> HIDE DEF R
<1>3. PICK m \in S : \A n \in S : ~(<<n, m>> \in R)
  BY <1>1, WFMin
<1>4. \A n \in S : ~(n < m)
  BY <1>2, <1>3, Zenon
<1>5. QED
  BY <1>4

\* What holds of 0, and of n + 1 when it holds of n, holds of every number.
LEMMA AllNumbers ==
    ASSUME NEW S, 0 \in S, \A n \in Nat : n \in S => n + 1 \in S
    PROVE  \A n \in Nat : n \in S
<1> DEFINE N == {n \in Nat : n \notin S}
<1>1. SUFFICES ASSUME N # {} PROVE FALSE
  OBVIOUS
<1>2. PICK m \in N : \A k \in N : m <= k
  <2>1. N \subseteq Nat
    OBVIOUS
  <2> HIDE DEF N
  <2> QED BY <1>1, <2>1, Minimum
<1>3. m - 1 \in Nat /\ m - 1 \notin N /\ m - 1 + 1 = m
  BY <1>2
<1>4. QED
  BY <1>2, <1>3

-----------------------------------------------------------------------------
(* The array.                                                              *)

\* Size, Element and the list of the refinement, of any map.
Top(D) == IF D = {} THEN 0 ELSE 1 + CHOOSE i \in D : \A j \in D : j <= i
At(f, i) == IF i \in DOMAIN f THEN f[i] ELSE Null
ListOf(f) == [k \in 1 .. Top(DOMAIN f) |-> At(f, k - 1)]

\* A set of indices has a largest one: the least distance from MaxSize.
LEMMA TopIs ==
    ASSUME NEW D, D \subseteq Indices
    PROVE  /\ Top(D) \in 0 .. MaxSize /\ D \subseteq 0 .. Top(D) - 1
           /\ Top(D) > 0 => Top(D) - 1 \in D
<1>0. MaxSize \in Nat
  BY ElementsAssumption
<1>1. CASE D = {}
  BY <1>0, <1>1 DEF Top
<1>2. CASE D # {}
  <2> DEFINE S == {MaxSize - i : i \in D}
  <2>1. \A i \in D : i \in Nat /\ MaxSize - i \in Nat /\ i <= MaxSize - 1
    BY <1>0 DEF Indices
  <2>2. S \subseteq Nat /\ S # {}
    BY <1>2, <2>1
  <2>3. PICK m \in S : \A n \in S : m <= n
    BY <2>2, Minimum
  <2>4. PICK i \in D : m = MaxSize - i
    OBVIOUS
  <2>5. \A j \in D : j <= i
    <3>1. SUFFICES ASSUME NEW j \in D PROVE j <= i
      OBVIOUS
    <3>2. MaxSize - i <= MaxSize - j
      BY <2>3, <2>4
    <3>3. QED
      BY <1>0, <2>1, <3>2
  <2> DEFINE c == CHOOSE k \in D : \A j \in D : j <= k
  <2>6. c \in D /\ \A j \in D : j <= c
    BY <2>5
  <2>7. Top(D) = 1 + c
    BY <1>2 DEF Top
  <2> HIDE DEF c
  <2>8. QED
    BY <1>0, <2>1, <2>6, <2>7
<1>3. QED
  BY <1>1, <1>2

LEMMA TopUnique ==
    ASSUME NEW D, D \subseteq Indices, NEW n \in Nat,
           D \subseteq 0 .. n - 1, n > 0 => n - 1 \in D
    PROVE  Top(D) = n
<1>1. /\ Top(D) \in Nat /\ D \subseteq 0 .. Top(D) - 1
      /\ Top(D) > 0 => Top(D) - 1 \in D
  <2>1. /\ Top(D) \in 0 .. MaxSize /\ D \subseteq 0 .. Top(D) - 1
        /\ Top(D) > 0 => Top(D) - 1 \in D
    BY TopIs, Zenon
  <2>2. Top(D) \in Nat
    BY <2>1, ElementsAssumption
  <2>3. QED
    BY <2>1, <2>2
<1>2. CASE n = 0
  BY <1>1, <1>2
<1>3. CASE n > 0
  <2> DEFINE t == Top(D)
  <2>1. t \in Nat /\ D \subseteq 0 .. t - 1 /\ (t > 0 => t - 1 \in D) /\ n - 1 \in D
    BY <1>1, <1>3
  <2> HIDE DEF t
  <2>2. n - 1 \in 0 .. t - 1 /\ t > 0
    BY <1>3, <2>1
  <2>3. t - 1 \in 0 .. n - 1
    BY <2>1, <2>2
  <2>4. t = n
    BY <1>3, <2>1, <2>2, <2>3
  <2>5. QED
    BY <2>4 DEF t
<1>4. QED
  BY <1>2, <1>3

\* What the list of a map is.
ArrayMap(f) == DOMAIN f \subseteq Indices /\ \A i \in DOMAIN f : f[i] \in Elements

LEMMA ListIs ==
    ASSUME NEW f, ArrayMap(f)
    PROVE  /\ Top(DOMAIN f) \in 0 .. MaxSize
           /\ \A i \in DOMAIN f : i \in Nat /\ i < Top(DOMAIN f) /\ f[i] \in Elements
           /\ Top(DOMAIN f) > 0 => Top(DOMAIN f) - 1 \in DOMAIN f
           /\ ListOf(f) \in Seq(Elements) /\ Len(ListOf(f)) = Top(DOMAIN f)
           /\ \A k \in 1 .. Top(DOMAIN f) : ListOf(f)[k] = At(f, k - 1)
           /\ \A i : At(f, i) \in Elements
<1> DEFINE n == Top(DOMAIN f)
<1>1. n \in 0 .. MaxSize /\ DOMAIN f \subseteq 0 .. n - 1 /\ (n > 0 => n - 1 \in DOMAIN f)
  BY TopIs DEF ArrayMap
<1>0. n \in Nat
  BY <1>1, ElementsAssumption
<1>2. \A i : At(f, i) \in Elements
  BY ElementsAssumption DEF At, ArrayMap
<1> HIDE DEF n
<1>3. [k \in 1 .. n |-> At(f, k - 1)] \in [1 .. n -> Elements]
  BY <1>2
<1>4. ListOf(f) = [k \in 1 .. n |-> At(f, k - 1)]
  BY DEF ListOf, n
<1>5. ListOf(f) \in Seq(Elements) /\ DOMAIN ListOf(f) = 1 .. n
  BY <1>0, <1>3, <1>4
<1>6. Len(ListOf(f)) = n
  BY <1>0, <1>5, LenProperties
<1>7. \A k \in 1 .. n : ListOf(f)[k] = At(f, k - 1)
  BY <1>4
<1>8. \A i \in DOMAIN f : i \in Nat /\ i < n /\ f[i] \in Elements
  BY <1>0, <1>1 DEF ArrayMap
<1>9. QED
  BY <1>1, <1>2, <1>5, <1>6, <1>7, <1>8 DEF n

Pad(q, n) == [k \in 1 .. n |-> IF k <= Len(q) THEN q[k] ELSE Null]

PutMap(f, i, e) == [j \in DOMAIN f \cup {i} |-> IF j = i THEN e ELSE f[j]]
PutList(q, i, e) == [Pad(q, IF i < Len(q) THEN Len(q) ELSE i + 1) EXCEPT ![i + 1] = e]

\* Each call, on a map and on its list.
LEMMA PutIs ==
    ASSUME NEW f, ArrayMap(f), NEW i \in Indices, NEW e \in Elements
    PROVE  ArrayMap(PutMap(f, i, e)) /\ ListOf(PutMap(f, i, e)) = PutList(ListOf(f), i, e)
<1> DEFINE g == PutMap(f, i, e)  n == Len(ListOf(f))  m == IF i < n THEN n ELSE i + 1  D == DOMAIN f \cup {i}
<1>0. MaxSize \in Nat /\ i \in Nat /\ i <= MaxSize - 1
  BY ElementsAssumption DEF Indices
<1>1. /\ n \in 0 .. MaxSize /\ (n > 0 => n - 1 \in DOMAIN f)
      /\ \A j \in DOMAIN f : j \in Nat /\ j < n /\ f[j] \in Elements
      /\ \A k \in 1 .. n : ListOf(f)[k] = At(f, k - 1)
  BY ListIs
<1>2. DOMAIN g = D /\ D \subseteq Indices /\ \A j \in D : g[j] = IF j = i THEN e ELSE f[j]
  BY DEF ArrayMap, PutMap
<1> HIDE DEF g
<1>3. ArrayMap(g)
  BY <1>1, <1>2 DEF ArrayMap
<1> HIDE DEF n
<1>4. m \in Nat /\ D \subseteq 0 .. m - 1 /\ (m > 0 => m - 1 \in D)
  BY <1>0, <1>1
<1>5. Top(D) = m
  BY <1>2, <1>4, TopUnique
<1> HIDE DEF m, D
<1>6. \A k \in 1 .. m : At(g, k - 1) = IF k = i + 1 THEN e ELSE Pad(ListOf(f), m)[k]
  <2>1. SUFFICES ASSUME NEW k \in 1 .. m
                 PROVE  At(g, k - 1) = IF k = i + 1 THEN e ELSE Pad(ListOf(f), m)[k]
    OBVIOUS
  <2>2. Pad(ListOf(f), m)[k] = IF k <= n THEN ListOf(f)[k] ELSE Null
    BY DEF Pad, n
  <2>3. CASE k = i + 1
    BY <1>0, <1>2, <2>3 DEF At, D
  <2>4. CASE k # i + 1
    <3>1. k - 1 # i /\ At(g, k - 1) = At(f, k - 1)
      BY <1>0, <1>2, <1>4, <2>4 DEF At, D
    <3>2. CASE k <= n
      BY <1>1, <1>4, <2>2, <2>4, <3>1, <3>2
    <3>3. CASE ~(k <= n)
      <4>1. k - 1 \notin DOMAIN f
        BY <1>1, <1>4, <3>3
      <4>2. QED
        BY <2>2, <2>4, <3>1, <3>3, <4>1 DEF At
    <3>4. QED
      BY <3>2, <3>3
  <2>5. QED
    BY <2>3, <2>4
<1>7. ListOf(g) = [Pad(ListOf(f), m) EXCEPT ![i + 1] = e]
  <2>1. ListOf(g) = [k \in 1 .. m |-> At(g, k - 1)]
    BY <1>2, <1>5 DEF ListOf
  <2>2. [Pad(ListOf(f), m) EXCEPT ![i + 1] = e]
          = [k \in 1 .. m |-> IF k = i + 1 THEN e ELSE Pad(ListOf(f), m)[k]]
    BY DEF Pad
  <2>3. QED
    BY <1>6, <2>1, <2>2
<1>8. QED
  BY <1>3, <1>7 DEF m, n, g, PutList

LEMMA AppendIs ==
    ASSUME NEW f, ArrayMap(f), NEW e \in Elements, NEW n, n = Top(DOMAIN f), n < MaxSize
    PROVE  ArrayMap(PutMap(f, n, e)) /\ ListOf(PutMap(f, n, e)) = Append(ListOf(f), e)
<1>0. MaxSize \in Nat /\ n \in Nat /\ n \in Indices
  BY ListIs, ElementsAssumption DEF Indices
<1>1. /\ Len(ListOf(f)) = n /\ ListOf(f) \in Seq(Elements)
      /\ \A k \in 1 .. n : ListOf(f)[k] = At(f, k - 1)
  BY ListIs
<1>2. ArrayMap(PutMap(f, n, e)) /\ ListOf(PutMap(f, n, e)) = PutList(ListOf(f), n, e)
  BY <1>0, PutIs, Zenon
<1>3. ASSUME NEW q \in Seq(Elements), Len(q) = n
      PROVE  PutList(q, n, e) = Append(q, e)
  <2>1. DOMAIN q = 1 .. n
    BY <1>3
  <2>2. PutList(q, n, e) = [k \in 1 .. n + 1 |-> IF k = n + 1 THEN e ELSE q[k]]
    <3>1. n + 1 \in 1 .. n + 1 /\ \A k \in 1 .. n + 1 : k # n + 1 => k <= n
      BY <1>0
    <3>2. (IF n < Len(q) THEN Len(q) ELSE n + 1) = n + 1
      BY <1>0, <1>3
    <3>3. PutList(q, n, e) = [Pad(q, n + 1) EXCEPT ![n + 1] = e]
      BY <3>2 DEF PutList
    <3>4. QED
      BY <1>3, <3>1, <3>3 DEF Pad
  <2>3. /\ Append(q, e) \in Seq(Elements) /\ DOMAIN Append(q, e) = 1 .. n + 1
        /\ \A k \in 1 .. n : Append(q, e)[k] = q[k]
        /\ Append(q, e)[n + 1] = e
    BY <1>0, <1>3, AppendProperties, LenProperties
  <2> DEFINE r == Append(q, e)
  <2> HIDE DEF r
  <2>4. r \in Seq(Elements) /\ DOMAIN r = 1 .. n + 1
    BY <2>3 DEF r
  <2>5. \A k \in 1 .. n + 1 : r[k] = IF k = n + 1 THEN e ELSE q[k]
    BY <1>0, <2>3 DEF r
  <2>6. r \in [1 .. n + 1 -> Elements]
    BY <1>0, <2>4, LenProperties
  <2>7. r = [k \in 1 .. n + 1 |-> IF k = n + 1 THEN e ELSE q[k]]
    BY <2>5, <2>6
  <2>8. QED
    BY <2>2, <2>7 DEF r
<1>4. QED
  BY <1>1, <1>2, <1>3, Zenon

InsertMap(f, i, e) ==
    [j \in {k \in DOMAIN f : k < i} \cup i .. Top(DOMAIN f) |->
        IF j < i THEN f[j] ELSE IF j = i THEN e ELSE At(f, j - 1)]
InsertList(q, i, e) ==
    [k \in 1 .. Len(q) + 1 |-> IF k <= i THEN q[k] ELSE IF k = i + 1 THEN e ELSE q[k - 1]]

LEMMA InsertIs ==
    ASSUME NEW f, ArrayMap(f), NEW i \in Indices, NEW e \in Elements,
           i <= Top(DOMAIN f), Top(DOMAIN f) < MaxSize
    PROVE  ArrayMap(InsertMap(f, i, e)) /\ ListOf(InsertMap(f, i, e)) = InsertList(ListOf(f), i, e)
<1> DEFINE g == InsertMap(f, i, e)  n == Top(DOMAIN f)
           D == {k \in DOMAIN f : k < i} \cup i .. n
<1>1. /\ n \in 0 .. MaxSize /\ (n > 0 => n - 1 \in DOMAIN f)
      /\ \A j \in DOMAIN f : j \in Nat /\ j < n /\ f[j] \in Elements
      /\ Len(ListOf(f)) = n
      /\ \A k \in 1 .. n : ListOf(f)[k] = At(f, k - 1)
      /\ \A j : At(f, j) \in Elements
  BY ListIs
<1>2. /\ DOMAIN g = D
      /\ \A j \in D : g[j] = IF j < i THEN f[j] ELSE IF j = i THEN e ELSE At(f, j - 1)
  BY DEF InsertMap
<1> HIDE DEF g, n
<1>0. MaxSize \in Nat /\ i \in Nat /\ n \in Nat /\ i <= n /\ n < MaxSize
  BY <1>1, ElementsAssumption DEF Indices, n
<1>3. D \subseteq Indices /\ D \subseteq 0 .. n /\ n \in D
  BY <1>0, <1>1 DEF Indices
<1>4. ArrayMap(g)
  <2>1. \A j \in D : g[j] \in Elements
    BY <1>0, <1>1, <1>2
  <2>2. QED
    BY <1>2, <1>3, <2>1 DEF ArrayMap
<1>5. Top(D) = n + 1
  <2> HIDE DEF D
  <2>1. n + 1 \in Nat /\ D \subseteq 0 .. (n + 1) - 1 /\ (n + 1) - 1 \in D
    BY <1>0, <1>3
  <2>2. QED
    BY <1>3, <2>1, TopUnique
<1>6. \A k \in 1 .. n + 1 :
        At(g, k - 1) = IF k <= i THEN ListOf(f)[k] ELSE IF k = i + 1 THEN e ELSE ListOf(f)[k - 1]
  <2>1. SUFFICES ASSUME NEW k \in 1 .. n + 1
                 PROVE  At(g, k - 1) = IF k <= i THEN ListOf(f)[k]
                                       ELSE IF k = i + 1 THEN e ELSE ListOf(f)[k - 1]
    OBVIOUS
  <2>2. CASE k <= i
    <3>1. k \in 1 .. n /\ k - 1 < i /\ (k - 1 \in D <=> k - 1 \in DOMAIN f)
      BY <1>0, <1>1, <2>2
    <3>2. At(g, k - 1) = At(f, k - 1)
      BY <1>2, <3>1 DEF At
    <3>3. QED
      BY <1>1, <2>2, <3>1, <3>2
  <2>3. CASE k = i + 1
    BY <1>0, <1>2, <2>3 DEF At
  <2>4. CASE k > i + 1
    <3>1. k - 1 \in 1 .. n /\ k - 1 \in i .. n /\ k - 1 > i
      BY <1>0, <2>4
    <3>2. At(g, k - 1) = At(f, (k - 1) - 1)
      BY <1>0, <1>2, <3>1 DEF At
    <3>3. ListOf(f)[k - 1] = At(f, (k - 1) - 1)
      BY <1>1, <3>1
    <3>4. QED
      BY <1>0, <2>4, <3>2, <3>3
  <2>5. QED
    BY <1>0, <2>2, <2>3, <2>4
<1>7. ListOf(g) = InsertList(ListOf(f), i, e)
  <2>1. ListOf(g) = [k \in 1 .. n + 1 |-> At(g, k - 1)]
    BY <1>2, <1>5 DEF ListOf
  <2>2. Len(ListOf(f)) = n
    BY <1>1 DEF n
  <2>3. QED
    BY <1>6, <2>1, <2>2 DEF InsertList
<1>8. QED
  BY <1>4, <1>7 DEF g

\* A map cut at m: its list ends there, or before the nulls at its end.
CutMap(f, m) == [j \in {k \in DOMAIN f : k < m} |-> At(f, j)]

LEMMA CutIs ==
    ASSUME NEW f, ArrayMap(f), NEW m \in Nat, m <= Top(DOMAIN f)
    PROVE  /\ ArrayMap(CutMap(f, m))
           /\ \E t \in 0 .. m : /\ ListOf(CutMap(f, m)) = Pad(ListOf(f), t)
                                /\ \A j \in t + 1 .. m : ListOf(f)[j] = Null
                                /\ m - 1 \in DOMAIN f => t = m
                                /\ t > 0 => t - 1 \in DOMAIN f
<1> DEFINE g == CutMap(f, m)  n == Top(DOMAIN f)  D == {k \in DOMAIN f : k < m}
           t == Top(D)
<1>1. /\ n \in 0 .. MaxSize
      /\ \A j \in DOMAIN f : j \in Nat /\ j < n /\ f[j] \in Elements
      /\ Len(ListOf(f)) = n
      /\ \A k \in 1 .. n : ListOf(f)[k] = At(f, k - 1)
      /\ \A j : At(f, j) \in Elements
  BY ListIs
<1>2. DOMAIN g = D /\ \A j \in D : g[j] = At(f, j)
  BY DEF CutMap
<1>3. D \subseteq Indices
  BY DEF ArrayMap
<1>4. ArrayMap(g)
  BY <1>1, <1>2, <1>3 DEF ArrayMap
<1> HIDE DEF g, n
<1>0. MaxSize \in Nat /\ n \in Nat /\ m <= n
  BY <1>1, ElementsAssumption DEF n
<1>5. t \in Nat /\ (\A j \in D : j \in Nat /\ j < t) /\ (t > 0 => t - 1 \in D)
  <2>1. /\ t \in 0 .. MaxSize /\ D \subseteq 0 .. t - 1
        /\ t > 0 => t - 1 \in D
    BY <1>3, TopIs, Zenon
  <2> HIDE DEF D, t
  <2>2. QED
    BY <1>0, <2>1
<1> HIDE DEF t
<1>6. t \in 0 .. m
  BY <1>5
<1>7. \A j \in t + 1 .. m : ListOf(f)[j] = Null
  <2>1. SUFFICES ASSUME NEW j \in t + 1 .. m PROVE ListOf(f)[j] = Null
    OBVIOUS
  <2>2. j \in 1 .. n /\ j - 1 < m /\ ~(j - 1 < t)
    BY <1>0, <1>5
  <2>3. j - 1 \notin DOMAIN f
    BY <1>5, <2>2
  <2>4. QED
    BY <1>1, <2>2, <2>3 DEF At, n
<1>8. m - 1 \in DOMAIN f => t = m
  BY <1>5, <1>6
<1>9. \A k \in 1 .. t : At(g, k - 1) = IF k <= n THEN ListOf(f)[k] ELSE Null
  <2>1. SUFFICES ASSUME NEW k \in 1 .. t PROVE At(g, k - 1) = ListOf(f)[k] /\ k <= n
    OBVIOUS
  <2>2. k \in 1 .. n /\ k - 1 < m
    BY <1>0, <1>5, <1>6
  <2>3. At(g, k - 1) = At(f, k - 1)
    BY <1>2, <2>2 DEF At
  <2>4. QED
    BY <1>1, <2>2, <2>3 DEF n
<1>10. ListOf(g) = Pad(ListOf(f), t)
  <2>1. ListOf(g) = [k \in 1 .. t |-> At(g, k - 1)]
    BY <1>2 DEF ListOf, t
  <2>2. Len(ListOf(f)) = n
    BY <1>1 DEF n
  <2>3. QED
    BY <1>9, <2>1, <2>2 DEF Pad
<1>11. t > 0 => t - 1 \in DOMAIN f
  BY <1>5
<1>12. QED
  BY <1>4, <1>6, <1>7, <1>8, <1>10, <1>11 DEF g

GrowMap(f, m) == [j \in DOMAIN f \cup Top(DOMAIN f) .. m - 1 |-> At(f, j)]

LEMMA GrowIs ==
    ASSUME NEW f, ArrayMap(f), NEW m \in 0 .. MaxSize, m > Top(DOMAIN f)
    PROVE  ArrayMap(GrowMap(f, m)) /\ ListOf(GrowMap(f, m)) = Pad(ListOf(f), m)
<1> DEFINE g == GrowMap(f, m)  n == Top(DOMAIN f)  D == DOMAIN f \cup n .. m - 1
<1>1. /\ n \in 0 .. MaxSize
      /\ \A j \in DOMAIN f : j \in Nat /\ j < n /\ f[j] \in Elements
      /\ Len(ListOf(f)) = n
      /\ \A k \in 1 .. n : ListOf(f)[k] = At(f, k - 1)
      /\ \A j : At(f, j) \in Elements
  BY ListIs
<1>2. DOMAIN g = D /\ \A j \in D : g[j] = At(f, j)
  BY DEF GrowMap
<1> HIDE DEF g, n
<1>0. MaxSize \in Nat /\ n \in Nat /\ m \in Nat /\ n < m /\ m <= MaxSize
  BY <1>1, ElementsAssumption DEF n
<1>3. D \subseteq Indices /\ D \subseteq 0 .. m - 1 /\ m - 1 \in D
  BY <1>0, <1>1 DEF Indices, n
<1>4. ArrayMap(g)
  BY <1>1, <1>2, <1>3 DEF ArrayMap
<1>5. Top(D) = m
  <2> HIDE DEF D
  <2>1. QED
    BY <1>0, <1>3, TopUnique
<1>6. \A k \in 1 .. m : At(g, k - 1) = IF k <= n THEN ListOf(f)[k] ELSE Null
  <2>1. SUFFICES ASSUME NEW k \in 1 .. m
                 PROVE  At(g, k - 1) = IF k <= n THEN ListOf(f)[k] ELSE Null
    OBVIOUS
  <2>2. At(g, k - 1) = At(f, k - 1)
    BY <1>2 DEF At
  <2>3. CASE k <= n
    BY <1>0, <1>1, <2>2, <2>3 DEF n
  <2>4. CASE ~(k <= n)
    <3>1. k - 1 \notin DOMAIN f
      BY <1>0, <1>1, <2>4 DEF n
    <3>2. QED
      BY <2>2, <2>4, <3>1 DEF At
  <2>5. QED
    BY <2>3, <2>4
<1>7. ListOf(g) = Pad(ListOf(f), m)
  <2>1. ListOf(g) = [k \in 1 .. m |-> At(g, k - 1)]
    BY <1>2, <1>5 DEF ListOf
  <2>2. Len(ListOf(f)) = n
    BY <1>1 DEF n
  <2>3. QED
    BY <1>6, <2>1, <2>2 DEF Pad
<1>8. QED
  BY <1>4, <1>7 DEF g

RemoveMap(f, i) ==
    [j \in {k \in DOMAIN f : k < i} \cup i .. Top(DOMAIN f) - 2 |->
        IF j < i THEN f[j] ELSE At(f, j + 1)]
RemoveList(q, i) == [k \in 1 .. Len(q) - 1 |-> IF k <= i THEN q[k] ELSE q[k + 1]]

LEMMA RemoveIs ==
    ASSUME NEW f, ArrayMap(f), NEW i \in DOMAIN f
    PROVE  /\ ArrayMap(RemoveMap(f, i))
           /\ i < Top(DOMAIN f) - 1 => ListOf(RemoveMap(f, i)) = RemoveList(ListOf(f), i)
           /\ i = Top(DOMAIN f) - 1 => RemoveMap(f, i) = CutMap(f, i)
<1> DEFINE g == RemoveMap(f, i)  n == Top(DOMAIN f)
           D == {k \in DOMAIN f : k < i} \cup i .. n - 2
<1>1. /\ n \in 0 .. MaxSize /\ (n > 0 => n - 1 \in DOMAIN f)
      /\ \A j \in DOMAIN f : j \in Nat /\ j < n /\ f[j] \in Elements
      /\ Len(ListOf(f)) = n
      /\ \A k \in 1 .. n : ListOf(f)[k] = At(f, k - 1)
      /\ \A j : At(f, j) \in Elements
  BY ListIs
<1>2. DOMAIN g = D /\ \A j \in D : g[j] = IF j < i THEN f[j] ELSE At(f, j + 1)
  BY DEF RemoveMap
<1> HIDE DEF g, n
<1>0. MaxSize \in Nat /\ n \in Nat /\ i \in Nat /\ i <= n - 1 /\ n <= MaxSize
  BY <1>1, ElementsAssumption DEF n
<1>3. D \subseteq Indices /\ \A j \in D : j \in Nat /\ (j < i => j \in DOMAIN f)
  BY <1>0, <1>1 DEF Indices
<1>4. ArrayMap(g)
  BY <1>1, <1>2, <1>3 DEF ArrayMap
<1>5. i < n - 1 => ListOf(g) = RemoveList(ListOf(f), i)
  <2>1. SUFFICES ASSUME i < n - 1 PROVE ListOf(g) = RemoveList(ListOf(f), i)
    OBVIOUS
  <2>2. Top(D) = n - 1
    <3>1. n - 1 \in Nat /\ D \subseteq 0 .. (n - 1) - 1 /\ (n - 1) - 1 \in D
      BY <1>0, <1>1, <2>1
    <3> HIDE DEF D
    <3>2. QED
      BY <1>3, <3>1, TopUnique
  <2>3. \A k \in 1 .. n - 1 :
            At(g, k - 1) = IF k <= i THEN ListOf(f)[k] ELSE ListOf(f)[k + 1]
    <3>1. SUFFICES ASSUME NEW k \in 1 .. n - 1
                   PROVE  At(g, k - 1) = IF k <= i THEN ListOf(f)[k] ELSE ListOf(f)[k + 1]
      OBVIOUS
    <3>2. CASE k <= i
      <4>1. k \in 1 .. n /\ k - 1 < i /\ (k - 1 \in D <=> k - 1 \in DOMAIN f)
        BY <1>0, <1>1, <3>2
      <4>2. At(g, k - 1) = At(f, k - 1)
        BY <1>2, <4>1 DEF At
      <4>3. QED
        BY <1>1, <3>2, <4>1, <4>2 DEF n
    <3>3. CASE k > i
      <4>1. k - 1 \in i .. n - 2 /\ ~(k - 1 < i) /\ (k - 1) + 1 = (k + 1) - 1
        BY <1>0, <3>3
      <4>2. At(g, k - 1) = At(f, (k + 1) - 1)
        BY <1>2, <4>1 DEF At
      <4>3. k + 1 \in 1 .. n
        BY <1>0
      <4>4. ListOf(f)[k + 1] = At(f, (k + 1) - 1)
        BY <1>1, <4>3 DEF n
      <4>5. ~(k <= i)
        BY <1>0, <3>3
      <4>6. QED
        BY <4>2, <4>4, <4>5
    <3>4. QED
      BY <1>0, <3>2, <3>3
  <2>4. ListOf(g) = [k \in 1 .. n - 1 |-> At(g, k - 1)]
    BY <1>2, <2>2 DEF ListOf
  <2>5. Len(ListOf(f)) = n
    BY <1>1 DEF n
  <2>6. QED
    BY <2>3, <2>4, <2>5 DEF RemoveList
<1>6. i = n - 1 => g = CutMap(f, i)
  <2>1. SUFFICES ASSUME i = n - 1 PROVE g = CutMap(f, i)
    OBVIOUS
  <2>2. D = {k \in DOMAIN f : k < i}
    BY <1>0, <2>1
  <2>3. \A j \in D : g[j] = At(f, j)
    BY <1>2, <2>2 DEF At
  <2>4. g = [j \in D |-> g[j]]
    BY DEF g, RemoveMap, n
  <2>5. QED
    BY <2>2, <2>3, <2>4 DEF CutMap
<1>7. QED
  BY <1>4, <1>5, <1>6 DEF g, n

ValueInv == ArrayMap(items)

LEMMA NamesAre ==
    /\ Size = Top(DOMAIN items)
    /\ \A i : Element(i) = At(items, i)
    /\ JA!arrayVars = <<ListOf(items), last>>
    /\ [k \in 1 .. Size |-> Element(k - 1)] = ListOf(items)
<1>1. Size = Top(DOMAIN items) /\ \A i : Element(i) = At(items, i)
  BY DEF Size, Top, Element, At
<1>2. [k \in 1 .. Size |-> Element(k - 1)] = ListOf(items)
  BY <1>1 DEF ListOf
<1>3. QED
  BY <1>1, <1>2 DEF JA!arrayVars

LEMMA NamesWillBe ==
    /\ JA!arrayVars' = <<ListOf(items'), last'>>
    /\ [k \in 1 .. Size |-> Element(k - 1)]' = ListOf(items')
<1>1. Size' = Top(DOMAIN items') /\ \A i : Element(i)' = At(items', i)
  BY DEF Size, Top, Element, At
<1>2. [k \in 1 .. Size |-> Element(k - 1)]' = ListOf(items')
  BY <1>1 DEF ListOf
<1>3. QED
  BY <1>2 DEF JA!arrayVars

\* The calls of the list, in terms of ListOf.
LEMMA ListCalls ==
    /\ JA!ListClear <=> JA!Call("clear", 0, "done") /\ ListOf(items') = <<>>
    /\ \A e : JA!ListAppend(e) <=>
            JA!Call("append", Len(ListOf(items)), "done") /\ ListOf(items') = Append(ListOf(items), e)
    /\ \A i, e : JA!ListPut(i, e) <=>
            JA!Call("put", i, "done") /\ ListOf(items') = PutList(ListOf(items), i, e)
    /\ \A i, e : JA!ListInsert(i, e) <=>
            IF i > Len(ListOf(items))
            THEN JA!Call("insert", i, "refused") /\ ListOf(items') = ListOf(items)
            ELSE JA!Call("insert", i, "done") /\ ListOf(items') = InsertList(ListOf(items), i, e)
    /\ \A i : JA!ListRemove(i) <=>
          \/ /\ i < Len(ListOf(items)) /\ JA!Call("remove", i, "done")
             /\ ListOf(items') = RemoveList(ListOf(items), i)
          \/ /\ i = Len(ListOf(items)) - 1 /\ JA!Call("remove", i, "done")
             /\ \E k \in 0 .. i : /\ ListOf(items') = Pad(ListOf(items), k)
                                  /\ \A j \in k + 1 .. i : ListOf(items)[j] = Null
          \/ /\ i < Len(ListOf(items)) => ListOf(items)[i + 1] = Null
             /\ JA!Call("remove", i, "refused") /\ ListOf(items') = ListOf(items)
    /\ \A n : JA!ListResize(n) <=>
          \/ JA!Call("resize", n, "done") /\ ListOf(items') = Pad(ListOf(items), n)
          \/ /\ n \in 1 .. Len(ListOf(items)) - 1 /\ ListOf(items)[n] = Null
             /\ JA!Call("resize", n, "failed")
             /\ \E k \in 0 .. n - 1 : ListOf(items') = Pad(ListOf(items), k)
<1> DEFINE q == [k \in 1 .. Size |-> Element(k - 1)]  r == q'
<1>1. q = ListOf(items) /\ r = ListOf(items')
  BY NamesAre, NamesWillBe
<1>2. \A n : JA!Padded(n) = Pad(q, n)
  BY DEF JA!Padded, Pad
<1>3. \A i, e : JA!ListPut(i, e) <=> JA!Call("put", i, "done") /\ r = PutList(q, i, e)
  BY <1>2 DEF JA!ListPut, JA!Longer, PutList
<1>4. JA!ListClear <=> JA!Call("clear", 0, "done") /\ r = <<>>
  BY DEF JA!ListClear
<1>5. \A e : JA!ListAppend(e) <=> JA!Call("append", Len(q), "done") /\ r = Append(q, e)
  BY DEF JA!ListAppend
<1>6. \A i, e : JA!ListInsert(i, e) <=>
            IF i > Len(q) THEN JA!Call("insert", i, "refused") /\ r = q
            ELSE JA!Call("insert", i, "done") /\ r = InsertList(q, i, e)
  BY DEF JA!ListInsert, InsertList
<1>7. \A i : JA!ListRemove(i) <=>
          \/ /\ i < Len(q) /\ JA!Call("remove", i, "done") /\ r = RemoveList(q, i)
          \/ /\ i = Len(q) - 1 /\ JA!Call("remove", i, "done")
             /\ \E k \in 0 .. i : r = Pad(q, k) /\ \A j \in k + 1 .. i : q[j] = Null
          \/ /\ i < Len(q) => q[i + 1] = Null
             /\ JA!Call("remove", i, "refused") /\ r = q
  BY <1>2 DEF JA!ListRemove, RemoveList
<1>8. \A n : JA!ListResize(n) <=>
          \/ JA!Call("resize", n, "done") /\ r = Pad(q, n)
          \/ /\ n \in 1 .. Len(q) - 1 /\ q[n] = Null
             /\ JA!Call("resize", n, "failed")
             /\ \E k \in 0 .. n - 1 : r = Pad(q, k)
  BY <1>2 DEF JA!ListResize
<1> HIDE DEF q, r
<1>9. QED
  BY <1>1, <1>3, <1>4, <1>5, <1>6, <1>7, <1>8

LEMMA PutStep ==
    ASSUME ValueInv, NEW i \in Indices, NEW e \in Elements, PutElement(i, e)
    PROVE  ValueInv' /\ JA!ArrayNext
<1>1. items' = PutMap(items, i, e) /\ JA!Call("put", i, "done")
  BY DEF PutElement, PutMap, Done, JA!Call
<1>2. ArrayMap(items') /\ ListOf(items') = PutList(ListOf(items), i, e)
  BY <1>1, PutIs DEF ValueInv
<1>3. JA!ListPut(i, e) /\ i \in 0 .. MaxSize
  <2>1. i \in 0 .. MaxSize
    BY ElementsAssumption DEF Indices
  <2>2. QED
    BY <1>1, <1>2, <2>1, ListCalls
<1>4. QED
  BY <1>2, <1>3 DEF ValueInv, JA!ArrayNext

LEMMA AppendStep ==
    ASSUME ValueInv, NEW e \in Elements, AppendElement(e)
    PROVE  ValueInv' /\ JA!ArrayNext
<1> DEFINE n == Top(DOMAIN items)
<1>1. /\ Size = n /\ n < MaxSize /\ items' = PutMap(items, n, e)
      /\ JA!Call("append", n, "done")
  BY NamesAre DEF AppendElement, PutMap, Done, JA!Call
<1>2. Len(ListOf(items)) = n
  BY ListIs DEF ValueInv
<1>3. ArrayMap(PutMap(items, n, e)) /\ ListOf(PutMap(items, n, e)) = Append(ListOf(items), e)
  BY <1>1, AppendIs DEF ValueInv
<1> HIDE DEF n
<1>4. JA!ListAppend(e)
  BY <1>1, <1>2, <1>3, ListCalls
<1>5. QED
  BY <1>1, <1>3, <1>4 DEF ValueInv, JA!ArrayNext

LEMMA InsertStep ==
    ASSUME ValueInv, NEW i \in Indices, NEW e \in Elements, InsertElement(i, e)
    PROVE  ValueInv' /\ JA!ArrayNext
<1> DEFINE n == Top(DOMAIN items)
<1>1. Size = n /\ Len(ListOf(items)) = n /\ n \in 0 .. MaxSize
  BY NamesAre, ListIs DEF ValueInv
<1>2. i \in 0 .. MaxSize
  BY ElementsAssumption DEF Indices
<1>3. CASE i > n
  <2>1. items' = items /\ JA!Call("insert", i, "refused")
    BY <1>1, <1>3 DEF InsertElement, Refuse, JA!Call
  <2>2. JA!ListInsert(i, e)
    BY <1>1, <1>3, <2>1, ListCalls
  <2>3. QED
    BY <1>2, <2>1, <2>2 DEF ValueInv, JA!ArrayNext
<1>4. CASE ~(i > n)
  <2>1. n < MaxSize /\ items' = InsertMap(items, i, e) /\ JA!Call("insert", i, "done")
    BY <1>1, <1>4, NamesAre DEF InsertElement, InsertMap, Done, JA!Call
  <2>2. i <= n
    BY <1>1, <1>2, <1>4, ElementsAssumption
  <2>3. ArrayMap(items') /\ ListOf(items') = InsertList(ListOf(items), i, e)
    BY <2>1, <2>2, InsertIs DEF ValueInv
  <2>4. JA!ListInsert(i, e)
    BY <1>1, <1>4, <2>1, <2>3, ListCalls
  <2>5. QED
    BY <1>2, <2>3, <2>4 DEF ValueInv, JA!ArrayNext
<1>5. QED
  BY <1>3, <1>4

LEMMA RemoveStep ==
    ASSUME ValueInv, NEW i \in Indices, RemoveIndex(i)
    PROVE  ValueInv' /\ JA!ArrayNext
<1> DEFINE n == Top(DOMAIN items)
<1>1. /\ Size = n /\ Len(ListOf(items)) = n /\ n \in 0 .. MaxSize
      /\ \A j \in DOMAIN items : j \in Nat /\ j < n
      /\ \A k \in 1 .. n : ListOf(items)[k] = At(items, k - 1)
  BY NamesAre, ListIs DEF ValueInv
<1>2. i \in 0 .. MaxSize /\ i \in Nat /\ n \in Nat
  BY <1>1, ElementsAssumption DEF Indices
<1>3. CASE i \notin DOMAIN items
  <2>1. items' = items /\ JA!Call("remove", i, "refused")
    BY <1>3 DEF RemoveIndex, Refuse, JA!Call
  <2>2. i < n => ListOf(items)[i + 1] = Null
    <3>1. SUFFICES ASSUME i < n PROVE ListOf(items)[i + 1] = Null
      OBVIOUS
    <3>2. i + 1 \in 1 .. n /\ (i + 1) - 1 = i
      BY <1>2, <3>1
    <3>3. ListOf(items)[i + 1] = At(items, i)
      BY <1>1, <3>2
    <3>4. QED
      BY <1>3, <3>3 DEF At
  <2> HIDE DEF n
  <2>3. JA!ListRemove(i)
    BY <1>1, <2>1, <2>2, ListCalls
  <2>4. QED
    BY <1>2, <2>1, <2>3 DEF ValueInv, JA!ArrayNext
<1>4. CASE i \in DOMAIN items
  <2>1. items' = RemoveMap(items, i) /\ JA!Call("remove", i, "done")
    BY <1>1, <1>4, NamesAre DEF RemoveIndex, RemoveMap, Done, JA!Call
  <2>2. /\ ArrayMap(items')
        /\ i < n - 1 => ListOf(items') = RemoveList(ListOf(items), i)
        /\ i = n - 1 => items' = CutMap(items, i)
    BY <1>4, <2>1, RemoveIs DEF ValueInv
  <2>3. i < n
    BY <1>1, <1>4
  <2>4. JA!ListRemove(i)
    <3>1. CASE i < n - 1
      <4> HIDE DEF n
      <4>1. QED
        BY <1>1, <2>1, <2>2, <2>3, <3>1, ListCalls
    <3>2. CASE i = n - 1
      <4>1. \E t \in 0 .. i : /\ ListOf(items') = Pad(ListOf(items), t)
                              /\ \A j \in t + 1 .. i : ListOf(items)[j] = Null
        BY <1>2, <2>2, <2>3, <3>2, CutIs DEF ValueInv
      <4> HIDE DEF n
      <4>2. QED
        BY <1>1, <2>1, <3>2, <4>1, ListCalls
    <3>3. QED
      BY <1>2, <2>3, <3>1, <3>2
  <2>5. QED
    BY <1>2, <2>2, <2>4 DEF ValueInv, JA!ArrayNext
<1>5. QED
  BY <1>3, <1>4

LEMMA ResizeStep ==
    ASSUME ValueInv, NEW m \in 0 .. MaxSize, Resize(m)
    PROVE  ValueInv' /\ JA!ArrayNext
<1> DEFINE n == Top(DOMAIN items)
<1>1. /\ Size = n /\ Len(ListOf(items)) = n /\ n \in 0 .. MaxSize
      /\ \A k \in 1 .. n : ListOf(items)[k] = At(items, k - 1)
      /\ n > 0 => n - 1 \in DOMAIN items
  BY NamesAre, ListIs DEF ValueInv
<1>2. m \in Nat /\ n \in Nat
  BY <1>1, ElementsAssumption
<1>3. CASE m > n
  <2>1. items' = GrowMap(items, m)
    BY <1>1, <1>3, NamesAre DEF Resize, GrowMap
  <2>2. ArrayMap(items') /\ ListOf(items') = Pad(ListOf(items), m)
    BY <1>3, <2>1, GrowIs DEF ValueInv
  <2>3. JA!Call("resize", m, "done")
    BY <1>1, <1>2, <1>3 DEF Resize, JA!Call
  <2>4. JA!ListResize(m)
    BY <2>2, <2>3, ListCalls
  <2>5. QED
    BY <2>2, <2>4 DEF ValueInv, JA!ArrayNext
<1>4. CASE m <= n
  <2>1. items' = CutMap(items, m)
    <3>1. ~(m > n)
      BY <1>2, <1>4
    <3>2. QED
      BY <1>1, <3>1, NamesAre DEF Resize, CutMap
  <2>2. ArrayMap(items')
    BY <1>2, <1>4, <2>1, CutIs DEF ValueInv
  <2>3. PICK t \in 0 .. m : /\ ListOf(items') = Pad(ListOf(items), t)
                            /\ m - 1 \in DOMAIN items => t = m
                            /\ t > 0 => t - 1 \in DOMAIN items
    BY <1>2, <1>4, <2>1, CutIs DEF ValueInv
  <2>4. CASE m = 0 \/ m >= n \/ m - 1 \in DOMAIN items
    <3>1. t = m
      <4>1. CASE m = 0
        BY <2>3, <4>1
      <4>2. CASE m - 1 \in DOMAIN items
        BY <2>3, <4>2
      <4>3. CASE m >= n /\ m # 0
        <5>1. m = n /\ n > 0
          BY <1>2, <1>4, <4>3
        <5>2. QED
          BY <1>1, <2>3, <5>1
      <4>4. QED
        BY <2>4, <4>1, <4>2, <4>3
    <3>2. JA!Call("resize", m, "done")
      BY <1>1, <1>2, <2>4 DEF Resize, JA!Call
    <3>3. JA!ListResize(m)
      BY <2>3, <3>1, <3>2, ListCalls
    <3>4. QED
      BY <2>2, <3>3 DEF ValueInv, JA!ArrayNext
  <2>5. CASE ~(m = 0 \/ m >= n \/ m - 1 \in DOMAIN items)
    <3>1. JA!Call("resize", m, "failed")
      BY <1>1, <1>2, <2>5 DEF Resize, JA!Call
    <3>2. m \in 1 .. n - 1
      BY <1>2, <2>5
    <3>3. ListOf(items)[m] = Null
      BY <1>1, <1>2, <2>5, <3>2 DEF At
    <3>4. t \in 0 .. m - 1
      <4>1. t # m
        BY <1>2, <2>3, <2>5, <3>2
      <4>2. QED
        BY <1>2, <4>1
    <3> HIDE DEF n
    <3>5. JA!ListResize(m)
      BY <1>1, <2>3, <3>1, <3>2, <3>3, <3>4, ListCalls
    <3>6. QED
      BY <2>2, <3>5 DEF ValueInv, JA!ArrayNext
  <2>6. QED
    BY <2>4, <2>5
<1>5. QED
  BY <1>2, <1>3, <1>4

LEMMA EmptyMap ==
    ASSUME NEW f, DOMAIN f = {}
    PROVE  ArrayMap(f) /\ ListOf(f) = <<>>
<1>1. Top(DOMAIN f) = 0
  BY DEF Top
<1>2. QED
  BY <1>1 DEF ArrayMap, ListOf

LEMMA ValueStep ==
    ASSUME ValueInv, [ValueNext]_valueVars
    PROVE  ValueInv' /\ [JA!ArrayNext]_(JA!arrayVars)
<1>1. CASE UNCHANGED valueVars
  BY <1>1, NamesAre, NamesWillBe DEF valueVars, ValueInv
<1>2. CASE ClearItems
  <2>1. JA!Call("clear", 0, "done") /\ DOMAIN items' = {}
    BY <1>2 DEF ClearItems, Done, JA!Call
  <2>2. ArrayMap(items') /\ JA!ListClear
    BY <2>1, EmptyMap, ListCalls
  <2>3. QED
    BY <2>2 DEF ValueInv, JA!ArrayNext
<1>3. ASSUME NEW e \in Elements, AppendElement(e) PROVE ValueInv' /\ JA!ArrayNext
  BY <1>3, AppendStep
<1>4. ASSUME NEW n \in 0 .. MaxSize, Resize(n) PROVE ValueInv' /\ JA!ArrayNext
  BY <1>4, ResizeStep
<1>5. ASSUME NEW i \in Indices, RemoveIndex(i) PROVE ValueInv' /\ JA!ArrayNext
  BY <1>5, RemoveStep
<1>6. ASSUME NEW i \in Indices, NEW e \in Elements, PutElement(i, e) PROVE ValueInv' /\ JA!ArrayNext
  BY <1>6, PutStep
<1>7. ASSUME NEW i \in Indices, NEW e \in Elements, InsertElement(i, e)
      PROVE  ValueInv' /\ JA!ArrayNext
  BY <1>7, InsertStep
<1>8. QED
  BY <1>1, <1>2, <1>3, <1>4, <1>5, <1>6, <1>7 DEF ValueNext

LEMMA ValueStart == ValueInit => ValueInv /\ JA!ArrayInit
<1>1. SUFFICES ASSUME ValueInit PROVE ValueInv /\ JA!ArrayInit
  OBVIOUS
<1>2. DOMAIN items = {} /\ last = [call |-> "none", index |-> 0, outcome |-> "done"]
  BY <1>1 DEF ValueInit
<1>3. ArrayMap(items) /\ ListOf(items) = <<>>
  BY <1>2, EmptyMap
<1>4. QED
  BY <1>2, <1>3, NamesAre DEF ValueInv, JA!ArrayInit

\* The array of a Json::Value behaves as the list of value.h:433-470, read through size()
\* and operator[], for any elements, any size and any missing indices (json_value.cpp:921).
THEOREM ArrayRefinement == ValueSpec => ImplementsArray
BY ValueStart, ValueStep, PTL DEF ValueSpec, ImplementsArray, JA!ArraySpec

\* The types of the array: no call makes an index outside the bound.
THEOREM ValueTypeCorrect == ValueSpec => []ValueTypeOK
<1>1. ValueInit => ValueInv /\ ValueTypeOK
  BY ValueStart, ElementsAssumption DEF ValueInit, ValueTypeOK, ValueInv, ArrayMap
<1>2. ValueInv /\ ValueTypeOK /\ [ValueNext]_valueVars => ValueInv' /\ ValueTypeOK'
  <2>1. SUFFICES ASSUME ValueInv, ValueTypeOK, [ValueNext]_valueVars
                 PROVE  ValueInv' /\ ValueTypeOK'
    OBVIOUS
  <2>2. ValueInv'
    BY <2>1, ValueStep
  <2> DEFINE Lasts == [call : {"none", "put", "append", "insert", "remove", "resize", "clear"},
                       index : 0 .. MaxSize, outcome : {"done", "refused", "failed"}]
  <2>3. MaxSize \in Nat /\ Indices \subseteq 0 .. MaxSize /\ Size \in 0 .. MaxSize
    BY <2>1, NamesAre, ListIs, ElementsAssumption DEF Indices, ValueInv
  <2>4. last' \in Lasts
    <3>1. CASE UNCHANGED valueVars
      BY <2>1, <3>1 DEF valueVars, ValueTypeOK
    <3>2. CASE ClearItems
      BY <2>3, <3>2 DEF ClearItems, Done
    <3>3. ASSUME NEW e \in Elements, AppendElement(e) PROVE last' \in Lasts
      BY <2>3, <3>3 DEF AppendElement, Done
    <3>4. ASSUME NEW n \in 0 .. MaxSize, Resize(n) PROVE last' \in Lasts
      BY <2>3, <3>4 DEF Resize
    <3>5. ASSUME NEW i \in Indices, RemoveIndex(i) PROVE last' \in Lasts
      BY <2>3, <3>5 DEF RemoveIndex, Done, Refuse
    <3>6. ASSUME NEW i \in Indices, NEW e \in Elements, PutElement(i, e) PROVE last' \in Lasts
      BY <2>3, <3>6 DEF PutElement, Done
    <3>7. ASSUME NEW i \in Indices, NEW e \in Elements, InsertElement(i, e) PROVE last' \in Lasts
      BY <2>3, <3>7 DEF InsertElement, Done, Refuse
    <3>8. QED
      BY <2>1, <3>1, <3>2, <3>3, <3>4, <3>5, <3>6, <3>7 DEF ValueNext
  <2>5. QED
    BY <2>2, <2>4 DEF ValueTypeOK, ValueInv, ArrayMap
<1>3. QED
  BY <1>1, <1>2, PTL DEF ValueSpec

-----------------------------------------------------------------------------
(* Functions of a sequence that are defined chunk by chunk.                *)

\* f, up to length n: c[s] is what the beginning of s gives, r[s] what is behind it.
Short(S, n) == {s \in Seq(S) : Len(s) <= n}
Cuts(S, c, r, n, f) == f = [s \in Short(S, n) |-> IF s = <<>> THEN <<>> ELSE c[s] \o f[r[s]]]
Shortens(S, r) == \A s \in Seq(S) : s # <<>> => r[s] \in Seq(S) /\ Len(r[s]) < Len(s)

\* Two such functions agree as far as both are defined.
LEMMA CutsAgree ==
    ASSUME NEW S, NEW c, NEW r, Shortens(S, r),
           NEW n \in Nat, NEW k \in Nat, n <= k, NEW l \in Nat, n <= l,
           NEW f, Cuts(S, c, r, k, f), NEW g, Cuts(S, c, r, l, g)
    PROVE  \A s \in Short(S, n) : f[s] = g[s]
<1> DEFINE D == {s \in Short(S, n) : f[s] # g[s]}
<1> DEFINE B == {Len(s) : s \in D}
<1>1. SUFFICES ASSUME D # {} PROVE FALSE
  OBVIOUS
<1>2. PICK m \in B : \A i \in B : m <= i
  <2>1. \A s \in D : Len(s) \in Nat
    BY DEF Short
  <2>2. B \subseteq Nat /\ B # {}
    <3> HIDE DEF D
    <3>1. QED
      BY <1>1, <2>1
  <2> HIDE DEF B
  <2>3. QED
    BY <2>2, Minimum
<1>3. PICK s \in D : Len(s) = m
  BY <1>2
<1>4. s \in Seq(S) /\ Len(s) <= n /\ Len(s) \in Nat
  BY DEF Short
<1>5. s \in Short(S, k) /\ s \in Short(S, l)
  BY <1>4 DEF Short
<1>6. /\ f[s] = IF s = <<>> THEN <<>> ELSE c[s] \o f[r[s]]
      /\ g[s] = IF s = <<>> THEN <<>> ELSE c[s] \o g[r[s]]
  BY <1>5 DEF Cuts
<1>7. CASE s = <<>>
  BY <1>6, <1>7
<1>8. CASE s # <<>>
  <2>1. r[s] \in Seq(S) /\ Len(r[s]) < Len(s) /\ Len(r[s]) \in Nat
    BY <1>4, <1>8 DEF Shortens
  <2>2. r[s] \in Short(S, n)
    BY <1>4, <2>1 DEF Short
  <2>3. r[s] \notin D
    BY <1>2, <1>3, <1>4, <2>1
  <2>4. f[r[s]] = g[r[s]]
    BY <2>2, <2>3
  <2>5. QED
    BY <1>6, <1>8, <2>4
<1>9. QED
  BY <1>7, <1>8

\* There is one of each length: by the least length that had none.
LEMMA CutsExists ==
    ASSUME NEW S, NEW c, NEW r, Shortens(S, r)
    PROVE  \A n \in Nat : \E f : Cuts(S, c, r, n, f)
<1> DEFINE B == {n \in Nat : ~\E f : Cuts(S, c, r, n, f)}
<1>1. SUFFICES ASSUME B # {} PROVE FALSE
  OBVIOUS
<1>2. PICK m \in B : \A i \in B : m <= i
  <2>1. B \subseteq Nat
    OBVIOUS
  <2> HIDE DEF B
  <2>2. QED
    BY <1>1, <2>1, Minimum
<1>3. PICK f : m # 0 => Cuts(S, c, r, m - 1, f)
  <2>1. m # 0 => m - 1 \in Nat /\ m - 1 \notin B
    BY <1>2
  <2>2. QED
    BY <2>1
<1> DEFINE g == [s \in Short(S, m) |-> IF s = <<>> THEN <<>> ELSE c[s] \o f[r[s]]]
<1>4. ASSUME NEW s \in Short(S, m), s # <<>>
      PROVE  f[r[s]] = g[r[s]] /\ r[s] \in Short(S, m)
  <2>1. s \in Seq(S) /\ Len(s) <= m /\ Len(s) \in Nat
    BY DEF Short
  <2>2. r[s] \in Seq(S) /\ Len(r[s]) < Len(s) /\ Len(r[s]) \in Nat
    BY <1>4, <2>1 DEF Shortens
  <2>3. m # 0 /\ r[s] \in Short(S, m - 1) /\ r[s] \in Short(S, m)
    BY <2>1, <2>2 DEF Short
  <2>4. f[r[s]] = IF r[s] = <<>> THEN <<>> ELSE c[r[s]] \o f[r[r[s]]]
    BY <1>3, <2>3 DEF Cuts
  <2>5. QED
    BY <2>3, <2>4
<1>5. g = [s \in Short(S, m) |-> IF s = <<>> THEN <<>> ELSE c[s] \o g[r[s]]]
  <2>1. \A s \in Short(S, m) : g[s] = IF s = <<>> THEN <<>> ELSE c[s] \o g[r[s]]
    BY <1>4
  <2>2. g = [s \in Short(S, m) |-> g[s]]
    OBVIOUS
  <2> HIDE DEF g
  <2>3. QED
    BY <2>1, <2>2
<1> HIDE DEF g
<1>6. Cuts(S, c, r, m, g)
  BY <1>5 DEF Cuts
<1>7. QED
  BY <1>2, <1>6

Chunked(S, c, r, f) == f = [s \in Seq(S) |-> IF s = <<>> THEN <<>> ELSE c[s] \o f[r[s]]]

\* The equation of such a function has a solution for all sequences, so that what
\* CHOOSE takes solves it.
LEMMA ChunksExist ==
    ASSUME NEW S, NEW c, NEW r, Shortens(S, r)
    PROVE  \E f : Chunked(S, c, r, f)
<1> DEFINE h(n) == CHOOSE f : Cuts(S, c, r, n, f)
<1> DEFINE g == [s \in Seq(S) |-> h(Len(s))[s]]
<1>1. \A n \in Nat : Cuts(S, c, r, n, h(n))
  BY CutsExists, Zenon
<1> HIDE DEF h
<1>2. ASSUME NEW s \in Seq(S)
      PROVE  g[s] = IF s = <<>> THEN <<>> ELSE c[s] \o g[r[s]]
  <2>1. Len(s) \in Nat /\ s \in Short(S, Len(s)) /\ Cuts(S, c, r, Len(s), h(Len(s)))
    BY <1>1 DEF Short
  <2>2. h(Len(s))[s] = IF s = <<>> THEN <<>> ELSE c[s] \o h(Len(s))[r[s]]
    BY <2>1 DEF Cuts
  <2>3. CASE s = <<>>
    BY <2>2, <2>3
  <2>4. CASE s # <<>>
    <3>1. r[s] \in Seq(S) /\ Len(r[s]) < Len(s) /\ Len(r[s]) \in Nat
      BY <2>4 DEF Shortens
    <3>2. r[s] \in Short(S, Len(r[s])) /\ Cuts(S, c, r, Len(r[s]), h(Len(r[s])))
      BY <1>1, <3>1 DEF Short
    <3>3. PICK n \in Nat, k \in Nat : n = Len(r[s]) /\ k = Len(s)
      BY <2>1, <3>1
    <3>4. /\ n <= n /\ n <= k /\ Cuts(S, c, r, k, h(k)) /\ Cuts(S, c, r, n, h(n))
          /\ r[s] \in Short(S, n)
      BY <2>1, <3>1, <3>2, <3>3
    <3>5. h(k)[r[s]] = h(n)[r[s]]
      BY <3>4, CutsAgree
    <3>6. g[r[s]] = h(n)[r[s]]
      BY <3>1, <3>3
    <3>7. QED
      BY <2>2, <2>4, <3>3, <3>5, <3>6
  <2>5. QED
    BY <2>3, <2>4
<1>3. g = [s \in Seq(S) |-> g[s]]
  OBVIOUS
<1> HIDE DEF g
<1>4. g = [s \in Seq(S) |-> IF s = <<>> THEN <<>> ELSE c[s] \o g[r[s]]]
  BY <1>2, <1>3
<1>5. QED
  BY <1>4 DEF Chunked

-----------------------------------------------------------------------------
(* Bytes and code points.                                                  *)

LEMMA ByteIs == \A x : x \in Byte <=> x \in Nat /\ x < 256
BY DEF Byte

LEMMA SixBits == \A x \in Nat :
    /\ High(x) \in Nat /\ x % 64 \in Nat /\ x % 64 < 64
    /\ x = 64 * High(x) + (x % 64)
    /\ Continuation(x) = 128 + (x % 64) /\ Continuation(x) \in Nat /\ Continuation(x) < 256
    /\ 128 <= Continuation(x)
    /\ Continuation(x) % 64 = x % 64
<1> SUFFICES ASSUME NEW x \in Nat
             PROVE /\ High(x) \in Nat /\ x % 64 \in Nat /\ x % 64 < 64
                   /\ x = 64 * High(x) + (x % 64)
                   /\ Continuation(x) = 128 + (x % 64) /\ Continuation(x) \in Nat /\ Continuation(x) < 256
                   /\ 128 <= Continuation(x)
                   /\ Continuation(x) % 64 = x % 64
  OBVIOUS
<1>1. x \div 64 \in Nat /\ x % 64 \in Nat /\ x % 64 < 64 /\ x = 64 * (x \div 64) + (x % 64)
  OBVIOUS
<1>2. PICK y \in Nat : y = x % 64 /\ y < 64
  BY <1>1
<1>3. (128 + y) % 64 = y
  BY <1>2
<1>4. QED
  BY <1>1, <1>2, <1>3 DEF High, Continuation

\* v without its lowest six bits x, and the byte b for these.
Lowest(v, x, b) == /\ b = Continuation(v) /\ b < 256 /\ b % 64 = x /\ x < 64
                   /\ v = 64 * High(v) + x

LEMMA LowestExist == \A v \in Nat : \E x, b \in Nat : Lowest(v, x, b)
<1> SUFFICES ASSUME NEW v \in Nat PROVE \E x, b \in Nat : Lowest(v, x, b)
  OBVIOUS
<1>1. /\ v % 64 \in Nat /\ v % 64 < 64 /\ v = 64 * High(v) + (v % 64)
      /\ Continuation(v) \in Nat /\ Continuation(v) < 256 /\ Continuation(v) % 64 = v % 64
  BY SixBits, Zenon
<1>2. Lowest(v, v % 64, Continuation(v))
  BY <1>1, Zenon DEF Lowest
<1>3. QED
  BY <1>1, <1>2

\* The bits of a code point in the first byte.
LEMMA LeadBits == \A q \in Nat :
    /\ q < 32 => (192 + q) % 32 = q
    /\ q < 16 => (224 + q) % 16 = q
    /\ q < 8 => (240 + q) % 8 = q
OBVIOUS

LEMMA TenBits == \A x \in Nat :
    /\ x \div 1024 \in Nat /\ x % 1024 \in Nat /\ x % 1024 < 1024
    /\ x = 1024 * (x \div 1024) + (x % 1024)
    /\ x < 1024 => x % 1024 = x
    /\ x < 65536 => x % 65536 = x
OBVIOUS

\* A half of a pair is 16 bits wide and keeps its ten bits.
LEMMA Halves == \A y \in Nat : y < 1024 =>
    /\ (55296 + y) % 65536 = 55296 + y /\ (55296 + y) % 1024 = y
    /\ (56320 + y) % 65536 = 56320 + y /\ (56320 + y) % 1024 = y
OBVIOUS

LEMMA BytesIn == \A s \in Seq(Byte) : s # <<>> =>
    Len(s) \in Nat /\ 1 <= Len(s) /\ \A i \in 1 .. Len(s) : s[i] \in Nat /\ s[i] < 256
BY ByteIs

LEMMA Remainders == \A x \in Nat : x % 32 \in Nat /\ x % 16 \in Nat /\ x % 8 \in Nat /\ x % 64 \in Nat
OBVIOUS

LEMMA Shifted == \A x, y \in Nat : x * 64 + y \in Nat
OBVIOUS

LEMMA Payloads == \A s :
    /\ Payload(s, 2) = (s[1] % 32) * 64 + (s[2] % 64)
    /\ Payload(s, 3) = ((s[1] % 16) * 64 + (s[2] % 64)) * 64 + (s[3] % 64)
    /\ Payload(s, 4) = (((s[1] % 8) * 64 + (s[2] % 64)) * 64 + (s[3] % 64)) * 64 + (s[4] % 64)
<1> SUFFICES ASSUME NEW s
             PROVE /\ Payload(s, 2) = (s[1] % 32) * 64 + (s[2] % 64)
                   /\ Payload(s, 3) = ((s[1] % 16) * 64 + (s[2] % 64)) * 64 + (s[3] % 64)
                   /\ Payload(s, 4) = (((s[1] % 8) * 64 + (s[2] % 64)) * 64 + (s[3] % 64)) * 64 + (s[4] % 64)
  OBVIOUS
<1> 4 # 2 /\ 4 # 3 /\ 3 # 2
  OBVIOUS
<1>1. Payload(s, 2) = (s[1] % 32) * 64 + (s[2] % 64)
  BY Zenon DEF Payload
<1>2. Payload(s, 3) = ((s[1] % 16) * 64 + (s[2] % 64)) * 64 + (s[3] % 64)
  BY Zenon DEF Payload
<1>3. Payload(s, 4) = (((s[1] % 8) * 64 + (s[2] % 64)) * 64 + (s[3] % 64)) * 64 + (s[4] % 64)
  BY Zenon DEF Payload
<1>4. QED
  BY <1>1, <1>2, <1>3, Zenon

LEMMA PayloadOfTwo == \A s, q, l : q = s[1] % 32 /\ l = s[2] % 64 => Payload(s, 2) = q * 64 + l
BY Payloads

LEMMA PayloadOfThree == \A s, q, m, l :
    q = s[1] % 16 /\ m = s[2] % 64 /\ l = s[3] % 64 => Payload(s, 3) = (q * 64 + m) * 64 + l
BY Payloads

LEMMA PayloadOfFour == \A s, q, o, m, l :
    q = s[1] % 8 /\ o = s[2] % 64 /\ m = s[3] % 64 /\ l = s[4] % 64
    => Payload(s, 4) = ((q * 64 + o) * 64 + m) * 64 + l
BY Payloads

\* Of any bytes utf8ToCodepoint makes a number that is no half of a pair, and takes
\* one of them or more, none that is not there.
LEMMA Utf8Types ==
    ASSUME NEW s \in Seq(Byte), s # <<>>
    PROVE  LET c == Utf8ToCodepoint(s)
           IN  /\ c.code \in Nat /\ ~Surrogate(c.code)
               /\ c.width \in Nat /\ 1 <= c.width /\ c.width <= Len(s)
               /\ s[1] < 128 => c.code = s[1]
               /\ s[1] >= 128 => c.code >= 128
<1>1. PICK n \in Nat : n = Len(s) /\ 1 <= n
  BY BytesIn
<1>2. PICK a \in Nat : a = s[1] /\ a < 256
  BY BytesIn
<1>3. PICK w \in 1 .. 4 : /\ w = Width(a)
                          /\ 128 <= a /\ a < 248 => w >= 2
  BY <1>2 DEF Width
<1>4. a < 128 => Utf8ToCodepoint(s) = [code |-> a, width |-> 1]
  BY <1>2 DEF Utf8ToCodepoint
<1>5. a >= 248 \/ (n < w /\ ~(a < 128)) => Utf8ToCodepoint(s) = [code |-> Replacement, width |-> 1]
  BY <1>1, <1>2, <1>3 DEF Utf8ToCodepoint
<1>6. ASSUME 128 <= a, a < 248, w <= n
      PROVE  Payload(s, w) \in Nat
  <2>1. w \in {2, 3, 4}
    BY <1>3, <1>6
  <2>2. \A i \in 1 .. w : s[i] \in Nat
    <3>1. \A i \in 1 .. w : i \in 1 .. n
      BY <1>1, <1>6, <2>1
    <3>2. QED
      BY <1>1, <3>1, BytesIn
  <2>3. PICK b \in Nat, c \in Nat, d \in Nat : b = s[1] % 32 /\ c = s[1] % 16 /\ d = s[1] % 8
    BY <1>2, Remainders
  <2>4. PICK e \in Nat : e = s[2] % 64
    BY <2>1, <2>2, Remainders
  <2>5. CASE w = 2
    <3>1. Payload(s, 2) = b * 64 + e
      BY <2>3, <2>4, PayloadOfTwo
    <3>2. QED
      BY <2>5, <3>1, Shifted
  <2>6. CASE w = 3
    <3>1. PICK f \in Nat : f = s[3] % 64
      BY <2>2, <2>6, Remainders
    <3>2. Payload(s, 3) = (c * 64 + e) * 64 + f
      BY <2>3, <2>4, <3>1, PayloadOfThree
    <3>3. c * 64 + e \in Nat
      BY <2>3, <2>4, Shifted
    <3>4. (c * 64 + e) * 64 + f \in Nat
      BY <3>1, <3>3, Shifted
    <3>5. QED
      BY <2>6, <3>2, <3>4
  <2>7. CASE w = 4
    <3>1. PICK f \in Nat, g \in Nat : f = s[3] % 64 /\ g = s[4] % 64
      BY <2>2, <2>7, Remainders
    <3>2. d * 64 + e \in Nat
      BY <2>3, <2>4, Shifted, Zenon
    <3>3. (d * 64 + e) * 64 + f \in Nat
      BY <3>1, <3>2, Shifted, Zenon
    <3>4. ((d * 64 + e) * 64 + f) * 64 + g \in Nat
      BY <3>1, <3>3, Shifted, Zenon
    <3>5. Payload(s, 4) = ((d * 64 + e) * 64 + f) * 64 + g
      BY <2>3, <2>4, <3>1, PayloadOfFour
    <3>6. QED
      BY <2>7, <3>4, <3>5
  <2>8. QED
    BY <2>1, <2>5, <2>6, <2>7
<1>7. ASSUME 128 <= a, a < 248, w <= n
      PROVE  \E c \in Nat : /\ Utf8ToCodepoint(s) = [code |-> c, width |-> w]
                            /\ ~Surrogate(c) /\ 128 <= c
  <2>1. PICK p \in Nat : p = Payload(s, w)
    BY <1>6, <1>7
  <2>2. Utf8ToCodepoint(s) = [code |-> IF p < Least(w) \/ Surrogate(p) THEN Replacement ELSE p, width |-> w]
    BY <1>1, <1>2, <1>3, <1>7, <2>1 DEF Utf8ToCodepoint
  <2>3. Least(w) \in Nat /\ 128 <= Least(w)
    BY DEF Least
  <2>4. Replacement \in Nat /\ 128 <= Replacement /\ ~Surrogate(Replacement)
    BY DEF Replacement, Surrogate
  <2>5. QED
    BY <2>1, <2>2, <2>3, <2>4
<1>8. Replacement \in Nat /\ 128 <= Replacement /\ ~Surrogate(Replacement)
  BY DEF Replacement, Surrogate
<1>9. a < 128 => ~Surrogate(a)
  BY DEF Surrogate
<1>10. CASE a < 128
  BY <1>1, <1>2, <1>4, <1>9, <1>10
<1>11. CASE a >= 248 \/ (n < w /\ ~(a < 128))
  BY <1>1, <1>2, <1>5, <1>8, <1>11
<1>12. CASE 128 <= a /\ a < 248 /\ w <= n
  BY <1>1, <1>2, <1>3, <1>7, <1>12
<1>13. QED
  BY <1>1, <1>2, <1>3, <1>10, <1>11, <1>12

-----------------------------------------------------------------------------
(* What codePointToUTF8 writes, utf8ToCodepoint reads.                     *)

\* What stands at the beginning of a text.
LEMMA InFront == \A e, t \in Seq(Byte) : e # <<>> =>
    /\ e \o t \in Seq(Byte) /\ e \o t # <<>>
    /\ Len(e \o t) = Len(e) + Len(t) /\ Len(e) \in Nat /\ Len(t) \in Nat
    /\ \A i \in 1 .. Len(e) : (e \o t)[i] = e[i]
<1> SUFFICES ASSUME NEW e \in Seq(Byte), NEW t \in Seq(Byte), e # <<>>
             PROVE /\ e \o t \in Seq(Byte) /\ e \o t # <<>>
                   /\ Len(e \o t) = Len(e) + Len(t) /\ Len(e) \in Nat /\ Len(t) \in Nat
                   /\ \A i \in 1 .. Len(e) : (e \o t)[i] = e[i]
  OBVIOUS
<1>1. e \o t \in Seq(Byte) /\ Len(e \o t) = Len(e) + Len(t) /\ Len(e) \in Nat /\ Len(t) \in Nat
  OBVIOUS
<1>2. \A i \in 1 .. Len(e) : (e \o t)[i] = e[i]
  OBVIOUS
<1>3. Len(e) # 0
  OBVIOUS
<1>4. QED
  BY <1>1, <1>2, <1>3

ReadsAs(cp, e) == \A t \in Seq(Byte) : Utf8ToCodepoint(e \o t) = [code |-> cp, width |-> Len(e)]

LEMMA ReadsOne == \A cp \in Nat : cp < 128 => <<cp>> \in Seq(Byte) /\ ReadsAs(cp, <<cp>>)
<1> SUFFICES ASSUME NEW cp \in Nat, cp < 128
             PROVE  <<cp>> \in Seq(Byte) /\ ReadsAs(cp, <<cp>>)
  OBVIOUS
<1>1. cp \in Byte
  BY ByteIs
<1>2. <<cp>> \in Seq(Byte) /\ <<cp>> # <<>> /\ Len(<<cp>>) = 1
  BY <1>1
<1>3. ASSUME NEW t \in Seq(Byte)
      PROVE  Utf8ToCodepoint(<<cp>> \o t) = [code |-> cp, width |-> 1]
  <2>1. (<<cp>> \o t)[1] = cp
    BY <1>2, InFront
  <2>2. PICK s : s = <<cp>> \o t
    OBVIOUS
  <2>3. s[1] = cp
    BY <2>1, <2>2
  <2>4. Utf8ToCodepoint(s) = [code |-> cp, width |-> 1]
    BY <2>3 DEF Utf8ToCodepoint
  <2>5. QED
    BY <2>2, <2>4
<1>4. QED
  BY <1>2, <1>3 DEF ReadsAs

\* Any bytes that begin with the n of e carry cp.
Carries(e, n, cp) == \A s : (\A i \in 1 .. n : s[i] = e[i]) => Payload(s, n) = cp

\* e is a well formed character of n bytes, two or more.
Encodes(cp, e, n) ==
    /\ cp \in Nat /\ ~Surrogate(cp)
    /\ e \in Seq(Byte) /\ e # <<>> /\ n = Len(e)
    /\ 128 <= e[1] /\ e[1] < 248 /\ Width(e[1]) = n /\ Least(n) <= cp
    /\ Carries(e, n, cp)

LEMMA ReadsMore == \A cp, e, k : Encodes(cp, e, k) => ReadsAs(cp, e)
<1> SUFFICES ASSUME NEW cp, NEW e, NEW k, Encodes(cp, e, k)
             PROVE  ReadsAs(cp, e)
  OBVIOUS
<1> cp \in Nat /\ ~Surrogate(cp) /\ e \in Seq(Byte) /\ e # <<>> /\ k = Len(e)
  BY DEF Encodes
<1>0. 128 <= e[1] /\ e[1] < 248 /\ Width(e[1]) = k /\ Least(k) <= cp /\ Carries(e, k, cp)
  BY DEF Encodes
<1>1. PICK n \in Nat, a \in Nat : n = Len(e) /\ 1 <= n /\ a = e[1]
  BY BytesIn
<1>2. ASSUME NEW t \in Seq(Byte)
      PROVE  Utf8ToCodepoint(e \o t) = [code |-> cp, width |-> Len(e)]
  <2>1. PICK s : s = e \o t
    OBVIOUS
  <2>2. PICK m \in Nat : Len(s) = m /\ n <= m
    BY <1>1, <2>1, InFront
  <2>3. \A i \in 1 .. n : s[i] = e[i]
    BY <1>1, <2>1, InFront
  <2>4. s[1] = a
    BY <1>1, <2>3
  <2>5. Payload(s, n) = cp /\ Width(a) = n /\ Least(n) <= cp /\ a >= 128 /\ a < 248
    BY <1>0, <1>1, <2>3 DEF Carries
  <2>6. Least(n) \in Nat
    BY DEF Least
  <2>7. Utf8ToCodepoint(s) = [code |-> cp, width |-> n]
    BY <1>1, <2>2, <2>4, <2>5, <2>6 DEF Utf8ToCodepoint
  <2>8. QED
    BY <1>1, <2>1, <2>7
<1>3. QED
  BY <1>2 DEF ReadsAs

LEMMA Leasts == Least(2) = 128 /\ Least(3) = 2048 /\ Least(4) = 65536
BY DEF Least

LEMMA ReadsTwo == \A cp \in Nat : 128 <= cp /\ cp < 2048 =>
    /\ <<192 + High(cp), Continuation(cp)>> \in Seq(Byte)
    /\ ReadsAs(cp, <<192 + High(cp), Continuation(cp)>>)
<1> SUFFICES ASSUME NEW cp \in Nat, 128 <= cp, cp < 2048
             PROVE  /\ <<192 + High(cp), Continuation(cp)>> \in Seq(Byte)
                    /\ ReadsAs(cp, <<192 + High(cp), Continuation(cp)>>)
  OBVIOUS
<1>1. PICK q \in Nat, l \in Nat : q = High(cp) /\ l = cp % 64
  BY SixBits
<1>2. PICK b \in Nat : b = Continuation(cp) /\ b < 256 /\ b % 64 = l
  BY <1>1, SixBits
<1>3. cp = 64 * q + l /\ l < 64
  BY <1>1, SixBits
<1>4. q < 32
  BY <1>3
<1>5. PICK a \in Nat : a = 192 + q /\ a % 32 = q
  BY <1>4, LeadBits
<1>6. a \in Byte /\ b \in Byte
  BY <1>2, <1>4, <1>5, ByteIs
<1> DEFINE e == <<a, b>>
<1>8. e \in Seq(Byte) /\ e # <<>> /\ Len(e) = 2 /\ e[1] = a /\ e[2] = b
  BY <1>6
<1> HIDE DEF e
<1>9. a >= 128 /\ a < 248 /\ Width(a) = 2
  BY <1>4, <1>5 DEF Width
<1>10. Least(2) <= cp /\ ~Surrogate(cp)
  <2>1. ~Surrogate(cp)
    BY DEF Surrogate
  <2>2. QED
    BY <2>1, Leasts
<1>11. ASSUME NEW s, \A i \in 1 .. 2 : s[i] = e[i]
       PROVE  Payload(s, 2) = cp
  <2>1. s[1] = a /\ s[2] = b
    BY <1>8, <1>11
  <2>2. q = s[1] % 32 /\ l = s[2] % 64
    BY <1>2, <1>5, <2>1
  <2>3. Payload(s, 2) = q * 64 + l
    BY <2>2, PayloadOfTwo
  <2>4. QED
    BY <1>3, <2>3
<1>12. Carries(e, 2, cp)
  BY <1>11 DEF Carries
<1>13. 128 <= e[1] /\ e[1] < 248 /\ Width(e[1]) = 2
  BY <1>8, <1>9
<1>14. Encodes(cp, e, 2)
  BY <1>8, <1>10, <1>12, <1>13 DEF Encodes
<1>15a. ReadsAs(cp, e)
  BY <1>14, ReadsMore
<1>15. e = <<192 + High(cp), Continuation(cp)>>
  BY <1>1, <1>2, <1>5 DEF e
<1>16. QED
  BY <1>8, <1>15, <1>15a

LEMMA ReadsThree == \A cp \in Nat : 2048 <= cp /\ cp < 65536 /\ ~Surrogate(cp) =>
    /\ <<224 + High(High(cp)), Continuation(High(cp)), Continuation(cp)>> \in Seq(Byte)
    /\ ReadsAs(cp, <<224 + High(High(cp)), Continuation(High(cp)), Continuation(cp)>>)
<1> SUFFICES ASSUME NEW cp \in Nat, 2048 <= cp, cp < 65536, ~Surrogate(cp)
             PROVE  /\ <<224 + High(High(cp)), Continuation(High(cp)), Continuation(cp)>> \in Seq(Byte)
                    /\ ReadsAs(cp, <<224 + High(High(cp)), Continuation(High(cp)), Continuation(cp)>>)
  OBVIOUS
<1>1. PICK h \in Nat : h = High(cp)
  BY SixBits
<1>2. PICK q \in Nat : q = High(h)
  BY SixBits
<1>3. PICK l \in Nat, c \in Nat : Lowest(cp, l, c)
  BY LowestExist
<1>4. PICK m \in Nat, b \in Nat : Lowest(h, m, b)
  BY LowestExist
<1>5. /\ c = Continuation(cp) /\ c < 256 /\ c % 64 = l /\ l < 64
      /\ cp = 64 * h + l
  BY <1>1, <1>3 DEF Lowest
<1>6. /\ b = Continuation(h) /\ b < 256 /\ b % 64 = m /\ m < 64
      /\ h = 64 * q + m
  BY <1>2, <1>4 DEF Lowest
<1>7. q < 16
  BY <1>5, <1>6
<1>8. PICK a \in Nat : a = 224 + q /\ a % 16 = q
  BY <1>7, LeadBits
<1>9. a \in Byte /\ b \in Byte /\ c \in Byte
  BY <1>5, <1>6, <1>7, <1>8, ByteIs
<1> DEFINE e == <<a, b, c>>
<1>10. e \in Seq(Byte) /\ e # <<>> /\ Len(e) = 3
  BY <1>9
<1>11. e[1] = a /\ e[2] = b /\ e[3] = c
  OBVIOUS
<1> HIDE DEF e
<1>12. a >= 128 /\ a < 248 /\ Width(a) = 3
  BY <1>7, <1>8 DEF Width
<1>13. Least(3) <= cp
  BY Leasts
<1>14. ASSUME NEW s, \A i \in 1 .. 3 : s[i] = e[i]
       PROVE  Payload(s, 3) = cp
  <2>1. s[1] = a /\ s[2] = b /\ s[3] = c
    BY <1>11, <1>14
  <2>2. q = s[1] % 16 /\ m = s[2] % 64 /\ l = s[3] % 64
    BY <1>5, <1>6, <1>8, <2>1
  <2>3. Payload(s, 3) = (q * 64 + m) * 64 + l
    BY <2>2, PayloadOfThree
  <2>4. q * 64 + m = h
    BY <1>6
  <2>5. h * 64 + l = cp
    BY <1>5
  <2>6. QED
    BY <2>3, <2>4, <2>5
<1>15. Carries(e, 3, cp)
  BY <1>14 DEF Carries
<1>16. 128 <= e[1] /\ e[1] < 248 /\ Width(e[1]) = 3
  BY <1>11, <1>12
<1>17. Encodes(cp, e, 3)
  BY <1>10, <1>13, <1>15, <1>16 DEF Encodes
<1>18. ReadsAs(cp, e)
  BY <1>17, ReadsMore
<1>19. e = <<224 + High(High(cp)), Continuation(High(cp)), Continuation(cp)>>
  <2>1. a = 224 + High(High(cp)) /\ b = Continuation(High(cp)) /\ c = Continuation(cp)
    <3>1. q = High(High(cp))
      BY <1>1, <1>2
    <3>2. b = Continuation(h) /\ c = Continuation(cp) /\ a = 224 + q
      BY <1>5, <1>6, <1>8
    <3>3. b = Continuation(High(cp))
      BY <1>1, <3>2
    <3>4. QED
      BY <3>1, <3>2, <3>3
  <2>2. High(High(cp)) \in Nat /\ Continuation(High(cp)) \in Nat /\ Continuation(cp) \in Nat
    BY <1>1, <1>2, <2>1
  <2>3. QED
    BY <2>1, <2>2 DEF e
<1>20. QED
  BY <1>10, <1>18, <1>19

Four(cp) == <<240 + High(High(High(cp))), Continuation(High(High(cp))), Continuation(High(cp)),
              Continuation(cp)>>

LEMMA ReadsFour == \A cp \in Nat : 65536 <= cp /\ cp < 1114112 /\ ~Surrogate(cp) =>
    /\ Four(cp) \in Seq(Byte)
    /\ ReadsAs(cp, Four(cp))
<1> SUFFICES ASSUME NEW cp \in Nat, 65536 <= cp, cp < 1114112, ~Surrogate(cp)
             PROVE  Four(cp) \in Seq(Byte) /\ ReadsAs(cp, Four(cp))
  OBVIOUS
<1>1. PICK h \in Nat : h = High(cp)
  BY SixBits
<1>2. PICK k \in Nat : k = High(h)
  BY SixBits
<1>3. PICK q \in Nat : q = High(k)
  BY SixBits
<1>4. PICK l \in Nat, d \in Nat : Lowest(cp, l, d)
  BY LowestExist
<1>5. PICK m \in Nat, c \in Nat : Lowest(h, m, c)
  BY LowestExist
<1>6. PICK o \in Nat, b \in Nat : Lowest(k, o, b)
  BY LowestExist
<1>7. /\ d = Continuation(cp) /\ d < 256 /\ d % 64 = l /\ l < 64
      /\ cp = 64 * h + l
  BY <1>1, <1>4 DEF Lowest
<1>8. /\ c = Continuation(h) /\ c < 256 /\ c % 64 = m /\ m < 64
      /\ h = 64 * k + m
  BY <1>2, <1>5 DEF Lowest
<1>9. /\ b = Continuation(k) /\ b < 256 /\ b % 64 = o /\ o < 64
      /\ k = 64 * q + o
  BY <1>3, <1>6 DEF Lowest
<1>10. q < 8
  BY <1>7, <1>8, <1>9
<1>11. PICK a \in Nat : a = 240 + q /\ a % 8 = q
  BY <1>10, LeadBits
<1>12. a \in Byte /\ b \in Byte /\ c \in Byte /\ d \in Byte
  BY <1>7, <1>8, <1>9, <1>10, <1>11, ByteIs
<1> DEFINE e == <<a, b, c, d>>
<1>13. e \in Seq(Byte) /\ e # <<>> /\ Len(e) = 4
  BY <1>12
<1>14. e[1] = a /\ e[2] = b /\ e[3] = c /\ e[4] = d
  OBVIOUS
<1> HIDE DEF e
<1>15. a >= 128 /\ a < 248 /\ Width(a) = 4
  BY <1>10, <1>11 DEF Width
<1>16. Least(4) <= cp
  BY Leasts
<1>17. ASSUME NEW s, \A i \in 1 .. 4 : s[i] = e[i]
       PROVE  Payload(s, 4) = cp
  <2>1. s[1] = a /\ s[2] = b /\ s[3] = c /\ s[4] = d
    BY <1>14, <1>17
  <2>2. q = s[1] % 8 /\ o = s[2] % 64 /\ m = s[3] % 64 /\ l = s[4] % 64
    BY <1>7, <1>8, <1>9, <1>11, <2>1
  <2>3. Payload(s, 4) = ((q * 64 + o) * 64 + m) * 64 + l
    BY <2>2, PayloadOfFour
  <2>4. q * 64 + o = k
    BY <1>9
  <2>5. k * 64 + m = h
    BY <1>8
  <2>6. h * 64 + l = cp
    BY <1>7
  <2>7. QED
    BY <2>3, <2>4, <2>5, <2>6
<1>18. Carries(e, 4, cp)
  BY <1>17 DEF Carries
<1>19. 128 <= e[1] /\ e[1] < 248 /\ Width(e[1]) = 4
  BY <1>14, <1>15
<1>20. Encodes(cp, e, 4)
  BY <1>13, <1>16, <1>18, <1>19 DEF Encodes
<1>21. ReadsAs(cp, e)
  BY <1>20, ReadsMore
<1>22. e = Four(cp)
  <2>1. a = 240 + High(High(High(cp))) /\ b = Continuation(High(High(cp)))
    <3>1. q = High(High(High(cp))) /\ k = High(High(cp))
      BY <1>1, <1>2, <1>3
    <3>2. b = Continuation(k) /\ a = 240 + q
      BY <1>9, <1>11
    <3>3. b = Continuation(High(High(cp)))
      BY <3>1, <3>2
    <3>4. QED
      BY <3>1, <3>2, <3>3
  <2>2. c = Continuation(High(cp)) /\ d = Continuation(cp)
    BY <1>1, <1>7, <1>8
  <2>3. /\ High(High(High(cp))) \in Nat /\ Continuation(High(High(cp))) \in Nat
        /\ Continuation(High(cp)) \in Nat /\ Continuation(cp) \in Nat
    BY <1>1, <1>2, <1>3, <2>1, <2>2
  <2>4. QED
    BY <2>1, <2>2, <2>3 DEF e, Four
<1>23. QED
  BY <1>13, <1>21, <1>22

\* Every character is written as bytes that are read as that character.
LEMMA Encoded == \A cp : Character(cp) =>
    /\ CodePointToUTF8(cp) \in Seq(Byte) /\ CodePointToUTF8(cp) # <<>>
    /\ ReadsAs(cp, CodePointToUTF8(cp))
<1> SUFFICES ASSUME NEW cp \in Nat, Character(cp)
             PROVE  /\ CodePointToUTF8(cp) \in Seq(Byte) /\ CodePointToUTF8(cp) # <<>>
                    /\ ReadsAs(cp, CodePointToUTF8(cp))
  BY DEF Character
<1>0. ~Surrogate(cp) /\ cp <= 1114111 /\ cp < 1114112
  BY DEF Character
<1>1. CASE cp < 128
  <2>1. CodePointToUTF8(cp) = <<cp>>
    BY <1>1 DEF CodePointToUTF8
  <2>2. QED
    BY <1>1, <2>1, ReadsOne
<1>2. CASE 128 <= cp /\ cp < 2048
  <2>1. CodePointToUTF8(cp) = <<192 + High(cp), Continuation(cp)>>
    BY <1>2 DEF CodePointToUTF8
  <2>2. QED
    BY <1>2, <2>1, ReadsTwo
<1>3. CASE 2048 <= cp /\ cp < 65536
  <2>1. CodePointToUTF8(cp) = <<224 + High(High(cp)), Continuation(High(cp)), Continuation(cp)>>
    BY <1>3 DEF CodePointToUTF8
  <2>2. QED
    BY <1>0, <1>3, <2>1, ReadsThree
<1>4. CASE 65536 <= cp
  <2>1. CodePointToUTF8(cp) = Four(cp)
    BY <1>0, <1>4 DEF CodePointToUTF8, Four
  <2>2. Four(cp) # <<>>
    BY DEF Four
  <2>3. QED
    BY <1>0, <1>4, <2>1, <2>2, ReadsFour
<1>5. QED
  BY <1>1, <1>2, <1>3, <1>4

-----------------------------------------------------------------------------
(* What is written for one code point, decodeString reads back.            *)

\* u alone is decoded to the character cp, whatever stands behind it.
Decodes(u, cp) ==
    /\ u \in Seq(Unit) /\ u # <<>> /\ Character(cp)
    /\ \A r \in Seq(Unit) : DecodedFirst(u \o r) = [bytes |-> CodePointToUTF8(cp), width |-> Len(u)]

\* Only printable bytes stand raw, and no quotation mark.
Plain(x) == x.kind = "raw" => x.code \in 32 .. 127 /\ x.code # 34
AllPlain(u) == \A i \in 1 .. Len(u) : Plain(u[i])

LEMMA UnitsInFront == \A e, t \in Seq(Unit) : e # <<>> =>
    /\ e \o t \in Seq(Unit) /\ e \o t # <<>>
    /\ Len(e \o t) = Len(e) + Len(t) /\ Len(e) \in Nat /\ Len(t) \in Nat
    /\ \A i \in 1 .. Len(e) : (e \o t)[i] = e[i]
<1> SUFFICES ASSUME NEW e \in Seq(Unit), NEW t \in Seq(Unit), e # <<>>
             PROVE /\ e \o t \in Seq(Unit) /\ e \o t # <<>>
                   /\ Len(e \o t) = Len(e) + Len(t) /\ Len(e) \in Nat /\ Len(t) \in Nat
                   /\ \A i \in 1 .. Len(e) : (e \o t)[i] = e[i]
  OBVIOUS
<1>1. e \o t \in Seq(Unit) /\ Len(e \o t) = Len(e) + Len(t) /\ Len(e) \in Nat /\ Len(t) \in Nat
  OBVIOUS
<1>2. \A i \in 1 .. Len(e) : (e \o t)[i] = e[i]
  OBVIOUS
<1>3. Len(e) # 0
  OBVIOUS
<1>4. QED
  BY <1>1, <1>2, <1>3

\* A byte that stands for itself, raw or behind a backslash.
LEMMA DecodesByte == \A x \in Unit : x.kind # "hex" /\ x.code < 128 => Decodes(<<x>>, x.code)
<1> SUFFICES ASSUME NEW x \in Unit, x.kind # "hex", x.code < 128
             PROVE  Decodes(<<x>>, x.code)
  OBVIOUS
<1>1. PICK n \in Nat : n = x.code
  BY DEF Unit
<1>2. Character(n) /\ CodePointToUTF8(n) = <<n>>
  BY <1>1 DEF Character, Surrogate, CodePointToUTF8
<1>3. <<x>> \in Seq(Unit) /\ <<x>> # <<>> /\ Len(<<x>>) = 1 /\ <<x>>[1] = x
  OBVIOUS
<1>4. ASSUME NEW r \in Seq(Unit)
      PROVE  DecodedFirst(<<x>> \o r) = [bytes |-> <<n>>, width |-> 1]
  <2>1. (<<x>> \o r)[1] = x
    BY <1>3, UnitsInFront
  <2>2. PICK u : u = <<x>> \o r
    OBVIOUS
  <2>3. u[1] = x
    BY <2>1, <2>2
  <2>4. DecodedFirst(u) = [bytes |-> <<n>>, width |-> 1]
    BY <1>1, <2>3 DEF DecodedFirst
  <2>5. QED
    BY <2>2, <2>4
<1>5. QED
  BY <1>1, <1>2, <1>3, <1>4 DEF Decodes

Begins(u, x) == u[1] = x

\* \u with a character that is no half of a pair.
LEMMA DecodesHex == \A n \in Nat : n < 65536 /\ ~Surrogate(n) => Decodes(<<Hex(n)>>, n)
<1> SUFFICES ASSUME NEW n \in Nat, n < 65536, ~Surrogate(n)
             PROVE  Decodes(<<Hex(n)>>, n)
  OBVIOUS
<1> DEFINE x == [kind |-> "hex", code |-> n]
<1>2. Hex(n) = x
  BY TenBits DEF Hex
<1>3. x \in Unit /\ x.kind = "hex" /\ x.code = n
  BY DEF Unit
<1> HIDE DEF x
<1>4. Character(n) /\ ~FirstHalf(n)
  BY DEF Character, Surrogate, FirstHalf
<1>5. <<x>> \in Seq(Unit) /\ <<x>> # <<>> /\ Len(<<x>>) = 1 /\ <<x>>[1] = x
  BY <1>3
<1>6. ASSUME NEW r \in Seq(Unit)
      PROVE  DecodedFirst(<<x>> \o r) = [bytes |-> CodePointToUTF8(n), width |-> 1]
  <2>1. Begins(<<x>> \o r, x)
    BY <1>5, UnitsInFront DEF Begins
  <2>2. ASSUME NEW u, Begins(u, x)
        PROVE  DecodedFirst(u) = [bytes |-> CodePointToUTF8(n), width |-> 1]
    <3>1. CodePointAt(u) = [code |-> n, width |-> 1]
      BY <1>3, <1>4, <2>2 DEF CodePointAt, Begins
    <3>2. QED
      BY <1>3, <2>2, <3>1 DEF DecodedFirst, Begins
  <2>3. QED
    BY <2>1, <2>2
<1>7. QED
  BY <1>2, <1>4, <1>5, <1>6 DEF Decodes

BeginsTwo(u, x, y) == u[1] = x /\ u[2] = y /\ Len(u) \in Nat /\ 2 <= Len(u)

\* Two halves of a pair, for every number beyond 16 bits: a character, and the same
\* one unless the number is too large.
LEMMA DecodesPair == \A c \in Nat : 65536 <= c =>
    \E d : Decodes(Pair(c), d) /\ (c <= 1114111 => d = c)
<1> SUFFICES ASSUME NEW c \in Nat, 65536 <= c
             PROVE  \E d : Decodes(Pair(c), d) /\ (c <= 1114111 => d = c)
  OBVIOUS
<1>1. PICK m \in Nat : m = c - 65536
  OBVIOUS
<1>2. PICK p \in Nat, l \in Nat : p = m \div 1024 /\ l = m % 1024 /\ l < 1024 /\ m = 1024 * p + l
  BY TenBits
<1>3. PICK h \in Nat : h = p % 1024 /\ h < 1024 /\ (p < 1024 => h = p)
  BY TenBits
<1> DEFINE x == [kind |-> "hex", code |-> 55296 + h]
<1> DEFINE y == [kind |-> "hex", code |-> 56320 + l]
<1> DEFINE d == 65536 + h * 1024 + l
<1>4. Pair(c) = <<Hex(55296 + h), Hex(56320 + l)>>
  <2>1. (c - 65536) \div 1024 = p /\ (c - 65536) % 1024 = l
    BY <1>1, <1>2
  <2>2. ((c - 65536) \div 1024) % 1024 = h
    BY <1>3, <2>1
  <2>3. QED
    BY <2>1, <2>2 DEF Pair
<1>5. Hex(55296 + h) = x
  <2>1. (55296 + h) % 65536 = 55296 + h
    BY <1>3, Halves
  <2>2. QED
    BY <2>1 DEF Hex
<1>6. Hex(56320 + l) = y
  <2>1. (56320 + l) % 65536 = 56320 + l
    BY <1>2, Halves
  <2>2. QED
    BY <2>1 DEF Hex
<1>7. x \in Unit /\ x.kind = "hex" /\ x.code = 55296 + h
  BY DEF Unit
<1>8. y \in Unit /\ y.kind = "hex" /\ y.code = 56320 + l
  BY DEF Unit
<1>9. d \in Nat /\ d = 65536 + h * 1024 + l /\ d >= 65536
  OBVIOUS
<1> HIDE DEF x, y, d
<1>10. d <= 1114111 /\ Character(d)
  BY <1>2, <1>3, <1>9 DEF Character, Surrogate
<1>11. c <= 1114111 => d = c
  BY <1>1, <1>2, <1>3, <1>9
<1>12. x.code % 1024 = h /\ y.code % 1024 = l
  BY <1>2, <1>3, <1>7, <1>8, Halves
<1>13. FirstHalf(x.code)
  BY <1>3, <1>7 DEF FirstHalf
<1>14. <<x, y>> \in Seq(Unit) /\ <<x, y>> # <<>> /\ Len(<<x, y>>) = 2
       /\ <<x, y>>[1] = x /\ <<x, y>>[2] = y
  BY <1>7, <1>8
<1>15. ASSUME NEW u, BeginsTwo(u, x, y)
       PROVE  DecodedFirst(u) = [bytes |-> CodePointToUTF8(d), width |-> 2]
  <2>1. CodePointAt(u) = [code |-> 65536 + (x.code % 1024) * 1024 + (y.code % 1024), width |-> 2]
    BY <1>8, <1>13, <1>15 DEF CodePointAt, BeginsTwo
  <2>2. CodePointAt(u) = [code |-> d, width |-> 2]
    BY <1>9, <1>12, <2>1
  <2>3. d # -1
    BY <1>9
  <2>4. QED
    BY <1>7, <1>15, <2>2, <2>3 DEF DecodedFirst, BeginsTwo
<1>16. ASSUME NEW r \in Seq(Unit)
       PROVE  BeginsTwo(<<x, y>> \o r, x, y)
  BY <1>14, UnitsInFront DEF BeginsTwo
<1>17. Decodes(<<x, y>>, d)
  BY <1>10, <1>14, <1>15, <1>16 DEF Decodes
<1>18. Pair(c) = <<x, y>>
  BY <1>4, <1>5, <1>6
<1>19. QED
  BY <1>11, <1>17, <1>18

LEMMA HexPlain == \A n : AllPlain(<<Hex(n)>>)
BY DEF AllPlain, Plain, Hex

LEMMA PairPlain == \A c : AllPlain(Pair(c))
<1> SUFFICES ASSUME NEW c PROVE AllPlain(Pair(c))
  OBVIOUS
<1>1. \A m, n : AllPlain(<<Hex(m), Hex(n)>>)
  BY DEF AllPlain, Plain, Hex
<1>2. \E m, n : Pair(c) = <<Hex(m), Hex(n)>>
  BY DEF Pair
<1>3. QED
  BY <1>1, <1>2

\* The units of a code point are decoded to a character, to the same one if the code
\* point is one.
LEMMA UnitsDecode == \A c \in Nat : ~Surrogate(c) =>
    /\ \E d : Decodes(Units(c), d) /\ (c <= 1114111 => d = c)
    /\ c # 34 => AllPlain(Units(c))
<1> SUFFICES ASSUME NEW c \in Nat, ~Surrogate(c)
             PROVE  /\ \E d : Decodes(Units(c), d) /\ (c <= 1114111 => d = c)
                    /\ c # 34 => AllPlain(Units(c))
  OBVIOUS
<1>1. CASE c < 32 \/ (128 <= c /\ c < 65536)
  <2>1. Units(c) = <<Hex(c)>>
    BY <1>1 DEF Units
  <2>2. Decodes(<<Hex(c)>>, c)
    BY <1>1, DecodesHex
  <2>3. QED
    BY <2>1, <2>2, HexPlain
<1>2. CASE 32 <= c /\ c < 128
  <2> DEFINE x == [kind |-> "raw", code |-> c]
  <2>1. Units(c) = <<x>>
    BY <1>2 DEF Units, Raw
  <2>2. x \in Unit /\ x.kind # "hex" /\ x.code = c
    BY DEF Unit
  <2> HIDE DEF x
  <2>3. Decodes(<<x>>, c)
    BY <1>2, <2>2, DecodesByte
  <2>4. c # 34 => AllPlain(<<x>>)
    BY <1>2, <2>2 DEF AllPlain, Plain
  <2>5. QED
    BY <2>1, <2>3, <2>4
<1>3. CASE 65536 <= c
  <2>1. Units(c) = Pair(c)
    BY <1>3 DEF Units
  <2>2. QED
    BY <1>3, <2>1, DecodesPair, PairPlain
<1>4. QED
  BY <1>1, <1>2, <1>3

-----------------------------------------------------------------------------
(* One step of the quoting.                                                *)

LEMMA EscapeDecodes == \A b \in ShortEscaped : Decodes(<<Escape(b)>>, b) /\ AllPlain(<<Escape(b)>>)
<1> SUFFICES ASSUME NEW b \in ShortEscaped
             PROVE  Decodes(<<Escape(b)>>, b) /\ AllPlain(<<Escape(b)>>)
  OBVIOUS
<1>1. b \in Nat /\ b < 128
  BY DEF ShortEscaped
<1> DEFINE x == [kind |-> "escape", code |-> b]
<1>2. x \in Unit /\ x.kind = "escape" /\ x.code = b
  BY <1>1 DEF Unit
<1>3. Escape(b) = x
  BY DEF Escape
<1> HIDE DEF x
<1>4. Decodes(<<x>>, b)
  BY <1>1, <1>2, DecodesByte
<1>5. AllPlain(<<x>>)
  BY <1>2 DEF AllPlain, Plain
<1>6. QED
  BY <1>3, <1>4, <1>5

\* What is written for the beginning of s: plain units that can be decoded.
LEMMA QuotedFirstDecodes ==
    ASSUME NEW s \in Seq(Byte), s # <<>>
    PROVE  LET q == QuotedFirst(s)
           IN  /\ q.width \in Nat /\ 1 <= q.width /\ q.width <= Len(s)
               /\ AllPlain(q.units) /\ \E d : Decodes(q.units, d)
<1>1. s[1] \in Nat
  BY BytesIn
<1>2. CASE s[1] \in ShortEscaped
  <2>1. QuotedFirst(s) = [units |-> <<Escape(s[1])>>, width |-> 1]
    BY <1>2 DEF QuotedFirst
  <2>2. AllPlain(<<Escape(s[1])>>) /\ \E d : Decodes(<<Escape(s[1])>>, d)
    BY <1>2, EscapeDecodes
  <2>3. 1 <= Len(s)
    BY BytesIn
  <2>4. QED
    BY <2>1, <2>2, <2>3
<1>3. CASE s[1] \notin ShortEscaped
  <2>1. PICK c : c = Utf8ToCodepoint(s)
    OBVIOUS
  <2>2. QuotedFirst(s) = [units |-> Units(c.code), width |-> c.width]
    BY <1>3, <2>1 DEF QuotedFirst
  <2>3. /\ c.code \in Nat /\ ~Surrogate(c.code)
        /\ c.width \in Nat /\ 1 <= c.width /\ c.width <= Len(s)
        /\ s[1] < 128 => c.code = s[1]
        /\ s[1] >= 128 => c.code >= 128
    BY <2>1, Utf8Types
  <2>4. c.code # 34
    BY <1>1, <1>3, <2>3 DEF ShortEscaped
  <2>5. AllPlain(Units(c.code)) /\ \E d : Decodes(Units(c.code), d)
    BY <2>3, <2>4, UnitsDecode
  <2>6. QED
    BY <2>2, <2>3, <2>5
<1>4. QED
  BY <1>2, <1>3

\* A character at the beginning is written, and decoded, as itself.
LEMMA QuotedFirstOfCharacter ==
    ASSUME NEW cp, Character(cp), NEW t \in Seq(Byte)
    PROVE  LET q == QuotedFirst(CodePointToUTF8(cp) \o t)
           IN  q.width = Len(CodePointToUTF8(cp)) /\ Decodes(q.units, cp)
<1>1. PICK e \in Seq(Byte) : e = CodePointToUTF8(cp) /\ e # <<>> /\ ReadsAs(cp, e)
  BY Encoded
<1>2. PICK s \in Seq(Byte) : s = e \o t /\ s # <<>> /\ s[1] = e[1]
  <2>1. e \o t \in Seq(Byte) /\ e \o t # <<>> /\ (e \o t)[1] = e[1]
    BY <1>1, InFront, BytesIn
  <2>2. QED
    BY <2>1
<1>3. Utf8ToCodepoint(s) = [code |-> cp, width |-> Len(e)]
  BY <1>1, <1>2 DEF ReadsAs
<1>4. cp \in Nat /\ cp <= 1114111 /\ ~Surrogate(cp)
  BY DEF Character
<1>5. CASE s[1] \in ShortEscaped
  <2>1. QuotedFirst(s) = [units |-> <<Escape(s[1])>>, width |-> 1]
    BY <1>5 DEF QuotedFirst
  <2>2. s[1] < 128 /\ s[1] \in Nat
    BY <1>5 DEF ShortEscaped
  <2>3. cp = s[1] /\ Len(e) = 1
    BY <1>3, <2>2 DEF Utf8ToCodepoint
  <2>4. Decodes(<<Escape(s[1])>>, cp)
    BY <1>5, <2>3, EscapeDecodes
  <2>5. QED
    BY <1>1, <1>2, <2>1, <2>3, <2>4
<1>6. CASE s[1] \notin ShortEscaped
  <2>1. QuotedFirst(s) = [units |-> Units(cp), width |-> Len(e)]
    BY <1>3, <1>6 DEF QuotedFirst
  <2>2. Decodes(Units(cp), cp)
    BY <1>4, UnitsDecode
  <2>3. QED
    BY <1>1, <1>2, <2>1, <2>2
<1>7. QED
  BY <1>5, <1>6

-----------------------------------------------------------------------------
(* The equations of the quoting and of the decoding.                       *)

QuotedRest(s) == SubSeq(s, QuotedFirst(s).width + 1, Len(s))
DecodedRest(u) == SubSeq(u, DecodedFirst(u).width + 1, Len(u))

LEMMA RestIs == \A S : \A s \in Seq(S) : \A w \in Nat :
    1 <= w /\ w <= Len(s) => /\ SubSeq(s, w + 1, Len(s)) \in Seq(S)
                             /\ Len(SubSeq(s, w + 1, Len(s))) = Len(s) - w
<1> SUFFICES ASSUME NEW S, NEW s \in Seq(S), NEW w \in Nat, 1 <= w, w <= Len(s)
             PROVE  /\ SubSeq(s, w + 1, Len(s)) \in Seq(S)
                    /\ Len(SubSeq(s, w + 1, Len(s))) = Len(s) - w
  OBVIOUS
<1>1. PICK n \in Nat : n = Len(s)
  OBVIOUS
<1>2. \A i \in (w + 1) .. n : s[i] \in S
  BY <1>1
<1>3. SubSeq(s, w + 1, n) \in Seq(S) /\ Len(SubSeq(s, w + 1, n)) = IF w + 1 <= n THEN n - (w + 1) + 1 ELSE 0
  BY <1>1, <1>2, SubSeqProperties
<1>4. QED
  BY <1>1, <1>3

\* Each step of the quoting leaves fewer bytes, each step of the decoding fewer units.
LEMMA QuotedRestShorter == \A s \in Seq(Byte) : s # <<>> =>
    QuotedRest(s) \in Seq(Byte) /\ Len(QuotedRest(s)) < Len(s)
<1> SUFFICES ASSUME NEW s \in Seq(Byte), s # <<>>
             PROVE  QuotedRest(s) \in Seq(Byte) /\ Len(QuotedRest(s)) < Len(s)
  OBVIOUS
<1>1. PICK w \in Nat : w = QuotedFirst(s).width /\ 1 <= w /\ w <= Len(s)
  BY QuotedFirstDecodes
<1>2. QuotedRest(s) = SubSeq(s, w + 1, Len(s))
  BY <1>1 DEF QuotedRest
<1>3. Len(s) \in Nat
  OBVIOUS
<1>4. QED
  BY <1>1, <1>2, <1>3, RestIs

LEMMA DecodedFirstWidth == \A u \in Seq(Unit) : u # <<>> =>
    LET w == DecodedFirst(u).width IN w \in Nat /\ 1 <= w /\ w <= Len(u)
<1> SUFFICES ASSUME NEW u \in Seq(Unit), u # <<>>
             PROVE  LET w == DecodedFirst(u).width IN w \in Nat /\ 1 <= w /\ w <= Len(u)
  OBVIOUS
<1>1. PICK n \in Nat : n = Len(u) /\ 1 <= n
  <2>1. Len(u) \in Nat /\ 1 <= Len(u)
    OBVIOUS
  <2>2. QED
    BY <2>1
<1>2. CodePointAt(u).width \in Nat /\ 1 <= CodePointAt(u).width /\ CodePointAt(u).width <= n
  BY <1>1 DEF CodePointAt
<1>3. DecodedFirst(u).width \in {1, n, CodePointAt(u).width}
  BY <1>1 DEF DecodedFirst
<1>4. QED
  BY <1>1, <1>2, <1>3

LEMMA DecodedRestShorter == \A u \in Seq(Unit) : u # <<>> =>
    DecodedRest(u) \in Seq(Unit) /\ Len(DecodedRest(u)) < Len(u)
<1> SUFFICES ASSUME NEW u \in Seq(Unit), u # <<>>
             PROVE  DecodedRest(u) \in Seq(Unit) /\ Len(DecodedRest(u)) < Len(u)
  OBVIOUS
<1>1. PICK w \in Nat : w = DecodedFirst(u).width /\ 1 <= w /\ w <= Len(u)
  BY DecodedFirstWidth
<1>2. DecodedRest(u) = SubSeq(u, w + 1, Len(u))
  BY <1>1 DEF DecodedRest
<1>3. Len(u) \in Nat
  OBVIOUS
<1>4. QED
  BY <1>1, <1>2, <1>3, RestIs

\* The functions do what their definitions say.
LEMMA QuotedIs == \A s \in Seq(Byte) :
    Quoted[s] = IF s = <<>> THEN <<>> ELSE QuotedFirst(s).units \o Quoted[QuotedRest(s)]
<1> DEFINE c == [s \in Seq(Byte) |-> QuotedFirst(s).units]
<1> DEFINE r == [s \in Seq(Byte) |-> QuotedRest(s)]
<1> DEFINE F(f) == [s \in Seq(Byte) |-> IF s = <<>> THEN <<>>
                                        ELSE QuotedFirst(s).units \o f[QuotedRest(s)]]
<1>1. Shortens(Byte, r)
  BY QuotedRestShorter DEF Shortens
<1>2. \A s \in Seq(Byte) : c[s] = QuotedFirst(s).units /\ r[s] = QuotedRest(s)
  OBVIOUS
<1> HIDE DEF c, r
<1>3. PICK g : Chunked(Byte, c, r, g)
  BY <1>1, ChunksExist
<1>4. g = F(g)
  BY <1>2, <1>3 DEF Chunked
<1>5. Quoted = CHOOSE f : f = F(f)
  BY Zenon DEF Quoted, QuotedRest
<1> HIDE DEF F
<1>6. Quoted = F(Quoted)
  BY <1>4, <1>5, Zenon
<1> USE DEF F
<1>7. QED
  BY <1>6, Zenon

LEMMA DecodedIs == \A u \in Seq(Unit) :
    Decoded[u] = IF u = <<>> THEN <<>> ELSE DecodedFirst(u).bytes \o Decoded[DecodedRest(u)]
<1> DEFINE c == [u \in Seq(Unit) |-> DecodedFirst(u).bytes]
<1> DEFINE r == [u \in Seq(Unit) |-> DecodedRest(u)]
<1> DEFINE F(f) == [u \in Seq(Unit) |-> IF u = <<>> THEN <<>>
                                        ELSE DecodedFirst(u).bytes \o f[DecodedRest(u)]]
<1>1. Shortens(Unit, r)
  BY DecodedRestShorter DEF Shortens
<1>2. \A u \in Seq(Unit) : c[u] = DecodedFirst(u).bytes /\ r[u] = DecodedRest(u)
  OBVIOUS
<1> HIDE DEF c, r
<1>3. PICK g : Chunked(Unit, c, r, g)
  BY <1>1, ChunksExist
<1>4. g = F(g)
  BY <1>2, <1>3 DEF Chunked
<1>5. Decoded = CHOOSE f : f = F(f)
  BY Zenon DEF Decoded, DecodedRest
<1> HIDE DEF F
<1>6. Decoded = F(Decoded)
  BY <1>4, <1>5, Zenon
<1> USE DEF F
<1>7. QED
  BY <1>6, Zenon

-----------------------------------------------------------------------------
(* Quoting and decoding, character by character.                           *)

LEMMA Behind == \A S : \A e, t \in Seq(S) :
    SubSeq(e \o t, Len(e) + 1, Len(e \o t)) = t
<1> SUFFICES ASSUME NEW S, NEW e \in Seq(S), NEW t \in Seq(S)
             PROVE  SubSeq(e \o t, Len(e) + 1, Len(e \o t)) = t
  OBVIOUS
<1>1. PICK n \in Nat, m \in Nat : n = Len(e) /\ m = Len(t)
  OBVIOUS
<1>2. e \o t \in Seq(S) /\ Len(e \o t) = n + m
  BY <1>1
<1>3. \A i \in 1 .. n + m : (e \o t)[i] = IF i <= n THEN e[i] ELSE t[i - n]
  BY <1>1
<1> DEFINE w == e \o t
<1>4. w \in Seq(S) /\ Len(w) = n + m /\ \A i \in 1 .. n + m : w[i] = IF i <= n THEN e[i] ELSE t[i - n]
  BY <1>2, <1>3
<1> HIDE DEF w
<1>5. \A i \in (n + 1) .. (n + m) : w[i] \in S
  BY <1>4
<1>6. /\ SubSeq(w, n + 1, n + m) \in Seq(S)
      /\ Len(SubSeq(w, n + 1, n + m)) = m
      /\ \A i \in 1 .. m : SubSeq(w, n + 1, n + m)[i] = w[n + i]
  <2> DEFINE f == n + 1
             l == n + m
             s == SubSeq(w, f, l)
  <2>1. f \in Int /\ l \in Int /\ (IF f <= l THEN l - f + 1 ELSE 0) = m /\ l - f + 1 = m
        /\ \A i \in 1 .. m : f + i - 1 = n + i
    OBVIOUS
  <2>2. \A i \in f .. l : w[i] \in S
    BY <1>5
  <2> HIDE DEF f, l
  <2>3. s \in Seq(S) /\ Len(s) = (IF f <= l THEN l - f + 1 ELSE 0) /\ \A i \in 1 .. l - f + 1 : s[i] = w[f + i - 1]
    BY <2>1, <2>2, SubSeqProperties
  <2>4. s \in Seq(S) /\ Len(s) = m /\ \A i \in 1 .. m : s[i] = w[n + i]
    BY <2>1, <2>3, Zenon
  <2>5. QED
    BY <2>4 DEF f, l
<1>7. \A i \in 1 .. m : SubSeq(w, n + 1, n + m)[i] = t[i]
  <2>1. ASSUME NEW i \in 1 .. m PROVE n + i \in 1 .. n + m /\ ~(n + i <= n) /\ n + i - n = i
    OBVIOUS
  <2>2. \A i \in 1 .. m : w[n + i] = t[i]
    BY <1>4, <2>1
  <2>3. QED
    BY <1>6, <2>2, Zenon
<1>8. SubSeq(w, n + 1, n + m) = t
  BY <1>1, <1>6, <1>7, SeqEqual
<1>9. QED
  BY <1>1, <1>4, <1>8 DEF w

LEMMA DecodedInFront ==
    ASSUME NEW u, NEW d, Decodes(u, d), NEW w \in Seq(Unit)
    PROVE  Decoded[u \o w] = CodePointToUTF8(d) \o Decoded[w]
<1>1. u \in Seq(Unit) /\ u # <<>> /\ DecodedFirst(u \o w) = [bytes |-> CodePointToUTF8(d), width |-> Len(u)]
  BY DEF Decodes
<1>2. u \o w \in Seq(Unit) /\ u \o w # <<>>
  BY <1>1, UnitsInFront
<1>3. DecodedRest(u \o w) = SubSeq(u \o w, Len(u) + 1, Len(u \o w))
  BY <1>1 DEF DecodedRest
<1>4. DecodedRest(u \o w) = w
  BY <1>1, <1>3, Behind
<1>5. Decoded[u \o w] = DecodedFirst(u \o w).bytes \o Decoded[DecodedRest(u \o w)]
  BY <1>2, DecodedIs
<1>6. QED
  BY <1>1, <1>4, <1>5

\* Any bytes at all are written as plain units that are decoded to bytes.
Readable(s) == /\ Quoted[s] \in Seq(Unit) /\ AllPlain(Quoted[s])
               /\ Decoded[Quoted[s]] \in Seq(Byte)

LEMMA ReadableEmpty == Readable(<<>>) /\ Quoted[<<>>] = <<>> /\ Decoded[<<>>] = <<>>
<1>1. <<>> \in Seq(Byte) /\ <<>> \in Seq(Unit)
  OBVIOUS
<1>2. Quoted[<<>>] = <<>>
  BY <1>1, QuotedIs
<1>3. Decoded[<<>>] = <<>>
  BY <1>1, DecodedIs
<1>4. AllPlain(<<>>)
  BY DEF AllPlain
<1>5. QED
  BY <1>1, <1>2, <1>3, <1>4 DEF Readable

LEMMA AllPlainJoined == \A e, t \in Seq(Unit) : AllPlain(e) /\ AllPlain(t) => AllPlain(e \o t)
BY DEF AllPlain

LEMMA ReadableStep ==
    ASSUME NEW s \in Seq(Byte), s # <<>>, Readable(QuotedRest(s))
    PROVE  Readable(s)
<1>1. PICK u, d : u = QuotedFirst(s).units /\ AllPlain(u) /\ Decodes(u, d)
  BY QuotedFirstDecodes
<1>2. PICK w : w = Quoted[QuotedRest(s)]
  OBVIOUS
<1>3. w \in Seq(Unit) /\ AllPlain(w) /\ Decoded[w] \in Seq(Byte)
  BY <1>2 DEF Readable
<1>4. u \in Seq(Unit) /\ Character(d)
  BY <1>1 DEF Decodes
<1>5. Quoted[s] = u \o w
  BY <1>1, <1>2, QuotedIs
<1>6. Decoded[u \o w] = CodePointToUTF8(d) \o Decoded[w]
  BY <1>1, <1>3, DecodedInFront
<1>7. CodePointToUTF8(d) \in Seq(Byte)
  BY <1>4, Encoded
<1>8. CodePointToUTF8(d) \o Decoded[w] \in Seq(Byte)
  BY <1>3, <1>7
<1>9. u \o w \in Seq(Unit) /\ AllPlain(u \o w)
  BY <1>1, <1>3, <1>4, AllPlainJoined
<1>10. QED
  BY <1>5, <1>6, <1>8, <1>9 DEF Readable

\* A shortest text without this property would have a rest that lacks it too.
LEMMA AllReadable == \A s \in Seq(Byte) : Readable(s)
<1> DEFINE B == {Len(s) : s \in {x \in Seq(Byte) : ~Readable(x)}}
<1>1. SUFFICES ASSUME B # {} PROVE FALSE
  OBVIOUS
<1>2. PICK m \in B : \A i \in B : m <= i
  <2>1. B \subseteq Nat
    OBVIOUS
  <2> HIDE DEF B
  <2>2. QED
    BY <1>1, <2>1, Minimum
<1>3. PICK s \in Seq(Byte) : ~Readable(s) /\ Len(s) = m
  BY <1>2
<1>4. s # <<>>
  BY <1>3, ReadableEmpty
<1>5. QuotedRest(s) \in Seq(Byte) /\ Len(QuotedRest(s)) < Len(s)
  BY <1>4, QuotedRestShorter
<1>6. Readable(QuotedRest(s))
  <2>1. Len(s) \in Nat /\ Len(QuotedRest(s)) \in Nat
    BY <1>5
  <2>2. Len(QuotedRest(s)) \notin B
    BY <1>2, <1>3, <1>5, <2>1
  <2>3. QED
    BY <1>5, <2>2
<1>7. QED
  BY <1>3, <1>4, <1>6, ReadableStep

\* s in front of any text comes back as it is.
Reread(s) == Decoded[Quoted[s]]
Kept == {s \in Seq(Byte) : \A t \in Seq(Byte) : Reread(s \o t) = s \o Reread(t)}

LEMMA RereadCharacter ==
    ASSUME NEW cp, Character(cp), NEW t \in Seq(Byte)
    PROVE  Reread(CodePointToUTF8(cp) \o t) = CodePointToUTF8(cp) \o Reread(t)
<1>1. PICK e \in Seq(Byte) : e = CodePointToUTF8(cp) /\ e # <<>>
  BY Encoded
<1>2. PICK s \in Seq(Byte) : s = e \o t /\ s # <<>>
  <2>1. e \o t \in Seq(Byte) /\ e \o t # <<>>
    BY <1>1, InFront
  <2>2. QED
    BY <2>1
<1>3. PICK u : u = QuotedFirst(s).units /\ QuotedFirst(s).width = Len(e) /\ Decodes(u, cp)
  BY <1>1, <1>2, QuotedFirstOfCharacter
<1>4. QuotedRest(s) = t
  <2>1. QuotedRest(s) = SubSeq(e \o t, Len(e) + 1, Len(e \o t))
    BY <1>2, <1>3 DEF QuotedRest
  <2>2. QED
    BY <2>1, Behind
<1>5. Quoted[s] = u \o Quoted[t]
  BY <1>2, <1>3, <1>4, QuotedIs
<1>6. Quoted[t] \in Seq(Unit)
  BY AllReadable DEF Readable
<1>7. Decoded[u \o Quoted[t]] = e \o Decoded[Quoted[t]]
  BY <1>1, <1>3, <1>6, DecodedInFront
<1>8. QED
  BY <1>1, <1>2, <1>5, <1>7 DEF Reread

\* a \o b, unexpanded.
Joined(a, b) == a \o b

LEMMA Associative == \A a, b, c \in Seq(Byte) :
    Joined(a, b) \in Seq(Byte) /\ Joined(Joined(a, b), c) = Joined(a, Joined(b, c))
BY DEF Joined

\* Kept is closed under the characters that AddCharacter appends.
LEMMA KeptEmpty == <<>> \in Kept
<1>1. ASSUME NEW t \in Seq(Byte)
      PROVE  Reread(<<>> \o t) = <<>> \o Reread(t)
  <2>1. Reread(t) \in Seq(Byte)
    BY AllReadable DEF Readable, Reread
  <2>2. <<>> \o t = t /\ <<>> \o Reread(t) = Reread(t)
    BY <2>1
  <2>3. QED
    BY <2>2
<1>2. <<>> \in Seq(Byte)
  OBVIOUS
<1>3. QED
  BY <1>1, <1>2 DEF Kept

LEMMA KeptCharacter ==
    ASSUME NEW s \in Kept, NEW cp, Character(cp)
    PROVE  s \o CodePointToUTF8(cp) \in Kept
<1>1. PICK e \in Seq(Byte) : e = CodePointToUTF8(cp)
  BY Encoded
<1>2. s \in Seq(Byte) /\ \A t \in Seq(Byte) : Reread(Joined(s, t)) = Joined(s, Reread(t))
  BY DEF Kept, Joined
<1>3. ASSUME NEW t \in Seq(Byte)
      PROVE  Reread(Joined(Joined(s, e), t)) = Joined(Joined(s, e), Reread(t))
  <2>1. PICK v \in Seq(Byte) : v = Reread(t)
    BY AllReadable DEF Readable, Reread
  <2>2. PICK w \in Seq(Byte) : w = Joined(e, t)
    BY Associative
  <2>3. Joined(Joined(s, e), t) = Joined(s, w)
    BY <1>2, <2>2, Associative
  <2>4. Reread(w) = Joined(e, v)
    BY <1>1, <2>1, <2>2, RereadCharacter DEF Joined
  <2>5. Reread(Joined(s, w)) = Joined(s, Joined(e, v))
    BY <1>2, <2>4
  <2>6. Joined(s, Joined(e, v)) = Joined(Joined(s, e), v)
    BY <1>2, Associative
  <2>7. QED
    BY <2>1, <2>3, <2>5, <2>6
<1>4. Joined(s, e) \in Seq(Byte)
  BY <1>2, Associative
<1>5. QED
  BY <1>1, <1>3, <1>4 DEF Kept, Joined

LEMMA KeptComesBack == \A s \in Kept : Reread(s) = s
<1> SUFFICES ASSUME NEW s \in Kept PROVE Reread(s) = s
  OBVIOUS
<1>1. s \in Seq(Byte) /\ <<>> \in Seq(Byte) /\ s \o <<>> = s
  BY DEF Kept
<1>2. Reread(<<>>) = <<>>
  BY ReadableEmpty DEF Reread
<1>3. Reread(s \o <<>>) = s \o Reread(<<>>)
  BY <1>1 DEF Kept
<1>4. QED
  BY <1>1, <1>2, <1>3

-----------------------------------------------------------------------------
(* The theorems.                                                           *)

\* Without a raw quotation mark the token is all of the text.
LEMMA PlainToken == \A u \in Seq(Unit) : AllPlain(u) => StringToken(u) = u
<1> SUFFICES ASSUME NEW u \in Seq(Unit), AllPlain(u)
             PROVE  StringToken(u) = u
  OBVIOUS
<1>1. \A x : Plain(x) => x # Raw(34)
  BY DEF Plain, Raw
<1>2. {i \in 1 .. Len(u) : u[i] = Raw(34)} = {}
  BY <1>1, Zenon DEF AllPlain
<1>3. QED
  BY <1>2, Zenon DEF StringToken, SelectInSeq

\* The strings: an unspoilt one belongs to Kept, which needs no induction over its
\* characters because every step appends one.
TextInv == TextTypeOK /\ (~stray => bytes \in Kept)

LEMMA TextInvInit == TextInit => TextInv
<1> SUFFICES ASSUME TextInit PROVE TextInv
  OBVIOUS
<1>1. bytes \in Seq(Byte) /\ written \in Seq(CodePoints \cup StrayBytes) /\ stray \in BOOLEAN
  <2>1. <<>> \in Seq(Byte) /\ <<>> \in Seq(CodePoints \cup StrayBytes)
    OBVIOUS
  <2>2. QED
    BY <2>1 DEF TextInit
<1>2. bytes \in Kept
  BY KeptEmpty DEF TextInit
<1>3. QED
  BY <1>1, <1>2 DEF TextInv, TextTypeOK

LEMMA TextInvStep == TextInv /\ [TextNext]_textVars => TextInv'
<1> SUFFICES ASSUME TextInv, [TextNext]_textVars PROVE TextInv'
  OBVIOUS
<1>0. /\ bytes \in Seq(Byte) /\ written \in Seq(CodePoints \cup StrayBytes) /\ stray \in BOOLEAN
      /\ ~stray => bytes \in Kept
  BY DEF TextInv, TextTypeOK
<1>1. ASSUME NEW cp \in CodePoints, AddCharacter(cp) PROVE TextInv'
  <2>1. Character(cp)
    BY CodePointsAssumption
  <2>2. PICK e \in Seq(Byte) : e = CodePointToUTF8(cp)
    BY <2>1, Encoded
  <2>3. bytes' = bytes \o e /\ written' = Append(written, cp) /\ stray' = stray
    BY <1>1, <2>2 DEF AddCharacter
  <2>4. bytes' \in Seq(Byte) /\ written' \in Seq(CodePoints \cup StrayBytes)
    BY <1>0, <2>3
  <2>5. ~stray' => bytes' \in Kept
    BY <1>0, <2>1, <2>2, <2>3, KeptCharacter
  <2>6. QED
    BY <1>0, <2>3, <2>4, <2>5 DEF TextInv, TextTypeOK
<1>2. ASSUME NEW b \in StrayBytes, AddStray(b) PROVE TextInv'
  <2>1. b \in Byte
    BY CodePointsAssumption
  <2>2. bytes' = Append(bytes, b) /\ written' = Append(written, b) /\ stray' = TRUE
    BY <1>2 DEF AddStray
  <2>3. bytes' \in Seq(Byte) /\ written' \in Seq(CodePoints \cup StrayBytes)
    BY <1>0, <2>1, <2>2
  <2>4. QED
    BY <2>2, <2>3 DEF TextInv, TextTypeOK
<1>3. CASE UNCHANGED textVars
  BY <1>3 DEF TextInv, TextTypeOK, textVars
<1>4. QED
  BY <1>1, <1>2, <1>3 DEF TextNext

LEMMA TextInvHolds == TextSpec => []TextInv
BY TextInvInit, TextInvStep, PTL DEF TextSpec

LEMMA TextInvRoundTrips == TextInv => QuotingRoundTrips
<1> SUFFICES ASSUME TextInv PROVE QuotingRoundTrips
  OBVIOUS
<1>1. bytes \in Seq(Byte) /\ (~stray => bytes \in Kept)
  BY DEF TextInv, TextTypeOK
<1>2. PICK text : text = Quoted[bytes]
  OBVIOUS
<1>3. text \in Seq(Unit) /\ AllPlain(text) /\ Decoded[text] \in Seq(Byte)
  BY <1>1, <1>2, AllReadable DEF Readable
<1>4. StringToken(text) = text
  BY <1>3, PlainToken
<1>5. \A i \in DOMAIN text : text[i].kind = "raw" => text[i].code \in 32 .. 127
  <2>1. DOMAIN text = 1 .. Len(text)
    BY <1>3
  <2>2. \A i \in 1 .. Len(text) : Plain(text[i])
    BY <1>3, Zenon DEF AllPlain
  <2>3. \A x : Plain(x) => (x.kind = "raw" => x.code \in 32 .. 127)
    BY Zenon DEF Plain
  <2>4. QED
    BY <2>1, <2>2, <2>3, Zenon
<1>6. ~Contains(Decoded[text], -1)
  <2>1. \A i \in 1 .. Len(Decoded[text]) : Decoded[text][i] # -1
    BY <1>3, ByteIs
  <2>2. QED
    BY <2>1 DEF Contains
<1>7. ~stray => Decoded[text] = bytes
  BY <1>1, <1>2, KeptComesBack DEF Reread
<1>8. QED
  BY <1>2, <1>4, <1>5, <1>6, <1>7, Zenon DEF QuotingRoundTrips

\* A string holds bytes, and the list of what it was made of holds characters and stray
\* bytes (json_tool.h:39, codePointToUTF8 gives bytes for every character).
THEOREM TextTypeCorrect == TextSpec => []TextTypeOK
<1>1. TextInv => TextTypeOK
  BY DEF TextInv
<1>2. QED
  BY <1>1, TextInvHolds, PTL

\* For every set of characters and every length: a string that valueToQuotedStringN writes
\* is one token of plain ASCII, decodeString reads it without an error, and it comes back
\* byte for byte when it is made of characters (json_writer.cpp:275, json_reader.cpp:628).
THEOREM QuotingRoundTripsHolds == TextSpec => []QuotingRoundTrips
BY TextInvHolds, TextInvRoundTrips, PTL

-----------------------------------------------------------------------------
(* Functions defined by recursion on a number: TwoTo, Digits, the values   *)
(* of a token's digits.                                                    *)

\* f is computed from smaller numbers, up to n: at k from its value at r[k].
UpTo(D, b, g, r, n, f) ==
    \A k \in D : k <= n => f[k] = IF k = 0 THEN b ELSE g[<<k, f[r[k]]>>]

Descends(D, r) == D \subseteq Nat /\ 0 \in D /\ \A k \in D : k # 0 => r[k] \in D /\ r[k] < k

\* Two such functions are the same as far as they go.
LEMMA UpToAgree ==
    ASSUME NEW D, NEW b, NEW g, NEW r, Descends(D, r), NEW n \in Nat,
           NEW e, NEW f, UpTo(D, b, g, r, n, e), UpTo(D, b, g, r, n, f)
    PROVE  \A k \in D : k <= n => e[k] = f[k]
<1> DEFINE S == {k \in D : k <= n /\ e[k] # f[k]}
<1>1. SUFFICES ASSUME S # {} PROVE FALSE
  OBVIOUS
<1>2. S \subseteq Nat
  BY DEF Descends
<1>3. PICK m \in S : \A k \in S : m <= k
  <2> HIDE DEF S
  <2> QED BY <1>1, <1>2, Minimum
<1>4. m \in Nat /\ m \in D /\ m <= n /\ e[m] # f[m]
  BY <1>2
<1>5. CASE m = 0
  BY <1>4, <1>5 DEF UpTo
<1>6. CASE m # 0
  <2>1. r[m] \in D /\ r[m] < m /\ r[m] \in Nat
    BY <1>4, <1>6 DEF Descends
  <2>2. r[m] \notin S /\ r[m] <= n
    BY <1>3, <1>4, <2>1
  <2>3. e[r[m]] = f[r[m]]
    BY <2>1, <2>2
  <2>4. e[m] = g[<<m, e[r[m]]>>] /\ f[m] = g[<<m, f[r[m]]>>]
    BY <1>4, <1>6, Zenon DEF UpTo
  <2>5. QED
    BY <2>3, <2>4, <1>4, Zenon
<1>7. QED
  BY <1>5, <1>6

LEMMA UpToExtends ==
    ASSUME NEW D, NEW V, NEW b \in V, NEW g \in [D \X V -> V], NEW r, Descends(D, r), NEW n \in Nat,
           NEW f \in [D -> V], UpTo(D, b, g, r, n, f)
    PROVE  \E h \in [D -> V] : UpTo(D, b, g, r, n + 1, h)
<1>1. CASE n + 1 \notin D
  <2>1. \A k \in D : k <= n + 1 => k <= n
    BY <1>1 DEF Descends
  <2>2. UpTo(D, b, g, r, n + 1, f)
    BY <2>1, Zenon DEF UpTo
  <2>3. QED
    BY <2>2
<1>2. CASE n + 1 \in D
  <2> DEFINE v == g[<<n + 1, f[r[n + 1]]>>]
             h == [f EXCEPT ![n + 1] = v]
  <2>1. r[n + 1] \in D /\ r[n + 1] < n + 1
    BY <1>2 DEF Descends
  <2>2. v \in V
    BY <1>2, <2>1
  <2>3. h \in [D -> V] /\ h[n + 1] = v /\ \A k \in D : k # n + 1 => h[k] = f[k]
    BY <1>2, <2>2
  <2> HIDE DEF h
  <2>4. \A k \in D : k <= n + 1 => h[k] = IF k = 0 THEN b ELSE g[<<k, h[r[k]]>>]
    <3>1. SUFFICES ASSUME NEW k \in D, k <= n + 1
                   PROVE  h[k] = IF k = 0 THEN b ELSE g[<<k, h[r[k]]>>]
      OBVIOUS
    <3>2. k \in Nat
      BY DEF Descends
    <3>3. CASE k = n + 1
      <4>1. h[r[k]] = f[r[k]]
        <5> HIDE DEF v
        <5>1. k # 0
          BY <3>3
        <5>2. r[k] \in D /\ r[k] < k
          BY <5>1, Zenon DEF Descends
        <5>3. r[k] # n + 1
          BY <3>3, <2>1
        <5>4. QED
          BY <2>3, <5>2, <5>3, Zenon
      <4>2. h[k] = g[<<k, f[r[k]]>>] /\ k # 0
        BY <2>3, <3>2, <3>3
      <4>3. QED
        BY <4>1, <4>2, Zenon
    <3>4. CASE k # n + 1
      <4>1. k <= n /\ h[k] = f[k]
        BY <2>3, <3>1, <3>2, <3>4
      <4>2. f[k] = IF k = 0 THEN b ELSE g[<<k, f[r[k]]>>]
        BY <4>1, Zenon DEF UpTo
      <4>3. ASSUME k # 0 PROVE h[r[k]] = f[r[k]]
        <5>1. r[k] \in D /\ r[k] \in Nat /\ r[k] < k
          BY <3>2, <4>3 DEF Descends
        <5>2. r[k] # n + 1
          BY <3>2, <4>1, <5>1
        <5>3. QED
          BY <2>3, <5>1, <5>2, Zenon
      <4>4. QED
        BY <4>1, <4>2, <4>3, Zenon
    <3>5. QED
      BY <3>3, <3>4
  <2>5. QED
    BY <2>3, <2>4, Zenon DEF UpTo
<1>3. QED
  BY <1>1, <1>2

LEMMA UpToExists ==
    ASSUME NEW D, NEW V, NEW b \in V, NEW g \in [D \X V -> V], NEW r, Descends(D, r)
    PROVE  \A n \in Nat : \E f \in [D -> V] : UpTo(D, b, g, r, n, f)
<1> DEFINE S == {n \in Nat : ~\E f \in [D -> V] : UpTo(D, b, g, r, n, f)}
<1>1. SUFFICES ASSUME S # {} PROVE FALSE
  OBVIOUS
<1>2. PICK m \in S : \A n \in S : m <= n
  <2>1. S \subseteq Nat
    OBVIOUS
  <2> HIDE DEF S
  <2> QED BY <1>1, <2>1, Minimum
<1>3. m # 0
  <2> DEFINE z == [k \in D |-> b]
  <2>1. z \in [D -> V] /\ \A k \in D : z[k] = b
    OBVIOUS
  <2>2. \A k \in D : k <= 0 => k = 0
    BY DEF Descends
  <2> HIDE DEF z
  <2>3. UpTo(D, b, g, r, 0, z)
    BY <2>1, <2>2, Zenon DEF UpTo
  <2>4. QED
    BY <2>1, <2>3
<1>4. m - 1 \in Nat /\ m - 1 \notin S
  BY <1>2, <1>3
<1>5. PICK f \in [D -> V] : UpTo(D, b, g, r, m - 1, f)
  BY <1>4
<1>6. \E h \in [D -> V] : UpTo(D, b, g, r, m - 1 + 1, h)
  BY <1>4, <1>5, UpToExtends
<1>7. m - 1 + 1 = m
  BY <1>2
<1>8. QED
  BY <1>6, <1>7, <1>2

Computes(D, b, g, r, f) == \A k \in D : f[k] = IF k = 0 THEN b ELSE g[<<k, f[r[k]]>>]

LEMMA RecursionExists ==
    \A D, V, b, g, r : b \in V /\ g \in [D \X V -> V] /\ Descends(D, r) =>
        \E f \in [D -> V] : Computes(D, b, g, r, f)
<1> SUFFICES ASSUME NEW D, NEW V, NEW b \in V, NEW g \in [D \X V -> V], NEW r, Descends(D, r)
             PROVE  \E f \in [D -> V] : Computes(D, b, g, r, f)
  BY Zenon
<1> DEFINE A(n) == CHOOSE f \in [D -> V] : UpTo(D, b, g, r, n, f)
           f == [k \in D |-> A(k)[k]]
<1>1. D \subseteq Nat /\ 0 \in D
  BY DEF Descends
<1>2. \A n \in Nat : A(n) \in [D -> V] /\ UpTo(D, b, g, r, n, A(n))
  BY UpToExists, Zenon
<1> HIDE DEF A
<1>3. f \in [D -> V] /\ \A k \in D : f[k] = A(k)[k]
  BY <1>1, <1>2
<1> HIDE DEF f
<1>4. ASSUME NEW k \in D PROVE f[k] = IF k = 0 THEN b ELSE g[<<k, f[r[k]]>>]
  <2>1. k \in Nat /\ k <= k
    BY <1>1
  <2>2. A(k)[k] = IF k = 0 THEN b ELSE g[<<k, A(k)[r[k]]>>]
    BY <1>2, <2>1, Zenon DEF UpTo
  <2>3. ASSUME k # 0 PROVE A(k)[r[k]] = f[r[k]]
    <3>1. r[k] \in D /\ r[k] \in Nat /\ r[k] < k
      BY <1>1, <2>3 DEF Descends
    <3>2. UpTo(D, b, g, r, r[k], A(k))
      <4>1. \A j \in D : j <= r[k] => j <= k
        BY <1>1, <2>1, <3>1
      <4>2. QED
        BY <1>2, <2>1, <4>1, Zenon DEF UpTo
    <3>3. r[k] <= r[k]
      BY <3>1
    <3>4. A(k)[r[k]] = A(r[k])[r[k]]
      BY <1>2, <3>1, <3>2, <3>3, UpToAgree
    <3>5. QED
      BY <1>3, <3>1, <3>4, Zenon
  <2>4. QED
    BY <1>3, <2>2, <2>3, Zenon
<1>5. Computes(D, b, g, r, f)
  BY <1>4, Zenon DEF Computes
<1>6. QED
  BY <1>3, <1>5

-----------------------------------------------------------------------------
(* Powers of two.                                                          *)

LEMMA PredecessorsDescend ==
    \A D : D = Nat \/ (\E n \in Nat : D = 0 .. n) => Descends(D, [k \in Nat |-> k - 1])
BY DEF Descends

LEMMA TwoToIs ==
    /\ TwoTo \in [Nat -> Nat]
    /\ TwoTo[0] = 1
    /\ \A n \in Nat : TwoTo[n + 1] = 2 * TwoTo[n]
<1> DEFINE r == [k \in Nat |-> k - 1]
           g == [p \in Nat \X Nat |-> 2 * p[2]]
           Doubles(f) == f = [n \in Nat |-> IF n = 0 THEN 1 ELSE 2 * f[n - 1]]
<1>1. Descends(Nat, r)
  BY PredecessorsDescend, Zenon
<1>2. g \in [Nat \X Nat -> Nat] /\ \A k, v \in Nat : g[<<k, v>>] = 2 * v
  OBVIOUS
<1>3. \A k \in Nat : k # 0 => r[k] = k - 1
  OBVIOUS
<1> HIDE DEF r, g
<1>4. PICK f \in [Nat -> Nat] : \A k \in Nat : f[k] = IF k = 0 THEN 1 ELSE g[<<k, f[r[k]]>>]
  <2>1. 1 \in Nat /\ g \in [Nat \X Nat -> Nat]
    BY <1>2
  <2>2. \E f \in [Nat -> Nat] : Computes(Nat, 1, g, r, f)
    BY <1>1, <2>1, RecursionExists, Zenon
  <2>3. QED
    BY <2>2, Zenon DEF Computes
<1>5. f = [n \in Nat |-> IF n = 0 THEN 1 ELSE 2 * f[n - 1]]
  <2>1. ASSUME NEW k \in Nat PROVE f[k] = IF k = 0 THEN 1 ELSE 2 * f[k - 1]
    <3>1. k # 0 => k - 1 \in Nat
      OBVIOUS
    <3>2. k # 0 => f[k - 1] \in Nat
      BY <3>1
    <3>3. k # 0 => g[<<k, f[r[k]]>>] = 2 * f[k - 1]
      BY <1>2, <1>3, <3>2, Zenon
    <3>4. QED
      BY <1>4, <3>3, Zenon
  <2>2. QED
    BY <2>1
<1>6. Doubles(TwoTo)
  <2>1. \E h : Doubles(h)
    BY <1>5
  <2>2. TwoTo = CHOOSE h : Doubles(h)
    BY Zenon DEF TwoTo
  <2> HIDE DEF Doubles
  <2>3. QED
    BY <2>1, <2>2, Zenon
<1>7. TwoTo = [n \in Nat |-> IF n = 0 THEN 1 ELSE 2 * TwoTo[n - 1]]
  BY <1>6, Zenon
<1>8. \A n \in Nat : TwoTo[n] = IF n = 0 THEN 1 ELSE 2 * TwoTo[n - 1]
  BY <1>7, Zenon
<1>9. \A k \in Nat : TwoTo[k] \in Nat
  <2> DEFINE S == {k \in Nat : TwoTo[k] \notin Nat}
  <2>1. SUFFICES ASSUME S # {} PROVE FALSE
    BY Zenon
  <2>2. PICK m \in S : \A k \in S : m <= k
    <3>1. S \subseteq Nat
      OBVIOUS
    <3> HIDE DEF S
    <3> QED BY <2>1, <3>1, Minimum
  <2>3. m \in Nat /\ TwoTo[m] \notin Nat
    BY <2>2
  <2>4. m # 0
    BY <1>8, <2>3
  <2>5. m - 1 \in Nat /\ m - 1 \notin S
    BY <2>2, <2>3, <2>4
  <2>6. TwoTo[m - 1] \in Nat
    BY <2>5
  <2>7. TwoTo[m] = 2 * TwoTo[m - 1]
    BY <1>8, <2>3, <2>4, Zenon
  <2>8. QED
    BY <2>3, <2>6, <2>7
<1>10. TwoTo \in [Nat -> Nat]
  BY <1>7, <1>9, Zenon
<1>11. \A n \in Nat : n + 1 \in Nat /\ n + 1 # 0 /\ n + 1 - 1 = n
  OBVIOUS
<1>12. QED
  BY <1>8, <1>10, <1>11

LEMMA TwoToExceeds == \A n \in Nat : TwoTo[n] \in Nat /\ TwoTo[n] > n
<1> DEFINE S == {n \in Nat : TwoTo[n] > n}
<1>1. \A n \in Nat : TwoTo[n] \in Nat
  BY TwoToIs
<1>2. 0 \in S
  BY TwoToIs
<1>3. ASSUME NEW n \in Nat, n \in S PROVE n + 1 \in S
  <2>1. TwoTo[n + 1] = 2 * TwoTo[n] /\ TwoTo[n] > n /\ TwoTo[n] \in Nat
    BY <1>1, <1>3, TwoToIs
  <2>2. QED
    BY <2>1
<1> HIDE DEF S
<1>4. \A n \in Nat : n \in S
  BY <1>2, <1>3, AllNumbers
<1>5. QED
  BY <1>1, <1>4 DEF S

LEMMA TwoToOfSum == \A i, j \in Nat : TwoTo[i + j] = TwoTo[i] * TwoTo[j]
<1>1. SUFFICES ASSUME NEW i \in Nat PROVE \A j \in Nat : TwoTo[i + j] = TwoTo[i] * TwoTo[j]
  OBVIOUS
<1> DEFINE S == {j \in Nat : TwoTo[i + j] = TwoTo[i] * TwoTo[j]}
<1>2. TwoTo[i] \in Nat
  BY TwoToExceeds
<1>3. 0 \in S
  <2>1. i + 0 = i /\ TwoTo[0] = 1
    BY TwoToIs
  <2>2. QED
    BY <1>2, <2>1
<1>4. ASSUME NEW j \in Nat, j \in S PROVE j + 1 \in S
  <2>1. TwoTo[i + j] = TwoTo[i] * TwoTo[j] /\ TwoTo[j] \in Nat
    BY <1>4, TwoToExceeds
  <2>2. i + j \in Nat /\ i + (j + 1) = (i + j) + 1
    OBVIOUS
  <2>3. TwoTo[i + (j + 1)] = 2 * TwoTo[i + j] /\ TwoTo[j + 1] = 2 * TwoTo[j]
    BY <2>2, TwoToIs
  <2>4. \A x, y \in Nat : 2 * (x * y) = x * (2 * y)
    OBVIOUS
  <2>5. TwoTo[i + (j + 1)] = TwoTo[i] * TwoTo[j + 1]
    BY <1>2, <2>1, <2>3, <2>4, Zenon
  <2>6. QED
    BY <2>5
<1> HIDE DEF S
<1>5. \A j \in Nat : j \in S
  BY <1>3, <1>4, AllNumbers
<1>6. QED
  BY <1>5 DEF S

LEMMA TwoToGrows == \A i, j \in Nat : i <= j => TwoTo[i] <= TwoTo[j]
<1>1. SUFFICES ASSUME NEW i \in Nat, NEW j \in Nat, i <= j PROVE TwoTo[i] <= TwoTo[j]
  OBVIOUS
<1>2. j - i \in Nat /\ i + (j - i) = j
  BY <1>1
<1>3. TwoTo[j] = TwoTo[i] * TwoTo[j - i]
  BY <1>2, TwoToOfSum
<1>4. TwoTo[i] \in Nat /\ TwoTo[j - i] \in Nat /\ TwoTo[j - i] >= 1
  BY <1>2, TwoToExceeds
<1>5. \A x, y \in Nat : y >= 1 => x <= x * y
  OBVIOUS
<1>6. QED
  BY <1>3, <1>4, <1>5, Zenon

-----------------------------------------------------------------------------
(* Doubles.                                                                *)

LEMMA Widths ==
    /\ IntBits \in Nat /\ IntBits >= 1 /\ LargestBits \in Nat /\ LargestBits > 4
    /\ Precision \in Nat /\ IntBits < Precision /\ Precision < LargestBits - 1
BY WidthAssumption

\* The exponent of a whole number, and the number nearest to it that has Precision bits.
Exponent(m, e) == /\ m < TwoTo[Precision + e]
                  /\ e = 0 \/ m >= TwoTo[Precision + e - 1]
Rounded(m) == ToMultiple(m, TwoTo[CHOOSE e \in 0 .. m : Exponent(m, e)])

LEMMA DoubleIs == \A h : Double(h) = IF h < 0 THEN -Rounded(Magnitude(h)) ELSE Rounded(Magnitude(h))
BY Zenon DEF Double, Rounded, Exponent

LEMMA ExponentExists == \A m \in Nat : \E e \in Nat : Exponent(m, e)
<1>1. SUFFICES ASSUME NEW m \in Nat PROVE \E e \in Nat : Exponent(m, e)
  OBVIOUS
<1> DEFINE S == {e \in Nat : m < TwoTo[Precision + e]}
<1>2. m \in S
  <2>1. Precision + m \in Nat /\ Precision + m >= m
    BY Widths
  <2>2. TwoTo[Precision + m] > Precision + m /\ TwoTo[Precision + m] \in Nat
    BY <2>1, TwoToExceeds
  <2>3. QED
    BY <2>1, <2>2
<1>3. PICK e \in S : \A n \in S : e <= n
  <2>1. S \subseteq Nat
    OBVIOUS
  <2> HIDE DEF S
  <2> QED BY <1>2, <2>1, Minimum
<1>4. e \in Nat /\ m < TwoTo[Precision + e]
  BY <1>3
<1>5. e # 0 => m >= TwoTo[Precision + e - 1]
  <2>1. SUFFICES ASSUME e # 0 PROVE m >= TwoTo[Precision + e - 1]
    OBVIOUS
  <2>2. e - 1 \in Nat /\ e - 1 \notin S
    BY <1>3, <1>4, <2>1
  <2>3. ~(m < TwoTo[Precision + (e - 1)])
    BY <2>2
  <2>4. Precision + (e - 1) = Precision + e - 1 /\ Precision + e - 1 \in Nat
    BY <1>4, <2>2, Widths
  <2>5. TwoTo[Precision + e - 1] \in Nat
    BY <2>4, TwoToExceeds
  <2>6. QED
    BY <2>3, <2>4, <2>5
<1>6. QED
  BY <1>4, <1>5 DEF Exponent

LEMMA ExponentUnique == \A m, d, e \in Nat : Exponent(m, d) /\ Exponent(m, e) => d = e
<1>1. ASSUME NEW m \in Nat, NEW d \in Nat, NEW e \in Nat, Exponent(m, d), Exponent(m, e), d < e
      PROVE  FALSE
  <2>1. m < TwoTo[Precision + d] /\ m >= TwoTo[Precision + e - 1]
    BY <1>1 DEF Exponent
  <2>2. Precision + d \in Nat /\ Precision + e - 1 \in Nat /\ Precision + d <= Precision + e - 1
    BY <1>1, Widths
  <2>3. TwoTo[Precision + d] <= TwoTo[Precision + e - 1]
    BY <2>2, TwoToGrows
  <2>4. TwoTo[Precision + d] \in Nat /\ TwoTo[Precision + e - 1] \in Nat
    BY <2>2, TwoToExceeds
  <2>5. QED
    BY <2>1, <2>3, <2>4
<1>2. QED
  BY <1>1

LEMMA RoundedWith == \A m, e \in Nat : Exponent(m, e) => Rounded(m) = ToMultiple(m, TwoTo[e])
<1>1. SUFFICES ASSUME NEW m \in Nat, NEW e \in Nat, Exponent(m, e)
               PROVE  (CHOOSE x \in 0 .. m : Exponent(m, x)) = e
  BY Zenon DEF Rounded
<1>2. e <= m
  <2>1. CASE e = 0
    BY <2>1
  <2>2. CASE e # 0
    <3>1. Precision + e - 1 \in Nat /\ Precision + e - 1 >= e
      BY <2>2, Widths
    <3>2. m >= TwoTo[Precision + e - 1] /\ TwoTo[Precision + e - 1] > Precision + e - 1
          /\ TwoTo[Precision + e - 1] \in Nat
      BY <1>1, <2>2, <3>1, TwoToExceeds DEF Exponent
    <3>3. QED
      BY <3>1, <3>2
  <2>3. QED
    BY <2>1, <2>2
<1>3. e \in 0 .. m
  BY <1>2
<1>4. \A x \in 0 .. m : x \in Nat
  OBVIOUS
<1>5. \A x \in 0 .. m : Exponent(m, x) => x = e
  BY <1>1, <1>4, ExponentUnique, Zenon
<1>6. QED
  BY <1>1, <1>3, <1>5, Zenon

\* The quotient and the remainder, however they are found.
LEMMA Nearest ==
    \A u, q, r \in Nat : r < u =>
        ToMultiple(u * q + r, u) = u * (IF 2 * r > u \/ (2 * r = u /\ q % 2 = 1) THEN q + 1 ELSE q)
<1>0. SUFFICES ASSUME NEW u \in Nat, NEW q \in Nat, NEW r \in Nat, r < u
               PROVE  ToMultiple(u * q + r, u) =
                          u * (IF 2 * r > u \/ (2 * r = u /\ q % 2 = 1) THEN q + 1 ELSE q)
  BY Zenon
<1>1. SUFFICES (u * q + r) \div u = q /\ (u * q + r) % u = r
  BY <1>0, Zenon DEF ToMultiple
<1> DEFINE n == u * q + r
           x == n \div u
           y == n % u
<1>2. n \in Nat
  OBVIOUS
<1>3. x \in Nat /\ y \in Nat /\ y < u /\ n = u * x + y
  <2> HIDE DEF n
  <2>1. QED
    BY <1>0, <1>2
<1>4. \A a, b, c, d \in Nat : b < u /\ d < u /\ u * a + b = u * c + d => a = c /\ b = d
  BY <1>0
<1>5. u * q + r = u * x + y
  BY <1>3
<1> HIDE DEF x, y
<1>6. x = q /\ y = r
  BY <1>0, <1>3, <1>4, <1>5, Zenon
<1>7. QED
  BY <1>6 DEF x, y

\* d is one of the numbers with Precision bits, times a power of two.
Representable(d) ==
    \E e, k \in Nat : /\ d = TwoTo[e] * k /\ k <= TwoTo[Precision]
                      /\ e = 0 \/ k >= TwoTo[Precision - 1]

LEMMA Powers ==
    /\ Precision - 1 \in Nat
    /\ TwoTo[Precision] \in Nat /\ TwoTo[Precision - 1] \in Nat
    /\ TwoTo[Precision] = 2 * TwoTo[Precision - 1] /\ TwoTo[Precision - 1] >= 2
    /\ \A e \in Nat : /\ TwoTo[e] \in Nat /\ TwoTo[e] > 0 /\ TwoTo[e + 1] = 2 * TwoTo[e]
                      /\ TwoTo[Precision + e] = TwoTo[e] * TwoTo[Precision]
                      /\ e # 0 => TwoTo[Precision + e - 1] = TwoTo[e] * TwoTo[Precision - 1]
<1>1. Precision \in Nat /\ Precision - 1 \in Nat /\ Precision - 1 + 1 = Precision /\ Precision - 1 >= 1
  BY Widths
<1>2. TwoTo[Precision] \in Nat /\ TwoTo[Precision - 1] \in Nat /\ TwoTo[Precision - 1] > Precision - 1
  BY <1>1, TwoToExceeds
<1>3. TwoTo[Precision] = 2 * TwoTo[Precision - 1]
  BY <1>1, TwoToIs
<1>4. ASSUME NEW e \in Nat
      PROVE  /\ TwoTo[e] \in Nat /\ TwoTo[e] > 0 /\ TwoTo[e + 1] = 2 * TwoTo[e]
             /\ TwoTo[Precision + e] = TwoTo[e] * TwoTo[Precision]
             /\ e # 0 => TwoTo[Precision + e - 1] = TwoTo[e] * TwoTo[Precision - 1]
  <2>1. TwoTo[e] \in Nat /\ TwoTo[e] > 0 /\ TwoTo[e + 1] = 2 * TwoTo[e]
    BY TwoToExceeds, TwoToIs
  <2>2. Precision + e = e + Precision /\ Precision + e - 1 = e + (Precision - 1)
    BY <1>1
  <2>3. QED
    BY <1>1, <2>1, <2>2, TwoToOfSum, Zenon
<1>5. QED
  BY <1>1, <1>2, <1>3, <1>4

LEMMA RepresentableStays == \A d : Representable(d) => Rounded(d) = d
<1>1. SUFFICES ASSUME NEW d, NEW e \in Nat, NEW k \in Nat, d = TwoTo[e] * k, k <= TwoTo[Precision],
                      e = 0 \/ k >= TwoTo[Precision - 1]
               PROVE  Rounded(d) = d
  BY Zenon DEF Representable
<1> DEFINE u == TwoTo[e]
           t == TwoTo[Precision]
           h == TwoTo[Precision - 1]
<1>2. /\ u \in Nat /\ u > 0 /\ t \in Nat /\ h \in Nat /\ t = 2 * h /\ h >= 2 /\ TwoTo[e + 1] = 2 * u
      /\ TwoTo[Precision + e] = u * t
      /\ e # 0 => TwoTo[Precision + e - 1] = u * h
  BY Powers
<1>3. d = u * k /\ k <= t /\ (e = 0 \/ k >= h)
  BY <1>1
<1>4. CASE k # t
  <2>1. u * k < u * t
    <3> HIDE DEF u, t
    <3>1. k + 1 <= t
      BY <1>2, <1>3, <1>4
    <3>2. \A x, y, z \in Nat : y + 1 <= z => x * y + x <= x * z
      OBVIOUS
    <3>3. u * k + u <= u * t
      BY <1>2, <3>1, <3>2
    <3>4. u * k \in Nat /\ u * t \in Nat
      BY <1>2
    <3>5. QED
      BY <1>2, <3>3, <3>4
  <2>2. e # 0 => u * k >= u * h
    <3> HIDE DEF u, h
    <3>1. \A x, y, z \in Nat : y >= z => x * y >= x * z
      OBVIOUS
    <3>2. QED
      BY <1>2, <1>3, <3>1
  <2>3. Exponent(d, e)
    <3> HIDE DEF u, h, t
    <3>1. QED
      BY <1>2, <1>3, <2>1, <2>2, Zenon DEF Exponent
  <2>4. d \in Nat
    <3> HIDE DEF u
    <3>1. QED
      BY <1>2, <1>3
  <2>5. Rounded(d) = ToMultiple(u * k, u)
    BY <1>3, <2>3, <2>4, RoundedWith, Zenon
  <2>6. ToMultiple(u * k + 0, u) = u * (IF 2 * 0 > u \/ (2 * 0 = u /\ k % 2 = 1) THEN k + 1 ELSE k)
    <3> HIDE DEF u
    <3>1. 0 \in Nat /\ 0 < u
      BY <1>2
    <3>2. QED
      BY <1>2, <3>1, Nearest, Zenon
  <2> HIDE DEF u
  <2>7. ~(2 * 0 > u) /\ 2 * 0 # u /\ u * k + 0 = u * k
    BY <1>2
  <2>8. QED
    BY <1>3, <2>5, <2>6, <2>7, Zenon
<1>5. CASE k = t
  <2> DEFINE w == TwoTo[e + 1]
  <2>1. e + 1 \in Nat /\ e + 1 # 0
    OBVIOUS
  <2>2. TwoTo[Precision + (e + 1)] = w * t /\ TwoTo[Precision + (e + 1) - 1] = w * h
    BY <2>1, Powers, Zenon
  <2>3. w = 2 * u
    BY <1>2
  <2> HIDE DEF u, t, h, w
  <2>4. d = w * h /\ d < w * t /\ d \in Nat /\ w \in Nat /\ w > 0
    <3>1. \A x, y \in Nat : x * (2 * y) = (2 * x) * y /\ x * y \in Nat
      OBVIOUS
    <3>2. d = w * h
      BY <1>2, <1>3, <1>5, <2>3, <3>1, Zenon
    <3>3. w \in Nat /\ w > 0 /\ h + 1 <= t
      BY <1>2, <2>3
    <3>4. \A x, y, z \in Nat : y + 1 <= z => x * y + x <= x * z
      OBVIOUS
    <3>5. w * h + w <= w * t /\ w * h \in Nat /\ w * t \in Nat
      BY <1>2, <3>1, <3>3, <3>4
    <3>6. QED
      BY <3>2, <3>3, <3>5
  <2>5. d >= w * h
    BY <2>4
  <2>6. Exponent(d, e + 1)
    BY <2>1, <2>2, <2>4, <2>5, Zenon DEF Exponent
  <2>7. Rounded(d) = ToMultiple(d, w)
    BY <2>1, <2>4, <2>6, RoundedWith, Zenon DEF w
  <2>8. ToMultiple(w * h + 0, w) = w * (IF 2 * 0 > w \/ (2 * 0 = w /\ h % 2 = 1) THEN h + 1 ELSE h)
    <3>1. 0 \in Nat /\ 0 < w /\ w \in Nat /\ h \in Nat
      BY <1>2, <2>4
    <3>2. QED
      BY <3>1, Nearest, Zenon
  <2>9. ~(2 * 0 > w) /\ 2 * 0 # w /\ w * h + 0 = w * h
    BY <1>2, <2>4
  <2>10. QED
    BY <2>4, <2>7, <2>8, <2>9, Zenon
<1>6. QED
  BY <1>4, <1>5

LEMMA RoundedIs == \A m \in Nat : Rounded(m) \in Nat /\ Representable(Rounded(m))
<1>1. SUFFICES ASSUME NEW m \in Nat PROVE Rounded(m) \in Nat /\ Representable(Rounded(m))
  OBVIOUS
<1>2. PICK e \in Nat : Exponent(m, e)
  BY ExponentExists, Zenon
<1> DEFINE u == TwoTo[e]
           t == TwoTo[Precision]
           h == TwoTo[Precision - 1]
           q == m \div u
           r == m % u
           k == IF 2 * r > u \/ (2 * r = u /\ q % 2 = 1) THEN q + 1 ELSE q
<1>3. /\ u \in Nat /\ u > 0 /\ t \in Nat /\ h \in Nat
      /\ TwoTo[Precision + e] = u * t
      /\ e # 0 => TwoTo[Precision + e - 1] = u * h
  BY Powers
<1>4. m < u * t /\ (e = 0 \/ m >= u * h)
  <2> HIDE DEF u, t, h
  <2>1. QED
    BY <1>2, <1>3, Zenon DEF Exponent
<1>5. q \in Nat /\ r \in Nat /\ r < u /\ m = u * q + r
  <2> HIDE DEF u
  <2>1. QED
    BY <1>3
<1>6. Rounded(m) = ToMultiple(u * q + r, u)
  <2>1. Rounded(m) = ToMultiple(m, u)
    BY <1>2, RoundedWith, Zenon
  <2> HIDE DEF u, q, r
  <2>2. QED
    BY <1>5, <2>1, Zenon
<1> HIDE DEF u, t, h, q, r
<1>7. Rounded(m) = u * k
  <2>1. u \in Nat /\ q \in Nat /\ r \in Nat /\ r < u
    BY <1>3, <1>5
  <2>2. ToMultiple(u * q + r, u) = u * k
    BY <2>1, Nearest, Zenon
  <2>3. QED
    BY <1>6, <2>2, Zenon
<1>8. q + 1 <= t
  <2>1. SUFFICES ASSUME q >= t PROVE FALSE
    BY <1>3, <1>5
  <2>2. \A x, y, z \in Nat : y >= z => x * y >= x * z
    OBVIOUS
  <2>3. u * q >= u * t /\ u * q \in Nat /\ u * t \in Nat
    BY <1>3, <1>5, <2>1, <2>2
  <2>4. QED
    BY <1>4, <1>5, <2>3
<1>9. e = 0 \/ q >= h
  <2>1. SUFFICES ASSUME m >= u * h, q + 1 <= h PROVE FALSE
    BY <1>3, <1>4, <1>5
  <2>2. \A x, y, z \in Nat : y + 1 <= z => x * y + x <= x * z
    OBVIOUS
  <2>3. u * q + u <= u * h /\ u * q \in Nat /\ u * h \in Nat
    BY <1>3, <1>5, <2>1, <2>2
  <2>4. QED
    BY <1>3, <1>5, <2>1, <2>3
<1>10. k \in Nat /\ k <= t /\ (e = 0 \/ k >= h)
  BY <1>3, <1>5, <1>8, <1>9
<1> HIDE DEF k
<1>11. u * k \in Nat
  BY <1>3, <1>10
<1>12. Representable(u * k)
  BY <1>10, Zenon DEF Representable, u, t, h
<1>13. QED
  BY <1>7, <1>11, <1>12, Zenon

LEMMA RepresentableZero == Representable(0)
<1>1. 0 \in Nat /\ 0 = TwoTo[0] * 0 /\ 0 <= TwoTo[Precision]
  BY Powers
<1>2. QED
  BY <1>1, Zenon DEF Representable

LEMMA DoubleOf ==
    \A h \in Nat : /\ Double(h) = Rounded(h) /\ Double(-h) = -Rounded(h)
                   /\ Rounded(h) \in Nat /\ Representable(Rounded(h))
<1>1. SUFFICES ASSUME NEW h \in Nat PROVE Double(h) = Rounded(h) /\ Double(-h) = -Rounded(h)
  BY RoundedIs, Zenon
<1>2. ~(h < 0) /\ Magnitude(h) = h
  BY DEF Magnitude
<1>3. Double(h) = Rounded(h)
  BY <1>2, DoubleIs, Zenon
<1>4. CASE h = 0
  <2>1. Rounded(0) = 0
    BY RepresentableZero, RepresentableStays, Zenon
  <2>2. Rounded(h) = 0
    BY <1>4, <2>1
  <2>3. -h = h /\ -Rounded(h) = Rounded(h)
    <3>1. \A z \in Int : 0 <= z /\ z <= 0 => -z = z
      OBVIOUS
    <3>2. h \in Int /\ Rounded(h) \in Int /\ 0 <= h /\ h <= 0 /\ 0 <= Rounded(h) /\ Rounded(h) <= 0
      BY <1>4, <2>2
    <3>3. QED
      BY <3>1, <3>2, Zenon
  <2>4. QED
    BY <1>3, <2>3, Zenon
<1>5. CASE h # 0
  <2>1. -h < 0 /\ Magnitude(-h) = h
    BY <1>5 DEF Magnitude
  <2>2. QED
    BY <1>3, <2>1, DoubleIs, Zenon
<1>6. QED
  BY <1>4, <1>5

-----------------------------------------------------------------------------
(* Tokens.                                                                 *)

Figure == 0 .. 9

\* f has the numbers that the first digits of d say.
Sums(d, f) == f = [k \in 0 .. Len(d) |-> IF k = 0 THEN 0 ELSE f[k - 1] * 10 + d[k]]
Values(d, f) == f[0] = 0 /\ \A k \in 1 .. Len(d) : f[k - 1] \in Nat /\ f[k] = f[k - 1] * 10 + d[k]

LEMMA FiguresAt == \A d \in Seq(Figure) : Len(d) \in Nat /\ \A k \in 1 .. Len(d) : d[k] \in Nat /\ d[k] <= 9
BY DEF Figure

LEMMA SumsExist == \A d \in Seq(Figure) : \E f : Sums(d, f)
<1>1. SUFFICES ASSUME NEW d \in Seq(Figure) PROVE \E f : Sums(d, f)
  OBVIOUS
<1> DEFINE D == 0 .. Len(d)
           r == [k \in Nat |-> k - 1]
           g == [p \in D \X Nat |-> IF p[1] = 0 THEN 0 ELSE p[2] * 10 + d[p[1]]]
<1>2. Len(d) \in Nat /\ \A k \in 1 .. Len(d) : d[k] \in Nat
  BY FiguresAt
<1>3. Descends(D, r)
  BY <1>2, PredecessorsDescend, Zenon
<1>4. g \in [D \X Nat -> Nat] /\ \A k \in D, v \in Nat : k # 0 => g[<<k, v>>] = v * 10 + d[k]
  BY <1>2
<1>5. 0 \in Nat /\ \A k \in D : k # 0 => r[k] = k - 1 /\ k - 1 \in D
  BY <1>2
<1> HIDE DEF r, g, D
<1>6. PICK f \in [D -> Nat] : Computes(D, 0, g, r, f)
  BY <1>3, <1>4, <1>5, RecursionExists, Zenon
<1>7. ASSUME NEW k \in D PROVE f[k] = IF k = 0 THEN 0 ELSE f[k - 1] * 10 + d[k]
  <2>1. k # 0 => f[k - 1] \in Nat
    BY <1>5
  <2>2. k # 0 => g[<<k, f[r[k]]>>] = f[k - 1] * 10 + d[k]
    BY <1>4, <1>5, <2>1, Zenon
  <2>3. QED
    BY <1>6, <2>2, Zenon DEF Computes
<1>8. Sums(d, f)
  BY <1>7 DEF Sums, D
<1>9. QED
  BY <1>8

LEMMA SumsAreValues == \A d \in Seq(Figure) : \A f : Sums(d, f) => Values(d, f) /\ f[Len(d)] \in Nat
<1>1. SUFFICES ASSUME NEW d \in Seq(Figure), NEW f, Sums(d, f) PROVE Values(d, f) /\ f[Len(d)] \in Nat
  OBVIOUS
<1> DEFINE S == {k \in Nat : k <= Len(d) => f[k] \in Nat}
<1>2. Len(d) \in Nat /\ \A k \in 1 .. Len(d) : d[k] \in Nat
  BY FiguresAt
<1>3. \A k \in 0 .. Len(d) : f[k] = IF k = 0 THEN 0 ELSE f[k - 1] * 10 + d[k]
  BY <1>1, Zenon DEF Sums
<1>4. 0 \in 0 .. Len(d) /\ f[0] = 0
  BY <1>2, <1>3
<1>5. 0 \in S
  BY <1>4
<1>6. ASSUME NEW k \in Nat, k \in S PROVE k + 1 \in S
  <2>1. SUFFICES ASSUME k + 1 <= Len(d) PROVE f[k + 1] \in Nat
    OBVIOUS
  <2>2. k + 1 \in 1 .. Len(d) /\ k + 1 \in 0 .. Len(d) /\ k + 1 # 0 /\ k + 1 - 1 = k /\ k <= Len(d)
    BY <1>2, <2>1
  <2>3. f[k + 1] = f[k] * 10 + d[k + 1] /\ f[k] \in Nat /\ d[k + 1] \in Nat
    BY <1>2, <1>3, <1>6, <2>2
  <2>4. QED
    BY <2>3
<1> HIDE DEF S
<1>7. \A k \in Nat : k \in S
  BY <1>5, <1>6, AllNumbers
<1>8. \A k \in Nat : k <= Len(d) => f[k] \in Nat
  BY <1>7 DEF S
<1>9. \A k \in 1 .. Len(d) : f[k - 1] \in Nat /\ f[k] = f[k - 1] * 10 + d[k]
  <2>1. \A k \in 1 .. Len(d) : k # 0 /\ k \in 0 .. Len(d) /\ k - 1 \in Nat /\ k - 1 <= Len(d)
    BY <1>2
  <2>2. QED
    BY <1>3, <1>8, <2>1, Zenon
<1>10. Len(d) <= Len(d)
  BY <1>2
<1>11. QED
  BY <1>2, <1>4, <1>8, <1>9, <1>10, Zenon DEF Values

\* What a token says is the value after its last digit.
LEMMA WrittenIs ==
    \A d \in Seq(Figure) : /\ Written(d) \in Nat
                           /\ \E f : Values(d, f) /\ Written(d) = f[Len(d)]
<1>1. SUFFICES ASSUME NEW d \in Seq(Figure)
               PROVE  Written(d) \in Nat /\ \E f : Values(d, f) /\ Written(d) = f[Len(d)]
  OBVIOUS
<1> DEFINE f == CHOOSE value : Sums(d, value)
<1>2. Written(d) = f[Len(d)]
  BY Zenon DEF Written, Sums
<1>3. Sums(d, f)
  BY SumsExist, Zenon
<1> HIDE DEF f
<1>4. QED
  BY <1>2, <1>3, SumsAreValues, Zenon

LEMMA ValuesAgree ==
    ASSUME NEW d \in Seq(Figure), NEW c \in Seq(Figure), Len(d) <= Len(c), \A k \in 1 .. Len(d) : c[k] = d[k],
           NEW f, NEW e, Values(d, f), Values(c, e)
    PROVE  e[Len(d)] = f[Len(d)]
<1> DEFINE S == {k \in Nat : k <= Len(d) => e[k] = f[k]}
<1>1. Len(d) \in Nat /\ Len(c) \in Nat
  OBVIOUS
<1>2. 0 \in S
  BY DEF Values
<1>3. ASSUME NEW k \in Nat, k \in S PROVE k + 1 \in S
  <2>1. SUFFICES ASSUME k + 1 <= Len(d) PROVE e[k + 1] = f[k + 1]
    OBVIOUS
  <2>2. k + 1 \in 1 .. Len(d) /\ k + 1 \in 1 .. Len(c) /\ k + 1 - 1 = k /\ k <= Len(d)
    BY <1>1, <2>1
  <2>3. e[k] = f[k]
    BY <1>3, <2>2
  <2>4. f[k + 1] = f[k] * 10 + d[k + 1] /\ e[k + 1] = e[k] * 10 + c[k + 1]
    <3>1. /\ \A j \in 1 .. Len(d) : f[j] = f[j - 1] * 10 + d[j]
          /\ \A j \in 1 .. Len(c) : e[j] = e[j - 1] * 10 + c[j]
      BY Zenon DEF Values
    <3>2. f[k + 1] = f[k] * 10 + d[k + 1]
      BY <2>2, <3>1
    <3>3. e[k + 1] = e[k] * 10 + c[k + 1]
      BY <2>2, <3>1
    <3>4. QED
      BY <3>2, <3>3
  <2>5. c[k + 1] = d[k + 1]
    BY <2>2
  <2>6. QED
    BY <2>3, <2>4, <2>5, Zenon
<1> HIDE DEF S
<1>4. \A k \in Nat : k \in S
  BY <1>2, <1>3, AllNumbers
<1>5. QED
  BY <1>1, <1>4 DEF S

LEMMA WrittenAppend ==
    \A d \in Seq(Figure) : \A x \in Figure : /\ Append(d, x) \in Seq(Figure)
                                             /\ Written(Append(d, x)) = Written(d) * 10 + x
<1>1. SUFFICES ASSUME NEW d \in Seq(Figure), NEW x \in Figure
               PROVE  Append(d, x) \in Seq(Figure) /\ Written(Append(d, x)) = Written(d) * 10 + x
  OBVIOUS
<1> DEFINE c == Append(d, x)
           n == Len(d)
<1>2. /\ c \in Seq(Figure) /\ n \in Nat /\ Len(c) = n + 1 /\ c[n + 1] = x
      /\ n <= n + 1 /\ \A k \in 1 .. n : c[k] = d[k]
  OBVIOUS
<1> HIDE DEF c
<1>3. PICK f : Values(d, f) /\ Written(d) = f[n]
  BY WrittenIs, Zenon
<1>4. PICK e : Values(c, e) /\ Written(c) = e[n + 1]
  BY <1>2, WrittenIs
<1>5. e[n] = f[n]
  BY <1>2, <1>3, <1>4, ValuesAgree
<1>6. n + 1 \in 1 .. Len(c) /\ n + 1 - 1 = n
  BY <1>2
<1>7. e[n + 1] = e[n] * 10 + x
  <2>1. \A k \in 1 .. Len(c) : e[k] = e[k - 1] * 10 + c[k]
    BY <1>4, Zenon DEF Values
  <2>2. e[n + 1] = e[n] * 10 + c[n + 1]
    BY <1>6, <2>1
  <2>3. c[n + 1] = x
    BY <1>2
  <2>4. QED
    BY <2>2, <2>3, Zenon
<1>8. QED
  BY <1>2, <1>3, <1>4, <1>5, <1>7, Zenon DEF c

\* The digits of a number say that number.
LEMMA DigitsIs == \A n \in Nat : Digits[n] \in Seq(Figure) /\ Written(Digits[n]) = n
<1> DEFINE r == [n \in Nat |-> n \div 10]
           V == Seq(Figure)
           g == [p \in Nat \X V |-> IF p[1] < 10 THEN <<p[1]>> ELSE Append(p[2], p[1] % 10)]
           Spelt(f) == f = [n \in Nat |-> IF n < 10 THEN <<n>> ELSE Append(f[n \div 10], n % 10)]
<1>1. Descends(Nat, r)
  BY DEF Descends
<1>2. \A n \in Nat : n \div 10 \in Nat /\ n % 10 \in Figure
  BY DEF Figure
<1>3. g \in [Nat \X V -> V]
  <2>1. \A n \in Nat : n < 10 => <<n>> \in V
    BY DEF Figure
  <2>2. \A n \in Nat : \A q \in V : Append(q, n % 10) \in V
    BY <1>2
  <2> HIDE DEF V
  <2>3. QED
    BY <2>1, <2>2
<1>4. \A n \in Nat : \A q \in V : g[<<n, q>>] = IF n < 10 THEN <<n>> ELSE Append(q, n % 10)
  <2> HIDE DEF V
  <2> QED OBVIOUS
<1>5. \A n \in Nat : r[n] = n \div 10
  OBVIOUS
<1>6. <<0>> \in V
  BY DEF Figure
<1> HIDE DEF r, g, V
<1>7. PICK f \in [Nat -> V] : Computes(Nat, <<0>>, g, r, f)
  BY <1>1, <1>3, <1>6, RecursionExists, Zenon
<1>8. ASSUME NEW n \in Nat PROVE f[n] = IF n < 10 THEN <<n>> ELSE Append(f[n \div 10], n % 10)
  <2>1. f[n \div 10] \in V
    BY <1>2
  <2>2. g[<<n, f[r[n]]>>] = IF n < 10 THEN <<n>> ELSE Append(f[n \div 10], n % 10)
    BY <1>4, <1>5, <2>1, Zenon
  <2>3. n = 0 => n < 10
    OBVIOUS
  <2>4. QED
    BY <1>7, <2>2, <2>3, Zenon DEF Computes
<1>9. \E h : Spelt(h)
  <2>1. f = [n \in Nat |-> IF n < 10 THEN <<n>> ELSE Append(f[n \div 10], n % 10)]
    BY <1>8
  <2>2. QED
    BY <2>1
<1>10. Digits = [n \in Nat |-> IF n < 10 THEN <<n>> ELSE Append(Digits[n \div 10], n % 10)]
  <2>1. Digits = CHOOSE h : Spelt(h)
    BY Zenon DEF Digits
  <2> HIDE DEF Spelt
  <2>2. Spelt(Digits)
    BY <1>9, <2>1, Zenon
  <2>3. QED
    BY <2>2, Zenon DEF Spelt
<1>11. \A n \in Nat : Digits[n] = IF n < 10 THEN <<n>> ELSE Append(Digits[n \div 10], n % 10)
  BY <1>10, Zenon
<1> DEFINE Says(n) == Digits[n] \in Seq(Figure) /\ Written(Digits[n]) = n
           S == {n \in Nat : ~Says(n)}
<1>12. SUFFICES ASSUME S # {} PROVE FALSE
  OBVIOUS
<1>13. PICK m \in S : \A n \in S : m <= n
  <2>1. S \subseteq Nat
    OBVIOUS
  <2> HIDE DEF S
  <2> QED BY <1>12, <2>1, Minimum
<1>14. m \in Nat /\ ~Says(m)
  BY <1>13
<1>15. CASE m < 10
  <2>1. Digits[m] = Append(<<>>, m)
    <3>1. Digits[m] = <<m>>
      BY <1>11, <1>14, <1>15, Zenon
    <3>2. <<m>> = Append(<<>>, m)
      OBVIOUS
    <3>3. QED
      BY <3>1, <3>2, Zenon
  <2>2. <<>> \in Seq(Figure) /\ m \in Figure
    BY <1>14, <1>15 DEF Figure
  <2>3. Written(<<>>) = 0
    <3>1. PICK e : Values(<<>>, e) /\ Written(<<>>) = e[Len(<<>>)]
      BY <2>2, WrittenIs
    <3>2. Len(<<>>) = 0
      OBVIOUS
    <3>3. e[0] = 0
      BY <3>1, Zenon DEF Values
    <3>4. QED
      BY <3>1, <3>2, <3>3
  <2>4. Written(Digits[m]) = 0 * 10 + m /\ Digits[m] \in Seq(Figure)
    BY <2>1, <2>2, <2>3, WrittenAppend
  <2>5. QED
    BY <1>14, <2>4
<1>16. CASE ~(m < 10)
  <2> DEFINE q == m \div 10
             x == m % 10
  <2>1. q \in Nat /\ q < m /\ x \in Figure /\ m = q * 10 + x
    BY <1>14, <1>16 DEF Figure
  <2>2. Digits[m] = Append(Digits[q], x)
    BY <1>11, <1>14, <1>16, Zenon
  <2> HIDE DEF q, x
  <2>3. q \notin S
    BY <1>13, <1>14, <2>1
  <2>4. Digits[q] \in Seq(Figure) /\ Written(Digits[q]) = q
    BY <2>1, <2>3
  <2>5. Digits[m] \in Seq(Figure) /\ Written(Digits[m]) = q * 10 + x
    BY <2>1, <2>2, <2>4, WrittenAppend, Zenon
  <2>6. QED
    BY <1>14, <2>1, <2>5, Zenon
<1>17. QED
  BY <1>15, <1>16

\* v is the number w that the digits so far say, or stands for one that is too large.
FollowsFrom(v, w, max) == v = w \/ (v = TooLarge /\ w >= 10 * (max \div 10))

\* What it stands for after one more digit x.
Accumulates(v, w, x, max) ==
    /\ FollowsFrom(Accumulate(v, x, FALSE, max), w * 10 + x, max)
    /\ Accumulate(v, x, TRUE, max) = IF w * 10 + x <= max THEN w * 10 + x ELSE TooLarge
    /\ Accumulate(v, x, FALSE, max) \in Int

LEMMA AccumulateIs ==
    \A v, w, x, max \in Int : w >= 0 /\ 0 <= x /\ x <= 9 /\ max >= 10 /\ FollowsFrom(v, w, max) =>
        Accumulates(v, w, x, max)
<1>1. SUFFICES ASSUME NEW v \in Int, NEW w \in Int, NEW x \in Int, NEW max \in Int, w >= 0, 0 <= x, x <= 9,
                      max >= 10, FollowsFrom(v, w, max)
               PROVE  Accumulates(v, w, x, max)
  BY Zenon
<1> DEFINE q == max \div 10
           y == max % 10
<1>2. q \in Int /\ q >= 1 /\ y \in Int /\ 0 <= y /\ y <= 9 /\ max = 10 * q + y
  BY <1>1
<1>3. v = w \/ (v = TooLarge /\ w >= 10 * q)
  BY <1>1 DEF FollowsFrom
<1>4. /\ Accumulate(v, x, FALSE, max) = IF v = TooLarge \/ v > q \/ v = q THEN TooLarge ELSE v * 10 + x
      /\ Accumulate(v, x, TRUE, max) = IF v = TooLarge \/ v > q \/ (v = q /\ x > y) THEN TooLarge ELSE v * 10 + x
  BY DEF Accumulate
<1>5. FollowsFrom(Accumulate(v, x, FALSE, max), w * 10 + x, max)
      <=> \/ Accumulate(v, x, FALSE, max) = w * 10 + x
          \/ Accumulate(v, x, FALSE, max) = TooLarge /\ w * 10 + x >= 10 * q
  BY DEF FollowsFrom
<1> HIDE DEF q, y
<1>6. CASE v = TooLarge
  <2>1. w >= 10 * q
    BY <1>1, <1>3, <1>6 DEF TooLarge
  <2>2. w * 10 + x >= 10 * q /\ ~(w * 10 + x <= max)
    BY <1>1, <1>2, <2>1
  <2>3. TooLarge \in Int
    BY DEF TooLarge
  <2>4. Accumulate(v, x, FALSE, max) = TooLarge /\ Accumulate(v, x, TRUE, max) = TooLarge
    BY <1>4, <1>6, Zenon
  <2>5. QED
    BY <1>5, <2>2, <2>3, <2>4, Zenon DEF Accumulates
<1>7. CASE v # TooLarge
  <2>1. v = w
    BY <1>3, <1>7
  <2>2. TooLarge \in Int /\ w * 10 + x \in Int
    BY <1>1 DEF TooLarge
  <2>3. w >= q => w * 10 + x >= 10 * q
    BY <1>1, <1>2
  <2>4. w > q \/ (w = q /\ x > y) <=> ~(w * 10 + x <= max)
    BY <1>1, <1>2
  <2>5. w > q \/ w = q <=> w >= q
    BY <1>2
  <2>6. QED
    BY <1>4, <1>5, <1>7, <2>1, <2>2, <2>3, <2>4, <2>5, Zenon DEF Accumulates
<1>8. QED
  BY <1>6, <1>7

Steps(d, max, f) ==
    f = [k \in 0 .. Len(d) |-> IF k = 0 THEN 0 ELSE Accumulate(f[k - 1], d[k], k = Len(d), max)]

LEMMA StepsExist == \A d \in Seq(Figure), max \in Nat : \E f : Steps(d, max, f)
<1>1. SUFFICES ASSUME NEW d \in Seq(Figure), NEW max \in Nat PROVE \E f : Steps(d, max, f)
  OBVIOUS
<1> DEFINE D == 0 .. Len(d)
           r == [k \in Nat |-> k - 1]
           one(p) == IF p[1] = 0 THEN 0 ELSE Accumulate(p[2], d[p[1]], p[1] = Len(d), max)
           g == [p \in D \X Int |-> one(p)]
<1>2. Len(d) \in Nat /\ \A k \in 1 .. Len(d) : d[k] \in Nat
  BY FiguresAt
<1>3. Descends(D, r)
  BY <1>2, PredecessorsDescend, Zenon
<1>4. g \in [D \X Int -> Int]
  <2>1. \A k \in D : \A v \in Int : k # 0 => Accumulate(v, d[k], k = Len(d), max) \in Int
    <3>1. \A v, x \in Int : \A final : Accumulate(v, x, final, max) \in Int
      BY DEF Accumulate, TooLarge
    <3>2. \A k \in D : k # 0 => d[k] \in Int
      BY <1>2
    <3> HIDE DEF D
    <3>3. QED
      BY <3>1, <3>2, Zenon
  <2> HIDE DEF D
  <2>2. ASSUME NEW p \in D \X Int PROVE one(p) \in Int
    <3>1. p[1] \in D /\ p[2] \in Int /\ 0 \in Int
      OBVIOUS
    <3>2. QED
      BY <2>1, <3>1, Zenon
  <2> HIDE DEF one
  <2>3. QED
    BY <2>2
<1>5. \A k \in D, v \in Int : k # 0 => g[<<k, v>>] = Accumulate(v, d[k], k = Len(d), max)
  <2> HIDE DEF D
  <2>1. ASSUME NEW k \in D, NEW v \in Int, k # 0
        PROVE  one(<<k, v>>) = Accumulate(v, d[k], k = Len(d), max)
    <3>1. <<k, v>>[1] = k /\ <<k, v>>[2] = v
      OBVIOUS
    <3>2. QED
      BY <2>1, <3>1, Zenon
  <2> HIDE DEF one
  <2>2. \A k \in D, v \in Int : g[<<k, v>>] = one(<<k, v>>)
    OBVIOUS
  <2>3. QED
    BY <2>1, <2>2, Zenon
<1>6. 0 \in Int /\ \A k \in D : k # 0 => r[k] = k - 1 /\ k - 1 \in D
  BY <1>2
<1> HIDE DEF r, g, D, one
<1>7. PICK f \in [D -> Int] : Computes(D, 0, g, r, f)
  BY <1>3, <1>4, <1>6, RecursionExists, Zenon
<1>8. ASSUME NEW k \in D
      PROVE  f[k] = IF k = 0 THEN 0 ELSE Accumulate(f[k - 1], d[k], k = Len(d), max)
  <2>1. k # 0 => f[k - 1] \in Int
    BY <1>6
  <2>2. k # 0 => g[<<k, f[r[k]]>>] = Accumulate(f[k - 1], d[k], k = Len(d), max)
    <3>1. SUFFICES ASSUME k # 0
                   PROVE  g[<<k, f[r[k]]>>] = Accumulate(f[k - 1], d[k], k = Len(d), max)
      BY Zenon
    <3>2. r[k] = k - 1
      BY <1>6, <3>1, Zenon
    <3>3. g[<<k, f[k - 1]>>] = Accumulate(f[k - 1], d[k], k = Len(d), max)
      BY <1>5, <2>1, <3>1, Zenon
    <3>4. QED
      BY <3>2, <3>3, Zenon
  <2>3. QED
    BY <1>7, <2>2, Zenon DEF Computes
<1>9. Steps(d, max, f)
  BY <1>8 DEF Steps, D
<1>10. QED
  BY <1>9

\* The number that the digits say, when it is within max.
LEMMA AccumulatedIs ==
    \A d \in Seq(Figure), max \in Nat : max >= 10 =>
        Accumulated(d, max) = IF Written(d) <= max THEN Written(d) ELSE TooLarge
<1>1. SUFFICES ASSUME NEW d \in Seq(Figure), NEW max \in Nat, max >= 10
               PROVE  Accumulated(d, max) = IF Written(d) <= max THEN Written(d) ELSE TooLarge
  OBVIOUS
<1> DEFINE f == CHOOSE value : Steps(d, max, value)
<1>2. Accumulated(d, max) = f[Len(d)]
  BY Zenon DEF Accumulated, Steps
<1>3. Steps(d, max, f)
  BY StepsExist, Zenon
<1> HIDE DEF f
<1>4. \A k \in 0 .. Len(d) : f[k] = IF k = 0 THEN 0 ELSE Accumulate(f[k - 1], d[k], k = Len(d), max)
  BY <1>3, Zenon DEF Steps
<1>5. PICK e : Values(d, e) /\ Written(d) = e[Len(d)]
  BY WrittenIs, Zenon
<1>6. e[0] = 0 /\ \A k \in 1 .. Len(d) : e[k - 1] \in Nat /\ e[k] = e[k - 1] * 10 + d[k]
  BY <1>5, Zenon DEF Values
<1>7. Len(d) \in Nat /\ \A k \in 1 .. Len(d) : d[k] \in Nat /\ d[k] <= 9
  BY FiguresAt
<1>8. f[0] = 0
  <2>1. 0 \in 0 .. Len(d)
    BY <1>7
  <2>2. QED
    BY <1>4, <2>1
<1> DEFINE S == {k \in Nat : k < Len(d) => f[k] \in Int /\ FollowsFrom(f[k], e[k], max)}
<1>9. 0 \in S
  <2>1. f[0] \in Int
    BY <1>8
  <2>2. f[0] = e[0]
    BY <1>6, <1>8, Zenon
  <2>3. FollowsFrom(f[0], e[0], max)
    BY <2>2, Zenon DEF FollowsFrom
  <2>4. QED
    BY <2>1, <2>3
<1>10. ASSUME NEW k \in Nat, k < Len(d), f[k] \in Int, FollowsFrom(f[k], e[k], max)
       PROVE  /\ e[k + 1] = e[k] * 10 + d[k + 1] /\ e[k] \in Nat /\ d[k + 1] \in Nat
              /\ k + 1 < Len(d) => f[k + 1] \in Int /\ FollowsFrom(f[k + 1], e[k + 1], max)
              /\ k + 1 = Len(d) => f[k + 1] = IF e[k + 1] <= max THEN e[k + 1] ELSE TooLarge
  <2>1. k + 1 \in 1 .. Len(d) /\ k + 1 \in 0 .. Len(d) /\ k + 1 # 0 /\ k + 1 - 1 = k
    BY <1>7, <1>10
  <2>2. e[k + 1] = e[k] * 10 + d[k + 1] /\ e[k] \in Nat
    BY <1>6, <2>1
  <2>3. d[k + 1] \in Nat /\ d[k + 1] <= 9
    BY <1>7, <2>1
  <2>4. f[k + 1] = Accumulate(f[k], d[k + 1], k + 1 = Len(d), max)
    BY <1>4, <2>1
  <2> DEFINE v == f[k]
             w == e[k]
             x == d[k + 1]
  <2>5. v \in Int /\ w \in Int /\ x \in Int /\ max \in Int /\ w >= 0 /\ 0 <= x /\ x <= 9 /\ max >= 10
        /\ FollowsFrom(v, w, max)
    <3>1. v \in Int /\ FollowsFrom(v, w, max)
      BY <1>10
    <3>2. w \in Nat /\ x \in Nat /\ x <= 9
      BY <2>2, <2>3
    <3> HIDE DEF v, w, x
    <3>3. QED
      BY <1>1, <3>1, <3>2
  <2>6. e[k + 1] = w * 10 + x
    BY <2>2
  <2>7. f[k + 1] = Accumulate(v, x, k + 1 = Len(d), max)
    BY <2>4
  <2> HIDE DEF v, w, x
  <2>8. /\ FollowsFrom(Accumulate(v, x, FALSE, max), w * 10 + x, max)
        /\ Accumulate(v, x, TRUE, max) = IF w * 10 + x <= max THEN w * 10 + x ELSE TooLarge
        /\ Accumulate(v, x, FALSE, max) \in Int
    BY <2>5, AccumulateIs, Zenon DEF Accumulates
  <2>9. ASSUME k + 1 < Len(d) PROVE f[k + 1] \in Int /\ FollowsFrom(f[k + 1], e[k + 1], max)
    <3>1. (k + 1 = Len(d)) = FALSE
      BY <1>7, <2>9
    <3>2. f[k + 1] = Accumulate(v, x, FALSE, max)
      BY <2>7, <3>1, Zenon
    <3>3. QED
      BY <2>6, <2>8, <3>2, Zenon
  <2>10. ASSUME k + 1 = Len(d) PROVE f[k + 1] = IF e[k + 1] <= max THEN e[k + 1] ELSE TooLarge
    <3>1. (k + 1 = Len(d)) = TRUE
      BY <2>10
    <3>2. f[k + 1] = Accumulate(v, x, TRUE, max)
      BY <2>7, <3>1, Zenon
    <3>3. QED
      BY <2>6, <2>8, <3>2, Zenon
  <2>11. QED
    BY <2>2, <2>3, <2>9, <2>10, Zenon
<1>11. ASSUME NEW k \in Nat, k \in S PROVE k + 1 \in S
  <2>1. SUFFICES ASSUME k + 1 < Len(d) PROVE f[k + 1] \in Int /\ FollowsFrom(f[k + 1], e[k + 1], max)
    OBVIOUS
  <2>2. k < Len(d)
    BY <1>7, <2>1
  <2>3. f[k] \in Int /\ FollowsFrom(f[k], e[k], max)
    BY <1>11, <2>2
  <2>4. QED
    BY <1>10, <2>1, <2>2, <2>3, Zenon
<1> HIDE DEF S
<1>12. \A k \in Nat : k \in S
  BY <1>9, <1>11, AllNumbers
<1>13. CASE Len(d) = 0
  <2>1. f[Len(d)] = 0 /\ Written(d) = 0
    BY <1>5, <1>6, <1>8, <1>13, Zenon
  <2>2. 0 <= max
    BY <1>1
  <2>3. QED
    BY <1>2, <2>1, <2>2, Zenon
<1>14. CASE Len(d) # 0
  <2> DEFINE k == Len(d) - 1
  <2>1. k \in Nat /\ k < Len(d) /\ k + 1 = Len(d)
    BY <1>7, <1>14
  <2> HIDE DEF k
  <2>2. f[k] \in Int /\ FollowsFrom(f[k], e[k], max)
    BY <1>12, <2>1, Zenon DEF S
  <2>3. f[k + 1] = IF e[k + 1] <= max THEN e[k + 1] ELSE TooLarge
    BY <1>10, <2>1, <2>2, Zenon
  <2>4. QED
    BY <1>2, <1>5, <2>1, <2>3, Zenon
<1>15. QED
  BY <1>13, <1>14

-----------------------------------------------------------------------------
(* The number of a token.                                                  *)

LEMMA Limits ==
    /\ maxInt \in Nat /\ minInt = -maxInt - 1 /\ maxUInt = 2 * maxInt + 1
    /\ maxLargestInt \in Nat /\ minLargestInt = -maxLargestInt - 1 /\ maxLargestUInt = 2 * maxLargestInt + 1
    /\ maxUInt <= maxLargestInt /\ maxLargestInt >= 15
<1>1. /\ IntBits - 1 \in Nat /\ IntBits - 1 + 1 = IntBits /\ IntBits \in Nat
      /\ LargestBits - 1 \in Nat /\ LargestBits - 1 + 1 = LargestBits
      /\ 4 <= LargestBits - 1 /\ IntBits <= LargestBits - 1
  BY Widths
<1> DEFINE i == TwoTo[IntBits - 1]
           l == TwoTo[LargestBits - 1]
<1>2. TwoTo[IntBits] = 2 * i /\ TwoTo[LargestBits] = 2 * l /\ i \in Nat /\ l \in Nat /\ i > 0 /\ TwoTo[IntBits] <= l
  <2>1. TwoTo[IntBits] = 2 * i /\ TwoTo[LargestBits] = 2 * l
    BY <1>1, TwoToIs
  <2>2. i \in Nat /\ l \in Nat /\ i > IntBits - 1
    BY <1>1, TwoToExceeds, Zenon
  <2>3. TwoTo[IntBits] <= l
    BY <1>1, TwoToGrows, Zenon
  <2> HIDE DEF i, l
  <2>4. QED
    BY <1>1, <2>1, <2>2, <2>3
<1>3. l >= 16
  <2>1. TwoTo[0 + 1] = 2 * TwoTo[0] /\ TwoTo[1 + 1] = 2 * TwoTo[1] /\ TwoTo[2 + 1] = 2 * TwoTo[2]
        /\ TwoTo[3 + 1] = 2 * TwoTo[3] /\ TwoTo[0] = 1
    BY TwoToIs
  <2>2. TwoTo[4] = 16
    BY <2>1
  <2>3. TwoTo[4] <= l
    BY <1>1, TwoToGrows
  <2> HIDE DEF l
  <2>4. QED
    BY <2>2, <2>3
<1>4. /\ maxInt = i - 1 /\ maxUInt = TwoTo[IntBits] - 1
      /\ maxLargestInt = l - 1 /\ maxLargestUInt = TwoTo[LargestBits] - 1
  BY DEF maxInt, maxUInt, maxLargestInt, maxLargestUInt
<1>5. minInt = -maxInt - 1 /\ minLargestInt = -maxLargestInt - 1
  BY DEF minInt, minLargestInt
<1> HIDE DEF i, l
<1>6. QED
  BY <1>2, <1>3, <1>4, <1>5

Half(frac) == IF frac = "half" THEN 1 ELSE 0
Signed(neg, n) == IF neg THEN -n ELSE n
Limit(neg) == IF neg THEN maxLargestInt + 1 ELSE maxLargestUInt

\* The value of the token that says w, where an int goes up to largest.
NumberOf(largest, neg, w, frac) ==
    IF frac # "none" \/ w > Limit(neg) THEN Real_(Signed(neg, Rounded(2 * w + Half(frac))))
    ELSE IF neg THEN Int_(-w) ELSE IF w <= largest THEN Int_(w) ELSE UInt_(w)

LEMMA DecodedNumbers ==
    \A frac : \A neg \in BOOLEAN, d \in Seq(Figure) :
        /\ Written(d) \in Nat
        /\ DecodeNumber(neg, d, frac) = NumberOf(maxInt, neg, Written(d), frac)
        /\ CharDecodeNumber(neg, d, frac) = NumberOf(maxLargestInt, neg, Written(d), frac)
<1>1. SUFFICES ASSUME NEW neg \in BOOLEAN, NEW d \in Seq(Figure), NEW frac
               PROVE  /\ Written(d) \in Nat
                      /\ DecodeNumber(neg, d, frac) = NumberOf(maxInt, neg, Written(d), frac)
                      /\ CharDecodeNumber(neg, d, frac) = NumberOf(maxLargestInt, neg, Written(d), frac)
  OBVIOUS
<1> DEFINE w == Written(d)
           n == Accumulated(d, Limit(neg))
<1>2. w \in Nat
  BY WrittenIs
<1>3. Limit(neg) \in Nat /\ Limit(neg) >= 10
  BY Limits DEF Limit
<1>4. n = IF w <= Limit(neg) THEN w ELSE TooLarge
  BY <1>3, AccumulatedIs, Zenon
<1>5. DecodeDouble(neg, d, frac) = Real_(Signed(neg, Rounded(2 * w + Half(frac))))
  <2>1. 2 * w + Half(frac) \in Nat
    <3> HIDE DEF w
    <3> QED BY <1>2 DEF Half
  <2>2. Double(2 * w + Half(frac)) = Rounded(2 * w + Half(frac))
    BY <2>1, DoubleOf, Zenon
  <2>3. QED
    BY <2>2, Zenon DEF DecodeDouble, Signed, Half
<1>6. -minLargestInt = maxLargestInt + 1
  BY Limits
<1>7. /\ n = Accumulated(d, IF neg THEN maxLargestInt + 1 ELSE maxLargestUInt)
      /\ n = Accumulated(d, IF neg THEN -minLargestInt ELSE maxLargestUInt)
  BY <1>6, Zenon DEF Limit
<1>8. /\ DecodeNumber(neg, d, frac) =
             IF n = TooLarge \/ frac # "none" THEN DecodeDouble(neg, d, frac)
             ELSE IF neg THEN Int_(-n) ELSE IF n <= maxInt THEN Int_(n) ELSE UInt_(n)
      /\ CharDecodeNumber(neg, d, frac) =
             IF n = TooLarge \/ frac # "none" THEN DecodeDouble(neg, d, frac)
             ELSE IF neg THEN Int_(-((n \div 10) * 10 + (n % 10)))
             ELSE IF n <= maxLargestInt THEN Int_(n) ELSE UInt_(n)
  <2> HIDE DEF n
  <2> QED BY <1>7, Zenon DEF DecodeNumber, CharDecodeNumber
<1> HIDE DEF n, w
<1>9. w > Limit(neg) <=> ~(w <= Limit(neg))
  BY <1>2, <1>3
<1>10. w # TooLarge
  BY <1>2 DEF TooLarge
<1>11. (w \div 10) * 10 + (w % 10) = w
  BY <1>2
<1>12. CASE frac # "none" \/ w > Limit(neg)
  <2>1. n = TooLarge \/ frac # "none"
    BY <1>4, <1>9, <1>12, Zenon
  <2>2. DecodeNumber(neg, d, frac) = DecodeDouble(neg, d, frac)
        /\ CharDecodeNumber(neg, d, frac) = DecodeDouble(neg, d, frac)
    BY <1>8, <2>1, Zenon
  <2>3. QED
    BY <1>2, <1>5, <1>12, <2>2, Zenon DEF NumberOf, w
<1>13. CASE ~(frac # "none" \/ w > Limit(neg))
  <2>1. n = w /\ ~(n = TooLarge \/ frac # "none")
    BY <1>4, <1>9, <1>10, <1>13, Zenon
  <2>2. /\ DecodeNumber(neg, d, frac) = IF neg THEN Int_(-w) ELSE IF w <= maxInt THEN Int_(w) ELSE UInt_(w)
        /\ CharDecodeNumber(neg, d, frac) =
               IF neg THEN Int_(-w) ELSE IF w <= maxLargestInt THEN Int_(w) ELSE UInt_(w)
    BY <1>8, <1>11, <2>1, Zenon
  <2>3. QED
    BY <1>2, <1>13, <2>2, Zenon DEF NumberOf, w
<1>14. QED
  BY <1>12, <1>13

Fractions == {"none", "zero", "half"}

\* What is written of v is the token of v.
Returns(largest, v) ==
    /\ NumberText(v)[1] \in BOOLEAN /\ NumberText(v)[2] \in Seq(Figure)
    /\ NumberOf(largest, NumberText(v)[1], Written(NumberText(v)[2]), NumberText(v)[3]) = v

LEMMA MagnitudeIs == \A n \in Int : /\ Magnitude(n) \in Nat /\ (n < 0) \in BOOLEAN
                                    /\ n < 0 => Magnitude(n) = -n /\ -Magnitude(n) = n
                                    /\ ~(n < 0) => Magnitude(n) = n
BY DEF Magnitude

LEMMA TextOf ==
    \A t, neg, d, f : t = <<neg, d, f>> => t[1] = neg /\ t[2] = d /\ t[3] = f
OBVIOUS

LEMMA HalvesOf == \A n \in Nat : n \div 2 \in Nat /\ n % 2 \in {0, 1} /\ n = 2 * (n \div 2) + (n % 2)
OBVIOUS

LEMMA TextWhole ==
    \A n \in Int : \A v \in {Int_(n), UInt_(n)} :
        /\ NumberText(v)[1] = (n < 0) /\ NumberText(v)[2] \in Seq(Figure)
        /\ Written(NumberText(v)[2]) = Magnitude(n) /\ NumberText(v)[3] = "none"
<1>1. SUFFICES ASSUME NEW n \in Int, NEW v \in {Int_(n), UInt_(n)}
               PROVE  /\ NumberText(v)[1] = (n < 0) /\ NumberText(v)[2] \in Seq(Figure)
                      /\ Written(NumberText(v)[2]) = Magnitude(n) /\ NumberText(v)[3] = "none"
  OBVIOUS
<1>2. v.type # "real" /\ v.num = n
  BY <1>1 DEF Int_, UInt_
<1>3. NumberText(v) = <<n < 0, Digits[Magnitude(n)], "none">>
  <2>1. NumberText(v) = <<v.num < 0, Digits[Magnitude(v.num)], "none">>
    BY <1>2, Zenon DEF NumberText
  <2>2. QED
    BY <1>2, <2>1, Zenon
<1>4. NumberText(v)[1] = (n < 0) /\ NumberText(v)[2] = Digits[Magnitude(n)] /\ NumberText(v)[3] = "none"
  BY <1>3, TextOf, Zenon
<1>5. QED
  BY <1>4, MagnitudeIs, DigitsIs, Zenon

LEMMA WholeReturns ==
    \A largest, n \in Int : largest >= 0 =>
        /\ minLargestInt <= n /\ n <= largest /\ largest <= maxLargestUInt => Returns(largest, Int_(n))
        /\ largest < n /\ n <= maxLargestUInt => Returns(largest, UInt_(n))
<1>1. SUFFICES ASSUME NEW largest \in Int, NEW n \in Int, largest >= 0
               PROVE  /\ minLargestInt <= n /\ n <= largest /\ largest <= maxLargestUInt =>
                             Returns(largest, Int_(n))
                      /\ largest < n /\ n <= maxLargestUInt => Returns(largest, UInt_(n))
  OBVIOUS
<1> DEFINE w == Magnitude(n)
<1>2. w \in Nat /\ (n < 0) \in BOOLEAN /\ (n < 0 => w = -n /\ -w = n) /\ (~(n < 0) => w = n)
  BY MagnitudeIs, Zenon
<1>3. \A v \in {Int_(n), UInt_(n)} :
          Returns(largest, v) <=> NumberOf(largest, n < 0, w, "none") = v
  BY <1>2, TextWhole, Zenon DEF Returns
<1>4. NumberOf(largest, n < 0, w, "none") =
          IF w > Limit(n < 0) THEN Real_(Signed(n < 0, Rounded(2 * w + Half("none"))))
          ELSE IF n < 0 THEN Int_(-w) ELSE IF w <= largest THEN Int_(w) ELSE UInt_(w)
  BY Zenon DEF NumberOf
<1>5. maxLargestInt \in Nat /\ minLargestInt = -maxLargestInt - 1 /\ maxLargestUInt \in Int
  BY Limits
<1>6. Limit(n < 0) = IF n < 0 THEN maxLargestInt + 1 ELSE maxLargestUInt
  BY Zenon DEF Limit
<1> HIDE DEF w
<1>7. ASSUME minLargestInt <= n, n <= largest, largest <= maxLargestUInt PROVE Returns(largest, Int_(n))
  <2>1. CASE n < 0
    <3>1. w <= maxLargestInt + 1
      BY <1>2, <1>5, <1>7, <2>1
    <3>2. ~(w > Limit(n < 0))
      BY <1>2, <1>5, <1>6, <2>1, <3>1
    <3>3. QED
      BY <1>2, <1>3, <1>4, <2>1, <3>2, Zenon
  <2>2. CASE ~(n < 0)
    <3>1. w <= maxLargestUInt /\ w <= largest
      BY <1>2, <1>5, <1>7, <2>2
    <3>2. ~(w > Limit(n < 0))
      BY <1>2, <1>5, <1>6, <2>2, <3>1
    <3>3. QED
      BY <1>2, <1>3, <1>4, <2>2, <3>1, <3>2, Zenon
  <2>3. QED
    BY <2>1, <2>2
<1>8. ASSUME largest < n, n <= maxLargestUInt PROVE Returns(largest, UInt_(n))
  <2>1. ~(n < 0) /\ w = n
    BY <1>1, <1>2, <1>8
  <2>2. ~(w > Limit(n < 0)) /\ ~(w <= largest)
    BY <1>5, <1>6, <1>8, <2>1
  <2>3. QED
    BY <1>3, <1>4, <2>1, <2>2, Zenon
<1>9. QED
  BY <1>7, <1>8, Zenon

LEMMA RealReturns ==
    \A largest, neg, n : n \in Nat /\ Representable(n) => Returns(largest, Real_(Signed(neg, n)))
<1>1. SUFFICES ASSUME NEW largest, NEW neg, NEW n \in Nat, Representable(n)
               PROVE  Returns(largest, Real_(Signed(neg, n)))
  OBVIOUS
<1> DEFINE h == Signed(neg, n)
           v == Real_(h)
           w == n \div 2
           part == IF IsIntegral(h) THEN "zero" ELSE "half"
<1>2. h \in Int /\ Magnitude(h) = n /\ Signed(h < 0, n) = h
  BY DEF Signed, Magnitude
<1>3. IsIntegral(h) <=> n % 2 = 0
  BY DEF Signed, IsIntegral
<1>4. v.type = "real" /\ v.num = h
  BY DEF Real_
<1> HIDE DEF h
<1> DEFINE b == n % 2
<1>5. w \in Nat /\ b \in {0, 1} /\ n = 2 * w + b
  BY HalvesOf, Zenon
<1> HIDE DEF w
<1>6. part # "none" /\ 2 * w + Half(part) = n
  <2>1. CASE b = 0
    <3>1. part = "zero"
      BY <1>3, <2>1, Zenon
    <3> HIDE DEF part, b
    <3>2. part # "none" /\ Half(part) = 0
      BY <3>1 DEF Half
    <3>3. QED
      BY <1>5, <2>1, <3>2
  <2>2. CASE b # 0
    <3>1. part = "half"
      BY <1>3, <2>2, Zenon
    <3> HIDE DEF part, b
    <3>2. part # "none" /\ Half(part) = 1
      BY <3>1 DEF Half
    <3>3. QED
      BY <1>5, <2>2, <3>2
  <2>3. QED
    BY <2>1, <2>2
<1> HIDE DEF v, part, b
<1>7. NumberText(v) = <<h < 0, Digits[w], part>>
  <2>1. NumberText(v) = <<v.num < 0, Digits[Magnitude(v.num) \div 2], IF IsIntegral(v.num) THEN "zero" ELSE "half">>
    BY <1>4, Zenon DEF NumberText
  <2>2. QED
    BY <1>2, <1>4, <2>1, Zenon DEF w, part
<1>9. NumberText(v)[1] = (h < 0) /\ NumberText(v)[2] = Digits[w] /\ NumberText(v)[3] = part
  BY <1>7, TextOf, Zenon
<1>10. Digits[w] \in Seq(Figure) /\ Written(Digits[w]) = w
  BY <1>5, DigitsIs
<1>11. NumberOf(largest, h < 0, w, part) = Real_(Signed(h < 0, Rounded(n)))
  BY <1>6, Zenon DEF NumberOf
<1>12. Rounded(n) = n
  BY <1>1, RepresentableStays, Zenon
<1>13. (h < 0) \in BOOLEAN
  BY <1>2
<1>14. Returns(largest, v)
  BY <1>2, <1>9, <1>10, <1>11, <1>12, <1>13, Zenon DEF Returns, v
<1>15. QED
  BY <1>14 DEF v, h

LEMMA NumberReturns ==
    \A largest, neg, w, frac :
        /\ largest \in Nat /\ largest <= maxLargestUInt /\ neg \in BOOLEAN /\ w \in Nat
        => Returns(largest, NumberOf(largest, neg, w, frac))
<1>1. SUFFICES ASSUME NEW largest \in Nat, largest <= maxLargestUInt, NEW neg \in BOOLEAN, NEW w \in Nat, NEW frac
               PROVE  Returns(largest, NumberOf(largest, neg, w, frac))
  OBVIOUS
<1>2. CASE frac # "none" \/ w > Limit(neg)
  <2>1. NumberOf(largest, neg, w, frac) = Real_(Signed(neg, Rounded(2 * w + Half(frac))))
    BY <1>2, Zenon DEF NumberOf
  <2>2. 2 * w + Half(frac) \in Nat
    BY DEF Half
  <2>3. QED
    BY <2>1, <2>2, RoundedIs, RealReturns, Zenon
<1>3. CASE ~(frac # "none" \/ w > Limit(neg))
  <2>1. NumberOf(largest, neg, w, frac) = IF neg THEN Int_(-w) ELSE IF w <= largest THEN Int_(w) ELSE UInt_(w)
    BY <1>3, Zenon DEF NumberOf
  <2>2. /\ maxLargestInt \in Nat /\ minLargestInt = -maxLargestInt - 1 /\ maxLargestUInt \in Nat
        /\ largest \in Int /\ w \in Int /\ -w \in Int /\ largest >= 0
    BY Limits
  <2>3. w <= Limit(neg)
    BY <1>3, <2>2 DEF Limit
  <2>4. neg => minLargestInt <= -w /\ -w <= largest
    BY <2>2, <2>3 DEF Limit
  <2>5. ~neg => w <= maxLargestUInt /\ minLargestInt <= w /\ (w <= largest \/ largest < w)
    BY <2>2, <2>3 DEF Limit
  <2>6. QED
    BY <1>1, <2>1, <2>2, <2>4, <2>5, WholeReturns, Zenon
<1>4. QED
  BY <1>2, <1>3

NumberInv == /\ negative \in BOOLEAN /\ fraction \in Fractions
             /\ digits \in Seq(Figure) /\ Len(digits) <= MaxDigits
             /\ decoded = DecodeNumber(negative, digits, fraction)

LEMMA NumberInvInit == NumberInit => NumberInv
<1>1. MaxDigits \in Nat /\ Len(<<>>) = 0 /\ <<>> \in Seq(Figure)
  BY WidthAssumption
<1>2. \A q : q = <<>> => q \in Seq(Figure) /\ Len(q) <= MaxDigits
  BY <1>1
<1>3. \A f : f = "none" => f \in Fractions
  BY DEF Fractions
<1>4. QED
  BY <1>2, <1>3, Zenon DEF NumberInit, NumberInv

LEMMA NumberInvStep == NumberInv /\ [NumberNext]_numberVars => NumberInv'
<1>1. SUFFICES ASSUME NumberInv, [NumberNext]_numberVars PROVE NumberInv'
  OBVIOUS
<1>2. MaxDigits \in Nat
  BY WidthAssumption
<1>3. ASSUME NEW x \in 0 .. 9, AddDigit(x) PROVE NumberInv'
  <2>1. digits' = Append(digits, x) /\ fraction' = fraction /\ negative' = negative
        /\ decoded' = DecodeNumber(negative, digits', fraction)
    BY <1>3, Zenon DEF AddDigit
  <2>2. digits \in Seq(Figure) /\ x \in Figure /\ Len(digits) < MaxDigits
    BY <1>1, <1>3, Zenon DEF AddDigit, NumberInv, Figure
  <2>3. digits' \in Seq(Figure) /\ Len(digits') <= MaxDigits
    BY <1>2, <2>1, <2>2
  <2>4. negative \in BOOLEAN /\ fraction \in Fractions
    BY <1>1, Zenon DEF NumberInv
  <2>5. QED
    BY <2>1, <2>3, <2>4, Zenon DEF NumberInv
<1>4. ASSUME NEW f \in {"zero", "half"}, AddFraction(f) PROVE NumberInv'
  <2>1. f \in Fractions
    BY DEF Fractions
  <2>2. QED
    BY <1>1, <1>4, <2>1, Zenon DEF AddFraction, NumberInv
<1>5. ASSUME UNCHANGED numberVars PROVE NumberInv'
  BY <1>1, <1>5, Zenon DEF numberVars, NumberInv
<1>6. QED
  BY <1>1, <1>3, <1>4, <1>5, Zenon DEF NumberNext

LEMMA NumberInvHolds == NumberSpec => []NumberInv
BY NumberInvInit, NumberInvStep, PTL DEF NumberSpec

\* What decodeNumber makes of a token, in terms of what the token says.
Within(v, largest) == /\ v.type \in {"int", "uint", "real"}
                      /\ v.type = "int" => v.num \in minLargestInt .. largest
                      /\ v.type = "uint" => v.num \in largest + 1 .. maxLargestUInt

LEMMA NumberOfTypes ==
    \A largest, neg, w, frac :
        /\ largest \in Nat /\ largest <= maxLargestInt /\ neg \in BOOLEAN /\ w \in Nat
        => Within(NumberOf(largest, neg, w, frac), largest)
<1>1. SUFFICES ASSUME NEW largest \in Nat, largest <= maxLargestInt, NEW neg \in BOOLEAN, NEW w \in Nat, NEW frac
               PROVE  Within(NumberOf(largest, neg, w, frac), largest)
  BY Zenon
<1> DEFINE v == NumberOf(largest, neg, w, frac)
<1>2. /\ maxLargestInt \in Nat /\ minLargestInt = -maxLargestInt - 1 /\ maxLargestUInt = 2 * maxLargestInt + 1
  BY Limits
<1>3. CASE frac # "none" \/ w > Limit(neg)
  <2>1. v = Real_(Signed(neg, Rounded(2 * w + Half(frac))))
    BY <1>3, Zenon DEF NumberOf
  <2> HIDE DEF v
  <2>2. v.type = "real"
    BY <2>1 DEF Real_
  <2>3. QED
    BY <2>2, Zenon DEF Within, v
<1>4. CASE ~(frac # "none" \/ w > Limit(neg))
  <2>1. v = IF neg THEN Int_(-w) ELSE IF w <= largest THEN Int_(w) ELSE UInt_(w)
    BY <1>4, Zenon DEF NumberOf
  <2>2. w <= Limit(neg)
    BY <1>4, <1>2 DEF Limit
  <2> HIDE DEF v
  <2>3. CASE neg
    <3>1. v.type = "int" /\ v.num = -w /\ -w \in minLargestInt .. largest
      BY <1>2, <2>1, <2>2, <2>3 DEF Int_, Limit
    <3>2. QED
      BY <3>1 DEF Within, v
  <2>4. CASE ~neg /\ w <= largest
    <3>1. v.type = "int" /\ v.num = w /\ w \in minLargestInt .. largest
      BY <1>2, <2>1, <2>4 DEF Int_
    <3>2. QED
      BY <3>1 DEF Within, v
  <2>5. CASE ~neg /\ ~(w <= largest)
    <3>1. v.type = "uint" /\ v.num = w /\ w \in largest + 1 .. maxLargestUInt
      BY <1>2, <2>1, <2>2, <2>5 DEF UInt_, Limit
    <3>2. QED
      BY <3>1 DEF Within, v
  <2>6. QED
    BY <2>3, <2>4, <2>5
<1>5. QED
  BY <1>3, <1>4

\* Types of a token, and a number within the limits of its type.
THEOREM NumberTypeCorrect == NumberSpec => []NumberTypeOK
<1>1. NumberInv => NumberTypeOK
  <2>1. SUFFICES ASSUME NumberInv PROVE NumberTypeOK
    OBVIOUS
  <2>2. /\ negative \in BOOLEAN /\ fraction \in Fractions /\ digits \in Seq(0 .. 9) /\ Len(digits) <= MaxDigits
        /\ decoded = NumberOf(maxInt, negative, Written(digits), fraction) /\ Written(digits) \in Nat
    BY <2>1, DecodedNumbers, Zenon DEF NumberInv, Figure
  <2>3. maxInt \in Nat /\ maxInt <= maxLargestInt
    BY Limits
  <2>4. QED
    BY <2>2, <2>3, NumberOfTypes, Zenon DEF NumberTypeOK, Fractions, Within
<1>2. QED
  BY <1>1, NumberInvHolds, PTL

\* The two readers' values of one token.
LEMMA NumbersAlike ==
    \A neg, w, frac : neg \in BOOLEAN /\ w \in Nat =>
        LET v == NumberOf(maxInt, neg, w, frac)
            c == NumberOf(maxLargestInt, neg, w, frac)
        IN  c.num = v.num /\ (c # v <=> v.type = "uint" /\ v.num <= maxLargestInt)
<1>1. SUFFICES ASSUME NEW neg \in BOOLEAN, NEW w \in Nat, NEW frac
               PROVE  LET v == NumberOf(maxInt, neg, w, frac)
                          c == NumberOf(maxLargestInt, neg, w, frac)
                      IN  c.num = v.num /\ (c # v <=> v.type = "uint" /\ v.num <= maxLargestInt)
  BY Zenon
<1> DEFINE v == NumberOf(maxInt, neg, w, frac)
           c == NumberOf(maxLargestInt, neg, w, frac)
<1>2. maxInt \in Nat /\ maxLargestInt \in Nat /\ maxInt <= maxLargestInt
  BY Limits
<1>3. \A n : /\ Int_(n).type = "int" /\ UInt_(n).type = "uint" /\ Real_(n).type = "real"
             /\ Int_(n).num = n /\ UInt_(n).num = n
  BY DEF Int_, UInt_, Real_
<1>4. CASE frac # "none" \/ w > Limit(neg)
  <2>1. v = Real_(Signed(neg, Rounded(2 * w + Half(frac)))) /\ c = v
    BY <1>4, Zenon DEF NumberOf
  <2> HIDE DEF v, c
  <2>2. v.type = "real" /\ c = v
    BY <1>3, <2>1, Zenon
  <2>3. QED
    BY <2>2 DEF v, c
<1>5. CASE ~(frac # "none" \/ w > Limit(neg))
  <2>1. /\ v = IF neg THEN Int_(-w) ELSE IF w <= maxInt THEN Int_(w) ELSE UInt_(w)
        /\ c = IF neg THEN Int_(-w) ELSE IF w <= maxLargestInt THEN Int_(w) ELSE UInt_(w)
    BY <1>5, Zenon DEF NumberOf
  <2> HIDE DEF v, c
  <2>2. CASE neg \/ w <= maxInt
    <3>1. w <= maxInt => w <= maxLargestInt
      BY <1>2
    <3>2. c = v /\ v.type = "int"
      BY <1>3, <2>1, <2>2, <3>1, Zenon
    <3>3. QED
      BY <3>2 DEF v, c
  <2>3. CASE ~neg /\ ~(w <= maxInt) /\ w <= maxLargestInt
    <3>1. c = Int_(w) /\ v = UInt_(w)
      BY <2>1, <2>3, Zenon
    <3>2. c.type = "int" /\ v.type = "uint" /\ c.num = w /\ v.num = w
      BY <1>3, <3>1, Zenon
    <3>3. QED
      BY <2>3, <3>2 DEF v, c
  <2>4. CASE ~neg /\ ~(w <= maxInt) /\ ~(w <= maxLargestInt)
    <3>1. c = UInt_(w) /\ v = UInt_(w)
      BY <2>1, <2>4, Zenon
    <3>2. c = v /\ v.num = w
      BY <1>3, <3>1, Zenon
    <3>3. QED
      BY <2>4, <3>2 DEF v, c
  <2>5. QED
    BY <2>2, <2>3, <2>4
<1>6. QED
  BY <1>4, <1>5

\* A token without a fraction, as a number.
LEMMA NumberExact ==
    \A neg, w : neg \in BOOLEAN /\ w \in Nat =>
        LET v == NumberOf(maxInt, neg, w, "none")
            n == IF neg THEN -w ELSE w
        IN  IF n \in minLargestInt .. maxLargestUInt
            THEN v.type # "real" /\ v.num = n
            ELSE v = Real_(Double(2 * n))
<1>1. SUFFICES ASSUME NEW neg \in BOOLEAN, NEW w \in Nat
               PROVE  LET v == NumberOf(maxInt, neg, w, "none")
                          n == IF neg THEN -w ELSE w
                      IN  IF n \in minLargestInt .. maxLargestUInt
                          THEN v.type # "real" /\ v.num = n
                          ELSE v = Real_(Double(2 * n))
  BY Zenon
<1> DEFINE v == NumberOf(maxInt, neg, w, "none")
           n == IF neg THEN -w ELSE w
<1>2. /\ maxLargestInt \in Nat /\ minLargestInt = -maxLargestInt - 1 /\ maxLargestUInt = 2 * maxLargestInt + 1
  BY Limits
<1>3. n \in minLargestInt .. maxLargestUInt <=> ~(w > Limit(neg))
  BY <1>2 DEF Limit
<1>4. CASE w > Limit(neg)
  <2>1. v = Real_(Signed(neg, Rounded(2 * w + Half("none"))))
    BY <1>4, Zenon DEF NumberOf
  <2>2. 2 * w \in Nat /\ 2 * w + Half("none") = 2 * w /\ 2 * n = IF neg THEN -(2 * w) ELSE 2 * w
    BY DEF Half
  <2>3. Double(2 * n) = Signed(neg, Rounded(2 * w))
    BY <2>2, DoubleOf, Zenon DEF Signed
  <2> HIDE DEF v, n
  <2>4. v = Real_(Double(2 * n)) /\ ~(n \in minLargestInt .. maxLargestUInt)
    BY <1>3, <1>4, <2>1, <2>2, <2>3, Zenon
  <2>5. QED
    BY <2>4, Zenon DEF v, n
<1>5. CASE ~(w > Limit(neg))
  <2>1. v = IF neg THEN Int_(-w) ELSE IF w <= maxInt THEN Int_(w) ELSE UInt_(w)
    BY <1>5, Zenon DEF NumberOf
  <2>2. \A x : /\ Int_(x).type # "real" /\ UInt_(x).type # "real" /\ Int_(x).num = x /\ UInt_(x).num = x
    BY DEF Int_, UInt_
  <2> HIDE DEF v
  <2>3. v.type # "real" /\ v.num = n
    BY <2>1, <2>2, Zenon
  <2> HIDE DEF n
  <2>4. QED
    BY <1>3, <1>5, <2>3, Zenon DEF v, n
<1>6. QED
  BY <1>4, <1>5

\* Reading what was written: for every width of the types and every token, the
\* integers are exact, what is decoded is written so that it is decoded to the same
\* value, and the two readers differ as the property says.
THEOREM NumbersRoundTripHolds == NumberSpec => []NumbersRoundTrip
<1>1. NumberInv => NumbersRoundTrip
  <2>1. SUFFICES ASSUME NumberInv PROVE NumbersRoundTrip
    OBVIOUS
  <2> DEFINE w == Written(digits)
             n == IF negative THEN -w ELSE w
             v == NumberOf(maxInt, negative, w, fraction)
             c == NumberOf(maxLargestInt, negative, w, fraction)
  <2>2. /\ negative \in BOOLEAN /\ w \in Nat /\ decoded = v
        /\ CharDecodeNumber(negative, digits, fraction) = c
    BY <2>1, DecodedNumbers, Zenon DEF NumberInv
  <2>3. maxInt \in Nat /\ maxInt <= maxLargestUInt /\ maxLargestInt \in Nat /\ maxLargestInt <= maxLargestUInt
    BY Limits
  <2>4. fraction = "none" =>
            IF n \in minLargestInt .. maxLargestUInt
            THEN decoded.type # "real" /\ decoded.num = n
            ELSE decoded = Real_(Double(2 * n))
    BY <2>2, NumberExact, Zenon
  <2>5. c.num = decoded.num /\ (c # decoded <=> decoded.type = "uint" /\ decoded.num <= maxLargestInt)
    BY <2>2, NumbersAlike, Zenon
  <2>6. Returns(maxInt, decoded) /\ Returns(maxLargestInt, c)
    BY <2>2, <2>3, NumberReturns, Zenon
  <2> HIDE DEF w, v, c
  <2>7. DecodeNumber(NumberText(decoded)[1], NumberText(decoded)[2], NumberText(decoded)[3]) = decoded
    BY <2>6, DecodedNumbers, Zenon DEF Returns
  <2>8. CharDecodeNumber(NumberText(c)[1], NumberText(c)[2], NumberText(c)[3]) = c
    BY <2>6, DecodedNumbers, Zenon DEF Returns
  <2>9. n = IF negative THEN -Written(digits) ELSE Written(digits)
    BY DEF w
  <2> HIDE DEF n
  <2>10. QED
    BY <2>2, <2>4, <2>5, <2>7, <2>8, <2>9, Zenon DEF NumbersRoundTrip
<1>2. QED
  BY <1>1, NumberInvHolds, PTL

-----------------------------------------------------------------------------
(* Conversions.                                                            *)

\* A power of two that has more bits than a double is what the number below it is rounded to.
LEMMA RoundedUp == \A n \in Nat : n >= Precision + 2 => TwoTo[n] - 2 \in Nat /\ Rounded(TwoTo[n] - 2) = TwoTo[n]
<1>1. SUFFICES ASSUME NEW n \in Nat, n >= Precision + 2
               PROVE  TwoTo[n] - 2 \in Nat /\ Rounded(TwoTo[n] - 2) = TwoTo[n]
  OBVIOUS
<1> DEFINE e == n - Precision
           u == TwoTo[e]
           t == TwoTo[Precision]
           h == TwoTo[Precision - 1]
<1>2. e \in Nat /\ e # 0 /\ e - 2 \in Nat /\ e - 2 + 1 = e - 1 /\ e - 1 \in Nat /\ e - 1 + 1 = e /\ Precision + e = n
  BY <1>1, Widths
<1>3. /\ u \in Nat /\ t \in Nat /\ h \in Nat /\ t = 2 * h /\ h >= 2
      /\ TwoTo[n] = u * t /\ TwoTo[Precision + e - 1] = u * h
  <2> HIDE DEF e
  <2>1. /\ u \in Nat /\ t \in Nat /\ h \in Nat /\ t = 2 * h /\ h >= 2
        /\ TwoTo[Precision + e] = u * t /\ TwoTo[Precision + e - 1] = u * h
    BY <1>2, Powers, Zenon
  <2>2. QED
    BY <1>2, <2>1, Zenon
<1>4. u >= 4 /\ (u = 4 \/ u > 4)
  <2> DEFINE c == TwoTo[e - 2]
  <2>1. c \in Nat /\ c > 0 /\ TwoTo[e - 2 + 1] = 2 * c /\ TwoTo[e - 1 + 1] = 2 * TwoTo[e - 1]
    BY <1>2, Powers, Zenon
  <2> HIDE DEF e, c
  <2>2. u = 2 * (2 * c)
    BY <1>2, <2>1, Zenon
  <2> HIDE DEF u
  <2>3. QED
    BY <2>1, <2>2
<1> HIDE DEF e, u, t, h
<1> DEFINE q == t - 1
           r == u - 2
           m == TwoTo[n] - 2
<1>5. q \in Nat /\ r \in Nat /\ r < u /\ q % 2 = 1 /\ q + 1 = t
  <2>1. q = 2 * (h - 1) + 1 /\ h - 1 \in Nat
    BY <1>3
  <2>2. \A x \in Nat : (2 * x + 1) % 2 = 1
    OBVIOUS
  <2>3. q % 2 = 1
    BY <2>1, <2>2
  <2>4. QED
    BY <1>3, <1>4, <2>3
<1>6. u * h \in Nat /\ u * t = u * h + u * h /\ u * h >= u
  <2>1. \A x, y \in Nat : y >= 1 => x * y \in Nat /\ x * (2 * y) = x * y + x * y /\ x * y >= x
    OBVIOUS
  <2>2. h >= 1
    BY <1>3
  <2>3. QED
    BY <1>3, <2>1, <2>2, Zenon
<1>7. m \in Nat /\ m < u * t /\ m >= u * h
  BY <1>3, <1>4, <1>6
<1>8. m = u * q + r
  <2>1. \A x, y \in Int : x * (y - 1) = x * y - x
    OBVIOUS
  <2>2. u * q = u * t - u
    BY <1>3, <2>1
  <2>3. u * t \in Nat
    BY <1>3
  <2> HIDE DEF q
  <2>4. QED
    BY <1>3, <1>4, <2>2, <2>3
<1>9. 2 * r > u \/ (2 * r = u /\ q % 2 = 1)
  BY <1>3, <1>4, <1>5
<1> HIDE DEF q, r, m
<1>10. Exponent(m, e)
  BY <1>2, <1>3, <1>7, Zenon DEF Exponent
<1>11. Rounded(m) = ToMultiple(m, u)
  BY <1>2, <1>7, <1>10, RoundedWith, Zenon DEF u
<1>12. ToMultiple(u * q + r, u) = u * (q + 1)
  BY <1>3, <1>5, <1>9, Nearest, Zenon
<1>13. Rounded(m) = TwoTo[n]
  BY <1>3, <1>5, <1>8, <1>11, <1>12, Zenon
<1>14. QED
  BY <1>7, <1>13, Zenon DEF m

LEMMA FewBits == \A n \in Nat : n <= TwoTo[Precision] => Double(n) = n /\ Double(-n) = -n
<1>1. SUFFICES ASSUME NEW n \in Nat, n <= TwoTo[Precision] PROVE Double(n) = n /\ Double(-n) = -n
  OBVIOUS
<1>2. 0 \in Nat /\ n = TwoTo[0] * n
  BY TwoToIs
<1>3. Representable(n)
  BY <1>1, <1>2, Zenon DEF Representable
<1>4. QED
  BY <1>3, RepresentableStays, DoubleOf, Zenon

\* The limits of the types, as doubles in halves.
LEMMA LimitsOfDoubles ==
    /\ Double(2 * minInt) = 2 * minInt /\ Double(2 * maxInt) = 2 * maxInt
    /\ Double(2 * 0) = 0 /\ Double(2 * maxUInt) = 2 * maxUInt
    /\ Double(2 * minLargestInt) = 2 * minLargestInt
    /\ Double(2 * maxLargestInt) = 2 * maxLargestInt + 2
    /\ Double(2 * maxLargestUInt) = 2 * maxLargestUInt + 2
    /\ maxUInt64AsDouble = 2 * maxLargestUInt + 2
    /\ 2 * TwoTo[LargestBits - 1] = 2 * maxLargestInt + 2
<1> DEFINE i == TwoTo[IntBits]
           t == TwoTo[Precision]
           l == TwoTo[LargestBits]
           k == TwoTo[LargestBits + 1]
<1>1. /\ IntBits \in Nat /\ IntBits <= Precision - 1 /\ Precision - 1 \in Nat
      /\ LargestBits \in Nat /\ LargestBits >= Precision + 2 /\ LargestBits + 1 >= Precision + 2
      /\ LargestBits + 1 \in Nat
      /\ LargestBits - Precision \in Nat /\ Precision + (LargestBits - Precision) = LargestBits
      /\ LargestBits - 1 \in Nat /\ LargestBits - 1 + 1 = LargestBits
      /\ IntBits - 1 \in Nat /\ IntBits - 1 + 1 = IntBits
  BY Widths
<1>2. i \in Nat /\ t \in Nat /\ 2 * i <= t
  <2>1. i \in Nat /\ TwoTo[IntBits] <= TwoTo[Precision - 1]
    BY <1>1, TwoToExceeds, TwoToGrows
  <2>2. t = 2 * TwoTo[Precision - 1] /\ t \in Nat /\ TwoTo[Precision - 1] \in Nat
    BY Powers
  <2>3. QED
    BY <2>1, <2>2
<1>3. l \in Nat /\ k = 2 * l /\ l = 2 * TwoTo[LargestBits - 1] /\ i = 2 * TwoTo[IntBits - 1]
  BY <1>1, TwoToIs
<1>4. /\ 2 * maxInt = i - 2 /\ 2 * minInt = -i /\ 2 * maxUInt = 2 * i - 2
      /\ 2 * maxLargestInt = l - 2 /\ 2 * minLargestInt = -l /\ 2 * maxLargestUInt = k - 2
      /\ maxInt \in Nat
  <2>1. /\ maxInt = TwoTo[IntBits - 1] - 1 /\ maxUInt = i - 1 /\ minInt = -maxInt - 1
        /\ maxLargestInt = TwoTo[LargestBits - 1] - 1 /\ maxLargestUInt = l - 1
        /\ minLargestInt = -maxLargestInt - 1
    BY DEF maxInt, maxUInt, minInt, maxLargestInt, maxLargestUInt, minLargestInt
  <2>2. maxInt \in Nat /\ maxLargestInt \in Nat
    BY Limits
  <2>3. TwoTo[IntBits - 1] \in Nat /\ TwoTo[LargestBits - 1] \in Nat
    BY <1>1, TwoToExceeds
  <2> HIDE DEF i, l, k
  <2>4. QED
    BY <1>2, <1>3, <2>1, <2>2, <2>3
<1>5. maxUInt64AsDouble = 2 * l
  BY DEF maxUInt64AsDouble
<1> HIDE DEF i, t
<1>6. /\ i - 2 \in Nat /\ i - 2 <= t /\ i <= t /\ 2 * i - 2 \in Nat /\ 2 * i - 2 <= t
  BY <1>2, <1>4
<1>7. Double(i - 2) = i - 2 /\ Double(-i) = -i /\ Double(2 * i - 2) = 2 * i - 2
  BY <1>2, <1>6, FewBits, Zenon DEF t
<1>8. Double(2 * 0) = 0
  <2>1. 0 \in Nat /\ 0 <= t /\ 2 * 0 = 0
    BY <1>2
  <2>2. QED
    BY <2>1, FewBits, Zenon DEF t
<1>9. Double(l - 2) = l /\ Double(k - 2) = k
  BY <1>1, RoundedUp, DoubleOf, Zenon
<1>10. Double(-l) = -l
  <2> DEFINE d == LargestBits - Precision
  <2>1. d \in Nat /\ Precision + d = LargestBits
    BY <1>1
  <2> HIDE DEF d
  <2>2. t \in Nat /\ t <= t /\ t >= TwoTo[Precision - 1]
    BY Powers DEF t
  <2>3. l = TwoTo[d] * t
    BY <2>1, Powers, Zenon DEF t
  <2> HIDE DEF l
  <2>4. Representable(l)
    BY <2>1, <2>2, <2>3, Zenon DEF Representable, t
  <2>5. QED
    BY <1>3, <2>4, RepresentableStays, DoubleOf, Zenon
<1> HIDE DEF l, k
<1>11. /\ 2 * maxLargestInt + 2 = l /\ 2 * maxLargestUInt + 2 = k /\ k = 2 * l
  BY <1>3, <1>4
<1>12. 2 * TwoTo[LargestBits - 1] = l
  BY <1>3
<1>13. QED
  BY <1>4, <1>5, <1>7, <1>8, <1>9, <1>10, <1>11, <1>12, Zenon

Whole(v) == IF v.type = "real" THEN Truncated(v.num) ELSE v.num
Exact(v, r) == r.outcome = "value" => r.num = Whole(v)

Agrees(v) == /\ AsInt(v) # Throws <=> IsConvertibleTo(v, "int")
             /\ AsUInt(v) # Throws <=> IsConvertibleTo(v, "uint")
             /\ AsDouble(v) # Throws <=> IsConvertibleTo(v, "real")
             /\ AsBool(v) # Throws <=> IsConvertibleTo(v, "boolean")
             /\ AsString(v) # Throws <=> IsConvertibleTo(v, "string")
             /\ Exact(v, AsInt(v)) /\ Exact(v, AsUInt(v)) /\ Exact(v, AsInt64(v)) /\ Exact(v, AsUInt64(v))
             /\ Undefined_ \notin {AsInt(v), AsUInt(v)}
             /\ AsInt64(v) = Undefined_ <=> v = Real_(2 * TwoTo[LargestBits - 1])
             /\ AsUInt64(v) = Undefined_ <=> v = Real_(maxUInt64AsDouble)
             /\ IsInt64(v) => AsInt64(v).outcome = "value"
             /\ IsUInt64(v) => AsUInt64(v).outcome = "value"

LEMMA ConversionOutcomes ==
    /\ \A n : /\ Result(n).outcome = "value" /\ Result(n).num = n
              /\ Result(n) # Throws /\ Result(n) # Undefined_
    /\ Throws # Undefined_ /\ Throws.outcome # "value" /\ Undefined_.outcome # "value"
    /\ \A test, n : Guarded(test, n) = IF test THEN Result(n) ELSE Throws
BY DEF Result, Throws, Undefined_, Guarded

IsWhole(v) == v.type \in {"int", "uint"}
IsOther(v) == v.type \in {"null", "boolean", "string", "array"} /\ (v.type = "null" => v.num = 0)

LEMMA ReadWhole ==
    \A v : IsWhole(v) =>
        /\ AsInt(v) = Guarded(IsInt(v), v.num) /\ AsUInt(v) = Guarded(IsUInt(v), v.num)
        /\ AsInt64(v) = Guarded(IsInt64(v), v.num) /\ AsUInt64(v) = Guarded(IsUInt64(v), v.num)
        /\ AsDouble(v) = Result(Double(2 * v.num))
BY Zenon DEF IsWhole, AsInt, AsUInt, AsInt64, AsUInt64, AsDouble

LEMMA ReadReal ==
    \A v : v.type = "real" =>
        /\ AsInt(v) = Cast(v.num, minInt, maxInt) /\ AsUInt(v) = Cast(v.num, 0, maxUInt)
        /\ AsInt64(v) = Cast(v.num, minLargestInt, maxLargestInt)
        /\ AsUInt64(v) = Cast(v.num, 0, maxLargestUInt)
        /\ AsDouble(v) = Result(v.num)
BY Zenon DEF AsInt, AsUInt, AsInt64, AsUInt64, AsDouble

LEMMA ReadOther ==
    \A v : v.type \notin {"int", "uint", "real"} =>
        /\ AsInt(v) = Simple(v) /\ AsUInt(v) = Simple(v) /\ AsInt64(v) = Simple(v) /\ AsUInt64(v) = Simple(v)
        /\ AsDouble(v) = IF v.type = "boolean" THEN Result(2 * v.num) ELSE Simple(v)
        /\ ~IsInt(v) /\ ~IsUInt(v) /\ ~IsInt64(v) /\ ~IsUInt64(v)
BY Zenon DEF AsInt, AsUInt, AsInt64, AsUInt64, AsDouble, IsInt, IsUInt, IsInt64, IsUInt64

LEMMA ConvertibleIs ==
    \A v : /\ IsConvertibleTo(v, "int") <=> \/ IsInt(v) \/ v.type \in {"boolean", "null"}
                                            \/ v.type = "real" /\ InRange(v.num, minInt, maxInt)
           /\ IsConvertibleTo(v, "uint") <=> \/ IsUInt(v) \/ v.type \in {"boolean", "null"}
                                             \/ v.type = "real" /\ InRange(v.num, 0, maxUInt)
           /\ IsConvertibleTo(v, "real") <=> IsNumeric(v) \/ v.type \in {"boolean", "null"}
           /\ IsConvertibleTo(v, "boolean") <=> IsNumeric(v) \/ v.type \in {"boolean", "null"}
           /\ IsConvertibleTo(v, "string") <=> v.type \notin {"array", "object"}
BY Zenon DEF IsConvertibleTo

LEMMA AgreesWhole == \A v : IsWhole(v) => Agrees(v)
<1>1. SUFFICES ASSUME NEW v, IsWhole(v) PROVE Agrees(v)
  BY Zenon
<1>2. v.type # "real" /\ v.type \notin {"boolean", "null"} /\ v.type \notin {"array", "object"}
      /\ v.type \in {"int", "uint", "real"}
  BY <1>1 DEF IsWhole
<1>3. \A x : v # Real_(x)
  BY <1>2 DEF Real_
<1>4. Whole(v) = v.num /\ IsNumeric(v)
  BY <1>2, Zenon DEF Whole, IsNumeric
<1>5. \E x, y : AsBool(v) = Result(x) /\ AsString(v) = Result(y)
  BY <1>4, Zenon DEF AsBool, AsString
<1> DEFINE R(test) == Guarded(test, v.num)
<1>6. /\ AsInt(v) = R(IsInt(v)) /\ AsUInt(v) = R(IsUInt(v))
      /\ AsInt64(v) = R(IsInt64(v)) /\ AsUInt64(v) = R(IsUInt64(v))
      /\ \E x : AsDouble(v) = Result(x)
  BY <1>1, ReadWhole, Zenon
<1>7. /\ IsConvertibleTo(v, "int") <=> IsInt(v)
      /\ IsConvertibleTo(v, "uint") <=> IsUInt(v)
      /\ IsConvertibleTo(v, "real") /\ IsConvertibleTo(v, "boolean") /\ IsConvertibleTo(v, "string")
  BY <1>2, <1>4, ConvertibleIs, Zenon
<1>8. /\ \A test : /\ Exact(v, R(test)) /\ R(test) # Undefined_
                   /\ R(test) # Throws <=> test
                   /\ test => R(test).outcome = "value"
      /\ \A x : Result(x) # Throws
  BY <1>4, ConversionOutcomes, Zenon DEF Exact
<1> HIDE DEF R
<1>9. /\ AsInt(v) # Throws <=> IsConvertibleTo(v, "int")
      /\ AsUInt(v) # Throws <=> IsConvertibleTo(v, "uint")
      /\ AsDouble(v) # Throws <=> IsConvertibleTo(v, "real")
      /\ AsBool(v) # Throws <=> IsConvertibleTo(v, "boolean")
      /\ AsString(v) # Throws <=> IsConvertibleTo(v, "string")
  BY <1>5, <1>6, <1>7, <1>8, Zenon
<1>10. /\ Exact(v, AsInt(v)) /\ Exact(v, AsUInt(v)) /\ Exact(v, AsInt64(v)) /\ Exact(v, AsUInt64(v))
       /\ AsInt(v) # Undefined_ /\ AsUInt(v) # Undefined_ /\ AsInt64(v) # Undefined_ /\ AsUInt64(v) # Undefined_
       /\ IsInt64(v) => AsInt64(v).outcome = "value"
       /\ IsUInt64(v) => AsUInt64(v).outcome = "value"
  BY <1>6, <1>8, Zenon
<1>11. QED
  BY <1>3, <1>9, <1>10, Zenon DEF Agrees

LEMMA SimpleIs ==
    \A v : /\ v.type = "null" => Simple(v) = Result(0)
           /\ v.type = "boolean" => Simple(v) = Result(v.num)
           /\ v.type \notin {"null", "boolean"} => Simple(v) = Throws
BY Zenon DEF Simple

LEMMA AgreesOther == \A v : IsOther(v) => Agrees(v)
<1> SUFFICES ASSUME NEW v, IsOther(v) PROVE Agrees(v)
  BY Zenon
<1>1. v.type \in {"null", "boolean", "string", "array"} /\ (v.type = "null" => v.num = 0)
  BY DEF IsOther
<1>2. v.type \notin {"int", "uint", "real"} /\ v.type # "real"
  BY <1>1
<1>3. \A x : v # Real_(x)
  BY <1>2 DEF Real_
<1>4. Whole(v) = v.num /\ ~IsNumeric(v) /\ AsBool(v) = Simple(v)
  BY <1>2, Zenon DEF Whole, IsNumeric, AsBool
<1>5. /\ Simple(v) # Throws <=> v.type \in {"boolean", "null"}
      /\ Exact(v, Simple(v)) /\ Simple(v) # Undefined_
  <2>1. CASE v.type \in {"null", "boolean"}
    <3>1. CASE v.type = "null"
      <4>1. Simple(v) = Result(v.num)
        BY <1>1, <3>1, SimpleIs
      <4>2. QED
        BY <1>4, <2>1, <4>1, ConversionOutcomes, Zenon DEF Exact
    <3>2. CASE v.type = "boolean"
      <4>1. Simple(v) = Result(v.num)
        BY <3>2, SimpleIs, Zenon
      <4>2. QED
        BY <1>4, <2>1, <4>1, ConversionOutcomes, Zenon DEF Exact
    <3>3. QED
      BY <2>1, <3>1, <3>2
  <2>2. CASE v.type \notin {"null", "boolean"}
    <3>1. Simple(v) = Throws
      BY <2>2, SimpleIs, Zenon
    <3>2. QED
      BY <2>2, <3>1, ConversionOutcomes, Zenon DEF Exact
  <2>3. QED
    BY <2>1, <2>2
<1>6. /\ AsInt(v) # Throws <=> IsConvertibleTo(v, "int")
      /\ AsUInt(v) # Throws <=> IsConvertibleTo(v, "uint")
      /\ AsBool(v) # Throws <=> IsConvertibleTo(v, "boolean")
  BY <1>2, <1>4, <1>5, ReadOther, ConvertibleIs, Zenon
<1>7. AsDouble(v) # Throws <=> IsConvertibleTo(v, "real")
  BY <1>2, <1>4, <1>5, ReadOther, ConvertibleIs, ConversionOutcomes, Zenon
<1>8. AsString(v) # Throws <=> IsConvertibleTo(v, "string")
  <2>1. v.type \notin {"array", "object"} <=> v.type \in {"null", "boolean", "string"}
    BY <1>1
  <2>2. AsString(v) = IF v.type \in {"null", "boolean", "string"} THEN Result(v.num) ELSE Throws
    BY <1>4, Zenon DEF AsString
  <2>3. QED
    BY <2>1, <2>2, ConvertibleIs, ConversionOutcomes, Zenon
<1>9. /\ Exact(v, AsInt(v)) /\ Exact(v, AsUInt(v)) /\ Exact(v, AsInt64(v)) /\ Exact(v, AsUInt64(v))
      /\ AsInt(v) # Undefined_ /\ AsUInt(v) # Undefined_ /\ AsInt64(v) # Undefined_ /\ AsUInt64(v) # Undefined_
      /\ ~IsInt64(v) /\ ~IsUInt64(v)
  BY <1>2, <1>5, ReadOther, Zenon
<1>10. QED
  BY <1>3, <1>6, <1>7, <1>8, <1>9, Zenon DEF Agrees

LEMMA CastIs ==
    \A h, min, max :
        /\ Cast(h, min, max) # Throws <=> InRange(h, min, max)
        /\ Cast(h, min, max) = Undefined_ <=> InRange(h, min, max) /\ Truncated(h) \notin min .. max
        /\ Cast(h, min, max).outcome = "value" <=> InRange(h, min, max) /\ Truncated(h) \in min .. max
        /\ Cast(h, min, max).outcome = "value" => Cast(h, min, max).num = Truncated(h)
<1> TAKE h, min, max
<1> DEFINE n == Truncated(h)
           in == InRange(h, min, max)
           fits == n \in min .. max
<1>1. Cast(h, min, max) = IF ~in THEN Throws ELSE IF fits THEN Result(n) ELSE Undefined_
  BY Zenon DEF Cast
<1> HIDE DEF n, in, fits
<1>2. /\ Cast(h, min, max) # Throws <=> in
      /\ Cast(h, min, max) = Undefined_ <=> in /\ ~fits
      /\ Cast(h, min, max).outcome = "value" <=> in /\ fits
      /\ Cast(h, min, max).outcome = "value" => Cast(h, min, max).num = n
  BY <1>1, ConversionOutcomes, Zenon
<1>3. QED
  BY <1>2, Zenon DEF n, in, fits

LEMMA TruncatedIs == \A h \in Int : /\ Truncated(h) \in Int
                                    /\ 0 <= h => 2 * Truncated(h) <= h /\ h <= 2 * Truncated(h) + 1
                                    /\ h < 0 => 2 * Truncated(h) - 1 <= h /\ h <= 2 * Truncated(h)
BY DEF Truncated

\* Where a double passes the test and is outside the type.
LEMMA CastsOfDoubles ==
    \A h \in Int :
        /\ InRange(h, minInt, maxInt) => Truncated(h) \in minInt .. maxInt
        /\ InRange(h, 0, maxUInt) => Truncated(h) \in 0 .. maxUInt
        /\ InRange(h, minLargestInt, maxLargestInt) /\ Truncated(h) \notin minLargestInt .. maxLargestInt
               <=> h = 2 * TwoTo[LargestBits - 1]
        /\ InRange(h, 0, maxLargestUInt) /\ Truncated(h) \notin 0 .. maxLargestUInt
               <=> h = maxUInt64AsDouble
        /\ 2 * minInt <= h /\ h <= 2 * maxInt => InRange(h, minInt, maxInt)
        /\ 0 <= h /\ h <= 2 * maxUInt => InRange(h, 0, maxUInt)
        /\ Double(2 * minLargestInt) <= h /\ h < Double(2 * maxLargestInt) =>
               InRange(h, minLargestInt, maxLargestInt) /\ h # 2 * TwoTo[LargestBits - 1]
        /\ 0 <= h /\ h < maxUInt64AsDouble => InRange(h, 0, maxLargestUInt) /\ h # maxUInt64AsDouble
<1>1. SUFFICES ASSUME NEW h \in Int
      PROVE
        /\ InRange(h, minInt, maxInt) => Truncated(h) \in minInt .. maxInt
        /\ InRange(h, 0, maxUInt) => Truncated(h) \in 0 .. maxUInt
        /\ InRange(h, minLargestInt, maxLargestInt) /\ Truncated(h) \notin minLargestInt .. maxLargestInt
               <=> h = 2 * TwoTo[LargestBits - 1]
        /\ InRange(h, 0, maxLargestUInt) /\ Truncated(h) \notin 0 .. maxLargestUInt
               <=> h = maxUInt64AsDouble
        /\ 2 * minInt <= h /\ h <= 2 * maxInt => InRange(h, minInt, maxInt)
        /\ 0 <= h /\ h <= 2 * maxUInt => InRange(h, 0, maxUInt)
        /\ Double(2 * minLargestInt) <= h /\ h < Double(2 * maxLargestInt) =>
               InRange(h, minLargestInt, maxLargestInt) /\ h # 2 * TwoTo[LargestBits - 1]
        /\ 0 <= h /\ h < maxUInt64AsDouble => InRange(h, 0, maxLargestUInt) /\ h # maxUInt64AsDouble
  BY Zenon
<1> DEFINE n == Truncated(h)
           a == maxInt
           b == maxLargestInt
<1>2. /\ a \in Nat /\ minInt = -a - 1 /\ maxUInt = 2 * a + 1
      /\ b \in Nat /\ minLargestInt = -b - 1 /\ maxLargestUInt = 2 * b + 1
  BY Limits
<1>3. /\ InRange(h, minInt, maxInt) <=> 2 * (-a - 1) <= h /\ h <= 2 * a
      /\ InRange(h, 0, maxUInt) <=> 0 <= h /\ h <= 2 * (2 * a + 1)
      /\ InRange(h, minLargestInt, maxLargestInt) <=> 2 * (-b - 1) <= h /\ h <= 2 * b + 2
      /\ InRange(h, 0, maxLargestUInt) <=> 0 <= h /\ h <= 2 * (2 * b + 1) + 2
  BY <1>2, LimitsOfDoubles, Zenon DEF InRange
<1>4. /\ n \in Int
      /\ 0 <= h => 2 * n <= h /\ h <= 2 * n + 1
      /\ h < 0 => 2 * n - 1 <= h /\ h <= 2 * n
  BY TruncatedIs, Zenon
<1>5. /\ 2 * TwoTo[LargestBits - 1] = 2 * b + 2
      /\ maxUInt64AsDouble = 2 * (2 * b + 1) + 2
      /\ Double(2 * minLargestInt) = 2 * (-b - 1)
      /\ Double(2 * maxLargestInt) = 2 * b + 2
  BY <1>2, LimitsOfDoubles, Zenon
<1> HIDE DEF n, a, b
<1>6. /\ 2 * (-a - 1) <= h /\ h <= 2 * a => -a - 1 <= n /\ n <= a
      /\ 0 <= h /\ h <= 2 * (2 * a + 1) => 0 <= n /\ n <= 2 * a + 1
  BY <1>2, <1>4
<1>7. 2 * (-b - 1) <= h /\ h <= 2 * b + 2 /\ ~(-b - 1 <= n /\ n <= b) <=> h = 2 * b + 2
  BY <1>2, <1>4
<1>8. 0 <= h /\ h <= 2 * (2 * b + 1) + 2 /\ ~(0 <= n /\ n <= 2 * b + 1) <=> h = 2 * (2 * b + 1) + 2
  BY <1>2, <1>4
<1>9. /\ h < 2 * b + 2 => h <= 2 * b + 2 /\ h # 2 * b + 2
      /\ h < 2 * (2 * b + 1) + 2 => h <= 2 * (2 * b + 1) + 2 /\ h # 2 * (2 * b + 1) + 2
  BY <1>2
<1>10. /\ n \in minInt .. maxInt <=> -a - 1 <= n /\ n <= a
       /\ n \in 0 .. maxUInt <=> 0 <= n /\ n <= 2 * a + 1
       /\ n \in minLargestInt .. maxLargestInt <=> -b - 1 <= n /\ n <= b
       /\ n \in 0 .. maxLargestUInt <=> 0 <= n /\ n <= 2 * b + 1
  <2>1. maxInt = a /\ maxLargestInt = b
    BY DEF a, b
  <2>2. QED
    BY <1>2, <1>4, <2>1
<1>11. 2 * minInt = 2 * (-a - 1) /\ 2 * maxInt = 2 * a /\ 2 * maxUInt = 2 * (2 * a + 1)
  BY <1>2, Zenon DEF a
<1>12. /\ InRange(h, minInt, maxInt) => n \in minInt .. maxInt
       /\ InRange(h, 0, maxUInt) => n \in 0 .. maxUInt
  BY <1>3, <1>6, <1>10, Zenon
<1>13. InRange(h, minLargestInt, maxLargestInt) /\ n \notin minLargestInt .. maxLargestInt
           <=> h = 2 * TwoTo[LargestBits - 1]
  BY <1>3, <1>5, <1>7, <1>10, Zenon
<1>14. InRange(h, 0, maxLargestUInt) /\ n \notin 0 .. maxLargestUInt <=> h = maxUInt64AsDouble
  BY <1>3, <1>5, <1>8, <1>10, Zenon
<1>15. /\ 2 * minInt <= h /\ h <= 2 * maxInt => InRange(h, minInt, maxInt)
       /\ 0 <= h /\ h <= 2 * maxUInt => InRange(h, 0, maxUInt)
  BY <1>3, <1>11, Zenon
<1>16. /\ Double(2 * minLargestInt) <= h /\ h < Double(2 * maxLargestInt) =>
               InRange(h, minLargestInt, maxLargestInt) /\ h # 2 * TwoTo[LargestBits - 1]
       /\ 0 <= h /\ h < maxUInt64AsDouble => InRange(h, 0, maxLargestUInt) /\ h # maxUInt64AsDouble
  BY <1>3, <1>5, <1>9, Zenon
<1>17. QED
  BY <1>12, <1>13, <1>14, <1>15, <1>16, Zenon DEF n

LEMMA AgreesReal == \A h \in Int : Agrees(Real_(h))
<1>1. SUFFICES ASSUME NEW h \in Int PROVE Agrees(Real_(h))
  OBVIOUS
<1> DEFINE v == Real_(h)
<1>2. v.type = "real" /\ v.num = h /\ \A x : v = Real_(x) <=> h = x
  BY DEF Real_
<1> HIDE DEF v
<1>3. v.type \notin {"boolean", "null"} /\ v.type \notin {"array", "object"} /\ v.type \in {"int", "uint", "real"}
  BY <1>2
<1>4. Whole(v) = Truncated(h) /\ IsNumeric(v)
  BY <1>2, <1>3, Zenon DEF Whole, IsNumeric
<1>5. \E x, y : AsBool(v) = Result(x) /\ AsString(v) = Result(y)
  BY <1>4, Zenon DEF AsBool, AsString
<1>6. /\ AsInt(v) = Cast(h, minInt, maxInt) /\ AsUInt(v) = Cast(h, 0, maxUInt)
      /\ AsInt64(v) = Cast(h, minLargestInt, maxLargestInt) /\ AsUInt64(v) = Cast(h, 0, maxLargestUInt)
      /\ AsDouble(v) = Result(h)
  BY <1>2, ReadReal, Zenon
<1>7. /\ IsInt(v) => 2 * minInt <= h /\ h <= 2 * maxInt
      /\ IsUInt(v) => 0 <= h /\ h <= 2 * maxUInt
      /\ IsInt64(v) => Double(2 * minLargestInt) <= h /\ h < Double(2 * maxLargestInt)
      /\ IsUInt64(v) => 0 <= h /\ h < maxUInt64AsDouble
  BY <1>2, Zenon DEF IsInt, IsUInt, IsInt64, IsUInt64
<1>8. /\ AsInt(v) # Throws <=> IsConvertibleTo(v, "int")
      /\ AsUInt(v) # Throws <=> IsConvertibleTo(v, "uint")
  <2>1. /\ IsConvertibleTo(v, "int") <=> IsInt(v) \/ InRange(h, minInt, maxInt)
        /\ IsConvertibleTo(v, "uint") <=> IsUInt(v) \/ InRange(h, 0, maxUInt)
    BY <1>2, <1>3, ConvertibleIs, Zenon
  <2>2. /\ IsInt(v) => InRange(h, minInt, maxInt)
        /\ IsUInt(v) => InRange(h, 0, maxUInt)
    BY <1>7, CastsOfDoubles, Zenon
  <2>3. /\ AsInt(v) # Throws <=> InRange(h, minInt, maxInt)
        /\ AsUInt(v) # Throws <=> InRange(h, 0, maxUInt)
    BY <1>6, CastIs, Zenon
  <2>4. QED
    BY <2>1, <2>2, <2>3, Zenon
<1>9. /\ AsDouble(v) # Throws <=> IsConvertibleTo(v, "real")
      /\ AsBool(v) # Throws <=> IsConvertibleTo(v, "boolean")
      /\ AsString(v) # Throws <=> IsConvertibleTo(v, "string")
  BY <1>3, <1>4, <1>5, <1>6, ConvertibleIs, ConversionOutcomes, Zenon
<1>10. \A min, max : Exact(v, Cast(h, min, max))
  BY <1>4, CastIs, Zenon DEF Exact
<1>11. AsInt(v) # Undefined_ /\ AsUInt(v) # Undefined_
  BY <1>6, CastIs, CastsOfDoubles, Zenon
<1>12. /\ AsInt64(v) = Undefined_ <=> v = Real_(2 * TwoTo[LargestBits - 1])
       /\ AsUInt64(v) = Undefined_ <=> v = Real_(maxUInt64AsDouble)
  <2>1. /\ AsInt64(v) = Undefined_ <=>
               InRange(h, minLargestInt, maxLargestInt) /\ Truncated(h) \notin minLargestInt .. maxLargestInt
        /\ AsUInt64(v) = Undefined_ <=> InRange(h, 0, maxLargestUInt) /\ Truncated(h) \notin 0 .. maxLargestUInt
    BY <1>6, CastIs, Zenon
  <2>2. /\ AsInt64(v) = Undefined_ <=> h = 2 * TwoTo[LargestBits - 1]
        /\ AsUInt64(v) = Undefined_ <=> h = maxUInt64AsDouble
    BY <2>1, CastsOfDoubles, Zenon
  <2>3. QED
    BY <1>2, <2>2, Zenon
<1>13. /\ IsInt64(v) => AsInt64(v).outcome = "value"
       /\ IsUInt64(v) => AsUInt64(v).outcome = "value"
  BY <1>6, <1>7, CastIs, CastsOfDoubles, Zenon
<1>14. Agrees(v)
  BY <1>6, <1>8, <1>9, <1>10, <1>11, <1>12, <1>13, Zenon DEF Agrees
<1>15. QED
  BY <1>14 DEF v

\* Conversions, for every width of the types and every token: they agree with
\* isConvertibleTo, they are exact, and a cast is undefined for two doubles only.
THEOREM ConversionsAgreeHolds == NumberSpec => []ConversionsAgree
<1>1. NumberInv => ConversionsAgree
  <2>1. SUFFICES ASSUME NumberInv
                 PROVE  \A v \in {decoded, NoNumber("null"), Bool_(TRUE), Bool_(FALSE),
                                  NoNumber("string"), NoNumber("array")} : Agrees(v)
    BY Zenon DEF ConversionsAgree, Agrees, Exact, Whole
  <2>2. Agrees(decoded)
    <3> DEFINE w == Written(digits)
    <3>1. negative \in BOOLEAN /\ w \in Nat /\ decoded = NumberOf(maxInt, negative, w, fraction)
      BY <2>1, DecodedNumbers, Zenon DEF NumberInv
    <3> HIDE DEF w
    <3>2. CASE fraction # "none" \/ w > Limit(negative)
      <4>1. decoded = Real_(Signed(negative, Rounded(2 * w + Half(fraction))))
        BY <3>1, <3>2, Zenon DEF NumberOf
      <4>2. 2 * w + Half(fraction) \in Nat
        BY <3>1 DEF Half
      <4>3. Rounded(2 * w + Half(fraction)) \in Nat
        BY <4>2, RoundedIs, Zenon
      <4>4. \A n \in Nat : Signed(negative, n) \in Int
        BY DEF Signed
      <4>5. QED
        BY <4>1, <4>3, <4>4, AgreesReal, Zenon
    <3>3. CASE ~(fraction # "none" \/ w > Limit(negative))
      <4>1. decoded \in {Int_(-w), Int_(w), UInt_(w)}
        BY <3>1, <3>3, Zenon DEF NumberOf
      <4>2. IsWhole(decoded)
        BY <4>1 DEF IsWhole, Int_, UInt_
      <4>3. QED
        BY <4>2, AgreesWhole, Zenon
    <3>4. QED
      BY <3>2, <3>3
  <2>3. \A v \in {NoNumber("null"), Bool_(TRUE), Bool_(FALSE), NoNumber("string"), NoNumber("array")} : IsOther(v)
    BY DEF IsOther, NoNumber, Bool_
  <2>4. QED
    BY <2>2, <2>3, AgreesOther, Zenon
<1>2. QED
  BY <1>1, NumberInvHolds, PTL

-----------------------------------------------------------------------------
(* Recursion that goes down in a measure.                                  *)

LEMMA MeasureInduction ==
    ASSUME NEW D, NEW m, \A x \in D : m[x] \in Nat, NEW S,
           \A x \in D : (\A y \in D : m[y] < m[x] => y \in S) => x \in S
    PROVE  \A x \in D : x \in S
<1> DEFINE N == {n \in Nat : \A x \in D : m[x] < n => x \in S}
<1>1. 0 \in N
  OBVIOUS
<1>2. ASSUME NEW n \in Nat, n \in N PROVE n + 1 \in N
  <2>1. ASSUME NEW x \in D, m[x] < n + 1 PROVE x \in S
    <3>1. \A y \in D : m[y] < m[x] => y \in S
      <4>1. ASSUME NEW y \in D, m[y] < m[x] PROVE m[y] < n
        <5>1. m[x] \in Nat /\ m[y] \in Nat
          OBVIOUS
        <5>2. QED
          BY <2>1, <4>1, <5>1
      <4>2. QED
        BY <1>2, <4>1
    <3>2. QED
      BY <3>1
  <2>2. QED
    BY <2>1
<1> HIDE DEF N
<1>3. \A n \in Nat : n \in N
  BY <1>1, <1>2, AllNumbers
<1>4. ASSUME NEW x \in D PROVE x \in S
  <2>1. m[x] + 1 \in Nat /\ m[x] < m[x] + 1
    OBVIOUS
  <2>2. m[x] + 1 \in N
    BY <1>3, <2>1
  <2>3. QED
    BY <2>1, <2>2 DEF N
<1>5. QED
  BY <1>4

\* A recursive definition, whose G takes a function to the function of what the
\* definition says of it, has a solution when G needs smaller arguments only.
DependsBelow(G, F, D, m) ==
    \A f, g \in F : \A x \in D : (\A y \in D : m[y] < m[x] => f[y] = g[y]) => G[f][x] = G[g][x]
FunctionsOn(F, D) == \A f \in F : f = [x \in D |-> f[x]]

Recursive(D, M, m, F, G) ==
    /\ M \in Nat /\ \A x \in D : m[x] \in 0 .. M
    /\ F # {} /\ FunctionsOn(F, D) /\ G \in [F -> F] /\ DependsBelow(G, F, D, m)

LEMMA MeasuredRecursion ==
    ASSUME NEW D, NEW M, NEW m, NEW F, NEW G, Recursive(D, M, m, F, G)
    PROVE  \E f \in F : f = G[f]
<1>0. /\ M \in Nat /\ \A x \in D : m[x] \in 0 .. M
      /\ F # {} /\ FunctionsOn(F, D) /\ G \in [F -> F] /\ DependsBelow(G, F, D, m)
  BY DEF Recursive
<1> DEFINE Right(n, f) == \A x \in D : m[x] < n => G[f][x] = f[x]
<1> DEFINE N == {n \in Nat : \E f \in F : Right(n, f)}
<1>1. 0 \in N
  BY <1>0
<1>2. ASSUME NEW n \in Nat, n \in N PROVE n + 1 \in N
  <2>1. PICK f \in F : Right(n, f)
    BY <1>2
  <2>2. G[f] \in F
    BY <1>0
  <2>3. ASSUME NEW x \in D, m[x] < n + 1 PROVE G[G[f]][x] = G[f][x]
    <3>1. ASSUME NEW y \in D, m[y] < m[x] PROVE G[f][y] = f[y]
      <4>1. m[x] \in Nat /\ m[y] \in Nat
        BY <1>0
      <4>2. m[y] < n
        BY <2>3, <3>1, <4>1
      <4>3. QED
        BY <2>1, <4>2
    <3>2. QED
      BY <1>0, <2>2, <3>1, Zenon DEF DependsBelow
  <2>4. QED
    BY <2>2, <2>3
<1>3. M + 1 \in N
  <2> HIDE DEF N
  <2>1. \A n \in Nat : n \in N
    BY <1>1, <1>2, AllNumbers
  <2>2. QED
    BY <1>0, <2>1
<1>4. PICK f \in F : Right(M + 1, f)
  BY <1>3
<1>5. \A x \in D : m[x] < M + 1
  BY <1>0
<1>6. \A x \in D : G[f][x] = f[x]
  BY <1>4, <1>5
<1>7. G[f] \in F /\ f = [x \in D |-> f[x]] /\ G[f] = [x \in D |-> G[f][x]]
  BY <1>0 DEF FunctionsOn
<1>8. f = G[f]
  BY <1>6, <1>7, Zenon
<1>9. QED
  BY <1>8

-----------------------------------------------------------------------------
(* Places in a document.                                                   *)

Places(doc) == 1 .. Len(doc) + 1

LEMMA AfterCommentsIs ==
    ASSUME NEW T, NEW doc \in Seq(T), NEW p \in Places(doc)
    PROVE  /\ AfterComments(doc, p) \in Places(doc) /\ AfterComments(doc, p) >= p
           /\ \A k \in p .. AfterComments(doc, p) - 1 : doc[k] = "/"
           /\ AfterComments(doc, p) <= Len(doc) => doc[AfterComments(doc, p)] # "/"
<1> DEFINE S == {i \in p .. Len(doc) : doc[i] # "/"}
<1> DEFINE q == IF S # {} THEN Min(S) ELSE 0
<1>0. Len(doc) \in Nat /\ p \in 1 .. Len(doc) + 1
  BY DEF Places
<1>1. AfterComments(doc, p) = IF q = 0 THEN Len(doc) + 1 ELSE q
  BY DEF AfterComments, SelectInSubSeq
<1>2. CASE S = {}
  <2>1. AfterComments(doc, p) = Len(doc) + 1
    BY <1>1, <1>2
  <2>2. \A k \in p .. Len(doc) : doc[k] = "/"
    BY <1>2
  <2>3. QED
    BY <1>0, <2>1, <2>2 DEF Places
<1>3. CASE S # {}
  <2>1. PICK i \in S : \A n \in S : i <= n
    <3>1. S \subseteq Nat
      BY <1>0
    <3> HIDE DEF S
    <3>2. QED
      BY <1>3, <3>1, Minimum
  <2>2. Min(S) \in S /\ \A n \in S : Min(S) <= n
    <3> HIDE DEF S
    <3>1. QED
      BY <2>1, Zenon DEF Min
  <2>3. q = Min(S)
    BY <1>3
  <2> HIDE DEF q
  <2>4. q \in p .. Len(doc) /\ doc[q] # "/" /\ q # 0
    BY <1>0, <2>2, <2>3
  <2>5. \A k \in p .. q - 1 : doc[k] = "/"
    <3>1. ASSUME NEW k \in p .. q - 1, doc[k] # "/" PROVE FALSE
      <4>1. k \in S /\ ~(q <= k)
        BY <1>0, <2>4, <3>1
      <4>2. QED
        BY <2>2, <2>3, <4>1
    <3>2. QED
      BY <3>1
  <2>6. AfterComments(doc, p) = q
    BY <1>1, <2>4
  <2>7. QED
    BY <1>0, <2>4, <2>5, <2>6 DEF Places
<1>4. QED
  BY <1>2, <1>3

LEMMA RecoveredIs ==
    ASSUME NEW T, NEW doc \in Seq(T), NEW p \in Places(doc), NEW until
    PROVE  Recovered(doc, p, until) \in Places(doc)
<1> DEFINE S == {i \in p .. Len(doc) : doc[i] = until}
<1> DEFINE q == IF S # {} THEN Min(S) ELSE 0
<1>0. Len(doc) \in Nat /\ p \in 1 .. Len(doc) + 1
  BY DEF Places
<1>1. Recovered(doc, p, until) = IF q = 0 THEN Len(doc) + 1 ELSE q + 1
  BY DEF Recovered, SelectInSubSeq
<1>2. CASE S = {}
  BY <1>0, <1>1, <1>2 DEF Places
<1>3. CASE S # {}
  <2>1. PICK i \in S : \A n \in S : i <= n
    <3>1. S \subseteq Nat
      BY <1>0
    <3> HIDE DEF S
    <3>2. QED
      BY <1>3, <3>1, Minimum
  <2>2. Min(S) \in S
    <3> HIDE DEF S
    <3>1. QED
      BY <2>1, Zenon DEF Min
  <2>3. q = Min(S)
    BY <1>3
  <2> HIDE DEF q
  <2>4. q \in p .. Len(doc)
    BY <2>2, <2>3
  <2>5. QED
    BY <1>0, <1>1, <2>4 DEF Places
<1>4. QED
  BY <1>2, <1>3

LEMMA NextPlace ==
    ASSUME NEW T, NEW doc \in Seq(T), NEW p \in Places(doc)
    PROVE  /\ Next_(doc, p) \in Places(doc) /\ Next_(doc, p) >= p
           /\ p <= Len(doc) => Next_(doc, p) = p + 1
           /\ p > Len(doc) => Next_(doc, p) = Len(doc) + 1
BY DEF Next_, Places

-----------------------------------------------------------------------------
(* The values that are read.                                               *)

Arrays(T) == [type : {"array"}, elements : Seq(T)]
Objects(names, T) == [type : {"object"}, members : UNION {[S -> T] : S \in SUBSET names}]
Level(names, leaves, T) == leaves \cup Arrays(T) \cup Objects(names, T)

\* The values of at most n levels, for n up to StackLimit.
Trees(names, leaves) ==
    LET tree[n \in 0 .. StackLimit] == IF n = 0 THEN {} ELSE Level(names, leaves, tree[n - 1]) IN tree

LEMMA TreesAre ==
    ASSUME NEW names, NEW leaves
    PROVE  /\ Trees(names, leaves)[0] = {}
           /\ \A n \in 1 .. StackLimit :
                Trees(names, leaves)[n] = Level(names, leaves, Trees(names, leaves)[n - 1])
<1> DEFINE Step(f, n) == IF n = 0 THEN {} ELSE Level(names, leaves, f[n - 1])
<1> DEFINE P(k, f) == f = [n \in 0 .. k |-> Step(f, n)]
<1> DEFINE N == {k \in Nat : \E f : P(k, f)}
<1>0. StackLimit \in Nat
  BY ReaderAssumption
<1>1. 0 \in N
  <2> DEFINE f == [n \in 0 .. 0 |-> {}]
  <2>1. P(0, f)
    OBVIOUS
  <2>2. QED
    BY <2>1
<1>2. ASSUME NEW k \in Nat, k \in N PROVE k + 1 \in N
  <2>1. PICK f : P(k, f)
    BY <1>2
  <2> DEFINE g == [n \in 0 .. k + 1 |-> Step(f, n)]
  <2> HIDE DEF Step
  <2>2. \A n \in 0 .. k : g[n] = f[n]
    BY <2>1
  <2>3. \A n \in 0 .. k + 1 : Step(g, n) = Step(f, n)
    <3>1. ASSUME NEW n \in 0 .. k + 1 PROVE Step(g, n) = Step(f, n)
      <4>1. n = 0 \/ n - 1 \in 0 .. k
        OBVIOUS
      <4>2. CASE n = 0
        BY <4>2, Zenon DEF Step
      <4>3. CASE n # 0
        <5>1. g[n - 1] = f[n - 1]
          BY <2>2, <4>1, <4>3
        <5>2. Step(g, n) = Level(names, leaves, g[n - 1]) /\ Step(f, n) = Level(names, leaves, f[n - 1])
          BY <4>3 DEF Step
        <5>3. QED
          BY <5>1, <5>2, Zenon
      <4>4. QED
        BY <4>2, <4>3
    <3>2. QED
      BY <3>1
  <2>4. P(k + 1, g)
    BY <2>3
  <2> HIDE DEF P, g
  <2>5. QED
    BY <2>4
<1>3. \A k \in Nat : k \in N
  <2> HIDE DEF N
  <2>1. QED
    BY <1>1, <1>2, AllNumbers
<1>4. \E f : P(StackLimit, f)
  BY <1>0, <1>3
<1>5. Trees(names, leaves) = CHOOSE f : P(StackLimit, f)
  BY Zenon DEF Trees
<1> DEFINE tree == Trees(names, leaves)
<1>6. P(StackLimit, tree)
  <2> HIDE DEF P
  <2>1. QED
    BY <1>4, <1>5, Zenon
<1> HIDE DEF tree, Step
<1>7. \A n \in 0 .. StackLimit : tree[n] = Step(tree, n)
  BY <1>6
<1>8. /\ tree[0] = {}
      /\ \A n \in 1 .. StackLimit : tree[n] = Level(names, leaves, tree[n - 1])
  <2>1. 0 \in 0 .. StackLimit /\ \A n \in 1 .. StackLimit : n \in 0 .. StackLimit /\ n # 0
    BY <1>0
  <2>2. QED
    BY <1>7, <2>1, Zenon DEF Step
<1>9. QED
  BY <1>8 DEF tree

LEMMA LevelGrows ==
    ASSUME NEW names, NEW leaves, NEW T, NEW U, T \subseteq U
    PROVE  /\ Arrays(T) \subseteq Arrays(U) /\ Objects(names, T) \subseteq Objects(names, U)
           /\ Level(names, leaves, T) \subseteq Level(names, leaves, U)
<1>1. Seq(T) \subseteq Seq(U)
  <2>1. ASSUME NEW s \in Seq(T) PROVE s \in Seq(U)
    <3>1. Len(s) \in Nat /\ s = [i \in 1 .. Len(s) |-> s[i]] /\ \A i \in 1 .. Len(s) : s[i] \in U
      OBVIOUS
    <3>2. s \in [1 .. Len(s) -> U]
      BY <3>1, Zenon
    <3>3. QED
      BY <3>1, <3>2, SeqDef
  <2>2. QED
    BY <2>1
<1>2. UNION {[S -> T] : S \in SUBSET names} \subseteq UNION {[S -> U] : S \in SUBSET names}
  <2>1. ASSUME NEW S \in SUBSET names, NEW f \in [S -> T]
        PROVE  \E R \in SUBSET names : f \in [R -> U]
    <3>1. f \in [S -> U]
      OBVIOUS
    <3>2. QED
      BY <3>1
  <2>2. QED
    BY <2>1
<1>3. Arrays(T) \subseteq Arrays(U)
  BY <1>1 DEF Arrays
<1>4. Objects(names, T) \subseteq Objects(names, U)
  <2> DEFINE A == UNION {[S -> T] : S \in SUBSET names}
  <2> DEFINE B == UNION {[S -> U] : S \in SUBSET names}
  <2>1. A \subseteq B
    BY <1>2
  <2>2. Objects(names, T) = [type : {"object"}, members : A] /\ Objects(names, U) = [type : {"object"}, members : B]
    BY DEF Objects
  <2> HIDE DEF A, B
  <2>3. QED
    BY <2>1, <2>2
<1>5. QED
  BY <1>3, <1>4 DEF Level

LEMMA TreesGrow ==
    ASSUME NEW names, NEW leaves
    PROVE  \A n \in 1 .. StackLimit : Trees(names, leaves)[n - 1] \subseteq Trees(names, leaves)[n]
<1> DEFINE tree == Trees(names, leaves)
<1> DEFINE N == {n \in Nat : n + 1 \in 1 .. StackLimit => tree[n] \subseteq tree[n + 1]}
<1>0. StackLimit \in Nat
  BY ReaderAssumption
<1> HIDE DEF tree
<1>t. tree[0] = {} /\ \A n \in 1 .. StackLimit : tree[n] = Level(names, leaves, tree[n - 1])
  BY TreesAre DEF tree
<1>1. 0 \in N
  BY <1>t
<1>2. ASSUME NEW n \in Nat, n \in N PROVE n + 1 \in N
  <2>1. SUFFICES ASSUME n + 1 + 1 \in 1 .. StackLimit PROVE tree[n + 1] \subseteq tree[n + 1 + 1]
    OBVIOUS
  <2>2. n + 1 \in 1 .. StackLimit /\ n + 1 - 1 = n /\ n + 1 + 1 - 1 = n + 1
    BY <1>0, <2>1
  <2>3. tree[n] \subseteq tree[n + 1]
    BY <1>2, <2>2
  <2>4. tree[n + 1] = Level(names, leaves, tree[n]) /\ tree[n + 1 + 1] = Level(names, leaves, tree[n + 1])
    BY <1>t, <2>1, <2>2
  <2>5. QED
    BY <2>3, <2>4, LevelGrows
<1>3. \A n \in Nat : n \in N
  <2> HIDE DEF N
  <2>1. QED
    BY <1>1, <1>2, AllNumbers
<1>4. ASSUME NEW n \in 1 .. StackLimit PROVE tree[n - 1] \subseteq tree[n]
  <2>1. n - 1 \in Nat /\ n - 1 + 1 = n
    OBVIOUS
  <2>2. n - 1 \in N
    BY <1>3, <2>1
  <2>3. QED
    BY <2>1, <2>2
<1>5. QED
  BY <1>4 DEF tree

LEMMA TreesWithin ==
    ASSUME NEW names, NEW leaves
    PROVE  \A n \in 0 .. StackLimit : Trees(names, leaves)[n] \subseteq Trees(names, leaves)[StackLimit]
<1> DEFINE tree == Trees(names, leaves)
<1> DEFINE N == {k \in Nat : k <= StackLimit => tree[StackLimit - k] \subseteq tree[StackLimit]}
<1>0. StackLimit \in Nat
  BY ReaderAssumption
<1> HIDE DEF tree
<1>t. \A n \in 1 .. StackLimit : tree[n - 1] \subseteq tree[n]
  BY TreesGrow DEF tree
<1>1. 0 \in N
  BY <1>0
<1>2. ASSUME NEW k \in Nat, k \in N PROVE k + 1 \in N
  <2>1. SUFFICES ASSUME k + 1 <= StackLimit PROVE tree[StackLimit - (k + 1)] \subseteq tree[StackLimit]
    OBVIOUS
  <2>2. StackLimit - k \in 1 .. StackLimit /\ StackLimit - k - 1 = StackLimit - (k + 1) /\ k <= StackLimit
    BY <1>0, <2>1
  <2>3. QED
    BY <1>2, <1>t, <2>2
<1>3. \A n \in Nat : n \in N
  <2> HIDE DEF N
  <2>1. QED
    BY <1>1, <1>2, AllNumbers
<1>4. ASSUME NEW n \in 0 .. StackLimit PROVE tree[n] \subseteq tree[StackLimit]
  <2>1. StackLimit - n \in Nat /\ StackLimit - n <= StackLimit /\ StackLimit - (StackLimit - n) = n
    BY <1>0
  <2>2. StackLimit - n \in N
    BY <1>3, <2>1
  <2>3. QED
    BY <2>1, <2>2
<1>5. QED
  BY <1>4 DEF tree

-----------------------------------------------------------------------------
(* The results of a read: a value and the place after it, or one error, or *)
(* the exception.                                                          *)

Successes(doc, p, V) == [ok : {TRUE}, value : V, at : p .. Len(doc) + 1, errors : {<<>>}, thrown : {FALSE}]
Failures(doc) == [ok : {FALSE}, value : {NullValue}, at : Places(doc), errors : {<<e>> : e \in Places(doc)},
                  thrown : {FALSE}]
Outcomes(doc, p, V) == Successes(doc, p, V) \cup Failures(doc) \cup {Thrown}

LEMMA OutcomeIs ==
    ASSUME NEW T, NEW doc \in Seq(T), NEW p \in Places(doc), NEW V, NEW r \in Outcomes(doc, p, V)
    PROVE  /\ r.ok \in BOOLEAN /\ r.thrown \in BOOLEAN /\ r.at \in Places(doc)
           /\ r.ok => /\ r.value \in V /\ r.at >= p /\ r = Success(r.value, r.at)
                      /\ r.errors = <<>> /\ ~r.thrown
           /\ r.thrown => r = Thrown
           /\ ~r.ok /\ ~r.thrown => \E e \in Places(doc) : r = Failure(r.at, <<e>>) /\ r.errors = <<e>>
<1>0. Len(doc) \in Nat /\ p \in 1 .. Len(doc) + 1 /\ 1 \in Places(doc)
  BY DEF Places
<1>1. CASE r \in Successes(doc, p, V)
  <2>1. /\ r.ok = TRUE /\ r.value \in V /\ r.at \in p .. Len(doc) + 1 /\ r.errors = <<>> /\ r.thrown = FALSE
        /\ r = Success(r.value, r.at)
    BY <1>1 DEF Success, Successes
  <2>2. r.at \in Places(doc) /\ r.at >= p
    BY <1>0, <2>1 DEF Places
  <2>3. QED
    BY <2>1, <2>2
<1>2. CASE r \in Failures(doc)
  <2>1. /\ r.ok = FALSE /\ r.at \in Places(doc) /\ r.errors \in {<<e>> : e \in Places(doc)} /\ r.thrown = FALSE
        /\ r = Failure(r.at, r.errors)
    BY <1>2 DEF Failure, Failures
  <2>2. PICK e \in Places(doc) : r.errors = <<e>>
    BY <2>1
  <2>3. QED
    BY <2>1, <2>2
<1>3. CASE r = Thrown
  <2>1. r.ok = FALSE /\ r.at = 1 /\ r.thrown = TRUE
    BY <1>3 DEF Thrown
  <2>2. QED
    BY <1>0, <1>3, <2>1
<1>4. QED
  BY <1>1, <1>2, <1>3 DEF Outcomes

LEMMA SuccessIs ==
    ASSUME NEW T, NEW doc \in Seq(T), NEW p \in Places(doc), NEW V, NEW v \in V, NEW q \in Places(doc), q >= p
    PROVE  Success(v, q) \in Outcomes(doc, p, V)
<1>1. q \in p .. Len(doc) + 1
  BY DEF Places
<1>2. Success(v, q) \in Successes(doc, p, V)
  BY <1>1 DEF Success, Successes
<1>3. QED
  BY <1>2 DEF Outcomes

LEMMA FailureIs ==
    ASSUME NEW doc, NEW p, NEW V, NEW q \in Places(doc), NEW e \in Places(doc)
    PROVE  Failure(q, <<e>>) \in Outcomes(doc, p, V)
<1>1. <<e>> \in {<<i>> : i \in Places(doc)}
  OBVIOUS
<1>2. Failure(q, <<e>>) \in Failures(doc)
  BY <1>1 DEF Failure, Failures
<1>3. QED
  BY <1>2 DEF Outcomes

LEMMA ThrownIs ==
    ASSUME NEW doc, NEW p, NEW V
    PROVE  Thrown \in Outcomes(doc, p, V)
BY DEF Outcomes

LEMMA NotReadIs ==
    ASSUME NEW T, NEW doc \in Seq(T), NEW o \in Places(doc), NEW U, NEW r \in Outcomes(doc, o, U), ~r.ok,
           NEW p, NEW V
    PROVE  r \in Outcomes(doc, p, V)
<1>1. CASE r.thrown
  <2>1. r = Thrown
    BY <1>1, OutcomeIs
  <2>2. QED
    BY <2>1, ThrownIs
<1>2. CASE ~r.thrown
  <2>1. r.at \in Places(doc) /\ \E e \in Places(doc) : r = Failure(r.at, <<e>>)
    BY <1>2, OutcomeIs
  <2>2. QED
    BY <2>1, FailureIs, Zenon
<1>3. QED
  BY <1>1, <1>2

LEMMA ErrorIs ==
    ASSUME NEW T, NEW doc \in Seq(T), NEW p, NEW V, NEW e \in Places(doc), NEW until
    PROVE  AddErrorAndRecover(doc, e, until) \in Outcomes(doc, p, V)
<1>1. Next_(doc, e) \in Places(doc)
  BY NextPlace
<1>2. Recovered(doc, Next_(doc, e), until) \in Places(doc)
  BY <1>1, RecoveredIs
<1>3. QED
  BY <1>2, FailureIs DEF AddErrorAndRecover

Failed(doc, r) ==
    /\ r.thrown \in BOOLEAN /\ r.at \in Places(doc) /\ (r.thrown => r = Thrown)
    /\ ~r.thrown => \E e \in Places(doc) : r.errors = <<e>>

LEMMA FailedOutcomeIs ==
    ASSUME NEW T, NEW doc \in Seq(T), NEW p \in Places(doc), NEW V, NEW r \in Outcomes(doc, p, V), ~r.ok
    PROVE  Failed(doc, r)
<1>1. CASE r \in Failures(doc)
  <2>1. r.at \in Places(doc) /\ r.thrown = FALSE /\ r.errors \in {<<e>> : e \in Places(doc)}
    BY <1>1 DEF Failures
  <2>2. PICK e \in Places(doc) : r.errors = <<e>>
    BY <2>1
  <2>3. QED
    BY <2>1, <2>2, Zenon DEF Failed
<1>2. CASE r = Thrown
  <2>1. 1 \in Places(doc)
    BY DEF Places
  <2>2. r.at \in Places(doc) /\ r.thrown = TRUE
    BY <1>2, <2>1 DEF Thrown
  <2>3. QED
    BY <1>2, <2>2, Zenon DEF Failed
<1>3. CASE r \in Successes(doc, p, V)
  BY <1>3 DEF Successes
<1>4. QED
  BY <1>1, <1>2, <1>3, Zenon DEF Outcomes

LEMMA FailedInsideIs ==
    ASSUME NEW T, NEW doc \in Seq(T), NEW o \in Places(doc), NEW U, NEW child \in Outcomes(doc, o, U), ~child.ok,
           NEW until, NEW p, NEW V
    PROVE  /\ FailedInside(doc, child, until) \in Outcomes(doc, p, V)
           /\ ~FailedInside(doc, child, until).ok
           /\ FailedInside(doc, child, until).thrown <=> child.thrown
<1>0. Failed(doc, child)
  BY FailedOutcomeIs
<1>1. /\ child.thrown \in BOOLEAN /\ child.at \in Places(doc) /\ (child.thrown => child = Thrown)
      /\ ~child.thrown => \E e \in Places(doc) : child.errors = <<e>>
  BY <1>0, Zenon DEF Failed
<1>2. CASE child.thrown
  <2>1. FailedInside(doc, child, until) = Thrown /\ Thrown.ok = FALSE /\ Thrown.thrown = TRUE
    BY <1>1, <1>2 DEF FailedInside, Thrown
  <2>2. QED
    BY <1>2, <2>1, ThrownIs
<1>3. CASE ~child.thrown
  <2>1. PICK e \in Places(doc) : child.errors = <<e>>
    BY <1>1, <1>3
  <2> DEFINE q == Recovered(doc, child.at, until)
  <2>2. q \in Places(doc)
    BY <1>1, RecoveredIs
  <2>3. FailedInside(doc, child, until) = Failure(q, <<e>>)
    BY <1>3, <2>1 DEF FailedInside
  <2> HIDE DEF q
  <2>4. Failure(q, <<e>>).ok = FALSE /\ Failure(q, <<e>>).thrown = FALSE
    BY DEF Failure
  <2>5. QED
    BY <1>3, <2>2, <2>3, <2>4, FailureIs
<1>4. QED
  BY <1>1, <1>2, <1>3

LEMMA NewMembers ==
    ASSUME NEW names, NEW T, NEW name \in names, NEW v \in T, NEW following,
           ObjectValue(following) \in Objects(names, T)
    PROVE  ObjectValue(WithMember(name, v, following)) \in Objects(names, T)
<1>1. following \in UNION {[S -> T] : S \in SUBSET names}
  BY DEF ObjectValue, Objects
<1>2. PICK S \in SUBSET names : following \in [S -> T]
  BY <1>1
<1>3. WithMember(name, v, following) \in [({name} \cup S) -> T]
  BY <1>2 DEF WithMember
<1>4. {name} \cup S \in SUBSET names
  OBVIOUS
<1>5. WithMember(name, v, following) \in UNION {[R -> T] : R \in SUBSET names}
  BY <1>3, <1>4, Zenon
<1>6. QED
  BY <1>5 DEF ObjectValue, Objects

LEMMA NoMembersIs ==
    ASSUME NEW names, NEW T
    PROVE  ObjectValue(NoMembers) \in Objects(names, T)
<1>1. NoMembers \in [{} -> T]
  BY DEF NoMembers
<1>2. {} \in SUBSET names
  OBVIOUS
<1>3. NoMembers \in UNION {[R -> T] : R \in SUBSET names}
  BY <1>1, <1>2, Zenon
<1>4. QED
  BY <1>3 DEF ObjectValue, Objects

LEMMA FromMemberIs ==
    ASSUME NEW D, NEW doc \in Seq(D), NEW p \in Places(doc), NEW q \in Places(doc), q >= p,
           NEW names, NEW T, NEW name \in names, NEW v \in T, NEW rest \in Outcomes(doc, q, Objects(names, T))
    PROVE  /\ FromMember(name, v, rest) \in Outcomes(doc, p, Objects(names, T))
           /\ FromMember(name, v, rest).ok = rest.ok /\ FromMember(name, v, rest).thrown = rest.thrown
           /\ FromMember(name, v, rest).at = rest.at
<1>0. /\ rest.ok \in BOOLEAN /\ rest.at \in Places(doc)
      /\ (rest.ok => rest.value \in Objects(names, T) /\ rest.at >= q /\ rest.thrown = FALSE)
  <2>1. rest.thrown \in BOOLEAN
    BY OutcomeIs
  <2>2. QED
    BY <2>1, OutcomeIs
<1>1. CASE rest.ok
  <2> DEFINE new == ObjectValue(WithMember(name, v, rest.value.members))
  <2>1. rest.value = ObjectValue(rest.value.members)
    BY <1>0, <1>1 DEF Objects, ObjectValue
  <2>2. new \in Objects(names, T)
    BY <1>0, <1>1, <2>1, NewMembers
  <2> HIDE DEF new
  <2>3. FromMember(name, v, rest) = Success(new, rest.at)
    BY <1>1 DEF FromMember, new
  <2>4. rest.at >= p
    BY <1>0, <1>1 DEF Places
  <2>5. Success(new, rest.at) \in Outcomes(doc, p, Objects(names, T))
    BY <1>0, <2>2, <2>4, SuccessIs
  <2>6. Success(new, rest.at).ok = TRUE /\ Success(new, rest.at).thrown = FALSE /\ Success(new, rest.at).at = rest.at
    BY DEF Success
  <2>7. QED
    BY <1>0, <1>1, <2>3, <2>5, <2>6
<1>2. CASE ~rest.ok
  <2>1. FromMember(name, v, rest) = rest
    BY <1>2 DEF FromMember
  <2>2. rest \in Outcomes(doc, p, Objects(names, T))
    BY <1>2, NotReadIs
  <2>3. QED
    BY <2>1, <2>2
<1>3. QED
  BY <1>0, <1>1, <1>2

LEMMA FromElementIs ==
    ASSUME NEW D, NEW doc \in Seq(D), NEW p \in Places(doc), NEW q \in Places(doc), q >= p,
           NEW T, NEW v \in T, NEW rest \in Outcomes(doc, q, Arrays(T))
    PROVE  /\ FromElement(v, rest) \in Outcomes(doc, p, Arrays(T))
           /\ FromElement(v, rest).ok = rest.ok /\ FromElement(v, rest).thrown = rest.thrown
           /\ FromElement(v, rest).at = rest.at
<1>0. /\ rest.ok \in BOOLEAN /\ rest.at \in Places(doc)
      /\ (rest.ok => rest.value \in Arrays(T) /\ rest.at >= q /\ rest.thrown = FALSE)
  <2>1. rest.thrown \in BOOLEAN
    BY OutcomeIs
  <2>2. QED
    BY <2>1, OutcomeIs
<1>1. CASE rest.ok
  <2> DEFINE new == ArrayValue(<<v>> \o rest.value.elements)
  <2>1. rest.value.elements \in Seq(T)
    BY <1>0, <1>1 DEF Arrays
  <2>2. new \in Arrays(T)
    <3>1. <<v>> \o rest.value.elements \in Seq(T)
      BY <2>1
    <3>2. QED
      BY <3>1 DEF ArrayValue, Arrays
  <2> HIDE DEF new
  <2>3. FromElement(v, rest) = Success(new, rest.at)
    BY <1>1 DEF FromElement, new
  <2>4. rest.at >= p
    BY <1>0, <1>1 DEF Places
  <2>5. Success(new, rest.at) \in Outcomes(doc, p, Arrays(T))
    BY <1>0, <2>2, <2>4, SuccessIs
  <2>6. Success(new, rest.at).ok = TRUE /\ Success(new, rest.at).thrown = FALSE /\ Success(new, rest.at).at = rest.at
    BY DEF Success
  <2>7. QED
    BY <1>0, <1>1, <2>3, <2>5, <2>6
<1>2. CASE ~rest.ok
  <2>1. FromElement(v, rest) = rest
    BY <1>2 DEF FromElement
  <2>2. rest \in Outcomes(doc, p, Arrays(T))
    BY <1>2, NotReadIs
  <2>3. QED
    BY <2>1, <2>2
<1>3. QED
  BY <1>0, <1>1, <1>2

LEMMA OneElementIs ==
    ASSUME NEW T, NEW v \in T
    PROVE  ArrayValue(<<v>>) \in Arrays(T) /\ ArrayValue(<<>>) \in Arrays(T)
BY DEF ArrayValue, Arrays

-----------------------------------------------------------------------------
(* What a call of a reader gives, from the place and the depth on which it *)
(* is called; and the measure that every call inside another one reduces.  *)

CallValues(names, tree, c) ==
    IF c[1] = "value" THEN tree[StackLimit + 1 - c[3]]
    ELSE IF c[1] = "object" THEN Objects(names, tree[StackLimit - c[3]])
    ELSE Arrays(tree[StackLimit - c[3]])
CallOutcomes(doc, names, tree, c) == Outcomes(doc, c[2], CallValues(names, tree, c))
Readers(doc, D, names, tree) ==
    {f \in [D -> Outcomes(doc, 1, tree[StackLimit])] : \A c \in D : f[c] \in CallOutcomes(doc, names, tree, c)}
Measure(doc, c) == 2 * (Len(doc) + 2 - c[2]) + (IF c[1] = "value" THEN 0 ELSE 1)
IsCall(doc, c) == /\ c[1] \in {"value", "object", "array"} /\ c[2] \in Places(doc) /\ c[3] \in 1 .. StackLimit + 1
                  /\ c[1] = "value" \/ c[3] <= StackLimit

LEMMA CallOutcomesWithin ==
    ASSUME NEW T, NEW doc \in Seq(T), NEW c, IsCall(doc, c), NEW names, NEW leaves
    PROVE  CallOutcomes(doc, names, Trees(names, leaves), c)
               \subseteq Outcomes(doc, 1, Trees(names, leaves)[StackLimit])
<1> DEFINE tree == Trees(names, leaves)
<1> DEFINE V == CallValues(names, tree, c)
<1>0. StackLimit \in Nat /\ Len(doc) \in Nat
  BY ReaderAssumption
<1>1. V \subseteq tree[StackLimit]
  <2> HIDE DEF tree
  <2>1. \A n \in 0 .. StackLimit : tree[n] \subseteq tree[StackLimit]
    BY TreesWithin DEF tree
  <2>2. \A n \in 1 .. StackLimit : tree[n] = Level(names, leaves, tree[n - 1])
    BY TreesAre DEF tree
  <2>3. CASE c[1] = "value"
    <3>1. V = tree[StackLimit + 1 - c[3]]
      BY <2>3 DEF CallValues
    <3>2. StackLimit + 1 - c[3] \in 0 .. StackLimit
      BY <1>0 DEF IsCall
    <3> HIDE DEF V
    <3>3. QED
      BY <2>1, <3>1, <3>2
  <2>4. CASE c[1] # "value"
    <3>1. StackLimit + 1 - c[3] \in 1 .. StackLimit /\ (StackLimit + 1 - c[3]) - 1 = StackLimit - c[3]
      BY <1>0, <2>4 DEF IsCall
    <3>2. tree[StackLimit + 1 - c[3]] = Level(names, leaves, tree[StackLimit - c[3]])
      <4> DEFINE n == StackLimit + 1 - c[3]
      <4>1. n \in 1 .. StackLimit /\ n - 1 = StackLimit - c[3]
        BY <3>1
      <4> HIDE DEF n
      <4>2. tree[n] = Level(names, leaves, tree[n - 1])
        BY <2>2, <4>1
      <4>3. tree[n] = Level(names, leaves, tree[StackLimit - c[3]])
        BY <4>1, <4>2, Zenon
      <4>4. QED
        BY <4>3 DEF n
    <3>3. V \subseteq Level(names, leaves, tree[StackLimit - c[3]])
      BY <2>4 DEF CallValues, Level
    <3>4. tree[StackLimit + 1 - c[3]] \subseteq tree[StackLimit]
      BY <1>0, <2>1, <3>1
    <3> HIDE DEF V
    <3>5. QED
      BY <3>2, <3>3, <3>4
  <2>5. QED
    BY <2>3, <2>4
<1> HIDE DEF V
<1>2. c[2] .. Len(doc) + 1 \subseteq 1 .. Len(doc) + 1
  BY <1>0 DEF IsCall, Places
<1>3. Successes(doc, c[2], V) \subseteq Successes(doc, 1, tree[StackLimit])
  BY <1>1, <1>2 DEF Successes
<1>4. Outcomes(doc, c[2], V) \subseteq Outcomes(doc, 1, tree[StackLimit])
  BY <1>3 DEF Outcomes
<1>5. QED
  BY <1>4 DEF CallOutcomes, V

LEMMA ReadersIs ==
    ASSUME NEW T, NEW doc \in Seq(T), NEW D, \A c \in D : IsCall(doc, c), NEW names, NEW leaves,
           NEW f, f = [c \in D |-> f[c]], \A c \in D : f[c] \in CallOutcomes(doc, names, Trees(names, leaves), c)
    PROVE  f \in Readers(doc, D, names, Trees(names, leaves))
<1> DEFINE R == Outcomes(doc, 1, Trees(names, leaves)[StackLimit])
<1>1. \A c \in D : f[c] \in R
  BY CallOutcomesWithin
<1> HIDE DEF R
<1>2. f \in [D -> R]
  BY <1>1
<1>3. QED
  BY <1>2 DEF Readers, R

\* A reader, as a recursive definition says it, from what it says of functions
\* that give outcomes.
LEMMA ReaderExists ==
    ASSUME NEW T, NEW doc \in Seq(T), NEW D, \A c \in D : IsCall(doc, c), NEW names, NEW leaves,
           NEW G, G = [f \in Readers(doc, D, names, Trees(names, leaves)) |-> G[f]],
           \A f \in Readers(doc, D, names, Trees(names, leaves)) :
               /\ G[f] = [c \in D |-> G[f][c]]
               /\ \A c \in D : G[f][c] \in CallOutcomes(doc, names, Trees(names, leaves), c),
           \A f, g \in Readers(doc, D, names, Trees(names, leaves)) : \A c \in D :
               (\A y \in D : Measure(doc, y) < Measure(doc, c) => f[y] = g[y]) => G[f][c] = G[g][c]
    PROVE  \E f \in Readers(doc, D, names, Trees(names, leaves)) : f = G[f]
<1> DEFINE F == Readers(doc, D, names, Trees(names, leaves))
<1> DEFINE m == [c \in D |-> Measure(doc, c)]
<1> DEFINE M == 2 * (Len(doc) + 2) + 1
<1>0. Len(doc) \in Nat /\ M \in Nat
  OBVIOUS
<1>1. \A c \in D : m[c] \in 0 .. M
  BY <1>0 DEF IsCall, Measure, Places
<1>2. F # {}
  <2> DEFINE f == [c \in D |-> Thrown]
  <2>1. \A c \in D : f[c] \in CallOutcomes(doc, names, Trees(names, leaves), c)
    BY ThrownIs DEF CallOutcomes
  <2>2. f = [c \in D |-> f[c]]
    OBVIOUS
  <2> HIDE DEF f
  <2>3. QED
    BY <2>1, <2>2, ReadersIs
<1>3. FunctionsOn(F, D)
  BY DEF FunctionsOn, Readers
<1>4. ASSUME NEW f \in F PROVE G[f] \in F
  BY <1>4, ReadersIs
<1>5. DependsBelow(G, F, D, m)
  <2>1. ASSUME NEW f \in F, NEW g \in F, NEW x \in D, \A y \in D : m[y] < m[x] => f[y] = g[y]
        PROVE  G[f][x] = G[g][x]
    <3>1. \A y \in D : Measure(doc, y) < Measure(doc, x) => f[y] = g[y]
      BY <2>1
    <3>2. QED
      BY <3>1
  <2> HIDE DEF m, F
  <2>2. QED
    BY <2>1 DEF DependsBelow
<1> HIDE DEF F, m, M
<1>6. G \in [F -> F]
  <2>1. G = [f \in F |-> G[f]]
    BY DEF F
  <2>2. QED
    BY <1>4, <2>1
<1>7. \E f \in F : f = G[f]
  <2>1. Recursive(D, M, m, F, G)
    BY <1>0, <1>1, <1>2, <1>3, <1>5, <1>6 DEF Recursive
  <2>2. QED
    BY <2>1, MeasuredRecursion
<1>8. QED
  BY <1>7 DEF F

-----------------------------------------------------------------------------
(* Reader.                                                                 *)

ReaderLeaves == [type : {"scalar"}, text : Strings \cup Scalars]
ReaderTree == Trees(Strings, ReaderLeaves)
ReaderOutcomes(doc, c) == CallOutcomes(doc, Strings, ReaderTree, c)
ReaderReads(doc) == Readers(doc, Calls(doc), Strings, ReaderTree)

LEMMA CallIs ==
    ASSUME NEW T, NEW doc \in Seq(T), NEW c \in Calls(doc)
    PROVE  IsCall(doc, c) /\ c[4] \in BOOLEAN /\ c = <<c[1], c[2], c[3], c[4]>>
<1>1. c \in {"value", "object", "array"} \X (1 .. Len(doc) + 1) \X (1 .. StackLimit + 1) \X BOOLEAN
  BY DEF Calls
<1>2. c[1] = "value" \/ c[3] <= StackLimit
  BY DEF Calls
<1>3. QED
  BY <1>1, <1>2 DEF IsCall, Places

LEMMA CallsAre ==
    ASSUME NEW T, NEW doc \in Seq(T), NEW q \in Places(doc), NEW d \in 1 .. StackLimit + 1, NEW b \in BOOLEAN
    PROVE  /\ <<"value", q, d, b>> \in Calls(doc)
           /\ d <= StackLimit => <<"object", q, d, b>> \in Calls(doc) /\ <<"array", q, d, b>> \in Calls(doc)
BY DEF Calls, Places

LEMMA TokenIs ==
    ASSUME NEW T, NEW doc \in Seq(T), NEW q \in Places(doc), Token(doc, q) # "end"
    PROVE  q <= Len(doc) /\ q + 1 \in Places(doc) /\ Token(doc, q) = doc[q] /\ q \in 1 .. Len(doc)
BY DEF Token, Places

LEMMA LeafIs ==
    ASSUME NEW names, NEW leaves, NEW d \in 1 .. StackLimit, NEW v \in leaves
    PROVE  v \in Trees(names, leaves)[StackLimit + 1 - d]
<1>1. StackLimit + 1 - d \in 1 .. StackLimit
  BY ReaderAssumption
<1>2. QED
  BY <1>1, TreesAre DEF Level

LEMMA CallValueIs ==
    ASSUME NEW names, NEW leaves, NEW d \in 1 .. StackLimit
    PROVE  /\ Objects(names, Trees(names, leaves)[StackLimit - d]) \subseteq Trees(names, leaves)[StackLimit + 1 - d]
           /\ Arrays(Trees(names, leaves)[StackLimit - d]) \subseteq Trees(names, leaves)[StackLimit + 1 - d]
<1>1. StackLimit + 1 - d \in 1 .. StackLimit /\ (StackLimit + 1 - d) - 1 = StackLimit - d
  BY ReaderAssumption
<1>2. Trees(names, leaves)[StackLimit + 1 - d] = Level(names, leaves, Trees(names, leaves)[StackLimit - d])
  <2> DEFINE n == StackLimit + 1 - d
  <2>1. n \in 1 .. StackLimit /\ n - 1 = StackLimit - d
    BY <1>1
  <2> HIDE DEF n
  <2>2. Trees(names, leaves)[n] = Level(names, leaves, Trees(names, leaves)[n - 1])
    BY <2>1, TreesAre
  <2>3. Trees(names, leaves)[n] = Level(names, leaves, Trees(names, leaves)[StackLimit - d])
    BY <2>1, <2>2, Zenon
  <2>4. QED
    BY <2>3 DEF n
<1>3. QED
  BY <1>2 DEF Level

LEMMA OutcomesGrow ==
    ASSUME NEW T, NEW doc \in Seq(T), NEW p \in Places(doc), NEW q \in Places(doc), p <= q,
           NEW V, NEW W, V \subseteq W
    PROVE  Outcomes(doc, q, V) \subseteq Outcomes(doc, p, W)
<1>1. q .. Len(doc) + 1 \subseteq p .. Len(doc) + 1
  BY DEF Places
<1>2. Successes(doc, q, V) \subseteq Successes(doc, p, W)
  BY <1>1 DEF Successes
<1>3. QED
  BY <1>2 DEF Outcomes

\* What a call below another one gives.
Below(doc, D, read, h, c) == \A y \in D : Measure(doc, y) < Measure(doc, c) => h[y] = read[y]

LEMMA ReadValueIs ==
    ASSUME NEW T, NEW doc \in Seq(T), NEW read \in ReaderReads(doc), NEW h, NEW c \in Calls(doc), c[1] = "value",
           Below(doc, Calls(doc), read, h, c)
    PROVE  /\ ReadValue(doc, h, c[2], c[3]) = ReadValue(doc, read, c[2], c[3])
           /\ ReadValue(doc, read, c[2], c[3]) \in ReaderOutcomes(doc, c)
<1> DEFINE p == c[2]
<1> DEFINE d == c[3]
<1> DEFINE q == AfterComments(doc, p)
<1> DEFINE token == Token(doc, q)
<1> DEFINE V == ReaderTree[StackLimit + 1 - d]
<1>0. /\ Len(doc) \in Nat /\ StackLimit \in Nat /\ p \in Places(doc) /\ d \in 1 .. StackLimit + 1
      /\ Places(doc) = 1 .. Len(doc) + 1
      /\ Measure(doc, c) = 2 * (Len(doc) + 2 - p)
  BY CallIs, ReaderAssumption DEF IsCall, Measure, Places
<1>1. q \in Places(doc) /\ q >= p
  BY <1>0, AfterCommentsIs
<1>2. ReaderOutcomes(doc, c) = Outcomes(doc, p, V)
  BY DEF ReaderOutcomes, CallOutcomes, CallValues
<1> HIDE DEF p, d, q, V
<1>3. \A f : ReadValue(doc, f, p, d) =
        IF d > StackLimit THEN Thrown
        ELSE IF token = "{" THEN f[<<"object", q + 1, d, TRUE>>]
        ELSE IF token = "[" /\ Token(doc, q + 1) = "]" THEN Success(ArrayValue(<<>>), q + 2)
        ELSE IF token = "[" THEN f[<<"array", q + 1, d, FALSE>>]
        ELSE IF token \in Strings \cup Scalars THEN Success(ScalarValue(token), q + 1)
        ELSE Failure(Next_(doc, q), <<q>>)
  BY DEF ReadValue, q
<1> DEFINE r(f) == ReadValue(doc, f, p, d)
<1> HIDE DEF r
<1>4. CASE d > StackLimit
  <2>1. r(h) = Thrown /\ r(read) = Thrown
    BY <1>3, <1>4, Zenon DEF r
  <2>2. QED
    BY <1>2, <2>1, ThrownIs DEF p, d, r
<1>5. CASE d <= StackLimit
  <2>0. d \in 1 .. StackLimit /\ ~(d > StackLimit)
    BY <1>0, <1>5
  <2>a. /\ Objects(Strings, ReaderTree[StackLimit - d]) \subseteq V
        /\ Arrays(ReaderTree[StackLimit - d]) \subseteq V
    BY <2>0, CallValueIs DEF ReaderTree, V
  <2>b. \A e \in {"object", "array"}, b \in BOOLEAN : q + 1 \in Places(doc) =>
            /\ h[<<e, q + 1, d, b>>] = read[<<e, q + 1, d, b>>]
            /\ read[<<e, q + 1, d, b>>] \in Outcomes(doc, p, V)
    <3>1. SUFFICES ASSUME NEW e \in {"object", "array"}, NEW b \in BOOLEAN, q + 1 \in Places(doc)
                   PROVE  /\ h[<<e, q + 1, d, b>>] = read[<<e, q + 1, d, b>>]
                          /\ read[<<e, q + 1, d, b>>] \in Outcomes(doc, p, V)
      OBVIOUS
    <3> DEFINE y == <<e, q + 1, d, b>>
    <3>2. y \in Calls(doc)
      <4>1. d <= StackLimit
        BY <2>0
      <4>2. <<"object", q + 1, d, b>> \in Calls(doc) /\ <<"array", q + 1, d, b>> \in Calls(doc)
        BY <1>0, <3>1, <4>1, CallsAre
      <4>3. QED
        BY <4>2
    <3>3. y[1] = e /\ y[2] = q + 1 /\ y[3] = d
      OBVIOUS
    <3> HIDE DEF y
    <3>4. Measure(doc, y) < Measure(doc, c)
      BY <1>0, <1>1, <3>3 DEF Measure
    <3>5. h[y] = read[y]
      BY <3>2, <3>4 DEF Below
    <3>6. read[y] \in CallOutcomes(doc, Strings, ReaderTree, y)
      BY <3>2 DEF ReaderReads, Readers
    <3>7. CallValues(Strings, ReaderTree, y) \subseteq V
      BY <2>a, <3>3 DEF CallValues
    <3>8. CallOutcomes(doc, Strings, ReaderTree, y) \subseteq Outcomes(doc, p, V)
      <4>1. p <= q + 1
        BY <1>0, <1>1
      <4>2. QED
        BY <1>0, <3>1, <3>3, <3>7, <4>1, OutcomesGrow DEF CallOutcomes
    <3>9. QED
      BY <3>5, <3>6, <3>8 DEF y
  <2>c. token # "end" => q + 1 \in Places(doc) /\ p <= q + 1
    <3>1. token # "end" => q + 1 \in Places(doc)
      BY <1>1, TokenIs
    <3>2. p <= q + 1
      BY <1>0, <1>1
    <3>3. QED
      BY <3>1, <3>2
  <2>1. CASE token = "{"
    <3>1. r(h) = h[<<"object", q + 1, d, TRUE>>] /\ r(read) = read[<<"object", q + 1, d, TRUE>>]
      BY <1>3, <2>0, <2>1, Zenon DEF r
    <3>2. "object" \in {"object", "array"} /\ TRUE \in BOOLEAN /\ q + 1 \in Places(doc)
      BY <2>1, <2>c
    <3>3. QED
      BY <1>2, <2>b, <3>1, <3>2 DEF p, d, r
  <2>2. CASE token = "[" /\ Token(doc, q + 1) = "]"
    <3>1. r(h) = Success(ArrayValue(<<>>), q + 2) /\ r(read) = Success(ArrayValue(<<>>), q + 2)
      BY <1>3, <2>0, <2>2, Zenon DEF r
    <3>2. q + 1 + 1 \in Places(doc) /\ p <= q + 1 + 1 /\ q + 1 + 1 = q + 2
      <4>1. q + 1 \in Places(doc) /\ p <= q + 1
        BY <2>2, <2>c
      <4>2. q + 1 + 1 \in Places(doc)
        BY <2>2, <4>1, TokenIs
      <4>3. QED
        BY <1>0, <1>1, <4>1, <4>2
    <3>3. ArrayValue(<<>>) \in V
      <4>1. ArrayValue(<<>>) \in Arrays(ReaderTree[StackLimit - d])
        BY DEF ArrayValue, Arrays
      <4>2. QED
        BY <2>a, <4>1
    <3>4. Success(ArrayValue(<<>>), q + 2) \in Outcomes(doc, p, V)
      <4>1. q + 2 \in Places(doc) /\ q + 2 >= p
        BY <1>0, <1>1, <3>2
      <4>2. QED
        BY <1>0, <3>3, <4>1, SuccessIs
    <3>5. QED
      BY <1>2, <3>1, <3>4 DEF p, d, r
  <2>3. CASE token = "[" /\ Token(doc, q + 1) # "]"
    <3>1. r(h) = h[<<"array", q + 1, d, FALSE>>] /\ r(read) = read[<<"array", q + 1, d, FALSE>>]
      BY <1>3, <2>0, <2>3, Zenon DEF r
    <3>2. "array" \in {"object", "array"} /\ FALSE \in BOOLEAN /\ q + 1 \in Places(doc)
      BY <2>3, <2>c
    <3>3. QED
      BY <1>2, <2>b, <3>1, <3>2 DEF p, d, r
  <2>4. CASE token \in Strings \cup Scalars /\ token # "{" /\ token # "["
    <3>1. r(h) = Success(ScalarValue(token), q + 1) /\ r(read) = Success(ScalarValue(token), q + 1)
      BY <1>3, <2>0, <2>4, Zenon DEF r
    <3>2. ScalarValue(token) \in V
      <4>1. ScalarValue(token) \in ReaderLeaves
        BY <2>4 DEF ScalarValue, ReaderLeaves
      <4>2. QED
        BY <2>0, <4>1, LeafIs DEF ReaderTree, V
    <3>3. token # "end"
      BY <2>4, ReaderAssumption
    <3>4. Success(ScalarValue(token), q + 1) \in Outcomes(doc, p, V)
      <4>1. q + 1 \in Places(doc) /\ q + 1 >= p
        BY <1>0, <1>1, <2>c, <3>3
      <4>2. QED
        BY <1>0, <3>2, <4>1, SuccessIs
    <3>5. QED
      BY <1>2, <3>1, <3>4 DEF p, d, r
  <2>5. CASE token \notin Strings \cup Scalars \cup {"{", "["}
    <3>1. r(h) = Failure(Next_(doc, q), <<q>>) /\ r(read) = Failure(Next_(doc, q), <<q>>)
      <4>1. token # "{" /\ token # "[" /\ token \notin Strings \cup Scalars
        BY <2>5
      <4>2. QED
        BY <1>3, <2>0, <4>1, Zenon DEF r
    <3>2. Failure(Next_(doc, q), <<q>>) \in Outcomes(doc, p, V)
      BY <1>1, NextPlace, FailureIs
    <3>3. QED
      BY <1>2, <3>1, <3>2 DEF p, d, r
  <2>6. QED
    BY <2>1, <2>2, <2>3, <2>4, <2>5
<1>6. QED
  BY <1>0, <1>4, <1>5

\* A call behind another one, or of a value in it, is smaller.
LEMMA Doubled ==
    ASSUME NEW p \in Int, NEW q \in Int, NEW x \in {0, 1}, NEW y \in {0, 1}, p <= q, p < q \/ (x = 0 /\ y = 1)
    PROVE  2 * p + x < 2 * q + y
OBVIOUS

LEMMA InnerCallSmaller ==
    ASSUME NEW T, NEW doc \in Seq(T), NEW c, NEW y, c[2] \in Nat, y[2] \in Nat,
           y[2] > c[2] \/ (y[2] = c[2] /\ c[1] # "value" /\ y[1] = "value")
    PROVE  Measure(doc, y) < Measure(doc, c)
<1> DEFINE n == Len(doc)
<1> DEFINE p == n + 2 - y[2]
<1> DEFINE q == n + 2 - c[2]
<1> DEFINE a == IF y[1] = "value" THEN 0 ELSE 1
<1> DEFINE b == IF c[1] = "value" THEN 0 ELSE 1
<1>1. n \in Nat
  OBVIOUS
<1> HIDE DEF n
<1>2. p \in Int /\ q \in Int /\ (y[2] > c[2] => p < q) /\ (y[2] = c[2] => p = q)
  BY <1>1
<1>3. a \in {0, 1} /\ b \in {0, 1} /\ (c[1] # "value" /\ y[1] = "value" => a = 0 /\ b = 1)
  OBVIOUS
<1>4. Measure(doc, y) = 2 * p + a /\ Measure(doc, c) = 2 * q + b
  BY DEF Measure, n
<1> HIDE DEF p, q, a, b
<1>5. p <= q /\ (p < q \/ (a = 0 /\ b = 1))
  BY <1>2, <1>3
<1>6. 2 * p + a < 2 * q + b
  BY <1>2, <1>3, <1>5, Doubled
<1>7. QED
  BY <1>4, <1>6

LEMMA CallBelow ==
    ASSUME NEW T, NEW doc \in Seq(T), NEW read \in ReaderReads(doc), NEW h, NEW c \in Calls(doc),
           Below(doc, Calls(doc), read, h, c), NEW y \in Calls(doc),
           y[2] > c[2] \/ (y[2] = c[2] /\ c[1] # "value" /\ y[1] = "value")
    PROVE  h[y] = read[y] /\ read[y] \in ReaderOutcomes(doc, y)
<1>0. c[2] \in Nat /\ y[2] \in Nat
  BY CallIs DEF IsCall, Places
<1>1. Measure(doc, y) < Measure(doc, c)
  BY <1>0, InnerCallSmaller
<1>2. h[y] = read[y]
  BY <1>1 DEF Below
<1>3. read[y] \in ReaderOutcomes(doc, y)
  BY DEF ReaderReads, Readers, ReaderOutcomes
<1>4. QED
  BY <1>2, <1>3

LEMMA ValueBelow ==
    ASSUME NEW T, NEW doc \in Seq(T), NEW read \in ReaderReads(doc), NEW h, NEW c \in Calls(doc),
           Below(doc, Calls(doc), read, h, c), NEW q \in Places(doc), NEW d \in 1 .. StackLimit,
           q > c[2] \/ (q = c[2] /\ c[1] # "value")
    PROVE  /\ h[<<"value", q, d + 1, FALSE>>] = read[<<"value", q, d + 1, FALSE>>]
           /\ read[<<"value", q, d + 1, FALSE>>] \in Outcomes(doc, q, ReaderTree[StackLimit - d])
<1> DEFINE y == <<"value", q, d + 1, FALSE>>
<1>0. StackLimit \in Nat /\ d + 1 \in 1 .. StackLimit + 1 /\ StackLimit + 1 - (d + 1) = StackLimit - d
  BY ReaderAssumption
<1>1. y \in Calls(doc)
  BY <1>0, CallsAre
<1>2. y[1] = "value" /\ y[2] = q /\ y[3] = d + 1
  OBVIOUS
<1> HIDE DEF y
<1>3. h[y] = read[y] /\ read[y] \in ReaderOutcomes(doc, y)
  BY <1>1, <1>2, CallBelow
<1>4. ReaderOutcomes(doc, y) = Outcomes(doc, q, ReaderTree[StackLimit - d])
  BY <1>0, <1>2 DEF ReaderOutcomes, CallOutcomes, CallValues
<1>5. QED
  BY <1>3, <1>4 DEF y

LEMMA MembersBelow ==
    ASSUME NEW T, NEW doc \in Seq(T), NEW read \in ReaderReads(doc), NEW h, NEW c \in Calls(doc),
           Below(doc, Calls(doc), read, h, c), NEW q \in Places(doc), NEW d \in 1 .. StackLimit, NEW b \in BOOLEAN,
           q > c[2]
    PROVE  /\ h[<<"object", q, d, b>>] = read[<<"object", q, d, b>>]
           /\ read[<<"object", q, d, b>>] \in Outcomes(doc, q, Objects(Strings, ReaderTree[StackLimit - d]))
<1> DEFINE y == <<"object", q, d, b>>
<1>1. y \in Calls(doc)
  <2>1. d \in 1 .. StackLimit + 1 /\ d <= StackLimit
    BY ReaderAssumption
  <2>2. QED
    BY <2>1, CallsAre
<1>2. y[1] = "object" /\ y[2] = q /\ y[3] = d
  OBVIOUS
<1> HIDE DEF y
<1>3. h[y] = read[y] /\ read[y] \in ReaderOutcomes(doc, y)
  BY <1>1, <1>2, CallBelow
<1>4. ReaderOutcomes(doc, y) = Outcomes(doc, q, Objects(Strings, ReaderTree[StackLimit - d]))
  BY <1>2 DEF ReaderOutcomes, CallOutcomes, CallValues
<1>5. QED
  BY <1>3, <1>4 DEF y

LEMMA ElementsBelow ==
    ASSUME NEW T, NEW doc \in Seq(T), NEW read \in ReaderReads(doc), NEW h, NEW c \in Calls(doc),
           Below(doc, Calls(doc), read, h, c), NEW q \in Places(doc), NEW d \in 1 .. StackLimit, q > c[2]
    PROVE  /\ h[<<"array", q, d, FALSE>>] = read[<<"array", q, d, FALSE>>]
           /\ read[<<"array", q, d, FALSE>>] \in Outcomes(doc, q, Arrays(ReaderTree[StackLimit - d]))
<1> DEFINE y == <<"array", q, d, FALSE>>
<1>1. y \in Calls(doc)
  <2>1. d \in 1 .. StackLimit + 1 /\ d <= StackLimit
    BY ReaderAssumption
  <2>2. QED
    BY <2>1, CallsAre
<1>2. y[1] = "array" /\ y[2] = q /\ y[3] = d
  OBVIOUS
<1> HIDE DEF y
<1>3. h[y] = read[y] /\ read[y] \in ReaderOutcomes(doc, y)
  BY <1>1, <1>2, CallBelow
<1>4. ReaderOutcomes(doc, y) = Outcomes(doc, q, Arrays(ReaderTree[StackLimit - d]))
  BY <1>2 DEF ReaderOutcomes, CallOutcomes, CallValues
<1>5. QED
  BY <1>3, <1>4 DEF y

LEMMA PlacesAreNumbers ==
    ASSUME NEW T, NEW doc \in Seq(T), NEW p \in Places(doc)
    PROVE  p \in Nat /\ p >= 1
BY DEF Places

LEMMA ReadArrayIs ==
    ASSUME NEW T, NEW doc \in Seq(T), NEW read \in ReaderReads(doc), NEW h, NEW c \in Calls(doc), c[1] = "array",
           Below(doc, Calls(doc), read, h, c)
    PROVE  /\ ReadArray(doc, h, c[2], c[3]) = ReadArray(doc, read, c[2], c[3])
           /\ ReadArray(doc, read, c[2], c[3]) \in ReaderOutcomes(doc, c)
<1> DEFINE p == c[2]
<1> DEFINE d == c[3]
<1> DEFINE T1 == ReaderTree[StackLimit - d]
<1> DEFINE V == Arrays(T1)
<1> DEFINE child == read[<<"value", p, d + 1, FALSE>>]
<1> DEFINE q == AfterComments(doc, child.at)
<1> DEFINE r(f) == ReadArray(doc, f, p, d)
<1>0. /\ Len(doc) \in Nat /\ StackLimit \in Nat /\ p \in Places(doc) /\ d \in 1 .. StackLimit
      /\ Places(doc) = 1 .. Len(doc) + 1
  <2>1. IsCall(doc, c) /\ StackLimit \in Nat
    BY CallIs, ReaderAssumption
  <2>2. QED
    BY <2>1 DEF IsCall, Places
<1>2. ReaderOutcomes(doc, c) = Outcomes(doc, p, V)
  BY DEF ReaderOutcomes, CallOutcomes, CallValues
<1>3. h[<<"value", p, d + 1, FALSE>>] = child /\ child \in Outcomes(doc, p, T1)
  BY <1>0, ValueBelow
<1>4. \A f : f[<<"value", p, d + 1, FALSE>>] = child => r(f) =
        IF ~child.ok THEN FailedInside(doc, child, "]")
        ELSE IF Token(doc, q) = "]" THEN Success(ArrayValue(<<child.value>>), q + 1)
        ELSE IF Token(doc, q) # "," THEN AddErrorAndRecover(doc, q, "]")
        ELSE FromElement(child.value, f[<<"array", q + 1, d, FALSE>>])
  <2>1. SUFFICES ASSUME NEW f, f[<<"value", p, d + 1, FALSE>>] = child
                 PROVE  r(f) = IF ~child.ok THEN FailedInside(doc, child, "]")
                                ELSE IF Token(doc, q) = "]" THEN Success(ArrayValue(<<child.value>>), q + 1)
                                ELSE IF Token(doc, q) # "," THEN AddErrorAndRecover(doc, q, "]")
                                ELSE FromElement(child.value, f[<<"array", q + 1, d, FALSE>>])
    BY Zenon
  <2> DEFINE other == f[<<"value", p, d + 1, FALSE>>]
  <2>2. r(f) = IF ~other.ok THEN FailedInside(doc, other, "]")
               ELSE IF Token(doc, AfterComments(doc, other.at)) = "]"
                    THEN Success(ArrayValue(<<other.value>>), AfterComments(doc, other.at) + 1)
               ELSE IF Token(doc, AfterComments(doc, other.at)) # ","
                    THEN AddErrorAndRecover(doc, AfterComments(doc, other.at), "]")
               ELSE FromElement(other.value, f[<<"array", AfterComments(doc, other.at) + 1, d, FALSE>>])
    BY DEF ReadArray
  <2>3. other = child
    BY <2>1
  <2> HIDE DEF other, child, r
  <2>4. QED
    BY <2>2, <2>3, Zenon
<1>5. /\ child.ok \in BOOLEAN /\ child.at \in Places(doc)
      /\ (child.ok => child.value \in T1 /\ child.at >= p)
  <2> HIDE DEF child, T1
  <2>1. QED
    BY <1>0, <1>3, OutcomeIs
<1>6. q \in Places(doc) /\ q >= child.at
  BY <1>5, AfterCommentsIs
<1> HIDE DEF child, q, V, T1, p, d
<1>7. CASE ~child.ok
  <2>1. r(h) = FailedInside(doc, child, "]") /\ r(read) = FailedInside(doc, child, "]")
    <3> HIDE DEF r
    <3>1. QED
      BY <1>3, <1>4, <1>7, Zenon DEF child
  <2>2. FailedInside(doc, child, "]") \in Outcomes(doc, p, V)
    BY <1>0, <1>3, <1>7, FailedInsideIs
  <2>3. QED
    BY <1>2, <2>1, <2>2 DEF p, d
<1>8. CASE child.ok /\ Token(doc, q) = "]"
  <2> DEFINE R == Success(ArrayValue(<<child.value>>), q + 1)
  <2>1. r(h) = R /\ r(read) = R
    <3> HIDE DEF r
    <3>1. QED
      BY <1>3, <1>4, <1>8, Zenon DEF child
  <2>2. q + 1 \in Places(doc) /\ q + 1 >= p
    <3>1. q + 1 \in Places(doc)
      BY <1>6, <1>8, TokenIs
    <3>2. QED
      BY <1>0, <1>5, <1>6, <1>8, <3>1
  <2>3. ArrayValue(<<child.value>>) \in V
    BY <1>5, <1>8, OneElementIs DEF V
  <2>4. R \in Outcomes(doc, p, V)
    BY <1>0, <2>2, <2>3, SuccessIs
  <2>5. QED
    BY <1>2, <2>1, <2>4 DEF p, d
<1>9. CASE child.ok /\ Token(doc, q) \notin {"]", ","}
  <2> DEFINE R == AddErrorAndRecover(doc, q, "]")
  <2>0. Token(doc, q) # "]" /\ Token(doc, q) # ","
    BY <1>9
  <2>1. r(h) = R /\ r(read) = R
    <3> HIDE DEF r
    <3>1. QED
      BY <1>3, <1>4, <1>9, <2>0, Zenon DEF child
  <2>2. R \in Outcomes(doc, p, V)
    BY <1>6, ErrorIs
  <2>3. QED
    BY <1>2, <2>1, <2>2 DEF p, d
<1>10. CASE child.ok /\ Token(doc, q) = ","
  <2> DEFINE rest == read[<<"array", q + 1, d, FALSE>>]
  <2>0. Token(doc, q) # "]" /\ Token(doc, q) # "end"
    BY <1>10
  <2>1. q + 1 \in Places(doc) /\ q + 1 > p
    <3>1. q + 1 \in Places(doc)
      BY <1>6, <2>0, TokenIs
    <3>2. p \in Nat /\ child.at \in Nat /\ q \in Nat /\ q >= child.at /\ child.at >= p
      BY <1>0, <1>5, <1>6, <1>10, PlacesAreNumbers
    <3>3. QED
      BY <3>1, <3>2
  <2>2. h[<<"array", q + 1, d, FALSE>>] = rest /\ rest \in Outcomes(doc, q + 1, V)
    <3>1. q + 1 > c[2]
      BY <2>1 DEF p
    <3>2. QED
      BY <1>0, <2>1, <3>1, ElementsBelow DEF V, T1
  <2> DEFINE R == FromElement(child.value, rest)
  <2>3. r(h) = R /\ r(read) = R
    <3> HIDE DEF r
    <3>1. QED
      BY <1>3, <1>4, <1>10, <2>0, <2>2, Zenon DEF child
  <2>4. R \in Outcomes(doc, p, V)
    <3> HIDE DEF rest
    <3>1. q + 1 >= p
      BY <1>0, <2>1
    <3>2. QED
      BY <1>0, <1>5, <1>10, <2>1, <2>2, <3>1, FromElementIs DEF V
  <2>5. QED
    BY <1>2, <2>3, <2>4 DEF p, d
<1>11. QED
  BY <1>5, <1>7, <1>8, <1>9, <1>10

LEMMA ReadObjectIs ==
    ASSUME NEW T, NEW doc \in Seq(T), NEW read \in ReaderReads(doc), NEW h, NEW c \in Calls(doc), c[1] = "object",
           Below(doc, Calls(doc), read, h, c)
    PROVE  /\ ReadObject(doc, h, c[2], c[3], c[4]) = ReadObject(doc, read, c[2], c[3], c[4])
           /\ ReadObject(doc, read, c[2], c[3], c[4]) \in ReaderOutcomes(doc, c)
<1> DEFINE p == c[2]
<1> DEFINE d == c[3]
<1> DEFINE u == c[4]
<1> DEFINE T1 == ReaderTree[StackLimit - d]
<1> DEFINE V == Objects(Strings, T1)
<1> DEFINE q == AfterComments(doc, p)
<1> DEFINE name == Token(doc, q)
<1> DEFINE child == read[<<"value", q + 2, d + 1, FALSE>>]
<1> DEFINE separator == AfterComments(doc, child.at)
<1> DEFINE r(f) == ReadObject(doc, f, p, d, u)
<1>0. /\ Len(doc) \in Nat /\ StackLimit \in Nat /\ p \in Places(doc) /\ d \in 1 .. StackLimit
      /\ Places(doc) = 1 .. Len(doc) + 1
  <2>1. IsCall(doc, c) /\ StackLimit \in Nat
    BY CallIs, ReaderAssumption
  <2>2. QED
    BY <2>1 DEF IsCall, Places
<1>1. q \in Places(doc) /\ q >= p
  BY <1>0, AfterCommentsIs
<1>2. ReaderOutcomes(doc, c) = Outcomes(doc, p, V)
  BY DEF ReaderOutcomes, CallOutcomes, CallValues
<1>3. \A f : r(f) =
        IF EmptyObject(doc, q, u) THEN Success(ObjectValue(NoMembers), q + 1)
        ELSE IF name \notin Strings THEN AddErrorAndRecover(doc, q, "}")
        ELSE IF Token(doc, q + 1) # ":" THEN AddErrorAndRecover(doc, q + 1, "}")
        ELSE IF ~f[<<"value", q + 2, d + 1, FALSE>>].ok
             THEN FailedInside(doc, f[<<"value", q + 2, d + 1, FALSE>>], "}")
        ELSE IF SeparatorMissing(doc, f[<<"value", q + 2, d + 1, FALSE>>].at)
             THEN AddErrorAndRecover(doc, f[<<"value", q + 2, d + 1, FALSE>>].at, "}")
        ELSE IF Token(doc, AfterComments(doc, f[<<"value", q + 2, d + 1, FALSE>>].at)) = "}"
             THEN Success(ObjectValue(WithMember(name, f[<<"value", q + 2, d + 1, FALSE>>].value, NoMembers)),
                          AfterComments(doc, f[<<"value", q + 2, d + 1, FALSE>>].at) + 1)
        ELSE FromMember(name, f[<<"value", q + 2, d + 1, FALSE>>].value,
                 f[<<"object", Next_(doc, AfterComments(doc, f[<<"value", q + 2, d + 1, FALSE>>].at)), d, name = "">>])
  BY DEF ReadObject
<1> HIDE DEF q, V, T1, p, d, u, r
<1>4. CASE EmptyObject(doc, q, u)
  <2> DEFINE R == Success(ObjectValue(NoMembers), q + 1)
  <2>1. r(h) = R /\ r(read) = R
    BY <1>3, <1>4, Zenon
  <2>2. q + 1 \in Places(doc) /\ q + 1 >= p
    <3>1. Token(doc, q) # "end"
      BY <1>4 DEF EmptyObject
    <3>2. q + 1 \in Places(doc)
      BY <1>1, <3>1, TokenIs
    <3>3. QED
      BY <1>0, <1>1, <3>2
  <2>3. ObjectValue(NoMembers) \in V
    BY NoMembersIs DEF V
  <2>4. R \in Outcomes(doc, p, V)
    BY <1>0, <2>2, <2>3, SuccessIs
  <2>5. QED
    BY <1>2, <2>1, <2>4 DEF p, d, u, r
<1>5. CASE ~EmptyObject(doc, q, u) /\ name \notin Strings
  <2> DEFINE R == AddErrorAndRecover(doc, q, "}")
  <2>1. r(h) = R /\ r(read) = R
    BY <1>3, <1>5, Zenon
  <2>2. R \in Outcomes(doc, p, V)
    BY <1>1, ErrorIs
  <2>3. QED
    BY <1>2, <2>1, <2>2 DEF p, d, u, r
<1>6. CASE ~EmptyObject(doc, q, u) /\ name \in Strings
  <2>0. q + 1 \in Places(doc)
    <3>1. name # "end"
      BY <1>6, ReaderAssumption
    <3>2. QED
      BY <1>1, <3>1, TokenIs
  <2>1. CASE Token(doc, q + 1) # ":"
    <3> DEFINE R == AddErrorAndRecover(doc, q + 1, "}")
    <3>1. r(h) = R /\ r(read) = R
      BY <1>3, <1>6, <2>1, Zenon
    <3>2. R \in Outcomes(doc, p, V)
      BY <2>0, ErrorIs
    <3>3. QED
      BY <1>2, <3>1, <3>2 DEF p, d, u, r
  <2>2. CASE Token(doc, q + 1) = ":"
    <3>1. q + 2 \in Places(doc) /\ q + 2 > p
      <4>1. q + 1 + 1 \in Places(doc)
        BY <2>0, <2>2, TokenIs
      <4>2. QED
        BY <1>0, <1>1, <4>1
    <3>2. h[<<"value", q + 2, d + 1, FALSE>>] = child /\ child \in Outcomes(doc, q + 2, T1)
      <4>1. q + 2 > c[2]
        BY <3>1 DEF p
      <4>2. QED
        BY <1>0, <3>1, <4>1, ValueBelow DEF T1
    <3> DEFINE tail(f) ==
            IF ~child.ok THEN FailedInside(doc, child, "}")
            ELSE IF SeparatorMissing(doc, child.at) THEN AddErrorAndRecover(doc, child.at, "}")
            ELSE IF Token(doc, separator) = "}"
                 THEN Success(ObjectValue(WithMember(name, child.value, NoMembers)), separator + 1)
            ELSE FromMember(name, child.value, f[<<"object", Next_(doc, separator), d, name = "">>])
    <3>3. \A f : f[<<"value", q + 2, d + 1, FALSE>>] = child => r(f) = tail(f)
      <4> DEFINE key == <<"value", q + 2, d + 1, FALSE>>
      <4>1. SUFFICES ASSUME NEW f, f[key] = child PROVE r(f) = tail(f)
        BY Zenon
      <4>2. r(f) = IF ~f[key].ok THEN FailedInside(doc, f[key], "}")
                   ELSE IF SeparatorMissing(doc, f[key].at) THEN AddErrorAndRecover(doc, f[key].at, "}")
                   ELSE IF Token(doc, AfterComments(doc, f[key].at)) = "}"
                        THEN Success(ObjectValue(WithMember(name, f[key].value, NoMembers)),
                                     AfterComments(doc, f[key].at) + 1)
                   ELSE FromMember(name, f[key].value,
                                   f[<<"object", Next_(doc, AfterComments(doc, f[key].at)), d, name = "">>])
        BY <1>3, <1>6, <2>2, Zenon
      <4>3. separator = AfterComments(doc, child.at)
        OBVIOUS
      <4> HIDE DEF key, child, separator
      <4>4. QED
        BY <4>1, <4>2, <4>3, Zenon
    <3>4. /\ child.ok \in BOOLEAN /\ child.at \in Places(doc)
          /\ (child.ok => child.value \in T1 /\ child.at >= q + 2)
      <4> HIDE DEF child
      <4>1. QED
        BY <3>1, <3>2, OutcomeIs
    <3>5. separator \in Places(doc) /\ separator >= child.at
      <4> HIDE DEF child
      <4>1. QED
        BY <3>4, AfterCommentsIs
    <3>e. r(h) = tail(h) /\ r(read) = tail(read)
      <4> HIDE DEF tail
      <4>1. QED
        BY <3>2, <3>3, Zenon
    <3> HIDE DEF child, separator
    <3>6. CASE ~child.ok
      <4>1. r(h) = FailedInside(doc, child, "}") /\ r(read) = FailedInside(doc, child, "}")
        BY <3>e, <3>6, Zenon
      <4>2. FailedInside(doc, child, "}") \in Outcomes(doc, p, V)
        BY <3>1, <3>2, <3>6, FailedInsideIs
      <4>3. QED
        BY <1>2, <4>1, <4>2 DEF p, d, u, r
    <3>7. CASE child.ok /\ SeparatorMissing(doc, child.at)
      <4> DEFINE R == AddErrorAndRecover(doc, child.at, "}")
      <4>1. r(h) = R /\ r(read) = R
        BY <3>e, <3>7, Zenon
      <4>2. R \in Outcomes(doc, p, V)
        BY <3>4, ErrorIs
      <4>3. QED
        BY <1>2, <4>1, <4>2 DEF p, d, u, r
    <3>8. CASE child.ok /\ ~SeparatorMissing(doc, child.at) /\ Token(doc, separator) = "}"
      <4> DEFINE value == ObjectValue(WithMember(name, child.value, NoMembers))
      <4> DEFINE R == Success(value, separator + 1)
      <4>1. r(h) = R /\ r(read) = R
        BY <3>e, <3>8, Zenon
      <4>2. separator + 1 \in Places(doc) /\ separator + 1 >= p
        <5>1. separator + 1 \in Places(doc)
          BY <3>5, <3>8, TokenIs
        <5>2. p \in Nat /\ q \in Nat /\ child.at \in Nat /\ separator \in Nat /\ q >= p /\ child.at >= q + 2 /\ separator >= child.at
          BY <1>0, <1>1, <3>4, <3>5, <3>8, PlacesAreNumbers
        <5>3. QED
          BY <5>1, <5>2
      <4>3. value \in V
        BY <1>6, <3>4, <3>8, NoMembersIs, NewMembers DEF V
      <4> HIDE DEF value
      <4>4. R \in Outcomes(doc, p, V)
        BY <1>0, <4>2, <4>3, SuccessIs
      <4>5. QED
        BY <1>2, <4>1, <4>4 DEF p, d, u, r
    <3>9. CASE child.ok /\ ~SeparatorMissing(doc, child.at) /\ Token(doc, separator) # "}"
      <4> DEFINE n == Next_(doc, separator)
      <4> DEFINE key == <<"object", n, d, name = "">>
      <4> DEFINE rest == read[key]
      <4>1. n \in Places(doc) /\ n > p
        <5>1. n \in Places(doc) /\ n >= separator
          BY <3>5, NextPlace
        <5>2. /\ p \in Nat /\ q \in Nat /\ child.at \in Nat /\ separator \in Nat /\ n \in Nat
              /\ q >= p /\ child.at >= q + 2 /\ separator >= child.at
          <6> HIDE DEF n
          <6>1. QED
            BY <1>0, <1>1, <3>4, <3>5, <3>9, <5>1, PlacesAreNumbers
        <5> HIDE DEF n
        <5>3. QED
          BY <5>1, <5>2
      <4>2. h[key] = rest /\ rest \in Outcomes(doc, n, V)
        <5>2. n > c[2]
          BY <4>1 DEF p
        <5> DEFINE b == name = ""
        <5>1. b \in BOOLEAN
          OBVIOUS
        <5> HIDE DEF n, b
        <5>3. /\ h[<<"object", n, d, b>>] = read[<<"object", n, d, b>>]
              /\ read[<<"object", n, d, b>>] \in Outcomes(doc, n, Objects(Strings, ReaderTree[StackLimit - d]))
          BY <1>0, <4>1, <5>1, <5>2, MembersBelow
        <5>4. QED
          BY <5>3, Zenon DEF V, T1, b
      <4> DEFINE R == FromMember(name, child.value, rest)
      <4>3. r(h) = R /\ r(read) = R
        <5>1. r(h) = FromMember(name, child.value, h[key]) /\ r(read) = R
          BY <3>e, <3>9, Zenon
        <5>2. QED
          BY <4>2, <5>1, Zenon
      <4> HIDE DEF rest, n
      <4>4. R \in Outcomes(doc, p, V)
        <5>1. n >= p
          BY <1>0, <4>1
        <5>2. QED
          BY <1>0, <1>6, <3>4, <3>9, <4>1, <4>2, <5>1, FromMemberIs DEF V
      <4>5. QED
        BY <1>2, <4>3, <4>4 DEF p, d, u, r
    <3>10. QED
      BY <3>4, <3>6, <3>7, <3>8, <3>9
  <2>3. QED
    BY <2>1, <2>2
<1>7. QED
  BY <1>4, <1>5, <1>6

LEMMA CalledIs ==
    ASSUME NEW T, NEW doc \in Seq(T), NEW read \in ReaderReads(doc), NEW h, NEW c \in Calls(doc),
           Below(doc, Calls(doc), read, h, c)
    PROVE  Called(doc, h, c) = Called(doc, read, c) /\ Called(doc, read, c) \in ReaderOutcomes(doc, c)
<1>0. c[1] \in {"value", "object", "array"}
  BY CallIs DEF IsCall
<1>1. CASE c[1] = "value"
  <2>1. \A f : Called(doc, f, c) = ReadValue(doc, f, c[2], c[3])
    BY <1>1 DEF Called
  <2>2. QED
    BY <1>1, <2>1, ReadValueIs
<1>2. CASE c[1] = "object"
  <2>1. \A f : Called(doc, f, c) = ReadObject(doc, f, c[2], c[3], c[4])
    BY <1>2 DEF Called
  <2>2. QED
    BY <1>2, <2>1, ReadObjectIs
<1>3. CASE c[1] = "array"
  <2>1. \A f : Called(doc, f, c) = ReadArray(doc, f, c[2], c[3])
    BY <1>3 DEF Called
  <2>2. QED
    BY <1>3, <2>1, ReadArrayIs
<1>4. QED
  BY <1>0, <1>1, <1>2, <1>3

\* The reader is the function that its recursive definition describes.
LEMMA ReadsAre ==
    ASSUME NEW T, NEW doc \in Seq(T)
    PROVE  /\ Reads(doc) \in ReaderReads(doc)
           /\ \A c \in Calls(doc) : Reads(doc)[c] = Called(doc, Reads(doc), c)
<1> DEFINE D == Calls(doc)
<1> DEFINE F == ReaderReads(doc)
<1> DEFINE G == [f \in F |-> [c \in D |-> Called(doc, f, c)]]
<1> DEFINE P(f) == f = [c \in D |-> Called(doc, f, c)]
<1>0. \A c \in D : IsCall(doc, c)
  BY CallIs
<1>1. F = Readers(doc, D, Strings, Trees(Strings, ReaderLeaves)) /\ \A c : ReaderOutcomes(doc, c) = CallOutcomes(doc, Strings, Trees(Strings, ReaderLeaves), c)
  BY DEF ReaderReads, ReaderTree, ReaderOutcomes
<1>2. \A f \in F : G[f] = [c \in D |-> Called(doc, f, c)]
  OBVIOUS
<1>3. G = [f \in F |-> G[f]]
  OBVIOUS
<1> HIDE DEF D, F, G
<1>4. ASSUME NEW f \in F, NEW c \in D PROVE Called(doc, f, c) \in ReaderOutcomes(doc, c)
  <2>1. Below(doc, Calls(doc), f, f, c)
    BY DEF Below
  <2>2. QED
    BY <2>1, CalledIs DEF D, F
<1>5. ASSUME NEW f \in F, NEW g, NEW c \in D, \A y \in D : Measure(doc, y) < Measure(doc, c) => g[y] = f[y]
      PROVE  Called(doc, g, c) = Called(doc, f, c)
  <2>1. Below(doc, Calls(doc), f, g, c)
    BY <1>5 DEF Below, D
  <2>2. QED
    BY <2>1, CalledIs DEF D, F
<1>6. \E f \in F : f = G[f]
  <2> DEFINE E == Readers(doc, D, Strings, Trees(Strings, ReaderLeaves))
  <2>1. G = [f \in E |-> G[f]]
    BY <1>1, <1>3
  <2>2. \A f \in E : /\ G[f] = [c \in D |-> G[f][c]]
                     /\ \A c \in D : G[f][c] \in CallOutcomes(doc, Strings, Trees(Strings, ReaderLeaves), c)
    <3>1. ASSUME NEW f \in F, NEW c \in D PROVE G[f][c] \in CallOutcomes(doc, Strings, Trees(Strings, ReaderLeaves), c)
      BY <1>1, <1>2, <1>4
    <3>2. \A f \in F : G[f] = [c \in D |-> G[f][c]]
      BY <1>2
    <3>3. QED
      BY <1>1, <3>1, <3>2
  <2>3. \A f, g \in E : \A c \in D :
            (\A y \in D : Measure(doc, y) < Measure(doc, c) => f[y] = g[y]) => G[f][c] = G[g][c]
    <3>1. ASSUME NEW f \in F, NEW g \in F, NEW c \in D, \A y \in D : Measure(doc, y) < Measure(doc, c) => f[y] = g[y]
          PROVE  G[f][c] = G[g][c]
      <4>1. G[f][c] = Called(doc, f, c) /\ G[g][c] = Called(doc, g, c)
        BY <1>2
      <4>2. Called(doc, f, c) = Called(doc, g, c)
        BY <1>5, <3>1
      <4>3. QED
        BY <4>1, <4>2
    <3>2. QED
      BY <1>1, <3>1, Zenon
  <2> HIDE DEF E
  <2>4. \E f \in E : f = G[f]
    BY <1>0, <2>1, <2>2, <2>3, ReaderExists DEF E
  <2>5. QED
    BY <1>1, <2>4 DEF E
<1>7. PICK f \in F : f = G[f]
  BY <1>6
<1>8. P(f)
  BY <1>2, <1>7
<1> DEFINE X == Reads(doc)
<1>9. P(X)
  <2>1. X = CHOOSE read : P(read)
    BY Zenon DEF Reads, D
  <2> HIDE DEF P, X
  <2>2. QED
    BY <1>8, <2>1, Zenon
<1> HIDE DEF X
<1>10. \A c \in D : X[c] = Called(doc, X, c) /\ f[c] = Called(doc, f, c)
  BY <1>8, <1>9, Zenon
<1>11. \A c \in D : X[c] = f[c]
  <2> DEFINE m == [c \in D |-> Measure(doc, c)]
  <2> DEFINE S == {c \in D : X[c] = f[c]}
  <2>1. \A c \in D : m[c] \in Nat
    <3>1. \A c \in D : Measure(doc, c) \in Nat
      BY <1>0 DEF IsCall, Measure, Places
    <3>2. QED
      BY <3>1
  <2>2. ASSUME NEW c \in D, \A y \in D : m[y] < m[c] => y \in S PROVE c \in S
    <3>1. \A y \in D : Measure(doc, y) < Measure(doc, c) => X[y] = f[y]
      BY <2>2
    <3>2. Called(doc, X, c) = Called(doc, f, c)
      BY <1>5, <3>1
    <3>3. QED
      BY <1>10, <3>2
  <2> HIDE DEF m, S
  <2>3. \A c \in D : c \in S
    BY <2>1, <2>2, MeasureInduction
  <2>4. QED
    BY <2>3 DEF S
<1>12. X = f
  <2>1. X = [c \in D |-> X[c]] /\ f = [c \in D |-> f[c]]
    BY <1>8, <1>9, <1>10, Zenon
  <2>2. QED
    BY <1>11, <2>1, Zenon
<1>13. QED
  BY <1>10, <1>12 DEF X, D, F

LEMMA ReadsOutcome ==
    ASSUME NEW T, NEW doc \in Seq(T)
    PROVE  ParseDocument(doc) \in Outcomes(doc, 1, ReaderTree[StackLimit])
<1> DEFINE c == <<"value", 1, 1, FALSE>>
<1>1. 1 \in Places(doc) /\ 1 \in 1 .. StackLimit + 1 /\ StackLimit \in Nat
  BY ReaderAssumption DEF Places
<1>2. c \in Calls(doc)
  BY <1>1, CallsAre
<1>3. Reads(doc)[c] \in ReaderOutcomes(doc, c)
  BY <1>2, ReadsAre DEF ReaderReads, Readers, ReaderOutcomes
<1>4. ReaderOutcomes(doc, c) = Outcomes(doc, 1, ReaderTree[StackLimit])
  <2>1. c[1] = "value" /\ c[2] = 1 /\ c[3] = 1 /\ StackLimit + 1 - 1 = StackLimit
    BY <1>1
  <2> HIDE DEF c
  <2>2. QED
    BY <2>1, Zenon DEF ReaderOutcomes, CallOutcomes, CallValues
<1>5. QED
  BY <1>3, <1>4 DEF ParseDocument

\* The type invariant of the reader, with what a read may give.
ReaderIInv == /\ document \in Seq(Tokens) /\ Len(document) <= MaxTokens
              /\ parsed = ParseDocument(document)

LEMMA ReaderInductive == ReaderSpec => []ReaderIInv
<1>1. ReaderInit => ReaderIInv
  BY ReaderAssumption DEF ReaderInit, ReaderIInv
<1>2. ReaderIInv /\ [ReaderNext]_readerVars => ReaderIInv'
  <2> SUFFICES ASSUME ReaderIInv, [ReaderNext]_readerVars PROVE ReaderIInv'
    OBVIOUS
  <2>1. ASSUME NEW token \in Tokens, ParseLonger(token) PROVE ReaderIInv'
    <3>1. Append(document, token) \in Seq(Tokens) /\ Len(Append(document, token)) = Len(document) + 1
      BY DEF ReaderIInv
    <3>2. Len(document) \in Nat /\ Len(document) + 1 <= MaxTokens
      BY <2>1, ReaderAssumption DEF ParseLonger, ReaderIInv
    <3>3. document' = Append(document, token) /\ parsed' = ParseDocument(document')
      BY <2>1 DEF ParseLonger
    <3> DEFINE longer == Append(document, token)
    <3> HIDE DEF longer
    <3>4. QED
      BY <3>1, <3>2, <3>3 DEF ReaderIInv, longer
  <2>2. CASE UNCHANGED readerVars
    BY <2>2 DEF readerVars, ReaderIInv
  <2>3. QED
    BY <2>1, <2>2 DEF ReaderNext
<1>3. QED
  BY <1>1, <1>2, PTL DEF ReaderSpec

LEMMA ReaderTyped == ReaderIInv => ReaderTypeOK
<1> SUFFICES ASSUME ReaderIInv PROVE ReaderTypeOK
  OBVIOUS
<1>2. document \in Seq(Tokens) /\ 1 \in Places(document)
  BY DEF ReaderIInv, Places
<1>3. parsed \in Outcomes(document, 1, ReaderTree[StackLimit])
  BY <1>2, ReadsOutcome DEF ReaderIInv
<1>4. parsed.ok \in BOOLEAN /\ parsed.thrown \in BOOLEAN /\ parsed.at \in Places(document)
  BY <1>2, <1>3, OutcomeIs
<1>5. QED
  BY <1>4 DEF ReaderIInv, ReaderTypeOK, Places

\* What a read gives has its place in the document, whatever the document.
THEOREM ReaderTypeCorrect == ReaderSpec => []ReaderTypeOK
BY ReaderInductive, ReaderTyped, PTL

-----------------------------------------------------------------------------
(* OurReader: the same for any settings.                                   *)

CharLeaves == {NullValue} \cup
    [type : {"scalar"}, text : Strings \cup SingleQuoted \cup Scalars \cup SpecialFloats]
CharTree == Trees(CharNames, CharLeaves)
CharOutcomes(doc, c) == CallOutcomes(doc, CharNames, CharTree, c)
CharReaderReads(doc) == Readers(doc, CharCalls(doc), CharNames, CharTree)

LEMMA CharCallIs ==
    ASSUME NEW T, NEW doc \in Seq(T), NEW c \in CharCalls(doc)
    PROVE  /\ IsCall(doc, c) /\ c[4] \in BOOLEAN /\ c[5] \in SUBSET CharNames
           /\ c = <<c[1], c[2], c[3], c[4], c[5]>>
<1>1. c \in {"value", "object", "array"} \X (1 .. Len(doc) + 1) \X (1 .. StackLimit + 1) \X BOOLEAN \X SUBSET CharNames
  BY DEF CharCalls
<1>2. c[1] = "value" \/ c[3] <= StackLimit
  BY DEF CharCalls
<1>3. QED
  BY <1>1, <1>2 DEF IsCall, Places

LEMMA CharCallsAre ==
    ASSUME NEW T, NEW doc \in Seq(T), NEW q \in Places(doc), NEW d \in 1 .. StackLimit + 1, NEW b \in BOOLEAN,
           NEW names \in SUBSET CharNames
    PROVE  /\ <<"value", q, d, b, names>> \in CharCalls(doc)
           /\ d <= StackLimit => <<"object", q, d, b, names>> \in CharCalls(doc) /\ <<"array", q, d, b, names>> \in CharCalls(doc)
BY DEF CharCalls, Places

\* The texts that OurReader takes for a value.
CharTexts == Strings \cup SingleQuoted \cup Scalars \cup SpecialFloats

LEMMA CharTokenIs ==
    ASSUME NEW T, NEW doc \in Seq(T), NEW q \in Places(doc), NEW f,
           CharToken(doc, q, f) \in CharTexts \cup {"{", "}", "[", "]", ","}
    PROVE  /\ CharToken(doc, q, f) = Token(doc, q) /\ Token(doc, q) \notin Refused(f)
           /\ q <= Len(doc) /\ q + 1 \in Places(doc) /\ Token(doc, q) = doc[q] /\ q \in 1 .. Len(doc)
<1>1. CharToken(doc, q, f) # "x"
  BY ReaderAssumption, CharReaderAssumption DEF CharTexts, Tokens, Marks
<1>2. CharToken(doc, q, f) = Token(doc, q) /\ Token(doc, q) \notin Refused(f)
  BY <1>1 DEF CharToken
<1>3. Token(doc, q) # "end"
  BY <1>2, ReaderAssumption, CharReaderAssumption DEF CharTexts
<1>4. QED
  BY <1>2, <1>3, TokenIs

LEMMA NameTokensAre ==
    ASSUME NEW f, NEW name \in NameTokens(f)
    PROVE  name \in CharNames /\ name \in CharTexts
BY CharReaderAssumption DEF NameTokens, CharNames, CharTexts

LEMMA BeforeValueIs ==
    ASSUME NEW T, NEW doc \in Seq(T), NEW p \in Places(doc), NEW f
    PROVE  BeforeValue(doc, p, f) \in Places(doc) /\ BeforeValue(doc, p, f) >= p
<1>1. AfterComments(doc, p) \in Places(doc) /\ AfterComments(doc, p) >= p
  BY AfterCommentsIs
<1>2. p >= p
  BY PlacesAreNumbers
<1>3. QED
  BY <1>1, <1>2 DEF BeforeValue

LEMMA CharCallBelow ==
    ASSUME NEW T, NEW doc \in Seq(T), NEW read \in CharReaderReads(doc), NEW h, NEW c \in CharCalls(doc),
           Below(doc, CharCalls(doc), read, h, c), NEW y \in CharCalls(doc),
           y[2] > c[2] \/ (y[2] = c[2] /\ c[1] # "value" /\ y[1] = "value")
    PROVE  h[y] = read[y] /\ read[y] \in CharOutcomes(doc, y)
<1>0. c[2] \in Nat /\ y[2] \in Nat
  BY CharCallIs DEF IsCall, Places
<1>1. Measure(doc, y) < Measure(doc, c)
  BY <1>0, InnerCallSmaller
<1>2. h[y] = read[y]
  BY <1>1 DEF Below
<1>3. read[y] \in CharOutcomes(doc, y)
  BY DEF CharReaderReads, Readers, CharOutcomes
<1>4. QED
  BY <1>2, <1>3

LEMMA CharValueBelow ==
    ASSUME NEW T, NEW doc \in Seq(T), NEW read \in CharReaderReads(doc), NEW h, NEW c \in CharCalls(doc),
           Below(doc, CharCalls(doc), read, h, c), NEW q \in Places(doc), NEW d \in 1 .. StackLimit,
           q > c[2] \/ (q = c[2] /\ c[1] # "value")
    PROVE  /\ h[<<"value", q, d + 1, FALSE, {}>>] = read[<<"value", q, d + 1, FALSE, {}>>]
           /\ read[<<"value", q, d + 1, FALSE, {}>>] \in Outcomes(doc, q, CharTree[StackLimit - d])
<1> DEFINE y == <<"value", q, d + 1, FALSE, {}>>
<1>0. StackLimit \in Nat /\ d + 1 \in 1 .. StackLimit + 1 /\ StackLimit + 1 - (d + 1) = StackLimit - d
  BY ReaderAssumption
<1>1. y \in CharCalls(doc)
  BY <1>0, CharCallsAre
<1>2. y[1] = "value" /\ y[2] = q /\ y[3] = d + 1
  OBVIOUS
<1> HIDE DEF y
<1>3. h[y] = read[y] /\ read[y] \in CharOutcomes(doc, y)
  BY <1>1, <1>2, CharCallBelow
<1>4. CharOutcomes(doc, y) = Outcomes(doc, q, CharTree[StackLimit - d])
  BY <1>0, <1>2 DEF CharOutcomes, CallOutcomes, CallValues
<1>5. QED
  BY <1>3, <1>4 DEF y

LEMMA CharMembersBelow ==
    ASSUME NEW T, NEW doc \in Seq(T), NEW read \in CharReaderReads(doc), NEW h, NEW c \in CharCalls(doc),
           Below(doc, CharCalls(doc), read, h, c), NEW q \in Places(doc), NEW d \in 1 .. StackLimit, NEW b \in BOOLEAN, NEW names \in SUBSET CharNames,
           q > c[2]
    PROVE  /\ h[<<"object", q, d, b, names>>] = read[<<"object", q, d, b, names>>]
           /\ read[<<"object", q, d, b, names>>] \in Outcomes(doc, q, Objects(CharNames, CharTree[StackLimit - d]))
<1> DEFINE y == <<"object", q, d, b, names>>
<1>1. y \in CharCalls(doc)
  <2>1. d \in 1 .. StackLimit + 1 /\ d <= StackLimit
    BY ReaderAssumption
  <2>2. QED
    BY <2>1, CharCallsAre
<1>2. y[1] = "object" /\ y[2] = q /\ y[3] = d
  OBVIOUS
<1> HIDE DEF y
<1>3. h[y] = read[y] /\ read[y] \in CharOutcomes(doc, y)
  BY <1>1, <1>2, CharCallBelow
<1>4. CharOutcomes(doc, y) = Outcomes(doc, q, Objects(CharNames, CharTree[StackLimit - d]))
  BY <1>2 DEF CharOutcomes, CallOutcomes, CallValues
<1>5. QED
  BY <1>3, <1>4 DEF y

LEMMA CharElementsBelow ==
    ASSUME NEW T, NEW doc \in Seq(T), NEW read \in CharReaderReads(doc), NEW h, NEW c \in CharCalls(doc),
           Below(doc, CharCalls(doc), read, h, c), NEW q \in Places(doc), NEW d \in 1 .. StackLimit, NEW b \in BOOLEAN, q > c[2]
    PROVE  /\ h[<<"array", q, d, b, {}>>] = read[<<"array", q, d, b, {}>>]
           /\ read[<<"array", q, d, b, {}>>] \in Outcomes(doc, q, Arrays(CharTree[StackLimit - d]))
<1> DEFINE y == <<"array", q, d, b, {}>>
<1>1. y \in CharCalls(doc)
  <2>1. d \in 1 .. StackLimit + 1 /\ d <= StackLimit
    BY ReaderAssumption
  <2>2. QED
    BY <2>1, CharCallsAre
<1>2. y[1] = "array" /\ y[2] = q /\ y[3] = d
  OBVIOUS
<1> HIDE DEF y
<1>3. h[y] = read[y] /\ read[y] \in CharOutcomes(doc, y)
  BY <1>1, <1>2, CharCallBelow
<1>4. CharOutcomes(doc, y) = Outcomes(doc, q, Arrays(CharTree[StackLimit - d]))
  BY <1>2 DEF CharOutcomes, CallOutcomes, CallValues
<1>5. QED
  BY <1>3, <1>4 DEF y

LEMMA ReadCharValueIs ==
    ASSUME NEW T, NEW doc \in Seq(T), NEW read \in CharReaderReads(doc), NEW h, NEW c \in CharCalls(doc),
           c[1] = "value", Below(doc, CharCalls(doc), read, h, c), NEW f
    PROVE  /\ ReadCharValue(doc, h, c[2], c[3], f) = ReadCharValue(doc, read, c[2], c[3], f)
           /\ ReadCharValue(doc, read, c[2], c[3], f) \in CharOutcomes(doc, c)
<1> DEFINE p == c[2]
<1> DEFINE d == c[3]
<1> DEFINE q == BeforeValue(doc, p, f)
<1> DEFINE token == CharToken(doc, q, f)
<1> DEFINE V == CharTree[StackLimit + 1 - d]
<1>0. /\ Len(doc) \in Nat /\ StackLimit \in Nat /\ p \in Places(doc) /\ d \in 1 .. StackLimit + 1
      /\ p \in Nat
  BY CharCallIs, ReaderAssumption DEF IsCall, Places
<1>1. q \in Places(doc) /\ q >= p /\ q \in Nat
  BY <1>0, BeforeValueIs, PlacesAreNumbers
<1>2. CharOutcomes(doc, c) = Outcomes(doc, p, V)
  BY DEF CharOutcomes, CallOutcomes, CallValues
<1> HIDE DEF p, d, q, V
<1>3. \A g : ReadCharValue(doc, g, p, d, f) =
        IF d > StackLimit THEN Thrown
        ELSE IF token = "{" THEN g[<<"object", q + 1, d, TRUE, {}>>]
        ELSE IF token = "[" THEN g[<<"array", q + 1, d, TRUE, {}>>]
        ELSE IF token \in CharTexts THEN Success(ScalarValue(token), q + 1)
        ELSE IF token \in {",", "}", "]"} /\ f.allowDroppedNullPlaceholders THEN Success(NullValue, q)
        ELSE Failure(Next_(doc, q), <<q>>)
  BY DEF ReadCharValue, q, CharTexts
<1> DEFINE r(g) == ReadCharValue(doc, g, p, d, f)
<1> HIDE DEF r
<1>4. CASE d > StackLimit
  <2>1. r(h) = Thrown /\ r(read) = Thrown
    BY <1>3, <1>4, Zenon DEF r
  <2>2. QED
    BY <1>2, <2>1, ThrownIs DEF p, d, r
<1>5. CASE d <= StackLimit
  <2>0. d \in 1 .. StackLimit /\ ~(d > StackLimit)
    BY <1>0, <1>5
  <2>a. /\ Objects(CharNames, CharTree[StackLimit - d]) \subseteq V
        /\ Arrays(CharTree[StackLimit - d]) \subseteq V
    BY <2>0, CallValueIs DEF CharTree, V
  <2>b. token \in CharTexts \cup {"{", "}", "[", "]", ","} =>
            q + 1 \in Places(doc) /\ q + 1 >= p /\ p <= q + 1 /\ q + 1 > c[2]
    <3>1. token \in CharTexts \cup {"{", "}", "[", "]", ","} => q + 1 \in Places(doc)
      BY <1>1, CharTokenIs
    <3>2. q + 1 >= p /\ p <= q + 1 /\ q + 1 > p
      BY <1>0, <1>1
    <3>3. QED
      BY <3>1, <3>2 DEF p
  <2>1. CASE token = "{"
    <3> DEFINE R == read[<<"object", q + 1, d, TRUE, {}>>]
    <3>1. r(h) = h[<<"object", q + 1, d, TRUE, {}>>] /\ r(read) = R
      BY <1>3, <2>0, <2>1, Zenon DEF r
    <3>2. h[<<"object", q + 1, d, TRUE, {}>>] = R /\ R \in Outcomes(doc, q + 1, Objects(CharNames, CharTree[StackLimit - d]))
      BY <2>0, <2>1, <2>b, CharMembersBelow
    <3>3. Outcomes(doc, q + 1, Objects(CharNames, CharTree[StackLimit - d])) \subseteq Outcomes(doc, p, V)
      <4>1. q + 1 \in Places(doc) /\ p <= q + 1
        BY <2>1, <2>b
      <4> DEFINE n == q + 1
      <4> DEFINE U == Objects(CharNames, CharTree[StackLimit - d])
      <4>2. n \in Places(doc) /\ p <= n /\ U \subseteq V /\ p \in Places(doc)
        BY <1>0, <2>a, <4>1
      <4> HIDE DEF n, U
      <4>3. Outcomes(doc, n, U) \subseteq Outcomes(doc, p, V)
        BY <4>2, OutcomesGrow
      <4>4. QED
        BY <4>3 DEF n, U
    <3>4. QED
      BY <1>2, <3>1, <3>2, <3>3 DEF p, d, r
  <2>2. CASE token = "["
    <3> DEFINE R == read[<<"array", q + 1, d, TRUE, {}>>]
    <3>1. r(h) = h[<<"array", q + 1, d, TRUE, {}>>] /\ r(read) = R
      BY <1>3, <2>0, <2>2, Zenon DEF r
    <3>2. h[<<"array", q + 1, d, TRUE, {}>>] = R /\ R \in Outcomes(doc, q + 1, Arrays(CharTree[StackLimit - d]))
      BY <2>0, <2>2, <2>b, CharElementsBelow
    <3>3. Outcomes(doc, q + 1, Arrays(CharTree[StackLimit - d])) \subseteq Outcomes(doc, p, V)
      <4>1. q + 1 \in Places(doc) /\ p <= q + 1
        BY <2>2, <2>b
      <4> DEFINE n == q + 1
      <4> DEFINE U == Arrays(CharTree[StackLimit - d])
      <4>2. n \in Places(doc) /\ p <= n /\ U \subseteq V /\ p \in Places(doc)
        BY <1>0, <2>a, <4>1
      <4> HIDE DEF n, U
      <4>3. Outcomes(doc, n, U) \subseteq Outcomes(doc, p, V)
        BY <4>2, OutcomesGrow
      <4>4. QED
        BY <4>3 DEF n, U
    <3>4. QED
      BY <1>2, <3>1, <3>2, <3>3 DEF p, d, r
  <2>3. CASE token \in CharTexts /\ token # "{" /\ token # "["
    <3> DEFINE R == Success(ScalarValue(token), q + 1)
    <3>1. r(h) = R /\ r(read) = R
      BY <1>3, <2>0, <2>3, Zenon DEF r
    <3>2. ScalarValue(token) \in V
      <4>1. ScalarValue(token) \in CharLeaves
        BY <2>3 DEF ScalarValue, CharLeaves, CharTexts
      <4>2. QED
        BY <2>0, <4>1, LeafIs DEF CharTree, V
    <3>3. R \in Outcomes(doc, p, V)
      BY <1>0, <2>3, <2>b, <3>2, SuccessIs
    <3>4. QED
      BY <1>2, <3>1, <3>3 DEF p, d, r
  <2>4. CASE /\ token \notin CharTexts /\ token # "{" /\ token # "["
             /\ token \in {",", "}", "]"} /\ f.allowDroppedNullPlaceholders
    <3> DEFINE R == Success(NullValue, q)
    <3>1. r(h) = R /\ r(read) = R
      BY <1>3, <2>0, <2>4, Zenon DEF r
    <3>2. NullValue \in V
      <4>1. NullValue \in CharLeaves
        BY DEF CharLeaves
      <4>2. QED
        BY <2>0, <4>1, LeafIs DEF CharTree, V
    <3>3. R \in Outcomes(doc, p, V)
      BY <1>0, <1>1, <3>2, SuccessIs
    <3>4. QED
      BY <1>2, <3>1, <3>3 DEF p, d, r
  <2>5. CASE /\ token \notin CharTexts /\ token # "{" /\ token # "["
             /\ ~(token \in {",", "}", "]"} /\ f.allowDroppedNullPlaceholders)
    <3> DEFINE R == Failure(Next_(doc, q), <<q>>)
    <3>1. r(h) = R /\ r(read) = R
      BY <1>3, <2>0, <2>5, Zenon DEF r
    <3>2. R \in Outcomes(doc, p, V)
      BY <1>1, NextPlace, FailureIs
    <3>3. QED
      BY <1>2, <3>1, <3>2 DEF p, d, r
  <2>6. QED
    BY <2>1, <2>2, <2>3, <2>4, <2>5
<1>6. QED
  BY <1>0, <1>4, <1>5

LEMMA ReadCharArrayIs ==
    ASSUME NEW T, NEW doc \in Seq(T), NEW read \in CharReaderReads(doc), NEW h, NEW c \in CharCalls(doc), c[1] = "array",
           Below(doc, CharCalls(doc), read, h, c), NEW s
    PROVE  /\ ReadCharArray(doc, h, c[2], c[3], c[4], s) = ReadCharArray(doc, read, c[2], c[3], c[4], s)
           /\ ReadCharArray(doc, read, c[2], c[3], c[4], s) \in CharOutcomes(doc, c)
<1> DEFINE p == c[2]
<1> DEFINE d == c[3]
<1> DEFINE T1 == CharTree[StackLimit - d]
<1> DEFINE V == Arrays(T1)
<1> DEFINE child == read[<<"value", p, d + 1, FALSE, {}>>]
<1> DEFINE q == AfterComments(doc, child.at)
<1> DEFINE r(f) == ReadCharArray(doc, f, p, d, c[4], s)
<1>0. /\ Len(doc) \in Nat /\ StackLimit \in Nat /\ p \in Places(doc) /\ d \in 1 .. StackLimit
      /\ Places(doc) = 1 .. Len(doc) + 1
  <2>1. IsCall(doc, c) /\ StackLimit \in Nat
    BY CharCallIs, ReaderAssumption
  <2>2. QED
    BY <2>1 DEF IsCall, Places
<1>2. CharOutcomes(doc, c) = Outcomes(doc, p, V)
  BY DEF CharOutcomes, CallOutcomes, CallValues
<1>3. h[<<"value", p, d + 1, FALSE, {}>>] = child /\ child \in Outcomes(doc, p, T1)
  BY <1>0, CharValueBelow
<1> DEFINE ends == ArrayEnds(Token(doc, p), c[4], s)
<1>4. \A f : f[<<"value", p, d + 1, FALSE, {}>>] = child => r(f) =
        IF ends THEN Success(ArrayValue(<<>>), p + 1)
        ELSE IF ~child.ok THEN FailedInside(doc, child, "]")
        ELSE IF Token(doc, q) = "]" THEN Success(ArrayValue(<<child.value>>), q + 1)
        ELSE IF Token(doc, q) # "," THEN AddErrorAndRecover(doc, q, "]")
        ELSE FromElement(child.value, f[<<"array", q + 1, d, FALSE, {}>>])
  <2>1. SUFFICES ASSUME NEW f, f[<<"value", p, d + 1, FALSE, {}>>] = child
                 PROVE  r(f) = IF ends THEN Success(ArrayValue(<<>>), p + 1)
                                ELSE IF ~child.ok THEN FailedInside(doc, child, "]")
                                ELSE IF Token(doc, q) = "]" THEN Success(ArrayValue(<<child.value>>), q + 1)
                                ELSE IF Token(doc, q) # "," THEN AddErrorAndRecover(doc, q, "]")
                                ELSE FromElement(child.value, f[<<"array", q + 1, d, FALSE, {}>>])
    BY Zenon
  <2> DEFINE other == f[<<"value", p, d + 1, FALSE, {}>>]
  <2>2. r(f) = IF ends THEN Success(ArrayValue(<<>>), p + 1)
               ELSE IF ~other.ok THEN FailedInside(doc, other, "]")
               ELSE IF Token(doc, AfterComments(doc, other.at)) = "]"
                    THEN Success(ArrayValue(<<other.value>>), AfterComments(doc, other.at) + 1)
               ELSE IF Token(doc, AfterComments(doc, other.at)) # ","
                    THEN AddErrorAndRecover(doc, AfterComments(doc, other.at), "]")
               ELSE FromElement(other.value, f[<<"array", AfterComments(doc, other.at) + 1, d, FALSE, {}>>])
    BY DEF ReadCharArray
  <2>3. other = child
    BY <2>1
  <2> HIDE DEF other, child, r, ends
  <2>4. QED
    BY <2>2, <2>3, Zenon
<1>5. /\ child.ok \in BOOLEAN /\ child.at \in Places(doc)
      /\ (child.ok => child.value \in T1 /\ child.at >= p)
  <2> HIDE DEF child, T1
  <2>1. QED
    BY <1>0, <1>3, OutcomeIs
<1>6. q \in Places(doc) /\ q >= child.at
  BY <1>5, AfterCommentsIs
<1> HIDE DEF child, q, V, T1, p, d, ends
<1>e. CASE ends
  <2> DEFINE R == Success(ArrayValue(<<>>), p + 1)
  <2>1. r(h) = R /\ r(read) = R
    <3> HIDE DEF r
    <3>1. QED
      BY <1>3, <1>4, <1>e, Zenon DEF child
  <2>2. p + 1 \in Places(doc) /\ p + 1 >= p
    <3>1. Token(doc, p) # "end"
      BY <1>e DEF ends, ArrayEnds
    <3>2. p + 1 \in Places(doc)
      BY <1>0, <3>1, TokenIs
    <3>3. p + 1 >= p
      BY <1>0
    <3>4. QED
      BY <3>2, <3>3
  <2>3. ArrayValue(<<>>) \in V
    BY DEF V, ArrayValue, Arrays
  <2>4. R \in Outcomes(doc, p, V)
    BY <1>0, <2>2, <2>3, SuccessIs
  <2>5. QED
    BY <1>2, <2>1, <2>4 DEF p, d
<1>7. CASE ~ends /\ ~child.ok
  <2>1. r(h) = FailedInside(doc, child, "]") /\ r(read) = FailedInside(doc, child, "]")
    <3> HIDE DEF r
    <3>1. QED
      BY <1>3, <1>4, <1>7, Zenon DEF child
  <2>2. FailedInside(doc, child, "]") \in Outcomes(doc, p, V)
    BY <1>0, <1>3, <1>7, FailedInsideIs
  <2>3. QED
    BY <1>2, <2>1, <2>2 DEF p, d
<1>8. CASE ~ends /\ child.ok /\ Token(doc, q) = "]"
  <2> DEFINE R == Success(ArrayValue(<<child.value>>), q + 1)
  <2>1. r(h) = R /\ r(read) = R
    <3> HIDE DEF r
    <3>1. QED
      BY <1>3, <1>4, <1>8, Zenon DEF child
  <2>2. q + 1 \in Places(doc) /\ q + 1 >= p
    <3>1. q + 1 \in Places(doc)
      BY <1>6, <1>8, TokenIs
    <3>2. QED
      BY <1>0, <1>5, <1>6, <1>8, <3>1
  <2>3. ArrayValue(<<child.value>>) \in V
    BY <1>5, <1>8, OneElementIs DEF V
  <2>4. R \in Outcomes(doc, p, V)
    BY <1>0, <2>2, <2>3, SuccessIs
  <2>5. QED
    BY <1>2, <2>1, <2>4 DEF p, d
<1>9. CASE ~ends /\ child.ok /\ Token(doc, q) \notin {"]", ","}
  <2> DEFINE R == AddErrorAndRecover(doc, q, "]")
  <2>0. Token(doc, q) # "]" /\ Token(doc, q) # ","
    BY <1>9
  <2>1. r(h) = R /\ r(read) = R
    <3> HIDE DEF r
    <3>1. QED
      BY <1>3, <1>4, <1>9, <2>0, Zenon DEF child
  <2>2. R \in Outcomes(doc, p, V)
    BY <1>6, ErrorIs
  <2>3. QED
    BY <1>2, <2>1, <2>2 DEF p, d
<1>10. CASE ~ends /\ child.ok /\ Token(doc, q) = ","
  <2> DEFINE rest == read[<<"array", q + 1, d, FALSE, {}>>]
  <2>0. Token(doc, q) # "]" /\ Token(doc, q) # "end"
    BY <1>10
  <2>1. q + 1 \in Places(doc) /\ q + 1 > p
    <3>1. q + 1 \in Places(doc)
      BY <1>6, <2>0, TokenIs
    <3>2. p \in Nat /\ child.at \in Nat /\ q \in Nat /\ q >= child.at /\ child.at >= p
      BY <1>0, <1>5, <1>6, <1>10, PlacesAreNumbers
    <3>3. QED
      BY <3>1, <3>2
  <2>2. h[<<"array", q + 1, d, FALSE, {}>>] = rest /\ rest \in Outcomes(doc, q + 1, V)
    <3>1. q + 1 > c[2]
      BY <2>1 DEF p
    <3>2. QED
      BY <1>0, <2>1, <3>1, CharElementsBelow DEF V, T1
  <2> DEFINE R == FromElement(child.value, rest)
  <2>3. r(h) = R /\ r(read) = R
    <3> HIDE DEF r
    <3>1. QED
      BY <1>3, <1>4, <1>10, <2>0, <2>2, Zenon DEF child
  <2>4. R \in Outcomes(doc, p, V)
    <3> HIDE DEF rest
    <3>1. q + 1 >= p
      BY <1>0, <2>1
    <3>2. QED
      BY <1>0, <1>5, <1>10, <2>1, <2>2, <3>1, FromElementIs DEF V
  <2>5. QED
    BY <1>2, <2>3, <2>4 DEF p, d
<1>11. QED
  BY <1>5, <1>e, <1>7, <1>8, <1>9, <1>10

LEMMA ReadCharObjectIs ==
    ASSUME NEW T, NEW doc \in Seq(T), NEW read \in CharReaderReads(doc), NEW h, NEW c \in CharCalls(doc), c[1] = "object",
           Below(doc, CharCalls(doc), read, h, c), NEW s
    PROVE  /\ ReadCharObject(doc, h, c[2], c[3], c[4], c[5], s) = ReadCharObject(doc, read, c[2], c[3], c[4], c[5], s)
           /\ ReadCharObject(doc, read, c[2], c[3], c[4], c[5], s) \in CharOutcomes(doc, c)
<1> DEFINE p == c[2]
<1> DEFINE d == c[3]
<1> DEFINE u == c[4]
<1> DEFINE T1 == CharTree[StackLimit - d]
<1> DEFINE V == Objects(CharNames, T1)
<1> DEFINE q == AfterComments(doc, p)
<1> DEFINE name == CharToken(doc, q, s)
<1> DEFINE bad == name \notin NameTokens(s) \/ (s.rejectDupKeys /\ name \in c[5])
<1> DEFINE child == read[<<"value", q + 2, d + 1, FALSE, {}>>]
<1> DEFINE separator == AfterComments(doc, child.at)
<1> DEFINE r(f) == ReadCharObject(doc, f, p, d, u, c[5], s)
<1>0. /\ Len(doc) \in Nat /\ StackLimit \in Nat /\ p \in Places(doc) /\ d \in 1 .. StackLimit
      /\ Places(doc) = 1 .. Len(doc) + 1
  <2>1. IsCall(doc, c) /\ StackLimit \in Nat
    BY CharCallIs, ReaderAssumption
  <2>2. QED
    BY <2>1 DEF IsCall, Places
<1>1. q \in Places(doc) /\ q >= p
  BY <1>0, AfterCommentsIs
<1>2. CharOutcomes(doc, c) = Outcomes(doc, p, V)
  BY DEF CharOutcomes, CallOutcomes, CallValues
<1>3. \A f : r(f) =
        IF ObjectEnds(name, u, s) THEN Success(ObjectValue(NoMembers), q + 1)
        ELSE IF bad THEN AddErrorAndRecover(doc, q, "}")
        ELSE IF Token(doc, q + 1) # ":" THEN AddErrorAndRecover(doc, q + 1, "}")
        ELSE IF ~f[<<"value", q + 2, d + 1, FALSE, {}>>].ok
             THEN FailedInside(doc, f[<<"value", q + 2, d + 1, FALSE, {}>>], "}")
        ELSE IF SeparatorMissing(doc, f[<<"value", q + 2, d + 1, FALSE, {}>>].at)
             THEN AddErrorAndRecover(doc, f[<<"value", q + 2, d + 1, FALSE, {}>>].at, "}")
        ELSE IF Token(doc, AfterComments(doc, f[<<"value", q + 2, d + 1, FALSE, {}>>].at)) = "}"
             THEN Success(ObjectValue(WithMember(name, f[<<"value", q + 2, d + 1, FALSE, {}>>].value, NoMembers)),
                          AfterComments(doc, f[<<"value", q + 2, d + 1, FALSE, {}>>].at) + 1)
        ELSE FromMember(name, f[<<"value", q + 2, d + 1, FALSE, {}>>].value,
                 f[<<"object", Next_(doc, AfterComments(doc, f[<<"value", q + 2, d + 1, FALSE, {}>>].at)), d, name = "", c[5] \cup {name}>>])
  BY DEF ReadCharObject
<1> HIDE DEF q, V, T1, p, d, u, r, name, bad
<1>4. CASE ObjectEnds(name, u, s)
  <2> DEFINE R == Success(ObjectValue(NoMembers), q + 1)
  <2>1. r(h) = R /\ r(read) = R
    BY <1>3, <1>4, Zenon
  <2>2. q + 1 \in Places(doc) /\ q + 1 >= p
    <3>1. name = "}"
      BY <1>4 DEF ObjectEnds
    <3>2. q + 1 \in Places(doc)
      BY <1>1, <3>1, CharTokenIs DEF name
    <3>3. QED
      BY <1>0, <1>1, <3>2
  <2>3. ObjectValue(NoMembers) \in V
    BY NoMembersIs DEF V
  <2>4. R \in Outcomes(doc, p, V)
    BY <1>0, <2>2, <2>3, SuccessIs
  <2>5. QED
    BY <1>2, <2>1, <2>4 DEF p, d, u, r
<1>5. CASE ~ObjectEnds(name, u, s) /\ bad
  <2> DEFINE R == AddErrorAndRecover(doc, q, "}")
  <2>1. r(h) = R /\ r(read) = R
    BY <1>3, <1>5, Zenon
  <2>2. R \in Outcomes(doc, p, V)
    BY <1>1, ErrorIs
  <2>3. QED
    BY <1>2, <2>1, <2>2 DEF p, d, u, r
<1>6. CASE ~ObjectEnds(name, u, s) /\ ~bad
  <2>n. name \in CharNames /\ name \in CharTexts
    BY <1>6, NameTokensAre DEF bad
  <2>0. q + 1 \in Places(doc)
    BY <1>1, <2>n, CharTokenIs DEF name
  <2>1. CASE Token(doc, q + 1) # ":"
    <3> DEFINE R == AddErrorAndRecover(doc, q + 1, "}")
    <3>1. r(h) = R /\ r(read) = R
      BY <1>3, <1>6, <2>1, Zenon
    <3>2. R \in Outcomes(doc, p, V)
      BY <2>0, ErrorIs
    <3>3. QED
      BY <1>2, <3>1, <3>2 DEF p, d, u, r
  <2>2. CASE Token(doc, q + 1) = ":"
    <3>1. q + 2 \in Places(doc) /\ q + 2 > p
      <4>1. q + 1 + 1 \in Places(doc)
        BY <2>0, <2>2, TokenIs
      <4>2. QED
        BY <1>0, <1>1, <4>1
    <3>2. h[<<"value", q + 2, d + 1, FALSE, {}>>] = child /\ child \in Outcomes(doc, q + 2, T1)
      <4>1. q + 2 > c[2]
        BY <3>1 DEF p
      <4>2. QED
        BY <1>0, <3>1, <4>1, CharValueBelow DEF T1
    <3> DEFINE tail(f) ==
            IF ~child.ok THEN FailedInside(doc, child, "}")
            ELSE IF SeparatorMissing(doc, child.at) THEN AddErrorAndRecover(doc, child.at, "}")
            ELSE IF Token(doc, separator) = "}"
                 THEN Success(ObjectValue(WithMember(name, child.value, NoMembers)), separator + 1)
            ELSE FromMember(name, child.value, f[<<"object", Next_(doc, separator), d, name = "", c[5] \cup {name}>>])
    <3>3. \A f : f[<<"value", q + 2, d + 1, FALSE, {}>>] = child => r(f) = tail(f)
      <4> DEFINE key == <<"value", q + 2, d + 1, FALSE, {}>>
      <4>1. SUFFICES ASSUME NEW f, f[key] = child PROVE r(f) = tail(f)
        BY Zenon
      <4>2. r(f) = IF ~f[key].ok THEN FailedInside(doc, f[key], "}")
                   ELSE IF SeparatorMissing(doc, f[key].at) THEN AddErrorAndRecover(doc, f[key].at, "}")
                   ELSE IF Token(doc, AfterComments(doc, f[key].at)) = "}"
                        THEN Success(ObjectValue(WithMember(name, f[key].value, NoMembers)),
                                     AfterComments(doc, f[key].at) + 1)
                   ELSE FromMember(name, f[key].value,
                                   f[<<"object", Next_(doc, AfterComments(doc, f[key].at)), d, name = "", c[5] \cup {name}>>])
        BY <1>3, <1>6, <2>2, Zenon
      <4>3. separator = AfterComments(doc, child.at)
        OBVIOUS
      <4> HIDE DEF key, child, separator
      <4>4. QED
        BY <4>1, <4>2, <4>3, Zenon
    <3>4. /\ child.ok \in BOOLEAN /\ child.at \in Places(doc)
          /\ (child.ok => child.value \in T1 /\ child.at >= q + 2)
      <4> HIDE DEF child
      <4>1. QED
        BY <3>1, <3>2, OutcomeIs
    <3>5. separator \in Places(doc) /\ separator >= child.at
      <4> HIDE DEF child
      <4>1. QED
        BY <3>4, AfterCommentsIs
    <3>e. r(h) = tail(h) /\ r(read) = tail(read)
      <4> HIDE DEF tail
      <4>1. QED
        BY <3>2, <3>3, Zenon
    <3> HIDE DEF child, separator
    <3>6. CASE ~child.ok
      <4>1. r(h) = FailedInside(doc, child, "}") /\ r(read) = FailedInside(doc, child, "}")
        BY <3>e, <3>6, Zenon
      <4>2. FailedInside(doc, child, "}") \in Outcomes(doc, p, V)
        BY <3>1, <3>2, <3>6, FailedInsideIs
      <4>3. QED
        BY <1>2, <4>1, <4>2 DEF p, d, u, r
    <3>7. CASE child.ok /\ SeparatorMissing(doc, child.at)
      <4> DEFINE R == AddErrorAndRecover(doc, child.at, "}")
      <4>1. r(h) = R /\ r(read) = R
        BY <3>e, <3>7, Zenon
      <4>2. R \in Outcomes(doc, p, V)
        BY <3>4, ErrorIs
      <4>3. QED
        BY <1>2, <4>1, <4>2 DEF p, d, u, r
    <3>8. CASE child.ok /\ ~SeparatorMissing(doc, child.at) /\ Token(doc, separator) = "}"
      <4> DEFINE value == ObjectValue(WithMember(name, child.value, NoMembers))
      <4> DEFINE R == Success(value, separator + 1)
      <4>1. r(h) = R /\ r(read) = R
        BY <3>e, <3>8, Zenon
      <4>2. separator + 1 \in Places(doc) /\ separator + 1 >= p
        <5>1. separator + 1 \in Places(doc)
          BY <3>5, <3>8, TokenIs
        <5>2. p \in Nat /\ q \in Nat /\ child.at \in Nat /\ separator \in Nat /\ q >= p /\ child.at >= q + 2 /\ separator >= child.at
          BY <1>0, <1>1, <3>4, <3>5, <3>8, PlacesAreNumbers
        <5>3. QED
          BY <5>1, <5>2
      <4>3. value \in V
        BY <2>n, <3>4, <3>8, NoMembersIs, NewMembers DEF V
      <4> HIDE DEF value
      <4>4. R \in Outcomes(doc, p, V)
        BY <1>0, <4>2, <4>3, SuccessIs
      <4>5. QED
        BY <1>2, <4>1, <4>4 DEF p, d, u, r
    <3>9. CASE child.ok /\ ~SeparatorMissing(doc, child.at) /\ Token(doc, separator) # "}"
      <4> DEFINE n == Next_(doc, separator)
      <4> DEFINE key == <<"object", n, d, name = "", c[5] \cup {name}>>
      <4> DEFINE rest == read[key]
      <4>1. n \in Places(doc) /\ n > p
        <5>1. n \in Places(doc) /\ n >= separator
          BY <3>5, NextPlace
        <5>2. /\ p \in Nat /\ q \in Nat /\ child.at \in Nat /\ separator \in Nat /\ n \in Nat
              /\ q >= p /\ child.at >= q + 2 /\ separator >= child.at
          <6> HIDE DEF n
          <6>1. QED
            BY <1>0, <1>1, <3>4, <3>5, <3>9, <5>1, PlacesAreNumbers
        <5> HIDE DEF n
        <5>3. QED
          BY <5>1, <5>2
      <4>2. h[key] = rest /\ rest \in Outcomes(doc, n, V)
        <5>2. n > c[2]
          BY <4>1 DEF p
        <5> DEFINE b == name = ""
        <5> DEFINE ns == c[5] \cup {name}
        <5>1. b \in BOOLEAN /\ ns \in SUBSET CharNames
          BY <2>n, CharCallIs
        <5> HIDE DEF n, b, ns
        <5>3. /\ h[<<"object", n, d, b, ns>>] = read[<<"object", n, d, b, ns>>]
              /\ read[<<"object", n, d, b, ns>>] \in Outcomes(doc, n, Objects(CharNames, CharTree[StackLimit - d]))
          BY <1>0, <4>1, <5>1, <5>2, CharMembersBelow
        <5>4. QED
          BY <5>3, Zenon DEF V, T1, b, ns
      <4> DEFINE R == FromMember(name, child.value, rest)
      <4>3. r(h) = R /\ r(read) = R
        <5>1. r(h) = FromMember(name, child.value, h[key]) /\ r(read) = R
          BY <3>e, <3>9, Zenon
        <5>2. QED
          BY <4>2, <5>1, Zenon
      <4> HIDE DEF rest, n
      <4>4. R \in Outcomes(doc, p, V)
        <5>1. n >= p
          BY <1>0, <4>1
        <5>2. QED
          BY <1>0, <2>n, <3>4, <3>9, <4>1, <4>2, <5>1, FromMemberIs DEF V
      <4>5. QED
        BY <1>2, <4>3, <4>4 DEF p, d, u, r
    <3>10. QED
      BY <3>4, <3>6, <3>7, <3>8, <3>9
  <2>3. QED
    BY <2>1, <2>2
<1>7. QED
  BY <1>4, <1>5, <1>6

LEMMA CharCalledIs ==
    ASSUME NEW T, NEW doc \in Seq(T), NEW read \in CharReaderReads(doc), NEW h, NEW c \in CharCalls(doc),
           Below(doc, CharCalls(doc), read, h, c), NEW s
    PROVE  CharCalled(doc, h, c, s) = CharCalled(doc, read, c, s) /\ CharCalled(doc, read, c, s) \in CharOutcomes(doc, c)
<1>0. c[1] \in {"value", "object", "array"}
  BY CharCallIs DEF IsCall
<1>1. CASE c[1] = "value"
  <2>1. \A f : CharCalled(doc, f, c, s) = ReadCharValue(doc, f, c[2], c[3], s)
    BY <1>1 DEF CharCalled
  <2>2. QED
    BY <1>1, <2>1, ReadCharValueIs
<1>2. CASE c[1] = "object"
  <2>1. \A f : CharCalled(doc, f, c, s) = ReadCharObject(doc, f, c[2], c[3], c[4], c[5], s)
    BY <1>2 DEF CharCalled
  <2>2. QED
    BY <1>2, <2>1, ReadCharObjectIs
<1>3. CASE c[1] = "array"
  <2>1. \A f : CharCalled(doc, f, c, s) = ReadCharArray(doc, f, c[2], c[3], c[4], s)
    BY <1>3 DEF CharCalled
  <2>2. QED
    BY <1>3, <2>1, ReadCharArrayIs
<1>4. QED
  BY <1>0, <1>1, <1>2, <1>3

\* The reader is the function that its recursive definition describes.
LEMMA CharReadsAre ==
    ASSUME NEW T, NEW doc \in Seq(T), NEW s
    PROVE  /\ CharReads(doc, s) \in CharReaderReads(doc)
           /\ \A c \in CharCalls(doc) : CharReads(doc, s)[c] = CharCalled(doc, CharReads(doc, s), c, s)
<1> DEFINE D == CharCalls(doc)
<1> DEFINE F == CharReaderReads(doc)
<1> DEFINE G == [f \in F |-> [c \in D |-> CharCalled(doc, f, c, s)]]
<1> DEFINE P(f) == f = [c \in D |-> CharCalled(doc, f, c, s)]
<1>0. \A c \in D : IsCall(doc, c)
  BY CharCallIs
<1>1. F = Readers(doc, D, CharNames, Trees(CharNames, CharLeaves)) /\ \A c : CharOutcomes(doc, c) = CallOutcomes(doc, CharNames, Trees(CharNames, CharLeaves), c)
  BY DEF CharReaderReads, CharTree, CharOutcomes
<1>2. \A f \in F : G[f] = [c \in D |-> CharCalled(doc, f, c, s)]
  OBVIOUS
<1>3. G = [f \in F |-> G[f]]
  OBVIOUS
<1> HIDE DEF D, F, G
<1>4. ASSUME NEW f \in F, NEW c \in D PROVE CharCalled(doc, f, c, s) \in CharOutcomes(doc, c)
  <2>1. Below(doc, CharCalls(doc), f, f, c)
    BY DEF Below
  <2>2. QED
    BY <2>1, CharCalledIs DEF D, F
<1>5. ASSUME NEW f \in F, NEW g, NEW c \in D, \A y \in D : Measure(doc, y) < Measure(doc, c) => g[y] = f[y]
      PROVE  CharCalled(doc, g, c, s) = CharCalled(doc, f, c, s)
  <2>1. Below(doc, CharCalls(doc), f, g, c)
    BY <1>5 DEF Below, D
  <2>2. QED
    BY <2>1, CharCalledIs DEF D, F
<1>6. \E f \in F : f = G[f]
  <2> DEFINE E == Readers(doc, D, CharNames, Trees(CharNames, CharLeaves))
  <2>1. G = [f \in E |-> G[f]]
    BY <1>1, <1>3
  <2>2. \A f \in E : /\ G[f] = [c \in D |-> G[f][c]]
                     /\ \A c \in D : G[f][c] \in CallOutcomes(doc, CharNames, Trees(CharNames, CharLeaves), c)
    <3>1. ASSUME NEW f \in F, NEW c \in D PROVE G[f][c] \in CallOutcomes(doc, CharNames, Trees(CharNames, CharLeaves), c)
      BY <1>1, <1>2, <1>4
    <3>2. \A f \in F : G[f] = [c \in D |-> G[f][c]]
      BY <1>2
    <3>3. QED
      BY <1>1, <3>1, <3>2
  <2>3. \A f, g \in E : \A c \in D :
            (\A y \in D : Measure(doc, y) < Measure(doc, c) => f[y] = g[y]) => G[f][c] = G[g][c]
    <3>1. ASSUME NEW f \in F, NEW g \in F, NEW c \in D, \A y \in D : Measure(doc, y) < Measure(doc, c) => f[y] = g[y]
          PROVE  G[f][c] = G[g][c]
      <4>1. G[f][c] = CharCalled(doc, f, c, s) /\ G[g][c] = CharCalled(doc, g, c, s)
        BY <1>2
      <4>2. CharCalled(doc, f, c, s) = CharCalled(doc, g, c, s)
        BY <1>5, <3>1
      <4>3. QED
        BY <4>1, <4>2
    <3>2. QED
      BY <1>1, <3>1, Zenon
  <2> HIDE DEF E
  <2>4. \E f \in E : f = G[f]
    BY <1>0, <2>1, <2>2, <2>3, ReaderExists DEF E
  <2>5. QED
    BY <1>1, <2>4 DEF E
<1>7. PICK f \in F : f = G[f]
  BY <1>6
<1>8. P(f)
  BY <1>2, <1>7
<1> DEFINE X == CharReads(doc, s)
<1>9. P(X)
  <2>1. X = CHOOSE read : P(read)
    BY Zenon DEF CharReads, D
  <2> HIDE DEF P, X
  <2>2. QED
    BY <1>8, <2>1, Zenon
<1> HIDE DEF X
<1>10. \A c \in D : X[c] = CharCalled(doc, X, c, s) /\ f[c] = CharCalled(doc, f, c, s)
  BY <1>8, <1>9, Zenon
<1>11. \A c \in D : X[c] = f[c]
  <2> DEFINE m == [c \in D |-> Measure(doc, c)]
  <2> DEFINE S == {c \in D : X[c] = f[c]}
  <2>1. \A c \in D : m[c] \in Nat
    <3>1. \A c \in D : Measure(doc, c) \in Nat
      BY <1>0 DEF IsCall, Measure, Places
    <3>2. QED
      BY <3>1
  <2>2. ASSUME NEW c \in D, \A y \in D : m[y] < m[c] => y \in S PROVE c \in S
    <3>1. \A y \in D : Measure(doc, y) < Measure(doc, c) => X[y] = f[y]
      BY <2>2
    <3>2. CharCalled(doc, X, c, s) = CharCalled(doc, f, c, s)
      BY <1>5, <3>1
    <3>3. QED
      BY <1>10, <3>2
  <2> HIDE DEF m, S
  <2>3. \A c \in D : c \in S
    BY <2>1, <2>2, MeasureInduction
  <2>4. QED
    BY <2>3 DEF S
<1>12. X = f
  <2>1. X = [c \in D |-> X[c]] /\ f = [c \in D |-> f[c]]
    BY <1>8, <1>9, <1>10, Zenon
  <2>2. QED
    BY <1>11, <2>1, Zenon
<1>13. QED
  BY <1>10, <1>12 DEF X, D, F

LEMMA StartIs ==
    ASSUME NEW T, NEW doc \in Seq(T), NEW f
    PROVE  /\ StartOf(doc, f) \in Places(doc) /\ StartOf(doc, f) \in {1, 2}
           /\ (StartOf(doc, f) = 2) => Token(doc, 1) = "bom"
<1>1. 1 \in Places(doc)
  BY DEF Places
<1>2. CASE f.skipBom /\ Token(doc, 1) = "bom"
  <2>1. 1 + 1 \in Places(doc)
    BY <1>1, <1>2, TokenIs
  <2>2. QED
    BY <1>2, <2>1 DEF StartOf
<1>3. CASE ~(f.skipBom /\ Token(doc, 1) = "bom")
  BY <1>1, <1>3 DEF StartOf
<1>4. QED
  BY <1>2, <1>3

\* The read of the value, before the checks of what follows it.
CharRead(doc, f) == CharReads(doc, f)[<<"value", StartOf(doc, f), 1, FALSE, {}>>]

LEMMA CharReadOutcome ==
    ASSUME NEW T, NEW doc \in Seq(T), NEW f
    PROVE  CharRead(doc, f) \in Outcomes(doc, StartOf(doc, f), CharTree[StackLimit])
<1> DEFINE p == StartOf(doc, f)
<1> DEFINE c == <<"value", p, 1, FALSE, {}>>
<1>1. p \in Places(doc) /\ 1 \in 1 .. StackLimit + 1 /\ StackLimit \in Nat
  BY ReaderAssumption, StartIs
<1> HIDE DEF p
<1>2. c \in CharCalls(doc)
  <2>1. {} \in SUBSET CharNames /\ FALSE \in BOOLEAN
    OBVIOUS
  <2>2. QED
    BY <1>1, <2>1, CharCallsAre
<1>3. CharReads(doc, f)[c] \in CharOutcomes(doc, c)
  BY <1>2, CharReadsAre DEF CharReaderReads, Readers, CharOutcomes
<1>4. CharOutcomes(doc, c) = Outcomes(doc, p, CharTree[StackLimit])
  <2>1. c[1] = "value" /\ c[2] = p /\ c[3] = 1 /\ StackLimit + 1 - 1 = StackLimit
    BY <1>1
  <2> HIDE DEF c
  <2>2. QED
    BY <2>1, Zenon DEF CharOutcomes, CallOutcomes, CallValues
<1>5. QED
  BY <1>3, <1>4 DEF CharRead, p

LEMMA ParseCharsIs ==
    ASSUME NEW T, NEW doc \in Seq(T), NEW f
    PROVE  LET read == CharRead(doc, f)
               after == BeforeValue(doc, read.at, f)
               container == CharToken(doc, BeforeValue(doc, StartOf(doc, f), f), f) \in {"{", "["}
           IN  ParseChars(doc, f) =
                 IF read.thrown THEN read
                 ELSE IF f.failIfExtra /\ Token(doc, after) # "end"
                      THEN Failure(Next_(doc, after), Append(read.errors, after))
                 ELSE IF f.strictRoot /\ ~container THEN Failure(read.at, Append(read.errors, 1))
                 ELSE read
BY DEF ParseChars, CharRead

LEMMA ParseCharsTyped ==
    ASSUME NEW T, NEW doc \in Seq(T), NEW f
    PROVE  /\ ParseChars(doc, f).ok \in BOOLEAN /\ ParseChars(doc, f).thrown \in BOOLEAN
           /\ ParseChars(doc, f).at \in Places(doc)
<1> DEFINE read == CharRead(doc, f)
<1> DEFINE after == BeforeValue(doc, read.at, f)
<1>1. StartOf(doc, f) \in Places(doc) /\ read \in Outcomes(doc, StartOf(doc, f), CharTree[StackLimit])
  BY StartIs, CharReadOutcome
<1>2. read.ok \in BOOLEAN /\ read.thrown \in BOOLEAN /\ read.at \in Places(doc)
  <2> HIDE DEF read
  <2>1. QED
    BY <1>1, OutcomeIs
<1>3. after \in Places(doc) /\ Next_(doc, after) \in Places(doc)
  <2> HIDE DEF read
  <2>1. after \in Places(doc)
    BY <1>2, BeforeValueIs
  <2>2. QED
    BY <2>1, NextPlace
<1>4. \A q \in Places(doc) : \A e : /\ Failure(q, e).ok = FALSE /\ Failure(q, e).thrown = FALSE
                                  /\ Failure(q, e).at = q
  BY DEF Failure
<1>5. \/ ParseChars(doc, f) = read
      \/ ParseChars(doc, f) = Failure(Next_(doc, after), Append(read.errors, after))
      \/ ParseChars(doc, f) = Failure(read.at, Append(read.errors, 1))
  BY ParseCharsIs, Zenon
<1> HIDE DEF read, after
<1>6. /\ Failure(Next_(doc, after), Append(read.errors, after)).ok = FALSE
      /\ Failure(Next_(doc, after), Append(read.errors, after)).thrown = FALSE
      /\ Failure(Next_(doc, after), Append(read.errors, after)).at = Next_(doc, after)
      /\ Failure(read.at, Append(read.errors, 1)).ok = FALSE
      /\ Failure(read.at, Append(read.errors, 1)).thrown = FALSE
      /\ Failure(read.at, Append(read.errors, 1)).at = read.at
  BY <1>2, <1>3, <1>4
<1>7. CASE ParseChars(doc, f) = read
  BY <1>2, <1>7, Zenon
<1>8. CASE ParseChars(doc, f) # read
  BY <1>2, <1>3, <1>5, <1>6, <1>8
<1>9. QED
  BY <1>7, <1>8

CharIInv == /\ settings \in {SetDefaults, StrictMode, AsReader} \cup OtherSettings
            /\ charDocument \in Seq(CharTokens) /\ Len(charDocument) <= MaxCharTokens
            /\ charParsed = ParseChars(charDocument, settings)

LEMMA CharReaderInductive == CharReaderSpec => []CharIInv
<1>1. CharReaderInit => CharIInv
  BY CharReaderAssumption DEF CharReaderInit, CharIInv
<1>2. CharIInv /\ [CharReaderNext]_charVars => CharIInv'
  <2> SUFFICES ASSUME CharIInv, [CharReaderNext]_charVars PROVE CharIInv'
    OBVIOUS
  <2>1. ASSUME NEW token \in CharTokens, ParseMoreChars(token) PROVE CharIInv'
    <3>1. Append(charDocument, token) \in Seq(CharTokens) /\ Len(Append(charDocument, token)) = Len(charDocument) + 1
      BY DEF CharIInv
    <3>2. Len(charDocument) \in Nat /\ Len(charDocument) + 1 <= MaxCharTokens
      BY <2>1, CharReaderAssumption DEF ParseMoreChars, CharIInv
    <3>3. /\ charDocument' = Append(charDocument, token) /\ charParsed' = ParseChars(charDocument', settings)
          /\ settings' = settings
      BY <2>1 DEF ParseMoreChars
    <3> DEFINE longer == Append(charDocument, token)
    <3> HIDE DEF longer
    <3>4. QED
      BY <3>1, <3>2, <3>3 DEF CharIInv, longer
  <2>2. CASE UNCHANGED charVars
    BY <2>2 DEF charVars, CharIInv
  <2>3. QED
    BY <2>1, <2>2 DEF CharReaderNext
<1>3. QED
  BY <1>1, <1>2, PTL DEF CharReaderSpec

LEMMA CharReaderTyped == CharIInv => CharReaderTypeOK
<1> SUFFICES ASSUME CharIInv PROVE CharReaderTypeOK
  OBVIOUS
<1>1. charDocument \in Seq(CharTokens)
  BY DEF CharIInv
<1>2. charParsed.ok \in BOOLEAN /\ charParsed.thrown \in BOOLEAN /\ charParsed.at \in Places(charDocument)
  BY <1>1, ParseCharsTyped DEF CharIInv
<1>3. QED
  BY <1>2 DEF CharIInv, CharReaderTypeOK, Places

\* The same of OurReader, under any of its settings.
THEOREM CharReaderTypeCorrect == CharReaderSpec => []CharReaderTypeOK
BY CharReaderInductive, CharReaderTyped, PTL

-----------------------------------------------------------------------------
(* The grammars, as the functions that their recursive definitions say.    *)

IsSettings(f) ==
    /\ f.allowComments \in BOOLEAN /\ f.allowTrailingCommas \in BOOLEAN /\ f.strictRoot \in BOOLEAN
    /\ f.allowDroppedNullPlaceholders \in BOOLEAN /\ f.allowNumericKeys \in BOOLEAN
    /\ f.allowSingleQuotes \in BOOLEAN /\ f.failIfExtra \in BOOLEAN /\ f.rejectDupKeys \in BOOLEAN
    /\ f.allowSpecialFloats \in BOOLEAN /\ f.skipBom \in BOOLEAN

SpanMeasure(doc, s) == 2 * (Len(doc) + 1 + s[3] - s[2]) + (IF s[1] = "value" THEN 0 ELSE 1)
IsSpan(doc, s) == /\ s[1] \in {"value", "object", "array"} /\ s[2] \in 1 .. Len(doc) + 1
                  /\ s[3] \in 0 .. Len(doc)

LEMMA CharSpanIs ==
    ASSUME NEW T, NEW doc \in Seq(T), NEW s \in CharSpans(doc)
    PROVE  /\ IsSpan(doc, s) /\ s[4] \in BOOLEAN /\ s[5] \in SUBSET CharNames
           /\ s = <<s[1], s[2], s[3], s[4], s[5]>>
BY DEF CharSpans, IsSpan

LEMMA CharSpansAre ==
    ASSUME NEW T, NEW doc \in Seq(T), NEW e \in {"value", "object", "array"}, NEW i \in 1 .. Len(doc) + 1,
           NEW j \in 0 .. Len(doc), NEW b \in BOOLEAN, NEW names \in SUBSET CharNames
    PROVE  <<e, i, j, b, names>> \in CharSpans(doc)
BY DEF CharSpans

LEMMA SpanMeasureIs ==
    ASSUME NEW T, NEW doc \in Seq(T), NEW s, IsSpan(doc, s)
    PROVE  SpanMeasure(doc, s) \in 0 .. 4 * (Len(doc) + 1)
<1> DEFINE n == Len(doc)
<1> DEFINE i == s[2]
<1> DEFINE j == s[3]
<1> DEFINE x == IF s[1] = "value" THEN 0 ELSE 1
<1>1. n \in Nat /\ i \in 1 .. n + 1 /\ j \in 0 .. n /\ x \in {0, 1}
  BY DEF IsSpan
<1>2. SpanMeasure(doc, s) = 2 * (n + 1 + j - i) + x
  BY DEF SpanMeasure
<1> HIDE DEF n, i, j, x
<1>3. 2 * (n + 1 + j - i) + x \in 0 .. 4 * (n + 1)
  BY <1>1
<1>4. QED
  BY <1>2, <1>3 DEF n

LEMMA InnerIsShorter ==
    ASSUME NEW n \in Nat, NEW a \in Nat, NEW b \in Nat, NEW c \in Nat, NEW d \in Nat, a >= c, b <= d
    PROVE  /\ n + 1 + b - a \in Int /\ n + 1 + d - c \in Int /\ n + 1 + b - a <= n + 1 + d - c
           /\ a > c => n + 1 + b - a < n + 1 + d - c
OBVIOUS

\* A span inside another one is smaller.
LEMMA InnerSpanSmaller ==
    ASSUME NEW T, NEW doc \in Seq(T), NEW r, IsSpan(doc, r), NEW s, IsSpan(doc, s), r[2] >= s[2], r[3] <= s[3],
           r[2] > s[2] \/ (r[1] = "value" /\ s[1] # "value")
    PROVE  SpanMeasure(doc, r) < SpanMeasure(doc, s)
<1> DEFINE n == Len(doc)
<1> DEFINE p == n + 1 + r[3] - r[2]
<1> DEFINE q == n + 1 + s[3] - s[2]
<1> DEFINE x == IF r[1] = "value" THEN 0 ELSE 1
<1> DEFINE y == IF s[1] = "value" THEN 0 ELSE 1
<1>1. n \in Nat /\ r[2] \in Nat /\ r[3] \in Nat /\ s[2] \in Nat /\ s[3] \in Nat
  BY DEF IsSpan
<1> HIDE DEF n
<1>2. p \in Int /\ q \in Int /\ p <= q /\ (r[2] > s[2] => p < q)
  BY <1>1, InnerIsShorter
<1>3. x \in {0, 1} /\ y \in {0, 1} /\ (r[1] = "value" /\ s[1] # "value" => x = 0 /\ y = 1)
  OBVIOUS
<1>4. SpanMeasure(doc, r) = 2 * p + x /\ SpanMeasure(doc, s) = 2 * q + y
  BY DEF SpanMeasure, n
<1> HIDE DEF p, q, x, y
<1>5. p < q \/ (x = 0 /\ y = 1)
  BY <1>2, <1>3
<1>6. 2 * p + x < 2 * q + y
  BY <1>2, <1>3, <1>5, Doubled
<1>7. QED
  BY <1>4, <1>6

\* What lies inside a span is smaller.
AgreeInside(doc, D, x, y, s) == \A r \in D : SpanMeasure(doc, r) < SpanMeasure(doc, s) => x[r] = y[r]

\* The inner spans of s on which x and y agree.
InnerAgree(doc, x, y, s) ==
    \A e \in {"value", "object", "array"}, i \in 1 .. Len(doc) + 1, j \in 0 .. Len(doc),
       b \in BOOLEAN, names \in SUBSET CharNames :
        i >= s[2] /\ j <= s[3] /\ (i > s[2] \/ (e = "value" /\ s[1] # "value"))
            => x[<<e, i, j, b, names>>] = y[<<e, i, j, b, names>>]

LEMMA CharAgree ==
    ASSUME NEW T, NEW doc \in Seq(T), NEW s \in CharSpans(doc), NEW x, NEW y,
           AgreeInside(doc, CharSpans(doc), x, y, s)
    PROVE  InnerAgree(doc, x, y, s)
<1>1. ASSUME NEW e \in {"value", "object", "array"}, NEW i \in 1 .. Len(doc) + 1, NEW j \in 0 .. Len(doc),
             NEW b \in BOOLEAN, NEW names \in SUBSET CharNames,
             i >= s[2], j <= s[3], i > s[2] \/ (e = "value" /\ s[1] # "value")
      PROVE  x[<<e, i, j, b, names>>] = y[<<e, i, j, b, names>>]
  <2> DEFINE r == <<e, i, j, b, names>>
  <2>1. r \in CharSpans(doc)
    BY CharSpansAre
  <2>2. r[1] = e /\ r[2] = i /\ r[3] = j
    OBVIOUS
  <2> HIDE DEF r
  <2>3. SpanMeasure(doc, r) < SpanMeasure(doc, s)
    <3>1. IsSpan(doc, s)
      BY CharSpanIs
    <3>2. IsSpan(doc, r)
      BY <2>2 DEF IsSpan
    <3>3. r[2] >= s[2] /\ r[3] <= s[3] /\ (r[2] > s[2] \/ (r[1] = "value" /\ s[1] # "value"))
      BY <1>1, <2>2
    <3>4. QED
      BY <3>1, <3>2, <3>3, InnerSpanSmaller
  <2>4. x[r] = y[r]
    BY <2>1, <2>3 DEF AgreeInside
  <2>5. QED
    BY <2>4 DEF r
<1>2. QED
  BY <1>1, Zenon DEF InnerAgree

LEMMA CharValueDepends ==
    ASSUME NEW T, NEW doc \in Seq(T), NEW s \in CharSpans(doc), s[1] = "value", NEW x, NEW y, NEW f,
           AgreeInside(doc, CharSpans(doc), x, y, s)
    PROVE  IsCharValue(doc, x, s[2], s[3], f) <=> IsCharValue(doc, y, s[2], s[3], f)
<1> DEFINE i == s[2]
<1> DEFINE j == s[3]
<1>0. InnerAgree(doc, x, y, s)
  BY CharAgree
<1>1. Len(doc) \in Nat /\ i \in 1 .. Len(doc) + 1 /\ j \in 0 .. Len(doc) /\ {} \in SUBSET CharNames
  BY CharSpanIs DEF IsSpan
<1>2. CASE ~(i <= j)
  BY <1>2 DEF IsCharValue
<1>3. CASE i <= j
  <2>1. /\ x[<<"value", i + 1, j, FALSE, {}>>] = y[<<"value", i + 1, j, FALSE, {}>>]
    <3>1. i + 1 \in 1 .. Len(doc) + 1 /\ i + 1 > s[2] /\ i + 1 >= s[2] /\ j <= s[3]
      BY <1>1, <1>3
    <3> HIDE DEF i, j
    <3>2. QED
      BY <1>0, <1>1, <3>1 DEF InnerAgree
  <2>2. /\ x[<<"array", i + 1, j - 1, FALSE, {}>>] = y[<<"array", i + 1, j - 1, FALSE, {}>>]
        /\ x[<<"object", i + 1, j - 1, TRUE, {}>>] = y[<<"object", i + 1, j - 1, TRUE, {}>>]
    <3>1. /\ i + 1 \in 1 .. Len(doc) + 1 /\ i + 1 > s[2] /\ i + 1 >= s[2] /\ j - 1 <= s[3] /\ j - 1 \in 0 .. Len(doc)
          /\ "array" \in {"value", "object", "array"} /\ "object" \in {"value", "object", "array"}
      BY <1>1, <1>3
    <3> HIDE DEF i, j
    <3>2. QED
      BY <1>0, <1>1, <3>1 DEF InnerAgree
  <2> HIDE DEF i, j
  <2>3. IsCharValue(doc, x, i, j, f) <=> IsCharValue(doc, y, i, j, f)
    BY <2>1, <2>2, Zenon DEF IsCharValue
  <2>4. QED
    BY <2>3 DEF i, j
<1>4. QED
  BY <1>2, <1>3

LEMMA CharElementsDepend ==
    ASSUME NEW T, NEW doc \in Seq(T), NEW s \in CharSpans(doc), s[1] = "array", NEW x, NEW y, NEW f,
           AgreeInside(doc, CharSpans(doc), x, y, s), AreElements(doc, x, s[2], s[3], f)
    PROVE  AreElements(doc, y, s[2], s[3], f)
<1> DEFINE i == s[2]
<1> DEFINE j == s[3]
<1>0. InnerAgree(doc, x, y, s)
  BY CharAgree
<1>1. Len(doc) \in Nat /\ i \in 1 .. Len(doc) + 1 /\ j \in 0 .. Len(doc) /\ {} \in SUBSET CharNames
  BY CharSpanIs DEF IsSpan
<1>2. PICK k \in i - 1 .. j :
        /\ IsOrIsDropped(doc, x, i, k, f)
        /\ \E t \in k + 1 .. j + 1 :
              /\ Comments(doc, k + 1, t - 1)
              /\ \/ t = j + 1
                 \/ doc[t] = "," /\ x[<<"array", t + 1, j, FALSE, {}>>]
                 \/ doc[t] = "," /\ t = j /\ f.allowTrailingCommas /\ ~f.allowDroppedNullPlaceholders
  BY DEF AreElements
<1>3. PICK t \in k + 1 .. j + 1 :
         /\ Comments(doc, k + 1, t - 1)
         /\ \/ t = j + 1
            \/ doc[t] = "," /\ x[<<"array", t + 1, j, FALSE, {}>>]
            \/ doc[t] = "," /\ t = j /\ f.allowTrailingCommas /\ ~f.allowDroppedNullPlaceholders
  BY <1>2
<1>4. x[<<"value", i, k, FALSE, {}>>] = y[<<"value", i, k, FALSE, {}>>]
  <2>1. k \in 0 .. Len(doc) /\ k <= s[3] /\ i >= s[2] /\ s[1] # "value"
    BY <1>1
  <2> HIDE DEF i, j
  <2>2. QED
    BY <1>0, <1>1, <2>1 DEF InnerAgree
<1>5. IsOrIsDropped(doc, y, i, k, f)
  BY <1>2, <1>4, Zenon DEF IsOrIsDropped
<1>6. t # j + 1 => x[<<"array", t + 1, j, FALSE, {}>>] = y[<<"array", t + 1, j, FALSE, {}>>]
  <2>1. SUFFICES ASSUME t # j + 1 PROVE x[<<"array", t + 1, j, FALSE, {}>>] = y[<<"array", t + 1, j, FALSE, {}>>]
    OBVIOUS
  <2>2. t + 1 \in 1 .. Len(doc) + 1 /\ t + 1 > s[2] /\ t + 1 >= s[2] /\ j <= s[3] /\ "array" \in {"value", "object", "array"}
    BY <1>1, <2>1
  <2> HIDE DEF i, j
  <2>3. QED
    BY <1>0, <1>1, <2>2 DEF InnerAgree
<1> HIDE DEF i, j
<1>7. /\ Comments(doc, k + 1, t - 1)
      /\ \/ t = j + 1
         \/ doc[t] = "," /\ y[<<"array", t + 1, j, FALSE, {}>>]
         \/ doc[t] = "," /\ t = j /\ f.allowTrailingCommas /\ ~f.allowDroppedNullPlaceholders
  BY <1>3, <1>6, Zenon
<1>8. AreElements(doc, y, i, j, f)
  BY <1>5, <1>7, Zenon DEF AreElements
<1>9. QED
  BY <1>8 DEF i, j

LEMMA CharMembersDepend ==
    ASSUME NEW T, NEW doc \in Seq(T), NEW s \in CharSpans(doc), s[1] = "object", NEW x, NEW y,
           NEW f, IsSettings(f), AgreeInside(doc, CharSpans(doc), x, y, s), AreMembers(doc, x, s[2], s[3], s[4], s[5], f)
    PROVE  AreMembers(doc, y, s[2], s[3], s[4], s[5], f)
<1> DEFINE i == s[2]
<1> DEFINE j == s[3]
<1> DEFINE u == s[4]
<1> DEFINE names == s[5]
<1>0. InnerAgree(doc, x, y, s)
  BY CharAgree
<1>1. Len(doc) \in Nat /\ i \in 1 .. Len(doc) + 1 /\ j \in 0 .. Len(doc) /\ {} \in SUBSET CharNames /\ names \in SUBSET CharNames
  BY CharSpanIs DEF IsSpan
<1> DEFINE after(z, m, k, t) ==
             /\ Comments(doc, k + 1, t - 1)
             /\ \/ t = j + 1
                \/ /\ doc[k + 1] \in {",", "/"} /\ doc[t] \notin {"}", "/"}
                   /\ z[<<"object", t + 1, j, doc[m] = "" \/ f.allowTrailingCommas, names \cup {doc[m]}>>]
<1> DEFINE member(z, m) ==
             /\ m + 1 <= j /\ doc[m] \in NameTokens(f) /\ doc[m + 1] = ":"
             /\ f.rejectDupKeys => doc[m] \notin names
             /\ \E k \in m + 1 .. j : IsOrIsDropped(doc, z, m + 2, k, f) /\ \E t \in k + 1 .. j + 1 : after(z, m, k, t)
<1>2. \A z : AreMembers(doc, z, i, j, u, names, f) <=>
               \E m \in i .. j + 1 : Comments(doc, i, m - 1) /\ ((m = j + 1 /\ u) \/ member(z, m))
  BY Zenon DEF AreMembers
<1> HIDE DEF member
<1>3. PICK m \in i .. j + 1 : Comments(doc, i, m - 1) /\ ((m = j + 1 /\ u) \/ member(x, m))
  BY <1>2
<1>4. CASE m = j + 1 /\ u
  BY <1>2, <1>3, <1>4
<1>5. CASE member(x, m)
  <2>1. PICK k \in m + 1 .. j : IsOrIsDropped(doc, x, m + 2, k, f) /\ \E t \in k + 1 .. j + 1 : after(x, m, k, t)
    BY <1>5 DEF member
  <2>2. PICK t \in k + 1 .. j + 1 : after(x, m, k, t)
    BY <2>1
  <2>3. m + 1 <= j /\ doc[m] \in NameTokens(f)
    BY <1>5 DEF member
  <2>4. x[<<"value", m + 2, k, FALSE, {}>>] = y[<<"value", m + 2, k, FALSE, {}>>]
    <3> HIDE DEF i, j, names, after
    <3> DEFINE n == Len(doc)
    <3>1. n \in Nat /\ i \in 1 .. n + 1 /\ j \in 0 .. n /\ m + 1 <= j
      BY <1>1, <2>3
    <3> HIDE DEF n
    <3>2. m + 2 \in 1 .. n + 1 /\ k \in 0 .. n /\ k <= j /\ m + 2 >= i /\ m + 2 > i
      BY <3>1
    <3>3. m + 2 \in 1 .. Len(doc) + 1 /\ k \in 0 .. Len(doc) /\ k <= s[3] /\ m + 2 >= s[2] /\ s[1] # "value"
      BY <3>2 DEF i, j, n
    <3>4. QED
      BY <1>0, <1>1, <3>3 DEF InnerAgree
  <2>5. IsOrIsDropped(doc, y, m + 2, k, f)
    BY <2>1, <2>4, Zenon DEF IsOrIsDropped
  <2> DEFINE b == doc[m] = "" \/ f.allowTrailingCommas
  <2> DEFINE more == names \cup {doc[m]}
  <2>6. b \in BOOLEAN /\ more \in SUBSET CharNames
    <3>1. doc[m] \in CharNames
      BY <2>3, NameTokensAre
    <3>2. QED
      BY <1>1, <3>1 DEF IsSettings
  <2>7. t # j + 1 => x[<<"object", t + 1, j, b, more>>] = y[<<"object", t + 1, j, b, more>>]
    <3>1. SUFFICES ASSUME t # j + 1 PROVE x[<<"object", t + 1, j, b, more>>] = y[<<"object", t + 1, j, b, more>>]
      OBVIOUS
    <3> HIDE DEF i, j, b, more, names, after
    <3> DEFINE n == Len(doc)
    <3>2. n \in Nat /\ i \in 1 .. n + 1 /\ j \in 0 .. n
      BY <1>1
    <3> HIDE DEF n
    <3>3. t + 1 \in 1 .. n + 1 /\ t + 1 > i /\ t + 1 >= i /\ j <= j
      BY <3>1, <3>2
    <3>4. t + 1 \in 1 .. Len(doc) + 1 /\ t + 1 > s[2] /\ t + 1 >= s[2] /\ j <= s[3]
      BY <3>3 DEF i, j, n
    <3>5. "object" \in {"value", "object", "array"}
      OBVIOUS
    <3>6. QED
      BY <1>0, <1>1, <2>6, <3>4, <3>5 DEF InnerAgree
  <2> HIDE DEF i, j, b, more, names
  <2>8. after(y, m, k, t)
    BY <2>2, <2>7, Zenon DEF b, more
  <2>9. member(y, m)
    BY <1>5, <2>5, <2>8, Zenon DEF member
  <2>10. AreMembers(doc, y, i, j, u, names, f)
    BY <1>2, <1>3, <2>9
  <2>11. QED
    BY <2>10 DEF i, j, names
<1>6. QED
  BY <1>3, <1>4, <1>5

LEMMA CharDerivedDepends ==
    ASSUME NEW T, NEW doc \in Seq(T), NEW s \in CharSpans(doc), NEW x, NEW y,
           NEW f, IsSettings(f), AgreeInside(doc, CharSpans(doc), x, y, s)
    PROVE  CharDerived(doc, x, s, f) = CharDerived(doc, y, s, f) /\ CharDerived(doc, x, s, f) \in BOOLEAN
<1>0. s[1] \in {"value", "object", "array"} /\ AgreeInside(doc, CharSpans(doc), y, x, s)
  BY CharSpanIs DEF IsSpan, AgreeInside
<1>1. CASE s[1] = "value"
  <2>1. \A z : CharDerived(doc, z, s, f) = IsCharValue(doc, z, s[2], s[3], f)
    BY <1>1 DEF CharDerived
  <2>2. \A z : IsCharValue(doc, z, s[2], s[3], f) \in BOOLEAN
    BY DEF IsCharValue
  <2>3. IsCharValue(doc, x, s[2], s[3], f) <=> IsCharValue(doc, y, s[2], s[3], f)
    BY <1>1, CharValueDepends
  <2>4. QED
    BY <2>1, <2>2, <2>3
<1>2. CASE s[1] = "array"
  <2>1. \A z : CharDerived(doc, z, s, f) = AreElements(doc, z, s[2], s[3], f)
    BY <1>2 DEF CharDerived
  <2>2. \A z : AreElements(doc, z, s[2], s[3], f) \in BOOLEAN
    BY DEF AreElements
  <2>3. AreElements(doc, x, s[2], s[3], f) <=> AreElements(doc, y, s[2], s[3], f)
    BY <1>0, <1>2, CharElementsDepend
  <2>4. QED
    BY <2>1, <2>2, <2>3
<1>3. CASE s[1] = "object"
  <2>1. \A z : CharDerived(doc, z, s, f) = AreMembers(doc, z, s[2], s[3], s[4], s[5], f)
    BY <1>3 DEF CharDerived
  <2>2. \A z : AreMembers(doc, z, s[2], s[3], s[4], s[5], f) \in BOOLEAN
    BY DEF AreMembers
  <2>3. AreMembers(doc, x, s[2], s[3], s[4], s[5], f) <=> AreMembers(doc, y, s[2], s[3], s[4], s[5], f)
    BY <1>0, <1>3, CharMembersDepend
  <2>4. QED
    BY <2>1, <2>2, <2>3
<1>4. QED
  BY <1>0, <1>1, <1>2, <1>3

\* A grammar, from what its rules say of functions on spans.
GrammarRules(doc, D, G) ==
    /\ \A s \in D : IsSpan(doc, s)
    /\ G = [is \in [D -> BOOLEAN] |-> G[is]]
    /\ \A is \in [D -> BOOLEAN] : G[is] = [s \in D |-> G[is][s]] /\ \A s \in D : G[is][s] \in BOOLEAN
    /\ \A x, y \in [D -> BOOLEAN] : \A s \in D : AgreeInside(doc, D, x, y, s) => G[x][s] = G[y][s]

LEMMA GrammarExists ==
    ASSUME NEW T, NEW doc \in Seq(T), NEW D, NEW G, GrammarRules(doc, D, G)
    PROVE  \E is \in [D -> BOOLEAN] : is = G[is]
<1>a. /\ \A s \in D : IsSpan(doc, s)
      /\ G = [is \in [D -> BOOLEAN] |-> G[is]]
      /\ \A is \in [D -> BOOLEAN] : G[is] = [s \in D |-> G[is][s]] /\ \A s \in D : G[is][s] \in BOOLEAN
      /\ \A x, y \in [D -> BOOLEAN] : \A s \in D : AgreeInside(doc, D, x, y, s) => G[x][s] = G[y][s]
  BY Zenon DEF GrammarRules
<1> DEFINE F == [D -> BOOLEAN]
<1> DEFINE m == [s \in D |-> SpanMeasure(doc, s)]
<1> DEFINE M == 4 * (Len(doc) + 1)
<1>0. Len(doc) \in Nat /\ M \in Nat
  OBVIOUS
<1>1. \A s \in D : m[s] \in 0 .. M
  BY <1>a, SpanMeasureIs
<1>2. F # {}
  <2>1. [s \in D |-> TRUE] \in F
    OBVIOUS
  <2>2. QED
    BY <2>1
<1>3. FunctionsOn(F, D)
  BY DEF FunctionsOn
<1>4. ASSUME NEW is \in F PROVE G[is] \in F
  <2>1. G[is] = [s \in D |-> G[is][s]] /\ \A s \in D : G[is][s] \in BOOLEAN
    BY <1>a, <1>4
  <2> DEFINE g == G[is]
  <2>2. g = [s \in D |-> g[s]] /\ \A s \in D : g[s] \in BOOLEAN
    BY <2>1
  <2> HIDE DEF g
  <2>3. g \in [D -> BOOLEAN]
    BY <2>2
  <2>4. QED
    BY <2>3 DEF g
<1>5. DependsBelow(G, F, D, m)
  <2>1. ASSUME NEW x \in F, NEW y \in F, NEW s \in D, \A r \in D : m[r] < m[s] => x[r] = y[r]
        PROVE  G[x][s] = G[y][s]
    <3>1. AgreeInside(doc, D, x, y, s)
      BY <2>1 DEF AgreeInside
    <3>2. QED
      BY <1>a, <3>1
  <2> HIDE DEF m, F
  <2>2. QED
    BY <2>1 DEF DependsBelow
<1> HIDE DEF F, m, M
<1>6. G \in [F -> F]
  <2>1. G = [is \in F |-> G[is]]
    BY <1>a DEF F
  <2>2. QED
    BY <1>4, <2>1
<1>7. \E is \in F : is = G[is]
  <2>1. Recursive(D, M, m, F, G)
    BY <1>0, <1>1, <1>2, <1>3, <1>5, <1>6 DEF Recursive
  <2>2. QED
    BY <2>1, MeasuredRecursion
<1>8. QED
  BY <1>7 DEF F

LEMMA CharGrammarIs ==
    ASSUME NEW T, NEW doc \in Seq(T), NEW f, IsSettings(f)
    PROVE  \A s \in CharSpans(doc) : /\ CharGrammar(doc, f)[s] = CharDerived(doc, CharGrammar(doc, f), s, f)
                                     /\ CharGrammar(doc, f)[s] \in BOOLEAN
<1> DEFINE D == CharSpans(doc)
<1> DEFINE F == [D -> BOOLEAN]
<1> DEFINE G == [is \in F |-> [s \in D |-> CharDerived(doc, is, s, f)]]
<1> DEFINE P(is) == is = [s \in D |-> CharDerived(doc, is, s, f)]
<1>0. \A s \in D : IsSpan(doc, s)
  BY CharSpanIs
<1>1. \A is \in F : G[is] = [s \in D |-> CharDerived(doc, is, s, f)]
  OBVIOUS
<1>2. G = [is \in F |-> G[is]]
  OBVIOUS
<1>3. ASSUME NEW x, NEW y, NEW s \in D, AgreeInside(doc, D, x, y, s)
      PROVE  CharDerived(doc, x, s, f) = CharDerived(doc, y, s, f)
  BY <1>3, CharDerivedDepends
<1>4. ASSUME NEW x, NEW s \in D PROVE CharDerived(doc, x, s, f) \in BOOLEAN
  <2>1. AgreeInside(doc, D, x, x, s)
    BY DEF AgreeInside
  <2>2. QED
    BY <2>1, CharDerivedDepends
<1> HIDE DEF D, G
<1>5. \E is \in F : is = G[is]
  <2>1. \A is \in F : G[is] = [s \in D |-> G[is][s]] /\ \A s \in D : G[is][s] \in BOOLEAN
    <3>1. ASSUME NEW is \in F PROVE G[is] = [s \in D |-> G[is][s]] /\ \A s \in D : G[is][s] \in BOOLEAN
      <4> DEFINE g == [s \in D |-> CharDerived(doc, is, s, f)]
      <4>1. g = [s \in D |-> g[s]] /\ \A s \in D : g[s] \in BOOLEAN
        BY <1>4
      <4>2. G[is] = g
        BY <1>1
      <4> HIDE DEF g
      <4>3. QED
        BY <4>1, <4>2
    <3>2. QED
      BY <3>1
  <2>2. \A x, y \in F : \A s \in D : AgreeInside(doc, D, x, y, s) => G[x][s] = G[y][s]
    <3>1. ASSUME NEW x \in F, NEW y \in F, NEW s \in D, AgreeInside(doc, D, x, y, s) PROVE G[x][s] = G[y][s]
      <4>1. G[x][s] = CharDerived(doc, x, s, f) /\ G[y][s] = CharDerived(doc, y, s, f)
        BY <1>1
      <4>2. QED
        BY <1>3, <3>1, <4>1
    <3>2. QED
      BY <3>1
  <2>3. QED
    <3>1. GrammarRules(doc, D, G)
      BY <1>0, <1>2, <2>1, <2>2, Zenon DEF GrammarRules
    <3>2. QED
      BY <3>1, GrammarExists
<1>6. \E is : P(is)
  <2>1. PICK is \in F : is = G[is]
    BY <1>5
  <2>2. P(is)
    BY <1>1, <2>1
  <2> HIDE DEF P
  <2>3. QED
    BY <2>2, Zenon
<1> DEFINE X == CharGrammar(doc, f)
<1>7. P(X)
  <2>1. X = CHOOSE is : P(is)
    BY Zenon DEF CharGrammar, D
  <2> HIDE DEF P, X
  <2>2. QED
    BY <1>6, <2>1, Zenon
<1> HIDE DEF X
<1>8. \A s \in D : X[s] = CharDerived(doc, X, s, f)
  BY <1>7, Zenon
<1>9. QED
  BY <1>4, <1>8 DEF X, D

-----------------------------------------------------------------------------
(* The rules of the grammar of OurReader.                                  *)

HasValue(doc, f, i, j) == CharGrammar(doc, f)[<<"value", i, j, FALSE, {}>>]
HasElements(doc, f, i, j) == CharGrammar(doc, f)[<<"array", i, j, FALSE, {}>>]
HasMembers(doc, f, i, j, u, names) == CharGrammar(doc, f)[<<"object", i, j, u, names>>]
MayBeValue(doc, f, i, j) == IsOrIsDropped(doc, CharGrammar(doc, f), i, j, f)

LEMMA MayBeValueIs ==
    ASSUME NEW doc, NEW f, NEW i, NEW j
    PROVE  MayBeValue(doc, f, i, j) <=> (HasValue(doc, f, i, j) \/ Dropped(doc, i, j, f))
BY Zenon DEF MayBeValue, HasValue, IsOrIsDropped

LEMMA ValueRule ==
    ASSUME NEW T, NEW doc \in Seq(T), NEW f, IsSettings(f), NEW i \in 1 .. Len(doc) + 1, NEW j \in 0 .. Len(doc)
    PROVE  HasValue(doc, f, i, j) <=>
             /\ i <= j
             /\ \/ f.allowComments /\ doc[i] = "/" /\ HasValue(doc, f, i + 1, j)
                \/ i = j /\ doc[i] \in CharTexts \ Refused(f)
                \/ i < j /\ doc[i] = "[" /\ doc[j] = "]" /\ (j = i + 1 \/ HasElements(doc, f, i + 1, j - 1))
                \/ i < j /\ doc[i] = "{" /\ doc[j] = "}" /\ HasMembers(doc, f, i + 1, j - 1, TRUE, {})
<1> DEFINE s == <<"value", i, j, FALSE, {}>>
<1>1. s \in CharSpans(doc)
  BY CharSpansAre
<1>2. s[1] = "value" /\ s[2] = i /\ s[3] = j
  OBVIOUS
<1> HIDE DEF s
<1>3. CharGrammar(doc, f)[s] = CharDerived(doc, CharGrammar(doc, f), s, f)
  BY <1>1, CharGrammarIs
<1>4. CharDerived(doc, CharGrammar(doc, f), s, f) = IsCharValue(doc, CharGrammar(doc, f), i, j, f)
  BY <1>2 DEF CharDerived
<1>5. HasValue(doc, f, i, j) = IsCharValue(doc, CharGrammar(doc, f), i, j, f)
  BY <1>3, <1>4 DEF HasValue, s
<1>6. Strings \cup Scalars \cup SingleQuoted \cup SpecialFloats = CharTexts
  BY DEF CharTexts
<1>7. QED
  BY <1>5, <1>6, Zenon DEF IsCharValue, HasValue, HasElements, HasMembers

LEMMA ElementsRule ==
    ASSUME NEW T, NEW doc \in Seq(T), NEW f, IsSettings(f), NEW i \in 1 .. Len(doc) + 1, NEW j \in 0 .. Len(doc)
    PROVE  HasElements(doc, f, i, j) <=>
             \E k \in i - 1 .. j :
                 /\ MayBeValue(doc, f, i, k)
                 /\ \E t \in k + 1 .. j + 1 :
                       /\ Comments(doc, k + 1, t - 1)
                       /\ \/ t = j + 1
                          \/ doc[t] = "," /\ HasElements(doc, f, t + 1, j)
                          \/ doc[t] = "," /\ t = j /\ f.allowTrailingCommas /\ ~f.allowDroppedNullPlaceholders
<1> DEFINE s == <<"array", i, j, FALSE, {}>>
<1>1. s \in CharSpans(doc)
  BY CharSpansAre
<1>2. s[1] = "array" /\ s[2] = i /\ s[3] = j
  OBVIOUS
<1> HIDE DEF s
<1>3. CharGrammar(doc, f)[s] = CharDerived(doc, CharGrammar(doc, f), s, f)
  BY <1>1, CharGrammarIs
<1>4. CharDerived(doc, CharGrammar(doc, f), s, f) = AreElements(doc, CharGrammar(doc, f), i, j, f)
  BY <1>2 DEF CharDerived
<1>5. HasElements(doc, f, i, j) = AreElements(doc, CharGrammar(doc, f), i, j, f)
  BY <1>3, <1>4 DEF HasElements, s
<1>6. QED
  BY <1>5, Zenon DEF AreElements, MayBeValue, HasElements

\* A member after its name, and what follows its value.
NameIs(doc, f, q, names) == doc[q] \in NameTokens(f) /\ (f.rejectDupKeys => doc[q] \notin names)
MoreMembers(doc, f, k, t, j, name, names) ==
    \/ t = j + 1
    \/ /\ doc[k + 1] \in {",", "/"} /\ doc[t] \notin {"}", "/"}
       /\ HasMembers(doc, f, t + 1, j, name = "" \/ f.allowTrailingCommas, names \cup {name})
MemberValue(doc, f, q, j, names) ==
    \E k \in q + 1 .. j :
        /\ MayBeValue(doc, f, q + 2, k)
        /\ \E t \in k + 1 .. j + 1 : Comments(doc, k + 1, t - 1) /\ MoreMembers(doc, f, k, t, j, doc[q], names)
FirstMember(doc, f, q, j, names) ==
    q + 1 <= j /\ NameIs(doc, f, q, names) /\ doc[q + 1] = ":" /\ MemberValue(doc, f, q, j, names)

LEMMA MembersRule ==
    ASSUME NEW T, NEW doc \in Seq(T), NEW f, IsSettings(f), NEW i \in 1 .. Len(doc) + 1, NEW j \in 0 .. Len(doc),
           NEW u \in BOOLEAN, NEW names \in SUBSET CharNames
    PROVE  HasMembers(doc, f, i, j, u, names) <=>
             \E m \in i .. j + 1 : Comments(doc, i, m - 1) /\ ((m = j + 1 /\ u) \/ FirstMember(doc, f, m, j, names))
<1> DEFINE s == <<"object", i, j, u, names>>
<1>1. s \in CharSpans(doc)
  BY CharSpansAre
<1>2. s[1] = "object" /\ s[2] = i /\ s[3] = j /\ s[4] = u /\ s[5] = names
  OBVIOUS
<1> HIDE DEF s
<1>3. CharGrammar(doc, f)[s] = CharDerived(doc, CharGrammar(doc, f), s, f)
  BY <1>1, CharGrammarIs
<1>4. CharDerived(doc, CharGrammar(doc, f), s, f) = AreMembers(doc, CharGrammar(doc, f), i, j, u, names, f)
  BY <1>2 DEF CharDerived
<1>5. HasMembers(doc, f, i, j, u, names) = AreMembers(doc, CharGrammar(doc, f), i, j, u, names, f)
  BY <1>3, <1>4 DEF HasMembers, s
<1>6. AreMembers(doc, CharGrammar(doc, f), i, j, u, names, f) <=>
             \E m \in i .. j + 1 : Comments(doc, i, m - 1) /\ ((m = j + 1 /\ u) \/ FirstMember(doc, f, m, j, names))
  BY Zenon DEF AreMembers, MayBeValue, HasMembers, FirstMember, NameIs, MemberValue, MoreMembers
<1>7. QED
  BY <1>5, <1>6

LEMMA TextsAreNoMarks ==
    ASSUME NEW t \in CharTexts
    PROVE  t \notin {"{", "}", "[", "]", ",", ":", "/", "x", "bad", "end"}
BY ReaderAssumption, CharReaderAssumption DEF CharTexts, Tokens, Marks

LEMMA MarksAreNotRefused ==
    ASSUME NEW f, NEW t \in {"{", "}", "[", "]", ",", ":", "/"}
    PROVE  t \notin Refused(f)
<1>1. Refused(f) \subseteq {"bom"} \cup SingleQuoted \cup SpecialFloats
  BY DEF Refused
<1>2. t \in Tokens
  BY DEF Tokens, Marks
<1>3. QED
  BY <1>1, <1>2, CharReaderAssumption

\* The token that OurReader sees: a mark, a text or anything else.
PlainMarks == {"{", "}", "[", "]", ",", ":", "/"}
Sees(doc, f, q, token) ==
    /\ \A t \in PlainMarks : token = t <=> (q <= Len(doc) /\ doc[q] = t)
    /\ \A t \in PlainMarks : Token(doc, q) = t <=> (q <= Len(doc) /\ doc[q] = t)
    /\ token \in CharTexts <=> (q <= Len(doc) /\ doc[q] \in CharTexts \ Refused(f))
    /\ token \in CharTexts => token = doc[q]

LEMMA SeenToken ==
    ASSUME NEW T, NEW doc \in Seq(T), NEW q \in Places(doc), NEW f
    PROVE  Sees(doc, f, q, CharToken(doc, q, f))
<1>1. \A t \in {"{", "}", "[", "]", ",", ":", "/"} : Token(doc, q) = t <=> (q <= Len(doc) /\ doc[q] = t)
  BY DEF Token
<1>2. ASSUME NEW t \in {"{", "}", "[", "]", ",", ":", "/"} PROVE CharToken(doc, q, f) = t <=> Token(doc, q) = t
  <2>1. t \notin Refused(f) /\ t # "x"
    BY MarksAreNotRefused
  <2>2. QED
    BY <2>1 DEF CharToken
<1>3. "x" \notin CharTexts /\ "end" \notin CharTexts
  BY TextsAreNoMarks
<1>4. CharToken(doc, q, f) \in CharTexts <=> (q <= Len(doc) /\ doc[q] \in CharTexts \ Refused(f))
  BY <1>3 DEF CharToken, Token
<1>5. CharToken(doc, q, f) \in CharTexts => CharToken(doc, q, f) = doc[q]
  BY <1>3 DEF CharToken, Token
<1>6. QED
  BY <1>1, <1>2, <1>4, <1>5 DEF Sees, PlainMarks

LEMMA FirstPlace ==
    ASSUME NEW T, NEW doc \in Seq(T), NEW p \in Places(doc), NEW t \in p .. Len(doc), Comments(doc, p, t - 1),
           doc[t] # "/"
    PROVE  AfterComments(doc, p) = t
<1> DEFINE q == AfterComments(doc, p)
<1>1. /\ q \in Places(doc) /\ q >= p
      /\ \A k \in p .. q - 1 : doc[k] = "/"
      /\ q <= Len(doc) => doc[q] # "/"
  BY AfterCommentsIs
<1>2. p \in Nat /\ t \in Nat /\ q \in Nat /\ Len(doc) \in Nat
  BY <1>1 DEF Places
<1> HIDE DEF q
<1>3. ~(q < t)
  <2>1. SUFFICES ASSUME q < t PROVE FALSE
    OBVIOUS
  <2>2. q \in p .. t - 1 /\ q <= Len(doc)
    BY <1>1, <1>2, <2>1
  <2>3. QED
    BY <1>1, <2>2 DEF Comments
<1>4. ~(t < q)
  <2>1. SUFFICES ASSUME t < q PROVE FALSE
    OBVIOUS
  <2>2. t \in p .. q - 1
    BY <1>1, <1>2, <2>1
  <2>3. QED
    BY <1>1, <2>2
<1>5. QED
  BY <1>2, <1>3, <1>4 DEF q

LEMMA CommentsBefore ==
    ASSUME NEW T, NEW doc \in Seq(T), NEW p \in Places(doc)
    PROVE  Comments(doc, p, AfterComments(doc, p) - 1)
BY AfterCommentsIs DEF Comments

\* Comments before a value belong to it where they are allowed.
LEMMA CommentsSkipped ==
    ASSUME NEW T, NEW doc \in Seq(T), NEW f, IsSettings(f), f.allowComments, NEW q \in Places(doc), NEW p \in 1 .. q,
           Comments(doc, p, q - 1), NEW j \in 0 .. Len(doc)
    PROVE  HasValue(doc, f, p, j) <=> HasValue(doc, f, q, j)
<1> DEFINE N == {m \in Nat : m < q /\ Comments(doc, q - m, q - 1) =>
                                (HasValue(doc, f, q - m, j) <=> HasValue(doc, f, q, j))}
<1>0. Len(doc) \in Nat /\ q \in 1 .. Len(doc) + 1 /\ p \in Nat /\ q \in Nat /\ p >= 1 /\ p <= q
  BY DEF Places
<1>1. 0 \in N
  <2>1. q - 0 = q
    BY <1>0
  <2>2. QED
    BY <2>1
<1>2. ASSUME NEW m \in Nat, m \in N PROVE m + 1 \in N
  <2>1. ASSUME m + 1 < q, Comments(doc, q - (m + 1), q - 1)
        PROVE  HasValue(doc, f, q - (m + 1), j) <=> HasValue(doc, f, q, j)
    <3> DEFINE i == q - (m + 1)
    <3>2. i \in 1 .. Len(doc) + 1 /\ i + 1 = q - m /\ i + 1 \in 1 .. Len(doc) + 1 /\ m < q /\ i \in Nat /\ i < q
      BY <1>0, <2>1
    <3>3. doc[i] = "/" /\ Comments(doc, q - m, q - 1)
      <4>1. \A k \in i .. q - 1 : doc[k] = "/"
        BY <2>1 DEF Comments
      <4>2. i \in i .. q - 1 /\ q - m .. q - 1 \subseteq i .. q - 1
        BY <1>0, <3>2
      <4> HIDE DEF i
      <4>3. QED
        BY <4>1, <4>2 DEF Comments
    <3> HIDE DEF i
    <3>4. HasValue(doc, f, i + 1, j) <=> HasValue(doc, f, q, j)
      <4>1. HasValue(doc, f, q - m, j) <=> HasValue(doc, f, q, j)
        BY <1>2, <3>2, <3>3
      <4>2. QED
        BY <3>2, <4>1, Zenon
    <3>5. HasValue(doc, f, i + 1, j) => i <= j
      <4>1. HasValue(doc, f, i + 1, j) => i + 1 <= j
        BY <3>2, ValueRule
      <4>2. QED
        BY <3>2, <4>1
    <3>6. doc[i] \notin CharTexts \ Refused(f) /\ doc[i] # "[" /\ doc[i] # "{"
      BY <3>3, TextsAreNoMarks
    <3>7. HasValue(doc, f, i, j) <=> i <= j /\ f.allowComments /\ doc[i] = "/" /\ HasValue(doc, f, i + 1, j)
      BY <3>2, <3>6, ValueRule
    <3>8. HasValue(doc, f, i, j) <=> HasValue(doc, f, i + 1, j)
      BY <3>3, <3>5, <3>7
    <3>9. QED
      BY <3>4, <3>8 DEF i
  <2>2. m + 1 \in Nat
    OBVIOUS
  <2>3. QED
    BY <2>1, <2>2
<1> HIDE DEF N
<1>3. \A m \in Nat : m \in N
  BY <1>1, <1>2, AllNumbers
<1>4. q - p \in Nat /\ q - (q - p) = p /\ q - p < q
  BY <1>0
<1>5. q - p \in N
  BY <1>3, <1>4
<1>6. QED
  BY <1>4, <1>5, Zenon DEF N

-----------------------------------------------------------------------------
(* What OurReader reads from a place on is what the grammar has there.     *)

ValueHolds(doc, f, p, r) ==
    r.thrown \/ \A k \in p - 1 .. Len(doc) : MayBeValue(doc, f, p, k) <=> (r.ok /\ r.at = k + 1)
MembersHold(doc, f, p, u, names, r) ==
    \/ r.thrown
    \/ /\ r.ok => r.at >= p + 1 /\ doc[r.at - 1] = "}"
       /\ \A j \in 0 .. Len(doc) - 1 : doc[j + 1] = "}" =>
              (HasMembers(doc, f, p, j, u \/ f.allowTrailingCommas, names) <=> (r.ok /\ r.at = j + 2))
EmptyElements(f, first) == first \/ (f.allowTrailingCommas /\ ~f.allowDroppedNullPlaceholders)
ElementsHold(doc, f, p, first, r) ==
    \/ r.thrown
    \/ /\ r.ok => r.at >= p + 1 /\ doc[r.at - 1] = "]"
       /\ \A j \in 0 .. Len(doc) - 1 : doc[j + 1] = "]" =>
              ((j = p - 1 /\ EmptyElements(f, first)) \/ HasElements(doc, f, p, j) <=> (r.ok /\ r.at = j + 2))

CallHolds(doc, f, c) ==
    /\ c[1] = "value" => ValueHolds(doc, f, c[2], CharReads(doc, f)[c])
    /\ c[1] = "object" => MembersHold(doc, f, c[2], c[4], c[5], CharReads(doc, f)[c])
    /\ c[1] = "array" => ElementsHold(doc, f, c[2], c[4], CharReads(doc, f)[c])
CallsFrom(c, e, p) == c[1] = e /\ c[2] = p
CallsInsideHold(doc, f, c) ==
    \A y \in CharCalls(doc) :
        y[2] > c[2] \/ (y[2] = c[2] /\ c[1] # "value" /\ y[1] = "value") => CallHolds(doc, f, y)

\* What is read, and that it is an outcome.
ValueAt(doc, f, q, d) == CharReads(doc, f)[<<"value", q, d, FALSE, {}>>]
MembersAt(doc, f, q, d, u, names) == CharReads(doc, f)[<<"object", q, d, u, names>>]
ElementsAt(doc, f, q, d, first) == CharReads(doc, f)[<<"array", q, d, first, {}>>]
IsOutcome(doc, p, r) ==
    /\ r.ok \in BOOLEAN /\ r.thrown \in BOOLEAN /\ r.at \in Places(doc)
    /\ r.ok => r.at >= p /\ ~r.thrown

LEMMA CharReadIs ==
    ASSUME NEW T, NEW doc \in Seq(T), NEW f, NEW c \in CharCalls(doc)
    PROVE  IsOutcome(doc, c[2], CharReads(doc, f)[c])
<1> DEFINE r == CharReads(doc, f)[c]
<1>1. r \in CharOutcomes(doc, c) /\ c[2] \in Places(doc)
  BY CharReadsAre, CharCallIs DEF CharReaderReads, Readers, CharOutcomes, IsCall
<1> HIDE DEF r
<1>2. r \in Outcomes(doc, c[2], CallValues(CharNames, CharTree, c))
  BY <1>1 DEF CharOutcomes, CallOutcomes
<1>3. QED
  BY <1>1, <1>2, OutcomeIs DEF IsOutcome, r

LEMMA ValueInside ==
    ASSUME NEW T, NEW doc \in Seq(T), NEW f, NEW c, CallsInsideHold(doc, f, c), NEW q \in Places(doc),
           NEW d \in 1 .. StackLimit, q > c[2] \/ (q = c[2] /\ c[1] # "value")
    PROVE  ValueHolds(doc, f, q, ValueAt(doc, f, q, d + 1)) /\ IsOutcome(doc, q, ValueAt(doc, f, q, d + 1))
<1> DEFINE y == <<"value", q, d + 1, FALSE, {}>>
<1>1. d + 1 \in 1 .. StackLimit + 1 /\ {} \in SUBSET CharNames
  BY ReaderAssumption
<1>2. y \in CharCalls(doc)
  BY <1>1, CharCallsAre
<1>3. y[1] = "value" /\ y[2] = q
  OBVIOUS
<1>4. ValueAt(doc, f, q, d + 1) = CharReads(doc, f)[y]
  BY DEF ValueAt
<1> HIDE DEF y
<1>5. CallHolds(doc, f, y)
  BY <1>2, <1>3 DEF CallsInsideHold
<1>6. IsOutcome(doc, q, CharReads(doc, f)[y])
  <2>1. IsOutcome(doc, y[2], CharReads(doc, f)[y])
    BY <1>2, CharReadIs
  <2>2. QED
    BY <1>3, <2>1, Zenon
<1>7. ValueHolds(doc, f, q, CharReads(doc, f)[y])
  BY <1>3, <1>5, Zenon DEF CallHolds
<1>8. QED
  BY <1>4, <1>6, <1>7, Zenon

LEMMA MembersInside ==
    ASSUME NEW T, NEW doc \in Seq(T), NEW f, NEW c, CallsInsideHold(doc, f, c), NEW q \in Places(doc),
           NEW d \in 1 .. StackLimit, NEW u \in BOOLEAN, NEW names \in SUBSET CharNames, q > c[2]
    PROVE  /\ MembersHold(doc, f, q, u, names, MembersAt(doc, f, q, d, u, names))
           /\ IsOutcome(doc, q, MembersAt(doc, f, q, d, u, names))
<1> DEFINE y == <<"object", q, d, u, names>>
<1>1. d \in 1 .. StackLimit + 1 /\ d <= StackLimit
  BY ReaderAssumption
<1>2. y \in CharCalls(doc)
  BY <1>1, CharCallsAre
<1>3. y[1] = "object" /\ y[2] = q /\ y[4] = u /\ y[5] = names
  OBVIOUS
<1>4. MembersAt(doc, f, q, d, u, names) = CharReads(doc, f)[y]
  BY DEF MembersAt
<1> HIDE DEF y
<1>5. CallHolds(doc, f, y)
  BY <1>2, <1>3 DEF CallsInsideHold
<1>6. IsOutcome(doc, q, CharReads(doc, f)[y])
  <2>1. IsOutcome(doc, y[2], CharReads(doc, f)[y])
    BY <1>2, CharReadIs
  <2>2. QED
    BY <1>3, <2>1, Zenon
<1>7. MembersHold(doc, f, q, u, names, CharReads(doc, f)[y])
  BY <1>3, <1>5, Zenon DEF CallHolds
<1>8. QED
  BY <1>4, <1>6, <1>7, Zenon

LEMMA ElementsInside ==
    ASSUME NEW T, NEW doc \in Seq(T), NEW f, NEW c, CallsInsideHold(doc, f, c), NEW q \in Places(doc),
           NEW d \in 1 .. StackLimit, NEW first \in BOOLEAN, q > c[2]
    PROVE  /\ ElementsHold(doc, f, q, first, ElementsAt(doc, f, q, d, first))
           /\ IsOutcome(doc, q, ElementsAt(doc, f, q, d, first))
<1> DEFINE y == <<"array", q, d, first, {}>>
<1>1. d \in 1 .. StackLimit + 1 /\ d <= StackLimit /\ {} \in SUBSET CharNames
  BY ReaderAssumption
<1>2. y \in CharCalls(doc)
  BY <1>1, CharCallsAre
<1>3. y[1] = "array" /\ y[2] = q /\ y[4] = first
  OBVIOUS
<1>4. ElementsAt(doc, f, q, d, first) = CharReads(doc, f)[y]
  BY DEF ElementsAt
<1> HIDE DEF y
<1>5. CallHolds(doc, f, y)
  BY <1>2, <1>3 DEF CallsInsideHold
<1>6. IsOutcome(doc, q, CharReads(doc, f)[y])
  <2>1. IsOutcome(doc, y[2], CharReads(doc, f)[y])
    BY <1>2, CharReadIs
  <2>2. QED
    BY <1>3, <2>1, Zenon
<1>7. ElementsHold(doc, f, q, first, CharReads(doc, f)[y])
  BY <1>3, <1>5, Zenon DEF CallHolds
<1>8. QED
  BY <1>4, <1>6, <1>7, Zenon

\* A value from a place on, by the token that is read.
ReadByToken(doc, f, d, q, token) ==
    IF token = "{" THEN MembersAt(doc, f, q + 1, d, TRUE, {})
    ELSE IF token = "[" THEN ElementsAt(doc, f, q + 1, d, TRUE)
    ELSE IF token \in CharTexts THEN Success(ScalarValue(token), q + 1)
    ELSE IF token \in {",", "}", "]"} /\ f.allowDroppedNullPlaceholders THEN Success(NullValue, q)
    ELSE Failure(Next_(doc, q), <<q>>)

LEMMA ValueRead ==
    ASSUME NEW T, NEW doc \in Seq(T), NEW f, NEW p \in Places(doc), NEW d \in 1 .. StackLimit
    PROVE  ValueAt(doc, f, p, d) = ReadByToken(doc, f, d, BeforeValue(doc, p, f), CharToken(doc, BeforeValue(doc, p, f), f))
<1> DEFINE c == <<"value", p, d, FALSE, {}>>
<1>1. d \in 1 .. StackLimit + 1 /\ ~(d > StackLimit) /\ {} \in SUBSET CharNames
  BY ReaderAssumption
<1>2. c \in CharCalls(doc)
  BY <1>1, CharCallsAre
<1>3. c[1] = "value" /\ c[2] = p /\ c[3] = d
  OBVIOUS
<1>4. ValueAt(doc, f, p, d) = CharReads(doc, f)[c]
  BY DEF ValueAt
<1> HIDE DEF c
<1>5. ValueAt(doc, f, p, d) = ReadCharValue(doc, CharReads(doc, f), p, d, f)
  <2>1. CharReads(doc, f)[c] = CharCalled(doc, CharReads(doc, f), c, f)
    BY <1>2, CharReadsAre
  <2>2. QED
    BY <1>3, <1>4, <2>1, Zenon DEF CharCalled
<1>6. QED
  BY <1>1, <1>5, Zenon DEF ReadCharValue, CharTexts, MembersAt, ElementsAt, ReadByToken

LEMMA ThrownBelow ==
    ASSUME NEW T, NEW doc \in Seq(T), NEW f, NEW p \in Places(doc), NEW d, d = StackLimit + 1
    PROVE  ValueAt(doc, f, p, d) = Thrown
<1> DEFINE c == <<"value", p, d, FALSE, {}>>
<1>1. d \in 1 .. StackLimit + 1 /\ d > StackLimit /\ {} \in SUBSET CharNames
  BY ReaderAssumption
<1>2. c \in CharCalls(doc)
  BY <1>1, CharCallsAre
<1>3. c[1] = "value" /\ c[2] = p /\ c[3] = d
  OBVIOUS
<1>4. ValueAt(doc, f, p, d) = CharReads(doc, f)[c]
  BY DEF ValueAt
<1> HIDE DEF c
<1>5. ValueAt(doc, f, p, d) = ReadCharValue(doc, CharReads(doc, f), p, d, f)
  <2>1. CharReads(doc, f)[c] = CharCalled(doc, CharReads(doc, f), c, f)
    BY <1>2, CharReadsAre
  <2>2. QED
    BY <1>3, <1>4, <2>1, Zenon DEF CharCalled
<1>6. QED
  BY <1>1, <1>5, Zenon DEF ReadCharValue

\* What shows that a value has been dropped before it.
Drops(doc, f, q) == f.allowDroppedNullPlaceholders /\ Token(doc, q) \in {",", "}", "]"}

\* Comments before a value, or before what stands for a dropped one.
LEMMA BeforeValueHas ==
    ASSUME NEW T, NEW doc \in Seq(T), NEW f, IsSettings(f), NEW p \in Places(doc), NEW q, q = BeforeValue(doc, p, f)
    PROVE  /\ q \in Places(doc) /\ q >= p
           /\ q <= Len(doc) => ~(f.allowComments /\ doc[q] = "/")
           /\ \A k \in p - 1 .. Len(doc) : MayBeValue(doc, f, p, k) <=> (HasValue(doc, f, q, k) \/ (k = q - 1 /\ Drops(doc, f, q)))
<1>0. Len(doc) \in Nat /\ p \in Nat /\ p >= 1 /\ p <= Len(doc) + 1 /\ Places(doc) = 1 .. Len(doc) + 1
  BY DEF Places
<1>1. CASE f.allowComments
  <2>1. q = AfterComments(doc, p)
    BY <1>1 DEF BeforeValue
  <2>2. /\ q \in Places(doc) /\ q >= p
        /\ \A k \in p .. q - 1 : doc[k] = "/"
        /\ q <= Len(doc) => doc[q] # "/"
    BY <2>1, AfterCommentsIs
  <2>3. q \in Nat /\ q >= 1 /\ p \in 1 .. q
    BY <1>0, <2>2
  <2>4. ASSUME NEW k \in p - 1 .. Len(doc)
        PROVE  MayBeValue(doc, f, p, k) <=> (HasValue(doc, f, q, k) \/ (k = q - 1 /\ Drops(doc, f, q)))
    <3>1. k \in 0 .. Len(doc) /\ k \in Nat
      BY <1>0
    <3>2. HasValue(doc, f, p, k) <=> HasValue(doc, f, q, k)
      <4>1. Comments(doc, p, q - 1)
        BY <2>2 DEF Comments
      <4>2. QED
        BY <1>1, <2>2, <2>3, <3>1, <4>1, CommentsSkipped
    <3>3. Dropped(doc, p, k, f) <=> (k = q - 1 /\ Drops(doc, f, q))
      <4>1. Dropped(doc, p, k, f) <=> /\ f.allowDroppedNullPlaceholders /\ Comments(doc, p, k)
                                      /\ Token(doc, k + 1) \in {",", "}", "]"}
        BY <1>1 DEF Dropped
      <4>2. ASSUME Comments(doc, p, k), Token(doc, k + 1) \in {",", "}", "]"} PROVE k = q - 1
        <5>1. ~(k < q - 1)
          <6>1. SUFFICES ASSUME k < q - 1 PROVE FALSE
            OBVIOUS
          <6>2. k + 1 \in p .. q - 1 /\ k + 1 <= Len(doc)
            BY <1>0, <2>2, <2>3, <3>1, <6>1
          <6>3. doc[k + 1] = "/"
            BY <2>2, <6>2
          <6>4. QED
            BY <4>2, <6>2, <6>3 DEF Token
        <5>2. ~(k >= q)
          <6>1. SUFFICES ASSUME k >= q PROVE FALSE
            OBVIOUS
          <6>2. q \in p .. k /\ q <= Len(doc)
            BY <1>0, <2>2, <2>3, <3>1, <6>1
          <6>3. QED
            BY <2>2, <4>2, <6>2 DEF Comments
        <5>3. QED
          BY <2>3, <3>1, <5>1, <5>2
      <4>3. ASSUME k = q - 1 PROVE Comments(doc, p, k) /\ k + 1 = q
        BY <2>2, <2>3, <4>3 DEF Comments
      <4>4. QED
        BY <4>1, <4>2, <4>3 DEF Drops
    <3>4. QED
      BY <3>2, <3>3, MayBeValueIs
  <2>5. QED
    BY <2>2, <2>4
<1>2. CASE ~f.allowComments
  <2>1. q = p
    BY <1>2 DEF BeforeValue
  <2>2. ASSUME NEW k \in p - 1 .. Len(doc)
        PROVE  MayBeValue(doc, f, p, k) <=> (HasValue(doc, f, q, k) \/ (k = q - 1 /\ Drops(doc, f, q)))
    <3>1. Dropped(doc, p, k, f) <=> f.allowDroppedNullPlaceholders /\ k + 1 = p /\ Token(doc, k + 1) \in {",", "}", "]"}
      BY <1>2 DEF Dropped
    <3>2. k + 1 = p <=> k = q - 1
      BY <1>0, <2>1
    <3>3. k = q - 1 => k + 1 = q
      BY <1>0, <2>1
    <3>4. MayBeValue(doc, f, p, k) <=> (HasValue(doc, f, q, k) \/ Dropped(doc, p, k, f))
      BY <2>1, MayBeValueIs
    <3>5. k = q - 1 => (Token(doc, k + 1) = Token(doc, q))
      BY <3>3
    <3>6. Dropped(doc, p, k, f) <=> (k = q - 1 /\ Drops(doc, f, q))
      <4>1. CASE k = q - 1
        BY <3>1, <3>2, <3>5, <4>1, Zenon DEF Drops
      <4>2. CASE k # q - 1
        BY <3>1, <3>2, <4>2, Zenon DEF Drops
      <4>3. QED
        BY <4>1, <4>2
    <3>7. QED
      BY <3>4, <3>6, Zenon
  <2>3. q \in Places(doc) /\ q >= p /\ (q <= Len(doc) => ~(f.allowComments /\ doc[q] = "/"))
    <3>1. q >= p /\ q \in Places(doc)
      BY <1>0, <2>1
    <3>2. QED
      BY <1>2, <3>1, Zenon
  <2>4. QED
    BY <2>2, <2>3, Zenon
<1>3. QED
  BY <1>1, <1>2 DEF IsSettings

LEMMA SuccessGives ==
    ASSUME NEW v, NEW q
    PROVE  Success(v, q).ok = TRUE /\ Success(v, q).at = q /\ Success(v, q).thrown = FALSE
BY DEF Success

LEMMA FailureGives ==
    ASSUME NEW q, NEW e
    PROVE  Failure(q, e).ok = FALSE /\ Failure(q, e).thrown = FALSE /\ Failure(q, e).at = q /\ Failure(q, e).errors = e
BY DEF Failure

LEMMA ValueHeld ==
    ASSUME NEW T, NEW doc \in Seq(T), NEW f, IsSettings(f), NEW c, CallsInsideHold(doc, f, c),
           NEW p \in Places(doc), CallsFrom(c, "value", p), NEW d \in 1 .. StackLimit
    PROVE  ValueHolds(doc, f, p, ValueAt(doc, f, p, d))
<1> DEFINE q == BeforeValue(doc, p, f)
<1> DEFINE token == CharToken(doc, q, f)
<1> DEFINE r == ValueAt(doc, f, p, d)
<1>0. Len(doc) \in Nat /\ p \in Nat /\ p >= 1
  BY DEF Places
<1>e. /\ q = BeforeValue(doc, p, f) /\ token = CharToken(doc, q, f) /\ r = ValueAt(doc, f, p, d)
  OBVIOUS
<1> HIDE DEF q, token, r
<1>1. /\ q \in Places(doc) /\ q >= p
      /\ q <= Len(doc) => ~(f.allowComments /\ doc[q] = "/")
      /\ \A k \in p - 1 .. Len(doc) : MayBeValue(doc, f, p, k) <=> (HasValue(doc, f, q, k) \/ (k = q - 1 /\ Drops(doc, f, q)))
  BY <1>e, BeforeValueHas
<1>n. q \in Nat /\ q >= p /\ q <= Len(doc) + 1
  <2>1. q \in Places(doc)
    BY <1>1
  <2>2. QED
    BY <1>0, <1>1, <2>1 DEF Places
<1>d. Drops(doc, f, q) => q <= Len(doc) /\ doc[q] \in {",", "}", "]"}
  BY DEF Drops, Token
<1>m. \A k \in p - 1 .. Len(doc) : ~Drops(doc, f, q) => (MayBeValue(doc, f, p, k) <=> HasValue(doc, f, q, k))
  BY <1>1
<1>2. r = IF token = "{" THEN MembersAt(doc, f, q + 1, d, TRUE, {})
          ELSE IF token = "[" THEN ElementsAt(doc, f, q + 1, d, TRUE)
          ELSE IF token \in CharTexts THEN Success(ScalarValue(token), q + 1)
          ELSE IF token \in {",", "}", "]"} /\ f.allowDroppedNullPlaceholders THEN Success(NullValue, q)
          ELSE Failure(Next_(doc, q), <<q>>)
  <2>1. r = ReadByToken(doc, f, d, q, token)
    BY <1>e, ValueRead, Zenon
  <2>2. QED
    BY <2>1, Zenon DEF ReadByToken
<1>3. /\ token = "{" <=> (q <= Len(doc) /\ doc[q] = "{")
      /\ token = "[" <=> (q <= Len(doc) /\ doc[q] = "[")
      /\ token \in CharTexts <=> (q <= Len(doc) /\ doc[q] \in CharTexts \ Refused(f))
      /\ token \in {",", "}", "]"} <=> Token(doc, q) \in {",", "}", "]"}
      /\ Token(doc, q) \in {",", "}", "]"} <=> (q <= Len(doc) /\ doc[q] \in {",", "}", "]"})
  <2>0. q \in Places(doc)
    BY <1>1
  <2>1. Sees(doc, f, q, token)
    BY <1>e, <2>0, SeenToken
  <2>2. QED
    BY <2>1 DEF Sees, PlainMarks
\* The rule of a value, with no comment in front of it.
<1>4. ASSUME NEW k \in p - 1 .. Len(doc)
      PROVE  HasValue(doc, f, q, k) <=>
               /\ q <= k
               /\ \/ q = k /\ doc[q] \in CharTexts \ Refused(f)
                  \/ q < k /\ doc[q] = "[" /\ doc[k] = "]" /\ (k = q + 1 \/ HasElements(doc, f, q + 1, k - 1))
                  \/ q < k /\ doc[q] = "{" /\ doc[k] = "}" /\ HasMembers(doc, f, q + 1, k - 1, TRUE, {})
  <2>1. k \in 0 .. Len(doc) /\ q \in 1 .. Len(doc) + 1 /\ (q <= k => q <= Len(doc))
    BY <1>0, <1>n
  <2>2. q <= k => ~(f.allowComments /\ doc[q] = "/")
    BY <1>1, <2>1
  <2>3. QED
    BY <2>1, <2>2, ValueRule
<1>5. /\ "{" \notin CharTexts \ Refused(f) /\ "[" \notin CharTexts \ Refused(f)
      /\ \A t \in {",", "}", "]"} : t \notin CharTexts
  BY TextsAreNoMarks
<1>6. CASE token = "{"
  <2>1. r = MembersAt(doc, f, q + 1, d, TRUE, {})
    BY <1>2, <1>6
  <2>t. q <= Len(doc) /\ doc[q] = "{"
    BY <1>3, <1>6, Zenon
  <2>d. ~Drops(doc, f, q)
    BY <1>d, <2>t
  <2>2. q + 1 \in Places(doc) /\ q + 1 > p
    <3>1. q <= Len(doc)
      BY <2>t
    <3>2. QED
      BY <1>0, <1>n, <3>1 DEF Places
  <2>3. MembersHold(doc, f, q + 1, TRUE, {}, r) /\ IsOutcome(doc, q + 1, r)
    <3>1. {} \in SUBSET CharNames /\ TRUE \in BOOLEAN /\ q + 1 > c[2]
      BY <2>2 DEF CallsFrom
    <3>2. QED
      BY <2>1, <2>2, <3>1, MembersInside
  <2>4. ASSUME ~r.thrown, NEW k \in p - 1 .. Len(doc)
        PROVE  MayBeValue(doc, f, p, k) <=> (r.ok /\ r.at = k + 1)
    <3>k. k \in Int /\ k >= p - 1 /\ k <= Len(doc)
      BY <1>0
    <3>1. MayBeValue(doc, f, p, k) <=> q < k /\ doc[k] = "}" /\ HasMembers(doc, f, q + 1, k - 1, TRUE, {})
      <4>1. MayBeValue(doc, f, p, k) <=> HasValue(doc, f, q, k)
        BY <1>m, <2>d
      <4>2. HasValue(doc, f, q, k) <=> q <= k /\ q < k /\ doc[k] = "}" /\ HasMembers(doc, f, q + 1, k - 1, TRUE, {})
        BY <1>4, <1>5, <2>t
      <4>3. q < k => q <= k
        BY <1>n, <3>k
      <4>4. QED
        BY <4>1, <4>2, <4>3
    <3>2. /\ r.ok => r.at >= q + 1 + 1 /\ doc[r.at - 1] = "}"
          /\ \A j \in 0 .. Len(doc) - 1 : doc[j + 1] = "}" =>
                (HasMembers(doc, f, q + 1, j, TRUE \/ f.allowTrailingCommas, {}) <=> (r.ok /\ r.at = j + 2))
      BY <2>3, <2>4 DEF MembersHold
    <3>3. CASE q < k /\ doc[k] = "}"
      <4>2. (TRUE \/ f.allowTrailingCommas) = TRUE
        OBVIOUS
      <4> DEFINE j == k - 1
      <4>3. j \in 0 .. Len(doc) - 1 /\ j + 1 = k /\ j + 2 = k + 1
        <5>1. q < k
          BY <3>3
        <5>2. QED
          BY <1>0, <1>n, <3>k, <5>1
      <4> HIDE DEF j
      <4>4. HasMembers(doc, f, q + 1, j, TRUE, {}) <=> (r.ok /\ r.at = k + 1)
        BY <3>2, <3>3, <4>2, <4>3
      <4>5. QED
        BY <3>1, <3>3, <4>4 DEF j
    <3>4. CASE ~(q < k /\ doc[k] = "}")
      <4>1. ASSUME r.ok, r.at = k + 1 PROVE FALSE
        <5>1. doc[(k + 1) - 1] = "}" /\ k + 1 >= q + 1 + 1
          <6>1. r.at >= q + 1 + 1 /\ doc[r.at - 1] = "}"
            BY <3>2, <4>1, Zenon
          <6>2. QED
            BY <4>1, <6>1, Zenon
        <5>2. (k + 1) - 1 = k /\ k > q
          <6>1. k + 1 >= q + 1 + 1
            BY <5>1
          <6>2. QED
            BY <1>n, <3>k, <6>1
        <5>3. doc[k] = "}"
          BY <5>1, <5>2, Zenon
        <5>4. q < k
          BY <1>n, <3>k, <5>2
        <5>5. QED
          BY <3>4, <5>3, <5>4, Zenon
      <4>2. QED
        BY <3>1, <3>4, <4>1
    <3>5. QED
      BY <3>3, <3>4
  <2>5. QED
    BY <2>4, <1>e DEF ValueHolds
<1>7. CASE token = "["
  <2>1. r = ElementsAt(doc, f, q + 1, d, TRUE)
    BY <1>2, <1>7
  <2>t. q <= Len(doc) /\ doc[q] = "["
    BY <1>3, <1>7, Zenon
  <2>d. ~Drops(doc, f, q)
    BY <1>d, <2>t
  <2>2. q + 1 \in Places(doc) /\ q + 1 > p
    <3>1. q <= Len(doc)
      BY <2>t
    <3>2. QED
      BY <1>0, <1>n, <3>1 DEF Places
  <2>3. ElementsHold(doc, f, q + 1, TRUE, r) /\ IsOutcome(doc, q + 1, r)
    <3>1. TRUE \in BOOLEAN /\ q + 1 > c[2]
      BY <2>2 DEF CallsFrom
    <3>2. QED
      BY <2>1, <2>2, <3>1, ElementsInside
  <2>4. ASSUME ~r.thrown, NEW k \in p - 1 .. Len(doc)
        PROVE  MayBeValue(doc, f, p, k) <=> (r.ok /\ r.at = k + 1)
    <3>k. k \in Int /\ k >= p - 1 /\ k <= Len(doc)
      BY <1>0
    <3>1. MayBeValue(doc, f, p, k) <=> q < k /\ doc[k] = "]" /\ (k = q + 1 \/ HasElements(doc, f, q + 1, k - 1))
      <4>1. MayBeValue(doc, f, p, k) <=> HasValue(doc, f, q, k)
        BY <1>m, <2>d
      <4>2. HasValue(doc, f, q, k) <=> q <= k /\ q < k /\ doc[k] = "]" /\ (k = q + 1 \/ HasElements(doc, f, q + 1, k - 1))
        BY <1>4, <1>5, <2>t
      <4>3. q < k => q <= k
        BY <1>n, <3>k
      <4>4. QED
        BY <4>1, <4>2, <4>3
    <3>2. /\ r.ok => r.at >= q + 1 + 1 /\ doc[r.at - 1] = "]"
          /\ \A j \in 0 .. Len(doc) - 1 : doc[j + 1] = "]" =>
                ((j = (q + 1) - 1 /\ EmptyElements(f, TRUE)) \/ HasElements(doc, f, q + 1, j) <=> (r.ok /\ r.at = j + 2))
      BY <2>3, <2>4, Zenon DEF ElementsHold
    <3>3. CASE q < k /\ doc[k] = "]"
      <4>1. EmptyElements(f, TRUE)
        BY DEF EmptyElements
      <4> DEFINE j == k - 1
      <4>3. j \in 0 .. Len(doc) - 1 /\ j + 1 = k /\ j + 2 = k + 1 /\ (j = (q + 1) - 1 <=> k = q + 1)
        <5>1. q < k
          BY <3>3
        <5>2. QED
          BY <1>0, <1>n, <3>k, <5>1
      <4> HIDE DEF j
      <4>4. (k = q + 1 \/ HasElements(doc, f, q + 1, j)) <=> (r.ok /\ r.at = k + 1)
        BY <3>2, <3>3, <4>1, <4>3
      <4>5. QED
        BY <3>1, <3>3, <4>4 DEF j
    <3>4. CASE ~(q < k /\ doc[k] = "]")
      <4>1. ASSUME r.ok, r.at = k + 1 PROVE FALSE
        <5>1. doc[(k + 1) - 1] = "]" /\ k + 1 >= q + 1 + 1
          <6>1. r.at >= q + 1 + 1 /\ doc[r.at - 1] = "]"
            BY <3>2, <4>1, Zenon
          <6>2. QED
            BY <4>1, <6>1, Zenon
        <5>2. (k + 1) - 1 = k /\ k > q
          <6>1. k + 1 >= q + 1 + 1
            BY <5>1
          <6>2. QED
            BY <1>n, <3>k, <6>1
        <5>3. doc[k] = "]"
          BY <5>1, <5>2, Zenon
        <5>4. q < k
          BY <1>n, <3>k, <5>2
        <5>5. QED
          BY <3>4, <5>3, <5>4, Zenon
      <4>2. QED
        BY <3>1, <3>4, <4>1
    <3>5. QED
      BY <3>3, <3>4
  <2>5. QED
    BY <2>4, <1>e DEF ValueHolds
<1>8. CASE token \in CharTexts
  <2>1. token # "{" /\ token # "["
    BY <1>8, TextsAreNoMarks
  <2>2. r = Success(ScalarValue(token), q + 1)
    BY <1>2, <1>8, <2>1
  <2>t. q <= Len(doc) /\ doc[q] \in CharTexts \ Refused(f)
    BY <1>3, <1>8, Zenon
  <2>3. doc[q] # "[" /\ doc[q] # "{" /\ doc[q] \notin {",", "}", "]"}
    BY <1>5, <2>t, Zenon
  <2>d. ~Drops(doc, f, q)
    BY <1>d, <2>3
  <2>4. ASSUME NEW k \in p - 1 .. Len(doc)
        PROVE  MayBeValue(doc, f, p, k) <=> (r.ok /\ r.at = k + 1)
    <3>1. MayBeValue(doc, f, p, k) <=> q <= k /\ q = k
      <4>1. HasValue(doc, f, q, k) <=> q <= k /\ q = k
        BY <1>4, <2>3, <2>t
      <4>2. QED
        BY <1>m, <2>d, <4>1
    <3>2. r.ok = TRUE /\ r.at = q + 1
      BY <2>2, SuccessGives, Zenon
    <3>3. k \in Int
      BY <1>0
    <3>4. (q <= k /\ q = k) <=> q + 1 = k + 1
      BY <1>n, <3>3
    <3>5. QED
      BY <3>1, <3>2, <3>4, Zenon
  <2>5. QED
    BY <2>4, <1>e DEF ValueHolds
<1>9. CASE token \in {",", "}", "]"} /\ f.allowDroppedNullPlaceholders
  <2>1. token \notin CharTexts /\ token # "{" /\ token # "["
    BY <1>5, <1>9
  <2>2. r = Success(NullValue, q)
    BY <1>2, <1>9, <2>1
  <2>3. Drops(doc, f, q) /\ q <= Len(doc) /\ doc[q] \in {",", "}", "]"}
    <3>1. Token(doc, q) \in {",", "}", "]"} /\ f.allowDroppedNullPlaceholders
      BY <1>3, <1>9, Zenon
    <3>2. Drops(doc, f, q)
      BY <3>1, Zenon DEF Drops
    <3>3. QED
      BY <1>d, <3>2, Zenon
  <2>4. ASSUME NEW k \in p - 1 .. Len(doc)
        PROVE  MayBeValue(doc, f, p, k) <=> (r.ok /\ r.at = k + 1)
    <3>1. ~HasValue(doc, f, q, k)
      <4>1. doc[q] \notin CharTexts /\ doc[q] # "[" /\ doc[q] # "{"
        BY <1>5, <2>3
      <4>2. QED
        BY <1>4, <4>1
    <3>2. MayBeValue(doc, f, p, k) <=> k = q - 1
      BY <1>1, <2>3, <3>1
    <3>3. r.ok = TRUE /\ r.at = q
      BY <2>2, SuccessGives, Zenon
    <3>4. k \in Int
      BY <1>0
    <3>5. k = q - 1 <=> q = k + 1
      BY <1>n, <3>4
    <3>6. QED
      BY <3>2, <3>3, <3>5, Zenon
  <2>5. QED
    BY <2>4, <1>e DEF ValueHolds
<1>10. CASE /\ token \notin CharTexts /\ token # "{" /\ token # "["
            /\ ~(token \in {",", "}", "]"} /\ f.allowDroppedNullPlaceholders)
  <2>1. r = Failure(Next_(doc, q), <<q>>)
    BY <1>2, <1>10
  <2>2. r.ok = FALSE
    BY <2>1, FailureGives
  <2>3. q <= Len(doc) => doc[q] \notin CharTexts \ Refused(f) /\ doc[q] # "{" /\ doc[q] # "["
    BY <1>3, <1>10, Zenon
  <2>d. ~Drops(doc, f, q)
    BY <1>3, <1>10, Zenon DEF Drops
  <2>4. ASSUME NEW k \in p - 1 .. Len(doc)
        PROVE  ~MayBeValue(doc, f, p, k)
    <3>1. q <= k => q <= Len(doc)
      BY <1>0, <1>n
    <3>2. ~HasValue(doc, f, q, k)
      BY <1>4, <2>3, <3>1
    <3>3. QED
      BY <1>m, <2>d, <3>2
  <2>5. QED
    BY <2>2, <2>4, <1>e DEF ValueHolds
<1>11. QED
  BY <1>6, <1>7, <1>8, <1>9, <1>10

\* An array from an element on, and an object from a name on, as they are read.
ReadElements(doc, f, p, d, first, child, q) ==
    IF ArrayEnds(Token(doc, p), first, f) THEN Success(ArrayValue(<<>>), p + 1)
    ELSE IF ~child.ok THEN FailedInside(doc, child, "]")
    ELSE IF Token(doc, q) = "]" THEN Success(ArrayValue(<<child.value>>), q + 1)
    ELSE IF Token(doc, q) # "," THEN AddErrorAndRecover(doc, q, "]")
    ELSE FromElement(child.value, ElementsAt(doc, f, q + 1, d, FALSE))
ReadMembers(doc, f, d, u, names, q, name, child, separator) ==
    IF ObjectEnds(name, u, f) THEN Success(ObjectValue(NoMembers), q + 1)
    ELSE IF name \notin NameTokens(f) \/ (f.rejectDupKeys /\ name \in names)
         THEN AddErrorAndRecover(doc, q, "}")
    ELSE IF Token(doc, q + 1) # ":" THEN AddErrorAndRecover(doc, q + 1, "}")
    ELSE IF ~child.ok THEN FailedInside(doc, child, "}")
    ELSE IF SeparatorMissing(doc, child.at) THEN AddErrorAndRecover(doc, child.at, "}")
    ELSE IF Token(doc, separator) = "}"
         THEN Success(ObjectValue(WithMember(name, child.value, NoMembers)), separator + 1)
    ELSE FromMember(name, child.value, MembersAt(doc, f, Next_(doc, separator), d, name = "", names \cup {name}))

LEMMA ElementsRead ==
    ASSUME NEW T, NEW doc \in Seq(T), NEW f, NEW p \in Places(doc), NEW d \in 1 .. StackLimit, NEW first \in BOOLEAN
    PROVE  ElementsAt(doc, f, p, d, first) =
               ReadElements(doc, f, p, d, first, ValueAt(doc, f, p, d + 1),
                            AfterComments(doc, ValueAt(doc, f, p, d + 1).at))
<1> DEFINE c == <<"array", p, d, first, {}>>
<1>1. d \in 1 .. StackLimit + 1 /\ d <= StackLimit /\ {} \in SUBSET CharNames
  BY ReaderAssumption
<1>2. c \in CharCalls(doc)
  BY <1>1, CharCallsAre
<1>3. c[1] = "array" /\ c[2] = p /\ c[3] = d /\ c[4] = first
  OBVIOUS
<1>4. ElementsAt(doc, f, p, d, first) = CharReads(doc, f)[c]
  BY DEF ElementsAt
<1> HIDE DEF c
<1>5. ElementsAt(doc, f, p, d, first) = ReadCharArray(doc, CharReads(doc, f), p, d, first, f)
  <2>1. CharReads(doc, f)[c] = CharCalled(doc, CharReads(doc, f), c, f)
    BY <1>2, CharReadsAre
  <2>2. c[1] # "value" /\ c[1] # "object"
    BY <1>3
  <2>3. QED
    BY <1>3, <1>4, <2>1, <2>2, Zenon DEF CharCalled
<1>6. QED
  BY <1>5, Zenon DEF ReadCharArray, ReadElements, ValueAt, ElementsAt

LEMMA MembersRead ==
    ASSUME NEW T, NEW doc \in Seq(T), NEW f, NEW p \in Places(doc), NEW d \in 1 .. StackLimit, NEW u \in BOOLEAN,
           NEW names \in SUBSET CharNames, NEW q, q = AfterComments(doc, p), NEW child, child = ValueAt(doc, f, q + 2, d + 1)
    PROVE  MembersAt(doc, f, p, d, u, names) =
               ReadMembers(doc, f, d, u, names, q, CharToken(doc, q, f), child, AfterComments(doc, child.at))
<1> DEFINE c == <<"object", p, d, u, names>>
<1>1. d \in 1 .. StackLimit + 1 /\ d <= StackLimit
  BY ReaderAssumption
<1>2. c \in CharCalls(doc)
  BY <1>1, CharCallsAre
<1>3. c[1] = "object" /\ c[2] = p /\ c[3] = d /\ c[4] = u /\ c[5] = names
  OBVIOUS
<1>4. MembersAt(doc, f, p, d, u, names) = CharReads(doc, f)[c]
  BY DEF MembersAt
<1> HIDE DEF c
<1>5. MembersAt(doc, f, p, d, u, names) = ReadCharObject(doc, CharReads(doc, f), p, d, u, names, f)
  <2>1. CharReads(doc, f)[c] = CharCalled(doc, CharReads(doc, f), c, f)
    BY <1>2, CharReadsAre
  <2>2. c[1] # "value"
    BY <1>3
  <2>3. QED
    BY <1>3, <1>4, <2>1, <2>2, Zenon DEF CharCalled
<1>6. QED
  BY <1>5, Zenon DEF ReadCharObject, ReadMembers, ValueAt, MembersAt

SameEnd(r, rest) == r.ok = rest.ok /\ r.thrown = rest.thrown /\ r.at = rest.at
Settled(rest) == rest.ok \in BOOLEAN /\ rest.thrown \in BOOLEAN /\ (rest.ok => ~rest.thrown)

LEMMA FromElementGives ==
    ASSUME NEW v, NEW rest, Settled(rest)
    PROVE  SameEnd(FromElement(v, rest), rest)
<1>0. rest.ok \in BOOLEAN /\ rest.thrown \in BOOLEAN /\ (rest.ok => ~rest.thrown)
  BY DEF Settled
<1>1. CASE rest.ok
  <2>1. FromElement(v, rest) = Success(ArrayValue(<<v>> \o rest.value.elements), rest.at)
    BY <1>1, Zenon DEF FromElement
  <2> DEFINE w == ArrayValue(<<v>> \o rest.value.elements)
  <2>2. Success(w, rest.at).ok = TRUE /\ Success(w, rest.at).at = rest.at /\ Success(w, rest.at).thrown = FALSE
    <3> HIDE DEF w
    <3>1. QED
      BY SuccessGives
  <2>3. rest.ok = TRUE /\ rest.thrown = FALSE
    BY <1>0, <1>1
  <2>4. QED
    BY <2>1, <2>2, <2>3, Zenon DEF SameEnd
<1>2. CASE ~rest.ok
  BY <1>2, Zenon DEF SameEnd, FromElement
<1>3. QED
  BY <1>1, <1>2

LEMMA FromMemberGives ==
    ASSUME NEW name, NEW v, NEW rest, Settled(rest)
    PROVE  SameEnd(FromMember(name, v, rest), rest)
<1>0. rest.ok \in BOOLEAN /\ rest.thrown \in BOOLEAN /\ (rest.ok => ~rest.thrown)
  BY DEF Settled
<1>1. CASE rest.ok
  <2> DEFINE w == ObjectValue(WithMember(name, v, rest.value.members))
  <2>1. FromMember(name, v, rest) = Success(w, rest.at)
    BY <1>1, Zenon DEF FromMember
  <2>2. Success(w, rest.at).ok = TRUE /\ Success(w, rest.at).at = rest.at /\ Success(w, rest.at).thrown = FALSE
    <3> HIDE DEF w
    <3>1. QED
      BY SuccessGives
  <2>3. rest.ok = TRUE /\ rest.thrown = FALSE
    BY <1>0, <1>1
  <2>4. QED
    BY <2>1, <2>2, <2>3, Zenon DEF SameEnd
<1>2. CASE ~rest.ok
  BY <1>2, Zenon DEF SameEnd, FromMember
<1>3. QED
  BY <1>1, <1>2

LEMMA ErrorGives ==
    ASSUME NEW doc, NEW p, NEW until
    PROVE  AddErrorAndRecover(doc, p, until).ok = FALSE /\ AddErrorAndRecover(doc, p, until).thrown = FALSE
BY FailureGives DEF AddErrorAndRecover

LEMMA FailedInsideGives ==
    ASSUME NEW doc, NEW child, child.ok = FALSE, child.thrown \in BOOLEAN, NEW until
    PROVE  FailedInside(doc, child, until).ok = FALSE /\ FailedInside(doc, child, until).thrown = child.thrown
<1>1. CASE child.thrown
  BY <1>1, Zenon DEF FailedInside
<1>2. CASE ~child.thrown
  <2>1. FailedInside(doc, child, until) = Failure(Recovered(doc, child.at, until), child.errors)
    BY <1>2, Zenon DEF FailedInside
  <2>2. child.thrown = FALSE
    BY <1>2
  <2> DEFINE q == Recovered(doc, child.at, until)
  <2>3. Failure(q, child.errors).ok = FALSE /\ Failure(q, child.errors).thrown = FALSE
    <3>1. QED
      BY DEF Failure
  <2>4. QED
    BY <2>1, <2>2, <2>3, Zenon
<1>3. QED
  BY <1>1, <1>2

\* The only value that begins at a place, before the place where its read ends.
OneValue(doc, f, p, a) == \A k \in p - 1 .. Len(doc) : MayBeValue(doc, f, p, k) <=> k = a - 1
NoValue(doc, f, p) == \A k \in p - 1 .. Len(doc) : ~MayBeValue(doc, f, p, k)

LEMMA ValueHoldsGives ==
    ASSUME NEW T, NEW doc \in Seq(T), NEW f, NEW p \in Places(doc), NEW r, IsOutcome(doc, p, r), ValueHolds(doc, f, p, r), ~r.thrown
    PROVE  /\ r.ok => OneValue(doc, f, p, r.at)
           /\ ~r.ok => NoValue(doc, f, p)
<1>1. \A k \in p - 1 .. Len(doc) : MayBeValue(doc, f, p, k) <=> (r.ok /\ r.at = k + 1)
  BY Zenon DEF ValueHolds
<1>2. ASSUME r.ok, NEW k \in p - 1 .. Len(doc) PROVE MayBeValue(doc, f, p, k) <=> k = r.at - 1
  <2>1. k \in Int /\ r.at \in Int
    <3>1. p \in Int /\ Len(doc) \in Int
      BY DEF Places
    <3>2. r.at \in Places(doc)
      BY DEF IsOutcome
    <3>3. QED
      BY <3>1, <3>2 DEF Places
  <2>2. k = r.at - 1 <=> r.at = k + 1
    BY <2>1
  <2>3. QED
    BY <1>1, <1>2, <2>2
<1>3. r.ok => OneValue(doc, f, p, r.at)
  BY <1>2 DEF OneValue
<1>4. ~r.ok => NoValue(doc, f, p)
  BY <1>1 DEF NoValue
<1>5. QED
  BY <1>3, <1>4

LEMMA PlacesAre ==
    ASSUME NEW T, NEW doc \in Seq(T), NEW p \in Places(doc)
    PROVE  Len(doc) \in Nat /\ p \in Nat /\ p >= 1 /\ p <= Len(doc) + 1
BY DEF Places

\* The elements after the first one, from the token behind it on.
ElementsFollow(doc, f, q, j) ==
    \/ q = j + 1
    \/ q <= j /\ doc[q] = "," /\ (HasElements(doc, f, q + 1, j) \/ (q = j /\ EmptyElements(f, FALSE)))

LEMMA ElementsAfter ==
    ASSUME NEW T, NEW doc \in Seq(T), NEW f, IsSettings(f), NEW p \in Places(doc), NEW a \in Places(doc), a >= p,
           OneValue(doc, f, p, a), NEW q, q = AfterComments(doc, a), NEW j \in 0 .. Len(doc) - 1, doc[j + 1] = "]"
    PROVE  HasElements(doc, f, p, j) <=> ElementsFollow(doc, f, q, j)
<1>0. Len(doc) \in Nat /\ p \in Nat /\ p >= 1 /\ a \in Nat /\ a >= 1 /\ j \in Nat /\ j + 1 <= Len(doc)
  BY PlacesAre
<1>1. q \in Places(doc) /\ q >= a /\ Comments(doc, a, q - 1)
  BY AfterCommentsIs, CommentsBefore
<1>2. q \in Nat
  BY <1>1, PlacesAre
<1>3. EmptyElements(f, FALSE) <=> f.allowTrailingCommas /\ ~f.allowDroppedNullPlaceholders
  BY DEF EmptyElements
<1> DEFINE ends(t) == \/ t = j + 1
                      \/ doc[t] = "," /\ HasElements(doc, f, t + 1, j)
                      \/ doc[t] = "," /\ t = j /\ f.allowTrailingCommas /\ ~f.allowDroppedNullPlaceholders
<1>4. HasElements(doc, f, p, j) <=>
        \E k \in p - 1 .. j : MayBeValue(doc, f, p, k) /\ \E t \in k + 1 .. j + 1 : Comments(doc, k + 1, t - 1) /\ ends(t)
  <2>1. p \in 1 .. Len(doc) + 1 /\ j \in 0 .. Len(doc)
    BY <1>0, PlacesAre
  <2>2. QED
    BY <2>1, ElementsRule, Zenon
<1>e. \A t : ends(t) <=> \/ t = j + 1
                         \/ doc[t] = "," /\ HasElements(doc, f, t + 1, j)
                         \/ doc[t] = "," /\ t = j /\ f.allowTrailingCommas /\ ~f.allowDroppedNullPlaceholders
  OBVIOUS
<1> HIDE DEF ends
<1>5. ASSUME NEW k \in p - 1 .. j, MayBeValue(doc, f, p, k), NEW t \in k + 1 .. j + 1, Comments(doc, k + 1, t - 1), ends(t)
      PROVE  t = q
  <2>1. k \in p - 1 .. Len(doc) /\ k \in Int
    BY <1>0
  <2>2. k = a - 1
    BY <1>5, <2>1 DEF OneValue
  <2>3. k + 1 = a
    BY <1>0, <2>2
  <2>4. t \in a .. Len(doc) /\ Comments(doc, a, t - 1)
    <3>1. t \in a .. Len(doc)
      BY <1>0, <2>3
    <3>2. QED
      BY <1>5, <2>3, <3>1, Zenon
  <2>5. doc[t] # "/"
    <3>1. doc[t] = "]" \/ doc[t] = ","
      BY <1>5, <1>e, Zenon
    <3>2. QED
      BY <3>1, Zenon
  <2>6. QED
    BY <2>4, <2>5, FirstPlace
<1>6. ASSUME q <= j + 1, ends(q) PROVE HasElements(doc, f, p, j)
  <2> DEFINE k == a - 1
  <2>1. k \in p - 1 .. j /\ k + 1 = a /\ k \in p - 1 .. Len(doc)
    BY <1>0, <1>1, <1>2, <1>6
  <2>2. MayBeValue(doc, f, p, k)
    BY <2>1 DEF OneValue
  <2>3. q \in a .. j + 1
    BY <1>0, <1>1, <1>2, <1>6
  <2> HIDE DEF k
  <2>4. q \in k + 1 .. j + 1 /\ Comments(doc, k + 1, q - 1)
    BY <1>1, <2>1, <2>3, Zenon
  <2>5. QED
    BY <1>4, <1>6, <2>1, <2>2, <2>4, Zenon
<1>7. HasElements(doc, f, p, j) <=> q <= j + 1 /\ ends(q)
  <2>1. ASSUME HasElements(doc, f, p, j) PROVE q <= j + 1 /\ ends(q)
    <3>1. PICK k \in p - 1 .. j : MayBeValue(doc, f, p, k) /\ \E t \in k + 1 .. j + 1 : Comments(doc, k + 1, t - 1) /\ ends(t)
      BY <1>4, <2>1, Zenon
    <3>2. PICK t \in k + 1 .. j + 1 : Comments(doc, k + 1, t - 1) /\ ends(t)
      BY <3>1, Zenon
    <3>3. t = q
      BY <1>5, <3>1, <3>2
    <3>4. t <= j + 1
      BY <1>0
    <3>5. QED
      BY <3>2, <3>3, <3>4, Zenon
  <2>2. QED
    BY <1>6, <2>1
<1>8. (q <= j + 1 <=> q <= j \/ q = j + 1) /\ (q = j => q <= j) /\ (q = j + 1 => ~(q <= j))
  BY <1>0, <1>2
<1>9. q = j + 1 => doc[q] = "]"
  OBVIOUS
<1>10. QED
  BY <1>3, <1>7, <1>8, <1>9, <1>e, Zenon DEF ElementsFollow

LEMMA ElementsHeld ==
    ASSUME NEW T, NEW doc \in Seq(T), NEW f, IsSettings(f), NEW c, CallsInsideHold(doc, f, c),
           NEW p \in Places(doc), CallsFrom(c, "array", p), NEW d \in 1 .. StackLimit, NEW first \in BOOLEAN
    PROVE  ElementsHold(doc, f, p, first, ElementsAt(doc, f, p, d, first))
<1> DEFINE child == ValueAt(doc, f, p, d + 1)
<1> DEFINE q == AfterComments(doc, child.at)
<1> DEFINE r == ElementsAt(doc, f, p, d, first)
<1>0. Len(doc) \in Nat /\ p \in Nat /\ p >= 1 /\ p <= Len(doc) + 1
  BY PlacesAre
<1>e. q = AfterComments(doc, child.at) /\ r = ElementsAt(doc, f, p, d, first)
  OBVIOUS
<1>1. ValueHolds(doc, f, p, child) /\ IsOutcome(doc, p, child)
  <2>1. p = c[2] /\ c[1] # "value"
    BY DEF CallsFrom
  <2>2. QED
    BY <2>1, ValueInside
<1>2. r = ReadElements(doc, f, p, d, first, child, q)
  BY ElementsRead
<1> HIDE DEF child, q, r
\* It is enough to tell the end.
<1> DEFINE held(j) == (j = p - 1 /\ EmptyElements(f, first)) \/ HasElements(doc, f, p, j)
<1> DEFINE gives(j) == r.ok /\ r.at = j + 2
<1>3. ASSUME r.ok => r.at >= p + 1 /\ doc[r.at - 1] = "]",
             \A j \in 0 .. Len(doc) - 1 : doc[j + 1] = "]" => (held(j) <=> gives(j))
      PROVE  ElementsHold(doc, f, p, first, r)
  BY <1>3, Zenon DEF ElementsHold
<1>4. (Token(doc, p) = "]" <=> (p <= Len(doc) /\ doc[p] = "]")) /\ (ArrayEnds(Token(doc, p), first, f) <=> Token(doc, p) = "]" /\ EmptyElements(f, first))
  <2>1. Sees(doc, f, p, CharToken(doc, p, f))
    BY SeenToken
  <2>2. Token(doc, p) = "]" <=> (p <= Len(doc) /\ doc[p] = "]")
    BY <2>1, Zenon DEF Sees, PlainMarks
  <2>3. QED
    BY <2>2, Zenon DEF ArrayEnds, EmptyElements
<1>5. ASSUME NEW j \in 0 .. Len(doc) - 1, doc[j + 1] = "]"
      PROVE  j \in Nat /\ j + 1 <= Len(doc) /\ (j = p - 1 => j + 1 = p) /\ (j = p - 1 <=> p + 1 = j + 2)
  BY <1>0
<1>6. CASE ArrayEnds(Token(doc, p), first, f)
  <2>1. r = Success(ArrayValue(<<>>), p + 1)
    BY <1>2, <1>6, Zenon DEF ReadElements
  <2> DEFINE v == ArrayValue(<<>>)
  <2>2. r.ok = TRUE /\ r.at = p + 1 /\ r.thrown = FALSE
    <3>1. r = Success(v, p + 1)
      BY <2>1
    <3> HIDE DEF v
    <3>2. QED
      BY <3>1, SuccessGives, Zenon
  <2>3. p <= Len(doc) /\ doc[p] = "]" /\ EmptyElements(f, first)
    BY <1>4, <1>6, Zenon
  <2>4. ASSUME NEW j \in 0 .. Len(doc) - 1, doc[j + 1] = "]", HasElements(doc, f, p, j)
        PROVE  j = p - 1
    <3>1. p \in 1 .. Len(doc) + 1 /\ j \in 0 .. Len(doc)
      BY <1>0
    <3>2. PICK k \in p - 1 .. j :
                 /\ MayBeValue(doc, f, p, k)
                 /\ \E t \in k + 1 .. j + 1 :
                       /\ Comments(doc, k + 1, t - 1)
                       /\ \/ t = j + 1
                          \/ doc[t] = "," /\ HasElements(doc, f, t + 1, j)
                          \/ doc[t] = "," /\ t = j /\ f.allowTrailingCommas /\ ~f.allowDroppedNullPlaceholders
      BY <2>4, <3>1, ElementsRule, Zenon
    <3>3. k \in 0 .. Len(doc) /\ k \in Int /\ j \in Int /\ k >= p - 1 /\ k <= j
      BY <1>0
    <3>4. ~HasValue(doc, f, p, k)
      <4>1. doc[p] # "/" /\ doc[p] # "[" /\ doc[p] # "{" /\ doc[p] \notin CharTexts \ Refused(f)
        <5>1. "]" \notin CharTexts
          BY TextsAreNoMarks
        <5>2. QED
          BY <2>3, <5>1, Zenon
      <4>2. QED
        BY <3>1, <3>3, <4>1, ValueRule, Zenon
    <3>5. Dropped(doc, p, k, f)
      BY <3>2, <3>4, MayBeValueIs, Zenon
    <3>6. k = p - 1
      <4>1. CASE f.allowComments
        <5>1. Comments(doc, p, k)
          BY <3>5, <4>1 DEF Dropped
        <5>2. ASSUME k # p - 1 PROVE FALSE
          <6>1. p \in p .. k
            BY <1>0, <3>3, <5>2
          <6>2. doc[p] = "/"
            BY <5>1, <6>1 DEF Comments
          <6>3. QED
            BY <2>3, <6>2, Zenon
        <5>3. QED
          BY <5>2
      <4>2. CASE ~f.allowComments
        <5>1. k + 1 = p
          BY <3>5, <4>2, Zenon DEF Dropped
        <5>2. QED
          BY <1>0, <3>3, <5>1
      <4>3. QED
        BY <4>1, <4>2
    <3>7. PICK t \in k + 1 .. j + 1 :
                       /\ Comments(doc, k + 1, t - 1)
                       /\ \/ t = j + 1
                          \/ doc[t] = "," /\ HasElements(doc, f, t + 1, j)
                          \/ doc[t] = "," /\ t = j /\ f.allowTrailingCommas /\ ~f.allowDroppedNullPlaceholders
      BY <3>2, Zenon
    <3>8. t = p
      <4>1. k + 1 = p /\ t >= p /\ t \in Int
        BY <1>0, <3>3, <3>6
      <4>2. ASSUME t # p PROVE FALSE
        <5>1. p \in k + 1 .. t - 1
          BY <1>0, <3>3, <4>1, <4>2
        <5>2. doc[p] = "/"
          <6>1. Comments(doc, k + 1, t - 1)
            BY <3>7
          <6>2. QED
            BY <5>1, <6>1, Zenon DEF Comments
        <5>3. QED
          BY <2>3, <5>2, Zenon
      <4>3. QED
        BY <4>2
    <3>9. t = j + 1
      <4>1. doc[t] # ","
        BY <2>3, <3>8, Zenon
      <4>2. QED
        BY <3>7, <4>1, Zenon
    <3>10. QED
      BY <1>0, <3>3, <3>8, <3>9
  <2>5. r.at >= p + 1 /\ doc[r.at - 1] = "]"
    <3>1. (p + 1) - 1 = p /\ p + 1 >= p + 1
      BY <1>0
    <3>2. doc[(p + 1) - 1] = "]"
      BY <2>3, <3>1, Zenon
    <3>3. QED
      BY <2>2, <3>1, <3>2, Zenon
  <2>6. ASSUME NEW j \in 0 .. Len(doc) - 1, doc[j + 1] = "]" PROVE held(j) <=> gives(j)
    <3>1. held(j) <=> j = p - 1
      BY <2>3, <2>4, <2>6
    <3>2. gives(j) <=> p + 1 = j + 2
      BY <2>2, Zenon
    <3>3. QED
      BY <1>5, <2>6, <3>1, <3>2
  <2>7. QED
    BY <1>3, <1>e, <2>5, <2>6
<1>7. ASSUME ~ArrayEnds(Token(doc, p), first, f), NEW j \in 0 .. Len(doc) - 1, doc[j + 1] = "]"
      PROVE  held(j) <=> HasElements(doc, f, p, j)
  <2>1. ASSUME j = p - 1, EmptyElements(f, first) PROVE FALSE
    <3>1. j + 1 = p /\ j + 1 <= Len(doc)
      BY <1>5, <1>7, <2>1
    <3>2. p <= Len(doc) /\ doc[p] = "]"
      BY <1>7, <3>1, Zenon
    <3>3. QED
      BY <1>4, <1>7, <2>1, <3>2, Zenon
  <2>2. QED
    BY <2>1
<1>8. CASE ~ArrayEnds(Token(doc, p), first, f) /\ ~child.ok
  <2>1. r = FailedInside(doc, child, "]")
    BY <1>2, <1>8, Zenon DEF ReadElements
  <2>2. r.ok = FALSE /\ r.thrown = child.thrown
    <3>1. child.ok = FALSE /\ child.thrown \in BOOLEAN
      BY <1>1, <1>8 DEF IsOutcome
    <3>2. QED
      BY <2>1, <3>1, FailedInsideGives, Zenon
  <2>3. CASE child.thrown
    BY <1>e, <2>2, <2>3 DEF ElementsHold
  <2>4. CASE ~child.thrown
    <3>1. NoValue(doc, f, p)
      BY <1>1, <1>8, <2>4, ValueHoldsGives, Zenon
    <3>2. ASSUME NEW j \in 0 .. Len(doc) - 1, doc[j + 1] = "]" PROVE ~HasElements(doc, f, p, j)
      <4>1. p \in 1 .. Len(doc) + 1 /\ j \in 0 .. Len(doc)
        BY <1>0
      <4>2. ASSUME NEW k \in p - 1 .. j PROVE ~MayBeValue(doc, f, p, k)
        <5>1. k \in p - 1 .. Len(doc)
          BY <1>0
        <5>2. QED
          BY <3>1, <5>1 DEF NoValue
      <4>3. QED
        BY <4>1, <4>2, ElementsRule, Zenon
    <3>3. QED
      BY <1>3, <1>7, <1>8, <1>e, <2>2, <3>2
  <2>5. QED
    BY <2>3, <2>4
<1>9. CASE ~ArrayEnds(Token(doc, p), first, f) /\ child.ok
  <2>0. child.at \in Places(doc) /\ child.at >= p /\ OneValue(doc, f, p, child.at)
    <3>1. child.at \in Places(doc) /\ child.at >= p /\ ~child.thrown
      BY <1>1, <1>9 DEF IsOutcome
    <3>2. QED
      BY <1>1, <1>9, <3>1, ValueHoldsGives, Zenon
  <2>1. q \in Places(doc) /\ q >= child.at
    BY <2>0, <1>e, AfterCommentsIs
  <2>2. q \in Nat /\ child.at \in Nat /\ q >= p /\ q >= 1 /\ q <= Len(doc) + 1
    <3>1. q \in Nat /\ q >= 1 /\ q <= Len(doc) + 1
      BY <2>1, PlacesAre
    <3>2. child.at \in Nat
      BY <2>0, PlacesAre
    <3>3. QED
      BY <1>0, <2>0, <2>1, <3>1, <3>2
  <2>3. /\ Token(doc, q) = "]" <=> (q <= Len(doc) /\ doc[q] = "]")
        /\ Token(doc, q) = "," <=> (q <= Len(doc) /\ doc[q] = ",")
    <3>1. Sees(doc, f, q, CharToken(doc, q, f))
      BY <2>1, SeenToken
    <3>2. QED
      BY <3>1, Zenon DEF Sees, PlainMarks
  <2>4. ASSUME NEW j \in 0 .. Len(doc) - 1, doc[j + 1] = "]"
        PROVE  held(j) <=> ElementsFollow(doc, f, q, j)
    <3>1. HasElements(doc, f, p, j) <=> ElementsFollow(doc, f, q, j)
      BY <1>e, <2>0, <2>4, ElementsAfter
    <3>2. QED
      BY <1>7, <1>9, <2>4, <3>1
  <2>5. CASE Token(doc, q) = "]"
    <3> DEFINE v == ArrayValue(<<child.value>>)
    <3>1. r = Success(v, q + 1)
      BY <1>2, <1>9, <2>5, Zenon DEF ReadElements
    <3> HIDE DEF v
    <3>2. r.ok = TRUE /\ r.at = q + 1 /\ r.thrown = FALSE
      BY <3>1, SuccessGives, Zenon
    <3>3. doc[q] = "]" /\ doc[q] # ","
      BY <2>3, <2>5, Zenon
    <3>4. r.at >= p + 1 /\ doc[r.at - 1] = "]"
      <4>1. (q + 1) - 1 = q /\ q + 1 >= p + 1
        BY <1>0, <2>2
      <4>2. doc[(q + 1) - 1] = "]"
        BY <3>3, <4>1, Zenon
      <4>3. QED
        BY <3>2, <4>1, <4>2, Zenon
    <3>5. ASSUME NEW j \in 0 .. Len(doc) - 1, doc[j + 1] = "]" PROVE held(j) <=> gives(j)
      <4>1. held(j) <=> q = j + 1
        BY <2>4, <3>3, <3>5, Zenon DEF ElementsFollow
      <4>2. gives(j) <=> q + 1 = j + 2
        BY <3>2, Zenon
      <4>3. j \in Nat
        OBVIOUS
      <4>4. q = j + 1 <=> q + 1 = j + 2
        BY <2>2, <4>3
      <4>5. QED
        BY <4>1, <4>2, <4>4, Zenon
    <3>6. QED
      BY <1>3, <1>e, <3>4, <3>5
  <2>6. CASE Token(doc, q) # "]" /\ Token(doc, q) # ","
    <3>1. r = AddErrorAndRecover(doc, q, "]")
      BY <1>2, <1>9, <2>6, Zenon DEF ReadElements
    <3>2. r.ok = FALSE
      BY <3>1, ErrorGives, Zenon
    <3>3. ASSUME NEW j \in 0 .. Len(doc) - 1, doc[j + 1] = "]" PROVE ~held(j)
      <4>0. j + 1 <= Len(doc) /\ j <= Len(doc) /\ (q <= j => q <= Len(doc))
        BY <1>0, <2>2
      <4>1. q # j + 1
        BY <2>3, <2>6, <3>3, <4>0, Zenon
      <4>2. ~(q <= j /\ doc[q] = ",")
        BY <2>3, <2>6, <4>0, Zenon
      <4>3. QED
        BY <2>4, <3>3, <4>1, <4>2, Zenon DEF ElementsFollow
    <3>4. QED
      BY <1>3, <1>e, <3>2, <3>3
  <2>7. CASE Token(doc, q) = ","
    <3> DEFINE rest == ElementsAt(doc, f, q + 1, d, FALSE)
    <3>1. r = FromElement(child.value, rest)
      <4>1. Token(doc, q) # "]"
        BY <2>7, Zenon
      <4>2. QED
        BY <1>2, <1>9, <2>7, <4>1, Zenon DEF ReadElements
    <3>2. q <= Len(doc) /\ doc[q] = ","
      BY <2>3, <2>7, Zenon
    <3>n. q + 1 \in Places(doc) /\ q + 1 > p /\ q + 1 \in Nat
      <4>1. q <= Len(doc)
        BY <3>2
      <4>2. QED
        BY <1>0, <2>2, <4>1 DEF Places
    <3>3. ElementsHold(doc, f, q + 1, FALSE, rest) /\ IsOutcome(doc, q + 1, rest)
      <4>1. q + 1 > c[2] /\ FALSE \in BOOLEAN
        BY <3>n DEF CallsFrom
      <4>2. QED
        BY <3>n, <4>1, ElementsInside
    <3> HIDE DEF rest
    <3>4. r.ok = rest.ok /\ r.thrown = rest.thrown /\ r.at = rest.at /\ rest.at \in Places(doc)
      <4>1. rest.ok \in BOOLEAN /\ rest.thrown \in BOOLEAN /\ (rest.ok => ~rest.thrown) /\ rest.at \in Places(doc)
        BY <3>3 DEF IsOutcome
      <4>2. QED
        <5> DEFINE v == child.value
        <5>1. r = FromElement(v, rest)
          BY <3>1
        <5> HIDE DEF v
        <5>2. Settled(rest)
          BY <4>1 DEF Settled
        <5>3. SameEnd(FromElement(v, rest), rest)
          BY <5>2, FromElementGives
        <5>4. QED
          BY <4>1, <5>1, <5>3, Zenon DEF SameEnd
    <3>5. CASE rest.thrown
      BY <1>e, <3>4, <3>5 DEF ElementsHold
    <3>6. CASE ~rest.thrown
      <4>1. /\ rest.ok => rest.at >= (q + 1) + 1 /\ doc[rest.at - 1] = "]"
            /\ \A j \in 0 .. Len(doc) - 1 : doc[j + 1] = "]" =>
                 ((j = (q + 1) - 1 /\ EmptyElements(f, FALSE)) \/ HasElements(doc, f, q + 1, j) <=> (rest.ok /\ rest.at = j + 2))
        BY <3>3, <3>6, Zenon DEF ElementsHold
      <4>n. rest.at \in Nat
        BY <3>4, PlacesAre
      <4>2. r.ok => r.at >= p + 1 /\ doc[r.at - 1] = "]"
        <5>1. rest.at >= (q + 1) + 1 => rest.at >= p + 1
          BY <1>0, <2>2, <4>n
        <5>2. QED
          BY <3>4, <4>1, <5>1, Zenon
      <4>3. ASSUME NEW j \in 0 .. Len(doc) - 1, doc[j + 1] = "]" PROVE held(j) <=> gives(j)
        <5>1. q # j + 1
          BY <3>2, <4>3, Zenon
        <5>2. j \in Nat /\ (j = (q + 1) - 1 <=> q = j) /\ (rest.at >= (q + 1) + 1 /\ rest.at = j + 2 => q <= j)
          BY <2>2, <4>n
        <5>3. (q = j /\ EmptyElements(f, FALSE)) \/ HasElements(doc, f, q + 1, j) <=> (rest.ok /\ rest.at = j + 2)
          BY <4>1, <4>3, <5>2
        <5>4. held(j) <=> q <= j /\ (HasElements(doc, f, q + 1, j) \/ (q = j /\ EmptyElements(f, FALSE)))
          BY <2>4, <3>2, <4>3, <5>1, Zenon DEF ElementsFollow
        <5>5. gives(j) <=> rest.ok /\ rest.at = j + 2
          BY <3>4, Zenon
        <5>6. rest.ok => rest.at >= (q + 1) + 1
          BY <4>1, Zenon
        <5>7. QED
          BY <5>2, <5>3, <5>4, <5>5, <5>6, Zenon
      <4>4. QED
        BY <1>3, <1>e, <4>2, <4>3
    <3>7. QED
      BY <3>5, <3>6
  <2>8. QED
    BY <2>5, <2>6, <2>7, Zenon
<1>10. QED
  BY <1>6, <1>8, <1>9

Closes(doc, j) == doc[j + 1] = "}"

LEMMA MembersStart ==
    ASSUME NEW T, NEW doc \in Seq(T), NEW f, IsSettings(f), NEW p \in Places(doc), NEW q, q = AfterComments(doc, p),
           NEW j \in 0 .. Len(doc) - 1, Closes(doc, j), NEW w \in BOOLEAN, NEW names \in SUBSET CharNames
    PROVE  HasMembers(doc, f, p, j, w, names) <=> (q = j + 1 /\ w) \/ FirstMember(doc, f, q, j, names)
<1>0. Len(doc) \in Nat /\ p \in Nat /\ p >= 1 /\ j \in Nat /\ j + 1 <= Len(doc)
  <2>1. j \in Nat /\ j + 1 <= Len(doc)
    <3>1. Len(doc) \in Nat
      OBVIOUS
    <3>2. QED
      BY <3>1
  <2>2. QED
    BY <2>1, PlacesAre
<1>1. q \in Places(doc) /\ q >= p /\ Comments(doc, p, q - 1)
  BY AfterCommentsIs, CommentsBefore
<1>2. q \in Nat
  BY <1>1, PlacesAre
<1> DEFINE starts(m) == (m = j + 1 /\ w) \/ FirstMember(doc, f, m, j, names)
<1>3. HasMembers(doc, f, p, j, w, names) <=> \E m \in p .. j + 1 : Comments(doc, p, m - 1) /\ starts(m)
  <2>1. p \in 1 .. Len(doc) + 1 /\ j \in 0 .. Len(doc)
    BY <1>0, PlacesAre
  <2>2. HasMembers(doc, f, p, j, w, names) <=>
             \E m \in p .. j + 1 : Comments(doc, p, m - 1) /\ ((m = j + 1 /\ w) \/ FirstMember(doc, f, m, j, names))
    BY <2>1, MembersRule
  <2>3. QED
    BY <2>2
<1>4. ASSUME NEW m \in p .. j + 1, Comments(doc, p, m - 1), starts(m) PROVE m = q
  <2>1. doc[m] # "/"
    <3>1. CASE m = j + 1
      BY <3>1, Zenon DEF Closes
    <3>2. CASE FirstMember(doc, f, m, j, names)
      <4>1. doc[m] \in NameTokens(f)
        BY <3>2, Zenon DEF FirstMember, NameIs
      <4>2. doc[m] \in CharTexts
        BY <4>1, NameTokensAre
      <4>3. QED
        BY <4>2, TextsAreNoMarks
    <3>3. QED
      BY <1>4, <3>1, <3>2, Zenon
  <2>2. m \in p .. Len(doc)
    BY <1>0
  <2>3. QED
    BY <1>4, <2>1, <2>2, FirstPlace
<1>5. starts(q) => q <= j + 1
  <2>1. FirstMember(doc, f, q, j, names) => q + 1 <= j
    BY Zenon DEF FirstMember
  <2>2. (q + 1 <= j => q <= j + 1) /\ (q = j + 1 => q <= j + 1)
    BY <1>0, <1>2
  <2>3. QED
    BY <2>1, <2>2, Zenon
<1>6. HasMembers(doc, f, p, j, w, names) <=> starts(q)
  <2>1. ASSUME HasMembers(doc, f, p, j, w, names) PROVE starts(q)
    <3>1. PICK m \in p .. j + 1 : Comments(doc, p, m - 1) /\ starts(m)
      BY <1>3, <2>1
    <3>2. m = q
      BY <1>4, <3>1
    <3>3. QED
      BY <3>1, <3>2, Zenon
  <2>2. ASSUME starts(q) PROVE HasMembers(doc, f, p, j, w, names)
    <3>1. q \in p .. j + 1
      BY <1>0, <1>1, <1>2, <1>5, <2>2
    <3> HIDE DEF starts
    <3>2. QED
      BY <1>1, <1>3, <2>2, <3>1, Zenon
  <2>3. QED
    BY <2>1, <2>2
<1>7. QED
  BY <1>6

\* What follows the value of a member, from the token behind it on.
MembersFollow(doc, f, a, s, j, name, names) ==
    \/ s = j + 1
    \/ /\ s <= j /\ doc[a] \in {",", "/"} /\ doc[s] \notin {"}", "/"}
       /\ HasMembers(doc, f, s + 1, j, name = "" \/ f.allowTrailingCommas, names \cup {name})

LEMMA MembersAfter ==
    ASSUME NEW T, NEW doc \in Seq(T), NEW f, NEW q \in Nat, q >= 1, q + 2 \in Places(doc), NEW a \in Places(doc), a >= q + 2,
           OneValue(doc, f, q + 2, a), NEW s, s = AfterComments(doc, a),
           NEW j \in 0 .. Len(doc) - 1, Closes(doc, j), NEW names
    PROVE  MemberValue(doc, f, q, j, names) <=> MembersFollow(doc, f, a, s, j, doc[q], names)
<1>0. Len(doc) \in Nat /\ a \in Nat /\ a >= 1 /\ j \in Nat /\ j + 1 <= Len(doc)
  <2>1. j \in Nat /\ j + 1 <= Len(doc)
    <3>1. Len(doc) \in Nat
      OBVIOUS
    <3>2. QED
      BY <3>1
  <2>2. QED
    BY <2>1, PlacesAre
<1>1. s \in Places(doc) /\ s >= a /\ Comments(doc, a, s - 1)
  BY AfterCommentsIs, CommentsBefore
<1>2. s \in Nat
  BY <1>1, PlacesAre
<1> DEFINE more(k, t) == MoreMembers(doc, f, k, t, j, doc[q], names)
<1>3. MemberValue(doc, f, q, j, names) <=>
        \E k \in q + 1 .. j : MayBeValue(doc, f, q + 2, k) /\ \E t \in k + 1 .. j + 1 : Comments(doc, k + 1, t - 1) /\ more(k, t)
  BY Zenon DEF MemberValue
<1>e. \A k, t : more(k, t) => doc[t] # "/"
  BY Zenon DEF MoreMembers, Closes
<1> HIDE DEF more
<1> DEFINE b == a - 1
<1>4. b + 1 = a /\ b \in Nat /\ b \in (q + 2) - 1 .. Len(doc) /\ (s <= j + 1 => b \in q + 1 .. j)
  BY <1>0, <1>1, <1>2, PlacesAre
<1>b. \A k \in (q + 2) - 1 .. Len(doc) : MayBeValue(doc, f, q + 2, k) <=> k = b
  BY DEF OneValue
<1> HIDE DEF b
<1>5. ASSUME NEW k \in q + 1 .. j, MayBeValue(doc, f, q + 2, k), NEW t \in k + 1 .. j + 1, Comments(doc, k + 1, t - 1), more(k, t)
      PROVE  t = s /\ k = b
  <2>1. k \in (q + 2) - 1 .. Len(doc) /\ k \in Int
    BY <1>0
  <2>2. k = b
    BY <1>5, <1>b, <2>1
  <2>3. k + 1 = a
    BY <1>4, <2>2
  <2>4. t \in a .. Len(doc) /\ Comments(doc, a, t - 1)
    <3>1. t \in a .. Len(doc)
      BY <1>0, <2>3
    <3>2. QED
      BY <1>5, <2>3, <3>1, Zenon
  <2>5. doc[t] # "/"
    BY <1>5, <1>e, Zenon
  <2>6. t = s
    BY <2>4, <2>5, FirstPlace
  <2>7. QED
    BY <2>2, <2>6
<1>6. ASSUME s <= j + 1, more(b, s) PROVE MemberValue(doc, f, q, j, names)
  <2>1. b \in q + 1 .. j /\ MayBeValue(doc, f, q + 2, b)
    BY <1>4, <1>6, <1>b
  <2>2. s \in a .. j + 1
    BY <1>0, <1>1, <1>2, <1>6
  <2>3. s \in b + 1 .. j + 1 /\ Comments(doc, b + 1, s - 1)
    BY <1>1, <1>4, <2>2, Zenon
  <2>4. QED
    BY <1>3, <1>6, <2>1, <2>3, Zenon
<1>7. MemberValue(doc, f, q, j, names) <=> s <= j + 1 /\ more(b, s)
  <2>1. ASSUME MemberValue(doc, f, q, j, names) PROVE s <= j + 1 /\ more(b, s)
    <3>1. PICK k \in q + 1 .. j : MayBeValue(doc, f, q + 2, k) /\ \E t \in k + 1 .. j + 1 : Comments(doc, k + 1, t - 1) /\ more(k, t)
      BY <1>3, <2>1, Zenon
    <3>2. PICK t \in k + 1 .. j + 1 : Comments(doc, k + 1, t - 1) /\ more(k, t)
      BY <3>1, Zenon
    <3>3. t = s /\ k = b
      BY <1>5, <3>1, <3>2
    <3>4. t <= j + 1
      BY <1>0
    <3>5. QED
      BY <3>2, <3>3, <3>4, Zenon
  <2>2. QED
    BY <1>6, <2>1
<1>8. (s <= j + 1 <=> s <= j \/ s = j + 1) /\ (s = j + 1 => ~(s <= j))
  BY <1>0, <1>2
<1>9. s = j + 1 => doc[s] = "}"
  BY Zenon DEF Closes
<1>10. QED
  BY <1>4, <1>7, <1>8, <1>9, Zenon DEF more, MoreMembers, MembersFollow

LEMMA MembersHeld ==
    ASSUME NEW T, NEW doc \in Seq(T), NEW f, IsSettings(f), NEW c, CallsInsideHold(doc, f, c),
           NEW p \in Places(doc), CallsFrom(c, "object", p), NEW d \in 1 .. StackLimit, NEW u \in BOOLEAN,
           NEW names \in SUBSET CharNames
    PROVE  MembersHold(doc, f, p, u, names, MembersAt(doc, f, p, d, u, names))
<1> DEFINE q == AfterComments(doc, p)
<1> DEFINE name == CharToken(doc, q, f)
<1> DEFINE child == ValueAt(doc, f, q + 2, d + 1)
<1> DEFINE a == child.at
<1> DEFINE s == AfterComments(doc, a)
<1> DEFINE r == MembersAt(doc, f, p, d, u, names)
<1> DEFINE w == u \/ f.allowTrailingCommas
<1>e. q = AfterComments(doc, p) /\ child = ValueAt(doc, f, q + 2, d + 1)
  OBVIOUS
<1>1. r = ReadMembers(doc, f, d, u, names, q, name, child, s)
  <2> HIDE DEF q, child
  <2>1. QED
    BY <1>e, MembersRead
<1>2. q \in Places(doc) /\ q >= p
  BY AfterCommentsIs
<1> HIDE DEF q
<1>3. Sees(doc, f, q, name)
  BY <1>2, SeenToken
<1>f. /\ a = child.at /\ s = AfterComments(doc, a) /\ r = MembersAt(doc, f, p, d, u, names)
      /\ name = CharToken(doc, q, f)
  OBVIOUS
<1> HIDE DEF name, child, a, s, r
<1>g. SUFFICES MembersHold(doc, f, p, u, names, r)
  BY DEF r
<1>0. Len(doc) \in Nat /\ p \in Nat /\ p >= 1 /\ q \in Nat /\ q >= 1 /\ q <= Len(doc) + 1
  <2>1. q \in Nat /\ q >= 1 /\ q <= Len(doc) + 1
    BY <1>2, PlacesAre
  <2>2. QED
    BY <2>1, PlacesAre
<1>w. w \in BOOLEAN /\ (w <=> u \/ f.allowTrailingCommas)
  OBVIOUS
<1> HIDE DEF w
<1> DEFINE gives(j) == r.ok /\ r.at = j + 2
\* It is enough to tell the end.
<1>4. ASSUME r.ok => r.at >= p + 1 /\ doc[r.at - 1] = "}",
             \A j \in 0 .. Len(doc) - 1 : Closes(doc, j) => (HasMembers(doc, f, p, j, w, names) <=> gives(j))
      PROVE  MembersHold(doc, f, p, u, names, r)
  <2>1. w = (u \/ f.allowTrailingCommas)
    BY DEF w
  <2>2. QED
    BY <1>4, <2>1, Zenon DEF MembersHold, Closes
<1>5. ASSUME NEW j \in 0 .. Len(doc) - 1, Closes(doc, j)
      PROVE  HasMembers(doc, f, p, j, w, names) <=> (q = j + 1 /\ w) \/ FirstMember(doc, f, q, j, names)
  BY <1>5, <1>w, <1>e, MembersStart
<1>6. ASSUME NEW j \in 0 .. Len(doc) - 1 PROVE j \in Nat /\ j + 1 <= Len(doc)
  BY <1>0
<1>7. /\ name = "}" <=> (q <= Len(doc) /\ doc[q] = "}")
      /\ ObjectEnds(name, u, f) <=> name = "}" /\ w
  BY <1>3, <1>w, Zenon DEF Sees, PlainMarks, ObjectEnds
<1>8. CASE ObjectEnds(name, u, f)
  <2> DEFINE v == ObjectValue(NoMembers)
  <2>1. r = Success(v, q + 1)
    BY <1>1, <1>8, Zenon DEF ReadMembers
  <2> HIDE DEF v
  <2>2. r.ok = TRUE /\ r.at = q + 1
    BY <2>1, SuccessGives, Zenon
  <2>3. q <= Len(doc) /\ doc[q] = "}" /\ w
    BY <1>7, <1>8, Zenon
  <2>4. r.at >= p + 1 /\ doc[r.at - 1] = "}"
    <3>1. (q + 1) - 1 = q /\ q + 1 >= p + 1
      BY <1>0, <1>2
    <3>2. doc[(q + 1) - 1] = "}"
      BY <2>3, <3>1, Zenon
    <3>3. QED
      BY <2>2, <3>1, <3>2, Zenon
  <2>5. \A j : ~FirstMember(doc, f, q, j, names)
    <3>1. "}" \notin NameTokens(f)
      <4>1. "}" \notin CharTexts
        BY TextsAreNoMarks, Zenon
      <4>2. QED
        BY <4>1, NameTokensAre, Zenon
    <3>2. QED
      BY <2>3, <3>1, Zenon DEF FirstMember, NameIs
  <2>6. ASSUME NEW j \in 0 .. Len(doc) - 1, Closes(doc, j) PROVE HasMembers(doc, f, p, j, w, names) <=> gives(j)
    <3>1. HasMembers(doc, f, p, j, w, names) <=> q = j + 1
      <4>1. w
        BY <2>3
      <4>2. QED
        BY <1>5, <2>5, <2>6, <4>1
    <3>2. gives(j) <=> q + 1 = j + 2
      BY <2>2, Zenon
    <3>3. q = j + 1 <=> q + 1 = j + 2
      BY <1>0, <1>6
    <3>4. QED
      BY <3>1, <3>2, <3>3, Zenon
  <2>7. QED
    BY <1>4, <1>f, <2>4, <2>6, Zenon
\* From here on there must be a member.
<1>9. ASSUME ~ObjectEnds(name, u, f), NEW j \in 0 .. Len(doc) - 1, Closes(doc, j)
      PROVE  HasMembers(doc, f, p, j, w, names) <=> FirstMember(doc, f, q, j, names)
  <2>1. ASSUME q = j + 1, w PROVE FALSE
    <3>1. q <= Len(doc)
      BY <1>6, <2>1
    <3>2. doc[q] = "}"
      BY <1>9, <2>1, Zenon DEF Closes
    <3>3. QED
      BY <1>7, <1>9, <2>1, <3>1, <3>2, Zenon
  <2>2. QED
    BY <1>5, <1>9, <2>1
<1>10. ASSUME ~ObjectEnds(name, u, f), r.ok = FALSE,
              \A j \in 0 .. Len(doc) - 1 : Closes(doc, j) => ~FirstMember(doc, f, q, j, names)
       PROVE  MembersHold(doc, f, p, u, names, r)
  <2>1. ASSUME NEW j \in 0 .. Len(doc) - 1, Closes(doc, j) PROVE HasMembers(doc, f, p, j, w, names) <=> gives(j)
    BY <1>9, <1>10, <2>1
  <2>2. QED
    BY <1>4, <1>10, <2>1, Zenon
<1>11. NameIs(doc, f, q, names) /\ q <= Len(doc) => name \in NameTokens(f) /\ ~(f.rejectDupKeys /\ name \in names)
  <2>1. ASSUME NameIs(doc, f, q, names), q <= Len(doc) PROVE name = doc[q]
    <3>1. doc[q] \in NameTokens(f) /\ NameTokens(f) \cap Refused(f) = {}
      BY <2>1 DEF NameIs, NameTokens
    <3>2. doc[q] \notin Refused(f) /\ Token(doc, q) = doc[q]
      BY <2>1, <3>1 DEF Token
    <3>3. QED
      BY <1>f, <3>2 DEF CharToken
  <2>2. QED
    BY <2>1, Zenon DEF NameIs
<1>12. CASE ~ObjectEnds(name, u, f) /\ (name \notin NameTokens(f) \/ (f.rejectDupKeys /\ name \in names))
  <2>1. r = AddErrorAndRecover(doc, q, "}")
    BY <1>1, <1>12, Zenon DEF ReadMembers
  <2>2. r.ok = FALSE
    BY <2>1, ErrorGives, Zenon
  <2>3. ASSUME NEW j \in 0 .. Len(doc) - 1, FirstMember(doc, f, q, j, names) PROVE FALSE
    <3>1. q + 1 <= j /\ NameIs(doc, f, q, names)
      BY <2>3, Zenon DEF FirstMember
    <3>2. q <= Len(doc)
      BY <1>0, <1>6, <3>1
    <3>3. QED
      BY <1>11, <1>12, <3>1, <3>2, Zenon
  <2>4. QED
    BY <1>10, <1>12, <2>2, <2>3, Zenon
<1> DEFINE named == ~ObjectEnds(name, u, f) /\ ~(name \notin NameTokens(f) \/ (f.rejectDupKeys /\ name \in names))
<1>13. CASE named /\ Token(doc, q + 1) # ":"
  <2>1. r = AddErrorAndRecover(doc, q + 1, "}")
    BY <1>1, <1>13, Zenon DEF ReadMembers
  <2>2. r.ok = FALSE
    BY <2>1, ErrorGives, Zenon
  <2>3. ASSUME NEW j \in 0 .. Len(doc) - 1, FirstMember(doc, f, q, j, names) PROVE FALSE
    <3>1. q + 1 <= j /\ doc[q + 1] = ":"
      BY <2>3, Zenon DEF FirstMember
    <3>2. q + 1 <= Len(doc)
      BY <1>0, <1>6, <3>1
    <3>3. QED
      BY <1>13, <3>1, <3>2, Zenon DEF Token
  <2>4. QED
    BY <1>10, <1>13, <2>2, <2>3, Zenon
<1>14. ASSUME named, Token(doc, q + 1) = ":"
       PROVE  q + 1 <= Len(doc) /\ doc[q + 1] = ":" /\ q <= Len(doc) /\ NameIs(doc, f, q, names) /\ name = doc[q]
              /\ name \in CharNames /\ q + 2 \in Places(doc) /\ q + 2 > p
  <2>1. q + 1 <= Len(doc) /\ doc[q + 1] = ":"
    BY <1>14, Zenon DEF Token
  <2>2. q <= Len(doc) /\ q + 2 > p /\ q + 2 \in Places(doc)
    <3>1. q + 1 <= Len(doc)
      BY <2>1
    <3>2. QED
      BY <1>0, <1>2, <3>1 DEF Places
  <2>3. name \in NameTokens(f) /\ ~(f.rejectDupKeys /\ name \in names)
    BY <1>14, Zenon
  <2>4. name \in CharNames /\ name \in CharTexts
    BY <2>3, NameTokensAre
  <2>5. name = doc[q]
    BY <1>3, <2>4, Zenon DEF Sees
  <2>6. NameIs(doc, f, q, names)
    BY <2>3, <2>5, Zenon DEF NameIs
  <2>7. QED
    BY <2>1, <2>2, <2>4, <2>5, <2>6, Zenon
<1>15. ASSUME named, Token(doc, q + 1) = ":"
       PROVE  ValueHolds(doc, f, q + 2, child) /\ IsOutcome(doc, q + 2, child)
  <2>1. q + 2 > c[2] /\ q + 2 \in Places(doc)
    <3>1. q + 2 > p /\ q + 2 \in Places(doc)
      BY <1>14, <1>15, Zenon
    <3>2. QED
      BY <3>1 DEF CallsFrom
  <2>2. QED
    BY <1>e, <2>1, ValueInside
<1>16. CASE named /\ Token(doc, q + 1) = ":" /\ ~child.ok
  <2>1. r = FailedInside(doc, child, "}")
    BY <1>1, <1>16, Zenon DEF ReadMembers
  <2>0. ValueHolds(doc, f, q + 2, child) /\ IsOutcome(doc, q + 2, child)
    BY <1>15, <1>16, Zenon
  <2>2. r.ok = FALSE /\ r.thrown = child.thrown
    <3>1. child.ok = FALSE /\ child.thrown \in BOOLEAN
      <4>1. ~child.ok
        BY <1>16
      <4>2. QED
        BY <2>0, <4>1 DEF IsOutcome
    <3>2. QED
      BY <2>1, <3>1, FailedInsideGives, Zenon
  <2>3. CASE child.thrown
    BY <2>2, <2>3, Zenon DEF MembersHold
  <2>4. CASE ~child.thrown
    <3>1. NoValue(doc, f, q + 2)
      <4>1. q + 2 \in Places(doc) /\ ~child.ok
        BY <1>14, <1>16, Zenon
      <4>2. QED
        BY <2>0, <2>4, <4>1, ValueHoldsGives, Zenon
    <3>2. ASSUME NEW j \in 0 .. Len(doc) - 1, FirstMember(doc, f, q, j, names) PROVE FALSE
      <4>1. MemberValue(doc, f, q, j, names)
        BY <3>2, Zenon DEF FirstMember
      <4>2. PICK k \in q + 1 .. j : MayBeValue(doc, f, q + 2, k)
        BY <4>1, Zenon DEF MemberValue
      <4>3. k \in (q + 2) - 1 .. Len(doc)
        BY <1>0, <1>6
      <4>4. QED
        BY <3>1, <4>2, <4>3 DEF NoValue
    <3>3. QED
      BY <1>10, <1>16, <2>2, <3>2, Zenon
  <2>5. QED
    BY <2>3, <2>4
<1>17. ASSUME named, Token(doc, q + 1) = ":", child.ok
       PROVE  /\ a \in Places(doc) /\ a >= q + 2 /\ s \in Places(doc) /\ s >= a
              /\ \A j \in 0 .. Len(doc) - 1 : Closes(doc, j) =>
                    (FirstMember(doc, f, q, j, names) <=> q + 1 <= j /\ MembersFollow(doc, f, a, s, j, name, names))
  <2>0. ValueHolds(doc, f, q + 2, child) /\ IsOutcome(doc, q + 2, child)
    BY <1>15, <1>17, Zenon
  <2>1. a \in Places(doc) /\ a >= q + 2 /\ ~child.thrown
    BY <1>f, <1>17, <2>0 DEF IsOutcome
  <2>2. s \in Places(doc) /\ s >= a
    BY <1>f, <2>1, AfterCommentsIs
  <2>3. doc[q + 1] = ":" /\ NameIs(doc, f, q, names) /\ name = doc[q] /\ q + 2 \in Places(doc)
    BY <1>14, <1>17, Zenon
  <2>4. OneValue(doc, f, q + 2, a)
    BY <1>f, <1>17, <2>0, <2>1, <2>3, ValueHoldsGives, Zenon
  <2>5. ASSUME NEW j \in 0 .. Len(doc) - 1, Closes(doc, j)
        PROVE  FirstMember(doc, f, q, j, names) <=> q + 1 <= j /\ MembersFollow(doc, f, a, s, j, name, names)
    <3>1. MemberValue(doc, f, q, j, names) <=> MembersFollow(doc, f, a, s, j, doc[q], names)
      BY <1>0, <1>f, <2>1, <2>3, <2>4, <2>5, MembersAfter
    <3>2. QED
      BY <2>3, <3>1, Zenon DEF FirstMember
  <2>6. QED
    BY <2>1, <2>2, <2>5, Zenon
<1> DEFINE valued == named /\ Token(doc, q + 1) = ":" /\ child.ok
<1>18. ASSUME valued
       PROVE  /\ a \in Nat /\ s \in Nat /\ a >= q + 2 /\ s >= a /\ a <= Len(doc) + 1 /\ s <= Len(doc) + 1 /\ s \in Places(doc)
              /\ a \in Places(doc)
  <2>1. a \in Places(doc) /\ a >= q + 2 /\ s \in Places(doc) /\ s >= a
    BY <1>17, <1>18, Zenon
  <2>2. a \in Nat /\ a <= Len(doc) + 1
    BY <2>1, PlacesAre
  <2>3. s \in Nat /\ s <= Len(doc) + 1
    BY <2>1, PlacesAre
  <2>4. QED
    BY <2>1, <2>2, <2>3
<1>19. ASSUME valued, NEW j \in 0 .. Len(doc) - 1, Closes(doc, j)
       PROVE  HasMembers(doc, f, p, j, w, names) <=> q + 1 <= j /\ MembersFollow(doc, f, a, s, j, name, names)
  BY <1>9, <1>17, <1>19, Zenon
<1>20. CASE valued /\ SeparatorMissing(doc, a)
  <2>1. r = AddErrorAndRecover(doc, a, "}")
    BY <1>1, <1>20, <1>f, Zenon DEF ReadMembers
  <2>2. r.ok = FALSE
    BY <2>1, ErrorGives, Zenon
  <2>3. ASSUME NEW j \in 0 .. Len(doc) - 1, Closes(doc, j), FirstMember(doc, f, q, j, names) PROVE FALSE
    <3>0. valued
      BY <1>20
    <3>1. MembersFollow(doc, f, a, s, j, name, names)
      BY <1>17, <1>20, <2>3, Zenon
    <3>2. s <= j + 1
      <4>1. s = j + 1 \/ s <= j
        BY <3>1, Zenon DEF MembersFollow
      <4>2. QED
        BY <1>6, <1>18, <3>0, <4>1
    <3>3. a <= Len(doc)
      BY <1>6, <1>18, <3>0, <3>2
    <3>4. doc[a] \notin {"}", ",", "/"}
      BY <1>20, <3>3, Zenon DEF SeparatorMissing, Token
    <3>5. CASE s = j + 1
      <4>1. a = j + 1 \/ a \in a .. s - 1
        BY <1>6, <1>18, <3>0, <3>5
      <4>2. a \in a .. s - 1 => doc[a] = "/"
        <5>1. Comments(doc, a, s - 1)
          BY <1>18, <1>f, <3>0, CommentsBefore
        <5>2. QED
          BY <5>1, Zenon DEF Comments
      <4>3. a = j + 1 => doc[a] = "}"
        BY <2>3, Zenon DEF Closes
      <4>4. QED
        BY <3>4, <4>1, <4>2, <4>3, Zenon
    <3>6. CASE doc[a] \in {",", "/"}
      BY <3>4, <3>6, Zenon
    <3>7. QED
      BY <3>1, <3>5, <3>6, Zenon DEF MembersFollow
  <2>4. QED
    BY <1>10, <1>20, <2>2, <2>3, Zenon
<1>21. ASSUME valued PROVE Token(doc, s) = "}" <=> (s <= Len(doc) /\ doc[s] = "}")
  BY Zenon DEF Token
<1>22. CASE valued /\ ~SeparatorMissing(doc, a) /\ Token(doc, s) = "}"
  <2> DEFINE v == ObjectValue(WithMember(name, child.value, NoMembers))
  <2>1. r = Success(v, s + 1)
    BY <1>1, <1>22, <1>f, Zenon DEF ReadMembers
  <2> HIDE DEF v
  <2>2. r.ok = TRUE /\ r.at = s + 1
    BY <2>1, SuccessGives, Zenon
  <2>v. valued
    BY <1>22
  <2>3. s <= Len(doc) /\ doc[s] = "}"
    BY <1>22, <1>21, Zenon
  <2>4. r.at >= p + 1 /\ doc[r.at - 1] = "}"
    <3>1. (s + 1) - 1 = s /\ s + 1 >= p + 1
      BY <1>0, <1>2, <1>18, <2>v
    <3>2. doc[(s + 1) - 1] = "}"
      BY <2>3, <3>1, Zenon
    <3>3. QED
      BY <2>2, <3>1, <3>2, Zenon
  <2>5. ASSUME NEW j \in 0 .. Len(doc) - 1, Closes(doc, j) PROVE HasMembers(doc, f, p, j, w, names) <=> gives(j)
    <3>1. MembersFollow(doc, f, a, s, j, name, names) <=> s = j + 1
      BY <2>3, Zenon DEF MembersFollow
    <3>2. s = j + 1 => q + 1 <= j
      BY <1>0, <1>6, <1>18, <2>v
    <3>3. gives(j) <=> s + 1 = j + 2
      BY <2>2, Zenon
    <3>4. s = j + 1 <=> s + 1 = j + 2
      BY <1>6, <1>18, <2>v
    <3>5. QED
      BY <1>19, <2>v, <2>5, <3>1, <3>2, <3>3, <3>4, Zenon
  <2>6. QED
    BY <1>4, <2>4, <2>5, Zenon
<1>23. CASE valued /\ ~SeparatorMissing(doc, a) /\ Token(doc, s) # "}"
  <2> DEFINE more == names \cup {name}
  <2> DEFINE next == Next_(doc, s)
  <2> DEFINE b == name = ""
  <2> DEFINE rest == MembersAt(doc, f, next, d, b, more)
  <2>1. r = FromMember(name, child.value, rest)
    BY <1>1, <1>23, <1>f, Zenon DEF ReadMembers
  <2>v. valued
    BY <1>23
  <2>b. b \in BOOLEAN /\ (b <=> name = "")
    BY Zenon
  <2>m. more \in SUBSET CharNames
    <3>1. name \in CharNames
      BY <1>14, <2>v, Zenon
    <3>2. QED
      BY <3>1
  <2>n. next \in Places(doc) /\ next >= s /\ (s <= Len(doc) => next = s + 1) /\ (s > Len(doc) => next = Len(doc) + 1)
    BY <1>18, <2>v, NextPlace
  <2> HIDE DEF b, next
  <2>3. MembersHold(doc, f, next, b, more, rest) /\ IsOutcome(doc, next, rest)
    <3>1. next > p
      <4>1. next \in Nat
        BY <2>n, PlacesAre
      <4>2. QED
        BY <1>0, <1>2, <1>18, <2>n, <2>v, <4>1
    <3>2. next > c[2]
      BY <3>1 DEF CallsFrom
    <3> HIDE DEF more
    <3>3. QED
      BY <2>b, <2>m, <2>n, <3>2, MembersInside
  <2>s. w = (u \/ f.allowTrailingCommas) /\ more = names \cup {name}
    BY <1>w DEF w
  <2> HIDE DEF rest, more
  <2>4. r.ok = rest.ok /\ r.thrown = rest.thrown /\ r.at = rest.at /\ rest.at \in Places(doc)
    <3> DEFINE v == child.value
    <3>1. r = FromMember(name, v, rest)
      BY <2>1
    <3> HIDE DEF v
    <3>2. Settled(rest) /\ rest.at \in Places(doc)
      BY <2>3 DEF IsOutcome, Settled
    <3>3. SameEnd(FromMember(name, v, rest), rest)
      BY <3>2, FromMemberGives
    <3>4. QED
      BY <3>1, <3>2, <3>3, Zenon DEF SameEnd
  <2>5. CASE rest.thrown
    BY <2>4, <2>5, Zenon DEF MembersHold
  <2>6. CASE ~rest.thrown
    <3>1. /\ rest.ok => rest.at >= next + 1 /\ doc[rest.at - 1] = "}"
          /\ \A j \in 0 .. Len(doc) - 1 : Closes(doc, j) =>
               (HasMembers(doc, f, next, j, b \/ f.allowTrailingCommas, more) <=> (rest.ok /\ rest.at = j + 2))
      BY <2>3, <2>6, Zenon DEF MembersHold, Closes
    <3>n. rest.at \in Nat /\ next \in Nat /\ rest.at <= Len(doc) + 1
      <4>1. rest.at \in Nat /\ rest.at <= Len(doc) + 1
        BY <2>4, PlacesAre
      <4>2. next \in Nat
        BY <2>n, PlacesAre
      <4>3. QED
        BY <4>1, <4>2
    <3>o. rest.ok => rest.at >= next + 1
      BY <3>1, Zenon
    <3>2. r.ok => r.at >= p + 1 /\ doc[r.at - 1] = "}"
      <4>1. rest.at >= next + 1 => rest.at >= p + 1
        BY <1>0, <1>2, <1>18, <2>v, <2>n, <3>n
      <4>2. QED
        BY <2>4, <3>1, <4>1, Zenon
    <3>3. ASSUME NEW j \in 0 .. Len(doc) - 1, Closes(doc, j) PROVE HasMembers(doc, f, p, j, w, names) <=> gives(j)
      <4>1. s # j + 1
        <5>1. j + 1 <= Len(doc)
          BY <1>6
        <5>2. QED
          BY <1>23, <3>3, <5>1, Zenon DEF Token, Closes
      <4>2. CASE s > Len(doc)
        <5>1. ~rest.ok
          BY <1>0, <2>n, <3>n, <3>o, <4>2
        <5>2. ~(s <= j)
          BY <1>6, <1>18, <2>v, <4>2
        <5>3. ~MembersFollow(doc, f, a, s, j, name, names)
          BY <4>1, <5>2, Zenon DEF MembersFollow
        <5>4. ~gives(j)
          BY <2>4, <5>1, Zenon
        <5>5. QED
          BY <1>19, <2>v, <3>3, <5>3, <5>4, Zenon
      <4>3. CASE s <= Len(doc)
        <5>1. next = s + 1
          BY <2>n, <4>3
        <5>2. doc[s] \notin {"}", "/"}
          <6>1. doc[s] # "/"
            BY <1>18, <1>f, <2>v, <4>3, AfterCommentsIs
          <6>2. doc[s] # "}"
            BY <1>23, <4>3, Zenon DEF Token
          <6>3. QED
            BY <6>1, <6>2, Zenon
        <5>3. doc[a] \in {",", "/"}
          <6>1. a <= Len(doc)
            BY <1>18, <2>v, <4>3
          <6>2. doc[a] \in {"}", ",", "/"}
            BY <1>23, <6>1, Zenon DEF SeparatorMissing, Token
          <6>3. ASSUME doc[a] = "}" PROVE FALSE
            <7>1. a \in a .. Len(doc) /\ Comments(doc, a, a - 1)
              BY <1>18, <2>v, <6>1 DEF Comments
            <7>2. doc[a] # "/"
              BY <6>3, Zenon
            <7>3. s = a
              BY <1>18, <1>f, <2>v, <7>1, <7>2, FirstPlace
            <7>4. QED
              BY <5>2, <6>3, <7>3, Zenon
          <6>4. QED
            BY <6>2, <6>3, Zenon
        <5>4. MembersFollow(doc, f, a, s, j, name, names) <=>
                 s <= j /\ HasMembers(doc, f, s + 1, j, b \/ f.allowTrailingCommas, more)
          <6>1. (name = "" \/ f.allowTrailingCommas) = (b \/ f.allowTrailingCommas) /\ more = names \cup {name}
            BY <2>b, <2>s, Zenon DEF b
          <6>2. QED
            BY <4>1, <5>2, <5>3, <6>1, Zenon DEF MembersFollow
        <5>5. HasMembers(doc, f, s + 1, j, b \/ f.allowTrailingCommas, more) <=> (rest.ok /\ rest.at = j + 2)
          BY <3>1, <3>3, <5>1, Zenon
        <5>6. rest.at = j + 2 /\ rest.at >= next + 1 => s <= j
          BY <1>6, <1>18, <2>v, <3>n, <5>1
        <5>7. s <= j => q + 1 <= j
          BY <1>0, <1>6, <1>18, <2>v
        <5>8. gives(j) <=> rest.ok /\ rest.at = j + 2
          BY <2>4, Zenon
        <5>9. QED
          BY <1>19, <2>v, <3>3, <3>o, <5>4, <5>5, <5>6, <5>7, <5>8, Zenon
      <4>4. QED
        BY <1>0, <1>18, <2>v, <4>2, <4>3
    <3>4. QED
      BY <1>4, <3>2, <3>3, Zenon
  <2>7. QED
    BY <2>5, <2>6
<1>24. QED
  BY <1>8, <1>12, <1>13, <1>16, <1>20, <1>22, <1>23, Zenon

LEMMA CallGives ==
    ASSUME NEW T, NEW doc \in Seq(T), NEW f, NEW c \in CharCalls(doc)
    PROVE  /\ c[1] = "value" => CharReads(doc, f)[c] = ValueAt(doc, f, c[2], c[3])
           /\ c[1] = "object" => CharReads(doc, f)[c] = MembersAt(doc, f, c[2], c[3], c[4], c[5])
           /\ c[1] = "array" => CharReads(doc, f)[c] = ElementsAt(doc, f, c[2], c[3], c[4])
<1>1. IsCall(doc, c) /\ c[4] \in BOOLEAN /\ c[5] \in SUBSET CharNames /\ c = <<c[1], c[2], c[3], c[4], c[5]>>
  BY CharCallIs
<1>2. c[2] \in Places(doc) /\ c[3] \in 1 .. StackLimit + 1 /\ (c[1] = "value" \/ c[3] <= StackLimit)
  BY <1>1 DEF IsCall
<1> DEFINE v == <<"value", c[2], c[3], FALSE, {}>>
<1> DEFINE e == <<"array", c[2], c[3], c[4], {}>>
<1>3. v \in CharCalls(doc) /\ (c[1] # "value" => e \in CharCalls(doc))
  <2>1. {} \in SUBSET CharNames
    OBVIOUS
  <2>2. v \in CharCalls(doc)
    BY <1>2, <2>1, CharCallsAre
  <2>3. c[1] # "value" => e \in CharCalls(doc)
    BY <1>1, <1>2, <2>1, CharCallsAre
  <2>4. QED
    BY <2>2, <2>3
<1>4. /\ v[1] = "value" /\ v[2] = c[2] /\ v[3] = c[3]
      /\ e[1] = "array" /\ e[2] = c[2] /\ e[3] = c[3] /\ e[4] = c[4]
  OBVIOUS
<1>5. ValueAt(doc, f, c[2], c[3]) = CharReads(doc, f)[v] /\ ElementsAt(doc, f, c[2], c[3], c[4]) = CharReads(doc, f)[e]
  BY DEF ValueAt, ElementsAt
<1> HIDE DEF v, e
<1>6. \A y \in CharCalls(doc) : CharReads(doc, f)[y] = CharCalled(doc, CharReads(doc, f), y, f)
  BY CharReadsAre
<1>7. CASE c[1] = "value"
  <2>1. CharReads(doc, f)[c] = ReadCharValue(doc, CharReads(doc, f), c[2], c[3], f)
    BY <1>6, <1>7, Zenon DEF CharCalled
  <2>2. CharReads(doc, f)[v] = ReadCharValue(doc, CharReads(doc, f), c[2], c[3], f)
    BY <1>3, <1>4, <1>6, Zenon DEF CharCalled
  <2>3. QED
    BY <1>5, <1>7, <2>1, <2>2
<1>8. CASE c[1] = "array"
  <2>0. c[1] # "value" /\ c[1] # "object" /\ e[1] # "value" /\ e[1] # "object"
    BY <1>4, <1>8
  <2>1. CharReads(doc, f)[c] = ReadCharArray(doc, CharReads(doc, f), c[2], c[3], c[4], f)
    BY <1>6, <2>0, Zenon DEF CharCalled
  <2>2. CharReads(doc, f)[e] = ReadCharArray(doc, CharReads(doc, f), c[2], c[3], c[4], f)
    BY <1>3, <1>4, <1>6, <2>0, Zenon DEF CharCalled
  <2>3. QED
    BY <1>5, <1>8, <2>1, <2>2
<1>9. CASE c[1] = "object"
  <2>1. MembersAt(doc, f, c[2], c[3], c[4], c[5]) = CharReads(doc, f)[c]
    BY <1>1, <1>9, Zenon DEF MembersAt
  <2>2. QED
    BY <1>9, <2>1
<1>10. QED
  BY <1>1, <1>7, <1>8, <1>9 DEF IsCall

LEMMA ThrownHolds ==
    ASSUME NEW doc, NEW f, NEW p
    PROVE  ValueHolds(doc, f, p, Thrown)
BY DEF ValueHolds, Thrown

\* Calls hold when those inside them do.
LEMMA CallHeld ==
    ASSUME NEW T, NEW doc \in Seq(T), NEW f, IsSettings(f), NEW c \in CharCalls(doc), CallsInsideHold(doc, f, c)
    PROVE  CallHolds(doc, f, c)
<1>1. IsCall(doc, c) /\ c[4] \in BOOLEAN /\ c[5] \in SUBSET CharNames
  BY CharCallIs
<1>2. c[2] \in Places(doc) /\ c[3] \in 1 .. StackLimit + 1 /\ (c[1] = "value" \/ c[3] <= StackLimit)
  BY <1>1 DEF IsCall
<1>3. (c[3] <= StackLimit => c[3] \in 1 .. StackLimit) /\ (~(c[3] <= StackLimit) => c[3] = StackLimit + 1)
  BY <1>2, ReaderAssumption
<1>4. CASE c[1] = "value"
  <2>1. CallsFrom(c, "value", c[2])
    BY <1>4 DEF CallsFrom
  <2>2. ValueHolds(doc, f, c[2], ValueAt(doc, f, c[2], c[3]))
    <3>1. CASE c[3] <= StackLimit
      BY <1>2, <1>3, <2>1, <3>1, ValueHeld
    <3>2. CASE ~(c[3] <= StackLimit)
      <4>1. ValueAt(doc, f, c[2], c[3]) = Thrown
        BY <1>2, <1>3, <3>2, ThrownBelow
      <4>2. QED
        BY <4>1, ThrownHolds
    <3>3. QED
      BY <3>1, <3>2
  <2>3. CharReads(doc, f)[c] = ValueAt(doc, f, c[2], c[3])
    BY <1>4, CallGives
  <2>4. c[1] # "object" /\ c[1] # "array"
    BY <1>4
  <2>5. QED
    BY <2>2, <2>3, <2>4, Zenon DEF CallHolds
<1>5. CASE c[1] = "object"
  <2>1. CallsFrom(c, "object", c[2]) /\ c[3] <= StackLimit
    BY <1>2, <1>5 DEF CallsFrom
  <2>2. MembersHold(doc, f, c[2], c[4], c[5], MembersAt(doc, f, c[2], c[3], c[4], c[5]))
    BY <1>1, <1>2, <1>3, <2>1, MembersHeld
  <2>3. CharReads(doc, f)[c] = MembersAt(doc, f, c[2], c[3], c[4], c[5])
    BY <1>5, CallGives
  <2>4. c[1] # "value" /\ c[1] # "array"
    BY <1>5
  <2>5. QED
    BY <2>2, <2>3, <2>4, Zenon DEF CallHolds
<1>6. CASE c[1] = "array"
  <2>1. CallsFrom(c, "array", c[2]) /\ c[3] <= StackLimit
    BY <1>2, <1>6 DEF CallsFrom
  <2>2. ElementsHold(doc, f, c[2], c[4], ElementsAt(doc, f, c[2], c[3], c[4]))
    BY <1>1, <1>2, <1>3, <2>1, ElementsHeld
  <2>3. CharReads(doc, f)[c] = ElementsAt(doc, f, c[2], c[3], c[4])
    BY <1>6, CallGives
  <2>4. c[1] # "value" /\ c[1] # "object"
    BY <1>6
  <2>5. QED
    BY <2>2, <2>3, <2>4, Zenon DEF CallHolds
<1>7. QED
  BY <1>1, <1>4, <1>5, <1>6 DEF IsCall

\* A call inside another one has the smaller measure.
CallInside(c, y) == y[2] > c[2] \/ (y[2] = c[2] /\ c[1] # "value" /\ y[1] = "value")

LEMMA CallInsideSmaller ==
    ASSUME NEW T, NEW doc \in Seq(T), NEW c \in CharCalls(doc), NEW y \in CharCalls(doc), CallInside(c, y)
    PROVE  Measure(doc, y) < Measure(doc, c)
<1>1. c[2] \in Places(doc) /\ y[2] \in Places(doc)
  BY CharCallIs DEF IsCall
<1>2. Len(doc) \in Nat /\ c[2] \in Nat /\ y[2] \in Nat
  BY <1>1, PlacesAre
<1> DEFINE i == c[2]
<1> DEFINE j == y[2]
<1> DEFINE n == Len(doc)
<1>3. n \in Nat /\ i \in Nat /\ j \in Nat
  BY <1>2
<1> HIDE DEF i, j, n
<1>4. j > i => 2 * (n + 2 - j) + 1 < 2 * (n + 2 - i)
  BY <1>3
<1>5. j = i => 2 * (n + 2 - j) + 0 < 2 * (n + 2 - i) + 1
  BY <1>3
<1>6. (IF y[1] = "value" THEN 0 ELSE 1) \in {0, 1} /\ (IF c[1] = "value" THEN 0 ELSE 1) \in {0, 1}
  OBVIOUS
<1>7. j > i \/ (j = i /\ c[1] # "value" /\ y[1] = "value")
  BY DEF CallInside, i, j
<1>8. 2 * (n + 2 - j) + (IF y[1] = "value" THEN 0 ELSE 1) < 2 * (n + 2 - i) + (IF c[1] = "value" THEN 0 ELSE 1)
  <2>1. CASE j > i
    <3> DEFINE x == IF y[1] = "value" THEN 0 ELSE 1
    <3> DEFINE z == IF c[1] = "value" THEN 0 ELSE 1
    <3>1. x \in {0, 1} /\ z \in {0, 1}
      OBVIOUS
    <3> HIDE DEF x, z
    <3>2. 2 * (n + 2 - j) + x < 2 * (n + 2 - i) + z
      BY <1>3, <1>4, <2>1, <3>1
    <3>3. QED
      BY <3>2 DEF x, z
  <2>2. CASE j = i /\ c[1] # "value" /\ y[1] = "value"
    <3>1. (IF y[1] = "value" THEN 0 ELSE 1) = 0 /\ (IF c[1] = "value" THEN 0 ELSE 1) = 1
      BY <2>2
    <3>2. QED
      BY <1>5, <2>2, <3>1
  <2>3. QED
    BY <1>7, <2>1, <2>2
<1>9. QED
  BY <1>8, Zenon DEF Measure, i, j, n

HoldsFromInside(doc, S) ==
    \A c \in CharCalls(doc) : (\A y \in CharCalls(doc) : CallInside(c, y) => y \in S) => c \in S

\* What holds of a call when it holds of the calls inside it holds of every call.
LEMMA CallsInduction ==
    ASSUME NEW T, NEW doc \in Seq(T), NEW S,
           HoldsFromInside(doc, S)
    PROVE  \A c \in CharCalls(doc) : c \in S
<1> DEFINE D == CharCalls(doc)
<1> DEFINE m == [c \in D |-> Measure(doc, c)]
<1>1. \A c \in D : m[c] \in Nat
  <2>1. ASSUME NEW c \in D PROVE Measure(doc, c) \in Nat
    <3>1. c[2] \in Places(doc)
      BY CharCallIs DEF IsCall
    <3>2. Len(doc) \in Nat /\ c[2] \in Nat /\ c[2] <= Len(doc) + 1
      BY <3>1, PlacesAre
    <3>3. QED
      BY <3>2 DEF Measure
  <2>2. QED
    BY <2>1
<1>2. ASSUME NEW c \in D, \A y \in D : m[y] < m[c] => y \in S PROVE c \in S
  <2>1. ASSUME NEW y \in D, CallInside(c, y) PROVE y \in S
    <3>1. Measure(doc, y) < Measure(doc, c)
      BY <2>1, CallInsideSmaller
    <3>2. m[y] < m[c]
      BY <3>1
    <3>3. QED
      BY <1>2, <3>2
  <2>2. QED
    BY <2>1 DEF HoldsFromInside
<1> HIDE DEF D, m
<1>3. \A x \in D : (\A y \in D : m[y] < m[x] => y \in S) => x \in S
  BY <1>2
<1>4. \A x \in D : x \in S
  BY <1>1, <1>3, MeasureInduction
<1>5. QED
  BY <1>4 DEF D

LEMMA CallsHold ==
    ASSUME NEW T, NEW doc \in Seq(T), NEW f, IsSettings(f)
    PROVE  \A c \in CharCalls(doc) : CallHolds(doc, f, c)
<1> DEFINE S == {c \in CharCalls(doc) : CallHolds(doc, f, c)}
<1>1. ASSUME NEW c \in CharCalls(doc), \A y \in CharCalls(doc) : CallInside(c, y) => y \in S PROVE c \in S
  <2>1. CallsInsideHold(doc, f, c)
    BY <1>1, Zenon DEF CallsInsideHold, CallInside
  <2>2. QED
    BY <2>1, CallHeld
<1>2. \A c \in CharCalls(doc) : c \in S
  <2> HIDE DEF S
  <2>1. QED
    BY <1>1, CallsInduction DEF HoldsFromInside
<1>3. QED
  BY <1>2
=============================================================================
