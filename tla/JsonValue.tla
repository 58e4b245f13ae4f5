----------------------------- MODULE JsonValue ------------------------------
(***************************************************************************)
(* The array of a Json::Value in library/jsoncpp/json_value.cpp: a map     *)
(* from indices to elements, in which an index may be missing although a   *)
(* larger one is there.  size() is the largest index and one.              *)
(*                                                                         *)
(* An element is opaque; the value is null or an array from the beginning  *)
(* on, so that the preconditions on its type hold.                         *)
(***************************************************************************)
EXTENDS Integers, FiniteSets

CONSTANTS Elements,     \* what an element may be
          Null,         \* a null element, which is one of them
          MaxSize       \* bound: the size of the array

ASSUME ElementsAssumption == Null \in Elements /\ MaxSize \in Nat

VARIABLES items,        \* value_.map_
          last          \* the last call, its index or size, and its outcome

valueVars == <<items, last>>

Indices == 0 .. MaxSize - 1

ValueInit == /\ items = [i \in {} |-> Null]
             /\ last = [call |-> "none", index |-> 0, outcome |-> "done"]

-----------------------------------------------------------------------------

Size == IF DOMAIN items = {} THEN 0
        ELSE 1 + CHOOSE i \in DOMAIN items : \A j \in DOMAIN items : j <= i

\* operator[] const, which answers with null where nothing is.
Element(i) == IF i \in DOMAIN items THEN items[i] ELSE Null

Done(call, i) == last' = [call |-> call, index |-> i, outcome |-> "done"]
Refuse(call, i) == last' = [call |-> call, index |-> i, outcome |-> "refused"] /\ UNCHANGED items

\* operator[]: makes this element, and none of those before it.
PutElement(i, e) ==
    /\ items' = [j \in DOMAIN items \cup {i} |-> IF j = i THEN e ELSE items[j]]
    /\ Done("put", i)

AppendElement(e) ==
    /\ Size < MaxSize
    /\ items' = [j \in DOMAIN items \cup {Size} |-> IF j = Size THEN e ELSE items[j]]
    /\ Done("append", Size)

\* The elements from i on move one up: what was missing there becomes null.
InsertElement(i, e) ==
    IF i > Size THEN Refuse("insert", i)
    ELSE /\ Size < MaxSize
         /\ items' = [j \in {k \in DOMAIN items : k < i} \cup i .. Size |->
                        IF j < i THEN items[j] ELSE IF j = i THEN e ELSE Element(j - 1)]
         /\ Done("insert", i)

\* A change of RemoveIndex: the shift begins one late.
RemoveShiftsLate(i) ==
    IF i \notin DOMAIN items THEN Refuse("remove", i)
    ELSE /\ items' = [j \in {k \in DOMAIN items : k < i} \cup i .. Size - 2 |->
                        IF j <= i THEN items[j] ELSE Element(j + 1)]
         /\ Done("remove", i)

RemoveIndex(i) ==
    IF i \notin DOMAIN items THEN Refuse("remove", i)
    ELSE /\ items' = [j \in {k \in DOMAIN items : k < i} \cup i .. Size - 2 |->
                        IF j < i THEN items[j] ELSE Element(j + 1)]
         /\ Done("remove", i)

\* The assertion that the size is as asked for does not hold when the element
\* before it is missing.
Resize(n) ==
    LET kept == {i \in DOMAIN items : i < n}
    IN  /\ items' = [i \in IF n > Size THEN DOMAIN items \cup Size .. n - 1 ELSE kept |-> Element(i)]
        /\ last' = [call |-> "resize", index |-> n,
                    outcome |-> IF n = 0 \/ n >= Size \/ n - 1 \in kept THEN "done" ELSE "failed"]

ClearItems == items' = [i \in {} |-> Null] /\ Done("clear", 0)

ValueNext == \/ ClearItems
             \/ \E e \in Elements : AppendElement(e)
             \/ \E n \in 0 .. MaxSize : Resize(n)
             \/ \E i \in Indices : \/ RemoveIndex(i)
                                   \/ \E e \in Elements : PutElement(i, e) \/ InsertElement(i, e)

ValueSpec == ValueInit /\ [][ValueNext]_valueVars

-----------------------------------------------------------------------------
(* Properties.                                                             *)

ValueTypeOK ==
    /\ DOMAIN items \subseteq Indices
    /\ \A i \in DOMAIN items : items[i] \in Elements
    /\ last \in [call : {"none", "put", "append", "insert", "remove", "resize", "clear"},
                 index : 0 .. MaxSize, outcome : {"done", "refused", "failed"}]

\* Read through size() and operator[] the map is the list that value.h:433-470
\* describes, whatever indices are missing in it: only the removal of a missing
\* element, or of the last one after it, and a cut after it go another way than
\* the list's (json_value.cpp:921,1203,1218).
JA == INSTANCE JsonArray WITH list <- [k \in 1 .. Size |-> Element(k - 1)]
ImplementsArray == JA!ArraySpec
=============================================================================
