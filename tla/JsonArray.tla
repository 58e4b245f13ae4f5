----------------------------- MODULE JsonArray ------------------------------
(***************************************************************************)
(* What Json::Value promises of an array: a list, padded with nulls where  *)
(* an element past its end is named.  A null that was only padded may      *)
(* refuse to be removed, may go with the element after it when that was    *)
(* the last, and may make a resize fail that ends the list there; a failed *)
(* resize leaves less than was asked for.  Indices and sizes are at most   *)
(* MaxSize.                                                                *)
(***************************************************************************)
EXTENDS Naturals, Sequences

CONSTANTS Elements, Null, MaxSize

VARIABLES list,
          last      \* the last call, its index or size, and its outcome

arrayVars == <<list, last>>

ArrayInit == list = <<>> /\ last = [call |-> "none", index |-> 0, outcome |-> "done"]

Call(call, i, outcome) == last' = [call |-> call, index |-> i, outcome |-> outcome]

Padded(n) == [k \in 1 .. n |-> IF k <= Len(list) THEN list[k] ELSE Null]

Longer(i) == IF i < Len(list) THEN Len(list) ELSE i + 1

ListPut(i, e) == /\ Call("put", i, "done")
                 /\ list' = [Padded(Longer(i)) EXCEPT ![i + 1] = e]

ListAppend(e) == Call("append", Len(list), "done") /\ list' = Append(list, e)

ListInsert(i, e) ==
    IF i > Len(list) THEN Call("insert", i, "refused") /\ UNCHANGED list
    ELSE /\ Call("insert", i, "done")
         /\ list' = [k \in 1 .. Len(list) + 1 |->
                        IF k <= i THEN list[k] ELSE IF k = i + 1 THEN e ELSE list[k - 1]]

ListRemove(i) ==
    \/ /\ i < Len(list) /\ Call("remove", i, "done")
       /\ list' = [k \in 1 .. Len(list) - 1 |-> IF k <= i THEN list[k] ELSE list[k + 1]]
    \/ /\ i = Len(list) - 1 /\ Call("remove", i, "done")
       /\ \E k \in 0 .. i : list' = Padded(k) /\ \A j \in k + 1 .. i : list[j] = Null
    \/ /\ i < Len(list) => list[i + 1] = Null
       /\ Call("remove", i, "refused") /\ UNCHANGED list

ListResize(n) ==
    \/ Call("resize", n, "done") /\ list' = Padded(n)
    \/ /\ n \in 1 .. Len(list) - 1 /\ list[n] = Null
       /\ Call("resize", n, "failed")
       /\ \E k \in 0 .. n - 1 : list' = Padded(k)

ListClear == Call("clear", 0, "done") /\ list' = <<>>

ArrayNext == \/ ListClear
             \/ \E e \in Elements : ListAppend(e)
             \/ \E i \in 0 .. MaxSize : \/ ListRemove(i) \/ ListResize(i)
                               \/ \E e \in Elements : ListPut(i, e) \/ ListInsert(i, e)

ArraySpec == ArrayInit /\ [][ArrayNext]_arrayVars
=============================================================================
