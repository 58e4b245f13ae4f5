----------------------------- MODULE JsonWriter -----------------------------
(***************************************************************************)
(* FastWriter, StyledWriter and BuiltStyledStreamWriter of                 *)
(* library/jsoncpp/json_writer.cpp, which write a value as the tokens of   *)
(* module JsonReader.                                                      *)
(*                                                                         *)
(* The last two have the same functions but for Layout and NameText.  They *)
(* keep childValues_ and addChildValues_ over the whole descent, which are *)
(* threaded through the functions here.  Blanks, line ends, indentation    *)
(* and comments are left out, and every text is short or long.             *)
(***************************************************************************)
EXTENDS JsonReader

CONSTANTS NameOrder,    \* the names of members as the map orders them
          CStringOf,    \* each name up to its first NUL
          RightMargin   \* rightMargin_

ASSUME WriterAssumption ==
    /\ NameOrder \in Seq(Strings) /\ \A n \in Strings : \E i \in DOMAIN NameOrder : NameOrder[i] = n
    /\ \A i, j \in DOMAIN NameOrder : NameOrder[i] = NameOrder[j] => i = j
    /\ CStringOf \in [Strings -> Strings] /\ \A n \in Strings : CStringOf[CStringOf[n]] = CStringOf[n]
    /\ RightMargin \in Nat

\* The values in a value, which is not deeper than the reader allows.
Children(u) == IF u.type = "array" THEN {u.elements[i] : i \in DOMAIN u.elements}
               ELSE IF u.type = "object" THEN {u.members[n] : n \in DOMAIN u.members}
               ELSE {}
Parts(v) ==
    LET parts[n \in 0 .. StackLimit] ==
            IF n = 0 THEN {v} ELSE parts[n - 1] \cup UNION {Children(u) : u \in parts[n - 1]}
    IN  parts[StackLimit]

\* getMemberNames.
MemberNames(v) ==
    LET kept[k \in 0 .. Len(NameOrder)] ==
            IF k = 0 THEN <<>>
            ELSE IF NameOrder[k] \in DOMAIN v.members THEN Append(kept[k - 1], NameOrder[k])
            ELSE kept[k - 1]
    IN  kept[Len(NameOrder)]

IsEmpty(v) == \/ v.type = "array" /\ v.elements = <<>>
              \/ v.type = "object" /\ DOMAIN v.members = {}
Nested(v) == v.type \in {"array", "object"}

\* The comma before every element or member but the first.
Comma(k) == IF k = 1 THEN <<>> ELSE <<",">>

\* The texts with a comma between two of them.
WithCommas(texts) ==
    LET joined[k \in 0 .. Len(texts)] == IF k = 0 THEN <<>> ELSE joined[k - 1] \o Comma(k) \o texts[k]
    IN  joined[Len(texts)]

\* FastWriter::writeValue.
FastValue(text, u) ==
    LET names == MemberNames(u)
    IN  IF u.type = "scalar" THEN <<u.text>>
        ELSE IF u.type = "array"
             THEN <<"[">> \o WithCommas([i \in DOMAIN u.elements |-> text[u.elements[i]]]) \o <<"]">>
        ELSE <<"{">> \o WithCommas([i \in DOMAIN names |-> <<names[i], ":">> \o text[u.members[names[i]]]])
                    \o <<"}">>
FastText(v) == LET text[u \in Parts(v)] == FastValue(text, u) IN text[v]

-----------------------------------------------------------------------------
(* The writers with a layout: document_ or sout_, childValues_,            *)
(* addChildValues_, whether comments decide the layout (CommentStyle::All) *)
(* and whether names are written as C strings.                             *)

\* With comments no writer uses childValues_.
Writers == {w \in [document : Seq(Tokens), children : Seq(Seq(Tokens)),
                   adding : BOOLEAN, comments : BOOLEAN, cNames : BOOLEAN] :
               w.comments => w.children = <<>> /\ ~w.adding}

TextLength(t) == IF t \in Scalars \cup Marks THEN 1 ELSE 3
LengthOf(text) == FoldLeft(LAMBDA a, t : a + TextLength(t), 0, text)

Emit(w, text) == [w EXCEPT !.document = @ \o text]

\* A change of PushValue: childValues_ is not used.
PushToDocument(w, text) == Emit(w, text)
PushValue(w, text) == IF w.adding THEN [w EXCEPT !.children = Append(@, text)] ELSE Emit(w, text)

\* isMultilineArray writes the elements to childValues_ unless the size or a
\* nested element has decided already.  The functions of the writer take what
\* writeValue makes of a part of the value from styled.
IsMultilineArray(styled, w, v) ==
    LET size == Len(v.elements)
        byShape == size * 3 >= RightMargin \/ \E i \in 1 .. size : Nested(v.elements[i]) /\ ~IsEmpty(v.elements[i])
        filled[k \in 0 .. size] == IF k = 0 THEN [w EXCEPT !.children = <<>>, !.adding = TRUE]
                                   ELSE styled[<<filled[k - 1], v.elements[k]>>]
        lineLength == 4 + (size - 1) * 2 + FoldLeft(LAMBDA a, c : a + LengthOf(c), 0, filled[size].children)
    IN  IF byShape THEN [multiLine |-> TRUE, writer |-> [w EXCEPT !.children = <<>>]]
        ELSE [multiLine |-> lineLength >= RightMargin, writer |-> [filled[size] EXCEPT !.adding = FALSE]]

\* The test of writeArrayValue: with comments every array takes several lines,
\* and nothing has filled childValues_.
Layout(styled, w, v) ==
    IF w.comments THEN [multiLine |-> TRUE, writer |-> w] ELSE IsMultilineArray(styled, w, v)

\* writeArrayValue: hasChildValue is tested once, childValues_ read for each
\* element, also while the elements are written that replace it.
WriteArrayValue(styled, w, v) ==
    LET m == Layout(styled, w, v)
        written[k \in 0 .. Len(v.elements)] ==
            IF k = 0 THEN Emit(m.writer, <<"[">>)
            ELSE IF m.writer.children # <<>>
                 THEN Emit(Emit(written[k - 1], Comma(k)), written[k - 1].children[k])
            ELSE styled[<<Emit(written[k - 1], Comma(k)), v.elements[k]>>]
    IN  IF v.elements = <<>> THEN PushValue(w, <<"[", "]">>)
        ELSE IF m.multiLine THEN Emit(written[Len(v.elements)], <<"]">>)
        ELSE Emit(m.writer, <<"[">> \o WithCommas(m.writer.children) \o <<"]">>)

\* StyledWriter passes name.c_str(), BuiltStyledStreamWriter data and length.
NameText(w, n) == IF w.cNames THEN CStringOf[n] ELSE n

WriteObjectValue(styled, w, v) ==
    LET names == MemberNames(v)
        written[k \in 0 .. Len(names)] ==
            IF k = 0 THEN Emit(w, <<"{">>)
            ELSE styled[<<Emit(written[k - 1], Comma(k) \o <<NameText(w, names[k]), ":">>), v.members[names[k]]>>]
    IN  IF names = <<>> THEN PushValue(w, <<"{", "}">>)
        ELSE Emit(written[Len(names)], <<"}">>)

\* writeValue.
StyledValue(styled, w, v) ==
    IF v.type = "scalar" THEN PushValue(w, <<v.text>>)
    ELSE IF v.type = "array" THEN WriteArrayValue(styled, w, v)
    ELSE WriteObjectValue(styled, w, v)

WriteValue(w, v) ==
    LET styled[c \in Writers \X Parts(v)] == StyledValue(styled, c[1], c[2]) IN styled[<<w, v>>]

Begun(comments, cNames) ==
    [document |-> <<>>, children |-> <<>>, adding |-> FALSE, comments |-> comments, cNames |-> cNames]

\* StyledWriter::write.
StyledText(v) == WriteValue(Begun(FALSE, TRUE), v).document

\* BuiltStyledStreamWriter::write; toStyledString uses it with comments.
BuiltText(v, comments) == WriteValue(Begun(comments, FALSE), v).document

-----------------------------------------------------------------------------
(* Properties.                                                             *)

\* What a writer writes of a value that was read is accepted and is the same
\* value again, whatever is nested in what and whichever way an array is laid
\* out; only StyledWriter cuts the name of a member at a NUL, so that two
\* members may become one (json_writer.cpp:408-430, 493 against 987, and the
\* layout of 553-578).
NamesOf(v) == UNION {DOMAIN u.members : u \in {u \in Parts(v) : u.type = "object"}}
ReadBack(text, v) == LET again == ParseDocument(text)
                     IN  again.ok /\ again.value = v /\ again.at = Len(text) + 1
WritersRoundTrip ==
    parsed.ok =>
        LET v == parsed.value
            plain == \A n \in NamesOf(v) : CStringOf[n] = n
        IN  /\ \A text \in {FastText(v), BuiltText(v, TRUE), BuiltText(v, FALSE)} : ReadBack(text, v)
            /\ plain <=> ReadBack(StyledText(v), v)
            /\ ParseDocument(StyledText(v)).ok
=============================================================================
