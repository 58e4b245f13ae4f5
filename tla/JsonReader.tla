----------------------------- MODULE JsonReader -----------------------------
(***************************************************************************)
(* Json::Reader of library/jsoncpp/json_reader.cpp: documents, which are   *)
(* sequences of tokens here, are parsed by recursive descent.              *)
(*                                                                         *)
(* "/" is a comment; "x" is what readToken refuses; "bad" is a string or a *)
(* number that its decoding refuses; the other texts are strings, which    *)
(* may name a member, or scalars, which may not.  A string is its text; ""  *)
(* is the empty one.  Positions of values and the comments kept with them  *)
(* are left out.                                                           *)
(***************************************************************************)
EXTENDS Naturals, SequencesExt

CONSTANTS Strings,      \* tokens of strings
          Scalars,      \* tokens of numbers, true, false and null
          StackLimit,   \* stackLimit_g
          MaxTokens     \* bound: tokens of a document

Marks == {"{", "}", "[", "]", ",", ":", "/", "x", "bad"}

\* Tokens are told apart by their first character.
ASSUME ReaderAssumption ==
    /\ StackLimit \in Nat /\ MaxTokens \in Nat
    /\ Strings \cap Scalars = {} /\ (Strings \cup Scalars) \cap (Marks \cup {"end"}) = {}

VARIABLES document,     \* document_
          parsed        \* what parse has made of it

readerVars == <<document, parsed>>

Tokens == Strings \cup Scalars \cup Marks

NullValue == [type |-> "null"]
ScalarValue(text) == [type |-> "scalar", text |-> text]
ArrayValue(elements) == [type |-> "array", elements |-> elements]
ObjectValue(members) == [type |-> "object", members |-> members]

-----------------------------------------------------------------------------
(* Tokens.                                                                 *)

\* readToken; at the end of the document getNextChar returns 0 and stays there.
Token(doc, p) == IF p <= Len(doc) THEN doc[p] ELSE "end"
Next_(doc, p) == IF p <= Len(doc) THEN p + 1 ELSE p

\* skipCommentTokens: the place of the next token that is no comment.
AfterComments(doc, p) ==
    LET q == SelectInSubSeq(doc, p, Len(doc), LAMBDA t : t # "/")
    IN  IF q = 0 THEN Len(doc) + 1 ELSE q

\* recoverFromError: after the next token of this kind, or at the end.
Recovered(doc, p, until) ==
    LET q == SelectInSubSeq(doc, p, Len(doc), LAMBDA t : t = until)
    IN  IF q = 0 THEN Len(doc) + 1 ELSE q + 1

-----------------------------------------------------------------------------
(* The result of a read: the value, the place after it, errors_ as the     *)
(* places of the tokens at fault, and whether readValue has thrown.        *)

Success(value, p) == [ok |-> TRUE, value |-> value, at |-> p, errors |-> <<>>, thrown |-> FALSE]
Failure(p, errors) == [ok |-> FALSE, value |-> NullValue, at |-> p, errors |-> errors, thrown |-> FALSE]
Thrown == [ok |-> FALSE, value |-> NullValue, at |-> 1, errors |-> <<>>, thrown |-> TRUE]

\* addErrorAndRecover.
AddErrorAndRecover(doc, p, until) == Failure(Recovered(doc, Next_(doc, p), until), <<p>>)

\* The recovery of the caller, when what it reads has failed.
FailedInside(doc, child, until) ==
    IF child.thrown THEN child ELSE Failure(Recovered(doc, child.at, until), child.errors)

\* operator[] of an object, with the value that is swapped in, before the members
\* that follow it.
NoMembers == [n \in {} |-> NullValue]
WithMember(name, value, following) ==
    [n \in {name} \cup DOMAIN following |-> IF n \in DOMAIN following THEN following[n] ELSE value]

\* A change of EmptyObject: an object may end wherever a name is expected.
EndsAnyhow(doc, q, unnamed) == Token(doc, q) = "}"

\* An object may end where a name is expected if the last one was empty.
EmptyObject(doc, q, unnamed) == Token(doc, q) = "}" /\ unnamed

\* The token after a member must be a comma, a comment or the end; after
\* comments any token is taken for the comma.
SeparatorMissing(doc, p) == Token(doc, p) \notin {"}", ",", "/"}

\* The members, or the elements, from one on that is followed by the rest.
FromMember(name, value, rest) ==
    IF rest.ok THEN Success(ObjectValue(WithMember(name, value, rest.value.members)), rest.at) ELSE rest
FromElement(value, rest) ==
    IF rest.ok THEN Success(ArrayValue(<<value>> \o rest.value.elements), rest.at) ELSE rest

\* What is read, from where, at which size of nodes_, and of an object whether
\* the last name was empty: a value, or an object from a name on, or an array from
\* an element on.  The functions of the reader take what their calls give from read.
Calls(doc) ==
    {call \in {"value", "object", "array"} \X (1 .. Len(doc) + 1) \X (1 .. StackLimit + 1) \X BOOLEAN :
        call[1] = "value" \/ call[3] <= StackLimit}

\* readObject, from a name on; of two members of one name the last one stays.
ReadObject(doc, read, p, depth, unnamed) ==
    LET q == AfterComments(doc, p)
        name == Token(doc, q)
        child == read[<<"value", q + 2, depth + 1, FALSE>>]
        separator == AfterComments(doc, child.at)
    IN  IF EmptyObject(doc, q, unnamed) THEN Success(ObjectValue(NoMembers), q + 1)
        ELSE IF name \notin Strings THEN AddErrorAndRecover(doc, q, "}")
        ELSE IF Token(doc, q + 1) # ":" THEN AddErrorAndRecover(doc, q + 1, "}")
        ELSE IF ~child.ok THEN FailedInside(doc, child, "}")
        ELSE IF SeparatorMissing(doc, child.at) THEN AddErrorAndRecover(doc, child.at, "}")
        ELSE IF Token(doc, separator) = "}"
             THEN Success(ObjectValue(WithMember(name, child.value, NoMembers)), separator + 1)
        ELSE FromMember(name, child.value, read[<<"object", Next_(doc, separator), depth, name = "">>])

\* readArray, from an element on.
ReadArray(doc, read, p, depth) ==
    LET child == read[<<"value", p, depth + 1, FALSE>>]
        q == AfterComments(doc, child.at)
    IN  IF ~child.ok THEN FailedInside(doc, child, "]")
        ELSE IF Token(doc, q) = "]" THEN Success(ArrayValue(<<child.value>>), q + 1)
        ELSE IF Token(doc, q) # "," THEN AddErrorAndRecover(doc, q, "]")
        ELSE FromElement(child.value, read[<<"array", q + 1, depth, FALSE>>])

\* readValue; an empty array is recognised before comments are.
ReadValue(doc, read, p, depth) ==
    LET q == AfterComments(doc, p)
        token == Token(doc, q)
    IN  IF depth > StackLimit THEN Thrown
        ELSE IF token = "{" THEN read[<<"object", q + 1, depth, TRUE>>]
        ELSE IF token = "[" /\ Token(doc, q + 1) = "]" THEN Success(ArrayValue(<<>>), q + 2)
        ELSE IF token = "[" THEN read[<<"array", q + 1, depth, FALSE>>]
        ELSE IF token \in Strings \cup Scalars THEN Success(ScalarValue(token), q + 1)
        ELSE Failure(Next_(doc, q), <<q>>)

Called(doc, read, call) ==
    IF call[1] = "value" THEN ReadValue(doc, read, call[2], call[3])
    ELSE IF call[1] = "object" THEN ReadObject(doc, read, call[2], call[3], call[4])
    ELSE ReadArray(doc, read, call[2], call[3])

Reads(doc) == LET read[call \in Calls(doc)] == Called(doc, read, call) IN read

\* parse: what follows the value is not looked at.
ParseDocument(doc) == Reads(doc)[<<"value", 1, 1, FALSE>>]

-----------------------------------------------------------------------------

ReaderInit == document = <<>> /\ parsed = ParseDocument(<<>>)

\* Every document that begins well is continued, and what is wrong, or at its
\* end, gets one token more.
GoesOn == IF parsed.ok THEN parsed.at > Len(document)
          ELSE ~parsed.thrown /\ parsed.errors[1] > Len(document)

ParseLonger(token) == /\ GoesOn /\ Len(document) < MaxTokens
                      /\ document' = Append(document, token)
                      /\ parsed' = ParseDocument(document')

ReaderNext == \E token \in Tokens : ParseLonger(token)

ReaderSpec == ReaderInit /\ [][ReaderNext]_readerVars

-----------------------------------------------------------------------------
(* Properties.                                                             *)

ReaderTypeOK == /\ document \in Seq(Tokens) /\ Len(document) <= MaxTokens
                /\ {parsed.ok, parsed.thrown} \subseteq BOOLEAN
                /\ parsed.at \in 1 .. Len(document) + 1

\* The grammar, as a function of what stands from i to j: JSON with comments, where
\* a comma may follow a member with an empty name, and any token may be the comma
\* after a member and a comment.
Spans(doc) == {"value", "object", "array"} \X (1 .. Len(doc) + 1) \X (0 .. Len(doc)) \X BOOLEAN
Comments(doc, i, j) == \A k \in i .. j : doc[k] = "/"
IsElements(doc, is, i, j) ==
    \E k \in i .. j : /\ is[<<"value", i, k, FALSE>>]
                      /\ \E t \in k + 1 .. j + 1 :
                            /\ Comments(doc, k + 1, t - 1)
                            /\ t = j + 1 \/ (doc[t] = "," /\ is[<<"array", t + 1, j, FALSE>>])
IsMembers(doc, is, i, j, mayBeEmpty) ==
    \E m \in i .. j + 1 :
        /\ Comments(doc, i, m - 1)
        /\ \/ m = j + 1 /\ mayBeEmpty
           \/ /\ m + 2 <= j /\ doc[m] \in Strings /\ doc[m + 1] = ":"
              /\ \E k \in m + 2 .. j :
                    /\ is[<<"value", m + 2, k, FALSE>>]
                    /\ \E t \in k + 1 .. j + 1 :
                          /\ Comments(doc, k + 1, t - 1)
                          /\ \/ t = j + 1
                             \/ /\ doc[k + 1] \in {",", "/"} /\ doc[t] \notin {"}", "/"}
                                /\ is[<<"object", t + 1, j, doc[m] = "">>]
IsValue(doc, is, i, j) ==
    /\ i <= j
    /\ \/ doc[i] = "/" /\ is[<<"value", i + 1, j, FALSE>>]
       \/ i = j /\ doc[i] \in Strings \cup Scalars
       \/ i < j /\ doc[i] = "[" /\ doc[j] = "]" /\ (j = i + 1 \/ is[<<"array", i + 1, j - 1, FALSE>>])
       \/ i < j /\ doc[i] = "{" /\ doc[j] = "}" /\ is[<<"object", i + 1, j - 1, TRUE>>]
Derived(doc, is, span) ==
    IF span[1] = "value" THEN IsValue(doc, is, span[2], span[3])
    ELSE IF span[1] = "object" THEN IsMembers(doc, is, span[2], span[3], span[4])
    ELSE IsElements(doc, is, span[2], span[3])
Grammar(doc) == LET is[span \in Spans(doc)] == Derived(doc, is, span) IN is
BeginsWithValue(doc) == \E k \in 1 .. Len(doc) : Grammar(doc)[<<"value", 1, k, FALSE>>]

\* A document is accepted exactly when it begins with a value of the grammar,
\* except that a nesting beyond the limit throws; and one that is refused has one
\* error, however often the reader recovers (json_reader.cpp:455,482,490,504,741).
Nesting(d) == Cardinality({i \in DOMAIN d : d[i] \in {"{", "["}})
ReadsItsGrammar ==
    IF parsed.thrown THEN Nesting(document) >= StackLimit
    ELSE /\ parsed.ok <=> BeginsWithValue(document)
         /\ Len(parsed.errors) = (IF parsed.ok THEN 0 ELSE 1)
=============================================================================
