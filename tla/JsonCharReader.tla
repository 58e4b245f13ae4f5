--------------------------- MODULE JsonCharReader ---------------------------
(***************************************************************************)
(* OurReader and CharReaderBuilder of library/jsoncpp/json_reader.cpp: the *)
(* "complete copy" of Json::Reader that a record of settings makes stricter or *)
(* more lenient.                                                           *)
(*                                                                         *)
(* Beside the tokens of JsonReader there are strings in single quotes,     *)
(* special floats and the byte order mark, which readToken refuses unless the *)
(* settings allow them.                                                    *)
(***************************************************************************)
EXTENDS JsonReader

CONSTANTS Numbers,        \* the scalars that are numbers
          SingleQuoted,   \* tokens of strings in single quotes
          SpecialFloats,  \* NaN and the infinities
          OtherSettings,  \* settings besides those of the code
          MaxCharTokens   \* bound: tokens of a document

VARIABLES settings,       \* features_
          charDocument,   \* from begin_ to end_
          charParsed      \* what parse has made of it

charVars == <<settings, charDocument, charParsed>>

CharTokens == Tokens \cup SingleQuoted \cup SpecialFloats \cup {"bom"}
CharNames == Strings \cup SingleQuoted \cup Numbers

-----------------------------------------------------------------------------
(* Settings.                                                               *)

SetDefaults ==
    [allowComments |-> TRUE, allowTrailingCommas |-> TRUE, strictRoot |-> FALSE,
     allowDroppedNullPlaceholders |-> FALSE, allowNumericKeys |-> FALSE, allowSingleQuotes |-> FALSE,
     failIfExtra |-> FALSE, rejectDupKeys |-> FALSE, allowSpecialFloats |-> FALSE, skipBom |-> TRUE]

StrictMode ==
    [SetDefaults EXCEPT !.allowComments = FALSE, !.allowTrailingCommas = FALSE, !.strictRoot = TRUE,
                        !.failIfExtra = TRUE, !.rejectDupKeys = TRUE]

\* The settings under which OurReader is a copy of Reader.
AsReader == [SetDefaults EXCEPT !.allowTrailingCommas = FALSE, !.skipBom = FALSE]

\* The tokens that JsonReader has not are told apart from its own as well.
ASSUME CharReaderAssumption ==
    /\ MaxCharTokens \in Nat /\ Numbers \subseteq Scalars
    /\ (SingleQuoted \cup SpecialFloats \cup {"bom"}) \cap (Tokens \cup {"end"}) = {}
    /\ OtherSettings \subseteq [DOMAIN SetDefaults -> BOOLEAN]

-----------------------------------------------------------------------------
(* The reader.                                                             *)

Refused(f) == {"bom"} \cup (IF f.allowSingleQuotes THEN {} ELSE SingleQuoted)
                      \cup (IF f.allowSpecialFloats THEN {} ELSE SpecialFloats)

\* readToken, and skipCommentTokens before a value.
CharToken(doc, p, f) == IF Token(doc, p) \in Refused(f) THEN "x" ELSE Token(doc, p)
BeforeValue(doc, p, f) == IF f.allowComments THEN AfterComments(doc, p) ELSE p

\* A member's name; with allowNumericKeys the text of a number.
NameTokens(f) == (Strings \cup SingleQuoted \cup (IF f.allowNumericKeys THEN Numbers ELSE {})) \ Refused(f)

\* unnamed: the last name was empty; first: there is no element yet.
ObjectEnds(token, unnamed, f) == token = "}" /\ (unnamed \/ f.allowTrailingCommas)

ArrayEnds(token, first, f) ==
    /\ token = "]"
    /\ first \/ (f.allowTrailingCommas /\ ~f.allowDroppedNullPlaceholders)

\* As in JsonReader, with first for an array and the names so far for an object.
CharCalls(doc) ==
    {call \in {"value", "object", "array"} \X (1 .. Len(doc) + 1) \X (1 .. StackLimit + 1)
                  \X BOOLEAN \X SUBSET CharNames :
        call[1] = "value" \/ call[3] <= StackLimit}

\* readObject, from a name on: comments are skipped whatever the settings.
ReadCharObject(doc, read, p, depth, unnamed, names, f) ==
    LET q == AfterComments(doc, p)
        name == CharToken(doc, q, f)
        child == read[<<"value", q + 2, depth + 1, FALSE, {}>>]
        separator == AfterComments(doc, child.at)
    IN  IF ObjectEnds(name, unnamed, f) THEN Success(ObjectValue(NoMembers), q + 1)
        ELSE IF name \notin NameTokens(f) \/ (f.rejectDupKeys /\ name \in names)
             THEN AddErrorAndRecover(doc, q, "}")
        ELSE IF Token(doc, q + 1) # ":" THEN AddErrorAndRecover(doc, q + 1, "}")
        ELSE IF ~child.ok THEN FailedInside(doc, child, "}")
        ELSE IF SeparatorMissing(doc, child.at) THEN AddErrorAndRecover(doc, child.at, "}")
        ELSE IF Token(doc, separator) = "}"
             THEN Success(ObjectValue(WithMember(name, child.value, NoMembers)), separator + 1)
        ELSE FromMember(name, child.value,
                 read[<<"object", Next_(doc, separator), depth, name = "", names \cup {name}>>])

\* readArray, from an element on.
ReadCharArray(doc, read, p, depth, first, f) ==
    LET child == read[<<"value", p, depth + 1, FALSE, {}>>]
        q == AfterComments(doc, child.at)
    IN  IF ArrayEnds(Token(doc, p), first, f) THEN Success(ArrayValue(<<>>), p + 1)
        ELSE IF ~child.ok THEN FailedInside(doc, child, "]")
        ELSE IF Token(doc, q) = "]" THEN Success(ArrayValue(<<child.value>>), q + 1)
        ELSE IF Token(doc, q) # "," THEN AddErrorAndRecover(doc, q, "]")
        ELSE FromElement(child.value, read[<<"array", q + 1, depth, FALSE, {}>>])

\* readValue; a dropped value is null, and the token that shows it is read again.
ReadCharValue(doc, read, p, depth, f) ==
    LET q == BeforeValue(doc, p, f)
        token == CharToken(doc, q, f)
    IN  IF depth > StackLimit THEN Thrown
        ELSE IF token = "{" THEN read[<<"object", q + 1, depth, TRUE, {}>>]
        ELSE IF token = "[" THEN read[<<"array", q + 1, depth, TRUE, {}>>]
        ELSE IF token \in Strings \cup SingleQuoted \cup Scalars \cup SpecialFloats
             THEN Success(ScalarValue(token), q + 1)
        ELSE IF token \in {",", "}", "]"} /\ f.allowDroppedNullPlaceholders THEN Success(NullValue, q)
        ELSE Failure(Next_(doc, q), <<q>>)

CharCalled(doc, read, call, f) ==
    IF call[1] = "value" THEN ReadCharValue(doc, read, call[2], call[3], f)
    ELSE IF call[1] = "object" THEN ReadCharObject(doc, read, call[2], call[3], call[4], call[5], f)
    ELSE ReadCharArray(doc, read, call[2], call[3], call[4], f)

CharReads(doc, f) == LET read[call \in CharCalls(doc)] == CharCalled(doc, read, call, f) IN read

\* skipBom.
StartOf(doc, f) == IF f.skipBom /\ Token(doc, 1) = "bom" THEN 2 ELSE 1

\* parse: the checks of what follows the value, and of what kind it is, also
\* when it could not be read.
ParseChars(doc, f) ==
    LET start == StartOf(doc, f)
        read == CharReads(doc, f)[<<"value", start, 1, FALSE, {}>>]
        after == BeforeValue(doc, read.at, f)
        container == CharToken(doc, BeforeValue(doc, start, f), f) \in {"{", "["}
    IN  IF read.thrown THEN read
        ELSE IF f.failIfExtra /\ Token(doc, after) # "end"
             THEN Failure(Next_(doc, after), Append(read.errors, after))
        ELSE IF f.strictRoot /\ ~container THEN Failure(read.at, Append(read.errors, 1))
        ELSE read

-----------------------------------------------------------------------------

CharReaderInit == /\ settings \in {SetDefaults, StrictMode, AsReader} \cup OtherSettings
                  /\ charDocument = <<>> /\ charParsed = ParseChars(<<>>, settings)

\* As in JsonReader: the documents that begin well, and one token more.
CharGoesOn == IF charParsed.ok THEN charParsed.at > Len(charDocument)
              ELSE ~charParsed.thrown /\ charParsed.errors[1] > Len(charDocument)

ParseMoreChars(token) == /\ charDocument = <<>> \/ CharGoesOn
                         /\ Len(charDocument) < MaxCharTokens
                         /\ charDocument' = Append(charDocument, token)
                         /\ charParsed' = ParseChars(charDocument', settings)
                         /\ UNCHANGED settings

CharReaderNext == \E token \in CharTokens : ParseMoreChars(token)

CharReaderSpec == CharReaderInit /\ [][CharReaderNext]_charVars

-----------------------------------------------------------------------------
(* Properties.                                                             *)

CharReaderTypeOK == /\ charDocument \in Seq(CharTokens) /\ Len(charDocument) <= MaxCharTokens
                    /\ {charParsed.ok, charParsed.thrown} \subseteq BOOLEAN
                    /\ charParsed.at \in 1 .. Len(charDocument) + 1

\* The grammar under the settings f, as in JsonReader, with the names that precede
\* a member.  A dropped value is nothing, or comments where they are allowed, before
\* a comma or a bracket.
CharSpans(doc) ==
    {"value", "object", "array"} \X (1 .. Len(doc) + 1) \X (0 .. Len(doc)) \X BOOLEAN \X SUBSET CharNames
Dropped(doc, i, j, f) ==
    /\ f.allowDroppedNullPlaceholders
    /\ IF f.allowComments THEN Comments(doc, i, j) ELSE j + 1 = i
    /\ Token(doc, j + 1) \in {",", "}", "]"}
IsOrIsDropped(doc, is, i, j, f) == is[<<"value", i, j, FALSE, {}>>] \/ Dropped(doc, i, j, f)
AreElements(doc, is, i, j, f) ==
    \E k \in i - 1 .. j :
        /\ IsOrIsDropped(doc, is, i, k, f)
        /\ \E t \in k + 1 .. j + 1 :
              /\ Comments(doc, k + 1, t - 1)
              /\ \/ t = j + 1
                 \/ doc[t] = "," /\ is[<<"array", t + 1, j, FALSE, {}>>]
                 \/ doc[t] = "," /\ t = j /\ f.allowTrailingCommas /\ ~f.allowDroppedNullPlaceholders
AreMembers(doc, is, i, j, mayBeEmpty, names, f) ==
    \E m \in i .. j + 1 :
        /\ Comments(doc, i, m - 1)
        /\ \/ m = j + 1 /\ mayBeEmpty
           \/ /\ m + 1 <= j /\ doc[m] \in NameTokens(f) /\ doc[m + 1] = ":"
              /\ f.rejectDupKeys => doc[m] \notin names
              /\ \E k \in m + 1 .. j :
                    /\ IsOrIsDropped(doc, is, m + 2, k, f)
                    /\ \E t \in k + 1 .. j + 1 :
                          /\ Comments(doc, k + 1, t - 1)
                          /\ \/ t = j + 1
                             \/ /\ doc[k + 1] \in {",", "/"} /\ doc[t] \notin {"}", "/"}
                                /\ is[<<"object", t + 1, j, doc[m] = "" \/ f.allowTrailingCommas,
                                        names \cup {doc[m]}>>]
IsCharValue(doc, is, i, j, f) ==
    /\ i <= j
    /\ \/ f.allowComments /\ doc[i] = "/" /\ is[<<"value", i + 1, j, FALSE, {}>>]
       \/ i = j /\ doc[i] \in (Strings \cup Scalars \cup SingleQuoted \cup SpecialFloats) \ Refused(f)
       \/ i < j /\ doc[i] = "[" /\ doc[j] = "]" /\ (j = i + 1 \/ is[<<"array", i + 1, j - 1, FALSE, {}>>])
       \/ i < j /\ doc[i] = "{" /\ doc[j] = "}" /\ is[<<"object", i + 1, j - 1, TRUE, {}>>]
CharDerived(doc, is, span, f) ==
    IF span[1] = "value" THEN IsCharValue(doc, is, span[2], span[3], f)
    ELSE IF span[1] = "object" THEN AreMembers(doc, is, span[2], span[3], span[4], span[5], f)
    ELSE AreElements(doc, is, span[2], span[3], f)
CharGrammar(doc, f) == LET is[span \in CharSpans(doc)] == CharDerived(doc, is, span, f) IN is
IsDocument(doc, f) ==
    \E k \in StartOf(doc, f) - 1 .. Len(doc) :
        /\ IsOrIsDropped(doc, CharGrammar(doc, f), StartOf(doc, f), k, f)
        /\ f.failIfExtra => BeforeValue(doc, k + 1, f) = Len(doc) + 1
        /\ f.strictRoot => Token(doc, BeforeValue(doc, StartOf(doc, f), f)) \in {"{", "["}

\* Both readers accept exactly the documents of their grammar, unless they are
\* nested too deep, and have an error exactly when they refuse one; under the settings
\* of Reader the copy does what Reader does, and under the default settings it
\* reads the same from what Reader accepts (json_reader.cpp:972,1000,1457,1517).
ReadersReadTheirGrammar ==
    /\ ReadsItsGrammar
    /\ IF charParsed.thrown THEN Nesting(charDocument) >= StackLimit
       ELSE /\ charParsed.ok <=> IsDocument(charDocument, settings)
            /\ charParsed.ok <=> charParsed.errors = <<>>
    /\ settings = AsReader => charParsed = ParseDocument(charDocument)
    /\ settings = SetDefaults /\ ParseDocument(charDocument).ok => charParsed = ParseDocument(charDocument)
=============================================================================
