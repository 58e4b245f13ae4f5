----------------------------- MODULE JsonNumber -----------------------------
(***************************************************************************)
(* Numbers of library/jsoncpp: a token is decoded to an integer or a       *)
(* double (json_reader.cpp), a value is converted to a C++ type            *)
(* (json_value.cpp) and written again (json_writer.cpp).                   *)
(*                                                                         *)
(* The types have their own widths, small here: int and unsigned of        *)
(* IntBits, the 64-bit types of LargestBits, a double with Precision bits  *)
(* and without a limit.  A double is a whole number of halves, and the     *)
(* fraction of a token is a half or nothing.                               *)
(***************************************************************************)
EXTENDS Integers, Sequences

CONSTANTS IntBits, LargestBits, Precision,
          MaxDigits     \* bound: digits before the point

ASSUME WidthAssumption ==
    /\ {IntBits, LargestBits, Precision, MaxDigits} \subseteq Nat \ {0}
    /\ IntBits < Precision /\ Precision < LargestBits - 1
    /\ 4 < LargestBits     \* the largest types hold ten

VARIABLES negative, digits, fraction,   \* a token: its sign, its digits, and what follows them
          decoded                       \* the value that decodeNumber makes of it

numberVars == <<negative, digits, fraction, decoded>>

\* A power of two.
TwoTo[n \in Nat] == IF n = 0 THEN 1 ELSE 2 * TwoTo[n - 1]

maxInt == TwoTo[IntBits - 1] - 1
minInt == -maxInt - 1
maxUInt == TwoTo[IntBits] - 1
maxLargestInt == TwoTo[LargestBits - 1] - 1
minLargestInt == -maxLargestInt - 1
maxLargestUInt == TwoTo[LargestBits] - 1
maxUInt64AsDouble == 2 * TwoTo[LargestBits]    \* in halves

Int_(n) == [type |-> "int", num |-> n]
UInt_(n) == [type |-> "uint", num |-> n]
Real_(h) == [type |-> "real", num |-> h]
NoNumber(type) == [type |-> type, num |-> 0]
Bool_(b) == [type |-> "boolean", num |-> IF b THEN 1 ELSE 0]

-----------------------------------------------------------------------------
(* Doubles.                                                                *)

Magnitude(n) == IF n < 0 THEN -n ELSE n

\* The nearest multiple of unit, and of two equally near the even one.
ToMultiple(n, unit) ==
    LET q == n \div unit
        r == n % unit
    IN  unit * (IF 2 * r > unit \/ (2 * r = unit /\ q % 2 = 1) THEN q + 1 ELSE q)

\* The double nearest to h halves.
Double(h) ==
    LET m == Magnitude(h)
        e == CHOOSE e \in 0 .. m : m < TwoTo[Precision + e] /\ (e = 0 \/ m >= TwoTo[Precision + e - 1])
        d == ToMultiple(m, TwoTo[e])
    IN  IF h < 0 THEN -d ELSE d

IsIntegral(h) == h % 2 = 0

\* The cast of a double to an integer drops its fraction.
Truncated(h) == IF h < 0 THEN -((-h) \div 2) ELSE h \div 2

\* InRange compares with the doubles nearest to the limits.
InRange(h, min, max) == Double(2 * min) <= h /\ h <= Double(2 * max)

-----------------------------------------------------------------------------
(* decodeNumber.                                                           *)

TooLarge == -1

\* A change of Accumulate: the last digit is not looked at.
AccumulateLoosely(value, digit, isLast, max) ==
    IF value = TooLarge \/ value > max \div 10 \/ (value = max \div 10 /\ ~isLast) THEN TooLarge
    ELSE value * 10 + digit

\* One digit more, while the number stays within max.
Accumulate(value, digit, isLast, max) ==
    IF \/ value = TooLarge \/ value > max \div 10
       \/ value = max \div 10 /\ (~isLast \/ digit > max % 10)
    THEN TooLarge ELSE value * 10 + digit

Written(d) ==
    LET value[k \in 0 .. Len(d)] == IF k = 0 THEN 0 ELSE value[k - 1] * 10 + d[k]
    IN  value[Len(d)]

DecodeDouble(neg, d, frac) ==
    LET h == Double(2 * Written(d) + (IF frac = "half" THEN 1 ELSE 0))
    IN  Real_(IF neg THEN -h ELSE h)

\* The digits, read one after the other.
Accumulated(d, max) ==
    LET value[k \in 0 .. Len(d)] ==
            IF k = 0 THEN 0 ELSE Accumulate(value[k - 1], d[k], k = Len(d), max)
    IN  value[Len(d)]

\* A sign without digits is the number 0.
DecodeNumber(neg, d, frac) ==
    LET n == Accumulated(d, IF neg THEN maxLargestInt + 1 ELSE maxLargestUInt)
    IN  IF n = TooLarge \/ frac # "none" THEN DecodeDouble(neg, d, frac)
        ELSE IF neg THEN Int_(-n)
        ELSE IF n <= maxInt THEN Int_(n) ELSE UInt_(n)

\* decodeNumber of OurReader, with thresholds and a last digit of its own: the
\* smallest integer is put together from its tenth and the last digit.
CharDecodeNumber(neg, d, frac) ==
    LET n == Accumulated(d, IF neg THEN -minLargestInt ELSE maxLargestUInt)
    IN  IF n = TooLarge \/ frac # "none" THEN DecodeDouble(neg, d, frac)
        ELSE IF neg THEN Int_(-((n \div 10) * 10 + (n % 10)))
        ELSE IF n <= maxLargestInt THEN Int_(n) ELSE UInt_(n)

\* uintToString.
Digits[n \in Nat] == IF n < 10 THEN <<n>> ELSE Append(Digits[n \div 10], n % 10)

\* valueToString, as the arguments of DecodeNumber: a double keeps its point.
NumberText(v) ==
    IF v.type = "real"
    THEN <<v.num < 0, Digits[Magnitude(v.num) \div 2], IF IsIntegral(v.num) THEN "zero" ELSE "half">>
    ELSE <<v.num < 0, Digits[Magnitude(v.num)], "none">>

-----------------------------------------------------------------------------
(* Conversions: a result, "throws", or "undefined" where the cast is.      *)

Result(n) == [outcome |-> "value", num |-> n]
Throws == [outcome |-> "throws", num |-> 0]
Undefined_ == [outcome |-> "undefined", num |-> 0]

Guarded(test, n) == IF test THEN Result(n) ELSE Throws

Cast(h, min, max) ==
    IF ~InRange(h, min, max) THEN Throws
    ELSE IF Truncated(h) \in min .. max THEN Result(Truncated(h)) ELSE Undefined_

IsInt(v) == CASE v.type = "int" -> minInt <= v.num /\ v.num <= maxInt
              [] v.type = "uint" -> v.num <= maxInt
              [] v.type = "real" -> 2 * minInt <= v.num /\ v.num <= 2 * maxInt /\ IsIntegral(v.num)
              [] OTHER -> FALSE
IsUInt(v) == CASE v.type \in {"int", "uint"} -> 0 <= v.num /\ v.num <= maxUInt
               [] v.type = "real" -> 0 <= v.num /\ v.num <= 2 * maxUInt /\ IsIntegral(v.num)
               [] OTHER -> FALSE

\* The limit of a double is not reached itself.
IsInt64(v) == CASE v.type = "int" -> TRUE
                [] v.type = "uint" -> v.num <= maxLargestInt
                [] v.type = "real" -> /\ Double(2 * minLargestInt) <= v.num
                                      /\ v.num < Double(2 * maxLargestInt) /\ IsIntegral(v.num)
                [] OTHER -> FALSE
\* A change of IsUInt64: the limit is included.
IsUInt64AtMost(v) == CASE v.type = "int" -> v.num >= 0
                       [] v.type = "uint" -> TRUE
                       [] v.type = "real" -> 0 <= v.num /\ v.num <= maxUInt64AsDouble /\ IsIntegral(v.num)
                       [] OTHER -> FALSE
IsUInt64(v) == CASE v.type = "int" -> v.num >= 0
                 [] v.type = "uint" -> TRUE
                 [] v.type = "real" -> 0 <= v.num /\ v.num < maxUInt64AsDouble /\ IsIntegral(v.num)
                 [] OTHER -> FALSE
IsNumeric(v) == v.type \in {"int", "uint", "real"}

Simple(v) == CASE v.type = "null" -> Result(0)
               [] v.type = "boolean" -> Result(v.num)
               [] OTHER -> Throws

AsInt(v) == CASE v.type \in {"int", "uint"} -> Guarded(IsInt(v), v.num)
              [] v.type = "real" -> Cast(v.num, minInt, maxInt)
              [] OTHER -> Simple(v)
AsUInt(v) == CASE v.type \in {"int", "uint"} -> Guarded(IsUInt(v), v.num)
               [] v.type = "real" -> Cast(v.num, 0, maxUInt)
               [] OTHER -> Simple(v)
AsInt64(v) == CASE v.type \in {"int", "uint"} -> Guarded(IsInt64(v), v.num)
                [] v.type = "real" -> Cast(v.num, minLargestInt, maxLargestInt)
                [] OTHER -> Simple(v)
AsUInt64(v) == CASE v.type \in {"int", "uint"} -> Guarded(IsUInt64(v), v.num)
                 [] v.type = "real" -> Cast(v.num, 0, maxLargestUInt)
                 [] OTHER -> Simple(v)

\* In halves.
AsDouble(v) == CASE v.type \in {"int", "uint"} -> Result(Double(2 * v.num))
                 [] v.type = "real" -> Result(v.num)
                 [] v.type = "boolean" -> Result(2 * v.num)
                 [] OTHER -> Simple(v)
AsBool(v) == IF IsNumeric(v) THEN Result(IF v.num = 0 THEN 0 ELSE 1) ELSE Simple(v)

\* What the string says is left out.
AsString(v) == IF IsNumeric(v) \/ v.type \in {"null", "boolean", "string"} THEN Result(v.num) ELSE Throws

\* A string with no character in it is the one with num 0.
IsConvertibleTo(v, type) ==
    CASE type = "null" -> v.type = "null" \/ (v.type # "null" /\ v.num = 0)
      [] type = "int" -> \/ IsInt(v) \/ v.type \in {"boolean", "null"}
                         \/ v.type = "real" /\ InRange(v.num, minInt, maxInt)
      [] type = "uint" -> \/ IsUInt(v) \/ v.type \in {"boolean", "null"}
                          \/ v.type = "real" /\ InRange(v.num, 0, maxUInt)
      [] type \in {"real", "boolean"} -> IsNumeric(v) \/ v.type \in {"boolean", "null"}
      [] type = "string" -> v.type \notin {"array", "object"}
      [] OTHER -> v.type \in {type, "null"}

-----------------------------------------------------------------------------

NumberInit == /\ negative \in BOOLEAN /\ digits = <<>> /\ fraction = "none"
              /\ decoded = DecodeNumber(negative, digits, fraction)

AddDigit(d) == /\ fraction = "none" /\ Len(digits) < MaxDigits
               /\ digits' = Append(digits, d)
               /\ decoded' = DecodeNumber(negative, digits', fraction)
               /\ UNCHANGED <<negative, fraction>>

AddFraction(f) == /\ fraction = "none" /\ digits # <<>>
                  /\ fraction' = f
                  /\ decoded' = DecodeNumber(negative, digits, f)
                  /\ UNCHANGED <<negative, digits>>

NumberNext == \/ \E d \in 0 .. 9 : AddDigit(d)
              \/ \E f \in {"zero", "half"} : AddFraction(f)

NumberSpec == NumberInit /\ [][NumberNext]_numberVars

-----------------------------------------------------------------------------
(* Properties.                                                             *)

NumberTypeOK == /\ negative \in BOOLEAN /\ fraction \in {"none", "zero", "half"}
                /\ digits \in Seq(0 .. 9) /\ Len(digits) <= MaxDigits
                /\ decoded.type \in {"int", "uint", "real"}
                /\ decoded.type = "int" => decoded.num \in minLargestInt .. maxInt
                /\ decoded.type = "uint" => decoded.num \in maxInt + 1 .. maxLargestUInt

\* An integer token is an integer value, exactly, whenever a 64-bit type can hold
\* it, and otherwise the nearest double; and whatever was decoded, also the
\* smallest int64 and a double without a fraction, is written so that it is
\* decoded to the same value of the same type.  The two readers make the same number
\* of a token, but not the same type of one between maxInt and maxLargestInt, so that
\* operator== tells them apart (json_reader.cpp:568,585,1612,1634, json_writer.cpp:93,153).
NumbersRoundTrip ==
    LET n == IF negative THEN -Written(digits) ELSE Written(digits)
        text == NumberText(decoded)
        char == CharDecodeNumber(negative, digits, fraction)
        charText == NumberText(char)
    IN  /\ fraction = "none" =>
               IF n \in minLargestInt .. maxLargestUInt
               THEN decoded.type # "real" /\ decoded.num = n
               ELSE decoded = Real_(Double(2 * n))
        /\ DecodeNumber(text[1], text[2], text[3]) = decoded
        /\ char.num = decoded.num
        /\ char # decoded <=> decoded.type = "uint" /\ decoded.num <= maxLargestInt
        /\ CharDecodeNumber(charText[1], charText[2], charText[3]) = char

\* Conversions agree with isConvertibleTo, which is written apart from them; and
\* one that does not throw gives the number without its fraction.  Only the
\* doubles 2^63 and 2^64 pass the test of asInt64 and asUInt64 and are outside
\* the type, where isInt64 and isUInt64 know better (json_value.cpp:87,654,825).
ConversionsAgree == digits # <<>> =>
    \A v \in {decoded, NoNumber("null"), Bool_(TRUE), Bool_(FALSE), NoNumber("string"), NoNumber("array")} :
        LET whole == IF v.type = "real" THEN Truncated(v.num) ELSE v.num
            exact(r) == r.outcome = "value" => r.num = whole
        IN  /\ AsInt(v) # Throws <=> IsConvertibleTo(v, "int")
            /\ AsUInt(v) # Throws <=> IsConvertibleTo(v, "uint")
            /\ AsDouble(v) # Throws <=> IsConvertibleTo(v, "real")
            /\ AsBool(v) # Throws <=> IsConvertibleTo(v, "boolean")
            /\ AsString(v) # Throws <=> IsConvertibleTo(v, "string")
            /\ exact(AsInt(v)) /\ exact(AsUInt(v)) /\ exact(AsInt64(v)) /\ exact(AsUInt64(v))
            /\ Undefined_ \notin {AsInt(v), AsUInt(v)}
            /\ AsInt64(v) = Undefined_ <=> v = Real_(2 * TwoTo[LargestBits - 1])
            /\ AsUInt64(v) = Undefined_ <=> v = Real_(maxUInt64AsDouble)
            /\ IsInt64(v) => AsInt64(v).outcome = "value"
            /\ IsUInt64(v) => AsUInt64(v).outcome = "value"
=============================================================================
