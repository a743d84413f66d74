------------------------------ MODULE JsonTokens ------------------------------
(***************************************************************************)
(* What the lexer of src/include/json.hpp makes of a token it has found:   *)
(* get_string with to_unicode, and get_number with strtonum.  Bytes are    *)
(* numbers; a pointer is an offset into the line buffer b, from zero.      *)
(***************************************************************************)
EXTENDS Integers, Sequences, SequencesExt

CONSTANTS
    Bits,          \* the width of number_unsigned_t and number_integer_t
    MaxExponent    \* a number_float_t of more digits before its point is infinite

ASSUME WidthIsPositive == Bits \in Nat \ {0}
ASSUME ExponentIsNatural == MaxExponent \in Nat

Tab == 9
LineFeed == 10
CarriageReturn == 13
Space == 32
Quote == 34
Plus == 43
Comma == 44
Minus == 45
Dot == 46
Slash == 47
Zero == 48
Nine == 57
Colon == 58
UpperE == 69
OpenArray == 91
Backslash == 92
CloseArray == 93
LowerE == 101
LowerU == 117
OpenObject == 123
CloseObject == 125

Digit == Zero .. Nine
HexDigit == Digit \cup (65 .. 70) \cup (97 .. 102)

At(b, p) == b[p + 1]

Failed == [ok |-> FALSE, bytes |-> <<>>]
Bytes(s) == [ok |-> TRUE, bytes |-> s]

HighSurrogate == 55296 .. 56319      \* 0xD800 .. 0xDBFF
LowSurrogate == 56320 .. 57343       \* 0xDC00 .. 0xDFFF

(* The low six bits of c after n more groups of six. *)
Continuation(c, n) == 128 + ((c \div (64 ^ n)) % 64)

\* Mistake: the low half of a pair is not asked for.
ToUnicodeTrusting(codepoint1, codepoint2) ==
    LET codepoint == IF codepoint1 \in HighSurrogate
                     THEN (codepoint1 * 1024 + codepoint2 - 56613888) % 1114112
                     ELSE codepoint1
    IN  Bytes(<<240 + codepoint \div 262144, Continuation(codepoint, 2),
                Continuation(codepoint, 1), Continuation(codepoint, 0)>>)

(* to_unicode: the UTF-8 form of a code point, or of a surrogate pair. *)
ToUnicode(codepoint1, codepoint2) ==
    LET paired == codepoint1 \in HighSurrogate
        codepoint == IF paired THEN codepoint1 * 1024 + codepoint2 - 56613888
                     ELSE codepoint1
    IN  CASE paired /\ codepoint2 \notin LowSurrogate -> Failed
          [] codepoint < 128 -> Bytes(<<codepoint>>)
          [] codepoint \in 128 .. 2047 ->
               Bytes(<<192 + codepoint \div 64, Continuation(codepoint, 0)>>)
          [] codepoint \in 2048 .. 65535 ->
               Bytes(<<224 + codepoint \div 4096, Continuation(codepoint, 1),
                       Continuation(codepoint, 0)>>)
          [] codepoint \in 65536 .. 1114111 ->
               Bytes(<<240 + codepoint \div 262144, Continuation(codepoint, 2),
                       Continuation(codepoint, 1), Continuation(codepoint, 0)>>)
          [] OTHER -> Failed

(* std::strtoul(..., 16) of the four characters at p. *)
HexValue(c) == IF c \in Digit THEN c - Zero ELSE (c % 32) + 9
Hex4(b, p) ==
    FoldLeft(LAMBDA v, c : 16 * v + HexValue(c), 0, SubSeq(b, p + 1, p + 4))

(* The characters an escape may name, and what each stands for. *)
Escapes == [c \in {Quote, Slash, Backslash, 98, 102, 110, 114, 116} |->
              CASE c = 98 -> 8 [] c = 102 -> 12 [] c = 110 -> LineFeed
                [] c = 114 -> CarriageReturn [] c = 116 -> Tab [] OTHER -> c]

(***************************************************************************)
(* One turn of get_string's loop at i: what it appends and where it goes   *)
(* on.  An escape the scanner would not have let through appends nothing.  *)
(***************************************************************************)
EscapeAt(b, i) ==
    LET kind == At(b, i + 1)
        code == Hex4(b, i + 2)
        another == /\ i + 7 < Len(b)
                   /\ At(b, i + 6) = Backslash /\ At(b, i + 7) = LowerU
    IN  CASE kind \in DOMAIN Escapes -> [take |-> Bytes(<<Escapes[kind]>>), next |-> i + 2]
          [] kind = LowerU /\ code \in HighSurrogate ->
               [take |-> IF another THEN ToUnicode(code, Hex4(b, i + 8)) ELSE Failed,
                next |-> i + 12]
          [] kind = LowerU /\ code \in LowSurrogate -> [take |-> Failed, next |-> i + 6]
          [] kind = LowerU /\ code \notin HighSurrogate \cup LowSurrogate ->
               [take |-> ToUnicode(code, 0), next |-> i + 6]
          [] OTHER -> [take |-> Bytes(<<>>), next |-> i + 2]

(* get_string, of the token [start, cursor) with its quotes. *)
GetString(b, start, cursor) ==
    LET Rest[i \in (start + 1) .. (cursor + 12)] ==
            IF i >= cursor - 1 THEN Bytes(<<>>)
            ELSE LET one == IF At(b, i) = Backslash THEN EscapeAt(b, i)
                            ELSE [take |-> Bytes(<<At(b, i)>>), next |-> i + 1]
                 IN  IF ~one.take.ok \/ ~Rest[one.next].ok THEN Failed
                     ELSE Bytes(one.take.bytes \o Rest[one.next].bytes)
    IN  Rest[start + 1]

-----------------------------------------------------------------------------
(* The first position from p on where b has no digit. *)
DigitsEnd(b, p) ==
    LET Stop[q \in 0 .. Len(b)] ==
            IF q < Len(b) /\ At(b, q) \in Digit THEN Stop[q + 1] ELSE q
    IN  Stop[p]

(* std::strtoull and std::strtoll in base ten: the value and the end. *)
Decimal(b, p) ==
    LET sign == IF At(b, p) = Minus THEN 1 ELSE 0
        end == DigitsEnd(b, p + sign)
        size == FoldLeft(LAMBDA v, c : 10 * v + (c - Zero), 0,
                         SubSeq(b, p + sign + 1, end))
    IN  [value |-> IF sign = 1 THEN 0 - size ELSE size, end |-> end]

(***************************************************************************)
(* Where std::strtod stops.  It takes a dot with no digit after it, too,   *)
(* and so may read past the token.                                         *)
(***************************************************************************)
FloatEnd(b, p) ==
    LET int == DigitsEnd(b, IF At(b, p) = Minus THEN p + 1 ELSE p)
        frac == IF int < Len(b) /\ At(b, int) = Dot THEN DigitsEnd(b, int + 1) ELSE int
        sign == IF frac + 1 < Len(b) /\ At(b, frac + 1) \in {Plus, Minus} THEN 1 ELSE 0
        exp == DigitsEnd(b, frac + 1 + sign)
    IN  IF /\ frac + 1 + sign < Len(b) /\ At(b, frac) \in {UpperE, LowerE}
           /\ exp > frac + 1 + sign
        THEN exp ELSE frac

(***************************************************************************)
(* How many digits the float [start, cursor) has before its point once its *)
(* exponent is applied; it is all the model keeps of the value.            *)
(***************************************************************************)
Magnitude(b, start, cursor) ==
    LET sign == IF At(b, start) = Minus THEN 1 ELSE 0
        int == DigitsEnd(b, start + sign)
        frac == IF int < cursor /\ At(b, int) = Dot THEN DigitsEnd(b, int + 1) ELSE int
        exponent == CASE frac = cursor -> 0
                      [] frac < cursor /\ At(b, frac + 1) = Plus -> Decimal(b, frac + 2).value
                      [] OTHER -> Decimal(b, frac + 1).value
        significant == {q \in start .. frac - 1 : At(b, q) \in Digit \ {Zero}}
        lead == Min(significant)
    IN  IF significant = {} THEN 0
        ELSE exponent + (IF lead < int THEN int - lead ELSE int + 1 - lead)

Fits(token, v) ==
    IF token = "value_unsigned" THEN v \in 0 .. (2 ^ Bits - 1)
    ELSE v \in (0 - 2 ^ (Bits - 1)) .. (2 ^ (Bits - 1) - 1)

\* Mistake: an integer that does not fit is not tried again.
GetNumberOnce(b, start, cursor, token) ==
    LET whole == Decimal(b, start)
    IN  IF token = "value_float" \/ (Fits(token, whole.value) /\ whole.end = cursor)
        THEN [type |-> token, value |-> whole.value]
        ELSE [type |-> "discarded", value |-> 0]

(***************************************************************************)
(* get_number.  An integer that does not fit is tried again as a float,    *)
(* and an infinite float is refused (out_of_range.406).  The result stays  *)
(* discarded if strtod did not stop at the end of the token.               *)
(***************************************************************************)
GetNumber(b, start, cursor, token) ==
    LET whole == Decimal(b, start)
    IN  CASE token # "value_float" /\ Fits(token, whole.value) /\ whole.end = cursor ->
               [type |-> token, value |-> whole.value]
          [] FloatEnd(b, start) # cursor -> [type |-> "discarded", value |-> 0]
          [] Magnitude(b, start, cursor) > MaxExponent -> [type |-> "infinite", value |-> 0]
          [] OTHER -> [type |-> "value_float", value |-> 0]
=============================================================================
