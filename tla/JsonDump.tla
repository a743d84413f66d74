------------------------------ MODULE JsonDump ------------------------------
(***************************************************************************)
(* What the serializer of src/include/json.hpp writes for a string and for *)
(* an integer: dump_escaped with extra_space, and dump_integer.            *)
(***************************************************************************)
EXTENDS JsonTokens

(* The characters a letter is written for, with the letter. *)
Letters == (Quote :> Quote) @@ (Backslash :> Backslash) @@ (8 :> 98) @@ (12 :> 102)
             @@ (LineFeed :> 110) @@ (CarriageReturn :> 114) @@ (Tab :> 116)
Controls == (0 .. 31) \ DOMAIN Letters

(* How much longer than s its escaped form is: dump_escaped makes room for it. *)
extra_space(s) ==
    FoldLeft(LAMBDA res, c : CASE c \in DOMAIN Letters -> res + 1
                               [] c \in Controls -> res + 5
                               [] OTHER -> res, 0, s)

Hexify(n) == IF n < 10 THEN Zero + n ELSE 87 + n

\* Mistake: only the low half of a control character is written.
EscapedLow(c) ==
    CASE c \in DOMAIN Letters -> <<Backslash, Letters[c]>>
      [] c \in Controls -> <<Backslash, LowerU, Zero, Zero, Zero, Hexify(c % 16)>>
      [] OTHER -> <<c>>

(* What one character of a string is written as. *)
Escaped(c) ==
    CASE c \in DOMAIN Letters -> <<Backslash, Letters[c]>>
      [] c \in Controls -> <<Backslash, LowerU, Zero, Zero, Hexify(c \div 16), Hexify(c % 16)>>
      [] OTHER -> <<c>>

dump_escaped(s) == FlattenSeq([i \in DOMAIN s |-> Escaped(s[i])])

-----------------------------------------------------------------------------
(* C's division and remainder round to zero; labs is of one digit only, since the
   least integer has no absolute value. *)
Quotient(x) == IF x < 0 THEN 0 - ((0 - x) \div 10) ELSE x \div 10
Remainder(x) == x - 10 * Quotient(x)
Labs(x) == IF x < 0 THEN 0 - x ELSE x

(* number_buffer, with the digits from the last to the first. *)
NumberBuffer(x) ==
    LET Digits[y \in (0 - 2 ^ (Bits - 1)) .. (2 ^ Bits - 1)] ==
            IF y = 0 THEN <<>> ELSE <<Zero + Labs(Remainder(y))>> \o Digits[Quotient(y)]
    IN  Digits[x]

dump_integer(x) ==
    IF x = 0 THEN <<Zero>>
    ELSE Reverse(NumberBuffer(x) \o (IF x < 0 THEN <<Minus>> ELSE <<>>))
=============================================================================
