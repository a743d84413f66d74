----------------------------- MODULE JsonGrammar -----------------------------
(***************************************************************************)
(* The tokens of JSON, RFC 7159, as sets of byte sequences: what the       *)
(* lexer of src/include/json.hpp is meant to find.  Nothing here follows   *)
(* the order in which the lexer reads.                                     *)
(***************************************************************************)
EXTENDS JsonTokens

Digits(s) == s # <<>> /\ \A i \in DOMAIN s : s[i] \in Digit

Whole(s) == Digits(s) /\ (Len(s) > 1 => s[1] # Zero)

Fractional(s) == s # <<>> /\ s[1] = Dot /\ Digits(Tail(s))

Exponential(s) ==
    /\ s # <<>> /\ s[1] \in {UpperE, LowerE}
    /\ \/ Digits(Tail(s))
       \/ Len(s) > 1 /\ s[2] \in {Plus, Minus} /\ Digits(Tail(Tail(s)))

First(s, n) == SubSeq(s, 1, n)
From(s, n) == SubSeq(s, n + 1, Len(s))

(* A whole number with a fraction, an exponent, or both. *)
Real(s) ==
    \E i \in 1 .. Len(s) : \E j \in i .. Len(s) :
        /\ i < Len(s)
        /\ Whole(First(s, i))
        /\ i = j \/ Fractional(SubSeq(s, i + 1, j))
        /\ j = Len(s) \/ Exponential(From(s, j))

Unsigned(s) == IF s # <<>> /\ s[1] = Minus THEN Tail(s) ELSE s

(* The well-formed byte sequences of a character (Unicode, table 3-7). *)
Character(s) ==
    LET in(i, R) == s[i] \in R
    IN  \/ Len(s) = 1 /\ s[1] \in (32 .. 127) \ {Quote, Backslash}
        \/ Len(s) = 2 /\ in(1, 194 .. 223) /\ in(2, 128 .. 191)
        \/ /\ Len(s) = 3 /\ in(3, 128 .. 191)
           /\ \/ in(1, {224}) /\ in(2, 160 .. 191)
              \/ in(1, (225 .. 239) \ {237}) /\ in(2, 128 .. 191)
              \/ in(1, {237}) /\ in(2, 128 .. 159)
        \/ /\ Len(s) = 4 /\ in(3, 128 .. 191) /\ in(4, 128 .. 191)
           /\ \/ in(1, {240}) /\ in(2, 144 .. 191)
              \/ in(1, 241 .. 243) /\ in(2, 128 .. 191)
              \/ in(1, {244}) /\ in(2, 128 .. 143)

(* An escape by a letter, or by four hexadecimal digits. *)
ByLetter(s) == Len(s) = 2 /\ s[1] = Backslash /\ s[2] \in DOMAIN Escapes
ByCode(s) ==
    /\ Len(s) = 6 /\ s[1] = Backslash /\ s[2] = LowerU
    /\ \A i \in 3 .. 6 : s[i] \in HexDigit

Unit(s) == Character(s) \/ ByLetter(s) \/ ByCode(s)

(* s can be cut so that a unit leads from each cut but the last to a later one. *)
AllUnits(s) ==
    \E inner \in SUBSET (1 .. Len(s) - 1) :
        LET cuts == inner \cup {0, Len(s)}
        IN  \A i \in cuts \ {Len(s)} :
                \E j \in cuts : i < j /\ Unit(SubSeq(s, i + 1, j))

Quoted(s) ==
    /\ Len(s) > 1 /\ s[1] = Quote /\ s[Len(s)] = Quote
    /\ AllUnits(SubSeq(s, 2, Len(s) - 1))

NoToken == "no token"

Class(s) ==
    CASE s = <<Comma>> -> "value_separator"
      [] s = <<Colon>> -> "name_separator"
      [] s = <<OpenArray>> -> "begin_array"
      [] s = <<CloseArray>> -> "end_array"
      [] s = <<OpenObject>> -> "begin_object"
      [] s = <<CloseObject>> -> "end_object"
      [] s = <<102, 97, 108, 115, 101>> -> "literal_false"
      [] s = <<110, 117, 108, 108>> -> "literal_null"
      [] s = <<116, 114, 117, 101>> -> "literal_true"
      [] Whole(s) -> "value_unsigned"
      [] Unsigned(s) # s /\ Whole(Unsigned(s)) -> "value_integer"
      [] Real(Unsigned(s)) -> "value_float"
      [] Quoted(s) -> "value_string"
      [] OTHER -> NoToken

(* A digit follows a leading zero: no number, and no token. *)
ZeroLed(s) == LET u == Unsigned(s) IN Len(u) > 1 /\ u[1] = Zero /\ u[2] \in Digit

(***************************************************************************)
(* The longest token s begins with; an error if there is none.             *)
(***************************************************************************)
LongestOf(s) ==
    LET lengths == {n \in 1 .. Len(s) : Class(First(s, n)) # NoToken}
        longest == CHOOSE n \in lengths : \A m \in lengths : m <= n
    IN  CASE s = <<>> -> [type |-> "end_of_input", length |-> 1]
          [] s # <<>> /\ (lengths = {} \/ ZeroLed(s)) ->
               [type |-> "parse_error", length |-> 0]
          [] OTHER -> [type |-> Class(First(s, longest)), length |-> longest]

-----------------------------------------------------------------------------
(* The code point a well-formed byte sequence of a character stands for. *)
CodePoint(s) ==
    LET lead == CASE Len(s) = 1 -> s[1] [] Len(s) = 2 -> s[1] - 192
                  [] Len(s) = 3 -> s[1] - 224 [] OTHER -> s[1] - 240
    IN  FoldLeft(LAMBDA v, c : 64 * v + (c - 128), lead, Tail(s))

(* What a unit of a string stands for: a code point, or half a pair. *)
Meaning(s) ==
    CASE Character(s) -> CodePoint(s)
      [] ByLetter(s) -> Escapes[s[2]]
      [] OTHER -> FoldLeft(LAMBDA v, c : 16 * v + HexValue(c), 0, SubSeq(s, 3, 6))

(* The end of the unit of s that begins after i, or 0: they are prefix-free. *)
UnitEnd(s, i) ==
    LET ends == {j \in (i + 1) .. (IF i + 6 < Len(s) THEN i + 6 ELSE Len(s)) :
                    Unit(SubSeq(s, i + 1, j))}
    IN  IF ends = {} THEN 0 ELSE CHOOSE j \in ends : TRUE

(* The ends of the units of s, one after the other; <<0>> if they are none. *)
Units(s) ==
    LET Rest[i \in 0 .. Len(s)] ==
            IF i = Len(s) THEN <<>>
            ELSE IF UnitEnd(s, i) = 0 THEN <<0>>
            ELSE <<UnitEnd(s, i)>> \o Rest[UnitEnd(s, i)]
    IN  Rest[0]

(* The units of s, and what they mean. *)
Meanings(s) ==
    LET ends == Units(s)
    IN  [k \in DOMAIN ends |->
            Meaning(SubSeq(s, (IF k = 1 THEN 0 ELSE ends[k - 1]) + 1, ends[k]))]

Unpaired == HighSurrogate \cup LowSurrogate

(***************************************************************************)
(* UTF-16: a pair of halves is one code point.  A half without the other   *)
(* makes the string mean nothing, which is -1 in the result.               *)
(***************************************************************************)
Paired(m) ==
    LET Rest[k \in 1 .. (Len(m) + 2)] ==
            IF k > Len(m) THEN <<>>
            ELSE IF m[k] \notin Unpaired THEN <<m[k]>> \o Rest[k + 1]
            ELSE IF /\ m[k] \in HighSurrogate /\ k < Len(m)
                    /\ m[k + 1] \in LowSurrogate
                 THEN <<65536 + (m[k] - 55296) * 1024 + (m[k + 1] - 56320)>> \o Rest[k + 2]
                 ELSE <<-1>>
    IN  Rest[1]

(* The code points of bytes that are all UTF-8, control characters too. *)
Decoded(bytes) ==
    LET wide(i) == CASE bytes[i] < 128 -> 1 [] bytes[i] < 224 -> 2
                     [] bytes[i] < 240 -> 3 [] OTHER -> 4
        Rest[i \in 1 .. (Len(bytes) + 4)] ==
            IF i > Len(bytes) THEN <<>>
            ELSE <<CodePoint(SubSeq(bytes, i, i + wide(i) - 1))>> \o Rest[i + wide(i)]
    IN  Rest[1]
=============================================================================
