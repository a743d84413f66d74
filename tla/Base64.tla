-------------------------------- MODULE Base64 --------------------------------
(***************************************************************************)
(* base64_encode and base64_decode (src/base64.cpp), one turn of their     *)
(* loops per step.  A text is encoded and decoded again, or a text as      *)
(* anyone may write it is decoded.  A byte has 4k bits and a digit 3k; the *)
(* code's k is 2.  A digit is its position in base64_chars.                *)
(***************************************************************************)
EXTENDS Integers, Sequences

CONSTANTS
    Quarter,     \* 2^k, the values of a quarter of a byte: 4 in the code
    Buffers,     \* the buffers that are encoded
    Texts        \* the texts that are decoded

Half == Quarter * Quarter      \* the values of half a byte
Byte == 0 .. Half * Half - 1
Digit == 0 .. Half * Quarter - 1
Pad == -1        \* '='
Foreign == -2    \* any other character
Char == Digit \cup {Pad, Foreign}

ASSUME QuarterRange == Quarter \in Nat /\ Quarter > 1

ASSUME InputRange == Buffers \subseteq Seq(Byte) /\ Texts \subseteq Seq(Char)

VARIABLES
    buf,         \* what is encoded
    encoded,     \* whether text is base64_encode's
    text,        \* encoded_string
    group,       \* char_array_3, then char_array_4: the i units collected
    at,          \* the bytes taken from buf, then in_
    ret,         \* what base64_decode returns
    pc           \* "encode", "decode", "done"

vars == <<buf, encoded, text, group, at, ret, pc>>

Init ==
    /\ \/ pc = "encode" /\ encoded = TRUE /\ buf \in Buffers /\ text = <<>>
       \/ pc = "decode" /\ encoded = FALSE /\ buf = <<>> /\ text \in Texts
    /\ group = <<>> /\ at = 0 /\ ret = <<>>

-----------------------------------------------------------------------------
(* Three bytes are four digits: & and >> take quarters of bytes apart. *)
Split(b) ==
    << b[1] \div Quarter,
       (b[1] % Quarter) * Half + (b[2] \div Half),
       (b[2] % Half) * Quarter + (b[3] \div (Half * Quarter)),
       b[3] % (Half * Quarter) >>

AsByte(n) == n % (Half * Half)

(* Four digits, or what find made of no digit, are three bytes. *)
Join(d) ==
    << AsByte(d[1] * Quarter + ((d[2] \div Half) % Quarter)),
       AsByte((d[2] % Half) * Half + ((d[3] \div Quarter) % Half)),
       AsByte((d[3] % Quarter) * (Half * Quarter) + d[4]) >>

(* std::string::npos, as a BYTE: what find returns for the padding. *)
NotFound == Half * Half - 1

(* A group whose places up to the n-th are filled. *)
Filled(units, n, unit) ==
    [i \in 1 .. n |-> IF i <= Len(units) THEN units[i] ELSE unit]

-----------------------------------------------------------------------------
EncodeByte ==
    /\ pc = "encode" /\ at < Len(buf)
    /\ LET bytes == Append(group, buf[at + 1]) IN
       IF Len(bytes) = 3
       THEN text' = text \o Split(bytes) /\ group' = <<>>
       ELSE group' = bytes /\ UNCHANGED text
    /\ at' = at + 1
    /\ UNCHANGED <<buf, encoded, ret, pc>>

\* Mistake: a last group that is not full is forgotten.
EncodeEndDropsTail ==
    /\ pc = "encode" /\ at = Len(buf)
    /\ pc' = "decode" /\ at' = 0 /\ group' = <<>>
    /\ UNCHANGED <<buf, encoded, text, ret>>

(* The rest of a group becomes one digit more than it has bytes, and pads. *)
EncodeEnd ==
    /\ pc = "encode" /\ at = Len(buf)
    /\ text' = IF group = <<>> THEN text
               ELSE text \o Filled(SubSeq(Split(Filled(group, 3, 0)), 1,
                                          Len(group) + 1), 4, Pad)
    /\ pc' = "decode" /\ at' = 0 /\ group' = <<>>
    /\ UNCHANGED <<buf, encoded, ret>>

HasDigit == at < Len(text) /\ text[at + 1] \in Digit

DecodeChar ==
    /\ pc = "decode" /\ HasDigit
    /\ LET digits == Append(group, text[at + 1]) IN
       IF Len(digits) = 4
       THEN ret' = ret \o Join(digits) /\ group' = <<>>
       ELSE group' = digits /\ UNCHANGED ret
    /\ at' = at + 1
    /\ UNCHANGED <<buf, encoded, text, pc>>

\* Mistake: as many bytes are kept as digits were left.
DecodeEndKeepsAll ==
    /\ pc = "decode" /\ ~HasDigit
    /\ ret' = ret \o SubSeq(Join(Filled(group, 4, NotFound)), 1, Len(group))
    /\ pc' = "done" /\ group' = <<>>
    /\ UNCHANGED <<buf, encoded, text, at>>

(* The first character that is no digit ends the text. *)
DecodeEnd ==
    /\ pc = "decode" /\ ~HasDigit
    /\ ret' = ret \o SubSeq(Join(Filled(group, 4, NotFound)), 1, Len(group) - 1)
    /\ pc' = "done" /\ group' = <<>>
    /\ UNCHANGED <<buf, encoded, text, at>>

Next == EncodeByte \/ EncodeEnd \/ DecodeChar \/ DecodeEnd

Spec == Init /\ [][Next]_vars

-----------------------------------------------------------------------------
TypeOK ==
    /\ buf \in Seq(Byte)
    /\ encoded \in BOOLEAN
    /\ text \in Seq(Char)
    /\ group \in IF pc = "encode" THEN Seq(Byte) ELSE Seq(Digit)
    /\ Len(group) <= 3
    /\ at \in Nat
    /\ ret \in Seq(Byte)
    /\ pc \in {"encode", "decode", "done"}

(* Whatever its length and its bytes, what is encoded comes back. *)
RoundTrip == pc = "done" /\ encoded => ret = buf

(***************************************************************************)
(* The reference: a text and the bytes it stands for are the same quarters *)
(* in the same order, three in a digit and four in a byte.                 *)
(***************************************************************************)
DigitQuarter(digits, q) ==
    (digits[(q \div 3) + 1] \div <<Half, Quarter, 1>>[(q % 3) + 1]) % Quarter

ByteQuarter(bytes, q) ==
    (bytes[(q \div 4) + 1]
        \div <<Half * Quarter, Half, Quarter, 1>>[(q % 4) + 1]) % Quarter

(* d characters are digits, and the next one, if there is one, is not. *)
DigitsEndAt(d) ==
    /\ \A i \in 1 .. d : text[i] \in Digit
    /\ d < Len(text) => text[d + 1] \notin Digit

(***************************************************************************)
(* The d digits before the first other character decode to as many bytes   *)
(* as they fill, and to the leading bits of the same number: what comes    *)
(* after a misplaced character, or is too short for a byte, is left out.   *)
(* parseJson compares that length with the range it is to replace.         *)
(***************************************************************************)
DecodesPrefix ==
    pc = "done" =>
        \E d \in 0 .. Len(text) :
            /\ DigitsEndAt(d)
            /\ Len(ret) = (3 * d) \div 4
            /\ \A q \in 0 .. 4 * Len(ret) - 1 :
                   ByteQuarter(ret, q) = DigitQuarter(text, q)
=============================================================================
