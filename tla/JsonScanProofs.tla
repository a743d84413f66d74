--------------------------- MODULE JsonScanProofs ---------------------------
(***************************************************************************)
(* That lexer::scan reads within its buffer and returns the longest token  *)
(* the rest of the text begins with, for every text.                       *)
(*                                                                         *)
(* Within the buffer: the labels that ask for no bytes are safe because an *)
(* earlier one asked for enough; Need says how much must be there when a   *)
(* label has read its character (Slack).                                   *)
(*                                                                         *)
(* The longest token: what has been read so far is a token with the rest   *)
(* exactly if the rest is what the label has left to read (Left), so every *)
(* label says of each token whether it can still be completed, and the     *)
(* marker holds the longest one completed (Progress); filling the buffer   *)
(* moves the pointers and leaves that alone (Synced).  The grammar, which  *)
(* is about sequences of bytes, is first restated by places in the text.   *)
(***************************************************************************)
EXTENDS JsonScan, SequenceTheorems, TLAPS

(* The bytes from m_cursor on that a label has to find in the buffer. *)
Need(q) ==
    CASE q \in {12, 23} -> 5
      [] q \in {13, 24, 25, 43, 52} -> 4
      [] q \in {51, 53, 54, 62} -> 3
      [] q \in {9, 47, 59, 63, 64, 66} -> 2
      [] OTHER -> 1

(* The labels that read no character. *)
Ends == {2, 4, 5, 10, 14, 17, 19, 21, 26, 28, 33, 44, 50, 58, 67, 69, 72}

(* The labels between two steps: 0 is left at once. *)
Matching == (Reads \ {0}) \cup Ends \cup {7, 32}

Byte == 0 .. 255

(* The inductive invariant. *)
Slack ==
    /\ pc \in {"scan", "match", "returned", "taken", "stopped"}
    /\ yyaccept \in 0 .. 3
    /\ label \in 0 .. 74
    /\ buffer \in Seq(Byte)
    /\ m_start \in Nat /\ m_marker \in Nat /\ m_cursor \in Nat
    /\ m_start <= m_marker /\ m_marker <= m_cursor /\ m_cursor <= Len(buffer)
    /\ pc = "match" => label \in Matching /\ m_cursor + Need(label) <= Len(buffer)

-----------------------------------------------------------------------------
(* fill_line_buffer drops what is before start and adds n - 1 bytes and a NUL. *)
LEMMA PaddedLength ==
    ASSUME buffer \in Seq(Byte), NEW n \in 1 .. 5, NEW start \in 0 .. Len(buffer)
    PROVE  /\ Padded(n, start) \in Seq(Byte)
           /\ Len(Padded(n, start)) = Len(buffer) - start + n
<1> DEFINE rest == SubSeq(buffer, start + 1, Len(buffer))
           pad == [i \in 1 .. n - 1 |-> 1]
<1>1. rest \in Seq(Byte) /\ Len(rest) = Len(buffer) - start
  OBVIOUS
<1>2. pad \in Seq(Byte) /\ Len(pad) = n - 1
  BY DEF Byte
<1>3. <<0>> \in Seq(Byte) /\ Len(<<0>>) = 1
  BY DEF Byte
<1> HIDE DEF rest, pad
<1>4. rest \o <<0>> \in Seq(Byte) /\ Len(rest \o <<0>>) = Len(rest) + 1
  BY <1>1, <1>3
<1>5. /\ (rest \o <<0>>) \o pad \in Seq(Byte)
      /\ Len((rest \o <<0>>) \o pad) = Len(rest) + 1 + (n - 1)
  BY <1>2, <1>4
<1> QED
  BY <1>1, <1>5 DEF Padded, rest, pad

(* What a label makes sure of, or was promised, is enough for the next. *)
LEMMA NextNeed ==
    ASSUME NEW q \in Reads, NEW c \in Byte
    PROVE  /\ Goto(q, c) \in Matching
           /\ Need(Goto(q, c)) \in 1 .. 5
           /\ Need(Goto(q, c)) <= IF Guard(q) = 0 THEN Need(q) - 1 ELSE Guard(q)
<1>1. CASE q = 0
  BY <1>1 DEF Goto, Dispatch, Matching, Ends, Reads, Need, Guard
<1>2. CASE q = 6
  BY <1>2 DEF Goto, Matching, Ends, Reads, Need, Guard
<1>3. CASE q = 9
  BY <1>3 DEF Goto, StringOpen, InString, Matching, Ends, Reads, Need, Guard
<1>4. CASE q = 12
  BY <1>4 DEF Goto, AfterMinus, Matching, Ends, Reads, Need, Guard
<1>5. CASE q = 13
  BY <1>5 DEF Goto, AfterZero, Matching, Ends, Reads, Need, Guard
<1>6. CASE q = 15
  BY <1>6 DEF Goto, AfterDigit, Matching, Ends, Reads, Need, Guard
<1>7. CASE q = 23
  BY <1>7 DEF Goto, LiteralBegins, Matching, Ends, Reads, Need, Guard
<1>8. CASE q = 24
  BY <1>8 DEF Goto, LiteralBegins, Matching, Ends, Reads, Need, Guard
<1>9. CASE q = 25
  BY <1>9 DEF Goto, LiteralBegins, Matching, Ends, Reads, Need, Guard
<1>10. CASE q = 30
  BY <1>10 DEF Goto, InString, Matching, Ends, Reads, Need, Guard
<1>11. CASE q = 35
  BY <1>11 DEF Goto, AfterEscape, Matching, Ends, Reads, Need, Guard
<1>12. CASE q = 36
  BY <1>12 DEF Goto, Utf8, Matching, Ends, Reads, Need, Guard
<1>13. CASE q = 37
  BY <1>13 DEF Goto, Utf8, Matching, Ends, Reads, Need, Guard
<1>14. CASE q = 38
  BY <1>14 DEF Goto, Utf8, Matching, Ends, Reads, Need, Guard
<1>15. CASE q = 39
  BY <1>15 DEF Goto, Utf8, Matching, Ends, Reads, Need, Guard
<1>16. CASE q = 40
  BY <1>16 DEF Goto, Utf8, Matching, Ends, Reads, Need, Guard
<1>17. CASE q = 41
  BY <1>17 DEF Goto, Utf8, Matching, Ends, Reads, Need, Guard
<1>18. CASE q = 42
  BY <1>18 DEF Goto, Utf8, Matching, Ends, Reads, Need, Guard
<1>19. CASE q = 43
  BY <1>19 DEF Goto, AfterZero, Matching, Ends, Reads, Need, Guard
<1>20. CASE q = 45
  BY <1>20 DEF Goto, AfterDigit, Matching, Ends, Reads, Need, Guard
<1>21. CASE q = 47
  BY <1>21 DEF Goto, Fraction, Matching, Ends, Reads, Need, Guard
<1>22. CASE q = 48
  BY <1>22 DEF Goto, LeadingZero, Matching, Ends, Reads, Need, Guard
<1>23. CASE q = 51
  BY <1>23 DEF Goto, Exponent, Matching, Ends, Reads, Need, Guard
<1>24. CASE q = 52
  BY <1>24 DEF Goto, LiteralSecond, Matching, Ends, Reads, Need, Guard
<1>25. CASE q = 53
  BY <1>25 DEF Goto, LiteralSecond, Matching, Ends, Reads, Need, Guard
<1>26. CASE q = 54
  BY <1>26 DEF Goto, LiteralSecond, Matching, Ends, Reads, Need, Guard
<1>27. CASE q = 55
  BY <1>27 DEF Goto, Hex1, Matching, Ends, Reads, Need, Guard
<1>28. CASE q = 56
  BY <1>28 DEF Goto, AfterFraction, Matching, Ends, Reads, Need, Guard
<1>29. CASE q = 59
  BY <1>29 DEF Goto, ExponentSign, Matching, Ends, Reads, Need, Guard
<1>30. CASE q = 60
  BY <1>30 DEF Goto, ExponentDigits, Matching, Ends, Reads, Need, Guard
<1>31. CASE q = 62
  BY <1>31 DEF Goto, LiteralThird, Matching, Ends, Reads, Need, Guard
<1>32. CASE q = 63
  BY <1>32 DEF Goto, LiteralThird, Matching, Ends, Reads, Need, Guard
<1>33. CASE q = 64
  BY <1>33 DEF Goto, LiteralThird, Matching, Ends, Reads, Need, Guard
<1>34. CASE q = 65
  BY <1>34 DEF Goto, Hex2, Matching, Ends, Reads, Need, Guard
<1>35. CASE q = 66
  BY <1>35 DEF Goto, LiteralFourth, Matching, Ends, Reads, Need, Guard
<1>36. CASE q = 71
  BY <1>36 DEF Goto, Hex3, Matching, Ends, Reads, Need, Guard
<1>37. CASE q = 74
  BY <1>37 DEF Goto, HexLast, Matching, Ends, Reads, Need, Guard
<1> QED
  BY <1>1, <1>2, <1>3, <1>4, <1>5, <1>6, <1>7, <1>8, <1>9, <1>10,
     <1>11, <1>12, <1>13, <1>14, <1>15, <1>16, <1>17, <1>18, <1>19,
     <1>20, <1>21, <1>22, <1>23, <1>24, <1>25, <1>26, <1>27, <1>28,
     <1>29, <1>30, <1>31, <1>32, <1>33, <1>34, <1>35, <1>36, <1>37 DEF Reads

(***************************************************************************)
(* Reading a character leaves the pointers in order, and enough bytes for  *)
(* the label it leads to.                                                  *)
(***************************************************************************)
LEMMA ReadKeepsSlack ==
    ASSUME buffer \in Seq(Byte),
           NEW q \in Reads, NEW start \in Nat, NEW cursor \in Nat, NEW marker \in Nat,
           start <= marker, marker <= cursor, cursor <= Len(buffer),
           Guard(q) = 0 => cursor + (Need(q) - 1) <= Len(buffer),
           Read(q, start, cursor, marker)
    PROVE  /\ buffer' \in Seq(Byte)
           /\ m_start' \in Nat /\ m_marker' \in Nat /\ m_cursor' \in Nat
           /\ m_start' <= m_marker' /\ m_marker' <= m_cursor'
           /\ label' \in Matching
           /\ m_cursor' + Need(label') <= Len(buffer')
<1> DEFINE short == Len(buffer) - cursor < Guard(q)
<1>0. Len(buffer) \in Nat
  OBVIOUS
<1>1. Guard(q) \in 0 .. 5 /\ Need(q) \in 1 .. 5
  BY DEF Guard, Need
<1>2. /\ buffer' \in Seq(Byte)
      /\ Guard(q) # 0 => m_cursor' + Guard(q) <= Len(buffer')
      /\ Guard(q) = 0 => m_cursor' + (Need(q) - 1) <= Len(buffer')
      /\ m_start' \in Nat /\ m_marker' \in Nat /\ m_cursor' \in Nat
      /\ m_start' <= m_marker' /\ m_marker' <= m_cursor'
  <2>1. CASE short
    <3>1. Guard(q) \in 1 .. 5 /\ start \in 0 .. Len(buffer)
      BY <1>0, <1>1, <2>1
    <3>2. /\ buffer' = Padded(Guard(q), start)
          /\ m_start' = 0 /\ m_cursor' = cursor - start /\ m_marker' = marker - start
      BY <2>1 DEF Read
    <3>3. buffer' \in Seq(Byte) /\ Len(buffer') = Len(buffer) - start + Guard(q)
      BY <3>1, <3>2, PaddedLength
    <3> QED
      BY <1>0, <1>1, <3>1, <3>2, <3>3, SMTT(30)
  <2>2. CASE ~short
    <3>1. /\ buffer' = buffer
          /\ m_start' = start /\ m_cursor' = cursor /\ m_marker' = marker
      BY <2>2 DEF Read
    <3> QED
      BY <1>0, <1>1, <2>2, <3>1
  <2> QED
    BY <2>1, <2>2
<1>3. Guard(q) = 0 => Need(q) >= 2
  BY DEF Guard, Need, Reads
<1>4. m_cursor' < Len(buffer') /\ Len(buffer') \in Nat
  BY <1>1, <1>2, <1>3
<1>5. At(buffer', m_cursor') \in Byte
  BY <1>2, <1>4 DEF At
<1>6. label' = Goto(q, At(buffer', m_cursor'))
  BY DEF Read
<1>7. /\ label' \in Matching
      /\ Need(label') \in 1 .. 5
      /\ Need(label') <= IF Guard(q) = 0 THEN Need(q) - 1 ELSE Guard(q)
  BY <1>5, <1>6, NextNeed
<1> QED
  BY <1>1, <1>2, <1>4, <1>7, SMTT(30)

-----------------------------------------------------------------------------
(* An empty lexer has nothing to read past. *)
LEMMA InitSlack == Init => Slack
<1> SUFFICES ASSUME Init PROVE Slack
  OBVIOUS
<1>1. buffer \in Seq(1 .. 255)
  BY TextsAreBytes DEF Init
<1>2. buffer \in Seq(Byte) /\ Len(buffer) \in Nat
  BY <1>1 DEF Byte
<1> QED
  BY <1>2 DEF Init, Slack

(* No step moves a pointer past the buffer or out of order. *)
LEMMA NextSlack == Slack /\ [Next]_vars => Slack'
<1> SUFFICES ASSUME Slack, [Next]_vars PROVE Slack'
  OBVIOUS
<1>0. Len(buffer) \in Nat /\ Matching \subseteq 0 .. 74
  BY DEF Slack, Matching, Reads, Ends
<1>1. CASE Begin
  <2>1. Read(0, m_cursor, m_cursor, m_cursor) /\ yyaccept' = 0 /\ pc' = "match"
    BY <1>1 DEF Begin
  <2>2. 0 \in Reads /\ Guard(0) # 0
    BY DEF Reads, Guard
  <2>3. /\ buffer' \in Seq(Byte)
        /\ m_start' \in Nat /\ m_marker' \in Nat /\ m_cursor' \in Nat
        /\ m_start' <= m_marker' /\ m_marker' <= m_cursor'
        /\ label' \in Matching
        /\ m_cursor' + Need(label') <= Len(buffer')
    BY <2>1, <2>2, <1>0, ReadKeepsSlack DEF Slack
  <2>4. Len(buffer') \in Nat /\ Need(label') \in 1 .. 5
    BY <2>3 DEF Need
  <2> QED
    BY <1>0, <2>1, <2>3, <2>4 DEF Slack
<1>2. CASE Advance
  <2> DEFINE marker == IF label \in Marks THEN m_cursor + 1 ELSE m_marker
  <2>1. /\ pc = "match" /\ pc' = pc /\ label \in Reads
        /\ Read(label, m_start, m_cursor + 1, marker)
        /\ yyaccept' = IF label \in Marks THEN Accepts(label) ELSE yyaccept
    BY <1>2 DEF Advance
  <2>2. m_cursor + Need(label) <= Len(buffer) /\ Need(label) \in 1 .. 5
    BY <2>1 DEF Slack, Need
  <2>3. /\ marker \in Nat /\ m_cursor + 1 \in Nat
        /\ m_start <= marker /\ marker <= m_cursor + 1
    BY DEF Slack
  <2>4. /\ m_cursor + 1 <= Len(buffer)
        /\ (m_cursor + 1) + (Need(label) - 1) <= Len(buffer)
    BY <1>0, <2>2 DEF Slack
  <2> HIDE DEF marker
  <2>5. /\ buffer' \in Seq(Byte)
        /\ m_start' \in Nat /\ m_marker' \in Nat /\ m_cursor' \in Nat
        /\ m_start' <= m_marker' /\ m_marker' <= m_cursor'
        /\ label' \in Matching
        /\ m_cursor' + Need(label') <= Len(buffer')
    BY <2>1, <2>3, <2>4, ReadKeepsSlack DEF Slack
  <2>6. yyaccept' \in 0 .. 3
    BY <2>1 DEF Slack, Accepts
  <2>7. Len(buffer') \in Nat /\ Need(label') \in 1 .. 5
    BY <2>5 DEF Need
  <2> QED
    BY <1>0, <2>1, <2>5, <2>6, <2>7, SMTT(30) DEF Slack
<1>3. CASE Backtrack
  <2>1. /\ pc = "match" /\ pc' = pc /\ label = 32
        /\ m_cursor' = m_marker /\ label' = Accepted[yyaccept]
        /\ UNCHANGED <<buffer, m_start, m_marker, yyaccept>>
    BY <1>3 DEF Backtrack
  <2>2. label' \in {5, 14, 44, 58}
    BY <2>1 DEF Accepted, Slack
  <2>3. Need(label') = 1 /\ Need(label) = 1 /\ label' \in Matching
    BY <2>1, <2>2 DEF Need, Matching, Ends
  <2>4. label' \in 0 .. 74
    BY <2>2
  <2>5. m_marker + 1 <= Len(buffer)
    BY <1>0, <2>1, <2>3 DEF Slack
  <2> QED
    BY <1>0, <2>1, <2>3, <2>4, <2>5 DEF Slack
<1>4. CASE Skip
  BY <1>4 DEF Skip, Slack
<1>5. CASE Found
  <2>1. /\ pc = "match" /\ pc' = "returned"
        /\ m_cursor' = IF label \in AtEnd THEN m_cursor ELSE m_cursor + 1
        /\ UNCHANGED <<buffer, m_start, m_marker, yyaccept, label>>
    BY <1>5 DEF Found
  <2>2. m_cursor + Need(label) <= Len(buffer) /\ Need(label) \in 1 .. 5
    BY <2>1 DEF Slack, Need
  <2>3. m_cursor + 1 <= Len(buffer)
    BY <1>0, <2>2 DEF Slack
  <2> QED
    BY <1>0, <2>1, <2>3 DEF Slack
<1>6. CASE Take
  BY <1>6 DEF Take, Slack
<1>7. CASE GetToken
  BY <1>7 DEF GetToken, Slack
<1>8. CASE Stop
  BY <1>8 DEF Stop, Slack
<1>9. CASE UNCHANGED vars
  BY <1>9 DEF vars, Slack
<1> QED
  BY <1>1, <1>2, <1>3, <1>4, <1>5, <1>6, <1>7, <1>8, <1>9 DEF Next

(* So the pointers are in order in every state. *)
LEMMA SlackAlways == Spec => []Slack
  BY InitSlack, NextSlack, PTL DEF Spec

(***************************************************************************)
(* The pointers are always in the order fill_line_buffer asserts, whatever *)
(* text is scanned.                                                        *)
(***************************************************************************)
THEOREM TypeCorrect == Spec => []TypeOK
<1>1. Slack => TypeOK
  BY DEF Slack, TypeOK
<1> QED
  BY <1>1, SlackAlways, PTL

(***************************************************************************)
(* No label of the scanner reads past the buffer, whatever text is         *)
(* scanned: what json.hpp leaves to re2c.                                  *)
(***************************************************************************)
THEOREM BufferIsRespected == Spec => []ReadsInBuffer
<1>1. Slack => ReadsInBuffer
  <2> SUFFICES ASSUME Slack, pc = "match", label \in Reads
               PROVE  IF Guard(label) = 0 THEN m_cursor + 1 < Len(buffer)
                      ELSE m_cursor + 1 <= Len(buffer)
    BY DEF ReadsInBuffer
  <2>1. label # 0 /\ m_cursor + Need(label) <= Len(buffer) /\ Len(buffer) \in Nat
    BY DEF Slack, Matching, Ends
  <2>2. Need(label) \in 1 .. 5 /\ (Guard(label) = 0 => Need(label) >= 2)
    BY <2>1 DEF Need, Guard, Reads
  <2> QED
    BY <2>1, <2>2 DEF Slack
<1> QED
  BY <1>1, SlackAlways, PTL

-----------------------------------------------------------------------------
(* What is left of a token: of numbers, words and strings, after some of it. *)

(* Numbers between i and j: their digits, and what may still follow a part. *)
Run(R, i, j) == \A x \in (i + 1) .. j : R[x] \in Digit
DigitsAt(R, i, j) == i < j /\ Run(R, i, j)
WholeAt(R, i, j) == DigitsAt(R, i, j) /\ (j > i + 1 => R[i + 1] # Zero)
ExponentRest(R, i, j) ==
    \/ DigitsAt(R, i, j)
    \/ i < j /\ R[i + 1] \in {Plus, Minus} /\ DigitsAt(R, i + 1, j)
ExponentAt(R, i, j) ==
    i < j /\ R[i + 1] \in {UpperE, LowerE} /\ ExponentRest(R, i + 1, j)
DecimalsRest(R, i, j) ==
    \E l \in i .. j : Run(R, i, l) /\ (l = j \/ ExponentAt(R, l, j))
PointRest(R, i, j) == i < j /\ R[i + 1] \in Digit /\ DecimalsRest(R, i + 1, j)
FloatRest(R, i, j) ==
    \/ ExponentAt(R, i, j)
    \/ i < j /\ R[i + 1] = Dot /\ PointRest(R, i + 1, j)
RealRest(R, i, j) == \E m \in i .. j : Run(R, i, m) /\ FloatRest(R, m, j)
RealAt(R, i, j) == \E m \in (i + 1) .. j : WholeAt(R, i, m) /\ FloatRest(R, m, j)

(* The second bytes of a UTF-8 sequence, in general and after its first byte. *)
Trailing == 128 .. 191
AfterE0 == 160 .. 191
AfterED == 128 .. 159
AfterF0 == 144 .. 191
AfterF4 == 128 .. 143

(* What R[k + 1] .. R[j] must be for the character or escape begun to end at j. *)
UnitLeft(q, R, k, j) ==
    \/ q = 36 /\ j = k + 1 /\ R[k + 1] \in Trailing
    \/ /\ q \in 37 .. 39 /\ j = k + 2 /\ R[k + 2] \in Trailing
       /\ R[k + 1] \in CASE q = 37 -> AfterE0 [] q = 38 -> Trailing [] q = 39 -> AfterED
    \/ /\ q \in 40 .. 42 /\ j = k + 3 /\ R[k + 2] \in Trailing /\ R[k + 3] \in Trailing
       /\ R[k + 1] \in CASE q = 40 -> AfterF0 [] q = 41 -> Trailing [] q = 42 -> AfterF4
    \/ q = 35 /\ j = k + 1 /\ R[k + 1] \in DOMAIN Escapes
    \/ /\ q = 35 /\ j = k + 5 /\ R[k + 1] = LowerU
       /\ \A x \in 2 .. 5 : R[k + x] \in HexDigit
    \/ q = 55 /\ j = k + 4 /\ \A x \in 1 .. 4 : R[k + x] \in HexDigit
    \/ q = 65 /\ j = k + 3 /\ \A x \in 1 .. 3 : R[k + x] \in HexDigit
    \/ q = 71 /\ j = k + 2 /\ \A x \in 1 .. 2 : R[k + x] \in HexDigit
    \/ q = 74 /\ j = k + 1 /\ R[k + 1] \in HexDigit

UnitsAt(R, i, e) ==
    \E inner \in SUBSET ((i + 1) .. (e - 1)) :
        LET cuts == inner \cup {i, e}
        IN  \A x \in cuts \ {e} :
                \E y \in cuts : x < y /\ Unit(SubSeq(R, x + 1, y))
ClosesAt(R, i, n) == i < n /\ R[n] = Quote /\ UnitsAt(R, i, n - 1)

InUnit == (35 .. 42) \cup {55, 65, 71, 74}

(* What R[k + 1] .. R[n] must be for the token T, after some of a word. *)
WordLeft(q, R, k, n, T) ==
    LET is(x, c) == R[k + x] = c
    IN  \/ /\ T = "literal_false"
           /\ \/ q = 23 /\ n = k + 4 /\ is(1, 97) /\ is(2, 108) /\ is(3, 115) /\ is(4, LowerE)
              \/ q = 52 /\ n = k + 3 /\ is(1, 108) /\ is(2, 115) /\ is(3, LowerE)
              \/ q = 62 /\ n = k + 2 /\ is(1, 115) /\ is(2, LowerE)
              \/ q = 66 /\ n = k + 1 /\ is(1, LowerE)
              \/ q = 72 /\ n = k
        \/ /\ T = "literal_null"
           /\ \/ q = 24 /\ n = k + 3 /\ is(1, LowerU) /\ is(2, 108) /\ is(3, 108)
              \/ q = 53 /\ n = k + 2 /\ is(1, 108) /\ is(2, 108)
              \/ q = 63 /\ n = k + 1 /\ is(1, 108)
              \/ q = 67 /\ n = k
        \/ /\ T = "literal_true"
           /\ \/ q = 25 /\ n = k + 3 /\ is(1, 114) /\ is(2, LowerU) /\ is(3, LowerE)
              \/ q = 54 /\ n = k + 2 /\ is(1, LowerU) /\ is(2, LowerE)
              \/ q = 64 /\ n = k + 1 /\ is(1, LowerE)
              \/ q = 69 /\ n = k

(* The same, within a string. *)
StringLeft(q, R, k, n, T) ==
    /\ T = "value_string"
    /\ \/ q = 33 /\ n = k
       \/ q \in {9, 30} /\ ClosesAt(R, k, n)
       \/ \E j \in (k + 1) .. (n - 1) : UnitLeft(q, R, k, j) /\ ClosesAt(R, j, n)

(* The labels within a literal word. *)
Words == (23 .. 25) \cup (52 .. 54) \cup (62 .. 64) \cup {66}

(* What R[k + 1] .. R[n] must be for the token T, after a number so far. *)
NumberLeft(q, R, k, n, T) ==
    \/ q = 12 /\ T = "value_integer" /\ WholeAt(R, k, n)
    \/ q = 12 /\ T = "value_float" /\ RealAt(R, k, n)
    \/ q = 13 /\ T = "value_unsigned" /\ n = k
    \/ q = 43 /\ T = "value_integer" /\ n = k
    \/ q = 15 /\ T = "value_unsigned" /\ Run(R, k, n)
    \/ q = 45 /\ T = "value_integer" /\ Run(R, k, n)
    \/ q \in {13, 43} /\ T = "value_float" /\ FloatRest(R, k, n)
    \/ q \in {15, 45} /\ T = "value_float" /\ RealRest(R, k, n)
    \/ q = 47 /\ T = "value_float" /\ PointRest(R, k, n)
    \/ q = 51 /\ T = "value_float" /\ ExponentRest(R, k, n)
    \/ q = 56 /\ T = "value_float" /\ DecimalsRest(R, k, n)
    \/ q = 59 /\ T = "value_float" /\ DigitsAt(R, k, n)
    \/ q = 60 /\ T = "value_float" /\ Run(R, k, n)

USE DEF Zero, Nine, Digit, Dot, UpperE, LowerE, LowerU, Plus, Minus, Quote

(* A character more of a number: what is left is left at the next label. *)
LEMMA StepNumber ==
    ASSUME NEW R, NEW k \in Nat, NEW n \in Nat, k < n,
           NEW q \in {12, 13, 15, 43, 45, 47, 51, 56, 59, 60},
           NEW c \in Byte, c = R[k + 1], q \in {13, 43} => c \notin Digit,
           NEW T
    PROVE  NumberLeft(q, R, k, n, T) <=>
              /\ Goto(q, c) \notin {5, 14, 32, 44, 58}
              /\ NumberLeft(Goto(q, c), R, k + 1, n, T)
<1> USE DEF Byte
<1>1. CASE q = 60
  <2>1. Goto(q, c) = IF c \in Digit THEN 60 ELSE 58
    BY <1>1 DEF Goto, ExponentDigits
  <2> QED
    BY <1>1, <2>1 DEF NumberLeft, Run
<1>2. CASE q = 59
  <2>1. Goto(q, c) = IF c \in Digit THEN 60 ELSE 32
    BY <1>2 DEF Goto, ExponentSign
  <2> QED
    BY <1>2, <2>1 DEF NumberLeft, Run, DigitsAt
<1>3. CASE q = 51
  <2>1. Goto(q, c) = IF c \in {Plus, Minus} THEN 59 ELSE IF c \in Digit THEN 60 ELSE 32
    BY <1>3 DEF Goto, Exponent
  <2> QED
    BY <1>3, <2>1 DEF NumberLeft, Run, DigitsAt, ExponentRest
<1>4. CASE q = 47
  <2>1. Goto(q, c) = IF c \in Digit THEN 56 ELSE 32
    BY <1>4 DEF Goto, Fraction
  <2> QED
    BY <1>4, <2>1 DEF NumberLeft, PointRest
<1>5. CASE q = 56
  <2>1. Goto(q, c) = IF c \in Digit THEN 56 ELSE IF c \in {UpperE, LowerE} THEN 51 ELSE 58
    BY <1>5 DEF Goto, AfterFraction
  <2> QED
    BY <1>5, <2>1 DEF NumberLeft, DecimalsRest, ExponentAt, Run
<1>6. CASE q \in {13, 43}
  <2>1. Goto(q, c) = IF c = Dot THEN 47 ELSE IF c \in {UpperE, LowerE} THEN 51
                     ELSE IF q = 13 THEN 14 ELSE 44
    BY <1>6 DEF Goto, AfterZero
  <2> QED
    BY <1>6, <2>1 DEF NumberLeft, FloatRest, ExponentAt
<1>7. CASE q \in {15, 45}
  <2>1. Goto(q, c) = IF c = Dot THEN 47 ELSE IF c \in Digit THEN q
                     ELSE IF c \in {UpperE, LowerE} THEN 51
                     ELSE IF q = 15 THEN 14 ELSE 44
    BY <1>7 DEF Goto, AfterDigit
  <2> QED
    BY <1>7, <2>1 DEF NumberLeft, Run, RealRest, FloatRest, ExponentAt
<1>8. CASE q = 12
  <2>1. Goto(q, c) = IF c = Zero THEN 43 ELSE IF c \in Digit THEN 45 ELSE 5
    BY <1>8 DEF Goto, AfterMinus
  <2> QED
    BY <1>8, <2>1 DEF NumberLeft, RealAt, WholeAt, DigitsAt, Run, RealRest, FloatRest, ExponentAt
<1> QED
  BY <1>1, <1>2, <1>3, <1>4, <1>5, <1>6, <1>7, <1>8

(* The same of a literal word. *)
LEMMA StepWord ==
    ASSUME NEW R, NEW k \in Nat, NEW n \in Nat, k < n,
           NEW q \in Words, NEW c \in Byte, c = R[k + 1], NEW T
    PROVE  WordLeft(q, R, k, n, T) <=>
              /\ Goto(q, c) \notin {5, 14, 32, 44, 58}
              /\ WordLeft(Goto(q, c), R, k + 1, n, T)
<1> USE DEF Byte
<1>1. CASE q \in 23 .. 25
  <2>1. Goto(q, c) = IF q = 23 /\ c = 97 THEN 52 ELSE IF q = 24 /\ c = LowerU THEN 53
                     ELSE IF q = 25 /\ c = 114 THEN 54 ELSE 5
    BY <1>1 DEF Goto, LiteralBegins
  <2> QED
    BY <1>1, <2>1 DEF WordLeft
<1>2. CASE q \in 52 .. 54
  <2>1. Goto(q, c) = IF q = 52 /\ c = 108 THEN 62 ELSE IF q = 53 /\ c = 108 THEN 63
                     ELSE IF q = 54 /\ c = LowerU THEN 64 ELSE 32
    BY <1>2 DEF Goto, LiteralSecond
  <2> QED
    BY <1>2, <2>1 DEF WordLeft
<1>3. CASE q \in 62 .. 64
  <2>1. Goto(q, c) = IF q = 62 /\ c = 115 THEN 66 ELSE IF q = 63 /\ c = 108 THEN 67
                     ELSE IF q = 64 /\ c = LowerE THEN 69 ELSE 32
    BY <1>3 DEF Goto, LiteralThird
  <2> QED
    BY <1>3, <2>1 DEF WordLeft
<1>4. CASE q = 66
  <2>1. Goto(q, c) = IF c = LowerE THEN 72 ELSE 32
    BY <1>4 DEF Goto, LiteralFourth
  <2> QED
    BY <1>4, <2>1 DEF WordLeft
<1> QED
  BY <1>1, <1>2, <1>3, <1>4 DEF Words

(* The same of a character or escape of a string. *)
LEMMA StepUnit ==
    ASSUME NEW R, NEW k \in Nat, NEW j \in Nat, k < j,
           NEW q \in InUnit, NEW c \in Byte, c = R[k + 1]
    PROVE  UnitLeft(q, R, k, j) <=>
              \/ j = k + 1 /\ Goto(q, c) = 30
              \/ Goto(q, c) \in InUnit /\ UnitLeft(Goto(q, c), R, k + 1, j)
<1> USE DEF Byte, Trailing, AfterE0, AfterED, AfterF0, AfterF4, InUnit
<1>1. CASE q = 35
  <2>2. LowerU \notin DOMAIN Escapes
    BY DEF Escapes, Slash, Backslash
  <2>1. Goto(q, c) = IF c \in DOMAIN Escapes THEN 30 ELSE IF c = LowerU THEN 55 ELSE 32
    <3>1. Goto(q, c) = AfterEscape(c)
      BY <1>1 DEF Goto
    <3> QED
      BY <3>1, <2>2 DEF AfterEscape
  <2>3. UnitLeft(q, R, k, j) <=>
           \/ j = k + 1 /\ c \in DOMAIN Escapes
           \/ j = k + 5 /\ c = LowerU /\ \A x \in 2 .. 5 : R[k + x] \in HexDigit
    BY <1>1 DEF UnitLeft
  <2>4. UnitLeft(55, R, k + 1, j) <=>
           j = k + 5 /\ \A x \in 1 .. 4 : R[(k + 1) + x] \in HexDigit
    BY DEF UnitLeft
  <2>5. (\A x \in 2 .. 5 : R[k + x] \in HexDigit)
          <=> \A x \in 1 .. 4 : R[(k + 1) + x] \in HexDigit
    <3>1. \A x \in 1 .. 4 : (k + 1) + x = k + (x + 1) /\ x + 1 \in 2 .. 5
      OBVIOUS
    <3>2. \A x \in 2 .. 5 : k + x = (k + 1) + (x - 1) /\ x - 1 \in 1 .. 4
      OBVIOUS
    <3> QED
      BY <3>1, <3>2
  <2> QED
    BY <2>1, <2>2, <2>3, <2>4, <2>5
<1>2. CASE q = 36
  <2>1. Goto(q, c) = IF c \in Trailing THEN 30 ELSE 32
    BY <1>2 DEF Goto, Utf8
  <2> QED
    BY <1>2, <2>1 DEF UnitLeft
<1>3. CASE q \in 37 .. 39
  <2>1. Goto(q, c) = IF c \in CASE q = 37 -> AfterE0 [] q = 38 -> Trailing [] q = 39 -> AfterED
                     THEN 36 ELSE 32
    BY <1>3 DEF Goto, Utf8
  <2> QED
    BY <1>3, <2>1 DEF UnitLeft
<1>4. CASE q \in 40 .. 42
  <2>1. Goto(q, c) = IF c \in CASE q = 40 -> AfterF0 [] q = 41 -> Trailing [] q = 42 -> AfterF4
                     THEN 38 ELSE 32
    BY <1>4 DEF Goto, Utf8
  <2> QED
    BY <1>4, <2>1 DEF UnitLeft
<1>5. CASE q = 55
  <2>1. Goto(q, c) = IF c \in HexDigit THEN 65 ELSE 32
    BY <1>5 DEF Goto, Hex1
  <2> QED
    BY <1>5, <2>1 DEF UnitLeft
<1>6. CASE q = 65
  <2>1. Goto(q, c) = IF c \in HexDigit THEN 71 ELSE 32
    BY <1>6 DEF Goto, Hex2
  <2> QED
    BY <1>6, <2>1 DEF UnitLeft
<1>7. CASE q = 71
  <2>1. Goto(q, c) = IF c \in HexDigit THEN 74 ELSE 32
    BY <1>7 DEF Goto, Hex3
  <2> QED
    BY <1>7, <2>1 DEF UnitLeft
<1>8. CASE q = 74
  <2>1. Goto(q, c) = IF c \in HexDigit THEN 30 ELSE 32
    BY <1>8 DEF Goto, HexLast
  <2> QED
    BY <1>8, <2>1 DEF UnitLeft
<1> QED
  BY <1>1, <1>2, <1>3, <1>4, <1>5, <1>6, <1>7, <1>8

(* The units of a string are its first one and those after it. *)
LEMMA UnitsUnfold ==
    ASSUME NEW R, NEW i \in Nat, NEW e \in Nat, i <= e
    PROVE  UnitsAt(R, i, e) <=>
              i = e \/ \E j \in (i + 1) .. e : Unit(SubSeq(R, i + 1, j)) /\ UnitsAt(R, j, e)
<1>1. ASSUME UnitsAt(R, i, e), i # e
      PROVE  \E j \in (i + 1) .. e : Unit(SubSeq(R, i + 1, j)) /\ UnitsAt(R, j, e)
  <2>1. PICK inner \in SUBSET ((i + 1) .. (e - 1)) :
             \A x \in (inner \cup {i, e}) \ {e} :
                \E y \in inner \cup {i, e} : x < y /\ Unit(SubSeq(R, x + 1, y))
    BY <1>1 DEF UnitsAt
  <2>2. PICK j \in inner \cup {i, e} : i < j /\ Unit(SubSeq(R, i + 1, j))
    BY <2>1, <1>1
  <2>3. j \in (i + 1) .. e
    BY <2>2
  <2> DEFINE later == {x \in inner : j < x}
  <2>4. later \in SUBSET ((j + 1) .. (e - 1))
    <3>1. ASSUME NEW x \in later PROVE x \in (j + 1) .. (e - 1)
      <4>1. x \in (i + 1) .. (e - 1) /\ j < x
        BY <3>1
      <4> QED
        BY <4>1, <2>3
    <3> QED
      BY <3>1
  <2>5. ASSUME NEW x \in (later \cup {j, e}) \ {e}
        PROVE  \E y \in later \cup {j, e} : x < y /\ Unit(SubSeq(R, x + 1, y))
    <3>1. x \in (inner \cup {i, e}) \ {e} /\ j <= x /\ x \in Nat
      BY <2>2, <2>3, <2>5
    <3>2. PICK y \in inner \cup {i, e} : x < y /\ Unit(SubSeq(R, x + 1, y))
      BY <2>1, <3>1
    <3>3. y \in later \cup {j, e}
      BY <2>3, <3>1, <3>2
    <3> QED
      BY <3>2, <3>3
  <2>6. UnitsAt(R, j, e)
    BY <2>4, <2>5 DEF UnitsAt
  <2> QED
    BY <2>2, <2>3, <2>6
<1>2. ASSUME i = e PROVE UnitsAt(R, i, e)
  <2>1. {} \in SUBSET ((i + 1) .. (e - 1))
    OBVIOUS
  <2>2. ({} \cup {i, e}) \ {e} = {}
    BY <1>2
  <2> QED
    BY <2>1, <2>2 DEF UnitsAt
<1>3. ASSUME NEW j \in (i + 1) .. e, Unit(SubSeq(R, i + 1, j)), UnitsAt(R, j, e)
      PROVE  UnitsAt(R, i, e)
  <2>1. PICK inner \in SUBSET ((j + 1) .. (e - 1)) :
             \A x \in (inner \cup {j, e}) \ {e} :
                \E y \in inner \cup {j, e} : x < y /\ Unit(SubSeq(R, x + 1, y))
    BY <1>3 DEF UnitsAt
  <2> DEFINE more == (inner \cup {j}) \ {e}
  <2>2. more \in SUBSET ((i + 1) .. (e - 1))
    BY <1>3
  <2>3. ASSUME NEW x \in (more \cup {i, e}) \ {e}
        PROVE  \E y \in more \cup {i, e} : x < y /\ Unit(SubSeq(R, x + 1, y))
    <3>1. CASE x = i
      BY <3>1, <1>3
    <3>2. CASE x # i
      <4>1. PICK y \in inner \cup {j, e} : x < y /\ Unit(SubSeq(R, x + 1, y))
        BY <2>1, <2>3, <3>2
      <4> QED
        BY <4>1
    <3> QED
      BY <3>1, <3>2
  <2> QED
    BY <2>2, <2>3 DEF UnitsAt
<1> QED
  BY <1>1, <1>2, <1>3

(* The label a string is at after one of its characters, by cases. *)
StringLabel(c) ==
    IF c \in Plain THEN 30 ELSE IF c = Quote THEN 33 ELSE IF c = Backslash THEN 35
    ELSE IF c \in 194 .. 223 THEN 36
    ELSE IF c = 224 THEN 37 ELSE IF c = 237 THEN 39 ELSE IF c \in 225 .. 239 THEN 38
    ELSE IF c = 240 THEN 40 ELSE IF c = 244 THEN 42 ELSE IF c \in 241 .. 243 THEN 41
    ELSE 32

(* It is the one the code goes to. *)
LEMMA InStringIs == \A c \in 1 .. 255 : InString(c) = StringLabel(c)
  BY DEF InString, Plain, Backslash, StringLabel

(* s is what R has from its k-th byte on. *)
Agrees(s, R, k, n) ==
    /\ n >= 2 => s[2] = R[k + 1]
    /\ n >= 3 => s[3] = R[k + 2]
    /\ n >= 4 => s[4] = R[k + 3]
    /\ n = 6 => ((\A x \in 2 .. 5 : R[k + x] \in HexDigit)
                   <=> \A x \in 3 .. 6 : s[x] \in HexDigit)

(* What the scanner lets follow c, the k-th byte, as a character or escape of n. *)
UnitFound(R, k, n, c) ==
    \/ n = 1 /\ c \in Plain
    \/ InString(c) \in InUnit /\ UnitLeft(InString(c), R, k, k - 1 + n)

LEMMA UnitStarts ==
    ASSUME NEW s, NEW R, NEW k \in Nat, NEW n \in Nat, Len(s) = n,
           NEW c \in 1 .. 255, s[1] = c,
           Agrees(s, R, k, n)
    PROVE  Unit(s) <=> UnitFound(R, k, n, c)
<1> DEFINE j == k - 1 + n
<1>1. InString(c) = StringLabel(c)
  BY InStringIs
<1>2. Unit(s) <=> Character(s) \/ ByLetter(s) \/ ByCode(s)
  BY DEF Unit
<1>3. c # Backslash => ~ByLetter(s) /\ ~ByCode(s)
  BY DEF ByLetter, ByCode
<1>4. Character(s) <=>
        \/ n = 1 /\ c \in Plain
        \/ n = 2 /\ c \in 194 .. 223 /\ s[2] \in Trailing
        \/ n = 3 /\ c = 224 /\ s[2] \in AfterE0 /\ s[3] \in Trailing
        \/ n = 3 /\ c \in (225 .. 239) \ {237} /\ s[2] \in Trailing /\ s[3] \in Trailing
        \/ n = 3 /\ c = 237 /\ s[2] \in AfterED /\ s[3] \in Trailing
        \/ n = 4 /\ c = 240 /\ s[2] \in AfterF0 /\ s[3] \in Trailing /\ s[4] \in Trailing
        \/ n = 4 /\ c \in 241 .. 243 /\ s[2] \in Trailing /\ s[3] \in Trailing /\ s[4] \in Trailing
        \/ n = 4 /\ c = 244 /\ s[2] \in AfterF4 /\ s[3] \in Trailing /\ s[4] \in Trailing
  <2>1. CASE n = 1
    BY <2>1 DEF Character, Plain
  <2>2. CASE n = 2
    BY <2>2 DEF Character, Trailing, AfterE0, AfterED, AfterF0, AfterF4
  <2>3. CASE n = 3
    BY <2>3 DEF Character, Trailing, AfterE0, AfterED, AfterF0, AfterF4
  <2>4. CASE n = 4
    BY <2>4 DEF Character, Trailing, AfterE0, AfterED, AfterF0, AfterF4
  <2>5. CASE n \notin 1 .. 4
    BY <2>5 DEF Character
  <2> QED
    BY <2>1, <2>2, <2>3, <2>4, <2>5
<1>5. c \in Int
  OBVIOUS
<1>6. CASE c \in Plain
  <2>1. InString(c) = 30
    BY <1>1, <1>6 DEF StringLabel
  <2>2. c # Backslash /\ c \notin 194 .. 244
    BY <1>6 DEF Plain, Backslash
  <2>3. Unit(s) <=> n = 1
    BY <1>2, <1>3, <1>4, <1>6, <2>2
  <2> QED
    BY <1>6, <2>1, <2>3 DEF UnitFound, InUnit
<1>7. CASE c = Backslash
  <2>1. c \notin Plain /\ c # Quote /\ c \notin 194 .. 244
    BY <1>7 DEF Plain, Backslash
  <2>2. InString(c) = 35
    BY <1>1, <1>7, <2>1 DEF StringLabel
  <2>3. ~Character(s)
    BY <1>4, <2>1
  <2>4. ByLetter(s) <=> n = 2 /\ R[k + 1] \in DOMAIN Escapes
    BY <1>7 DEF ByLetter, Agrees
  <2>5. ByCode(s) <=> n = 6 /\ R[k + 1] = LowerU /\ \A x \in 2 .. 5 : R[k + x] \in HexDigit
    BY <1>7 DEF ByCode, Agrees
  <2>6. UnitLeft(35, R, k, j) <=>
           \/ n = 2 /\ R[k + 1] \in DOMAIN Escapes
           \/ n = 6 /\ R[k + 1] = LowerU /\ \A x \in 2 .. 5 : R[k + x] \in HexDigit
    BY DEF UnitLeft
  <2> QED
    BY <1>2, <2>1, <2>2, <2>3, <2>4, <2>5, <2>6 DEF UnitFound, InUnit
<1>8. CASE c \in 194 .. 223
  <2>1. c \notin Plain /\ c # Quote /\ c # Backslash
    BY <1>8 DEF Plain, Backslash
  <2>2. InString(c) = 36
    BY <1>1, <1>8, <2>1 DEF StringLabel
  <2>3. Unit(s) <=> n = 2 /\ s[2] \in Trailing
    BY <1>2, <1>3, <1>4, <1>8, <2>1
  <2>4. UnitLeft(36, R, k, j) <=> n = 2 /\ R[k + 1] \in Trailing
    BY DEF UnitLeft
  <2>5. UnitFound(R, k, n, c) <=> UnitLeft(36, R, k, j)
    BY <2>1, <2>2 DEF UnitFound, InUnit
  <2>6. n = 2 => s[2] = R[k + 1]
    BY DEF Agrees
  <2> QED
    BY <2>3, <2>4, <2>5, <2>6
<1>9. CASE c = 224
  <2>1. c \notin Plain /\ c # Quote /\ c # Backslash
    BY <1>9 DEF Plain, Backslash
  <2>2. InString(c) = 37
    BY <1>1, <1>9, <2>1 DEF StringLabel
  <2>3. Unit(s) <=> n = 3 /\ s[2] \in AfterE0 /\ s[3] \in Trailing
    BY <1>2, <1>3, <1>4, <1>9, <2>1
  <2>4. UnitLeft(37, R, k, j) <=> n = 3 /\ R[k + 1] \in AfterE0 /\ R[k + 2] \in Trailing
    BY DEF UnitLeft
  <2>5. UnitFound(R, k, n, c) <=> UnitLeft(37, R, k, j)
    BY <2>1, <2>2 DEF UnitFound, InUnit
  <2>6. n = 3 => s[2] = R[k + 1] /\ s[3] = R[k + 2]
    BY DEF Agrees
  <2> QED
    BY <2>3, <2>4, <2>5, <2>6
<1>10. CASE c = 237
  <2>1. c \notin Plain /\ c # Quote /\ c # Backslash
    BY <1>10 DEF Plain, Backslash
  <2>2. InString(c) = 39
    BY <1>1, <1>10, <2>1 DEF StringLabel
  <2>3. Unit(s) <=> n = 3 /\ s[2] \in AfterED /\ s[3] \in Trailing
    BY <1>2, <1>3, <1>4, <1>10, <2>1
  <2>4. UnitLeft(39, R, k, j) <=> n = 3 /\ R[k + 1] \in AfterED /\ R[k + 2] \in Trailing
    BY DEF UnitLeft
  <2>5. UnitFound(R, k, n, c) <=> UnitLeft(39, R, k, j)
    BY <2>1, <2>2 DEF UnitFound, InUnit
  <2>6. n = 3 => s[2] = R[k + 1] /\ s[3] = R[k + 2]
    BY DEF Agrees
  <2> QED
    BY <2>3, <2>4, <2>5, <2>6
<1>11. CASE c \in (225 .. 239) \ {237}
  <2>1. c \notin Plain /\ c # Quote /\ c # Backslash
    BY <1>11 DEF Plain, Backslash
  <2>2. InString(c) = 38
    BY <1>1, <1>11, <2>1 DEF StringLabel
  <2>3. Unit(s) <=> n = 3 /\ s[2] \in Trailing /\ s[3] \in Trailing
    BY <1>2, <1>3, <1>4, <1>11, <2>1
  <2>4. UnitLeft(38, R, k, j) <=> n = 3 /\ R[k + 1] \in Trailing /\ R[k + 2] \in Trailing
    BY DEF UnitLeft
  <2>5. UnitFound(R, k, n, c) <=> UnitLeft(38, R, k, j)
    BY <2>1, <2>2 DEF UnitFound, InUnit
  <2>6. n = 3 => s[2] = R[k + 1] /\ s[3] = R[k + 2]
    BY DEF Agrees
  <2> QED
    BY <2>3, <2>4, <2>5, <2>6
<1>12. CASE c = 240
  <2>1. c \notin Plain /\ c # Quote /\ c # Backslash
    BY <1>12 DEF Plain, Backslash
  <2>2. InString(c) = 40
    BY <1>1, <1>12, <2>1 DEF StringLabel
  <2>3. Unit(s) <=> n = 4 /\ s[2] \in AfterF0 /\ s[3] \in Trailing /\ s[4] \in Trailing
    BY <1>2, <1>3, <1>4, <1>12, <2>1
  <2>4. UnitLeft(40, R, k, j) <=> n = 4 /\ R[k + 1] \in AfterF0 /\ R[k + 2] \in Trailing /\ R[k + 3] \in Trailing
    BY DEF UnitLeft
  <2>5. UnitFound(R, k, n, c) <=> UnitLeft(40, R, k, j)
    BY <2>1, <2>2 DEF UnitFound, InUnit
  <2>6. n = 4 => s[2] = R[k + 1] /\ s[3] = R[k + 2] /\ s[4] = R[k + 3]
    BY DEF Agrees
  <2> QED
    BY <2>3, <2>4, <2>5, <2>6
<1>13. CASE c \in 241 .. 243
  <2>1. c \notin Plain /\ c # Quote /\ c # Backslash
    BY <1>13 DEF Plain, Backslash
  <2>2. InString(c) = 41
    BY <1>1, <1>13, <2>1 DEF StringLabel
  <2>3. Unit(s) <=> n = 4 /\ s[2] \in Trailing /\ s[3] \in Trailing /\ s[4] \in Trailing
    BY <1>2, <1>3, <1>4, <1>13, <2>1
  <2>4. UnitLeft(41, R, k, j) <=> n = 4 /\ R[k + 1] \in Trailing /\ R[k + 2] \in Trailing /\ R[k + 3] \in Trailing
    BY DEF UnitLeft
  <2>5. UnitFound(R, k, n, c) <=> UnitLeft(41, R, k, j)
    BY <2>1, <2>2 DEF UnitFound, InUnit
  <2>6. n = 4 => s[2] = R[k + 1] /\ s[3] = R[k + 2] /\ s[4] = R[k + 3]
    BY DEF Agrees
  <2> QED
    BY <2>3, <2>4, <2>5, <2>6
<1>14. CASE c = 244
  <2>1. c \notin Plain /\ c # Quote /\ c # Backslash
    BY <1>14 DEF Plain, Backslash
  <2>2. InString(c) = 42
    BY <1>1, <1>14, <2>1 DEF StringLabel
  <2>3. Unit(s) <=> n = 4 /\ s[2] \in AfterF4 /\ s[3] \in Trailing /\ s[4] \in Trailing
    BY <1>2, <1>3, <1>4, <1>14, <2>1
  <2>4. UnitLeft(42, R, k, j) <=> n = 4 /\ R[k + 1] \in AfterF4 /\ R[k + 2] \in Trailing /\ R[k + 3] \in Trailing
    BY DEF UnitLeft
  <2>5. UnitFound(R, k, n, c) <=> UnitLeft(42, R, k, j)
    BY <2>1, <2>2 DEF UnitFound, InUnit
  <2>6. n = 4 => s[2] = R[k + 1] /\ s[3] = R[k + 2] /\ s[4] = R[k + 3]
    BY DEF Agrees
  <2> QED
    BY <2>3, <2>4, <2>5, <2>6
<1>15. CASE c \notin Plain \cup {Backslash} \cup (194 .. 244)
  <2>1. InString(c) \in {32, 33}
    BY <1>1, <1>15 DEF StringLabel, Plain
  <2>2. ~Unit(s)
    BY <1>2, <1>3, <1>4, <1>15
  <2> QED
    BY <1>15, <2>1, <2>2, SMTT(30) DEF UnitFound, InUnit
<1> QED
  BY <1>5, <1>6, <1>7, <1>8, <1>9, <1>10, <1>11, <1>12, <1>13, <1>14, <1>15, SMTT(30)

(* A character or an escape is what the scanner finds from its first byte on. *)
LEMMA UnitBegins ==
    ASSUME NEW R \in Seq(1 .. 255), NEW i \in Nat, NEW j \in Nat, i < j, j <= Len(R),
           NEW c, c = R[i + 1]
    PROVE  /\ c \in 1 .. 255
           /\ Unit(SubSeq(R, i + 1, j)) <=>
                \/ j = i + 1 /\ c \in Plain
                \/ InString(c) \in InUnit /\ UnitLeft(InString(c), R, i + 1, j)
<1> DEFINE s == SubSeq(R, i + 1, j)
<1>1. Len(R) \in Nat
  OBVIOUS
<1>2. i + 1 \in 1 .. Len(R) /\ j \in 1 .. Len(R)
  BY <1>1
<1>3. Len(s) = j - i /\ \A x \in 1 .. (j - i) : s[x] = R[i + x]
  <2>1. Len(s) = (IF i + 1 <= j THEN j - (i + 1) + 1 ELSE 0)
    BY <1>2, SubSeqProperties
  <2>2. \A x \in 1 .. (j - (i + 1) + 1) : s[x] = R[(i + 1) + x - 1]
    BY <1>2, SubSeqProperties
  <2>3. \A x \in 1 .. (j - i) : (i + 1) + x - 1 = i + x
    OBVIOUS
  <2> QED
    BY <2>1, <2>2, <2>3
<1>4. c \in 1 .. 255
  BY <1>2, ElementOfSeq
<1> PICK n \in Nat : n = j - i
  BY <1>1
<1>5. /\ Len(s) = n /\ n >= 1 /\ s[1] = c
      /\ n >= 2 => s[2] = R[(i + 1) + 1]
      /\ n >= 3 => s[3] = R[(i + 1) + 2]
      /\ n >= 4 => s[4] = R[(i + 1) + 3]
      /\ n = 6 => \A x \in 3 .. 6 : s[x] = R[(i + 1) + (x - 1)]
  BY <1>3
<1> HIDE DEF s
<1>6. n = 6 => ((\A x \in 2 .. 5 : R[(i + 1) + x] \in HexDigit)
                  <=> \A x \in 3 .. 6 : s[x] \in HexDigit)
  <2>1. \A x \in 3 .. 6 : x - 1 \in 2 .. 5
    OBVIOUS
  <2>2. \A x \in 2 .. 5 : x = (x + 1) - 1 /\ x + 1 \in 3 .. 6
    OBVIOUS
  <2> QED
    BY <1>5, <2>1, <2>2
<1>7. Agrees(s, R, i + 1, n)
  BY <1>5, <1>6 DEF Agrees
<1>9. Unit(s) <=> UnitFound(R, i + 1, n, c)
  <2>1. i + 1 \in Nat
    OBVIOUS
  <2> QED
    BY <2>1, <1>4, <1>5, <1>7, UnitStarts, ZenonT(30)
<1>8. (i + 1) - 1 + n = j /\ (n = 1 <=> j = i + 1)
  OBVIOUS
<1> QED
  BY <1>4, <1>8, <1>9 DEF UnitFound, s

(* The string ends at the next quote that is no part of a unit. *)
LEMMA ClosesUnfold ==
    ASSUME NEW R \in Seq(1 .. 255), NEW k \in Nat, NEW n \in Nat, k < n, n <= Len(R),
           NEW c, c = R[k + 1]
    PROVE  /\ c \in 1 .. 255
           /\ c = Quote => (ClosesAt(R, k, n) <=> n = k + 1)
           /\ c # Quote =>
                (ClosesAt(R, k, n) <=>
                   \/ c \in Plain /\ ClosesAt(R, k + 1, n)
                   \/ /\ InString(c) \in InUnit
                      /\ \E j \in (k + 2) .. (n - 1) :
                            UnitLeft(InString(c), R, k + 1, j) /\ ClosesAt(R, j, n))
<1>1. Len(R) \in Nat /\ n - 1 \in Nat /\ k <= n - 1
  OBVIOUS
<1>2. c \in 1 .. 255 /\ InString(c) = StringLabel(c)
  <2>1. k + 1 \in 1 .. Len(R)
    BY <1>1
  <2>2. c \in 1 .. 255
    BY <2>1, ElementOfSeq
  <2> QED
    BY <2>2, InStringIs
<1> DEFINE Starts(j) == \/ j = k + 1 /\ c \in Plain
                        \/ InString(c) \in InUnit /\ UnitLeft(InString(c), R, k + 1, j)
<1>3. \A j \in (k + 1) .. (n - 1) : Unit(SubSeq(R, k + 1, j)) <=> Starts(j)
  <2> SUFFICES ASSUME NEW j \in (k + 1) .. (n - 1)
               PROVE  Unit(SubSeq(R, k + 1, j)) <=> Starts(j)
    OBVIOUS
  <2>1. j \in Nat /\ k < j /\ j <= Len(R)
    BY <1>1
  <2> QED
    BY <2>1, UnitBegins
<1>4. UnitsAt(R, k, n - 1) <=>
        k = n - 1 \/ \E j \in (k + 1) .. (n - 1) : Starts(j) /\ UnitsAt(R, j, n - 1)
  BY <1>1, <1>3, UnitsUnfold
<1>5. ASSUME c = Quote PROVE ClosesAt(R, k, n) <=> n = k + 1
  <2>1. c \notin Plain /\ InString(c) \notin InUnit
    BY <1>2, <1>5 DEF StringLabel, Plain, InUnit
  <2>2. UnitsAt(R, k, n - 1) <=> k = n - 1
    BY <1>4, <2>1
  <2>3. k = n - 1 <=> n = k + 1
    OBVIOUS
  <2> QED
    BY <1>5, <2>2, <2>3 DEF ClosesAt
<1>6. ASSUME c # Quote
      PROVE  ClosesAt(R, k, n) <=>
                \/ c \in Plain /\ ClosesAt(R, k + 1, n)
                \/ /\ InString(c) \in InUnit
                   /\ \E j \in (k + 2) .. (n - 1) :
                         UnitLeft(InString(c), R, k + 1, j) /\ ClosesAt(R, j, n)
  <2>1. R[n] = Quote => n # k + 1
    BY <1>6
  <2>2. \A j \in (k + 1) .. (n - 1) : UnitLeft(InString(c), R, k + 1, j) => j >= k + 2
    BY SMTT(30) DEF UnitLeft
  <2>3. \A j \in (k + 1) .. (n - 1) : ClosesAt(R, j, n) <=> R[n] = Quote /\ UnitsAt(R, j, n - 1)
    BY DEF ClosesAt
  <2>4. ClosesAt(R, k + 1, n) <=> n > k + 1 /\ R[n] = Quote /\ UnitsAt(R, k + 1, n - 1)
    BY DEF ClosesAt
  <2>5. c \in Plain => InString(c) \notin InUnit
    BY <1>2 DEF StringLabel, InUnit
  <2>6. ClosesAt(R, k, n) <=>
           R[n] = Quote /\ \E j \in (k + 1) .. (n - 1) : Starts(j) /\ UnitsAt(R, j, n - 1)
    BY <1>4, <2>1 DEF ClosesAt
  <2> QED
    BY <2>1, <2>2, <2>3, <2>4, <2>5, <2>6
<1> QED
  BY <1>2, <1>5, <1>6

(* A character more of a string. *)
LEMMA StepString ==
    ASSUME NEW R \in Seq(1 .. 255), NEW k \in Nat, NEW n \in Nat, k < n, n <= Len(R),
           NEW q \in {9, 30} \cup InUnit, NEW c \in Byte, c = R[k + 1], NEW T
    PROVE  StringLeft(q, R, k, n, T) <=>
              /\ Goto(q, c) \notin {5, 14, 32, 44, 58}
              /\ StringLeft(Goto(q, c), R, k + 1, n, T)
<1> USE DEF InUnit
<1>1. CASE q \in InUnit
  <2>1. Goto(q, c) \in {30, 32} \cup InUnit
    <3>1. CASE q = 35
      BY <3>1 DEF Goto, AfterEscape
    <3>2. CASE q \in 36 .. 42
      <4>1. CASE q = 36
        BY <4>1 DEF Goto, Utf8
      <4>2. CASE q = 37
        BY <4>2 DEF Goto, Utf8
      <4>3. CASE q = 38
        BY <4>3 DEF Goto, Utf8
      <4>4. CASE q = 39
        BY <4>4 DEF Goto, Utf8
      <4>5. CASE q = 40
        BY <4>5 DEF Goto, Utf8
      <4>6. CASE q = 41
        BY <4>6 DEF Goto, Utf8
      <4>7. CASE q = 42
        BY <4>7 DEF Goto, Utf8
      <4> QED
        BY <3>2, <4>1, <4>2, <4>3, <4>4, <4>5, <4>6, <4>7
    <3>3. CASE q \in {55, 65, 71, 74}
      BY <3>3, SMTT(30) DEF Goto, Hex1, Hex2, Hex3, HexLast
    <3> QED
      BY <1>1, <3>1, <3>2, <3>3
  <2>2. \A j \in (k + 1) .. (n - 1) :
           UnitLeft(q, R, k, j) <=>
              \/ j = k + 1 /\ Goto(q, c) = 30
              \/ Goto(q, c) \in InUnit /\ UnitLeft(Goto(q, c), R, k + 1, j)
    <3> SUFFICES ASSUME NEW j \in (k + 1) .. (n - 1)
                 PROVE  UnitLeft(q, R, k, j) <=>
                          \/ j = k + 1 /\ Goto(q, c) = 30
                          \/ Goto(q, c) \in InUnit /\ UnitLeft(Goto(q, c), R, k + 1, j)
      OBVIOUS
    <3>1. j \in Nat /\ k < j
      OBVIOUS
    <3> HIDE DEF InUnit
    <3> QED
      BY <3>1, <1>1, StepUnit
  <2>3. \A j \in Nat : UnitLeft(Goto(q, c), R, k + 1, j) => j >= k + 2
    BY SMTT(30) DEF UnitLeft
  <2>4. StringLeft(q, R, k, n, T) <=>
           /\ T = "value_string"
           /\ \E j \in (k + 1) .. (n - 1) : UnitLeft(q, R, k, j) /\ ClosesAt(R, j, n)
    BY <1>1 DEF StringLeft
  <2>5. CASE Goto(q, c) = 30
    <3>1. \A j \in Nat : ~UnitLeft(30, R, k + 1, j)
      BY DEF UnitLeft
    <3>2. StringLeft(30, R, k + 1, n, T) <=> T = "value_string" /\ ClosesAt(R, k + 1, n)
      BY <3>1 DEF StringLeft
    <3>3. ClosesAt(R, k + 1, n) => k + 1 \in (k + 1) .. (n - 1)
      BY DEF ClosesAt
    <3> QED
      BY <2>2, <2>4, <2>5, <3>1, <3>2, <3>3
  <2>6. CASE Goto(q, c) = 32
    BY <2>2, <2>4, <2>6
  <2>7. CASE Goto(q, c) \in InUnit
    <3>1. StringLeft(Goto(q, c), R, k + 1, n, T) <=>
             /\ T = "value_string"
             /\ \E j \in (k + 2) .. (n - 1) :
                   UnitLeft(Goto(q, c), R, k + 1, j) /\ ClosesAt(R, j, n)
      BY <2>7, SMTT(30) DEF StringLeft
    <3>2. Goto(q, c) \notin {5, 14, 30, 32, 44, 58}
      <4>1. \A x \in InUnit : x \notin {5, 14, 30, 32, 44, 58}
        OBVIOUS
      <4> HIDE DEF InUnit
      <4> QED
        BY <2>7, <4>1
    <3> HIDE DEF InUnit
    <3> QED
      BY <2>2, <2>3, <2>4, <2>7, <3>1, <3>2
  <2> QED
    BY <2>1, <2>5, <2>6, <2>7
<1>2. CASE q \in {9, 30}
  <2>1. \A j \in Nat : ~UnitLeft(q, R, k, j)
    <3>1. CASE q = 9
      BY <3>1 DEF UnitLeft
    <3>2. CASE q = 30
      BY <3>2 DEF UnitLeft
    <3> QED
      BY <1>2, <3>1, <3>2
  <2>2. StringLeft(q, R, k, n, T) <=> T = "value_string" /\ ClosesAt(R, k, n)
    BY <1>2, <2>1 DEF StringLeft
  <2>3. /\ c \in 1 .. 255
        /\ c = Quote => (ClosesAt(R, k, n) <=> n = k + 1)
        /\ c # Quote =>
             (ClosesAt(R, k, n) <=>
                \/ c \in Plain /\ ClosesAt(R, k + 1, n)
                \/ /\ InString(c) \in InUnit
                   /\ \E j \in (k + 2) .. (n - 1) :
                         UnitLeft(InString(c), R, k + 1, j) /\ ClosesAt(R, j, n))
    <3> HIDE DEF InUnit
    <3> QED
      BY ClosesUnfold
  <2>9. c \in 1 .. 255 /\ InString(c) = StringLabel(c)
    BY <2>3, InStringIs
  <2>4. \/ Goto(q, c) = InString(c)
        \/ Goto(q, c) = 5 /\ InString(c) = 32
    <3>1. c \notin (32 .. 127) \cup (194 .. 244) => StringLabel(c) = 32
      BY <2>9 DEF StringLabel, Plain, Backslash
    <3>2. CASE q = 9
      <4>1. Goto(q, c) = StringOpen(c)
        BY <3>2 DEF Goto
      <4> QED
        BY <2>9, <3>1, <4>1 DEF StringOpen
    <3>3. CASE q = 30
      BY <3>3 DEF Goto
    <3> QED
      BY <1>2, <3>2, <3>3
  <2>5. CASE c = Quote
    <3>1. Goto(q, c) = 33
      BY <2>9, <2>4, <2>5 DEF StringLabel, Plain
    <3>2. StringLeft(33, R, k + 1, n, T) <=> T = "value_string" /\ n = k + 1
      BY DEF StringLeft, UnitLeft
    <3> QED
      BY <2>2, <2>5, <3>1, <3>2, <2>3
  <2>6. CASE c \in Plain
    <3>1. InString(c) = 30 /\ c # Quote
      BY <2>9, <2>6 DEF StringLabel, Plain
    <3>2. \A j \in Nat : ~UnitLeft(30, R, k + 1, j)
      BY DEF UnitLeft
    <3>3. StringLeft(30, R, k + 1, n, T) <=> T = "value_string" /\ ClosesAt(R, k + 1, n)
      BY <3>2 DEF StringLeft
    <3> QED
      BY <2>2, <2>4, <2>6, <3>1, <3>3, <2>3
  <2>7. CASE InString(c) \in InUnit
    <3>3. InString(c) \notin {5, 14, 30, 32, 33, 44, 58}
      <4>1. \A x \in InUnit : x \notin {5, 14, 30, 32, 33, 44, 58}
        OBVIOUS
      <4> HIDE DEF InUnit
      <4> QED
        BY <2>7, <4>1
    <3>1. c # Quote /\ c \notin Plain /\ Goto(q, c) = InString(c)
      BY <2>9, <2>4, <3>3 DEF StringLabel
    <3>2. StringLeft(InString(c), R, k + 1, n, T) <=>
             /\ T = "value_string"
             /\ \E j \in (k + 2) .. (n - 1) :
                   UnitLeft(InString(c), R, k + 1, j) /\ ClosesAt(R, j, n)
      BY <2>7, SMTT(30) DEF StringLeft
    <3> HIDE DEF InUnit
    <3> QED
      BY <2>2, <2>7, <3>1, <3>2, <3>3, <2>3
  <2>8. CASE InString(c) = 32
    <3>1. c # Quote /\ c \notin Plain
      BY <2>9, <2>8 DEF StringLabel
    <3>2. Goto(q, c) \in {5, 32}
      BY <2>4, <2>8
    <3>3. ~ClosesAt(R, k, n)
      BY <2>8, <3>1, <2>3
    <3> QED
      BY <2>2, <3>2, <3>3
  <2> QED
    BY <2>9, <2>5, <2>6, <2>7, <2>8 DEF StringLabel
<1> QED
  BY <1>1, <1>2

-----------------------------------------------------------------------------
(* The grammar of JSON by places in the text. *)

(* The part of R between i and j. *)
Sub(R, i, j) == SubSeq(R, i + 1, j)

(* i and j are places in R, one after the other. *)
Within(R, i, j) ==
    R \in Seq(1 .. 255) /\ i \in Nat /\ j \in Nat /\ i <= j /\ j <= Len(R)

(* s is what R has between i and j. *)
IsPart(s, R, i, j) ==
    /\ s \in Seq(1 .. 255)
    /\ Len(s) = j - i
    /\ \A x \in 1 .. (j - i) : s[x] = R[i + x]
    /\ (s = <<>>) <=> (i = j)

(* It has the length, and the bytes, it should. *)
LEMMA SubIs ==
    ASSUME NEW R, NEW i, NEW j, Within(R, i, j)
    PROVE  IsPart(Sub(R, i, j), R, i, j)
<1> USE DEF Within
<1>1. \A x \in (i + 1) .. j : R[x] \in 1 .. 255
  <2> SUFFICES ASSUME NEW x \in (i + 1) .. j PROVE R[x] \in 1 .. 255
    OBVIOUS
  <2>1. x \in 1 .. Len(R)
    OBVIOUS
  <2> QED
    BY <2>1, ElementOfSeq
<1>2. /\ Sub(R, i, j) \in Seq(1 .. 255)
      /\ Len(Sub(R, i, j)) = IF i + 1 <= j THEN j - (i + 1) + 1 ELSE 0
      /\ \A x \in 1 .. (j - (i + 1) + 1) : Sub(R, i, j)[x] = R[(i + 1) + x - 1]
  BY <1>1, SubSeqProperties DEF Sub
<1>3. Len(Sub(R, i, j)) = j - i
  BY <1>2
<1>4. \A x \in 1 .. (j - i) : Sub(R, i, j)[x] = R[i + x]
  <2>1. \A x \in 1 .. (j - i) : x \in 1 .. (j - (i + 1) + 1) /\ (i + 1) + x - 1 = i + x
    OBVIOUS
  <2> QED
    BY <1>2, <2>1
<1>5. (Sub(R, i, j) = <<>>) <=> (i = j)
  BY <1>2, <1>3, EmptySeq
<1> QED
  BY <1>2, <1>3, <1>4, <1>5 DEF IsPart

(* A part of a part. *)
LEMMA SubOfSub ==
    ASSUME NEW R, NEW i, NEW j, Within(R, i, j),
           NEW a \in Nat, NEW b \in Nat, a <= b, i + b <= j
    PROVE  Sub(Sub(R, i, j), a, b) = Sub(R, i + a, i + b)
<1> DEFINE s == Sub(R, i, j)
           t == Sub(s, a, b)
           u == Sub(R, i + a, i + b)
<1>1. IsPart(s, R, i, j)
  BY SubIs
<1> HIDE DEF s
<1>2. Within(s, a, b)
  BY <1>1 DEF Within, IsPart
<1>3. IsPart(t, s, a, b)
  BY <1>2, SubIs
<1>4. Within(R, i + a, i + b)
  BY DEF Within
<1>5. IsPart(u, R, i + a, i + b)
  BY <1>4, SubIs
<1> HIDE DEF t, u
<1> USE DEF IsPart, Within
<1>6. (i + b) - (i + a) = b - a
  OBVIOUS
<1>7. Len(t) = Len(u)
  BY <1>3, <1>5, <1>6
<1>8. ASSUME NEW x \in 1 .. Len(t) PROVE t[x] = u[x]
  <2>1. x \in 1 .. (b - a) /\ a + x \in 1 .. (j - i) /\ i + (a + x) = (i + a) + x
    BY <1>3, <1>8
  <2>2. t[x] = R[i + (a + x)]
    BY <1>1, <1>3, <2>1
  <2>3. u[x] = R[(i + a) + x]
    BY <1>5, <1>6, <2>1
  <2> QED
    BY <2>1, <2>2, <2>3
<1>9. t = u
  BY <1>3, <1>5, <1>7, <1>8, SeqEqual
<1> QED
  BY <1>9 DEF s, t, u

(* Without its first byte it is the part from the next place on. *)
LEMMA TailOfSub ==
    ASSUME NEW R, NEW i, NEW j, Within(R, i, j), i < j
    PROVE  Tail(Sub(R, i, j)) = Sub(R, i + 1, j) /\ Within(R, i + 1, j)
<1> DEFINE s == Sub(R, i, j)
           t == Sub(R, i + 1, j)
<1>1. IsPart(s, R, i, j)
  BY SubIs
<1>2. Within(R, i + 1, j)
  BY DEF Within
<1>3. IsPart(t, R, i + 1, j)
  BY <1>2, SubIs
<1> HIDE DEF s, t
<1> USE DEF IsPart, Within
<1>4. /\ Tail(s) \in Seq(1 .. 255) /\ Len(Tail(s)) = Len(s) - 1
      /\ \A x \in 1 .. Len(Tail(s)) : Tail(s)[x] = s[x + 1]
  BY <1>1, HeadTailProperties
<1>5. Len(Tail(s)) = Len(t)
  BY <1>1, <1>3, <1>4
<1>6. ASSUME NEW x \in 1 .. Len(Tail(s)) PROVE Tail(s)[x] = t[x]
  <2>1. x \in 1 .. (j - (i + 1)) /\ x + 1 \in 1 .. (j - i) /\ i + (x + 1) = (i + 1) + x
    BY <1>1, <1>4
  <2> QED
    BY <1>1, <1>3, <1>4, <2>1
<1>7. Tail(s) = t
  BY <1>3, <1>4, <1>5, <1>6, SeqEqual
<1> QED
  BY <1>2, <1>7 DEF s, t

-----------------------------------------------------------------------------
(* The parts of a number, by where they are. *)
LEMMA DigitsIs ==
    ASSUME NEW R, NEW i, NEW j, Within(R, i, j)
    PROVE  /\ Digits(Sub(R, i, j)) <=> DigitsAt(R, i, j)
           /\ Whole(Sub(R, i, j)) <=> WholeAt(R, i, j)
<1> DEFINE s == Sub(R, i, j)
<1>1. IsPart(s, R, i, j)
  BY SubIs
<1> HIDE DEF s
<1> USE DEF IsPart, Within
<1>2. DOMAIN s = 1 .. (j - i)
  BY <1>1, LenProperties
<1>3. (\A x \in 1 .. (j - i) : s[x] \in Digit) <=> Run(R, i, j)
  <2>1. ASSUME \A x \in 1 .. (j - i) : s[x] \in Digit, NEW y \in (i + 1) .. j
        PROVE  R[y] \in Digit
    <3>1. y - i \in 1 .. (j - i) /\ i + (y - i) = y
      OBVIOUS
    <3> QED
      BY <1>1, <2>1, <3>1
  <2>2. ASSUME Run(R, i, j), NEW x \in 1 .. (j - i)
        PROVE  s[x] \in Digit
    <3>1. i + x \in (i + 1) .. j
      OBVIOUS
    <3> QED
      BY <1>1, <2>2, <3>1 DEF Run
  <2> QED
    BY <2>1, <2>2 DEF Run
<1>4. (s # <<>>) <=> (i < j)
  BY <1>1
<1>5. Digits(s) <=> DigitsAt(R, i, j)
  BY <1>2, <1>3, <1>4 DEF Digits, DigitsAt
<1>6. DigitsAt(R, i, j) => s[1] = R[i + 1]
  BY <1>1 DEF DigitsAt
<1>7. Len(s) > 1 <=> j > i + 1
  BY <1>1
<1>8. Whole(s) <=> WholeAt(R, i, j)
  BY <1>5, <1>6, <1>7 DEF Whole, WholeAt
<1> QED
  BY <1>5, <1>8 DEF s

(* A point and digits. *)
FractionAt(R, i, j) == i < j /\ R[i + 1] = Dot /\ DigitsAt(R, i + 1, j)

(* A part is a fraction where the places say so. *)
LEMMA FractionIs ==
    ASSUME NEW R, NEW i, NEW j, Within(R, i, j)
    PROVE  Fractional(Sub(R, i, j)) <=> FractionAt(R, i, j)
<1>1. IsPart(Sub(R, i, j), R, i, j) /\ (i = j \/ i < j)
  BY SubIs DEF Within
<1>2. CASE i = j
  BY <1>1, <1>2 DEF Fractional, FractionAt, IsPart, Within
<1>3. CASE i < j
  <2>1. Sub(R, i, j) # <<>> /\ Sub(R, i, j)[1] = R[i + 1]
    BY <1>1, <1>3 DEF IsPart, Within
  <2>2. Tail(Sub(R, i, j)) = Sub(R, i + 1, j) /\ Within(R, i + 1, j)
    BY <1>3, TailOfSub
  <2>3. Digits(Sub(R, i + 1, j)) <=> DigitsAt(R, i + 1, j)
    BY <2>2, DigitsIs
  <2> QED
    BY <1>3, <2>1, <2>2, <2>3 DEF Fractional, FractionAt
<1> QED
  BY <1>1, <1>2, <1>3

(* The same of an exponent. *)
LEMMA ExponentIs ==
    ASSUME NEW R, NEW i, NEW j, Within(R, i, j)
    PROVE  Exponential(Sub(R, i, j)) <=> ExponentAt(R, i, j)
<1>1. IsPart(Sub(R, i, j), R, i, j) /\ (i = j \/ i < j)
  BY SubIs DEF Within
<1>2. CASE i = j
  BY <1>1, <1>2 DEF Exponential, ExponentAt, IsPart, Within
<1>3. CASE i < j
  <2>1. /\ Sub(R, i, j) # <<>> /\ Sub(R, i, j)[1] = R[i + 1]
        /\ Len(Sub(R, i, j)) > 1 <=> i + 1 < j
        /\ i + 1 < j => Sub(R, i, j)[2] = R[(i + 1) + 1]
    <3> USE DEF IsPart, Within
    <3>1. Len(Sub(R, i, j)) > 1 <=> i + 1 < j
      BY <1>1, <1>3
    <3>2. ASSUME i + 1 < j PROVE Sub(R, i, j)[2] = R[(i + 1) + 1]
      <4>1. 2 \in 1 .. (j - i) /\ i + 2 = (i + 1) + 1
        BY <3>2
      <4> QED
        BY <1>1, <4>1
    <3> QED
      BY <1>1, <1>3, <3>1, <3>2
  <2>2. Tail(Sub(R, i, j)) = Sub(R, i + 1, j) /\ Within(R, i + 1, j)
    BY <1>3, TailOfSub
  <2>3. Digits(Sub(R, i + 1, j)) <=> DigitsAt(R, i + 1, j)
    BY <2>2, DigitsIs
  <2>4. ASSUME i + 1 < j
        PROVE  /\ Tail(Sub(R, i + 1, j)) = Sub(R, (i + 1) + 1, j)
               /\ Digits(Sub(R, (i + 1) + 1, j)) <=> DigitsAt(R, (i + 1) + 1, j)
    BY <2>2, <2>4, TailOfSub, DigitsIs
  <2>5. DigitsAt(R, (i + 1) + 1, j) => i + 1 < j
    BY DEF DigitsAt, Within
  <2> QED
    BY <1>3, <2>1, <2>2, <2>3, <2>4, <2>5, ZenonT(30) DEF Exponential, ExponentAt, ExponentRest
<1> QED
  BY <1>1, <1>2, <1>3

(* The same of a whole real number, without its sign. *)
LEMMA RealIs ==
    ASSUME NEW R, NEW i, NEW j, Within(R, i, j)
    PROVE  Real(Sub(R, i, j)) <=> RealAt(R, i, j)
<1> DEFINE s == Sub(R, i, j)
           Split(m, l) == /\ m < j /\ WholeAt(R, i, m)
                          /\ m = l \/ FractionAt(R, m, l)
                          /\ l = j \/ ExponentAt(R, l, j)
<1>1. IsPart(s, R, i, j)
  BY SubIs
<1> USE DEF Within
<1>2. Len(s) = j - i /\ j - i \in Nat
  BY <1>1 DEF IsPart
<1> HIDE DEF s
<1>3. ASSUME NEW a \in 1 .. (j - i), NEW b \in a .. (j - i)
      PROVE  /\ Whole(First(s, a)) <=> WholeAt(R, i, i + a)
             /\ Fractional(SubSeq(s, a + 1, b)) <=> FractionAt(R, i + a, i + b)
             /\ Exponential(From(s, b)) <=> ExponentAt(R, i + b, j)
  <2>1. a \in Nat /\ b \in Nat /\ a <= b /\ i + b <= j /\ i + 0 = i /\ i + (j - i) = j
    BY <1>2
  <2>2. First(s, a) = Sub(R, i, i + a)
    <3>1. First(s, a) = Sub(s, 0, a)
      BY DEF First, Sub
    <3>2. 0 \in Nat /\ 0 <= a /\ i + a <= j
      BY <2>1
    <3> HIDE DEF Within
    <3>3. Sub(s, 0, a) = Sub(R, i + 0, i + a)
      BY <2>1, <3>2, SubOfSub DEF s
    <3> QED
      BY <2>1, <3>1, <3>3
  <2>3. SubSeq(s, a + 1, b) = Sub(R, i + a, i + b)
    <3>1. SubSeq(s, a + 1, b) = Sub(s, a, b)
      BY DEF Sub
    <3> HIDE DEF Within
    <3> QED
      BY <2>1, <3>1, SubOfSub DEF s
  <2>4. From(s, b) = Sub(R, i + b, j)
    <3>1. From(s, b) = Sub(s, b, j - i)
      BY <1>2 DEF From, Sub
    <3>2. b <= j - i /\ i + (j - i) <= j
      BY <2>1
    <3> HIDE DEF Within
    <3>3. Sub(s, b, j - i) = Sub(R, i + b, i + (j - i))
      BY <1>2, <2>1, <3>2, SubOfSub DEF s
    <3> QED
      BY <2>1, <3>1, <3>3
  <2>5. Within(R, i, i + a) /\ Within(R, i + a, i + b) /\ Within(R, i + b, j)
    BY <2>1
  <2> HIDE DEF Within
  <2> QED
    BY <2>2, <2>3, <2>4, <2>5, DigitsIs, FractionIs, ExponentIs
<1>4. Real(s) <=> \E m \in (i + 1) .. j : \E l \in m .. j : Split(m, l)
  <2>1. ASSUME Real(s)
        PROVE  \E m \in (i + 1) .. j : \E l \in m .. j : Split(m, l)
    <3>1. PICK a \in 1 .. (j - i) : \E b \in a .. (j - i) :
                /\ a < j - i
                /\ Whole(First(s, a))
                /\ a = b \/ Fractional(SubSeq(s, a + 1, b))
                /\ b = j - i \/ Exponential(From(s, b))
      BY <1>2, <2>1 DEF Real
    <3>2. PICK b \in a .. (j - i) :
                /\ a < j - i
                /\ Whole(First(s, a))
                /\ a = b \/ Fractional(SubSeq(s, a + 1, b))
                /\ b = j - i \/ Exponential(From(s, b))
      BY <3>1
    <3>3. i + a \in (i + 1) .. j /\ i + b \in (i + a) .. j
      OBVIOUS
    <3>4. Split(i + a, i + b)
      BY <1>3, <3>2
    <3> QED
      BY <3>3, <3>4
  <2>2. ASSUME NEW m \in (i + 1) .. j, NEW l \in m .. j, Split(m, l)
        PROVE  Real(s)
    <3> DEFINE a == m - i
               b == l - i
    <3>1. a \in 1 .. (j - i) /\ b \in a .. (j - i) /\ i + a = m /\ i + b = l
      OBVIOUS
    <3>2. /\ Whole(First(s, a)) <=> WholeAt(R, i, m)
          /\ Fractional(SubSeq(s, a + 1, b)) <=> FractionAt(R, m, l)
          /\ Exponential(From(s, b)) <=> ExponentAt(R, l, j)
      BY <1>3, <3>1
    <3>3. a < j - i /\ (m = l => a = b) /\ (l = j => b = j - i)
      BY <2>2
    <3> HIDE DEF a, b
    <3> QED
      BY <1>2, <2>2, <3>1, <3>2, <3>3 DEF Real
  <2> QED
    BY <2>1, <2>2
<1>5. ASSUME NEW m \in (i + 1) .. j
      PROVE  (\E l \in m .. j : /\ m < j
                                /\ m = l \/ FractionAt(R, m, l)
                                /\ l = j \/ ExponentAt(R, l, j))
               <=> FloatRest(R, m, j)
  <2>1. ASSUME NEW l \in m .. j, FractionAt(R, m, l), l = j \/ ExponentAt(R, l, j)
        PROVE  FloatRest(R, m, j)
    BY <2>1 DEF FractionAt, DigitsAt, Run, FloatRest, PointRest, DecimalsRest
  <2>2. ASSUME ExponentAt(R, m, j)
        PROVE  m < j /\ FloatRest(R, m, j)
    BY <2>2 DEF FloatRest, ExponentAt
  <2>3. ASSUME FloatRest(R, m, j), ~ExponentAt(R, m, j)
        PROVE  m < j /\ \E l \in m .. j : FractionAt(R, m, l) /\ (l = j \/ ExponentAt(R, l, j))
    <3>1. /\ m < j /\ R[m + 1] = Dot /\ m + 1 < j /\ R[(m + 1) + 1] \in Digit
          /\ DecimalsRest(R, (m + 1) + 1, j)
      BY <2>3 DEF FloatRest, PointRest
    <3>2. PICK l \in ((m + 1) + 1) .. j : Run(R, (m + 1) + 1, l) /\ (l = j \/ ExponentAt(R, l, j))
      BY <3>1 DEF DecimalsRest
    <3>3. FractionAt(R, m, l)
      BY <3>1, <3>2 DEF FractionAt, DigitsAt, Run
    <3> QED
      BY <3>1, <3>2, <3>3
  <2> QED
    BY <2>1, <2>2, <2>3
<1>6. RealAt(R, i, j) <=> \E m \in (i + 1) .. j : WholeAt(R, i, m) /\ FloatRest(R, m, j)
  BY DEF RealAt
<1> HIDE DEF Within
<1> QED
  BY <1>4, <1>5, <1>6 DEF s

(* The cuts of a part are those of the whole that lie in it. *)
LEMMA UnitsIs ==
    ASSUME NEW R, NEW i, NEW j, Within(R, i, j)
    PROVE  AllUnits(Sub(R, i, j)) <=> UnitsAt(R, i, j)
<1> DEFINE s == Sub(R, i, j)
<1>1. IsPart(s, R, i, j)
  BY SubIs
<1> USE DEF Within
<1>2. Len(s) = j - i /\ j - i \in Nat
  BY <1>1 DEF IsPart
<1> HIDE DEF s
<1>3. ASSUME NEW a \in Nat, NEW b \in Nat, a <= b, i + b <= j
      PROVE  SubSeq(s, a + 1, b) = SubSeq(R, (i + a) + 1, i + b)
  <2> HIDE DEF Within
  <2>1. Sub(s, a, b) = Sub(R, i + a, i + b)
    BY <1>3, SubOfSub DEF s
  <2> QED
    BY <2>1 DEF Sub
<1>4. ASSUME AllUnits(s) PROVE UnitsAt(R, i, j)
  <2>0. PICK inner \in SUBSET (1 .. Len(s) - 1) :
             \A x \in (inner \cup {0, Len(s)}) \ {Len(s)} :
                \E y \in inner \cup {0, Len(s)} : x < y /\ Unit(SubSeq(s, x + 1, y))
    BY <1>4 DEF AllUnits
  <2>1. /\ inner \in SUBSET (1 .. (j - i) - 1)
        /\ \A x \in (inner \cup {0, j - i}) \ {j - i} :
               \E y \in inner \cup {0, j - i} : x < y /\ Unit(SubSeq(s, x + 1, y))
    BY <1>2, <2>0
  <2> DEFINE moved == {i + x : x \in inner}
  <2>2. moved \in SUBSET ((i + 1) .. (j - 1))
    BY <2>1
  <2>3. ASSUME NEW x \in (moved \cup {i, j}) \ {j}
        PROVE  \E y \in moved \cup {i, j} : x < y /\ Unit(SubSeq(R, x + 1, y))
    <3>1. PICK a \in (inner \cup {0, j - i}) \ {j - i} : x = i + a
      <4>1. CASE x = i
        <5>1. i # j
          BY <2>3, <4>1
        <5>2. 0 \in (inner \cup {0, j - i}) \ {j - i} /\ x = i + 0
          BY <4>1, <5>1
        <5> QED
          BY <5>2
      <4>2. CASE x \in moved
        BY <2>3, <4>2
      <4> QED
        BY <2>3, <4>1, <4>2
    <3>2. PICK b \in inner \cup {0, j - i} : a < b /\ Unit(SubSeq(s, a + 1, b))
      BY <2>1
    <3>3. a \in Nat /\ b \in Nat /\ a <= b /\ i + b <= j
      BY <2>1, <3>2
    <3>4. SubSeq(s, a + 1, b) = SubSeq(R, (i + a) + 1, i + b)
      BY <1>3, <3>2, <3>3
    <3>5. i + b \in moved \cup {i, j}
      <4>1. b = j - i => i + b = j
        OBVIOUS
      <4>2. b = 0 => i + b = i
        OBVIOUS
      <4> QED
        BY <4>1, <4>2
    <3>6. x < i + b
      BY <3>1, <3>2, <3>3
    <3> QED
      BY <3>1, <3>2, <3>4, <3>5, <3>6
  <2> HIDE DEF moved
  <2> QED
    BY <2>2, <2>3 DEF UnitsAt
<1>5. ASSUME UnitsAt(R, i, j) PROVE AllUnits(s)
  <2>1. PICK inner \in SUBSET ((i + 1) .. (j - 1)) :
             \A x \in (inner \cup {i, j}) \ {j} :
                \E y \in inner \cup {i, j} : x < y /\ Unit(SubSeq(R, x + 1, y))
    BY <1>5 DEF UnitsAt
  <2> DEFINE moved == {x - i : x \in inner}
  <2>2. moved \in SUBSET (1 .. (j - i) - 1)
    OBVIOUS
  <2>3. ASSUME NEW a \in (moved \cup {0, j - i}) \ {j - i}
        PROVE  \E b \in moved \cup {0, j - i} : a < b /\ Unit(SubSeq(s, a + 1, b))
    <3>1. PICK x \in (inner \cup {i, j}) \ {j} : a = x - i
      <4>1. CASE a = 0
        <5>1. i # j
          BY <2>3, <4>1
        <5>2. i \in (inner \cup {i, j}) \ {j} /\ a = i - i
          BY <4>1, <5>1
        <5> QED
          BY <5>2
      <4>2. CASE a \in moved
        BY <2>3, <4>2
      <4> QED
        BY <2>3, <4>1, <4>2
    <3>2. PICK y \in inner \cup {i, j} : x < y /\ Unit(SubSeq(R, x + 1, y))
      BY <2>1
    <3>3. a \in Nat /\ y - i \in Nat /\ i + (y - i) = y /\ i + a = x /\ y <= j /\ x \in Nat
      BY <3>1
    <3>4. a < y - i /\ a <= y - i
      BY <3>2, <3>3
    <3>5. SubSeq(s, a + 1, y - i) = SubSeq(R, x + 1, y)
      <4>1. SubSeq(s, a + 1, y - i) = SubSeq(R, (i + a) + 1, i + (y - i))
        BY <1>3, <3>3, <3>4
      <4> QED
        BY <3>3, <4>1
    <3>6. y - i \in moved \cup {0, j - i}
      OBVIOUS
    <3> QED
      BY <3>2, <3>4, <3>5, <3>6
  <2> HIDE DEF moved
  <2>4. moved \in SUBSET (1 .. Len(s) - 1)
    BY <1>2, <2>2
  <2>5. ASSUME NEW a \in (moved \cup {0, Len(s)}) \ {Len(s)}
        PROVE  \E b \in moved \cup {0, Len(s)} : a < b /\ Unit(SubSeq(s, a + 1, b))
    BY <1>2, <2>3, <2>5
  <2> QED
    BY <2>4, <2>5 DEF AllUnits
<1> QED
  BY <1>4, <1>5 DEF s

(* A sequence of one byte. *)
LEMMA OneIs ==
    ASSUME NEW s \in Seq(1 .. 255), NEW b
    PROVE  (s = <<b>>) <=> (Len(s) = 1 /\ s[1] = b)
<1>1. ASSUME s = <<b>> PROVE Len(s) = 1 /\ s[1] = b
  BY <1>1
<1>2. ASSUME Len(s) = 1, s[1] = b PROVE s = <<b>>
  <2> DEFINE t == <<b>>
  <2>1. 1 \in 1 .. Len(s)
    BY <1>2
  <2>2. b \in 1 .. 255
    BY <1>2, <2>1, ElementOfSeq, ZenonT(30)
  <2>3. t \in Seq(1 .. 255) /\ Len(t) = 1 /\ t[1] = b
    BY <2>2
  <2> HIDE DEF t
  <2>4. Len(s) = Len(t) /\ \A x \in 1 .. Len(s) : s[x] = t[x]
    BY <1>2, <2>3
  <2>5. s = t
    BY <2>3, <2>4, SeqEqual
  <2> QED
    BY <2>5 DEF t
<1> QED
  BY <1>1, <1>2

(* A sequence of four bytes, or five, byte by byte. *)
Four(s, a, b, c, d) == Len(s) = 4 /\ s[1] = a /\ s[2] = b /\ s[3] = c /\ s[4] = d

Five(s, a, b, c, d, e) == 
    Len(s) = 5 /\ s[1] = a /\ s[2] = b /\ s[3] = c /\ s[4] = d /\ s[5] = e

(* What the first n bytes of R are, by where its characters are. *)
Kinds(s, R, n, c) ==
    /\ \A b : (s = <<b>>) <=> (n = 1 /\ c = b)
    /\ (s = <<102, 97, 108, 115, 101>>) <=>
         (n = 5 /\ c = 102 /\ R[2] = 97 /\ R[3] = 108 /\ R[4] = 115 /\ R[5] = 101)
    /\ (s = <<110, 117, 108, 108>>) <=>
         (n = 4 /\ c = 110 /\ R[2] = 117 /\ R[3] = 108 /\ R[4] = 108)
    /\ (s = <<116, 114, 117, 101>>) <=>
         (n = 4 /\ c = 116 /\ R[2] = 114 /\ R[3] = 117 /\ R[4] = 101)
    /\ Whole(s) <=> c \in Digit /\ WholeAt(R, 0, n)
    /\ (Unsigned(s) # s) <=> (c = Minus)
    /\ c = Minus => /\ Whole(Unsigned(s)) <=> WholeAt(R, 1, n)
                    /\ Real(Unsigned(s)) <=> RealAt(R, 1, n)
    /\ c # Minus => (Real(Unsigned(s)) <=> c \in Digit /\ RealAt(R, 0, n))
    /\ Quoted(s) <=> c = Quote /\ ClosesAt(R, 1, n)

(* The tokens the grammar makes of a part of R, by its places. *)
LEMMA KindsOf ==
    ASSUME NEW R \in Seq(1 .. 255), NEW n \in 1 .. Len(R), NEW c, c = R[1]
    PROVE  Kinds(First(R, n), R, n, c) /\ c \in 1 .. 255
<1> DEFINE s == First(R, n)
<1>0. Len(R) \in Nat /\ n \in Nat /\ n >= 1
  OBVIOUS
<1>1. s = Sub(R, 0, n) /\ Within(R, 0, n)
  BY <1>0 DEF First, Sub, Within
<1>2. IsPart(s, R, 0, n)
  BY <1>1, SubIs
<1> HIDE DEF s
<1>3. s \in Seq(1 .. 255) /\ Len(s) = n /\ \A x \in 1 .. n : s[x] = R[x]
  BY <1>0, <1>2 DEF IsPart
<1>4. s[1] = c /\ s # <<>>
  BY <1>0, <1>2, <1>3 DEF IsPart
<1>5. c \in 1 .. 255
  <2>1. 1 \in 1 .. Len(R)
    BY <1>0
  <2> QED
    BY <2>1, ElementOfSeq
<1>6. \A b : (s = <<b>>) <=> (n = 1 /\ c = b)
  BY <1>3, <1>4, OneIs
<1>7. (s = <<102, 97, 108, 115, 101>>) <=>
         (n = 5 /\ c = 102 /\ R[2] = 97 /\ R[3] = 108 /\ R[4] = 115 /\ R[5] = 101)
  <2>1. (s = <<102, 97, 108, 115, 101>>) <=> Five(s, 102, 97, 108, 115, 101)
    <3> DEFINE t == <<102, 97, 108, 115, 101>>
    <3>1. t \in Seq(1 .. 255) /\ Five(t, 102, 97, 108, 115, 101)
      BY DEF Five
    <3> HIDE DEF t
    <3>2. ASSUME Five(s, 102, 97, 108, 115, 101) PROVE s = t
      <4>1. Len(s) = Len(t) /\ \A x \in 1 .. Len(s) : s[x] = t[x]
        BY <3>1, <3>2 DEF Five
      <4> QED
        BY <1>3, <3>1, <4>1, SeqEqual
    <3> QED
      BY <3>1, <3>2 DEF t
  <2> QED
    BY <1>3, <1>4, <2>1 DEF Five
<1>8. (s = <<110, 117, 108, 108>>) <=>
         (n = 4 /\ c = 110 /\ R[2] = 117 /\ R[3] = 108 /\ R[4] = 108)
  <2>1. (s = <<110, 117, 108, 108>>) <=> Four(s, 110, 117, 108, 108)
    <3> DEFINE t == <<110, 117, 108, 108>>
    <3>1. t \in Seq(1 .. 255) /\ Four(t, 110, 117, 108, 108)
      BY DEF Four
    <3> HIDE DEF t
    <3>2. ASSUME Four(s, 110, 117, 108, 108) PROVE s = t
      <4>1. Len(s) = Len(t) /\ \A x \in 1 .. Len(s) : s[x] = t[x]
        BY <3>1, <3>2 DEF Four
      <4> QED
        BY <1>3, <3>1, <4>1, SeqEqual
    <3> QED
      BY <3>1, <3>2 DEF t
  <2> QED
    BY <1>3, <1>4, <2>1 DEF Four
<1>9. (s = <<116, 114, 117, 101>>) <=>
         (n = 4 /\ c = 116 /\ R[2] = 114 /\ R[3] = 117 /\ R[4] = 101)
  <2>1. (s = <<116, 114, 117, 101>>) <=> Four(s, 116, 114, 117, 101)
    <3> DEFINE t == <<116, 114, 117, 101>>
    <3>1. t \in Seq(1 .. 255) /\ Four(t, 116, 114, 117, 101)
      BY DEF Four
    <3> HIDE DEF t
    <3>2. ASSUME Four(s, 116, 114, 117, 101) PROVE s = t
      <4>1. Len(s) = Len(t) /\ \A x \in 1 .. Len(s) : s[x] = t[x]
        BY <3>1, <3>2 DEF Four
      <4> QED
        BY <1>3, <3>1, <4>1, SeqEqual
    <3> QED
      BY <3>1, <3>2 DEF t
  <2> QED
    BY <1>3, <1>4, <2>1 DEF Four
<1>10. /\ Whole(s) <=> WholeAt(R, 0, n)
       /\ Real(s) <=> RealAt(R, 0, n)
  BY <1>1, DigitsIs, RealIs
<1>11. WholeAt(R, 0, n) \/ RealAt(R, 0, n) => c \in Digit
  <2>1. ASSUME NEW m \in Nat, WholeAt(R, 0, m) PROVE R[1] \in Digit
    <3>1. 0 < m /\ Run(R, 0, m) /\ 0 + 1 = 1
      BY <2>1 DEF WholeAt, DigitsAt
    <3> QED
      BY <3>1 DEF Run
  <2>2. ASSUME RealAt(R, 0, n) PROVE R[1] \in Digit
    <3>1. PICK m \in (0 + 1) .. n : WholeAt(R, 0, m)
      BY <2>2 DEF RealAt
    <3> QED
      BY <1>0, <2>1, <3>1
  <2> QED
    BY <1>0, <2>1, <2>2
<1>12. ASSUME c = Minus
       PROVE  /\ Unsigned(s) # s
              /\ Whole(Unsigned(s)) <=> WholeAt(R, 1, n)
              /\ Real(Unsigned(s)) <=> RealAt(R, 1, n)
  <2>1. Unsigned(s) = Tail(s)
    BY <1>4, <1>12 DEF Unsigned
  <2>2. Tail(s) = Sub(R, 1, n) /\ Within(R, 1, n)
    <3>1. 0 < n /\ 0 + 1 = 1
      BY <1>0
    <3> QED
      BY <1>1, <3>1, TailOfSub
  <2>3. Len(Sub(R, 1, n)) = n - 1
    BY <2>2, SubIs DEF IsPart
  <2>4. Unsigned(s) # s
    BY <1>0, <1>3, <2>1, <2>2, <2>3
  <2>5. /\ Whole(Unsigned(s)) <=> WholeAt(R, 1, n)
        /\ Real(Unsigned(s)) <=> RealAt(R, 1, n)
    BY <2>1, <2>2, DigitsIs, RealIs
  <2> QED
    BY <2>4, <2>5
<1>13. c # Minus => Unsigned(s) = s
  BY <1>4 DEF Unsigned
<1>14. Quoted(s) <=> c = Quote /\ ClosesAt(R, 1, n)
  <2>1. CASE n > 1
    <3>1. SubSeq(s, 2, Len(s) - 1) = Sub(R, 1, n - 1)
      <4>1. SubSeq(s, 2, Len(s) - 1) = Sub(s, 1, n - 1)
        BY <1>3 DEF Sub
      <4>2. 1 \in Nat /\ n - 1 \in Nat /\ 1 <= n - 1 /\ 0 + (n - 1) <= n
        BY <1>0, <2>1
      <4>3. Sub(Sub(R, 0, n), 1, n - 1) = Sub(R, 0 + 1, 0 + (n - 1))
        BY <1>1, <4>2, SubOfSub
      <4>4. 0 + 1 = 1 /\ 0 + (n - 1) = n - 1
        BY <1>0
      <4> QED
        BY <1>1, <4>1, <4>3, <4>4
    <3>2. Within(R, 1, n - 1)
      BY <1>0, <1>1, <2>1 DEF Within
    <3>3. AllUnits(Sub(R, 1, n - 1)) <=> UnitsAt(R, 1, n - 1)
      BY <3>2, UnitsIs
    <3>4. s[Len(s)] = R[n]
      BY <1>0, <1>3
    <3> QED
      BY <1>3, <1>4, <2>1, <3>1, <3>3, <3>4 DEF Quoted, ClosesAt
  <2>2. CASE n = 1
    BY <1>3, <2>2 DEF Quoted, ClosesAt
  <2> QED
    BY <1>0, <2>1, <2>2
<1>15. /\ (Unsigned(s) # s) <=> (c = Minus)
       /\ c = Minus => /\ Whole(Unsigned(s)) <=> WholeAt(R, 1, n)
                       /\ Real(Unsigned(s)) <=> RealAt(R, 1, n)
       /\ c # Minus => (Real(Unsigned(s)) <=> c \in Digit /\ RealAt(R, 0, n))
  BY <1>10, <1>11, <1>12, <1>13
<1>16. Whole(s) <=> c \in Digit /\ WholeAt(R, 0, n)
  BY <1>10, <1>11
<1>17. Kinds(s, R, n, c)
  BY <1>6, <1>7, <1>8, <1>9, <1>14, <1>15, <1>16, Zenon DEF Kinds
<1> QED
  BY <1>5, <1>17 DEF s

-----------------------------------------------------------------------------
(* What a label leaves open, from the first character on. *)

(* The labels of the tokens of one character. *)
Simple == {10, 14, 17, 19, 21, 26, 28, 44, 58}

(* What R[k + 1] .. R[n] must be for the token T, at label q. *)
Left(q, R, k, n, T) ==
    \/ q \in Simple /\ n = k /\ T = TokenAt[q]
    \/ NumberLeft(q, R, k, n, T)
    \/ WordLeft(q, R, k, n, T)
    \/ StringLeft(q, R, k, n, T)

(* The labels within a number. *)
Num == {12, 13, 15, 43, 45, 47, 51, 56, 59, 60}

(* One disjunct of Left at a time. *)
LEMMA LeftIs ==
    ASSUME NEW q, NEW R, NEW k \in Nat, NEW n \in Nat, NEW T
    PROVE  /\ q \in Simple => (Left(q, R, k, n, T) <=> n = k /\ T = TokenAt[q])
           /\ q \in Num => (Left(q, R, k, n, T) <=> NumberLeft(q, R, k, n, T))
           /\ q \in Words \cup {67, 69, 72} =>
                  (Left(q, R, k, n, T) <=> WordLeft(q, R, k, n, T))
           /\ q \in {9, 30, 33} \cup InUnit =>
                  (Left(q, R, k, n, T) <=> StringLeft(q, R, k, n, T))
           /\ q \in {2, 4, 5, 6, 7, 32, 48, 50} => ~Left(q, R, k, n, T)
<1>1. q \notin Num => ~NumberLeft(q, R, k, n, T)
  BY DEF Num, NumberLeft
<1>2. q \notin Words \cup {67, 69, 72} => ~WordLeft(q, R, k, n, T)
  BY DEF Words, WordLeft
<1>3. q \notin {9, 30, 33} \cup InUnit => ~StringLeft(q, R, k, n, T)
  <2>1. \A j : q \notin InUnit => ~UnitLeft(q, R, k, j)
    BY DEF UnitLeft, InUnit
  <2> QED
    BY <2>1 DEF StringLeft
<1>4. CASE q \in Simple
  <2>1. q \notin Num /\ q \notin Words \cup {67, 69, 72} /\ q \notin {9, 30, 33} \cup InUnit
    BY <1>4 DEF Simple, Num, Words, InUnit
  <2>2. q \notin {2, 4, 5, 6, 7, 32, 48, 50}
    BY <1>4 DEF Simple
  <2> QED
    BY <1>1, <1>2, <1>3, <1>4, <2>1, <2>2 DEF Left
<1>5. CASE q \in Num
  <2>1. q \notin Simple /\ q \notin Words \cup {67, 69, 72} /\ q \notin {9, 30, 33} \cup InUnit
    BY <1>5 DEF Simple, Num, Words, InUnit
  <2>2. q \notin {2, 4, 5, 6, 7, 32, 48, 50}
    BY <1>5 DEF Num
  <2> QED
    BY <1>1, <1>2, <1>3, <1>5, <2>1, <2>2 DEF Left
<1>6. CASE q \in Words \cup {67, 69, 72}
  <2>1. q \notin Simple /\ q \notin Num /\ q \notin {9, 30, 33} \cup InUnit
    BY <1>6 DEF Simple, Num, Words, InUnit
  <2>2. q \notin {2, 4, 5, 6, 7, 32, 48, 50}
    BY <1>6 DEF Words
  <2> QED
    BY <1>1, <1>2, <1>3, <1>6, <2>1, <2>2 DEF Left
<1>7. CASE q \in {9, 30, 33} \cup InUnit
  <2>1. q \notin Simple /\ q \notin Num /\ q \notin Words \cup {67, 69, 72}
    BY <1>7 DEF Simple, Num, Words, InUnit
  <2>2. q \notin {2, 4, 5, 6, 7, 32, 48, 50}
    BY <1>7 DEF InUnit
  <2> QED
    BY <1>1, <1>2, <1>3, <1>7, <2>1, <2>2 DEF Left
<1>8. CASE q \in {2, 4, 5, 6, 7, 32, 48, 50}
  <2>1. /\ q \notin Simple /\ q \notin Num /\ q \notin Words \cup {67, 69, 72}
        /\ q \notin {9, 30, 33} \cup InUnit
    BY <1>8 DEF Simple, Num, Words, InUnit
  <2> QED
    BY <1>1, <1>2, <1>3, <1>8, <2>1 DEF Left
<1> QED
  BY <1>4, <1>5, <1>6, <1>7, <1>8

(* A character more of a number, at any of its labels. *)
LEMMA StepNum ==
    ASSUME NEW R, NEW k \in Nat, NEW n \in Nat, k < n, NEW q \in Num,
           NEW c \in Byte, c = R[k + 1], q \in {13, 43} => c \notin Digit, NEW T
    PROVE  NumberLeft(q, R, k, n, T) <=>
              /\ Goto(q, c) \notin {5, 14, 32, 44, 58}
              /\ NumberLeft(Goto(q, c), R, k + 1, n, T)
<1>1. q \in {12, 13, 15, 43, 45, 47, 51, 56, 59, 60}
  BY DEF Num
<1> HIDE DEF Digit, Num
<1> QED
  BY <1>1, StepNumber

(* The labels at which a token of more than one character is under way. *)
Scanning == Num \cup Words \cup {9, 30} \cup InUnit

(* Numbers, words and strings keep to labels of their own. *)
LEMMA NextNumber ==
    ASSUME NEW q \in Num, NEW c \in Byte
    PROVE  /\ Goto(q, c) \in Num \cup {5, 14, 32, 44, 48, 58}
           /\ Goto(q, c) = 48 <=> q \in {13, 43} /\ c \in Digit
           /\ Goto(q, c) = 14 => q \in {13, 15}
           /\ Goto(q, c) = 44 => q \in {43, 45}
           /\ Goto(q, c) = 58 => q \in {56, 60}
           /\ Goto(q, c) = 5 => q = 12
           /\ Goto(q, c) = 13 => FALSE
           /\ Goto(q, c) = 12 => FALSE
           /\ Goto(q, c) = 43 => q = 12 /\ c = Zero
           /\ c = 0 => Goto(q, c) \in {5, 14, 32, 44, 58}
<1>1. CASE q = 12
  BY <1>1 DEF Byte, Goto, AfterMinus, Num
<1>2. CASE q = 13
  BY <1>2 DEF Byte, Goto, AfterZero, Num
<1>3. CASE q = 15
  BY <1>3 DEF Byte, Goto, AfterDigit, Num
<1>4. CASE q = 43
  BY <1>4 DEF Byte, Goto, AfterZero, Num
<1>5. CASE q = 45
  BY <1>5 DEF Byte, Goto, AfterDigit, Num
<1>6. CASE q = 47
  BY <1>6 DEF Byte, Goto, Fraction, Num
<1>7. CASE q = 51
  BY <1>7 DEF Byte, Goto, Exponent, Num
<1>8. CASE q = 56
  BY <1>8 DEF Byte, Goto, AfterFraction, Num
<1>9. CASE q = 59
  BY <1>9 DEF Byte, Goto, ExponentSign, Num
<1>10. CASE q = 60
  BY <1>10 DEF Byte, Goto, ExponentDigits, Num
<1> QED
  BY <1>1, <1>2, <1>3, <1>4, <1>5, <1>6, <1>7, <1>8, <1>9, <1>10 DEF Num

(* A word goes on within itself, ends, or fails. *)
LEMMA NextWord ==
    ASSUME NEW q \in Words, NEW c \in Byte
    PROVE  /\ Goto(q, c) \in (Words \ (23 .. 25)) \cup {5, 32, 67, 69, 72}
           /\ Goto(q, c) = 5 => q \in 23 .. 25
           /\ c = 0 => Goto(q, c) \in {5, 32}
<1>1. CASE q = 23
  BY <1>1 DEF Goto, LiteralBegins, Words
<1>2. CASE q = 24
  BY <1>2 DEF Goto, LiteralBegins, Words
<1>3. CASE q = 25
  BY <1>3 DEF Goto, LiteralBegins, Words
<1>4. CASE q = 52
  BY <1>4 DEF Goto, LiteralSecond, Words
<1>5. CASE q = 53
  BY <1>5 DEF Goto, LiteralSecond, Words
<1>6. CASE q = 54
  BY <1>6 DEF Goto, LiteralSecond, Words
<1>7. CASE q = 62
  BY <1>7 DEF Goto, LiteralThird, Words
<1>8. CASE q = 63
  BY <1>8 DEF Goto, LiteralThird, Words
<1>9. CASE q = 64
  BY <1>9 DEF Goto, LiteralThird, Words
<1>10. CASE q = 66
  BY <1>10 DEF Goto, LiteralFourth, Words
<1> QED
  BY <1>1, <1>2, <1>3, <1>4, <1>5, <1>6, <1>7, <1>8, <1>9, <1>10 DEF Words

(* So does a character or escape of a string. *)
LEMMA NextInUnit ==
    ASSUME NEW q \in InUnit, NEW c \in Byte
    PROVE  /\ Goto(q, c) \in {30, 32} \cup InUnit
           /\ c = 0 => Goto(q, c) = 32
<1>1. CASE q = 35
  BY <1>1 DEF Goto, AfterEscape, InUnit, Escapes, Slash, Backslash
<1>2. CASE q = 36
  BY <1>2 DEF Goto, Utf8, InUnit, HexDigit, Escapes
<1>3. CASE q = 37
  BY <1>3 DEF Goto, Utf8, InUnit, HexDigit, Escapes
<1>4. CASE q = 38
  BY <1>4 DEF Goto, Utf8, InUnit, HexDigit, Escapes
<1>5. CASE q = 39
  BY <1>5 DEF Goto, Utf8, InUnit, HexDigit, Escapes
<1>6. CASE q = 40
  BY <1>6 DEF Goto, Utf8, InUnit, HexDigit, Escapes
<1>7. CASE q = 41
  BY <1>7 DEF Goto, Utf8, InUnit, HexDigit, Escapes
<1>8. CASE q = 42
  BY <1>8 DEF Goto, Utf8, InUnit, HexDigit, Escapes
<1>9. CASE q = 55
  BY <1>9 DEF Byte, Goto, Hex1, InUnit, HexDigit, Escapes
<1>10. CASE q = 65
  BY <1>10 DEF Byte, Goto, Hex2, InUnit, HexDigit, Escapes
<1>11. CASE q = 71
  BY <1>11 DEF Byte, Goto, Hex3, InUnit, HexDigit, Escapes
<1>12. CASE q = 74
  BY <1>12 DEF Byte, Goto, HexLast, InUnit, HexDigit, Escapes
<1> QED
  BY <1>1, <1>2, <1>3, <1>4, <1>5, <1>6, <1>7, <1>8, <1>9, <1>10,
     <1>11, <1>12 DEF InUnit

(* So does a string between two of them. *)
LEMMA NextString ==
    ASSUME NEW q \in {9, 30} \cup InUnit, NEW c \in Byte
    PROVE  /\ Goto(q, c) \in ({30, 33} \cup InUnit) \cup {5, 32}
           /\ Goto(q, c) = 5 => q = 9
           /\ c = 0 => Goto(q, c) \in {5, 32}
<1>1. CASE q \in InUnit
  <2>1. Goto(q, c) \in {30, 32} \cup InUnit /\ (c = 0 => Goto(q, c) = 32)
    BY <1>1, NextInUnit
  <2>2. 5 \notin {30, 32} \cup InUnit
    BY DEF InUnit
  <2> QED
    BY <2>1, <2>2
<1>2. InString(c) \in ({30, 33} \cup InUnit) \cup {32} /\ (c = 0 => InString(c) = 32)
  BY DEF InString, InUnit, Plain, Backslash, Byte
<1>3. 5 \notin ({30, 33} \cup InUnit) \cup {32}
  BY DEF InUnit
<1>4. CASE q = 9
  <2>1. Goto(q, c) = StringOpen(c)
    BY <1>4 DEF Goto
  <2> QED
    BY <1>2, <1>3, <1>4, <2>1 DEF StringOpen
<1>5. CASE q = 30
  <2>1. Goto(q, c) = InString(c)
    BY <1>5 DEF Goto
  <2> QED
    BY <1>2, <1>3, <1>5, <2>1
<1> QED
  BY <1>1, <1>4, <1>5

(* Reading on changes nothing of what may still be a token. *)
LEMMA StepLeft ==
    ASSUME NEW R \in Seq(1 .. 255), NEW k \in Nat, NEW n \in Nat, k < n, n <= Len(R),
           NEW q \in Scanning, NEW c \in Byte, c = R[k + 1], NEW T, Goto(q, c) # 48
    PROVE  Left(q, R, k, n, T) <=>
              /\ Goto(q, c) \notin {5, 14, 32, 44, 58}
              /\ Left(Goto(q, c), R, k + 1, n, T)
<1> DEFINE next == Goto(q, c)
<1>0. k + 1 \in Nat
  OBVIOUS
<1>1. CASE q \in Num
  <2>1. q \in {13, 43} => c \notin Digit
    BY <1>1, NextNumber
  <2>2. NumberLeft(q, R, k, n, T) <=>
           next \notin {5, 14, 32, 44, 58} /\ NumberLeft(next, R, k + 1, n, T)
    BY <1>1, <2>1, StepNum
  <2>3. next \in Num \cup {5, 14, 32, 44, 58}
    BY <1>1, NextNumber
  <2>4. Left(q, R, k, n, T) <=> NumberLeft(q, R, k, n, T)
    BY <1>1, LeftIs
  <2>5. next \in Num => (Left(next, R, k + 1, n, T) <=> NumberLeft(next, R, k + 1, n, T))
    BY <1>0, LeftIs
  <2> QED
    BY <2>2, <2>3, <2>4, <2>5
<1>2. CASE q \in Words
  <2>2. WordLeft(q, R, k, n, T) <=>
           next \notin {5, 14, 32, 44, 58} /\ WordLeft(next, R, k + 1, n, T)
    BY <1>2, StepWord
  <2>3. next \in (Words \cup {67, 69, 72}) \cup {5, 32}
    BY <1>2, NextWord
  <2>4. Left(q, R, k, n, T) <=> WordLeft(q, R, k, n, T)
    BY <1>2, LeftIs
  <2>5. next \in Words \cup {67, 69, 72} =>
           (Left(next, R, k + 1, n, T) <=> WordLeft(next, R, k + 1, n, T))
    BY <1>0, LeftIs
  <2> QED
    BY <2>2, <2>3, <2>4, <2>5
<1>3. CASE q \in {9, 30} \cup InUnit
  <2>2. StringLeft(q, R, k, n, T) <=>
           next \notin {5, 14, 32, 44, 58} /\ StringLeft(next, R, k + 1, n, T)
    BY <1>3, StepString
  <2>3. next \in ({9, 30, 33} \cup InUnit) \cup {5, 32}
    BY <1>3, NextString
  <2>4. Left(q, R, k, n, T) <=> StringLeft(q, R, k, n, T)
    BY <1>3, LeftIs
  <2>5. next \in {9, 30, 33} \cup InUnit =>
           (Left(next, R, k + 1, n, T) <=> StringLeft(next, R, k + 1, n, T))
    BY <1>0, LeftIs
  <2> QED
    BY <2>2, <2>3, <2>4, <2>5
<1> QED
  BY <1>1, <1>2, <1>3 DEF Scanning
USE DEF Comma, Colon, OpenArray, CloseArray, OpenObject, CloseObject

(* No two of the tokens are the same. *)
LEMMA TokenValues ==
    /\ TokenAt[2] = "end_of_input" /\ TokenAt[4] = "parse_error" /\ TokenAt[5] = "parse_error"
    /\ TokenAt[50] = "parse_error"
    /\ TokenAt[10] = "value_separator" /\ TokenAt[17] = "name_separator"
    /\ TokenAt[19] = "begin_array" /\ TokenAt[21] = "end_array"
    /\ TokenAt[26] = "begin_object" /\ TokenAt[28] = "end_object"
    /\ TokenAt[14] = "value_unsigned" /\ TokenAt[44] = "value_integer"
    /\ TokenAt[58] = "value_float" /\ TokenAt[33] = "value_string"
    /\ TokenAt[67] = "literal_null" /\ TokenAt[69] = "literal_true"
    /\ TokenAt[72] = "literal_false"
  BY DEF TokenAt

(* A sequence that begins with no digit, sign or quote is no number or string. *)
LEMMA PlainClass ==
    ASSUME NEW s, NEW R, NEW n \in Nat, NEW c, Kinds(s, R, n, c),
           c \notin Digit, c # Minus, c # Quote
    PROVE  /\ ~Whole(s) /\ Unsigned(s) = s /\ ~Real(Unsigned(s)) /\ ~Quoted(s)
  BY DEF Kinds

(* A whole number has no fraction or exponent. *)
LEMMA NotBoth ==
    ASSUME NEW R, NEW i \in Nat, NEW n \in Nat
    PROVE  ~(WholeAt(R, i, n) /\ RealAt(R, i, n))
<1> SUFFICES ASSUME WholeAt(R, i, n), RealAt(R, i, n) PROVE FALSE
  OBVIOUS
<1>1. PICK m \in (i + 1) .. n : FloatRest(R, m, n)
  BY DEF RealAt
<1>2. m < n /\ R[m + 1] \notin Digit
  BY <1>1 DEF FloatRest, ExponentAt
<1>3. m + 1 \in (i + 1) .. n
  BY <1>1, <1>2
<1> QED
  BY <1>2, <1>3 DEF WholeAt, DigitsAt, Run

(* The first character, by its kind: what may then be a token is what Left says. *)
LEMMA BegunAs ==
    ASSUME NEW s, NEW R, NEW n \in Nat, n >= 1, NEW c \in 1 .. 255, c = R[1],
           Kinds(s, R, n, c), NEW T, T # NoToken
    PROVE  Class(s) = T <=> Left(Dispatch(c), R, 1, n, T)
<1>1. Kinds(s, R, n, c) /\ c \in 1 .. 255
  OBVIOUS
<1>2. n \in Nat /\ n >= 1 /\ 1 \in Nat
  OBVIOUS
<1>3. /\ \A b : (s = <<b>>) <=> (n = 1 /\ c = b)
      /\ c # 102 => s # <<102, 97, 108, 115, 101>>
      /\ c # 110 => s # <<110, 117, 108, 108>>
      /\ c # 116 => s # <<116, 114, 117, 101>>
  BY <1>1, ZenonT(30) DEF Kinds
<1>4. ASSUME c \notin Digit, c # Minus, c # Quote
      PROVE  /\ ~Whole(s) /\ Unsigned(s) = s /\ ~Real(Unsigned(s)) /\ ~Quoted(s)
  BY <1>1, <1>2, <1>4, PlainClass
<1>5. CASE c \in {Comma, Colon, OpenArray, CloseArray, OpenObject, CloseObject}
  <2>1. c \notin Digit /\ c # Minus /\ c # Quote /\ c \notin {102, 110, 116}
    BY <1>5
  <2>2. Dispatch(c) = CASE c = Comma -> 10 [] c = Colon -> 17 [] c = OpenArray -> 19
                        [] c = CloseArray -> 21 [] c = OpenObject -> 26
                        [] c = CloseObject -> 28
    BY <1>5 DEF Dispatch, Blank, Tab, LineFeed, CarriageReturn, Space
  <2>3. Dispatch(c) \in Simple
    BY <1>5, <2>2 DEF Simple
  <2>4. Left(Dispatch(c), R, 1, n, T) <=> n = 1 /\ T = TokenAt[Dispatch(c)]
    BY <1>2, <2>3, LeftIs
  <2>5. Class(s) = IF n = 1 THEN TokenAt[Dispatch(c)] ELSE NoToken
    <3>1. CASE n = 1
      <4>1. \A b : (s = <<b>>) <=> (c = b)
        BY <1>3, <3>1
      <4>2. TokenAt[Dispatch(c)] =
              CASE c = Comma -> "value_separator" [] c = Colon -> "name_separator"
                [] c = OpenArray -> "begin_array" [] c = CloseArray -> "end_array"
                [] c = OpenObject -> "begin_object" [] c = CloseObject -> "end_object"
        BY <1>5, <2>2, TokenValues
      <4>3. /\ c = Comma => Class(s) = "value_separator"
            /\ c = Colon => Class(s) = "name_separator"
            /\ c = OpenArray => Class(s) = "begin_array"
            /\ c = CloseArray => Class(s) = "end_array"
            /\ c = OpenObject => Class(s) = "begin_object"
            /\ c = CloseObject => Class(s) = "end_object"
        <5>1. s = <<c>>
          BY <4>1
        <5>2. /\ <<c>> = <<Comma>> <=> c = Comma
              /\ <<c>> = <<Colon>> <=> c = Colon
              /\ <<c>> = <<OpenArray>> <=> c = OpenArray
              /\ <<c>> = <<CloseArray>> <=> c = CloseArray
              /\ <<c>> = <<OpenObject>> <=> c = OpenObject
              /\ <<c>> = <<CloseObject>> <=> c = CloseObject
          BY <4>1, <5>1
        <5>0. c \notin {102, 110, 116} /\ ~Whole(s) /\ Unsigned(s) = s /\ ~Real(s) /\ ~Quoted(s)
          BY <1>4, <2>1
        <5> HIDE DEF Comma, Colon, OpenArray, CloseArray, OpenObject, CloseObject
        <5>3. /\ Comma # Colon /\ Comma # OpenArray /\ Comma # CloseArray /\ Comma # OpenObject
              /\ Comma # CloseObject /\ Colon # OpenArray /\ Colon # CloseArray
              /\ Colon # OpenObject /\ Colon # CloseObject /\ OpenArray # CloseArray
              /\ OpenArray # OpenObject /\ OpenArray # CloseObject /\ CloseArray # OpenObject
              /\ CloseArray # CloseObject /\ OpenObject # CloseObject
          BY DEF Comma, Colon, OpenArray, CloseArray, OpenObject, CloseObject
        <5>4. CASE c = Comma
          BY <1>3, <5>0, <5>1, <5>2, <5>3, <5>4 DEF Class
        <5>5. CASE c = Colon
          BY <1>3, <5>0, <5>1, <5>2, <5>3, <5>5 DEF Class
        <5>6. CASE c = OpenArray
          BY <1>3, <5>0, <5>1, <5>2, <5>3, <5>6 DEF Class
        <5>7. CASE c = CloseArray
          BY <1>3, <5>0, <5>1, <5>2, <5>3, <5>7 DEF Class
        <5>8. CASE c = OpenObject
          BY <1>3, <5>0, <5>1, <5>2, <5>3, <5>8 DEF Class
        <5>9. CASE c = CloseObject
          BY <1>3, <5>0, <5>1, <5>2, <5>3, <5>9 DEF Class
        <5> QED
          BY <1>5, <5>3, <5>4, <5>5, <5>6, <5>7, <5>8, <5>9
      <4> QED
        BY <1>5, <3>1, <4>2, <4>3
    <3>2. CASE n # 1
      BY <1>3, <1>4, <2>1, <3>2 DEF Class
    <3> QED
      BY <3>1, <3>2
  <2> QED
    BY <2>4, <2>5
<1>6. CASE c \in {102, 110, 116}
  <2>1. c \notin Digit /\ c # Minus /\ c # Quote
        /\ c \notin {Comma, Colon, OpenArray, CloseArray, OpenObject, CloseObject}
    BY <1>6
  <2>2. Dispatch(c) = CASE c = 102 -> 23 [] c = 110 -> 24 [] c = 116 -> 25
    BY <1>6 DEF Dispatch, Blank, Tab, LineFeed, CarriageReturn, Space
  <2>3. Dispatch(c) \in Words
    BY <1>6, <2>2 DEF Words
  <2>4. Left(Dispatch(c), R, 1, n, T) <=> WordLeft(Dispatch(c), R, 1, n, T)
    BY <1>2, <2>3, LeftIs
  <2>5. /\ (s = <<102, 97, 108, 115, 101>>) <=>
             (n = 5 /\ c = 102 /\ R[2] = 97 /\ R[3] = 108 /\ R[4] = 115 /\ R[5] = 101)
        /\ (s = <<110, 117, 108, 108>>) <=>
             (n = 4 /\ c = 110 /\ R[2] = 117 /\ R[3] = 108 /\ R[4] = 108)
        /\ (s = <<116, 114, 117, 101>>) <=>
             (n = 4 /\ c = 116 /\ R[2] = 114 /\ R[3] = 117 /\ R[4] = 101)
    BY <1>1, Zenon DEF Kinds
  <2>6. Class(s) = T <=> \/ T = "literal_false" /\ s = <<102, 97, 108, 115, 101>>
                         \/ T = "literal_null" /\ s = <<110, 117, 108, 108>>
                         \/ T = "literal_true" /\ s = <<116, 114, 117, 101>>
    <3>1. \A b \in {Comma, Colon, OpenArray, CloseArray, OpenObject, CloseObject} : s # <<b>>
      BY <1>3, <2>1
    <3>2. CASE c = 102
      BY <1>3, <1>4, <2>1, <3>1, <3>2 DEF Class
    <3>3. CASE c = 110
      BY <1>3, <1>4, <2>1, <3>1, <3>3 DEF Class
    <3>4. CASE c = 116
      BY <1>3, <1>4, <2>1, <3>1, <3>4 DEF Class
    <3> QED
      BY <1>6, <3>2, <3>3, <3>4
  <2>7. WordLeft(Dispatch(c), R, 1, n, T) <=> 
           \/ /\ T = "literal_false" /\ n = 5 /\ c = 102
              /\ R[2] = 97 /\ R[3] = 108 /\ R[4] = 115 /\ R[5] = 101
           \/ /\ T = "literal_null" /\ n = 4 /\ c = 110
              /\ R[2] = 117 /\ R[3] = 108 /\ R[4] = 108
           \/ /\ T = "literal_true" /\ n = 4 /\ c = 116
              /\ R[2] = 114 /\ R[3] = 117 /\ R[4] = 101
    BY <1>2, <1>6, <2>2 DEF WordLeft
  <2> QED
    BY <2>4, <2>5, <2>6, <2>7
<1>7. CASE c = Quote
  <2>1. Dispatch(c) = 9
    BY <1>7 DEF Dispatch, Blank, Tab, LineFeed, CarriageReturn, Space
  <2>2. Left(9, R, 1, n, T) <=> StringLeft(9, R, 1, n, T)
    BY <1>2, LeftIs
  <2>3. StringLeft(9, R, 1, n, T) <=> T = "value_string" /\ ClosesAt(R, 1, n)
    BY DEF StringLeft, UnitLeft
  <2>4. /\ Quoted(s) <=> ClosesAt(R, 1, n)
        /\ ~Whole(s) /\ Unsigned(s) = s /\ ~Real(Unsigned(s))
    BY <1>1, <1>7 DEF Kinds
  <2>5. Class(s) = IF Quoted(s) THEN "value_string" ELSE NoToken
    <3>1. \A b \in {Comma, Colon, OpenArray, CloseArray, OpenObject, CloseObject} : s # <<b>>
      BY <1>3, <1>7
    <3>2. c \notin {102, 110, 116}
      BY <1>7
    <3> QED
      BY <1>3, <2>4, <3>1, <3>2 DEF Class
  <2> QED
    BY <2>1, <2>2, <2>3, <2>4, <2>5
<1>8. CASE c = Minus
  <2>1. Dispatch(c) = 12
    BY <1>8 DEF Dispatch, Blank, Tab, LineFeed, CarriageReturn, Space
  <2>2. Left(12, R, 1, n, T) <=> NumberLeft(12, R, 1, n, T)
    BY <1>2, LeftIs DEF Num
  <2>3. NumberLeft(12, R, 1, n, T) <=> \/ T = "value_integer" /\ WholeAt(R, 1, n)
                                       \/ T = "value_float" /\ RealAt(R, 1, n)
    BY DEF NumberLeft
  <2>4. /\ Whole(Unsigned(s)) <=> WholeAt(R, 1, n)
        /\ Real(Unsigned(s)) <=> RealAt(R, 1, n)
        /\ ~Whole(s) /\ Unsigned(s) # s /\ ~Quoted(s)
    BY <1>1, <1>8 DEF Kinds
  <2>6. ~(WholeAt(R, 1, n) /\ RealAt(R, 1, n))
    BY <1>2, NotBoth
  <2>5. Class(s) = IF WholeAt(R, 1, n) THEN "value_integer"
                   ELSE IF RealAt(R, 1, n) THEN "value_float" ELSE NoToken
    <3>1. \A b \in {Comma, Colon, OpenArray, CloseArray, OpenObject, CloseObject} : s # <<b>>
      BY <1>3, <1>8
    <3>2. c \notin {102, 110, 116}
      BY <1>8
    <3>4. s \notin {<<Comma>>, <<Colon>>, <<OpenArray>>, <<CloseArray>>, <<OpenObject>>,
                      <<CloseObject>>, <<102, 97, 108, 115, 101>>,
                      <<110, 117, 108, 108>>, <<116, 114, 117, 101>>}
      BY <1>3, <3>1, <3>2
    <3>5. CASE Whole(Unsigned(s))
      BY <2>4, <2>6, <3>4, <3>5 DEF Class
    <3>6. CASE ~Whole(Unsigned(s)) /\ Real(Unsigned(s))
      BY <2>4, <3>4, <3>6 DEF Class
    <3>7. CASE ~Whole(Unsigned(s)) /\ ~Real(Unsigned(s))
      BY <2>4, <3>4, <3>7 DEF Class
    <3> QED
      BY <3>5, <3>6, <3>7
  <2> QED
    BY <2>1, <2>2, <2>3, <2>5, <2>6
<1>9. CASE c \in Digit
  <2>1. Dispatch(c) = IF c = Zero THEN 13 ELSE 15
    BY <1>9 DEF Dispatch, Blank, Tab, LineFeed, CarriageReturn, Space
  <2>2. Dispatch(c) \in Num
    BY <2>1 DEF Num
  <2>3. Left(Dispatch(c), R, 1, n, T) <=> NumberLeft(Dispatch(c), R, 1, n, T)
    BY <1>2, <2>2, LeftIs
  <2>4. NumberLeft(Dispatch(c), R, 1, n, T) <=> \/ T = "value_unsigned" /\ WholeAt(R, 0, n)
                                                \/ T = "value_float" /\ RealAt(R, 0, n)
    <3>1. CASE c = Zero
      <4>1. NumberLeft(13, R, 1, n, T) <=> \/ T = "value_unsigned" /\ n = 1
                                           \/ T = "value_float" /\ FloatRest(R, 1, n)
        BY DEF NumberLeft
      <4>2. \A m \in Nat : WholeAt(R, 0, m) <=> m = 1
        <5>1. R[1] = 48 /\ 0 + 1 = 1
          BY <3>1
        <5>2. ASSUME NEW m \in Nat, WholeAt(R, 0, m) PROVE m = 1
          BY <5>1, <5>2 DEF WholeAt, DigitsAt
        <5>3. Run(R, 0, 1)
          BY <5>1 DEF Run
        <5>4. WholeAt(R, 0, 1)
          BY <5>3 DEF WholeAt, DigitsAt
        <5> QED
          BY <5>2, <5>4
      <4>3. RealAt(R, 0, n) <=> FloatRest(R, 1, n)
        BY <1>2, <4>2 DEF RealAt
      <4> QED
        BY <1>2, <2>1, <3>1, <4>1, <4>2, <4>3
    <3>2. CASE c # Zero
      BY <1>2, <1>9, <2>1, <3>2 DEF NumberLeft, WholeAt, RealAt, DigitsAt, Run, RealRest
    <3> QED
      BY <3>1, <3>2
  <2>5. /\ Whole(s) <=> WholeAt(R, 0, n)
        /\ Real(Unsigned(s)) <=> RealAt(R, 0, n)
        /\ Unsigned(s) = s /\ ~Quoted(s)
    BY <1>1, <1>9 DEF Kinds
  <2>7. ~(WholeAt(R, 0, n) /\ RealAt(R, 0, n))
    BY <1>2, NotBoth
  <2>6. Class(s) = IF WholeAt(R, 0, n) THEN "value_unsigned"
                   ELSE IF RealAt(R, 0, n) THEN "value_float" ELSE NoToken
    <3>1. \A b \in {Comma, Colon, OpenArray, CloseArray, OpenObject, CloseObject} : s # <<b>>
      BY <1>3, <1>9
    <3>2. c \notin {102, 110, 116}
      BY <1>9
    <3>4. s \notin {<<Comma>>, <<Colon>>, <<OpenArray>>, <<CloseArray>>, <<OpenObject>>,
                      <<CloseObject>>, <<102, 97, 108, 115, 101>>,
                      <<110, 117, 108, 108>>, <<116, 114, 117, 101>>}
      BY <1>3, <3>1, <3>2
    <3>5. CASE Whole(s)
      BY <2>5, <2>7, <3>4, <3>5 DEF Class
    <3>6. CASE ~Whole(s) /\ Real(Unsigned(s))
      BY <2>5, <3>4, <3>6 DEF Class
    <3>7. CASE ~Whole(s) /\ ~Real(Unsigned(s))
      BY <2>5, <3>4, <3>7 DEF Class
    <3> QED
      BY <3>5, <3>6, <3>7
  <2> QED
    BY <2>3, <2>4, <2>6, <2>7
<1>10. CASE c \notin Digit \cup {Comma, Colon, OpenArray, CloseArray, OpenObject,
                                 CloseObject, 102, 110, 116, Minus, Quote}
  <2>1. Dispatch(c) \in {4, 6}
    BY <1>1, <1>10 DEF Dispatch, Blank, Tab, LineFeed, CarriageReturn, Space
  <2>2. ~Left(Dispatch(c), R, 1, n, T)
    BY <1>2, <2>1, LeftIs
  <2>3. Class(s) = NoToken
    <3>1. \A b \in {Comma, Colon, OpenArray, CloseArray, OpenObject, CloseObject} : s # <<b>>
      BY <1>3, <1>10
    <3>2. c \notin {102, 110, 116}
      BY <1>10
    <3> QED
      BY <1>3, <1>4, <1>10, <3>1, <3>2 DEF Class
  <2> QED
    BY <2>2, <2>3
<1> QED
  BY <1>5, <1>6, <1>7, <1>8, <1>9, <1>10

(* So after its first character a text begins a token exactly where the label allows one. *)
LEMMA Begun ==
    ASSUME NEW R \in Seq(1 .. 255), NEW n \in 1 .. Len(R), NEW c, c = R[1],
           NEW T, T # NoToken
    PROVE  Class(First(R, n)) = T <=> Left(Dispatch(c), R, 1, n, T)
<1>1. Kinds(First(R, n), R, n, c) /\ c \in 1 .. 255
  BY KindsOf
<1>2. n \in Nat /\ n >= 1
  OBVIOUS
<1> QED
  BY <1>1, <1>2, BegunAs

(* The labels at which a token has been completed. *)
Ended == Simple \cup {33, 67, 69, 72}

(* What is a token already, with nothing left to read. *)
LEMMA LeftHere ==
    ASSUME NEW q \in Scanning, NEW R, NEW k \in Nat, NEW T
    PROVE  Left(q, R, k, k, T) <=>
              \/ Accepts(q) # 0 /\ T = TokenAt[Accepted[Accepts(q)]]
              \/ q = 60 /\ T = "value_float"
<1>1. /\ Accepted[1] = 14 /\ Accepted[2] = 44 /\ Accepted[3] = 58
  BY DEF Accepted
<1>2. /\ TokenAt[14] = "value_unsigned" /\ TokenAt[44] = "value_integer"
      /\ TokenAt[58] = "value_float"
  BY TokenValues
<1>3. CASE q \in Num
  <2>1. Left(q, R, k, k, T) <=> NumberLeft(q, R, k, k, T)
    BY <1>3, LeftIs
  <2>2. /\ Run(R, k, k) /\ ~DigitsAt(R, k, k) /\ ~FloatRest(R, k, k)
        /\ ~ExponentRest(R, k, k) /\ ~PointRest(R, k, k)
    BY DEF Run, DigitsAt, FloatRest, ExponentRest, ExponentAt, PointRest
  <2>3. ~WholeAt(R, k, k) /\ ~RealAt(R, k, k)
    BY <2>2 DEF WholeAt, RealAt
  <2>4. DecimalsRest(R, k, k)
    BY <2>2 DEF DecimalsRest
  <2>5. ~RealRest(R, k, k)
    BY <2>2 DEF RealRest
  <2> QED
    BY <1>1, <1>2, <1>3, <2>1, <2>2, <2>3, <2>4, <2>5 DEF NumberLeft, Num, Accepts
<1>4. CASE q \in Words
  <2>1. Left(q, R, k, k, T) <=> WordLeft(q, R, k, k, T)
    BY <1>4, LeftIs
  <2>2. ~WordLeft(q, R, k, k, T)
    BY <1>4 DEF WordLeft, Words
  <2>3. Accepts(q) = 0 /\ q # 60
    BY <1>4 DEF Accepts, Words
  <2> QED
    BY <2>1, <2>2, <2>3
<1>5. CASE q \in {9, 30} \cup InUnit
  <2>1. Left(q, R, k, k, T) <=> StringLeft(q, R, k, k, T)
    BY <1>5, LeftIs
  <2>2. ~ClosesAt(R, k, k)
    BY DEF ClosesAt
  <2>3. q # 33 /\ q # 60 /\ Accepts(q) = 0
    BY <1>5 DEF Accepts, InUnit
  <2>4. ~StringLeft(q, R, k, k, T)
    BY <2>2, <2>3 DEF StringLeft
  <2> QED
    BY <2>1, <2>3, <2>4
<1> QED
  BY <1>3, <1>4, <1>5 DEF Scanning

(* A label that ends a token is reached with that token complete. *)
LEMMA NextEnds ==
    ASSUME NEW q \in Num, NEW c \in Byte, Goto(q, c) \in {5, 14, 32, 44, 58}
    PROVE  /\ Goto(q, c) = 14 => q \in {13, 15}
           /\ Goto(q, c) = 44 => q \in {43, 45}
           /\ Goto(q, c) = 58 => q \in {56, 60}
           /\ Goto(q, c) \in {5, 32} => q \notin {13, 15, 43, 45, 56, 60}
<1>1. CASE q = 12
  BY <1>1 DEF Byte, Goto, AfterMinus
<1>2. CASE q = 13
  BY <1>2 DEF Byte, Goto, AfterZero
<1>3. CASE q = 15
  BY <1>3 DEF Byte, Goto, AfterDigit
<1>4. CASE q = 43
  BY <1>4 DEF Byte, Goto, AfterZero
<1>5. CASE q = 45
  BY <1>5 DEF Byte, Goto, AfterDigit
<1>6. CASE q = 47
  BY <1>6 DEF Byte, Goto, Fraction
<1>7. CASE q = 51
  BY <1>7 DEF Byte, Goto, Exponent
<1>8. CASE q = 56
  BY <1>8 DEF Byte, Goto, AfterFraction
<1>9. CASE q = 59
  BY <1>9 DEF Byte, Goto, ExponentSign
<1>10. CASE q = 60
  BY <1>10 DEF Byte, Goto, ExponentDigits
<1> QED
  BY <1>1, <1>2, <1>3, <1>4, <1>5, <1>6, <1>7, <1>8, <1>9, <1>10 DEF Num

(* A label that ends a number is gone to from where that number was seen. *)
LEMMA NextHere ==
    ASSUME NEW q \in Scanning, NEW c \in Byte, NEW R, NEW k \in Nat, NEW T,
           Goto(q, c) \in {5, 14, 32, 44, 58}
    PROVE  Left(Goto(q, c), R, k, k, T) <=> Left(q, R, k, k, T)
<1> DEFINE next == Goto(q, c)
<1>1. /\ next \in {5, 32} => ~Left(next, R, k, k, T)
      /\ next \in {14, 44, 58} => (Left(next, R, k, k, T) <=> T = TokenAt[next])
  BY LeftIs DEF Simple
<1>2. /\ Accepted[1] = 14 /\ Accepted[2] = 44 /\ Accepted[3] = 58 /\ TokenAt[58] = "value_float"
  BY TokenValues DEF Accepted
<1>3. /\ next = 14 => q \in {13, 15}
      /\ next = 44 => q \in {43, 45}
      /\ next = 58 => q \in {56, 60}
      /\ next \in {5, 32} => q \notin {13, 15, 43, 45, 56, 60}
  <2>1. CASE q \in Num
    BY <2>1, NextEnds
  <2>2. CASE q \in Words
    <3>1. next \in (Words \ (23 .. 25)) \cup {5, 32, 67, 69, 72}
      BY <2>2, NextWord
    <3> QED
      BY <2>2, <3>1 DEF Words
  <2>3. CASE q \in {9, 30} \cup InUnit
    <3>1. next \in ({30, 33} \cup InUnit) \cup {5, 32}
      BY <2>3, NextString
    <3> QED
      BY <2>3, <3>1 DEF InUnit
  <2> QED
    BY <2>1, <2>2, <2>3 DEF Scanning
<1>4. Left(q, R, k, k, T) <=>
         \/ Accepts(q) # 0 /\ T = TokenAt[Accepted[Accepts(q)]]
         \/ q = 60 /\ T = "value_float"
  BY LeftHere
<1> QED
  BY <1>1, <1>2, <1>3, <1>4 DEF Accepts

-----------------------------------------------------------------------------
(* How far the scanner is with a token. *)

(* What the bytes read so far leave open: a token from the k-th on, or not. *)
Viewed(q, R, k) ==
    \A n \in 1 .. Len(R) : \A T :
        n >= k /\ T # NoToken => (Class(First(R, n)) = T <=> Left(q, R, k, n, T))

(* Of what is shorter than k, the marker is at the longest token. *)
Marked(R, k, mk, acc) ==
    /\ \A n \in 1 .. Len(R) :
          n < k /\ (acc = 0 \/ mk < n) => Class(First(R, n)) = NoToken
    /\ acc # 0 => mk \in 1 .. Len(R) /\ Class(First(R, mk)) = TokenAt[Accepted[acc]]

(* A number led by zero is at a label that knows it. *)
Zeros(q, R, k) ==
    /\ q = 12 => k = 1 /\ R[1] = Minus
    /\ q = 13 => k = 1 /\ R[1] = Zero
    /\ q = 43 => k = 2 /\ R[1] = Minus /\ R[2] = Zero
    /\ q \in {48, 50} => ZeroLed(R)
    /\ q \notin {2, 6, 7, 12, 13, 43, 48, 50} => ~ZeroLed(R)

(* The labels at which the marker counts, with those that go back to it. *)
Tried == Scanning \cup Ended \cup {4, 5, 32}

(* All of it: what the labels, the marker and yyaccept say of the tokens of R. *)
Progress(q, R, k, mk, acc) ==
    /\ k \in 0 .. Len(R)
    /\ q \in Scanning \cup Ended => 1 <= k
    /\ IF q = 2 THEN Len(R) = 0 ELSE Len(R) >= 1
    /\ q \in Tried => Viewed(q, R, k)
    /\ q \in (Scanning \ {60}) \cup {4, 5, 32} => Marked(R, k, mk, acc)
    /\ q \in {4, 5, 9, 12, 23, 24, 25} => acc = 0
    /\ Zeros(q, R, k)

(* A number led by a zero that a digit follows, by its places. *)
LEMMA ZeroLedIs ==
    ASSUME NEW R \in Seq(1 .. 255), Len(R) >= 1
    PROVE  ZeroLed(R) <=>
              \/ Len(R) > 1 /\ R[1] = Zero /\ R[2] \in Digit
              \/ Len(R) > 2 /\ R[1] = Minus /\ R[2] = Zero /\ R[3] \in Digit
<1>1. R # <<>>
  OBVIOUS
<1>2. CASE R[1] = Minus
  <2>1. Unsigned(R) = Tail(R)
    BY <1>1, <1>2 DEF Unsigned
  <2>2. /\ Len(Tail(R)) = Len(R) - 1
        /\ Len(R) > 1 => Tail(R)[1] = R[2]
        /\ Len(R) > 2 => Tail(R)[2] = R[3]
    BY <1>1
  <2> QED
    BY <1>2, <2>1, <2>2 DEF ZeroLed
<1>3. CASE R[1] # Minus
  <2>1. Unsigned(R) = R
    BY <1>3 DEF Unsigned
  <2> QED
    BY <1>3, <2>1 DEF ZeroLed
<1> QED
  BY <1>2, <1>3

(* The longest token is the one of which no longer one is a token. *)
LEMMA LongestFound ==
    ASSUME NEW R \in Seq(1 .. 255), ~ZeroLed(R), NEW n \in 1 .. Len(R), NEW T,
           T # NoToken, Class(First(R, n)) = T,
           \A m \in 1 .. Len(R) : m > n => Class(First(R, m)) = NoToken
    PROVE  LongestOf(R).type = T /\ LongestOf(R).length = n
<1> DEFINE lengths == {m \in 1 .. Len(R) : Class(First(R, m)) # NoToken}
           longest == CHOOSE m \in lengths : \A x \in lengths : x <= m
<1>1. n \in lengths /\ \A x \in lengths : x <= n
  OBVIOUS
<1>2. longest \in lengths /\ \A x \in lengths : x <= longest
  BY <1>1
<1>3. longest = n
  BY <1>1, <1>2
<1>4. R # <<>> /\ lengths # {}
  BY <1>1
<1>5. LongestOf(R) = [type |-> Class(First(R, longest)), length |-> longest]
  BY <1>4 DEF LongestOf
<1> HIDE DEF longest
<1> QED
  BY <1>3, <1>5

(* There is none where no beginning is a token. *)
LEMMA LongestNone ==
    ASSUME NEW R \in Seq(1 .. 255), Len(R) >= 1,
           ZeroLed(R) \/ \A m \in 1 .. Len(R) : Class(First(R, m)) = NoToken
    PROVE  LongestOf(R).type = "parse_error"
<1> DEFINE lengths == {m \in 1 .. Len(R) : Class(First(R, m)) # NoToken}
<1>1. R # <<>>
  OBVIOUS
<1>2. lengths = {} \/ ZeroLed(R)
  OBVIOUS
<1>3. LongestOf(R) = [type |-> "parse_error", length |-> 0]
  BY <1>1, <1>2 DEF LongestOf
<1> QED
  BY <1>3

(* At the end of the text there is only its end. *)
LEMMA LongestEnd ==
    LongestOf(<<>>).type = "end_of_input" /\ LongestOf(<<>>).length = 1
  BY DEF LongestOf, ZeroLed, Unsigned

(* Where each first character leads. *)
LEMMA FirstLabel ==
    ASSUME NEW c \in Byte
    PROVE  /\ Dispatch(c) = 2 <=> c = 0
           /\ Dispatch(c) = 12 => c = Minus
           /\ Dispatch(c) = 13 => c = Zero
           /\ Dispatch(c) \notin {5, 7, 14, 32, 43, 44, 48, 50, 58}
           /\ Dispatch(c) \notin {6, 12, 13} => c # Minus /\ c # Zero
  BY DEF Byte, Dispatch, Blank, Tab, LineFeed, CarriageReturn, Space,
     Comma, Colon, OpenArray, CloseArray, OpenObject, CloseObject

(* A token begins. *)
LEMMA ProgressBegins ==
    ASSUME NEW R \in Seq(1 .. 255), NEW c \in Byte, NEW mk,
           IF Len(R) = 0 THEN c = 0 ELSE c = R[1]
    PROVE  Progress(Dispatch(c), R, IF Len(R) = 0 THEN 0 ELSE 1, mk, 0)
<1>0. Len(R) \in Nat
  OBVIOUS
<1>1. CASE Len(R) = 0
  <2>1. Dispatch(c) = 2
    BY <1>1, FirstLabel
  <2>2. 2 \notin Tried /\ 2 \notin Scanning \cup Ended
    BY DEF Tried, Scanning, Ended, Simple, Num, Words, InUnit
  <2> QED
    BY <1>1, <2>1, <2>2 DEF Progress, Zeros, Scanning
<1>2. CASE Len(R) # 0
  <2>1. 1 \in 1 .. Len(R) /\ c = R[1] /\ c \in 1 .. 255
    <3>1. 1 \in 1 .. Len(R)
      BY <1>0, <1>2
    <3>2. R[1] \in 1 .. 255
      BY <3>1, ElementOfSeq
    <3> QED
      BY <1>2, <3>1, <3>2, ZenonT(30)
  <2>0. c \in 1 .. 255
    BY <2>1
  <2>2. Viewed(Dispatch(c), R, 1)
    <3> SUFFICES ASSUME NEW n \in 1 .. Len(R), NEW T, T # NoToken
                 PROVE  Class(First(R, n)) = T <=> Left(Dispatch(c), R, 1, n, T)
      BY DEF Viewed
    <3> QED
      BY <2>1, Begun
  <2>3. Marked(R, 1, mk, 0)
    BY DEF Marked
  <2>4. /\ Dispatch(c) # 2
        /\ Dispatch(c) = 12 => c = Minus
        /\ Dispatch(c) = 13 => c = Zero
        /\ Dispatch(c) \notin {43, 48, 50}
        /\ Dispatch(c) \notin {6, 12, 13} => c # Minus /\ c # Zero
    <3>1. /\ Dispatch(c) = 2 <=> c = 0
          /\ Dispatch(c) = 12 => c = Minus
          /\ Dispatch(c) = 13 => c = Zero
          /\ Dispatch(c) \notin {5, 7, 14, 32, 43, 44, 48, 50, 58}
          /\ Dispatch(c) \notin {6, 12, 13} => c # Minus /\ c # Zero
      BY FirstLabel
    <3>2. c # 0
      BY <2>0
    <3> QED
      BY <3>1, <3>2
  <2>5. Dispatch(c) \notin {6, 12, 13} => ~ZeroLed(R)
    BY <1>0, <1>2, <2>1, <2>4, ZeroLedIs
  <2>6. Zeros(Dispatch(c), R, 1)
    BY <2>1, <2>4, <2>5 DEF Zeros
  <2> QED
    BY <1>0, <1>2, <2>2, <2>3, <2>4, <2>6 DEF Progress
<1> QED
  BY <1>1, <1>2

(* The bytes a label adds to the token: none where it leaves its character. *)
Counted(q, c) == IF Goto(q, c) \in {5, 14, 32, 44, 58} THEN 0 ELSE 1

(* One character more. *)
LEMMA ViewedOn ==
    ASSUME NEW R \in Seq(1 .. 255), NEW q \in Scanning, NEW k \in 1 .. Len(R),
           NEW c \in Byte, k < Len(R) => c = R[k + 1], k = Len(R) => c = 0,
           Goto(q, c) # 48, Viewed(q, R, k)
    PROVE  Viewed(Goto(q, c), R, k + Counted(q, c))
<1> DEFINE next == Goto(q, c)
<1>0. Len(R) \in Nat /\ k \in Nat /\ k >= 1 /\ k <= Len(R)
  OBVIOUS
<1>1. ASSUME NEW n \in 1 .. Len(R), NEW T, T # NoToken, n > k
      PROVE  Class(First(R, n)) = T <=>
               next \notin {5, 14, 32, 44, 58} /\ Left(next, R, k + 1, n, T)
  <2>1. n \in Nat /\ k < n /\ n <= Len(R) /\ c = R[k + 1] /\ n >= k
    BY <1>0, <1>1
  <2>2. Class(First(R, n)) = T <=> Left(q, R, k, n, T)
    BY <1>1, <2>1 DEF Viewed
  <2>3. Left(q, R, k, n, T) <=>
           next \notin {5, 14, 32, 44, 58} /\ Left(next, R, k + 1, n, T)
    BY <1>0, <2>1, StepLeft
  <2> QED
    BY <2>2, <2>3
<1>2. CASE next \in {5, 14, 32, 44, 58}
  <2>1. k + Counted(q, c) = k
    BY <1>0, <1>2 DEF Counted
  <2> SUFFICES ASSUME NEW n \in 1 .. Len(R), NEW T, T # NoToken, n >= k
               PROVE  Class(First(R, n)) = T <=> Left(next, R, k, n, T)
    BY <2>1 DEF Viewed
  <2>2. CASE n = k
    <3>1. Class(First(R, n)) = T <=> Left(q, R, k, n, T)
      BY <2>2 DEF Viewed
    <3>2. Left(next, R, k, k, T) <=> Left(q, R, k, k, T)
      BY <1>0, <1>2, NextHere
    <3> QED
      BY <2>2, <3>1, <3>2
  <2>3. CASE n > k
    <3>1. n \in Nat
      OBVIOUS
    <3>2. ~Left(next, R, k, n, T)
      <4>1. CASE next \in {5, 32}
        BY <1>0, <3>1, <4>1, LeftIs
      <4>2. CASE next \in {14, 44, 58}
        <5>1. next \in Simple
          BY <4>2 DEF Simple
        <5>2. Left(next, R, k, n, T) <=> n = k /\ T = TokenAt[next]
          BY <1>0, <3>1, <5>1, LeftIs
        <5> QED
          BY <1>0, <2>3, <5>2
      <4> QED
        BY <1>2, <4>1, <4>2
    <3> QED
      BY <1>1, <1>2, <2>3, <3>2
  <2> QED
    BY <1>0, <2>2, <2>3
<1>3. CASE next \notin {5, 14, 32, 44, 58}
  <2>1. k + Counted(q, c) = k + 1
    BY <1>3 DEF Counted
  <2> SUFFICES ASSUME NEW n \in 1 .. Len(R), NEW T, T # NoToken, n >= k + 1
               PROVE  Class(First(R, n)) = T <=> Left(next, R, k + 1, n, T)
    BY <2>1 DEF Viewed
  <2> QED
    BY <1>0, <1>1, <1>3
<1> QED
  BY <1>2, <1>3

(* The marker a label leaves. *)
Mark(q, k, mk) == IF q \in Marks THEN k ELSE mk
(* What yyaccept is after a label. *)
Acc(q, acc) == IF q \in Marks THEN Accepts(q) ELSE acc

(* The marker stays at the longest token when a character more is read. *)
LEMMA MarkedOn ==
    ASSUME NEW R \in Seq(1 .. 255), NEW q \in Scanning \ {60}, NEW k \in 1 .. Len(R),
           NEW mk \in Nat, NEW acc \in 0 .. 3, NEW more \in {0, 1},
           q \in {9, 23, 24, 25} => acc = 0,
           Viewed(q, R, k), Marked(R, k, mk, acc)
    PROVE  Marked(R, k + more, Mark(q, k, mk), Acc(q, acc))
<1> DEFINE mk2 == Mark(q, k, mk)
           acc2 == Acc(q, acc)
<1>0. Len(R) \in Nat /\ k \in Nat /\ k >= 1 /\ k <= Len(R)
  OBVIOUS
<1>1. \A T : T # NoToken => 
         (Class(First(R, k)) = T <=>
            Accepts(q) # 0 /\ T = TokenAt[Accepted[Accepts(q)]])
  <2> SUFFICES ASSUME NEW T, T # NoToken
               PROVE  Class(First(R, k)) = T <=>
                        Accepts(q) # 0 /\ T = TokenAt[Accepted[Accepts(q)]]
    OBVIOUS
  <2>1. Class(First(R, k)) = T <=> Left(q, R, k, k, T)
    BY <1>0 DEF Viewed
  <2>2. Left(q, R, k, k, T) <=>
              \/ Accepts(q) # 0 /\ T = TokenAt[Accepted[Accepts(q)]]
              \/ q = 60 /\ T = "value_float"
    BY <1>0, LeftHere
  <2> QED
    BY <2>1, <2>2
<1>2. Accepts(q) # 0 => /\ q \in Marks
                        /\ TokenAt[Accepted[Accepts(q)]] # NoToken
  <2>1. Accepts(q) # 0 => q \in Marks /\ Accepts(q) \in 1 .. 3
    BY DEF Accepts, Marks
  <2>2. Accepted[1] = 14 /\ Accepted[2] = 44 /\ Accepted[3] = 58
    BY DEF Accepted
  <2>3. TokenAt[14] # NoToken /\ TokenAt[44] # NoToken /\ TokenAt[58] # NoToken
    BY TokenValues DEF NoToken
  <2>4. CASE Accepts(q) = 1
    BY <2>1, <2>2, <2>3, <2>4
  <2>5. CASE Accepts(q) = 2
    BY <2>1, <2>2, <2>3, <2>5
  <2>6. CASE Accepts(q) = 3
    BY <2>1, <2>2, <2>3, <2>6
  <2> QED
    BY <2>1, <2>4, <2>5, <2>6
<1>3. CASE Accepts(q) # 0
  <2>1. mk2 = k /\ acc2 = Accepts(q)
    BY <1>2, <1>3 DEF Mark, Acc
  <2>2. Class(First(R, k)) = TokenAt[Accepted[acc2]]
    BY <1>1, <1>2, <1>3, <2>1
  <2> HIDE DEF mk2, acc2
  <2> QED
    BY <1>0, <1>3, <2>1, <2>2 DEF Marked, mk2, acc2
<1>4. CASE Accepts(q) = 0
  <2>1. Class(First(R, k)) = NoToken
    BY <1>1, <1>4
  <2>2. CASE q \in Marks
    <3>1. q \in {9, 23, 24, 25}
      BY <1>4, <2>2 DEF Marks, Accepts
    <3>2. acc = 0 /\ acc2 = 0
      BY <1>4, <2>2, <3>1 DEF Acc
    <3>3. ASSUME NEW n \in 1 .. Len(R), n < k + more
          PROVE  Class(First(R, n)) = NoToken
      <4>1. n < k \/ n = k
        BY <1>0, <3>3
      <4> QED
        BY <2>1, <3>2, <4>1 DEF Marked
    <3> QED
      BY <3>2, <3>3 DEF Marked
  <2>3. CASE q \notin Marks
    <3>1. mk2 = mk /\ acc2 = acc
      BY <2>3 DEF Mark, Acc
    <3>2. ASSUME NEW n \in 1 .. Len(R), n < k + more, acc = 0 \/ mk < n
          PROVE  Class(First(R, n)) = NoToken
      <4>1. n < k \/ n = k
        BY <1>0, <3>2
      <4> QED
        BY <2>1, <3>2, <4>1 DEF Marked
    <3> QED
      BY <3>1, <3>2 DEF Marked
  <2> QED
    BY <2>2, <2>3
<1> QED
  BY <1>3, <1>4

(* Where the scanner goes on to within a token. *)
LEMMA NextLabel ==
    ASSUME NEW q \in Scanning, NEW c \in Byte
    PROVE  /\ Goto(q, c) \in (Scanning \ {9, 12, 13, 23, 24, 25}) \cup Ended \cup {5, 32, 48}
           /\ Goto(q, c) = 43 => q = 12 /\ c = Zero
           /\ Goto(q, c) = 48 <=> q \in {13, 43} /\ c \in Digit
           /\ Goto(q, c) = 5 => q \in {9, 12, 23, 24, 25}
           /\ c = 0 => Goto(q, c) \in {5, 14, 32, 44, 58}
           /\ q = 60 => Goto(q, c) \in {58, 60}
           /\ q = 12 => (Goto(q, c) = 43 <=> c = Zero)
<1>1. CASE q \in Num
  <2>1. /\ Goto(q, c) \in Num \cup {5, 14, 32, 44, 48, 58}
        /\ Goto(q, c) = 48 <=> q \in {13, 43} /\ c \in Digit
        /\ Goto(q, c) = 5 => q = 12
        /\ Goto(q, c) \notin {12, 13}
        /\ Goto(q, c) = 43 => q = 12 /\ c = Zero
        /\ c = 0 => Goto(q, c) \in {5, 14, 32, 44, 58}
    BY <1>1, NextNumber
  <2>2. q = 60 => Goto(q, c) \in {58, 60}
    BY DEF Goto, ExponentDigits
  <2>3. q = 12 => (Goto(q, c) = 43 <=> c = Zero)
    BY DEF Goto, AfterMinus
  <2> HIDE DEF Digit
  <2> QED
    BY <2>1, <2>2, <2>3 DEF Num, Scanning, Ended, Simple
<1>2. CASE q \in Words
  <2>1. /\ Goto(q, c) \in (Words \ (23 .. 25)) \cup {5, 32, 67, 69, 72}
        /\ Goto(q, c) = 5 => q \in 23 .. 25
        /\ c = 0 => Goto(q, c) \in {5, 32}
    BY <1>2, NextWord
  <2> HIDE DEF Digit
  <2> QED
    BY <1>2, <2>1 DEF Words, Scanning, Ended, Simple
<1>3. CASE q \in {9, 30} \cup InUnit
  <2>1. /\ Goto(q, c) \in ({30, 33} \cup InUnit) \cup {5, 32}
        /\ Goto(q, c) = 5 => q = 9
        /\ c = 0 => Goto(q, c) \in {5, 32}
    BY <1>3, NextString
  <2> HIDE DEF Digit
  <2> QED
    BY <1>3, <2>1 DEF InUnit, Scanning, Ended, Simple
<1> QED
  BY <1>1, <1>2, <1>3 DEF Scanning

(* The labels of different roles are different. *)
LEMMA LabelsApart ==
    /\ \A x \in (Scanning \ {9, 12, 13, 23, 24, 25}) \cup Ended \cup {5, 32, 48} :
          x \notin {2, 4, 6, 7, 9, 12, 13, 23, 24, 25, 50}
    /\ \A x \in {14, 44, 58} : x \notin (Scanning \ {60}) \cup {4, 5, 32}
  BY DEF Scanning, Ended, Simple, Num, Words, InUnit

(* Leading zeros are known on. *)
LEMMA ZerosOn ==
    ASSUME NEW R \in Seq(1 .. 255), NEW q \in Scanning, NEW k \in 1 .. Len(R),
           NEW c \in Byte, k < Len(R) => c = R[k + 1], k = Len(R) => c = 0,
           Zeros(q, R, k)
    PROVE  Zeros(Goto(q, c), R, k + Counted(q, c))
<1> DEFINE next == Goto(q, c)
<1>0. Len(R) \in Nat /\ k \in Nat /\ k >= 1 /\ k <= Len(R)
  OBVIOUS
<1>1. /\ next \in (Scanning \ {9, 12, 13, 23, 24, 25}) \cup Ended \cup {5, 32, 48}
      /\ next = 43 => q = 12 /\ c = Zero
      /\ next = 48 <=> q \in {13, 43} /\ c \in Digit
      /\ q = 12 => (next = 43 <=> c = Zero)
  BY NextLabel
<1>2. next \notin {2, 6, 7, 12, 13, 50}
  BY <1>1, LabelsApart, SMTT(30)
<1>3. q \notin {2, 6, 7, 48, 50}
  BY DEF Scanning, Num, Words, InUnit
<1>4. CASE next = 48
  <2>1. k < Len(R)
    BY <1>0, <1>1, <1>4
  <2>2. ZeroLed(R)
    BY <1>0, <1>1, <1>4, <2>1, ZeroLedIs DEF Zeros
  <2> QED
    BY <1>4, <2>2 DEF Zeros
<1>5. CASE next = 43
  <2>1. k = 1 /\ R[1] = Minus /\ c = Zero
    BY <1>1, <1>5 DEF Zeros
  <2>2. k < Len(R)
    <3>1. c # 0
      BY <1>1, <1>5
    <3> QED
      BY <1>0, <3>1
  <2>3. Counted(q, c) = 1
    BY <1>5 DEF Counted
  <2> QED
    BY <1>5, <2>1, <2>2, <2>3 DEF Zeros
<1>6. CASE next \notin {43, 48}
  <2>1. ~ZeroLed(R)
    <3>1. CASE q = 12
      <4>1. k = 1 /\ R[1] = Minus /\ c # Zero
        BY <1>1, <1>6, <3>1 DEF Zeros
      <4>2. Len(R) > 1 => R[2] # Zero
        BY <1>0, <4>1
      <4> QED
        BY <1>0, <4>1, <4>2, ZeroLedIs
    <3>2. CASE q = 13
      <4>1. k = 1 /\ R[1] = Zero /\ c \notin Digit
        BY <1>1, <1>6, <3>2 DEF Zeros
      <4>2. Len(R) > 1 => R[2] \notin Digit
        BY <1>0, <4>1
      <4> QED
        BY <1>0, <4>1, <4>2, ZeroLedIs
    <3>3. CASE q = 43
      <4>1. k = 2 /\ R[1] = Minus /\ R[2] = Zero /\ c \notin Digit
        BY <1>1, <1>6, <3>3 DEF Zeros
      <4>2. Len(R) > 2 => R[3] \notin Digit
        BY <1>0, <4>1
      <4> QED
        BY <1>0, <4>1, <4>2, ZeroLedIs
    <3>4. CASE q \notin {12, 13, 43}
      BY <1>3, <3>4 DEF Zeros
    <3> QED
      BY <3>1, <3>2, <3>3, <3>4
  <2> QED
    BY <1>2, <1>6, <2>1 DEF Zeros
<1> QED
  BY <1>4, <1>5, <1>6

(* All that is known of the tokens of R is known on, one character later. *)
LEMMA ProgressOn ==
    ASSUME NEW R \in Seq(1 .. 255), NEW q \in Scanning, NEW k, NEW mk \in Nat,
           NEW acc \in 0 .. 3, NEW c \in Byte, 
           k < Len(R) => c = R[k + 1], k = Len(R) => c = 0,
           Progress(q, R, k, mk, acc)
    PROVE  Progress(Goto(q, c), R, k + Counted(q, c), Mark(q, k, mk), Acc(q, acc))
<1> DEFINE next == Goto(q, c)
<1>0. Len(R) \in Nat
  OBVIOUS
<1>1. k \in 1 .. Len(R) /\ k \in Nat /\ k >= 1 /\ k <= Len(R) /\ Len(R) >= 1
  BY <1>0 DEF Progress
<1>2. /\ next \in (Scanning \ {9, 12, 13, 23, 24, 25}) \cup Ended \cup {5, 32, 48}
      /\ next = 5 => q \in {9, 12, 23, 24, 25}
      /\ c = 0 => next \in {5, 14, 32, 44, 58}
      /\ q = 60 => next \in {58, 60}
  BY NextLabel
<1>3. Counted(q, c) \in {0, 1} /\ k + Counted(q, c) \in 1 .. Len(R)
  <2>1. CASE k = Len(R)
    BY <1>1, <1>2, <2>1 DEF Counted
  <2>2. CASE k # Len(R)
    BY <1>0, <1>1, <2>2 DEF Counted
  <2> QED
    BY <2>1, <2>2
<1>4. next # 2 /\ next # 4 /\ next \notin {9, 12, 23, 24, 25}
  BY <1>2, LabelsApart
<1>5. Viewed(q, R, k) /\ Zeros(q, R, k) 
  BY DEF Progress, Tried
<1>6. next \in Tried => Viewed(next, R, k + Counted(q, c))
  <2>1. 48 \notin Tried
    BY DEF Tried, Scanning, Ended, Simple, Num, Words, InUnit
  <2>2. CASE next # 48
    BY <1>1, <1>5, <2>2, ViewedOn
  <2> QED
    BY <2>1, <2>2
<1>7. next \in (Scanning \ {60}) \cup {4, 5, 32} =>
         Marked(R, k + Counted(q, c), Mark(q, k, mk), Acc(q, acc))
  <2>1. CASE q = 60
    BY <1>2, <2>1, LabelsApart
  <2>2. CASE q # 60
    <3>1. Marked(R, k, mk, acc) /\ (q \in {9, 23, 24, 25} => acc = 0)
      BY <2>2 DEF Progress
    <3> HIDE DEF Digit
    <3> QED
      BY <1>1, <1>3, <1>5, <2>2, <3>1, MarkedOn
  <2> QED
    BY <2>1, <2>2
<1>8. next = 5 => Acc(q, acc) = 0
  <2>1. q \in {9, 12, 23, 24, 25} => acc = 0
    BY DEF Progress
  <2> QED
    BY <1>2, <2>1 DEF Acc, Accepts
<1>9. Zeros(next, R, k + Counted(q, c))
  BY <1>1, <1>5, ZerosOn
<1> QED
  BY <1>0, <1>1, <1>3, <1>4, <1>6, <1>7, <1>8, <1>9 DEF Progress

(* Back to the marker: what was read since is no token. *)
LEMMA ProgressBack ==
    ASSUME NEW R \in Seq(1 .. 255), NEW k, NEW mk \in Nat, NEW acc \in 0 .. 3,
           Progress(32, R, k, mk, acc), mk <= k
    PROVE  Progress(Accepted[acc], R, mk, mk, acc)
<1> DEFINE next == Accepted[acc]
<1>0. Len(R) \in Nat /\ k \in 0 .. Len(R) /\ Len(R) >= 1 /\ mk \in 0 .. Len(R)
  BY DEF Progress
<1>1. Viewed(32, R, k) /\ Marked(R, k, mk, acc) /\ ~ZeroLed(R)
  BY DEF Progress, Tried, Zeros
<1>2. ASSUME NEW n \in 1 .. Len(R), n >= k PROVE Class(First(R, n)) = NoToken
  <2>1. ~Left(32, R, k, n, Class(First(R, n)))
    <3>1. k \in Nat /\ n \in Nat
      BY <1>0
    <3> QED
      BY <3>1, LeftIs
  <2> QED
    BY <1>1, <1>2, <2>1 DEF Viewed
<1>3. ASSUME NEW n \in 1 .. Len(R), acc = 0 \/ mk < n
      PROVE  Class(First(R, n)) = NoToken
  <2>1. CASE n >= k
    BY <1>2, <2>1
  <2>2. CASE n < k
    BY <1>1, <1>3, <2>2 DEF Marked
  <2> QED
    BY <1>0, <2>1, <2>2
<1>4. CASE acc = 0
  <2>1. next = 5
    BY <1>4 DEF Accepted
  <2>2. Viewed(5, R, mk)
    <3> SUFFICES ASSUME NEW n \in 1 .. Len(R), NEW T, T # NoToken
                 PROVE  Class(First(R, n)) = T <=> Left(5, R, mk, n, T)
      BY DEF Viewed
    <3>1. n \in Nat
      OBVIOUS
    <3>2. ~Left(5, R, mk, n, T)
      BY <3>1, LeftIs
    <3> QED
      BY <1>3, <1>4, <3>2
  <2>3. Marked(R, mk, mk, acc)
    BY <1>3, <1>4 DEF Marked
  <2>4. 5 \notin Scanning \cup Ended
    BY DEF Scanning, Ended, Simple, Num, Words, InUnit
  <2>5. Zeros(5, R, mk)
    BY <1>1 DEF Zeros
  <2> QED
    BY <1>0, <1>4, <2>1, <2>2, <2>3, <2>4, <2>5 DEF Progress
<1>5. CASE acc # 0
  <2>1. next \in {14, 44, 58} /\ next \in Simple
    BY <1>5 DEF Accepted, Simple
  <2>2. mk \in 1 .. Len(R) /\ Class(First(R, mk)) = TokenAt[next]
    BY <1>1, <1>5 DEF Marked
  <2>3. Viewed(next, R, mk)
    <3> SUFFICES ASSUME NEW n \in 1 .. Len(R), NEW T, T # NoToken, n >= mk
                 PROVE  Class(First(R, n)) = T <=> Left(next, R, mk, n, T)
      BY DEF Viewed
    <3>1. n \in Nat
      OBVIOUS
    <3>2. Left(next, R, mk, n, T) <=> n = mk /\ T = TokenAt[next]
      BY <2>1, <3>1, LeftIs
    <3>3. n # mk => mk < n
      BY <3>1
    <3> QED
      BY <1>3, <2>2, <3>2, <3>3
  <2>4. next \notin (Scanning \ {60}) \cup {4, 5, 32} /\ next # 2
    <3>1. next # 2
      BY <2>1
    <3> QED
      BY <2>1, <3>1, LabelsApart
  <2>5. next \notin {4, 5, 9, 12, 23, 24, 25}
    BY <2>1
  <2>6. Zeros(next, R, mk)
    BY <1>1, <2>1 DEF Zeros
  <2> QED
    BY <1>0, <2>2, <2>3, <2>4, <2>5, <2>6 DEF Progress
<1> QED
  BY <1>4, <1>5

(* What is returned at a label where no more is read. *)
LEMMA LongestAt ==
    ASSUME NEW R \in Seq(1 .. 255), NEW q \in Ends, NEW k, NEW mk, NEW acc,
           Progress(q, R, k, mk, acc)
    PROVE  /\ LongestOf(R).type = TokenAt[q]
           /\ q \in Ended => LongestOf(R).length = k
           /\ q = 2 => LongestOf(R).length = 1
<1>0. Len(R) \in Nat /\ k \in 0 .. Len(R)
  BY DEF Progress
<1>1. CASE q = 2
  <2>1. R = <<>> /\ 2 \notin Ended
    BY <1>1 DEF Progress, Ended, Simple
  <2> QED
    BY <1>1, <2>1, LongestEnd, TokenValues
<1>2. CASE q = 50
  <2>1. ZeroLed(R) /\ Len(R) >= 1 /\ 50 \notin Ended
    BY <1>2 DEF Progress, Zeros, Ended, Simple
  <2> QED
    BY <1>2, <2>1, LongestNone, TokenValues
<1>3. CASE q \in {4, 5}
  <2>1. Viewed(q, R, k) /\ Marked(R, k, mk, acc) /\ acc = 0 /\ Len(R) >= 1
    BY <1>3 DEF Progress, Tried
  <2>2. \A m \in 1 .. Len(R) : Class(First(R, m)) = NoToken
    <3> SUFFICES ASSUME NEW m \in 1 .. Len(R) PROVE Class(First(R, m)) = NoToken
      OBVIOUS
    <3>1. CASE m < k
      BY <2>1, <3>1 DEF Marked
    <3>2. CASE m >= k
      <4>1. ~Left(q, R, k, m, Class(First(R, m)))
        <5>1. k \in Nat /\ m \in Nat
          BY <1>0
        <5> QED
          BY <1>3, <5>1, LeftIs
      <4> QED
        BY <2>1, <3>2, <4>1 DEF Viewed
    <3> QED
      BY <1>0, <3>1, <3>2
  <2>3. LongestOf(R).type = "parse_error"
    BY <2>1, <2>2, LongestNone
  <2>4. q \notin Ended
    BY <1>3 DEF Ended, Simple
  <2> QED
    BY <1>3, <2>3, <2>4, TokenValues
<1>4. CASE q \in Ended
  <2>2. Viewed(q, R, k) /\ ~ZeroLed(R) /\ k \in 1 .. Len(R)
    <3>1. q \notin {2, 6, 7, 12, 13, 43, 48, 50}
      BY <1>4 DEF Ended, Simple
    <3> QED
      BY <1>0, <1>4, <3>1 DEF Progress, Tried, Zeros
  <2>3. ASSUME NEW n \in Nat, NEW T
        PROVE  Left(q, R, k, n, T) <=> n = k /\ T = TokenAt[q]
    <3>1. k \in Nat
      BY <1>0
    <3>2. CASE q \in Simple
      BY <3>1, <3>2, LeftIs
    <3>3. CASE q = 33
      <4>1. Left(33, R, k, n, T) <=> StringLeft(33, R, k, n, T)
        BY <3>1, LeftIs
      <4>2. StringLeft(33, R, k, n, T) <=> T = "value_string" /\ n = k
        BY DEF StringLeft, UnitLeft
      <4> QED
        BY <3>3, <4>1, <4>2, TokenValues
    <3>4. CASE q \in {67, 69, 72}
      <4>1. Left(q, R, k, n, T) <=> WordLeft(q, R, k, n, T)
        BY <3>1, <3>4, LeftIs
      <4>2. WordLeft(q, R, k, n, T) <=> \/ T = "literal_null" /\ q = 67 /\ n = k
                                        \/ T = "literal_true" /\ q = 69 /\ n = k
                                        \/ T = "literal_false" /\ q = 72 /\ n = k
        BY <3>4 DEF WordLeft
      <4> QED
        BY <3>4, <4>1, <4>2, TokenValues, SMTT(30)
    <3> QED
      BY <1>4, <3>2, <3>3, <3>4 DEF Ended
  <2>4. TokenAt[q] # NoToken
    BY <1>4, TokenValues DEF Ended, Simple, NoToken
  <2>5. Class(First(R, k)) = TokenAt[q]
    <3>1. Left(q, R, k, k, TokenAt[q])
      BY <1>0, <2>3
    <3> QED
      BY <1>0, <2>2, <2>4, <3>1 DEF Viewed
  <2>6. \A m \in 1 .. Len(R) : m > k => Class(First(R, m)) = NoToken
    <3> SUFFICES ASSUME NEW m \in 1 .. Len(R), m > k PROVE Class(First(R, m)) = NoToken
      OBVIOUS
    <3>1. ~Left(q, R, k, m, Class(First(R, m)))
      BY <1>0, <2>3
    <3> QED
      BY <1>0, <2>2, <3>1 DEF Viewed
  <2>7. q # 2
    BY <1>4 DEF Ended, Simple
  <2> QED
    BY <2>2, <2>4, <2>5, <2>6, <2>7, LongestFound
<1>5. q = 2 \/ q = 50 \/ q \in {4, 5} \/ q \in Ended
  BY DEF Ends, Ended, Simple
<1> QED
  BY <1>1, <1>2, <1>3, <1>4, <1>5

-----------------------------------------------------------------------------
(* The buffer and the text. *)

(* c is what is read after k bytes of R: the next of them, or the NUL. *)
NextByte(c, R, k) ==
    /\ c \in Byte
    /\ k < Len(R) => c = R[k + 1]
    /\ k = Len(R) => c = 0

(* The bytes of R a label has read: those at the end do not count their own. *)
Consumed(q, p) == IF q \in {2, 5, 7, 14, 32, 44, 50, 58} THEN p ELSE p + 1

(* Of a number led by a zero, digit by digit. *)
LEMMA ProgressZero ==
    ASSUME NEW R \in Seq(1 .. 255), NEW q, q = 48,
           NEW k, NEW mk, NEW acc, NEW mk2, NEW acc2, NEW c,
           NextByte(c, R, k), Progress(q, R, k, mk, acc)
    PROVE  Progress(Goto(q, c), R, Consumed(Goto(q, c), k), mk2, acc2)
<1>1. Goto(q, c) = IF c \in Digit THEN 48 ELSE 50
  BY DEF Goto, LeadingZero
<1>2. c \in Byte /\ (k < Len(R) => c = R[k + 1]) /\ (k = Len(R) => c = 0)
  BY DEF NextByte
<1>3. Len(R) \in Nat /\ k \in 0 .. Len(R) /\ Len(R) >= 1 /\ ZeroLed(R)
  BY DEF Progress, Zeros
<1>4. c \in Digit => k + 1 \in 0 .. Len(R)
  <2>1. c \in Digit => c # 0
    OBVIOUS
  <2> QED
    BY <1>2, <1>3, <2>1
<1>5. \A x \in {48, 50} : /\ x \notin Scanning \cup Ended /\ x \notin Tried
                          /\ x \notin (Scanning \ {60}) \cup {4, 5, 32}
  BY DEF Tried, Scanning, Ended, Simple, Num, Words, InUnit
<1>6. CASE c \in Digit
  <2>1. Goto(q, c) = 48 /\ Consumed(48, k) = k + 1
    BY <1>1, <1>6 DEF Consumed
  <2>2. Progress(48, R, k + 1, mk2, acc2)
    BY <1>3, <1>4, <1>5, <1>6 DEF Progress, Zeros
  <2> QED
    BY <2>1, <2>2
<1>7. CASE c \notin Digit
  <2>1. Goto(q, c) = 50 /\ Consumed(50, k) = k
    BY <1>1, <1>7 DEF Consumed
  <2>2. Progress(50, R, k, mk2, acc2)
    BY <1>3, <1>5 DEF Progress, Zeros
  <2> QED
    BY <2>1, <2>2
<1> QED
  BY <1>6, <1>7

(* Of what begins with whitespace, which is skipped. *)
LEMMA ProgressBlank ==
    ASSUME NEW R \in Seq(1 .. 255), NEW q, q = 6,
           NEW k, NEW mk, NEW acc, NEW mk2, NEW acc2, NEW c,
           NextByte(c, R, k), Progress(q, R, k, mk, acc)
    PROVE  Progress(Goto(q, c), R, Consumed(Goto(q, c), k), mk2, acc2)
<1>1. Goto(q, c) = IF c \in Blank THEN 6 ELSE 7
  BY DEF Goto
<1>2. c \in Byte /\ (k < Len(R) => c = R[k + 1]) /\ (k = Len(R) => c = 0)
  BY DEF NextByte
<1>3. Len(R) \in Nat /\ k \in 0 .. Len(R) /\ Len(R) >= 1
  BY DEF Progress
<1>4. c \in Blank => k + 1 \in 0 .. Len(R)
  <2>1. c \in Blank => c # 0
    BY DEF Blank, Tab, LineFeed, CarriageReturn, Space
  <2> QED
    BY <1>2, <1>3, <2>1
<1>5. \A x \in {6, 7} : /\ x \notin Scanning \cup Ended /\ x \notin Tried
                          /\ x \notin (Scanning \ {60}) \cup {4, 5, 32}
  BY DEF Tried, Scanning, Ended, Simple, Num, Words, InUnit
<1>6. CASE c \in Blank
  <2>1. Goto(q, c) = 6 /\ Consumed(6, k) = k + 1
    BY <1>1, <1>6 DEF Consumed
  <2>2. Progress(6, R, k + 1, mk2, acc2)
    BY <1>3, <1>4, <1>5, <1>6 DEF Progress, Zeros
  <2> QED
    BY <2>1, <2>2
<1>7. CASE c \notin Blank
  <2>1. Goto(q, c) = 7 /\ Consumed(7, k) = k
    BY <1>1, <1>7 DEF Consumed
  <2>2. Progress(7, R, k, mk2, acc2)
    BY <1>3, <1>5 DEF Progress, Zeros
  <2> QED
    BY <2>1, <2>2
<1> QED
  BY <1>6, <1>7

(* The labels that skip: whitespace, and the digits after a leading zero. *)
Skipping == {6, 48}

(* At those nothing is a token yet. *)
LEMMA ProgressSkipping ==
    ASSUME NEW R \in Seq(1 .. 255), NEW q \in Skipping,
           NEW k, NEW mk, NEW acc, NEW mk2, NEW acc2, NEW c,
           NextByte(c, R, k), Progress(q, R, k, mk, acc)
    PROVE  Progress(Goto(q, c), R, Consumed(Goto(q, c), k), mk2, acc2)
<1>1. q = 6 \/ q = 48
  BY DEF Skipping
<1> QED
  BY <1>1, ProgressZero, ProgressBlank

(* The bytes of b after start are R, and a NUL if there are more. *)
Synced(b, start, R) ==
    /\ \A i \in 1 .. Len(R) : start + i <= Len(b) /\ b[start + i] = R[i]
    /\ Len(b) > start + Len(R) => b[start + Len(R) + 1] = 0

(* What the buffer holds where, after it is filled. *)
LEMMA PaddedAt ==
    ASSUME buffer \in Seq(Byte), NEW n \in 1 .. 5, NEW start \in 0 .. Len(buffer)
    PROVE  /\ \A i \in 1 .. (Len(buffer) - start) : Padded(n, start)[i] = buffer[start + i]
           /\ Padded(n, start)[Len(buffer) - start + 1] = 0
<1> DEFINE rest == SubSeq(buffer, start + 1, Len(buffer))
           pad == [i \in 1 .. n - 1 |-> 1]
<1>1. /\ rest \in Seq(Byte) /\ Len(rest) = Len(buffer) - start
      /\ \A i \in 1 .. (Len(buffer) - start) : rest[i] = buffer[start + i]
  OBVIOUS
<1>2. pad \in Seq(Byte) /\ Len(pad) = n - 1
  BY DEF Byte
<1>3. <<0>> \in Seq(Byte) /\ Len(<<0>>) = 1 /\ <<0>>[1] = 0
  BY DEF Byte
<1>0. Len(rest) \in Nat /\ Len(buffer) - start \in Nat
  BY <1>1
<1> HIDE DEF rest, pad
<1> DEFINE front == rest \o <<0>>
<1>4. /\ front \in Seq(Byte) /\ Len(front) = Len(rest) + 1
      /\ \A i \in 1 .. Len(rest) : front[i] = rest[i]
      /\ front[Len(rest) + 1] = 0
  BY <1>0, <1>1, <1>3
<1> HIDE DEF front
<1>5. \A i \in 1 .. Len(front) : (front \o pad)[i] = front[i]
  BY <1>2, <1>4
<1>6. Padded(n, start) = front \o pad
  BY DEF Padded, rest, pad, front
<1>7. Len(rest) + 1 \in 1 .. Len(front)
  BY <1>0, <1>4
<1>8. \A i \in 1 .. Len(rest) : i \in 1 .. Len(front)
  BY <1>0, <1>4
<1> QED
  BY <1>1, <1>4, <1>5, <1>6, <1>7, <1>8

(* It then still holds the text from start on. *)
LEMMA PaddedSynced ==
    ASSUME buffer \in Seq(Byte), NEW n \in 1 .. 5, NEW start \in 0 .. Len(buffer),
           NEW R \in Seq(1 .. 255), Synced(buffer, start, R)
    PROVE  Synced(Padded(n, start), 0, R)
<1> DEFINE b == Padded(n, start)
<1>0. Len(buffer) \in Nat /\ Len(R) \in Nat
  OBVIOUS
<1>1. b \in Seq(Byte) /\ Len(b) = Len(buffer) - start + n
  BY PaddedLength
<1>2. /\ \A i \in 1 .. (Len(buffer) - start) : b[i] = buffer[start + i]
      /\ b[Len(buffer) - start + 1] = 0
  BY PaddedAt
<1> HIDE DEF b
<1>3. Len(R) <= Len(buffer) - start
  <2>1. CASE Len(R) = 0
    BY <1>0, <2>1
  <2>2. CASE Len(R) # 0
    <3>1. Len(R) \in 1 .. Len(R)
      BY <1>0, <2>2
    <3> QED
      BY <1>0, <3>1 DEF Synced
  <2> QED
    BY <2>1, <2>2
<1>4. ASSUME NEW i \in 1 .. Len(R) PROVE 0 + i <= Len(b) /\ b[0 + i] = R[i]
  <2>1. i \in 1 .. (Len(buffer) - start)
    BY <1>0, <1>3
  <2>2. buffer[start + i] = R[i]
    BY DEF Synced
  <2>3. 0 + i = i
    OBVIOUS
  <2> QED
    BY <1>0, <1>1, <1>2, <2>1, <2>2, <2>3, SMTT(30)
<1>5. b[0 + Len(R) + 1] = 0
  <2>1. CASE Len(R) = Len(buffer) - start
    <3>1. 0 + Len(R) + 1 = Len(buffer) - start + 1
      BY <1>0, <2>1
    <3> QED
      BY <1>2, <3>1
  <2>2. CASE Len(R) < Len(buffer) - start
    <3>1. Len(R) + 1 \in 1 .. (Len(buffer) - start) /\ 0 + Len(R) + 1 = Len(R) + 1
          /\ start + (Len(R) + 1) = start + Len(R) + 1 /\ Len(buffer) > start + Len(R)
      BY <1>0, <2>2
    <3>2. buffer[start + Len(R) + 1] = 0
      BY <3>1 DEF Synced
    <3> QED
      BY <1>2, <3>1, <3>2
  <2> QED
    BY <1>0, <1>3, <2>1, <2>2
<1>6. Synced(b, 0, R)
  BY <1>4, <1>5 DEF Synced
<1> QED
  BY <1>6 DEF b

(* Whether or not the buffer is filled, the next character of R is read. *)
LEMMA ReadSynced ==
    ASSUME buffer \in Seq(Byte),
           NEW q \in Reads, NEW start \in Nat, NEW cursor \in Nat, NEW marker \in Nat,
           start <= marker, marker <= cursor, cursor <= Len(buffer),
           NEW R \in Seq(1 .. 255), Synced(buffer, start, R),
           Read(q, start, cursor, marker)
    PROVE  /\ Synced(buffer', m_start', R)
           /\ m_cursor' - m_start' = cursor - start
           /\ m_marker' - m_start' = marker - start
           /\ label' = Goto(q, At(buffer', m_cursor'))
<1> DEFINE short == Len(buffer) - cursor < Guard(q)
<1>0. Len(buffer) \in Nat
  OBVIOUS
<1>1. Guard(q) \in 0 .. 5
  BY DEF Guard
<1>2. CASE short
  <2>1. Guard(q) \in 1 .. 5 /\ start \in 0 .. Len(buffer)
    BY <1>0, <1>1, <1>2
  <2>2. /\ buffer' = Padded(Guard(q), start)
        /\ m_start' = start - start /\ m_cursor' = cursor - start /\ m_marker' = marker - start
        /\ label' = Goto(q, At(buffer', m_cursor'))
    BY <1>2 DEF Read
  <2>3. Synced(Padded(Guard(q), start), 0, R)
    BY <2>1, PaddedSynced
  <2>4. start - start = 0
    OBVIOUS
  <2> QED
    BY <2>2, <2>3, <2>4
<1>3. CASE ~short
  <2>1. /\ buffer' = buffer
        /\ m_start' = start - 0 /\ m_cursor' = cursor - 0 /\ m_marker' = marker - 0
        /\ label' = Goto(q, At(buffer', m_cursor'))
    BY <1>3 DEF Read
  <2> QED
    BY <2>1
<1> QED
  BY <1>2, <1>3

(* The cursor is after k bytes of R, in the buffer b from start on. *)
Reading(b, start, cursor, k, R) ==
    /\ b \in Seq(Byte) /\ start \in Nat /\ k \in Nat /\ cursor = start + k /\ cursor < Len(b)
    /\ R \in Seq(1 .. 255) /\ k <= Len(R) /\ Synced(b, start, R)

(* So what is read there is the next byte of R, or the NUL after it. *)
LEMMA CharRead ==
    ASSUME NEW b, NEW start, NEW cursor, NEW k, NEW R, Reading(b, start, cursor, k, R)
    PROVE  NextByte(At(b, cursor), R, k)
<1>0. /\ b \in Seq(Byte) /\ start \in Nat /\ k \in Nat /\ cursor = start + k /\ cursor < Len(b)
      /\ R \in Seq(1 .. 255) /\ k <= Len(R) /\ Len(b) \in Nat /\ Len(R) \in Nat
  BY DEF Reading
<1>1. cursor + 1 \in 1 .. Len(b) /\ start + (k + 1) = cursor + 1
  BY <1>0
<1>2. b[cursor + 1] \in Byte
  BY <1>0, <1>1, ElementOfSeq
<1>3. k < Len(R) => k + 1 \in 1 .. Len(R)
  BY <1>0
<1>7. Synced(b, start, R)
  BY DEF Reading
<1>4. k < Len(R) => b[cursor + 1] = R[k + 1]
  BY <1>1, <1>3, <1>7 DEF Synced
<1>5. k = Len(R) => start + Len(R) + 1 = cursor + 1 /\ Len(b) > start + Len(R)
  BY <1>0
<1>6. k = Len(R) => b[cursor + 1] = 0
  BY <1>5, <1>7 DEF Synced
<1> QED
  BY <1>2, <1>4, <1>6 DEF At, NextByte

(* From drops the first i bytes, and no more. *)
LEMMA FromIs ==
    ASSUME NEW S, NEW t \in Seq(S), NEW i \in 0 .. Len(t)
    PROVE  /\ From(t, i) \in Seq(S) /\ Len(From(t, i)) = Len(t) - i
           /\ \A x \in 1 .. (Len(t) - i) : From(t, i)[x] = t[i + x]
<1>1. From(t, i) = [x \in 1 .. (Len(t) - i) |-> t[i + x]]
  BY DEF From
<1>2. \A x \in 1 .. (Len(t) - i) : t[i + x] \in S
  <2> SUFFICES ASSUME NEW x \in 1 .. (Len(t) - i) PROVE t[i + x] \in S
    OBVIOUS
  <2>1. i + x \in 1 .. Len(t)
    OBVIOUS
  <2> QED
    BY <2>1, ElementOfSeq
<1> QED
  BY <1>1, <1>2

(* What follows the first k bytes of R. *)
LEMMA SyncedOn ==
    ASSUME NEW b, NEW start \in Nat, NEW R \in Seq(1 .. 255), Synced(b, start, R),
           NEW k \in 0 .. Len(R)
    PROVE  Synced(b, start + k, From(R, k))
<1> DEFINE S == From(R, k)
<1>0. Len(R) \in Nat
  OBVIOUS
<1>1. S \in Seq(1 .. 255) /\ Len(S) = Len(R) - k /\ \A i \in 1 .. Len(S) : S[i] = R[k + i]
  BY FromIs
<1> HIDE DEF S
<1>2. ASSUME NEW i \in 1 .. Len(S)
      PROVE  start + k + i <= Len(b) /\ b[start + k + i] = S[i]
  <2>1. k + i \in 1 .. Len(R) /\ start + (k + i) = start + k + i
    BY <1>0, <1>1
  <2>2. start + (k + i) <= Len(b) /\ b[start + (k + i)] = R[k + i]
    BY <2>1 DEF Synced
  <2> QED
    BY <1>1, <2>1, <2>2
<1>3. start + k + Len(S) = start + Len(R)
  BY <1>0, <1>1
<1>4. Synced(b, start + k, S)
  BY <1>2, <1>3 DEF Synced
<1> QED
  BY <1>4 DEF S

(* Dropping some, then some more. *)
LEMMA FromOfFrom ==
    ASSUME NEW t \in Seq(1 .. 255), NEW i \in 0 .. Len(t), NEW k \in 0 .. Len(From(t, i))
    PROVE  /\ From(From(t, i), k) = From(t, i + k)
           /\ i + k <= Len(t) /\ From(t, i) \in Seq(1 .. 255)
<1>0. Len(t) \in Nat
  OBVIOUS
<1>1. From(t, i) \in Seq(1 .. 255) /\ Len(From(t, i)) = Len(t) - i
      /\ \A x \in 1 .. (Len(t) - i) : From(t, i)[x] = t[i + x]
  BY FromIs
<1>2. i + k \in 0 .. Len(t)
  BY <1>0, <1>1
<1>3. From(t, i + k) \in Seq(1 .. 255) /\ Len(From(t, i + k)) = Len(t) - (i + k)
      /\ \A x \in 1 .. (Len(t) - (i + k)) : From(t, i + k)[x] = t[(i + k) + x]
  BY <1>2, FromIs
<1> DEFINE r == From(t, i)
<1>4. /\ From(r, k) \in Seq(1 .. 255) /\ Len(From(r, k)) = Len(r) - k
      /\ \A x \in 1 .. (Len(r) - k) : From(r, k)[x] = r[k + x]
  <2> HIDE DEF r
  <2>1. r \in Seq(1 .. 255) /\ k \in 0 .. Len(r)
    BY <1>1 DEF r
  <2> QED
    BY <2>1, FromIs
<1>5. ASSUME NEW x \in 1 .. (Len(t) - (i + k)) PROVE From(r, k)[x] = t[(i + k) + x]
  <2>1. x \in 1 .. (Len(r) - k) /\ k + x \in 1 .. (Len(t) - i) /\ i + (k + x) = (i + k) + x
    BY <1>0, <1>1
  <2> QED
    BY <1>1, <1>4, <2>1
<1>6. Len(From(r, k)) = Len(t) - (i + k)
  BY <1>0, <1>1, <1>4
<1> HIDE DEF r
<1>7. From(r, k) = From(t, i + k)
  BY <1>3, <1>4, <1>5, <1>6, SeqEqual, ZenonT(30)
<1> QED
  BY <1>0, <1>1, <1>2, <1>7 DEF r

-----------------------------------------------------------------------------
(* The longest token is found. *)

(* What is left of the text. *)
Rest == From(text, position)

(* What scan returns where there is no token. *)
Final == {"end_of_input", "parse_error"}

(* The inductive invariant. *)
Scanned ==
    /\ Slack
    /\ text \in Seq(1 .. 255) /\ position \in Nat
    /\ pc = "scan" => position <= Len(text) /\ Synced(buffer, m_cursor, Rest)
    /\ pc = "match" =>
         /\ position <= Len(text) /\ Synced(buffer, m_start, Rest)
         /\ Progress(label, Rest, Consumed(label, m_cursor - m_start),
                     m_marker - m_start, yyaccept)
    /\ pc \in {"returned", "taken"} /\ last_token_type \notin Final =>
         position <= Len(text) /\ Synced(buffer, m_cursor, Rest)
    /\ LongestToken

(* A new lexer has read nothing. *)
LEMMA InitScanned == Init => Scanned
<1> SUFFICES ASSUME Init PROVE Scanned
  OBVIOUS
<1>1. Slack
  BY InitSlack
<1>2. /\ text \in Seq(1 .. 255) /\ buffer = text /\ position = 0 /\ m_cursor = 0 /\ pc = "scan"
  BY TextsAreBytes DEF Init
<1>3. /\ Len(text) \in Nat /\ Rest \in Seq(1 .. 255) /\ Len(Rest) = Len(text)
      /\ \A x \in 1 .. Len(text) : Rest[x] = text[x]
  <2>1. 0 \in 0 .. Len(text) /\ Len(text) \in Nat
    BY <1>2
  <2>2. /\ From(text, 0) \in Seq(1 .. 255) /\ Len(From(text, 0)) = Len(text) - 0
        /\ \A x \in 1 .. (Len(text) - 0) : From(text, 0)[x] = text[0 + x]
    BY <1>2, <2>1, FromIs
  <2> QED
    BY <1>2, <2>1, <2>2 DEF Rest
<1>4. Synced(buffer, m_cursor, Rest)
  BY <1>2, <1>3 DEF Synced
<1> QED
  BY <1>1, <1>2, <1>3, <1>4 DEF Scanned, LongestToken

(* Places are told by their distance. *)
LEMMA Apart == \A a, b, n \in Nat : a - b = n => a = b + n
  OBVIOUS

(* A token is begun with the pointers at its first byte. *)
LEMMA BeginScanned ==
    ASSUME Scanned, Slack', Begin PROVE Scanned'
<1> DEFINE R == Rest
           c == At(buffer', m_cursor')
<1>1. /\ pc = "scan" /\ pc' = "match" /\ yyaccept' = 0
      /\ Read(0, m_cursor, m_cursor, m_cursor)
      /\ text' = text /\ position' = position
  BY DEF Begin
<1>2. Slack /\ text \in Seq(1 .. 255) /\ position \in 0 .. Len(text)
      /\ Synced(buffer, m_cursor, R)
  BY <1>1 DEF Scanned
<1>3. R \in Seq(1 .. 255) /\ R' = R
  BY <1>1, <1>2, FromIs DEF Rest
<1> HIDE DEF R
<1>4. /\ Synced(buffer', m_start', R)
      /\ m_cursor' - m_start' = m_cursor - m_cursor
      /\ m_marker' - m_start' = m_cursor - m_cursor
      /\ label' = Goto(0, c)
  <2>1. /\ buffer \in Seq(Byte) /\ m_cursor \in Nat /\ m_cursor <= m_cursor
        /\ m_cursor <= Len(buffer)
    BY <1>2 DEF Slack
  <2>2. 0 \in Reads
    BY DEF Reads
  <2> QED
    BY <1>1, <1>2, <1>3, <2>1, <2>2, ReadSynced
<1>5. /\ buffer' \in Seq(Byte) /\ m_start' \in Nat /\ m_cursor' \in Nat /\ m_marker' \in Nat
      /\ m_cursor' < Len(buffer') /\ Len(buffer') \in Nat
  <2>1. /\ m_cursor' + Need(label') <= Len(buffer') /\ Need(label') \in 1 .. 5
        /\ buffer' \in Seq(Byte) /\ m_start' \in Nat /\ m_cursor' \in Nat /\ m_marker' \in Nat
    BY <1>1 DEF Slack, Need
  <2> QED
    BY <2>1
<1>6. m_cursor' = m_start' + 0 /\ m_cursor' - m_start' = 0 /\ m_marker' - m_start' = 0
  <2>1. m_cursor \in Nat
    BY <1>2 DEF Slack
  <2>2. m_cursor' - m_start' = 0 /\ m_marker' - m_start' = 0
    BY <1>4, <2>1
  <2>3. m_cursor' \in Nat /\ m_start' \in Nat
    BY <1>5
  <2>4. m_cursor' = m_start' + 0
    <3>1. 0 \in Nat /\ m_cursor' - m_start' = 0
      BY <2>2
    <3> QED
      BY <2>3, <3>1, Apart, ZenonT(30)
  <2> QED
    BY <2>2, <2>4
<1>7. NextByte(c, R, 0)
  <2>1. 0 <= Len(R) /\ 0 \in Nat
    BY <1>3
  <2>2. Reading(buffer', m_start', m_cursor', 0, R)
    BY <1>3, <1>4, <1>5, <1>6, <2>1 DEF Reading
  <2> QED
    BY <2>2, CharRead
<1>15. c \in Byte
  BY <1>7 DEF NextByte
<1>8. IF Len(R) = 0 THEN c = 0 ELSE c = R[1]
  BY <1>3, <1>7 DEF NextByte
<1>9. Progress(Dispatch(c), R, IF Len(R) = 0 THEN 0 ELSE 1, 0, 0)
  BY <1>3, <1>15, <1>8, ProgressBegins
<1>10. label' = Dispatch(c)
  BY <1>4 DEF Goto
<1>11. Consumed(label', 0) = IF Len(R) = 0 THEN 0 ELSE 1
  <2>1. Len(R) = 0 <=> Dispatch(c) = 2
    BY <1>9 DEF Progress
  <2>2. Dispatch(c) \notin {5, 7, 14, 32, 44, 50, 58}
    BY <1>15, FirstLabel
  <2> QED
    BY <1>10, <2>1, <2>2 DEF Consumed
<1>12. Progress(label', R, Consumed(label', m_cursor' - m_start'), m_marker' - m_start', yyaccept')
  BY <1>1, <1>6, <1>9, <1>10, <1>11
<1>13. position' <= Len(text') /\ position' \in Nat /\ text' \in Seq(1 .. 255)
  BY <1>1, <1>2
<1>14. Rest' = R /\ LongestToken'
  BY <1>1, <1>3 DEF R, LongestToken
<1> QED
  BY <1>1, <1>4, <1>12, <1>13, <1>14 DEF Scanned

(* A character is read, with the buffer filled first if it must be. *)
LEMMA AdvanceScanned ==
    ASSUME Scanned, Slack', Advance PROVE Scanned'
<1> DEFINE R == Rest
           c == At(buffer', m_cursor')
           k == (m_cursor + 1) - m_start
           marker == IF label \in Marks THEN m_cursor + 1 ELSE m_marker
<1>1. /\ pc = "match" /\ pc' = "match" /\ label \in Reads
      /\ yyaccept' = Acc(label, yyaccept)
      /\ Read(label, m_start, m_cursor + 1, marker)
      /\ text' = text /\ position' = position
  BY DEF Advance, Acc
<1>2. Slack /\ text \in Seq(1 .. 255) /\ position \in 0 .. Len(text)
      /\ Synced(buffer, m_start, R)
      /\ Progress(label, R, Consumed(label, m_cursor - m_start), m_marker - m_start, yyaccept)
  BY <1>1 DEF Scanned
<1>3. R \in Seq(1 .. 255) /\ R' = R
  BY <1>1, <1>2, FromIs DEF Rest
<1> HIDE DEF R
<1>4. label \in Scanning \cup {6, 48}
  <2>1. label # 0
    BY <1>1, <1>2 DEF Slack, Matching, Ends
  <2> QED
    BY <1>1, <2>1 DEF Reads, Scanning, Num, Words, InUnit
<1>5. label \notin {2, 5, 7, 14, 32, 44, 50, 58}
  BY <1>1 DEF Reads
<1>6. /\ buffer \in Seq(Byte) /\ m_start \in Nat /\ m_cursor + 1 \in Nat /\ m_marker \in Nat
      /\ m_start <= m_marker /\ m_marker <= m_cursor /\ m_cursor \in Nat
      /\ m_cursor + 1 <= Len(buffer) /\ yyaccept \in 0 .. 3
  <2>1. /\ m_cursor + Need(label) <= Len(buffer) /\ Need(label) \in 1 .. 5
        /\ buffer \in Seq(Byte) /\ m_start \in Nat /\ m_cursor \in Nat /\ m_marker \in Nat
        /\ m_start <= m_marker /\ m_marker <= m_cursor /\ yyaccept \in 0 .. 3
    BY <1>1, <1>2 DEF Slack, Need
  <2>2. Len(buffer) \in Nat
    BY <2>1
  <2> QED
    BY <2>1, <2>2
<1>7. marker \in Nat /\ m_start <= marker /\ marker <= m_cursor + 1
  BY <1>6
<1>8. k \in Nat /\ k = (m_cursor - m_start) + 1 /\ m_cursor + 1 = m_start + k
      /\ m_marker - m_start \in Nat
  BY <1>6
<1>9. Progress(label, R, k, m_marker - m_start, yyaccept)
  BY <1>2, <1>5, <1>8 DEF Consumed
<1>10. marker - m_start = Mark(label, k, m_marker - m_start)
  <2>1. CASE label \in Marks
    <3>1. marker = m_cursor + 1
      BY <2>1
    <3>2. Mark(label, k, m_marker - m_start) = k
      BY <2>1 DEF Mark
    <3>3. k = (m_cursor + 1) - m_start
      OBVIOUS
    <3> HIDE DEF marker, k
    <3> QED
      BY <3>1, <3>2, <3>3, Zenon
  <2>2. CASE label \notin Marks
    BY <2>2 DEF Mark
  <2> QED
    BY <2>1, <2>2
<1> HIDE DEF marker
<1>11. /\ Synced(buffer', m_start', R)
       /\ m_cursor' - m_start' = k
       /\ m_marker' - m_start' = marker - m_start
       /\ label' = Goto(label, c)
  <2>1. /\ Synced(buffer', m_start', R)
        /\ m_cursor' - m_start' = (m_cursor + 1) - m_start
        /\ m_marker' - m_start' = marker - m_start
        /\ label' = Goto(label, At(buffer', m_cursor'))
    <3> HIDE DEF k, c
    <3> QED
      BY <1>1, <1>2, <1>3, <1>6, <1>7, ReadSynced
  <2> QED
    BY <2>1
<1>12. /\ buffer' \in Seq(Byte) /\ m_start' \in Nat /\ m_cursor' \in Nat /\ m_marker' \in Nat
       /\ m_cursor' < Len(buffer') /\ Len(buffer') \in Nat
  <2>1. /\ m_cursor' + Need(label') <= Len(buffer') /\ Need(label') \in 1 .. 5
        /\ buffer' \in Seq(Byte) /\ m_start' \in Nat /\ m_cursor' \in Nat /\ m_marker' \in Nat
    BY <1>1 DEF Slack, Need
  <2> QED
    BY <2>1
<1> HIDE DEF k
<1>13. m_cursor' = m_start' + k
  BY <1>8, <1>11, <1>12
<1>14. k \in 0 .. Len(R)
  BY <1>9 DEF Progress
<1>20. NextByte(c, R, k)
  <2>1. k <= Len(R)
    BY <1>14
  <2>2. Reading(buffer', m_start', m_cursor', k, R)
    BY <1>3, <1>8, <1>11, <1>12, <1>13, <2>1 DEF Reading
  <2> QED
    BY <2>2, CharRead
<1>15. /\ c \in Byte
       /\ k < Len(R) => c = R[k + 1]
       /\ k = Len(R) => c = 0
  BY <1>20 DEF NextByte
<1> HIDE DEF c
<1>16. Progress(label', R, Consumed(label', k), marker - m_start, yyaccept')
  <2>1. CASE label \in Scanning
    <3>1. Progress(Goto(label, c), R, k + Counted(label, c),
                   Mark(label, k, m_marker - m_start), Acc(label, yyaccept))
      BY <1>3, <1>6, <1>8, <1>9, <1>15, <2>1, ProgressOn
    <3>2. label' \notin {2, 7, 50}
      <4>1. label' \in (Scanning \ {9, 12, 13, 23, 24, 25}) \cup Ended \cup {5, 32, 48}
        BY <1>11, <1>15, <2>1, NextLabel
      <4> QED
        BY <4>1, LabelsApart
    <3>3. Consumed(label', k) = k + Counted(label, c)
      BY <1>8, <1>11, <3>2 DEF Consumed, Counted
    <3> QED
      BY <1>1, <1>10, <1>11, <3>1, <3>3
  <2>2. CASE label \in Skipping
    <3>1. Progress(Goto(label, c), R, Consumed(Goto(label, c), k), marker - m_start, yyaccept')
      BY <1>3, <1>9, <1>20, <2>2, ProgressSkipping
    <3> QED
      BY <1>11, <3>1
  <2> QED
    BY <1>4, <2>1, <2>2 DEF Skipping
<1>17. position' <= Len(text') /\ position' \in Nat /\ text' \in Seq(1 .. 255)
  BY <1>1, <1>2
<1>18. Rest' = R /\ LongestToken'
  BY <1>1, <1>3 DEF R, LongestToken
<1> QED
  BY <1>1, <1>11, <1>16, <1>17, <1>18 DEF Scanned

(* scan goes back to the marker. *)
LEMMA BacktrackScanned ==
    ASSUME Scanned, Slack', Backtrack PROVE Scanned'
<1> DEFINE R == Rest
           mk == m_marker - m_start
<1>1. /\ pc = "match" /\ pc' = "match" /\ label = 32
      /\ m_cursor' = m_marker /\ label' = Accepted[yyaccept]
      /\ UNCHANGED <<text, buffer, m_start, m_marker, yyaccept, position, last_token_type>>
  BY DEF Backtrack
<1>2. Slack /\ text \in Seq(1 .. 255) /\ position \in 0 .. Len(text)
      /\ Synced(buffer, m_start, R)
      /\ Progress(label, R, Consumed(label, m_cursor - m_start), m_marker - m_start, yyaccept)
  BY <1>1 DEF Scanned
<1>3. R \in Seq(1 .. 255) /\ R' = R
  BY <1>1, <1>2, FromIs DEF Rest
<1> HIDE DEF R
<1>4. mk \in Nat /\ mk <= m_cursor - m_start /\ yyaccept \in 0 .. 3
  BY <1>2 DEF Slack
<1>5. Progress(32, R, m_cursor - m_start, mk, yyaccept)
  BY <1>1, <1>2 DEF Consumed
<1> HIDE DEF mk
<1>6. Progress(Accepted[yyaccept], R, mk, mk, yyaccept)
  BY <1>3, <1>4, <1>5, ProgressBack
<1>7. Consumed(label', mk) = mk
  <2>1. label' \in {5, 14, 44, 58}
    BY <1>1, <1>4 DEF Accepted
  <2> QED
    BY <2>1 DEF Consumed
<1>8. m_cursor' - m_start' = mk /\ m_marker' - m_start' = mk
  BY <1>1 DEF mk
<1>9. Progress(label', R, Consumed(label', m_cursor' - m_start'), m_marker' - m_start', yyaccept')
  BY <1>1, <1>6, <1>7, <1>8
<1>10. /\ position' <= Len(text') /\ position' \in Nat /\ text' \in Seq(1 .. 255)
       /\ Synced(buffer', m_start', R)
  BY <1>1, <1>2
<1>11. Rest' = R /\ LongestToken'
  BY <1>1, <1>3 DEF R, LongestToken
<1> QED
  BY <1>1, <1>9, <1>10, <1>11 DEF Scanned

(* After k bytes more, what the buffer holds is still what is left of the text. *)
LEMMA Onward ==
    ASSUME NEW t \in Seq(1 .. 255), NEW i \in 0 .. Len(t), NEW b, NEW start \in Nat,
           Synced(b, start, From(t, i)), NEW k \in 0 .. Len(From(t, i))
    PROVE  i + k <= Len(t) /\ i + k \in Nat /\ Synced(b, start + k, From(t, i + k))
<1>1. From(t, i) \in Seq(1 .. 255) /\ From(From(t, i), k) = From(t, i + k) /\ i + k <= Len(t)
  BY FromOfFrom
<1>2. Synced(b, start + k, From(From(t, i), k))
  BY <1>1, SyncedOn
<1>3. i + k \in Nat
  OBVIOUS
<1> QED
  BY <1>1, <1>2, <1>3

(* Whitespace is dropped, and scan begins again. *)
LEMMA SkipScanned ==
    ASSUME Scanned, Slack', Skip PROVE Scanned'
<1> DEFINE p == m_cursor - m_start
<1>1. /\ pc = "match" /\ pc' = "scan" /\ label = 7
      /\ position' = position + p
      /\ UNCHANGED <<text, buffer, m_cursor, last_token_type>>
  BY DEF Skip
<1>2. Slack /\ text \in Seq(1 .. 255) /\ position \in 0 .. Len(text)
      /\ Synced(buffer, m_start, From(text, position))
      /\ Progress(label, Rest, Consumed(label, p), m_marker - m_start, yyaccept)
  BY <1>1 DEF Scanned, Rest
<1>3. p \in 0 .. Len(From(text, position))
  BY <1>1, <1>2 DEF Progress, Consumed, Rest
<1>4. m_start \in Nat /\ m_start + p = m_cursor
  BY <1>2 DEF Slack
<1> HIDE DEF p
<1>5. /\ position + p <= Len(text) /\ position + p \in Nat
      /\ Synced(buffer, m_start + p, From(text, position + p))
  BY <1>2, <1>3, <1>4, Onward
<1>6. Rest' = From(text, position + p)
  BY <1>1 DEF Rest
<1>7. /\ position' <= Len(text') /\ position' \in Nat /\ text' \in Seq(1 .. 255)
      /\ Synced(buffer', m_cursor', Rest')
  BY <1>1, <1>2, <1>4, <1>5, <1>6
<1>8. LongestToken'
  BY <1>1 DEF LongestToken
<1> QED
  BY <1>1, <1>7, <1>8 DEF Scanned

(* The token in the buffer is the token in the text. *)
LEMMA LexemeInBuffer ==
    ASSUME NEW b \in Seq(Byte), NEW start \in Nat, NEW R \in Seq(1 .. 255),
           Synced(b, start, R), NEW k \in 1 .. Len(R)
    PROVE  SubSeq(b, start + 1, start + k) = First(R, k)
<1>0. Len(b) \in Nat /\ Len(R) \in Nat
  OBVIOUS
<1>1. start + k <= Len(b)
  BY DEF Synced
<1>2. SubSeq(b, start + 1, start + k) = [x \in 1 .. k |-> b[start + x]]
  <2>1. (start + k) - (start + 1) + 1 = k /\ \A x \in Nat : start + 1 + x - 1 = start + x
    BY <1>0
  <2> QED
    BY <1>0, <1>1
<1>3. First(R, k) = [x \in 1 .. k |-> R[x]]
  BY <1>0 DEF First
<1>4. \A x \in 1 .. k : b[start + x] = R[x]
  BY <1>0 DEF Synced
<1> QED
  BY <1>2, <1>3, <1>4

(* A token is returned. *)
LEMMA FoundScanned ==
    ASSUME Scanned, Slack', Found PROVE Scanned'
<1> DEFINE R == Rest
           p == m_cursor - m_start
           length == m_cursor' - m_start
           k == Consumed(label, p)
<1>1. /\ pc = "match" /\ pc' = "returned" /\ label \in Ends
      /\ m_cursor' = IF label \in AtEnd THEN m_cursor ELSE m_cursor + 1
      /\ last_token_type' = TokenAt[label]
      /\ position' = position + length
      /\ UNCHANGED <<text, buffer, m_start>>
  BY DEF Found, TokenAt, Ends
<1>2. Slack /\ text \in Seq(1 .. 255) /\ position \in 0 .. Len(text)
      /\ Synced(buffer, m_start, From(text, position))
      /\ Progress(label, R, k, m_marker - m_start, yyaccept)
  BY <1>1 DEF Scanned, Rest
<1>3. R \in Seq(1 .. 255) /\ R = From(text, position) /\ Len(R) \in Nat
  BY <1>2, FromIs DEF Rest
<1>4. m_start \in Nat /\ m_cursor \in Nat /\ p \in Nat /\ m_start + p = m_cursor
      /\ buffer \in Seq(Byte)
  BY <1>2 DEF Slack
<1>5. length \in Nat /\ m_cursor' = m_start + length
      /\ length = IF label \in AtEnd THEN p ELSE p + 1
  BY <1>1, <1>4
<1>6. label # 2 => length = k
  BY <1>1, <1>5 DEF Consumed, AtEnd, Ends
<1>7. /\ LongestOf(R).type = TokenAt[label]
      /\ label \in Ended => LongestOf(R).length = k
      /\ label = 2 => LongestOf(R).length = 1
  BY <1>1, <1>2, <1>3, LongestAt
<1>8. label = 2 => length = 1
  <2> SUFFICES ASSUME label = 2 PROVE length = 1
    OBVIOUS
  <2>1. k = p
    BY DEF Consumed
  <2>2. Len(R) = 0 /\ k \in 0 .. Len(R)
    BY <1>2 DEF Progress
  <2>3. p = 0
    BY <2>1, <2>2
  <2> QED
    BY <1>5, <2>3 DEF AtEnd
<1>9. label \in Ended => k \in 1 .. Len(R)
  <2>1. k \in 0 .. Len(R) /\ (label \in Ended => 1 <= k)
    BY <1>2 DEF Progress
  <2> QED
    BY <1>3, <2>1
<1>10. /\ label \in Ended => TokenAt[label] \notin Final
       /\ label \notin Ended => TokenAt[label] \in Final
       /\ TokenAt[label] # "parse_error" => label = 2 \/ label \in Ended
  BY <1>1, TokenValues DEF Ended, Simple, Final, Ends
<1> HIDE DEF k, length, p
<1>11. label \in Ended => 
         /\ position' <= Len(text') /\ Synced(buffer', m_cursor', Rest')
         /\ SubSeq(buffer', m_start' + 1, m_cursor') = First(R, length)
  <2> SUFFICES ASSUME label \in Ended
               PROVE  /\ position' <= Len(text') /\ Synced(buffer', m_cursor', Rest')
                      /\ SubSeq(buffer', m_start' + 1, m_cursor') = First(R, length)
    OBVIOUS
  <2>1. length = k /\ length \in 1 .. Len(R) /\ length \in 0 .. Len(From(text, position))
    BY <1>3, <1>6, <1>9 DEF Ended, Simple
  <2>2. /\ position + length <= Len(text)
        /\ Synced(buffer, m_start + length, From(text, position + length))
    BY <1>2, <1>4, <2>1, Onward
  <2>3. Rest' = From(text, position + length)
    BY <1>1 DEF Rest
  <2>4. SubSeq(buffer, m_start + 1, m_start + length) = First(R, length)
    BY <1>2, <1>3, <1>4, <2>1, LexemeInBuffer
  <2> QED
    BY <1>1, <1>5, <2>2, <2>3, <2>4
<1>12. /\ position' \in Nat /\ text' \in Seq(1 .. 255)
       /\ position' - (m_cursor' - m_start') = position
       /\ m_cursor' - m_start' = length
  BY <1>1, <1>2, <1>4, <1>5 DEF length
<1>13. Ahead' = R /\ Lexeme' = First(R, length)
  BY <1>1, <1>3, <1>12 DEF Ahead, Lexeme
<1> HIDE DEF R
<1>14. /\ last_token_type' = LongestOf(Ahead').type
       /\ last_token_type' # "parse_error" => m_cursor' - m_start' = LongestOf(Ahead').length
       /\ last_token_type' \notin {"parse_error", "end_of_input"} =>
              SubSeq(buffer', m_start' + 1, m_cursor') = Lexeme'
  <2>1. last_token_type' = LongestOf(Ahead').type
    BY <1>1, <1>7, <1>13
  <2>2. last_token_type' # "parse_error" => m_cursor' - m_start' = LongestOf(Ahead').length
    <3>1. CASE label = 2
      BY <1>7, <1>8, <1>12, <1>13, <3>1
    <3>2. CASE label \in Ended
      <4>1. label # 2
        BY <3>2 DEF Ended, Simple
      <4> QED
        BY <1>6, <1>7, <1>12, <1>13, <3>2, <4>1
    <3> QED
      BY <1>1, <1>10, <3>1, <3>2
  <2>3. last_token_type' \notin {"parse_error", "end_of_input"} =>
              SubSeq(buffer', m_start' + 1, m_cursor') = Lexeme'
    BY <1>1, <1>10, <1>11, <1>13 DEF Final
  <2> QED
    BY <2>1, <2>2, <2>3
<1>15. LongestToken'
  BY <1>14 DEF LongestToken
<1>16. last_token_type' \notin Final =>
         position' <= Len(text') /\ Synced(buffer', m_cursor', Rest')
  BY <1>1, <1>10, <1>11
<1> QED
  BY <1>1, <1>12, <1>15, <1>16 DEF Scanned

(* Every step keeps what Scanned says. *)
LEMMA NextScanned == Scanned /\ [Next]_vars => Scanned'
<1> SUFFICES ASSUME Scanned, [Next]_vars PROVE Scanned'
  OBVIOUS
<1>0. Slack'
  BY NextSlack DEF Scanned
<1>1. CASE Begin
  BY <1>0, <1>1, BeginScanned
<1>2. CASE Advance
  BY <1>0, <1>2, AdvanceScanned
<1>3. CASE Backtrack
  BY <1>0, <1>3, BacktrackScanned
<1>4. CASE Skip
  BY <1>0, <1>4, SkipScanned
<1>5. CASE Found
  BY <1>0, <1>5, FoundScanned
<1>6. CASE Take
  BY <1>0, <1>6 DEF Take, Scanned, Rest, LongestToken
<1>7. CASE GetToken
  BY <1>0, <1>7 DEF GetToken, GoesOn, Scanned, Rest, LongestToken, Final
<1>8. CASE Stop
  BY <1>0, <1>8 DEF Stop, Scanned, Rest, LongestToken
<1>9. CASE UNCHANGED vars
  BY <1>0, <1>9 DEF vars, Scanned, Rest, LongestToken, Ahead, Lexeme
<1> QED
  BY <1>1, <1>2, <1>3, <1>4, <1>5, <1>6, <1>7, <1>8, <1>9 DEF Next

(***************************************************************************)
(* scan returns the longest token what is left of the text begins with,    *)
(* and an error exactly where there is none, for every text: the labels    *)
(* generated by re2c and the grammar of JSON agree, however often the      *)
(* buffer is filled in the middle of a token and the scanner goes back.    *)
(***************************************************************************)
THEOREM LongestIsFound == Spec => []LongestToken
<1>1. Scanned => LongestToken
  BY DEF Scanned
<1> QED
  BY <1>1, InitScanned, NextScanned, PTL DEF Spec
=============================================================================
