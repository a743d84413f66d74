------------------------------- MODULE JsonScan -------------------------------
(***************************************************************************)
(* lexer::scan of src/include/json.hpp and the line buffer it reads from,  *)
(* one character read per step.  The scanner is generated: its labels,     *)
(* basic_json_parser_2 to basic_json_parser_74, are the values of label,   *)
(* and 0 is where a token begins.  Pointers are offsets from m_content;    *)
(* m_limit is the length of the buffer.  The parser asks for one token     *)
(* after the other, and for the value of each string and number, until it  *)
(* is given the end of the input or an error.                              *)
(***************************************************************************)
EXTENDS JsonGrammar, JsonDump

CONSTANTS
    Texts          \* the texts json::parse is given, up to their first NUL

ASSUME TextsAreBytes == \A t \in Texts : t \in Seq(1 .. 255)

VARIABLES
    text,          \* the text being parsed
    buffer,        \* m_content .. m_limit
    m_start, m_marker, m_cursor,
    yyaccept, label,
    pc,            \* "scan", "match", "returned", "taken" or "stopped"
    last_token_type,
    position,      \* the bytes read so far
    value          \* what the parser made of the last string or number

vars == <<text, buffer, m_start, m_marker, m_cursor, yyaccept, label, pc,
          last_token_type, position, value>>

NoValue == [type |-> "none", value |-> 0]

Init ==
    /\ text \in Texts
    /\ buffer = text
    /\ m_start = 0 /\ m_marker = 0 /\ m_cursor = 0
    /\ yyaccept = 0 /\ label = 0 /\ pc = "scan"
    /\ last_token_type = "uninitialized" /\ position = 0
    /\ value = NoValue

-----------------------------------------------------------------------------
(* Where each label goes on the character it reads. *)

(* yybm: 32 is for blanks, 64 for digits, 128 for plain string characters. *)
Blank == {Tab, LineFeed, CarriageReturn, Space}
Plain == (32 .. 127) \ {Quote, Backslash}

Dispatch(c) ==
    CASE c \in Blank -> 6
      [] c = 0 -> 2
      [] c = Quote -> 9
      [] c = Comma -> 10
      [] c = Minus -> 12
      [] c = Zero -> 13
      [] c \in Digit \ {Zero} -> 15
      [] c = Colon -> 17
      [] c = OpenArray -> 19
      [] c = CloseArray -> 21
      [] c = 102 -> 23                     \* f
      [] c = 110 -> 24                     \* n
      [] c = 116 -> 25                     \* t
      [] c = OpenObject -> 26
      [] c = CloseObject -> 28
      [] OTHER -> 4

(* 31, where a string goes on. *)
InString(c) ==
    CASE c \in Plain -> 30
      [] c = Quote -> 33
      [] c = Backslash -> 35
      [] c \in 194 .. 223 -> 36            \* 0xC2 .. 0xDF
      [] c = 224 -> 37                     \* 0xE0
      [] c = 237 -> 39                     \* 0xED
      [] c \in (225 .. 239) \ {237} -> 38
      [] c = 240 -> 40                     \* 0xF0
      [] c \in 241 .. 243 -> 41
      [] c = 244 -> 42                     \* 0xF4
      [] OTHER -> 32

StringOpen(c) == IF c \in (32 .. 127) \cup (194 .. 244) THEN InString(c) ELSE 5

AfterMinus(c) ==
    CASE c = Zero -> 43 [] c \in Digit \ {Zero} -> 45 [] OTHER -> 5

(* What follows the digits of an integer: done is the label that ends it. *)
AfterZero(c, done) ==
    CASE c = Dot -> 47 [] c \in Digit -> 48 [] c \in {UpperE, LowerE} -> 51
      [] OTHER -> done

AfterDigit(c, more, done) ==
    CASE c = Dot -> 47 [] c \in Digit -> more [] c \in {UpperE, LowerE} -> 51
      [] OTHER -> done

AfterEscape(c) ==
    CASE c \in DOMAIN Escapes -> 30 [] c = LowerU -> 55 [] OTHER -> 32

\* Mistake: the second byte after 0xED is not kept below 0xA0.
Utf8Surrogates(q, c) ==
    CASE q = 36 /\ c \in 128 .. 191 -> 30
      [] q \in {38, 39} /\ c \in 128 .. 191 -> 36
      [] q = 37 /\ c \in 160 .. 191 -> 36
      [] q = 40 /\ c \in 144 .. 191 -> 38
      [] q = 41 /\ c \in 128 .. 191 -> 38
      [] q = 42 /\ c \in 128 .. 143 -> 38
      [] OTHER -> 32

(* The bytes that may follow the first of a character of several. *)
Utf8(q, c) ==
    CASE q = 36 /\ c \in 128 .. 191 -> 30
      [] q = 37 /\ c \in 160 .. 191 -> 36
      [] q = 38 /\ c \in 128 .. 191 -> 36
      [] q = 39 /\ c \in 128 .. 159 -> 36
      [] q = 40 /\ c \in 144 .. 191 -> 38
      [] q = 41 /\ c \in 128 .. 191 -> 38
      [] q = 42 /\ c \in 128 .. 143 -> 38
      [] OTHER -> 32

Fraction(c) == IF c \in Digit THEN 56 ELSE 32

LeadingZero(c) == IF c \in Digit THEN 48 ELSE 50

Exponent(c) ==
    CASE c \in {Plus, Minus} -> 59 [] c \in Digit -> 60 [] OTHER -> 32

AfterFraction(c) ==
    CASE c \in Digit -> 56 [] c \in {UpperE, LowerE} -> 51 [] OTHER -> 58

ExponentSign(c) == IF c \in Digit THEN 60 ELSE 32

ExponentDigits(c) == IF c \in Digit THEN 60 ELSE 58

(* The four digits after \u, the last of which goes on with the string. *)
Hex1(c) == IF c \in HexDigit THEN 65 ELSE 32
Hex2(c) == IF c \in HexDigit THEN 71 ELSE 32
Hex3(c) == IF c \in HexDigit THEN 74 ELSE 32
HexLast(c) == IF c \in HexDigit THEN 30 ELSE 32

(* The letters of false, null and true. *)
LiteralBegins(q, c) ==
    CASE q = 23 /\ c = 97 -> 52 [] q = 24 /\ c = LowerU -> 53
      [] q = 25 /\ c = 114 -> 54 [] OTHER -> 5
LiteralSecond(q, c) ==
    CASE q \in {52, 53} /\ c = 108 -> q + 10 [] q = 54 /\ c = LowerU -> 64
      [] OTHER -> 32
LiteralThird(q, c) ==
    CASE q = 62 /\ c = 115 -> 66 [] q = 63 /\ c = 108 -> 67
      [] q = 64 /\ c = LowerE -> 69 [] OTHER -> 32
LiteralFourth(c) == IF c = LowerE THEN 72 ELSE 32

Goto(q, c) ==
    CASE q = 0 -> Dispatch(c)
      [] q = 6 -> IF c \in Blank THEN 6 ELSE 7
      [] q = 9 -> StringOpen(c)
      [] q = 12 -> AfterMinus(c)
      [] q = 13 -> AfterZero(c, 14)
      [] q = 15 -> AfterDigit(c, 15, 14)
      [] q \in 23 .. 25 -> LiteralBegins(q, c)
      [] q = 30 -> InString(c)
      [] q = 35 -> AfterEscape(c)
      [] q \in 36 .. 42 -> Utf8(q, c)
      [] q = 43 -> AfterZero(c, 44)
      [] q = 45 -> AfterDigit(c, 45, 44)
      [] q = 47 -> Fraction(c)
      [] q = 48 -> LeadingZero(c)
      [] q = 51 -> Exponent(c)
      [] q \in 52 .. 54 -> LiteralSecond(q, c)
      [] q = 55 -> Hex1(c)
      [] q = 56 -> AfterFraction(c)
      [] q = 59 -> ExponentSign(c)
      [] q = 60 -> ExponentDigits(c)
      [] q \in 62 .. 64 -> LiteralThird(q, c)
      [] q = 65 -> Hex2(c)
      [] q = 66 -> LiteralFourth(c)
      [] q = 71 -> Hex3(c)
      [] q = 74 -> HexLast(c)

(* What is found at the labels where no more is read. *)
TokenAt ==
    [q \in {2, 4, 5, 10, 14, 17, 19, 21, 26, 28, 33, 44, 50, 58, 67, 69, 72} |->
       CASE q = 2 -> "end_of_input"
         [] q \in {4, 5, 50} -> "parse_error"
         [] q = 10 -> "value_separator"
         [] q = 14 -> "value_unsigned"
         [] q = 17 -> "name_separator"
         [] q = 19 -> "begin_array"
         [] q = 21 -> "end_array"
         [] q = 26 -> "begin_object"
         [] q = 28 -> "end_object"
         [] q = 33 -> "value_string"
         [] q = 44 -> "value_integer"
         [] q = 58 -> "value_float"
         [] q = 67 -> "literal_null"
         [] q = 69 -> "literal_true"
         [] q = 72 -> "literal_false"]

(* These are reached with m_cursor after the token's last character. *)
AtEnd == {5, 14, 44, 50, 58}

-----------------------------------------------------------------------------
(* The labels that may be gone back to, and what is found there then. *)
Marks == {9, 13, 15, 23, 24, 25, 43, 45, 56}
Accepts(q) ==
    CASE q \in {13, 15} -> 1 [] q \in {43, 45} -> 2 [] q = 56 -> 3 [] OTHER -> 0
Accepted == [a \in 0 .. 3 |-> CASE a = 0 -> 5 [] a = 1 -> 14 [] a = 2 -> 44 [] a = 3 -> 58]

\* Mistake: the token's first character is not counted.
GuardOneLess(q) ==
    CASE q = 0 -> 4
      [] q \in {15, 45, 56} -> 3
      [] q \in {6, 30, 48, 60, 55, 65, 71, 74} \cup (35 .. 42) -> 1
      [] OTHER -> 0

(***************************************************************************)
(* How many bytes a label wants to have before it reads.  Those that want  *)
(* none rely on what the label of the token's beginning, or of its last    *)
(* digit, made sure of.                                                    *)
(***************************************************************************)
Guard(q) ==
    CASE q = 0 -> 5
      [] q \in {15, 45, 56} -> 3
      [] q \in {6, 30, 48, 60, 55, 65, 71, 74} \cup (35 .. 42) -> 1
      [] OTHER -> 0

Reads == {0, 6, 9, 12, 13, 15, 23, 24, 25, 30, 43, 45, 47, 48, 59, 60, 62, 63,
          64, 65, 66, 71, 74} \cup (35 .. 42) \cup (51 .. 56)

(***************************************************************************)
(* fill_line_buffer, where no stream is read: what is left of the text is  *)
(* copied to the front and padded with a NUL and n - 1 bytes more.         *)
(***************************************************************************)
Padded(n, start) ==
    SubSeq(buffer, start + 1, Len(buffer)) \o <<0>> \o [i \in 1 .. n - 1 |-> 1]

(* Read the character at cursor; if too few are left, fill the buffer first. *)
Read(q, start, cursor, marker) ==
    LET short == Len(buffer) - cursor < Guard(q)
        gone == IF short THEN start ELSE 0
    IN  /\ buffer' = IF short THEN Padded(Guard(q), start) ELSE buffer
        /\ m_start' = start - gone
        /\ m_cursor' = cursor - gone
        /\ m_marker' = marker - gone
        /\ label' = Goto(q, At(buffer', m_cursor'))

Begin ==
    /\ pc = "scan"
    /\ pc' = "match"
    /\ Read(0, m_cursor, m_cursor, m_cursor)
    /\ yyaccept' = 0
    /\ UNCHANGED <<text, last_token_type, position, value>>

Advance ==
    /\ pc = "match" /\ label \in Reads
    /\ Read(label, m_start, m_cursor + 1,
            IF label \in Marks THEN m_cursor + 1 ELSE m_marker)
    /\ yyaccept' = IF label \in Marks THEN Accepts(label) ELSE yyaccept
    /\ UNCHANGED <<text, pc, last_token_type, position, value>>

(* 32: back to the last place where a token might have ended. *)
Backtrack ==
    /\ pc = "match" /\ label = 32
    /\ m_cursor' = m_marker
    /\ label' = Accepted[yyaccept]
    /\ UNCHANGED <<text, buffer, m_start, m_marker, yyaccept, pc,
                   last_token_type, position, value>>

\* Mistake: the blanks are scanned again.
SkipNothing ==
    /\ pc = "match" /\ label = 7
    /\ m_cursor' = m_start
    /\ pc' = "scan" /\ label' = 0
    /\ UNCHANGED <<text, buffer, m_start, m_marker, yyaccept, last_token_type,
                   position, value>>

(* Blanks are no token: the loop of scan goes on. *)
Skip ==
    /\ pc = "match" /\ label = 7
    /\ position' = position + (m_cursor - m_start)
    /\ pc' = "scan" /\ label' = 0
    /\ UNCHANGED <<text, buffer, m_start, m_marker, m_cursor, yyaccept,
                   last_token_type, value>>

Found ==
    /\ pc = "match" /\ label \in DOMAIN TokenAt
    /\ m_cursor' = IF label \in AtEnd THEN m_cursor ELSE m_cursor + 1
    /\ last_token_type' = TokenAt[label]
    /\ position' = position + (m_cursor' - m_start)
    /\ pc' = "returned"
    /\ UNCHANGED <<text, buffer, m_start, m_marker, yyaccept, label, value>>

-----------------------------------------------------------------------------
(* The parser takes the value of the token, and asks for the next one. *)

Numbers == {"value_unsigned", "value_integer", "value_float"}

Take ==
    /\ pc = "returned"
    /\ value' =
         CASE last_token_type = "value_string" ->
                [type |-> "string", value |-> GetString(buffer, m_start, m_cursor)]
           [] last_token_type \in Numbers ->
                GetNumber(buffer, m_start, m_cursor, last_token_type)
           [] OTHER -> NoValue
    /\ pc' = "taken"
    /\ UNCHANGED <<text, buffer, m_start, m_marker, m_cursor, yyaccept, label,
                   last_token_type, position>>

(* An error of the scanner, of get_string or of get_number ends it. *)
GoesOn ==
    /\ last_token_type \notin {"end_of_input", "parse_error"}
    /\ last_token_type = "value_string" => value.value.ok
    /\ value.type # "infinite"

GetToken ==
    /\ pc = "taken" /\ GoesOn
    /\ pc' = "scan" /\ label' = 0
    /\ UNCHANGED <<text, buffer, m_start, m_marker, m_cursor, yyaccept,
                   last_token_type, position, value>>

Stop ==
    /\ pc = "taken" /\ ~GoesOn
    /\ pc' = "stopped"
    /\ UNCHANGED <<text, buffer, m_start, m_marker, m_cursor, yyaccept, label,
                   last_token_type, position, value>>

Next == Begin \/ Advance \/ Backtrack \/ Skip \/ Found \/ Take \/ GetToken \/ Stop

Spec == Init /\ [][Next]_vars

(* The thread that parses keeps running: nothing in here waits. *)
FairSpec == Spec /\ WF_vars(Next)

-----------------------------------------------------------------------------
(***************************************************************************)
(* The pointers keep the order fill_line_buffer asserts, the marker within *)
(* the token: going back never leaves it.                                  *)
(***************************************************************************)
TypeOK ==
    /\ pc \in {"scan", "match", "returned", "taken", "stopped"}
    /\ yyaccept \in 0 .. 3
    /\ label \in 0 .. 74
    /\ 0 <= m_start /\ m_start <= m_marker
    /\ m_marker <= m_cursor /\ m_cursor <= Len(buffer)

(***************************************************************************)
(* No label reads past the buffer.  The labels that ask for no bytes live  *)
(* on what the beginning of the token, or its last digit, asked for; the   *)
(* others fill the buffer first if they must.                              *)
(***************************************************************************)
ReadsInBuffer ==
    pc = "match" /\ label \in Reads =>
        IF Guard(label) = 0 THEN m_cursor + 1 < Len(buffer)
        ELSE m_cursor + 1 <= Len(buffer)

(* The text from the last token on, and the token itself. *)
Ahead == From(text, position - (m_cursor - m_start))
Lexeme == First(Ahead, m_cursor - m_start)

(***************************************************************************)
(* scan returns the longest token the rest of the text begins with, of its *)
(* kind, and an error exactly where there is none: whatever buffers were   *)
(* filled, whatever it read beyond the token and went back from.           *)
(***************************************************************************)
LongestToken ==
    pc = "returned" =>
        /\ last_token_type = LongestOf(Ahead).type
        /\ last_token_type # "parse_error" => m_cursor - m_start = LongestOf(Ahead).length
        /\ last_token_type \notin {"parse_error", "end_of_input"} =>
               SubSeq(buffer, m_start + 1, m_cursor) = Lexeme

(***************************************************************************)
(* What the parser takes of a token is what the token means.  The bytes of *)
(* a string are the UTF-8 form of it, the halves of surrogate pairs put    *)
(* together; a half that is alone is refused.  A number that could not be  *)
(* converted, at which the parser does not look, is never accepted, since  *)
(* the next token is an error (json.hpp:12324).                            *)
(***************************************************************************)
Meant == Paired(Meanings(SubSeq(Lexeme, 2, Len(Lexeme) - 1)))
StringMeans ==
    IF \E k \in DOMAIN Meant : Meant[k] = -1 THEN ~value.value.ok
    ELSE value.value.ok /\ Decoded(value.value.bytes) = Meant
TokenMeans ==
    /\ pc = "taken" /\ last_token_type = "value_string" => StringMeans
    /\ pc = "returned" /\ value.type = "discarded" => last_token_type = "parse_error"

(***************************************************************************)
(* A string or an integer that was taken is written by dump as one token,  *)
(* in the room dump_escaped made for it, and read again as what it was;    *)
(* only -0 comes back unsigned.                                            *)
(***************************************************************************)
DumpsString(s) ==
    LET dumped == <<Quote>> \o dump_escaped(s) \o <<Quote>>
    IN  /\ Len(dumped) = Len(s) + extra_space(s) + 2
        /\ Class(dumped) = "value_string"
        /\ GetString(dumped, 0, Len(dumped)) = Bytes(s)
DumpsInteger(x, type) ==
    LET dumped == dump_integer(x)
        again == GetNumber(dumped, 0, Len(dumped), Class(dumped))
    IN  again = [type |-> IF x = 0 THEN "value_unsigned" ELSE type, value |-> x]
DumpedIsRead ==
    pc = "taken" =>
        /\ last_token_type = "value_string" /\ value.value.ok => DumpsString(value.value.bytes)
        /\ value.type \in {"value_unsigned", "value_integer"} =>
               DumpsInteger(value.value, value.type)

(***************************************************************************)
(* "The loop below will always terminate" is what json.hpp says of         *)
(* get_string; here of the whole: every text is scanned to its end, or to  *)
(* an error, however often the buffer is filled and the scanner goes back. *)
(***************************************************************************)
ScanEnds == <>(pc = "stopped")
=============================================================================
