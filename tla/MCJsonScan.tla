----------------------------- MODULE MCJsonScan -----------------------------
(* The texts JsonScan is checked on. *)
EXTENDS JsonScan

UpTo(S, n) == UNION {[1 .. k -> S] : k \in 0 .. n}

(* Numbers, and what is nearly one: - 0 8 . e + , *)
MCNumbers == UpTo({Minus, Zero, 56, Dot, LowerE, Plus, Comma}, 5)

(* Words cut short, and what follows them: , x and a blank. *)
MCWords ==
    {p \o t : t \in UpTo({Comma, 120, Space}, 2),
              p \in Prefixes(<<102, 97, 108, 115, 101>>)
                     \cup Prefixes(<<110, 117, 108, 108>>)
                     \cup Prefixes(<<116, 114, 117, 101>>)}

(* Punctuation and blanks, with a digit in between. *)
MCMarks ==
    UpTo({OpenArray, CloseArray, OpenObject, CloseObject, Colon, Space, LineFeed,
          Tab, CarriageReturn, 49}, 3)

Code(a, b, c, d) == <<Backslash, LowerU, a, b, c, d>>

(* The pieces of strings: escapes, characters of one to four bytes, halves
   of surrogate pairs, and bytes that are no UTF-8. *)
MCPieces ==
    {<<97>>, <<127>>, <<1>>, <<Backslash, 110>>, <<Backslash, Quote>>, <<Backslash, 120>>,
     Code(48, 48, 52, 49), Code(48, 48, 49, 70), Code(48, 48, 69, 57), Code(50, 48, 97, 99),
     Code(100, 56, 51, 52), Code(68, 68, 49, 69), Code(48, 103, 48, 48),
     <<195, 169>>, <<193, 191>>, <<128>>, <<226, 130, 172>>, <<224, 159, 191>>,
     <<237, 159, 191>>, <<237, 160, 128>>, <<240, 159, 152, 128>>,
     <<240, 143, 191, 191>>, <<241, 128, 128, 128>>, <<244, 143, 191, 191>>,
     <<244, 144, 128, 128>>, <<245, 128, 128, 128>>}

MCStrings ==
    {<<Quote>> \o p \o q \o <<Quote>> : p, q \in MCPieces \cup {<<>>}}

(* A string may end with the text, wherever it is. *)
MCTexts ==
    MCNumbers \cup MCWords \cup MCMarks \cup MCStrings
      \cup UNION {Prefixes(t \o <<Comma>>) : t \in MCStrings}
=============================================================================
