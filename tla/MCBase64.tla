------------------------------- MODULE MCBase64 -------------------------------
(* Bytes of four bits and digits of three: every buffer of up to three     *)
(* bytes, longer ones and texts from a few bytes and characters.           *)
EXTENDS Base64

SeqsOfUpTo(S, n) == UNION {[1 .. m -> S] : m \in 0 .. n}

MCBuffers == SeqsOfUpTo(0 .. 15, 3) \cup SeqsOfUpTo({0, 6, 9, 15}, 5)

MCTexts == SeqsOfUpTo({0, 2, 5, 7, Pad, Foreign}, 6)
===============================================================================
