--------------------------- MODULE JsonBinaryWriter ---------------------------
(***************************************************************************)
(* to_msgpack and to_cbor of src/include/json.hpp, and what JsonBinary     *)
(* reads of the bytes they write.                                          *)
(***************************************************************************)
EXTENDS JsonBinary

(* A number below 2^24 as eight bytes. *)
Bytes8(n) == <<0, 0, 0, 0, 0, n \div 65536, (n \div 256) % 256, n % 256>>

(* Whether b needs no more than k bytes, as unsigned or as negative number. *)
Fits(b, k) == \A i \in 1 .. (8 - k) : b[i] = 0
FitsSigned(b, k) == b[9 - k] >= 128 /\ \A i \in 1 .. (8 - k) : b[i] = 255
IsNegative(b) == b[1] >= 128

(* add_to_vector: the last n bytes. *)
Added(n, b) == SubSeq(b, 9 - n, 8)

(* The code and the number after it, in the first of the widths it fits. *)
Wide(codes, b) ==
    LET k == Min({w \in DOMAIN codes : Fits(b, w)}) IN <<codes[k]>> \o Added(k, b)

-----------------------------------------------------------------------------
(* to_msgpack_internal *)
MsgpackUnsigned(b) ==
    IF Fits(b, 1) /\ b[8] < 128 THEN Added(1, b)
    ELSE Wide((1 :> 204) @@ (2 :> 205) @@ (4 :> 206) @@ (8 :> 207), b)

\* Mistake: a byte is taken for a signed one from -255 on.
MsgpackNegativeNoSign(b) ==
    CASE Fits(Complement(b), 1) /\ b[8] >= 224 -> Added(1, b)
      [] Fits(Complement(b), 1) /\ b[8] < 224 -> <<208>> \o Added(1, b)
      [] OTHER -> <<211>> \o Added(8, b)

MsgpackNegative(b) ==
    CASE FitsSigned(b, 1) /\ b[8] >= 224 -> Added(1, b)
      [] FitsSigned(b, 1) /\ b[8] < 224 -> <<208>> \o Added(1, b)
      [] FitsSigned(b, 2) /\ ~FitsSigned(b, 1) -> <<209>> \o Added(2, b)
      [] FitsSigned(b, 4) /\ ~FitsSigned(b, 2) -> <<210>> \o Added(4, b)
      [] OTHER -> <<211>> \o Added(8, b)

MsgpackString(s) ==
    (IF Len(s) <= 31 THEN <<160 + Len(s)>>
     ELSE Wide((1 :> 217) @@ (2 :> 218) @@ (4 :> 219), Bytes8(Len(s)))) \o s

MsgpackSize(small, codes, n) == IF n <= 15 THEN <<small + n>> ELSE Wide(codes, Bytes8(n))
MsgpackArray(n) == MsgpackSize(144, (2 :> 220) @@ (4 :> 221), n)
MsgpackObject(n) == MsgpackSize(128, (2 :> 222) @@ (4 :> 223), n)

(* to_cbor_internal: the kind is in the upper three bits. *)
CborHead(kind, b) ==
    IF Fits(b, 1) /\ b[8] <= 23 THEN <<kind + b[8]>>
    ELSE Wide((1 :> kind + 24) @@ (2 :> kind + 25) @@ (4 :> kind + 26) @@ (8 :> kind + 27), b)
CborUnsigned(b) == CborHead(0, b)
CborNegative(b) == CborHead(32, Complement(b))
CborString(s) == CborHead(96, Bytes8(Len(s))) \o s
CborArray(n) == CborHead(128, Bytes8(n))
CborObject(n) == CborHead(160, Bytes8(n))

Scalar(fmt, t) ==
    LET of(m, c) == IF fmt = "msgpack" THEN m ELSE c
    IN  CASE t.m_type = "null" -> <<of(192, 246)>>
          [] t.m_type = "boolean" -> <<of(194, 244) + t.m_value>>
          [] t.m_type = "number_float" -> <<of(203, 251)>> \o t.m_value
          [] t.m_type = "number_integer" /\ IsNegative(t.m_value) ->
               of(MsgpackNegative(t.m_value), CborNegative(t.m_value))
          [] OTHER -> of(MsgpackUnsigned(t.m_value), CborUnsigned(t.m_value))

(* to_msgpack, to_cbor *)
(* Sequences one after the other, joined by halves: they may be many. *)
Joined(seqs) ==
    LET RECURSIVE Join(_, _)
        Join(i, n) ==
            CASE n = 0 -> <<>>
              [] n = 1 -> seqs[i]
              [] OTHER -> LET half == n \div 2
                          IN  Join(i, half) \o Join(i + half, n - half)
    IN  Join(1, Len(seqs))

Written(fmt, t) ==
    LET of(m, c) == IF fmt = "msgpack" THEN m ELSE c
        text(s) == of(MsgpackString(s), CborString(s))
        RECURSIVE Write(_)
        Write(u) ==
            IF "m_type" \in DOMAIN u THEN Scalar(fmt, u)
            ELSE CASE u.kind = "string" -> text(u.text)
                   [] u.kind = "array" ->
                        LET n == Len(u.elements)
                        IN  of(MsgpackArray(n), CborArray(n))
                              \o Joined([i \in 1 .. n |-> Write(u.elements[i])])
                   [] u.kind = "object" ->
                        LET keys == InOrder(DOMAIN u.members)
                            n == Len(keys)
                        IN  of(MsgpackObject(n), CborObject(n))
                              \o Joined([i \in 1 .. n |-> text(keys[i]) \o Write(u.members[keys[i]])])
    IN  Write(t)

-----------------------------------------------------------------------------
(* What is written of t, whole or cut short. *)
Cuts(fmt, t) ==
    LET w == Written(fmt, t)
    IN  {[format |-> fmt, tree |-> t, bytes |-> SubSeq(w, 1, n)] : n \in 0 .. Len(w)}

(* A number that is not negative is read as an unsigned one: == sees no difference. *)
RECURSIVE Plain(_)
Plain(t) ==
    IF "m_type" \in DOMAIN t
    THEN IF t.m_type = "number_integer" /\ ~IsNegative(t.m_value)
         THEN json("number_unsigned", t.m_value) ELSE t
    ELSE CASE t.kind = "array" -> ArrayOf([i \in DOMAIN t.elements |-> Plain(t.elements[i])])
           [] t.kind = "object" -> ObjectOf([k \in DOMAIN t.members |-> Plain(t.members[k])])
           [] t.kind = "string" -> t

(***************************************************************************)
(* What to_msgpack or to_cbor wrote is read as the same value, with        *)
(* nothing left; if only one byte of it is missing, it is refused.         *)
(***************************************************************************)
WrittenIsRead ==
    tree # Nothing =>
        LET w == Written(format, tree)
        IN  /\ outcome = "read" => v = w /\ idx = Len(w) /\ Plain(returned) = Plain(tree)
            /\ outcome = "thrown" => Len(v) < Len(w)
=============================================================================
