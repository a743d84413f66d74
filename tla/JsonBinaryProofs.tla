--------------------------- MODULE JsonBinaryProofs ---------------------------
(***************************************************************************)
(* Proofs about JsonBinary, for any bytes: from_msgpack and from_cbor look *)
(* at no byte behind the last, and their loops are nested as they should.  *)
(***************************************************************************)
EXTENDS JsonBinary, SequenceTheorems, TLAPS

-----------------------------------------------------------------------------
(* Heads and sizes. *)

LEMMA Widths == \A k \in 0 .. 3 : Width(k) \in 1 .. 8
<1>1. \A k \in 0 .. 3 : k = 0 \/ k = 1 \/ k = 2 \/ k = 3
  OBVIOUS
<1> QED
  BY <1>1 DEF Width

(* A head: how many bytes follow it, and a size in the first byte itself. *)
IsHead(h) ==
    /\ h.form \in {"unsigned", "signed", "negative", "float"} => h.width \in 0 .. 8
    /\ h.form \in {"text", "array", "object"} =>
           (h.width \in 0 .. 8 \/ h.width = UntilBreak) /\ h.small \in Nat

LEMMA FirstBytes ==
    ASSUME NEW form \in {"unsigned", "signed", "negative", "float", "text",
                         "array", "object", "invalid"},
           NEW width, width \in 0 .. 8 \/ (width = -1 /\ form \in {"text", "array", "object"}),
           NEW small \in Nat
    PROVE  IsHead(FirstByte(form, width, small))
BY DEF IsHead, FirstByte, UntilBreak

LEMMA Constants == \A c : IsHead(Constant(c))
BY DEF IsHead, Constant

LEMMA MsgpackHead ==
    ASSUME NEW b \in Byte
    PROVE  IsHead(MsgpackHeads(b))
<1>1. b \in 0 .. 255
  BY DEF Byte
<1>2. IsHead(Invalid) /\ \A c : IsHead(Constant(c))
  BY FirstBytes, Constants DEF Invalid
<1>3. CASE b <= 127
  BY <1>1, <1>3, FirstBytes DEF MsgpackHeads
<1> QED
  BY <1>1, <1>2, <1>3, FirstBytes, Widths DEF MsgpackHeads

LEMMA CborHead ==
    ASSUME NEW b \in Byte
    PROVE  IsHead(CborHeads(b))
<1>1. b \in 0 .. 255
  BY DEF Byte
<1>2. IsHead(Invalid) /\ \A c : IsHead(Constant(c))
  BY FirstBytes, Constants DEF Invalid
<1> DEFINE low == b % 32
           sized(form) ==
               CASE low <= 23 -> FirstByte(form, 0, low)
                 [] low \in 24 .. 27 -> FirstByte(form, Width(low - 24), 0)
                 [] low = 31 /\ form \in {"text", "array", "object"} ->
                        FirstByte(form, -1, 0)
                 [] OTHER -> Invalid
<1>3. ASSUME NEW form \in {"unsigned", "negative", "text", "array", "object"}
      PROVE  IsHead(sized(form))
  <2>1. low \in 0 .. 31
    BY <1>1
  <2> HIDE DEF low
  <2>2. CASE low <= 23
    <3>1. IsHead(FirstByte(form, 0, low))
      BY <2>1, FirstBytes
    <3> QED
      BY <2>2, <3>1
  <2>3. CASE low \in 24 .. 27
    <3>1. Width(low - 24) \in 0 .. 8
      BY <2>3, Widths
    <3>2. IsHead(FirstByte(form, Width(low - 24), 0))
      BY <3>1, FirstBytes
    <3>3. ~(low <= 23)
      BY <2>3
    <3> QED
      BY <2>3, <3>2, <3>3
  <2>4. CASE low > 27
    <3>1. form \in {"text", "array", "object"} => IsHead(FirstByte(form, -1, 0))
      BY FirstBytes
    <3>2. ~(low <= 23) /\ low \notin 24 .. 27
      BY <2>1, <2>4
    <3> QED
      BY <1>2, <3>1, <3>2
  <2> QED
    BY <2>1, <2>2, <2>3, <2>4
<1> HIDE DEF sized
<1>4. /\ IsHead(sized("unsigned")) /\ IsHead(sized("negative"))
      /\ IsHead(sized("text")) /\ IsHead(sized("array")) /\ IsHead(sized("object"))
  BY <1>3
<1>5. b \in 249 .. 251 => IsHead(FirstByte("float", Width(b - 248), 0))
  <2>1. SUFFICES ASSUME b \in 249 .. 251
                 PROVE  IsHead(FirstByte("float", Width(b - 248), 0))
    OBVIOUS
  <2>2. Width(b - 248) \in 0 .. 8
    BY <2>1, Widths
  <2> QED
    BY <2>2, FirstBytes
<1> QED
  BY <1>2, <1>4, <1>5 DEF CborHeads, sized

LEMMA Heads ==
    ASSUME NEW b \in Byte
    PROVE  IsHead(FirstByteOf(format, b))
BY MsgpackHead, CborHead DEF FirstByteOf

LEMMA Repeated ==
    ASSUME NEW S, NEW x \in S, NEW k \in Nat
    PROVE  [i \in 1 .. k |-> x] \in Seq(S) /\ Len([i \in 1 .. k |-> x]) = k
OBVIOUS

LEMMA Missing == \A n \in 0 .. 8 : 8 - n \in Nat
OBVIOUS

(* The bytes of a size are a size. *)
LEMMA Sizes ==
    ASSUME NEW b \in Seq(Byte), NEW n \in 0 .. 8, n = Len(b)
    PROVE  SizeOf(b) \in Nat
<1> DEFINE z == [i \in 1 .. (8 - n) |-> 0]
<1>1. z \in Seq(Byte) /\ Len(z) = 8 - n
  <2>1. 0 \in Byte
    BY DEF Byte
  <2>2. PICK k \in Nat : k = 8 - n
    BY Missing
  <2> QED
    BY <2>1, <2>2, Repeated
<1>2. Extended(b, 0) = z \o b
  BY DEF Extended
<1> HIDE DEF z
<1>3. PICK c : c = z \o b
  OBVIOUS
<1>4. c \in Seq(Byte) /\ Len(c) = (8 - n) + n
  BY <1>1, <1>3, ConcatProperties
<1>5. \A i \in 1 .. 8 : c[i] \in Byte
  <2>1. PICK l \in Nat : l = Len(c) /\ l = (8 - n) + n
    BY <1>4
  <2>2. \A i \in 1 .. l : c[i] \in Byte
    BY <1>4, <2>1, ElementOfSeq
  <2>3. l = 8
    BY <2>1
  <2> QED
    BY <2>2, <2>3
<1>6. PICK x \in Nat, y \in Nat, w \in Nat : x = c[6] /\ y = c[7] /\ w = c[8]
  <2>1. \A i \in Byte : i \in Nat
    BY DEF Byte
  <2> QED
    BY <1>5, <2>1
<1> DEFINE Total(p, q, r) == p * 65536 + q * 256 + r
<1>7. Total(x, y, w) \in Nat
  OBVIOUS
<1>8. Huge \in Nat
  BY DEF Huge
<1>9. Extended(b, 0)[6] = x /\ Extended(b, 0)[7] = y /\ Extended(b, 0)[8] = w
  BY <1>2, <1>3, <1>6
<1>10. \/ SizeOf(b) = Huge
       \/ SizeOf(b) = Total(Extended(b, 0)[6], Extended(b, 0)[7], Extended(b, 0)[8])
  BY DEF SizeOf
<1> HIDE DEF Total
<1> QED
  BY <1>7, <1>8, <1>9, <1>10, Zenon

LEMMA Slices ==
    ASSUME v \in Seq(Byte), NEW offset \in Nat, NEW len \in Nat
    PROVE  Slice(offset, len) \in Seq(Byte) /\ Len(Slice(offset, len)) = len
<1>1. 0 \in Byte
  BY DEF Byte
<1>2. \A i \in 1 .. len : offset + i <= Len(v) => v[offset + i] \in Byte
  OBVIOUS
<1> QED
  BY <1>1, <1>2 DEF Slice

(* The larger of two numbers. *)
LEMMA MaxOfTwo ==
    ASSUME NEW a \in Int, NEW b \in Int
    PROVE  Max({a, b}) = IF a >= b THEN a ELSE b
<1> DEFINE m == IF a >= b THEN a ELSE b
<1>1. m \in {a, b} /\ \A y \in {a, b} : m >= y
  OBVIOUS
<1>2. \A x \in {a, b} : (\A y \in {a, b} : x >= y) => x = m
  OBVIOUS
<1> HIDE DEF m
<1>3. Max({a, b}) = m
  BY <1>1, <1>2 DEF Max
<1> QED
  BY <1>3 DEF m

-----------------------------------------------------------------------------
(* Lengths. *)

(* The bytes are bytes, and the indices within them. *)
Within ==
    /\ v \in Seq(Byte) /\ idx \in 0 .. Len(v) /\ touched \in 0 .. Len(v)

(* An activation returns, or a loop begins, within the bytes. *)
LEMMA Touching ==
    ASSUME Within, v' = v, NEW next \in 0 .. Len(v), idx' = next, Touches(next)
    PROVE  Within'
<1>1. touched \in 0 .. Len(v)
  BY DEF Within
<1>2. touched' \in 0 .. Len(v)
  BY <1>1, MaxOfTwo DEF Touches
<1> QED
  BY <1>2 DEF Within

LEMMA Staying ==
    ASSUME Within, v' = v, idx' = idx, touched' = touched
    PROVE  Within'
BY DEF Within

(* What is checked is within the bytes. *)
LEMMA Checked ==
    ASSUME Within, NEW len \in Nat, NEW offset \in Nat, CheckLength(len, offset)
    PROVE  offset + len \in 0 .. Len(v)
<1>1. PICK l \in Nat : l = Len(v)
  BY DEF Within
<1>2. len + offset <= l
  BY <1>1 DEF CheckLength
<1> QED
  BY <1>1, <1>2

(* A value begins with a head that is there. *)
LEMMA Beginning ==
    ASSUME Within, NEW forms, Begins(forms)
    PROVE  /\ idx \in Nat /\ idx + 1 \in 0 .. Len(v)
           /\ IsHead(This) /\ This.form \in forms
<1>1. CheckLength(1, idx) /\ This.form \in forms
  BY DEF Begins, This
<1>2. idx \in Nat /\ 1 \in Nat
  BY DEF Within
<1>3. idx + 1 \in 0 .. Len(v)
  BY <1>1, <1>2, Checked
<1>4. v[idx + 1] \in Byte
  <2>1. v \in Seq(Byte) /\ idx + 1 \in 1 .. Len(v)
    BY <1>2, <1>3 DEF Within
  <2> QED
    BY <2>1, ElementOfSeq
<1> QED
  BY <1>1, <1>2, <1>3, <1>4, Heads DEF This

(* A size that follows its head, or is in it. *)
LEMMA Lengths ==
    ASSUME Within, NEW forms \in SUBSET {"text", "array", "object"}, Begins(forms),
           This.width # UntilBreak
    PROVE  This.width \in Nat /\ Length \in Nat
<1>1. idx \in Nat /\ IsHead(This) /\ This.form \in {"text", "array", "object"}
  BY Beginning
<1>2. This.width \in 0 .. 8 /\ This.small \in Nat
  BY <1>1 DEF IsHead
<1>3. PICK n \in 0 .. 8 : n = This.width
  BY <1>2
<1>4. PICK s : s = Slice(idx + 1, n)
  OBVIOUS
<1>5. s \in Seq(Byte) /\ Len(s) = n
  BY <1>1, <1>4, Slices DEF Within
<1>6. SizeOf(s) \in Nat
  BY <1>5, Sizes
<1> QED
  BY <1>2, <1>3, <1>4, <1>6 DEF Length

LEMMA ThrowsWithin ==
    ASSUME Within, v' = v, Throws
    PROVE  Within'
BY Staying DEF Throws

LEMMA ReadNumberWithin ==
    ASSUME Within, v' = v, ReadNumber
    PROVE  Within'
<1>1. /\ idx \in Nat /\ idx + 1 \in 0 .. Len(v) /\ IsHead(This)
      /\ This.form \in {"unsigned", "signed", "negative", "float"}
  BY Beginning DEF ReadNumber
<1>2. PICK w \in Nat : w = This.width
  BY <1>1 DEF IsHead
<1>3. \/ idx' = idx + 1 /\ Touches(idx + 1)
      \/ /\ CheckLength(w, idx + 1)
         /\ idx' = (idx + 1) + w /\ Touches((idx + 1) + w)
      \/ Throws
  BY <1>2 DEF ReadNumber, Returns
<1>4. CASE idx' = idx + 1 /\ Touches(idx + 1)
  BY <1>1, <1>4, Touching
<1>5. CASE CheckLength(w, idx + 1) /\ idx' = (idx + 1) + w /\ Touches((idx + 1) + w)
  <2>1. (idx + 1) + w \in 0 .. Len(v)
    BY <1>1, <1>5, Checked
  <2> QED
    BY <1>5, <2>1, Touching
<1> QED
  BY <1>3, <1>4, <1>5, ThrowsWithin

LEMMA ReadTextWithin ==
    ASSUME Within, v' = v, ReadText
    PROVE  Within'
<1>1. idx \in Nat /\ This.width \in Nat /\ Length \in Nat
  BY Lengths, Beginning DEF ReadText
<1>2. PICK offset \in Nat, n \in Nat : offset = idx + 1 + This.width /\ n = Length
  BY <1>1
<1>3. \/ CheckLength(n, offset) /\ idx' = offset + n /\ Touches(offset + n)
      \/ Throws
  BY <1>2 DEF ReadText, Returns
<1>4. CASE CheckLength(n, offset) /\ idx' = offset + n /\ Touches(offset + n)
  <2>1. offset + n \in 0 .. Len(v)
    BY <1>4, Checked
  <2> QED
    BY <1>4, <2>1, Touching
<1> QED
  BY <1>3, <1>4, ThrowsWithin

LEMMA ReadManyWithin ==
    ASSUME Within, v' = v, ReadMany
    PROVE  Within'
<1>1. /\ idx \in Nat /\ idx + 1 \in 0 .. Len(v)
      /\ This.width # UntilBreak => This.width \in Nat
  BY Lengths, Beginning DEF ReadMany
<1>2. \/ idx' = idx + 1 /\ Touches(idx + 1)
      \/ /\ This.width # UntilBreak /\ CheckLength(This.width, idx + 1)
         /\ idx' = idx + 1 + This.width /\ Touches(idx + 1 + This.width)
      \/ Throws
  BY DEF ReadMany, Loops
<1>3. CASE idx' = idx + 1 /\ Touches(idx + 1)
  BY <1>1, <1>3, Touching
<1>4. CASE /\ This.width # UntilBreak /\ CheckLength(This.width, idx + 1)
           /\ idx' = idx + 1 + This.width /\ Touches(idx + 1 + This.width)
  <2>1. (idx + 1) + This.width \in 0 .. Len(v)
    BY <1>1, <1>4, Checked
  <2> QED
    BY <1>4, <2>1, Touching
<1> QED
  BY <1>2, <1>3, <1>4, ThrowsWithin

LEMMA EndLoopWithin ==
    ASSUME Within, v' = v, EndLoop
    PROVE  Within'
<1> DEFINE next == IF Top.left = 0 THEN idx ELSE idx + 1
<1>1. idx' = next /\ Touches(next) /\ (Top.left # 0 => AtBreak)
  BY DEF EndLoop
<1>2. idx \in Nat /\ idx \in 0 .. Len(v)
  BY DEF Within
<1>3. AtBreak => idx + 1 \in 0 .. Len(v)
  BY <1>2, Checked DEF AtBreak
<1>4. next \in 0 .. Len(v)
  BY <1>1, <1>2, <1>3
<1> HIDE DEF next
<1> QED
  BY <1>1, <1>4, Touching

LEMMA StepWithin == Within /\ [Next]_vars => Within'
<1> SUFFICES ASSUME Within, [Next]_vars
             PROVE  Within'
  OBVIOUS
<1>1. v' = v
  BY DEF Next, vars
<1>2. CASE ReadNothing
  BY <1>1, <1>2, ThrowsWithin DEF ReadNothing
<1>3. CASE ReadConstant
  <2>1. idx + 1 \in 0 .. Len(v) /\ idx' = idx + 1 /\ Touches(idx + 1)
    BY <1>3, Beginning DEF ReadConstant, Returns
  <2> QED
    BY <1>1, <2>1, Touching
<1>4. CASE ReadNumber
  BY <1>1, <1>4, ReadNumberWithin
<1>5. CASE ReadText
  BY <1>1, <1>5, ReadTextWithin
<1>6. CASE ReadMany
  BY <1>1, <1>6, ReadManyWithin
<1>7. CASE EndLoop
  BY <1>1, <1>7, EndLoopWithin
<1>8. CASE Turn
  BY <1>1, <1>8, Staying, ThrowsWithin DEF Turn
<1>9. CASE ReceiveKey
  BY <1>1, <1>9, Staying, ThrowsWithin DEF ReceiveKey
<1>10. CASE ReceiveValue
  BY <1>1, <1>10, Staying, ThrowsWithin DEF ReceiveValue
<1>11. CASE Finish
  BY <1>1, <1>11, Staying DEF Finish
<1>12. CASE UNCHANGED vars
  BY <1>12 DEF vars, Within
<1> QED
  BY <1>2, <1>3, <1>4, <1>5, <1>6, <1>7, <1>8, <1>9, <1>10, <1>11, <1>12 DEF Next

LEMMA InitWithin == Init => Within
<1> SUFFICES ASSUME Init
             PROVE  Within
  OBVIOUS
<1>1. v \in Seq(Byte) /\ idx = 0 /\ touched = 0
  BY InputRange DEF Init
<1>2. 0 \in 0 .. Len(v)
  BY <1>1
<1> QED
  BY <1>1, <1>2 DEF Within

(***************************************************************************)
(* Whatever bytes from_msgpack or from_cbor is given, complete, cut short  *)
(* or none that were ever written, each byte, number, size and text it     *)
(* takes is within the vector: check_length comes before every access.     *)
(***************************************************************************)
THEOREM ReadsInVectorHolds == Spec => []ReadsInVector
<1>1. Within => ReadsInVector
  BY DEF Within, ReadsInVector
<1> QED
  BY <1>1, InitWithin, StepWithin, PTL DEF Spec

-----------------------------------------------------------------------------
(* Loops. *)

LEMMA OwnRange ==
    ASSUME NEW S, NEW s \in Seq(S)
    PROVE  s \in Seq(Range(s))
<1>1. PICK n \in Nat : n = Len(s) /\ DOMAIN s = 1 .. n
  BY LenProperties
<1>2. s = [i \in 1 .. n |-> s[i]] /\ \A i \in 1 .. n : s[i] \in Range(s)
  BY <1>1 DEF Range
<1> HIDE DEF Range
<1> QED
  BY <1>1, <1>2

(* One more loop, within one that waits. *)
LEMMA Push ==
    ASSUME NEW s, Nested(s), s # <<>> => Last(s).at # "loop", NEW f, Loop(f)
    PROVE  Nested(Append(s, f))
<1>1. s \in Seq(Range(s) \cup {f})
  BY DEF Nested
<1>2. PICK n \in Nat : n = Len(s)
  BY <1>1
<1>3. PICK u : u = Append(s, f)
  OBVIOUS
<1>4. /\ u \in Seq(Range(s) \cup {f}) /\ Len(u) = n + 1
      /\ \A i \in 1 .. n : u[i] = s[i]
      /\ u[n + 1] = f
  BY <1>1, <1>2, <1>3, AppendProperties
<1>5. u \in Seq(Range(u))
  BY <1>4, OwnRange
<1>6. \A i \in 1 .. n + 1 : Loop(u[i])
  <2>1. \A i \in 1 .. n + 1 : i \in 1 .. n \/ i = n + 1
    OBVIOUS
  <2>2. \A i \in 1 .. n : Loop(s[i])
    BY <1>2 DEF Nested
  <2> QED
    BY <1>4, <2>1, <2>2
<1>7. \A i \in 1 .. n : u[i].at # "loop"
  <2>1. n > 0 => s[n].at # "loop"
    <3>1. SUFFICES ASSUME n > 0
                   PROVE  s[n].at # "loop"
      OBVIOUS
    <3>2. s # <<>>
      BY <1>2, <3>1
    <3> QED
      BY <1>2, <3>2 DEF Last
  <2>2. \A i \in 1 .. n - 1 : s[i].at # "loop"
    BY <1>2 DEF Nested
  <2>3. \A i \in 1 .. n : i \in 1 .. n - 1 \/ (i = n /\ n > 0)
    OBVIOUS
  <2> QED
    BY <1>4, <2>1, <2>2, <2>3
<1>8. (n + 1) - 1 = n
  OBVIOUS
<1> QED
  BY <1>3, <1>4, <1>5, <1>6, <1>7, <1>8 DEF Nested

(* Without the innermost loop, the others wait. *)
LEMMA Pop ==
    ASSUME NEW s, Nested(s), s # <<>>
    PROVE  /\ Loop(Last(s)) /\ Nested(Front(s))
           /\ Front(s) # <<>> => Last(Front(s)).at # "loop"
<1>1. s \in Seq(Range(s))
  BY DEF Nested
<1>2. PICK n \in Nat : n = Len(s) /\ n > 0
  BY <1>1, EmptySeq
<1>3. PICK m \in Nat : m = n - 1
  BY <1>2
<1>4. PICK u : u = Front(s)
  OBVIOUS
<1>5. \A i \in 1 .. m : s[i] \in Range(s)
  BY <1>1, <1>2, <1>3, ElementOfSeq
<1>6. u \in Seq(Range(s)) /\ Len(u) = m /\ \A i \in 1 .. m : u[i] = s[i]
  <2>1. u = SubSeq(s, 1, m)
    BY <1>2, <1>3, <1>4 DEF Front
  <2> QED
    BY <1>1, <1>5, <2>1, SubSeqProperties
<1>7. u \in Seq(Range(u))
  BY <1>6, OwnRange
<1>8. \A i \in 1 .. m : Loop(u[i]) /\ u[i].at # "loop"
  <2>1. \A i \in 1 .. n : Loop(s[i])
    BY <1>2 DEF Nested
  <2>2. \A i \in 1 .. n - 1 : s[i].at # "loop"
    BY <1>2 DEF Nested
  <2> QED
    BY <1>2, <1>3, <1>6, <2>1, <2>2
<1>9. Loop(Last(s))
  BY <1>2 DEF Nested, Last
<1>10. Nested(u)
  <2>1. \A i \in 1 .. m - 1 : i \in 1 .. m
    OBVIOUS
  <2> QED
    BY <1>6, <1>7, <1>8, <2>1 DEF Nested
<1>11. u # <<>> => Last(u).at # "loop"
  <2>1. SUFFICES ASSUME u # <<>>
                 PROVE  Last(u).at # "loop"
    OBVIOUS
  <2>2. m \in 1 .. m
    BY <1>6, <2>1, EmptySeq
  <2> QED
    BY <1>6, <1>8, <2>2 DEF Last
<1> QED
  BY <1>4, <1>9, <1>10, <1>11

LEMMA Begun ==
    ASSUME Within, NEW forms \in SUBSET {"text", "array", "object"}, Begins(forms),
           Nested(frames),
           NEW left, left \in Nat \/ left = UntilBreak, NEW next, Loops(This.form, left, next)
    PROVE  Nested(frames')
<1> DEFINE start == CASE This.form = "array" -> ArrayOf(<<>>)
                      [] This.form = "object" -> ObjectOf(<<>>)
                      [] This.form = "text" -> StringOf(<<>>)
           f == [kind |-> This.form, at |-> "loop", value |-> start,
                 left |-> left, key |-> <<>>]
<1>1. frames' = Append(frames, f)
  BY DEF Loops
<1>2. This.form \in {"text", "array", "object"}
  BY Beginning
<1> HIDE DEF start
<1>3. Loop(f)
  BY <1>2 DEF Loop
<1>4. frames # <<>> => Last(frames).at # "loop"
  BY DEF Begins, Wanted, Top
<1> QED
  BY <1>1, <1>3, <1>4, Push

(* The innermost loop goes on. *)
LEMMA GoesOn ==
    ASSUME Nested(frames), frames # <<>>, NEW f, Loop(f),
           frames' = Append(Below, f)
    PROVE  Nested(frames')
BY Pop, Push DEF Below

LEMMA ReadManyNested ==
    ASSUME TypeOK, Within, ReadMany
    PROVE  Nested(frames')
<1>1. Nested(frames)
  BY DEF TypeOK
<1>2. PICK forms \in SUBSET {"text", "array", "object"} : Begins(forms)
  BY DEF ReadMany
<1>3. \/ Loops(This.form, UntilBreak, idx + 1)
      \/ /\ This.width # UntilBreak
         /\ Loops(This.form, Length, idx + 1 + This.width)
      \/ frames' = frames
  BY DEF ReadMany, Throws
<1>4. This.width # UntilBreak => Length \in Nat
  BY <1>2, Lengths
<1> QED
  BY <1>1, <1>2, <1>3, <1>4, Begun

LEMMA TurnNested ==
    ASSUME TypeOK, Turn
    PROVE  Nested(frames')
<1>1. /\ Nested(frames) /\ frames # <<>> /\ Top.left # 0
      /\ Loop(Top)
  BY Pop DEF TypeOK, Turn, Looping, Top
<1> DEFINE f == [Top EXCEPT !.at = IF Top.kind = "object" THEN "key" ELSE "value"]
<1>2. frames' = frames \/ frames' = Append(Below, f)
  BY DEF Turn, Throws
<1>3. Loop(f)
  BY <1>1 DEF Loop
<1> QED
  BY <1>1, <1>2, <1>3, GoesOn

LEMMA ReceiveKeyNested ==
    ASSUME TypeOK, ReceiveKey
    PROVE  Nested(frames')
<1>1. /\ Nested(frames) /\ frames # <<>> /\ Top.at = "key"
      /\ Loop(Top)
  BY Pop DEF TypeOK, ReceiveKey, Received, Top
<1> DEFINE f == [Top EXCEPT !.key = returned.text, !.at = "value"]
<1>2. frames' = frames \/ frames' = Append(Below, f)
  BY DEF ReceiveKey, Throws
<1>3. Loop(f)
  BY <1>1 DEF Loop
<1> QED
  BY <1>1, <1>2, <1>3, GoesOn

LEMMA ReceiveValueNested ==
    ASSUME TypeOK, ReceiveValue
    PROVE  Nested(frames')
<1>1. /\ Nested(frames) /\ frames # <<>> /\ Top.at = "value"
      /\ Loop(Top)
  BY Pop DEF TypeOK, ReceiveValue, Received, Top
<1> DEFINE f == [Top EXCEPT !.value = Grown, !.left = Fewer, !.at = "loop"]
<1>2. frames' = frames \/ frames' = Append(Below, f)
  BY DEF ReceiveValue, Throws
<1>3. Fewer \in Nat \cup {UntilBreak}
  BY <1>1 DEF Loop, Fewer, UntilBreak
<1>4. Loop(f)
  BY <1>1, <1>3 DEF Loop
<1> QED
  BY <1>1, <1>2, <1>4, GoesOn

(* What ends is over, and nothing follows it. *)
LEMMA StepEnds ==
    ASSUME TypeOK, Next
    PROVE  /\ outcome = "reading" /\ outcome' \in {"reading", "read", "thrown"}
           /\ outcome' = "read" => frames' = <<>> /\ returned' # Nothing
BY DEF Next, ReadNothing, ReadConstant, ReadNumber, ReadText, ReadMany, EndLoop,
       Turn, ReceiveKey, ReceiveValue, Finish, Begins, Wanted, Looping, Received,
       Throws, Returns, Loops

LEMMA StepNested ==
    ASSUME TypeOK, Within, Next
    PROVE  Nested(frames')
<1>1. Nested(frames)
  BY DEF TypeOK
<1>2. CASE ReadMany
  BY <1>2, ReadManyNested
<1>3. CASE EndLoop
  BY <1>1, <1>3, Pop DEF EndLoop, Looping, Below
<1>4. CASE Turn
  BY <1>4, TurnNested
<1>5. CASE ReceiveKey
  BY <1>5, ReceiveKeyNested
<1>6. CASE ReceiveValue
  BY <1>6, ReceiveValueNested
<1>7. CASE ReadNothing \/ ReadConstant \/ ReadNumber \/ ReadText \/ Finish
  <2>1. frames' = frames
    BY <1>7 DEF ReadNothing, ReadConstant, ReadNumber, ReadText, Finish,
                Returns, Throws
  <2> QED
    BY <1>1, <2>1
<1> QED
  BY <1>2, <1>3, <1>4, <1>5, <1>6, <1>7 DEF Next

(***************************************************************************)
(* Whatever the bytes are, the loops of from_msgpack and from_cbor are     *)
(* nested: only the innermost asks for its next value, a loop over a       *)
(* number of values never counts below zero, and the value that is         *)
(* returned in the end leaves no loop behind.                              *)
(***************************************************************************)
THEOREM TypeCorrect == Spec => []TypeOK
<1>1. Init => TypeOK
  <2> SUFFICES ASSUME Init
               PROVE  TypeOK
    OBVIOUS
  <2>1. Within /\ format \in Formats /\ outcome = "reading" /\ frames = <<>>
    BY InitWithin, InputRange DEF Init
  <2>2. Nested(<<>>)
    BY DEF Nested
  <2> QED
    BY <2>1, <2>2 DEF TypeOK, Within
<1>2. TypeOK /\ [Next]_vars => TypeOK'
  <2> SUFFICES ASSUME TypeOK, [Next]_vars
               PROVE  TypeOK'
    OBVIOUS
  <2>1. Within
    BY DEF TypeOK, Within
  <2>2. Within' /\ format' = format
    BY <2>1, StepWithin DEF Next, vars
  <2>3. CASE Next
    BY <2>1, <2>2, <2>3, StepNested, StepEnds DEF TypeOK, Within
  <2>4. CASE UNCHANGED vars
    BY <2>4 DEF vars, TypeOK
  <2> QED
    BY <2>3, <2>4
<1> QED
  BY <1>1, <1>2, PTL DEF Spec
=============================================================================
