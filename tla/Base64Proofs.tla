----------------------------- MODULE Base64Proofs -----------------------------
(***************************************************************************)
(* Proofs about Base64, for every width, buffer and text: what             *)
(* base64_encode makes of a buffer is decoded to that buffer, and any text *)
(* is decoded to the bytes its leading digits stand for.                   *)
(***************************************************************************)
EXTENDS Base64, SequenceTheorems, TLAPS

-----------------------------------------------------------------------------
(* Quotients and remainders. *)

(* Products keep the order. *)
LEMMA Mono ==
    ASSUME NEW a \in Int, NEW b \in Int, NEW m \in Nat, a <= b
    PROVE  a * m <= b * m
BY SMT

(* A quotient and its remainder. *)
LEMMA DivMod ==
    ASSUME NEW x \in Nat, NEW m \in Nat, m > 0
    PROVE  /\ x \div m \in Nat /\ x % m \in 0 .. m - 1
           /\ x = (x \div m) * m + (x % m)
           /\ \A a \in Nat : x < a * m => x \div m < a
<1>1. x \div m \in Int /\ x % m \in 0 .. m - 1 /\ x = (x \div m) * m + (x % m)
  OBVIOUS
<1>2. x \div m >= 0
  <2>1. SUFFICES ASSUME x \div m <= -1 PROVE FALSE
    BY <1>1
  <2>2. (x \div m) * m <= (-1) * m
    BY <1>1, <2>1, Mono
  <2> QED
    BY <1>1, <2>2
<1>3. ASSUME NEW a \in Nat, x < a * m
      PROVE  x \div m < a
  <2>1. SUFFICES ASSUME a <= x \div m PROVE FALSE
    BY <1>1
  <2>2. a * m <= (x \div m) * m
    BY <1>1, <2>1, Mono
  <2> QED
    BY <1>1, <1>3, <2>2
<1> QED
  BY <1>1, <1>2, <1>3

(* They are the only ones. *)
LEMMA Unique ==
    ASSUME NEW a \in Nat, NEW m \in Nat, NEW b \in 0 .. m - 1
    PROVE  (a * m + b) \div m = a /\ (a * m + b) % m = b
<1> DEFINE x == a * m + b
           q == x \div m
           r == x % m
<1>1. x \in Nat /\ m > 0
  OBVIOUS
<1>2. x = q * m + r /\ r \in 0 .. m - 1 /\ q \in Nat
  BY <1>1, DivMod
<1> HIDE DEF q, r
<1>3. ASSUME a + 1 <= q PROVE FALSE
  <2>1. (a + 1) * m <= q * m
    BY <1>2, <1>3, Mono
  <2> QED
    BY <1>2, <2>1
<1>4. ASSUME q + 1 <= a PROVE FALSE
  <2>1. (q + 1) * m <= a * m
    BY <1>2, <1>4, Mono
  <2> QED
    BY <1>2, <2>1
<1>5. q = a
  BY <1>2, <1>3, <1>4
<1> QED
  BY <1>2, <1>5 DEF q, r

(* A pair of digits is below the product of their bounds. *)
LEMMA Below ==
    ASSUME NEW n \in Nat, NEW m \in Nat, NEW a \in 0 .. n - 1, NEW b \in 0 .. m - 1
    PROVE  a * m + b \in 0 .. n * m - 1
<1>1. (a + 1) * m <= n * m
  BY Mono
<1>2. 0 * m <= a * m
  BY Mono
<1> QED
  BY <1>1, <1>2

(* A number below m is its own remainder. *)
LEMMA Small ==
    ASSUME NEW m \in Nat, NEW b \in 0 .. m - 1
    PROVE  b % m = b
<1>1. (0 * m + b) % m = b
  BY Unique
<1> QED
  BY <1>1

(* The sizes. *)
LEMMA Sizes ==
    /\ Quarter \in Nat /\ Quarter > 1 /\ Half \in Nat /\ Half > Quarter
    /\ Half * Quarter \in Nat /\ Half * Half \in Nat
    /\ Half * Half > Half * Quarter /\ Half * Quarter > Half
    /\ Quarter * Half = Half * Quarter
    /\ Quarter * (Half * Quarter) = Half * Half
<1>1. Quarter \in Nat /\ Quarter > 1 /\ Half = Quarter * Quarter
  BY QuarterRange DEF Half
<1>2. Half \in Nat /\ Half > Quarter
  BY <1>1
<1>3. Half * Quarter \in Nat /\ Half * Half \in Nat
  BY <1>1, <1>2
<1>4. 2 * Half <= Quarter * Half
  BY <1>1, <1>2, Mono
<1>5. (Quarter + 1) * Half <= Half * Half
  BY <1>1, <1>2, Mono
<1>6. Quarter * (Half * Quarter) = Half * Half
  BY <1>1
<1> QED
  BY <1>1, <1>2, <1>3, <1>4, <1>5, <1>6

-----------------------------------------------------------------------------
(* Three bytes and four digits. *)

(* Digits are bytes, and characters; so is what fills a group. *)
LEMMA Kinds ==
    /\ Digit \subseteq Byte /\ Digit \subseteq Char
    /\ 0 \in Byte /\ NotFound \in Byte /\ Pad \in Char
    /\ Byte \subseteq Nat
<1>1. /\ \A i \in Digit : i \in Byte
      /\ 0 \in Byte /\ NotFound \in Byte /\ \A i \in Byte : i \in Nat
  BY Sizes DEF Byte, Digit, NotFound
<1> QED
  BY <1>1 DEF Char

(* Split takes three bytes to four digits. *)
LEMMA SplitDigits ==
    ASSUME NEW x \in Byte, NEW y \in Byte, NEW z \in Byte
    PROVE  /\ Split(<<x, y, z>>)
                = << x \div Quarter,
                     (x % Quarter) * Half + (y \div Half),
                     (y % Half) * Quarter + (z \div (Half * Quarter)),
                     z % (Half * Quarter) >>
           /\ \A i \in 1 .. 4 : Split(<<x, y, z>>)[i] \in Digit
           /\ Split(<<x, y, z>>) \in Seq(Digit)
           /\ Len(Split(<<x, y, z>>)) = 4
<1>1. /\ x \in Nat /\ y \in Nat /\ z \in Nat
      /\ x < Half * Half /\ y < Half * Half /\ z < Half * Half
  BY Sizes DEF Byte
<1> DEFINE s == Split(<<x, y, z>>)
<1>2. s = << x \div Quarter,
             (x % Quarter) * Half + (y \div Half),
             (y % Half) * Quarter + (z \div (Half * Quarter)),
             z % (Half * Quarter) >>
  BY DEF Split
<1>3. x \div Quarter \in Digit
  <2>1. x < (Half * Quarter) * Quarter
    BY <1>1, Sizes DEF Half
  <2> QED
    BY <1>1, <2>1, Sizes, DivMod DEF Digit
<1>4. (x % Quarter) * Half + (y \div Half) \in Digit
  <2>1. x % Quarter \in 0 .. Quarter - 1 /\ y \div Half \in 0 .. Half - 1
    BY <1>1, Sizes, DivMod
  <2> QED
    BY <2>1, Sizes, Below DEF Digit
<1>5. (y % Half) * Quarter + (z \div (Half * Quarter)) \in Digit
  <2>1. y % Half \in 0 .. Half - 1
    BY <1>1, Sizes, DivMod
  <2>2. z \div (Half * Quarter) \in 0 .. Quarter - 1
    BY <1>1, Sizes, DivMod
  <2> QED
    BY <2>1, <2>2, Sizes, Below DEF Digit
<1>6. z % (Half * Quarter) \in Digit
  BY <1>1, Sizes, DivMod DEF Digit
<1>7. s[1] \in Digit /\ s[2] \in Digit /\ s[3] \in Digit /\ s[4] \in Digit
  BY <1>2, <1>3, <1>4, <1>5, <1>6
<1>8. s \in Seq(Digit) /\ Len(s) = 4
  <2>1. s = <<s[1], s[2], s[3], s[4]>>
    BY <1>2
  <2>2. \A a, b, e, f \in Digit : <<a, b, e, f>> \in Seq(Digit)
    OBVIOUS
  <2>3. s \in Seq(Digit)
    <3> HIDE DEF s
    <3> QED
      BY <1>7, <2>1, <2>2
  <2> QED
    BY <1>2, <2>3
<1> QED
  BY <1>2, <1>7, <1>8

(* Join takes four units to three bytes. *)
LEMMA JoinBytes ==
    ASSUME NEW d, \A i \in 1 .. 4 : d[i] \in Nat
    PROVE  /\ Join(d)[1] = AsByte(d[1] * Quarter + ((d[2] \div Half) % Quarter))
           /\ Join(d)[2] = AsByte((d[2] % Half) * Half
                                    + ((d[3] \div Quarter) % Half))
           /\ Join(d)[3] = AsByte((d[3] % Quarter) * (Half * Quarter) + d[4])
           /\ \A i \in 1 .. 3 : Join(d)[i] \in Byte
           /\ Join(d) \in Seq(Byte)
           /\ Len(Join(d)) = 3
<1>1. d[1] \in Nat /\ d[2] \in Nat /\ d[3] \in Nat /\ d[4] \in Nat
  OBVIOUS
<1>2. \A n \in Nat : AsByte(n) \in Byte
  BY Sizes, DivMod DEF AsByte, Byte
<1>3. \A i, j \in Nat : i * j \in Nat
  OBVIOUS
<1>4. AsByte(d[1] * Quarter + ((d[2] \div Half) % Quarter)) \in Byte
  <2>1. (d[2] \div Half) % Quarter \in Nat
    BY <1>1, Sizes, DivMod
  <2>2. d[1] * Quarter \in Nat
    BY <1>1, <1>3, Sizes
  <2> QED
    BY <1>2, <2>1, <2>2
<1>5. AsByte((d[2] % Half) * Half + ((d[3] \div Quarter) % Half)) \in Byte
  <2>1. (d[3] \div Quarter) % Half \in Nat /\ d[2] % Half \in Nat
    BY <1>1, Sizes, DivMod
  <2>2. (d[2] % Half) * Half \in Nat
    BY <1>3, <2>1, Sizes
  <2> QED
    BY <1>2, <2>1, <2>2
<1>6. AsByte((d[3] % Quarter) * (Half * Quarter) + d[4]) \in Byte
  <2>1. d[3] % Quarter \in Nat
    BY <1>1, Sizes, DivMod
  <2>2. (d[3] % Quarter) * (Half * Quarter) \in Nat
    BY <1>3, <2>1, Sizes
  <2> QED
    BY <1>1, <1>2, <2>2
<1>7. \A a, b, e \in Byte : <<a, b, e>> \in Seq(Byte)
  OBVIOUS
<1> QED
  BY <1>4, <1>5, <1>6, <1>7 DEF Join

(* The first digits of three bytes determine the first bytes. *)
LEMMA JoinSplit ==
    ASSUME NEW x \in Byte, NEW y \in Byte, NEW z \in Byte,
           NEW d, \A i \in 1 .. 4 : d[i] \in Nat,
           d[1] = Split(<<x, y, z>>)[1], d[2] = Split(<<x, y, z>>)[2]
    PROVE  /\ Join(d)[1] = x
           /\ d[3] = Split(<<x, y, z>>)[3] =>
                  /\ Join(d)[2] = y
                  /\ d[4] = Split(<<x, y, z>>)[4] => Join(d)[3] = z
<1>1. /\ x \in Nat /\ y \in Nat /\ z \in Nat
      /\ x < Half * Half /\ y < Half * Half /\ z < Half * Half
  BY Sizes DEF Byte
<1>2. \A n \in Byte : AsByte(n) = n
  BY Sizes, Small DEF AsByte, Byte
<1>3. /\ x % Quarter \in 0 .. Quarter - 1 /\ y \div Half \in 0 .. Half - 1
      /\ y % Half \in 0 .. Half - 1 /\ z \div (Half * Quarter) \in 0 .. Quarter - 1
      /\ x \div Quarter \in Nat
  BY <1>1, Sizes, DivMod
<1>4. /\ x = (x \div Quarter) * Quarter + (x % Quarter)
      /\ y = (y \div Half) * Half + (y % Half)
      /\ z = (z \div (Half * Quarter)) * (Half * Quarter) + (z % (Half * Quarter))
  <2>1. x = (x \div Quarter) * Quarter + (x % Quarter)
    BY <1>1, Sizes, DivMod
  <2>2. y = (y \div Half) * Half + (y % Half)
    BY <1>1, Sizes, DivMod
  <2>3. z = (z \div (Half * Quarter)) * (Half * Quarter) + (z % (Half * Quarter))
    <3>1. PICK m \in Nat : m = Half * Quarter /\ m > 0
      BY Sizes
    <3>2. z = (z \div m) * m + (z % m)
      BY <1>1, <3>1, DivMod
    <3> QED
      BY <3>1, <3>2
  <2> QED
    BY <2>1, <2>2, <2>3
<1>5. /\ d[1] = x \div Quarter
      /\ d[2] = (x % Quarter) * Half + (y \div Half)
      /\ Split(<<x, y, z>>)[3] = (y % Half) * Quarter + (z \div (Half * Quarter))
      /\ Split(<<x, y, z>>)[4] = z % (Half * Quarter)
  BY DEF Split
<1>6. d[2] \div Half = x % Quarter /\ d[2] % Half = y \div Half
  <2>1. PICK a \in Nat, b \in 0 .. Half - 1 : a = x % Quarter /\ b = y \div Half
    BY <1>3
  <2>2. (a * Half + b) \div Half = a /\ (a * Half + b) % Half = b
    BY Sizes, Unique
  <2> QED
    BY <1>5, <2>1, <2>2
<1>7. Join(d)[1] = x
  <2>1. (d[2] \div Half) % Quarter = x % Quarter
    BY <1>3, <1>6, Sizes, Small
  <2>2. Join(d)[1] = AsByte(x)
    BY <1>4, <1>5, <2>1, JoinBytes
  <2> QED
    BY <1>2, <2>2
<1>8. ASSUME d[3] = Split(<<x, y, z>>)[3]
      PROVE  Join(d)[2] = y /\ (d[4] = Split(<<x, y, z>>)[4] => Join(d)[3] = z)
  <2>1. d[3] \div Quarter = y % Half /\ d[3] % Quarter = z \div (Half * Quarter)
    <3>1. PICK a \in Nat, b \in 0 .. Quarter - 1 :
              a = y % Half /\ b = z \div (Half * Quarter)
      BY <1>3
    <3>2. (a * Quarter + b) \div Quarter = a /\ (a * Quarter + b) % Quarter = b
      BY Sizes, Unique
    <3> QED
      BY <1>5, <1>8, <3>1, <3>2
  <2>2. (d[3] \div Quarter) % Half = y % Half
    BY <1>3, <2>1, Sizes, Small
  <2>3. Join(d)[2] = AsByte(y)
    BY <1>4, <1>6, <2>2, JoinBytes
  <2>4. d[4] = Split(<<x, y, z>>)[4] => Join(d)[3] = AsByte(z)
    BY <1>4, <1>5, <2>1, JoinBytes
  <2> QED
    BY <1>2, <2>3, <2>4
<1> QED
  BY <1>7, <1>8

-----------------------------------------------------------------------------
(* What a step does, in terms of positions. *)

TypeInv == TypeOK /\ (pc = "encode" => Len(group) <= 2)

(* A sequence over a set is one over a larger set. *)
LEMMA Wider ==
    ASSUME NEW S, NEW T, S \subseteq T, NEW s \in Seq(S)
    PROVE  s \in Seq(T)
OBVIOUS

(* u is the m elements of s and then the l elements of t. *)
IsConcat(S, u, s, m, t, l) ==
    /\ u \in Seq(S) /\ Len(u) = m + l
    /\ \A i \in 1 .. m : u[i] = s[i]
    /\ \A i \in 1 .. l : u[m + i] = t[i]

(* The elements of two sequences, one after the other. *)
LEMMA Joined ==
    ASSUME NEW S, NEW s \in Seq(S), NEW t \in Seq(S),
           NEW k, k = Len(s), NEW l, l = Len(t)
    PROVE  IsConcat(S, s \o t, s, k, t, l)
<1>1. /\ s \o t \in Seq(S) /\ Len(s \o t) = k + l
      /\ \A i \in 1 .. k + l : (s \o t)[i] =
             IF i <= k THEN s[i] ELSE t[i - k]
  BY ConcatProperties
<1>2. k \in Nat /\ l \in Nat
  OBVIOUS
<1>3. ASSUME NEW i \in 1 .. l
      PROVE  (s \o t)[k + i] = t[i]
  <2>1. k + i \in 1 .. k + l /\ ~(k + i <= k) /\ (k + i) - k = i
    BY <1>2
  <2> QED
    BY <1>1, <2>1
<1> QED
  BY <1>1, <1>2, <1>3 DEF IsConcat

(* The variables of TypeInv one by one; their lengths have names. *)
LEMMA Types ==
    ASSUME TypeInv
    PROVE  /\ buf \in Seq(Byte) /\ text \in Seq(Char) /\ ret \in Seq(Byte)
           /\ at \in Nat
           /\ group \in Seq(Byte)
           /\ pc # "encode" => group \in Seq(Digit)
           /\ \E n \in Nat : n = Len(group) /\ n <= 3
                             /\ (pc = "encode" => n <= 2)
           /\ \E m \in Nat : m = Len(text)
           /\ \E r \in Nat : r = Len(ret)
           /\ \E l \in Nat : l = Len(buf)
<1>1. /\ buf \in Seq(Byte) /\ text \in Seq(Char) /\ ret \in Seq(Byte)
      /\ at \in Nat /\ Len(group) <= 3
      /\ pc = "encode" => group \in Seq(Byte) /\ Len(group) <= 2
      /\ pc # "encode" => group \in Seq(Digit)
  BY DEF TypeInv, TypeOK
<1>2. group \in Seq(Byte)
  BY <1>1, Kinds, Wider
<1> QED
  BY <1>1, <1>2

(* An element of a sequence. *)
LEMMA Element ==
    ASSUME NEW S, NEW s \in Seq(S), NEW n \in Nat, n = Len(s), NEW i \in 1 .. n
    PROVE  s[i] \in S
OBVIOUS

(* Three bytes are four characters. *)
LEMMA SplitChars ==
    ASSUME NEW x \in Byte, NEW y \in Byte, NEW z \in Byte
    PROVE  /\ Split(<<x, y, z>>) \in Seq(Char) /\ Len(Split(<<x, y, z>>)) = 4
           /\ \A i \in 1 .. 4 : Split(<<x, y, z>>)[i] \in Digit
BY SplitDigits, Kinds, Wider

(* A byte is one more of its group. *)
ByteCollected(n) ==
    /\ n < 2 /\ text' = text
    /\ group' \in Seq(Byte) /\ Len(group') = n + 1
    /\ \A i \in 1 .. n : group'[i] = group[i]
    /\ group'[n + 1] = buf[at + 1]

(* A byte completes its group, which is four more digits. *)
FourDigits(n, m) ==
    /\ n >= 2 /\ group' = <<>>
    /\ group[1] \in Byte /\ group[2] \in Byte
    /\ IsConcat(Char, text', text, m,
                Split(<<group[1], group[2], buf[at + 1]>>), 4)

LEMMA EncodeByteEffect ==
    ASSUME TypeInv, EncodeByte,
           NEW n \in Nat, n = Len(group), NEW m \in Nat, m = Len(text)
    PROVE  /\ pc = "encode" /\ at < Len(buf) /\ at' = at + 1
           /\ buf' = buf /\ encoded' = encoded /\ ret' = ret /\ pc' = pc
           /\ buf[at + 1] \in Byte /\ n <= 2
           /\ ByteCollected(n) \/ FourDigits(n, m)
<1> DEFINE bytes == Append(group, buf[at + 1])
<1>1. /\ pc = "encode" /\ at < Len(buf) /\ at' = at + 1
      /\ buf' = buf /\ encoded' = encoded /\ ret' = ret /\ pc' = pc
      /\ IF Len(bytes) = 3
         THEN text' = text \o Split(bytes) /\ group' = <<>>
         ELSE group' = bytes /\ text' = text
  BY DEF EncodeByte
<1>2. /\ buf \in Seq(Byte) /\ text \in Seq(Char) /\ group \in Seq(Byte)
      /\ at \in Nat /\ n <= 2
  BY <1>1, Types
<1>3. buf[at + 1] \in Byte
  BY <1>1, <1>2
<1>4. /\ bytes \in Seq(Byte) /\ Len(bytes) = n + 1
      /\ \A i \in 1 .. n : bytes[i] = group[i]
      /\ bytes[n + 1] = buf[at + 1]
  BY <1>2, <1>3
<1> HIDE DEF bytes
<1>5. CASE n < 2
  <2>1. Len(bytes) # 3
    BY <1>4, <1>5
  <2>2. text' = text /\ group' = bytes
    BY <1>1, <2>1
  <2> QED
    BY <1>1, <1>2, <1>3, <1>4, <1>5, <2>2 DEF ByteCollected
<1>6. CASE n >= 2
  <2>1. n + 1 = 3 /\ 1 \in 1 .. n /\ 2 \in 1 .. n
    BY <1>2, <1>6
  <2>2. group[1] \in Byte /\ group[2] \in Byte
    BY <1>2, <2>1, Element
  <2>3. Len(bytes) = 3
    BY <1>4, <2>1, Zenon
  <2>4. bytes[1] = group[1] /\ bytes[2] = group[2] /\ bytes[3] = buf[at + 1]
    BY <1>4, <2>1, Zenon
  <2> DEFINE s == Split(<<group[1], group[2], buf[at + 1]>>)
  <2>5. text' = text \o s /\ group' = <<>>
    BY <1>1, <2>3, <2>4 DEF Split
  <2>6. s \in Seq(Char) /\ Len(s) = 4
    BY <1>3, <2>2, SplitChars
  <2>7. IsConcat(Char, text', text, m, s, 4)
    <3> HIDE DEF s
    <3> QED
      BY <1>2, <2>5, <2>6, Joined
  <2> QED
    BY <1>1, <1>2, <1>3, <1>6, <2>2, <2>5, <2>7 DEF FourDigits
<1> QED
  BY <1>2, <1>5, <1>6

(* The first elements of a sequence. *)
LEMMA Front ==
    ASSUME NEW S, NEW s \in Seq(S), NEW l \in Nat, l = Len(s), NEW k \in 0 .. l
    PROVE  /\ SubSeq(s, 1, k) \in Seq(S) /\ Len(SubSeq(s, 1, k)) = k
           /\ \A i \in 1 .. k : SubSeq(s, 1, k)[i] = s[i]
<1>1. \A i \in 1 .. k : s[i] \in S
  OBVIOUS
<1> QED
  BY <1>1, SubSeqProperties

(* The first digits of three bytes, padded. *)
LEMMA PaddedDigits ==
    ASSUME NEW s, \A i \in 1 .. 4 : s[i] \in Char, NEW k \in 1 .. 3
    PROVE  LET f == Filled(SubSeq(s, 1, k), 4, Pad)
           IN  /\ f \in Seq(Char) /\ Len(f) = 4
               /\ \A i \in 1 .. k : f[i] = s[i]
               /\ f[k + 1] = Pad
<1> DEFINE sub == SubSeq(s, 1, k)
<1>1. Len(sub) = k /\ \A i \in 1 .. k : sub[i] = s[i] /\ s[i] \in Char
  <2>3. \A i \in 1 .. k : s[i] \in Char
    OBVIOUS
  <2>4. /\ Len(sub) = (IF 1 <= k THEN (k - 1) + 1 ELSE 0)
        /\ \A i \in 1 .. (k - 1) + 1 : sub[i] = s[(1 + i) - 1]
    BY <2>3, SubSeqProperties
  <2>5. (k - 1) + 1 = k /\ 1 <= k /\ \A i \in 1 .. k : (1 + i) - 1 = i
    OBVIOUS
  <2> HIDE DEF sub
  <2> QED
    BY <2>3, <2>4, <2>5
<1> HIDE DEF sub
<1>2. Filled(sub, 4, Pad) = [i \in 1 .. 4 |-> IF i <= k THEN s[i] ELSE Pad]
  BY <1>1 DEF Filled
<1> DEFINE g == [i \in 1 .. 4 |-> IF i <= k THEN s[i] ELSE Pad]
<1>3. g \in Seq(Char) /\ Len(g) = 4
  BY <1>1, Kinds
<1>4. g[k + 1] = Pad /\ \A i \in 1 .. k : g[i] = s[i]
  OBVIOUS
<1> HIDE DEF g
<1> QED
  BY <1>2, <1>3, <1>4 DEF sub, g

(* A group of bytes filled up to three. *)
LEMMA FilledBytes ==
    ASSUME NEW g \in Seq(Byte), NEW n \in 1 .. 2, n = Len(g)
    PROVE  LET b == Filled(g, 3, 0)
           IN  /\ g[1] \in Byte /\ b[1] = g[1]
               /\ n >= 2 => g[2] \in Byte /\ b[2] = g[2]
               /\ n < 2 => b[2] = 0
               /\ b[3] = 0
<1>1. \A i \in 1 .. n : g[i] \in Byte
  BY Element
<1>2. Filled(g, 3, 0) = [i \in 1 .. 3 |-> IF i <= n THEN g[i] ELSE 0]
  BY DEF Filled
<1> QED
  BY <1>1, <1>2

(* What is left of a group is padded. *)
PaddedGroup(n, m) ==
    /\ n >= 1 /\ group[1] \in Byte
    /\ n >= 2 => group[2] \in Byte
    /\ text' \in Seq(Char) /\ Len(text') = m + 4
    /\ \A i \in 1 .. m : text'[i] = text[i]
    /\ \A i \in 1 .. n + 1 :
           text'[m + i]
             = Split(<<group[1], IF n >= 2 THEN group[2] ELSE 0, 0>>)[i]
    /\ text'[m + (n + 2)] = Pad

LEMMA EncodeEndEffect ==
    ASSUME TypeInv, EncodeEnd,
           NEW n \in Nat, n = Len(group), NEW m \in Nat, m = Len(text)
    PROVE  /\ pc = "encode" /\ at = Len(buf) /\ at' = 0
           /\ buf' = buf /\ encoded' = encoded /\ ret' = ret
           /\ pc' = "decode" /\ group' = <<>> /\ n <= 2
           /\ (n <= 0 /\ text' = text) \/ PaddedGroup(n, m)
<1>1. /\ pc = "encode" /\ at = Len(buf) /\ at' = 0
      /\ buf' = buf /\ encoded' = encoded /\ ret' = ret
      /\ pc' = "decode" /\ group' = <<>>
      /\ text' = IF group = <<>> THEN text
                 ELSE text \o Filled(SubSeq(Split(Filled(group, 3, 0)), 1,
                                            Len(group) + 1), 4, Pad)
  BY DEF EncodeEnd
<1>2. group \in Seq(Byte) /\ text \in Seq(Char) /\ n <= 2
  BY <1>1, Types
<1>3. CASE group = <<>>
  <2>1. n <= 0
    BY <1>3
  <2> QED
    BY <1>1, <1>2, <1>3, <2>1
<1>4. CASE group # <<>>
  <2> DEFINE b == Filled(group, 3, 0)
             second == IF n >= 2 THEN group[2] ELSE 0
             s == Split(<<group[1], second, 0>>)
             f == Filled(SubSeq(s, 1, n + 1), 4, Pad)
  <2>1. n >= 1 /\ n \in 1 .. 2 /\ n + 1 \in 1 .. 3
    BY <1>2, <1>4, EmptySeq
  <2>2. /\ group[1] \in Byte /\ b[1] = group[1] /\ b[2] = second /\ b[3] = 0
        /\ n >= 2 => group[2] \in Byte
    <3>1. /\ group[1] \in Byte /\ b[1] = group[1]
          /\ n >= 2 => group[2] \in Byte /\ b[2] = group[2]
          /\ n < 2 => b[2] = 0
          /\ b[3] = 0
      BY <1>2, <2>1, FilledBytes, Zenon
    <3>2. n >= 2 \/ n < 2
      BY <2>1
    <3> HIDE DEF b
    <3> QED
      BY <3>1, <3>2
  <2>3. second \in Byte /\ 0 \in Byte
    BY <2>2, Kinds
  <2>4. Split(b) = s
    <3> HIDE DEF b, second
    <3> QED
      BY <2>2 DEF Split
  <2>5. text' = text \o f
    BY <1>1, <1>4, <2>4
  <2> HIDE DEF second
  <2>6. \A i \in 1 .. 4 : s[i] \in Char
    BY <2>2, <2>3, SplitChars, Kinds
  <2> HIDE DEF s
  <2>7. /\ f \in Seq(Char) /\ Len(f) = 4
        /\ \A i \in 1 .. n + 1 : f[i] = s[i]
        /\ f[(n + 1) + 1] = Pad
    BY <2>1, <2>6, PaddedDigits
  <2> HIDE DEF f
  <2>8. /\ text' \in Seq(Char) /\ Len(text') = m + 4
        /\ \A i \in 1 .. m : text'[i] = text[i]
        /\ \A i \in 1 .. 4 : text'[m + i] = f[i]
    <3>1. IsConcat(Char, text', text, m, f, 4)
      BY <1>2, <2>5, <2>7, Joined
    <3> QED
      BY <3>1 DEF IsConcat
  <2>9. /\ \A i \in 1 .. n + 1 : text'[m + i] = s[i]
        /\ text'[m + (n + 2)] = Pad
    <3>1. n + 2 = (n + 1) + 1 /\ n + 2 \in 1 .. 4
      BY <2>1
    <3>2. \A i \in 1 .. n + 1 : i \in 1 .. 4
      BY <2>1
    <3> QED
      BY <2>7, <2>8, <3>1, <3>2
  <2>10. PaddedGroup(n, m)
    BY <2>1, <2>2, <2>8, <2>9 DEF s, second, PaddedGroup
  <2> QED
    BY <1>1, <1>2, <2>10
<1> QED
  BY <1>3, <1>4

(* A digit is one more of its group. *)
DigitCollected(n) ==
    /\ n < 3 /\ ret' = ret
    /\ group' \in Seq(Digit) /\ Len(group') = n + 1
    /\ \A i \in 1 .. n : group'[i] = group[i]
    /\ group'[n + 1] = text[at + 1]

(* A digit completes its group, which is three more bytes. *)
ThreeBytes(n, r) ==
    /\ n >= 3 /\ group' = <<>>
    /\ ret' \in Seq(Byte) /\ Len(ret') = r + 3
    /\ \A i \in 1 .. r : ret'[i] = ret[i]
    /\ \E d :
           /\ \A i \in 1 .. 3 : d[i] = group[i]
           /\ d[4] = text[at + 1]
           /\ \A i \in 1 .. 4 : d[i] \in Digit
           /\ \A i \in 1 .. 3 : ret'[r + i] = Join(d)[i]

LEMMA DecodeCharEffect ==
    ASSUME TypeInv, DecodeChar,
           NEW n \in Nat, n = Len(group), NEW r \in Nat, r = Len(ret)
    PROVE  /\ pc = "decode" /\ at < Len(text) /\ at' = at + 1
           /\ buf' = buf /\ encoded' = encoded /\ text' = text /\ pc' = pc
           /\ text[at + 1] \in Digit /\ n <= 3
           /\ DigitCollected(n) \/ ThreeBytes(n, r)
<1> DEFINE digits == Append(group, text[at + 1])
<1>1. /\ pc = "decode" /\ at < Len(text) /\ at' = at + 1
      /\ buf' = buf /\ encoded' = encoded /\ text' = text /\ pc' = pc
      /\ text[at + 1] \in Digit
      /\ IF Len(digits) = 4
         THEN ret' = ret \o Join(digits) /\ group' = <<>>
         ELSE group' = digits /\ ret' = ret
  BY DEF DecodeChar, HasDigit
<1>2. ret \in Seq(Byte) /\ group \in Seq(Digit) /\ at \in Nat /\ n <= 3
  BY <1>1, Types
<1>3. /\ digits \in Seq(Digit) /\ Len(digits) = n + 1
      /\ \A i \in 1 .. n : digits[i] = group[i]
      /\ digits[n + 1] = text[at + 1]
  BY <1>1, <1>2
<1> HIDE DEF digits
<1>4. CASE n < 3
  <2>1. Len(digits) # 4
    BY <1>3, <1>4
  <2>2. ret' = ret /\ group' = digits
    BY <1>1, <2>1
  <2> QED
    BY <1>1, <1>2, <1>3, <1>4, <2>2 DEF DigitCollected
<1>5. CASE n >= 3
  <2>1. n + 1 = 4 /\ \A i \in 1 .. 3 : i \in 1 .. n
    BY <1>2, <1>5
  <2>2. Len(digits) = 4
    BY <1>3, <2>1, Zenon
  <2>3. \A i \in 1 .. n + 1 : digits[i] \in Digit
    BY <1>3, Element
  <2>4. \A i \in 1 .. 4 : digits[i] \in Digit /\ digits[i] \in Nat
    <3>1. \A i \in 1 .. 4 : i \in 1 .. n + 1
      BY <2>1
    <3> QED
      BY <2>3, <3>1, Kinds
  <2>5. digits[4] = text[at + 1] /\ \A i \in 1 .. 3 : digits[i] = group[i]
    BY <1>3, <2>1, Zenon
  <2>6. Join(digits) \in Seq(Byte) /\ Len(Join(digits)) = 3
    BY <2>4, JoinBytes
  <2>7. ret' = ret \o Join(digits) /\ group' = <<>>
    BY <1>1, <2>2
  <2>8. /\ ret' \in Seq(Byte) /\ Len(ret') = r + 3
        /\ \A i \in 1 .. r : ret'[i] = ret[i]
        /\ \A i \in 1 .. 3 : ret'[r + i] = Join(digits)[i]
    <3>1. IsConcat(Byte, ret', ret, r, Join(digits), 3)
      BY <1>2, <2>6, <2>7, Joined
    <3> QED
      BY <3>1 DEF IsConcat
  <2> QED
    BY <1>1, <1>2, <1>3, <1>5, <2>4, <2>5, <2>7, <2>8 DEF ThreeBytes
<1> QED
  BY <1>2, <1>4, <1>5

(* What is left of a group is one byte less than it has digits. *)
LastBytes(n, r) ==
    /\ n >= 2
    /\ ret' \in Seq(Byte) /\ Len(ret') = r + (n - 1)
    /\ \A i \in 1 .. r : ret'[i] = ret[i]
    /\ \E d :
           /\ \A i \in 1 .. n : d[i] = group[i] /\ d[i] \in Digit
           /\ \A i \in 1 .. 4 : d[i] \in Nat
           /\ \A i \in 1 .. n - 1 : ret'[r + i] = Join(d)[i]

LEMMA DecodeEndEffect ==
    ASSUME TypeInv, DecodeEnd,
           NEW n \in Nat, n = Len(group), NEW r \in Nat, r = Len(ret)
    PROVE  /\ pc = "decode" /\ ~HasDigit /\ pc' = "done" /\ at' = at
           /\ buf' = buf /\ encoded' = encoded /\ text' = text
           /\ group' = <<>> /\ n <= 3
           /\ (n <= 1 /\ ret' = ret) \/ LastBytes(n, r)
<1> DEFINE d == Filled(group, 4, NotFound)
           rest == SubSeq(Join(d), 1, n - 1)
<1>1. /\ pc = "decode" /\ ~HasDigit /\ pc' = "done" /\ at' = at
      /\ buf' = buf /\ encoded' = encoded /\ text' = text
      /\ group' = <<>> /\ ret' = ret \o rest
  BY DEF DecodeEnd
<1>2. ret \in Seq(Byte) /\ group \in Seq(Digit) /\ n <= 3
  BY <1>1, Types
<1>3. \A i \in 1 .. n : group[i] \in Digit
  BY <1>2, Element
<1>4. /\ \A i \in 1 .. n : d[i] = group[i] /\ d[i] \in Digit
      /\ \A i \in 1 .. 4 : d[i] \in Nat
  <2>1. d = [i \in 1 .. 4 |-> IF i <= n THEN group[i] ELSE NotFound]
    BY DEF Filled
  <2>2. ASSUME NEW i \in 1 .. n
        PROVE  d[i] = group[i] /\ d[i] \in Digit
    <3>1. i \in 1 .. 4 /\ i <= n
      BY <1>2
    <3> HIDE DEF d
    <3> QED
      BY <1>3, <2>1, <3>1
  <2>3. ASSUME NEW i \in 1 .. 4
        PROVE  d[i] \in Nat
    <3>1. NotFound \in Nat /\ \A x \in Digit : x \in Nat
      BY Kinds
    <3>2. i <= n => group[i] \in Nat
      BY <1>3, <3>1
    <3> HIDE DEF d
    <3> QED
      BY <2>1, <3>1, <3>2
  <2> QED
    BY <2>2, <2>3
<1> HIDE DEF d
<1>5. \A i \in 1 .. 3 : Join(d)[i] \in Byte
  BY <1>4, JoinBytes
<1>6. CASE n <= 1
  <2>1. rest = <<>>
    BY <1>6, SubSeqEmpty
  <2>2. ret \o <<>> = ret
    BY <1>2
  <2> QED
    BY <1>1, <1>2, <1>6, <2>1, <2>2
<1>7. CASE n >= 2
  <2>1. \A i \in 1 .. n - 1 : Join(d)[i] \in Byte
    BY <1>2, <1>5
  <2>2. /\ rest \in Seq(Byte) /\ Len(rest) = n - 1
        /\ \A i \in 1 .. n - 1 : rest[i] = Join(d)[i]
    BY <1>7, <2>1, SubSeqProperties
  <2> HIDE DEF rest
  <2>3. /\ ret' \in Seq(Byte) /\ Len(ret') = r + (n - 1)
        /\ \A i \in 1 .. r : ret'[i] = ret[i]
        /\ \A i \in 1 .. n - 1 : ret'[r + i] = rest[i]
    <3>1. PICK l : l = n - 1
      OBVIOUS
    <3>2. IsConcat(Byte, ret', ret, r, rest, l)
      BY <1>1, <1>2, <2>2, <3>1, Joined
    <3> QED
      BY <3>1, <3>2 DEF IsConcat
  <2>4. \A i \in 1 .. n - 1 : ret'[r + i] = Join(d)[i]
    BY <2>2, <2>3
  <2> QED
    BY <1>1, <1>2, <1>4, <1>7, <2>3, <2>4 DEF LastBytes
<1> QED
  BY <1>2, <1>6, <1>7

-----------------------------------------------------------------------------
(* Types. *)

LEMMA InitTypes == Init => TypeInv
<1> SUFFICES ASSUME Init
             PROVE  TypeInv
  OBVIOUS
<1>1. \A S : <<>> \in Seq(S) /\ Len(<<>>) <= 2
  OBVIOUS
<1>2. group = <<>> /\ at = 0 /\ ret = <<>>
  BY DEF Init
<1>3. CASE pc = "encode" /\ encoded = TRUE /\ buf \in Buffers /\ text = <<>>
  <2>1. buf \in Seq(Byte)
    BY <1>3, InputRange
  <2> QED
    BY <1>1, <1>2, <1>3, <2>1 DEF TypeInv, TypeOK
<1>4. CASE pc = "decode" /\ encoded = FALSE /\ buf = <<>> /\ text \in Texts
  <2>1. text \in Seq(Char)
    BY <1>4, InputRange
  <2>2. group \in Seq(Digit) /\ ret \in Seq(Byte) /\ buf \in Seq(Byte)
        /\ Len(group) <= 3
    BY <1>1, <1>2, <1>4
  <2> QED
    BY <1>2, <1>4, <2>1, <2>2 DEF TypeInv, TypeOK
<1> QED
  BY <1>3, <1>4 DEF Init

(* Every step keeps the types. *)
LEMMA StepTypes == TypeInv /\ [Next]_vars => TypeInv'
<1> SUFFICES ASSUME TypeInv, [Next]_vars
             PROVE  TypeInv'
  OBVIOUS
<1>1. PICK n \in Nat, m \in Nat, r \in Nat :
          n = Len(group) /\ m = Len(text) /\ r = Len(ret)
  BY Types
<1>2. /\ buf \in Seq(Byte) /\ text \in Seq(Char) /\ ret \in Seq(Byte)
      /\ at \in Nat /\ at + 1 \in Nat
  BY Types
<1>3. encoded \in BOOLEAN
  BY DEF TypeInv, TypeOK
<1>4. \A S : <<>> \in Seq(S) /\ Len(<<>>) <= 2
  OBVIOUS
<1>5. CASE EncodeByte
  <2>1. /\ pc = "encode" /\ at' = at + 1
        /\ buf' = buf /\ encoded' = encoded /\ ret' = ret /\ pc' = pc
    BY <1>1, <1>5, EncodeByteEffect
  <2>2. text' \in Seq(Char) /\ group' \in Seq(Byte) /\ Len(group') <= 2
    <3>1. \/ /\ n < 2 /\ text' = text
             /\ group' \in Seq(Byte) /\ Len(group') = n + 1
          \/ group' = <<>> /\ text' \in Seq(Char)
      BY <1>1, <1>5, EncodeByteEffect
         DEF ByteCollected, FourDigits, IsConcat
    <3>2. CASE n < 2 /\ text' = text /\ group' \in Seq(Byte) /\ Len(group') = n + 1
      BY <1>2, <3>2
    <3>3. CASE group' = <<>> /\ text' \in Seq(Char)
      BY <1>4, <3>3
    <3> QED
      BY <3>1, <3>2, <3>3
  <2> QED
    BY <1>2, <1>3, <2>1, <2>2 DEF TypeInv, TypeOK
<1>6. CASE EncodeEnd
  <2>1. /\ pc' = "decode" /\ at' = 0 /\ group' = <<>>
        /\ buf' = buf /\ encoded' = encoded /\ ret' = ret
    BY <1>1, <1>6, EncodeEndEffect
  <2>2. text' \in Seq(Char)
    BY <1>1, <1>2, <1>6, EncodeEndEffect DEF PaddedGroup
  <2> QED
    BY <1>2, <1>3, <1>4, <2>1, <2>2 DEF TypeInv, TypeOK
<1>7. CASE DecodeChar
  <2>1. /\ pc = "decode" /\ at' = at + 1
        /\ buf' = buf /\ encoded' = encoded /\ text' = text /\ pc' = pc
    BY <1>1, <1>7, DecodeCharEffect
  <2>2. ret' \in Seq(Byte) /\ group' \in Seq(Digit) /\ Len(group') <= 3
    <3>1. \/ /\ n < 3 /\ ret' = ret
             /\ group' \in Seq(Digit) /\ Len(group') = n + 1
          \/ group' = <<>> /\ ret' \in Seq(Byte)
      BY <1>1, <1>7, DecodeCharEffect DEF DigitCollected, ThreeBytes
    <3>2. CASE n < 3 /\ ret' = ret /\ group' \in Seq(Digit) /\ Len(group') = n + 1
      BY <1>2, <3>2
    <3>3. CASE group' = <<>> /\ ret' \in Seq(Byte)
      BY <1>4, <3>3
    <3> QED
      BY <3>1, <3>2, <3>3
  <2> QED
    BY <1>2, <1>3, <2>1, <2>2 DEF TypeInv, TypeOK
<1>8. CASE DecodeEnd
  <2>1. /\ pc' = "done" /\ at' = at /\ group' = <<>>
        /\ buf' = buf /\ encoded' = encoded /\ text' = text
    BY <1>1, <1>8, DecodeEndEffect
  <2>2. ret' \in Seq(Byte)
    BY <1>1, <1>2, <1>8, DecodeEndEffect DEF LastBytes
  <2> QED
    BY <1>2, <1>3, <1>4, <2>1, <2>2 DEF TypeInv, TypeOK
<1>9. CASE UNCHANGED vars
  BY <1>9 DEF vars, TypeInv, TypeOK
<1> QED
  BY <1>5, <1>6, <1>7, <1>8, <1>9 DEF Next

(***************************************************************************)
(* The buffers of base64_encode and base64_decode hold bytes, characters   *)
(* and at most the three units of an unfinished group, for any width and   *)
(* any inputs.                                                             *)
(***************************************************************************)
THEOREM TypeCorrect == Spec => []TypeOK
<1>1. TypeInv => TypeOK
  BY DEF TypeInv
<1> QED
  BY <1>1, InitTypes, StepTypes, PTL DEF Spec

-----------------------------------------------------------------------------
(* The inductive invariant: what is encoded and decoded so far. *)

(* The k-th four digits of the text are the k-th three bytes. *)
Block(k) ==
    \A i \in 1 .. 4 :
        text[4 * k + i]
          = Split(<<buf[3 * k + 1], buf[3 * k + 2], buf[3 * k + 3]>>)[i]

(* The second byte of a last group, which may have one. *)
SecondByte(k) == IF Len(buf) >= 3 * k + 2 THEN buf[3 * k + 2] ELSE 0

(* k groups are encoded and the next one is being collected. *)
Encoding(k) ==
    /\ at = 3 * k + Len(group) /\ at <= Len(buf) /\ Len(text) = 4 * k
    /\ \A j \in 0 .. k - 1 : Block(j)
    /\ \A i \in 1 .. Len(group) : group[i] = buf[3 * k + i]

(* The text is k groups, and a padded one for the bytes that are left. *)
Encoded(k) ==
    /\ 3 * k <= Len(buf) /\ Len(buf) <= 3 * k + 2
    /\ \A j \in 0 .. k - 1 : Block(j)
    /\ Len(buf) <= 3 * k => Len(text) = 4 * k
    /\ Len(buf) > 3 * k =>
           /\ Len(text) = 4 * k + 4
           /\ \A i \in 1 .. Len(buf) - 3 * k + 1 :
                  text[4 * k + i]
                    = Split(<<buf[3 * k + 1], SecondByte(k), 0>>)[i]
           /\ text[k + Len(buf) + 2] = Pad

(* j of the k groups are decoded and the next one is being collected. *)
Decoding(k, j) ==
    /\ j <= k /\ at = 4 * j + Len(group) /\ Len(ret) = 3 * j
    /\ \A i \in 1 .. 3 * j : ret[i] = buf[i]
    /\ \A i \in 1 .. Len(group) : group[i] = text[4 * j + i]
    /\ at > 4 * k => Len(buf) > 3 * k /\ at <= k + Len(buf) + 1

IInv ==
    /\ TypeInv
    /\ pc = "encode" => ret = <<>> /\ \E k \in Nat : Encoding(k)
    /\ pc = "decode" /\ encoded =>
           \E k, j \in Nat : Encoded(k) /\ Decoding(k, j)
    /\ RoundTrip

(* A longer text has the groups it had. *)
LEMMA KeptBlocks ==
    ASSUME NEW k \in Nat, buf' = buf, \A i \in 1 .. 4 * k : text'[i] = text[i],
           \A j \in 0 .. k - 1 : Block(j)
    PROVE  \A j \in 0 .. k - 1 : Block(j)'
<1> TAKE j \in 0 .. k - 1
<1>1. SUFFICES ASSUME NEW i \in 1 .. 4
               PROVE  text'[4 * j + i] = text[4 * j + i]
  BY DEF Block
<1>2. 4 * j + i \in 1 .. 4 * k
  OBVIOUS
<1> QED
  BY <1>2

(* A byte is collected, or ends its group. *)
LEMMA EncodeByteStep ==
    ASSUME TypeInv, EncodeByte, NEW k \in Nat, Encoding(k)
    PROVE  \E l \in Nat : Encoding(l)'
<1>1. PICK n \in Nat, m \in Nat, e \in Nat :
          n = Len(group) /\ m = Len(text) /\ e = Len(buf)
  BY Types
<1>2. at \in Nat
  BY Types
<1>3. /\ at = 3 * k + n /\ at < e /\ m = 4 * k
      /\ at' = at + 1 /\ buf' = buf /\ n <= 2
      /\ \A j \in 0 .. k - 1 : Block(j)
      /\ \A i \in 1 .. n : group[i] = buf[3 * k + i]
  BY <1>1, EncodeByteEffect DEF Encoding
<1>4. CASE ByteCollected(n)
  <2>0. /\ text' = text /\ Len(group') = n + 1
        /\ \A i \in 1 .. n : group'[i] = group[i]
        /\ group'[n + 1] = buf[at + 1]
    BY <1>4 DEF ByteCollected
  <2>1. \A j \in 0 .. k - 1 : Block(j)'
    BY <1>3, <2>0, KeptBlocks
  <2>2. ASSUME NEW i \in 1 .. n + 1
        PROVE  group'[i] = buf'[3 * k + i]
    <3>1. CASE i <= n
      BY <1>3, <2>0, <3>1
    <3>2. CASE i = n + 1
      <4>1. 3 * k + i = at + 1
        BY <1>3, <3>2
      <4> QED
        BY <1>3, <2>0, <3>2, <4>1
    <3> QED
      BY <3>1, <3>2
  <2>3. at' = 3 * k + (n + 1) /\ at' <= e
    BY <1>2, <1>3
  <2>4. Encoding(k)'
    BY <1>1, <1>3, <2>0, <2>1, <2>2, <2>3 DEF Encoding
  <2> QED
    BY <2>4
<1>5. CASE FourDigits(n, m)
  <2>0. /\ n >= 2 /\ group' = <<>> /\ Len(text') = m + 4
        /\ \A i \in 1 .. m : text'[i] = text[i]
        /\ \A i \in 1 .. 4 :
               text'[m + i] = Split(<<group[1], group[2], buf[at + 1]>>)[i]
    BY <1>5 DEF FourDigits, IsConcat
  <2>1. \A j \in 0 .. k - 1 : Block(j)'
    BY <1>3, <2>0, KeptBlocks
  <2>2. Block(k)'
    <3>1. /\ group[1] = buf[3 * k + 1] /\ group[2] = buf[3 * k + 2]
          /\ at + 1 = 3 * k + 3
      BY <1>3, <2>0
    <3> QED
      BY <1>3, <2>0, <3>1 DEF Block
  <2>3. \A j \in 0 .. (k + 1) - 1 : Block(j)'
    <3>1. \A j \in 0 .. (k + 1) - 1 : j \in 0 .. k - 1 \/ j = k
      OBVIOUS
    <3> QED
      BY <2>1, <2>2, <3>1
  <2>4. /\ at' = 3 * (k + 1) /\ at' <= e /\ Len(text') = 4 * (k + 1)
    BY <1>2, <1>3, <2>0
  <2>5. Len(group') = 0
    BY <2>0
  <2>6. Encoding(k + 1)'
    BY <1>1, <1>3, <2>3, <2>4, <2>5 DEF Encoding
  <2> QED
    BY <2>6
<1> QED
  BY <1>1, <1>4, <1>5, EncodeByteEffect

(* The end of the buffer pads what is left of a group. *)
LEMMA EncodeEndStep ==
    ASSUME TypeInv, EncodeEnd, ret = <<>>, NEW k \in Nat, Encoding(k)
    PROVE  Encoded(k)' /\ Decoding(k, 0)'
<1>1. PICK n \in Nat, m \in Nat, e \in Nat :
          n = Len(group) /\ m = Len(text) /\ e = Len(buf)
  BY Types
<1>2. /\ e = 3 * k + n /\ m = 4 * k /\ n <= 2
      /\ at' = 0 /\ buf' = buf /\ ret' = <<>> /\ group' = <<>>
      /\ \A j \in 0 .. k - 1 : Block(j)
      /\ \A i \in 1 .. n : group[i] = buf[3 * k + i]
  BY <1>1, EncodeEndEffect DEF Encoding
<1>3. Decoding(k, 0)'
  <2>1. Len(group') = 0 /\ Len(ret') = 0
    BY <1>2
  <2>2. at' = 0 /\ ~(at' > 4 * k)
    BY <1>2
  <2> QED
    BY <2>1, <2>2 DEF Decoding
<1>4. CASE n <= 0 /\ text' = text
  <2>1. \A j \in 0 .. k - 1 : Block(j)'
    BY <1>2, <1>4, KeptBlocks
  <2>2. e = 3 * k
    BY <1>1, <1>2, <1>4
  <2>3. Len(buf') = 3 * k /\ Len(text') = 4 * k
    BY <1>1, <1>2, <1>4, <2>2, Zenon
  <2>4. Encoded(k)'
    BY <2>1, <2>3 DEF Encoded
  <2> QED
    BY <1>3, <2>4
<1>5. CASE PaddedGroup(n, m)
  <2>0. /\ n >= 1 /\ Len(text') = m + 4
        /\ \A i \in 1 .. m : text'[i] = text[i]
        /\ \A i \in 1 .. n + 1 :
               text'[m + i]
                 = Split(<<group[1], IF n >= 2 THEN group[2] ELSE 0, 0>>)[i]
        /\ text'[m + (n + 2)] = Pad
    BY <1>5 DEF PaddedGroup
  <2>1. \A j \in 0 .. k - 1 : Block(j)'
    BY <1>2, <2>0, KeptBlocks
  <2>2. Len(buf') = 3 * k + n /\ Len(text') = 4 * k + 4
    BY <1>1, <1>2, <2>0
  <2>3. SecondByte(k)' = IF n >= 2 THEN group[2] ELSE 0
    <3>1. n >= 2 => group[2] = buf[3 * k + 2]
      BY <1>2
    <3>2. e >= 3 * k + 2 <=> n >= 2
      BY <1>1, <1>2
    <3>3. Len(buf') = e /\ buf' = buf
      BY <1>1, <1>2
    <3> QED
      BY <3>1, <3>2, <3>3 DEF SecondByte
  <2>4. group[1] = buf'[3 * k + 1]
    BY <1>2, <2>0
  <2>5. \A i \in 1 .. n + 1 :
            text'[4 * k + i] = Split(<<buf'[3 * k + 1], SecondByte(k)', 0>>)[i]
    BY <1>2, <2>0, <2>3, <2>4
  <2>6. text'[k + (3 * k + n) + 2] = Pad
    <3>1. k + (3 * k + n) + 2 = m + (n + 2)
      BY <1>2
    <3> QED
      BY <2>0, <3>1
  <2>7. PICK f \in Nat : f = Len(buf') /\ f = 3 * k + n
    BY <2>2
  <2>8. /\ 3 * k <= f /\ f <= 3 * k + 2 /\ ~(f <= 3 * k)
        /\ f - 3 * k + 1 = n + 1 /\ k + f + 2 = k + (3 * k + n) + 2
    BY <1>2, <2>0, <2>7
  <2>9. Encoded(k)'
    BY <2>1, <2>2, <2>5, <2>6, <2>7, <2>8 DEF Encoded
  <2> QED
    BY <1>3, <2>9
<1> QED
  BY <1>1, <1>4, <1>5, EncodeEndEffect, Zenon

(* A digit is collected, or completes three bytes. *)
LEMMA DecodeCharStep ==
    ASSUME TypeInv, DecodeChar, NEW k \in Nat, NEW j \in Nat,
           Encoded(k), Decoding(k, j)
    PROVE  Encoded(k)' /\ \E l \in Nat : Decoding(k, l)'
<1>1. PICK n \in Nat, m \in Nat, e \in Nat, r \in Nat :
          n = Len(group) /\ m = Len(text) /\ e = Len(buf) /\ r = Len(ret)
  BY Types
<1>2. at \in Nat /\ buf \in Seq(Byte)
  BY Types
<1>3. /\ at < m /\ at' = at + 1 /\ text' = text /\ buf' = buf
      /\ text[at + 1] \in Digit /\ n <= 3
  BY <1>1, DecodeCharEffect
<1>4. /\ 3 * k <= e /\ e <= 3 * k + 2
      /\ \A i \in 0 .. k - 1 : Block(i)
      /\ e <= 3 * k => m = 4 * k
      /\ e > 3 * k => text[k + e + 2] = Pad
  BY <1>1 DEF Encoded
<1>5. /\ j <= k /\ at = 4 * j + n /\ r = 3 * j
      /\ \A i \in 1 .. 3 * j : ret[i] = buf[i]
      /\ \A i \in 1 .. n : group[i] = text[4 * j + i]
      /\ at > 4 * k => e > 3 * k /\ at <= k + e + 1
  BY <1>1 DEF Decoding
<1>6. Encoded(k)'
  BY <1>3 DEF Encoded, Block, SecondByte
<1>7. at' > 4 * k => e > 3 * k /\ at' <= k + e + 1
  <2>1. Pad \notin Digit
    BY DEF Digit, Pad
  <2>2. ~(e > 3 * k /\ at = k + e + 1)
    <3>1. SUFFICES ASSUME e > 3 * k, at = k + e + 1
                   PROVE  FALSE
      OBVIOUS
    <3>2. at + 1 = k + e + 2
      BY <3>1
    <3> QED
      BY <1>3, <1>4, <2>1, <3>1, <3>2
  <2>3. SUFFICES ASSUME at + 1 > 4 * k
                 PROVE  e > 3 * k /\ at + 1 <= k + e + 1
    BY <1>3
  <2>4. CASE at > 4 * k
    <3>1. e > 3 * k /\ at <= k + e + 1
      BY <1>5, <2>4
    <3>2. at # k + e + 1
      BY <2>2, <3>1
    <3>3. e \in Nat
      BY <1>1
    <3> QED
      BY <1>2, <3>1, <3>2, <3>3
  <2>5. CASE at = 4 * k
    BY <1>1, <1>2, <1>3, <1>4, <2>5
  <2> QED
    BY <1>2, <2>3, <2>4, <2>5
<1>8. CASE DigitCollected(n)
  <2>1. /\ ret' = ret /\ Len(group') = n + 1 /\ group'[n + 1] = text[at + 1]
        /\ \A i \in 1 .. n : group'[i] = group[i]
    BY <1>8 DEF DigitCollected
  <2>2. ASSUME NEW i \in 1 .. n + 1
        PROVE  group'[i] = text'[4 * j + i]
    <3>1. CASE i <= n
      BY <1>3, <1>5, <2>1, <3>1
    <3>2. CASE i = n + 1
      <4>1. 4 * j + i = at + 1
        BY <1>5, <3>2
      <4> QED
        BY <1>3, <2>1, <3>2, <4>1
    <3> QED
      BY <3>1, <3>2
  <2>3. at' = 4 * j + (n + 1)
    BY <1>3, <1>5
  <2>4. Len(ret') = 3 * j /\ Len(buf') = e
    BY <1>1, <1>3, <1>5, <2>1
  <2>5. \A i \in 1 .. 3 * j : ret'[i] = buf'[i]
    BY <1>3, <1>5, <2>1
  <2>6. Decoding(k, j)'
    BY <1>5, <1>7, <2>1, <2>2, <2>3, <2>4, <2>5 DEF Decoding
  <2> QED
    BY <1>6, <2>6
<1>9. CASE ThreeBytes(n, r)
  <2>1. /\ n >= 3 /\ group' = <<>> /\ Len(ret') = r + 3
        /\ \A i \in 1 .. r : ret'[i] = ret[i]
    BY <1>9 DEF ThreeBytes
  <2>2. at' = 4 * j + 4
    BY <1>3, <1>5, <2>1
  <2>3. j < k
    <3>1. SUFFICES ASSUME j = k
                   PROVE  FALSE
      BY <1>5
    <3>2. at' > 4 * k
      BY <2>2, <3>1
    <3>3. 4 * k + 4 <= k + e + 1 /\ e <= 3 * k + 2 /\ e \in Nat
      BY <1>1, <1>4, <1>7, <2>2, <3>1, <3>2
    <3> QED
      BY <3>3
  <2>4. PICK d : /\ \A i \in 1 .. 3 : d[i] = group[i]
                 /\ d[4] = text[at + 1]
                 /\ \A i \in 1 .. 4 : d[i] \in Digit
                 /\ \A i \in 1 .. 3 : ret'[r + i] = Join(d)[i]
    BY <1>9 DEF ThreeBytes
  <2> DEFINE x == buf[3 * j + 1]
             y == buf[3 * j + 2]
             z == buf[3 * j + 3]
  <2>5. x \in Byte /\ y \in Byte /\ z \in Byte
    <3>1. /\ 3 * j + 1 \in 1 .. e /\ 3 * j + 2 \in 1 .. e /\ 3 * j + 3 \in 1 .. e
      BY <1>4, <2>3
    <3> QED
      BY <1>1, <1>2, <3>1, Element
  <2>6. \A i \in 1 .. 4 : d[i] = Split(<<x, y, z>>)[i]
    <3>1. Block(j)
      BY <1>4, <2>3
    <3>2. at + 1 = 4 * j + 4
      BY <1>5, <2>1, <1>3
    <3>3. \A i \in 1 .. 3 : d[i] = text[4 * j + i]
      <4>1. \A i \in 1 .. 3 : i \in 1 .. n
        BY <1>1, <2>1
      <4> QED
        BY <1>5, <2>4, <4>1
    <3>4. d[4] = text[4 * j + 4]
      BY <2>4, <3>2
    <3>5. \A i \in 1 .. 4 : d[i] = text[4 * j + i]
      <4>1. \A i \in 1 .. 4 : i \in 1 .. 3 \/ i = 4
        OBVIOUS
      <4> QED
        BY <3>3, <3>4, <4>1
    <3> QED
      BY <3>1, <3>5 DEF Block
  <2>7. \A i \in 1 .. 4 : d[i] \in Nat
    BY <2>4, Kinds
  <2>8. Join(d)[1] = x /\ Join(d)[2] = y /\ Join(d)[3] = z
    <3>1. /\ d[1] = Split(<<x, y, z>>)[1] /\ d[2] = Split(<<x, y, z>>)[2]
          /\ d[3] = Split(<<x, y, z>>)[3] /\ d[4] = Split(<<x, y, z>>)[4]
      BY <2>6
    <3> HIDE DEF x, y, z
    <3> QED
      BY <2>5, <2>7, <3>1, JoinSplit
  <2>9. \A i \in 1 .. 3 : ret'[3 * j + i] = buf[3 * j + i]
    <3>1. \A i \in 1 .. 3 : ret'[3 * j + i] = Join(d)[i]
      BY <1>5, <2>4
    <3>2. \A i \in 1 .. 3 : Join(d)[i] = buf[3 * j + i]
      BY <2>8
    <3> QED
      BY <3>1, <3>2
  <2>10. ASSUME NEW i \in 1 .. 3 * (j + 1)
        PROVE  ret'[i] = buf'[i]
    <3>1. CASE i <= 3 * j
      BY <1>3, <1>5, <2>1, <3>1
    <3>2. CASE i > 3 * j
      <4>1. i - 3 * j \in 1 .. 3 /\ 3 * j + (i - 3 * j) = i
        BY <3>2
      <4> QED
        BY <1>3, <2>9, <4>1
    <3> QED
      BY <3>1, <3>2
  <2>11. /\ Len(ret') = 3 * (j + 1) /\ Len(group') = 0
         /\ at' = 4 * (j + 1) /\ ~(at' > 4 * k) /\ j + 1 <= k
    <3>1. Len(ret') = 3 * (j + 1)
      BY <1>5, <2>1
    <3>2. Len(group') = 0
      BY <2>1
    <3> QED
      BY <2>2, <2>3, <3>1, <3>2
  <2>12. Decoding(k, j + 1)'
    BY <2>10, <2>11 DEF Decoding
  <2> QED
    BY <1>6, <2>12
<1> QED
  BY <1>1, <1>8, <1>9, DecodeCharEffect

(* What is left of the digits is what is left of the bytes. *)
LEMMA DecodeEndStep ==
    ASSUME TypeInv, DecodeEnd, NEW k \in Nat, NEW j \in Nat,
           Encoded(k), Decoding(k, j)
    PROVE  ret' = buf'
<1>1. PICK n \in Nat, m \in Nat, e \in Nat, r \in Nat :
          n = Len(group) /\ m = Len(text) /\ e = Len(buf) /\ r = Len(ret)
  BY Types
<1>2. at \in Nat /\ buf \in Seq(Byte) /\ ret \in Seq(Byte)
  BY Types
<1>3. buf' = buf /\ ~HasDigit /\ n <= 3
  BY <1>1, DecodeEndEffect
<1>4. /\ 3 * k <= e /\ e <= 3 * k + 2
      /\ \A i \in 0 .. k - 1 : Block(i)
      /\ e <= 3 * k => m = 4 * k
      /\ e > 3 * k =>
             /\ m = 4 * k + 4
             /\ \A i \in 1 .. e - 3 * k + 1 :
                    text[4 * k + i]
                      = Split(<<buf[3 * k + 1], SecondByte(k), 0>>)[i]
  BY <1>1 DEF Encoded
<1>5. /\ j <= k /\ at = 4 * j + n /\ r = 3 * j
      /\ \A i \in 1 .. 3 * j : ret[i] = buf[i]
      /\ \A i \in 1 .. n : group[i] = text[4 * j + i]
      /\ at > 4 * k => e > 3 * k /\ at <= k + e + 1
  BY <1>1 DEF Decoding
<1>6. at < m => text[at + 1] \notin Digit
  BY <1>1, <1>3 DEF HasDigit
<1>7. j = k
  <2>1. SUFFICES ASSUME j < k
                 PROVE  FALSE
    BY <1>5
  <2>2. at < m /\ n + 1 \in 1 .. 4 /\ at + 1 = 4 * j + (n + 1) /\ n <= 3
    <3>1. 4 * j + 4 <= 4 * k /\ 4 * k <= m
      BY <1>1, <1>4, <2>1
    <3> QED
      BY <1>1, <1>3, <1>5, <3>1
  <2> DEFINE x == buf[3 * j + 1]
             y == buf[3 * j + 2]
             z == buf[3 * j + 3]
  <2>3. x \in Byte /\ y \in Byte /\ z \in Byte
    <3>1. 3 * j + 1 \in 1 .. e /\ 3 * j + 2 \in 1 .. e /\ 3 * j + 3 \in 1 .. e
      BY <1>4, <2>1
    <3> QED
      BY <1>1, <1>2, <3>1, Element
  <2>4. text[4 * j + (n + 1)] = Split(<<x, y, z>>)[n + 1]
    BY <1>4, <2>1, <2>2 DEF Block
  <2>5. Split(<<x, y, z>>)[n + 1] \in Digit
    <3> HIDE DEF x, y, z
    <3> QED
      BY <2>2, <2>3, SplitChars
  <2> QED
    BY <1>6, <2>2, <2>4, <2>5
<1>8. CASE e <= 3 * k
  <2>1. e = 3 * k /\ n = 0
    BY <1>1, <1>4, <1>5, <1>7, <1>8
  <2>2. ret' = ret
    <3>1. ~LastBytes(n, r)
      BY <2>1 DEF LastBytes
    <3> QED
      BY <1>1, <3>1, DecodeEndEffect
  <2>3. r = e /\ \A i \in 1 .. e : ret[i] = buf[i]
    BY <1>5, <1>7, <2>1
  <2>4. ret = buf
    BY <1>1, <1>2, <2>3, SeqEqual
  <2> QED
    BY <1>3, <2>2, <2>4
<1>9. CASE e > 3 * k
  <2> DEFINE x == buf[3 * k + 1]
             y == SecondByte(k)
  <2>1. x \in Byte /\ y \in Byte /\ 0 \in Byte
    <3>1. 3 * k + 1 \in 1 .. e
      BY <1>9
    <3>2. e >= 3 * k + 2 => 3 * k + 2 \in 1 .. e
      OBVIOUS
    <3>3. \A i \in 1 .. e : buf[i] \in Byte
      BY <1>1, <1>2, Element
    <3> QED
      BY <1>1, <3>1, <3>2, <3>3, Kinds DEF SecondByte
  <2>2. n = e - 3 * k + 1
    <3>1. n <= e - 3 * k + 1
      BY <1>1, <1>4, <1>5, <1>7, <1>9
    <3>2. SUFFICES ASSUME n + 1 <= e - 3 * k + 1
                   PROVE  FALSE
      BY <1>1, <3>1
    <3>3. /\ n + 1 \in 1 .. e - 3 * k + 1 /\ n + 1 \in 1 .. 4
          /\ at + 1 = 4 * k + (n + 1) /\ at < m
      <4>1. at = 4 * k + n /\ m = 4 * k + 4
        BY <1>4, <1>5, <1>7, <1>9
      <4>2. e - 3 * k + 1 <= 3
        BY <1>1, <1>4
      <4>3. n + 1 <= 3
        BY <1>1, <3>2, <4>2
      <4> QED
        BY <1>1, <3>2, <4>1, <4>3
    <3>4. text[4 * k + (n + 1)] = Split(<<x, y, 0>>)[n + 1]
      BY <1>4, <1>9, <3>3
    <3>5. Split(<<x, y, 0>>)[n + 1] \in Digit
      <4> HIDE DEF x, y
      <4> QED
        BY <2>1, <3>3, SplitChars
    <3> QED
      BY <1>6, <3>3, <3>4, <3>5
  <2>3. n >= 2 /\ n <= 3 /\ n - 1 = e - 3 * k
    <3>1. e \in Nat /\ e > 3 * k /\ e <= 3 * k + 2
      BY <1>1, <1>4, <1>9
    <3> QED
      BY <2>2, <3>1
  <2>4. LastBytes(n, r)
    <3>1. ~(n <= 1)
      BY <2>3
    <3> QED
      BY <1>1, <3>1, DecodeEndEffect
  <2>5. PICK d : /\ \A i \in 1 .. n : d[i] = group[i]
                 /\ \A i \in 1 .. 4 : d[i] \in Nat
                 /\ \A i \in 1 .. n - 1 : ret'[r + i] = Join(d)[i]
    BY <2>4 DEF LastBytes
  <2>6. /\ ret' \in Seq(Byte) /\ Len(ret') = r + (n - 1)
         /\ \A i \in 1 .. r : ret'[i] = ret[i]
    BY <2>4 DEF LastBytes
  <2>7. \A i \in 1 .. n : d[i] = Split(<<x, y, 0>>)[i]
    BY <1>4, <1>5, <1>7, <1>9, <2>2, <2>5
  <2>8. Join(d)[1] = x /\ (n >= 3 => Join(d)[2] = y)
    <3>1. /\ d[1] = Split(<<x, y, 0>>)[1] /\ d[2] = Split(<<x, y, 0>>)[2]
          /\ n >= 3 => d[3] = Split(<<x, y, 0>>)[3]
      BY <2>3, <2>7
    <3> HIDE DEF x, y
    <3> QED
      BY <2>1, <2>5, <3>1, JoinSplit
  <2>9. ret'[3 * k + 1] = buf[3 * k + 1]
    BY <1>5, <1>7, <2>3, <2>5, <2>8
  <2>10. n >= 3 => ret'[3 * k + 2] = buf[3 * k + 2]
    <3>1. n >= 3 => y = buf[3 * k + 2]
      BY <1>1, <2>3 DEF SecondByte
    <3> QED
      BY <1>5, <1>7, <2>3, <2>5, <2>8, <3>1
  <2>11. ASSUME NEW i \in 1 .. e
         PROVE  ret'[i] = buf[i]
    <3>1. CASE i <= 3 * k
      BY <1>5, <1>7, <2>6, <3>1
    <3>2. CASE i = 3 * k + 1
      BY <2>9, <3>2
    <3>3. CASE i > 3 * k + 1
      <4>1. i = 3 * k + 2 /\ n >= 3
        BY <1>1, <1>4, <2>3, <3>3
      <4> QED
        BY <2>10, <4>1
    <3> QED
      BY <3>1, <3>2, <3>3
  <2>12. Len(ret') = e
    <3>1. r = 3 * k /\ e \in Nat
      BY <1>1, <1>5, <1>7
    <3>2. r + (n - 1) = e
      BY <2>3, <3>1
    <3> QED
      BY <2>6, <3>2, Zenon
  <2>13. ret' = buf
    BY <1>1, <1>2, <2>6, <2>11, <2>12, SeqEqual
  <2> QED
    BY <1>3, <2>13
<1> QED
  BY <1>1, <1>8, <1>9

LEMMA InitInductive == Init => IInv
<1> SUFFICES ASSUME Init
             PROVE  IInv
  OBVIOUS
<1>1. TypeInv
  BY InitTypes
<1>2. pc = "encode" => text = <<>> /\ group = <<>> /\ at = 0 /\ ret = <<>>
  BY DEF Init
<1>3. pc # "encode" => ~encoded
  BY DEF Init
<1>4. pc # "done"
  BY DEF Init
<1>5. pc = "encode" => Encoding(0)
  <2>1. SUFFICES ASSUME pc = "encode"
                 PROVE  Encoding(0)
    OBVIOUS
  <2>2. Len(group) = 0 /\ Len(text) = 0 /\ at = 0
    BY <1>2, <2>1
  <2>3. 0 <= Len(buf)
    BY <1>1, Types
  <2> QED
    BY <2>2, <2>3 DEF Encoding
<1>6. pc = "encode" => ret = <<>> /\ \E k \in Nat : Encoding(k)
  BY <1>2, <1>5
<1> QED
  BY <1>1, <1>3, <1>4, <1>6, Zenon DEF IInv, RoundTrip

(* Every step keeps the invariant. *)
LEMMA StepInductive == IInv /\ [Next]_vars => IInv'
<1> SUFFICES ASSUME IInv, [Next]_vars
             PROVE  IInv'
  OBVIOUS
<1>1. TypeInv /\ TypeInv'
  BY StepTypes DEF IInv
<1>2. pc = "encode" => ret = <<>> /\ \E k \in Nat : Encoding(k)
  BY DEF IInv
<1>3. pc = "decode" /\ encoded => \E k, j \in Nat : Encoded(k) /\ Decoding(k, j)
  BY DEF IInv
<1>4. PICK n \in Nat, m \in Nat, r \in Nat :
          n = Len(group) /\ m = Len(text) /\ r = Len(ret)
  BY <1>1, Types
<1>5. CASE EncodeByte
  <2>1. pc = "encode" /\ pc' = pc /\ ret' = ret
    BY <1>5 DEF EncodeByte
  <2>2. PICK k \in Nat : Encoding(k)
    BY <1>2, <2>1
  <2>3. \E l \in Nat : Encoding(l)'
    BY <1>1, <1>5, <2>2, EncodeByteStep
  <2>4. ret' = <<>> /\ pc' # "decode" /\ pc' # "done"
    BY <1>2, <2>1
  <2> QED
    BY <1>1, <2>3, <2>4, Zenon DEF IInv, RoundTrip
<1>6. CASE EncodeEnd
  <2>1. pc = "encode" /\ pc' = "decode"
    BY <1>6 DEF EncodeEnd
  <2>2. PICK k \in Nat : Encoding(k)
    BY <1>2, <2>1
  <2>3. Encoded(k)' /\ Decoding(k, 0)'
    BY <1>1, <1>2, <1>6, <2>1, <2>2, EncodeEndStep
  <2>4. \E l, j \in Nat : Encoded(l)' /\ Decoding(l, j)'
    BY <2>3
  <2>5. pc' # "encode" /\ pc' # "done"
    BY <2>1
  <2> QED
    BY <1>1, <2>4, <2>5, Zenon DEF IInv, RoundTrip
<1>7. CASE DecodeChar
  <2>1. pc = "decode" /\ pc' = pc /\ encoded' = encoded
    BY <1>7 DEF DecodeChar
  <2>2. pc' # "encode" /\ pc' # "done"
    BY <2>1
  <2>3. ASSUME encoded
        PROVE  \E k, j \in Nat : Encoded(k)' /\ Decoding(k, j)'
    <3>1. PICK k \in Nat, j \in Nat : Encoded(k) /\ Decoding(k, j)
      BY <1>3, <2>1, <2>3
    <3>2. Encoded(k)' /\ \E l \in Nat : Decoding(k, l)'
      BY <1>1, <1>7, <3>1, DecodeCharStep
    <3> QED
      BY <3>2
  <2> QED
    BY <1>1, <2>1, <2>2, <2>3, Zenon DEF IInv, RoundTrip
<1>8. CASE DecodeEnd
  <2>1. pc = "decode" /\ pc' = "done" /\ encoded' = encoded
    BY <1>8 DEF DecodeEnd
  <2>2. pc' # "encode" /\ pc' # "decode"
    BY <2>1
  <2>3. ASSUME encoded
        PROVE  ret' = buf'
    <3>1. PICK k \in Nat, j \in Nat : Encoded(k) /\ Decoding(k, j)
      BY <1>3, <2>1, <2>3
    <3> QED
      BY <1>1, <1>8, <3>1, DecodeEndStep
  <2> QED
    BY <1>1, <2>1, <2>2, <2>3, Zenon DEF IInv, RoundTrip
<1>9. CASE UNCHANGED vars
  <2>1. /\ buf' = buf /\ encoded' = encoded /\ text' = text /\ group' = group
        /\ at' = at /\ ret' = ret /\ pc' = pc
    BY <1>9 DEF vars
  <2>2. \A k \in Nat : Encoding(k) => Encoding(k)'
    BY <2>1 DEF Encoding, Block
  <2>3. \A k, j \in Nat : Encoded(k) /\ Decoding(k, j)
                              => Encoded(k)' /\ Decoding(k, j)'
    <3>1. \A k \in Nat : Encoded(k) => Encoded(k)'
      BY <2>1 DEF Encoded, Block, SecondByte
    <3>2. \A k, j \in Nat : Decoding(k, j) => Decoding(k, j)'
      BY <2>1 DEF Decoding
    <3> QED
      BY <3>1, <3>2
  <2>4. pc' = "encode" => ret' = <<>> /\ \E k \in Nat : Encoding(k)'
    BY <1>2, <2>1, <2>2
  <2>5. pc' = "decode" /\ encoded' => \E k, j \in Nat : Encoded(k)' /\ Decoding(k, j)'
    BY <1>3, <2>1, <2>3, Zenon
  <2>6. pc' = "done" /\ encoded' => ret' = buf'
    BY <2>1, Zenon DEF IInv, RoundTrip
  <2> QED
    BY <1>1, <2>4, <2>5, <2>6, Zenon DEF IInv, RoundTrip
<1> QED
  BY <1>5, <1>6, <1>7, <1>8, <1>9 DEF Next

(***************************************************************************)
(* Whatever buffer base64_encode is given, of any length and any bytes,    *)
(* base64_decode returns that buffer: the padding hides nothing and adds   *)
(* nothing.                                                                *)
(***************************************************************************)
THEOREM RoundTripHolds == Spec => []RoundTrip
<1>1. IInv => RoundTrip
  BY DEF IInv
<1> QED
  BY <1>1, InitInductive, StepInductive, PTL DEF Spec

-----------------------------------------------------------------------------
(* The bits of a text and of the bytes it is decoded to. *)

(* Dividing twice is dividing by the product. *)
LEMMA DivDiv ==
    ASSUME NEW x \in Nat, NEW m \in Nat, NEW n \in Nat, m > 0, n > 0
    PROVE  x \div (m * n) = (x \div m) \div n
<1> DEFINE q == x \div m
           r == x % m
           p == q \div n
           s == q % n
<1>1. x = q * m + r /\ q \in Nat /\ r \in 0 .. m - 1
  BY DivMod
<1>2. q = p * n + s /\ p \in Nat /\ s \in 0 .. n - 1
  BY <1>1, DivMod
<1> HIDE DEF q, r, p, s
<1>3. x = p * (m * n) + (s * m + r)
  BY <1>1, <1>2
<1>4. s * m + r \in 0 .. n * m - 1
  BY <1>1, <1>2, Below
<1>5. m * n \in Nat /\ n * m = m * n
  OBVIOUS
<1>6. PICK l \in Nat : l = m * n
  BY <1>5
<1>7. PICK t \in 0 .. l - 1 : t = s * m + r
  BY <1>4, <1>5, <1>6
<1>8. (p * l + t) \div l = p
  BY <1>2, <1>6, <1>7, Unique
<1> QED
  BY <1>3, <1>6, <1>7, <1>8 DEF p, q

(* The quarters of a digit. *)
LEMMA DigitParts ==
    ASSUME NEW x \in Digit
    PROVE  \E a, b, c \in 0 .. Quarter - 1 :
               /\ x = (a * Quarter + b) * Quarter + c
               /\ (x \div Half) % Quarter = a /\ x \div Half = a
               /\ (x \div Quarter) % Quarter = b /\ x \div Quarter = a * Quarter + b
               /\ (x \div 1) % Quarter = c /\ x % Quarter = c
               /\ x % Half = b * Quarter + c
<1>1. x \in Nat /\ x < Half * Quarter
  BY Sizes DEF Digit
<1>2. x \div 1 = x
  BY <1>1
<1> DEFINE y == x \div Quarter
           c == x % Quarter
           a == y \div Quarter
           b == y % Quarter
<1>3. x = y * Quarter + c /\ y \in Nat /\ c \in 0 .. Quarter - 1 /\ y < Half
  BY <1>1, Sizes, DivMod
<1>4. /\ y = a * Quarter + b /\ a \in Nat /\ b \in 0 .. Quarter - 1
      /\ a < Quarter
  <2>1. y < Quarter * Quarter
    BY <1>3 DEF Half
  <2> HIDE DEF y
  <2> QED
    BY <1>3, <2>1, Sizes, DivMod
<1>5. x \div Half = a
  BY <1>1, Sizes, DivDiv DEF Half
<1> HIDE DEF y, c, a, b
<1>6. a \in 0 .. Quarter - 1
  BY <1>4, Sizes
<1>7. a % Quarter = a
  BY <1>6, Sizes, Small
<1>8. x % Half = b * Quarter + c
  <2>1. x = a * Half + (b * Quarter + c)
    BY <1>3, <1>4, Sizes DEF Half
  <2>2. b * Quarter + c \in 0 .. Half - 1
    BY <1>3, <1>4, Sizes, Below DEF Half
  <2>3. PICK t \in 0 .. Half - 1 : t = b * Quarter + c
    BY <2>2
  <2>4. (a * Half + t) % Half = t
    BY <1>6, Sizes, Unique
  <2> QED
    BY <2>1, <2>3, <2>4
<1>9. x = (a * Quarter + b) * Quarter + c
  BY <1>3, <1>4
<1>10. (x \div Quarter) % Quarter = b /\ x \div Quarter = a * Quarter + b
  BY <1>4 DEF y, b
<1>11. x % Quarter = c
  BY DEF c
<1> QED
  BY <1>2, <1>3, <1>4, <1>5, <1>6, <1>7, <1>8, <1>9, <1>10, <1>11

(* The quarters of a byte. *)
LEMMA ByteParts ==
    ASSUME NEW a \in 0 .. Quarter - 1, NEW b \in 0 .. Quarter - 1,
           NEW c \in 0 .. Quarter - 1, NEW e \in 0 .. Quarter - 1,
           NEW z, z = ((a * Quarter + b) * Quarter + c) * Quarter + e
    PROVE  /\ (AsByte(z) \div (Half * Quarter)) % Quarter = a
           /\ (AsByte(z) \div Half) % Quarter = b
           /\ (AsByte(z) \div Quarter) % Quarter = c
           /\ (AsByte(z) \div 1) % Quarter = e
<1> DEFINE x == a * Quarter + b
           y == x * Quarter + c
<1>1. Quarter \in Nat /\ Quarter > 0 /\ a \in Nat
  BY Sizes
<1>2. x \in 0 .. Half - 1 /\ x \in Nat
  BY Sizes, Below DEF Half
<1>3. x \div Quarter = a /\ x % Quarter = b
  BY <1>1, Unique
<1> HIDE DEF x
<1>4. y \in 0 .. Half * Quarter - 1 /\ y \in Nat
  BY <1>2, Sizes, Below
<1>5. y \div Quarter = x /\ y % Quarter = c
  BY <1>1, <1>2, Unique
<1> HIDE DEF y
<1>6. y * Quarter + e \in 0 .. (Half * Quarter) * Quarter - 1
  BY <1>4, Sizes, Below
<1>7. z = y * Quarter + e
  BY DEF x, y
<1>8. z \in 0 .. Half * Half - 1 /\ z \in Nat
  BY <1>6, <1>7, Sizes DEF Half
<1>9. AsByte(z) = z
  BY <1>8, Sizes, Small DEF AsByte
<1>10. z \div Quarter = y /\ z % Quarter = e
  <2>1. (y * Quarter + e) \div Quarter = y /\ (y * Quarter + e) % Quarter = e
    BY <1>1, <1>4, Unique
  <2> QED
    BY <1>7, <2>1
<1>11. z \div Half = x
  BY <1>1, <1>5, <1>8, <1>10, DivDiv DEF Half
<1>12. z \div (Half * Quarter) = a
  BY <1>1, <1>3, <1>8, <1>11, Sizes, DivDiv
<1>13. a % Quarter = a /\ z \div 1 = z
  BY <1>1, <1>8, Small
<1> QED
  BY <1>3, <1>5, <1>9, <1>10, <1>11, <1>12, <1>13

(* The quarters of four digits are those of three bytes, in that order. *)
LEMMA JoinQuarters ==
    ASSUME NEW d, \A i \in 1 .. 4 : d[i] \in Nat, d[1] \in Digit, d[2] \in Digit
    PROVE  /\ (Join(d)[1] \div (Half * Quarter)) % Quarter = (d[1] \div Half) % Quarter
           /\ (Join(d)[1] \div Half) % Quarter = (d[1] \div Quarter) % Quarter
           /\ (Join(d)[1] \div Quarter) % Quarter = (d[1] \div 1) % Quarter
           /\ (Join(d)[1] \div 1) % Quarter = (d[2] \div Half) % Quarter
           /\ d[3] \in Digit =>
              /\ (Join(d)[2] \div (Half * Quarter)) % Quarter
                     = (d[2] \div Quarter) % Quarter
              /\ (Join(d)[2] \div Half) % Quarter = (d[2] \div 1) % Quarter
              /\ (Join(d)[2] \div Quarter) % Quarter = (d[3] \div Half) % Quarter
              /\ (Join(d)[2] \div 1) % Quarter = (d[3] \div Quarter) % Quarter
           /\ d[3] \in Digit /\ d[4] \in Digit =>
              /\ (Join(d)[3] \div (Half * Quarter)) % Quarter
                     = (d[3] \div 1) % Quarter
              /\ (Join(d)[3] \div Half) % Quarter = (d[4] \div Half) % Quarter
              /\ (Join(d)[3] \div Quarter) % Quarter = (d[4] \div Quarter) % Quarter
              /\ (Join(d)[3] \div 1) % Quarter = (d[4] \div 1) % Quarter
<1> DEFINE Has(x, a, b, c) ==
               /\ x = (a * Quarter + b) * Quarter + c
               /\ (x \div Half) % Quarter = a /\ x \div Half = a
               /\ (x \div Quarter) % Quarter = b /\ x \div Quarter = a * Quarter + b
               /\ (x \div 1) % Quarter = c /\ x % Quarter = c
               /\ x % Half = b * Quarter + c
           Byte4(z, a, b, c, e) ==
               /\ (AsByte(z) \div (Half * Quarter)) % Quarter = a
               /\ (AsByte(z) \div Half) % Quarter = b
               /\ (AsByte(z) \div Quarter) % Quarter = c
               /\ (AsByte(z) \div 1) % Quarter = e
<1>1. \A x \in Digit : \E a, b, c \in 0 .. Quarter - 1 : Has(x, a, b, c)
  BY DigitParts
<1>2. \A a, b, c, e \in 0 .. Quarter - 1 :
          Byte4(((a * Quarter + b) * Quarter + c) * Quarter + e, a, b, c, e)
  BY ByteParts
<1> HIDE DEF Has, Byte4
<1>3. PICK a1, b1, c1 \in 0 .. Quarter - 1 : Has(d[1], a1, b1, c1)
  BY <1>1
<1>4. PICK a2, b2, c2 \in 0 .. Quarter - 1 : Has(d[2], a2, b2, c2)
  BY <1>1
<1>5. Byte4(d[1] * Quarter + ((d[2] \div Half) % Quarter), a1, b1, c1, a2)
  <2>1. d[1] * Quarter + ((d[2] \div Half) % Quarter)
          = ((a1 * Quarter + b1) * Quarter + c1) * Quarter + a2
    BY <1>3, <1>4 DEF Has
  <2> QED
    BY <1>2, <2>1
<1>6. ASSUME d[3] \in Digit
      PROVE  \E a3, b3, c3 \in 0 .. Quarter - 1 :
                 /\ Has(d[3], a3, b3, c3)
                 /\ Byte4((d[2] % Half) * Half + ((d[3] \div Quarter) % Half),
                          b2, c2, a3, b3)
  <2>1. PICK a3, b3, c3 \in 0 .. Quarter - 1 : Has(d[3], a3, b3, c3)
    BY <1>1, <1>6
  <2>2. (d[3] \div Quarter) % Half = a3 * Quarter + b3
    <3>1. PICK t \in 0 .. Half - 1 : t = a3 * Quarter + b3
      BY Sizes, Below DEF Half
    <3> QED
      BY <2>1, <3>1, Sizes, Small DEF Has
  <2>3. (d[2] % Half) * Half + ((d[3] \div Quarter) % Half)
          = ((b2 * Quarter + c2) * Quarter + a3) * Quarter + b3
    BY <1>4, <2>2, Sizes DEF Has, Half
  <2> QED
    BY <1>2, <2>1, <2>3
<1>7. ASSUME NEW a3 \in 0 .. Quarter - 1, NEW b3 \in 0 .. Quarter - 1,
             NEW c3 \in 0 .. Quarter - 1, Has(d[3], a3, b3, c3), d[4] \in Digit
      PROVE  \E a4, b4, c4 \in 0 .. Quarter - 1 :
                 /\ Has(d[4], a4, b4, c4)
                 /\ Byte4((d[3] % Quarter) * (Half * Quarter) + d[4],
                          c3, a4, b4, c4)
  <2>1. PICK a4, b4, c4 \in 0 .. Quarter - 1 : Has(d[4], a4, b4, c4)
    BY <1>1, <1>7
  <2>2. (d[3] % Quarter) * (Half * Quarter) + d[4]
          = ((c3 * Quarter + a4) * Quarter + b4) * Quarter + c4
    <3>1. d[3] % Quarter = c3 /\ d[4] = (a4 * Quarter + b4) * Quarter + c4
      BY <1>7, <2>1 DEF Has
    <3>2. ((c3 * Quarter + a4) * Quarter + b4) * Quarter + c4
            = (c3 * Half + a4 * Quarter + b4) * Quarter + c4
      BY Sizes DEF Half
    <3>3. (c3 * Half + a4 * Quarter + b4) * Quarter + c4
            = c3 * (Half * Quarter) + ((a4 * Quarter + b4) * Quarter + c4)
      BY Sizes
    <3> QED
      BY <3>1, <3>2, <3>3
  <2> QED
    BY <1>2, <2>1, <2>2
<1>8. /\ (Join(d)[1] \div (Half * Quarter)) % Quarter = (d[1] \div Half) % Quarter
      /\ (Join(d)[1] \div Half) % Quarter = (d[1] \div Quarter) % Quarter
      /\ (Join(d)[1] \div Quarter) % Quarter = (d[1] \div 1) % Quarter
      /\ (Join(d)[1] \div 1) % Quarter = (d[2] \div Half) % Quarter
  BY <1>3, <1>4, <1>5, JoinBytes DEF Has, Byte4
<1>9. ASSUME d[3] \in Digit
      PROVE  /\ (Join(d)[2] \div (Half * Quarter)) % Quarter
                    = (d[2] \div Quarter) % Quarter
             /\ (Join(d)[2] \div Half) % Quarter = (d[2] \div 1) % Quarter
             /\ (Join(d)[2] \div Quarter) % Quarter = (d[3] \div Half) % Quarter
             /\ (Join(d)[2] \div 1) % Quarter = (d[3] \div Quarter) % Quarter
  BY <1>4, <1>6, <1>9, JoinBytes DEF Has, Byte4
<1>10. ASSUME d[3] \in Digit, d[4] \in Digit
       PROVE  /\ (Join(d)[3] \div (Half * Quarter)) % Quarter
                     = (d[3] \div 1) % Quarter
              /\ (Join(d)[3] \div Half) % Quarter = (d[4] \div Half) % Quarter
              /\ (Join(d)[3] \div Quarter) % Quarter = (d[4] \div Quarter) % Quarter
              /\ (Join(d)[3] \div 1) % Quarter = (d[4] \div 1) % Quarter
  <2>1. PICK a3, b3, c3 \in 0 .. Quarter - 1 : Has(d[3], a3, b3, c3)
    BY <1>6, <1>10
  <2>2. PICK a4, b4, c4 \in 0 .. Quarter - 1 :
            /\ Has(d[4], a4, b4, c4)
            /\ Byte4((d[3] % Quarter) * (Half * Quarter) + d[4], c3, a4, b4, c4)
    BY <1>7, <1>10, <2>1
  <2> QED
    BY <2>1, <2>2, JoinBytes DEF Has, Byte4
<1> QED
  BY <1>8, <1>9, <1>10

(* Where the quarters of the i-th of three bytes are. *)
LEMMA ByteAt ==
    ASSUME NEW s, NEW j \in Nat, NEW i \in 1 .. 3
    PROVE  /\ ByteQuarter(s, 12 * j + 4 * (i - 1))
                = (s[3 * j + i] \div (Half * Quarter)) % Quarter
           /\ ByteQuarter(s, 12 * j + 4 * (i - 1) + 1) = (s[3 * j + i] \div Half) % Quarter
           /\ ByteQuarter(s, 12 * j + 4 * (i - 1) + 2)
                = (s[3 * j + i] \div Quarter) % Quarter
           /\ ByteQuarter(s, 12 * j + 4 * (i - 1) + 3) = (s[3 * j + i] \div 1) % Quarter
<1> DEFINE q == 12 * j + 4 * (i - 1)
<1>1. /\ (q \div 4) + 1 = 3 * j + i /\ (q % 4) + 1 = 1
      /\ ((q + 1) \div 4) + 1 = 3 * j + i /\ ((q + 1) % 4) + 1 = 2
      /\ ((q + 2) \div 4) + 1 = 3 * j + i /\ ((q + 2) % 4) + 1 = 3
      /\ ((q + 3) \div 4) + 1 = 3 * j + i /\ ((q + 3) % 4) + 1 = 4
  OBVIOUS
<1> DEFINE w == <<Half * Quarter, Half, Quarter, 1>>
<1>2. w[1] = Half * Quarter /\ w[2] = Half /\ w[3] = Quarter /\ w[4] = 1
  OBVIOUS
<1>3. \A p : ByteQuarter(s, p) = (s[(p \div 4) + 1] \div w[(p % 4) + 1]) % Quarter
  BY DEF ByteQuarter
<1> HIDE DEF q, w
<1> QED
  BY <1>1, <1>2, <1>3, Zenon DEF q

(* Where the quarters of the i-th of four digits are. *)
LEMMA DigitAt ==
    ASSUME NEW t, NEW j \in Nat, NEW i \in 1 .. 4
    PROVE  /\ DigitQuarter(t, 12 * j + 3 * (i - 1)) = (t[4 * j + i] \div Half) % Quarter
           /\ DigitQuarter(t, 12 * j + 3 * (i - 1) + 1)
                = (t[4 * j + i] \div Quarter) % Quarter
           /\ DigitQuarter(t, 12 * j + 3 * (i - 1) + 2) = (t[4 * j + i] \div 1) % Quarter
<1> DEFINE q == 12 * j + 3 * (i - 1)
<1>1. /\ (q \div 3) + 1 = 4 * j + i /\ (q % 3) + 1 = 1
      /\ ((q + 1) \div 3) + 1 = 4 * j + i /\ ((q + 1) % 3) + 1 = 2
      /\ ((q + 2) \div 3) + 1 = 4 * j + i /\ ((q + 2) % 3) + 1 = 3
  OBVIOUS
<1> DEFINE w == <<Half, Quarter, 1>>
<1>2. w[1] = Half /\ w[2] = Quarter /\ w[3] = 1
  OBVIOUS
<1>3. \A p : DigitQuarter(t, p) = (t[(p \div 3) + 1] \div w[(p % 3) + 1]) % Quarter
  BY DEF DigitQuarter
<1> HIDE DEF q, w
<1> QED
  BY <1>1, <1>2, <1>3, Zenon DEF q

(* b bytes of the bytes s come from the units d, of which b + 1 are digits. *)
(* The group is the j-th of s and of the text t.                           *)
MadeOf(s, t, j, b, d) ==
    /\ \A i \in 1 .. 4 : d[i] \in Nat
    /\ \A i \in 1 .. b + 1 : d[i] \in Digit /\ t[4 * j + i] = d[i]
    /\ \A i \in 1 .. b : s[3 * j + i] = Join(d)[i]

SameQuarters(s, t, j, b) ==
    \A u \in 0 .. 4 * b - 1 :
        ByteQuarter(s, 12 * j + u) = DigitQuarter(t, 12 * j + u)

(* The first bytes of a group have the quarters of its digits. *)
LEMMA GroupQuarters ==
    ASSUME NEW s, NEW t, NEW j \in Nat, NEW b \in 1 .. 3, NEW d,
           MadeOf(s, t, j, b, d)
    PROVE  SameQuarters(s, t, j, b)
<1> USE DEF MadeOf
<1> DEFINE Same(u) == ByteQuarter(s, 12 * j + u) = DigitQuarter(t, 12 * j + u)
<1>1. d[1] \in Digit /\ d[2] \in Digit /\ t[4 * j + 1] = d[1] /\ t[4 * j + 2] = d[2]
      /\ s[3 * j + 1] = Join(d)[1]
  OBVIOUS
<1>2. Same(0) /\ Same(1) /\ Same(2) /\ Same(3)
  <2>1. /\ ByteQuarter(s, 12 * j + 0) = (Join(d)[1] \div (Half * Quarter)) % Quarter
        /\ ByteQuarter(s, 12 * j + 1) = (Join(d)[1] \div Half) % Quarter
        /\ ByteQuarter(s, 12 * j + 2) = (Join(d)[1] \div Quarter) % Quarter
        /\ ByteQuarter(s, 12 * j + 3) = (Join(d)[1] \div 1) % Quarter
    BY <1>1, ByteAt
  <2>2. /\ DigitQuarter(t, 12 * j + 0) = (d[1] \div Half) % Quarter
        /\ DigitQuarter(t, 12 * j + 1) = (d[1] \div Quarter) % Quarter
        /\ DigitQuarter(t, 12 * j + 2) = (d[1] \div 1) % Quarter
        /\ DigitQuarter(t, 12 * j + 3) = (d[2] \div Half) % Quarter
    BY <1>1, DigitAt
  <2> QED
    BY <1>1, <2>1, <2>2, JoinQuarters
<1>3. b >= 2 => Same(4) /\ Same(5) /\ Same(6) /\ Same(7)
  <2>1. SUFFICES ASSUME b >= 2
                 PROVE  Same(4) /\ Same(5) /\ Same(6) /\ Same(7)
    OBVIOUS
  <2>2. d[3] \in Digit /\ t[4 * j + 3] = d[3] /\ s[3 * j + 2] = Join(d)[2]
    BY <2>1
  <2>3. /\ ByteQuarter(s, 12 * j + 4) = (Join(d)[2] \div (Half * Quarter)) % Quarter
        /\ ByteQuarter(s, 12 * j + 5) = (Join(d)[2] \div Half) % Quarter
        /\ ByteQuarter(s, 12 * j + 6) = (Join(d)[2] \div Quarter) % Quarter
        /\ ByteQuarter(s, 12 * j + 7) = (Join(d)[2] \div 1) % Quarter
    BY <2>2, ByteAt
  <2>4. /\ DigitQuarter(t, 12 * j + 4) = (d[2] \div Quarter) % Quarter
        /\ DigitQuarter(t, 12 * j + 5) = (d[2] \div 1) % Quarter
        /\ DigitQuarter(t, 12 * j + 6) = (d[3] \div Half) % Quarter
        /\ DigitQuarter(t, 12 * j + 7) = (d[3] \div Quarter) % Quarter
    BY <1>1, <2>2, DigitAt
  <2> QED
    BY <1>1, <2>2, <2>3, <2>4, JoinQuarters
<1>4. b >= 3 => Same(8) /\ Same(9) /\ Same(10) /\ Same(11)
  <2>1. SUFFICES ASSUME b >= 3
                 PROVE  Same(8) /\ Same(9) /\ Same(10) /\ Same(11)
    OBVIOUS
  <2>2. /\ d[3] \in Digit /\ t[4 * j + 3] = d[3] /\ s[3 * j + 3] = Join(d)[3]
        /\ d[4] \in Digit /\ t[4 * j + 4] = d[4]
    BY <2>1
  <2>3. /\ ByteQuarter(s, 12 * j + 8) = (Join(d)[3] \div (Half * Quarter)) % Quarter
        /\ ByteQuarter(s, 12 * j + 9) = (Join(d)[3] \div Half) % Quarter
        /\ ByteQuarter(s, 12 * j + 10) = (Join(d)[3] \div Quarter) % Quarter
        /\ ByteQuarter(s, 12 * j + 11) = (Join(d)[3] \div 1) % Quarter
    BY <2>2, ByteAt
  <2>4. /\ DigitQuarter(t, 12 * j + 8) = (d[3] \div 1) % Quarter
        /\ DigitQuarter(t, 12 * j + 9) = (d[4] \div Half) % Quarter
        /\ DigitQuarter(t, 12 * j + 10) = (d[4] \div Quarter) % Quarter
        /\ DigitQuarter(t, 12 * j + 11) = (d[4] \div 1) % Quarter
    BY <2>2, DigitAt
  <2> QED
    BY <1>1, <2>2, <2>3, <2>4, JoinQuarters
<1> HIDE DEF Same, MadeOf
<1>5. ASSUME NEW u \in 0 .. 4 * b - 1
      PROVE  Same(u)
  <2>1. CASE u < 4
    BY <1>2, <2>1
  <2>2. CASE u >= 4 /\ u < 8
    BY <1>3, <2>2
  <2>3. CASE u >= 8
    BY <1>4, <2>3
  <2> QED
    BY <2>1, <2>2, <2>3
<1> QED
  BY <1>5 DEF Same, SameQuarters

(* The bytes s and the digits t have their first n quarters in common. *)
SameUpTo(s, t, n) ==
    \A q \in 0 .. n - 1 : ByteQuarter(s, q) = DigitQuarter(t, q)

(* The digits taken, and the quarters of the bytes they have made. *)
Prefix(j) ==
    /\ at = 4 * j + Len(group) /\ at <= Len(text) /\ Len(ret) = 3 * j
    /\ \A i \in 1 .. at : text[i] \in Digit
    /\ \A i \in 1 .. Len(group) : group[i] = text[4 * j + i]
    /\ SameUpTo(ret, text, 12 * j)

PrefixInv ==
    /\ TypeInv
    /\ pc = "encode" => ret = <<>>
    /\ pc = "decode" => \E j \in Nat : Prefix(j)
    /\ DecodesPrefix

(* Bytes that follow leave the quarters before them alone. *)
LEMMA KeptQuarters ==
    ASSUME NEW r \in Nat, NEW s, NEW t, \A i \in 1 .. r : t[i] = s[i]
    PROVE  \A q \in 0 .. 4 * r - 1 : ByteQuarter(t, q) = ByteQuarter(s, q)
<1> TAKE q \in 0 .. 4 * r - 1
<1>1. (q \div 4) + 1 \in 1 .. r
  OBVIOUS
<1> QED
  BY <1>1 DEF ByteQuarter

(* More bytes and their digits. *)
LEMMA MoreQuarters ==
    ASSUME NEW j \in Nat, NEW b \in Nat, NEW s, NEW u, NEW t,
           SameUpTo(s, t, 12 * j), \A i \in 1 .. 3 * j : u[i] = s[i],
           SameQuarters(u, t, j, b)
    PROVE  SameUpTo(u, t, 12 * j + 4 * b)
<1> SUFFICES ASSUME NEW q \in 0 .. (12 * j + 4 * b) - 1
             PROVE  ByteQuarter(u, q) = DigitQuarter(t, q)
  BY DEF SameUpTo
<1>1. CASE q < 12 * j
  <2>1. PICK r \in Nat : r = 3 * j
    OBVIOUS
  <2>2. q \in 0 .. 12 * j - 1 /\ q \in 0 .. 4 * r - 1
    BY <1>1, <2>1
  <2>3. \A i \in 1 .. r : u[i] = s[i]
    BY <2>1
  <2>4. ByteQuarter(u, q) = ByteQuarter(s, q)
    BY <2>2, <2>3, KeptQuarters
  <2> QED
    BY <2>2, <2>4 DEF SameUpTo
<1>2. CASE q >= 12 * j
  <2>1. PICK v \in 0 .. 4 * b - 1 : q = 12 * j + v
    <3>1. q - 12 * j \in 0 .. 4 * b - 1 /\ q = 12 * j + (q - 12 * j)
      BY <1>2
    <3> QED
      BY <3>1
  <2> QED
    BY <2>1 DEF SameQuarters
<1> QED
  BY <1>1, <1>2

(* A digit is one more of the prefix. *)
LEMMA DecodeCharPrefix ==
    ASSUME TypeInv, DecodeChar, NEW j \in Nat, Prefix(j)
    PROVE  \E l \in Nat : Prefix(l)'
<1>1. PICK n \in Nat, m \in Nat, r \in Nat :
          n = Len(group) /\ m = Len(text) /\ r = Len(ret)
  BY Types
<1>2. at \in Nat
  BY Types
<1>3. /\ at < m /\ at' = at + 1 /\ text' = text
      /\ text[at + 1] \in Digit /\ n <= 3
  BY <1>1, DecodeCharEffect
<1>4. /\ at = 4 * j + n /\ r = 3 * j
      /\ \A i \in 1 .. at : text[i] \in Digit
      /\ \A i \in 1 .. n : group[i] = text[4 * j + i]
      /\ SameUpTo(ret, text, 12 * j)
  BY <1>1 DEF Prefix
<1>5. at' <= m /\ \A i \in 1 .. at' : text'[i] \in Digit
  <2>1. \A i \in 1 .. at' : i \in 1 .. at \/ i = at + 1
    BY <1>2, <1>3
  <2> QED
    BY <1>1, <1>2, <1>3, <1>4, <2>1
<1>6. CASE DigitCollected(n)
  <2>1. /\ ret' = ret /\ Len(group') = n + 1 /\ group'[n + 1] = text[at + 1]
        /\ \A i \in 1 .. n : group'[i] = group[i]
    BY <1>6 DEF DigitCollected
  <2>2. ASSUME NEW i \in 1 .. n + 1
        PROVE  group'[i] = text'[4 * j + i]
    <3>1. CASE i <= n
      <4>1. i \in 1 .. n
        BY <3>1
      <4>2. group'[i] = group[i] /\ group[i] = text[4 * j + i]
        BY <1>4, <2>1, <4>1, Zenon
      <4> QED
        BY <1>3, <4>2
    <3>2. CASE i = n + 1
      <4>1. 4 * j + i = at + 1
        BY <1>4, <3>2
      <4> QED
        BY <1>3, <2>1, <3>2, <4>1
    <3> QED
      BY <3>1, <3>2
  <2>3. at' = 4 * j + (n + 1)
    BY <1>3, <1>4
  <2>4. Len(ret') = 3 * j /\ Len(text') = m
    BY <1>1, <1>3, <1>4, <2>1
  <2>5. SameUpTo(ret', text', 12 * j)
    BY <1>3, <1>4, <2>1, Zenon
  <2>6. Prefix(j)'
    BY <1>5, <2>1, <2>2, <2>3, <2>4, <2>5 DEF Prefix
  <2> QED
    BY <2>6
<1>7. CASE ThreeBytes(n, r)
  <2>1. /\ n >= 3 /\ group' = <<>> /\ Len(ret') = r + 3
        /\ \A i \in 1 .. r : ret'[i] = ret[i]
    BY <1>7 DEF ThreeBytes
  <2>2. PICK d : /\ \A i \in 1 .. 3 : d[i] = group[i]
                 /\ d[4] = text[at + 1]
                 /\ \A i \in 1 .. 4 : d[i] \in Digit
                 /\ \A i \in 1 .. 3 : ret'[r + i] = Join(d)[i]
    BY <1>7 DEF ThreeBytes
  <2>3. at + 1 = 4 * j + 4 /\ at' = 4 * (j + 1) /\ Len(ret') = 3 * (j + 1)
    BY <1>3, <1>4, <2>1
  <2>4. SameQuarters(ret', text, j, 3)
    <3>1. \A i \in 1 .. 4 : d[i] \in Nat
      BY <2>2, Kinds
    <3>2. \A i \in 1 .. 3 + 1 : d[i] \in Digit /\ text[4 * j + i] = d[i]
      <4>1. \A i \in 1 .. 3 : text[4 * j + i] = d[i]
        <5>1. \A i \in 1 .. 3 : i \in 1 .. n
          BY <1>1, <2>1
        <5> QED
          BY <1>4, <2>2, <5>1
      <4>2. text[4 * j + 4] = d[4]
        BY <2>2, <2>3
      <4>3. \A i \in 1 .. 3 + 1 : i \in 1 .. 3 \/ i = 4
        OBVIOUS
      <4> QED
        BY <2>2, <4>1, <4>2, <4>3
    <3>3. \A i \in 1 .. 3 : ret'[3 * j + i] = Join(d)[i]
      BY <1>4, <2>2
    <3>4. MadeOf(ret', text, j, 3, d)
      BY <3>1, <3>2, <3>3 DEF MadeOf
    <3>5. 3 \in 1 .. 3
      OBVIOUS
    <3> QED
      BY <3>4, <3>5, GroupQuarters
  <2>5. SameUpTo(ret', text, 12 * j + 4 * 3)
    <3>1. \A i \in 1 .. 3 * j : ret'[i] = ret[i]
      BY <1>4, <2>1
    <3>2. 3 \in Nat
      OBVIOUS
    <3> QED
      BY <1>4, <2>4, <3>1, <3>2, MoreQuarters
  <2>6. PICK l \in Nat : l = j + 1
    OBVIOUS
  <2>7. SameUpTo(ret', text', 12 * l)
    <3>1. 12 * l = 12 * j + 4 * 3
      BY <2>6
    <3> QED
      BY <1>3, <2>5, <3>1
  <2>8. Len(group') = 0 /\ Len(text') = m
    BY <1>1, <1>3, <2>1
  <2>9. at' = 4 * l + Len(group') /\ Len(ret') = 3 * l
    BY <2>3, <2>6, <2>8
  <2>10. \A i \in 1 .. Len(group') : group'[i] = text'[4 * l + i]
    BY <2>8
  <2>11. Prefix(l)'
    BY <1>5, <2>7, <2>8, <2>9, <2>10 DEF Prefix
  <2> QED
    BY <2>6, <2>11
<1> QED
  BY <1>1, <1>6, <1>7, DecodeCharEffect

(* The end of the digits ends the prefix. *)
LEMMA DecodeEndPrefix ==
    ASSUME TypeInv, DecodeEnd, NEW j \in Nat, Prefix(j)
    PROVE  DecodesPrefix'
<1>1. PICK n \in Nat, m \in Nat, r \in Nat :
          n = Len(group) /\ m = Len(text) /\ r = Len(ret)
  BY Types
<1>2. at \in Nat
  BY Types
<1>3. text' = text /\ ~HasDigit /\ n <= 3
  BY <1>1, DecodeEndEffect
<1>4. /\ at = 4 * j + n /\ at <= m /\ r = 3 * j
      /\ \A i \in 1 .. at : text[i] \in Digit
      /\ \A i \in 1 .. n : group[i] = text[4 * j + i]
      /\ SameUpTo(ret, text, 12 * j)
  BY <1>1 DEF Prefix
<1>5. PICK c \in Nat : c = at
  BY <1>2
<1>6. c \in 0 .. Len(text') /\ DigitsEndAt(c)'
  <2>1. c <= Len(text') /\ \A i \in 1 .. c : text'[i] \in Digit
    BY <1>1, <1>3, <1>4, <1>5
  <2>2. c < Len(text') => text'[c + 1] \notin Digit
    BY <1>3, <1>5 DEF HasDigit
  <2>3. Len(text') \in Nat
    BY <1>1, <1>3
  <2> QED
    BY <2>1, <2>2, <2>3 DEF DigitsEndAt
<1>7. n \in Nat /\ c = 4 * j + n
  BY <1>1, <1>4, <1>5
<1>8. ASSUME NEW b \in Nat, Len(ret') = 3 * j + b, 3 * j + b = (3 * c) \div 4,
             SameUpTo(ret', text', 12 * j + 4 * b)
      PROVE  DecodesPrefix'
  <2>1. 4 * Len(ret') = 12 * j + 4 * b
    BY <1>8
  <2>2. \A q \in 0 .. 4 * Len(ret') - 1 :
            ByteQuarter(ret', q) = DigitQuarter(text', q)
    BY <1>8, <2>1 DEF SameUpTo
  <2>3. Len(ret') = (3 * c) \div 4
    BY <1>8
  <2> QED
    BY <1>6, <2>2, <2>3 DEF DecodesPrefix, ByteQuarter, DigitQuarter
<1>9. CASE n <= 1 /\ ret' = ret
  <2>1. 3 * j + 0 = (3 * c) \div 4
    BY <1>7, <1>9
  <2>2. Len(ret') = 3 * j + 0
    <3>1. Len(ret') = r
      BY <1>1, <1>9
    <3> QED
      BY <1>4, <3>1
  <2>3. SameUpTo(ret', text', 12 * j + 4 * 0)
    <3>1. 12 * j + 4 * 0 = 12 * j
      OBVIOUS
    <3> QED
      BY <1>3, <1>4, <1>9, <3>1
  <2> QED
    BY <1>8, <2>1, <2>2, <2>3
<1>10. CASE LastBytes(n, r)
  <2>1. /\ n >= 2 /\ Len(ret') = r + (n - 1)
        /\ \A i \in 1 .. r : ret'[i] = ret[i]
    BY <1>10 DEF LastBytes
  <2>2. PICK d : /\ \A i \in 1 .. n : d[i] = group[i] /\ d[i] \in Digit
                 /\ \A i \in 1 .. 4 : d[i] \in Nat
                 /\ \A i \in 1 .. n - 1 : ret'[r + i] = Join(d)[i]
    BY <1>10 DEF LastBytes
  <2>3. PICK b \in 1 .. 3 : b = n - 1
    BY <1>3, <1>7, <2>1
  <2>4. b \in Nat /\ n = b + 1
    BY <1>7, <2>3
  <2>5. SameQuarters(ret', text', j, b)
    <3>1. \A i \in 1 .. b + 1 : d[i] \in Digit /\ text'[4 * j + i] = d[i]
      BY <1>3, <1>4, <2>2, <2>4
    <3>2. \A i \in 1 .. b : ret'[3 * j + i] = Join(d)[i]
      BY <1>4, <2>2, <2>3
    <3>3. MadeOf(ret', text', j, b, d)
      BY <2>2, <3>1, <3>2 DEF MadeOf
    <3>4. b \in 1 .. 3
      BY <2>3
    <3> QED
      BY <3>3, <3>4, GroupQuarters
  <2>6. SameUpTo(ret', text', 12 * j + 4 * b)
    <3>1. \A i \in 1 .. 3 * j : ret'[i] = ret[i]
      BY <1>4, <2>1
    <3>2. SameUpTo(ret, text', 12 * j)
      BY <1>3, <1>4
    <3> QED
      BY <2>4, <2>5, <3>1, <3>2, MoreQuarters
  <2>7. Len(ret') = 3 * j + b
    BY <1>4, <2>1, <2>3
  <2>8. 3 * j + b = (3 * c) \div 4
    BY <1>7, <2>3, <2>4
  <2> QED
    BY <1>8, <2>4, <2>6, <2>7, <2>8
<1> QED
  BY <1>1, <1>9, <1>10, DecodeEndEffect

LEMMA PrefixInductive == PrefixInv /\ [Next]_vars => PrefixInv'
<1> SUFFICES ASSUME PrefixInv, [Next]_vars
             PROVE  PrefixInv'
  OBVIOUS
<1>1. TypeInv /\ TypeInv'
  BY StepTypes DEF PrefixInv
<1>2. CASE EncodeByte
  <2>1. pc' = "encode" /\ ret' = <<>>
    BY <1>2 DEF EncodeByte, PrefixInv
  <2> QED
    BY <1>1, <2>1 DEF PrefixInv, DecodesPrefix
<1>3. CASE EncodeEnd
  <2>1. pc' = "decode" /\ ret' = <<>> /\ group' = <<>> /\ at' = 0
    BY <1>3 DEF EncodeEnd, PrefixInv
  <2>2. Len(ret') = 0 /\ Len(group') = 0
    BY <2>1
  <2>3. 0 <= Len(text')
    <3>1. text' \in Seq(Char)
      BY <1>1 DEF TypeInv, TypeOK
    <3> QED
      BY <3>1
  <2>4. Prefix(0)'
    BY <2>1, <2>2, <2>3 DEF Prefix, SameUpTo
  <2> QED
    BY <1>1, <2>1, <2>4 DEF PrefixInv, DecodesPrefix
<1>4. CASE DecodeChar
  <2>1. pc = "decode" /\ pc' = "decode"
    BY <1>4 DEF DecodeChar
  <2>2. \E l \in Nat : Prefix(l)'
    BY <1>1, <1>4, <2>1, DecodeCharPrefix DEF PrefixInv
  <2> QED
    BY <1>1, <2>1, <2>2 DEF PrefixInv, DecodesPrefix
<1>5. CASE DecodeEnd
  <2>1. pc = "decode" /\ pc' = "done"
    BY <1>5 DEF DecodeEnd
  <2>2. DecodesPrefix'
    BY <1>1, <1>5, <2>1, DecodeEndPrefix DEF PrefixInv
  <2> QED
    BY <1>1, <2>1, <2>2 DEF PrefixInv
<1>6. CASE UNCHANGED vars
  BY <1>1, <1>6 DEF PrefixInv, DecodesPrefix, DigitsEndAt, Prefix, vars
<1> QED
  BY <1>2, <1>3, <1>4, <1>5, <1>6 DEF Next

(***************************************************************************)
(* Whatever text base64_decode is given, it decodes the digits before the  *)
(* first other character: to as many bytes as they fill, with their bits   *)
(* in their order, and to nothing else.                                    *)
(***************************************************************************)
THEOREM DecodesPrefixHolds == Spec => []DecodesPrefix
<1>1. Init => PrefixInv
  <2> SUFFICES ASSUME Init
               PROVE  PrefixInv
    OBVIOUS
  <2>1. TypeInv
    BY InitTypes
  <2>2. ret = <<>> /\ group = <<>> /\ at = 0 /\ pc # "done"
    BY DEF Init
  <2>3. Len(ret) = 0 /\ Len(group) = 0 /\ 0 <= Len(text)
    BY <2>1, <2>2, Types
  <2>4. Prefix(0)
    BY <2>2, <2>3 DEF Prefix, SameUpTo
  <2> QED
    BY <2>1, <2>2, <2>4 DEF PrefixInv, DecodesPrefix
<1>2. PrefixInv => DecodesPrefix
  BY DEF PrefixInv
<1> QED
  BY <1>1, <1>2, PrefixInductive, PTL DEF Spec
=============================================================================
