-------------------------- MODULE ConcatReadProofs --------------------------
(***************************************************************************)
(* The read of ConcatRead is correct for every object parsing can produce, *)
(* every request and every way the files may shrink or grow meanwhile.     *)
(***************************************************************************)
EXTENDS ConcatRead, TLAPS

-----------------------------------------------------------------------------
(* The chunks of a merged file. *)

(* The fields of the elements of the two lists. *)
LEMMA ListFields ==
    ASSUME NEW cs, NEW rs, WellFormed(cs, rs)
    PROVE  /\ Len(cs) \in Nat /\ Len(rs) \in Nat
           /\ DOMAIN cs = 1 .. Len(cs) /\ DOMAIN rs = 1 .. Len(rs)
           /\ \A i \in 1 .. Len(cs) :
                  cs[i].base \in Nat /\ cs[i].size \in Nat /\ cs[i].fd \in Int
           /\ \A r \in 1 .. Len(rs) :
                  rs[r].offset \in Nat /\ rs[r].length \in Nat \ {0}
<1>1. cs \in Seq(Chunk) /\ rs \in Seq(Replaced)
  BY DEF WellFormed
<1>2. ASSUME NEW i \in 1 .. Len(cs)
      PROVE  cs[i].base \in Nat /\ cs[i].size \in Nat /\ cs[i].fd \in Int
  <2>1. cs[i] \in Chunk
    BY <1>1
  <2> QED
    BY <2>1 DEF Chunk
<1>3. ASSUME NEW r \in 1 .. Len(rs)
      PROVE  rs[r].offset \in Nat /\ rs[r].length \in Nat \ {0}
  <2>1. rs[r] \in Replaced /\ r \in DOMAIN rs
    BY <1>1
  <2>2. rs[r].offset \in Nat /\ rs[r].length \in Nat
    BY <2>1 DEF Replaced
  <2> QED
    BY <2>1, <2>2 DEF WellFormed
<1> QED
  BY <1>1, <1>2, <1>3

(* A chunk ends at or before the end of the merged file. *)
LEMMA ChunkEnds ==
    ASSUME NEW cs, NEW rs, WellFormed(cs, rs), NEW i \in 1 .. Len(cs)
    PROVE  /\ cs[i] \in Chunk
           /\ MergedLength(cs) \in Nat
           /\ cs[i].base + cs[i].size <= MergedLength(cs)
           /\ i = Len(cs) => cs[i].base + cs[i].size = MergedLength(cs)
           /\ i < Len(cs) => cs[i + 1].base = cs[i].base + cs[i].size
<1>1. /\ cs \in Seq(Chunk) /\ LaidOut(cs) /\ Len(cs) \in Nat
      /\ DOMAIN cs = 1 .. Len(cs) /\ cs # <<>>
  BY DEF WellFormed
<1>2. /\ cs[i] \in Chunk /\ cs[Len(cs)] \in Chunk
      /\ Len(cs) \in 1 .. Len(cs)
  BY <1>1
<1>3. /\ cs[i].base \in Nat /\ cs[i].size \in Nat
      /\ cs[Len(cs)].base \in Nat /\ cs[Len(cs)].size \in Nat
  BY <1>2 DEF Chunk
<1>4. MergedLength(cs) = cs[Len(cs)].base + cs[Len(cs)].size
  BY <1>1 DEF MergedLength
<1>5. cs[i].base + cs[i].size <= MergedLength(cs)
  <2>1. CASE i = Len(cs)
    BY <1>3, <1>4, <2>1
  <2>2. CASE i < Len(cs)
    <3>1. cs[i].base + cs[i].size <= cs[Len(cs)].base
      BY <1>1, <1>2, <2>2 DEF LaidOut
    <3> QED
      BY <1>3, <1>4, <3>1
  <2>3. Len(cs) \in Nat /\ i \in 1 .. Len(cs)
    BY <1>1
  <2>4. i = Len(cs) \/ i < Len(cs)
    BY <2>3
  <2> QED
    BY <2>1, <2>2, <2>4
<1>6. i < Len(cs) => cs[i + 1].base = cs[i].base + cs[i].size
  BY <1>1 DEF LaidOut
<1>7. i = Len(cs) => cs[i].base + cs[i].size = MergedLength(cs)
  BY <1>4
<1> QED
  BY <1>2, <1>3, <1>4, <1>5, <1>6, <1>7

(* The length of the merged file is a natural number, also without chunks. *)
LEMMA MergedLengthNat ==
    ASSUME NEW cs, NEW rs, WellFormed(cs, rs)
    PROVE  MergedLength(cs) \in Nat
<1>1. cs \in Seq(Chunk)
  BY DEF WellFormed
<1>2. CASE cs = <<>>
  BY <1>2 DEF MergedLength
<1>3. CASE cs # <<>>
  <2>1. Len(cs) \in 1 .. Len(cs)
    BY <1>1, <1>3
  <2> QED
    BY <2>1, ChunkEnds
<1> QED
  BY <1>2, <1>3

-----------------------------------------------------------------------------
(* The comparisons of include/compare.hpp are those of the integers. *)

(* A remainder is the number itself, or one modulus more. *)
LEMMA RemainderOfSmall ==
    ASSUME NEW M \in Nat \ {0}, NEW n \in Int, 0 <= n, n < M
    PROVE  n % M = n
  OBVIOUS

LEMMA RemainderOfNegative ==
    ASSUME NEW M \in Nat \ {0}, NEW n \in Int, -M <= n, n < 0
    PROVE  n % M = n + M
  OBVIOUS

(* A conversion keeps a value that the type has. *)
LEMMA CastKeeps ==
    ASSUME NEW T \in Type, NEW n \in Values(T)
    PROVE  Cast(T, n) = n
<1>1. T.values \in Nat \ {0} /\ T.values % 2 = 0 /\ T.signed \in BOOLEAN /\ n \in Int
  BY UInt64Assumption DEF Type, Values
<1>2. CASE n >= 0
  <2>1. n < T.values
    BY <1>1, <1>2 DEF Values
  <2>2. n % T.values = n
    BY <1>1, <1>2, <2>1, RemainderOfSmall
  <2> QED
    BY <1>1, <1>2, <2>2 DEF Cast, Values
<1>3. CASE n < 0
  <2>1. T.signed /\ -(T.values \div 2) <= n
    BY <1>1, <1>3 DEF Values
  <2>2. n % T.values = n + T.values
    BY <1>1, <1>3, <2>1, RemainderOfNegative
  <2>3. n + T.values >= T.values \div 2
    BY <1>1, <2>1
  <2> QED
    BY <1>1, <1>3, <2>1, <2>2, <2>3 DEF Cast
<1> QED
  BY <1>1, <1>2, <1>3

LEMMA CommonKeeps ==
    ASSUME NEW T \in Type, NEW S \in Type, NEW t \in Values(T), NEW s \in Values(S),
           ~FirstNegative(T, S, t), ~SecondNegative(T, S, s)
    PROVE  Cast(Common(T, S), t) = t /\ Cast(Common(T, S), s) = s
<1>1. /\ T.values \in 1 .. UInt64 /\ T.values % 2 = 0 /\ T.signed \in BOOLEAN
      /\ S.values \in 1 .. UInt64 /\ S.values % 2 = 0 /\ S.signed \in BOOLEAN
      /\ UInt64 \in Nat /\ UInt64 % 2 = 0
      /\ t \in Int /\ s \in Int
  BY UInt64Assumption DEF Type, Values
<1>2. CASE T.signed = S.signed
  <2>1. t \in Values(Bigger(T, S)) /\ s \in Values(Bigger(T, S))
    BY <1>1, <1>2 DEF Bigger, Values
  <2>2. Bigger(T, S) \in Type
    BY DEF Bigger
  <2> QED
    BY <1>2, <2>1, <2>2, CastKeeps DEF Common
<1>3. CASE T.signed # S.signed
  <2>1. uint64_t \in Type
    BY <1>1 DEF uint64_t, Type
  <2>2. t >= 0 /\ s >= 0
    BY <1>1, <1>3 DEF FirstNegative, SecondNegative, Values
  <2>3. t \in Values(uint64_t) /\ s \in Values(uint64_t)
    BY <1>1, <2>2 DEF uint64_t, Values
  <2> QED
    BY <1>3, <2>1, <2>3, CastKeeps DEF Common
<1> QED
  BY <1>2, <1>3

(***************************************************************************)
(* The six comparisons decide what the integers decide, whatever the two   *)
(* types: a negative value is never converted to an unsigned one           *)
(* (compare.hpp, less to greaterEqual).                                    *)
(***************************************************************************)
THEOREM ComparesAsIntegers ==
    ASSUME NEW T \in Type, NEW S \in Type, NEW t \in Values(T), NEW s \in Values(S)
    PROVE  /\ less(T, S, t, s) <=> t < s
           /\ lessEqual(T, S, t, s) <=> t <= s
           /\ equal(T, S, t, s) <=> t = s
           /\ notEqual(T, S, t, s) <=> t # s
           /\ greater(T, S, t, s) <=> t > s
           /\ greaterEqual(T, S, t, s) <=> t >= s
<1>1. t \in Int /\ s \in Int
  BY UInt64Assumption DEF Type, Values
<1>2. CASE FirstNegative(T, S, t)
  <2>1. t < 0 /\ s >= 0 /\ ~SecondNegative(T, S, s)
    BY <1>1, <1>2 DEF FirstNegative, SecondNegative, Values
  <2> QED
    BY <1>1, <1>2, <2>1 DEF less, lessEqual, equal, notEqual, greater, greaterEqual
<1>3. CASE SecondNegative(T, S, s)
  <2>1. s < 0 /\ t >= 0 /\ ~FirstNegative(T, S, t)
    BY <1>1, <1>3 DEF FirstNegative, SecondNegative, Values
  <2> QED
    BY <1>1, <1>3, <2>1 DEF less, lessEqual, equal, notEqual, greater, greaterEqual
<1>4. CASE ~FirstNegative(T, S, t) /\ ~SecondNegative(T, S, s)
  <2>1. Cast(Common(T, S), t) = t /\ Cast(Common(T, S), s) = s
    BY <1>4, CommonKeeps
  <2> QED
    BY <1>1, <1>4, <2>1 DEF less, lessEqual, equal, notEqual, greater, greaterEqual
<1> QED
  BY <1>2, <1>3, <1>4

-----------------------------------------------------------------------------
(* The inductive invariant: what each program point knows. *)

Filled(m) ==
    /\ bytes_read <= size
    /\ \A k \in 0 .. BufSize - 1 :
        IF k < bytes_read
        THEN Shows(buf[k], chunks, replaces, m, off + k)
        ELSE buf[k] = Unwritten

(* How much of the window has to be there when nothing was damaged. *)
Window == Max2(0, Min2(size, MergedLength(chunks) - off))

AllWhole == \A i \in DOMAIN chunks : Whole(i, len[i])

AtSeek ==
    /\ bytes_read = 0 /\ rt = 1 /\ count = size
    /\ \A k \in DOMAIN buf : buf[k] = Unwritten
    /\ it <= Len(chunks) => chunks[it].base + offset = off
    /\ it > Len(chunks) => off >= MergedLength(chunks)
    /\ intact => AllWhole

AtCross ==
    /\ rt = 1 /\ count + bytes_read = size
    /\ Filled(0)
    /\ it <= Len(chunks) => /\ chunks[it].base + offset = off + bytes_read
                            /\ offset <= chunks[it].size
    /\ it > Len(chunks) => bytes_read = Window
    /\ intact => AllWhole

AtReplace ==
    /\ Filled(rt - 1)
    /\ intact => bytes_read = Window

AtDone == ReadCorrect /\ ReadComplete

ReadInv ==
    /\ TypeOK
    /\ WellFormed(chunks, replaces)
    /\ BufferRespected
    /\ pc = "seek" => AtSeek
    /\ pc = "cross" => AtCross
    /\ pc = "replace" => AtReplace
    /\ pc = "done" => AtDone

-----------------------------------------------------------------------------
(* What a copy into the buffer leaves in each cell. *)
CopyOf(c, b, at, n, kind, index, pos) ==
    /\ c \in [0 .. BufSize - 1 -> Byte]
    /\ \A k \in 0 .. BufSize - 1 :
           at <= k /\ k < at + n =>
               c[k] = [kind |-> kind, index |-> index, pos |-> pos + (k - at)]
    /\ \A k \in 0 .. BufSize - 1 :
           k < at \/ k >= at + n => c[k] = b[k]

LEMMA CopiedCells ==
    ASSUME NEW b \in [0 .. BufSize - 1 -> Byte],
           NEW at \in Nat, NEW n \in Nat, NEW kind \in {"file", "patch"},
           NEW index \in Nat, NEW pos \in Nat
    PROVE  CopyOf(Copied(b, at, n, kind, index, pos), b, at, n, kind, index, pos)
BY RequestRange DEF Copied, CopyOf, Byte

-----------------------------------------------------------------------------
LEMMA ReadInvInit == Init => ReadInv
<1> SUFFICES ASSUME Init PROVE ReadInv
  OBVIOUS
<1>1. WellFormed(chunks, replaces)
  BY ObjectsWellFormed DEF Init
<1>2. /\ chunks \in Seq(Chunk) /\ replaces \in Seq(Replaced)
      /\ DOMAIN chunks = 1 .. Len(chunks)
      /\ Len(chunks) \in Nat /\ Len(replaces) \in Nat
  BY <1>1 DEF WellFormed
<1>3. len \in [DOMAIN chunks -> Nat]
  <2>1. \A i \in DOMAIN chunks : chunks[i].size \in Nat
    BY <1>1, ListFields
  <2>2. len = [i \in DOMAIN chunks |-> chunks[i].size]
    BY DEF Init
  <2> QED
    BY ONLY <2>1, <2>2
<1>4. buf \in [0 .. BufSize - 1 -> Byte]
  BY DEF Init, Fresh, Byte, Unwritten
<1>5. TypeOK
  BY <1>2, <1>3, <1>4, RequestRange DEF Init, TypeOK
<1>6. BufferRespected
  BY DEF Init, Fresh, BufferRespected
<1> QED
  BY <1>1, <1>5, <1>6 DEF Init, ReadInv

-----------------------------------------------------------------------------
LEMMA Domains ==
    ASSUME ReadInv
    PROVE  DOMAIN chunks = 1 .. Len(chunks) /\ DOMAIN replaces = 1 .. Len(replaces)
BY ListFields DEF ReadInv

(* The arithmetic shape of the state, without the sets it is typed by. *)
LEMMA Shape ==
    ASSUME ReadInv
    PROVE  /\ WellFormed(chunks, replaces)
           /\ Len(chunks) \in Nat /\ Len(replaces) \in Nat
           /\ len \in [1 .. Len(chunks) -> Nat]
           /\ it \in 1 .. Len(chunks) + 1 /\ rt \in 1 .. Len(replaces) + 1
           /\ off \in Nat /\ size \in 0 .. BufSize /\ BufSize \in Nat
           /\ offset \in Nat /\ count \in Nat /\ bytes_read \in Nat
           /\ buf \in [0 .. BufSize - 1 -> Byte]
           /\ MergedLength(chunks) \in Nat
<1>1. WellFormed(chunks, replaces) /\ TypeOK
  BY DEF ReadInv
<1>2. /\ Len(chunks) \in Nat /\ DOMAIN chunks = 1 .. Len(chunks)
      /\ Len(replaces) \in Nat /\ DOMAIN replaces = 1 .. Len(replaces)
      /\ MergedLength(chunks) \in Nat
  BY <1>1, ListFields, MergedLengthNat
<1> QED
  BY <1>1, <1>2, RequestRange DEF TypeOK

LEMMA CallStep ==
    ASSUME ReadInv, NEW o \in Offsets, NEW n \in Counts, Call(o, n)
    PROVE  ReadInv'
<1>1. /\ o \in Nat /\ n \in 0 .. BufSize
  BY RequestRange
<1>2. buf' \in [0 .. BufSize - 1 -> Byte] /\ \A k \in DOMAIN buf' : buf'[k] = Unwritten
  BY DEF Call, Fresh, Byte, Unwritten
<1>3. TypeOK'
  BY <1>1, <1>2, Shape DEF Call, TypeOK, object, ReadInv
<1>4. WellFormed(chunks, replaces)'
  BY Shape DEF Call, object
<1>5. BufferRespected'
  BY <1>2 DEF BufferRespected
<1>6. AtSeek'
  <2>1. it' <= Len(chunks') => chunks'[it'].base + offset' = off'
    <3>1. ASSUME 1 <= Len(chunks) PROVE chunks[1].base = 0
      BY <3>1, Shape DEF WellFormed, LaidOut
    <3> QED
      BY <3>1, <1>1 DEF Call, object
  <2>2. it' > Len(chunks') => off' >= MergedLength(chunks')
    <3>1. ASSUME 1 > Len(chunks) PROVE MergedLength(chunks) = 0
      <4>1. chunks = <<>>
        BY <3>1, Shape DEF WellFormed
      <4> QED
        BY <4>1 DEF MergedLength
    <3> QED
      BY <3>1, <1>1 DEF Call, object
  <2>3. intact' => AllWhole'
    BY DEF Call, object, AllWhole, Whole
  <2> QED
    BY <1>2, <2>1, <2>2, <2>3 DEF AtSeek, Call
<1> QED
  BY <1>3, <1>4, <1>5, <1>6 DEF ReadInv, Call

LEMMA SeekNextStep ==
    ASSUME ReadInv, SeekNext
    PROVE  ReadInv'
<1>1. /\ pc = "seek" /\ AtSeek /\ it \in 1 .. Len(chunks)
      /\ offset > chunks[it].size /\ offset \in Nat /\ Len(chunks) \in Nat
  BY Shape DEF ReadInv, SeekNext
<1>2. /\ chunks[it].base \in Nat /\ chunks[it].size \in Nat
      /\ it = Len(chunks) => chunks[it].base + chunks[it].size
                                = MergedLength(chunks)
      /\ it < Len(chunks) => chunks[it + 1].base
                                = chunks[it].base + chunks[it].size
  BY <1>1, Shape, ListFields, ChunkEnds
<1>3. TypeOK'
  <2>1. it' \in 1 .. Len(chunks) + 1 /\ offset' \in Nat
    BY <1>1, <1>2 DEF SeekNext
  <2>2. /\ UNCHANGED <<chunks, replaces, len, pc, off, size, count, bytes_read,
                       rt, buf, ret, intact>>
        /\ TypeOK
    BY DEF SeekNext, object, request, ReadInv
  <2> QED
    BY <2>1, <2>2 DEF TypeOK
<1>4. WellFormed(chunks, replaces)'
  BY Shape DEF SeekNext, object
<1>5. BufferRespected'
  BY DEF SeekNext, request, BufferRespected, ReadInv
<1>6. AtSeek'
  <2>1. /\ it' = it + 1 /\ offset' = offset - chunks[it].size
        /\ chunks[it].base + offset = off
        /\ off \in Nat /\ offset \in Nat /\ it \in Nat /\ Len(chunks) \in Nat
    BY <1>1, Shape DEF SeekNext, AtSeek
  <2>2. it' <= Len(chunks) => chunks[it'].base + offset' = off
    <3>1. CASE it = Len(chunks)
      BY <2>1, <3>1
    <3>2. CASE it < Len(chunks)
      BY <1>2, <2>1, <3>2
    <3> QED
      BY <1>1, <2>1, <3>1, <3>2
  <2>3. it' > Len(chunks) => off >= MergedLength(chunks)
    <3>1. CASE it = Len(chunks)
      <4>1. chunks[it].base + chunks[it].size = MergedLength(chunks)
        BY <1>2, <3>1
      <4> QED
        BY <1>1, <1>2, <2>1, <4>1
    <3>2. CASE it < Len(chunks)
      BY <2>1, <3>2
    <3> QED
      BY <1>1, <2>1, <3>1, <3>2
  <2> QED
    BY <1>1, <2>2, <2>3 DEF SeekNext, AtSeek, object, request, AllWhole, Whole
<1> QED
  BY <1>1, <1>3, <1>4, <1>5, <1>6 DEF ReadInv, SeekNext

LEMMA SeekDoneStep ==
    ASSUME ReadInv, SeekDone
    PROVE  ReadInv'
<1>1. pc = "seek" /\ AtSeek
  BY DEF ReadInv, SeekDone
<1>2. TypeOK'
  BY Shape DEF SeekDone, TypeOK, object, request, ReadInv
<1>3. WellFormed(chunks, replaces)'
  BY Shape DEF SeekDone, object
<1>4. BufferRespected'
  BY DEF SeekDone, request, BufferRespected, ReadInv
<1>5. AtCross'
  <2>1. Filled(0)'
    <3>1. /\ bytes_read' = 0 /\ buf' = buf /\ DOMAIN buf = 0 .. BufSize - 1
          /\ size' = size /\ size \in Nat
      BY <1>1, Shape DEF SeekDone, AtSeek, request
    <3>2. \A k \in 0 .. BufSize - 1 : buf'[k] = Unwritten
      BY <1>1, <3>1 DEF AtSeek
    <3> QED
      BY <3>1, <3>2 DEF Filled
  <2>2. it <= Len(chunks) => /\ chunks[it].base + offset = off + bytes_read
                             /\ offset <= chunks[it].size
    <3>1. ASSUME it <= Len(chunks)
          PROVE  chunks[it].base + offset = off /\ ~(offset > chunks[it].size)
                 /\ chunks[it].size \in Nat
      BY <1>1, <3>1, Shape, ListFields DEF AtSeek, SeekDone
    <3>2. bytes_read = 0 /\ off \in Nat /\ offset \in Nat
      BY <1>1, Shape DEF AtSeek
    <3> QED
      BY <3>1, <3>2
  <2>3. it > Len(chunks) => bytes_read = Window
    BY <1>1, Shape DEF AtSeek, Window, Max2, Min2
  <2> QED
    BY <1>1, <2>1, <2>2, <2>3, Shape
    DEF SeekDone, AtSeek, AtCross, object, request, Window, AllWhole, Whole
<1> QED
  BY <1>2, <1>3, <1>4, <1>5 DEF ReadInv, SeekDone

-----------------------------------------------------------------------------
(* What is known where a pread of chunk it is about to happen. *)
LEMMA AtChunk ==
    ASSUME ReadInv, pc = "cross", it <= Len(chunks)
    PROVE  /\ AtCross /\ it \in 1 .. Len(chunks)
           /\ chunks[it].base \in Nat /\ chunks[it].size \in Nat
           /\ chunks[it].fd \in Int /\ len[it] \in Nat
           /\ chunks[it].base + offset = off + bytes_read
           /\ offset <= chunks[it].size
           /\ count + bytes_read = size
           /\ chunks[it].base + chunks[it].size <= MergedLength(chunks)
           /\ intact => chunks[it].fd >= 0 /\ len[it] >= chunks[it].size
<1>1. AtCross /\ it \in 1 .. Len(chunks)
  BY Shape DEF ReadInv
<1>2. /\ chunks[it].base \in Nat /\ chunks[it].size \in Nat
      /\ chunks[it].fd \in Int
      /\ chunks[it].base + chunks[it].size <= MergedLength(chunks)
  <2>1. WellFormed(chunks, replaces)
    BY Shape
  <2> QED
    BY ONLY <1>1, <2>1, ListFields, ChunkEnds
<1>3. len[it] \in Nat
  <2>1. len \in [1 .. Len(chunks) -> Nat]
    BY Shape
  <2> QED
    BY ONLY <1>1, <2>1
<1>4. intact => chunks[it].fd >= 0 /\ len[it] >= chunks[it].size
  <2>1. it \in DOMAIN chunks
    BY <1>1, Domains
  <2> QED
    BY ONLY <1>1, <2>1 DEF AtCross, AllWhole, Whole
<1> QED
  BY <1>1, <1>2, <1>3, <1>4 DEF AtCross

(* The sizes of the chunks are values of off_t. *)
FitsOff == \A i \in DOMAIN chunks : chunks[i].size < UInt64 \div 2

LEMMA FitsInit == Init => FitsOff
BY FitsTypes DEF Init, FitsOff

LEMMA FitsStep == FitsOff /\ [Next]_vars => FitsOff'
<1> SUFFICES ASSUME FitsOff, [Next]_vars PROVE FitsOff'
  OBVIOUS
<1>1. UNCHANGED chunks
  BY DEF Next, Step, vars, object, Call, SeekNext, SeekDone, CrossWhole, CrossShort,
    CrossFail, TailRead, TailFail, TailNone, Replace, Return, Resize
<1> QED
  BY <1>1 DEF FitsOff

(* sweet::greater decides as the integers do, since both fit their types. *)
LEMMA CrossingExact ==
    ASSUME ReadInv, FitsOff, pc = "cross"
    PROVE  Crossing <=> it <= Len(chunks) /\ count > chunks[it].size - offset
<1> SUFFICES ASSUME it <= Len(chunks)
             PROVE  greater(uint64_t, int64_t, count, chunks[it].size - offset)
                        <=> count > chunks[it].size - offset
  BY DEF Crossing
<1>1. /\ it \in 1 .. Len(chunks) /\ chunks[it].size \in Nat
      /\ offset <= chunks[it].size /\ count + bytes_read = size
  BY AtChunk
<1>2. /\ offset \in Nat /\ count \in Nat /\ bytes_read \in Nat
      /\ size \in 0 .. BufSize /\ BufSize \in Nat /\ BufSize < UInt64
      /\ UInt64 \in Nat \ {0} /\ UInt64 % 2 = 0
  BY Shape, FitsTypes, UInt64Assumption
<1>3. chunks[it].size < UInt64 \div 2
  BY <1>1, Domains DEF FitsOff
<1> DEFINE want == chunks[it].size - offset
<1>4. count \in Values(uint64_t)
  <2>1. count <= UInt64 - 1
    BY ONLY <1>1, <1>2
  <2> QED
    BY ONLY <1>2, <2>1 DEF Values, uint64_t
<1>5. want \in Values(int64_t)
  <2>1. want \in 0 .. (UInt64 \div 2) - 1 /\ UInt64 \div 2 \in Nat
    BY ONLY <1>1, <1>2, <1>3
  <2> QED
    BY ONLY <1>2, <2>1 DEF Values, int64_t
<1>6. uint64_t \in Type /\ int64_t \in Type
  BY ONLY <1>2 DEF Type, uint64_t, int64_t
<1> QED
  BY <1>4, <1>5, <1>6, ComparesAsIntegers

(* Copying n bytes of chunk it to the end of what was read extends it. *)
LEMMA FillStep ==
    ASSUME ReadInv, pc = "cross", it <= Len(chunks),
           NEW n \in Nat, n <= chunks[it].size - offset, n <= count,
           buf' = Copied(buf, bytes_read, n, "file", it, offset),
           bytes_read' = bytes_read + n,
           UNCHANGED <<chunks, replaces, off, size>>
    PROVE  /\ Filled(0)' /\ BufferRespected'
           /\ buf' \in [0 .. BufSize - 1 -> Byte]
<1>1. /\ it \in 1 .. Len(chunks) /\ chunks[it].base \in Nat
      /\ chunks[it].size \in Nat /\ offset <= chunks[it].size
      /\ chunks[it].base + offset = off + bytes_read
      /\ count + bytes_read = size /\ AtCross
  BY AtChunk
<1>2. /\ bytes_read \in Nat /\ count \in Nat /\ size \in 0 .. BufSize
      /\ off \in Nat /\ offset \in Nat /\ BufSize \in Nat
      /\ Len(chunks) \in Nat /\ buf \in [0 .. BufSize - 1 -> Byte]
  BY Shape
<1>3. it \in Nat
  BY <1>1, <1>2
<1>4. /\ buf' \in [0 .. BufSize - 1 -> Byte]
      /\ \A k \in 0 .. BufSize - 1 :
             bytes_read <= k /\ k < bytes_read + n =>
                 buf'[k] = [kind |-> "file", index |-> it,
                            pos |-> offset + (k - bytes_read)]
      /\ \A k \in 0 .. BufSize - 1 :
             k < bytes_read \/ k >= bytes_read + n => buf'[k] = buf[k]
  <2>1. /\ buf \in [0 .. BufSize - 1 -> Byte] /\ bytes_read \in Nat
        /\ n \in Nat /\ it \in Nat /\ offset \in Nat
        /\ "file" \in {"file", "patch"}
    BY <1>2, <1>3
  <2>2. CopyOf(Copied(buf, bytes_read, n, "file", it, offset),
               buf, bytes_read, n, "file", it, offset)
    BY ONLY <2>1, CopiedCells
  <2>3. CopyOf(buf', buf, bytes_read, n, "file", it, offset)
    BY <2>2
  <2> QED
    BY ONLY <2>3 DEF CopyOf
<1>5. bytes_read + n <= size
  BY <1>1, <1>2
<1>6. \A k \in 0 .. BufSize - 1 :
          IF k < bytes_read THEN Shows(buf[k], chunks, replaces, 0, off + k)
                            ELSE buf[k] = Unwritten
  BY <1>1 DEF AtCross, Filled
<1>7. ASSUME NEW k \in 0 .. BufSize - 1
      PROVE  IF k < bytes_read + n
             THEN Shows(buf'[k], chunks, replaces, 0, off + k)
             ELSE buf'[k] = Unwritten
  <2>0. k \in Nat
    BY <1>2
  <2>1. CASE k < bytes_read
    <3>1. buf'[k] = buf[k] /\ Shows(buf[k], chunks, replaces, 0, off + k)
      BY <1>4, <1>6, <2>1
    <3> QED
      BY <1>2, <2>0, <2>1, <3>1
  <2>2. CASE bytes_read <= k /\ k < bytes_read + n
    <3>1. buf'[k] = [kind |-> "file", index |-> it,
                     pos |-> offset + (k - bytes_read)]
      BY <1>4, <2>2
    <3>2. offset + (k - bytes_read) = (off + k) - chunks[it].base
      <4> DEFINE base == chunks[it].base
      <4>1. base \in Nat /\ base + offset = off + bytes_read
        BY <1>1
      <4> HIDE DEF base
      <4>2. offset + (k - bytes_read) = (off + k) - base
        BY <1>2, <2>0, <4>1
      <4> QED
        BY <4>2 DEF base
    <3>3. offset + (k - bytes_read) \in 0 .. chunks[it].size - 1
      BY <1>1, <1>2, <2>0, <2>2
    <3>4. it \in DOMAIN chunks
      BY <1>1, Domains
    <3>5. /\ buf'[k].kind = "file" /\ buf'[k].index = it
          /\ buf'[k].pos = offset + (k - bytes_read)
      BY <3>1
    <3>6. FromChunk(buf'[k], chunks, off + k)
      <4>1. buf'[k].index \in DOMAIN chunks
        BY ONLY <3>4, <3>5
      <4>2. buf'[k].pos = (off + k) - chunks[buf'[k].index].base
        BY ONLY <3>2, <3>5
      <4>3. buf'[k].pos \in 0 .. chunks[buf'[k].index].size - 1
        BY ONLY <3>3, <3>5
      <4> QED
        BY ONLY <3>5, <4>1, <4>2, <4>3 DEF FromChunk
    <3> QED
      BY <2>2, <3>6 DEF Shows
  <2>3. CASE k >= bytes_read + n
    <3>1. buf'[k] = buf[k]
      BY <1>4, <2>3
    <3>2. ~(k < bytes_read)
      BY <1>2, <2>0, <2>3
    <3>3. buf[k] = Unwritten
      BY <1>6, <3>2
    <3> QED
      BY <1>2, <2>0, <2>3, <3>1, <3>3
  <2> QED
    BY <1>2, <2>0, <2>1, <2>2, <2>3
<1>8. Filled(0)'
  BY <1>5, <1>7 DEF Filled
<1>9. BufferRespected'
  BY <1>2, <1>4, <1>5, <1>7 DEF BufferRespected
<1> QED
  BY <1>4, <1>8, <1>9

LEMMA CrossWholeStep ==
    ASSUME ReadInv, FitsOff, CrossWhole
    PROVE  ReadInv'
<1> DEFINE want == chunks[it].size - offset
<1>1. pc = "cross" /\ it <= Len(chunks) /\ count > want
  BY CrossingExact DEF CrossWhole
<1>2. /\ it \in 1 .. Len(chunks) /\ chunks[it].base \in Nat
      /\ chunks[it].size \in Nat /\ offset <= chunks[it].size
      /\ chunks[it].base + offset = off + bytes_read
      /\ count + bytes_read = size /\ AtCross
  BY <1>1, AtChunk
<1>3. /\ bytes_read \in Nat /\ count \in Nat /\ size \in 0 .. BufSize
      /\ off \in Nat /\ offset \in Nat /\ BufSize \in Nat
      /\ Len(chunks) \in Nat
  BY Shape
<1>4. want \in Nat /\ want <= count
  BY <1>1, <1>2, <1>3
<1>5. /\ bytes_read \in Nat /\ count \in Nat /\ size \in Nat
      /\ off \in Nat /\ offset \in Nat /\ want \in Nat /\ want <= count
      /\ it \in Nat /\ Len(chunks) \in Nat
      /\ count + bytes_read = size /\ it <= Len(chunks) /\ 1 <= it
  BY <1>1, <1>2, <1>3, <1>4
<1> HIDE DEF want
<1>6. /\ buf' = Copied(buf, bytes_read, want, "file", it, offset)
      /\ UNCHANGED <<chunks, replaces, len, pc, off, size, rt, ret, intact>>
  BY DEF CrossWhole, object, request, want
<1>7. /\ it' = it + 1 /\ offset' = 0 /\ count' = count - want
      /\ bytes_read' = bytes_read + want /\ size' = size
  BY DEF CrossWhole, request, want
<1>8. /\ Filled(0)' /\ BufferRespected'
      /\ buf' \in [0 .. BufSize - 1 -> Byte]
  <2>1. want <= chunks[it].size - offset
    BY <1>2, <1>3 DEF want
  <2> QED
    BY <1>1, <1>4, <1>6, <1>7, <2>1, FillStep
<1>9. TypeOK'
  <2>1. /\ it' \in 1 .. Len(chunks) + 1 /\ offset' \in Nat
        /\ count' \in Nat /\ bytes_read' \in Nat
    BY ONLY <1>7, <1>5
  <2>2. TypeOK
    BY DEF ReadInv
  <2> QED
    BY <1>6, <1>8, <2>1, <2>2 DEF TypeOK
<1>10. AtCross'
  <2>1. count' + bytes_read' = size'
    BY ONLY <1>7, <1>5
  <2>2. it' <= Len(chunks) => /\ chunks[it'].base = off + bytes_read'
                              /\ 0 <= chunks[it'].size
    <3>1. ASSUME it + 1 <= Len(chunks)
          PROVE  /\ chunks[it + 1].base = chunks[it].base + chunks[it].size
                 /\ chunks[it + 1].size \in Nat
      <4>1. it < Len(chunks) /\ it + 1 \in 1 .. Len(chunks)
        BY <1>2, <1>3, <3>1
      <4>2. WellFormed(chunks, replaces)
        BY Shape
      <4> QED
        BY <1>2, <4>1, <4>2, ChunkEnds, ListFields
    <3>2. chunks[it].base + chunks[it].size = off + (bytes_read + want)
      <4>1. /\ chunks[it].base \in Nat /\ chunks[it].size \in Nat
            /\ offset \in Nat /\ off \in Nat /\ bytes_read \in Nat
            /\ chunks[it].base + offset = off + bytes_read
        BY <1>2, <1>3
      <4> QED
        BY ONLY <4>1 DEF want
    <3> QED
      BY <1>7, <3>1, <3>2
  <2>3. it' > Len(chunks) => bytes_read' = Window
    <3>1. ASSUME it = Len(chunks)
          PROVE  chunks[it].base + chunks[it].size = MergedLength(chunks)
      BY <1>2, <3>1, Shape, ChunkEnds
    <3>2. ASSUME it = Len(chunks)
          PROVE  MergedLength(chunks) - off = bytes_read + want
      <4>1. /\ chunks[it].base + offset = off + bytes_read
            /\ chunks[it].base + chunks[it].size = MergedLength(chunks)
            /\ chunks[it].base \in Nat /\ chunks[it].size \in Nat
            /\ offset \in Nat /\ off \in Nat /\ bytes_read \in Nat
        BY <1>2, <1>3, <3>1, <3>2
      <4> QED
        BY ONLY <4>1 DEF want
    <3>3. bytes_read + want <= size /\ bytes_read + want \in Nat
      BY <1>2, <1>3, <1>4
    <3>4. it + 1 > Len(chunks) => it = Len(chunks)
      BY <1>2, <1>3
    <3>5. MergedLength(chunks) \in Nat
      BY Shape
    <3>6. ASSUME it = Len(chunks) PROVE bytes_read + want = Window
      BY ONLY <1>5, <3>2, <3>3, <3>5, <3>6 DEF Window, Min2, Max2
    <3> QED
      BY <1>7, <3>4, <3>6
  <2>4. rt' = 1 /\ (intact' => AllWhole')
    BY <1>2, <1>6 DEF AtCross, AllWhole, Whole
  <2> QED
    BY <1>3, <1>7, <1>6, <1>8, <2>1, <2>2, <2>3, <2>4 DEF AtCross, Window
<1>11. WellFormed(chunks, replaces)'
  BY <1>6, Shape
<1> QED
  BY <1>1, <1>6, <1>8, <1>9, <1>10, <1>11 DEF ReadInv

-----------------------------------------------------------------------------
(* A pread fails, or returns at most what was asked for; it returns all of  *)
(* it when the chunk is whole and the request lies inside the chunk.        *)
LEMMA PreadRange ==
    ASSUME NEW i, NEW n \in Nat, NEW o \in Nat,
           len[i] \in Nat, chunks[i].fd \in Int, chunks[i].size \in Nat
    PROVE  /\ Pread(i, n, o) \in Int
           /\ Pread(i, n, o) < 0 \/ Pread(i, n, o) \in 0 .. n
           /\ (/\ chunks[i].fd >= 0 /\ len[i] >= chunks[i].size
               /\ o + n <= chunks[i].size) => Pread(i, n, o) = n
<1> DEFINE l == len[i]
           f == chunks[i].fd
           z == chunks[i].size
<1>1. l \in Nat /\ f \in Int /\ z \in Nat
  OBVIOUS
<1>2. Pread(i, n, o) = IF f < 0 THEN -1 ELSE Min2(n, Max2(0, l - o))
  BY DEF Pread
<1> HIDE DEF l, f, z
<1>3. /\ Pread(i, n, o) \in Int
      /\ Pread(i, n, o) < 0 \/ Pread(i, n, o) \in 0 .. n
  BY ONLY <1>1, <1>2, n \in Nat, o \in Nat DEF Min2, Max2
<1>4. f >= 0 /\ l >= z /\ o + n <= z => Pread(i, n, o) = n
  BY ONLY <1>1, <1>2, n \in Nat, o \in Nat DEF Min2, Max2
<1> QED
  BY <1>3, <1>4 DEF l, f, z

(* An error is never a byte count. *)
LEMMA ErrorNotPositive ==
    ASSUME NEW rv \in Int, NEW x \in ErrorAfter(rv)
    PROVE  x \in Int /\ x <= 0
<1>1. CASE rv < 0
  BY <1>1, ErrnoRange DEF ErrorAfter
<1>2. CASE ~(rv < 0)
  <2>1. PICK e \in StaleErrno : x = -e
    BY <1>2 DEF ErrorAfter
  <2>2. e \in Nat
    BY ErrnoRange
  <2> QED
    BY <2>1, <2>2
<1> QED
  BY <1>1, <1>2

(* An answer that is an error or nothing, given because of damage, is right. *)
LEMMA Refused ==
    ASSUME NEW rv \in Int, ret' \in ErrorAfter(rv), ~intact'
    PROVE  ret' \in Int /\ AtDone'
<1>1. ret' \in Int /\ ret' <= 0
  BY ErrorNotPositive
<1>2. \A k \in 0 .. ret' - 1 : FALSE
  <2>1. \A m \in Int : m <= 0 => \A k \in 0 .. m - 1 : FALSE
    OBVIOUS
  <2> QED
    BY ONLY <1>1, <2>1, Zenon
<1>3. ReadCorrect'
  BY <1>2 DEF ReadCorrect
<1> QED
  BY <1>1, <1>3 DEF AtDone, ReadComplete

LEMMA CrossShortStep ==
    ASSUME ReadInv, FitsOff, CrossShort
    PROVE  ReadInv'
<1> DEFINE want == chunks[it].size - offset
           rv == Pread(it, want, offset)
<1>1. /\ pc = "cross" /\ it <= Len(chunks) /\ count > want
      /\ rv # want /\ rv > 0
      /\ buf' = Copied(buf, bytes_read, rv, "file", it, offset)
      /\ bytes_read' = bytes_read + rv /\ pc' = "replace"
  BY CrossingExact DEF CrossShort
<1>2. UNCHANGED <<chunks, replaces, len, off, size, it, offset, count, rt,
                  ret, intact>>
  BY DEF CrossShort, object, request
<1>3. /\ chunks[it].size \in Nat /\ chunks[it].fd \in Int /\ len[it] \in Nat
      /\ offset <= chunks[it].size /\ AtCross
      /\ intact => chunks[it].fd >= 0 /\ len[it] >= chunks[it].size
  BY <1>1, AtChunk
<1>4. /\ offset \in Nat /\ count \in Nat /\ bytes_read \in Nat
  BY Shape
<1>5. want \in Nat /\ offset + want <= chunks[it].size /\ want <= count
  BY <1>1, <1>3, <1>4
<1> HIDE DEF want
<1>6. /\ rv \in Int /\ (rv < 0 \/ rv \in 0 .. want)
      /\ intact => rv = want
  BY <1>3, <1>4, <1>5, PreadRange
<1> HIDE DEF rv
<1>7. rv \in Nat /\ rv <= want /\ rv <= count /\ ~intact
  BY <1>1, <1>4, <1>5, <1>6
<1>8. /\ Filled(0)' /\ BufferRespected'
      /\ buf' \in [0 .. BufSize - 1 -> Byte]
  <2>1. rv <= chunks[it].size - offset
    BY <1>7 DEF want
  <2> QED
    BY <1>1, <1>2, <1>7, <2>1, FillStep
<1>9. TypeOK'
  <2>1. bytes_read' \in Nat
    BY <1>1, <1>4, <1>7
  <2>2. TypeOK
    BY DEF ReadInv
  <2> QED
    BY <1>1, <1>2, <1>8, <2>1, <2>2 DEF TypeOK
<1>10. AtReplace'
  <2>1. rt' - 1 = 0
    BY <1>2, <1>3 DEF AtCross
  <2> QED
    BY <1>2, <1>7, <1>8, <2>1 DEF AtReplace
<1>11. WellFormed(chunks, replaces)'
  BY <1>2, Shape
<1> QED
  BY <1>1, <1>8, <1>9, <1>10, <1>11 DEF ReadInv

LEMMA CrossFailStep ==
    ASSUME ReadInv, FitsOff, CrossFail
    PROVE  ReadInv'
<1> DEFINE want == chunks[it].size - offset
           rv == Pread(it, want, offset)
<1>1. /\ pc = "cross" /\ it <= Len(chunks) /\ rv # want
      /\ ret' \in ErrorAfter(rv) /\ pc' = "done"
  BY CrossingExact DEF CrossFail
<1>2. UNCHANGED <<chunks, replaces, len, off, size, it, offset, count,
                  bytes_read, rt, buf, intact>>
  BY DEF CrossFail, object, request
<1>3. /\ chunks[it].size \in Nat /\ chunks[it].fd \in Int /\ len[it] \in Nat
      /\ offset <= chunks[it].size /\ offset \in Nat
      /\ intact => chunks[it].fd >= 0 /\ len[it] >= chunks[it].size
  BY <1>1, AtChunk, Shape
<1>4. want \in Nat /\ offset + want <= chunks[it].size
  BY <1>3
<1> HIDE DEF want
<1>5. rv \in Int /\ (intact => rv = want)
  BY <1>3, <1>4, PreadRange
<1> HIDE DEF rv
<1>6. ret' \in Int /\ AtDone'
  BY <1>1, <1>2, <1>5, Refused
<1>7. TypeOK' /\ WellFormed(chunks, replaces)' /\ BufferRespected'
  BY <1>1, <1>2, <1>6 DEF ReadInv, TypeOK, BufferRespected
<1> QED
  BY <1>1, <1>6, <1>7 DEF ReadInv

(* The rest of the request ends at or before the end of the merged file. *)
LEMMA WholeWindow ==
    ASSUME ReadInv, pc = "cross", it <= Len(chunks),
           offset + count <= chunks[it].size
    PROVE  Window = size /\ bytes_read + count = size
<1> DEFINE base == chunks[it].base
           z == chunks[it].size
           ml == MergedLength(chunks)
<1>1. /\ base \in Nat /\ z \in Nat /\ base + offset = off + bytes_read
      /\ count + bytes_read = size /\ base + z <= ml /\ offset + count <= z
  BY AtChunk
<1>2. /\ off \in Nat /\ offset \in Nat /\ count \in Nat /\ bytes_read \in Nat
      /\ size \in Nat /\ ml \in Nat
  BY Shape
<1>3. Window = Max2(0, Min2(size, ml - off))
  BY DEF Window
<1> HIDE DEF base, z, ml
<1> QED
  BY ONLY <1>1, <1>2, <1>3 DEF Max2, Min2

LEMMA TailReadStep ==
    ASSUME ReadInv, FitsOff, TailRead
    PROVE  ReadInv'
<1> DEFINE rv == Pread(it, count, offset)
<1>1. /\ pc = "cross" /\ it <= Len(chunks) /\ ~(count > chunks[it].size - offset)
      /\ rv >= 0
      /\ buf' = Copied(buf, bytes_read, rv, "file", it, offset)
      /\ bytes_read' = bytes_read + rv /\ pc' = "replace"
  BY CrossingExact DEF TailRead
<1>2. UNCHANGED <<chunks, replaces, len, off, size, it, offset, count, rt,
                  ret, intact>>
  BY DEF TailRead, object, request
<1>3. /\ chunks[it].size \in Nat /\ chunks[it].fd \in Int /\ len[it] \in Nat
      /\ offset <= chunks[it].size /\ AtCross
      /\ intact => chunks[it].fd >= 0 /\ len[it] >= chunks[it].size
  BY <1>1, AtChunk
<1>4. /\ offset \in Nat /\ count \in Nat /\ bytes_read \in Nat
  BY Shape
<1>5. offset + count <= chunks[it].size
  BY <1>1, <1>3, <1>4
<1>6. rv \in Nat /\ rv <= count /\ (intact => rv = count)
  <2>1. /\ rv \in Int /\ (rv < 0 \/ rv \in 0 .. count)
        /\ intact => rv = count
    BY <1>3, <1>4, <1>5, PreadRange
  <2> HIDE DEF rv
  <2> QED
    BY ONLY <1>1, <1>4, <2>1
<1> HIDE DEF rv
<1>7. rv <= chunks[it].size - offset
  BY <1>3, <1>4, <1>5, <1>6
<1>8. /\ Filled(0)' /\ BufferRespected'
      /\ buf' \in [0 .. BufSize - 1 -> Byte]
  BY <1>1, <1>2, <1>6, <1>7, FillStep
<1>9. TypeOK'
  <2>1. bytes_read' \in Nat
    BY <1>1, <1>4, <1>6
  <2>2. TypeOK
    BY DEF ReadInv
  <2> QED
    BY <1>1, <1>2, <1>8, <2>1, <2>2 DEF TypeOK
<1>10. AtReplace'
  <2>1. rt' - 1 = 0
    BY <1>2, <1>3 DEF AtCross
  <2>2. Window = size /\ bytes_read + count = size
    BY <1>1, <1>5, WholeWindow
  <2>3. Window' = Window
    BY <1>2 DEF Window
  <2>4. intact' => bytes_read' = Window'
    BY <1>1, <1>2, <1>6, <2>2, <2>3
  <2> QED
    BY <1>8, <2>1, <2>4 DEF AtReplace
<1>11. WellFormed(chunks, replaces)'
  BY <1>2, Shape
<1> QED
  BY <1>1, <1>8, <1>9, <1>10, <1>11 DEF ReadInv

LEMMA TailFailStep ==
    ASSUME ReadInv, FitsOff, TailFail
    PROVE  ReadInv'
<1> DEFINE rv == Pread(it, count, offset)
<1>1. /\ pc = "cross" /\ it <= Len(chunks) /\ ~(count > chunks[it].size - offset)
      /\ rv < 0 /\ ret' \in ErrorAfter(rv) /\ pc' = "done"
  BY CrossingExact DEF TailFail
<1>2. UNCHANGED <<chunks, replaces, len, off, size, it, offset, count,
                  bytes_read, rt, buf, intact>>
  BY DEF TailFail, object, request
<1>3. /\ chunks[it].size \in Nat /\ chunks[it].fd \in Int /\ len[it] \in Nat
      /\ offset \in Nat /\ count \in Nat
      /\ intact => chunks[it].fd >= 0 /\ len[it] >= chunks[it].size
  BY <1>1, AtChunk, Shape
<1>4. offset + count <= chunks[it].size
  BY <1>1, <1>3
<1>5. rv \in Int /\ (intact => rv = count)
  BY <1>3, <1>4, PreadRange
<1> HIDE DEF rv
<1>6. ret' \in Int /\ AtDone'
  BY <1>1, <1>2, <1>3, <1>5, Refused
<1>7. TypeOK' /\ WellFormed(chunks, replaces)' /\ BufferRespected'
  BY <1>1, <1>2, <1>6 DEF ReadInv, TypeOK, BufferRespected
<1> QED
  BY <1>1, <1>6, <1>7 DEF ReadInv

LEMMA TailNoneStep ==
    ASSUME ReadInv, FitsOff, TailNone
    PROVE  ReadInv'
<1>1. /\ pc = "cross" /\ pc' = "replace" /\ AtCross
      /\ ~(it <= Len(chunks) /\ count > 0)
      /\ ~(it <= Len(chunks) /\ count > chunks[it].size - offset)
  BY CrossingExact DEF TailNone, ReadInv
<1>2. UNCHANGED <<chunks, replaces, len, off, size, it, offset, count,
                  bytes_read, rt, buf, ret, intact>>
  BY DEF TailNone, object, request
<1>3. bytes_read = Window
  <2>1. CASE it <= Len(chunks)
    <3>0. /\ count \in Nat /\ offset \in Nat /\ offset <= chunks[it].size
          /\ ~(count > 0)
      BY <1>1, <2>1, Shape DEF AtCross
    <3>1. count = 0 /\ offset + count <= chunks[it].size
      BY <3>0
    <3> QED
      BY <1>1, <2>1, <3>1, WholeWindow, Shape
  <2>2. CASE it > Len(chunks)
    BY <1>1, <2>2 DEF AtCross
  <2>3. it \in Nat /\ Len(chunks) \in Nat
    BY Shape
  <2> QED
    BY <2>1, <2>2, <2>3
<1>4. AtReplace'
  <2>1. Filled(0) /\ rt - 1 = 0
    BY <1>1 DEF AtCross
  <2>2. Filled(rt - 1)'
    BY <1>2, <2>1 DEF Filled
  <2> QED
    BY <1>2, <1>3, <2>2 DEF AtReplace, Window
<1>5. TypeOK' /\ WellFormed(chunks, replaces)' /\ BufferRespected'
  BY <1>1, <1>2 DEF ReadInv, TypeOK, BufferRespected
<1> QED
  BY <1>1, <1>4, <1>5 DEF ReadInv

-----------------------------------------------------------------------------
(* A replacement that does not cover a position leaves its byte as it was. *)
LEMMA ShowsNext ==
    ASSUME NEW b, NEW cs, NEW rs, NEW p, NEW m \in Nat \ {0},
           Shows(b, cs, rs, m - 1, p), ~Covers(rs[m], p)
    PROVE  Shows(b, cs, rs, m, p)
<1>1. \A s \in 1 .. m : s \in 1 .. m - 1 \/ s = m
  OBVIOUS
<1>2. CASE FromReplacement(b, rs, m - 1, p)
  <2>1. /\ b.kind = "patch" /\ b.index \in 1 .. m - 1 /\ Covers(rs[b.index], p)
        /\ b.pos = p - rs[b.index].offset
        /\ \A s \in b.index + 1 .. m - 1 : ~Covers(rs[s], p)
    BY <1>2 DEF FromReplacement
  <2>2. b.index \in 1 .. m
    BY <2>1
  <2>3. \A s \in b.index + 1 .. m : s \in b.index + 1 .. m - 1 \/ s = m
    BY <2>1
  <2>4. \A s \in b.index + 1 .. m : ~Covers(rs[s], p)
    BY <2>1, <2>3
  <2> QED
    BY <2>1, <2>2, <2>4 DEF Shows, FromReplacement
<1>3. CASE FromChunk(b, cs, p) /\ \A s \in 1 .. m - 1 : ~Covers(rs[s], p)
  BY <1>1, <1>3 DEF Shows
<1> QED
  BY <1>2, <1>3 DEF Shows

(* A byte of the newest replacement is the one to show where it covers. *)
LEMMA ShowsPatch ==
    ASSUME NEW b, NEW cs, NEW rs, NEW p, NEW m \in Nat \ {0}, NEW q,
           b = [kind |-> "patch", index |-> m, pos |-> q],
           q = p - rs[m].offset, Covers(rs[m], p)
    PROVE  Shows(b, cs, rs, m, p)
<1>1. b.kind = "patch" /\ b.index = m /\ b.pos = q
  OBVIOUS
<1>2. m \in 1 .. m /\ \A s \in m + 1 .. m : FALSE
  OBVIOUS
<1> QED
  BY <1>1, <1>2 DEF Shows, FromReplacement

LEMMA ReplaceStep ==
    ASSUME ReadInv, Replace
    PROVE  ReadInv'
<1> DEFINE r == replaces[rt]
           n == Max2(0, Min2(off + bytes_read, r.offset + r.length) - Max2(off, r.offset))
           ws == Max2(0, r.offset - off)
           rs == Max2(0, off - r.offset)
<1>1. /\ pc = "replace" /\ pc' = "replace" /\ AtReplace
      /\ rt <= Len(replaces) /\ rt' = rt + 1
      /\ buf' = IF n > 0 THEN Copied(buf, ws, n, "patch", rt, rs) ELSE buf
  BY DEF Replace, Patched, ReadInv
<1>2. UNCHANGED <<chunks, replaces, len, off, size, it, offset, count,
                  bytes_read, ret, intact>>
  BY DEF Replace, object, request
<1>3. /\ rt \in Nat \ {0} /\ rt' \in 1 .. Len(replaces) + 1
      /\ off \in Nat /\ bytes_read \in Nat /\ BufSize \in Nat /\ size \in 0 .. BufSize
      /\ buf \in [0 .. BufSize - 1 -> Byte]
  <2>1. rt \in 1 .. Len(replaces) + 1 /\ Len(replaces) \in Nat
    BY Shape
  <2>2. rt \in Nat \ {0} /\ rt' \in 1 .. Len(replaces) + 1
    BY ONLY <1>1, <2>1
  <2> QED
    BY <2>2, Shape
<1>4. r.offset \in Nat /\ r.length \in Nat
  <2>1. WellFormed(chunks, replaces) /\ rt \in 1 .. Len(replaces)
    BY <1>1, Shape
  <2> QED
    BY ONLY <2>1, ListFields
(* Exactly the cells that were read and that the replacement covers are *)
(* written, each from the byte of the content that belongs there.       *)
<1>5. /\ n \in Nat /\ ws \in Nat /\ rs \in Nat
      /\ n > 0 => ws + n <= bytes_read
      /\ \A k \in Nat : k < bytes_read =>
             /\ (n > 0 /\ ws <= k /\ k < ws + n)
                    <=> (r.offset <= off + k /\ off + k < r.offset + r.length)
             /\ rs + (k - ws) = (off + k) - r.offset
  <2> DEFINE o == r.offset
             l == r.length
  <2>1. /\ o \in Nat /\ l \in Nat
        /\ n = Max2(0, Min2(off + bytes_read, o + l) - Max2(off, o))
        /\ ws = Max2(0, o - off) /\ rs = Max2(0, off - o)
    BY <1>4
  <2> HIDE DEF n, ws, rs, o, l
  <2>2. off \in Nat /\ bytes_read \in Nat
    BY <1>3
  <2>3. /\ n \in Nat /\ ws \in Nat /\ rs \in Nat
        /\ n > 0 => ws + n <= bytes_read
        /\ \A k \in Nat : k < bytes_read =>
               /\ (n > 0 /\ ws <= k /\ k < ws + n)
                      <=> (o <= off + k /\ off + k < o + l)
               /\ rs + (k - ws) = (off + k) - o
    BY ONLY <2>1, <2>2 DEF Max2, Min2
  <2> QED
    BY <2>3 DEF o, l
<1> HIDE DEF n, ws, rs
<1>6. /\ buf' \in [0 .. BufSize - 1 -> Byte]
      /\ \A k \in 0 .. BufSize - 1 :
             n > 0 /\ ws <= k /\ k < ws + n =>
                 buf'[k] = [kind |-> "patch", index |-> rt, pos |-> rs + (k - ws)]
      /\ \A k \in 0 .. BufSize - 1 :
             ~(n > 0 /\ ws <= k /\ k < ws + n) => buf'[k] = buf[k]
  <2>1. CASE n > 0
    <3>1. CopyOf(buf', buf, ws, n, "patch", rt, rs)
      <4>1. "patch" \in {"file", "patch"} /\ rt \in Nat
        BY <1>3
      <4>2. CopyOf(Copied(buf, ws, n, "patch", rt, rs), buf, ws, n, "patch", rt, rs)
        BY ONLY <1>3, <1>5, <4>1, CopiedCells
      <4> QED
        BY <1>1, <2>1, <4>2
    <3>2. /\ buf' \in [0 .. BufSize - 1 -> Byte]
          /\ \A k \in 0 .. BufSize - 1 :
                 ws <= k /\ k < ws + n =>
                     buf'[k] = [kind |-> "patch", index |-> rt, pos |-> rs + (k - ws)]
          /\ \A k \in 0 .. BufSize - 1 : k < ws \/ k >= ws + n => buf'[k] = buf[k]
      BY ONLY <3>1 DEF CopyOf
    <3>3. \A k \in 0 .. BufSize - 1 : ~(ws <= k /\ k < ws + n) => k < ws \/ k >= ws + n
      BY ONLY <1>3, <1>5
    <3> QED
      BY ONLY <2>1, <3>2, <3>3
  <2>2. CASE ~(n > 0)
    BY ONLY <1>1, <1>3, <2>2
  <2> QED
    BY <2>1, <2>2
<1>7. Filled(rt - 1) /\ bytes_read <= size
  BY <1>1 DEF AtReplace, Filled
<1>8. ASSUME NEW k \in 0 .. BufSize - 1
      PROVE  IF k < bytes_read
             THEN Shows(buf'[k], chunks, replaces, rt, off + k)
             ELSE buf'[k] = Unwritten
  <2>0. k \in Nat
    BY <1>3
  <2>1. CASE k < bytes_read /\ n > 0 /\ ws <= k /\ k < ws + n
    <3>1. buf'[k] = [kind |-> "patch", index |-> rt, pos |-> rs + (k - ws)]
      BY <1>6, <2>1
    <3>2. rs + (k - ws) = (off + k) - r.offset
      BY <1>5, <2>0, <2>1
    <3>3. Covers(r, off + k)
      BY <1>5, <2>0, <2>1 DEF Covers
    <3> QED
      BY <1>3, <2>1, <3>1, <3>2, <3>3, ShowsPatch
  <2>2. CASE k < bytes_read /\ ~(n > 0 /\ ws <= k /\ k < ws + n)
    <3>1. buf'[k] = buf[k]
      BY <1>6, <2>2
    <3>2. ~Covers(r, off + k)
      BY <1>5, <2>0, <2>2 DEF Covers
    <3>3. Shows(buf[k], chunks, replaces, rt - 1, off + k)
      BY <1>7, <2>2 DEF Filled
    <3> QED
      BY <1>3, <2>2, <3>1, <3>2, <3>3, ShowsNext
  <2>3. CASE ~(k < bytes_read)
    <3>1. ~(n > 0 /\ ws <= k /\ k < ws + n)
      BY ONLY <1>3, <1>5, <2>0, <2>3
    <3>2. buf'[k] = buf[k] /\ buf[k] = Unwritten
      BY <1>6, <1>7, <2>3, <3>1 DEF Filled
    <3> QED
      BY <2>3, <3>2
  <2> QED
    BY <2>1, <2>2, <2>3
<1>9. AtReplace'
  <2>1. rt' - 1 = rt
    BY <1>1, <1>3
  <2>2. /\ bytes_read' <= size'
        /\ \A k \in 0 .. BufSize - 1 :
               IF k < bytes_read'
               THEN Shows(buf'[k], chunks', replaces', rt' - 1, off' + k)
               ELSE buf'[k] = Unwritten
    BY <1>2, <1>7, <1>8, <2>1
  <2>3. (intact => bytes_read = Window)'
    BY <1>1, <1>2 DEF AtReplace, Window
  <2> QED
    BY <2>2, <2>3 DEF AtReplace, Filled
<1>10. BufferRespected'
  BY <1>2, <1>3, <1>6, <1>7, <1>8 DEF BufferRespected
<1>11. TypeOK' /\ WellFormed(chunks, replaces)'
  BY <1>1, <1>2, <1>3, <1>6 DEF ReadInv, TypeOK
<1> QED
  BY <1>1, <1>9, <1>10, <1>11 DEF ReadInv

LEMMA ReturnStep ==
    ASSUME ReadInv, Return
    PROVE  ReadInv'
<1>1. /\ pc = "replace" /\ pc' = "done" /\ AtReplace
      /\ rt > Len(replaces) /\ ret' = bytes_read
  BY DEF Return, ReadInv
<1>2. UNCHANGED <<chunks, replaces, len, off, size, it, offset, count,
                  bytes_read, rt, buf, intact>>
  BY DEF Return, object, request
<1>3. /\ rt - 1 = Len(replaces) /\ bytes_read \in Nat /\ size \in 0 .. BufSize
      /\ BufSize \in Nat /\ buf \in [0 .. BufSize - 1 -> Byte]
  <2>1. Len(replaces) \in Nat /\ rt \in 1 .. Len(replaces) + 1
    BY Shape
  <2>2. rt - 1 = Len(replaces)
    BY ONLY <1>1, <2>1
  <2> QED
    BY <2>2, Shape
<1>4. ReadCorrect'
  <2>1. ASSUME NEW k \in 0 .. bytes_read - 1
        PROVE  k \in DOMAIN buf /\ Shows(buf[k], chunks, replaces, Len(replaces), off + k)
    <3>1. bytes_read <= size /\ Filled(Len(replaces))
      BY <1>1, <1>3 DEF AtReplace, Filled
    <3>2. k \in 0 .. BufSize - 1 /\ k < bytes_read
      BY ONLY <1>3, <2>1, <3>1
    <3> QED
      BY <1>3, <3>1, <3>2 DEF Filled
  <2> QED
    BY <1>1, <1>2, <2>1 DEF ReadCorrect
<1>5. ReadComplete'
  BY <1>1, <1>2 DEF ReadComplete, AtReplace, Window
<1>6. TypeOK' /\ WellFormed(chunks, replaces)' /\ BufferRespected'
  BY <1>1, <1>2, <1>3 DEF ReadInv, TypeOK, BufferRespected
<1> QED
  BY <1>1, <1>4, <1>5, <1>6 DEF ReadInv, AtDone

LEMMA ResizeStep ==
    ASSUME ReadInv, NEW i \in DOMAIN chunks, NEW n \in 0 .. MaxLen, Resize(i, n)
    PROVE  ReadInv'
<1>1. /\ len' = [len EXCEPT ![i] = n]
      /\ intact' = (intact /\ Whole(i, n))
      /\ UNCHANGED <<chunks, replaces, pc, off, size, it, offset, count,
                     bytes_read, rt, buf, ret>>
  BY DEF Resize, object, request
<1>2. TypeOK'
  <2>1. n \in Nat
    BY ErrnoRange
  <2>2. TypeOK
    BY DEF ReadInv
  <2>3. len' \in [DOMAIN chunks -> Nat]
    BY <1>1, <2>1, <2>2 DEF TypeOK
  <2>4. intact' \in BOOLEAN
    BY <1>1, <2>2 DEF TypeOK, Whole
  <2> QED
    BY <1>1, <2>2, <2>3, <2>4 DEF TypeOK
<1>3. (intact' => intact) /\ ((intact' /\ AllWhole) => AllWhole')
  <2>1. len \in [DOMAIN chunks -> Nat]
    BY DEF ReadInv, TypeOK
  <2> QED
    BY <1>1, <2>1 DEF AllWhole, Whole
<1>4. WellFormed(chunks, replaces)' /\ BufferRespected'
  BY <1>1 DEF ReadInv, BufferRespected
<1>5. pc' = "seek" => AtSeek'
  BY <1>1, <1>3 DEF ReadInv, AtSeek
<1>6. pc' = "cross" => AtCross'
  BY <1>1, <1>3 DEF ReadInv, AtCross, Filled, Window
<1>7. pc' = "replace" => AtReplace'
  BY <1>1, <1>3 DEF ReadInv, AtReplace, Filled, Window
<1>8. pc' = "done" => AtDone'
  BY <1>1, <1>3 DEF ReadInv, AtDone, ReadCorrect, ReadComplete
<1> QED
  BY <1>2, <1>4, <1>5, <1>6, <1>7, <1>8 DEF ReadInv

LEMMA ReadInvStep == ReadInv /\ FitsOff /\ [Next]_vars => ReadInv'
<1> SUFFICES ASSUME ReadInv, FitsOff, [Next]_vars PROVE ReadInv'
  OBVIOUS
<1>1. CASE UNCHANGED vars
  BY <1>1 DEF vars, ReadInv, TypeOK, BufferRespected, AtSeek, AtCross, AtReplace,
    AtDone, Filled, Window, AllWhole, Whole, ReadCorrect, ReadComplete
<1>2. CASE \E o \in Offsets, n \in Counts : Call(o, n)
  BY <1>2, CallStep
<1>3. CASE \E i \in DOMAIN chunks, n \in 0 .. MaxLen : Resize(i, n)
  BY <1>3, ResizeStep
<1>4. CASE Step
  BY <1>4, SeekNextStep, SeekDoneStep, CrossWholeStep, CrossShortStep,
     CrossFailStep, TailReadStep, TailFailStep, TailNoneStep, ReplaceStep,
     ReturnStep DEF Step
<1> QED
  BY <1>1, <1>2, <1>3, <1>4 DEF Next

-----------------------------------------------------------------------------
(* What each program point of concat::read and replace knows stays true,   *)
(* whatever happens to the files between two steps.                        *)
THEOREM ReadInvariant == Spec => []ReadInv
BY ReadInvInit, FitsInit, ReadInvStep, FitsStep, PTL DEF Spec

(* Every value stays in its range, for any object and any request. *)
THEOREM TypeCorrect == Spec => []TypeOK
<1>1. ReadInv => TypeOK
  BY DEF ReadInv
<1> QED
  BY <1>1, ReadInvariant, PTL

(* concat::read and concat::replace return the merged file: every byte of  *)
(* every answer is the byte the description puts at that position.         *)
THEOREM ReadIsCorrect == Spec => []ReadCorrect
<1>1. ReadInv => ReadCorrect
  BY DEF ReadInv, AtDone, ReadCorrect
<1> QED
  BY <1>1, ReadInvariant, PTL

(* A read of undamaged chunks returns all there is, up to the caller's room. *)
THEOREM ReadIsComplete == Spec => []ReadComplete
<1>1. ReadInv => ReadComplete
  BY DEF ReadInv, AtDone, ReadComplete
<1> QED
  BY <1>1, ReadInvariant, PTL

(* No pread and no memcpy writes beyond the caller's buffer. *)
THEOREM BufferIsRespected == Spec => []BufferRespected
<1>1. ReadInv => BufferRespected
  BY DEF ReadInv
<1> QED
  BY <1>1, ReadInvariant, PTL

-----------------------------------------------------------------------------
(* Refinement: the stepwise read implements MergedView. *)

(* A byte that is shown lies before the end of the merged file. *)
LEMMA ShownInside ==
    ASSUME NEW b, NEW cs, NEW rs, WellFormed(cs, rs), NEW m \in 0 .. Len(rs),
           NEW p \in Nat, Shows(b, cs, rs, m, p)
    PROVE  p < MergedLength(cs)
<1>0. /\ Len(cs) \in Nat /\ DOMAIN cs = 1 .. Len(cs)
      /\ Len(rs) \in Nat /\ DOMAIN rs = 1 .. Len(rs)
      /\ MergedLength(cs) \in Nat
  BY ListFields, MergedLengthNat
<1>1. CASE FromReplacement(b, rs, m, p)
  <2>1. b.index \in DOMAIN rs /\ Covers(rs[b.index], p)
    BY <1>0, <1>1 DEF FromReplacement
  <2>2. PICK i \in DOMAIN cs : /\ cs[i].base <= rs[b.index].offset
                               /\ rs[b.index].offset + rs[b.index].length
                                      <= cs[i].base + cs[i].size
    BY <2>1 DEF WellFormed, InsideOneChunk
  <2> DEFINE e == cs[i].base + cs[i].size
             o == rs[b.index].offset
             l == rs[b.index].length
  <2>3. e \in Nat /\ e <= MergedLength(cs)
    BY <1>0, <2>2, ListFields, ChunkEnds
  <2>4. p < o + l /\ o + l <= e /\ o \in Nat /\ l \in Nat
    BY <1>0, <2>1, <2>2, ListFields DEF Covers
  <2> HIDE DEF e, o, l
  <2> QED
    BY <1>0, <2>3, <2>4
<1>2. CASE FromChunk(b, cs, p)
  <2> DEFINE i == b.index
             base == cs[i].base
             z == cs[i].size
  <2>1. i \in DOMAIN cs /\ p - base \in 0 .. z - 1
    BY <1>2 DEF FromChunk
  <2>2. base \in Nat /\ z \in Nat /\ base + z <= MergedLength(cs)
    BY <1>0, <2>1, ListFields, ChunkEnds
  <2> HIDE DEF i, base, z
  <2> QED
    BY <1>0, <2>1, <2>2
<1> QED
  BY <1>1, <1>2 DEF Shows

(* A read never holds more than the window. *)
LEMMA WithinWindow ==
    ASSUME ReadInv, pc = "replace"
    PROVE  bytes_read <= Window
<1>1. Filled(rt - 1) /\ bytes_read <= size
  BY DEF ReadInv, AtReplace, Filled
<1>2. /\ bytes_read \in Nat /\ size \in 0 .. BufSize /\ BufSize \in Nat
      /\ off \in Nat /\ MergedLength(chunks) \in Nat
      /\ WellFormed(chunks, replaces)
      /\ rt \in 1 .. Len(replaces) + 1 /\ Len(replaces) \in Nat
  BY Shape
<1>3. CASE bytes_read > 0
  <2> DEFINE k == bytes_read - 1
             p == off + k
  <2>1. k \in 0 .. BufSize - 1 /\ k < bytes_read /\ p \in Nat
        /\ rt - 1 \in 0 .. Len(replaces)
    BY ONLY <1>1, <1>2, <1>3
  <2>2. Shows(buf[k], chunks, replaces, rt - 1, p)
    BY <1>1, <2>1 DEF Filled
  <2>3. p < MergedLength(chunks)
    BY ONLY <1>2, <2>1, <2>2, ShownInside
  <2> QED
    BY ONLY <1>1, <1>2, <1>3, <2>3 DEF Window, Max2, Min2
<1>4. CASE ~(bytes_read > 0)
  BY ONLY <1>2, <1>4 DEF Window, Max2, Min2
<1> QED
  BY <1>3, <1>4

(* At an answer, whatever it is, MergedView may answer so. *)
LEMMA AnswerStep ==
    ASSUME ReadInv, ReadInv', pc \in {"cross", "replace"}, pc' = "done",
           ret' <= Window, UNCHANGED <<chunks, replaces, off, size, intact>>
    PROVE  View!Answer
<1>1. ViewState = "asked" /\ ViewState' = "answered"
  BY DEF ViewState
<1>2. ViewAnswer'.n = ret' /\ ret' \in Int
  BY DEF ViewAnswer, ReadInv, TypeOK
<1>3. View!Window = Window
  BY DEF View!Window, Window, View!MergedLength, MergedLength, View!Max2, Max2,
    View!Min2, Min2
<1>4. ReadCorrect' /\ ReadComplete'
  BY DEF ReadInv, AtDone
<1>5. intact => ret' = Window
  BY <1>4 DEF ReadComplete, Window
<1>6. ASSUME NEW k \in 0 .. ret' - 1
      PROVE  Shows(ViewAnswer'.bytes[k], chunks', replaces', Len(replaces'), off' + k)
  <2>1. ret' > 0
    <3> DEFINE r == ret'
    <3>1. r \in Int /\ k \in 0 .. r - 1
      BY <1>2
    <3> HIDE DEF r
    <3>2. r > 0
      BY ONLY <3>1
    <3> QED
      BY <3>2 DEF r
  <2>2. ViewAnswer'.bytes = [j \in 0 .. ret' - 1 |-> buf'[j]]
    BY <2>1 DEF ViewAnswer
  <2> QED
    BY <1>4, <2>2 DEF ReadCorrect
<1>7. View!IsWindow(ViewAnswer')
  BY <1>2, <1>6 DEF View!IsWindow, View!Shows, Shows, View!FromReplacement,
    FromReplacement, View!FromChunk, FromChunk, View!Covers, Covers
<1> QED
  BY <1>1, <1>2, <1>3, <1>5, <1>7 DEF View!Answer

LEMMA ViewStep == ReadInv /\ ReadInv' /\ [Next]_vars => [View!Next]_View!mvars
<1> SUFFICES ASSUME ReadInv, ReadInv', [Next]_vars PROVE [View!Next]_View!mvars
  OBVIOUS
<1> USE DEF View!mvars
<1>1. CASE UNCHANGED vars
  BY <1>1 DEF vars, ViewState, ViewAnswer
<1>2. ASSUME NEW o \in Offsets, NEW n \in Counts, Call(o, n)
      PROVE  View!Ask
  <2>1. pc \in {"idle", "done"} /\ pc' = "seek"
    BY <1>2 DEF Call
  <2>2. ViewState # "asked" /\ ViewState' = "asked"
    BY <2>1 DEF ViewState
  <2>3. ViewAnswer' = View!NoAnswer
    BY <2>1 DEF ViewAnswer, View!NoAnswer
  <2>4. off' \in Nat /\ size' \in Nat /\ UNCHANGED <<chunks, replaces>>
    BY <1>2, RequestRange DEF Call, object
  <2>5. intact' \in BOOLEAN
    BY DEF ReadInv, TypeOK
  <2> QED
    BY <2>2, <2>3, <2>4, <2>5 DEF View!Ask
<1>3. ASSUME NEW i \in DOMAIN chunks, NEW n \in 0 .. MaxLen, Resize(i, n)
      PROVE  [View!Next]_View!mvars
  <2>1. /\ UNCHANGED <<chunks, replaces, pc, off, size, buf, ret>>
        /\ intact' => intact
        /\ intact \in BOOLEAN /\ intact' \in BOOLEAN
    BY <1>3 DEF Resize, object, request, ReadInv, TypeOK
  <2>2. UNCHANGED <<ViewState, ViewAnswer>>
    BY <2>1 DEF ViewState, ViewAnswer
  <2> QED
    BY <2>1, <2>2 DEF View!Damage, View!Next
<1>4. CASE SeekNext \/ SeekDone \/ CrossWhole \/ CrossShort \/ TailRead
           \/ TailNone \/ Replace
  <2>1. /\ pc \in {"seek", "cross", "replace"} /\ pc' \in {"seek", "cross", "replace"}
        /\ UNCHANGED <<chunks, replaces, off, size, intact>>
    BY <1>4 DEF SeekNext, SeekDone, CrossWhole, CrossShort, TailRead, TailNone,
      Replace, object, request
  <2>2. UNCHANGED <<ViewState, ViewAnswer>>
    BY <2>1 DEF ViewState, ViewAnswer
  <2> QED
    BY <2>1, <2>2
<1>5. CASE CrossFail \/ TailFail
  <2>1. /\ pc = "cross" /\ pc' = "done"
        /\ UNCHANGED <<chunks, replaces, off, size, intact>>
    BY <1>5 DEF CrossFail, TailFail, object, request
  <2>2. \E rv \in Int : ret' \in ErrorAfter(rv)
    <3>1. it <= Len(chunks)
      BY <1>5 DEF CrossFail, TailFail, Crossing
    <3>2. /\ chunks[it].size \in Nat /\ chunks[it].fd \in Int /\ len[it] \in Nat
          /\ offset <= chunks[it].size
      BY <2>1, <3>1, AtChunk
    <3>3. offset \in Nat /\ count \in Nat /\ chunks[it].size - offset \in Nat
      <4>1. offset \in Nat /\ count \in Nat
        BY Shape
      <4> QED
        BY ONLY <3>2, <4>1
    <3>4. /\ Pread(it, count, offset) \in Int
          /\ Pread(it, chunks[it].size - offset, offset) \in Int
      BY <3>2, <3>3, PreadRange
    <3> QED
      BY <1>5, <3>4 DEF CrossFail, TailFail
  <2>3. ret' <= Window
    <3>1. ret' \in Int /\ ret' <= 0
      BY <2>2, ErrorNotPositive
    <3>2. Window \in Nat
      BY Shape DEF Window, Max2, Min2
    <3> QED
      BY ONLY <3>1, <3>2
  <2> QED
    BY <2>1, <2>3, AnswerStep DEF View!Next
<1>6. CASE Return
  <2>1. /\ pc = "replace" /\ pc' = "done" /\ ret' = bytes_read
        /\ UNCHANGED <<chunks, replaces, off, size, intact>>
    BY <1>6 DEF Return, object, request
  <2> QED
    BY <2>1, WithinWindow, AnswerStep DEF View!Next
<1> QED
  BY <1>1, <1>2, <1>3, <1>4, <1>5, <1>6 DEF Next, Step, View!Next

(* concat::read, with its preads, short reads and patches, promises what    *)
(* MergedView promises: a prefix of the window, all of it if undamaged.     *)
THEOREM ReadImplementsView == Spec => ImplementsView
<1>1. Init => View!Init
  <2> SUFFICES ASSUME Init PROVE View!Init
    OBVIOUS
  <2>1. ViewState = "idle" /\ ViewAnswer = View!NoAnswer
    BY DEF Init, ViewState, ViewAnswer, View!NoAnswer
  <2>2. WellFormed(chunks, replaces)
    BY ReadInvInit DEF ReadInv
  <2>3. View!WellFormed(chunks, replaces)
    BY <2>2 DEF WellFormed, View!WellFormed, LaidOut, View!LaidOut,
      InsideOneChunk, View!InsideOneChunk, Chunk, View!Chunk, Replaced, View!Replaced
  <2> QED
    BY <2>1, <2>3 DEF Init, View!Init
<1> QED
  BY <1>1, ReadInvariant, ViewStep, PTL DEF Spec, ImplementsView, View!Spec
=============================================================================
