----------------------------- MODULE ConcatRead -----------------------------
(***************************************************************************)
(* concat::read and concat::replace (src/concat.cpp): one read request on  *)
(* an object whose parsing succeeded, pread by pread, while the files      *)
(* behind the chunks are truncated and extended by others.                 *)
(***************************************************************************)
EXTENDS Concat, Compare

CONSTANTS
    Objects,      \* the parsed objects a behaviour may start with
    Offsets,      \* the offsets a request may ask for
    Counts,       \* the byte counts a request may ask for
    BufSize,      \* the size of the memory around the caller's buffer
    MaxLen,       \* bound on the length others may give a chunk's file
    StaleErrno,   \* values errno may hold from an earlier call of the thread
    EBADF

ASSUME ObjectsWellFormed ==
    \A o \in Objects : WellFormed(o.chunks, o.replaces)

ASSUME RequestRange ==
    /\ Offsets \subseteq Nat
    /\ Counts \subseteq Nat
    /\ BufSize \in Nat
    /\ \A n \in Counts : n <= BufSize

\* count is a size_t, a chunk's size an off_t.
ASSUME FitsTypes ==
    /\ BufSize < UInt64
    /\ \A o \in Objects : \A i \in DOMAIN o.chunks :
           o.chunks[i].size < UInt64 \div 2

ASSUME ErrnoRange ==
    /\ StaleErrno \subseteq Nat
    /\ EBADF \in Nat \ {0}
    /\ MaxLen \in Nat

VARIABLES
    chunks, replaces,   \* the object; a read does not change it
    len,                \* the present length of each chunk's file
    pc,                 \* where the request stands
    off, size,          \* the request: offset and size of the caller's buffer
    it,                 \* the chunk iterator
    offset, count,      \* the offset inside chunk it, the bytes still wanted
    bytes_read,
    rt,                 \* the iterator over replaces
    buf,
    ret,                \* the value returned
    intact              \* history: no chunk was damaged since the request began

object == <<chunks, replaces>>
request == <<off, size>>
vars == <<chunks, replaces, len, pc, off, size, it, offset, count,
          bytes_read, rt, buf, ret, intact>>

Fresh == [k \in 0 .. BufSize - 1 |-> Unwritten]

(* Chunk i can still deliver every byte the object promises. *)
Whole(i, n) == chunks[i].fd >= 0 /\ n >= chunks[i].size

Init ==
    /\ \E o \in Objects : chunks = o.chunks /\ replaces = o.replaces
    /\ len = [i \in DOMAIN chunks |-> chunks[i].size]
    /\ pc = "idle"
    /\ off = 0 /\ size = 0
    /\ it = 1 /\ offset = 0 /\ count = 0 /\ bytes_read = 0 /\ rt = 1
    /\ buf = Fresh
    /\ ret = 0
    /\ intact = TRUE

-----------------------------------------------------------------------------
(* The system calls, and the copies into the caller's buffer. *)

(* pread of n bytes at o on chunk i: -1, or what the file still holds there. *)
Pread(i, n, o) ==
    IF chunks[i].fd < 0 THEN -1 ELSE Min2(n, Max2(0, len[i] - o))

(* Cells at .. at+n-1 receive n bytes of a source starting at its byte pos. *)
Copied(b, at, n, kind, index, pos) ==
    [k \in DOMAIN b |-> IF at <= k /\ k < at + n
                        THEN [kind |-> kind, index |-> index,
                              pos |-> pos + (k - at)]
                        ELSE b[k]]

(* -errno after a pread: a failed call set it, one that returned 0 did not. *)
ErrorAfter(rv) == IF rv < 0 THEN {-EBADF} ELSE {-e : e \in StaleErrno}

-----------------------------------------------------------------------------
(* One request. *)

Call(o, n) ==
    /\ pc \in {"idle", "done"}
    /\ pc' = "seek"
    /\ off' = o /\ size' = n
    /\ it' = 1 /\ offset' = o /\ count' = n /\ bytes_read' = 0 /\ rt' = 1
    /\ buf' = Fresh
    /\ ret' = 0
    /\ intact' = \A i \in DOMAIN chunks : Whole(i, len[i])
    /\ UNCHANGED <<object, len>>

(* for (; it != end && offset > it->file_size; ++it) offset -= file_size *)
SeekNext ==
    /\ pc = "seek"
    /\ it <= Len(chunks) /\ offset > chunks[it].size
    /\ it' = it + 1
    /\ offset' = offset - chunks[it].size
    /\ UNCHANGED <<object, request, len, pc, count, bytes_read, rt, buf, ret,
                   intact>>

SeekDone ==
    /\ pc = "seek"
    /\ ~(it <= Len(chunks) /\ offset > chunks[it].size)
    /\ pc' = "cross"
    /\ UNCHANGED <<object, request, len, it, offset, count, bytes_read, rt,
                   buf, ret, intact>>

(* The loop over the chunks the request reads to their end. *)
Crossing ==
    /\ it <= Len(chunks)
    /\ greater(uint64_t, int64_t, count, chunks[it].size - offset)

CrossWhole ==
    LET want == chunks[it].size - offset IN
    /\ pc = "cross" /\ Crossing
    /\ Pread(it, want, offset) = want
    /\ buf' = Copied(buf, bytes_read, want, "file", it, offset)
    /\ it' = it + 1
    /\ offset' = 0
    /\ count' = count - want
    /\ bytes_read' = bytes_read + want
    /\ UNCHANGED <<object, request, len, pc, rt, ret, intact>>

\* Mistake: a short read is not the end of the answer.
CrossShortContinues ==
    LET want == chunks[it].size - offset
        rv == Pread(it, want, offset) IN
    /\ pc = "cross" /\ Crossing
    /\ rv # want /\ rv > 0
    /\ buf' = Copied(buf, bytes_read, rv, "file", it, offset)
    /\ bytes_read' = bytes_read + rv
    /\ it' = it + 1 /\ offset' = 0 /\ count' = count - rv
    /\ UNCHANGED <<object, request, len, pc, rt, ret, intact>>

CrossShort ==
    LET want == chunks[it].size - offset
        rv == Pread(it, want, offset) IN
    /\ pc = "cross" /\ Crossing
    /\ rv # want /\ rv > 0
    /\ buf' = Copied(buf, bytes_read, rv, "file", it, offset)
    /\ bytes_read' = bytes_read + rv
    /\ pc' = "replace"
    /\ UNCHANGED <<object, request, len, it, offset, count, rt, ret, intact>>

\* Mistake: nothing read is taken for a failure, also from an empty chunk.
CrossFailOnEmpty ==
    LET want == chunks[it].size - offset
        rv == Pread(it, want, offset) IN
    /\ pc = "cross" /\ Crossing
    /\ rv <= 0
    /\ ret' \in ErrorAfter(rv)
    /\ pc' = "done"
    /\ UNCHANGED <<object, request, len, it, offset, count, bytes_read, rt,
                   buf, intact>>

CrossFail ==
    LET want == chunks[it].size - offset
        rv == Pread(it, want, offset) IN
    /\ pc = "cross" /\ Crossing
    /\ rv # want /\ rv <= 0
    /\ ret' \in ErrorAfter(rv)
    /\ pc' = "done"
    /\ UNCHANGED <<object, request, len, it, offset, count, bytes_read, rt,
                   buf, intact>>

(* The rest of the request lies inside one chunk. *)
TailRead ==
    LET rv == Pread(it, count, offset) IN
    /\ pc = "cross" /\ ~Crossing
    /\ it <= Len(chunks) /\ count > 0
    /\ rv >= 0
    /\ buf' = Copied(buf, bytes_read, rv, "file", it, offset)
    /\ bytes_read' = bytes_read + rv
    /\ pc' = "replace"
    /\ UNCHANGED <<object, request, len, it, offset, count, rt, ret, intact>>

TailFail ==
    LET rv == Pread(it, count, offset) IN
    /\ pc = "cross" /\ ~Crossing
    /\ it <= Len(chunks) /\ count > 0
    /\ rv < 0
    /\ ret' \in ErrorAfter(rv)
    /\ pc' = "done"
    /\ UNCHANGED <<object, request, len, it, offset, count, bytes_read, rt,
                   buf, intact>>

TailNone ==
    /\ pc = "cross" /\ ~Crossing
    /\ ~(it <= Len(chunks) /\ count > 0)
    /\ pc' = "replace"
    /\ UNCHANGED <<object, request, len, it, offset, count, bytes_read, rt,
                   buf, ret, intact>>

\* Mistake: a replacement cut at its end is still copied to its end.
PatchedToEnd(b, r, s, e) ==
    LET n == Max2(0, r.offset + r.length - Max2(s, r.offset))
        ws == Max2(0, r.offset - s)
        rs == Max2(0, s - r.offset)
    IN IF n > 0 /\ r.offset < e THEN Copied(b, ws, n, "patch", rt, rs) ELSE b

(* One turn of replace(_b, off, bytes_read). *)
Patched(b, r, s, e) ==
    LET _s == r.offset
        _e == r.offset + r.length
        n == Max2(0, Min2(e, _e) - Max2(s, _s))
        ws == Max2(0, _s - s)
        rs == Max2(0, s - _s)
    IN IF n > 0 THEN Copied(b, ws, n, "patch", rt, rs) ELSE b

\* Mistake: the iterator stays when the replacement does not overlap.
ReplaceStays ==
    /\ pc = "replace" /\ rt <= Len(replaces)
    /\ buf' = Patched(buf, replaces[rt], off, off + bytes_read)
    /\ rt' = IF buf' = buf THEN rt ELSE rt + 1
    /\ UNCHANGED <<object, request, len, pc, it, offset, count, bytes_read,
                   ret, intact>>

Replace ==
    /\ pc = "replace" /\ rt <= Len(replaces)
    /\ buf' = Patched(buf, replaces[rt], off, off + bytes_read)
    /\ rt' = rt + 1
    /\ UNCHANGED <<object, request, len, pc, it, offset, count, bytes_read,
                   ret, intact>>

\* Mistake: the answer is the size asked for.
ReturnAsked ==
    /\ pc = "replace" /\ rt > Len(replaces)
    /\ ret' = size
    /\ pc' = "done"
    /\ UNCHANGED <<object, request, len, it, offset, count, bytes_read, rt,
                   buf, intact>>

Return ==
    /\ pc = "replace" /\ rt > Len(replaces)
    /\ ret' = bytes_read
    /\ pc' = "done"
    /\ UNCHANGED <<object, request, len, it, offset, count, bytes_read, rt,
                   buf, intact>>

(* Someone truncates or extends the file behind chunk i. *)
Resize(i, n) ==
    /\ n # len[i]
    /\ len' = [len EXCEPT ![i] = n]
    /\ intact' = (intact /\ Whole(i, n))
    /\ UNCHANGED <<object, request, pc, it, offset, count, bytes_read, rt,
                   buf, ret>>

Step ==
    \/ SeekNext \/ SeekDone
    \/ CrossWhole \/ CrossShort \/ CrossFail
    \/ TailRead \/ TailFail \/ TailNone
    \/ Replace \/ Return

Next ==
    \/ \E o \in Offsets, n \in Counts : Call(o, n)
    \/ Step
    \/ \E i \in DOMAIN chunks, n \in 0 .. MaxLen : Resize(i, n)

Spec == Init /\ [][Next]_vars

(* The thread serving the request keeps running. *)
FairSpec == Spec /\ WF_vars(Step)

-----------------------------------------------------------------------------
TypeOK ==
    /\ chunks \in Seq(Chunk)
    /\ replaces \in Seq(Replaced)
    /\ len \in [DOMAIN chunks -> Nat]
    /\ pc \in {"idle", "seek", "cross", "replace", "done"}
    /\ off \in Nat /\ size \in 0 .. BufSize
    /\ it \in 1 .. Len(chunks) + 1
    /\ offset \in Nat /\ count \in Nat /\ bytes_read \in Nat
    /\ rt \in 1 .. Len(replaces) + 1
    /\ buf \in [0 .. BufSize - 1 -> Byte]
    /\ ret \in Int
    /\ intact \in BOOLEAN

(***************************************************************************)
(* A read that returns n bytes returns bytes off .. off+n-1 of the merged  *)
(* file, replacements applied, without a hole: also when it crosses        *)
(* chunks, starts on a chunk boundary, meets an empty chunk, cuts a        *)
(* replacement at either end, or ends early because a file shrank between  *)
(* two preads (concat::read, concat::replace).                             *)
(***************************************************************************)
ReadCorrect ==
    pc = "done" =>
        \A k \in 0 .. ret - 1 :
            /\ k \in DOMAIN buf
            /\ Shows(buf[k], chunks, replaces, Len(replaces), off + k)

(***************************************************************************)
(* While no chunk's file is shorter than its cached size and every         *)
(* descriptor is open, a read never fails and never falls short: it        *)
(* returns everything between off and the end of the merged file that the  *)
(* caller has room for.                                                    *)
(***************************************************************************)
ReadComplete ==
    (pc = "done" /\ intact) =>
        ret = Max2(0, Min2(size, MergedLength(chunks) - off))

(***************************************************************************)
(* Neither a pread nor a replacement's memcpy touches memory beyond the    *)
(* caller's size bytes, whatever the overlap of the replacements and       *)
(* whatever the files have become.                                         *)
(***************************************************************************)
BufferRespected ==
    \A k \in DOMAIN buf : k >= size => buf[k] = Unwritten

(* Every request is answered (the three loops end). *)
Answered == (pc = "seek") ~> (pc = "done")

-----------------------------------------------------------------------------
(***************************************************************************)
(* The stepwise read implements the window promised by MergedView: its     *)
(* steps between the call and the return are invisible.                    *)
(***************************************************************************)
ViewState == CASE pc = "idle" -> "idle"
               [] pc = "done" -> "answered"
               [] OTHER -> "asked"

ViewAnswer == [n |-> IF pc = "done" THEN ret ELSE 0,
               bytes |-> IF pc = "done" /\ ret > 0
                         THEN [k \in 0 .. ret - 1 |-> buf[k]] ELSE <<>>]

View == INSTANCE MergedView WITH state <- ViewState, answer <- ViewAnswer

ImplementsView == View!Spec
=============================================================================
