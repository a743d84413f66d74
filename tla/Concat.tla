------------------------------- MODULE Concat -------------------------------
(***************************************************************************)
(* The data of a concat object (include/concat.h) and what it stands for:  *)
(* the merged file, a run of chunks laid end to end, with replaced bytes   *)
(* painted over it in the order of the list.                               *)
(*                                                                         *)
(* A byte is abstracted to where it comes from: byte pos of the file of    *)
(* chunk index, or byte pos of the content of replacement index.  Every    *)
(* question about what a read returns is a question about these origins.   *)
(***************************************************************************)
EXTENDS Integers, Sequences

(***************************************************************************)
(* chunk: its cached file_size and its descriptor (-1 when open failed).   *)
(* base is where the chunk starts in the merged file; the code does not    *)
(* store it, it is the value of parseJson's off when the chunk is pushed.  *)
(***************************************************************************)
Chunk == [base : Nat, size : Nat, fd : Int]

(* replaced: a range of the merged file; its content is named by its index. *)
Replaced == [offset : Nat, length : Nat]

Byte == [kind : {"none", "file", "patch"}, index : Nat, pos : Int]

Unwritten == [kind |-> "none", index |-> 0, pos |-> 0]

(***************************************************************************)
(* What parsing leaves behind when it succeeds, and what a read relies on. *)
(***************************************************************************)
LaidOut(cs) ==
    /\ cs # <<>> => cs[1].base = 0
    /\ \A i \in DOMAIN cs : i + 1 \in DOMAIN cs
                               => cs[i + 1].base = cs[i].base + cs[i].size
    /\ \A i, j \in DOMAIN cs : i < j => cs[i].base + cs[i].size <= cs[j].base

InsideOneChunk(r, cs) ==
    \E i \in DOMAIN cs : /\ cs[i].base <= r.offset
                         /\ r.offset + r.length <= cs[i].base + cs[i].size

(* The end of the last chunk: the length of the merged file. *)
MergedLength(cs) ==
    IF cs = <<>> THEN 0 ELSE cs[Len(cs)].base + cs[Len(cs)].size

WellFormed(cs, rs) ==
    /\ cs \in Seq(Chunk)
    /\ rs \in Seq(Replaced)
    /\ LaidOut(cs)
    /\ \A r \in DOMAIN rs : rs[r].length > 0 /\ InsideOneChunk(rs[r], cs)

(***************************************************************************)
(* Shows(b, cs, rs, m, p): b is the byte at position p of the merged file  *)
(* after the first m replacements: the last of them that covers p, or else *)
(* the byte of the chunk that holds p.                                     *)
(***************************************************************************)
Covers(r, p) == r.offset <= p /\ p < r.offset + r.length

FromChunk(b, cs, p) ==
    /\ b.kind = "file"
    /\ b.index \in DOMAIN cs
    /\ b.pos = p - cs[b.index].base
    /\ b.pos \in 0 .. cs[b.index].size - 1

FromReplacement(b, rs, m, p) ==
    /\ b.kind = "patch"
    /\ b.index \in 1 .. m
    /\ Covers(rs[b.index], p)
    /\ b.pos = p - rs[b.index].offset
    /\ \A s \in b.index + 1 .. m : ~Covers(rs[s], p)

Shows(b, cs, rs, m, p) ==
    \/ FromReplacement(b, rs, m, p)
    \/ FromChunk(b, cs, p) /\ \A s \in 1 .. m : ~Covers(rs[s], p)

(* std::min and std::max. *)
Min2(a, b) == IF a <= b THEN a ELSE b
Max2(a, b) == IF a >= b THEN a ELSE b
=============================================================================
