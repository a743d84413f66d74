---------------------------- MODULE MCConcatRead ----------------------------
(***************************************************************************)
(* Objects for model checking ConcatRead: every layout of three chunks     *)
(* with every replacement, and every layout of up to two chunks, some of   *)
(* which could not be opened, with every two replacements.                 *)
(***************************************************************************)
EXTENDS ConcatRead

CONSTANTS MaxSize

BaseOf(sizes, i) ==
    LET upTo[j \in 0 .. Len(sizes)] ==
            IF j = 0 THEN 0 ELSE upTo[j - 1] + sizes[j]
    IN upTo[i - 1]

ChunkLists(n, fds) ==
    {[i \in 1 .. n |-> [base |-> BaseOf(s, i), size |-> s[i], fd |-> f[i]]] :
        s \in [1 .. n -> 0 .. MaxSize], f \in [1 .. n -> fds]}

PatchesOf(cs) ==
    {r \in [offset : 0 .. Len(cs) * MaxSize, length : 1 .. MaxSize] :
        InsideOneChunk(r, cs)}

(* The objects of n chunks and at most m replacements. *)
Layouts(n, fds, m) ==
    UNION {{[chunks |-> cs, replaces |-> rs] :
               rs \in UNION {[1 .. k -> PatchesOf(cs)] : k \in 0 .. m}} :
           cs \in ChunkLists(n, fds)}

(* A chunk whose open failed has descriptor -1. *)
MCObjects ==
    Layouts(3, {3}, 1) \cup Layouts(2, {-1, 3}, 1) \cup Layouts(2, {3}, 2)
        \cup Layouts(1, {3}, 2) \cup Layouts(0, {3}, 0)
=============================================================================
