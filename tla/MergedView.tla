----------------------------- MODULE MergedView -----------------------------
(***************************************************************************)
(* What a read of the merged file promises, without preads or loops: the   *)
(* answer to a request for size bytes at off is a prefix of that window of *)
(* the merged file, the whole window unless a chunk was damaged; only a    *)
(* damaged object may answer with an error.                                *)
(***************************************************************************)
EXTENDS Concat

VARIABLES
    chunks, replaces,   \* the object
    state,              \* "idle", "asked" or "answered"
    off, size,          \* the request
    intact,             \* no chunk was damaged since the request was made
    answer              \* [n, bytes]: n < 0 is an error

mvars == <<chunks, replaces, state, off, size, intact, answer>>

NoAnswer == [n |-> 0, bytes |-> <<>>]

(* The part of the window that exists. *)
Window == Max2(0, Min2(size, MergedLength(chunks) - off))

IsWindow(a) ==
    \A k \in 0 .. a.n - 1 :
        Shows(a.bytes[k], chunks, replaces, Len(replaces), off + k)

Init ==
    /\ state = "idle" /\ off = 0 /\ size = 0 /\ intact = TRUE
    /\ answer = NoAnswer
    /\ WellFormed(chunks, replaces)

Ask ==
    /\ state # "asked"
    /\ state' = "asked"
    /\ off' \in Nat /\ size' \in Nat
    /\ intact' \in BOOLEAN
    /\ answer' = NoAnswer
    /\ UNCHANGED <<chunks, replaces>>

Damage ==
    /\ intact /\ ~intact'
    /\ UNCHANGED <<chunks, replaces, state, off, size, answer>>

Answer ==
    /\ state = "asked"
    /\ state' = "answered"
    /\ answer'.n <= Window
    /\ IsWindow(answer')
    /\ intact => answer'.n = Window
    /\ UNCHANGED <<chunks, replaces, off, size, intact>>

Next == Ask \/ Damage \/ Answer

Spec == Init /\ [][Next]_mvars
=============================================================================
