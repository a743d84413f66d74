------------------------------ MODULE JsonTree ------------------------------
(***************************************************************************)
(* Values as trees: what a basic_json of src/include/json.hpp means.  A    *)
(* tree is an object, an array, a string, or a json, the pair of m_type    *)
(* and m_value, of one of the other types.                                 *)
(***************************************************************************)
EXTENDS Integers, Sequences, FiniteSets, SequencesExt

json(t, v) == [m_type |-> t, m_value |-> v]

Null == json("null", 0)
Discarded == json("discarded", 0)

ObjectOf(ms) == [kind |-> "object", members |-> ms]
ArrayOf(es) == [kind |-> "array", elements |-> es]
StringOf(s) == [kind |-> "string", text |-> s]

TypeOfTree(t) == IF "kind" \in DOMAIN t THEN t.kind ELSE t.m_type

(* What null holds once it has become an array or an object. *)
Elements(t) == IF TypeOfTree(t) = "array" THEN t.elements ELSE <<>>
Members(t) == IF TypeOfTree(t) = "object" THEN t.members ELSE <<>>

(* The members, with v for the one named key. *)
With(members, key, v) ==
    [k \in DOMAIN members \cup {key} |-> IF k = key THEN v ELSE members[k]]

(* An array of nulls up to n is there before element n is assigned. *)
Filled(es, n) == es \o [k \in 1 .. (IF n < Len(es) THEN 0 ELSE n + 1 - Len(es)) |-> Null]

(* std::map's order of keys, which are sequences of bytes. *)
Before(s, t) ==
    \E n \in 0 .. Min({Len(s), Len(t)}) :
        /\ SubSeq(s, 1, n) = SubSeq(t, 1, n)
        /\ n < Len(t)
        /\ n < Len(s) => s[n + 1] < t[n + 1]
InOrder(keys) ==
    [i \in 1 .. Cardinality(keys) |->
       CHOOSE k \in keys : Cardinality({l \in keys : Before(l, k)}) = i - 1]
=============================================================================
