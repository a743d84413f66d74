---------------------------- MODULE MCConcatParse ----------------------------
(***************************************************************************)
(* Descriptions for model checking ConcatParse: single descriptions with   *)
(* every replacement of a small range, for the arithmetic; and a few       *)
(* descriptions that others edit, for the order of the system calls.       *)
(***************************************************************************)
EXTENDS ConcatParse

CONSTANTS MaxSize     \* the longest file

MCStates == [there : {TRUE}, readable : {TRUE}, size : 0 .. MaxSize]

(* Files that shrink, grow, disappear or are protected. *)
ChangingStates ==
    {[there |-> TRUE, readable |-> TRUE, size |-> 1],
     [there |-> TRUE, readable |-> TRUE, size |-> 3],
     [there |-> TRUE, readable |-> FALSE, size |-> 2],
     [there |-> FALSE, readable |-> FALSE, size |-> 0]}

Written(o, l, n) == [complete |-> TRUE, offset |-> o, length |-> l, content |-> n]
Incomplete == [complete |-> FALSE, offset |-> 0, length |-> 1, content |-> 1]

Listed(p, rs) == [path |-> p, listed |-> TRUE, patches |-> rs]

Doc(n, es) == [there |-> TRUE, readable |-> TRUE, size |-> n,
               json |-> [array |-> TRUE, entries |-> es]]

(* Lengths below zero, at and above the limit, and one an int wraps to 2. *)
Lengths == {-1, 0, 1, 2, MaxLength, MaxLength + 1, IntSpan + 2}
Contents == {-1, 0, 1, 2, MaxLength}

Items == {Written(o, l, n) : o \in (-MaxSize - 1) .. (MaxSize + 1),
                             l \in Lengths, n \in Contents}
             \cup {Incomplete, Written(LongSpan - 1, 1, 1)}

GoodItems == {Written(o, l, 2) : o \in -2 .. 1, l \in {1, 2}}

ItemDocuments ==
    {Doc(9, <<Listed("a", <<>>), Listed("b", <<i>>)>>) : i \in Items}
    \cup {Doc(9, <<Listed("a", <<i>>), Listed("b", <<j, k>>)>>) :
             i \in GoodItems, j \in GoodItems, k \in GoodItems}
    \cup {Doc(9, <<Listed("a", <<i, j>>)>>) :
             i \in {Written(0, 1, 1), Incomplete}, j \in Items}

(* Every kind of description, of three different lengths. *)
EditedDocuments ==
    {Doc(9, <<Listed("a", <<Written(0, 1, 1)>>), Listed("b", <<Written(-1, 2, 2)>>)>>),
     Doc(9, <<Listed("a", <<Written(-1, 1, 1)>>)>>),
     Doc(7, <<Listed("b", <<>>), [path |-> "", listed |-> TRUE, patches |-> <<>>]>>),
     Doc(7, <<Listed("a", <<>>), [path |-> "b", listed |-> FALSE, patches |-> <<>>]>>),
     [there |-> TRUE, readable |-> TRUE, size |-> 5, json |-> NoJson],
     [there |-> TRUE, readable |-> TRUE, size |-> 1, json |-> NoJson],
     [there |-> TRUE, readable |-> FALSE, size |-> 9, json |-> NoJson],
     [there |-> FALSE, readable |-> FALSE, size |-> 0, json |-> NoJson]}

(* Proper descriptions of two files, for what the README promises of them. *)
GoodDocuments ==
    {Doc(9, <<Listed("a", <<i, j>>), Listed("b", <<k>>)>>) :
        i \in GoodItems, j \in GoodItems, k \in GoodItems}

LongEnough == [there : {TRUE}, readable : {TRUE}, size : {2}]
=============================================================================
