---------------------------- MODULE MCMergedFuse ----------------------------
(* Instances of MergedFuse for model checking. *)
EXTENDS MergedFuse, TLC

(* Threads, descriptors and files are interchangeable; addresses are taken   *)
(* in a fixed order.                                                         *)
Interchangeable ==
    Permutations(Threads) \cup Permutations(Descriptors) \cup Permutations(Files)
=============================================================================
