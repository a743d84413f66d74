------------------------------ MODULE Compare ------------------------------
(***************************************************************************)
(* sweet::less and its companions (include/compare.hpp): comparison of     *)
(* integers of two types.  A type is known by its sign and the number of   *)
(* its values; the conversion of a static_cast is made where the code has  *)
(* one.  The instances for int128 are left out: no type of the program is. *)
(***************************************************************************)
EXTENDS Integers

CONSTANT UInt64      \* how many values uint64_t has

ASSUME UInt64Assumption == UInt64 \in Nat \ {0} /\ UInt64 % 2 = 0

Type == {T \in [signed : BOOLEAN, values : 1 .. UInt64] : T.values % 2 = 0}

uint64_t == [signed |-> FALSE, values |-> UInt64]
int64_t == [signed |-> TRUE, values |-> UInt64]

Values(T) ==
    IF T.signed THEN -(T.values \div 2) .. ((T.values \div 2) - 1) ELSE 0 .. (T.values - 1)

(* static_cast<T>(n) *)
Cast(T, n) ==
    IF T.signed /\ n % T.values >= T.values \div 2 THEN (n % T.values) - T.values
    ELSE n % T.values

Bigger(T, S) == IF T.values >= S.values THEN T ELSE S

(* What both are converted to where none is negative, or both may be. *)
Common(T, S) == IF T.signed = S.signed THEN Bigger(T, S) ELSE uint64_t

(* Only one of the types is signed, and the value of it is negative. *)
FirstNegative(T, S, t) == T.signed /\ ~S.signed /\ t < 0
SecondNegative(T, S, s) == S.signed /\ ~T.signed /\ s < 0

less(T, S, t, s) ==
    \/ FirstNegative(T, S, t)
    \/ ~SecondNegative(T, S, s) /\ Cast(Common(T, S), t) < Cast(Common(T, S), s)
lessEqual(T, S, t, s) ==
    \/ FirstNegative(T, S, t)
    \/ ~SecondNegative(T, S, s) /\ Cast(Common(T, S), t) <= Cast(Common(T, S), s)
equal(T, S, t, s) ==
    /\ ~FirstNegative(T, S, t) /\ ~SecondNegative(T, S, s)
    /\ Cast(Common(T, S), t) = Cast(Common(T, S), s)
notEqual(T, S, t, s) ==
    \/ FirstNegative(T, S, t) \/ SecondNegative(T, S, s)
    \/ Cast(Common(T, S), t) # Cast(Common(T, S), s)
greater(T, S, t, s) ==
    \/ SecondNegative(T, S, s)
    \/ ~FirstNegative(T, S, t) /\ Cast(Common(T, S), t) > Cast(Common(T, S), s)
greaterEqual(T, S, t, s) ==
    \/ SecondNegative(T, S, s)
    \/ ~FirstNegative(T, S, t) /\ Cast(Common(T, S), t) >= Cast(Common(T, S), s)
=============================================================================
