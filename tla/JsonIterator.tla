---------------------------- MODULE JsonIterator ----------------------------
(***************************************************************************)
(* iter_impl, json_reverse_iterator and iteration_proxy of                 *)
(* src/include/json.hpp.  An iterator leads to a place of the value it was *)
(* made for: of an object or an array the number of the members or         *)
(* elements before it, of another value what primitive_iterator holds.     *)
(* The value it was made for is the argument t; where two iterators meet,  *)
(* same says whether they were made for one value.  Asserted stands for    *)
(* going past the last member or element, which the code rules out.        *)
(***************************************************************************)
EXTENDS JsonPointer

Gives(v) == [value |-> v, error |-> 0]
Throws(id) == [value |-> Null, error |-> id]

IsObject(t) == TypeOfTree(t) = "object"
IsContainer(t) == TypeOfTree(t) \in {"object", "array"}

(* The members of an object are in the order of their keys. *)
Held(t) ==
    IF IsObject(t)
    THEN LET keys == InOrder(DOMAIN t.members) IN [n \in DOMAIN keys |-> t.members[keys[n]]]
    ELSE t.elements

\* Mistake: null has a first value, like a number.
BeginOfAny(t) == 0

begin(t) == IF TypeOfTree(t) = "null" THEN 1 ELSE 0
end(t) == IF IsContainer(t) THEN Len(Held(t)) ELSE 1

-----------------------------------------------------------------------------
(* iter_impl *)

At0(t, n) == IF n \in 0 .. (Len(Held(t)) - 1) THEN Gives(Held(t)[n + 1]) ELSE Throws(Asserted)

(* operator* and value() *)
Deref(t, it) ==
    CASE IsContainer(t) -> At0(t, it)
      [] ~IsContainer(t) /\ TypeOfTree(t) # "null" /\ it = 0 -> Gives(t)
      [] OTHER -> Throws(214)

Incremented(it) == it + 1
Decremented(it) == it - 1

SameIterator(same, a, b) == IF same THEN Gives(a = b) ELSE Throws(212)

LessIterator(t, same, a, b) ==
    CASE ~same -> Throws(212)
      [] same /\ IsObject(t) -> Throws(213)
      [] OTHER -> Gives(a < b)

Negated(r) == IF r.error = 0 THEN Gives(~r.value) ELSE r
LessEqualIterator(t, same, a, b) == Negated(LessIterator(t, same, b, a))
GreaterIterator(t, same, a, b) == Negated(LessEqualIterator(t, same, a, b))
GreaterEqualIterator(t, same, a, b) == Negated(LessIterator(t, same, a, b))

Plus(t, it, n) == IF IsObject(t) THEN Throws(209) ELSE Gives(it + n)
Minus(t, it, n) == Plus(t, it, -n)
Difference(t, a, b) == IF IsObject(t) THEN Throws(209) ELSE Gives(a - b)

Subscript(t, it, n) ==
    CASE IsObject(t) -> Throws(208)
      [] TypeOfTree(t) = "array" -> At0(t, it + n)
      [] ~IsContainer(t) /\ TypeOfTree(t) # "null" /\ it = -n -> Gives(t)
      [] OTHER -> Throws(214)

KeyAt(t, it) ==
    CASE IsObject(t) /\ it \in 0 .. (end(t) - 1) -> Gives(InOrder(DOMAIN t.members)[it + 1])
      [] IsObject(t) /\ it \notin 0 .. (end(t) - 1) -> Throws(Asserted)
      [] OTHER -> Throws(207)

-----------------------------------------------------------------------------
(* json_reverse_iterator: known by its base, one place behind what it shows. *)

rbegin(t) == end(t)
rend(t) == begin(t)

RDeref(t, base) == Deref(t, Decremented(base))
RIncremented(base) == Decremented(base)
RPlus(t, base, n) == Minus(t, base, n)
RSubscript(t, base, n) ==
    LET r == RPlus(t, base, n) IN IF r.error = 0 THEN RDeref(t, r.value) ELSE r

-----------------------------------------------------------------------------
(* iteration_proxy: an iterator, and how many elements it has passed. *)

Proxy(t) == [anchor |-> begin(t), array_index |-> 0]
ProxyNext(p) == [anchor |-> Incremented(p.anchor), array_index |-> p.array_index + 1]
ProxyKey(t, p) ==
    CASE TypeOfTree(t) = "array" -> Gives(to_string(p.array_index))
      [] IsObject(t) -> KeyAt(t, p.anchor)
      [] OTHER -> Gives(<<>>)
=============================================================================
