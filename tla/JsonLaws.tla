------------------------------ MODULE JsonLaws ------------------------------
(***************************************************************************)
(* What the operations of src/include/json.hpp that only read values have  *)
(* in common, for all values that the operations of JsonValue can make.    *)
(***************************************************************************)
EXTENDS JsonValue, JsonPatch, JsonIterator

CONSTANTS
    Paths,          \* the paths of the operations of a patch, as tokens
    SomeNumbers     \* the numbers values are compared with

ASSUME PathsAreTokens == \A p \in Paths : \A i \in DOMAIN p : p[i] \in Seq(0 .. 255)

ASSUME NumbersInRange ==
    \A n \in SomeNumbers :
        /\ n.m_type \in Numbers
        /\ n.m_type = "number_integer" => n.m_value \in -(2 ^ (Width - 1)) .. 2 ^ (Width - 1) - 1
        /\ n.m_type = "number_unsigned" => n.m_value \in 0 .. 2 ^ Width - 1
        /\ n.m_type = "number_float" => n.m_value = NaN \/ Rounded(n.m_value) = n.m_value

Tree(i) == TreeOf(heap, vals[i])

(* A value with n in place of each of its numbers. *)
RECURSIVE WithNumber(_, _)
WithNumber(t, n) ==
    CASE TypeOfTree(t) = "array" ->
           ArrayOf([i \in DOMAIN t.elements |-> WithNumber(t.elements[i], n)])
      [] TypeOfTree(t) = "object" ->
           ObjectOf([k \in DOMAIN t.members |-> WithNumber(t.members[k], n)])
      [] TypeOfTree(t) \in Numbers -> n
      [] OTHER -> t

Fillings(i) == {WithNumber(Tree(i), n) : n \in SomeNumbers}

RECURSIVE HoldsNaN(_)
HoldsNaN(t) ==
    CASE TypeOfTree(t) = "array" -> \E i \in DOMAIN t.elements : HoldsNaN(t.elements[i])
      [] TypeOfTree(t) = "object" -> \E k \in DOMAIN t.members : HoldsNaN(t.members[k])
      [] TypeOfTree(t) \in Numbers -> IsNaN(t)
      [] OTHER -> FALSE

-----------------------------------------------------------------------------
(***************************************************************************)
(* Of two values without NaN, one is less than the other or they are equal *)
(* and only one of these, whatever the types of their numbers and whether  *)
(* or not these lose digits when they are cast.  A value with NaN in it    *)
(* equals none, not even itself, and may be neither less nor greater.      *)
(***************************************************************************)
OneOf(a, b) ==
    /\ ~(Less(a, b) /\ Less(b, a))
    /\ IF HoldsNaN(a) \/ HoldsNaN(b) THEN ~Equal(a, b)
       ELSE Equal(a, b) <=> ~Less(a, b) /\ ~Less(b, a)
Ordered ==
    \A i, j \in Names : \A a \in Fillings(i), b \in Fillings(j) : OneOf(a, b)

(***************************************************************************)
(* source.patch(diff(source, target)) == target, as diff is documented:    *)
(* no operation of a diff throws, or meets what an earlier one has moved.  *)
(* A target with NaN in it equals nothing and is left out.                 *)
(***************************************************************************)
DiffThenPatch ==
    \A i, j \in Names : \A target \in {t \in Fillings(j) : ~HoldsNaN(t)} :
        \A r \in patch(Tree(i), ArrayOf(diff(Tree(i), target, <<>>))) :
            r.error = 0 /\ Equal(r.doc, target)

(***************************************************************************)
(* unflatten gives back what flatten was given, but for empty objects and  *)
(* arrays, which become null, and an object whose first path goes to a     *)
(* member 0, which unflatten makes an array of.                            *)
(***************************************************************************)
RECURSIVE Flattenable(_)
Flattenable(t) ==
    CASE TypeOfTree(t) = "array" ->
           t.elements # <<>> /\ \A i \in DOMAIN t.elements : Flattenable(t.elements[i])
      [] TypeOfTree(t) = "object" ->
           /\ DOMAIN t.members # {}
           /\ \A k \in DOMAIN t.members : Flattenable(t.members[k])
           /\ Head(split(Head(InOrder(DOMAIN flatten(t).members))).tokens) # Zero
      [] OTHER -> TRUE
FlattenReturns ==
    \A i \in Names : Flattenable(Tree(i)) => unflatten(flatten(Tree(i))) = Done(Tree(i))

-----------------------------------------------------------------------------
(* What iterating over t must visit: the value itself if it holds no others. *)
Visits(t) == IF IsContainer(t) THEN Held(t) ELSE IF t = Null THEN <<>> ELSE <<t>>

(* The results at the places from it on, forwards or backwards, until stop. *)
RECURSIVE Forwards(_, _, _), Backwards(_, _, _), Keyed(_, _)
Forwards(t, it, stop) ==
    IF SameIterator(TRUE, it, stop).value THEN <<>>
    ELSE <<Deref(t, it)>> \o Forwards(t, Incremented(it), stop)
Backwards(t, base, stop) ==
    IF base = stop THEN <<>> ELSE <<RDeref(t, base)>> \o Backwards(t, RIncremented(base), stop)
Keyed(t, p) ==
    IF SameIterator(TRUE, p.anchor, end(t)).value THEN <<>>
    ELSE <<<<ProxyKey(t, p), Deref(t, p.anchor)>>>> \o Keyed(t, ProxyNext(p))

Ordering(a, b) == [less |-> a < b, lessEqual |-> a <= b, greater |-> a > b, greaterEqual |-> a >= b]
Compared(t, a, b) ==
    [less |-> LessIterator(t, TRUE, a, b).value,
     lessEqual |-> LessEqualIterator(t, TRUE, a, b).value,
     greater |-> GreaterIterator(t, TRUE, a, b).value,
     greaterEqual |-> GreaterEqualIterator(t, TRUE, a, b).value]

(***************************************************************************)
(* Iterating visits every member, element or the value itself once, and    *)
(* nothing of null: forwards, backwards and with keys, and the keys are    *)
(* those by which a pointer finds the values.  Of a value that is no       *)
(* object, going n places at once leads where n steps do, and begin and    *)
(* end are as far apart as there are values, and in this order.            *)
(***************************************************************************)
IterationVisits ==
    \A i \in Names :
        LET t == Tree(i)
            all == [n \in DOMAIN Visits(t) |-> Gives(Visits(t)[n])]
            from == begin(t)
        IN  /\ Forwards(t, from, end(t)) = all
            /\ Backwards(t, rbegin(t), rend(t)) = Reverse(all)
            /\ [n \in DOMAIN all |-> Keyed(t, Proxy(t))[n][2]] = all
            /\ IsContainer(t) => \A n \in DOMAIN all :
                 LET key == Keyed(t, Proxy(t))[n][1].value
                 IN  Gives(At(t, <<CheckedStep(t, key).key>>)) = all[n]
            /\ ~IsObject(t) =>
                 /\ Difference(t, end(t), from) = Gives(Len(all))
                 /\ \A n \in DOMAIN all :
                      /\ Deref(t, Plus(t, from, n - 1).value) = all[n]
                      /\ Deref(t, Minus(t, end(t), n).value) = Reverse(all)[n]
                      /\ RSubscript(t, rbegin(t), n - 1) = Reverse(all)[n]
                      /\ IsContainer(t) => Subscript(t, from, n - 1) = all[n]
                      /\ Compared(t, from, Plus(t, from, n - 1).value) = Ordering(0, n - 1)

-----------------------------------------------------------------------------
(***************************************************************************)
(* RFC 6902, of the part of a document that a path leads to: the set of    *)
(* the documents an operation gives, which is empty when it must fail.     *)
(***************************************************************************)
Parts6902(doc, token) ==
    CASE TypeOfTree(doc) = "object" -> {token} \cap DOMAIN doc.members
      [] TypeOfTree(doc) = "array" -> {i \in DOMAIN doc.elements : to_string(i - 1) = token}
      [] OTHER -> {}

RECURSIVE Found6902(_, _), Added6902(_, _, _), Removed6902(_, _)
Found6902(doc, tokens) ==
    IF tokens = <<>> THEN {doc}
    ELSE UNION {Found6902(At(doc, <<k>>), Tail(tokens)) : k \in Parts6902(doc, Head(tokens))}
Added6902(doc, tokens, v) ==
    CASE tokens = <<>> -> {v}
      [] Len(tokens) = 1 /\ TypeOfTree(doc) = "object" ->
           {ObjectOf(With(doc.members, tokens[1], v))}
      [] Len(tokens) = 1 /\ TypeOfTree(doc) = "array" ->
           LET n == Len(doc.elements)
           IN  {ArrayOf(InsertAt(doc.elements, i, v)) :
                  i \in {k \in 1 .. (n + 1) : \/ to_string(k - 1) = tokens[1]
                                              \/ k = n + 1 /\ tokens[1] = Dash}}
      [] OTHER -> UNION {{Put(doc, <<k>>, d) : d \in Added6902(At(doc, <<k>>), Tail(tokens), v)} :
                           k \in Parts6902(doc, Head(tokens))}
Removed6902(doc, tokens) ==
    UNION {IF Len(tokens) > 1
           THEN {Put(doc, <<k>>, d) : d \in Removed6902(At(doc, <<k>>), Tail(tokens))}
           ELSE IF TypeOfTree(doc) = "object"
           THEN {ObjectOf([m \in DOMAIN doc.members \ {k} |-> doc.members[m]])}
           ELSE {ArrayOf(RemoveAt(doc.elements, k))} : k \in Parts6902(doc, Head(tokens))}

Reference(path) == StringOf(FoldLeft(LAMBDA s, t : Below(s, escape(t)), <<>>, path))
Given(op, path) == ObjectOf([op |-> StringOf(op), path |-> Reference(path)])
And(val, more) == ObjectOf(val.members @@ more)

Replaced6902(doc, p, v) ==
    IF p = <<>> THEN {v} ELSE UNION {Added6902(d, p, v) : d \in Removed6902(doc, p)}

Moved6902(doc, p, q, w) == UNION {Added6902(d, q, w) : d \in Removed6902(doc, p)}

(* The operations on a document, with what RFC 6902 makes of it. *)
WithValue(doc, v) ==
    {<<And(Given("add", p), [value |-> v]), Added6902(doc, p, v)>> : p \in Paths}
      \cup {<<And(Given("replace", p), [value |-> v]), Replaced6902(doc, p, v)>> : p \in Paths}
      \cup {<<And(Given("test", p), [value |-> v]),
              {doc : w \in {u \in Found6902(doc, p) : Equal(u, v)}}>> : p \in Paths}
WithPaths(doc) ==
    {<<Given("remove", p), Removed6902(doc, p)>> : p \in Paths \ {<<>>}}
      \cup {<<And(Given("move", q), [from |-> Reference(p)]),
              UNION {Moved6902(doc, p, q, w) : w \in Found6902(doc, p)}>> :
              <<p, q>> \in {r \in (Paths \ {<<>>}) \X Paths : ~IsStrictPrefix(r[1], r[2])}}
      \cup {<<And(Given("copy", q), [from |-> Reference(p)]),
              UNION {Added6902(doc, q, w) : w \in Found6902(doc, p)}>> :
              <<p, q>> \in {r \in Paths \X Paths :
                              /\ ~IsStrictPrefix(r[1], r[2])
                              /\ \/ r[2] = <<>>
                                 \/ \E w \in Found6902(doc, Front(r[2])) : TypeOfTree(w) = "object"}}

(* What it gives is what RFC 6902 allows, or throws where this is nothing. *)
AsRfc(out, op, allowed) ==
    IF allowed # {} THEN out = {Done(d) : d \in allowed}
    ELSE op \in {"replace", "test"} => \A r \in out : r.error # 0

(***************************************************************************)
(* An operation that RFC 6902 allows is done as it says, and a replace or  *)
(* a test that it does not allow throws.  What the code does with others   *)
(* is its own, as is a copy to an element, which replaces the element, and *)
(* a copy of a value into itself.                                          *)
(***************************************************************************)
PatchesAsRfc ==
    \A i, j \in Names :
        \A c \in WithValue(Tree(i), Tree(j)) \cup IF vals[j] = Null THEN WithPaths(Tree(i)) ELSE {} :
            AsRfc(Applied(Tree(i), c[1]), c[1].members.op.text, c[2])
=============================================================================
