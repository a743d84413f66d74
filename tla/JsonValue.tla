------------------------------ MODULE JsonValue ------------------------------
(***************************************************************************)
(* The operations of basic_json (src/include/json.hpp) on the values some  *)
(* variables of a client hold, each call one step, with the memory they    *)
(* allocate, share out and free.  Every value is what assert_invariant     *)
(* asks for: a pointer where m_type says there is one.                     *)
(***************************************************************************)
EXTENDS JsonHeap

CONSTANTS
    Names,         \* the variables of a client
    Keys, Texts,   \* names of members and texts of strings
    Scalars,       \* null, booleans and numbers
    MaxCells,      \* how many objects, arrays and strings,
    MaxHeld        \* and members and elements, there are at once

ASSUME NamesAreBytes == Keys \cup Texts \subseteq Seq(0 .. 255)

(* The types whose m_value is the value itself. *)
Plain == {"null", "boolean", "number_integer", "number_unsigned", "number_float"}

ASSUME BoundsAreNumbers == MaxCells \in Nat /\ MaxHeld \in Nat
ASSUME ScalarsAreValues == Scalars \subseteq [m_type : Plain, m_value : Int]

VARIABLES
    vals,          \* the basic_json each variable is
    heap,
    thrown,        \* the exception of the last call, 0 if there was none
    call           \* the last call: its name and arguments

vars == <<vals, heap, thrown, call>>

Init ==
    /\ vals = [i \in Names |-> Null]
    /\ heap = EmptyHeap
    /\ thrown = 0
    /\ call = <<>>

Type(i) == vals[i].m_type
Cell(i) == heap[vals[i].m_value]
is_null(i) == Type(i) = "null"
is_array(i) == Type(i) = "array"
is_object(i) == Type(i) = "object"

size(i) == Len(Cell(i).elements)

(* The bounds of the model. *)
Small(h) ==
    LET held(a) == CASE h[a].kind = "object" -> Cardinality(DOMAIN h[a].members)
                     [] h[a].kind = "array" -> Len(h[a].elements)
                     [] OTHER -> 0
    IN  /\ Cardinality({a \in Addresses : h[a] # Free}) <= MaxCells
        /\ MapThenSumSet(held, Addresses) <= MaxHeld

Becomes(i, v, h) ==
    /\ vals' = [vals EXCEPT ![i] = v]
    /\ heap' = h
    /\ Small(h)
    /\ thrown' = 0

Fails(id) ==
    /\ thrown' = id
    /\ UNCHANGED <<vals, heap>>

(* A null value is made an empty array or object, in place. *)
Based(h, i, cell) ==
    IF is_null(i) THEN New(h, cell) ELSE [heap |-> h, value |-> vals[i]]

-----------------------------------------------------------------------------
(* A new value is constructed and assigned. *)
Set(i, s) ==
    LET new == IF "kind" \in DOMAIN s THEN New(heap, s) ELSE [heap |-> heap, value |-> s]
    IN  /\ HasRoom(heap, 1)
        /\ Becomes(i, new.value, Destroyed(new.heap, vals[i]))

(***************************************************************************)
(* operator=: its argument is a copy, or has been moved from; it is        *)
(* swapped with the old value, and destroyed.                              *)
(***************************************************************************)
Assign(i, j) ==
    LET other == Copied(heap, vals[j])
    IN  /\ Copyable(heap, vals[j])
        /\ Becomes(i, other.value, Destroyed(other.heap, vals[i]))

\* Mistake: what is moved from keeps its pointer.
MoveKeepingSource(i, j) ==
    /\ vals' = [vals EXCEPT ![i] = vals[j]]
    /\ heap' = Destroyed(heap, vals[i])
    /\ thrown' = 0

Move(i, j) ==
    LET other == vals[j]
        after == [vals EXCEPT ![j] = Null]
    IN  /\ vals' = [after EXCEPT ![i] = other]
        /\ heap' = Destroyed(heap, after[i])
        /\ thrown' = 0

Swap(i, j) ==
    /\ vals' = [vals EXCEPT ![i] = vals[j], ![j] = vals[i]]
    /\ UNCHANGED heap
    /\ thrown' = 0

(* What a cell holds is destroyed, not the cell. *)
Emptied(h, v, cell) ==
    LET inner == Reach(h, Children(h[v.m_value]))
    IN  [a \in Addresses |-> CASE a = v.m_value -> cell
                               [] a \in inner -> Free
                               [] OTHER -> h[a]]

Clear(i) ==
    CASE is_object(i) -> Becomes(i, vals[i], Emptied(heap, vals[i], EmptyObject))
      [] is_array(i) -> Becomes(i, vals[i], Emptied(heap, vals[i], ArrayOf(<<>>)))
      [] Type(i) = "string" -> Becomes(i, vals[i], Emptied(heap, vals[i], StringOf(<<>>)))
      [] OTHER -> Becomes(i, json(Type(i), 0), heap)

(* push_back(const basic_json&): the copy is made after null became []. *)
PushBack(i, j) ==
    IF ~(is_null(i) \/ is_array(i)) THEN Fails(308)
    ELSE LET base == Based(heap, i, ArrayOf(<<>>))
             val == IF i = j THEN base.value ELSE vals[j]
             copy == Copied(base.heap, val)
             a == base.value.m_value
         IN  /\ HasRoom(heap, 1) /\ Copyable(base.heap, val)
             /\ Becomes(i, base.value,
                        [copy.heap EXCEPT ![a].elements = Append(@, copy.value)])

(* push_back(basic_json&&), not of a value to itself. *)
PushBackMoved(i, j) ==
    /\ i # j
    /\ IF ~(is_null(i) \/ is_array(i)) THEN Fails(308)
       ELSE LET base == Based(heap, i, ArrayOf(<<>>))
                a == base.value.m_value
            IN  /\ HasRoom(heap, 1)
                /\ vals' = [vals EXCEPT ![i] = base.value, ![j] = Null]
                /\ heap' = [base.heap EXCEPT ![a].elements = Append(@, vals[j])]
                /\ Small(heap')
                /\ thrown' = 0

\* Mistake: operator[] is used, and a member that is there is replaced.
InsertPairReplaces(i, k, j, id) ==
    IF ~(is_null(i) \/ is_object(i)) THEN Fails(id)
    ELSE LET copy == Copied(heap, vals[j])
             base == Based(copy.heap, i, EmptyObject)
             a == base.value.m_value
             ms == base.heap[a].members
             freed == IF k \in DOMAIN ms THEN Destroyed(base.heap, ms[k]) ELSE base.heap
         IN  /\ Copyable(heap, vals[j]) /\ HasRoom(copy.heap, 1)
             /\ Becomes(i, base.value, [freed EXCEPT ![a] = ObjectOf(With(ms, k, copy.value))])

(***************************************************************************)
(* push_back of a pair, and emplace: a member that is there already stays, *)
(* and the pair, which the client copied a value into, is destroyed.       *)
(***************************************************************************)
InsertPair(i, k, j, id) ==
    IF ~(is_null(i) \/ is_object(i)) THEN Fails(id)
    ELSE LET copy == Copied(heap, vals[j])
             base == Based(copy.heap, i, EmptyObject)
             a == base.value.m_value
             ms == base.heap[a].members
         IN  /\ Copyable(heap, vals[j]) /\ HasRoom(copy.heap, 1)
             /\ Becomes(i, base.value,
                        IF k \in DOMAIN ms THEN Destroyed(base.heap, copy.value)
                        ELSE [base.heap EXCEPT ![a] = ObjectOf(With(ms, k, copy.value))])

(* vals[i][k] = vals[j] *)
Member(i, k, j) ==
    /\ i # j
    /\ IF ~(is_null(i) \/ is_object(i)) THEN Fails(305)
       ELSE LET copy == Copied(heap, vals[j])
                base == Based(copy.heap, i, EmptyObject)
                a == base.value.m_value
                ms == base.heap[a].members
                freed == IF k \in DOMAIN ms THEN Destroyed(base.heap, ms[k]) ELSE base.heap
            IN  /\ Copyable(heap, vals[j]) /\ HasRoom(copy.heap, 1)
                /\ Becomes(i, base.value,
                           [freed EXCEPT ![a] = ObjectOf(With(ms, k, copy.value))])

(* vals[i][n] = vals[j]: an array is filled up with nulls to n. *)
Element(i, n, j) ==
    /\ i # j
    /\ IF ~(is_null(i) \/ is_array(i)) THEN Fails(305)
       ELSE LET copy == Copied(heap, vals[j])
                base == Based(copy.heap, i, ArrayOf(<<>>))
                a == base.value.m_value
                es == base.heap[a].elements
                nulls == [k \in 1 .. (IF n >= Len(es) THEN n - Len(es) + 1 ELSE 0) |-> Null]
                freed == Destroyed(base.heap, (es \o nulls)[n + 1])
            IN  /\ Copyable(heap, vals[j]) /\ HasRoom(copy.heap, 1)
                /\ Becomes(i, base.value,
                           [freed EXCEPT ![a] = ArrayOf([(es \o nulls) EXCEPT ![n + 1] = copy.value])])

(***************************************************************************)
(* vals[i] = vals[j].at(k), of a member or an element; the value may be a  *)
(* part of the one that is assigned to.                                    *)
(***************************************************************************)
AssignPart(i, part) ==
    LET other == Copied(heap, part)
    IN  /\ Copyable(heap, part)
        /\ Becomes(i, other.value, Destroyed(other.heap, vals[i]))
AtKey(i, j, k) ==
    IF ~is_object(j) THEN Fails(304)
    ELSE IF k \notin DOMAIN Cell(j).members THEN Fails(403)
    ELSE AssignPart(i, Cell(j).members[k])
AtIndex(i, j, n) ==
    IF ~is_array(j) THEN Fails(304)
    ELSE IF n >= size(j) THEN Fails(401)
    ELSE AssignPart(i, Cell(j).elements[n + 1])

Without(i, v, cell) ==
    Becomes(i, vals[i], [Destroyed(heap, v) EXCEPT ![vals[i].m_value] = cell])
EraseKey(i, k) ==
    IF ~is_object(i) THEN Fails(307)
    ELSE LET ms == Cell(i).members
         IN  IF k \notin DOMAIN ms THEN Becomes(i, vals[i], heap)
             ELSE Without(i, ms[k], ObjectOf([m \in DOMAIN ms \ {k} |-> ms[m]]))
EraseIndex(i, n) ==
    IF ~is_array(i) THEN Fails(307)
    ELSE IF n >= size(i) THEN Fails(401)
    ELSE Without(i, Cell(i).elements[n + 1], ArrayOf(RemoveAt(Cell(i).elements, n + 1)))

(* erase(begin(), end()): a value of another type becomes null. *)
EraseAll(i) ==
    CASE is_null(i) -> Fails(307)
      [] is_object(i) \/ is_array(i) -> Clear(i)
      [] OTHER -> Becomes(i, Null, Destroyed(heap, vals[i]))

Insert(i, n, j) ==
    IF ~is_array(i) THEN Fails(309)
    ELSE LET copy == Copied(heap, vals[j])
             a == vals[i].m_value
         IN  /\ n <= size(i) /\ Copyable(heap, vals[j])
             /\ Becomes(i, vals[i],
                        [copy.heap EXCEPT ![a].elements = InsertAt(@, n + 1, copy.value)])

(* All elements of another array are copied in before element n. *)
InsertRange(i, n, j) ==
    CASE ~is_array(i) -> Fails(309)
      [] is_array(i) /\ i = j -> Fails(211)
      [] OTHER ->
           /\ is_array(j) /\ n <= size(i) /\ Copyable(heap, vals[j])
           /\ LET copy == Copied(heap, vals[j])
                  a == vals[i].m_value
                  es == Cell(i).elements
              IN  Becomes(i, vals[i],
                    [copy.heap EXCEPT
                       ![copy.value.m_value] = Free,
                       ![a].elements = SubSeq(es, 1, n)
                                         \o copy.heap[copy.value.m_value].elements
                                         \o SubSeq(es, n + 1, Len(es))])

(***************************************************************************)
(* vals[i] = {vals[j], vals[k]}: an object if both are a name and a value. *)
(***************************************************************************)
NamesValue(h, v) ==
    /\ v.m_type = "array" /\ Len(h[v.m_value].elements) = 2
    /\ h[v.m_value].elements[1].m_type = "string"
List(i, j, k) ==
    LET one == Copied(heap, vals[j])
        two == Copied(one.heap, vals[k])
        pair(v) == two.heap[v.m_value].elements
        name(v) == two.heap[pair(v)[1].m_value].text
        both == NamesValue(two.heap, one.value) /\ NamesValue(two.heap, two.value)
        same == name(one.value) = name(two.value)
        new == New(two.heap, ArrayOf(<<one.value, two.value>>))
        members == LET ms == With(<<>>, name(one.value), pair(one.value)[2])
                   IN  IF same THEN ms ELSE With(ms, name(two.value), pair(two.value)[2])
        (* The two pairs, without what has become a member, are destroyed. *)
        left == [two.heap EXCEPT
                   ![one.value.m_value].elements = <<@[1]>>,
                   ![two.value.m_value].elements = IF same THEN @ ELSE <<@[1]>>]
        object == New(Destroyed(Destroyed(left, one.value), two.value), ObjectOf(members))
        made == IF both THEN object ELSE new
    IN  /\ Copyable(heap, vals[j]) /\ Copyable(one.heap, vals[k]) /\ HasRoom(two.heap, 1)
        /\ Becomes(i, made.value, Destroyed(made.heap, vals[i]))

-----------------------------------------------------------------------------
Called(c) == call' = c

Next ==
    \/ \E i \in Names :
         \/ \E s \in Scalars \cup {StringOf(k) : k \in Texts} : Called(<<"Set", i, s>>) /\ Set(i, s)
         \/ Called(<<"Clear", i>>) /\ Clear(i)
         \/ Called(<<"EraseAll", i>>) /\ EraseAll(i)
         \/ \E k \in Keys : Called(<<"EraseKey", i, k>>) /\ EraseKey(i, k)
         \/ \E n \in 0 .. (MaxHeld - 1) : Called(<<"EraseIndex", i, n>>) /\ EraseIndex(i, n)
    \/ \E i, j \in Names :
         \/ Called(<<"Assign", i, j>>) /\ Assign(i, j)
         \/ Called(<<"Move", i, j>>) /\ Move(i, j)
         \/ Called(<<"Swap", i, j>>) /\ Swap(i, j)
         \/ Called(<<"PushBack", i, j>>) /\ PushBack(i, j)
         \/ Called(<<"PushBackMoved", i, j>>) /\ PushBackMoved(i, j)
         \/ \E k \in Keys :
              \/ Called(<<"Member", i, k, j>>) /\ Member(i, k, j)
              \/ Called(<<"AtKey", i, j, k>>) /\ AtKey(i, j, k)
              \/ \E id \in {308, 311} :
                   Called(<<"InsertPair", i, k, j, id>>) /\ InsertPair(i, k, j, id)
         \/ \E n \in 0 .. (MaxHeld - 1) :
              \/ Called(<<"Element", i, n, j>>) /\ Element(i, n, j)
              \/ Called(<<"AtIndex", i, j, n>>) /\ AtIndex(i, j, n)
              \/ Called(<<"Insert", i, n, j>>) /\ Insert(i, n, j)
              \/ Called(<<"InsertRange", i, n, j>>) /\ InsertRange(i, n, j)
         \/ \E k \in Names : Called(<<"List", i, j, k>>) /\ List(i, j, k)

Spec == Init /\ [][Next]_vars

-----------------------------------------------------------------------------
(***************************************************************************)
(* Each object, array and string belongs to one value, whatever has been   *)
(* copied, moved, swapped or put into something else: none is freed twice, *)
(* and none is lost.                                                       *)
(***************************************************************************)
OwnedOnce == SingleOwner(heap, vals)

(***************************************************************************)
(* The values behave as trees that share nothing, and a call that throws   *)
(* changes nothing (JsonValues).                                           *)
(***************************************************************************)
Values == INSTANCE JsonValues WITH values <- [i \in Names |-> TreeOf(heap, vals[i])]
ImplementsValues == Values!ASpec
=============================================================================
