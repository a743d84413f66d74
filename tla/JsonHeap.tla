------------------------------ MODULE JsonHeap ------------------------------
(***************************************************************************)
(* How basic_json of src/include/json.hpp keeps its values: m_type, and in *)
(* m_value a number or the address of an object, an array or a string that *)
(* it owns.  A heap maps every address to what is allocated there.         *)
(***************************************************************************)
EXTENDS JsonTree

CONSTANTS
    Addresses      \* where objects, arrays and strings may be allocated

ASSUME AddressesAreNumbers == Addresses \subseteq Nat \ {0} /\ IsFiniteSet(Addresses)

(* The types whose m_value is an address. *)
Allocated == {"object", "array", "string"}

Free == [kind |-> "free"]

EmptyObject == ObjectOf(<<>>)
EmptyHeap == [a \in Addresses |-> Free]

(* json_value(t), for the types that allocate: the heap and the new value. *)
Fresh(heap) == CHOOSE a \in Addresses : heap[a] = Free
New(heap, cell) ==
    LET a == Fresh(heap)
    IN  [heap |-> [heap EXCEPT ![a] = cell], value |-> json(cell.kind, a)]
HasRoom(heap, n) == Cardinality({a \in Addresses : heap[a] = Free}) >= n

(* The places of a cell, the values it holds there, and the addresses they own. *)
Slots(cell) ==
    CASE cell.kind = "object" -> DOMAIN cell.members
      [] cell.kind = "array" -> DOMAIN cell.elements
      [] OTHER -> {}
HeldIn(cell, k) == IF cell.kind = "object" THEN cell.members[k] ELSE cell.elements[k]
Children(cell) == {HeldIn(cell, k) : k \in Slots(cell)}
Owned(values) == {v.m_value : v \in {w \in values : w.m_type \in Allocated}}

(***************************************************************************)
(* What can be got at from the values: the smallest part of the heap that  *)
(* holds what they own, and what is owned by the cells that are in it.     *)
(***************************************************************************)
There(heap) == {a \in Addresses : heap[a] # Free}
Links(heap) == UNION {{a} \X Owned(Children(heap[a])) : a \in There(heap)}
Reach(heap, values) ==
    LET there == There(heap)
        first == Owned(values) \cap there
        links == Links(heap)
        closed == {S \in SUBSET there :
                     /\ first \subseteq S
                     /\ \A l \in links : l[1] \in S /\ l[2] \in there => l[2] \in S}
    IN  {a \in there : \A S \in closed : a \in S}

\* Mistake: what an object or an array holds is not freed with it.
DestroyedShallow(heap, v) ==
    [a \in Addresses |-> IF a \in Owned({v}) THEN Free ELSE heap[a]]

(* ~basic_json: a value is destroyed with everything it holds. *)
Destroyed(heap, v) ==
    LET gone == Reach(heap, {v})
    IN  [a \in Addresses |-> IF a \in gone THEN Free ELSE heap[a]]

(***************************************************************************)
(* basic_json(const basic_json&): a deep copy.  ren gives each object,     *)
(* array and string of v the address of its copy, in order.                *)
(***************************************************************************)
Renamed(ren, v) == IF v.m_type \in Allocated THEN json(v.m_type, ren[v.m_value]) ELSE v
CopiedCell(ren, cell) ==
    CASE cell.kind = "object" ->
           ObjectOf([k \in DOMAIN cell.members |-> Renamed(ren, cell.members[k])])
      [] cell.kind = "array" ->
           ArrayOf([i \in DOMAIN cell.elements |-> Renamed(ren, cell.elements[i])])
      [] OTHER -> cell
Copied(heap, v) ==
    LET old == Reach(heap, {v})
        free == {a \in Addresses : heap[a] = Free}
        rank(S, a) == Cardinality({b \in S : b < a})
        ren == [a \in old |-> CHOOSE b \in free : rank(free, b) = rank(old, a)]
    IN  [heap |-> [a \in Addresses |->
                     IF \E b \in DOMAIN ren : ren[b] = a
                     THEN CopiedCell(ren, heap[CHOOSE b \in DOMAIN ren : ren[b] = a])
                     ELSE heap[a]],
         value |-> Renamed(ren, v)]
Copyable(heap, v) == HasRoom(heap, Cardinality(Reach(heap, {v})))

-----------------------------------------------------------------------------
(* The value as a tree: what it means, whatever its addresses are. *)
TreeOf(heap, v) ==
    LET Deep[p \in (0 .. Cardinality(Addresses)) \X Addresses] ==
            LET below(w) == IF w.m_type \notin Allocated THEN w
                            ELSE IF p[1] = 0 THEN Null ELSE Deep[<<p[1] - 1, w.m_value>>]
                cell == heap[p[2]]
            IN  CASE cell.kind = "object" ->
                       ObjectOf([k \in DOMAIN cell.members |-> below(cell.members[k])])
                  [] cell.kind = "array" ->
                       ArrayOf([i \in DOMAIN cell.elements |-> below(cell.elements[i])])
                  [] OTHER -> cell
    IN  IF v.m_type \in Allocated THEN Deep[<<Cardinality(Addresses), v.m_value>>] ELSE v

(* Every place that holds a value: a root, a member or an element. *)
Places(heap, roots) ==
    {<<0, i>> : i \in DOMAIN roots}
      \cup UNION {{<<a, k>> : k \in Slots(heap[a])} : a \in Addresses}
HeldAt(heap, roots, p) ==
    IF p[1] = 0 THEN roots[p[2]] ELSE HeldIn(heap[p[1]], p[2])

(***************************************************************************)
(* Each allocated address has one owner, of the type that is allocated     *)
(* there, and can be got at from the roots; nothing owns a free one.       *)
(***************************************************************************)
SingleOwner(heap, roots) ==
    LET owners(a) == {p \in Places(heap, roots) :
                        LET v == HeldAt(heap, roots, p)
                        IN  v.m_type \in Allocated /\ v.m_value = a}
    IN  /\ \A a \in Addresses :
             IF heap[a] = Free THEN owners(a) = {}
             ELSE /\ Cardinality(owners(a)) = 1
                  /\ \A p \in owners(a) : HeldAt(heap, roots, p).m_type = heap[a].kind
        /\ There(heap) \subseteq Reach(heap, Range(roots))
=============================================================================
