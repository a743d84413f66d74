------------------------------ MODULE JsonValues ------------------------------
(***************************************************************************)
(* What basic_json promises its users: values are trees, each of its own.  *)
(* A call gives the value it is made on what its documentation says, takes *)
(* a value it moves from to null, and leaves all others alone; a call that *)
(* throws changes nothing.                                                 *)
(***************************************************************************)
EXTENDS JsonTree

CONSTANTS
    Names,         \* the variables of a client
    Keys, Texts,   \* names of members and texts of strings
    Scalars,       \* null, booleans and numbers
    MaxHeld        \* the longest array

VARIABLES
    values,        \* the tree each variable holds
    thrown,        \* the exception of the last call, 0 if there was none
    call           \* the last call: its name and arguments

avars == <<values, thrown, call>>

IsNullOr(t, type) == TypeOfTree(t) \in {"null", type}

Gives(i, t) ==
    /\ values' = [values EXCEPT ![i] = t]
    /\ thrown' = 0

Throws(id) ==
    /\ thrown' = id
    /\ UNCHANGED values

(* What t is after clear(). *)
ClearedTree(t) ==
    CASE TypeOfTree(t) = "object" -> ObjectOf(<<>>)
      [] TypeOfTree(t) = "array" -> ArrayOf(<<>>)
      [] TypeOfTree(t) = "string" -> StringOf(<<>>)
      [] OTHER -> json(t.m_type, 0)

(* A list of pairs of a string and a value makes an object. *)
IsPair(t) == /\ TypeOfTree(t) = "array" /\ Len(t.elements) = 2
             /\ TypeOfTree(t.elements[1]) = "string"
ListTree(s) ==
    IF \A k \in DOMAIN s : IsPair(s[k])
    THEN LET name(k) == s[k].elements[1].text
             first(n) == CHOOSE k \in DOMAIN s :
                            /\ name(k) = n
                            /\ \A l \in DOMAIN s : name(l) = n => k <= l
         IN  ObjectOf([n \in {name(k) : k \in DOMAIN s} |-> s[first(n)].elements[2]])
    ELSE ArrayOf(s)

ASet(i, t) == Gives(i, t)
AAssign(i, j) == Gives(i, values[j])
AMove(i, j) ==
    /\ values' = [[values EXCEPT ![j] = Null] EXCEPT ![i] = values[j]]
    /\ thrown' = 0
ASwap(i, j) ==
    /\ values' = [values EXCEPT ![i] = values[j], ![j] = values[i]]
    /\ thrown' = 0
AClear(i) == Gives(i, ClearedTree(values[i]))

(* A null value that is appended to itself is an empty array by then. *)
APush(i, j) ==
    IF IsNullOr(values[i], "array")
    THEN Gives(i, ArrayOf(Append(Elements(values[i]),
                                 IF i = j /\ values[i] = Null THEN ArrayOf(<<>>) ELSE values[j])))
    ELSE Throws(308)
APushMoved(i, j) ==
    IF IsNullOr(values[i], "array")
    THEN /\ values' = [values EXCEPT ![i] = ArrayOf(Append(Elements(values[i]), values[j])),
                                     ![j] = Null]
         /\ thrown' = 0
    ELSE Throws(308)
AInsertPair(i, k, j, id) ==
    IF IsNullOr(values[i], "object")
    THEN LET ms == Members(values[i])
         IN  Gives(i, ObjectOf(IF k \in DOMAIN ms THEN ms ELSE With(ms, k, values[j])))
    ELSE Throws(id)
AMember(i, k, j) ==
    IF IsNullOr(values[i], "object")
    THEN Gives(i, ObjectOf(With(Members(values[i]), k, values[j])))
    ELSE Throws(305)
AElement(i, n, j) ==
    IF IsNullOr(values[i], "array")
    THEN Gives(i, ArrayOf([Filled(Elements(values[i]), n) EXCEPT ![n + 1] = values[j]]))
    ELSE Throws(305)
AAtKey(i, j, k) ==
    IF TypeOfTree(values[j]) # "object" THEN Throws(304)
    ELSE IF k \notin DOMAIN values[j].members THEN Throws(403)
    ELSE Gives(i, values[j].members[k])
AAtIndex(i, j, n) ==
    IF TypeOfTree(values[j]) # "array" THEN Throws(304)
    ELSE IF n >= Len(values[j].elements) THEN Throws(401)
    ELSE Gives(i, values[j].elements[n + 1])
AEraseKey(i, k) ==
    IF TypeOfTree(values[i]) # "object" THEN Throws(307)
    ELSE Gives(i, ObjectOf([m \in DOMAIN values[i].members \ {k} |-> values[i].members[m]]))
AEraseIndex(i, n) ==
    IF TypeOfTree(values[i]) # "array" THEN Throws(307)
    ELSE IF n >= Len(values[i].elements) THEN Throws(401)
    ELSE Gives(i, ArrayOf(RemoveAt(values[i].elements, n + 1)))
AEraseAll(i) ==
    CASE TypeOfTree(values[i]) = "null" -> Throws(307)
      [] TypeOfTree(values[i]) \in {"object", "array"} -> Gives(i, ClearedTree(values[i]))
      [] OTHER -> Gives(i, Null)
AInsert(i, n, j) ==
    IF TypeOfTree(values[i]) # "array" THEN Throws(309)
    ELSE n <= Len(values[i].elements)
         /\ Gives(i, ArrayOf(InsertAt(values[i].elements, n + 1, values[j])))
AInsertRange(i, n, j) ==
    CASE TypeOfTree(values[i]) # "array" -> Throws(309)
      [] TypeOfTree(values[i]) = "array" /\ i = j -> Throws(211)
      [] OTHER -> /\ TypeOfTree(values[j]) = "array" /\ n <= Len(values[i].elements)
                  /\ LET es == values[i].elements
                     IN  Gives(i, ArrayOf(SubSeq(es, 1, n) \o values[j].elements
                                            \o SubSeq(es, n + 1, Len(es))))
AList(i, j, k) == Gives(i, ListTree(<<values[j], values[k]>>))

AInit ==
    /\ values = [i \in Names |-> Null]
    /\ thrown = 0
    /\ call = <<>>

Called(c) == call' = c

ANext ==
    \/ \E i \in Names :
         \/ \E s \in Scalars \cup {StringOf(k) : k \in Texts} : Called(<<"Set", i, s>>) /\ ASet(i, s)
         \/ Called(<<"Clear", i>>) /\ AClear(i)
         \/ Called(<<"EraseAll", i>>) /\ AEraseAll(i)
         \/ \E k \in Keys : Called(<<"EraseKey", i, k>>) /\ AEraseKey(i, k)
         \/ \E n \in 0 .. (MaxHeld - 1) : Called(<<"EraseIndex", i, n>>) /\ AEraseIndex(i, n)
    \/ \E i, j \in Names :
         \/ Called(<<"Assign", i, j>>) /\ AAssign(i, j)
         \/ Called(<<"Move", i, j>>) /\ AMove(i, j)
         \/ Called(<<"Swap", i, j>>) /\ ASwap(i, j)
         \/ Called(<<"PushBack", i, j>>) /\ APush(i, j)
         \/ Called(<<"PushBackMoved", i, j>>) /\ APushMoved(i, j)
         \/ \E k \in Keys :
              \/ Called(<<"Member", i, k, j>>) /\ AMember(i, k, j)
              \/ Called(<<"AtKey", i, j, k>>) /\ AAtKey(i, j, k)
              \/ \E id \in {308, 311} :
                   Called(<<"InsertPair", i, k, j, id>>) /\ AInsertPair(i, k, j, id)
         \/ \E n \in 0 .. (MaxHeld - 1) :
              \/ Called(<<"Element", i, n, j>>) /\ AElement(i, n, j)
              \/ Called(<<"AtIndex", i, j, n>>) /\ AAtIndex(i, j, n)
              \/ Called(<<"Insert", i, n, j>>) /\ AInsert(i, n, j)
              \/ Called(<<"InsertRange", i, n, j>>) /\ AInsertRange(i, n, j)
         \/ \E k \in Names : Called(<<"List", i, j, k>>) /\ AList(i, j, k)

ASpec == AInit /\ [][ANext]_avars
=============================================================================
