-------------------------- MODULE JsonValueProofs --------------------------
(***************************************************************************)
(* Proofs about JsonValue, for all variables, names, scalars, addresses    *)
(* and bounds: whatever a client does to its values, each object, array    *)
(* and string has one owner, and no other is left.                         *)
(*                                                                         *)
(* What is owned is kept as a relation between cells and addresses, in     *)
(* which a call is a few small steps: a value is moved between a root and  *)
(* a cell (PutKept, TakeKept), a part is destroyed (DropKept), copied      *)
(* (CopyKept), or a cell allocated (NewKept).  A value that is on its way, *)
(* a copy or one that is to be destroyed, is a root of its own meanwhile.  *)
(***************************************************************************)
EXTENDS JsonValue, FiniteSetTheorems, SequenceTheorems, TLAPS

-----------------------------------------------------------------------------
(* What is what. *)

Value == [m_type : Allocated \cup Plain, m_value : Int]

IsCell(cell) ==
    \/ cell = Free
    \/ cell.kind = "string"
    \/ cell.kind = "array" /\ cell = ArrayOf(cell.elements) /\ cell.elements \in Seq(Value)
    \/ /\ cell.kind = "object" /\ cell = ObjectOf(cell.members)
       /\ cell.members \in [DOMAIN cell.members -> Value]

IsHeap(h) == DOMAIN h = Addresses /\ \A a \in Addresses : IsCell(h[a])

IsRoots(r) == r \in [DOMAIN r -> Value]

-----------------------------------------------------------------------------
(* Who owns what: a relation between cells, or 0 for the roots, and addresses. *)

(* A value of an allocated type t at address a. *)
PointsTo(v, t, a) == t \in Allocated /\ v.m_type = t /\ v.m_value = a

CellOwns(cell, t, a) == \E k \in Slots(cell) : PointsTo(HeldIn(cell, k), t, a)
RootOwns(r, t, a) == \E i \in DOMAIN r : PointsTo(r[i], t, a)
Owns(h, r, b, t, a) ==
    \/ b = 0 /\ RootOwns(r, t, a)
    \/ b \in Addresses /\ CellOwns(h[b], t, a)

(* No two places of a cell, or of the roots, own one address. *)
CellOnce(cell) ==
    \A k, l \in Slots(cell) : \A t, u, a :
        PointsTo(HeldIn(cell, k), t, a) /\ PointsTo(HeldIn(cell, l), u, a) => k = l
RootsOnce(r) ==
    \A i, j \in DOMAIN r : \A t, u, a : PointsTo(r[i], t, a) /\ PointsTo(r[j], u, a) => i = j

(* What is owned is there and of its type. *)
Sound(h, r) == \A b, t, a : Owns(h, r, b, t, a) => a \in There(h) /\ h[a].kind = t

(* It is not owned by two. *)
Unique(h, r) ==
    \A b, c, t, u, a : Owns(h, r, b, t, a) /\ Owns(h, r, c, u, a) => b = c

(* A part of the heap that nothing in it, and no root, points out of. *)
ClosedIn(h, r, S) == \A b, t, a : Owns(h, r, b, t, a) /\ (b = 0 \/ b \in S) => a \in S

(* The roots lead everywhere. *)
Reached(h, r) == \A S \in SUBSET There(h) : ClosedIn(h, r, S) => There(h) \subseteq S

Graph(h, r) == Sound(h, r) /\ Unique(h, r) /\ Reached(h, r)

Kept(h, r) ==
    /\ IsHeap(h) /\ IsRoots(r)
    /\ RootsOnce(r) /\ \A a \in There(h) : CellOnce(h[a])
    /\ Graph(h, r)

(* 0 stands for the roots, and is no address. *)
LEMMA ZeroIsNone == 0 \notin Addresses /\ Addresses \subseteq Nat
BY AddressesAreNumbers

(* The same is owned by the same. *)
LEMMA SameGraph ==
    ASSUME NEW h, NEW r, NEW h1, NEW r1, Graph(h, r),
           There(h1) = There(h), \A a \in There(h) : h1[a].kind = h[a].kind,
           \A b, t, a : Owns(h1, r1, b, t, a) <=> Owns(h, r, b, t, a)
    PROVE  Graph(h1, r1)
<1>1. Sound(h1, r1)
  BY DEF Graph, Sound
<1>2. Unique(h1, r1)
  BY DEF Graph, Unique
<1>3. Reached(h1, r1)
  BY DEF Graph, Reached, ClosedIn
<1> QED
  BY <1>1, <1>2, <1>3 DEF Graph

(* What v owns goes from b0 to c0, the roots or a cell a root owns. *)
Moved(h, r, h1, r1, b0, c0, v) ==
    /\ There(h1) = There(h) /\ \A a \in There(h) : h1[a].kind = h[a].kind
    /\ \A t, a : PointsTo(v, t, a) => Owns(h, r, b0, t, a)
    /\ \A b, t, a : Owns(h1, r1, b, t, a) <=>
           \/ Owns(h, r, b, t, a) /\ ~(b = b0 /\ PointsTo(v, t, a))
           \/ b = c0 /\ PointsTo(v, t, a)
    /\ c0 = 0 \/ \E t : Owns(h, r, 0, t, c0) /\ ~PointsTo(v, t, c0)

(* A value that moves from one owner to another: the relation stays a forest. *)
LEMMA MovedGraph ==
    ASSUME NEW h, NEW r, NEW h1, NEW r1, Graph(h, r),
           NEW b0, NEW c0, NEW v, Moved(h, r, h1, r1, b0, c0, v)
    PROVE  Graph(h1, r1)
<1> USE DEF Moved
<1>1. Sound(h1, r1)
  BY DEF Graph, Sound
<1>2. Unique(h1, r1)
  <2> SUFFICES ASSUME NEW b, NEW c, NEW t, NEW u, NEW a,
                      Owns(h1, r1, b, t, a), Owns(h1, r1, c, u, a)
               PROVE  b = c
    BY DEF Unique
  <2>1. t = u
    BY <1>1 DEF Sound
  <2>2. CASE PointsTo(v, t, a)
    BY <2>1, <2>2 DEF Graph, Unique
  <2>3. CASE ~PointsTo(v, t, a)
    BY <2>1, <2>3 DEF Graph, Unique
  <2> QED
    BY <2>2, <2>3
<1>3. Reached(h1, r1)
  <2> SUFFICES ASSUME NEW S \in SUBSET There(h), ClosedIn(h1, r1, S)
               PROVE  There(h) \subseteq S
    BY DEF Reached
  <2>1. c0 = 0 \/ c0 \in S
    BY DEF ClosedIn
  <2>2. ClosedIn(h, r, S)
    <3> SUFFICES ASSUME NEW b, NEW t, NEW a, Owns(h, r, b, t, a), b = 0 \/ b \in S
                 PROVE  a \in S
      BY DEF ClosedIn
    <3>1. CASE b = b0 /\ PointsTo(v, t, a)
      BY <2>1, <3>1 DEF ClosedIn
    <3>2. CASE ~(b = b0 /\ PointsTo(v, t, a))
      BY <3>2 DEF ClosedIn
    <3> QED
      BY <3>1, <3>2
  <2> QED
    BY <2>2 DEF Graph, Reached
<1> QED
  BY <1>1, <1>2, <1>3 DEF Graph

(* A root owns the new cell at a0. *)
Added(h, r, h1, r1, a0, t0) ==
    /\ a0 \notin There(h) /\ There(h1) = There(h) \cup {a0}
    /\ \A a \in There(h) : h1[a].kind = h[a].kind
    /\ h1[a0].kind = t0
    /\ \A b, t, a : Owns(h1, r1, b, t, a) <=>
           Owns(h, r, b, t, a) \/ (b = 0 /\ t = t0 /\ a = a0)

(* A cell that is new, and owned by a root. *)
LEMMA AddedGraph ==
    ASSUME NEW h, NEW r, NEW h1, NEW r1, Graph(h, r),
           NEW a0, NEW t0, Added(h, r, h1, r1, a0, t0)
    PROVE  Graph(h1, r1)
<1> USE DEF Added
<1>1. Sound(h1, r1)
  BY DEF Graph, Sound
<1>2. Unique(h1, r1)
  BY DEF Graph, Unique, Sound
<1>3. Reached(h1, r1)
  <2> SUFFICES ASSUME NEW S \in SUBSET There(h1), ClosedIn(h1, r1, S)
               PROVE  There(h1) \subseteq S
    BY DEF Reached
  <2>1. a0 \in S
    BY DEF ClosedIn
  <2>2. ClosedIn(h, r, S \ {a0})
    <3> SUFFICES ASSUME NEW b, NEW t, NEW a, Owns(h, r, b, t, a), b = 0 \/ b \in S \ {a0}
                 PROVE  a \in S \ {a0}
      BY DEF ClosedIn
    <3>1. a \in S
      <4>1. Owns(h1, r1, b, t, a) /\ (b = 0 \/ b \in S)
        OBVIOUS
      <4> QED
        BY <4>1 DEF ClosedIn
    <3>2. a \in There(h)
      BY DEF Graph, Sound
    <3> QED
      BY <3>1, <3>2
  <2>3. There(h) \subseteq S \ {a0}
    BY <2>2 DEF Graph, Reached
  <2> QED
    BY <2>1, <2>3
<1> QED
  BY <1>1, <1>2, <1>3 DEF Graph

(* G is what can be got at from what b0 owns of V: nothing else points into it. *)
PartOf(h, r, b0, V, G) ==
    /\ G \subseteq There(h)
    /\ \A t, a : a \in V /\ Owns(h, r, b0, t, a) => a \in G
    /\ \A b, t, a : Owns(h, r, b, t, a) /\ b \in G => a \in G
    /\ \A b, t, a : Owns(h, r, b, t, a) /\ a \in G => b \in G \/ (b = b0 /\ a \in V)

(* What is in G is gone, and b0 owns nothing of V any more. *)
Removed(h, r, h1, r1, b0, V, G) ==
    /\ PartOf(h, r, b0, V, G)
    /\ There(h1) = There(h) \ G /\ \A a \in There(h1) : h1[a].kind = h[a].kind
    /\ \A b, t, a : Owns(h1, r1, b, t, a) <=>
           Owns(h, r, b, t, a) /\ ~(b = b0 /\ a \in V) /\ b \notin G

(* A part that goes, with the place that owned it. *)
LEMMA RemovedGraph ==
    ASSUME NEW h, NEW r, NEW h1, NEW r1, Graph(h, r),
           NEW b0, NEW V, NEW G, Removed(h, r, h1, r1, b0, V, G)
    PROVE  Graph(h1, r1)
<1> USE DEF Removed
<1>1. Sound(h1, r1)
  BY DEF Graph, Sound, PartOf
<1>2. Unique(h1, r1)
  BY DEF Graph, Unique
<1>3. Reached(h1, r1)
  <2> SUFFICES ASSUME NEW S \in SUBSET There(h1), ClosedIn(h1, r1, S)
               PROVE  There(h1) \subseteq S
    BY DEF Reached
  <2>1. ClosedIn(h, r, S \cup G)
    <3> SUFFICES ASSUME NEW b, NEW t, NEW a, Owns(h, r, b, t, a), b = 0 \/ b \in S \cup G
                 PROVE  a \in S \cup G
      BY DEF ClosedIn
    <3>1. CASE b \in G \/ (b = b0 /\ a \in V)
      BY <3>1 DEF PartOf
    <3>2. CASE b \notin G /\ ~(b = b0 /\ a \in V)
      BY <3>2 DEF ClosedIn
    <3> QED
      BY <3>1, <3>2
  <2>2. S \cup G \subseteq There(h)
    BY DEF PartOf
  <2>3. There(h) \subseteq S \cup G
    BY <2>1, <2>2 DEF Graph, Reached
  <2> QED
    BY <2>3
<1> QED
  BY <1>1, <1>2, <1>3 DEF Graph

(***************************************************************************)
(* G is a part of the heap that v leads to, and nothing else but v's place *)
(* points into.  It is copied, address by address, to where nothing was;   *)
(* a root owns the copy.                                                   *)
(***************************************************************************)
Doubled(h, r, h1, r1, v, G, ren) ==
    /\ \A a \in G : ren[a] \notin There(h)
    /\ \A a, b \in G : ren[a] = ren[b] => a = b
    /\ There(h1) = There(h) \cup {ren[a] : a \in G}
    /\ \A a \in There(h) : h1[a].kind = h[a].kind
    /\ \A a \in G : h1[ren[a]].kind = h[a].kind
    /\ \A b, t, a : Owns(h1, r1, b, t, a) <=>
           \/ Owns(h, r, b, t, a)
           \/ b = 0 /\ \E x \in G : PointsTo(v, t, x) /\ a = ren[x]
           \/ \E y, x \in G : b = ren[y] /\ Owns(h, r, y, t, x) /\ a = ren[x]

(* A copy of a part, owned by a root. *)
LEMMA DoubledGraph ==
    ASSUME NEW h, NEW r, NEW h1, NEW r1, Graph(h, r),
           NEW b0, NEW v, NEW V, NEW G, NEW ren, Doubled(h, r, h1, r1, v, G, ren),
           \A a : a \in V <=> \E t : PointsTo(v, t, a),
           \A a \in G : a # 0 /\ ren[a] # 0,
           PartOf(h, r, b0, V, G), \A t, a : PointsTo(v, t, a) => Owns(h, r, b0, t, a),
           \A S \in SUBSET G : (\A t, a : PointsTo(v, t, a) => a \in S)
                                  /\ (\A b \in S : \A t, a : Owns(h, r, b, t, a) => a \in S)
                               => G \subseteq S
    PROVE  Graph(h1, r1)
<1> USE DEF Doubled
<1>1. Sound(h1, r1)
  <2> SUFFICES ASSUME NEW b, NEW t, NEW a, Owns(h1, r1, b, t, a)
               PROVE  a \in There(h1) /\ h1[a].kind = t
    BY DEF Sound
  <2>1. CASE Owns(h, r, b, t, a)
    BY <2>1 DEF Graph, Sound
  <2>2. CASE b = 0 /\ \E x \in G : PointsTo(v, t, x) /\ a = ren[x]
    BY <2>2 DEF Graph, Sound
  <2>3. CASE \E y, x \in G : b = ren[y] /\ Owns(h, r, y, t, x) /\ a = ren[x]
    BY <2>3 DEF Graph, Sound
  <2> QED
    BY <2>1, <2>2, <2>3
(* Nothing in G leads back to v. *)
<1>2. ASSUME NEW b \in G, NEW t, NEW u, NEW a, Owns(h, r, b, t, a), PointsTo(v, u, a)
      PROVE  FALSE
  <2>1. b0 = b
    BY <1>2 DEF Graph, Unique
  <2>2. ClosedIn(h, r, There(h) \ G)
    <3> SUFFICES ASSUME NEW d, NEW s, NEW x, Owns(h, r, d, s, x), d = 0 \/ d \in There(h) \ G
                 PROVE  x \in There(h) \ G
      BY DEF ClosedIn
    <3>1. x \in There(h)
      BY DEF Graph, Sound
    <3>2. d \notin G
      OBVIOUS
    <3> QED
      BY <2>1, <3>1, <3>2, <1>2 DEF PartOf
  <2>3. There(h) \subseteq There(h) \ G
    BY <2>2 DEF Graph, Reached
  <2> QED
    BY <2>3, <1>2 DEF PartOf
<1>3. Unique(h1, r1)
  <2> SUFFICES ASSUME NEW b, NEW c, NEW t, NEW u, NEW a,
                      Owns(h1, r1, b, t, a), Owns(h1, r1, c, u, a)
               PROVE  b = c
    BY DEF Unique
  <2>1. ASSUME NEW d, NEW s, Owns(h, r, d, s, a) PROVE a \in There(h)
    BY <2>1 DEF Graph, Sound
  <2>2. CASE a \in There(h)
    <3>1. Owns(h, r, b, t, a) /\ Owns(h, r, c, u, a)
      BY <2>2
    <3> QED
      BY <3>1 DEF Graph, Unique
  <2>3. CASE a \notin There(h)
    <3>1. PICK x \in G : a = ren[x]
      BY <2>1, <2>3
    <3>2. \/ b = 0 /\ PointsTo(v, t, x)
          \/ \E y \in G : b = ren[y] /\ Owns(h, r, y, t, x)
      BY <2>1, <2>3, <3>1
    <3>3. \/ c = 0 /\ PointsTo(v, u, x)
          \/ \E y \in G : c = ren[y] /\ Owns(h, r, y, u, x)
      BY <2>1, <2>3, <3>1
    <3>4. CASE b = 0 /\ PointsTo(v, t, x)
      BY <1>2, <3>3, <3>4
    <3>5. CASE c = 0 /\ PointsTo(v, u, x)
      BY <1>2, <3>2, <3>5
    <3>6. CASE /\ \E y \in G : b = ren[y] /\ Owns(h, r, y, t, x)
               /\ \E y \in G : c = ren[y] /\ Owns(h, r, y, u, x)
      BY <3>6 DEF Graph, Unique
    <3> QED
      BY <3>2, <3>3, <3>4, <3>5, <3>6
  <2> QED
    BY <2>2, <2>3
<1>4. Reached(h1, r1)
  <2> SUFFICES ASSUME NEW S \in SUBSET There(h1), ClosedIn(h1, r1, S)
               PROVE  There(h1) \subseteq S
    BY DEF Reached
  <2>1. There(h) \subseteq S
    <3>1. ClosedIn(h, r, S \cap There(h))
      BY DEF ClosedIn, Graph, Sound
    <3> QED
      BY <3>1 DEF Graph, Reached
  <2>2. G \subseteq {x \in G : ren[x] \in S}
    <3> DEFINE T == {x \in G : ren[x] \in S}
    <3>1. ASSUME NEW t, NEW a, PointsTo(v, t, a) PROVE a \in T
      <4>1. a \in G
        BY <3>1 DEF PartOf
      <4>2. Owns(h1, r1, 0, t, ren[a])
        BY <3>1, <4>1
      <4> QED
        BY <4>1, <4>2 DEF ClosedIn
    <3>2. ASSUME NEW b \in T, NEW t, NEW a, Owns(h, r, b, t, a) PROVE a \in T
      <4>1. a \in G
        BY <3>2 DEF PartOf
      <4>2. Owns(h1, r1, ren[b], t, ren[a])
        BY <3>2, <4>1
      <4> QED
        BY <4>1, <4>2 DEF ClosedIn
    <3> HIDE DEF T
    <3>3. T \in SUBSET G
      BY DEF T
    <3>4. G \subseteq T
      BY <3>1, <3>2, <3>3
    <3> QED
      BY <3>4 DEF T
  <2> QED
    BY <2>1, <2>2
<1> QED
  BY <1>1, <1>3, <1>4 DEF Graph

-----------------------------------------------------------------------------
(* That relation, and the operators of JsonHeap. *)

(* What some values own, in terms of PointsTo. *)
LEMMA OwnedIs ==
    ASSUME NEW values, NEW a
    PROVE  a \in Owned(values) <=> \E t : \E v \in values : PointsTo(v, t, a)
BY DEF Owned, PointsTo

LEMMA ChildrenOwn ==
    ASSUME NEW cell, NEW a
    PROVE  a \in Owned(Children(cell)) <=> \E t : CellOwns(cell, t, a)
<1>1. a \in Owned(Children(cell)) <=> \E t : \E v \in Children(cell) : PointsTo(v, t, a)
  BY OwnedIs
<1> QED
  BY <1>1 DEF Children, CellOwns

LEMMA LinksAre ==
    ASSUME NEW h, NEW r, NEW b \in There(h), NEW a
    PROVE  <<b, a>> \in Links(h) <=> \E t : Owns(h, r, b, t, a)
<1>1. b \in Addresses /\ b # 0
  BY ZeroIsNone DEF There
<1>2. <<b, a>> \in Links(h) <=> a \in Owned(Children(h[b]))
  BY DEF Links
<1> QED
  BY <1>1, <1>2, ChildrenOwn DEF Owns

(* What Reach goes through. *)
Closures(h, values) ==
    {S \in SUBSET There(h) :
       /\ Owned(values) \cap There(h) \subseteq S
       /\ \A l \in Links(h) : l[1] \in S /\ l[2] \in There(h) => l[2] \in S}

(* What is reached is there, and ... *)
LEMMA ReachParts ==
    ASSUME NEW h, NEW values
    PROVE  /\ Reach(h, values) = {a \in There(h) : \A S \in Closures(h, values) : a \in S}
           /\ Reach(h, values) \subseteq There(h)
BY DEF Reach, Closures

LEMMA PartsClosed ==
    ASSUME NEW h, NEW r, Sound(h, r), NEW values, NEW S \in Closures(h, values),
           NEW b \in S, NEW t, NEW a, Owns(h, r, b, t, a)
    PROVE  a \in S
<1>1. b \in There(h) /\ a \in There(h)
  BY DEF Closures, Sound
<1>2. <<b, a>> \in Links(h)
  BY <1>1, LinksAre
<1> QED
  BY <1>1, <1>2 DEF Closures

(* A part that holds what the values own, and what it owns itself, is one of them. *)
LEMMA ClosedPart ==
    ASSUME NEW h, NEW r, NEW values, NEW S, S \subseteq There(h),
           \A a : a \in Owned(values) /\ a \in There(h) => a \in S,
           \A b \in S : \A t, a : Owns(h, r, b, t, a) => a \in S
    PROVE  S \in Closures(h, values)
<1>1. ASSUME NEW l \in Links(h), l[1] \in S, l[2] \in There(h)
      PROVE  l[2] \in S
  <2>1. l[1] \in There(h) /\ l = <<l[1], l[2]>>
    BY <1>1 DEF Links
  <2>2. PICK u : Owns(h, r, l[1], u, l[2])
    BY <2>1, LinksAre
  <2> QED
    BY <1>1, <2>2
<1> QED
  BY <1>1 DEF Closures

(* What can be got at from some of what b0 owns is a part nothing else points into. *)
LEMMA ReachIsPart ==
    ASSUME NEW h, NEW r, Graph(h, r), NEW b0, NEW values, NEW V, V = Owned(values),
           \A a \in V : \E t : Owns(h, r, b0, t, a)
    PROVE  /\ PartOf(h, r, b0, V, Reach(h, values))
           /\ \A S \in SUBSET Reach(h, values) :
                 V \subseteq S /\ (\A b \in S : \A t, a : Owns(h, r, b, t, a) => a \in S)
                    => Reach(h, values) \subseteq S
<1> DEFINE G == Reach(h, values)
<1>1. G = {a \in There(h) : \A S \in Closures(h, values) : a \in S}
  BY ReachParts
<1> HIDE DEF G
<1>2. G \subseteq There(h)
  BY <1>1
<1>3. ASSUME NEW t, NEW a, a \in V, Owns(h, r, b0, t, a)
      PROVE  a \in G
  <2>1. a \in There(h)
    BY <1>3 DEF Graph, Sound
  <2> QED
    BY <1>1, <1>3, <2>1 DEF Closures
<1>4. ASSUME NEW b, NEW t, NEW a, Owns(h, r, b, t, a), b \in G
      PROVE  a \in G
  <2>1. a \in There(h)
    BY <1>4 DEF Graph, Sound
  <2>2. ASSUME NEW S \in Closures(h, values) PROVE a \in S
    BY <1>1, <1>4, <2>2, PartsClosed DEF Graph
  <2> QED
    BY <1>1, <2>1, <2>2
<1>5. ASSUME NEW b, NEW t, NEW a, Owns(h, r, b, t, a), a \in G
      PROVE  b \in G \/ (b = b0 /\ a \in V)
  <2> DEFINE S == {c \in G : \A d, u : Owns(h, r, d, u, c) => d \in G \/ (d = b0 /\ c \in V)}
  <2>1. ASSUME NEW c, c \in Owned(values), c \in There(h)
        PROVE  c \in S
    <3>1. PICK u : Owns(h, r, b0, u, c)
      BY <2>1
    <3>2. c \in G
      BY <1>3, <2>1, <3>1
    <3> QED
      BY <2>1, <3>1, <3>2 DEF Graph, Unique
  <2>2. ASSUME NEW c \in S, NEW u, NEW x, Owns(h, r, c, u, x)
        PROVE  x \in S
    <3>1. x \in G
      BY <1>4, <2>2
    <3> QED
      BY <2>2, <3>1 DEF Graph, Unique
  <2> HIDE DEF S
  <2>3. S \subseteq There(h)
    BY <1>2 DEF S
  <2>4. S \in Closures(h, values)
    BY <2>1, <2>2, <2>3, ClosedPart
  <2>5. a \in S
    BY <1>1, <1>5, <2>4
  <2> QED
    BY <1>5, <2>5 DEF S
<1>6. ASSUME NEW S \in SUBSET G, V \subseteq S,
             \A b \in S : \A t, a : Owns(h, r, b, t, a) => a \in S
      PROVE  G \subseteq S
  <2>1. S \in Closures(h, values)
    BY <1>2, <1>6, ClosedPart
  <2> QED
    BY <1>1, <2>1
<1> QED
  BY <1>2, <1>3, <1>4, <1>5, <1>6 DEF PartOf, G

(* A cell of an allocated type is not free. *)
LEMMA KindThere ==
    ASSUME NEW h, NEW a \in Addresses, h[a].kind \in Allocated
    PROVE  a \in There(h)
<1>1. Free.kind = "free"
  BY DEF Free
<1> QED
  BY <1>1 DEF There, Allocated

(* Where every address is owned once and reached, SingleOwner holds. *)
LEMMA KeptIsSingle ==
    ASSUME NEW h, NEW r, Kept(h, r)
    PROVE  SingleOwner(h, r)
<1> DEFINE owners(a) == {p \in Places(h, r) :
                          LET v == HeldAt(h, r, p)
                          IN  v.m_type \in Allocated /\ v.m_value = a}
           At(p, t, a) ==
               \/ p[1] = 0 /\ p[2] \in DOMAIN r /\ PointsTo(r[p[2]], t, a)
               \/ p[1] \in Addresses /\ p[2] \in Slots(h[p[1]])
                    /\ PointsTo(HeldIn(h[p[1]], p[2]), t, a)
<1>1. ASSUME NEW a, NEW p \in owners(a)
      PROVE  p = <<p[1], p[2]>> /\ At(p, HeldAt(h, r, p).m_type, a)
  BY ZeroIsNone DEF Places, HeldAt, PointsTo
<1>2. ASSUME NEW a, NEW p, NEW t, p = <<p[1], p[2]>>, At(p, t, a)
      PROVE  p \in owners(a)
  BY <1>2, ZeroIsNone DEF Places, HeldAt, PointsTo
<1>3. ASSUME NEW b, NEW t, NEW a, Owns(h, r, b, t, a)
      PROVE  \E k : At(<<b, k>>, t, a)
  BY <1>3 DEF Owns, CellOwns, RootOwns
<1>4. ASSUME NEW p, NEW t, NEW a, At(p, t, a)
      PROVE  Owns(h, r, p[1], t, a)
  BY <1>4 DEF Owns, CellOwns, RootOwns
<1>5. ASSUME NEW p, NEW q, NEW t, NEW u, NEW a, At(p, t, a), At(q, u, a),
             p[1] = q[1], p = <<p[1], p[2]>>, q = <<q[1], q[2]>>
      PROVE  p = q
  <2>1. CASE p[1] = 0
    <3>1. p[2] = q[2]
      BY <1>5, <2>1, ZeroIsNone DEF Kept, RootsOnce
    <3> QED
      BY <1>5, <3>1
  <2>2. CASE p[1] # 0
    <3>1. p[1] \in Addresses
      BY <1>5, <2>2
    <3>2. p[1] \in There(h)
      <4>1. Slots(Free) = {}
        BY DEF Slots, Free
      <4> QED
        BY <1>5, <2>2, <3>1, <4>1 DEF There
    <3>3. CellOnce(h[p[1]])
      BY <3>2 DEF Kept
    <3>4. p[2] = q[2]
      BY <1>5, <2>2, <3>3 DEF CellOnce
    <3> QED
      BY <1>5, <3>4
  <2> QED
    BY <2>1, <2>2
<1> HIDE DEF owners, At
<1>g. Graph(h, r)
  BY DEF Kept
<1>6. ASSUME NEW a \in Addresses, h[a] = Free
      PROVE  owners(a) = {}
  BY <1>1, <1>4, <1>6, <1>g DEF Graph, Sound, There
<1>7. ASSUME NEW a \in Addresses, h[a] # Free
      PROVE  Cardinality(owners(a)) = 1
  <2>1. a \in There(h)
    BY <1>7 DEF There
  <2>2. PICK b, t : Owns(h, r, b, t, a)
    <3> SUFFICES ASSUME \A b, t : ~Owns(h, r, b, t, a) PROVE FALSE
      OBVIOUS
    <3>1. ClosedIn(h, r, There(h) \ {a})
      BY <1>g DEF ClosedIn, Graph, Sound
    <3> QED
      BY <2>1, <3>1, <1>g DEF Graph, Reached
  <2>3. PICK k : At(<<b, k>>, t, a)
    BY <1>3, <2>2
  <2>4. owners(a) = {<<b, k>>}
    <3>1. <<b, k>> \in owners(a)
      BY <1>2, <2>3
    <3>2. ASSUME NEW p \in owners(a) PROVE p = <<b, k>>
      <4>1. p = <<p[1], p[2]>> /\ At(p, HeldAt(h, r, p).m_type, a)
        BY <1>1
      <4>2. p[1] = b
        BY <1>4, <2>2, <4>1, <1>g DEF Graph, Unique
      <4> QED
        BY <1>5, <2>3, <4>1, <4>2
    <3> QED
      BY <3>1, <3>2
  <2> QED
    BY <2>4, FS_Singleton
<1>8. ASSUME NEW a \in Addresses, NEW p \in owners(a)
      PROVE  HeldAt(h, r, p).m_type = h[a].kind
  BY <1>1, <1>4, <1>8, <1>g DEF Graph, Sound
<1>9. There(h) \subseteq Reach(h, Range(r))
  <2> SUFFICES ASSUME NEW S \in Closures(h, Range(r)) PROVE There(h) \subseteq S
    BY ReachParts
  <2>1. ClosedIn(h, r, S)
    <3> SUFFICES ASSUME NEW b, NEW t, NEW a, Owns(h, r, b, t, a), b = 0 \/ b \in S
                 PROVE  a \in S
      BY DEF ClosedIn
    <3>1. CASE b \in S
      BY <3>1, <1>g, PartsClosed DEF Graph
    <3>2. CASE b = 0
      <4>1. PICK i \in DOMAIN r : PointsTo(r[i], t, a)
        BY <3>2, ZeroIsNone DEF Owns, RootOwns
      <4>2. a \in Owned(Range(r))
        BY <4>1, OwnedIs DEF Range
      <4>3. a \in There(h)
        BY <1>g DEF Graph, Sound
      <4> QED
        BY <4>2, <4>3 DEF Closures
    <3> QED
      BY <3>1, <3>2
  <2> QED
    BY <2>1, <1>g DEF Graph, Reached, Closures
<1> QED
  BY <1>6, <1>7, <1>8, <1>9 DEF SingleOwner, owners

-----------------------------------------------------------------------------
(* The roots. *)

(* There is always one more name, for a root that is not a variable. *)
LEMMA Another == ASSUME NEW S PROVE \E x : x \notin S
<1> DEFINE R == {y \in S : y \notin y}
<1>1. R \notin S
  OBVIOUS
<1> QED
  BY <1>1

(* The roots with one more. *)
LEMMA WithRoot ==
    ASSUME NEW r, IsRoots(r), NEW x, x \notin DOMAIN r, NEW v \in Value
    PROVE  /\ IsRoots(With(r, x, v)) /\ DOMAIN With(r, x, v) = DOMAIN r \cup {x}
           /\ With(r, x, v)[x] = v /\ \A i \in DOMAIN r : With(r, x, v)[i] = r[i]
           /\ \A t, a : RootOwns(With(r, x, v), t, a) <=> RootOwns(r, t, a) \/ PointsTo(v, t, a)
           /\ RootsOnce(With(r, x, v)) => RootsOnce(r)
           /\ RootsOnce(With(r, x, v)) => \A t, u, a : RootOwns(r, t, a) => ~PointsTo(v, u, a)
           /\ RootsOnce(r) /\ (\A t, u, a : RootOwns(r, t, a) => ~PointsTo(v, u, a))
                => RootsOnce(With(r, x, v))
<1> DEFINE w == With(r, x, v)
<1>1. DOMAIN w = DOMAIN r \cup {x} /\ w[x] = v /\ \A i \in DOMAIN r : w[i] = r[i]
  BY DEF With
<1>2. IsRoots(w)
  <2>1. \A i \in DOMAIN w : w[i] \in Value
    BY <1>1 DEF IsRoots
  <2>2. w = [i \in DOMAIN w |-> w[i]]
    BY DEF With
  <2> QED
    BY <2>1, <2>2 DEF IsRoots
<1> HIDE DEF w
<1>3. \A t, a : RootOwns(w, t, a) <=> RootOwns(r, t, a) \/ PointsTo(v, t, a)
  BY <1>1 DEF RootOwns
<1>4. RootsOnce(w) => RootsOnce(r)
  BY <1>1 DEF RootsOnce
<1>5. ASSUME RootsOnce(w), NEW t, NEW u, NEW a, RootOwns(r, t, a), PointsTo(v, u, a)
      PROVE  FALSE
  <2>1. PICK i \in DOMAIN r : PointsTo(r[i], t, a)
    BY <1>5 DEF RootOwns
  <2>2. PointsTo(w[i], t, a) /\ PointsTo(w[x], u, a)
    BY <1>1, <1>5, <2>1
  <2>3. i = x
    BY <1>1, <1>5, <2>2 DEF RootsOnce
  <2> QED
    BY <2>3
<1>6. ASSUME RootsOnce(r), \A t, u, a : RootOwns(r, t, a) => ~PointsTo(v, u, a)
      PROVE  RootsOnce(w)
  <2> SUFFICES ASSUME NEW i \in DOMAIN w, NEW j \in DOMAIN w, NEW t, NEW u, NEW a,
                      PointsTo(w[i], t, a), PointsTo(w[j], u, a)
               PROVE  i = j
    BY DEF RootsOnce
  <2>1. CASE i \in DOMAIN r /\ j \in DOMAIN r
    BY <1>1, <1>6, <2>1 DEF RootsOnce
  <2>2. CASE i \in DOMAIN r /\ j = x
    BY <1>1, <1>6, <2>2 DEF RootOwns
  <2>3. CASE i = x /\ j \in DOMAIN r
    BY <1>1, <1>6, <2>3 DEF RootOwns
  <2> QED
    BY <1>1, <2>1, <2>2, <2>3
<1> QED
  BY <1>1, <1>2, <1>3, <1>4, <1>5, <1>6 DEF w

(* Other roots own what these do. *)
LEMMA RootsKept ==
    ASSUME NEW h, NEW r, Kept(h, r), NEW r1, IsRoots(r1), RootsOnce(r1),
           \A t, a : RootOwns(r1, t, a) <=> RootOwns(r, t, a)
    PROVE  Kept(h, r1)
<1>1. \A b, t, a : Owns(h, r1, b, t, a) <=> Owns(h, r, b, t, a)
  BY DEF Owns
<1>2. Graph(h, r1)
  BY <1>1, SameGraph DEF Kept
<1> QED
  BY <1>2 DEF Kept

-----------------------------------------------------------------------------
(* The heap. *)

(* What cells of each type hold. *)
LEMMA FreeCell == IsCell(Free) /\ Slots(Free) = {}
BY DEF IsCell, Slots, Free

LEMMA StringCell ==
    ASSUME NEW x
    PROVE  /\ StringOf(x).kind = "string" /\ IsCell(StringOf(x))
           /\ Slots(StringOf(x)) = {}
BY DEF IsCell, Slots, StringOf

LEMMA ObjectCell ==
    ASSUME NEW ms
    PROVE  /\ ObjectOf(ms).kind = "object" /\ ObjectOf(ms).members = ms
           /\ Slots(ObjectOf(ms)) = DOMAIN ms
           /\ \A k : HeldIn(ObjectOf(ms), k) = ms[k]
           /\ ms \in [DOMAIN ms -> Value] => IsCell(ObjectOf(ms))
BY DEF IsCell, Slots, HeldIn, ObjectOf

LEMMA ArrayCell ==
    ASSUME NEW es
    PROVE  /\ ArrayOf(es).kind = "array" /\ ArrayOf(es).elements = es
           /\ Slots(ArrayOf(es)) = DOMAIN es
           /\ \A k : HeldIn(ArrayOf(es), k) = es[k]
           /\ es \in Seq(Value) => IsCell(ArrayOf(es))
BY DEF IsCell, Slots, HeldIn, ArrayOf

LEMMA FreeOwnsNothing == \A t, a : ~CellOwns(Free, t, a)
BY FreeCell DEF CellOwns

LEMMA KindsAre ==
    ASSUME NEW h, IsHeap(h), NEW a \in There(h)
    PROVE  a \in Addresses /\ a # 0 /\ h[a] # Free /\ IsCell(h[a]) /\ h[a].kind \in Allocated
<1>1. a \in Addresses /\ h[a] # Free /\ IsCell(h[a]) /\ a # 0
  BY ZeroIsNone DEF There, IsHeap
<1> QED
  BY <1>1 DEF IsCell, Allocated

(* h1 is h with another cell at c. *)
Replaced(h, c, cell, h1) ==
    /\ DOMAIN h1 = Addresses /\ h1[c] = cell
    /\ \A a \in Addresses : a # c => h1[a] = h[a]

(* One cell is replaced by another of its type. *)
LEMMA ReplacedCells ==
    ASSUME NEW h, IsHeap(h), NEW c \in There(h), NEW cell, IsCell(cell), cell.kind = h[c].kind,
           NEW h1, Replaced(h, c, cell, h1)
    PROVE  /\ IsHeap(h1) /\ There(h1) = There(h)
           /\ \A a \in There(h) : h1[a].kind = h[a].kind
           /\ \A b, t, a, r : Owns(h1, r, b, t, a) <=>
                 (b # c /\ Owns(h, r, b, t, a)) \/ (b = c /\ CellOwns(cell, t, a))
<1>1. /\ DOMAIN h1 = Addresses /\ h1[c] = cell
      /\ \A a \in Addresses : a # c => h1[a] = h[a]
  BY DEF Replaced
<1>2. c \in Addresses /\ c # 0 /\ h[c].kind \in Allocated
  BY KindsAre
<1>3. cell # Free
  BY <1>2 DEF Free, Allocated
<1>4. IsHeap(h1)
  BY <1>1, <1>2 DEF IsHeap
<1>5. There(h1) = There(h) /\ \A a \in There(h) : h1[a].kind = h[a].kind
  BY <1>1, <1>2, <1>3 DEF There
<1>6. \A b, t, a, r : Owns(h1, r, b, t, a) <=>
          (b # c /\ Owns(h, r, b, t, a)) \/ (b = c /\ CellOwns(cell, t, a))
  BY <1>1, <1>2 DEF Owns
<1> QED
  BY <1>4, <1>5, <1>6

(* What a cell owns is not a root's, and not another cell's. *)
LEMMA OwnedByOne ==
    ASSUME NEW h, NEW r, Kept(h, r), NEW c \in There(h)
    PROVE  /\ \A t, a : CellOwns(h[c], t, a) => Owns(h, r, c, t, a)
           /\ \A t, u, a : CellOwns(h[c], t, a) => ~RootOwns(r, u, a)
           /\ \A t, u, a : RootOwns(r, t, a) => /\ Owns(h, r, 0, t, a) /\ a \in There(h)
                                                 /\ h[a].kind = t /\ ~CellOwns(h[c], u, a)
<1>1. c \in Addresses /\ c # 0
  BY ZeroIsNone DEF There
<1>2. \A t, a : CellOwns(h[c], t, a) => Owns(h, r, c, t, a)
  BY <1>1 DEF Owns
<1>3. \A t, a : RootOwns(r, t, a) => Owns(h, r, 0, t, a)
  BY DEF Owns
<1>4. \A t, u, a : RootOwns(r, t, a) => ~CellOwns(h[c], u, a)
  BY <1>1, <1>2, <1>3 DEF Kept, Graph, Unique
<1>5. \A t, a : RootOwns(r, t, a) => a \in There(h) /\ h[a].kind = t
  BY <1>3 DEF Kept, Graph, Sound
<1> QED
  BY <1>2, <1>3, <1>4, <1>5

(* v goes from a root to a place in the cell of another root. *)
LEMMA PutKept ==
    ASSUME NEW h, NEW r, IsRoots(r), NEW x, x \notin DOMAIN r, NEW v \in Value,
           Kept(h, With(r, x, v)),
           NEW c, NEW u, RootOwns(r, u, c),
           NEW cell, IsCell(cell), CellOnce(cell), cell.kind = h[c].kind,
           \A t, a : CellOwns(cell, t, a) <=> CellOwns(h[c], t, a) \/ PointsTo(v, t, a),
           NEW h1, Replaced(h, c, cell, h1)
    PROVE  Kept(h1, r)
<1> DEFINE w == With(r, x, v)
<1>1. /\ \A t, a : RootOwns(w, t, a) <=> RootOwns(r, t, a) \/ PointsTo(v, t, a)
      /\ RootsOnce(r) /\ \A t, s, a : RootOwns(r, t, a) => ~PointsTo(v, s, a)
  BY WithRoot DEF Kept
<1>h. Kept(h, w)
  OBVIOUS
<1> HIDE DEF w
<1>2. Owns(h, w, 0, u, c) /\ c \in There(h) /\ IsHeap(h)
  BY <1>1, <1>h DEF Owns, Kept, Graph, Sound
<1>3. c \in Addresses /\ c # 0
  BY <1>2, ZeroIsNone DEF There
<1>4. /\ IsHeap(h1) /\ There(h1) = There(h)
      /\ \A a \in There(h) : h1[a].kind = h[a].kind
      /\ \A b, t, a : Owns(h1, r, b, t, a) <=>
            (b # c /\ Owns(h, r, b, t, a)) \/ (b = c /\ CellOwns(cell, t, a))
  BY <1>2, ReplacedCells
<1>5. \A t, a : PointsTo(v, t, a) => Owns(h, w, 0, t, a)
  BY <1>1 DEF Owns
<1>6. ASSUME NEW b, NEW t, NEW a
      PROVE  Owns(h1, r, b, t, a) <=>
                 \/ Owns(h, w, b, t, a) /\ ~(b = 0 /\ PointsTo(v, t, a))
                 \/ b = c /\ PointsTo(v, t, a)
  <2>1. CASE b = 0
    BY <1>1, <1>3, <1>4, <2>1, ZeroIsNone DEF Owns
  <2>2. CASE b = c
    BY <1>1, <1>3, <1>4, <2>2 DEF Owns
  <2>3. CASE b # 0 /\ b # c
    BY <1>4, <2>3 DEF Owns
  <2> QED
    BY <2>1, <2>2, <2>3
<1>7. ~PointsTo(v, u, c)
  BY <1>1
<1>8. Moved(h, w, h1, r, 0, c, v)
  BY <1>2, <1>4, <1>5, <1>6, <1>7 DEF Moved
<1>9. Graph(h1, r)
  BY <1>8, <1>h, MovedGraph DEF Kept
<1>10. \A a \in There(h1) : CellOnce(h1[a])
  BY <1>h, <1>4 DEF Kept, Replaced, There
<1> QED
  BY <1>1, <1>4, <1>9, <1>10 DEF Kept

(* v goes from a cell to a root. *)
LEMMA TakeKept ==
    ASSUME NEW h, NEW r, Kept(h, r), NEW x, x \notin DOMAIN r, NEW v \in Value,
           NEW c \in There(h), \A t, a : PointsTo(v, t, a) => CellOwns(h[c], t, a),
           NEW cell, IsCell(cell), CellOnce(cell), cell.kind = h[c].kind,
           \A t, a : CellOwns(cell, t, a) <=> CellOwns(h[c], t, a) /\ ~PointsTo(v, t, a),
           NEW h1, Replaced(h, c, cell, h1)
    PROVE  Kept(h1, With(r, x, v))
<1> DEFINE w == With(r, x, v)
<1>0. c \in Addresses /\ c # 0 /\ IsHeap(h) /\ IsRoots(r) /\ RootsOnce(r)
  BY ZeroIsNone DEF There, Kept
<1>a. \A t, s, a : RootOwns(r, t, a) => ~PointsTo(v, s, a)
  BY OwnedByOne
<1>1. IsRoots(w) /\ RootsOnce(w)
      /\ \A t, a : RootOwns(w, t, a) <=> RootOwns(r, t, a) \/ PointsTo(v, t, a)
  BY <1>0, <1>a, WithRoot
<1> HIDE DEF w
<1>4. /\ IsHeap(h1) /\ There(h1) = There(h)
      /\ \A a \in There(h) : h1[a].kind = h[a].kind
      /\ \A b, t, a : Owns(h1, w, b, t, a) <=>
            (b # c /\ Owns(h, w, b, t, a)) \/ (b = c /\ CellOwns(cell, t, a))
  BY <1>0, ReplacedCells
<1>5. \A t, a : PointsTo(v, t, a) => Owns(h, r, c, t, a)
  BY <1>0 DEF Owns
<1>6. ASSUME NEW b, NEW t, NEW a
      PROVE  Owns(h1, w, b, t, a) <=>
                 \/ Owns(h, r, b, t, a) /\ ~(b = c /\ PointsTo(v, t, a))
                 \/ b = 0 /\ PointsTo(v, t, a)
  <2>1. CASE b = 0
    BY <1>0, <1>1, <1>4, <2>1, ZeroIsNone DEF Owns
  <2>2. CASE b = c
    BY <1>0, <1>1, <1>4, <2>2 DEF Owns
  <2>3. CASE b # 0 /\ b # c
    BY <1>4, <2>3 DEF Owns
  <2> QED
    BY <2>1, <2>2, <2>3
<1>8. Moved(h, r, h1, w, c, 0, v)
  BY <1>4, <1>5, <1>6 DEF Moved
<1>9. Graph(h1, w)
  BY <1>8, MovedGraph DEF Kept
<1>10. \A a \in There(h1) : CellOnce(h1[a])
  BY <1>4 DEF Kept, Replaced, There
<1> QED
  BY <1>1, <1>4, <1>9, <1>10 DEF Kept, w

(* What can be got at from the values is freed, and the cell at c replaced. *)
Freed(h, values, h1) ==
    /\ DOMAIN h1 = Addresses
    /\ \A a \in Addresses : h1[a] = IF a \in Reach(h, values) THEN Free ELSE h[a]

(* Cells that are reached are freed. *)
LEMMA FreedCells ==
    ASSUME NEW h, IsHeap(h), NEW values, NEW h1, Freed(h, values, h1)
    PROVE  /\ IsHeap(h1) /\ There(h1) = There(h) \ Reach(h, values)
           /\ \A a \in There(h1) : h1[a] = h[a]
           /\ \A b, t, a, r : Owns(h1, r, b, t, a) <=>
                 Owns(h, r, b, t, a) /\ (b = 0 \/ b \notin Reach(h, values))
<1> DEFINE G == Reach(h, values)
<1>1. DOMAIN h1 = Addresses /\ \A a \in Addresses : h1[a] = IF a \in G THEN Free ELSE h[a]
  BY DEF Freed
<1>5. G \subseteq Addresses
  BY ReachParts DEF There
<1> HIDE DEF G
<1>2. IsHeap(h1)
  BY <1>1, FreeCell DEF IsHeap
<1>3. There(h1) = There(h) \ G
  BY <1>1 DEF There
<1>4. \A b, t, a, r : Owns(h1, r, b, t, a) <=> Owns(h, r, b, t, a) /\ (b = 0 \/ b \notin G)
  BY <1>1, <1>5, FreeOwnsNothing, ZeroIsNone DEF Owns
<1>6. \A a \in There(h1) : h1[a] = h[a]
  BY <1>1, <1>3 DEF There
<1> QED
  BY <1>2, <1>3, <1>4, <1>6 DEF G

LEMMA DestroyedFrees == ASSUME NEW h, NEW v PROVE Freed(h, {v}, Destroyed(h, v))
BY DEF Destroyed, Freed

(* A root is destroyed. *)
LEMMA DestroyKept ==
    ASSUME NEW h, NEW r, IsRoots(r), NEW x, x \notin DOMAIN r, NEW v \in Value,
           Kept(h, With(r, x, v))
    PROVE  /\ Kept(Destroyed(h, v), r)
           /\ \A a \in There(Destroyed(h, v)) : a \in There(h) /\ Destroyed(h, v)[a] = h[a]
           /\ \A a : h[a] = Free => Destroyed(h, v)[a] = Free \/ a \notin Addresses
<1> DEFINE w == With(r, x, v)
           G == Reach(h, {v})
           V == Owned({v})
           h1 == Destroyed(h, v)
<1>h. Kept(h, w)
  OBVIOUS
<1>1. /\ \A t, a : RootOwns(w, t, a) <=> RootOwns(r, t, a) \/ PointsTo(v, t, a)
      /\ RootsOnce(r) /\ \A t, s, a : RootOwns(r, t, a) => ~PointsTo(v, s, a)
  BY WithRoot DEF Kept
<1>2. /\ IsHeap(h1) /\ There(h1) = There(h) \ G
      /\ \A a \in There(h1) : h1[a] = h[a]
      /\ \A b, t, a : Owns(h1, r, b, t, a) <=> Owns(h, r, b, t, a) /\ (b = 0 \/ b \notin G)
  BY DestroyedFrees, FreedCells DEF Kept
<1>3. \A a : a \in V <=> \E t : PointsTo(v, t, a)
  BY OwnedIs
<1>7. \A a \in Addresses : h[a] = Free => h1[a] = Free
  BY DEF Destroyed
<1> HIDE DEF w, G, V, h1
<1>4. PartOf(h, w, 0, V, G)
  <2>1. \A a \in V : \E t : Owns(h, w, 0, t, a)
    BY <1>1, <1>3 DEF Owns
  <2> QED
    BY <2>1, <1>h, ReachIsPart DEF Kept, V, G
<1>5. 0 \notin G
  BY <1>4, ZeroIsNone DEF PartOf, There
<1>6. ASSUME NEW b, NEW t, NEW a
      PROVE  Owns(h1, r, b, t, a) <=>
                 Owns(h, w, b, t, a) /\ ~(b = 0 /\ a \in V) /\ b \notin G
  <2>1. CASE b = 0
    BY <1>1, <1>2, <1>3, <1>5, <2>1, ZeroIsNone DEF Owns
  <2>2. CASE b # 0
    BY <1>2, <2>2 DEF Owns
  <2> QED
    BY <2>1, <2>2
<1>8. Removed(h, w, h1, r, 0, V, G)
  BY <1>2, <1>4, <1>6 DEF Removed
<1>9. Graph(h1, r)
  BY <1>8, <1>h, RemovedGraph DEF Kept
<1>10. \A a \in There(h1) : CellOnce(h1[a])
  BY <1>2, <1>h DEF Kept
<1> QED
  BY <1>1, <1>2, <1>7, <1>9, <1>10 DEF Kept, h1

(* Values in the cell at c are destroyed, and the cell is without them. *)
LEMMA DropKept ==
    ASSUME NEW h, NEW r, Kept(h, r), NEW c \in There(h), NEW values,
           \A v \in values : \A t, a : PointsTo(v, t, a) => CellOwns(h[c], t, a),
           NEW u, Owns(h, r, 0, u, c),
           NEW cell, IsCell(cell), CellOnce(cell), cell.kind = h[c].kind,
           \A t, a : CellOwns(cell, t, a) <=>
                         CellOwns(h[c], t, a) /\ \A v \in values : ~PointsTo(v, t, a),
           NEW h1, Freed(h, values, h1), NEW h2, Replaced(h1, c, cell, h2)
    PROVE  /\ Kept(h2, r) /\ c \in There(h1) /\ h1[c] = h[c]
           /\ \A a \in There(h2) : a # c => h2[a] = h[a]
<1> DEFINE G == Reach(h, values)
           V == Owned(values)
<1>0. c \in Addresses /\ c # 0 /\ IsHeap(h) /\ IsRoots(r) /\ RootsOnce(r) /\ Graph(h, r)
  BY ZeroIsNone DEF There, Kept
<1>1. \A a : a \in V <=> \E t : \E v \in values : PointsTo(v, t, a)
  BY OwnedIs
<1>2. /\ IsHeap(h1) /\ There(h1) = There(h) \ G
      /\ \A a \in There(h1) : h1[a] = h[a]
      /\ \A b, t, a : Owns(h1, r, b, t, a) <=> Owns(h, r, b, t, a) /\ (b = 0 \/ b \notin G)
  BY <1>0, FreedCells
<1> HIDE DEF G, V
<1>3. \A a \in V : \E t : Owns(h, r, c, t, a)
  BY <1>0, <1>1 DEF Owns
<1>4. PartOf(h, r, c, V, G)
  BY <1>0, <1>3, ReachIsPart DEF V, G
<1>5. 0 \notin G
  BY <1>4, ZeroIsNone DEF PartOf, There
<1>6. c \notin G
  <2> SUFFICES ASSUME c \in G PROVE FALSE
    OBVIOUS
  <2>1. 0 \in G \/ (0 = c /\ c \in V)
    BY <1>4 DEF PartOf
  <2> QED
    BY <1>0, <1>5, <2>1
<1>7. c \in There(h1) /\ h1[c] = h[c]
  BY <1>2, <1>6
<1>8. /\ IsHeap(h2) /\ There(h2) = There(h1)
      /\ \A a \in There(h1) : h2[a].kind = h1[a].kind
      /\ \A b, t, a : Owns(h2, r, b, t, a) <=>
            (b # c /\ Owns(h1, r, b, t, a)) \/ (b = c /\ CellOwns(cell, t, a))
  BY <1>2, <1>7, ReplacedCells
<1>9. ASSUME NEW b, NEW t, NEW a
      PROVE  Owns(h2, r, b, t, a) <=>
                 Owns(h, r, b, t, a) /\ ~(b = c /\ a \in V) /\ b \notin G
  <2>1. CASE b # c
    BY <1>2, <1>5, <1>8, <2>1
  <2>2. CASE b = c
    <3>1. Owns(h2, r, b, t, a) <=> CellOwns(h[c], t, a) /\ \A v \in values : ~PointsTo(v, t, a)
      BY <1>8, <2>2
    <3>2. Owns(h, r, b, t, a) <=> CellOwns(h[c], t, a)
      BY <1>0, <2>2 DEF Owns
    <3>3. CellOwns(h[c], t, a) => (a \in V <=> \E v \in values : PointsTo(v, t, a))
      <4> SUFFICES ASSUME CellOwns(h[c], t, a), NEW s, NEW v \in values, PointsTo(v, s, a)
                   PROVE  PointsTo(v, t, a)
        BY <1>1
      <4>1. Owns(h, r, c, t, a) /\ Owns(h, r, c, s, a)
        BY <1>0 DEF Owns
      <4> QED
        BY <1>0, <4>1 DEF Graph, Sound
    <3> QED
      BY <1>6, <2>2, <3>1, <3>2, <3>3
  <2> QED
    BY <2>1, <2>2
<1>10. Removed(h, r, h2, r, c, V, G)
  BY <1>2, <1>4, <1>8, <1>9 DEF Removed
<1>11. Graph(h2, r)
  BY <1>0, <1>10, RemovedGraph
<1>12. \A a \in There(h2) : a # c => h2[a] = h[a]
  BY <1>2, <1>8 DEF Replaced, There
<1>13. \A a \in There(h2) : CellOnce(h2[a])
  BY <1>2, <1>8, <1>12 DEF Kept, Replaced
<1> QED
  BY <1>0, <1>7, <1>8, <1>11, <1>12, <1>13 DEF Kept

(* A new value is a root. *)
LEMMA NewKept ==
    ASSUME NEW h, NEW r, Kept(h, r), HasRoom(h, 1), NEW x, x \notin DOMAIN r,
           NEW cell, IsCell(cell), cell.kind \in Allocated, Slots(cell) = {}
    PROVE  LET new == New(h, cell)
           IN  /\ new.value \in Value
               /\ Kept(new.heap, With(r, x, new.value))
               /\ new.value.m_type = cell.kind
               /\ new.value.m_value \in There(new.heap) \ There(h)
               /\ new.heap[new.value.m_value] = cell
               /\ \A a \in There(h) : a \in There(new.heap) /\ new.heap[a] = h[a]
<1> DEFINE free == {a \in Addresses : h[a] = Free}
           a0 == Fresh(h)
           h1 == [h EXCEPT ![a0] = cell]
           v == json(cell.kind, a0)
           w == With(r, x, v)
<1>0. IsHeap(h) /\ IsRoots(r) /\ RootsOnce(r) /\ Graph(h, r)
  BY DEF Kept
<1>1. free # {}
  <2>1. Cardinality(free) >= 1
    BY DEF HasRoom
  <2>2. Cardinality({}) = 0
    BY FS_EmptySet
  <2> QED
    BY <2>1, <2>2
<1>2. a0 \in Addresses /\ h[a0] = Free /\ a0 # 0 /\ a0 \in Int
  <2>1. a0 \in Addresses /\ h[a0] = Free
    BY <1>1 DEF Fresh
  <2> HIDE DEF a0
  <2> QED
    BY <2>1, ZeroIsNone
<1>8. New(h, cell).heap = h1 /\ New(h, cell).value = v
  BY DEF New
<1> HIDE DEF a0, free
<1>3. /\ DOMAIN h1 = Addresses /\ h1[a0] = cell
      /\ \A a \in Addresses : a # a0 => h1[a] = h[a]
  BY <1>0, <1>2 DEF IsHeap
<1> HIDE DEF h1
<1>4. cell # Free
  BY DEF Free, Allocated
<1>5. /\ a0 \notin There(h) /\ There(h1) = There(h) \cup {a0}
      /\ \A a \in There(h) : h1[a] = h[a]
  <2>1. a0 \notin There(h)
    BY <1>2 DEF There
  <2>2. \A a \in There(h) : h1[a] = h[a]
    BY <1>3, <2>1 DEF There
  <2>3. \A a : a \in There(h1) <=> a \in There(h) \/ a = a0
    BY <1>2, <1>3, <1>4 DEF There
  <2> QED
    BY <2>1, <2>2, <2>3
<1>6. IsHeap(h1)
  BY <1>0, <1>3 DEF IsHeap
<1>7. v \in Value /\ v.m_type = cell.kind /\ v.m_value = a0
      /\ \A t, a : PointsTo(v, t, a) <=> t = cell.kind /\ a = a0
  BY <1>2 DEF json, Value, PointsTo
<1> HIDE DEF v
<1>9. \A t, u, a : RootOwns(r, t, a) => ~PointsTo(v, u, a)
  <2> SUFFICES ASSUME NEW t, NEW a, RootOwns(r, t, a) PROVE a # a0
    BY <1>7
  <2>1. a \in There(h)
    BY <1>0 DEF Graph, Sound, Owns
  <2> QED
    BY <1>5, <2>1
<1>10. IsRoots(w) /\ RootsOnce(w)
       /\ \A t, a : RootOwns(w, t, a) <=> RootOwns(r, t, a) \/ PointsTo(v, t, a)
  BY <1>0, <1>7, <1>9, WithRoot
<1> HIDE DEF w
<1>11. \A t, a : ~CellOwns(cell, t, a)
  BY DEF CellOwns
<1>12. ASSUME NEW b, NEW t, NEW a
       PROVE  Owns(h1, w, b, t, a) <=>
                  Owns(h, r, b, t, a) \/ (b = 0 /\ t = cell.kind /\ a = a0)
  <2>1. CASE b = 0
    BY <1>7, <1>10, <2>1, ZeroIsNone DEF Owns
  <2>2. CASE b # 0 /\ b \in Addresses
    BY <1>2, <1>3, <1>11, <2>2, FreeOwnsNothing DEF Owns
  <2> QED
    BY <2>1, <2>2 DEF Owns
<1>13. Added(h, r, h1, w, a0, cell.kind)
  BY <1>3, <1>5, <1>12 DEF Added
<1>14. Graph(h1, w)
  BY <1>0, <1>13, AddedGraph
<1>15. \A a \in There(h1) : CellOnce(h1[a])
  <2>1. CellOnce(cell)
    BY DEF CellOnce
  <2> QED
    BY <1>3, <1>5, <2>1 DEF Kept
<1>16. Kept(h1, w)
  BY <1>6, <1>10, <1>14, <1>15 DEF Kept
<1> QED
  BY <1>3, <1>5, <1>7, <1>8, <1>16 DEF w

-----------------------------------------------------------------------------
(* Copies. *)

Rank(S, a) == Cardinality({b \in S : b < a})

(* The elements of a finite set of numbers have the ranks below its size, one each. *)
LEMMA Ranks ==
    ASSUME NEW S, S \subseteq Nat, IsFiniteSet(S)
    PROVE  /\ Cardinality(S) \in Nat
           /\ \A a \in S : Rank(S, a) \in 0 .. Cardinality(S) - 1
           /\ \A a, b \in S : Rank(S, a) = Rank(S, b) => a = b
           /\ \A n \in 0 .. Cardinality(S) - 1 : \E b \in S : Rank(S, b) = n
<1> DEFINE Below(a) == {b \in S : b < a}
           N == Cardinality(S)
           f == [a \in S |-> Rank(S, a)]
<1>1. N \in Nat
  BY FS_CardinalityType
<1>2. ASSUME NEW a \in S
      PROVE  IsFiniteSet(Below(a)) /\ Rank(S, a) \in Nat
  <2>1. Below(a) \in SUBSET S
    OBVIOUS
  <2>2. IsFiniteSet(Below(a))
    BY <2>1, FS_Subset
  <2> QED
    BY <2>2, FS_CardinalityType DEF Rank
<1>3. ASSUME NEW a \in S, NEW T, T \subseteq S, IsFiniteSet(T), Below(a) \subseteq T, a \in T
      PROVE  Rank(S, a) < Cardinality(T)
  <2>1. Cardinality(T) \in Nat /\ Rank(S, a) \in Nat
    BY <1>2, <1>3, FS_CardinalityType
  <2>2. Cardinality(Below(a)) <= Cardinality(T)
        /\ (Cardinality(T) = Cardinality(Below(a)) => T = Below(a))
    BY <1>3, FS_Subset
  <2>3. a \notin Below(a)
    OBVIOUS
  <2>4. Cardinality(T) # Cardinality(Below(a))
    BY <1>3, <2>2, <2>3
  <2>5. Rank(S, a) = Cardinality(Below(a))
    BY DEF Rank
  <2> HIDE DEF Below
  <2> QED
    BY <2>1, <2>2, <2>4, <2>5
<1>4. ASSUME NEW a \in S PROVE Rank(S, a) \in 0 .. N - 1
  <2>1. Rank(S, a) < N
    BY <1>3
  <2>2. Rank(S, a) \in Nat
    BY <1>2
  <2> HIDE DEF N
  <2> QED
    BY <1>1, <2>1, <2>2
<1>5. ASSUME NEW a \in S, NEW b \in S, a < b PROVE Rank(S, a) < Rank(S, b)
  <2>0. \A c \in S : c \in Nat
    OBVIOUS
  <2>3. \A c \in S : c < a => c < b
    BY <1>5, <2>0
  <2>1. Below(a) \subseteq Below(b) /\ a \in Below(b) /\ Below(b) \subseteq S
    BY <1>5, <2>3
  <2>2. Rank(S, a) < Cardinality(Below(b))
    BY <1>2, <1>3, <2>1
  <2> QED
    BY <2>2 DEF Rank
<1>6. ASSUME NEW a \in S, NEW b \in S, Rank(S, a) = Rank(S, b) PROVE a = b
  <2>1. a \in Nat /\ b \in Nat /\ Rank(S, a) \in Nat
    BY <1>2
  <2> QED
    BY <1>5, <1>6, <2>1
<1> HIDE DEF N, Below
<1>7. f \in Injection(S, 0 .. N - 1)
  BY <1>4, <1>6 DEF Injection, IsInjective
<1>8. IsFiniteSet(0 .. N - 1) /\ Cardinality(0 .. N - 1) = N
  <2>1. IsFiniteSet(0 .. N - 1) /\ Cardinality(0 .. N - 1) = IF 0 > N - 1 THEN 0 ELSE N - 1 - 0 + 1
    BY <1>1, FS_Interval
  <2> QED
    BY <1>1, <2>1
<1>9. f \in Surjection(S, 0 .. N - 1)
  <2> HIDE DEF f
  <2>1. Cardinality(S) = Cardinality(0 .. N - 1)
    BY <1>8 DEF N
  <2> QED
    BY <1>7, <1>8, <2>1, FS_Injection
<1>10. ASSUME NEW n \in 0 .. N - 1 PROVE \E b \in S : Rank(S, b) = n
  BY <1>9 DEF Surjection
<1> QED
  BY <1>1, <1>4, <1>6, <1>10 DEF N

(* What a copy is made with: an address of its own, that was free, for each. *)
Renames(h, v) ==
    [a \in Reach(h, {v}) |->
       CHOOSE b \in {c \in Addresses : h[c] = Free} :
           Rank({c \in Addresses : h[c] = Free}, b) = Rank(Reach(h, {v}), a)]

(* Each cell that is reached gets a free address of its own. *)
LEMMA RenamesApart ==
    ASSUME NEW h, NEW v, Copyable(h, v)
    PROVE  /\ DOMAIN Renames(h, v) = Reach(h, {v})
           /\ \A a \in Reach(h, {v}) :
                 Renames(h, v)[a] \in Addresses /\ h[Renames(h, v)[a]] = Free
           /\ \A a, b \in Reach(h, {v}) : Renames(h, v)[a] = Renames(h, v)[b] => a = b
<1> DEFINE old == Reach(h, {v})
           free == {c \in Addresses : h[c] = Free}
           ren == Renames(h, v)
<1>1. old \subseteq Nat /\ free \subseteq Nat /\ IsFiniteSet(old) /\ IsFiniteSet(free)
  <2>1. old \in SUBSET Addresses
    BY ReachParts DEF There
  <2>2. free \in SUBSET Addresses
    OBVIOUS
  <2> HIDE DEF old, free
  <2> QED
    BY <2>1, <2>2, AddressesAreNumbers, FS_Subset
<1>2. Cardinality(free) >= Cardinality(old)
  BY DEF Copyable, HasRoom
<1>3. ren = [a \in old |-> CHOOSE b \in free : Rank(free, b) = Rank(old, a)]
  BY DEF Renames
<1>a. free \subseteq Addresses /\ \A a \in free : h[a] = Free
  OBVIOUS
<1> HIDE DEF old, free, ren
<1>4. ASSUME NEW a \in old
      PROVE  ren[a] \in free /\ Rank(free, ren[a]) = Rank(old, a)
  <2>1. Rank(old, a) \in 0 .. Cardinality(old) - 1 /\ Cardinality(old) \in Nat
    BY <1>1, Ranks
  <2>2. Cardinality(free) \in Nat
        /\ \A n \in 0 .. Cardinality(free) - 1 : \E b \in free : Rank(free, b) = n
    BY <1>1, Ranks
  <2>3. Rank(old, a) \in 0 .. Cardinality(free) - 1
    BY <1>2, <2>1, <2>2
  <2>4. \E b \in free : Rank(free, b) = Rank(old, a)
    BY <2>2, <2>3
  <2> QED
    BY <1>3, <2>4
<1>5. ASSUME NEW a \in old, NEW b \in old, ren[a] = ren[b] PROVE a = b
  <2>1. Rank(old, a) = Rank(old, b)
    BY <1>4, <1>5
  <2>2. \A c, d \in old : Rank(old, c) = Rank(old, d) => c = d
    BY <1>1, Ranks
  <2> QED
    BY <2>1, <2>2
<1> QED
  BY <1>3, <1>4, <1>5, <1>a DEF old, ren

(* Copied, with the renaming it uses named. *)
LEMMA CopiedIs ==
    ASSUME NEW h, NEW v
    PROVE  LET ren == Renames(h, v)
           IN  /\ Copied(h, v).value = Renamed(ren, v)
               /\ Copied(h, v).heap =
                     [a \in Addresses |->
                        IF \E b \in DOMAIN ren : ren[b] = a
                        THEN CopiedCell(ren, h[CHOOSE b \in DOMAIN ren : ren[b] = a])
                        ELSE h[a]]
BY DEF Copied, Renames, Rank

(* A renamed value points to where the old one was copied to. *)
LEMMA RenamedIs ==
    ASSUME NEW ren, NEW w \in Value,
           \A t, a : PointsTo(w, t, a) => ren[a] \in Int
    PROVE  /\ Renamed(ren, w) \in Value /\ Renamed(ren, w).m_type = w.m_type
           /\ \A t, a : PointsTo(Renamed(ren, w), t, a) <=>
                            \E y : PointsTo(w, t, y) /\ a = ren[y]
<1>1. CASE w.m_type \in Allocated
  <2>1. Renamed(ren, w) = json(w.m_type, ren[w.m_value])
    BY <1>1 DEF Renamed
  <2>2. PointsTo(w, w.m_type, w.m_value)
    BY <1>1 DEF PointsTo
  <2>3. ren[w.m_value] \in Int
    BY <2>2
  <2> QED
    BY <1>1, <2>1, <2>3 DEF json, Value, PointsTo
<1>2. CASE w.m_type \notin Allocated
  BY <1>2 DEF Renamed, PointsTo
<1> QED
  BY <1>1, <1>2

(* A copied cell holds the same, renamed. *)
LEMMA CopiedCellIs ==
    ASSUME NEW ren, NEW cell, IsCell(cell), cell # Free,
           \A t, a : CellOwns(cell, t, a) => ren[a] \in Int
    PROVE  /\ IsCell(CopiedCell(ren, cell)) /\ CopiedCell(ren, cell).kind = cell.kind
           /\ \A k : k \in Slots(CopiedCell(ren, cell)) <=> k \in Slots(cell)
           /\ \A k \in Slots(cell) :
                 /\ HeldIn(cell, k) \in Value
                 /\ HeldIn(CopiedCell(ren, cell), k) = Renamed(ren, HeldIn(cell, k))
<1> DEFINE R(w) == Renamed(ren, w)
<1>1. CASE cell.kind = "string"
  <2>1. CopiedCell(ren, cell) = cell /\ Slots(cell) = {}
    BY <1>1 DEF CopiedCell, Slots
  <2> QED
    BY <2>1
<1>2. CASE cell.kind = "array"
  <2>1. cell = ArrayOf(cell.elements) /\ cell.elements \in Seq(Value)
    BY <1>2 DEF IsCell, Free
  <2> DEFINE es == cell.elements
             fs == [i \in DOMAIN es |-> Renamed(ren, es[i])]
  <2>2. CopiedCell(ren, cell) = ArrayOf(fs)
    BY <1>2 DEF CopiedCell
  <2>3. Slots(cell) = DOMAIN es /\ \A k : HeldIn(cell, k) = es[k]
    BY <1>2 DEF Slots, HeldIn
  <2>4. \A i \in DOMAIN es : es[i] \in Value
    BY <2>1
  <2>5. \A i \in DOMAIN es : fs[i] \in Value
    <3> SUFFICES ASSUME NEW i \in DOMAIN es PROVE Renamed(ren, es[i]) \in Value
      OBVIOUS
    <3>1. \A t, a : PointsTo(es[i], t, a) => ren[a] \in Int
      BY <2>3 DEF CellOwns
    <3> QED
      BY <2>4, <3>1, RenamedIs
  <2>6. fs \in Seq(Value)
    <3>1. Len(es) \in Nat /\ DOMAIN es = 1 .. Len(es)
      BY <2>1
    <3> HIDE DEF es
    <3>2. fs = [i \in 1 .. Len(es) |-> fs[i]] /\ \A i \in 1 .. Len(es) : fs[i] \in Value
      BY <2>5, <3>1
    <3> HIDE DEF fs
    <3> QED
      BY <3>1, <3>2
  <2>7. DOMAIN fs = DOMAIN es /\ \A k \in DOMAIN es : fs[k] = Renamed(ren, es[k])
    OBVIOUS
  <2> HIDE DEF fs
  <2>8. /\ ArrayOf(fs).kind = "array" /\ IsCell(ArrayOf(fs))
        /\ Slots(ArrayOf(fs)) = DOMAIN fs /\ \A k : HeldIn(ArrayOf(fs), k) = fs[k]
    BY <2>6, ArrayCell
  <2> HIDE DEF es
  <2> QED
    BY <1>2, <2>2, <2>3, <2>4, <2>7, <2>8
<1>3. CASE cell.kind = "object"
  <2>1. cell = ObjectOf(cell.members) /\ cell.members \in [DOMAIN cell.members -> Value]
    BY <1>3 DEF IsCell, Free
  <2> DEFINE ms == cell.members
             fs == [k \in DOMAIN ms |-> Renamed(ren, ms[k])]
  <2>2. CopiedCell(ren, cell) = ObjectOf(fs)
    BY <1>3 DEF CopiedCell
  <2>3. Slots(cell) = DOMAIN ms /\ \A k : HeldIn(cell, k) = ms[k]
    BY <1>3 DEF Slots, HeldIn
  <2>4. \A i \in DOMAIN ms : ms[i] \in Value
    BY <2>1
  <2>5. \A i \in DOMAIN ms : fs[i] \in Value
    <3> SUFFICES ASSUME NEW i \in DOMAIN ms PROVE Renamed(ren, ms[i]) \in Value
      OBVIOUS
    <3>1. \A t, a : PointsTo(ms[i], t, a) => ren[a] \in Int
      BY <2>3 DEF CellOwns
    <3> QED
      BY <2>4, <3>1, RenamedIs
  <2>6. fs \in [DOMAIN fs -> Value] /\ DOMAIN fs = DOMAIN ms
        /\ \A k \in DOMAIN ms : fs[k] = Renamed(ren, ms[k])
    BY <2>5
  <2> HIDE DEF fs
  <2>8. /\ ObjectOf(fs).kind = "object" /\ IsCell(ObjectOf(fs))
        /\ Slots(ObjectOf(fs)) = DOMAIN fs /\ \A k : HeldIn(ObjectOf(fs), k) = fs[k]
    BY <2>6, ObjectCell
  <2> HIDE DEF ms
  <2> QED
    BY <1>3, <2>2, <2>3, <2>4, <2>6, <2>8
<1> QED
  BY <1>1, <1>2, <1>3 DEF IsCell

(* A value that has a place is copied, and a root owns the copy. *)
LEMMA CopyKept ==
    ASSUME NEW h, NEW r, Kept(h, r), NEW v \in Value, Copyable(h, v),
           NEW b0, \A t, a : PointsTo(v, t, a) => Owns(h, r, b0, t, a),
           NEW x, x \notin DOMAIN r
    PROVE  LET copy == Copied(h, v)
           IN  /\ copy.value \in Value /\ copy.value.m_type = v.m_type
               /\ Kept(copy.heap, With(r, x, copy.value))
               /\ \A a \in There(h) : a \in There(copy.heap) /\ copy.heap[a] = h[a]
<1> DEFINE G == Reach(h, {v})
           ren == Renames(h, v)
           h1 == Copied(h, v).heap
           v1 == Copied(h, v).value
           V == Owned({v})
           w == With(r, x, v1)
<1>0. IsHeap(h) /\ IsRoots(r) /\ RootsOnce(r) /\ Graph(h, r)
  BY DEF Kept
<1>1. /\ DOMAIN ren = G
      /\ \A a \in G : ren[a] \in Addresses /\ h[ren[a]] = Free
      /\ \A a, b \in G : ren[a] = ren[b] => a = b
  BY RenamesApart
<1>2. G \subseteq There(h)
  BY ReachParts
<1>3. /\ v1 = Renamed(ren, v)
      /\ h1 = [a \in Addresses |->
                 IF \E b \in DOMAIN ren : ren[b] = a
                 THEN CopiedCell(ren, h[CHOOSE b \in DOMAIN ren : ren[b] = a])
                 ELSE h[a]]
  BY CopiedIs
<1>4. \A a : a \in V <=> \E t : PointsTo(v, t, a)
  BY OwnedIs
<1>5. /\ PartOf(h, r, b0, V, G)
      /\ \A S \in SUBSET G :
            V \subseteq S /\ (\A b \in S : \A t, a : Owns(h, r, b, t, a) => a \in S)
               => G \subseteq S
  <2>1. \A a \in V : \E t : Owns(h, r, b0, t, a)
    BY <1>4
  <2> HIDE DEF V
  <2> QED
    BY <1>0, <2>1, ReachIsPart DEF V
<1> HIDE DEF G, ren, h1, v1, V, w
<1>6. \A a \in G : ren[a] \notin There(h) /\ ren[a] # 0 /\ ren[a] \in Int /\ a # 0
  <2> SUFFICES ASSUME NEW a \in G
               PROVE  ren[a] \notin There(h) /\ ren[a] # 0 /\ ren[a] \in Int /\ a # 0
    OBVIOUS
  <2>1. ren[a] \in Addresses /\ h[ren[a]] = Free /\ a \in Addresses
    BY <1>1, <1>2 DEF There
  <2>2. ren[a] \notin There(h)
    BY <2>1 DEF There
  <2>3. \A c \in Addresses : c # 0 /\ c \in Int
    BY ZeroIsNone
  <2> QED
    BY <2>1, <2>2, <2>3
<1>7. \A t, a : PointsTo(v, t, a) => a \in G
  BY <1>4, <1>5 DEF PartOf
<1>8. \A b \in G : \A t, a : CellOwns(h[b], t, a) => a \in G
  <2> SUFFICES ASSUME NEW b \in G, NEW t, NEW a, CellOwns(h[b], t, a) PROVE a \in G
    OBVIOUS
  <2>1. Owns(h, r, b, t, a)
    BY <1>2 DEF Owns, There
  <2> QED
    BY <1>5, <2>1 DEF PartOf
<1>9. /\ v1 \in Value /\ v1.m_type = v.m_type
      /\ \A t, a : PointsTo(v1, t, a) <=> \E y : PointsTo(v, t, y) /\ a = ren[y]
  BY <1>3, <1>6, <1>7, RenamedIs
<1>10. DOMAIN h1 = Addresses
  BY <1>3
<1>11. ASSUME NEW b \in G PROVE h1[ren[b]] = CopiedCell(ren, h[b])
  <2>1. (CHOOSE c \in DOMAIN ren : ren[c] = ren[b]) = b
    BY <1>1
  <2> QED
    BY <1>1, <1>3, <2>1
<1>12. ASSUME NEW a \in Addresses, \A b \in G : ren[b] # a PROVE h1[a] = h[a]
  BY <1>1, <1>3, <1>12
<1>13. \A a \in There(h) : h1[a] = h[a]
  BY <1>6, <1>12 DEF There
<1>14. ASSUME NEW b \in G
       PROVE  /\ IsCell(h1[ren[b]]) /\ h1[ren[b]].kind = h[b].kind /\ h1[ren[b]] # Free
              /\ \A t, a : CellOwns(h1[ren[b]], t, a) <=>
                               \E y : CellOwns(h[b], t, y) /\ a = ren[y]
              /\ CellOnce(h1[ren[b]])
  <2> DEFINE cell == h[b]
             cell1 == h1[ren[b]]
  <2>1. cell1 = CopiedCell(ren, cell)
    BY <1>11
  <2>2. IsCell(cell) /\ cell # Free /\ cell.kind \in Allocated /\ CellOnce(cell)
    BY <1>0, <1>2, KindsAre DEF Kept
  <2> HIDE DEF cell, cell1
  <2>3. \A t, a : CellOwns(cell, t, a) => a \in G /\ ren[a] \in Int
    BY <1>6, <1>8 DEF cell
  <2>4. /\ IsCell(cell1) /\ cell1.kind = cell.kind
        /\ \A k : k \in Slots(cell1) <=> k \in Slots(cell)
        /\ \A k \in Slots(cell) : HeldIn(cell, k) \in Value
                                   /\ HeldIn(cell1, k) = Renamed(ren, HeldIn(cell, k))
    BY <2>1, <2>2, <2>3, CopiedCellIs
  <2>5. ASSUME NEW k \in Slots(cell), NEW t, NEW a
        PROVE  PointsTo(HeldIn(cell1, k), t, a) <=>
                   \E y : PointsTo(HeldIn(cell, k), t, y) /\ a = ren[y]
    <3>1. \A s, y : PointsTo(HeldIn(cell, k), s, y) => ren[y] \in Int
      BY <2>3 DEF CellOwns
    <3> QED
      BY <2>4, <3>1, RenamedIs
  <2>6. \A t, a : CellOwns(cell1, t, a) <=> \E y : CellOwns(cell, t, y) /\ a = ren[y]
    BY <2>4, <2>5 DEF CellOwns
  <2>7. CellOnce(cell1)
    <3> SUFFICES ASSUME NEW k \in Slots(cell), NEW l \in Slots(cell), NEW t, NEW u, NEW a,
                        PointsTo(HeldIn(cell1, k), t, a), PointsTo(HeldIn(cell1, l), u, a)
                 PROVE  k = l
      BY <2>4 DEF CellOnce
    <3>1. PICK y : PointsTo(HeldIn(cell, k), t, y) /\ a = ren[y]
      BY <2>5
    <3>2. PICK z : PointsTo(HeldIn(cell, l), u, z) /\ a = ren[z]
      BY <2>5
    <3>3. y \in G /\ z \in G
      BY <2>3, <3>1, <3>2 DEF CellOwns
    <3>4. y = z
      BY <1>1, <3>1, <3>2, <3>3
    <3> QED
      BY <2>2, <3>1, <3>2, <3>4 DEF CellOnce
  <2>8. cell1 # Free
    BY <2>2, <2>4 DEF Free, Allocated
  <2> QED
    BY <2>4, <2>6, <2>7, <2>8 DEF cell, cell1
<1>15. IsHeap(h1)
  <2> SUFFICES ASSUME NEW a \in Addresses PROVE IsCell(h1[a])
    BY <1>10 DEF IsHeap
  <2> QED
    BY <1>0, <1>12, <1>14 DEF IsHeap
<1>16. There(h1) = There(h) \cup {ren[a] : a \in G}
  <2> SUFFICES ASSUME NEW a \in Addresses
               PROVE  h1[a] # Free <=> h[a] # Free \/ \E b \in G : a = ren[b]
    BY <1>1 DEF There
  <2> QED
    BY <1>12, <1>14
<1>17. \A t, u, a : RootOwns(r, t, a) => ~PointsTo(v1, u, a)
  <2> SUFFICES ASSUME NEW t, NEW u, NEW a, RootOwns(r, t, a), PointsTo(v1, u, a) PROVE FALSE
    OBVIOUS
  <2>1. a \in There(h)
    BY <1>0 DEF Graph, Sound, Owns
  <2> QED
    BY <1>6, <1>7, <1>9, <2>1
<1>18. IsRoots(w) /\ RootsOnce(w)
       /\ \A t, a : RootOwns(w, t, a) <=> RootOwns(r, t, a) \/ PointsTo(v1, t, a)
  BY <1>0, <1>9, <1>17, WithRoot DEF w
<1>19. ASSUME NEW b, NEW t, NEW a
       PROVE  Owns(h1, w, b, t, a) <=>
                  \/ Owns(h, r, b, t, a)
                  \/ b = 0 /\ \E y \in G : PointsTo(v, t, y) /\ a = ren[y]
                  \/ \E y, z \in G : b = ren[y] /\ Owns(h, r, y, t, z) /\ a = ren[z]
  <2>1. CASE b = 0
    <3>1. Owns(h1, w, b, t, a) <=> RootOwns(w, t, a)
      BY <2>1, ZeroIsNone DEF Owns
    <3>2. Owns(h, r, b, t, a) <=> RootOwns(r, t, a)
      BY <2>1, ZeroIsNone DEF Owns
    <3>3. \A y \in G : b # ren[y]
      BY <1>6, <2>1
    <3>4. PointsTo(v1, t, a) <=> \E y \in G : PointsTo(v, t, y) /\ a = ren[y]
      BY <1>7, <1>9
    <3> QED
      BY <1>18, <2>1, <3>1, <3>2, <3>3, <3>4
  <2>2. CASE \E y \in G : b = ren[y]
    <3>1. PICK y \in G : b = ren[y]
      BY <2>2
    <3>2. b \in Addresses /\ b # 0 /\ h[b] = Free
      BY <1>1, <1>6, <3>1
    <3>3. ~Owns(h, r, b, t, a)
      BY <3>2, FreeOwnsNothing DEF Owns
    <3>4. Owns(h1, w, b, t, a) <=> CellOwns(h1[ren[y]], t, a)
      BY <3>1, <3>2 DEF Owns
    <3>5. CellOwns(h1[ren[y]], t, a) <=> \E z : CellOwns(h[y], t, z) /\ a = ren[z]
      <4>1. \A s, e : CellOwns(h1[ren[y]], s, e) <=> \E z : CellOwns(h[y], s, z) /\ e = ren[z]
        BY <1>14
      <4> QED
        BY <4>1
    <3>6. \A z : CellOwns(h[y], t, z) <=> z \in G /\ Owns(h, r, y, t, z)
      BY <1>2, <1>6, <1>8 DEF Owns, There
    <3>7. \A c \in G : b = ren[c] => c = y
      BY <1>1, <3>1
    <3> QED
      BY <3>1, <3>2, <3>3, <3>4, <3>5, <3>6, <3>7
  <2>3. CASE b \in Addresses /\ b # 0 /\ \A y \in G : b # ren[y]
    BY <1>12, <2>3 DEF Owns
  <2>4. CASE b \notin Addresses /\ b # 0
    BY <1>1, <2>4 DEF Owns
  <2> QED
    BY <2>1, <2>2, <2>3, <2>4
<1>20. Doubled(h, r, h1, w, v, G, ren)
  <2>1. \A a \in There(h) : h1[a].kind = h[a].kind
    BY <1>13
  <2>2. \A a \in G : h1[ren[a]].kind = h[a].kind
    BY <1>14
  <2> QED
    BY <1>1, <1>6, <1>16, <1>19, <2>1, <2>2 DEF Doubled
<1>21. Graph(h1, w)
  <2>1. \A S \in SUBSET G : (\A t, a : PointsTo(v, t, a) => a \in S)
                               /\ (\A b \in S : \A t, a : Owns(h, r, b, t, a) => a \in S)
                            => G \subseteq S
    BY <1>4, <1>5
  <2>2. PartOf(h, r, b0, V, G) /\ \A a \in G : a # 0 /\ ren[a] # 0
    BY <1>5, <1>6
  <2> QED
    BY <1>0, <1>4, <1>20, <2>1, <2>2, DoubledGraph
<1>22. \A a \in There(h1) : CellOnce(h1[a])
  <2> SUFFICES ASSUME NEW a \in There(h1) PROVE CellOnce(h1[a])
    OBVIOUS
  <2>1. CASE a \in There(h)
    BY <1>13, <2>1 DEF Kept
  <2>2. CASE \E b \in G : a = ren[b]
    BY <1>14, <2>2
  <2> QED
    BY <1>16, <2>1, <2>2
<1>23. Kept(h1, w)
  BY <1>15, <1>18, <1>21, <1>22 DEF Kept
<1> QED
  BY <1>9, <1>13, <1>16, <1>23 DEF h1, v1, w

-----------------------------------------------------------------------------
(* Cells, one value more or less. *)

PlainValue(v) == \A t, a : ~PointsTo(v, t, a)

LEMMA NullIsPlain == Null \in Value /\ PlainValue(Null)
BY DEF Null, json, Value, Plain, PlainValue, PointsTo, Allocated

(* v is put where nothing was owned. *)
LEMMA SlotFilled ==
    ASSUME NEW cell, NEW cell1, NEW l, NEW v, CellOnce(cell),
           \A t, u, a : CellOwns(cell, t, a) => ~PointsTo(v, u, a),
           l \in Slots(cell) => PlainValue(HeldIn(cell, l)),
           \A k : k \in Slots(cell1) <=> k \in Slots(cell) \/ k = l,
           HeldIn(cell1, l) = v,
           \A k \in Slots(cell) : k # l => HeldIn(cell1, k) = HeldIn(cell, k)
    PROVE  /\ \A t, a : CellOwns(cell1, t, a) <=> CellOwns(cell, t, a) \/ PointsTo(v, t, a)
           /\ CellOnce(cell1)
<1>1. \A t, a : CellOwns(cell1, t, a) <=> CellOwns(cell, t, a) \/ PointsTo(v, t, a)
  BY DEF CellOwns, PlainValue
<1>2. CellOnce(cell1)
  <2> SUFFICES ASSUME NEW k \in Slots(cell1), NEW j \in Slots(cell1), NEW t, NEW u, NEW a,
                      PointsTo(HeldIn(cell1, k), t, a), PointsTo(HeldIn(cell1, j), u, a)
               PROVE  k = j
    BY DEF CellOnce
  <2>1. CASE k # l /\ j # l
    BY <2>1 DEF CellOnce
  <2>2. CASE k = l /\ j # l
    <3>1. CellOwns(cell, u, a)
      BY <2>2 DEF CellOwns
    <3> QED
      BY <2>2, <3>1
  <2>3. CASE k # l /\ j = l
    <3>1. CellOwns(cell, t, a)
      BY <2>3 DEF CellOwns
    <3> QED
      BY <2>3, <3>1
  <2> QED
    BY <2>1, <2>2, <2>3
<1> QED
  BY <1>1, <1>2

(* What was at l is there no more; there may be more places that own nothing. *)
LEMMA SlotEmptied ==
    ASSUME NEW cell, NEW cell1, NEW l, NEW v, CellOnce(cell),
           IF l \in Slots(cell) THEN v = HeldIn(cell, l) ELSE PlainValue(v),
           l \in Slots(cell1) => PlainValue(HeldIn(cell1, l)),
           \A k : k # l =>
               IF k \in Slots(cell) THEN k \in Slots(cell1) /\ HeldIn(cell1, k) = HeldIn(cell, k)
               ELSE k \in Slots(cell1) => PlainValue(HeldIn(cell1, k))
    PROVE  /\ \A t, a : CellOwns(cell1, t, a) <=> CellOwns(cell, t, a) /\ ~PointsTo(v, t, a)
           /\ CellOnce(cell1)
<1>1. ASSUME NEW k \in Slots(cell1), NEW t, NEW a, PointsTo(HeldIn(cell1, k), t, a)
      PROVE  k \in Slots(cell) /\ k # l /\ HeldIn(cell, k) = HeldIn(cell1, k)
  BY <1>1 DEF PlainValue
<1>2. ASSUME NEW t, NEW a
      PROVE  CellOwns(cell1, t, a) <=> CellOwns(cell, t, a) /\ ~PointsTo(v, t, a)
  <2>1. ASSUME CellOwns(cell1, t, a) PROVE CellOwns(cell, t, a) /\ ~PointsTo(v, t, a)
    <3>1. PICK k \in Slots(cell1) : PointsTo(HeldIn(cell1, k), t, a)
      BY <2>1 DEF CellOwns
    <3>2. k \in Slots(cell) /\ k # l /\ PointsTo(HeldIn(cell, k), t, a)
      BY <1>1, <3>1
    <3>3. ~PointsTo(v, t, a)
      BY <3>2 DEF CellOnce, PlainValue
    <3> QED
      BY <3>2, <3>3 DEF CellOwns
  <2>2. ASSUME CellOwns(cell, t, a), ~PointsTo(v, t, a) PROVE CellOwns(cell1, t, a)
    <3>1. PICK k \in Slots(cell) : PointsTo(HeldIn(cell, k), t, a)
      BY <2>2 DEF CellOwns
    <3>2. k # l
      BY <2>2, <3>1
    <3> QED
      BY <3>1, <3>2 DEF CellOwns
  <2> QED
    BY <2>1, <2>2
<1>3. CellOnce(cell1)
  BY <1>1 DEF CellOnce
<1> QED
  BY <1>2, <1>3

(* v is put in before the n-th element, or at the end. *)
ElementIn(es, n, v, fs) ==
    /\ n \in 1 .. Len(es) + 1 /\ fs \in Seq(Value) /\ Len(fs) = Len(es) + 1
    /\ \A i \in 1 .. Len(es) + 1 :
          fs[i] = IF i < n THEN es[i] ELSE IF i = n THEN v ELSE es[i - 1]

(* An array with one more element owns what that element does. *)
LEMMA ElementInserted ==
    ASSUME NEW es \in Seq(Value), NEW n, NEW v \in Value, CellOnce(ArrayOf(es)),
           \A t, u, a : CellOwns(ArrayOf(es), t, a) => ~PointsTo(v, u, a),
           NEW fs, ElementIn(es, n, v, fs)
    PROVE  /\ \A t, a : CellOwns(ArrayOf(fs), t, a) <=>
                            CellOwns(ArrayOf(es), t, a) \/ PointsTo(v, t, a)
           /\ CellOnce(ArrayOf(fs))
<1> DEFINE m == Len(es)
           from(i) == IF i < n THEN i ELSE i - 1
<1>0. m \in Nat /\ n \in Nat /\ n >= 1 /\ n <= m + 1 /\ DOMAIN es = 1 .. m /\ DOMAIN fs = 1 .. m + 1
  BY DEF ElementIn
<1>1. /\ Slots(ArrayOf(es)) = 1 .. m /\ \A k : HeldIn(ArrayOf(es), k) = es[k]
      /\ Slots(ArrayOf(fs)) = 1 .. m + 1 /\ \A k : HeldIn(ArrayOf(fs), k) = fs[k]
  BY <1>0, ArrayCell
<1>2. \A i \in 1 .. m + 1 : fs[i] = IF i < n THEN es[i] ELSE IF i = n THEN v ELSE es[i - 1]
  BY DEF ElementIn
<1> HIDE DEF m
<1>3. \A i \in 1 .. m + 1 : i # n => from(i) \in 1 .. m /\ fs[i] = es[from(i)]
  BY <1>0, <1>2
<1>4. \A i, j \in 1 .. m + 1 : i # n /\ j # n /\ from(i) = from(j) => i = j
  BY <1>0
<1>5. \A k \in 1 .. m : \E i \in 1 .. m + 1 : i # n /\ from(i) = k
  <2> SUFFICES ASSUME NEW k \in 1 .. m PROVE \E i \in 1 .. m + 1 : i # n /\ from(i) = k
    OBVIOUS
  <2>1. CASE k < n
    <3>1. k \in 1 .. m + 1 /\ k # n /\ from(k) = k
      BY <1>0, <2>1
    <3> QED
      BY <3>1
  <2>2. CASE k >= n
    <3>1. k + 1 \in 1 .. m + 1 /\ k + 1 # n /\ from(k + 1) = k
      BY <1>0, <2>2
    <3> HIDE DEF from
    <3> QED
      BY <3>1
  <2> QED
    BY <1>0, <2>1, <2>2
<1>6. n \in 1 .. m + 1 /\ fs[n] = v
  BY <1>0, <1>2
<1> HIDE DEF from
<1>7. ASSUME NEW t, NEW a
      PROVE  CellOwns(ArrayOf(fs), t, a) <=> CellOwns(ArrayOf(es), t, a) \/ PointsTo(v, t, a)
  <2>1. ASSUME NEW i \in 1 .. m + 1, PointsTo(fs[i], t, a)
        PROVE  (\E k \in 1 .. m : PointsTo(es[k], t, a)) \/ PointsTo(v, t, a)
    BY <1>3, <1>6, <2>1
  <2>2. ASSUME NEW k \in 1 .. m, PointsTo(es[k], t, a)
        PROVE  \E i \in 1 .. m + 1 : PointsTo(fs[i], t, a)
    <3>1. PICK i \in 1 .. m + 1 : i # n /\ from(i) = k
      BY <1>5
    <3>2. fs[i] = es[k]
      BY <1>3, <3>1
    <3> QED
      BY <2>2, <3>2
  <2> QED
    BY <1>1, <1>6, <2>1, <2>2 DEF CellOwns
<1>8. CellOnce(ArrayOf(fs))
  <2> SUFFICES ASSUME NEW i \in Slots(ArrayOf(fs)), NEW j \in Slots(ArrayOf(fs)),
                      NEW t, NEW u, NEW a,
                      PointsTo(HeldIn(ArrayOf(fs), i), t, a), PointsTo(HeldIn(ArrayOf(fs), j), u, a)
               PROVE  i = j
    BY DEF CellOnce
  <2>0. i \in 1 .. m + 1 /\ j \in 1 .. m + 1 /\ PointsTo(fs[i], t, a) /\ PointsTo(fs[j], u, a)
    BY <1>1
  <2>1. CASE i # n /\ j # n
    <3>1. from(i) = from(j)
      BY <1>1, <1>3, <2>0, <2>1 DEF CellOnce
    <3> QED
      BY <1>4, <2>0, <2>1, <3>1
  <2>2. CASE i = n /\ j # n
    <3>1. CellOwns(ArrayOf(es), u, a)
      BY <1>1, <1>3, <2>0, <2>2 DEF CellOwns
    <3> QED
      BY <1>6, <2>0, <2>2, <3>1
  <2>3. CASE i # n /\ j = n
    <3>1. CellOwns(ArrayOf(es), t, a)
      BY <1>1, <1>3, <2>0, <2>3 DEF CellOwns
    <3> QED
      BY <1>6, <2>0, <2>3, <3>1
  <2> QED
    BY <2>1, <2>2, <2>3
<1> QED
  BY <1>7, <1>8

(* The n-th element is taken out. *)
ElementOut(es, n, fs) ==
    /\ n \in 1 .. Len(es) /\ fs \in Seq(Value) /\ Len(fs) = Len(es) - 1
    /\ \A i \in 1 .. Len(es) - 1 : fs[i] = IF i < n THEN es[i] ELSE es[i + 1]

(* An array with one element less. *)
LEMMA ElementRemoved ==
    ASSUME NEW es \in Seq(Value), NEW n, CellOnce(ArrayOf(es)),
           NEW fs, ElementOut(es, n, fs)
    PROVE  /\ \A t, a : CellOwns(ArrayOf(fs), t, a) <=>
                            CellOwns(ArrayOf(es), t, a) /\ ~PointsTo(es[n], t, a)
           /\ CellOnce(ArrayOf(fs))
<1> DEFINE m == Len(es)
           from(i) == IF i < n THEN i ELSE i + 1
<1>0. m \in Nat /\ n \in Nat /\ n >= 1 /\ n <= m /\ DOMAIN es = 1 .. m /\ DOMAIN fs = 1 .. m - 1
  BY DEF ElementOut
<1>1. /\ Slots(ArrayOf(es)) = 1 .. m /\ \A k : HeldIn(ArrayOf(es), k) = es[k]
      /\ Slots(ArrayOf(fs)) = 1 .. m - 1 /\ \A k : HeldIn(ArrayOf(fs), k) = fs[k]
  BY <1>0, ArrayCell
<1>2. \A i \in 1 .. m - 1 : fs[i] = IF i < n THEN es[i] ELSE es[i + 1]
  BY DEF ElementOut
<1> HIDE DEF m
<1>3. \A i \in 1 .. m - 1 : from(i) \in 1 .. m /\ from(i) # n /\ fs[i] = es[from(i)]
  BY <1>0, <1>2
<1>4. \A i, j \in 1 .. m - 1 : from(i) = from(j) => i = j
  BY <1>0
<1>5. \A k \in 1 .. m : k # n => \E i \in 1 .. m - 1 : from(i) = k
  <2> SUFFICES ASSUME NEW k \in 1 .. m, k # n PROVE \E i \in 1 .. m - 1 : from(i) = k
    OBVIOUS
  <2>1. CASE k < n
    <3>1. k \in 1 .. m - 1 /\ from(k) = k
      BY <1>0, <2>1
    <3> QED
      BY <3>1
  <2>2. CASE k > n
    <3>1. k - 1 \in 1 .. m - 1 /\ from(k - 1) = k
      BY <1>0, <2>2
    <3> HIDE DEF from
    <3> QED
      BY <3>1
  <2> QED
    BY <1>0, <2>1, <2>2
<1>6. n \in 1 .. m
  BY <1>0
<1> HIDE DEF from
<1>7. ASSUME NEW t, NEW a
      PROVE  CellOwns(ArrayOf(fs), t, a) <=>
                 CellOwns(ArrayOf(es), t, a) /\ ~PointsTo(es[n], t, a)
  <2>1. ASSUME NEW i \in 1 .. m - 1, PointsTo(fs[i], t, a)
        PROVE  (\E k \in 1 .. m : PointsTo(es[k], t, a)) /\ ~PointsTo(es[n], t, a)
    <3>1. from(i) \in 1 .. m /\ from(i) # n /\ PointsTo(es[from(i)], t, a)
      BY <1>3, <2>1
    <3> QED
      BY <1>1, <1>6, <3>1 DEF CellOnce
  <2>2. ASSUME NEW k \in 1 .. m, PointsTo(es[k], t, a), ~PointsTo(es[n], t, a)
        PROVE  \E i \in 1 .. m - 1 : PointsTo(fs[i], t, a)
    <3>1. PICK i \in 1 .. m - 1 : from(i) = k
      BY <1>5, <2>2
    <3>2. fs[i] = es[k]
      BY <1>3, <3>1
    <3> QED
      BY <2>2, <3>2
  <2> QED
    BY <1>1, <2>1, <2>2 DEF CellOwns
<1>8. CellOnce(ArrayOf(fs))
  <2> SUFFICES ASSUME NEW i \in Slots(ArrayOf(fs)), NEW j \in Slots(ArrayOf(fs)),
                      NEW t, NEW u, NEW a,
                      PointsTo(HeldIn(ArrayOf(fs), i), t, a), PointsTo(HeldIn(ArrayOf(fs), j), u, a)
               PROVE  i = j
    BY DEF CellOnce
  <2>0. i \in 1 .. m - 1 /\ j \in 1 .. m - 1 /\ PointsTo(fs[i], t, a) /\ PointsTo(fs[j], u, a)
    BY <1>1
  <2>1. from(i) = from(j)
    BY <1>1, <1>3, <2>0 DEF CellOnce
  <2> QED
    BY <1>4, <2>0, <2>1
<1> QED
  BY <1>7, <1>8

-----------------------------------------------------------------------------
(* Roots that come, go and change. *)

(* Roots are added in any order, and ... *)
LEMMA WithSwap ==
    ASSUME NEW r, NEW x, NEW y, x # y, NEW v, NEW w
    PROVE  With(With(r, x, v), y, w) = With(With(r, y, w), x, v)
<1>1. DOMAIN With(r, x, v) = DOMAIN r \cup {x} /\ DOMAIN With(r, y, w) = DOMAIN r \cup {y}
  BY DEF With
<1>2. \A k \in DOMAIN r \cup {x} : With(r, x, v)[k] = IF k = x THEN v ELSE r[k]
  BY DEF With
<1>3. \A k \in DOMAIN r \cup {y} : With(r, y, w)[k] = IF k = y THEN w ELSE r[k]
  BY DEF With
<1>4. With(With(r, x, v), y, w) =
        [k \in (DOMAIN r \cup {x}) \cup {y} |-> IF k = y THEN w ELSE With(r, x, v)[k]]
  BY <1>1 DEF With
<1>5. With(With(r, y, w), x, v) =
        [k \in (DOMAIN r \cup {y}) \cup {x} |-> IF k = x THEN v ELSE With(r, y, w)[k]]
  BY <1>1 DEF With
<1>6. (DOMAIN r \cup {x}) \cup {y} = (DOMAIN r \cup {y}) \cup {x}
  OBVIOUS
<1> QED
  BY <1>2, <1>3, <1>4, <1>5, <1>6

(* ... beside an assignment to another. *)
LEMMA WithExcept ==
    ASSUME NEW r, NEW x, x \notin DOMAIN r, NEW v, NEW i \in DOMAIN r, NEW w
    PROVE  [With(r, x, v) EXCEPT ![i] = w] = With([r EXCEPT ![i] = w], x, v)
BY DEF With

(* A root that owns nothing makes no difference. *)
LEMMA PlainRoot ==
    ASSUME NEW h, NEW r, IsRoots(r), NEW x, x \notin DOMAIN r, NEW v \in Value, PlainValue(v)
    PROVE  Kept(h, r) <=> Kept(h, With(r, x, v))
<1>1. /\ IsRoots(With(r, x, v))
      /\ \A t, a : RootOwns(With(r, x, v), t, a) <=> RootOwns(r, t, a)
      /\ RootsOnce(With(r, x, v)) <=> RootsOnce(r)
  BY WithRoot DEF PlainValue
<1> QED
  BY <1>1, RootsKept DEF Kept

(* A root i takes the value of another, x, whose value is then its own. *)
LEMMA RootsSwapped ==
    ASSUME NEW h, NEW r, IsRoots(r), NEW x, x \notin DOMAIN r, NEW v \in Value,
           Kept(h, With(r, x, v)), NEW i \in DOMAIN r
    PROVE  /\ IsRoots([r EXCEPT ![i] = v]) /\ r[i] \in Value
           /\ Kept(h, With([r EXCEPT ![i] = v], x, r[i]))
<1> DEFINE w == With(r, x, v)
           s == [r EXCEPT ![i] = v]
           w1 == With(s, x, r[i])
<1>1. r[i] \in Value /\ IsRoots(s) /\ DOMAIN s = DOMAIN r /\ s[i] = v
      /\ \A j \in DOMAIN r : j # i => s[j] = r[j]
  BY DEF IsRoots
<1>4. Kept(h, w) /\ RootsOnce(w)
  BY DEF Kept
<1>3. DOMAIN w = DOMAIN r \cup {x} /\ w[x] = v /\ \A j \in DOMAIN r : w[j] = r[j]
  BY DEF With
<1> HIDE DEF w, s
<1>2. IsRoots(w1) /\ DOMAIN w1 = DOMAIN r \cup {x} /\ w1[x] = r[i]
      /\ \A j \in DOMAIN r : w1[j] = s[j]
  <2>1. x \notin DOMAIN s
    BY <1>1
  <2>2. IsRoots(w1)
    BY <1>1, <2>1, WithRoot
  <2>3. DOMAIN w1 = DOMAIN s \cup {x} /\ w1[x] = r[i]
        /\ \A j \in DOMAIN s : j # x => w1[j] = s[j]
    BY DEF With
  <2> HIDE DEF w1
  <2> QED
    BY <1>1, <2>1, <2>2, <2>3
<1> HIDE DEF w1
<1> DEFINE other(j) == IF j = i THEN x ELSE IF j = x THEN i ELSE j
<1>5. \A j \in DOMAIN w1 : other(j) \in DOMAIN w /\ w1[j] = w[other(j)]
  BY <1>1, <1>2, <1>3
<1>6. \A j \in DOMAIN w : other(j) \in DOMAIN w1 /\ w[j] = w1[other(j)]
  BY <1>1, <1>2, <1>3
<1>7. \A j, k : other(j) = other(k) => j = k
  OBVIOUS
<1> HIDE DEF other
<1>8. \A t, a : RootOwns(w1, t, a) <=> RootOwns(w, t, a)
  BY <1>5, <1>6 DEF RootOwns
<1>9. RootsOnce(w1)
  <2> SUFFICES ASSUME NEW j \in DOMAIN w1, NEW k \in DOMAIN w1, NEW t, NEW u, NEW a,
                      PointsTo(w1[j], t, a), PointsTo(w1[k], u, a)
               PROVE  j = k
    BY DEF RootsOnce
  <2>1. other(j) = other(k)
    BY <1>4, <1>5 DEF RootsOnce
  <2> QED
    BY <1>7, <2>1
<1>10. Kept(h, w1)
  BY <1>2, <1>4, <1>8, <1>9, RootsKept
<1> QED
  BY <1>1, <1>10 DEF s, w1

(* A root is assigned to: its old value is destroyed. *)
LEMMA AssignKept ==
    ASSUME NEW h, NEW r, IsRoots(r), NEW x, x \notin DOMAIN r, NEW v \in Value,
           Kept(h, With(r, x, v)), NEW i \in DOMAIN r
    PROVE  /\ Kept(Destroyed(h, r[i]), [r EXCEPT ![i] = v])
<1>1. /\ IsRoots([r EXCEPT ![i] = v]) /\ r[i] \in Value
      /\ Kept(h, With([r EXCEPT ![i] = v], x, r[i]))
  BY RootsSwapped
<1>2. x \notin DOMAIN [r EXCEPT ![i] = v]
  OBVIOUS
<1> QED
  BY <1>1, <1>2, DestroyKept

-----------------------------------------------------------------------------
(* Cells of roots. *)

(* The cell a root points to. *)
LEMMA RootCell ==
    ASSUME NEW h, NEW r, Kept(h, r), NEW i \in DOMAIN r, r[i].m_type \in Allocated
    PROVE  LET c == r[i].m_value
           IN  /\ r[i] \in Value
               /\ RootOwns(r, r[i].m_type, c) /\ Owns(h, r, 0, r[i].m_type, c)
               /\ c \in There(h) /\ c \in Addresses /\ h[c].kind = r[i].m_type
               /\ IsCell(h[c]) /\ CellOnce(h[c]) /\ DOMAIN h = Addresses
<1> DEFINE c == r[i].m_value
           u == r[i].m_type
<1>1. RootOwns(r, u, c)
  BY DEF RootOwns, PointsTo
<1>2. Owns(h, r, 0, u, c)
  BY <1>1 DEF Owns
<1>3. r[i] \in Value
  BY DEF Kept, IsRoots
<1> HIDE DEF c, u
<1>4. c \in There(h) /\ h[c].kind = u
  BY <1>2 DEF Kept, Graph, Sound
<1>5. IsCell(h[c]) /\ c \in Addresses
  BY <1>4, KindsAre DEF Kept
<1>6. CellOnce(h[c]) /\ DOMAIN h = Addresses
  BY <1>4 DEF Kept, IsHeap
<1> QED
  BY <1>1, <1>2, <1>3, <1>4, <1>5, <1>6 DEF c, u

(* Cells that are arrays, and objects. *)
LEMMA ArrayIs ==
    ASSUME NEW cell, IsCell(cell), cell.kind = "array"
    PROVE  /\ cell = ArrayOf(cell.elements) /\ cell.elements \in Seq(Value)
           /\ Slots(cell) = DOMAIN cell.elements /\ \A k : HeldIn(cell, k) = cell.elements[k]
BY DEF IsCell, Free, Slots, HeldIn

LEMMA ObjectIs ==
    ASSUME NEW cell, IsCell(cell), cell.kind = "object"
    PROVE  /\ cell = ObjectOf(cell.members) /\ cell.members \in [DOMAIN cell.members -> Value]
           /\ Slots(cell) = DOMAIN cell.members /\ \A k : HeldIn(cell, k) = cell.members[k]
BY DEF IsCell, Free, Slots, HeldIn

(* A root, and a cell, own what the values they hold point to. *)
LEMMA RootHas ==
    ASSUME NEW h, NEW r, NEW i \in DOMAIN r
    PROVE  \A t, a : PointsTo(r[i], t, a) => Owns(h, r, 0, t, a)
BY DEF Owns, RootOwns

LEMMA CellHas ==
    ASSUME NEW h, NEW r, NEW c \in Addresses, NEW k \in Slots(h[c])
    PROVE  \A t, a : PointsTo(HeldIn(h[c], k), t, a) => Owns(h, r, c, t, a)
BY DEF Owns, CellOwns

(* The cell at c, of a root, and what another root holds, v, which is not in it. *)
Apart(h, c, u, v) ==
    /\ c \in There(h) /\ c \in Addresses /\ h[c].kind = u
    /\ IsCell(h[c]) /\ CellOnce(h[c]) /\ IsHeap(h)
    /\ \A t, s, a : CellOwns(h[c], t, a) => ~PointsTo(v, s, a)
    /\ \A s : ~PointsTo(v, s, c)

(* What two roots point to is not the same, nor is one in the cell of the other. *)
LEMMA RootsApart ==
    ASSUME NEW h, NEW r, IsRoots(r), NEW x, x \notin DOMAIN r, NEW v \in Value,
           Kept(h, With(r, x, v)), NEW u, NEW c, RootOwns(r, u, c)
    PROVE  Apart(h, c, u, v)
<1> DEFINE w == With(r, x, v)
<1>1. /\ \A t, a : RootOwns(w, t, a) <=> RootOwns(r, t, a) \/ PointsTo(v, t, a)
      /\ \A t, s, a : RootOwns(r, t, a) => ~PointsTo(v, s, a)
  BY WithRoot DEF Kept
<1>2. Kept(h, w)
  OBVIOUS
<1> HIDE DEF w
<1>3. c \in There(h) /\ h[c].kind = u
  BY <1>1, <1>2 DEF Kept, Graph, Sound, Owns
<1>4. IsCell(h[c]) /\ CellOnce(h[c]) /\ IsHeap(h) /\ c \in Addresses
  BY <1>2, <1>3, KindsAre DEF Kept
<1>5. \A t, s, a : CellOwns(h[c], t, a) => ~RootOwns(w, s, a)
  BY <1>2, <1>3, OwnedByOne
<1> QED
  BY <1>1, <1>3, <1>4, <1>5 DEF Apart

-----------------------------------------------------------------------------
(* What is put into the cell of a root. *)

(* A root becomes an element of the array of another root. *)
LEMMA PutElement ==
    ASSUME NEW h, NEW r, IsRoots(r), NEW x, x \notin DOMAIN r, NEW v \in Value,
           Kept(h, With(r, x, v)), NEW c, NEW u, u = "array", RootOwns(r, u, c),
           NEW es, es = h[c].elements, NEW n, NEW fs, ElementIn(es, n, v, fs),
           NEW h1, Replaced(h, c, ArrayOf(fs), h1)
    PROVE  Kept(h1, r)
<1>0. Apart(h, c, u, v)
  BY RootsApart
<1>1. /\ h[c].kind = u /\ IsCell(h[c]) /\ CellOnce(h[c])
      /\ \A t, s, a : CellOwns(h[c], t, a) => ~PointsTo(v, s, a)
  BY <1>0 DEF Apart
<1>2. h[c] = ArrayOf(es) /\ es \in Seq(Value)
  BY <1>1, ArrayIs
<1>3. /\ \A t, a : CellOwns(ArrayOf(fs), t, a) <=> CellOwns(h[c], t, a) \/ PointsTo(v, t, a)
      /\ CellOnce(ArrayOf(fs))
  <2>1. CellOnce(ArrayOf(es))
        /\ \A t, s, a : CellOwns(ArrayOf(es), t, a) => ~PointsTo(v, s, a)
    BY <1>1, <1>2
  <2>2. /\ \A t, a : CellOwns(ArrayOf(fs), t, a) <=>
                         CellOwns(ArrayOf(es), t, a) \/ PointsTo(v, t, a)
        /\ CellOnce(ArrayOf(fs))
    BY <1>2, <2>1, ElementInserted
  <2> QED
    BY <1>2, <2>2
<1>4. IsCell(ArrayOf(fs)) /\ ArrayOf(fs).kind = h[c].kind
  BY <1>1, ArrayCell DEF ElementIn
<1> QED
  BY <1>3, <1>4, PutKept

(* A root becomes a member of the object of another root. *)
LEMMA PutMember ==
    ASSUME NEW h, NEW r, IsRoots(r), NEW x, x \notin DOMAIN r, NEW v \in Value,
           Kept(h, With(r, x, v)), NEW c, NEW u, u = "object", RootOwns(r, u, c),
           NEW ms, ms = h[c].members, NEW k, k \in DOMAIN ms => PlainValue(ms[k]),
           NEW h1, Replaced(h, c, ObjectOf(With(ms, k, v)), h1)
    PROVE  Kept(h1, r)
<1>0. Apart(h, c, u, v)
  BY RootsApart
<1>1. /\ h[c].kind = u /\ IsCell(h[c]) /\ CellOnce(h[c])
      /\ \A t, s, a : CellOwns(h[c], t, a) => ~PointsTo(v, s, a)
  BY <1>0 DEF Apart
<1>2. /\ h[c] = ObjectOf(ms) /\ ms \in [DOMAIN ms -> Value]
      /\ Slots(h[c]) = DOMAIN ms /\ \A l : HeldIn(h[c], l) = ms[l]
  BY <1>1, ObjectIs
<1> DEFINE ns == With(ms, k, v)
<1>3. DOMAIN ns = DOMAIN ms \cup {k} /\ ns[k] = v /\ \A l \in DOMAIN ms : l # k => ns[l] = ms[l]
  BY DEF With
<1>4. ns \in [DOMAIN ns -> Value]
  BY <1>2 DEF With
<1> HIDE DEF ns
<1>5. /\ Slots(ObjectOf(ns)) = DOMAIN ns /\ \A l : HeldIn(ObjectOf(ns), l) = ns[l]
      /\ IsCell(ObjectOf(ns)) /\ ObjectOf(ns).kind = h[c].kind
  BY <1>1, <1>4, ObjectCell
<1>6. /\ \A t, a : CellOwns(ObjectOf(ns), t, a) <=> CellOwns(h[c], t, a) \/ PointsTo(v, t, a)
      /\ CellOnce(ObjectOf(ns))
  <2> DEFINE cell == h[c]
             cell1 == ObjectOf(ns)
  <2>1. /\ CellOnce(cell) /\ \A t, s, a : CellOwns(cell, t, a) => ~PointsTo(v, s, a)
        /\ k \in Slots(cell) => PlainValue(HeldIn(cell, k))
        /\ \A l : l \in Slots(cell1) <=> l \in Slots(cell) \/ l = k
        /\ HeldIn(cell1, k) = v
        /\ \A l \in Slots(cell) : l # k => HeldIn(cell1, l) = HeldIn(cell, l)
    BY <1>1, <1>2, <1>3, <1>5
  <2> HIDE DEF cell, cell1
  <2>2. /\ \A t, a : CellOwns(cell1, t, a) <=> CellOwns(cell, t, a) \/ PointsTo(v, t, a)
        /\ CellOnce(cell1)
    BY <2>1, SlotFilled
  <2> QED
    BY <2>2 DEF cell, cell1
<1>7. Replaced(h, c, ObjectOf(ns), h1)
  BY DEF ns
<1> QED
  BY <1>1, <1>5, <1>6, <1>7, PutKept

(* A root takes the place of an element that owns nothing. *)
LEMMA PutSlot ==
    ASSUME NEW h, NEW r, IsRoots(r), NEW x, x \notin DOMAIN r, NEW v \in Value,
           Kept(h, With(r, x, v)), NEW c, NEW u, u = "array", RootOwns(r, u, c),
           NEW es, es = h[c].elements, NEW n \in DOMAIN es, PlainValue(es[n]),
           NEW h1, Replaced(h, c, ArrayOf([es EXCEPT ![n] = v]), h1)
    PROVE  Kept(h1, r)
<1>0. Apart(h, c, u, v)
  BY RootsApart
<1>1. /\ h[c].kind = u /\ IsCell(h[c]) /\ CellOnce(h[c])
      /\ \A t, s, a : CellOwns(h[c], t, a) => ~PointsTo(v, s, a)
  BY <1>0 DEF Apart
<1>2. /\ h[c] = ArrayOf(es) /\ es \in Seq(Value)
      /\ Slots(h[c]) = DOMAIN es /\ \A l : HeldIn(h[c], l) = es[l]
  BY <1>1, ArrayIs
<1> DEFINE ns == [es EXCEPT ![n] = v]
<1>3. DOMAIN ns = DOMAIN es /\ ns[n] = v /\ \A l \in DOMAIN es : l # n => ns[l] = es[l]
  OBVIOUS
<1>4. ns \in Seq(Value)
  BY <1>2
<1> HIDE DEF ns
<1>5. /\ Slots(ArrayOf(ns)) = DOMAIN ns /\ \A l : HeldIn(ArrayOf(ns), l) = ns[l]
      /\ IsCell(ArrayOf(ns)) /\ ArrayOf(ns).kind = h[c].kind
  BY <1>1, <1>4, ArrayCell
<1>6. /\ \A t, a : CellOwns(ArrayOf(ns), t, a) <=> CellOwns(h[c], t, a) \/ PointsTo(v, t, a)
      /\ CellOnce(ArrayOf(ns))
  <2> DEFINE cell == h[c]
             cell1 == ArrayOf(ns)
  <2>1. /\ CellOnce(cell) /\ \A t, s, a : CellOwns(cell, t, a) => ~PointsTo(v, s, a)
        /\ n \in Slots(cell) => PlainValue(HeldIn(cell, n))
        /\ \A l : l \in Slots(cell1) <=> l \in Slots(cell) \/ l = n
        /\ HeldIn(cell1, n) = v
        /\ \A l \in Slots(cell) : l # n => HeldIn(cell1, l) = HeldIn(cell, l)
    BY <1>1, <1>2, <1>3, <1>5
  <2> HIDE DEF cell, cell1
  <2>2. /\ \A t, a : CellOwns(cell1, t, a) <=> CellOwns(cell, t, a) \/ PointsTo(v, t, a)
        /\ CellOnce(cell1)
    BY <2>1, SlotFilled
  <2> QED
    BY <2>2 DEF cell, cell1
<1>7. Replaced(h, c, ArrayOf(ns), h1)
  BY DEF ns
<1> QED
  BY <1>1, <1>5, <1>6, <1>7, PutKept

-----------------------------------------------------------------------------
(* What is taken out of the cell of a root. *)

(* A value in a place of the cell is destroyed, and nothing is owned there. *)
LEMMA DropSlot ==
    ASSUME NEW h, NEW r, Kept(h, r), NEW u, NEW c, Owns(h, r, 0, u, c),
           NEW l, NEW v \in Value,
           IF l \in Slots(h[c]) THEN v = HeldIn(h[c], l) ELSE PlainValue(v),
           NEW cell, IsCell(cell), cell.kind = h[c].kind,
           l \in Slots(cell) => PlainValue(HeldIn(cell, l)),
           \A k : k # l =>
               IF k \in Slots(h[c]) THEN k \in Slots(cell) /\ HeldIn(cell, k) = HeldIn(h[c], k)
               ELSE k \in Slots(cell) => PlainValue(HeldIn(cell, k)),
           NEW h2, Replaced(Destroyed(h, v), c, cell, h2)
    PROVE  Kept(h2, r)
<1>1. c \in There(h)
  BY DEF Kept, Graph, Sound
<1>2. CellOnce(h[c])
  BY <1>1 DEF Kept
<1>3. /\ \A t, a : CellOwns(cell, t, a) <=> CellOwns(h[c], t, a) /\ ~PointsTo(v, t, a)
      /\ CellOnce(cell)
  <2> DEFINE old == h[c]
  <2>1. /\ CellOnce(old) /\ IF l \in Slots(old) THEN v = HeldIn(old, l) ELSE PlainValue(v)
        /\ \A k : k # l =>
               IF k \in Slots(old) THEN k \in Slots(cell) /\ HeldIn(cell, k) = HeldIn(old, k)
               ELSE k \in Slots(cell) => PlainValue(HeldIn(cell, k))
    BY <1>2
  <2> HIDE DEF old
  <2>2. /\ \A t, a : CellOwns(cell, t, a) <=> CellOwns(old, t, a) /\ ~PointsTo(v, t, a)
        /\ CellOnce(cell)
    BY <2>1, SlotEmptied
  <2> QED
    BY <2>2 DEF old
<1>4. \A t, a : PointsTo(v, t, a) => CellOwns(h[c], t, a)
  BY DEF CellOwns, PlainValue
<1> DEFINE values == {v}
<1>5. /\ \A w \in values : \A t, a : PointsTo(w, t, a) => CellOwns(h[c], t, a)
      /\ \A t, a : CellOwns(cell, t, a) <=>
                       CellOwns(h[c], t, a) /\ \A w \in values : ~PointsTo(w, t, a)
  BY <1>3, <1>4
<1>6. Freed(h, values, Destroyed(h, v))
  BY DestroyedFrees
<1> HIDE DEF values
<1> QED
  BY <1>1, <1>3, <1>5, <1>6, DropKept

(* An element is destroyed, and those behind it move up. *)
LEMMA DropElement ==
    ASSUME NEW h, NEW r, Kept(h, r), NEW u, u = "array", NEW c, Owns(h, r, 0, u, c),
           NEW es, es = h[c].elements, NEW n, NEW fs, ElementOut(es, n, fs),
           NEW h2, Replaced(Destroyed(h, es[n]), c, ArrayOf(fs), h2)
    PROVE  Kept(h2, r)
<1>1. c \in There(h) /\ h[c].kind = u
  BY DEF Kept, Graph, Sound
<1>2. CellOnce(h[c]) /\ IsCell(h[c])
  BY <1>1, KindsAre DEF Kept
<1>3. h[c] = ArrayOf(es) /\ es \in Seq(Value) /\ Slots(h[c]) = DOMAIN es
      /\ \A l : HeldIn(h[c], l) = es[l]
  BY <1>1, <1>2, ArrayIs
<1>4. /\ \A t, a : CellOwns(ArrayOf(fs), t, a) <=>
                       CellOwns(h[c], t, a) /\ ~PointsTo(es[n], t, a)
      /\ CellOnce(ArrayOf(fs))
  <2>1. CellOnce(ArrayOf(es))
    BY <1>2, <1>3
  <2>2. /\ \A t, a : CellOwns(ArrayOf(fs), t, a) <=>
                         CellOwns(ArrayOf(es), t, a) /\ ~PointsTo(es[n], t, a)
        /\ CellOnce(ArrayOf(fs))
    BY <1>3, <2>1, ElementRemoved
  <2> QED
    BY <1>3, <2>2
<1>5. IsCell(ArrayOf(fs)) /\ ArrayOf(fs).kind = h[c].kind
  BY <1>1, ArrayCell DEF ElementOut
<1>6. \A t, a : PointsTo(es[n], t, a) => CellOwns(h[c], t, a)
  <2>1. DOMAIN es = 1 .. Len(es)
    BY <1>3
  <2>2. n \in Slots(h[c])
    BY <1>3, <2>1 DEF ElementOut
  <2>3. HeldIn(h[c], n) = es[n]
    BY <1>3
  <2> QED
    BY <2>2, <2>3 DEF CellOwns
<1> DEFINE values == {es[n]}
           cell == ArrayOf(fs)
<1>7. /\ \A w \in values : \A t, a : PointsTo(w, t, a) => CellOwns(h[c], t, a)
      /\ \A t, a : CellOwns(cell, t, a) <=>
                       CellOwns(h[c], t, a) /\ \A w \in values : ~PointsTo(w, t, a)
  BY <1>4, <1>6
<1>8. Freed(h, values, Destroyed(h, es[n])) /\ Replaced(Destroyed(h, es[n]), c, cell, h2)
  BY DestroyedFrees
<1>9. IsCell(cell) /\ CellOnce(cell) /\ cell.kind = h[c].kind
  BY <1>4, <1>5
<1> HIDE DEF values, cell
<1> QED
  BY <1>1, <1>7, <1>8, <1>9, DropKept

(* Everything in the cell of a root is destroyed. *)
LEMMA EmptiedKept ==
    ASSUME NEW h, NEW r, Kept(h, r), NEW i \in DOMAIN r, r[i].m_type \in Allocated,
           NEW cell, IsCell(cell), Slots(cell) = {}, cell.kind = r[i].m_type
    PROVE  Kept(Emptied(h, r[i], cell), r)
<1> DEFINE c == r[i].m_value
           u == r[i].m_type
           values == Children(h[c])
           h1 == [a \in Addresses |-> IF a \in Reach(h, values) THEN Free ELSE h[a]]
           h2 == [h1 EXCEPT ![c] = cell]
<1>1. c \in There(h) /\ c \in Addresses /\ Owns(h, r, 0, u, c) /\ h[c].kind = u
  BY RootCell
<1>2. Emptied(h, r[i], cell) =
        [a \in Addresses |-> CASE a = c -> cell
                               [] a \in Reach(h, values) -> Free
                               [] OTHER -> h[a]]
  BY DEF Emptied
<1>3. Freed(h, values, h1)
  BY DEF Freed
<1>4. Replaced(h1, c, cell, h2)
  BY <1>1 DEF Replaced
<1>5. \A t, a : ~CellOwns(cell, t, a)
  BY DEF CellOwns
<1>6. \A v \in values : \A t, a : PointsTo(v, t, a) => CellOwns(h[c], t, a)
  BY DEF Children, CellOwns
<1>7. \A t, a : CellOwns(h[c], t, a) => \E v \in values : PointsTo(v, t, a)
  BY DEF Children, CellOwns
<1>8. CellOnce(cell) /\ cell.kind = u
  BY DEF CellOnce
<1>a. \A t, a : CellOwns(cell, t, a) <=>
                  CellOwns(h[c], t, a) /\ \A v \in values : ~PointsTo(v, t, a)
  BY <1>5, <1>7
<1>b. h1 = [a \in Addresses |-> IF a \in Reach(h, values) THEN Free ELSE h[a]]
      /\ h2 = [h1 EXCEPT ![c] = cell]
  OBVIOUS
<1>c. cell # Free
  <2>1. "free" \notin Allocated
    BY DEF Allocated
  <2> QED
    BY <2>1 DEF Free
<1> HIDE DEF c, u, values, h1, h2
<1>9. Kept(h2, r) /\ c \in There(h1)
  BY <1>1, <1>3, <1>4, <1>6, <1>8, <1>a, DropKept
<1>10. c \notin Reach(h, values)
  BY <1>1, <1>9, <1>b DEF There
<1>11. Emptied(h, r[i], cell) = h2
  BY <1>1, <1>2, <1>10, <1>b
<1> QED
  BY <1>9, <1>11

-----------------------------------------------------------------------------
(* Null becomes an empty array or object. *)

BasedWell(h, r, i, cell, base) ==
    /\ base.value \in Value /\ base.value.m_type = cell.kind
    /\ Kept(base.heap, [r EXCEPT ![i] = base.value])
    /\ \A a \in There(h) : a \in There(base.heap) /\ base.heap[a] = h[a]
    /\ base.value.m_value \in There(base.heap) /\ base.value.m_value \in Addresses

LEMMA BasedKept ==
    ASSUME NEW h, NEW r, Kept(h, r), HasRoom(h, 1), NEW i \in DOMAIN r, r[i] = vals[i],
           NEW cell, IsCell(cell), cell.kind \in Allocated, Slots(cell) = {},
           r[i].m_type = "null" \/ r[i].m_type = cell.kind
    PROVE  BasedWell(h, r, i, cell, Based(h, i, cell))
<1> DEFINE base == Based(h, i, cell)
<1>0. IsRoots(r) /\ r[i] \in Value
  BY DEF Kept, IsRoots
<1>1. CASE r[i].m_type = "null"
  <2> DEFINE new == New(h, cell)
  <2>1. base = new
    BY <1>1 DEF Based, is_null, Type
  <2>2. PICK x : x \notin DOMAIN r
    BY Another
  <2> DEFINE v == new.value
             h1 == new.heap
  <2>3. /\ v \in Value /\ Kept(h1, With(r, x, v)) /\ v.m_type = cell.kind
        /\ v.m_value \in There(h1) \ There(h)
        /\ \A a \in There(h) : a \in There(h1) /\ h1[a] = h[a]
    BY <2>2, NewKept
  <2> HIDE DEF new
  <2>4. PlainValue(r[i])
    BY <1>1 DEF PlainValue, PointsTo, Allocated
  <2>5. IsRoots([r EXCEPT ![i] = v]) /\ Kept(h1, With([r EXCEPT ![i] = v], x, r[i]))
    BY <1>0, <2>2, <2>3, RootsSwapped
  <2>6. x \notin DOMAIN [r EXCEPT ![i] = v]
    BY <2>2
  <2>7. Kept(h1, [r EXCEPT ![i] = v])
    BY <1>0, <2>4, <2>5, <2>6, PlainRoot
  <2>8. v.m_value \in Addresses
    BY <2>3 DEF There
  <2> QED
    BY <2>1, <2>3, <2>7, <2>8 DEF BasedWell
<1>2. CASE r[i].m_type = cell.kind /\ r[i].m_type # "null"
  <2>1. base = [heap |-> h, value |-> r[i]]
    BY <1>2 DEF Based, is_null, Type
  <2>2. base.heap = h /\ base.value = r[i]
    BY <2>1
  <2>3. r[i].m_value \in There(h) /\ r[i].m_value \in Addresses
    BY <1>2, RootCell
  <2>4. [r EXCEPT ![i] = r[i]] = r
    BY <1>0 DEF IsRoots
  <2> HIDE DEF base
  <2>5. Kept(base.heap, [r EXCEPT ![i] = base.value])
    BY <2>2, <2>4
  <2> QED
    BY <1>0, <1>2, <2>2, <2>3, <2>5 DEF BasedWell, base
<1> QED
  BY <1>1, <1>2

-----------------------------------------------------------------------------
(* The elements of an array of a root, c0, go into that of another, c. *)

Absorbed(h, w, h1, r, v, c0, c) ==
    /\ There(h1) = There(h) \ {c0} /\ \A a \in There(h1) : h1[a].kind = h[a].kind
    /\ \A t, a : PointsTo(v, t, a) <=> a = c0 /\ t = h[c0].kind
    /\ \A t, a : PointsTo(v, t, a) => Owns(h, w, 0, t, a)
    /\ c # c0 /\ \E t : Owns(h, w, 0, t, c)
    /\ \A b, t, a : Owns(h1, r, b, t, a) <=>
           \/ Owns(h, w, b, t, a) /\ b # c0 /\ ~(b = 0 /\ a = c0)
           \/ b = c /\ Owns(h, w, c0, t, a)

(* The array that was emptied is freed, and the rest of the relation stays a forest. *)
LEMMA AbsorbedGraph ==
    ASSUME NEW h, NEW w, NEW h1, NEW r, Graph(h, w), NEW v, NEW c0, NEW c, c0 \in Addresses,
           Absorbed(h, w, h1, r, v, c0, c)
    PROVE  Graph(h1, r)
<1> USE DEF Absorbed
<1>0. Owns(h, w, 0, h[c0].kind, c0) /\ c0 # 0 /\ c0 \in There(h) /\ c \in There(h)
  BY ZeroIsNone DEF Graph, Sound
<1>1. Sound(h1, r)
  <2> SUFFICES ASSUME NEW b, NEW t, NEW a, Owns(h1, r, b, t, a)
               PROVE  a \in There(h1) /\ h1[a].kind = t
    BY DEF Sound
  <2>1. PICK d : Owns(h, w, d, t, a) /\ ~(d = 0 /\ a = c0)
    BY <1>0
  <2>2. a \in There(h) /\ h[a].kind = t
    BY <2>1 DEF Graph, Sound
  <2>3. a # c0
    BY <1>0, <2>1 DEF Graph, Unique
  <2> QED
    BY <2>2, <2>3
<1>2. Unique(h1, r)
  BY DEF Graph, Unique
<1>3. Reached(h1, r)
  <2> SUFFICES ASSUME NEW S \in SUBSET There(h1), ClosedIn(h1, r, S)
               PROVE  There(h1) \subseteq S
    BY DEF Reached
  <2>1. c \in S
    <3>1. PICK t : Owns(h, w, 0, t, c)
      OBVIOUS
    <3>2. Owns(h1, r, 0, t, c)
      BY <1>0, <3>1
    <3> QED
      BY <3>2 DEF ClosedIn
  <2>2. ClosedIn(h, w, S \cup {c0})
    <3> SUFFICES ASSUME NEW b, NEW t, NEW a, Owns(h, w, b, t, a), b = 0 \/ b \in S \cup {c0},
                        a # c0
                 PROVE  a \in S
      BY DEF ClosedIn
    <3>1. CASE b = c0
      BY <2>1, <3>1 DEF ClosedIn
    <3>2. CASE b # c0
      BY <3>2 DEF ClosedIn
    <3> QED
      BY <3>1, <3>2
  <2>3. There(h) \subseteq S \cup {c0}
    BY <1>0, <2>2 DEF Graph, Reached
  <2> QED
    BY <2>3
<1> QED
  BY <1>1, <1>2, <1>3 DEF Graph

-----------------------------------------------------------------------------
(* The actions. *)

IInv == vals \in [Names -> Value] /\ Kept(heap, vals)

(* The variables of a client are roots. *)
LEMMA RootsAre ==
    ASSUME IInv
    PROVE  IsRoots(vals) /\ DOMAIN vals = Names /\ (\A i \in Names : vals[i] \in Value)
BY DEF IInv, IsRoots

(* What is left to show of an action: of one that changes a variable, ... *)
LEMMA BecomesKept ==
    ASSUME IInv, NEW i \in Names, NEW v \in Value, NEW h1, Becomes(i, v, h1),
           Kept(h1, [vals EXCEPT ![i] = v])
    PROVE  IInv'
BY DEF IInv, Becomes

(* ... of one that changes only the heap, ... *)
LEMMA BecomesSame ==
    ASSUME IInv, NEW i \in Names, NEW h1, Becomes(i, vals[i], h1), Kept(h1, vals)
    PROVE  IInv'
<1>1. [vals EXCEPT ![i] = vals[i]] = vals
  BY DEF IInv
<1>2. vals' = vals /\ heap' = h1
  BY <1>1 DEF Becomes
<1> QED
  BY <1>2 DEF IInv

(* ... and of one that throws. *)
LEMMA FailsKept == ASSUME IInv, NEW id, Fails(id) PROVE IInv'
BY DEF IInv, Fails

(* A value that is a root of its own is assigned. *)
LEMMA AssignedKept ==
    ASSUME IInv, NEW i \in Names, NEW x, x \notin Names, NEW v \in Value, NEW h,
           Kept(h, With(vals, x, v)), Becomes(i, v, Destroyed(h, vals[i]))
    PROVE  IInv'
<1>1. Kept(Destroyed(h, vals[i]), [vals EXCEPT ![i] = v])
  BY RootsAre, AssignKept
<1> QED
  BY <1>1, BecomesKept

(* Each action keeps the invariant. *)
LEMMA SetKept ==
    ASSUME IInv, NEW i \in Names, NEW s \in Scalars \cup {StringOf(k) : k \in Texts}, Set(i, s)
    PROVE  IInv'
<1>0. PICK x : x \notin Names
  BY Another
<1>1. CASE s \in Scalars
  <2>1. s \in [m_type : Plain, m_value : Int]
    BY <1>1, ScalarsAreValues
  <2>2. "kind" \notin DOMAIN s /\ s \in Value
    BY <2>1 DEF Value
  <2>3. PlainValue(s)
    BY <2>1 DEF Plain, PlainValue, PointsTo, Allocated
  <2>4. Becomes(i, s, Destroyed(heap, vals[i]))
    BY <2>2 DEF Set
  <2>5. Kept(heap, With(vals, x, s))
    BY <1>0, <2>2, <2>3, RootsAre, PlainRoot DEF IInv
  <2> QED
    BY <1>0, <2>2, <2>4, <2>5, AssignedKept
<1>2. CASE \E k \in Texts : s = StringOf(k)
  <2> DEFINE new == New(heap, s)
             v == new.value
             h == new.heap
  <2>1. "kind" \in DOMAIN s
    BY <1>2 DEF StringOf
  <2>2. HasRoom(heap, 1) /\ Becomes(i, v, Destroyed(h, vals[i]))
    BY <2>1 DEF Set
  <2>3. IsCell(s) /\ Slots(s) = {} /\ s.kind \in Allocated
    BY <1>2, StringCell DEF Allocated
  <2>4. v \in Value /\ Kept(h, With(vals, x, v))
    BY <1>0, <2>2, <2>3, RootsAre, NewKept DEF IInv
  <2> HIDE DEF new
  <2> QED
    BY <1>0, <2>2, <2>4, AssignedKept
<1> QED
  BY <1>1, <1>2

LEMMA AssignPartKept ==
    ASSUME IInv, NEW i \in Names, NEW part \in Value,
           NEW b, \A t, a : PointsTo(part, t, a) => Owns(heap, vals, b, t, a),
           AssignPart(i, part)
    PROVE  IInv'
<1>0. PICK x : x \notin Names
  BY Another
<1> DEFINE other == Copied(heap, part)
           v == other.value
           h == other.heap
<1>1. Copyable(heap, part) /\ Becomes(i, v, Destroyed(h, vals[i]))
  BY DEF AssignPart
<1>2. v \in Value /\ Kept(h, With(vals, x, v))
  BY <1>0, <1>1, RootsAre, CopyKept DEF IInv
<1> HIDE DEF other
<1> QED
  BY <1>0, <1>1, <1>2, AssignedKept

LEMMA AssignKeeps == ASSUME IInv, NEW i \in Names, NEW j \in Names, Assign(i, j) PROVE IInv'
<1>1. AssignPart(i, vals[j])
  BY DEF Assign, AssignPart
<1>2. \A t, a : PointsTo(vals[j], t, a) => Owns(heap, vals, 0, t, a)
  BY RootsAre, RootHas
<1> QED
  BY <1>1, <1>2, RootsAre, AssignPartKept

LEMMA MoveKept == ASSUME IInv, NEW i \in Names, NEW j \in Names, Move(i, j) PROVE IInv'
<1>0. PICK x : x \notin Names
  BY Another
<1> DEFINE after == [vals EXCEPT ![j] = Null]
           v == vals[j]
<1>1. vals' = [after EXCEPT ![i] = v] /\ heap' = Destroyed(heap, after[i])
  BY DEF Move
<1>2. Kept(heap, With(vals, x, Null))
  BY <1>0, RootsAre, NullIsPlain, PlainRoot DEF IInv
<1>3. IsRoots(after) /\ v \in Value /\ Kept(heap, With(after, x, v))
  BY <1>0, <1>2, RootsAre, NullIsPlain, RootsSwapped
<1>4. DOMAIN after = Names /\ after \in [Names -> Value]
  BY RootsAre, NullIsPlain DEF IInv
<1> HIDE DEF after, v
<1>5. Kept(Destroyed(heap, after[i]), [after EXCEPT ![i] = v])
  BY <1>0, <1>3, <1>4, AssignKept
<1>6. [after EXCEPT ![i] = v] \in [Names -> Value]
  BY <1>3, <1>4
<1> QED
  BY <1>1, <1>5, <1>6 DEF IInv

LEMMA SwapKept == ASSUME IInv, NEW i \in Names, NEW j \in Names, Swap(i, j) PROVE IInv'
<1>0. PICK x : x \notin Names
  BY Another
<1>1. vals' = [vals EXCEPT ![i] = vals[j], ![j] = vals[i]] /\ heap' = heap
  BY DEF Swap
<1>2. CASE i = j
  <2>1. vals' = vals
    BY <1>1, <1>2 DEF IInv
  <2> QED
    BY <1>1, <2>1 DEF IInv
<1>3. CASE i # j
  <2> DEFINE r1 == [vals EXCEPT ![j] = Null]
             r2 == [r1 EXCEPT ![i] = vals[j]]
             r3 == [r2 EXCEPT ![j] = vals[i]]
  <2>1. Kept(heap, With(vals, x, Null))
    BY <1>0, RootsAre, NullIsPlain, PlainRoot DEF IInv
  <2>2. IsRoots(r1) /\ vals[j] \in Value /\ Kept(heap, With(r1, x, vals[j]))
    BY <1>0, <2>1, RootsAre, NullIsPlain, RootsSwapped
  <2>3. DOMAIN r1 = Names /\ r1[i] = vals[i] /\ r1[j] = Null
    BY <1>3, RootsAre
  <2> HIDE DEF r1
  <2>4. IsRoots(r2) /\ Kept(heap, With(r2, x, vals[i]))
    BY <1>0, <2>2, <2>3, RootsSwapped
  <2>5. DOMAIN r2 = Names /\ r2[j] = Null
    BY <1>3, <2>3
  <2>6. r3 = [vals EXCEPT ![i] = vals[j], ![j] = vals[i]]
    BY <1>3 DEF r1
  <2> HIDE DEF r2
  <2>7. IsRoots(r3) /\ Kept(heap, With(r3, x, Null))
    BY <1>0, <2>4, <2>5, RootsAre, RootsSwapped
  <2>8. DOMAIN r3 = Names
    BY <2>5
  <2> HIDE DEF r3
  <2>9. Kept(heap, r3)
    BY <1>0, <2>7, <2>8, NullIsPlain, PlainRoot
  <2> QED
    BY <1>1, <2>6, <2>7, <2>8, <2>9 DEF IInv, IsRoots
<1> QED
  BY <1>2, <1>3

LEMMA ClearKept == ASSUME IInv, NEW i \in Names, Clear(i) PROVE IInv'
<1>0. PICK x : x \notin Names
  BY Another
<1>1. ASSUME NEW cell, IsCell(cell), Slots(cell) = {}, cell.kind = vals[i].m_type,
             cell.kind \in Allocated, Becomes(i, vals[i], Emptied(heap, vals[i], cell))
      PROVE  IInv'
  <2>1. Kept(Emptied(heap, vals[i], cell), vals)
    BY <1>1, RootsAre, EmptiedKept DEF IInv
  <2> QED
    BY <1>1, <2>1, BecomesSame
<1>2. CASE is_object(i)
  <2> DEFINE cell == EmptyObject
  <2>1. IsCell(cell) /\ Slots(cell) = {} /\ cell.kind = "object"
    <3>1. <<>> \in [DOMAIN <<>> -> Value] /\ DOMAIN <<>> = {}
      OBVIOUS
    <3> QED
      BY <3>1, ObjectCell DEF EmptyObject
  <2>2. Becomes(i, vals[i], Emptied(heap, vals[i], cell))
    BY <1>2 DEF Clear, is_object, is_array, Type
  <2> HIDE DEF cell
  <2> QED
    BY <1>1, <1>2, <2>1, <2>2 DEF is_object, Type, Allocated
<1>3. CASE is_array(i)
  <2> DEFINE cell == ArrayOf(<<>>)
  <2>1. IsCell(cell) /\ Slots(cell) = {} /\ cell.kind = "array"
    <3>1. <<>> \in Seq(Value) /\ DOMAIN <<>> = {}
      OBVIOUS
    <3> QED
      BY <3>1, ArrayCell
  <2>2. Becomes(i, vals[i], Emptied(heap, vals[i], cell))
    BY <1>3 DEF Clear, is_object, is_array, Type
  <2> HIDE DEF cell
  <2> QED
    BY <1>1, <1>3, <2>1, <2>2 DEF is_array, Type, Allocated
<1>4. CASE Type(i) = "string"
  <2> DEFINE cell == StringOf(<<>>)
  <2>1. IsCell(cell) /\ Slots(cell) = {} /\ cell.kind = "string"
    BY StringCell
  <2>2. Becomes(i, vals[i], Emptied(heap, vals[i], cell))
    BY <1>4 DEF Clear, is_object, is_array, Type
  <2> HIDE DEF cell
  <2> QED
    BY <1>1, <1>4, <2>1, <2>2 DEF Type, Allocated
<1>5. CASE Type(i) \notin Allocated
  <2> DEFINE v == json(Type(i), 0)
             r == [vals EXCEPT ![i] = v]
  <2>1. Becomes(i, v, heap)
    BY <1>5 DEF Clear, is_object, is_array, Type, Allocated
  <2>2. Type(i) \in Plain
    BY <1>5, RootsAre DEF Value, Type
  <2>3. v \in Value /\ PlainValue(v)
    BY <1>5, <2>2 DEF json, Value, PlainValue, PointsTo
  <2>4. vals[i] \in Value /\ PlainValue(vals[i])
    BY <1>5, RootsAre DEF PlainValue, PointsTo, Type
  <2> HIDE DEF v
  <2>5. Kept(heap, With(vals, x, v))
    BY <1>0, <2>3, RootsAre, PlainRoot DEF IInv
  <2>6. IsRoots(r) /\ Kept(heap, With(r, x, vals[i]))
    BY <1>0, <2>3, <2>5, RootsAre, RootsSwapped
  <2>7. x \notin DOMAIN r
    BY <1>0, RootsAre
  <2>8. Kept(heap, r)
    <3> HIDE DEF r
    <3> QED
      BY <2>4, <2>6, <2>7, PlainRoot
  <2> QED
    BY <2>1, <2>3, <2>8, BecomesKept
<1> QED
  BY <1>2, <1>3, <1>4, <1>5 DEF is_object, is_array, Type, Allocated

LEMMA EraseAllKept == ASSUME IInv, NEW i \in Names, EraseAll(i) PROVE IInv'
<1>0. PICK x : x \notin Names
  BY Another
<1>1. CASE is_null(i)
  <2>1. Fails(307)
    BY <1>1 DEF EraseAll, is_null, is_object, is_array, Type
  <2> QED
    BY <2>1, FailsKept
<1>2. CASE is_object(i) \/ is_array(i)
  <2>1. Clear(i)
    BY <1>2 DEF EraseAll, is_null, is_object, is_array, Type
  <2> QED
    BY <2>1, ClearKept
<1>3. CASE ~is_null(i) /\ ~is_object(i) /\ ~is_array(i)
  <2>1. Becomes(i, Null, Destroyed(heap, vals[i]))
    BY <1>3 DEF EraseAll
  <2>2. Kept(heap, With(vals, x, Null))
    BY <1>0, RootsAre, NullIsPlain, PlainRoot DEF IInv
  <2> QED
    BY <1>0, <2>1, <2>2, NullIsPlain, AssignedKept
<1> QED
  BY <1>1, <1>2, <1>3

-----------------------------------------------------------------------------
(* Sequences. *)

ArrayBase == ArrayOf(<<>>)

(* The empty array and object. *)
LEMMA ArrayBaseIs ==
    IsCell(ArrayBase) /\ ArrayBase.kind = "array" /\ ArrayBase.kind \in Allocated
    /\ Slots(ArrayBase) = {}
<1>1. <<>> \in Seq(Value) /\ DOMAIN <<>> = {}
  OBVIOUS
<1> QED
  BY <1>1, ArrayCell DEF ArrayBase, Allocated

LEMMA EmptyObjectIs ==
    IsCell(EmptyObject) /\ EmptyObject.kind = "object" /\ EmptyObject.kind \in Allocated
    /\ Slots(EmptyObject) = {}
<1>1. <<>> \in [DOMAIN <<>> -> Value] /\ DOMAIN <<>> = {}
  OBVIOUS
<1> QED
  BY <1>1, ObjectCell DEF EmptyObject, Allocated

(* An EXCEPT is a cell that is replaced. *)
LEMMA ElementsReplaced ==
    ASSUME NEW h, DOMAIN h = Addresses, NEW c \in Addresses, NEW es, h[c] = ArrayOf(es), NEW fs
    PROVE  Replaced(h, c, ArrayOf(fs), [h EXCEPT ![c].elements = fs])
BY DEF Replaced, ArrayOf

LEMMA CellReplaced ==
    ASSUME NEW h, DOMAIN h = Addresses, NEW c \in Addresses, NEW cell
    PROVE  Replaced(h, c, cell, [h EXCEPT ![c] = cell])
BY DEF Replaced

(* InsertAt of the library, as one element more. *)
LEMMA InsertAtIs ==
    ASSUME NEW es \in Seq(Value), NEW n \in 1 .. Len(es) + 1, NEW v \in Value
    PROVE  ElementIn(es, n, v, InsertAt(es, n, v))
<1> DEFINE fs == InsertAt(es, n, v)
           A == SubSeq(es, 1, n - 1)
           B == SubSeq(es, n, Len(es))
           m == Len(es)
<1>1. m \in Nat /\ n \in Nat /\ n >= 1 /\ n <= m + 1
  OBVIOUS
<1>2. fs = (A \o <<v>>) \o B
  BY DEF InsertAt
<1>3. A \in Seq(Value) /\ Len(A) = n - 1 /\ \A k \in 1 .. n - 1 : A[k] = es[k]
  BY <1>1
<1>4. B \in Seq(Value) /\ Len(B) = (m + 1) - n
      /\ \A k \in 1 .. (m + 1) - n : B[k] = es[(n + k) - 1]
  BY <1>1
<1> HIDE DEF fs, A, B, m
<1>5. /\ A \o <<v>> \in Seq(Value) /\ Len(A \o <<v>>) = n
      /\ (A \o <<v>>)[n] = v /\ \A k \in 1 .. n - 1 : (A \o <<v>>)[k] = es[k]
  BY <1>1, <1>3
<1> DEFINE C == A \o <<v>>
<1>6. C \in Seq(Value) /\ Len(C) = n /\ C[n] = v /\ \A k \in 1 .. n - 1 : C[k] = es[k]
  BY <1>5
<1>7. fs = C \o B
  BY <1>2
<1> HIDE DEF C
<1>8. fs \in Seq(Value) /\ Len(fs) = m + 1
  <2>0. C \in Seq(Value) /\ B \in Seq(Value)
    BY <1>4, <1>6
  <2>1. fs \in Seq(Value) /\ Len(fs) = Len(C) + Len(B)
    BY <2>0, <1>7
  <2>2. n + ((m + 1) - n) = m + 1
    BY <1>1
  <2> QED
    BY <1>4, <1>6, <2>1, <2>2
<1>9. ASSUME NEW k \in 1 .. m + 1
      PROVE  fs[k] = IF k < n THEN es[k] ELSE IF k = n THEN v ELSE es[k - 1]
  <2>1. CASE k < n
    <3>1. k \in 1 .. Len(C) /\ k \in 1 .. n - 1
      BY <1>1, <1>6, <2>1
    <3>2. fs[k] = C[k]
      BY <1>4, <1>6, <1>7, <3>1
    <3> QED
      BY <1>6, <2>1, <3>1, <3>2
  <2>2. CASE k = n
    <3>1. k \in 1 .. Len(C)
      BY <1>1, <1>6, <2>2
    <3>2. fs[k] = C[k]
      BY <1>4, <1>6, <1>7, <3>1
    <3> QED
      BY <1>1, <1>6, <2>2, <3>2
  <2>3. CASE k > n
    <3>1. k - n \in 1 .. Len(B) /\ k = Len(C) + (k - n) /\ (n + (k - n)) - 1 = k - 1
      BY <1>1, <1>4, <1>6, <2>3
    <3>2. fs[k] = B[k - n]
      BY <1>4, <1>6, <1>7, <3>1
    <3>3. B[k - n] = es[(n + (k - n)) - 1]
      BY <1>4, <3>1
    <3>4. fs[k] = es[k - 1]
      BY <3>1, <3>2, <3>3
    <3>5. ~(k < n) /\ k # n
      BY <1>1, <2>3
    <3> QED
      BY <3>4, <3>5
  <2> QED
    BY <1>1, <2>1, <2>2, <2>3
<1> QED
  BY <1>8, <1>9 DEF ElementIn, fs, m

(* A value is put in before element n, or at the end. *)
LEMMA InsertedKept ==
    ASSUME NEW h, NEW r, IsRoots(r), NEW x, x \notin DOMAIN r, NEW v \in Value,
           Kept(h, With(r, x, v)), NEW i \in DOMAIN r, r[i].m_type = "array",
           NEW n \in 1 .. Len(h[r[i].m_value].elements) + 1
    PROVE  /\ Kept([h EXCEPT ![r[i].m_value].elements = InsertAt(@, n, v)], r)
           /\ n = Len(h[r[i].m_value].elements) + 1 =>
                Kept([h EXCEPT ![r[i].m_value].elements = Append(@, v)], r)
<1> DEFINE c == r[i].m_value
           u == "array"
           es == h[c].elements
           fs == InsertAt(es, n, v)
           h1 == [h EXCEPT ![c].elements = fs]
<1>1. RootOwns(r, u, c)
  BY DEF RootOwns, PointsTo, Allocated
<1>2. Apart(h, c, u, v)
  <2> HIDE DEF c, u
  <2> QED
    BY <1>1, RootsApart
<1>3. h[c] = ArrayOf(es) /\ es \in Seq(Value) /\ c \in Addresses /\ DOMAIN h = Addresses
  BY <1>2, ArrayIs DEF Apart, IsHeap
<1>4. u = "array" /\ n \in 1 .. Len(es) + 1
  OBVIOUS
<1>5. h1 = [h EXCEPT ![r[i].m_value].elements = InsertAt(@, n, v)]
  OBVIOUS
<1>6. n = Len(es) + 1 => fs = Append(es, v)
  <2> HIDE DEF es
  <2>1. Len(es) \in Nat
    BY <1>3
  <2>2. InsertAt(es, n, v) = SubSeq(es, 1, n - 1) \o <<v>> \o SubSeq(es, n, Len(es))
    BY DEF InsertAt
  <2> SUFFICES ASSUME n = Len(es) + 1 PROVE fs = Append(es, v)
    OBVIOUS
  <2>3. n - 1 = Len(es)
    BY <2>1
  <2>4. SubSeq(es, 1, Len(es)) = es
    BY <1>3
  <2>5. SubSeq(es, n, Len(es)) = <<>>
    BY <1>3, <2>1
  <2>6. es \o <<v>> \o <<>> = Append(es, v)
    BY <1>3
  <2> QED
    BY <2>2, <2>3, <2>4, <2>5, <2>6
<1>7. ElementIn(es, n, v, fs)
  BY <1>3, <1>4, InsertAtIs
<1>8. Replaced(h, c, ArrayOf(fs), h1)
  <2> HIDE DEF c, es, fs
  <2> QED
    BY <1>3, ElementsReplaced
<1>9. Kept(h1, r)
  <2>1. es = h[c].elements
    OBVIOUS
  <2> HIDE DEF u, c, es, fs, h1
  <2> QED
    BY <1>1, <1>4, <1>7, <1>8, <2>1, PutElement
<1>10. n = Len(es) + 1 => h1 = [h EXCEPT ![c].elements = Append(@, v)]
  BY <1>6
<1> QED
  BY <1>5, <1>9, <1>10

(* push_back of a root to the array of another. *)
LEMMA AppendedKept ==
    ASSUME NEW h, NEW r, IsRoots(r), NEW x, x \notin DOMAIN r, NEW v \in Value,
           Kept(h, With(r, x, v)), NEW i \in DOMAIN r, r[i].m_type = "array"
    PROVE  Kept([h EXCEPT ![r[i].m_value].elements = Append(@, v)], r)
<1> DEFINE c == r[i].m_value
           u == "array"
           es == h[c].elements
           n == Len(es) + 1
<1>1. RootOwns(r, u, c)
  BY DEF RootOwns, PointsTo, Allocated
<1>2. Apart(h, c, u, v)
  <2> HIDE DEF c, u
  <2> QED
    BY <1>1, RootsApart
<1>3. es \in Seq(Value)
  BY <1>2, ArrayIs DEF Apart
<1>4. n \in 1 .. Len(h[r[i].m_value].elements) + 1
  <2>1. Len(es) \in Nat
    BY <1>3
  <2> QED
    BY <2>1
<1>5. n = Len(h[r[i].m_value].elements) + 1
  OBVIOUS
<1> HIDE DEF n, c, u, es
<1> QED
  BY <1>4, <1>5, InsertedKept

LEMMA PushBackKept == ASSUME IInv, NEW i \in Names, NEW j \in Names, PushBack(i, j) PROVE IInv'
<1>0. PICK x : x \notin Names
  BY Another
<1>1. CASE ~(is_null(i) \/ is_array(i))
  BY <1>1, FailsKept DEF PushBack
<1>2. CASE is_null(i) \/ is_array(i)
  <2> DEFINE base == Based(heap, i, ArrayBase)
             bv == base.value
             bh == base.heap
             r == [vals EXCEPT ![i] = bv]
             val == IF i = j THEN bv ELSE vals[j]
             copy == Copied(bh, val)
             v == copy.value
             h == copy.heap
             h1 == [h EXCEPT ![bv.m_value].elements = Append(@, v)]
  <2>1. HasRoom(heap, 1) /\ Copyable(bh, val) /\ Becomes(i, bv, h1)
    BY <1>2 DEF PushBack, ArrayBase
  <2>2. BasedWell(heap, vals, i, ArrayBase, base)
    <3>1. vals[i].m_type = "null" \/ vals[i].m_type = ArrayBase.kind
      BY <1>2, ArrayBaseIs DEF is_null, is_array, Type
    <3> QED
      BY <2>1, <3>1, ArrayBaseIs, RootsAre, BasedKept DEF IInv
  <2>3. bv \in Value /\ bv.m_type = "array" /\ Kept(bh, r)
    BY <2>2, ArrayBaseIs DEF BasedWell
  <2> HIDE DEF base
  <2>4. DOMAIN r = Names /\ IsRoots(r) /\ val = r[j] /\ val \in Value /\ r[i] = bv
    <3>1. DOMAIN r = Names /\ val = r[j] /\ r[i] = bv
      BY RootsAre
    <3> QED
      BY <2>3, <3>1 DEF Kept, IsRoots
  <2> HIDE DEF r, val
  <2>5. \A t, a : PointsTo(val, t, a) => Owns(bh, r, 0, t, a)
    BY <2>4, RootHas
  <2>6. v \in Value /\ Kept(h, With(r, x, v))
    BY <1>0, <2>1, <2>3, <2>4, <2>5, CopyKept
  <2> HIDE DEF copy
  <2>7. Kept([h EXCEPT ![r[i].m_value].elements = Append(@, v)], r)
    BY <1>0, <2>3, <2>4, <2>6, AppendedKept
  <2>8. Kept(h1, r)
    BY <2>4, <2>7
  <2> QED
    BY <2>1, <2>3, <2>8, BecomesKept DEF r
<1> QED
  BY <1>1, <1>2

LEMMA PushBackMovedKept ==
    ASSUME IInv, NEW i \in Names, NEW j \in Names, PushBackMoved(i, j)
    PROVE  IInv'
<1>0. PICK x : x \notin Names
  BY Another
<1>1. CASE ~(is_null(i) \/ is_array(i))
  BY <1>1, FailsKept DEF PushBackMoved
<1>2. CASE is_null(i) \/ is_array(i)
  <2> DEFINE base == Based(heap, i, ArrayBase)
             bv == base.value
             bh == base.heap
             r1 == [vals EXCEPT ![i] = bv]
             r2 == [r1 EXCEPT ![j] = Null]
             v == vals[j]
             h1 == [bh EXCEPT ![bv.m_value].elements = Append(@, v)]
  <2>1. /\ HasRoom(heap, 1) /\ i # j /\ heap' = h1
        /\ vals' = [vals EXCEPT ![i] = bv, ![j] = Null]
    BY <1>2 DEF PushBackMoved, ArrayBase
  <2>2. BasedWell(heap, vals, i, ArrayBase, base)
    <3>1. vals[i].m_type = "null" \/ vals[i].m_type = ArrayBase.kind
      BY <1>2, ArrayBaseIs DEF is_null, is_array, Type
    <3> QED
      BY <2>1, <3>1, ArrayBaseIs, RootsAre, BasedKept DEF IInv
  <2>3. bv \in Value /\ bv.m_type = "array" /\ Kept(bh, r1)
    BY <2>2, ArrayBaseIs DEF BasedWell
  <2> HIDE DEF base
  <2>4. /\ DOMAIN r1 = Names /\ IsRoots(r1) /\ r1[j] = v
        /\ DOMAIN r2 = Names /\ r2[i] = bv /\ r2 = vals'
    <3>1. DOMAIN r1 = Names /\ r1[j] = v /\ DOMAIN r2 = Names /\ r2[i] = bv
      BY <2>1, RootsAre
    <3> QED
      BY <2>1, <2>3, <3>1 DEF Kept
  <2> HIDE DEF r1, v
  <2>5. Kept(bh, With(r1, x, Null))
    BY <1>0, <2>3, <2>4, NullIsPlain, PlainRoot
  <2>6. IsRoots(r2) /\ v \in Value /\ Kept(bh, With(r2, x, v))
    BY <1>0, <2>4, <2>5, NullIsPlain, RootsSwapped
  <2> HIDE DEF r2
  <2>7. Kept([bh EXCEPT ![r2[i].m_value].elements = Append(@, v)], r2)
    BY <1>0, <2>3, <2>4, <2>6, AppendedKept
  <2>8. Kept(h1, r2)
    BY <2>4, <2>7
  <2> HIDE DEF h1
  <2> QED
    BY <2>1, <2>4, <2>6, <2>8 DEF IInv, IsRoots
<1> QED
  BY <1>1, <1>2

LEMMA AtKeyKept ==
    ASSUME IInv, NEW i \in Names, NEW j \in Names, NEW k, AtKey(i, j, k)
    PROVE  IInv'
<1>1. CASE ~is_object(j) \/ k \notin DOMAIN Cell(j).members
  BY <1>1, FailsKept DEF AtKey
<1>2. CASE is_object(j) /\ k \in DOMAIN Cell(j).members
  <2> DEFINE c == vals[j].m_value
             part == Cell(j).members[k]
  <2>1. AssignPart(i, part)
    BY <1>2 DEF AtKey
  <2>2. c \in Addresses /\ IsCell(heap[c]) /\ heap[c].kind = "object"
    BY <1>2, RootsAre, RootCell DEF IInv, is_object, Type, Allocated
  <2>3. k \in Slots(heap[c]) /\ HeldIn(heap[c], k) = part /\ part \in Value
    BY <1>2, <2>2, ObjectIs DEF Cell
  <2> HIDE DEF c, part
  <2>4. \A t, a : PointsTo(part, t, a) => Owns(heap, vals, c, t, a)
    BY <2>2, <2>3, CellHas
  <2> QED
    BY <2>1, <2>3, <2>4, AssignPartKept
<1> QED
  BY <1>1, <1>2

LEMMA AtIndexKept ==
    ASSUME IInv, NEW i \in Names, NEW j \in Names, NEW n \in Nat, AtIndex(i, j, n)
    PROVE  IInv'
<1>1. CASE ~is_array(j) \/ n >= size(j)
  BY <1>1, FailsKept DEF AtIndex
<1>2. CASE is_array(j) /\ ~(n >= size(j))
  <2> DEFINE c == vals[j].m_value
             part == Cell(j).elements[n + 1]
  <2>1. AssignPart(i, part)
    BY <1>2 DEF AtIndex
  <2>2. c \in Addresses /\ IsCell(heap[c]) /\ heap[c].kind = "array"
    BY <1>2, RootsAre, RootCell DEF IInv, is_array, Type, Allocated
  <2>3. /\ heap[c].elements \in Seq(Value) /\ Slots(heap[c]) = DOMAIN heap[c].elements
        /\ \A k : HeldIn(heap[c], k) = heap[c].elements[k]
    BY <2>2, ArrayIs
  <2>4. n + 1 \in DOMAIN heap[c].elements
    <3>1. Len(heap[c].elements) \in Nat /\ ~(n >= Len(heap[c].elements))
      BY <1>2, <2>3 DEF size, Cell
    <3>2. DOMAIN heap[c].elements = 1 .. Len(heap[c].elements)
      BY <2>3
    <3> HIDE DEF c
    <3> QED
      BY <3>1, <3>2
  <2>5. n + 1 \in Slots(heap[c]) /\ HeldIn(heap[c], n + 1) = part /\ part \in Value
    BY <2>3, <2>4 DEF Cell
  <2> HIDE DEF c, part
  <2>6. \A t, a : PointsTo(part, t, a) => Owns(heap, vals, c, t, a)
    BY <2>2, <2>5, CellHas
  <2> QED
    BY <2>1, <2>5, <2>6, AssignPartKept
<1> QED
  BY <1>1, <1>2

LEMMA EraseKeyKept == ASSUME IInv, NEW i \in Names, NEW k, EraseKey(i, k) PROVE IInv'
<1>1. CASE ~is_object(i)
  BY <1>1, FailsKept DEF EraseKey
<1>2. CASE is_object(i) /\ k \notin DOMAIN Cell(i).members
  <2>1. Becomes(i, vals[i], heap)
    BY <1>2 DEF EraseKey
  <2> QED
    BY <2>1, BecomesSame DEF IInv
<1>3. CASE is_object(i) /\ k \in DOMAIN Cell(i).members
  <2> DEFINE c == vals[i].m_value
             u == Type(i)
             ms == Cell(i).members
             ns == [m \in DOMAIN ms \ {k} |-> ms[m]]
             cell == ObjectOf(ns)
             h1 == Destroyed(heap, ms[k])
             h2 == [h1 EXCEPT ![c] = cell]
  <2>1. Becomes(i, vals[i], h2)
    BY <1>3 DEF EraseKey, Without
  <2>2. /\ c \in Addresses /\ IsCell(heap[c]) /\ heap[c].kind = "object"
        /\ Owns(heap, vals, 0, u, c)
    BY <1>3, RootsAre, RootCell DEF IInv, is_object, Type, Allocated
  <2>3. /\ ms \in [DOMAIN ms -> Value] /\ Slots(heap[c]) = DOMAIN ms
        /\ \A l : HeldIn(heap[c], l) = ms[l]
    BY <2>2, ObjectIs DEF Cell
  <2>4. Replaced(h1, c, cell, h2)
    BY <2>2, DestroyedFrees, CellReplaced DEF Freed
  <2>5. DOMAIN ns = DOMAIN ms \ {k} /\ (\A l \in DOMAIN ns : ns[l] = ms[l])
        /\ ns \in [DOMAIN ns -> Value]
    BY <2>3
  <2> HIDE DEF ms, ns
  <2>6. /\ Slots(cell) = DOMAIN ns /\ (\A l : HeldIn(cell, l) = ns[l])
        /\ IsCell(cell) /\ cell.kind = heap[c].kind
    BY <2>2, <2>5, ObjectCell
  <2> DEFINE v == ms[k]
  <2>7. v \in Value /\ (IF k \in Slots(heap[c]) THEN v = HeldIn(heap[c], k) ELSE PlainValue(v))
    BY <1>3, <2>3 DEF ms
  <2>8. /\ k \in Slots(cell) => PlainValue(HeldIn(cell, k))
        /\ \A l : l # k =>
             IF l \in Slots(heap[c]) THEN l \in Slots(cell) /\ HeldIn(cell, l) = HeldIn(heap[c], l)
             ELSE l \in Slots(cell) => PlainValue(HeldIn(cell, l))
    BY <2>3, <2>5, <2>6
  <2> HIDE DEF c, u, cell, h2, v
  <2>9. Replaced(Destroyed(heap, v), c, cell, h2) /\ Kept(heap, vals)
    BY <2>4 DEF v, IInv
  <2>10. Kept(h2, vals)
    BY <2>2, <2>6, <2>7, <2>8, <2>9, DropSlot
  <2> QED
    BY <2>1, <2>10, BecomesSame
<1> QED
  BY <1>1, <1>2, <1>3

(* RemoveAt of the library, as one element less. *)
LEMMA RemoveAtIs ==
    ASSUME NEW es \in Seq(Value), NEW n \in 1 .. Len(es)
    PROVE  ElementOut(es, n, RemoveAt(es, n))
<1> DEFINE fs == RemoveAt(es, n)
           A == SubSeq(es, 1, n - 1)
           B == SubSeq(es, n + 1, Len(es))
           m == Len(es)
<1>1. m \in Nat /\ n \in Nat /\ n >= 1 /\ n <= m
  OBVIOUS
<1>2. fs = A \o B
  BY DEF RemoveAt
<1>3. A \in Seq(Value) /\ Len(A) = n - 1 /\ \A k \in 1 .. n - 1 : A[k] = es[k]
  BY <1>1
<1>4. B \in Seq(Value) /\ Len(B) = m - n /\ \A k \in 1 .. m - n : B[k] = es[n + k]
  BY <1>1
<1> HIDE DEF fs, A, B, m
<1>8. fs \in Seq(Value) /\ Len(fs) = m - 1
  <2>0. A \in Seq(Value) /\ B \in Seq(Value)
    BY <1>3, <1>4
  <2>1. fs \in Seq(Value) /\ Len(fs) = Len(A) + Len(B)
    BY <2>0, <1>2
  <2>2. (n - 1) + (m - n) = m - 1
    BY <1>1
  <2> QED
    BY <1>3, <1>4, <2>1, <2>2
<1>9. ASSUME NEW k \in 1 .. m - 1
      PROVE  fs[k] = IF k < n THEN es[k] ELSE es[k + 1]
  <2>1. CASE k < n
    <3>1. k \in 1 .. Len(A) /\ k \in 1 .. n - 1
      BY <1>1, <1>3, <2>1
    <3>2. fs[k] = A[k]
      BY <1>2, <1>3, <1>4, <3>1
    <3> QED
      BY <1>3, <2>1, <3>1, <3>2
  <2>2. CASE ~(k < n)
    <3> DEFINE l == k - (n - 1)
    <3>1. l \in 1 .. Len(B) /\ k = Len(A) + l /\ n + l = k + 1
      BY <1>1, <1>3, <1>4, <2>2
    <3> HIDE DEF l
    <3>2. fs[k] = B[l]
      <4>1. A \in Seq(Value) /\ B \in Seq(Value)
        BY <1>3, <1>4
      <4> QED
        BY <1>2, <3>1, <4>1
    <3>3. B[l] = es[n + l]
      BY <1>4, <3>1
    <3> QED
      BY <2>2, <3>1, <3>2, <3>3
  <2> QED
    BY <2>1, <2>2
<1> QED
  BY <1>8, <1>9 DEF ElementOut, fs, m

LEMMA EraseIndexKept == ASSUME IInv, NEW i \in Names, NEW n \in Nat, EraseIndex(i, n) PROVE IInv'
<1>1. CASE ~is_array(i) \/ n >= size(i)
  BY <1>1, FailsKept DEF EraseIndex
<1>2. CASE is_array(i) /\ ~(n >= size(i))
  <2> DEFINE c == vals[i].m_value
             u == Type(i)
             es == Cell(i).elements
             k == n + 1
             fs == RemoveAt(es, k)
             h1 == Destroyed(heap, es[k])
             h2 == [h1 EXCEPT ![c] = ArrayOf(fs)]
  <2>1. Becomes(i, vals[i], h2)
    BY <1>2 DEF EraseIndex, Without
  <2>2. /\ c \in Addresses /\ IsCell(heap[c]) /\ heap[c].kind = "array"
        /\ Owns(heap, vals, 0, u, c)
    BY <1>2, RootsAre, RootCell DEF IInv, is_array, Type, Allocated
  <2>3. es \in Seq(Value) /\ es = heap[c].elements
    BY <2>2, ArrayIs DEF Cell
  <2>4. k \in 1 .. Len(es)
    <3>1. Len(es) \in Nat /\ ~(n >= Len(es))
      BY <1>2, <2>3 DEF size
    <3> HIDE DEF es
    <3> QED
      BY <3>1
  <2>5. Replaced(h1, c, ArrayOf(fs), h2)
    BY <2>2, DestroyedFrees, CellReplaced DEF Freed
  <2>6. u = "array" /\ Kept(heap, vals)
    BY <1>2 DEF is_array, IInv
  <2> HIDE DEF c, u, es, k
  <2>7. ElementOut(es, k, fs)
    BY <2>3, <2>4, RemoveAtIs
  <2>8. Replaced(Destroyed(heap, es[k]), c, ArrayOf(fs), h2)
    BY <2>5
  <2> HIDE DEF fs, h1, h2
  <2>9. Kept(h2, vals)
    BY <2>2, <2>3, <2>6, <2>7, <2>8, DropElement
  <2> QED
    BY <2>1, <2>9, BecomesSame
<1> QED
  BY <1>1, <1>2

(* A variable's value is copied to one that a root of its own holds. *)
LEMMA CopiedRoot ==
    ASSUME IInv, NEW j \in Names, NEW x, x \notin Names, Copyable(heap, vals[j])
    PROVE  LET copy == Copied(heap, vals[j])
           IN  /\ copy.value \in Value /\ copy.value.m_type = vals[j].m_type
               /\ Kept(copy.heap, With(vals, x, copy.value))
               /\ \A a \in There(heap) : a \in There(copy.heap) /\ copy.heap[a] = heap[a]
<1> DEFINE v == vals[j]
<1>1. v \in Value /\ Kept(heap, vals) /\ x \notin DOMAIN vals
      /\ \A t, a : PointsTo(v, t, a) => Owns(heap, vals, 0, t, a)
  BY RootsAre, RootHas DEF IInv
<1> HIDE DEF v
<1> QED
  BY <1>1, CopyKept DEF v

LEMMA InsertKept ==
    ASSUME IInv, NEW i \in Names, NEW n \in Nat, NEW j \in Names, Insert(i, n, j)
    PROVE  IInv'
<1>0. PICK x : x \notin Names
  BY Another
<1>1. CASE ~is_array(i)
  BY <1>1, FailsKept DEF Insert
<1>2. CASE is_array(i)
  <2> DEFINE copy == Copied(heap, vals[j])
             v == copy.value
             h == copy.heap
             k == n + 1
             c == vals[i].m_value
             h1 == [h EXCEPT ![c].elements = InsertAt(@, k, v)]
  <2>1. n <= size(i) /\ Copyable(heap, vals[j]) /\ Becomes(i, vals[i], h1)
    BY <1>2 DEF Insert
  <2>2. /\ v \in Value /\ Kept(h, With(vals, x, v))
        /\ \A a \in There(heap) : a \in There(h) /\ h[a] = heap[a]
    BY <1>0, <2>1, CopiedRoot
  <2>3. c \in There(heap) /\ IsCell(heap[c]) /\ heap[c].kind = "array"
    BY <1>2, RootsAre, RootCell DEF IInv, is_array, Type, Allocated
  <2>4. h[c] = heap[c]
    BY <2>2, <2>3
  <2>5. k \in 1 .. Len(h[c].elements) + 1
    <3>1. Len(heap[c].elements) \in Nat /\ n <= Len(heap[c].elements)
      BY <2>1, <2>3, ArrayIs DEF size, Cell
    <3> HIDE DEF c, h
    <3> QED
      BY <2>4, <3>1
  <2>6. vals[i].m_type = "array"
    BY <1>2 DEF is_array, Type
  <2> HIDE DEF copy, k
  <2>7. Kept(h1, vals)
    BY <1>0, <2>2, <2>5, <2>6, RootsAre, InsertedKept
  <2> QED
    BY <2>1, <2>7, BecomesSame
<1> QED
  BY <1>1, <1>2

-----------------------------------------------------------------------------
(* Members and elements that are assigned to. *)

(* A copy is a root of its own, and a variable is made an object or an array. *)
LEMMA CopiedAndBased ==
    ASSUME IInv, NEW i \in Names, NEW j \in Names, Copyable(heap, vals[j]),
           NEW x, x \notin Names,
           HasRoom(Copied(heap, vals[j]).heap, 1),
           NEW cell, IsCell(cell), cell.kind \in Allocated, Slots(cell) = {},
           vals[i].m_type = "null" \/ vals[i].m_type = cell.kind
    PROVE  LET copy == Copied(heap, vals[j])
               base == Based(copy.heap, i, cell)
               r == [vals EXCEPT ![i] = base.value]
           IN  /\ copy.value \in Value /\ base.value \in Value
               /\ base.value.m_type = cell.kind /\ base.value.m_value \in Addresses
               /\ IsRoots(r) /\ x \notin DOMAIN r
               /\ Kept(base.heap, With(r, x, copy.value))
               /\ RootOwns(r, cell.kind, base.value.m_value)
<1> DEFINE copy == Copied(heap, vals[j])
           v == copy.value
           h == copy.heap
           w == With(vals, x, v)
           base == Based(h, i, cell)
           r == [vals EXCEPT ![i] = base.value]
<1>1. v \in Value /\ Kept(h, w)
  BY CopiedRoot
<1>2. i \in DOMAIN w /\ w[i] = vals[i]
  BY RootsAre DEF With
<1>3. HasRoom(h, 1)
  OBVIOUS
<1> HIDE DEF copy, w
<1>4. BasedWell(h, w, i, cell, base)
  BY <1>1, <1>2, <1>3, BasedKept
<1> HIDE DEF base
<1>5. [w EXCEPT ![i] = base.value] = With(r, x, v)
  <2>1. x \notin DOMAIN vals /\ i \in DOMAIN vals
    BY RootsAre
  <2>2. [With(vals, x, v) EXCEPT ![i] = base.value] = With([vals EXCEPT ![i] = base.value], x, v)
    BY <2>1, WithExcept
  <2> QED
    BY <2>2 DEF w
<1>6. base.value \in Value /\ IsRoots(r) /\ DOMAIN r = Names /\ r[i] = base.value
  <2>1. base.value \in Value
    BY <1>4 DEF BasedWell
  <2> QED
    BY <2>1, RootsAre DEF IsRoots
<1> HIDE DEF r
<1>7. RootOwns(r, cell.kind, base.value.m_value)
  <2>1. PointsTo(r[i], cell.kind, base.value.m_value)
    BY <1>4, <1>6 DEF BasedWell, PointsTo
  <2> QED
    BY <1>6, <2>1 DEF RootOwns
<1> QED
  BY <1>1, <1>4, <1>5, <1>6, <1>7 DEF BasedWell, copy, base, r

LEMMA InsertPairKept ==
    ASSUME IInv, NEW i \in Names, NEW k, NEW j \in Names, NEW id, InsertPair(i, k, j, id)
    PROVE  IInv'
<1>0. PICK x : x \notin Names
  BY Another
<1>1. CASE ~(is_null(i) \/ is_object(i))
  BY <1>1, FailsKept DEF InsertPair
<1>2. CASE is_null(i) \/ is_object(i)
  <2> DEFINE copy == Copied(heap, vals[j])
             base == Based(copy.heap, i, EmptyObject)
             v == copy.value
             bv == base.value
             bh == base.heap
             a == base.value.m_value
             ms == bh[a].members
             r == [vals EXCEPT ![i] = bv]
             u == EmptyObject.kind
             h1 == IF k \in DOMAIN ms THEN Destroyed(bh, v)
                   ELSE [bh EXCEPT ![a] = ObjectOf(With(ms, k, v))]
  <2>1. Copyable(heap, vals[j]) /\ HasRoom(copy.heap, 1) /\ Becomes(i, bv, h1)
    BY <1>2 DEF InsertPair
  <2>2. /\ v \in Value /\ bv \in Value /\ a \in Addresses
        /\ IsRoots(r) /\ x \notin DOMAIN r
        /\ Kept(bh, With(r, x, v)) /\ RootOwns(r, u, a) /\ u = "object" /\ bv.m_type = u
    <3>1. vals[i].m_type = "null" \/ vals[i].m_type = EmptyObject.kind
      BY <1>2, EmptyObjectIs DEF is_null, is_object, Type
    <3> QED
      BY <1>0, <2>1, <3>1, EmptyObjectIs, CopiedAndBased
  <2> HIDE DEF copy, base, r, u
  <2>3. CASE k \in DOMAIN ms
    <3>1. Kept(Destroyed(bh, v), r)
      BY <2>2, DestroyKept
    <3>2. h1 = Destroyed(bh, v)
      BY <2>3
    <3> HIDE DEF h1
    <3> QED
      BY <2>1, <2>2, <3>1, <3>2, BecomesKept DEF r
  <2>4. CASE k \notin DOMAIN ms
    <3> DEFINE h2 == [bh EXCEPT ![a] = ObjectOf(With(ms, k, v))]
    <3>1. DOMAIN bh = Addresses
      BY <2>2 DEF Kept, IsHeap
    <3>2. Replaced(bh, a, ObjectOf(With(ms, k, v)), h2)
      BY <2>2, <3>1, CellReplaced
    <3>3. h1 = h2 /\ ms = bh[a].members
      BY <2>4
    <3> HIDE DEF h1, h2, ms, a
    <3>4. Kept(h2, r)
      BY <2>2, <2>4, <3>2, <3>3, PutMember
    <3> QED
      BY <2>1, <2>2, <3>3, <3>4, BecomesKept DEF r
  <2> QED
    BY <2>3, <2>4
<1> QED
  BY <1>1, <1>2

LEMMA RootStays ==
    ASSUME NEW h, NEW r, IsRoots(r), NEW x, x \notin DOMAIN r, NEW v \in Value,
           NEW u, NEW c, RootOwns(r, u, c)
    PROVE  Owns(h, With(r, x, v), 0, u, c)
<1>1. RootOwns(With(r, x, v), u, c)
  BY WithRoot
<1> QED
  BY <1>1 DEF Owns

(* A member is destroyed and the value of another root put in its place. *)
LEMMA MemberAssigned ==
    ASSUME NEW h, NEW r, IsRoots(r), NEW x, x \notin DOMAIN r, NEW v \in Value,
           Kept(h, With(r, x, v)), NEW c, NEW u, u = "object", RootOwns(r, u, c),
           NEW ms, ms = h[c].members, NEW k, NEW freed,
           freed = IF k \in DOMAIN ms THEN Destroyed(h, ms[k]) ELSE h
    PROVE  Kept([freed EXCEPT ![c] = ObjectOf(With(ms, k, v))], r)
<1> DEFINE h1 == [freed EXCEPT ![c] = ObjectOf(With(ms, k, v))]
<1>0. Apart(h, c, u, v)
  BY RootsApart
<1>1. h[c].kind = u /\ IsCell(h[c]) /\ c \in Addresses /\ DOMAIN h = Addresses
  BY <1>0 DEF Apart, IsHeap
<1>2. /\ h[c] = ObjectOf(ms) /\ ms \in [DOMAIN ms -> Value]
      /\ Slots(h[c]) = DOMAIN ms /\ \A l : HeldIn(h[c], l) = ms[l]
  BY <1>1, ObjectIs
<1>3. CASE k \notin DOMAIN ms
  <2>1. Replaced(h, c, ObjectOf(With(ms, k, v)), h1)
    BY <1>1, <1>3, CellReplaced
  <2> HIDE DEF h1
  <2>2. Kept(h1, r)
    BY <1>3, <2>1, PutMember
  <2> QED
    BY <2>2 DEF h1
<1>4. CASE k \in DOMAIN ms
  <2> DEFINE old == ms[k]
             g == Destroyed(h, old)
             ns == With(ms, k, Null)
             cell == ObjectOf(ns)
             h2 == [g EXCEPT ![c] = cell]
             w == With(r, x, v)
  <2>1. freed = g /\ DOMAIN g = Addresses
    BY <1>4, DestroyedFrees DEF Freed
  <2>2. old \in Value /\ (IF k \in Slots(h[c]) THEN old = HeldIn(h[c], k) ELSE PlainValue(old))
    BY <1>2, <1>4
  <2>3. DOMAIN ns = DOMAIN ms /\ ns[k] = Null /\ (\A l \in DOMAIN ms : l # k => ns[l] = ms[l])
        /\ With(ns, k, v) = With(ms, k, v)
    BY <1>4 DEF With
  <2>4. ns \in [DOMAIN ns -> Value]
    BY <1>2, NullIsPlain DEF With
  <2> HIDE DEF ns
  <2>5. /\ Slots(cell) = DOMAIN ns /\ (\A l : HeldIn(cell, l) = ns[l])
        /\ IsCell(cell) /\ cell.kind = h[c].kind /\ cell.members = ns
    BY <1>1, <2>4, ObjectCell
  <2>6. /\ k \in Slots(cell) => PlainValue(HeldIn(cell, k))
        /\ \A l : l # k =>
             IF l \in Slots(h[c]) THEN l \in Slots(cell) /\ HeldIn(cell, l) = HeldIn(h[c], l)
             ELSE l \in Slots(cell) => PlainValue(HeldIn(cell, l))
    BY <1>2, <2>3, <2>5, NullIsPlain
  <2>7. Replaced(Destroyed(h, old), c, cell, h2)
    <3> HIDE DEF cell, old
    <3> QED
      BY <1>1, <2>1, CellReplaced
  <2>8. Owns(h, w, 0, u, c)
    BY RootStays
  <2>9. Kept(h, w)
    OBVIOUS
  <2>10. Replaced(h2, c, ObjectOf(With(ns, k, v)), h1) /\ h2[c] = cell
    <3>1. h1 = [g EXCEPT ![c] = ObjectOf(With(ns, k, v))]
      BY <2>1, <2>3
    <3> HIDE DEF g, cell, h1
    <3> QED
      BY <1>1, <2>1, <3>1 DEF Replaced
  <2> HIDE DEF old, cell, h2, w, h1, g
  <2>11. Kept(h2, w)
    BY <2>2, <2>5, <2>6, <2>7, <2>8, <2>9, DropSlot
  <2>12. Kept(h2, With(r, x, v))
    BY <2>11 DEF w
  <2>13. ns = h2[c].members /\ (k \in DOMAIN ns => PlainValue(ns[k]))
    BY <2>3, <2>5, <2>10, NullIsPlain
  <2>14. Kept(h1, r)
    BY <2>10, <2>12, <2>13, PutMember
  <2> QED
    BY <2>14 DEF h1
<1> QED
  BY <1>3, <1>4

(* The elements es, filled up with nulls to a place n at least. *)
FilledTo(es, n, fs) ==
    /\ fs \in Seq(Value) /\ n \in DOMAIN fs
    /\ \A k \in DOMAIN es : k \in DOMAIN fs /\ fs[k] = es[k]
    /\ \A k \in DOMAIN fs : k \notin DOMAIN es => fs[k] = Null

(* An array is filled up with nulls to the element, which is then assigned to. *)
LEMMA ElementAssigned ==
    ASSUME NEW h, NEW r, IsRoots(r), NEW x, x \notin DOMAIN r, NEW v \in Value,
           Kept(h, With(r, x, v)), NEW c, NEW u, u = "array", RootOwns(r, u, c),
           NEW es, es = h[c].elements,
           NEW fs, NEW n, FilledTo(es, n, fs)
    PROVE  Kept([Destroyed(h, fs[n]) EXCEPT ![c] = ArrayOf([fs EXCEPT ![n] = v])], r)
<1> DEFINE old == fs[n]
           g == Destroyed(h, old)
           ns == [fs EXCEPT ![n] = Null]
           cell == ArrayOf(ns)
           h2 == [g EXCEPT ![c] = cell]
           h1 == [g EXCEPT ![c] = ArrayOf([fs EXCEPT ![n] = v])]
           w == With(r, x, v)
<1>0. Apart(h, c, u, v)
  BY RootsApart
<1>1. h[c].kind = u /\ IsCell(h[c]) /\ c \in Addresses /\ DOMAIN h = Addresses
  BY <1>0 DEF Apart, IsHeap
<1>2. /\ h[c] = ArrayOf(es) /\ es \in Seq(Value)
      /\ Slots(h[c]) = DOMAIN es /\ \A l : HeldIn(h[c], l) = es[l]
  BY <1>1, ArrayIs
<1>3. DOMAIN g = Addresses
  BY DestroyedFrees DEF Freed
<1>4. old \in Value /\ (IF n \in Slots(h[c]) THEN old = HeldIn(h[c], n) ELSE PlainValue(old))
  <2>1. CASE n \in DOMAIN es
    <3>1. old = es[n] /\ HeldIn(h[c], n) = es[n] /\ n \in Slots(h[c])
      BY <1>2, <2>1 DEF FilledTo
    <3>2. es[n] \in Value
      BY <1>2, <2>1
    <3> QED
      BY <3>1, <3>2
  <2>2. CASE n \notin DOMAIN es
    <3>1. old = Null
      BY <2>2 DEF FilledTo
    <3> QED
      BY <1>2, <2>2, <3>1, NullIsPlain
  <2> QED
    BY <2>1, <2>2
<1>5. /\ DOMAIN ns = DOMAIN fs /\ ns[n] = Null /\ (\A l \in DOMAIN fs : l # n => ns[l] = fs[l])
      /\ [ns EXCEPT ![n] = v] = [fs EXCEPT ![n] = v]
  BY DEF FilledTo
<1>6. ns \in Seq(Value)
  BY NullIsPlain DEF FilledTo
<1> HIDE DEF ns
<1>7. /\ Slots(cell) = DOMAIN ns /\ (\A l : HeldIn(cell, l) = ns[l])
      /\ IsCell(cell) /\ cell.kind = h[c].kind /\ cell.elements = ns
  BY <1>1, <1>6, ArrayCell
<1>8. /\ n \in Slots(cell) => PlainValue(HeldIn(cell, n))
      /\ \A l : l # n =>
           IF l \in Slots(h[c]) THEN l \in Slots(cell) /\ HeldIn(cell, l) = HeldIn(h[c], l)
           ELSE l \in Slots(cell) => PlainValue(HeldIn(cell, l))
  <2>1. PlainValue(HeldIn(cell, n))
    BY <1>5, <1>7, NullIsPlain
  <2>2. ASSUME NEW l, l # n, l \in Slots(h[c])
        PROVE  l \in Slots(cell) /\ HeldIn(cell, l) = HeldIn(h[c], l)
    <3>1. l \in DOMAIN es /\ HeldIn(h[c], l) = es[l]
      BY <1>2, <2>2
    <3>2. l \in DOMAIN fs /\ fs[l] = es[l]
      BY <3>1 DEF FilledTo
    <3> QED
      BY <1>5, <1>7, <2>2, <3>1, <3>2
  <2>3. ASSUME NEW l, l # n, l \notin Slots(h[c]), l \in Slots(cell)
        PROVE  PlainValue(HeldIn(cell, l))
    <3>1. l \in DOMAIN ns /\ HeldIn(cell, l) = ns[l]
      BY <1>7, <2>3
    <3>2. l \in DOMAIN fs /\ ns[l] = fs[l]
      BY <1>5, <2>3, <3>1
    <3>3. l \notin DOMAIN es
      BY <1>2, <2>3
    <3>4. HeldIn(cell, l) = Null
      BY <3>1, <3>2, <3>3 DEF FilledTo
    <3> QED
      BY <3>4, NullIsPlain
  <2> QED
    BY <2>1, <2>2, <2>3
<1>9. Replaced(Destroyed(h, old), c, cell, h2)
  <2> HIDE DEF cell, old
  <2> QED
    BY <1>1, <1>3, CellReplaced
<1>10. Owns(h, w, 0, u, c)
  BY RootStays
<1>11. Kept(h, w)
  OBVIOUS
<1>12. Replaced(h2, c, ArrayOf([ns EXCEPT ![n] = v]), h1) /\ h2[c] = cell
  <2>1. h1 = [g EXCEPT ![c] = ArrayOf([ns EXCEPT ![n] = v])]
    BY <1>5
  <2> HIDE DEF g, cell, h1
  <2> QED
    BY <1>1, <1>3, <2>1 DEF Replaced
<1> HIDE DEF old, cell, h2, w, h1, g
<1>13. Kept(h2, w)
  BY <1>4, <1>7, <1>8, <1>9, <1>10, <1>11, DropSlot
<1>14. Kept(h2, With(r, x, v))
  BY <1>13 DEF w
<1>15. ns = h2[c].elements /\ n \in DOMAIN ns /\ PlainValue(ns[n])
  BY <1>5, <1>7, <1>12, NullIsPlain DEF FilledTo
<1>16. Kept(h1, r)
  BY <1>12, <1>14, <1>15, PutSlot
<1> QED
  BY <1>16 DEF h1, g, old

LEMMA MemberKept ==
    ASSUME IInv, NEW i \in Names, NEW k, NEW j \in Names, Member(i, k, j)
    PROVE  IInv'
<1>0. PICK x : x \notin Names
  BY Another
<1>1. CASE ~(is_null(i) \/ is_object(i))
  BY <1>1, FailsKept DEF Member
<1>2. CASE is_null(i) \/ is_object(i)
  <2> DEFINE copy == Copied(heap, vals[j])
             base == Based(copy.heap, i, EmptyObject)
             v == copy.value
             bv == base.value
             bh == base.heap
             a == base.value.m_value
             ms == bh[a].members
             freed == IF k \in DOMAIN ms THEN Destroyed(bh, ms[k]) ELSE bh
             r == [vals EXCEPT ![i] = bv]
             u == EmptyObject.kind
             h1 == [freed EXCEPT ![a] = ObjectOf(With(ms, k, v))]
  <2>1. Copyable(heap, vals[j]) /\ HasRoom(copy.heap, 1) /\ Becomes(i, bv, h1)
    BY <1>2 DEF Member
  <2>2. /\ v \in Value /\ bv \in Value /\ a \in Addresses
        /\ IsRoots(r) /\ x \notin DOMAIN r
        /\ Kept(bh, With(r, x, v)) /\ RootOwns(r, u, a) /\ u = "object" /\ bv.m_type = u
    <3>1. vals[i].m_type = "null" \/ vals[i].m_type = EmptyObject.kind
      BY <1>2, EmptyObjectIs DEF is_null, is_object, Type
    <3> QED
      BY <1>0, <2>1, <3>1, EmptyObjectIs, CopiedAndBased
  <2>3. ms = bh[a].members /\ freed = IF k \in DOMAIN ms THEN Destroyed(bh, ms[k]) ELSE bh
    OBVIOUS
  <2> HIDE DEF copy, base, r, u, ms, freed
  <2>4. Kept(h1, r)
    BY <2>2, <2>3, MemberAssigned
  <2> QED
    BY <2>1, <2>2, <2>4, BecomesKept DEF r
<1> QED
  BY <1>1, <1>2

(* Two sequences joined: its type and length, and its elements. *)
LEMMA JoinedIs ==
    ASSUME NEW A \in Seq(Value), NEW B \in Seq(Value)
    PROVE  A \o B \in Seq(Value) /\ Len(A \o B) = Len(A) + Len(B)
OBVIOUS

LEMMA JoinedAt ==
    ASSUME NEW A \in Seq(Value), NEW B \in Seq(Value)
    PROVE  /\ \A k \in 1 .. Len(A) : (A \o B)[k] = A[k]
           /\ \A k \in 1 .. Len(B) : (A \o B)[Len(A) + k] = B[k]
<1>1. \A k \in 1 .. Len(A) : (A \o B)[k] = A[k]
  OBVIOUS
<1>2. ASSUME NEW k \in 1 .. Len(B) PROVE (A \o B)[Len(A) + k] = B[k]
  OBVIOUS
<1> QED
  BY <1>1, <1>2

(* The elements, filled up with nulls to element n. *)
LEMMA FilledUp ==
    ASSUME NEW es \in Seq(Value), NEW n \in Nat, NEW fs,
           fs = es \o [k \in 1 .. (IF n >= Len(es) THEN n - Len(es) + 1 ELSE 0) |-> Null]
    PROVE  FilledTo(es, n + 1, fs)
<1> DEFINE m == IF n >= Len(es) THEN n - Len(es) + 1 ELSE 0
           ns == [k \in 1 .. m |-> Null]
<1>1. Len(es) \in Nat /\ m \in Nat /\ n + 1 <= Len(es) + m
  OBVIOUS
<1>2. fs = es \o ns
  OBVIOUS
<1> HIDE DEF m
<1>3. ns \in Seq(Value) /\ Len(ns) = m /\ \A k \in 1 .. m : ns[k] = Null
  BY <1>1, NullIsPlain
<1> HIDE DEF ns
<1>4. fs \in Seq(Value) /\ Len(fs) = Len(es) + Len(ns)
  <2>1. ns \in Seq(Value)
    BY <1>3
  <2>2. es \o ns \in Seq(Value) /\ Len(es \o ns) = Len(es) + Len(ns)
    BY <2>1, JoinedIs
  <2> QED
    BY <1>2, <2>2
<1>5. DOMAIN fs = 1 .. Len(es) + m /\ DOMAIN es = 1 .. Len(es)
  BY <1>3, <1>4
<1>6. ASSUME NEW k \in 1 .. Len(es) PROVE k \in 1 .. Len(es) + m /\ fs[k] = es[k]
  <2>1. k \in 1 .. Len(es) + m
    BY <1>1
  <2>2. ns \in Seq(Value)
    BY <1>3
  <2> QED
    BY <1>2, <2>1, <2>2, SMTT(30)
<1>7. ASSUME NEW k \in 1 .. Len(es) + m, k \notin 1 .. Len(es) PROVE fs[k] = Null
  <2> DEFINE l == k - Len(es)
  <2>1. l \in 1 .. m /\ k = Len(es) + l
    BY <1>1, <1>7
  <2>2. ns \in Seq(Value) /\ Len(ns) = m
    BY <1>3
  <2> HIDE DEF l
  <2>3. fs[k] = ns[l]
    BY <1>2, <2>1, <2>2
  <2> QED
    BY <1>3, <2>1, <2>3
<1>8. n + 1 \in 1 .. Len(es) + m
  BY <1>1
<1> QED
  BY <1>4, <1>5, <1>6, <1>7, <1>8 DEF FilledTo

LEMMA ElementKept ==
    ASSUME IInv, NEW i \in Names, NEW n \in Nat, NEW j \in Names, Element(i, n, j)
    PROVE  IInv'
<1>0. PICK x : x \notin Names
  BY Another
<1>1. CASE ~(is_null(i) \/ is_array(i))
  BY <1>1, FailsKept DEF Element
<1>2. CASE is_null(i) \/ is_array(i)
  <2> DEFINE copy == Copied(heap, vals[j])
             base == Based(copy.heap, i, ArrayBase)
             v == copy.value
             bv == base.value
             bh == base.heap
             a == base.value.m_value
             es == bh[a].elements
             fs == es \o [k \in 1 .. (IF n >= Len(es) THEN n - Len(es) + 1 ELSE 0) |-> Null]
             m == n + 1
             r == [vals EXCEPT ![i] = bv]
             u == ArrayBase.kind
             h1 == [Destroyed(bh, fs[m]) EXCEPT ![a] = ArrayOf([fs EXCEPT ![m] = v])]
  <2>1. Copyable(heap, vals[j]) /\ HasRoom(copy.heap, 1) /\ Becomes(i, bv, h1)
    BY <1>2 DEF Element, ArrayBase
  <2>2. /\ v \in Value /\ bv \in Value /\ a \in Addresses
        /\ IsRoots(r) /\ x \notin DOMAIN r
        /\ Kept(bh, With(r, x, v)) /\ RootOwns(r, u, a) /\ u = "array" /\ bv.m_type = u
    <3>1. vals[i].m_type = "null" \/ vals[i].m_type = ArrayBase.kind
      BY <1>2, ArrayBaseIs DEF is_null, is_array, Type
    <3> QED
      BY <1>0, <2>1, <3>1, ArrayBaseIs, CopiedAndBased
  <2>3. fs = es \o [k \in 1 .. (IF n >= Len(es) THEN n - Len(es) + 1 ELSE 0) |-> Null]
    OBVIOUS
  <2>4. es = bh[a].elements
    OBVIOUS
  <2> HIDE DEF copy, base, r, u, es, fs
  <2>5. Apart(bh, a, u, v)
    BY <2>2, RootsApart
  <2>6. es \in Seq(Value)
    BY <2>2, <2>4, <2>5, ArrayIs DEF Apart
  <2>7. FilledTo(es, m, fs)
    BY <2>3, <2>6, FilledUp
  <2> HIDE DEF m
  <2>8. Kept(h1, r)
    BY <2>2, <2>4, <2>7, ElementAssigned
  <2> QED
    BY <2>1, <2>2, <2>8, BecomesKept DEF r
<1> QED
  BY <1>1, <1>2

(* The elements gs are put in behind the first n. *)
ElementsIn(es, n, gs, fs) ==
    /\ n \in 0 .. Len(es) /\ fs \in Seq(Value) /\ Len(fs) = Len(es) + Len(gs)
    /\ \A i \in 1 .. Len(es) + Len(gs) :
          fs[i] = IF i <= n THEN es[i]
                  ELSE IF i <= n + Len(gs) THEN gs[i - n] ELSE es[i - Len(gs)]

(* An array with the elements of another put in between owns what they do. *)
LEMMA ElementsInserted ==
    ASSUME NEW es \in Seq(Value), NEW n, NEW gs \in Seq(Value),
           CellOnce(ArrayOf(es)), CellOnce(ArrayOf(gs)),
           \A t, u, a : CellOwns(ArrayOf(es), t, a) => ~CellOwns(ArrayOf(gs), u, a),
           NEW fs, ElementsIn(es, n, gs, fs)
    PROVE  /\ \A t, a : CellOwns(ArrayOf(fs), t, a) <=>
                            CellOwns(ArrayOf(es), t, a) \/ CellOwns(ArrayOf(gs), t, a)
           /\ CellOnce(ArrayOf(fs))
<1> DEFINE m == Len(es)
           g == Len(gs)
           among(i) == n < i /\ i <= n + g
           from(i) == IF i <= n THEN i ELSE IF i <= n + g THEN i - n ELSE i - g
<1>0. /\ m \in Nat /\ g \in Nat /\ n \in Nat /\ n <= m
      /\ DOMAIN es = 1 .. m /\ DOMAIN gs = 1 .. g /\ DOMAIN fs = 1 .. m + g
  BY DEF ElementsIn
<1>1. /\ Slots(ArrayOf(es)) = 1 .. m /\ \A k : HeldIn(ArrayOf(es), k) = es[k]
      /\ Slots(ArrayOf(gs)) = 1 .. g /\ \A k : HeldIn(ArrayOf(gs), k) = gs[k]
      /\ Slots(ArrayOf(fs)) = 1 .. m + g /\ \A k : HeldIn(ArrayOf(fs), k) = fs[k]
  BY <1>0, ArrayCell
<1>2. \A i \in 1 .. m + g :
          fs[i] = IF i <= n THEN es[i] ELSE IF i <= n + g THEN gs[i - n] ELSE es[i - g]
  BY DEF ElementsIn
<1> HIDE DEF m, g
<1>3. ASSUME NEW i \in 1 .. m + g
      PROVE  IF among(i) THEN from(i) \in 1 .. g /\ fs[i] = gs[from(i)]
             ELSE from(i) \in 1 .. m /\ fs[i] = es[from(i)]
  <2>1. CASE i <= n
    <3>1. ~among(i) /\ from(i) = i /\ i \in 1 .. m
      BY <1>0, <2>1
    <3>2. fs[i] = es[i]
      BY <1>2, <2>1
    <3> HIDE DEF among, from
    <3> QED
      BY <3>1, <3>2
  <2>2. CASE n < i /\ i <= n + g
    <3>1. among(i) /\ from(i) = i - n /\ i - n \in 1 .. g /\ ~(i <= n)
      BY <1>0, <2>2
    <3>2. fs[i] = gs[i - n]
      BY <1>2, <2>2, <3>1
    <3> HIDE DEF among, from
    <3> QED
      BY <3>1, <3>2
  <2>3. CASE n + g < i
    <3>1. ~among(i) /\ from(i) = i - g /\ i - g \in 1 .. m /\ ~(i <= n) /\ ~(i <= n + g)
      BY <1>0, <2>3
    <3>2. fs[i] = es[i - g]
      BY <1>2, <3>1
    <3> HIDE DEF among, from
    <3> QED
      BY <3>1, <3>2
  <2> QED
    BY <1>0, <2>1, <2>2, <2>3
<1>4. ASSUME NEW i \in 1 .. m + g, NEW j \in 1 .. m + g, among(i) <=> among(j), from(i) = from(j)
      PROVE  i = j
  BY <1>0, <1>4
<1>5. ASSUME NEW k \in 1 .. m PROVE \E i \in 1 .. m + g : ~among(i) /\ from(i) = k
  <2>1. CASE k <= n
    <3>1. k \in 1 .. m + g /\ ~among(k) /\ from(k) = k
      BY <1>0, <2>1
    <3> QED
      BY <3>1
  <2>2. CASE k > n
    <3>1. k + g \in 1 .. m + g /\ ~among(k + g) /\ from(k + g) = k
      BY <1>0, <2>2
    <3> HIDE DEF from, among
    <3> QED
      BY <3>1
  <2> QED
    BY <1>0, <2>1, <2>2
<1>6. ASSUME NEW k \in 1 .. g PROVE \E i \in 1 .. m + g : among(i) /\ from(i) = k
  <2>1. k + n \in 1 .. m + g /\ among(k + n) /\ from(k + n) = k
    BY <1>0
  <2> HIDE DEF from, among
  <2> QED
    BY <2>1
<1> HIDE DEF from, among
<1>7. ASSUME NEW t, NEW a
      PROVE  CellOwns(ArrayOf(fs), t, a) <=>
                 CellOwns(ArrayOf(es), t, a) \/ CellOwns(ArrayOf(gs), t, a)
  <2>1. ASSUME NEW i \in 1 .. m + g, PointsTo(fs[i], t, a)
        PROVE  \/ \E k \in 1 .. m : PointsTo(es[k], t, a)
               \/ \E k \in 1 .. g : PointsTo(gs[k], t, a)
    BY <1>3, <2>1
  <2>2. ASSUME NEW k \in 1 .. m, PointsTo(es[k], t, a)
        PROVE  \E i \in 1 .. m + g : PointsTo(fs[i], t, a)
    <3>1. PICK i \in 1 .. m + g : ~among(i) /\ from(i) = k
      BY <1>5
    <3>2. fs[i] = es[k]
      BY <1>3, <3>1
    <3> QED
      BY <2>2, <3>2
  <2>3. ASSUME NEW k \in 1 .. g, PointsTo(gs[k], t, a)
        PROVE  \E i \in 1 .. m + g : PointsTo(fs[i], t, a)
    <3>1. PICK i \in 1 .. m + g : among(i) /\ from(i) = k
      BY <1>6
    <3>2. fs[i] = gs[k]
      BY <1>3, <3>1
    <3> QED
      BY <2>3, <3>2
  <2> QED
    BY <1>1, <2>1, <2>2, <2>3 DEF CellOwns
<1>8. CellOnce(ArrayOf(fs))
  <2> SUFFICES ASSUME NEW i \in Slots(ArrayOf(fs)), NEW j \in Slots(ArrayOf(fs)),
                      NEW t, NEW u, NEW a,
                      PointsTo(HeldIn(ArrayOf(fs), i), t, a), PointsTo(HeldIn(ArrayOf(fs), j), u, a)
               PROVE  i = j
    BY DEF CellOnce
  <2>0. i \in 1 .. m + g /\ j \in 1 .. m + g /\ PointsTo(fs[i], t, a) /\ PointsTo(fs[j], u, a)
    BY <1>1
  <2>i. IF among(i) THEN from(i) \in 1 .. g /\ PointsTo(gs[from(i)], t, a)
        ELSE from(i) \in 1 .. m /\ PointsTo(es[from(i)], t, a)
    BY <1>3, <2>0
  <2>j. IF among(j) THEN from(j) \in 1 .. g /\ PointsTo(gs[from(j)], u, a)
        ELSE from(j) \in 1 .. m /\ PointsTo(es[from(j)], u, a)
    BY <1>3, <2>0
  <2>1. CASE among(i) /\ among(j)
    <3>1. from(i) = from(j)
      BY <1>1, <2>i, <2>j, <2>1 DEF CellOnce
    <3> QED
      BY <1>4, <2>0, <2>1, <3>1
  <2>2. CASE ~among(i) /\ ~among(j)
    <3>1. from(i) = from(j)
      BY <1>1, <2>i, <2>j, <2>2 DEF CellOnce
    <3> QED
      BY <1>4, <2>0, <2>2, <3>1
  <2>3. CASE among(i) /\ ~among(j)
    <3>1. CellOwns(ArrayOf(gs), t, a) /\ CellOwns(ArrayOf(es), u, a)
      BY <1>1, <2>i, <2>j, <2>3 DEF CellOwns
    <3> QED
      BY <3>1
  <2>4. CASE ~among(i) /\ among(j)
    <3>1. CellOwns(ArrayOf(es), t, a) /\ CellOwns(ArrayOf(gs), u, a)
      BY <1>1, <2>i, <2>j, <2>4 DEF CellOwns
    <3> QED
      BY <3>1
  <2> QED
    BY <2>1, <2>2, <2>3, <2>4
<1> QED
  BY <1>7, <1>8

(* The cell at c0 is freed, and the one at c replaced. *)
Spliced(h, c0, c, cell, h1) ==
    /\ DOMAIN h1 = Addresses /\ h1[c0] = Free /\ h1[c] = cell
    /\ \A a \in Addresses : a # c /\ a # c0 => h1[a] = h[a]

(* The array of a root goes into that of another. *)
LEMMA AbsorbKept ==
    ASSUME NEW h, NEW r, IsRoots(r), NEW x, x \notin DOMAIN r, NEW v \in Value,
           Kept(h, With(r, x, v)), NEW u, u = "array", v.m_type = u,
           NEW c, RootOwns(r, u, c), NEW c0, c0 = v.m_value,
           NEW es, es = h[c].elements, NEW gs, gs = h[c0].elements,
           NEW n, NEW fs, ElementsIn(es, n, gs, fs),
           NEW h1, Spliced(h, c0, c, ArrayOf(fs), h1)
    PROVE  Kept(h1, r)
<1> DEFINE w == With(r, x, v)
<1>s. /\ DOMAIN h1 = Addresses /\ h1[c0] = Free /\ h1[c] = ArrayOf(fs)
      /\ \A a \in Addresses : a # c /\ a # c0 => h1[a] = h[a]
  BY DEF Spliced
<1>0. Apart(h, c, u, v)
  BY RootsApart
<1>1. /\ h[c].kind = u /\ IsCell(h[c]) /\ CellOnce(h[c]) /\ c \in There(h) /\ c \in Addresses
      /\ IsHeap(h) /\ \A s : ~PointsTo(v, s, c)
  BY <1>0 DEF Apart
<1>2. \A t, a : PointsTo(v, t, a) <=> a = c0 /\ t = u
  BY DEF PointsTo, Allocated
<1>3. c # c0
  BY <1>1, <1>2
<1>4. /\ \A t, a : RootOwns(w, t, a) <=> RootOwns(r, t, a) \/ PointsTo(v, t, a)
      /\ RootsOnce(r) /\ \A t, s, a : RootOwns(r, t, a) => ~PointsTo(v, s, a)
  BY WithRoot DEF Kept
<1>5. Kept(h, w)
  OBVIOUS
<1> HIDE DEF w
<1>6. Owns(h, w, 0, u, c0) /\ Owns(h, w, 0, u, c)
  BY <1>2, <1>4 DEF Owns
<1>7. c0 \in There(h) /\ h[c0].kind = u
  BY <1>5, <1>6 DEF Kept, Graph, Sound
<1>8. c0 \in Addresses /\ IsCell(h[c0]) /\ CellOnce(h[c0]) /\ c0 # 0 /\ c # 0
  BY <1>1, <1>5, <1>7, KindsAre DEF Kept
<1>9. h[c] = ArrayOf(es) /\ es \in Seq(Value) /\ h[c0] = ArrayOf(gs) /\ gs \in Seq(Value)
  BY <1>1, <1>7, <1>8, ArrayIs
<1>10. ASSUME NEW t, NEW s, NEW a, CellOwns(h[c], t, a) PROVE ~CellOwns(h[c0], s, a)
  <2>1. Owns(h, w, c, t, a)
    BY <1>1, <1>10 DEF Owns
  <2>2. CellOwns(h[c0], s, a) => Owns(h, w, c0, s, a)
    BY <1>8 DEF Owns
  <2> QED
    BY <1>3, <1>5, <2>1, <2>2 DEF Kept, Graph, Unique
<1>11. /\ \A t, a : CellOwns(ArrayOf(fs), t, a) <=> CellOwns(h[c], t, a) \/ CellOwns(h[c0], t, a)
       /\ CellOnce(ArrayOf(fs))
  <2>1. /\ CellOnce(ArrayOf(es)) /\ CellOnce(ArrayOf(gs))
        /\ \A t, s, a : CellOwns(ArrayOf(es), t, a) => ~CellOwns(ArrayOf(gs), s, a)
    BY <1>1, <1>8, <1>9, <1>10
  <2>2. /\ \A t, a : CellOwns(ArrayOf(fs), t, a) <=>
                         CellOwns(ArrayOf(es), t, a) \/ CellOwns(ArrayOf(gs), t, a)
        /\ CellOnce(ArrayOf(fs))
    BY <1>9, <2>1, ElementsInserted
  <2> QED
    BY <1>9, <2>2
<1>12. IsCell(ArrayOf(fs)) /\ ArrayOf(fs).kind = u /\ ArrayOf(fs) # Free
  <2>1. fs \in Seq(Value)
    BY DEF ElementsIn
  <2> QED
    BY <2>1, ArrayCell DEF Free
<1>13. IsHeap(h1)
  BY <1>s, <1>1, <1>12, FreeCell DEF IsHeap
<1>14. There(h1) = There(h) \ {c0}
  <2> SUFFICES ASSUME NEW a \in Addresses PROVE h1[a] # Free <=> h[a] # Free /\ a # c0
    BY DEF There
  <2>1. h[c] # Free
    BY <1>1 DEF There
  <2> QED
    BY <1>s, <1>12, <2>1
<1>15. \A a \in There(h1) : h1[a].kind = h[a].kind /\ CellOnce(h1[a])
  <2> SUFFICES ASSUME NEW a \in There(h1) PROVE h1[a].kind = h[a].kind /\ CellOnce(h1[a])
    OBVIOUS
  <2>1. CASE a = c
    BY <1>s, <1>1, <1>11, <1>12, <2>1
  <2>2. CASE a # c
    <3>1. a \in There(h) /\ a \in Addresses /\ a # c0
      BY <1>14 DEF There
    <3>2. h1[a] = h[a]
      BY <1>s, <2>2, <3>1
    <3> QED
      BY <1>5, <3>1, <3>2 DEF Kept
  <2> QED
    BY <2>1, <2>2
<1>16. ASSUME NEW b, NEW t, NEW a
       PROVE  Owns(h1, r, b, t, a) <=>
                 \/ Owns(h, w, b, t, a) /\ b # c0 /\ ~(b = 0 /\ a = c0)
                 \/ b = c /\ Owns(h, w, c0, t, a)
  <2>1. CASE b = 0
    <3>1. Owns(h1, r, b, t, a) <=> RootOwns(r, t, a)
      BY <2>1, ZeroIsNone DEF Owns
    <3>2. Owns(h, w, b, t, a) <=> RootOwns(r, t, a) \/ (a = c0 /\ t = u)
      BY <1>2, <1>4, <2>1, ZeroIsNone DEF Owns
    <3>3. RootOwns(r, t, a) => a # c0
      BY <1>2, <1>4
    <3> QED
      BY <1>8, <2>1, <3>1, <3>2, <3>3
  <2>2. CASE b = c
    <3>1. Owns(h1, r, b, t, a) <=> CellOwns(h[c], t, a) \/ CellOwns(h[c0], t, a)
      BY <1>s, <1>1, <1>8, <1>11, <2>2 DEF Owns
    <3>2. Owns(h, w, b, t, a) <=> CellOwns(h[c], t, a)
      BY <1>1, <1>8, <2>2 DEF Owns
    <3>3. Owns(h, w, c0, t, a) <=> CellOwns(h[c0], t, a)
      BY <1>8 DEF Owns
    <3> QED
      BY <1>3, <1>8, <2>2, <3>1, <3>2, <3>3
  <2>3. CASE b = c0
    <3>1. ~Owns(h1, r, b, t, a)
      BY <1>s, <1>8, <2>3, FreeOwnsNothing DEF Owns
    <3> QED
      BY <1>3, <2>3, <3>1
  <2>4. CASE b # 0 /\ b # c /\ b # c0
    BY <1>s, <2>4 DEF Owns
  <2> QED
    BY <2>1, <2>2, <2>3, <2>4
<1>17. Absorbed(h, w, h1, r, v, c0, c)
  BY <1>2, <1>3, <1>6, <1>7, <1>14, <1>15, <1>16 DEF Absorbed
<1>18. Graph(h1, r)
  BY <1>5, <1>8, <1>17, AbsorbedGraph DEF Kept
<1> QED
  BY <1>4, <1>13, <1>15, <1>18 DEF Kept

(* The sequence of InsertRange, as elements put in between. *)
LEMMA SplicedIs ==
    ASSUME NEW es \in Seq(Value), NEW n \in 0 .. Len(es), NEW gs \in Seq(Value)
    PROVE  ElementsIn(es, n, gs, SubSeq(es, 1, n) \o gs \o SubSeq(es, n + 1, Len(es)))
<1> DEFINE A == SubSeq(es, 1, n)
           B == SubSeq(es, n + 1, Len(es))
           C == A \o gs
           fs == C \o B
           m == Len(es)
           g == Len(gs)
<1>0. m \in Nat /\ g \in Nat /\ n \in Nat /\ n <= m
  OBVIOUS
<1>1. A \in Seq(Value) /\ Len(A) = n /\ \A k \in 1 .. n : A[k] = es[k]
  BY <1>0
<1>2. B \in Seq(Value) /\ Len(B) = m - n /\ \A k \in 1 .. m - n : B[k] = es[n + k]
  BY <1>0
<1> HIDE DEF A, B
<1>3. C \in Seq(Value) /\ Len(C) = Len(A) + g
  BY <1>1, JoinedIs
<1>4. \A k \in 1 .. Len(A) : C[k] = A[k]
  BY <1>1, JoinedAt
<1>5. \A k \in 1 .. g : C[Len(A) + k] = gs[k]
  BY <1>1, JoinedAt
<1> HIDE DEF C
<1>6. fs \in Seq(Value) /\ Len(fs) = Len(C) + Len(B)
  BY <1>2, <1>3, JoinedIs
<1>7. \A k \in 1 .. Len(C) : fs[k] = C[k]
  BY <1>2, <1>3, JoinedAt
<1>8. \A k \in 1 .. Len(B) : fs[Len(C) + k] = B[k]
  BY <1>2, <1>3, JoinedAt
<1> HIDE DEF fs, m, g
<1>9. Len(C) = n + g /\ Len(fs) = m + g
  BY <1>0, <1>1, <1>2, <1>3, <1>6
<1>10. ASSUME NEW i \in 1 .. m + g
       PROVE  fs[i] = IF i <= n THEN es[i] ELSE IF i <= n + g THEN gs[i - n] ELSE es[i - g]
  <2>1. CASE i <= n
    <3>1. i \in 1 .. n /\ i \in 1 .. Len(A) /\ i \in 1 .. Len(C)
      BY <1>0, <1>1, <1>9, <2>1
    <3>2. fs[i] = es[i]
      BY <1>1, <1>4, <1>7, <3>1
    <3> QED
      BY <2>1, <3>2
  <2>2. CASE n < i /\ i <= n + g
    <3> DEFINE k == i - n
    <3>1. k \in 1 .. g /\ i = Len(A) + k /\ i \in 1 .. Len(C) /\ ~(i <= n)
      BY <1>0, <1>1, <1>9, <2>2
    <3> HIDE DEF k
    <3>2. fs[i] = gs[k]
      BY <1>5, <1>7, <3>1
    <3> QED
      BY <2>2, <3>1, <3>2 DEF k
  <2>3. CASE n + g < i
    <3> DEFINE k == i - (n + g)
    <3>1. k \in 1 .. Len(B) /\ k \in 1 .. m - n /\ i = Len(C) + k /\ n + k = i - g
          /\ ~(i <= n) /\ ~(i <= n + g)
      BY <1>0, <1>2, <1>9, <2>3
    <3> HIDE DEF k
    <3>2. fs[i] = B[k]
      BY <1>8, <3>1
    <3>3. B[k] = es[n + k]
      BY <1>2, <3>1
    <3> QED
      BY <3>1, <3>2, <3>3
  <2> QED
    BY <1>0, <2>1, <2>2, <2>3
<1> QED
  BY <1>6, <1>9, <1>10 DEF ElementsIn, fs, C, A, B, m, g

LEMMA InsertRangeKept ==
    ASSUME IInv, NEW i \in Names, NEW n \in Nat, NEW j \in Names, InsertRange(i, n, j)
    PROVE  IInv'
<1>0. PICK x : x \notin Names
  BY Another
<1>1. CASE ~is_array(i)
  <2>1. Fails(309)
    BY <1>1 DEF InsertRange
  <2> QED
    BY <2>1, FailsKept
<1>2. CASE is_array(i) /\ i = j
  <2>1. Fails(211)
    BY <1>2 DEF InsertRange
  <2> QED
    BY <2>1, FailsKept
<1>3. CASE is_array(i) /\ i # j
  <2> DEFINE copy == Copied(heap, vals[j])
             v == copy.value
             h == copy.heap
             c == vals[i].m_value
             c0 == v.m_value
             es == heap[c].elements
             gs == h[c0].elements
             fs == SubSeq(es, 1, n) \o gs \o SubSeq(es, n + 1, Len(es))
             h1 == [h EXCEPT ![c0] = Free, ![c].elements = fs]
             u == "array"
  <2>1. is_array(j) /\ n <= size(i) /\ Copyable(heap, vals[j]) /\ Becomes(i, vals[i], h1)
    BY <1>3 DEF InsertRange, Cell
  <2>2. /\ v \in Value /\ v.m_type = vals[j].m_type /\ Kept(h, With(vals, x, v))
        /\ \A a \in There(heap) : a \in There(h) /\ h[a] = heap[a]
    BY <1>0, <2>1, CopiedRoot
  <2>3. c \in There(heap) /\ IsCell(heap[c]) /\ heap[c].kind = "array"
    BY <1>3, RootsAre, RootCell DEF IInv, is_array, Type, Allocated
  <2>4. h[c] = heap[c]
    BY <2>2, <2>3
  <2>5. es \in Seq(Value) /\ heap[c] = ArrayOf(es) /\ n <= Len(es)
    BY <2>1, <2>3, ArrayIs DEF size, Cell
  <2>6. RootOwns(vals, u, c) /\ v.m_type = u
    BY <1>3, <2>1, <2>2, RootsAre DEF RootOwns, PointsTo, is_array, Type, Allocated
  <2> DEFINE w == With(vals, x, v)
  <2>7. c0 \in Addresses /\ IsCell(h[c0]) /\ h[c0].kind = "array" /\ DOMAIN h = Addresses
    <3>1. x \in DOMAIN w /\ w[x] = v
      BY DEF With
    <3>2. Kept(h, w)
      BY <2>2
    <3> HIDE DEF w, copy
    <3> QED
      BY <2>6, <3>1, <3>2, RootCell DEF Allocated
  <2>8. gs \in Seq(Value)
    BY <2>7, ArrayIs
  <2>9. Apart(h, c, u, v)
    <3> HIDE DEF copy, c, u
    <3> QED
      BY <1>0, <2>2, <2>6, RootsAre, RootsApart
  <2>10. c # c0 /\ c \in Addresses
    <3>1. PointsTo(v, u, c0)
      BY <2>6 DEF PointsTo, Allocated
    <3> QED
      BY <2>9, <3>1 DEF Apart
  <2>11. ElementsIn(es, n, gs, fs)
    <3>1. n \in 0 .. Len(es)
      <4>1. Len(es) \in Nat
        BY <2>5
      <4> QED
        BY <2>5, <4>1
    <3> HIDE DEF es, gs
    <3> QED
      BY <2>5, <2>8, <3>1, SplicedIs
  <2>12. Spliced(h, c0, c, ArrayOf(fs), h1)
    <3> HIDE DEF copy, c, c0, es, gs, fs
    <3> QED
      BY <2>4, <2>5, <2>7, <2>10 DEF ArrayOf, Spliced
  <2>13. es = h[c].elements /\ gs = h[c0].elements /\ c0 = v.m_value /\ u = "array"
         /\ IsRoots(vals) /\ x \notin DOMAIN vals
    BY <1>0, <2>4, RootsAre
  <2> HIDE DEF copy, c, c0, es, gs, fs, h1, w, u
  <2>14. Kept(h1, vals)
    BY <2>2, <2>6, <2>11, <2>12, <2>13, AbsorbKept
  <2> QED
    BY <2>1, <2>14, BecomesSame
<1> QED
  BY <1>1, <1>2, <1>3

-----------------------------------------------------------------------------
(* A new array or object that takes the values of other roots. *)

(* There is no less room where more cells are free. *)
LEMMA RoomStays ==
    ASSUME NEW h, NEW h1, HasRoom(h, 1), \A a \in Addresses : h[a] = Free => h1[a] = Free
    PROVE  HasRoom(h1, 1)
<1> DEFINE S == {a \in Addresses : h[a] = Free}
           T == {a \in Addresses : h1[a] = Free}
<1>1. S \subseteq T /\ T \subseteq Addresses /\ Cardinality(S) >= 1
  BY DEF HasRoom
<1>2. HasRoom(h1, 1) <=> Cardinality(T) >= 1
  BY DEF HasRoom
<1> HIDE DEF S, T
<1>3. IsFiniteSet(T)
  BY <1>1, AddressesAreNumbers, FS_Subset
<1>4. IsFiniteSet(S) /\ Cardinality(S) <= Cardinality(T)
  BY <1>1, <1>3, FS_Subset
<1>5. Cardinality(S) \in Nat /\ Cardinality(T) \in Nat
  BY <1>3, <1>4, FS_CardinalityType
<1> QED
  BY <1>1, <1>2, <1>4, <1>5

(* What New makes, of two cells of a kind. *)
LEMMA NewSame ==
    ASSUME NEW h, IsHeap(h), HasRoom(h, 1), NEW cell, NEW cell1, cell.kind = cell1.kind
    PROVE  /\ New(h, cell1).value = New(h, cell).value
           /\ Replaced(New(h, cell).heap, New(h, cell).value.m_value, cell1, New(h, cell1).heap)
<1> DEFINE a0 == Fresh(h)
<1>1. a0 \in Addresses
  <2> DEFINE free == {a \in Addresses : h[a] = Free}
  <2>1. free # {}
    <3>1. Cardinality(free) >= 1
      BY DEF HasRoom
    <3>2. Cardinality({}) = 0
      BY FS_EmptySet
    <3> QED
      BY <3>1, <3>2
  <2> QED
    BY <2>1 DEF Fresh
<1> HIDE DEF a0
<1>2. /\ New(h, cell).heap = [h EXCEPT ![a0] = cell]
      /\ New(h, cell).value = json(cell.kind, a0)
      /\ New(h, cell1).heap = [h EXCEPT ![a0] = cell1]
      /\ New(h, cell1).value = json(cell1.kind, a0)
  BY DEF New, a0
<1>3. json(cell.kind, a0).m_value = a0
  BY DEF json
<1> QED
  BY <1>1, <1>2, <1>3 DEF Replaced, IsHeap

(* An array of two roots. *)
LEMMA NewPairKept ==
    ASSUME NEW h, NEW r, IsRoots(r), NEW x, x \notin DOMAIN r, NEW y, y \notin DOMAIN r, x # y,
           NEW v \in Value, NEW w \in Value, Kept(h, With(With(r, x, v), y, w)),
           HasRoom(h, 1), NEW z, z \notin DOMAIN r, z # x, z # y
    PROVE  LET new == New(h, ArrayOf(<<v, w>>))
           IN  new.value \in Value /\ Kept(new.heap, With(r, z, new.value))
<1> DEFINE r2 == With(With(r, x, v), y, w)
           base == New(h, ArrayBase)
           nv == base.value
           g == base.heap
           c == nv.m_value
           R == With(r, z, nv)
           S == With(R, x, v)
           u == ArrayBase.kind
           es == <<w>>
           g1 == [g EXCEPT ![c] = ArrayOf(es)]
           g2 == New(h, ArrayOf(<<v, w>>)).heap
<1>1. z \notin DOMAIN r2
  BY DEF With
<1>2. /\ nv \in Value /\ Kept(g, With(r2, z, nv)) /\ nv.m_type = u
      /\ c \in There(g) /\ g[c] = ArrayBase
  <2>1. Kept(h, r2)
    OBVIOUS
  <2> HIDE DEF r2
  <2> QED
    BY <1>1, <2>1, ArrayBaseIs, NewKept
<1>3. /\ New(h, ArrayOf(<<v, w>>)).value = nv /\ Replaced(g, c, ArrayOf(<<v, w>>), g2)
  <2>1. ArrayOf(<<v, w>>).kind = ArrayBase.kind /\ IsHeap(h)
    BY ArrayBaseIs, ArrayCell DEF Kept
  <2> QED
    BY <2>1, NewSame
<1> HIDE DEF base, g2, nv
<1>4. With(r2, z, nv) = With(S, y, w)
  <2>1. With(With(With(r, x, v), y, w), z, nv) = With(With(With(r, x, v), z, nv), y, w)
    BY WithSwap
  <2>2. With(With(r, x, v), z, nv) = With(With(r, z, nv), x, v)
    BY WithSwap
  <2> QED
    BY <2>1, <2>2
<1>5. IsRoots(R) /\ x \notin DOMAIN R /\ DOMAIN R = DOMAIN r \cup {z} /\ R[z] = nv
  <2>1. DOMAIN R = DOMAIN r \cup {z} /\ R[z] = nv
    BY DEF With
  <2>2. IsRoots(R)
    BY <1>2, WithRoot
  <2> QED
    BY <2>1, <2>2
<1>6. RootOwns(R, u, c)
  BY <1>2, <1>5, ArrayBaseIs DEF RootOwns, PointsTo
<1> HIDE DEF R
<1>7. IsRoots(S) /\ y \notin DOMAIN S /\ RootOwns(S, u, c)
  <2>1. DOMAIN S = DOMAIN R \cup {x}
    BY DEF With
  <2>2. IsRoots(S) /\ RootOwns(S, u, c)
    BY <1>5, <1>6, WithRoot
  <2> QED
    BY <1>5, <2>1, <2>2
<1> HIDE DEF S
<1>8. DOMAIN g = Addresses /\ c \in Addresses
  BY <1>2 DEF Kept, IsHeap, There
<1>9. Replaced(g, c, ArrayOf(es), g1) /\ g1[c] = ArrayOf(es)
  BY <1>8 DEF Replaced
<1>10. Replaced(g1, c, ArrayOf(<<v, w>>), g2)
  <2> HIDE DEF es
  <2> QED
    BY <1>3, <1>9 DEF Replaced
<1> HIDE DEF g1, c
<1>11. Kept(g1, S)
  <2> DEFINE none == <<>>
             m == 1
  <2>1. none = g[c].elements
    BY <1>2, ArrayCell DEF ArrayBase
  <2>2. ElementIn(none, m, w, es)
    BY DEF ElementIn
  <2>3. Kept(g, With(S, y, w)) /\ u = "array"
    BY <1>2, <1>4, ArrayBaseIs
  <2> HIDE DEF none, m, es, u
  <2> QED
    BY <1>7, <1>9, <2>1, <2>2, <2>3, PutElement
<1>12. Kept(g2, R)
  <2> DEFINE fs == <<v, w>>
             m == 1
  <2>1. es = g1[c].elements
    BY <1>9, ArrayCell
  <2>2. ElementIn(es, m, v, fs)
    BY DEF ElementIn
  <2>3. Kept(g1, With(R, x, v)) /\ u = "array" /\ Replaced(g1, c, ArrayOf(fs), g2)
    BY <1>10, <1>11, ArrayBaseIs DEF S
  <2> HIDE DEF m, es, fs, u
  <2> QED
    BY <1>5, <1>6, <2>1, <2>2, <2>3, PutElement
<1> QED
  BY <1>2, <1>3, <1>12 DEF R, g2

(* The second of two elements becomes a root. *)
OneTaken(h, c, left) == left = [h EXCEPT ![c].elements = <<@[1]>>]

LEMMA TakeSecond ==
    ASSUME NEW h, NEW r, Kept(h, r), NEW c \in There(h), h[c].kind = "array",
           NEW es, es = h[c].elements, Len(es) = 2, NEW p, p \notin DOMAIN r,
           NEW h1, OneTaken(h, c, h1)
    PROVE  /\ es[2] \in Value /\ Kept(h1, With(r, p, es[2]))
           /\ \A a \in Addresses : a # c => h1[a] = h[a]
<1> DEFINE fs == <<es[1]>>
           m == 2
<1>1. /\ c \in Addresses /\ IsCell(h[c]) /\ CellOnce(h[c]) /\ DOMAIN h = Addresses
  BY KindsAre DEF Kept, IsHeap
<1>2. h[c] = ArrayOf(es) /\ es \in Seq(Value) /\ Slots(h[c]) = DOMAIN es
      /\ \A l : HeldIn(h[c], l) = es[l]
  BY <1>1, ArrayIs
<1>3. es[1] \in Value /\ es[2] \in Value /\ 2 \in DOMAIN es
  BY <1>2
<1>4. ElementOut(es, m, fs)
  <2>1. fs \in Seq(Value) /\ Len(fs) = 1 /\ fs[1] = es[1]
    BY <1>3
  <2> HIDE DEF fs
  <2> QED
    BY <2>1 DEF ElementOut
<1>5. h1 = [h EXCEPT ![c].elements = fs]
  BY DEF OneTaken
<1>6. Replaced(h, c, ArrayOf(fs), h1)
  <2> HIDE DEF fs
  <2>1. Replaced(h, c, ArrayOf(fs), [h EXCEPT ![c].elements = fs])
    BY <1>1, <1>2, ElementsReplaced
  <2> QED
    BY <1>5, <2>1
<1>7. IsCell(ArrayOf(fs)) /\ ArrayOf(fs).kind = h[c].kind
  <2>1. fs \in Seq(Value)
    BY <1>3
  <2> HIDE DEF fs
  <2> QED
    BY <2>1, ArrayCell
<1> DEFINE v == es[m]
<1>8. v \in Value /\ v = es[2] /\ \A t, a : PointsTo(v, t, a) => CellOwns(h[c], t, a)
  BY <1>2, <1>3 DEF CellOwns
<1> HIDE DEF fs, m
<1>9. /\ \A t, a : CellOwns(ArrayOf(fs), t, a) <=> CellOwns(h[c], t, a) /\ ~PointsTo(v, t, a)
      /\ CellOnce(ArrayOf(fs))
  <2>1. CellOnce(ArrayOf(es))
    BY <1>1, <1>2
  <2>2. /\ \A t, a : CellOwns(ArrayOf(fs), t, a) <=>
                         CellOwns(ArrayOf(es), t, a) /\ ~PointsTo(es[m], t, a)
        /\ CellOnce(ArrayOf(fs))
    BY <1>2, <1>4, <2>1, ElementRemoved
  <2> QED
    BY <1>2, <2>2
<1> DEFINE cell == ArrayOf(fs)
<1>10. Replaced(h, c, cell, h1) /\ IsCell(cell) /\ CellOnce(cell) /\ cell.kind = h[c].kind
       /\ \A t, a : CellOwns(cell, t, a) <=> CellOwns(h[c], t, a) /\ ~PointsTo(v, t, a)
  BY <1>6, <1>7, <1>9
<1> HIDE DEF v, cell
<1>11. Kept(h1, With(r, p, v))
  BY <1>8, <1>10, TakeKept
<1> QED
  BY <1>3, <1>6, <1>8, <1>11 DEF Replaced

(* Two roots are destroyed. *)
LEMMA OnlyKept ==
    ASSUME NEW h, NEW s, IsRoots(s), NEW x, x \notin DOMAIN s, NEW y, y \notin DOMAIN s, x # y,
           NEW v \in Value, NEW w \in Value, Kept(h, With(With(s, x, v), y, w))
    PROVE  /\ Kept(Destroyed(Destroyed(h, v), w), s)
           /\ \A a \in Addresses : h[a] = Free => Destroyed(Destroyed(h, v), w)[a] = Free
<1> DEFINE S == With(s, y, w)
           h1 == Destroyed(h, v)
<1>1. IsRoots(S) /\ x \notin DOMAIN S
  <2>1. DOMAIN S = DOMAIN s \cup {y}
    BY DEF With
  <2>2. IsRoots(S)
    BY WithRoot
  <2> QED
    BY <2>1, <2>2
<1>2. Kept(h, With(S, x, v))
  BY WithSwap
<1> HIDE DEF S
<1>3. Kept(h1, S) /\ \A a : h[a] = Free => h1[a] = Free \/ a \notin Addresses
  BY <1>1, <1>2, DestroyKept
<1> HIDE DEF h1
<1>4. Kept(h1, With(s, y, w))
  BY <1>3 DEF S
<1>5. /\ Kept(Destroyed(h1, w), s)
      /\ \A a : h1[a] = Free => Destroyed(h1, w)[a] = Free \/ a \notin Addresses
  BY <1>4, DestroyKept
<1> QED
  BY <1>3, <1>5 DEF h1

LEMMA RootBelow ==
    ASSUME NEW r, NEW x, NEW y, NEW z, x # z, y # z, NEW v, NEW w, NEW m
    PROVE  With(With(With(r, x, v), y, w), z, m) = With(With(With(r, z, m), x, v), y, w)
<1> DEFINE S == With(r, x, v)
<1>1. With(With(S, y, w), z, m) = With(With(S, z, m), y, w)
  BY WithSwap
<1>2. With(S, z, m) = With(With(r, z, m), x, v)
  BY WithSwap
<1> QED
  BY <1>1, <1>2

(* An object made of one pair, or of two with names of their own. *)
LEMMA NewBase ==
    ASSUME NEW h, NEW r, Kept(h, r), HasRoom(h, 1), NEW z, z \notin DOMAIN r, NEW ms
    PROVE  \E nv, g, u :
              /\ nv \in Value /\ u = "object" /\ nv.m_type = u
              /\ Kept(g, With(r, z, nv)) /\ g[nv.m_value].members = <<>>
              /\ New(h, ObjectOf(ms)).value = nv
              /\ Replaced(g, nv.m_value, ObjectOf(ms), New(h, ObjectOf(ms)).heap)
<1> DEFINE base == New(h, EmptyObject)
<1>1. /\ base.value \in Value /\ Kept(base.heap, With(r, z, base.value))
      /\ base.value.m_type = "object" /\ base.heap[base.value.m_value] = EmptyObject
  BY EmptyObjectIs, NewKept
<1>2. EmptyObject.members = <<>>
  BY ObjectCell DEF EmptyObject
<1>3. /\ New(h, ObjectOf(ms)).value = base.value
      /\ Replaced(base.heap, base.value.m_value, ObjectOf(ms), New(h, ObjectOf(ms)).heap)
  <2>1. ObjectOf(ms).kind = EmptyObject.kind /\ IsHeap(h)
    BY EmptyObjectIs, ObjectCell DEF Kept
  <2> QED
    BY <2>1, NewSame
<1> HIDE DEF base
<1> QED
  BY <1>1, <1>2, <1>3

LEMMA NothingNamed == \A k : k \notin DOMAIN <<>>
OBVIOUS

(* An object of one root. *)
LEMMA NewOneKept ==
    ASSUME NEW h, NEW r, IsRoots(r), NEW p, p \notin DOMAIN r, NEW v \in Value,
           Kept(h, With(r, p, v)), HasRoom(h, 1), NEW z, z \notin DOMAIN r, z # p,
           NEW k, NEW ms, ms = With(<<>>, k, v)
    PROVE  LET new == New(h, ObjectOf(ms))
           IN  new.value \in Value /\ Kept(new.heap, With(r, z, new.value))
<1>1. z \notin DOMAIN With(r, p, v)
  BY DEF With
<1>2. PICK nv, g, u :
              /\ nv \in Value /\ u = "object" /\ nv.m_type = u
              /\ Kept(g, With(With(r, p, v), z, nv)) /\ g[nv.m_value].members = <<>>
              /\ New(h, ObjectOf(ms)).value = nv
              /\ Replaced(g, nv.m_value, ObjectOf(ms), New(h, ObjectOf(ms)).heap)
  <2> DEFINE S == With(r, p, v)
  <2>1. Kept(h, S) /\ z \notin DOMAIN S
    BY <1>1
  <2> HIDE DEF S
  <2> QED
    BY <2>1, NewBase DEF S
<1> DEFINE R == With(r, z, nv)
           c == nv.m_value
           none == g[c].members
           h1 == New(h, ObjectOf(ms)).heap
<1>3. /\ IsRoots(R) /\ p \notin DOMAIN R /\ RootOwns(R, u, c) /\ u = "object"
      /\ Kept(g, With(R, p, v))
  <2>1. DOMAIN R = DOMAIN r \cup {z} /\ R[z] = nv
    BY DEF With
  <2>2. IsRoots(R)
    <3>1. nv \in Value
      BY <1>2
    <3> QED
      BY <3>1, WithRoot
  <2>3. RootOwns(R, u, c)
    BY <1>2, <2>1 DEF RootOwns, PointsTo, Allocated
  <2>4. With(With(r, p, v), z, nv) = With(R, p, v)
    BY WithSwap
  <2> QED
    BY <1>2, <2>1, <2>2, <2>3, <2>4
<1>4. k \in DOMAIN none => PlainValue(none[k])
  BY <1>2, NothingNamed
<1>5. Replaced(g, c, ObjectOf(With(none, k, v)), h1)
  BY <1>2
<1> HIDE DEF R, h1, none, c
<1>6. Kept(h1, R)
  BY <1>3, <1>4, <1>5, PutMember DEF none
<1> QED
  BY <1>2, <1>6 DEF R, h1

(* An object of two roots. *)
LEMMA NewTwoKept ==
    ASSUME NEW h, NEW r, IsRoots(r), NEW p, p \notin DOMAIN r, NEW q, q \notin DOMAIN r, p # q,
           NEW v \in Value, NEW w \in Value, Kept(h, With(With(r, p, v), q, w)),
           HasRoom(h, 1), NEW z, z \notin DOMAIN r, z # p, z # q,
           NEW k, NEW l, k # l, NEW one, one = With(<<>>, k, v), NEW ms, ms = With(one, l, w)
    PROVE  LET new == New(h, ObjectOf(ms))
           IN  new.value \in Value /\ Kept(new.heap, With(r, z, new.value))
<1> DEFINE r2 == With(With(r, p, v), q, w)
<1>1. z \notin DOMAIN r2 /\ Kept(h, r2)
  BY DEF With
<1> HIDE DEF r2
<1>2. PICK nv, g, u :
              /\ nv \in Value /\ u = "object" /\ nv.m_type = u
              /\ Kept(g, With(r2, z, nv)) /\ g[nv.m_value].members = <<>>
              /\ New(h, ObjectOf(ms)).value = nv
              /\ Replaced(g, nv.m_value, ObjectOf(ms), New(h, ObjectOf(ms)).heap)
  BY <1>1, NewBase
<1> DEFINE R == With(r, z, nv)
           S == With(R, q, w)
           c == nv.m_value
           none == g[c].members
           g1 == [g EXCEPT ![c] = ObjectOf(one)]
           h1 == New(h, ObjectOf(ms)).heap
<1>3. /\ IsRoots(R) /\ p \notin DOMAIN R /\ q \notin DOMAIN R /\ RootOwns(R, u, c)
  <2>1. DOMAIN R = DOMAIN r \cup {z} /\ R[z] = nv
    BY DEF With
  <2>2. IsRoots(R)
    <3>1. nv \in Value
      BY <1>2
    <3> QED
      BY <3>1, WithRoot
  <2>3. RootOwns(R, u, c)
    BY <1>2, <2>1 DEF RootOwns, PointsTo, Allocated
  <2> QED
    BY <2>1, <2>2, <2>3
<1>4. With(r2, z, nv) = With(S, p, v)
  <2>1. With(With(With(r, p, v), q, w), z, nv) = With(With(R, p, v), q, w)
    BY RootBelow
  <2>2. With(With(R, p, v), q, w) = With(S, p, v)
    BY WithSwap
  <2> QED
    BY <2>1, <2>2 DEF r2
<1> HIDE DEF R
<1>5. IsRoots(S) /\ p \notin DOMAIN S /\ RootOwns(S, u, c)
  <2>1. DOMAIN S = DOMAIN R \cup {q}
    BY DEF With
  <2>2. IsRoots(S) /\ RootOwns(S, u, c)
    BY <1>3, WithRoot
  <2> QED
    BY <1>3, <2>1, <2>2
<1> HIDE DEF S
<1>6. DOMAIN g = Addresses /\ c \in Addresses /\ Kept(g, With(S, p, v))
  <2>1. Kept(g, With(S, p, v))
    BY <1>2, <1>4
  <2>2. RootOwns(With(S, p, v), u, c)
    BY <1>5, WithRoot
  <2> QED
    BY <2>1, <2>2 DEF Kept, IsHeap, There, Graph, Sound, Owns
<1>7. Replaced(g, c, ObjectOf(one), g1) /\ g1[c] = ObjectOf(one)
  BY <1>6, CellReplaced
<1>8. Replaced(g1, c, ObjectOf(ms), h1)
  BY <1>2, <1>7 DEF Replaced
<1> HIDE DEF g1, h1, c
<1>9. Kept(g1, S)
  <2>1. k \in DOMAIN none => PlainValue(none[k])
    BY <1>2, NothingNamed DEF c
  <2>2. Replaced(g, c, ObjectOf(With(none, k, v)), g1)
    BY <1>2, <1>7 DEF c
  <2>3. none = g[c].members
    OBVIOUS
  <2> HIDE DEF none
  <2> QED
    BY <1>2, <1>5, <1>6, <2>1, <2>2, <2>3, PutMember
<1>10. one = g1[c].members
  BY <1>7, ObjectCell
<1>11. l \in DOMAIN one => PlainValue(one[l])
  <2>1. DOMAIN one = DOMAIN <<>> \cup {k}
    BY DEF With
  <2> QED
    BY <2>1, NothingNamed
<1>12. Kept(h1, R)
  <2>1. Kept(g1, With(R, q, w)) /\ Replaced(g1, c, ObjectOf(With(one, l, w)), h1)
    BY <1>8, <1>9 DEF S
  <2> QED
    BY <1>2, <1>3, <1>10, <1>11, <2>1, PutMember
<1> QED
  BY <1>2, <1>12 DEF R, h1

(* Two arrays that are roots; one element of them is taken, or two. *)
TwoArrays(h, r, x, v, y, w) ==
    /\ IsRoots(r) /\ x \notin DOMAIN r /\ y \notin DOMAIN r /\ x # y
    /\ v \in Value /\ v.m_type = "array" /\ w \in Value /\ w.m_type = "array"
    /\ Kept(h, With(With(r, x, v), y, w))

Two(h, v) == Len(h[v.m_value].elements) = 2
IsSecond(h, v, m) == m = h[v.m_value].elements[2]
NewName(r, x, y, p) == p \notin DOMAIN r /\ p # x /\ p # y

LEMMA ArraysTurned ==
    ASSUME NEW h, NEW r, NEW x, NEW v, NEW y, NEW w, TwoArrays(h, r, x, v, y, w)
    PROVE  TwoArrays(h, r, y, w, x, v)
BY WithSwap DEF TwoArrays

LEMMA ArrayRoot ==
    ASSUME NEW h, NEW s, Kept(h, s), NEW x \in DOMAIN s, s[x].m_type = "array"
    PROVE  s[x].m_value \in There(h) /\ h[s[x].m_value].kind = "array"
           /\ RootOwns(s, "array", s[x].m_value)
BY RootCell DEF Allocated

(* The cells of two arrays that are roots are there, and not the same. *)
LEMMA ArraysThere ==
    ASSUME NEW h, NEW r, NEW x, NEW v, NEW y, NEW w, TwoArrays(h, r, x, v, y, w)
    PROVE  /\ v.m_value \in There(h) /\ w.m_value \in There(h) /\ v.m_value # w.m_value
           /\ h[v.m_value].kind = "array" /\ h[w.m_value].kind = "array"
           /\ h[v.m_value] # Free /\ h[w.m_value] # Free
           /\ w.m_value \in DOMAIN h
           /\ h[w.m_value] = ArrayOf(h[w.m_value].elements)
<1> DEFINE s == With(With(r, x, v), y, w)
           c == v.m_value
           d == w.m_value
<1>1. x \in DOMAIN s /\ y \in DOMAIN s /\ s[x] = v /\ s[y] = w /\ Kept(h, s) /\ x # y
  BY DEF TwoArrays, With
<1> HIDE DEF s
<1>2. c \in There(h) /\ d \in There(h) /\ h[c].kind = "array" /\ h[d].kind = "array"
  BY <1>1, ArrayRoot DEF TwoArrays
<1>3. h[c] # Free /\ h[d] # Free /\ IsCell(h[d]) /\ d \in DOMAIN h
  BY <1>1, <1>2 DEF There, Kept, IsHeap
<1>4. c # d
  <2>1. PointsTo(s[x], "array", c) /\ PointsTo(s[y], "array", d)
    BY <1>1 DEF TwoArrays, PointsTo, Allocated
  <2> QED
    BY <1>1, <2>1 DEF Kept, RootsOnce
<1> HIDE DEF c, d
<1>5. h[d] = ArrayOf(h[d].elements)
  BY <1>2, <1>3, ArrayIs
<1> QED
  BY <1>2, <1>3, <1>4, <1>5 DEF c, d

FromFirst(h, r, x, v, y, w, p, left, m) ==
    /\ TwoArrays(h, r, x, v, y, w) /\ NewName(r, x, y, p)
    /\ Two(h, v) /\ OneTaken(h, v.m_value, left) /\ IsSecond(h, v, m)

(* The second element of the first array becomes a root, or that of the other. *)
LEMMA FirstTaken ==
    ASSUME NEW h, NEW r, NEW x, NEW v, NEW y, NEW w, NEW p, NEW left, NEW m,
           FromFirst(h, r, x, v, y, w, p, left, m)
    PROVE  /\ m \in Value /\ TwoArrays(left, With(r, p, m), x, v, y, w)
           /\ \A a \in Addresses : a # v.m_value => left[a] = h[a]
<1>0. /\ TwoArrays(h, r, x, v, y, w) /\ NewName(r, x, y, p)
      /\ Two(h, v) /\ OneTaken(h, v.m_value, left) /\ IsSecond(h, v, m)
  BY DEF FromFirst
<1> DEFINE s == With(With(r, x, v), y, w)
           c == v.m_value
           es == h[c].elements
<1>1. p \notin DOMAIN s
  BY <1>0 DEF With, NewName
<1>2. Kept(h, s) /\ c \in There(h) /\ h[c].kind = "array"
  BY <1>0, ArraysThere DEF TwoArrays
<1> HIDE DEF s
<1>3. Len(es) = 2 /\ OneTaken(h, c, left) /\ es = h[c].elements
  BY <1>0 DEF Two
<1> HIDE DEF es, c
<1>4. /\ es[2] \in Value /\ Kept(left, With(s, p, es[2]))
      /\ \A a \in Addresses : a # c => left[a] = h[a]
  <2>1. Kept(h, s) /\ p \notin DOMAIN s /\ c \in There(h) /\ h[c].kind = "array"
    BY <1>1, <1>2
  <2> QED
    BY <1>3, <2>1, TakeSecond
<1>5. m = es[2]
  BY <1>0 DEF es, c, IsSecond
<1>6. Kept(left, With(With(With(r, p, m), x, v), y, w))
  <2>1. With(s, p, m) = With(With(With(r, p, m), x, v), y, w)
    BY <1>0, RootBelow DEF s, TwoArrays, NewName
  <2> QED
    BY <1>4, <1>5, <2>1
<1>7. IsRoots(With(r, p, m)) /\ DOMAIN With(r, p, m) = DOMAIN r \cup {p}
  <2>1. IsRoots(r) /\ p \notin DOMAIN r /\ m \in Value
    BY <1>0, <1>4, <1>5 DEF TwoArrays, NewName
  <2> QED
    BY <2>1, WithRoot
<1> QED
  BY <1>0, <1>4, <1>5, <1>6, <1>7 DEF c, TwoArrays, NewName

(* What List leaves of the two pairs. *)
IsLeft(h, c, d, same, left) ==
    left = [h EXCEPT ![c].elements = <<@[1]>>, ![d].elements = IF same THEN @ ELSE <<@[1]>>]

LEMMA LeftIs ==
    ASSUME NEW h, NEW c, NEW d, c # d, d \in DOMAIN h, NEW es, h[d] = ArrayOf(es),
           NEW same \in BOOLEAN, NEW left, IsLeft(h, c, d, same, left)
    PROVE  \E left1 : /\ OneTaken(h, c, left1)
                      /\ same => left = left1
                      /\ ~same => OneTaken(left1, d, left)
<1> DEFINE left1 == [h EXCEPT ![c].elements = <<@[1]>>]
<1>1. left = [left1 EXCEPT ![d].elements = IF same THEN @ ELSE <<@[1]>>]
  BY DEF IsLeft
<1>2. DOMAIN left1 = DOMAIN h /\ left1[d] = ArrayOf(es)
  OBVIOUS
<1>3. OneTaken(h, c, left1)
  BY DEF OneTaken
<1>4. left1 = [a \in DOMAIN left1 |-> left1[a]]
  OBVIOUS
<1> HIDE DEF left1
<1>5. CASE same
  <2>1. left = [left1 EXCEPT ![d].elements = @]
    BY <1>1, <1>5
  <2>2. [left1[d] EXCEPT !.elements = @] = left1[d]
    BY <1>2 DEF ArrayOf
  <2>3. left = left1
    BY <1>2, <1>4, <2>1, <2>2
  <2> QED
    BY <1>3, <1>5, <2>3
<1>6. CASE ~same
  BY <1>1, <1>3, <1>6 DEF OneTaken
<1> QED
  BY <1>5, <1>6

LEMMA SecondTaken ==
    ASSUME NEW h, NEW r, NEW x, NEW v, NEW y, NEW w, NEW q, NEW left, NEW m,
           FromFirst(h, r, y, w, x, v, q, left, m)
    PROVE  /\ m \in Value /\ TwoArrays(left, With(r, q, m), x, v, y, w)
           /\ \A a \in Addresses : a # w.m_value => left[a] = h[a]
<1>2. /\ m \in Value /\ TwoArrays(left, With(r, q, m), y, w, x, v)
      /\ \A a \in Addresses : a # w.m_value => left[a] = h[a]
  BY FirstTaken
<1> QED
  BY <1>2, ArraysTurned

IsGone(left, v, w, gone) == gone = Destroyed(Destroyed(left, v), w)

(* What is left of the arrays is destroyed. *)
LEMMA ArraysGone ==
    ASSUME NEW h, NEW r, NEW x, NEW v, NEW y, NEW w, TwoArrays(h, r, x, v, y, w),
           NEW gone, IsGone(h, v, w, gone)
    PROVE  Kept(gone, r) /\ \A a \in Addresses : h[a] = Free => gone[a] = Free
BY OnlyKept DEF TwoArrays, IsGone

(* Two pairs of one name make an object with the value of the first. *)
LEMMA SameName ==
    ASSUME NEW h, NEW r, NEW x, NEW v, NEW y, NEW w, NEW p, NEW left, NEW m,
           FromFirst(h, r, x, v, y, w, p, left, m), HasRoom(h, 1),
           NEW gone, IsGone(left, v, w, gone), NEW z, NewName(r, p, p, z),
           NEW k, NEW ms, ms = With(<<>>, k, m)
    PROVE  LET new == New(gone, ObjectOf(ms))
           IN  new.value \in Value /\ Kept(new.heap, With(r, z, new.value))
<1>1. /\ m \in Value /\ TwoArrays(left, With(r, p, m), x, v, y, w)
      /\ \A a \in Addresses : a # v.m_value => left[a] = h[a]
  BY FirstTaken
<1>2. Kept(gone, With(r, p, m)) /\ \A a \in Addresses : left[a] = Free => gone[a] = Free
  BY <1>1, ArraysGone
<1>3. HasRoom(gone, 1)
  <2>1. \A a \in Addresses : h[a] = Free => gone[a] = Free
    BY <1>1, <1>2, ArraysThere DEF FromFirst
  <2> QED
    BY <2>1, RoomStays
<1>4. IsRoots(r) /\ p \notin DOMAIN r /\ z \notin DOMAIN r /\ z # p
  BY DEF TwoArrays, NewName, FromFirst
<1> QED
  BY <1>1, <1>2, <1>3, <1>4, NewOneKept

(* Two pairs of two names make an object with both values. *)
LEMMA NamesApart ==
    ASSUME NEW h, NEW r, NEW x, NEW v, NEW y, NEW w, TwoArrays(h, r, x, v, y, w),
           Two(h, v), Two(h, w),
           NEW left1, OneTaken(h, v.m_value, left1), NEW m, IsSecond(h, v, m),
           NEW left, OneTaken(left1, w.m_value, left), NEW n, IsSecond(h, w, n),
           NEW gone, IsGone(left, v, w, gone), HasRoom(h, 1),
           NEW p, NewName(r, x, y, p), NEW q, NewName(r, x, y, q), p # q,
           NEW z, NewName(r, p, q, z),
           NEW k, NEW l, k # l, NEW one, one = With(<<>>, k, m), NEW ms, ms = With(one, l, n)
    PROVE  LET new == New(gone, ObjectOf(ms))
           IN  new.value \in Value /\ Kept(new.heap, With(r, z, new.value))
<1> DEFINE s == With(r, p, m)
<1>1. /\ m \in Value /\ TwoArrays(left1, s, x, v, y, w)
      /\ \A a \in Addresses : a # v.m_value => left1[a] = h[a]
  <2>1. FromFirst(h, r, x, v, y, w, p, left1, m)
    BY DEF FromFirst
  <2> QED
    BY <2>1, FirstTaken
<1>2. v.m_value # w.m_value /\ left1[w.m_value] = h[w.m_value]
  BY <1>1, ArraysThere DEF There
<1>3. Two(left1, w) /\ IsSecond(left1, w, n)
  BY <1>2 DEF Two, IsSecond
<1>4. NewName(s, x, y, q)
  <2>1. DOMAIN s = DOMAIN r \cup {p}
    BY DEF With
  <2> HIDE DEF s
  <2> QED
    BY <2>1 DEF NewName
<1> HIDE DEF s
<1>5. /\ n \in Value /\ TwoArrays(left, With(s, q, n), x, v, y, w)
      /\ \A a \in Addresses : a # w.m_value => left[a] = left1[a]
  <2>1. FromFirst(left1, s, y, w, x, v, q, left, n)
    <3>1. TwoArrays(left1, s, y, w, x, v)
      BY <1>1, ArraysTurned
    <3>2. NewName(s, y, x, q)
      BY <1>4 DEF NewName
    <3> QED
      BY <1>3, <3>1, <3>2 DEF FromFirst
  <2> QED
    BY <2>1, SecondTaken
<1>6. Kept(gone, With(s, q, n)) /\ \A a \in Addresses : left[a] = Free => gone[a] = Free
  BY <1>5, ArraysGone
<1>7. HasRoom(gone, 1)
  <2>1. \A a \in Addresses : h[a] = Free => gone[a] = Free
    BY <1>1, <1>5, <1>6, ArraysThere
  <2> QED
    BY <2>1, RoomStays
<1>8. /\ IsRoots(r) /\ p \notin DOMAIN r /\ q \notin DOMAIN r /\ p # q
      /\ z \notin DOMAIN r /\ z # p /\ z # q
  BY DEF TwoArrays, NewName
<1>9. Kept(gone, With(With(r, p, m), q, n))
  BY <1>6 DEF s
<1> QED
  BY <1>1, <1>5, <1>7, <1>8, <1>9, NewTwoKept

(* The two values of the list are copied. *)
LEMMA CopiedTwice ==
    ASSUME IInv, NEW j \in Names, NEW k \in Names, NEW x, x \notin Names, NEW y, y \notin Names,
           x # y, NEW one, one = Copied(heap, vals[j]), NEW two, two = Copied(one.heap, vals[k]),
           Copyable(heap, vals[j]), Copyable(one.heap, vals[k])
    PROVE  /\ one.value \in Value /\ two.value \in Value
           /\ Kept(two.heap, With(With(vals, x, one.value), y, two.value))
<1> DEFINE r == With(vals, x, one.value)
           h == one.heap
           v == vals[k]
<1>1. one.value \in Value /\ Kept(h, r)
  BY CopiedRoot
<1>2. DOMAIN r = Names \cup {x} /\ r[k] = v /\ y \notin DOMAIN r
  <2>1. DOMAIN vals = Names
    BY RootsAre
  <2> QED
    BY <2>1 DEF With
<1>3. v \in Value
  BY RootsAre
<1>4. two = Copied(h, v) /\ Copyable(h, v)
  OBVIOUS
<1> HIDE DEF r, h, v
<1>5. \A t, a : PointsTo(v, t, a) => Owns(h, r, 0, t, a)
  <2>1. k \in DOMAIN r
    BY <1>2
  <2> QED
    BY <1>2, <2>1, RootHas
<1>6. two.value \in Value /\ Kept(two.heap, With(r, y, two.value))
  BY <1>1, <1>2, <1>3, <1>4, <1>5, CopyKept
<1> QED
  BY <1>1, <1>6 DEF r

(* The members of the object a list of two pairs becomes. *)
Joined(h, v, w, k, l, ms) ==
    ms = LET one == With(<<>>, k, h[v.m_value].elements[2])
         IN  IF k = l THEN one ELSE With(one, l, h[w.m_value].elements[2])

(* Either way, the object is kept. *)
LEMMA PairsKept ==
    ASSUME NEW h, NEW r, NEW x, NEW v, NEW y, NEW w, TwoArrays(h, r, x, v, y, w),
           Two(h, v), Two(h, w), HasRoom(h, 1),
           NEW p, NewName(r, x, y, p), NEW q, NewName(r, x, y, q), p # q,
           NEW z, NewName(r, p, q, z),
           NEW k, NEW l, NEW ms, Joined(h, v, w, k, l, ms),
           NEW left, IsLeft(h, v.m_value, w.m_value, k = l, left),
           NEW gone, IsGone(left, v, w, gone)
    PROVE  LET new == New(gone, ObjectOf(ms))
           IN  new.value \in Value /\ Kept(new.heap, With(r, z, new.value))
<1> DEFINE c == v.m_value
           d == w.m_value
           m == h[c].elements[2]
           n == h[d].elements[2]
           es == h[d].elements
           one == With(<<>>, k, m)
           same == k = l
<1>1. c # d /\ d \in DOMAIN h /\ h[d] = ArrayOf(es)
  BY ArraysThere
<1>2. IsLeft(h, c, d, same, left)
  OBVIOUS
<1>3. ms = IF same THEN one ELSE With(one, l, n)
  BY DEF Joined
<1>4. IsSecond(h, v, m) /\ IsSecond(h, w, n)
  BY DEF IsSecond
<1> HIDE DEF es, m, n
<1>5. PICK left1 : OneTaken(h, c, left1) /\ (same => left = left1)
                   /\ (~same => OneTaken(left1, d, left))
  <2>1. same \in BOOLEAN
    OBVIOUS
  <2> HIDE DEF c, d, same
  <2> QED
    BY <1>1, <1>2, <2>1, LeftIs
<1>6. OneTaken(h, v.m_value, left1) /\ (~same => OneTaken(left1, w.m_value, left))
  BY <1>5
<1> HIDE DEF one, c, d, same
<1>7. CASE same
  <2>1. ms = With(<<>>, k, m) /\ left = left1
    BY <1>3, <1>5, <1>7 DEF one
  <2>2. NewName(r, p, p, z)
    BY DEF NewName
  <2>3. FromFirst(h, r, x, v, y, w, p, left, m)
    BY <1>4, <1>6, <2>1 DEF FromFirst
  <2> QED
    BY <2>1, <2>2, <2>3, SameName
<1>8. CASE ~same
  <2>1. ms = With(one, l, n) /\ one = With(<<>>, k, m) /\ k # l
    BY <1>3, <1>8 DEF one, same
  <2> QED
    BY <1>4, <1>6, <1>8, <2>1, NamesApart
<1> QED
  BY <1>7, <1>8

LEMMA ListKept ==
    ASSUME IInv, NEW i \in Names, NEW j \in Names, NEW k \in Names, List(i, j, k)
    PROVE  IInv'
<1>1. PICK x : x \notin Names
  BY Another
<1>2. PICK y : y \notin Names \cup {x}
  BY Another
<1>3. PICK p : p \notin Names \cup {x, y}
  BY Another
<1>4. PICK q : q \notin Names \cup {x, y, p}
  BY Another
<1>5. PICK z : z \notin Names \cup {x, y, p, q}
  BY Another
<1> DEFINE one == Copied(heap, vals[j])
           two == Copied(one.heap, vals[k])
           h == two.heap
           v == one.value
           w == two.value
           pair(f) == h[f.m_value].elements
           name(f) == h[pair(f)[1].m_value].text
           both == NamesValue(h, v) /\ NamesValue(h, w)
           same == name(v) = name(w)
           new == New(h, ArrayOf(<<v, w>>))
           ms == LET first == With(<<>>, name(v), pair(v)[2])
                 IN  IF same THEN first ELSE With(first, name(w), pair(w)[2])
           left == [h EXCEPT ![v.m_value].elements = <<@[1]>>,
                             ![w.m_value].elements = IF same THEN @ ELSE <<@[1]>>]
           gone == Destroyed(Destroyed(left, v), w)
           object == New(gone, ObjectOf(ms))
           made == IF both THEN object ELSE new
<1>6. /\ Copyable(heap, vals[j]) /\ Copyable(one.heap, vals[k]) /\ HasRoom(h, 1)
      /\ Becomes(i, made.value, Destroyed(made.heap, vals[i]))
  BY DEF List
<1>7. v \in Value /\ w \in Value /\ Kept(h, With(With(vals, x, v), y, w))
  <2>1. x \notin Names /\ y \notin Names /\ x # y
    BY <1>1, <1>2
  <2> HIDE DEF one
  <2>2. one = Copied(heap, vals[j])
    BY DEF one
  <2> HIDE DEF two
  <2>3. two = Copied(one.heap, vals[k])
    BY DEF two
  <2> QED
    BY <1>6, <2>1, <2>2, <2>3, CopiedTwice
<1>8. DOMAIN vals = Names /\ IsRoots(vals)
  BY RootsAre
<1>9. new = New(h, ArrayOf(<<v, w>>))
  OBVIOUS
<1> HIDE DEF one, two, object, new
<1>10. CASE ~both
  <2>1. made = new
    BY <1>10
  <2>2. new.value \in Value /\ Kept(new.heap, With(vals, z, new.value))
    <3>1. x \notin DOMAIN vals /\ y \notin DOMAIN vals /\ x # y
          /\ z \notin DOMAIN vals /\ z # x /\ z # y
      BY <1>1, <1>2, <1>5, <1>8
    <3> HIDE DEF h, v, w
    <3> QED
      BY <1>6, <1>7, <1>8, <1>9, <3>1, NewPairKept
  <2> HIDE DEF made
  <2> QED
    BY <1>5, <1>6, <2>1, <2>2, AssignedKept
<1>11. CASE both
  <2>1. made = object
    BY <1>11
  <2>2. object.value \in Value /\ Kept(object.heap, With(vals, z, object.value))
    <3>1. x \notin DOMAIN vals /\ y \notin DOMAIN vals /\ x # y
      BY <1>1, <1>2, <1>8
    <3>2. NewName(vals, x, y, p) /\ NewName(vals, x, y, q) /\ p # q /\ NewName(vals, p, q, z)
      BY <1>3, <1>4, <1>5, <1>8 DEF NewName
    <3>3. /\ v.m_type = "array" /\ w.m_type = "array" /\ Two(h, v) /\ Two(h, w)
      BY <1>11 DEF NamesValue, Two
    <3>4. TwoArrays(h, vals, x, v, y, w)
      <4> HIDE DEF h, v, w
      <4> QED
        BY <1>7, <1>8, <3>1, <3>3 DEF TwoArrays
    <3>5. IsGone(left, v, w, gone)
      BY DEF IsGone
    <3>6. HasRoom(h, 1)
      BY <1>6
    <3> DEFINE k1 == name(v)
               k2 == name(w)
    <3>8. Joined(h, v, w, k1, k2, ms)
      BY DEF Joined
    <3>9. IsLeft(h, v.m_value, w.m_value, k1 = k2, left)
      BY DEF IsLeft
    <3> HIDE DEF h, v, w, k1, k2, same, ms, left, gone
    <3>10. LET obj == New(gone, ObjectOf(ms))
           IN  obj.value \in Value /\ Kept(obj.heap, With(vals, z, obj.value))
      BY <3>2, <3>3, <3>4, <3>5, <3>6, <3>8, <3>9, PairsKept
    <3> QED
      BY <3>10 DEF object
  <2> HIDE DEF made
  <2> QED
    BY <1>5, <1>6, <2>1, <2>2, AssignedKept
<1> QED
  BY <1>10, <1>11

(* The invariant holds at first, and every step keeps it. *)
LEMMA InitKept == ASSUME Init PROVE IInv
<1>1. vals \in [Names -> Value] /\ \A i \in Names : vals[i] = Null
  BY NullIsPlain DEF Init
<1>2. DOMAIN heap = Addresses /\ \A a \in Addresses : heap[a] = Free
  BY DEF Init, EmptyHeap
<1>3. IsHeap(heap) /\ There(heap) = {}
  BY <1>2, FreeCell DEF IsHeap, There
<1>4. IsRoots(vals) /\ \A t, a : ~RootOwns(vals, t, a)
  BY <1>1, NullIsPlain DEF IsRoots, RootOwns, PlainValue
<1>5. RootsOnce(vals)
  BY <1>1, NullIsPlain DEF RootsOnce, PlainValue
<1>6. \A b, t, a : ~Owns(heap, vals, b, t, a)
  BY <1>2, <1>4, FreeOwnsNothing DEF Owns
<1>7. Graph(heap, vals)
  BY <1>3, <1>6 DEF Graph, Sound, Unique, Reached
<1> QED
  BY <1>1, <1>3, <1>4, <1>5, <1>7 DEF IInv, Kept

LEMMA NextKept == ASSUME IInv, [Next]_vars PROVE IInv'
<1>0. 0 .. (MaxHeld - 1) \subseteq Nat
  BY BoundsAreNumbers
<1>1. ASSUME NEW i \in Names, NEW s \in Scalars \cup {StringOf(k) : k \in Texts}, Set(i, s)
      PROVE  IInv'
  BY <1>1, SetKept
<1>2. ASSUME NEW i \in Names, Clear(i) PROVE IInv'
  BY <1>2, ClearKept
<1>3. ASSUME NEW i \in Names, EraseAll(i) PROVE IInv'
  BY <1>3, EraseAllKept
<1>4. ASSUME NEW i \in Names, NEW k \in Keys, EraseKey(i, k) PROVE IInv'
  BY <1>4, EraseKeyKept
<1>5. ASSUME NEW i \in Names, NEW n \in 0 .. (MaxHeld - 1), EraseIndex(i, n) PROVE IInv'
  BY <1>0, <1>5, EraseIndexKept
<1>6. ASSUME NEW i \in Names, NEW j \in Names,
             \/ Assign(i, j) \/ Move(i, j) \/ Swap(i, j) \/ PushBack(i, j) \/ PushBackMoved(i, j)
      PROVE  IInv'
  BY <1>6, AssignKeeps, MoveKept, SwapKept, PushBackKept, PushBackMovedKept
<1>7. ASSUME NEW i \in Names, NEW j \in Names, NEW k \in Keys, Member(i, k, j) \/ AtKey(i, j, k)
      PROVE  IInv'
  BY <1>7, MemberKept, AtKeyKept
<1>8. ASSUME NEW i \in Names, NEW j \in Names, NEW k \in Keys, NEW id \in {308, 311},
             InsertPair(i, k, j, id)
      PROVE  IInv'
  BY <1>8, InsertPairKept
<1>9. ASSUME NEW i \in Names, NEW j \in Names, NEW n \in 0 .. (MaxHeld - 1),
             \/ Element(i, n, j) \/ AtIndex(i, j, n) \/ Insert(i, n, j) \/ InsertRange(i, n, j)
      PROVE  IInv'
  BY <1>0, <1>9, ElementKept, AtIndexKept, InsertKept, InsertRangeKept
<1>10. ASSUME NEW i \in Names, NEW j \in Names, NEW k \in Names, List(i, j, k) PROVE IInv'
  BY <1>10, ListKept
<1>11. CASE UNCHANGED vars
  BY <1>11 DEF vars, IInv
<1>12. ASSUME NEW i \in Names,
              \/ \E s \in Scalars \cup {StringOf(k) : k \in Texts} :
                   Called(<<"Set", i, s>>) /\ Set(i, s)
              \/ Called(<<"Clear", i>>) /\ Clear(i)
              \/ Called(<<"EraseAll", i>>) /\ EraseAll(i)
              \/ \E k \in Keys : Called(<<"EraseKey", i, k>>) /\ EraseKey(i, k)
              \/ \E n \in 0 .. (MaxHeld - 1) : Called(<<"EraseIndex", i, n>>) /\ EraseIndex(i, n)
       PROVE  IInv'
  BY <1>12, <1>1, <1>2, <1>3, <1>4, <1>5
<1>13. ASSUME NEW i \in Names, NEW j \in Names,
              \/ Called(<<"Assign", i, j>>) /\ Assign(i, j)
              \/ Called(<<"Move", i, j>>) /\ Move(i, j)
              \/ Called(<<"Swap", i, j>>) /\ Swap(i, j)
              \/ Called(<<"PushBack", i, j>>) /\ PushBack(i, j)
              \/ Called(<<"PushBackMoved", i, j>>) /\ PushBackMoved(i, j)
              \/ \E k \in Keys :
                   \/ Called(<<"Member", i, k, j>>) /\ Member(i, k, j)
                   \/ Called(<<"AtKey", i, j, k>>) /\ AtKey(i, j, k)
                   \/ \E id \in {308, 311} :
                        Called(<<"InsertPair", i, k, j, id>>) /\ InsertPair(i, k, j, id)
              \/ \E n \in 0 .. (MaxHeld - 1) :
                   \/ Called(<<"Element", i, n, j>>) /\ Element(i, n, j)
                   \/ Called(<<"AtIndex", i, j, n>>) /\ AtIndex(i, j, n)
                   \/ Called(<<"Insert", i, n, j>>) /\ Insert(i, n, j)
                   \/ Called(<<"InsertRange", i, n, j>>) /\ InsertRange(i, n, j)
              \/ \E k \in Names : Called(<<"List", i, j, k>>) /\ List(i, j, k)
       PROVE  IInv'
  <2>1. CASE \E k \in Keys :
               \/ Called(<<"Member", i, k, j>>) /\ Member(i, k, j)
               \/ Called(<<"AtKey", i, j, k>>) /\ AtKey(i, j, k)
               \/ \E id \in {308, 311} :
                    Called(<<"InsertPair", i, k, j, id>>) /\ InsertPair(i, k, j, id)
    BY <2>1, <1>7, <1>8
  <2>2. CASE \E n \in 0 .. (MaxHeld - 1) :
               \/ Called(<<"Element", i, n, j>>) /\ Element(i, n, j)
               \/ Called(<<"AtIndex", i, j, n>>) /\ AtIndex(i, j, n)
               \/ Called(<<"Insert", i, n, j>>) /\ Insert(i, n, j)
               \/ Called(<<"InsertRange", i, n, j>>) /\ InsertRange(i, n, j)
    BY <2>2, <1>9
  <2>3. CASE \E k \in Names : Called(<<"List", i, j, k>>) /\ List(i, j, k)
    BY <2>3, <1>10
  <2>4. CASE Assign(i, j) \/ Move(i, j) \/ Swap(i, j) \/ PushBack(i, j) \/ PushBackMoved(i, j)
    BY <2>4, <1>6
  <2> QED
    BY <1>13, <2>1, <2>2, <2>3, <2>4, ZenonT(60)
<1>14. CASE Next
  BY <1>12, <1>13, <1>14, ZenonT(60) DEF Next
<1> QED
  BY <1>11, <1>14

(* Every variable and every cell is a value. *)
TypeOK == vals \in [Names -> Value] /\ IsHeap(heap)

(***************************************************************************)
(* Every variable holds a value and every cell what its type says,         *)
(* whatever calls of basic_json a client makes.                            *)
(***************************************************************************)
THEOREM TypeCorrect == Spec => []TypeOK
<1>1. IInv => TypeOK
  BY DEF IInv, Kept, TypeOK
<1> QED
  BY <1>1, InitKept, NextKept, PTL DEF Spec

(***************************************************************************)
(* Each object, array and string belongs to one value and can be got at    *)
(* from a variable, whatever calls of basic_json a client makes: nothing   *)
(* is freed twice, and nothing is lost.                                    *)
(***************************************************************************)
THEOREM OwnedOnceHolds == Spec => []OwnedOnce
<1>1. IInv => OwnedOnce
  BY KeptIsSingle DEF IInv, OwnedOnce
<1> QED
  BY <1>1, InitKept, NextKept, PTL DEF Spec
=============================================================================
