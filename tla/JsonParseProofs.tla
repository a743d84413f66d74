--------------------------- MODULE JsonParseProofs ---------------------------
(***************************************************************************)
(* Proofs about JsonParse, for all texts, tokens and addresses: every      *)
(* object, array and string has one owner, also while an exception leaves  *)
(* the activations.                                                        *)
(***************************************************************************)
EXTENDS JsonParse, FiniteSetTheorems, SequenceTheorems, TLAPS

-----------------------------------------------------------------------------
(* Heaps, as a relation between places and addresses. *)

(* A value of an allocated type t at address a. *)
PointsTo(v, t, a) == t \in Allocated /\ v.m_type = t /\ v.m_value = a

(* Place k of the cell at b, or of the roots if b is 0, owns a, of type t. *)
Points(h, r, b, k, t, a) ==
    \/ b = 0 /\ k \in DOMAIN r /\ PointsTo(r[k], t, a)
    \/ b \in Addresses /\ k \in Slots(h[b]) /\ PointsTo(HeldIn(h[b], k), t, a)

(* What is owned is there and of its type. *)
Sound(h, r) ==
    \A b, k, t, a : Points(h, r, b, k, t, a) => a \in There(h) /\ h[a].kind = t

(* No two places own one address. *)
Unique(h, r) ==
    \A b, k, t, c, l, u, a :
        Points(h, r, b, k, t, a) /\ Points(h, r, c, l, u, a) => b = c /\ k = l

(* A part of the heap that nothing in it, and no root, points out of. *)
ClosedIn(h, r, S) ==
    \A b, k, t, a : Points(h, r, b, k, t, a) /\ (b = 0 \/ b \in S) => a \in S

(* The roots lead everywhere. *)
Reached(h, r) ==
    \A S \in SUBSET There(h) : ClosedIn(h, r, S) => There(h) \subseteq S

Kept(h, r) == Sound(h, r) /\ Unique(h, r) /\ Reached(h, r)

LEMMA ZeroIsNone == 0 \notin Addresses
BY AddressesAreNumbers

LEMMA KindThere ==
    ASSUME NEW h, NEW a \in Addresses, h[a].kind \in Allocated
    PROVE  a \in There(h)
<1>1. Free.kind = "free"
  BY DEF Free
<1> QED
  BY <1>1 DEF There, Allocated

(* Nothing is changed but values that own nothing. *)
LEMMA SameKept ==
    ASSUME NEW h, NEW r, NEW h1, NEW r1, Kept(h, r),
           There(h1) = There(h), \A a \in There(h) : h1[a].kind = h[a].kind,
           \A b, k, t, a : Points(h1, r1, b, k, t, a) <=> Points(h, r, b, k, t, a)
    PROVE  Kept(h1, r1)
<1>1. Sound(h1, r1)
  BY DEF Kept, Sound
<1>2. Unique(h1, r1)
  BY DEF Kept, Unique
<1>3. Reached(h1, r1)
  BY DEF Kept, Reached, ClosedIn
<1> QED
  BY <1>1, <1>2, <1>3 DEF Kept

(***************************************************************************)
(* What place (b0, k0) owned is now owned by (c0, l0), which is a root or  *)
(* a place of what another root owns.                                      *)
(***************************************************************************)
Moved(h, r, h1, r1, b0, k0, c0, l0) ==
    /\ There(h1) = There(h) /\ \A a \in There(h) : h1[a].kind = h[a].kind
    /\ \A b, k, t, a : Points(h1, r1, b, k, t, a) <=>
           \/ Points(h, r, b, k, t, a) /\ ~(b = b0 /\ k = k0)
           \/ b = c0 /\ k = l0 /\ Points(h, r, b0, k0, t, a)
    /\ c0 = 0 \/ \E k, t : Points(h, r, 0, k, t, c0) /\ ~(b0 = 0 /\ k = k0)

LEMMA MovedKept ==
    ASSUME NEW h, NEW r, NEW h1, NEW r1, Kept(h, r),
           NEW b0, NEW k0, NEW c0, NEW l0, Moved(h, r, h1, r1, b0, k0, c0, l0)
    PROVE  Kept(h1, r1)
<1> USE DEF Moved
<1>1. Sound(h1, r1)
  BY DEF Kept, Sound
<1>2. Unique(h1, r1)
  BY DEF Kept, Unique
<1>3. Reached(h1, r1)
  <2> SUFFICES ASSUME NEW S \in SUBSET There(h), ClosedIn(h1, r1, S)
               PROVE  There(h) \subseteq S
    BY DEF Reached
  <2>1. c0 = 0 \/ c0 \in S
    BY DEF ClosedIn
  <2>2. ClosedIn(h, r, S)
    <3> SUFFICES ASSUME NEW b, NEW k, NEW t, NEW a, Points(h, r, b, k, t, a), b = 0 \/ b \in S
                 PROVE  a \in S
      BY DEF ClosedIn
    <3>1. CASE b = b0 /\ k = k0
      BY <2>1, <3>1 DEF ClosedIn
    <3>2. CASE ~(b = b0 /\ k = k0)
      BY <3>2 DEF ClosedIn
    <3> QED
      BY <3>1, <3>2
  <2> QED
    BY <2>2 DEF Kept, Reached
<1> QED
  BY <1>1, <1>2, <1>3 DEF Kept

(* A root k0 owns the new cell at a0. *)
Added(h, r, h1, r1, a0, k0, t0) ==
    /\ a0 \notin There(h) /\ There(h1) = There(h) \cup {a0}
    /\ \A a \in There(h) : h1[a].kind = h[a].kind
    /\ h1[a0].kind = t0
    /\ \A b, k, t, a : Points(h1, r1, b, k, t, a) <=>
           Points(h, r, b, k, t, a) \/ (b = 0 /\ k = k0 /\ t = t0 /\ a = a0)

LEMMA AddedKept ==
    ASSUME NEW h, NEW r, NEW h1, NEW r1, Kept(h, r),
           NEW a0, NEW k0, NEW t0, Added(h, r, h1, r1, a0, k0, t0)
    PROVE  Kept(h1, r1)
<1> USE DEF Added
<1>1. Sound(h1, r1)
  BY DEF Kept, Sound
<1>2. Unique(h1, r1)
  BY DEF Kept, Unique, Sound
<1>3. Reached(h1, r1)
  <2> SUFFICES ASSUME NEW S \in SUBSET There(h1), ClosedIn(h1, r1, S)
               PROVE  There(h1) \subseteq S
    BY DEF Reached
  <2>1. a0 \in S
    BY DEF ClosedIn
  <2>2. ClosedIn(h, r, S \ {a0})
    <3> SUFFICES ASSUME NEW b, NEW k, NEW t, NEW a, Points(h, r, b, k, t, a),
                        b = 0 \/ b \in S \ {a0}
                 PROVE  a \in S \ {a0}
      BY DEF ClosedIn
    <3>1. a \in S
      <4>1. Points(h1, r1, b, k, t, a) /\ (b = 0 \/ b \in S)
        OBVIOUS
      <4> QED
        BY <4>1 DEF ClosedIn
    <3>2. a \in There(h)
      BY DEF Kept, Sound
    <3> QED
      BY <3>1, <3>2
  <2>3. There(h) \subseteq S \ {a0}
    BY <2>2 DEF Kept, Reached
  <2> QED
    BY <2>1, <2>3
<1> QED
  BY <1>1, <1>2, <1>3 DEF Kept

(***************************************************************************)
(* G is what can be got at from place (b0, k0): nothing else points into   *)
(* it but its own cells.                                                   *)
(***************************************************************************)
PartOf(h, r, b0, k0, G) ==
    /\ G \subseteq There(h)
    /\ \A t, a : Points(h, r, b0, k0, t, a) => a \in G
    /\ \A b, k, t, a : Points(h, r, b, k, t, a) /\ b \in G => a \in G
    /\ \A b, k, t, a : Points(h, r, b, k, t, a) /\ a \in G => b \in G \/ (b = b0 /\ k = k0)

(* What is in G is gone, and what place (b0, k0) held. *)
Removed(h, r, h1, r1, b0, k0, G) ==
    /\ PartOf(h, r, b0, k0, G)
    /\ There(h1) = There(h) \ G /\ \A a \in There(h1) : h1[a].kind = h[a].kind
    /\ \A b, k, t, a : Points(h1, r1, b, k, t, a) <=>
           Points(h, r, b, k, t, a) /\ ~(b = b0 /\ k = k0) /\ b \notin G

LEMMA RemovedKept ==
    ASSUME NEW h, NEW r, NEW h1, NEW r1, Kept(h, r),
           NEW b0, NEW k0, NEW G, Removed(h, r, h1, r1, b0, k0, G)
    PROVE  Kept(h1, r1)
<1> USE DEF Removed
<1>1. Sound(h1, r1)
  BY DEF Kept, Sound, PartOf
<1>2. Unique(h1, r1)
  BY DEF Kept, Unique
<1>3. Reached(h1, r1)
  <2> SUFFICES ASSUME NEW S \in SUBSET There(h1), ClosedIn(h1, r1, S)
               PROVE  There(h1) \subseteq S
    BY DEF Reached
  <2>1. ClosedIn(h, r, S \cup G)
    <3> SUFFICES ASSUME NEW b, NEW k, NEW t, NEW a, Points(h, r, b, k, t, a),
                        b = 0 \/ b \in S \cup G
                 PROVE  a \in S \cup G
      BY DEF ClosedIn
    <3>1. CASE b \in G \/ (b = b0 /\ k = k0)
      BY <3>1 DEF PartOf
    <3>2. CASE b \notin G /\ ~(b = b0 /\ k = k0)
      BY <3>2 DEF ClosedIn
    <3> QED
      BY <3>1, <3>2
  <2>2. S \cup G \subseteq There(h)
    BY DEF PartOf
  <2>3. There(h) \subseteq S \cup G
    BY <2>1, <2>2 DEF Kept, Reached
  <2> QED
    BY <2>3
<1> QED
  BY <1>1, <1>2, <1>3 DEF Kept

-----------------------------------------------------------------------------
(* The relation, and the operators of JsonHeap. *)

LEMMA OwnedPoint ==
    ASSUME NEW values, NEW a
    PROVE  a \in Owned(values) <=> \E t : \E v \in values : PointsTo(v, t, a)
BY DEF Owned, PointsTo

LEMMA LinksPoint ==
    ASSUME NEW h, NEW r, NEW b \in There(h), NEW a
    PROVE  <<b, a>> \in Links(h) <=> \E k, t : Points(h, r, b, k, t, a)
<1>1. b \in Addresses /\ b # 0
  BY ZeroIsNone DEF There
<1>2. <<b, a>> \in Links(h) <=> a \in Owned(Children(h[b]))
  BY DEF Links
<1>3. a \in Owned(Children(h[b])) <=> \E t : \E v \in Children(h[b]) : PointsTo(v, t, a)
  BY OwnedPoint
<1>4. (\E t : \E v \in Children(h[b]) : PointsTo(v, t, a))
        <=> \E t : \E k \in Slots(h[b]) : PointsTo(HeldIn(h[b], k), t, a)
  BY DEF Children
<1> QED
  BY <1>1, <1>2, <1>3, <1>4 DEF Points

(* What Reach goes through. *)
Closures(h, values) ==
    {S \in SUBSET There(h) :
       /\ Owned(values) \cap There(h) \subseteq S
       /\ \A l \in Links(h) : l[1] \in S /\ l[2] \in There(h) => l[2] \in S}

LEMMA ReachParts ==
    ASSUME NEW h, NEW values
    PROVE  Reach(h, values) = {a \in There(h) : \A S \in Closures(h, values) : a \in S}
BY DEF Reach, Closures

LEMMA PartsClosed ==
    ASSUME NEW h, NEW r, Sound(h, r), NEW values, NEW S \in Closures(h, values),
           NEW b \in S, NEW k, NEW t, NEW a, Points(h, r, b, k, t, a)
    PROVE  a \in S
<1>1. b \in There(h) /\ a \in There(h)
  BY DEF Closures, Sound
<1>2. <<b, a>> \in Links(h)
  BY <1>1, LinksPoint
<1> QED
  BY <1>1, <1>2 DEF Closures

(* What is reached from the value at a place is what only that place leads to. *)
LEMMA ReachIsPart ==
    ASSUME NEW h, NEW r, Kept(h, r), NEW b0, NEW k0, NEW v,
           \A t, a : Points(h, r, b0, k0, t, a) <=> PointsTo(v, t, a)
    PROVE  PartOf(h, r, b0, k0, Reach(h, {v}))
<1> DEFINE G == Reach(h, {v})
<1>1. G = {a \in There(h) : \A S \in Closures(h, {v}) : a \in S}
  BY ReachParts
<1> HIDE DEF G
<1>2. G \subseteq There(h)
  BY <1>1
<1>3. ASSUME NEW t, NEW a, Points(h, r, b0, k0, t, a)
      PROVE  a \in G
  <2>1. a \in There(h)
    BY <1>3 DEF Kept, Sound
  <2>2. a \in Owned({v})
    BY <1>3, OwnedPoint
  <2> QED
    BY <1>1, <2>1, <2>2 DEF Closures
<1>4. ASSUME NEW b, NEW k, NEW t, NEW a, Points(h, r, b, k, t, a), b \in G
      PROVE  a \in G
  <2>1. a \in There(h)
    BY <1>4 DEF Kept, Sound
  <2>2. ASSUME NEW S \in Closures(h, {v}) PROVE a \in S
    BY <1>1, <1>4, <2>2, PartsClosed DEF Kept
  <2> QED
    BY <1>1, <2>1, <2>2
<1>5. ASSUME NEW b, NEW k, NEW t, NEW a, Points(h, r, b, k, t, a), a \in G
      PROVE  b \in G \/ (b = b0 /\ k = k0)
  <2> DEFINE S == {c \in G : \A d, l, u : Points(h, r, d, l, u, c) =>
                                            d \in G \/ (d = b0 /\ l = k0)}
  <2>1. Owned({v}) \cap There(h) \subseteq S
    <3> SUFFICES ASSUME NEW c \in Owned({v}) PROVE c \in S
      OBVIOUS
    <3>1. PICK u : Points(h, r, b0, k0, u, c)
      BY OwnedPoint
    <3>2. c \in G
      BY <1>3, <3>1
    <3> QED
      BY <3>1, <3>2 DEF Kept, Unique
  <2>2. ASSUME NEW l \in Links(h), l[1] \in S, l[2] \in There(h)
        PROVE  l[2] \in S
    <3>1. l[1] \in There(h) /\ l = <<l[1], l[2]>>
      BY <2>2 DEF Links
    <3>2. PICK j, u : Points(h, r, l[1], j, u, l[2])
      BY <3>1, LinksPoint
    <3>3. l[1] \in G
      BY <2>2
    <3>4. l[2] \in G
      BY <1>4, <3>2, <3>3
    <3> QED
      BY <3>2, <3>3, <3>4 DEF Kept, Unique
  <2>3. S \in Closures(h, {v})
    BY <1>2, <2>1, <2>2 DEF Closures
  <2>4. a \in S
    BY <1>1, <1>5, <2>3
  <2> QED
    BY <1>5, <2>4
<1> QED
  BY <1>2, <1>3, <1>4, <1>5 DEF PartOf, G

(* Where every address is owned once and reached, SingleOwner holds. *)
LEMMA KeptIsSingle ==
    ASSUME NEW h, NEW r, Kept(h, r)
    PROVE  SingleOwner(h, r)
<1> DEFINE owners(a) == {p \in Places(h, r) :
                          LET v == HeldAt(h, r, p)
                          IN  v.m_type \in Allocated /\ v.m_value = a}
<1>1. ASSUME NEW a, NEW p \in owners(a)
      PROVE  /\ p = <<p[1], p[2]>>
             /\ Points(h, r, p[1], p[2], HeldAt(h, r, p).m_type, a)
  BY ZeroIsNone DEF Places, HeldAt, Points, PointsTo
<1>2. ASSUME NEW a, NEW b, NEW k, NEW t, Points(h, r, b, k, t, a)
      PROVE  <<b, k>> \in owners(a)
  BY <1>2, ZeroIsNone DEF Places, HeldAt, Points, PointsTo
<1> HIDE DEF owners
<1>3. ASSUME NEW a \in Addresses, h[a] = Free
      PROVE  owners(a) = {}
  BY <1>1, <1>3 DEF Kept, Sound, There
<1>4. ASSUME NEW a \in Addresses, h[a] # Free
      PROVE  Cardinality(owners(a)) = 1
  <2>1. a \in There(h)
    BY <1>4 DEF There
  <2>2. PICK b, k, t : Points(h, r, b, k, t, a)
    <3> SUFFICES ASSUME \A b, k, t : ~Points(h, r, b, k, t, a) PROVE FALSE
      OBVIOUS
    <3>1. ClosedIn(h, r, There(h) \ {a})
      BY DEF ClosedIn, Kept, Sound
    <3> QED
      BY <2>1, <3>1 DEF Kept, Reached
  <2>3. owners(a) = {<<b, k>>}
    <3>1. <<b, k>> \in owners(a)
      BY <1>2, <2>2
    <3>2. ASSUME NEW p \in owners(a) PROVE p = <<b, k>>
      BY <1>1, <2>2, <3>2 DEF Kept, Unique
    <3> QED
      BY <3>1, <3>2
  <2> QED
    BY <2>3, FS_Singleton
<1>5. ASSUME NEW a \in Addresses, NEW p \in owners(a)
      PROVE  HeldAt(h, r, p).m_type = h[a].kind
  BY <1>1, <1>5 DEF Kept, Sound
<1>6. There(h) \subseteq Reach(h, Range(r))
  <2> SUFFICES ASSUME NEW S \in Closures(h, Range(r)) PROVE There(h) \subseteq S
    BY ReachParts
  <2>1. ClosedIn(h, r, S)
    <3> SUFFICES ASSUME NEW b, NEW k, NEW t, NEW a, Points(h, r, b, k, t, a),
                        b = 0 \/ b \in S
                 PROVE  a \in S
      BY DEF ClosedIn
    <3>1. CASE b \in S
      BY <3>1, PartsClosed DEF Kept
    <3>2. CASE b = 0
      <4>1. k \in DOMAIN r /\ PointsTo(r[k], t, a)
        BY <3>2, ZeroIsNone DEF Points
      <4>2. a \in Owned(Range(r))
        BY <4>1, OwnedPoint DEF Range
      <4>3. a \in There(h)
        BY DEF Kept, Sound
      <4> QED
        BY <4>2, <4>3 DEF Closures
    <3> QED
      BY <3>1, <3>2
  <2> QED
    BY <2>1 DEF Kept, Reached, Closures
<1> QED
  BY <1>3, <1>4, <1>5, <1>6 DEF SingleOwner, owners

-----------------------------------------------------------------------------
(* The results of the activations, and the value returned. *)

ResultsOf(fs, v) == [i \in DOMAIN fs |-> fs[i].result] \o <<v>>

(* Place k of the results owns a. *)
Owner(fs, v, k, t, a) ==
    \/ k \in 1 .. Len(fs) /\ PointsTo(fs[k].result, t, a)
    \/ k = Len(fs) + 1 /\ PointsTo(v, t, a)

(* It is the result of an activation that is not the innermost. *)
Outer(fs, k, t, a) == k \in 1 .. Len(fs) - 1 /\ PointsTo(fs[k].result, t, a)

(* Place k of the cell at b owns a. *)
CellAt(h, b, k, t, a) ==
    b \in Addresses /\ k \in Slots(h[b]) /\ PointsTo(HeldIn(h[b], k), t, a)

LEMMA PointsOf ==
    ASSUME NEW h, NEW fs \in Seq(Frame), NEW v \in Value
    PROVE  \A b, k, t, a : Points(h, ResultsOf(fs, v), b, k, t, a) <=>
               (b = 0 /\ Owner(fs, v, k, t, a)) \/ CellAt(h, b, k, t, a)
<1> DEFINE rs == [i \in DOMAIN fs |-> fs[i].result]
           all == rs \o <<v>>
<1>1. PICK n \in Nat : n = Len(fs) /\ DOMAIN fs = 1 .. n
  BY LenProperties
<1>2. \A i \in 1 .. n : rs[i] = fs[i].result /\ rs[i] \in Value
  <2>1. \A i \in 1 .. n : fs[i] \in Frame
    BY <1>1, ElementOfSeq
  <2> QED
    BY <1>1, <2>1 DEF Frame
<1>3. rs \in Seq(Value) /\ Len(rs) = n
  BY <1>1, <1>2
<1>4. <<v>> \in Seq(Value) /\ Len(<<v>>) = 1 /\ <<v>>[1] = v
  OBVIOUS
<1> HIDE DEF rs
<1>5. /\ all \in Seq(Value) /\ Len(all) = n + 1
      /\ \A i \in 1 .. n + 1 : all[i] = IF i <= n THEN rs[i] ELSE <<v>>[i - n]
  BY <1>3, <1>4, ConcatProperties
<1>6. DOMAIN all = 1 .. n + 1
  BY <1>5, LenProperties
<1>7. \A i \in 1 .. n : all[i] = fs[i].result
  BY <1>2, <1>5
<1>8. all[n + 1] = v
  BY <1>4, <1>5
<1> HIDE DEF all
<1>9. \A k, t, a : k \in DOMAIN all /\ PointsTo(all[k], t, a) <=> Owner(fs, v, k, t, a)
  <2> SUFFICES ASSUME NEW k, NEW t, NEW a
               PROVE  k \in DOMAIN all /\ PointsTo(all[k], t, a) <=> Owner(fs, v, k, t, a)
    OBVIOUS
  <2>1. k \in DOMAIN all <=> k \in 1 .. n \/ k = n + 1
    BY <1>6
  <2> QED
    BY <1>1, <1>7, <1>8, <2>1 DEF Owner
<1>10. ResultsOf(fs, v) = all
  BY DEF ResultsOf, all, rs
<1> QED
  BY <1>9, <1>10 DEF Points, CellAt

(* What owns what after the innermost activation is changed, left or another called. *)
LEMMA FramesOwn ==
    ASSUME NEW fs \in Seq(Frame), fs # <<>>
    PROVE  /\ Len(fs) \in Nat /\ Last(fs) \in Frame
           /\ \A v, k, t, a : Owner(fs, v, k, t, a) <=>
                 \/ Outer(fs, k, t, a)
                 \/ k = Len(fs) /\ PointsTo(Last(fs).result, t, a)
                 \/ k = Len(fs) + 1 /\ PointsTo(v, t, a)
           /\ Front(fs) \in Seq(Frame)
           /\ \A v, k, t, a : Owner(Front(fs), v, k, t, a) <=>
                 \/ Outer(fs, k, t, a)
                 \/ k = Len(fs) /\ PointsTo(v, t, a)
           /\ \A f \in Frame :
                 /\ Append(Front(fs), f) \in Seq(Frame)
                 /\ \A v, k, t, a : Owner(Append(Front(fs), f), v, k, t, a) <=>
                       \/ Outer(fs, k, t, a)
                       \/ k = Len(fs) /\ PointsTo(f.result, t, a)
                       \/ k = Len(fs) + 1 /\ PointsTo(v, t, a)
           /\ \A f, g \in Frame :
                 /\ Append(Append(Front(fs), f), g) \in Seq(Frame)
                 /\ \A v, k, t, a : Owner(Append(Append(Front(fs), f), g), v, k, t, a) <=>
                       \/ Outer(fs, k, t, a)
                       \/ k = Len(fs) /\ PointsTo(f.result, t, a)
                       \/ k = Len(fs) + 1 /\ PointsTo(g.result, t, a)
                       \/ k = Len(fs) + 2 /\ PointsTo(v, t, a)
<1>1. PICK n \in Nat : n = Len(fs) /\ n # 0
  BY EmptySeq
<1> DEFINE below == Front(fs)
<1>2. /\ below \in Seq(Frame) /\ Len(below) = n - 1
      /\ \A i \in 1 .. n - 1 : below[i] = fs[i]
  BY <1>1, SubSeqProperties, ElementOfSeq DEF Front
<1>3. Last(fs) = fs[n] /\ fs[n] \in Frame
  BY <1>1, ElementOfSeq DEF Last
<1> HIDE DEF below
<1>4. ASSUME NEW f \in Frame
      PROVE  /\ Append(below, f) \in Seq(Frame) /\ Len(Append(below, f)) = n
             /\ \A i \in 1 .. n - 1 : Append(below, f)[i] = fs[i]
             /\ Append(below, f)[n] = f
  BY <1>1, <1>2, AppendProperties
<1>5. ASSUME NEW f \in Frame, NEW g \in Frame
      PROVE  /\ Append(Append(below, f), g) \in Seq(Frame)
             /\ Len(Append(Append(below, f), g)) = n + 1
             /\ \A i \in 1 .. n - 1 : Append(Append(below, f), g)[i] = fs[i]
             /\ Append(Append(below, f), g)[n] = f
             /\ Append(Append(below, f), g)[n + 1] = g
  <2> DEFINE s == Append(below, f)
  <2>1. s \in Seq(Frame) /\ Len(s) = n /\ s[n] = f /\ \A i \in 1 .. n - 1 : s[i] = fs[i]
    BY <1>4
  <2> HIDE DEF s
  <2>2. /\ Append(s, g) \in Seq(Frame) /\ Len(Append(s, g)) = n + 1
        /\ \A i \in 1 .. n : Append(s, g)[i] = s[i]
        /\ Append(s, g)[n + 1] = g
    BY <1>1, <2>1, AppendProperties
  <2> QED
    BY <1>1, <2>1, <2>2 DEF s
<1>6. ASSUME NEW v, NEW k, NEW t, NEW a
      PROVE  Owner(fs, v, k, t, a) <=>
                 \/ Outer(fs, k, t, a)
                 \/ k = n /\ PointsTo(fs[n].result, t, a)
                 \/ k = n + 1 /\ PointsTo(v, t, a)
  <2>1. k \in 1 .. n <=> k \in 1 .. n - 1 \/ k = n
    BY <1>1
  <2> QED
    BY <1>1, <2>1 DEF Owner, Outer
<1>7. ASSUME NEW v, NEW k, NEW t, NEW a
      PROVE  Owner(below, v, k, t, a) <=>
                 \/ Outer(fs, k, t, a)
                 \/ k = n /\ PointsTo(v, t, a)
  BY <1>1, <1>2 DEF Owner, Outer
<1>8. ASSUME NEW f \in Frame, NEW v, NEW k, NEW t, NEW a
      PROVE  Owner(Append(below, f), v, k, t, a) <=>
                 \/ Outer(fs, k, t, a)
                 \/ k = n /\ PointsTo(f.result, t, a)
                 \/ k = n + 1 /\ PointsTo(v, t, a)
  <2>1. k \in 1 .. n <=> k \in 1 .. n - 1 \/ k = n
    BY <1>1
  <2> QED
    BY <1>1, <1>4, <2>1 DEF Owner, Outer
<1>9. ASSUME NEW f \in Frame, NEW g \in Frame, NEW v, NEW k, NEW t, NEW a
      PROVE  Owner(Append(Append(below, f), g), v, k, t, a) <=>
                 \/ Outer(fs, k, t, a)
                 \/ k = n /\ PointsTo(f.result, t, a)
                 \/ k = n + 1 /\ PointsTo(g.result, t, a)
                 \/ k = n + 2 /\ PointsTo(v, t, a)
  <2>1. k \in 1 .. n + 1 <=> k \in 1 .. n - 1 \/ k = n \/ k = n + 1
    BY <1>1
  <2>2. (n + 1) + 1 = n + 2
    OBVIOUS
  <2> QED
    BY <1>1, <1>5, <2>1, <2>2 DEF Owner, Outer
<1> QED
  BY <1>1, <1>2, <1>3, <1>4, <1>5, <1>6, <1>7, <1>8, <1>9 DEF below

-----------------------------------------------------------------------------
(* What is done to the heap. *)

IsHeap(h) == DOMAIN h = Addresses /\ \A a \in Addresses : IsCell(h[a])

LEMMA Cells ==
    /\ IsCell(Free) /\ Slots(Free) = {}
    /\ \A x : /\ StringOf(x).kind = "string" /\ IsCell(StringOf(x))
               /\ Slots(StringOf(x)) = {}
    /\ \A ms : /\ ObjectOf(ms).kind = "object" /\ ObjectOf(ms).members = ms
                /\ Slots(ObjectOf(ms)) = DOMAIN ms
                /\ \A k : HeldIn(ObjectOf(ms), k) = ms[k]
                /\ ms \in [DOMAIN ms -> Value] => IsCell(ObjectOf(ms))
    /\ \A es : /\ ArrayOf(es).kind = "array" /\ ArrayOf(es).elements = es
                /\ Slots(ArrayOf(es)) = DOMAIN es
                /\ \A k : HeldIn(ArrayOf(es), k) = es[k]
                /\ es \in Seq(Value) => IsCell(ArrayOf(es))
<1>1. IsCell(Free) /\ Slots(Free) = {}
  BY DEF IsCell, Slots, Free
<1>2. ASSUME NEW x
      PROVE  /\ StringOf(x).kind = "string" /\ IsCell(StringOf(x))
             /\ Slots(StringOf(x)) = {}
  BY DEF IsCell, Slots, StringOf, Allocated
<1>3. ASSUME NEW ms
      PROVE  /\ ObjectOf(ms).kind = "object" /\ ObjectOf(ms).members = ms
             /\ Slots(ObjectOf(ms)) = DOMAIN ms
             /\ \A k : HeldIn(ObjectOf(ms), k) = ms[k]
             /\ ms \in [DOMAIN ms -> Value] => IsCell(ObjectOf(ms))
  BY DEF IsCell, Slots, HeldIn, ObjectOf, Allocated
<1>4. ASSUME NEW es
      PROVE  /\ ArrayOf(es).kind = "array" /\ ArrayOf(es).elements = es
             /\ Slots(ArrayOf(es)) = DOMAIN es
             /\ \A k : HeldIn(ArrayOf(es), k) = es[k]
             /\ es \in Seq(Value) => IsCell(ArrayOf(es))
  BY DEF IsCell, Slots, HeldIn, ArrayOf, Allocated
<1> QED
  BY <1>1, <1>2, <1>3, <1>4

(* h1 is h with another cell at c. *)
Replaced(h, c, cell, h1) ==
    /\ DOMAIN h1 = Addresses /\ h1[c] = cell
    /\ \A a \in Addresses : a # c => h1[a] = h[a]

LEMMA ExceptReplaces ==
    ASSUME NEW h, IsHeap(h), NEW c \in There(h), NEW cell
    PROVE  Replaced(h, c, cell, [h EXCEPT ![c] = cell])
BY DEF IsHeap, There, Replaced

(* A cell is replaced by one with another place, l, and v there. *)
WithPlace(old, cell, l, v) ==
    /\ IsCell(cell) /\ cell.kind = old.kind
    /\ l \notin Slots(old) /\ Slots(cell) = Slots(old) \cup {l}
    /\ HeldIn(cell, l) = v
    /\ \A k \in Slots(old) : HeldIn(cell, k) = HeldIn(old, k)

HasPlace(h, c, l, v, h1) ==
    /\ IsHeap(h1) /\ There(h1) = There(h)
    /\ \A a \in There(h) : h1[a].kind = h[a].kind
    /\ \A b, k, t, a : CellAt(h1, b, k, t, a) <=>
           \/ CellAt(h, b, k, t, a)
           \/ b = c /\ k = l /\ PointsTo(v, t, a)

LEMMA PutIn ==
    ASSUME NEW h, IsHeap(h), NEW c \in There(h), NEW cell, NEW l, NEW v,
           WithPlace(h[c], cell, l, v), NEW h1, Replaced(h, c, cell, h1)
    PROVE  HasPlace(h, c, l, v, h1)
<1> USE DEF WithPlace
<1>1. /\ DOMAIN h1 = Addresses /\ c \in Addresses /\ h1[c] = cell
      /\ \A a \in Addresses : a # c => h1[a] = h[a]
  BY DEF There, Replaced
<1>2. IsHeap(h1)
  BY <1>1 DEF IsHeap
<1>3. cell # Free
  <2>1. h[c] # Free /\ IsCell(h[c])
    BY <1>1 DEF There, IsHeap
  <2>2. h[c].kind \in Allocated
    BY <2>1 DEF IsCell, Allocated
  <2> QED
    BY <2>2 DEF Free, Allocated
<1>4. There(h1) = There(h) /\ \A a \in There(h) : h1[a].kind = h[a].kind
  BY <1>1, <1>3 DEF There
<1>5. ASSUME NEW b, NEW k, NEW t, NEW a
      PROVE  CellAt(h1, b, k, t, a) <=>
                 \/ CellAt(h, b, k, t, a)
                 \/ b = c /\ k = l /\ PointsTo(v, t, a)
  BY <1>1 DEF CellAt
<1> QED
  BY <1>2, <1>4, <1>5 DEF HasPlace

(* A cell is replaced by one without the value at place l. *)
WithoutPlace(old, cell, l) ==
    /\ IsCell(cell) /\ cell.kind = old.kind
    /\ Slots(cell) = Slots(old) \ {l}
    /\ \A k \in Slots(cell) : HeldIn(cell, k) = HeldIn(old, k)

LacksPlace(h, c, l, h1) ==
    /\ IsHeap(h1) /\ There(h1) = There(h)
    /\ \A a \in There(h) : h1[a].kind = h[a].kind
    /\ \A b, k, t, a : CellAt(h1, b, k, t, a) <=>
           CellAt(h, b, k, t, a) /\ ~(b = c /\ k = l)

LEMMA TakeOut ==
    ASSUME NEW h, IsHeap(h), NEW c \in There(h), NEW cell, NEW l,
           WithoutPlace(h[c], cell, l), NEW h1, Replaced(h, c, cell, h1)
    PROVE  LacksPlace(h, c, l, h1)
<1> USE DEF WithoutPlace
<1>1. /\ DOMAIN h1 = Addresses /\ c \in Addresses /\ h1[c] = cell
      /\ \A a \in Addresses : a # c => h1[a] = h[a]
  BY DEF There, Replaced
<1>2. IsHeap(h1)
  BY <1>1 DEF IsHeap
<1>3. cell # Free
  <2>1. h[c] # Free /\ IsCell(h[c])
    BY <1>1 DEF There, IsHeap
  <2>2. h[c].kind \in Allocated
    BY <2>1 DEF IsCell, Allocated
  <2> QED
    BY <2>2 DEF Free, Allocated
<1>4. There(h1) = There(h) /\ \A a \in There(h) : h1[a].kind = h[a].kind
  BY <1>1, <1>3 DEF There
<1>5. ASSUME NEW b, NEW k, NEW t, NEW a
      PROVE  CellAt(h1, b, k, t, a) <=> CellAt(h, b, k, t, a) /\ ~(b = c /\ k = l)
  BY <1>1 DEF CellAt
<1> QED
  BY <1>2, <1>4, <1>5 DEF LacksPlace

(* New takes an address that is free. *)
LEMMA NewCell ==
    ASSUME NEW h, IsHeap(h), HasRoom(h, 1), NEW cell, IsCell(cell),
           cell.kind \in Allocated, Slots(cell) = {}
    PROVE  LET new == New(h, cell)
               a0 == new.value.m_value
           IN  /\ new.value = json(cell.kind, a0)
               /\ a0 \in Addresses /\ a0 \notin There(h)
               /\ IsHeap(new.heap) /\ There(new.heap) = There(h) \cup {a0}
               /\ \A a \in There(h) : new.heap[a].kind = h[a].kind
               /\ new.heap[a0].kind = cell.kind
               /\ \A b, k, t, a : CellAt(new.heap, b, k, t, a) <=> CellAt(h, b, k, t, a)
<1> DEFINE free == {a \in Addresses : h[a] = Free}
           a0 == Fresh(h)
           h1 == [h EXCEPT ![a0] = cell]
<1>1. free # {}
  <2>1. Cardinality(free) >= 1
    BY DEF HasRoom
  <2>2. Cardinality({}) = 0
    BY FS_EmptySet
  <2> QED
    BY <2>1, <2>2
<1>2. a0 \in Addresses /\ h[a0] = Free
  BY <1>1 DEF Fresh
<1> HIDE DEF a0
<1>3. /\ DOMAIN h1 = Addresses /\ h1[a0] = cell
      /\ \A a \in Addresses : a # a0 => h1[a] = h[a]
  BY <1>2 DEF IsHeap
<1> HIDE DEF h1
<1>4. cell # Free
  BY DEF Free, Allocated
<1>5. /\ a0 \notin There(h) /\ There(h1) = There(h) \cup {a0}
      /\ \A a \in There(h) : h1[a].kind = h[a].kind
  BY <1>2, <1>3, <1>4 DEF There
<1>6. IsHeap(h1)
  BY <1>3 DEF IsHeap
<1>7. ASSUME NEW b, NEW k, NEW t, NEW a
      PROVE  CellAt(h1, b, k, t, a) <=> CellAt(h, b, k, t, a)
  BY <1>2, <1>3, Cells DEF CellAt
<1>8. /\ New(h, cell).heap = h1 /\ New(h, cell).value = json(cell.kind, a0)
      /\ json(cell.kind, a0).m_value = a0
  BY DEF New, json, a0, h1
<1> HIDE DEF free
<1> QED
  BY <1>2, <1>3, <1>5, <1>6, <1>7, <1>8

(* What can be got at from a value is free once it is destroyed. *)
LEMMA DestroyedCells ==
    ASSUME NEW h, IsHeap(h), NEW v
    PROVE  /\ IsHeap(Destroyed(h, v))
           /\ There(Destroyed(h, v)) = There(h) \ Reach(h, {v})
           /\ \A a \in Addresses : a \notin Reach(h, {v}) => Destroyed(h, v)[a] = h[a]
           /\ \A b, k, t, a : CellAt(Destroyed(h, v), b, k, t, a) <=>
                 CellAt(h, b, k, t, a) /\ b \notin Reach(h, {v})
<1> DEFINE G == Reach(h, {v})
           h1 == Destroyed(h, v)
<1>1. DOMAIN h1 = Addresses /\ \A a \in Addresses : h1[a] = IF a \in G THEN Free ELSE h[a]
  BY DEF Destroyed
<1> HIDE DEF h1, G
<1>2. IsHeap(h1)
  BY <1>1, Cells DEF IsHeap
<1>3. There(h1) = There(h) \ G
  BY <1>1 DEF There
<1>4. ASSUME NEW b, NEW k, NEW t, NEW a
      PROVE  CellAt(h1, b, k, t, a) <=> CellAt(h, b, k, t, a) /\ b \notin G
  BY <1>1, Cells DEF CellAt
<1> QED
  BY <1>1, <1>2, <1>3, <1>4 DEF G, h1

-----------------------------------------------------------------------------
(* What a step does to the results and to the heap. *)

(* Only values that own nothing come or go. *)
LEMMA OwnersStay ==
    ASSUME NEW h, NEW fs \in Seq(Frame), NEW v \in Value, Kept(h, ResultsOf(fs, v)),
           NEW fs1 \in Seq(Frame), NEW v1 \in Value,
           \A k, t, a : Owner(fs1, v1, k, t, a) <=> Owner(fs, v, k, t, a)
    PROVE  Kept(h, ResultsOf(fs1, v1))
<1>1. \A b, k, t, a : Points(h, ResultsOf(fs1, v1), b, k, t, a)
                       <=> Points(h, ResultsOf(fs, v), b, k, t, a)
  BY PointsOf
<1> QED
  BY <1>1, SameKept

(* Place k0 of the results is a new value. *)
LEMMA OwnerComes ==
    ASSUME NEW h, IsHeap(h), NEW fs \in Seq(Frame), NEW v \in Value,
           Kept(h, ResultsOf(fs, v)), HasRoom(h, 1),
           NEW cell, IsCell(cell), cell.kind \in Allocated, Slots(cell) = {},
           NEW fs1 \in Seq(Frame), NEW v1 \in Value, NEW k0,
           \A k, t, a : Owner(fs1, v1, k, t, a) <=>
               \/ Owner(fs, v, k, t, a)
               \/ k = k0 /\ PointsTo(New(h, cell).value, t, a)
    PROVE  IsHeap(New(h, cell).heap) /\ Kept(New(h, cell).heap, ResultsOf(fs1, v1))
<1> DEFINE h1 == New(h, cell).heap
           r == ResultsOf(fs, v)
           r1 == ResultsOf(fs1, v1)
<1>1. PICK a0 \in Addresses : a0 = New(h, cell).value.m_value
  BY NewCell
<1>2. /\ New(h, cell).value = json(cell.kind, a0) /\ a0 \notin There(h)
      /\ IsHeap(h1) /\ There(h1) = There(h) \cup {a0}
      /\ \A a \in There(h) : h1[a].kind = h[a].kind
      /\ h1[a0].kind = cell.kind
      /\ \A b, k, t, a : CellAt(h1, b, k, t, a) <=> CellAt(h, b, k, t, a)
  BY <1>1, NewCell
<1> HIDE DEF h1
<1>3. \A t, a : PointsTo(New(h, cell).value, t, a) <=> t = cell.kind /\ a = a0
  BY <1>2 DEF PointsTo, json
<1>4. ASSUME NEW b, NEW k, NEW t, NEW a
      PROVE  Points(h1, r1, b, k, t, a) <=>
               Points(h, r, b, k, t, a) \/ (b = 0 /\ k = k0 /\ t = cell.kind /\ a = a0)
  BY <1>2, <1>3, PointsOf
<1> HIDE DEF r, r1
<1>5. Kept(h1, r1)
  <2>1. Added(h, r, h1, r1, a0, k0, cell.kind)
    BY <1>2, <1>4 DEF Added
  <2> QED
    BY <2>1, AddedKept DEF r
<1> QED
  BY <1>2, <1>5 DEF h1, r1

(* What place k0 of the results was, w, is destroyed. *)
IsEnd(h, fs, v, w, k0, fs1, v1) ==
    /\ IsHeap(h) /\ Kept(h, ResultsOf(fs, v))
    /\ fs \in Seq(Frame) /\ v \in Value /\ fs1 \in Seq(Frame) /\ v1 \in Value
    /\ \A t, a : Owner(fs, v, k0, t, a) <=> PointsTo(w, t, a)
    /\ \A k, t, a : Owner(fs1, v1, k, t, a) <=> Owner(fs, v, k, t, a) /\ k # k0

LEMMA OwnerGoes ==
    ASSUME NEW h, NEW fs, NEW v, NEW w, NEW k0, NEW fs1, NEW v1,
           IsEnd(h, fs, v, w, k0, fs1, v1)
    PROVE  IsHeap(Destroyed(h, w)) /\ Kept(Destroyed(h, w), ResultsOf(fs1, v1))
<1> USE DEF IsEnd
<1> DEFINE G == Reach(h, {w})
           h1 == Destroyed(h, w)
           r == ResultsOf(fs, v)
           r1 == ResultsOf(fs1, v1)
<1>1. \A t, a : Points(h, r, 0, k0, t, a) <=> PointsTo(w, t, a)
  BY PointsOf, ZeroIsNone DEF CellAt
<1>2. PartOf(h, r, 0, k0, G)
  BY <1>1, ReachIsPart
<1>3. /\ IsHeap(h1) /\ There(h1) = There(h) \ G
      /\ \A a \in Addresses : a \notin G => h1[a] = h[a]
      /\ \A b, k, t, a : CellAt(h1, b, k, t, a) <=> CellAt(h, b, k, t, a) /\ b \notin G
  BY DestroyedCells
<1> HIDE DEF G, h1
<1>4. \A a \in There(h1) : h1[a].kind = h[a].kind
  BY <1>3 DEF There
<1>5. 0 \notin G
  BY <1>2, ZeroIsNone DEF PartOf, There
<1>6. ASSUME NEW b, NEW k, NEW t, NEW a
      PROVE  Points(h1, r1, b, k, t, a) <=>
               Points(h, r, b, k, t, a) /\ ~(b = 0 /\ k = k0) /\ b \notin G
  <2>1. Points(h1, r1, b, k, t, a) <=>
          (b = 0 /\ Owner(fs1, v1, k, t, a)) \/ CellAt(h1, b, k, t, a)
    BY PointsOf
  <2>2. Points(h, r, b, k, t, a) <=>
          (b = 0 /\ Owner(fs, v, k, t, a)) \/ CellAt(h, b, k, t, a)
    BY PointsOf
  <2>3. CellAt(h, b, k, t, a) => b # 0
    BY ZeroIsNone DEF CellAt
  <2> QED
    BY <1>3, <1>5, <2>1, <2>2, <2>3
<1> HIDE DEF r, r1
<1>7. Kept(h1, r1)
  <2>1. Removed(h, r, h1, r1, 0, k0, G)
    BY <1>2, <1>3, <1>4, <1>6 DEF Removed
  <2> QED
    BY <2>1, RemovedKept DEF r
<1> QED
  BY <1>3, <1>7 DEF h1, r1

(* What place k0 of the results was, w, is put into place l of the cell at c. *)
IsMove(h, fs, v, w, k0, j, u, c, cell, l, fs1, v1) ==
    /\ IsHeap(h) /\ Kept(h, ResultsOf(fs, v))
    /\ fs \in Seq(Frame) /\ v \in Value /\ fs1 \in Seq(Frame) /\ v1 \in Value
    /\ \A t, a : Owner(fs, v, k0, t, a) <=> PointsTo(w, t, a)
    /\ c \in There(h) /\ j # k0 /\ Owner(fs, v, j, u, c)
    /\ WithPlace(h[c], cell, l, w)
    /\ \A k, t, a : Owner(fs1, v1, k, t, a) <=> Owner(fs, v, k, t, a) /\ k # k0

LEMMA OwnerMoves ==
    ASSUME NEW h, NEW fs, NEW v, NEW w, NEW k0, NEW j, NEW u, NEW c, NEW cell, NEW l,
           NEW fs1, NEW v1, IsMove(h, fs, v, w, k0, j, u, c, cell, l, fs1, v1)
    PROVE  /\ IsHeap([h EXCEPT ![c] = cell])
           /\ Kept([h EXCEPT ![c] = cell], ResultsOf(fs1, v1))
<1> USE DEF IsMove
<1> DEFINE h1 == [h EXCEPT ![c] = cell]
           r == ResultsOf(fs, v)
           r1 == ResultsOf(fs1, v1)
<1>1. /\ IsHeap(h1) /\ There(h1) = There(h)
      /\ \A a \in There(h) : h1[a].kind = h[a].kind
      /\ \A b, k, t, a : CellAt(h1, b, k, t, a) <=>
             \/ CellAt(h, b, k, t, a)
             \/ b = c /\ k = l /\ PointsTo(w, t, a)
  <2>1. Replaced(h, c, cell, h1)
    BY ExceptReplaces
  <2> HIDE DEF h1
  <2>2. HasPlace(h, c, l, w, h1)
    BY <2>1, PutIn
  <2> QED
    BY <2>2 DEF HasPlace
<1>2. c # 0
  BY ZeroIsNone DEF There
<1> HIDE DEF h1
<1>3. \A k, t, a : ~CellAt(h, 0, k, t, a)
  BY ZeroIsNone DEF CellAt
<1>4. \A t, a : Points(h, r, 0, k0, t, a) <=> PointsTo(w, t, a)
  BY <1>3, PointsOf
<1>5. \E k, t : Points(h, r, 0, k, t, c) /\ ~(0 = 0 /\ k = k0)
  <2>1. Points(h, r, 0, j, u, c)
    BY PointsOf
  <2> QED
    BY <2>1
<1>6. ASSUME NEW b, NEW k, NEW t, NEW a
      PROVE  Points(h1, r1, b, k, t, a) <=>
               \/ Points(h, r, b, k, t, a) /\ ~(b = 0 /\ k = k0)
               \/ b = c /\ k = l /\ Points(h, r, 0, k0, t, a)
  <2>1. Points(h1, r1, b, k, t, a) <=>
          (b = 0 /\ Owner(fs1, v1, k, t, a)) \/ CellAt(h1, b, k, t, a)
    BY PointsOf
  <2>2. Points(h, r, b, k, t, a) <=>
          (b = 0 /\ Owner(fs, v, k, t, a)) \/ CellAt(h, b, k, t, a)
    BY PointsOf
  <2> QED
    BY <1>1, <1>2, <1>3, <1>4, <2>1, <2>2
<1> HIDE DEF r, r1
<1>7. Kept(h1, r1)
  <2>1. Moved(h, r, h1, r1, 0, k0, c, l)
    BY <1>1, <1>5, <1>6 DEF Moved
  <2> QED
    BY <2>1, MovedKept DEF r
<1> QED
  BY <1>1, <1>7 DEF h1, r1

(***************************************************************************)
(* What is at place l of the cell at c, which a result owns, is destroyed, *)
(* and the cell is left without that place.                                *)
(***************************************************************************)
IsSlotEnd(h, fs, v, j, u, c, cell, l) ==
    /\ IsHeap(h) /\ Kept(h, ResultsOf(fs, v))
    /\ fs \in Seq(Frame) /\ v \in Value
    /\ c \in There(h) /\ Owner(fs, v, j, u, c)
    /\ l \in Slots(h[c]) /\ WithoutPlace(h[c], cell, l)

LEMMA SlotGoes ==
    ASSUME NEW h, NEW fs, NEW v, NEW j, NEW u, NEW c, NEW cell, NEW l,
           IsSlotEnd(h, fs, v, j, u, c, cell, l)
    PROVE  LET h1 == [Destroyed(h, HeldIn(h[c], l)) EXCEPT ![c] = cell]
           IN  /\ c \in There(Destroyed(h, HeldIn(h[c], l)))
               /\ IsHeap(h1) /\ c \in There(h1) /\ h1[c] = cell
               /\ Kept(h1, ResultsOf(fs, v))
<1> USE DEF IsSlotEnd
<1> DEFINE w == HeldIn(h[c], l)
           G == Reach(h, {w})
           hd == Destroyed(h, w)
           h1 == [hd EXCEPT ![c] = cell]
           r == ResultsOf(fs, v)
<1>1. c # 0 /\ c \in Addresses /\ 0 \notin Addresses
  BY ZeroIsNone DEF There
<1>2. \A t, a : Points(h, r, c, l, t, a) <=> PointsTo(w, t, a)
  BY <1>1, PointsOf DEF CellAt
<1>3. PartOf(h, r, c, l, G)
  BY <1>2, ReachIsPart
<1>4. /\ IsHeap(hd) /\ There(hd) = There(h) \ G
      /\ \A a \in Addresses : a \notin G => hd[a] = h[a]
      /\ \A b, k, t, a : CellAt(hd, b, k, t, a) <=> CellAt(h, b, k, t, a) /\ b \notin G
  BY DestroyedCells
<1> HIDE DEF w, G, hd
<1>5. Points(h, r, 0, j, u, c)
  BY PointsOf
<1>6. 0 \notin G
  BY <1>1, <1>3 DEF PartOf, There
<1>7. c \notin G
  BY <1>1, <1>3, <1>5, <1>6 DEF PartOf
<1>8. c \in There(hd) /\ hd[c] = h[c]
  BY <1>1, <1>4, <1>7
<1>9. /\ IsHeap(h1) /\ There(h1) = There(hd)
      /\ \A a \in There(hd) : h1[a].kind = hd[a].kind
      /\ \A b, k, t, a : CellAt(h1, b, k, t, a) <=>
             CellAt(hd, b, k, t, a) /\ ~(b = c /\ k = l)
  <2>1. WithoutPlace(hd[c], cell, l)
    BY <1>8
  <2>2. Replaced(hd, c, cell, h1)
    BY <1>4, <1>8, ExceptReplaces
  <2> HIDE DEF h1
  <2>3. LacksPlace(hd, c, l, h1)
    BY <1>4, <1>8, <2>1, <2>2, TakeOut
  <2> QED
    BY <2>3 DEF LacksPlace
<1>10. h1[c] = cell
  BY <1>1, <1>4 DEF IsHeap
<1> HIDE DEF h1
<1>11. There(h1) = There(h) \ G /\ \A a \in There(h1) : h1[a].kind = h[a].kind
  BY <1>4, <1>9 DEF There
<1>12. ASSUME NEW b, NEW k, NEW t, NEW a
       PROVE  Points(h1, r, b, k, t, a) <=>
                Points(h, r, b, k, t, a) /\ ~(b = c /\ k = l) /\ b \notin G
  <2>1. Points(h1, r, b, k, t, a) <=>
          (b = 0 /\ Owner(fs, v, k, t, a)) \/ CellAt(h1, b, k, t, a)
    BY PointsOf
  <2>2. Points(h, r, b, k, t, a) <=>
          (b = 0 /\ Owner(fs, v, k, t, a)) \/ CellAt(h, b, k, t, a)
    BY PointsOf
  <2>3. CellAt(h, b, k, t, a) => b # 0
    BY <1>1 DEF CellAt
  <2> QED
    BY <1>1, <1>4, <1>6, <1>9, <2>1, <2>2, <2>3
<1> HIDE DEF r
<1>13. Kept(h1, r)
  <2>1. Removed(h, r, h1, r, c, l, G)
    BY <1>3, <1>11, <1>12 DEF Removed
  <2> QED
    BY <2>1, RemovedKept DEF r
<1> QED
  BY <1>8, <1>9, <1>10, <1>13 DEF h1, hd, w, r

-----------------------------------------------------------------------------
(* The parser. *)

(***************************************************************************)
(* The inductive invariant: each address is owned once and can be reached, *)
(* and activations have what they fill.                                    *)
(***************************************************************************)
IInv == TypeOK /\ Kept(heap, Results)

(* A value that owns an object, an array or a string. *)
Owns(v) == v.m_type \in Allocated

LEMMA NotOwning ==
    ASSUME NEW v, ~Owns(v)
    PROVE  \A t, a : ~PointsTo(v, t, a)
BY DEF Owns, PointsTo

LEMMA PlainValues ==
    /\ Discarded \in Value /\ ~Owns(Discarded)
    /\ NoReturn \in Value /\ ~Owns(NoReturn)
    /\ Null \in Value /\ ~Owns(Null)
<1>1. /\ json("discarded", 0) \in Value /\ json("none", 0) \in Value
      /\ json("null", 0) \in Value
  BY DEF json, Value
<1>2. /\ json("discarded", 0).m_type = "discarded" /\ json("none", 0).m_type = "none"
      /\ json("null", 0).m_type = "null"
  BY DEF json
<1> QED
  BY <1>1, <1>2 DEF Discarded, NoReturn, Null, Owns, Allocated

LEMMA LiteralsArePlain ==
    ASSUME NEW x \in DOMAIN LiteralValue
    PROVE  LiteralValue[x] \in Value /\ ~Owns(LiteralValue[x])
<1>1. x \in {"literal_null", "literal_true", "literal_false"}
  BY DEF LiteralValue
<1>2. LiteralValue[x] \in {Null, json("boolean", 1), json("boolean", 0)}
  BY <1>1 DEF LiteralValue
<1>3. ASSUME NEW b \in {0, 1} PROVE json("boolean", b) \in Value /\ ~Owns(json("boolean", b))
  BY DEF json, Value, Owns, Allocated
<1> QED
  BY <1>2, <1>3, PlainValues

LEMMA NumbersArePlain ==
    ASSUME NEW x \in DOMAIN NumberValue
    PROVE  NumberValue[x] \in Value /\ ~Owns(NumberValue[x])
<1>1. x \in {"value_unsigned", "value_integer", "value_float"}
  BY DEF NumberValue
<1>2. PICK t \in {"number_unsigned", "number_integer", "number_float"} :
        NumberValue[x] = json(t, 1)
  BY <1>1 DEF NumberValue
<1>3. json(t, 1) \in Value /\ ~Owns(json(t, 1))
  BY DEF json, Value, Owns, Allocated
<1> QED
  BY <1>2, <1>3

LEMMA FrameFields ==
    ASSUME NEW f \in Frame
    PROVE  /\ f.result \in Value /\ f.key \in Texts
           /\ f.at \in {"switch"} \cup ObjectPlaces \cup ArrayPlaces
           /\ f.at = "switch" => f.result = Discarded
           /\ f.at \in ObjectPlaces => f.result.m_type = "object"
           /\ f.at \in ArrayPlaces => f.result.m_type = "array"
BY DEF Frame

(* A place of an activation, and what it has in result there. *)
Fits(at, v) ==
    \/ at = "switch" /\ v = Discarded
    \/ at \in ObjectPlaces /\ v.m_type = "object"
    \/ at \in ArrayPlaces /\ v.m_type = "array"

LEMMA FrameOf ==
    ASSUME NEW f, NEW at, NEW v \in Value, NEW key \in Texts, Fits(at, v),
           f \in [at : {at}, result : {v}, key : {key}]
    PROVE  f \in Frame
<1>1. "switch" \notin ObjectPlaces /\ "switch" \notin ArrayPlaces
  BY DEF ObjectPlaces, ArrayPlaces
<1>2. \A x : ~(x \in ObjectPlaces /\ x \in ArrayPlaces)
  BY DEF ObjectPlaces, ArrayPlaces
<1>3. f \in [at : {"switch"} \cup ObjectPlaces \cup ArrayPlaces, result : Value, key : Texts]
  BY DEF Fits
<1>4. f.at = at /\ f.result = v
  OBVIOUS
<1> QED
  BY <1>1, <1>2, <1>3, <1>4 DEF Frame, Fits

LEMMA ActivationIsFrame == Activation \in Frame /\ Activation.result = Discarded
<1>1. NoKey \in Texts
  BY DEF Texts
<1>2. Activation \in [at : {"switch"}, result : {Discarded}, key : {NoKey}]
  BY DEF Activation
<1>3. Fits("switch", Discarded)
  BY DEF Fits
<1> QED
  BY <1>1, <1>2, <1>3, FrameOf, PlainValues DEF Activation

(* An activation goes on elsewhere, with the value it has there. *)
LEMMA GoesOn ==
    ASSUME NEW f \in Frame, NEW at, NEW v \in Value, NEW key \in Texts
    PROVE  /\ [f EXCEPT !.at = at, !.key = key] \in
                [at : {at}, result : {f.result}, key : {key}]
           /\ [f EXCEPT !.at = at] \in
                [at : {at}, result : {f.result}, key : {f.key}]
           /\ [f EXCEPT !.at = at, !.result = v] \in
                [at : {at}, result : {v}, key : {f.key}]
<1>1. f \in [at : {f.at}, result : {f.result}, key : {f.key}]
  BY DEF Frame
<1> QED
  BY <1>1

-----------------------------------------------------------------------------
(* What the steps have in common. *)

(* A parse that has begun. *)
Begun ==
    /\ tokens \in Seq(Tokens) /\ tokens # <<>>
    /\ frames \in Seq(Frame) /\ returned \in Value
    /\ IsHeap(heap)
    /\ outcome \in {"running", "throwing", "thrown", "parsed"}
    /\ Kept(heap, ResultsOf(frames, returned))

LEMMA BegunHolds ==
    ASSUME IInv, outcome # "begin"
    PROVE  Begun
BY DEF IInv, TypeOK, Begun, Results, ResultsOf, IsHeap

LEMMA BegunIsEnough ==
    ASSUME Begun'
    PROVE  IInv'
BY DEF IInv, TypeOK, Begun, Results, ResultsOf, IsHeap

LEMMA LastToken ==
    ASSUME Begun
    PROVE  last_token \in Tokens /\ last_token.text \in Texts
<1>1. last_token \in Tokens
  <2>1. PICK n \in Nat : n = Len(tokens) /\ n # 0
    BY EmptySeq DEF Begun
  <2> QED
    BY <2>1, ElementOfSeq DEF Begun, last_token, Last
<1> QED
  BY <1>1 DEF Texts

LEMMA TokenComes ==
    ASSUME Begun \/ tokens = <<>>, get_token
    PROVE  tokens' \in Seq(Tokens) /\ tokens' # <<>>
<1>1. PICK t \in Tokens : tokens' = Append(tokens, t)
  BY DEF get_token
<1>2. tokens \in Seq(Tokens)
  <2>1. <<>> \in Seq(Tokens)
    BY EmptySeq
  <2> QED
    BY <2>1 DEF Begun
<1>3. /\ tokens' \in Seq(Tokens) /\ Len(tokens') = Len(tokens) + 1
      /\ Len(tokens) \in Nat
  BY <1>1, <1>2, AppendProperties, LenProperties
<1>4. Len(<<>>) = 0
  OBVIOUS
<1> QED
  BY <1>3, <1>4

(* The innermost activation, and the step is that of a parse that has begun. *)
LEMMA Innermost ==
    ASSUME IInv, NEW place, At(place) \/ Receives(place)
    PROVE  /\ Begun /\ frames # <<>> /\ Top \in Frame /\ Top.at = place
           /\ outcome = "running"
           /\ At(place) => returned = NoReturn
<1>1. frames # <<>> /\ Top.at = place /\ outcome = "running"
  BY DEF At, Receives
<1>2. Begun
  BY <1>1, BegunHolds
<1>3. Top \in Frame
  BY <1>1, <1>2, FramesOwn DEF Begun, Top
<1> QED
  BY <1>1, <1>2, <1>3 DEF At

(* A step that leaves the heap and everything owned in it. *)
Leaves ==
    /\ frames' \in Seq(Frame) /\ returned' \in Value
    /\ \A k, t, a : Owner(frames', returned', k, t, a) <=> Owner(frames, returned, k, t, a)

LEMMA LeavesInv ==
    ASSUME Begun, Leaves, UNCHANGED heap, tokens' \in Seq(Tokens), tokens' # <<>>,
           outcome' \in {"running", "throwing", "thrown", "parsed"}
    PROVE  IInv'
<1>1. Kept(heap, ResultsOf(frames', returned'))
  BY OwnersStay DEF Begun, Leaves
<1>2. Begun'
  BY <1>1 DEF Begun, Leaves, ResultsOf, IsHeap
<1> QED
  BY <1>2, BegunIsEnough

(* The innermost activation goes on, and no value is on its way to one. *)
LEMMA GoesOnLeaves ==
    ASSUME Begun, frames # <<>>, NEW f \in Frame, f.result = Top.result,
           frames' = Append(Below, f), returned' \in Value, ~Owns(returned), ~Owns(returned')
    PROVE  Leaves
BY FramesOwn, NotOwning DEF Begun, Leaves, Top, Below

(* It calls another. *)
LEMMA CallsLeaves ==
    ASSUME Begun, frames # <<>>, NEW f \in Frame, f.result = Top.result,
           frames' = Append(Append(Below, f), Activation), returned' = returned,
           ~Owns(returned)
    PROVE  Leaves
<1>1. \A t, a : ~PointsTo(Activation.result, t, a)
  BY ActivationIsFrame, PlainValues, NotOwning
<1>2. \A t, a : ~PointsTo(returned, t, a)
  BY NotOwning
<1> QED
  BY <1>1, <1>2, ActivationIsFrame, FramesOwn DEF Begun, Leaves, Top, Below

(* It returns what it has, or owns nothing and neither does what it returns. *)
LEMMA ReturnsLeaves ==
    ASSUME Begun, frames # <<>>, frames' = Below, returned' \in Value, ~Owns(returned),
           returned' = Top.result \/ (~Owns(Top.result) /\ ~Owns(returned'))
    PROVE  Leaves
<1>1. \A t, a : PointsTo(returned', t, a) <=> PointsTo(Top.result, t, a)
  BY NotOwning
<1>2. \A t, a : ~PointsTo(returned, t, a)
  BY NotOwning
<1> QED
  BY <1>1, <1>2, FramesOwn DEF Begun, Leaves, Top, Below

LEMMA ThrowInv ==
    ASSUME Begun, Throw
    PROVE  IInv'
<1>1. Leaves
  BY DEF Throw, Begun, Leaves
<1> QED
  BY <1>1, LeavesInv DEF Throw, Begun

-----------------------------------------------------------------------------
(* The steps. *)

LEMMA ParseStep ==
    ASSUME IInv, Parse
    PROVE  IInv'
<1>1. frames = <<>> /\ returned = NoReturn /\ tokens \in Seq(Tokens)
  BY DEF IInv, TypeOK, Parse
<1>2. tokens' \in Seq(Tokens) /\ tokens' # <<>>
  <2>1. PICK t \in Tokens : tokens' = Append(tokens, t)
    BY DEF Parse, get_token
  <2>2. Len(Append(tokens, t)) = Len(tokens) + 1 /\ Append(tokens, t) \in Seq(Tokens)
    BY <1>1, AppendProperties
  <2>3. Len(tokens) \in Nat /\ Len(<<>>) = 0
    BY <1>1, LenProperties
  <2> QED
    BY <2>1, <2>2, <2>3
<1>3. frames' \in Seq(Frame) /\ frames' = <<Activation>>
  BY ActivationIsFrame DEF Parse
<1>4. \A k, t, a : ~Owner(frames, returned, k, t, a)
  BY <1>1, PlainValues, NotOwning DEF Owner
<1>5. \A k, t, a : ~Owner(frames', returned, k, t, a)
  <2>1. \A k \in 1 .. Len(<<Activation>>) : <<Activation>>[k] = Activation
    OBVIOUS
  <2> QED
    BY <1>1, <1>3, <2>1, ActivationIsFrame, PlainValues, NotOwning DEF Owner
<1>6. Kept(heap, ResultsOf(frames', returned))
  <2>1. Kept(heap, ResultsOf(frames, returned)) /\ frames \in Seq(Frame) /\ returned \in Value
    BY DEF IInv, TypeOK, Results, ResultsOf
  <2> QED
    BY <1>3, <1>4, <1>5, <2>1, OwnersStay
<1>7. Begun'
  BY <1>2, <1>3, <1>6 DEF Begun, Parse, IInv, TypeOK, IsHeap, ResultsOf
<1> QED
  BY <1>7, BegunIsEnough

LEMMA OpenStep ==
    ASSUME IInv, Open
    PROVE  IInv'
<1> DEFINE cell == IF Is("begin_object") THEN EmptyObject ELSE ArrayOf(<<>>)
           new == New(heap, cell)
           f == [Top EXCEPT !.at = new.value.m_type, !.result = new.value]
<1>1. /\ Begun /\ frames # <<>> /\ Top \in Frame /\ Top.at = "switch"
      /\ outcome = "running" /\ returned = NoReturn
  BY Innermost DEF Open
<1>2. /\ heap' = new.heap /\ frames' = Append(Below, f) /\ returned' = NoReturn
      /\ outcome' = "running" /\ Room /\ get_token
  BY <1>1 DEF Open
<1>3. IsCell(cell) /\ cell.kind \in {"object", "array"} /\ Slots(cell) = {}
  <2> DEFINE none == <<>>
  <2>1. none \in Seq(Value) /\ none \in [{} -> Value] /\ DOMAIN none = {}
    OBVIOUS
  <2>2. cell = ObjectOf(none) \/ cell = ArrayOf(none)
    BY DEF EmptyObject
  <2> HIDE DEF none, cell
  <2>3. ObjectOf(none).kind = "object" /\ Slots(ObjectOf(none)) = DOMAIN none
    BY Cells
  <2>4. ArrayOf(none).kind = "array" /\ Slots(ArrayOf(none)) = DOMAIN none
    BY Cells
  <2>5. none \in [DOMAIN none -> Value] => IsCell(ObjectOf(none))
    BY DEF IsCell, ObjectOf
  <2>6. none \in Seq(Value) => IsCell(ArrayOf(none))
    BY DEF IsCell, ArrayOf
  <2> QED
    BY <2>1, <2>2, <2>3, <2>4, <2>5, <2>6
<1> HIDE DEF cell
<1>4. cell.kind \in Allocated
  BY <1>3 DEF Allocated
<1>5. new.value \in Value /\ new.value.m_type = cell.kind
  <2>1. PICK a0 \in Addresses : new.value = json(cell.kind, a0)
    BY <1>1, <1>2, <1>3, <1>4, NewCell DEF Begun, Room
  <2> QED
    BY <1>4, <2>1, AddressesAreNumbers DEF json, Value
<1>6. f \in Frame /\ f.result = new.value
  <2>1. Fits(new.value.m_type, new.value)
    BY <1>3, <1>5 DEF Fits, ObjectPlaces, ArrayPlaces
  <2>2. f \in [at : {new.value.m_type}, result : {new.value}, key : {Top.key}]
    BY <1>1, <1>5, FrameFields, GoesOn
  <2>3. Top.key \in Texts
    BY <1>1, FrameFields
  <2> HIDE DEF f, new
  <2>4. f \in Frame
    BY <1>5, <2>1, <2>2, <2>3, FrameOf
  <2> QED
    BY <2>2, <2>4
<1> HIDE DEF f
<1>7. /\ Append(Below, f) \in Seq(Frame)
      /\ \A k, t, a : Owner(Append(Below, f), NoReturn, k, t, a) <=>
            \/ Owner(frames, returned, k, t, a)
            \/ k = Len(frames) /\ PointsTo(new.value, t, a)
  <2>1. \A t, a : ~PointsTo(Top.result, t, a) /\ ~PointsTo(returned, t, a)
    BY <1>1, FrameFields, PlainValues, NotOwning
  <2> HIDE DEF new
  <2> QED
    BY <1>1, <1>6, <2>1, FramesOwn DEF Begun, Top, Below
<1>8. IsHeap(new.heap) /\ Kept(new.heap, ResultsOf(Append(Below, f), NoReturn))
  BY <1>1, <1>2, <1>3, <1>4, <1>7, OwnerComes, PlainValues DEF Begun, Room
<1>9. tokens' \in Seq(Tokens) /\ tokens' # <<>>
  BY <1>1, <1>2, TokenComes
<1> HIDE DEF new
<1>10. Begun'
  BY <1>2, <1>7, <1>8, <1>9, PlainValues DEF Begun, ResultsOf, IsHeap
<1> QED
  BY <1>10, BegunIsEnough

LEMMA LiteralStep ==
    ASSUME IInv, Literal
    PROVE  IInv'
<1>1. /\ Begun /\ frames # <<>> /\ Top \in Frame /\ Top.at = "switch"
      /\ outcome = "running" /\ returned = NoReturn
  BY Innermost DEF Literal
<1>2. /\ frames' = Below /\ returned' \in Value /\ ~Owns(returned')
      /\ UNCHANGED <<heap, outcome>> /\ get_token
  BY LiteralsArePlain DEF Literal, Return
<1>3. Leaves
  BY <1>1, <1>2, FrameFields, PlainValues, ReturnsLeaves
<1> QED
  BY <1>1, <1>2, <1>3, TokenComes, LeavesInv

LEMMA StringStep ==
    ASSUME IInv, String
    PROVE  IInv'
<1>1. /\ Begun /\ frames # <<>> /\ Top \in Frame /\ Top.at = "switch"
      /\ outcome = "running" /\ returned = NoReturn
  BY Innermost DEF String
<1>2. CASE Throw
  BY <1>1, <1>2, ThrowInv
<1>3. CASE ~Throw
  <2> DEFINE cell == StringOf(last_token.text)
             new == New(heap, cell)
  <2>1. /\ heap' = new.heap /\ frames' = Below /\ returned' = new.value
        /\ outcome' = "running" /\ Room /\ get_token
    BY <1>1, <1>3 DEF String, Return
  <2>2. IsCell(cell) /\ cell.kind \in Allocated /\ Slots(cell) = {}
    BY Cells DEF Allocated
  <2> HIDE DEF cell
  <2>3. new.value \in Value
    <3>1. PICK a0 \in Addresses : new.value = json(cell.kind, a0)
      BY <1>1, <2>1, <2>2, NewCell DEF Begun, Room
    <3> QED
      BY <2>2, <3>1, AddressesAreNumbers DEF json, Value
  <2>4. /\ Below \in Seq(Frame)
        /\ \A k, t, a : Owner(Below, new.value, k, t, a) <=>
              \/ Owner(frames, returned, k, t, a)
              \/ k = Len(frames) /\ PointsTo(new.value, t, a)
    <3>1. \A t, a : ~PointsTo(Top.result, t, a) /\ ~PointsTo(returned, t, a)
      BY <1>1, FrameFields, PlainValues, NotOwning
    <3> HIDE DEF new
    <3> QED
      BY <1>1, <3>1, FramesOwn DEF Begun, Top, Below
  <2>5. IsHeap(new.heap) /\ Kept(new.heap, ResultsOf(Below, new.value))
    BY <1>1, <2>1, <2>2, <2>3, <2>4, OwnerComes DEF Begun, Room
  <2>6. tokens' \in Seq(Tokens) /\ tokens' # <<>>
    BY <1>1, <2>1, TokenComes
  <2> HIDE DEF new
  <2>7. Begun'
    BY <2>1, <2>3, <2>4, <2>5, <2>6 DEF Begun, ResultsOf, IsHeap
  <2> QED
    BY <2>7, BegunIsEnough
<1> QED
  BY <1>2, <1>3

LEMMA NumberStep ==
    ASSUME IInv, Number
    PROVE  IInv'
<1>1. /\ Begun /\ frames # <<>> /\ Top \in Frame /\ Top.at = "switch"
      /\ outcome = "running" /\ returned = NoReturn
  BY Innermost DEF Number
<1>2. CASE Throw
  BY <1>1, <1>2, ThrowInv
<1>3. CASE ~Throw
  <2>1. /\ frames' = Below /\ returned' \in Value /\ ~Owns(returned')
        /\ UNCHANGED <<heap, outcome>> /\ get_token
    BY <1>3, NumbersArePlain, PlainValues DEF Number, Return
  <2>2. Leaves
    BY <1>1, <2>1, FrameFields, PlainValues, ReturnsLeaves
  <2> QED
    BY <1>1, <2>1, <2>2, TokenComes, LeavesInv
<1> QED
  BY <1>2, <1>3

(* Unexpected and CommaFirst do nothing but throw. *)
LEMMA ErrorStep ==
    ASSUME IInv, Unexpected \/ CommaFirst
    PROVE  IInv'
<1>1. Begun
  BY Innermost DEF Unexpected, CommaFirst
<1> QED
  BY <1>1, ThrowInv DEF Unexpected, CommaFirst

LEMMA CloseEmptyStep ==
    ASSUME IInv, CloseEmpty
    PROVE  IInv'
<1>1. PICK place \in {"object", "array"} : At(place)
  BY DEF CloseEmpty
<1>2. /\ Begun /\ frames # <<>> /\ Top \in Frame
      /\ outcome = "running" /\ returned = NoReturn
  BY <1>1, Innermost
<1>3. frames' = Below /\ returned' = Top.result /\ UNCHANGED <<heap, outcome>> /\ get_token
  BY DEF CloseEmpty, Return
<1>4. Leaves
  BY <1>2, <1>3, FrameFields, PlainValues, ReturnsLeaves
<1> QED
  BY <1>2, <1>3, <1>4, TokenComes, LeavesInv

LEMMA CloseStep ==
    ASSUME IInv, Close
    PROVE  IInv'
<1>1. PICK place \in {"close object", "close array"} : At(place)
  BY DEF Close
<1>2. /\ Begun /\ frames # <<>> /\ Top \in Frame
      /\ outcome = "running" /\ returned = NoReturn
  BY <1>1, Innermost
<1>3. CASE Throw
  BY <1>2, <1>3, ThrowInv
<1>4. CASE ~Throw
  <2>1. frames' = Below /\ returned' = Top.result /\ UNCHANGED <<heap, outcome>> /\ get_token
    BY <1>4 DEF Close, Return
  <2>2. Leaves
    BY <1>2, <2>1, FrameFields, PlainValues, ReturnsLeaves
  <2> QED
    BY <1>2, <2>1, <2>2, TokenComes, LeavesInv
<1> QED
  BY <1>3, <1>4

(* The activation at another place, with another key. *)
Elsewhere(f, at, key) == [f EXCEPT !.at = at, !.key = key]

(* The places an activation goes on to have what it has. *)
LEMMA SameResult ==
    ASSUME NEW f \in Frame, NEW at, NEW key \in Texts,
           \/ f.at \in ObjectPlaces /\ at \in ObjectPlaces
           \/ f.at \in ArrayPlaces /\ at \in ArrayPlaces
    PROVE  /\ Elsewhere(f, at, key) \in Frame
           /\ Elsewhere(f, at, key).result = f.result
           /\ [f EXCEPT !.at = at] \in Frame
           /\ [f EXCEPT !.at = at].result = f.result
<1> DEFINE g == Elsewhere(f, at, key)
           h == [f EXCEPT !.at = at]
<1>1. /\ g \in [at : {at}, result : {f.result}, key : {key}]
      /\ h \in [at : {at}, result : {f.result}, key : {f.key}]
  BY FrameFields, GoesOn DEF Elsewhere
<1> HIDE DEF g, h
<1>2. Fits(at, f.result) /\ f.result \in Value /\ f.key \in Texts
  BY FrameFields DEF Fits
<1>3. g \in Frame /\ h \in Frame
  BY <1>1, <1>2, FrameOf
<1>4. g.result = f.result /\ h.result = f.result
  BY <1>1
<1> QED
  BY <1>3, <1>4 DEF g, h

LEMMA CommaStep ==
    ASSUME IInv, Comma
    PROVE  IInv'
<1>1. PICK place \in {"next member", "next element"} : At(place)
  BY DEF Comma
<1>2. /\ Begun /\ frames # <<>> /\ Top \in Frame /\ Top.at = place
      /\ outcome = "running" /\ returned = NoReturn
  BY <1>1, Innermost
<1>3. UNCHANGED <<heap, returned, outcome>> /\ get_token
  BY DEF Comma, GoTo, Call
<1>4. CASE At("next member") /\ GoTo("key")
  <2> DEFINE f == [Top EXCEPT !.at = "key"]
  <2>1. f \in Frame /\ f.result = Top.result
    <3>1. Top.at \in ObjectPlaces /\ "key" \in ObjectPlaces /\ Top.key \in Texts
      BY <1>2, <1>4, FrameFields DEF At, ObjectPlaces
    <3> QED
      BY <1>2, <3>1, SameResult
  <2>2. frames' = Append(Below, f)
    BY <1>4 DEF GoTo
  <2> HIDE DEF f
  <2>3. Leaves
    BY <1>2, <1>3, <2>1, <2>2, GoesOnLeaves, PlainValues
  <2> QED
    BY <1>2, <1>3, <2>3, TokenComes, LeavesInv
<1>5. CASE At("next element") /\ Call("element")
  <2> DEFINE f == [Top EXCEPT !.at = "element"]
  <2>1. f \in Frame /\ f.result = Top.result
    <3>1. Top.at \in ArrayPlaces /\ "element" \in ArrayPlaces /\ Top.key \in Texts
      BY <1>2, <1>5, FrameFields DEF At, ArrayPlaces
    <3> QED
      BY <1>2, <3>1, SameResult
  <2>2. frames' = Append(Append(Below, f), Activation)
    BY <1>5 DEF Call
  <2> HIDE DEF f
  <2>3. Leaves
    BY <1>2, <1>3, <2>1, <2>2, CallsLeaves, PlainValues
  <2> QED
    BY <1>2, <1>3, <2>3, TokenComes, LeavesInv
<1> QED
  BY <1>4, <1>5 DEF Comma

LEMMA KeyStep ==
    ASSUME IInv, Key
    PROVE  IInv'
<1>1. PICK place \in {"key", "object"} : At(place)
  BY DEF Key
<1>2. /\ Begun /\ frames # <<>> /\ Top \in Frame /\ Top.at = place
      /\ outcome = "running" /\ returned = NoReturn
  BY <1>1, Innermost
<1>3. CASE Throw
  BY <1>2, <1>3, ThrowInv
<1>4. CASE ~Throw
  <2> DEFINE f == Elsewhere(Top, "separator", last_token.text)
  <2>1. f \in Frame /\ f.result = Top.result
    <3>1. Top.at \in ObjectPlaces /\ "separator" \in ObjectPlaces
      BY <1>2 DEF ObjectPlaces
    <3>2. last_token.text \in Texts
      BY <1>2, LastToken
    <3> QED
      BY <1>2, <3>1, <3>2, SameResult
  <2>2. frames' = Append(Below, f) /\ get_token /\ UNCHANGED <<returned, heap, outcome>>
    BY <1>4 DEF Key, Elsewhere
  <2> HIDE DEF f
  <2>3. Leaves
    BY <1>2, <2>1, <2>2, GoesOnLeaves, PlainValues
  <2> QED
    BY <1>2, <2>2, <2>3, TokenComes, LeavesInv
<1> QED
  BY <1>3, <1>4

LEMMA SeparatorStep ==
    ASSUME IInv, Separator
    PROVE  IInv'
<1>1. /\ Begun /\ frames # <<>> /\ Top \in Frame /\ Top.at = "separator"
      /\ outcome = "running" /\ returned = NoReturn
  BY Innermost DEF Separator
<1>2. CASE Throw
  BY <1>1, <1>2, ThrowInv
<1>3. CASE ~Throw
  <2> DEFINE f == [Top EXCEPT !.at = "member"]
  <2>1. f \in Frame /\ f.result = Top.result
    <3>1. Top.at \in ObjectPlaces /\ "member" \in ObjectPlaces /\ Top.key \in Texts
      BY <1>1, FrameFields DEF ObjectPlaces
    <3> QED
      BY <1>1, <3>1, SameResult
  <2>2. /\ frames' = Append(Append(Below, f), Activation) /\ get_token
        /\ UNCHANGED <<returned, heap, outcome>>
    BY <1>3 DEF Separator, Call
  <2> HIDE DEF f
  <2>3. Leaves
    BY <1>1, <2>1, <2>2, CallsLeaves, PlainValues
  <2> QED
    BY <1>1, <2>2, <2>3, TokenComes, LeavesInv
<1> QED
  BY <1>2, <1>3

LEMMA FirstElementStep ==
    ASSUME IInv, FirstElement
    PROVE  IInv'
<1>1. /\ Begun /\ frames # <<>> /\ Top \in Frame /\ Top.at = "array"
      /\ outcome = "running" /\ returned = NoReturn
  BY Innermost DEF FirstElement
<1> DEFINE f == [Top EXCEPT !.at = "element"]
<1>2. f \in Frame /\ f.result = Top.result
  <2>1. Top.at \in ArrayPlaces /\ "element" \in ArrayPlaces /\ Top.key \in Texts
    BY <1>1, FrameFields DEF ArrayPlaces
  <2> QED
    BY <1>1, <2>1, SameResult
<1>3. /\ frames' = Append(Append(Below, f), Activation)
      /\ UNCHANGED <<tokens, returned, heap, outcome>>
  BY DEF FirstElement, Call
<1> HIDE DEF f
<1>4. Leaves
  BY <1>1, <1>2, <1>3, CallsLeaves, PlainValues
<1> QED
  BY <1>1, <1>3, <1>4, LeavesInv DEF Begun

(* The object or array an activation has is there, and of its type. *)
LEMMA ResultThere ==
    ASSUME Begun, frames # <<>>, Owns(Top.result)
    PROVE  LET t == Top.result.m_type
               a == Top.result.m_value
           IN  /\ Owner(frames, returned, Len(frames), t, a)
               /\ a \in There(heap) /\ heap[a].kind = t /\ IsCell(heap[a])
<1> DEFINE t == Top.result.m_type
           a == Top.result.m_value
<1>1. PointsTo(Top.result, t, a)
  BY DEF PointsTo, Owns
<1> HIDE DEF t, a
<1>2. Owner(frames, returned, Len(frames), t, a)
  BY <1>1, FramesOwn DEF Begun, Top
<1>3. Points(heap, ResultsOf(frames, returned), 0, Len(frames), t, a)
  BY <1>2, PointsOf DEF Begun
<1>4. a \in There(heap) /\ heap[a].kind = t
  BY <1>3 DEF Begun, Kept, Sound
<1>5. IsCell(heap[a])
  BY <1>4 DEF Begun, IsHeap, There
<1> QED
  BY <1>2, <1>4, <1>5 DEF t, a

(* The value returned goes into a place of what the innermost activation has. *)
LEMMA ReturnedMoves ==
    ASSUME Begun, frames # <<>>, NEW h, IsHeap(h), Kept(h, ResultsOf(frames, returned)),
           NEW c \in There(h), NEW u, Owner(frames, returned, Len(frames), u, c),
           NEW cell, NEW l, WithPlace(h[c], cell, l, returned),
           NEW f \in Frame, f.result = Top.result
    PROVE  /\ Append(Below, f) \in Seq(Frame)
           /\ IsHeap([h EXCEPT ![c] = cell])
           /\ Kept([h EXCEPT ![c] = cell], ResultsOf(Append(Below, f), NoReturn))
<1> DEFINE fs1 == Append(Below, f)
<1>1. \A t, a : ~PointsTo(NoReturn, t, a)
  BY NotOwning, PlainValues
<1>2. PICK n \in Nat : n = Len(frames)
  BY LenProperties DEF Begun
<1>3. /\ fs1 \in Seq(Frame)
      /\ \A k, t, a : Owner(fs1, NoReturn, k, t, a) <=>
            \/ Outer(frames, k, t, a)
            \/ k = n /\ PointsTo(Top.result, t, a)
  BY <1>1, <1>2, FramesOwn DEF Begun, Below
<1>4. \A k, t, a : Owner(frames, returned, k, t, a) <=>
            \/ Outer(frames, k, t, a)
            \/ k = n /\ PointsTo(Top.result, t, a)
            \/ k = n + 1 /\ PointsTo(returned, t, a)
  BY <1>2, FramesOwn DEF Begun, Top
<1>5. \A t, a : ~Outer(frames, n + 1, t, a)
  BY <1>2 DEF Outer
<1>6. n # n + 1
  BY <1>2
<1>7. \A t, a : Owner(frames, returned, n + 1, t, a) <=> PointsTo(returned, t, a)
  BY <1>4, <1>5, <1>6
<1>8. \A k, t, a : Owner(fs1, NoReturn, k, t, a) <=>
                     Owner(frames, returned, k, t, a) /\ k # n + 1
  BY <1>3, <1>4, <1>5, <1>6
<1>9. Owner(frames, returned, n, u, c)
  BY <1>2
<1> HIDE DEF fs1
<1>10. IsHeap([h EXCEPT ![c] = cell]) /\ Kept([h EXCEPT ![c] = cell], ResultsOf(fs1, NoReturn))
  <2>1. PICK k0 : k0 = n + 1
    OBVIOUS
  <2>2. /\ frames \in Seq(Frame) /\ returned \in Value /\ NoReturn \in Value
        /\ fs1 \in Seq(Frame) /\ n # k0
    BY <1>3, <1>6, <2>1, PlainValues DEF Begun
  <2>3. \A t, a : Owner(frames, returned, k0, t, a) <=> PointsTo(returned, t, a)
    BY <1>7, <2>1
  <2>4. \A k, t, a : Owner(fs1, NoReturn, k, t, a) <=>
                       Owner(frames, returned, k, t, a) /\ k # k0
    BY <1>8, <2>1
  <2>5. IsMove(h, frames, returned, returned, k0, n, u, c, cell, l, fs1, NoReturn)
    BY <1>9, <2>2, <2>3, <2>4 DEF IsMove
  <2> QED
    BY <2>5, OwnerMoves
<1> QED
  BY <1>3, <1>10 DEF fs1

(* The activation goes on where the member or element is in, or was discarded. *)
LEMMA Received ==
    ASSUME IInv, NEW place \in {"member", "element"}, Receives(place),
           NEW more, NEW done, Receive(more, done),
           \/ place = "member" /\ more = "next member" /\ done = "close object"
           \/ place = "element" /\ more = "next element" /\ done = "close array"
    PROVE  \E f \in Frame : f.result = Top.result /\ frames' = Append(Below, f)
<1>1. Top \in Frame /\ Top.at = place
  BY Innermost
<1> DEFINE at == IF Is("value_separator") THEN more ELSE done
           f == Elsewhere(Top, at, NoKey)
<1>2. \/ Top.at \in ObjectPlaces /\ at \in ObjectPlaces
      \/ Top.at \in ArrayPlaces /\ at \in ArrayPlaces
  BY <1>1 DEF ObjectPlaces, ArrayPlaces
<1>3. frames' = Append(Below, f)
  BY DEF Receive, Elsewhere
<1>4. NoKey \in Texts
  BY DEF Texts
<1> HIDE DEF at
<1>5. f \in Frame /\ f.result = Top.result
  BY <1>1, <1>2, <1>4, SameResult
<1> HIDE DEF f
<1> QED
  BY <1>3, <1>5

LEMMA AddElementStep ==
    ASSUME IInv, AddElement
    PROVE  IInv'
<1>1. Receives("element") /\ Receive("next element", "close array")
  BY DEF AddElement
<1>2. /\ Begun /\ frames # <<>> /\ Top \in Frame /\ Top.at = "element"
      /\ outcome = "running"
  BY <1>1, Innermost
<1>3. PICK f \in Frame : f.result = Top.result /\ frames' = Append(Below, f)
  BY <1>1, Received
<1>4. /\ returned' = NoReturn /\ UNCHANGED <<tokens, outcome>>
      /\ tokens \in Seq(Tokens) /\ tokens # <<>>
  BY <1>1, <1>2 DEF Receive, Begun
<1>5. CASE returned = Discarded
  <2>1. UNCHANGED heap
    BY <1>5 DEF AddElement
  <2>2. Leaves
    BY <1>2, <1>3, <1>4, <1>5, GoesOnLeaves, PlainValues
  <2> QED
    BY <1>2, <1>4, <2>1, <2>2, LeavesInv
<1>6. CASE returned # Discarded
  <2> DEFINE a == Top.result.m_value
             es == heap[a].elements
             cell == ArrayOf(Append(es, returned))
  <2>1. Top.result.m_type = "array"
    BY <1>2, FrameFields DEF ArrayPlaces
  <2>2. /\ Owner(frames, returned, Len(frames), "array", a)
        /\ a \in There(heap) /\ heap[a].kind = "array" /\ IsCell(heap[a])
    BY <1>2, <2>1, ResultThere DEF Owns, Allocated
  <2>3. heap' = [heap EXCEPT ![a] = cell]
    BY <1>6 DEF AddElement
  <2>4. WithPlace(heap[a], cell, Len(es) + 1, returned)
    <3>1. es \in Seq(Value)
      BY <2>2 DEF IsCell, Free
    <3>2. PICK n \in Nat : n = Len(es) /\ DOMAIN es = 1 .. n
      BY <3>1, LenProperties
    <3>3. returned \in Value
      BY <1>2 DEF Begun
    <3> DEFINE es1 == Append(es, returned)
    <3> HIDE DEF a, es
    <3>4. /\ es1 \in Seq(Value) /\ Len(es1) = n + 1
          /\ \A i \in 1 .. n : es1[i] = es[i]
          /\ es1[n + 1] = returned
      BY <3>1, <3>2, <3>3, AppendProperties
    <3>5. DOMAIN es1 = 1 .. n + 1
      BY <3>4, LenProperties
    <3>6. 1 .. n + 1 = (1 .. n) \cup {n + 1} /\ n + 1 \notin 1 .. n
      BY <3>2
    <3> HIDE DEF es1
    <3>7. IsCell(ArrayOf(es1))
      BY <3>4 DEF IsCell, ArrayOf
    <3>8. /\ ArrayOf(es1).kind = "array" /\ Slots(ArrayOf(es1)) = DOMAIN es1
          /\ \A k : HeldIn(ArrayOf(es1), k) = es1[k]
      BY DEF ArrayOf, Slots, HeldIn
    <3>9. Slots(heap[a]) = DOMAIN es /\ \A k : HeldIn(heap[a], k) = es[k]
      BY <2>2 DEF es, Slots, HeldIn
    <3> QED
      BY <2>2, <3>2, <3>4, <3>5, <3>6, <3>7, <3>8, <3>9 DEF WithPlace, es1
  <2> HIDE DEF a, cell
  <2>5. /\ Append(Below, f) \in Seq(Frame) /\ IsHeap(heap')
        /\ Kept(heap', ResultsOf(Append(Below, f), NoReturn))
    BY <1>2, <1>3, <2>2, <2>3, <2>4, ReturnedMoves DEF Begun
  <2>6. Begun'
    BY <1>2, <1>3, <1>4, <2>5, PlainValues DEF Begun, ResultsOf, IsHeap
  <2> QED
    BY <2>6, BegunIsEnough
<1> QED
  BY <1>5, <1>6

(* What With adds to an object that has no member of that name. *)
LEMMA MemberAdded ==
    ASSUME NEW old, IsCell(old), old.kind = "object", NEW v \in Value, NEW ms, NEW key,
           ms \in [DOMAIN ms -> Value], DOMAIN ms = DOMAIN old.members \ {key},
           \A k \in DOMAIN ms : ms[k] = old.members[k]
    PROVE  /\ WithPlace(ObjectOf(ms), ObjectOf(With(old.members, key, v)), key, v)
           /\ WithoutPlace(old, ObjectOf(ms), key)
<1>1. \A x : ObjectOf(x).kind = "object" /\ ObjectOf(x).members = x
  BY DEF ObjectOf
<1>2. \A cell : cell.kind = "object" => /\ Slots(cell) = DOMAIN cell.members
                                        /\ \A k : HeldIn(cell, k) = cell.members[k]
  BY DEF Slots, HeldIn
<1> DEFINE all == With(old.members, key, v)
<1>3. /\ DOMAIN all = DOMAIN ms \cup {key} /\ all[key] = v
      /\ \A k \in DOMAIN ms : all[k] = ms[k]
  BY DEF With
<1> HIDE DEF all
<1>4. all \in [DOMAIN all -> Value]
  <2>1. \A k \in DOMAIN all : all[k] \in Value
    BY <1>3
  <2>2. all = [k \in DOMAIN all |-> all[k]]
    BY DEF all, With
  <2> QED
    BY <2>1, <2>2
<1>5. IsCell(ObjectOf(ms)) /\ IsCell(ObjectOf(all))
  BY <1>1, <1>4 DEF IsCell
<1>6. WithPlace(ObjectOf(ms), ObjectOf(all), key, v)
  BY <1>1, <1>2, <1>3, <1>5 DEF WithPlace
<1>7. WithoutPlace(old, ObjectOf(ms), key)
  BY <1>1, <1>2, <1>5 DEF WithoutPlace
<1> QED
  BY <1>6, <1>7 DEF all

LEMMA AddMemberStep ==
    ASSUME IInv, AddMember
    PROVE  IInv'
<1>1. Receives("member") /\ Receive("next member", "close object")
  BY DEF AddMember
<1>2. /\ Begun /\ frames # <<>> /\ Top \in Frame /\ Top.at = "member"
      /\ outcome = "running"
  BY <1>1, Innermost
<1>3. PICK f \in Frame : f.result = Top.result /\ frames' = Append(Below, f)
  BY <1>1, Received
<1>4. /\ returned' = NoReturn /\ UNCHANGED <<tokens, outcome>>
      /\ tokens \in Seq(Tokens) /\ tokens # <<>>
  BY <1>1, <1>2 DEF Receive, Begun
<1>5. CASE returned = Discarded
  <2>1. UNCHANGED heap
    BY <1>5 DEF AddMember
  <2>2. Leaves
    BY <1>2, <1>3, <1>4, <1>5, GoesOnLeaves, PlainValues
  <2> QED
    BY <1>2, <1>4, <2>1, <2>2, LeavesInv
<1>6. CASE returned # Discarded
  <2> DEFINE a == Top.result.m_value
             key == Top.key
             old == heap[a].members
             freed == IF key \in DOMAIN old THEN Destroyed(heap, old[key]) ELSE heap
             cell == ObjectOf(With(old, key, returned))
             ms == [k \in DOMAIN old \ {key} |-> old[k]]
  <2>1. Top.result.m_type = "object"
    BY <1>2, FrameFields DEF ObjectPlaces
  <2>2. /\ Owner(frames, returned, Len(frames), "object", a)
        /\ a \in There(heap) /\ heap[a].kind = "object" /\ IsCell(heap[a])
    BY <1>2, <2>1, ResultThere DEF Owns, Allocated
  <2>3. heap' = [freed EXCEPT ![a] = cell]
    BY <1>6 DEF AddMember
  <2>4. old \in [DOMAIN old -> Value]
    BY <2>2 DEF IsCell, Free
  <2>5. returned \in Value
    BY <1>2 DEF Begun
  <2>6. /\ WithPlace(ObjectOf(ms), cell, key, returned)
        /\ WithoutPlace(heap[a], ObjectOf(ms), key)
    <3>1. /\ ms \in [DOMAIN ms -> Value] /\ DOMAIN ms = DOMAIN old \ {key}
          /\ \A k \in DOMAIN ms : ms[k] = old[k]
      BY <2>4
    <3> HIDE DEF ms, a, key
    <3> QED
      BY <2>2, <2>5, <3>1, MemberAdded
  <2>7. Slots(heap[a]) = DOMAIN old /\ \A k : HeldIn(heap[a], k) = old[k]
    BY <2>2 DEF Slots, HeldIn
  <2> HIDE DEF a, key, cell
  <2>8. /\ Append(Below, f) \in Seq(Frame) /\ IsHeap(heap')
        /\ Kept(heap', ResultsOf(Append(Below, f), NoReturn))
    <3>1. CASE key \notin DOMAIN old
      <4>1. freed = heap /\ DOMAIN ms = DOMAIN old
        BY <3>1
      <4>2. WithPlace(heap[a], cell, key, returned)
        BY <2>6, <2>7, <3>1, <4>1 DEF WithPlace, WithoutPlace
      <4> HIDE DEF freed
      <4> QED
        BY <1>2, <1>3, <2>2, <2>3, <4>1, <4>2, ReturnedMoves DEF Begun
    <3>2. CASE key \in DOMAIN old
      <4> DEFINE hm == [freed EXCEPT ![a] = ObjectOf(ms)]
      <4>1. freed = Destroyed(heap, HeldIn(heap[a], key))
        BY <2>7, <3>2
      <4> HIDE DEF freed, ms, old
      <4>2. /\ a \in There(freed) /\ IsHeap(hm) /\ a \in There(hm) /\ hm[a] = ObjectOf(ms)
            /\ Kept(hm, ResultsOf(frames, returned))
        <5>1. IsSlotEnd(heap, frames, returned, Len(frames), "object", a, ObjectOf(ms), key)
          BY <1>2, <2>2, <2>6, <2>7, <3>2 DEF Begun, IsSlotEnd, old
        <5> QED
          BY <4>1, <5>1, SlotGoes
      <4>3. [hm EXCEPT ![a] = cell] = [freed EXCEPT ![a] = cell]
        BY DEF hm
      <4> HIDE DEF hm
      <4>4. WithPlace(hm[a], cell, key, returned)
        BY <2>6, <4>2
      <4>5. /\ Append(Below, f) \in Seq(Frame) /\ IsHeap([hm EXCEPT ![a] = cell])
            /\ Kept([hm EXCEPT ![a] = cell], ResultsOf(Append(Below, f), NoReturn))
        BY <1>2, <1>3, <2>2, <4>2, <4>4, ReturnedMoves
      <4> QED
        BY <2>3, <4>3, <4>5
    <3> QED
      BY <3>1, <3>2
  <2>9. Begun'
    BY <1>2, <1>3, <1>4, <2>8, PlainValues DEF Begun, ResultsOf, IsHeap
  <2> QED
    BY <2>9, BegunIsEnough
<1> QED
  BY <1>5, <1>6

LEMMA UnwindStep ==
    ASSUME IInv, Unwind
    PROVE  IInv'
<1>1. Begun /\ UNCHANGED tokens /\ outcome' \in {"throwing", "thrown"}
  BY BegunHolds DEF Unwind
<1>2. tokens' \in Seq(Tokens) /\ tokens' # <<>>
  BY <1>1 DEF Begun
<1>3. CASE returned # NoReturn
  <2>1. /\ heap' = Destroyed(heap, returned) /\ returned' = NoReturn
        /\ UNCHANGED <<frames, outcome>>
    BY <1>3 DEF Unwind
  <2>2. \A t, a : ~PointsTo(NoReturn, t, a)
    BY NotOwning, PlainValues
  <2>3. PICK n \in Nat : n = Len(frames)
    BY <1>1, LenProperties DEF Begun
  <2>4. \A t, a : Owner(frames, returned, n + 1, t, a) <=> PointsTo(returned, t, a)
    BY <2>3 DEF Owner
  <2>5. \A k, t, a : Owner(frames, NoReturn, k, t, a) <=>
                       Owner(frames, returned, k, t, a) /\ k # n + 1
    BY <2>2, <2>3 DEF Owner
  <2>6. IsHeap(heap') /\ Kept(heap', ResultsOf(frames, NoReturn))
    <3>1. IsEnd(heap, frames, returned, returned, n + 1, frames, NoReturn)
      BY <1>1, <2>4, <2>5, PlainValues DEF Begun, IsEnd
    <3> QED
      BY <2>1, <3>1, OwnerGoes
  <2>7. Begun'
    BY <1>1, <1>2, <2>1, <2>6, PlainValues DEF Begun, ResultsOf, IsHeap
  <2> QED
    BY <2>7, BegunIsEnough
<1>4. CASE returned = NoReturn /\ frames # <<>>
  <2>1. /\ heap' = Destroyed(heap, Top.result) /\ frames' = Below
        /\ UNCHANGED <<returned, outcome>>
    BY <1>4 DEF Unwind
  <2>2. \A t, a : ~PointsTo(NoReturn, t, a)
    BY NotOwning, PlainValues
  <2>3. PICK n \in Nat : n = Len(frames)
    BY <1>1, LenProperties DEF Begun
  <2>4. /\ Below \in Seq(Frame)
        /\ \A k, t, a : Owner(Below, NoReturn, k, t, a) <=> Outer(frames, k, t, a)
        /\ \A k, t, a : Owner(frames, NoReturn, k, t, a) <=>
              \/ Outer(frames, k, t, a)
              \/ k = n /\ PointsTo(Top.result, t, a)
    BY <1>1, <1>4, <2>2, <2>3, FramesOwn DEF Begun, Top, Below
  <2>5. \A t, a : ~Outer(frames, n, t, a)
    BY <2>3 DEF Outer
  <2>6. \A t, a : Owner(frames, NoReturn, n, t, a) <=> PointsTo(Top.result, t, a)
    BY <2>4, <2>5
  <2>7. \A k, t, a : Owner(Below, NoReturn, k, t, a) <=>
                       Owner(frames, NoReturn, k, t, a) /\ k # n
    BY <2>4, <2>5
  <2>8. IsHeap(heap') /\ Kept(heap', ResultsOf(Below, NoReturn))
    <3>1. IsEnd(heap, frames, returned, Top.result, n, Below, NoReturn)
      BY <1>1, <1>4, <2>4, <2>6, <2>7, PlainValues DEF Begun, IsEnd
    <3> QED
      BY <2>1, <3>1, OwnerGoes
  <2>9. Begun'
    BY <1>1, <1>2, <1>4, <2>1, <2>4, <2>8, PlainValues DEF Begun, ResultsOf, IsHeap
  <2> QED
    BY <2>9, BegunIsEnough
<1>5. CASE returned = NoReturn /\ frames = <<>>
  <2>1. UNCHANGED <<frames, returned, heap>>
    BY <1>5 DEF Unwind
  <2>2. Leaves
    BY <1>1, <2>1 DEF Begun, Leaves
  <2> QED
    BY <1>1, <1>2, <2>1, <2>2, LeavesInv
<1> QED
  BY <1>3, <1>4, <1>5

LEMMA FinishStep ==
    ASSUME IInv, Finish
    PROVE  IInv'
<1>1. Begun
  BY BegunHolds DEF Finish
<1>2. CASE Throw
  BY <1>1, <1>2, ThrowInv
<1>3. CASE ~Throw
  <2>1. /\ outcome' = "parsed" /\ UNCHANGED <<tokens, frames, heap>>
        /\ returned' = IF returned = Discarded THEN Null ELSE returned
    BY <1>3 DEF Finish
  <2>2. returned' \in Value /\ \A t, a : PointsTo(returned', t, a) <=> PointsTo(returned, t, a)
    BY <1>1, <2>1, PlainValues, NotOwning DEF Begun
  <2>3. Leaves
    BY <1>1, <2>1, <2>2 DEF Begun, Leaves, Owner
  <2> QED
    BY <1>1, <2>1, <2>3, LeavesInv DEF Begun
<1> QED
  BY <1>2, <1>3

-----------------------------------------------------------------------------
(* The theorems. *)

LEMMA Begins ==
    ASSUME Init
    PROVE  IInv
<1>1. /\ tokens \in Seq(Tokens) /\ frames \in Seq(Frame) /\ frames = <<>>
      /\ returned = NoReturn /\ returned \in Value /\ outcome = "begin"
  BY EmptySeq, PlainValues DEF Init
<1>2. DOMAIN heap = Addresses /\ \A a \in Addresses : heap[a] = Free
  BY DEF Init, EmptyHeap
<1>3. TypeOK
  BY <1>1, <1>2, Cells DEF TypeOK
<1>4. \A b, k, t, a : ~Points(heap, ResultsOf(frames, returned), b, k, t, a)
  <2>1. \A k, t, a : ~Owner(frames, returned, k, t, a)
    BY <1>1, PlainValues, NotOwning DEF Owner
  <2>2. \A b, k, t, a : ~CellAt(heap, b, k, t, a)
    BY <1>2, Cells DEF CellAt
  <2>3. \A b, k, t, a : Points(heap, ResultsOf(frames, returned), b, k, t, a) <=>
            (b = 0 /\ Owner(frames, returned, k, t, a)) \/ CellAt(heap, b, k, t, a)
    BY <1>1, PointsOf
  <2> QED
    BY <2>1, <2>2, <2>3
<1>5. There(heap) = {}
  BY <1>2 DEF There
<1>6. Kept(heap, ResultsOf(frames, returned))
  BY <1>4, <1>5 DEF Kept, Sound, Unique, Reached
<1> QED
  BY <1>3, <1>6 DEF IInv, Results, ResultsOf

LEMMA Stutters ==
    ASSUME IInv, UNCHANGED vars
    PROVE  IInv'
BY DEF IInv, TypeOK, Kept, Results, vars

(***************************************************************************)
(* Every step of the parser keeps the inductive invariant.                 *)
(***************************************************************************)
THEOREM Inductive == Spec => []IInv
<1>1. Init => IInv
  BY Begins
<1>2. IInv /\ [Next]_vars => IInv'
  <2> SUFFICES ASSUME IInv, [Next]_vars PROVE IInv'
    OBVIOUS
  <2>1. CASE Parse \/ Open \/ Literal \/ String \/ Number
    BY <2>1, ParseStep, OpenStep, LiteralStep, StringStep, NumberStep
  <2>2. CASE Unexpected \/ CommaFirst \/ CloseEmpty \/ Close \/ Finish
    BY <2>2, ErrorStep, CloseEmptyStep, CloseStep, FinishStep
  <2>3. CASE Comma \/ Key \/ Separator \/ FirstElement
    BY <2>3, CommaStep, KeyStep, SeparatorStep, FirstElementStep
  <2>4. CASE AddMember \/ AddElement \/ Unwind
    BY <2>4, AddMemberStep, AddElementStep, UnwindStep
  <2>5. CASE UNCHANGED vars
    BY <2>5, Stutters
  <2> QED
    BY <2>1, <2>2, <2>3, <2>4, <2>5 DEF Next
<1> QED
  BY <1>1, <1>2, PTL DEF Spec

(***************************************************************************)
(* Activations have what they fill: an object where members are added, an  *)
(* array where elements are, and nothing before a bracket has been read.   *)
(***************************************************************************)
THEOREM TypeCorrect == Spec => []TypeOK
<1>1. IInv => TypeOK
  BY DEF IInv
<1> QED
  BY <1>1, Inductive, PTL

(***************************************************************************)
(* Whatever the text is, and wherever it turns out not to be a document,   *)
(* every object, array and string that parse_internal allocated has one    *)
(* owner: none is leaked and none is freed twice.                          *)
(***************************************************************************)
THEOREM OneOwnerHolds == Spec => []OneOwner
<1>1. IInv => OneOwner
  BY KeptIsSingle DEF IInv, OneOwner
<1> QED
  BY <1>1, Inductive, PTL
=============================================================================
