-------------------------- MODULE ConcatParseProofs --------------------------
(***************************************************************************)
(* What parsing leaves behind is what a read relies on, and descriptors    *)
(* are accounted for, whatever descriptions and files are and however they *)
(* are edited meanwhile.                                                   *)
(***************************************************************************)
EXTENDS ConcatParse, TLAPS, WellFoundedInduction

-----------------------------------------------------------------------------
(* The chunks of a merged file, with one more. *)

(* A chunk that starts where the others end keeps them laid end to end. *)
LEMMA OneMoreChunk ==
    ASSUME NEW cs \in Seq(Chunk), LaidOut(cs),
           NEW k \in Chunk, k.base = MergedLength(cs)
    PROVE  /\ Append(cs, k) \in Seq(Chunk)
           /\ LaidOut(Append(cs, k))
           /\ MergedLength(Append(cs, k)) = k.base + k.size
<1> DEFINE ds == Append(cs, k)
<1>1. /\ ds \in Seq(Chunk) /\ ds # <<>>
      /\ Len(cs) \in Nat /\ Len(ds) = Len(cs) + 1
      /\ DOMAIN cs = 1 .. Len(cs) /\ DOMAIN ds = 1 .. Len(cs) + 1
      /\ \A i \in 1 .. Len(cs) : ds[i] = cs[i]
      /\ ds[Len(cs) + 1] = k
  OBVIOUS
<1>2. MergedLength(ds) = k.base + k.size
  BY <1>1 DEF MergedLength
<1>3. \A i \in 1 .. Len(cs) :
          /\ cs[i].base \in Nat /\ cs[i].size \in Nat
          /\ cs[i].base + cs[i].size <= k.base
          /\ i = Len(cs) => cs[i].base + cs[i].size = k.base
          /\ i < Len(cs) => cs[i + 1].base = cs[i].base + cs[i].size
  <2>1. ASSUME NEW i \in 1 .. Len(cs)
        PROVE  /\ cs[i].base \in Nat /\ cs[i].size \in Nat
               /\ cs[i].base + cs[i].size <= k.base
               /\ i = Len(cs) => cs[i].base + cs[i].size = k.base
               /\ i < Len(cs) => cs[i + 1].base = cs[i].base + cs[i].size
    <3>1. /\ Len(cs) \in 1 .. Len(cs) /\ cs # <<>>
          /\ cs[i] \in Chunk /\ cs[Len(cs)] \in Chunk
      BY <1>1, <2>1
    <3>2. /\ cs[i].base \in Nat /\ cs[i].size \in Nat
          /\ cs[Len(cs)].base \in Nat /\ cs[Len(cs)].size \in Nat
      BY <3>1 DEF Chunk
    <3>3. k.base = cs[Len(cs)].base + cs[Len(cs)].size
      BY <3>1 DEF MergedLength
    <3>4. i < Len(cs) => cs[i + 1].base = cs[i].base + cs[i].size
      BY <1>1, <2>1 DEF LaidOut
    <3>5. i < Len(cs) => cs[i].base + cs[i].size <= cs[Len(cs)].base
      BY <1>1, <2>1, <3>1 DEF LaidOut
    <3>6. i = Len(cs) \/ i < Len(cs)
      <4>1. Len(cs) \in Nat /\ i \in 1 .. Len(cs)
        BY <1>1, <2>1
      <4> QED
        BY <4>1
    <3>7. cs[i].base + cs[i].size <= k.base /\ (i = Len(cs) => cs[i].base + cs[i].size = k.base)
      BY <3>2, <3>3, <3>5, <3>6
    <3> QED
      BY <3>2, <3>4, <3>7
  <2> QED
    BY <2>1
<1>4. cs = <<>> => k.base = 0
  BY DEF MergedLength
<1>5. ds[1].base = 0
  BY <1>1, <1>4 DEF LaidOut
<1>6. ASSUME NEW i \in DOMAIN ds, i + 1 \in DOMAIN ds
      PROVE  ds[i + 1].base = ds[i].base + ds[i].size
  <2>1. i \in 1 .. Len(cs)
    BY <1>1, <1>6
  <2>2. CASE i = Len(cs)
    BY <1>1, <1>3, <2>1, <2>2
  <2>3. CASE i < Len(cs)
    <3>1. i + 1 \in 1 .. Len(cs)
      BY <1>1, <2>1, <2>3
    <3>2. ds[i] = cs[i] /\ ds[i + 1] = cs[i + 1]
      BY <1>1, <2>1, <3>1
    <3> QED
      BY <1>3, <2>1, <2>3, <3>2
  <2> QED
    BY <1>1, <2>1, <2>2, <2>3
<1>7. ASSUME NEW i \in DOMAIN ds, NEW j \in DOMAIN ds, i < j
      PROVE  ds[i].base + ds[i].size <= ds[j].base
  <2>1. i \in 1 .. Len(cs)
    BY <1>1, <1>7
  <2>2. CASE j = Len(cs) + 1
    BY <1>1, <1>3, <2>1, <2>2
  <2>3. CASE j \in 1 .. Len(cs)
    <3>1. ds[i] = cs[i] /\ ds[j] = cs[j]
      BY <1>1, <2>1, <2>3
    <3> QED
      BY <1>1, <1>7, <2>1, <2>3, <3>1 DEF LaidOut
  <2> QED
    BY <1>1, <2>2, <2>3
<1>8. LaidOut(ds)
  BY <1>5, <1>6, <1>7 DEF LaidOut
<1> QED
  BY <1>1, <1>2, <1>8

(* What lay inside a chunk still does; so does what lies in the new one. *)
LEMMA InsideMore ==
    ASSUME NEW cs \in Seq(Chunk), NEW k \in Chunk, NEW r \in Replaced,
           \/ InsideOneChunk(r, cs)
           \/ k.base <= r.offset /\ r.offset + r.length <= k.base + k.size
    PROVE  InsideOneChunk(r, Append(cs, k))
<1> DEFINE ds == Append(cs, k)
<1>1. /\ Len(cs) \in Nat
      /\ DOMAIN cs = 1 .. Len(cs) /\ DOMAIN ds = 1 .. Len(cs) + 1
      /\ \A i \in 1 .. Len(cs) : ds[i] = cs[i]
      /\ ds[Len(cs) + 1] = k
  OBVIOUS
<1>2. Len(cs) + 1 \in DOMAIN ds
  BY <1>1
<1>3. CASE InsideOneChunk(r, cs)
  BY <1>1, <1>3 DEF InsideOneChunk
<1>4. CASE k.base <= r.offset /\ r.offset + r.length <= k.base + k.size
  BY <1>1, <1>2, <1>4 DEF InsideOneChunk
<1> QED
  BY <1>3, <1>4

-----------------------------------------------------------------------------
(* The inductive invariant. *)

Building == pc \in {"entry", "stat", "patch"}
HasChunk == pc \in {"stat", "patch"}

Blank == chunks = <<>> /\ replaces = <<>> /\ decoded = <<>> /\ merged_size = 0

(* A replacement lies in the chunk under construction. *)
InsideThis(r) == off <= r.offset /\ r.offset + r.length <= off + c.size

Placed(r) == \/ InsideOneChunk(r, chunks)
             \/ pc = "patch" /\ InsideThis(r)

(* A strict parse lays the chunks end to end, up to off. *)
StrictSoFar ==
    /\ LaidOut(chunks)
    /\ off = MergedLength(chunks)
    /\ Len(chunks) = ct - 1
    /\ \A i \in DOMAIN replaces : replaces[i].length > 0 /\ Placed(replaces[i])
    /\ merged_size = IF pc = "patch" THEN off + c.size ELSE off

(* A lenient parse adds up sizes. *)
LenientSoFar ==
    /\ pc # "patch"
    /\ chunks = <<>> /\ replaces = <<>> /\ decoded = <<>>

LayoutInv ==
    /\ is_valid => pc = "done"
    /\ pc \in {"none", "sized"} => Blank
    /\ Building => IF strict THEN StrictSoFar ELSE LenientSoFar
    /\ HasChunk => ct <= Len(json.entries) /\ This.path # ""
    /\ ParsedWellFormed
    /\ FailedIsEmpty

(* The chunk under construction holds a descriptor of its own, if any. *)
OwnThis ==
    c.fd # -1 => /\ HasChunk
                 /\ c.fd \in DOMAIN fdtable \ lost
                 /\ fdtable[c.fd] = json.entries[ct].path

DescriptorInv ==
    /\ OwnDescriptors
    /\ OwnThis
    /\ DescriptorsAccounted

(* All that a strict parse finds lost was open before it, on the same files. *)
TableInv ==
    (strict /\ (pc = "sized" \/ Building)) \/ Usable =>
        /\ lost = DOMAIN before
        /\ \A f \in lost : fdtable[f] = before[f]

ParseInv ==
    /\ TypeOK
    /\ ContentCovers
    /\ LayoutInv
    /\ DescriptorInv
    /\ TableInv

-----------------------------------------------------------------------------
(* The constants. *)
LEMMA ConstantFacts ==
    /\ -1 \notin Descriptors
    /\ MaxLength \in Nat
    /\ IntSpan \in Nat \ {0}
    /\ LongSpan \in Nat \ {0}
BY DescriptorRange, IntegerWidths

(* An integer stored in a signed type is an integer. *)
LEMMA NarrowedInt ==
    ASSUME NEW n \in Int, NEW span \in Nat \ {0}
    PROVE  Narrowed(n, span) \in Int
BY DEF Narrowed

(* open returns a descriptor that is free. *)
LEMMA LowestIsFree ==
    ASSUME Free # {}
    PROVE  LowestFree \in Free
<1>1. Free \subseteq Nat
  BY DescriptorRange DEF Free
<1>2. PICK f \in Free : \A g \in Free : <<g, f>> \notin OpToRel(<, Nat)
  BY <1>1, NatLessThanWellFounded, WFMin
<1>3. \A g \in Free : ~(g < f)
  BY <1>1, <1>2 DEF OpToRel
<1>4. \A g \in Free : f <= g
  BY <1>1, <1>3
<1> QED
  BY <1>4 DEF LowestFree

(* The entry at which the parse is, and its chunk. *)
LEMMA EntryFields ==
    ASSUME TypeOK
    PROVE  /\ json.entries \in Seq(Entry) /\ Len(json.entries) \in Nat
           /\ ct \in Nat \ {0}
           /\ c.size \in Nat /\ c.fd \in Descriptors \cup {-1}
           /\ ct <= Len(json.entries) =>
                  /\ This \in Entry
                  /\ This.path \in Paths \cup {""}
                  /\ This.patches \in Seq(Item)
           /\ \A p \in Paths : files[p].size \in Nat
<1>1. json.entries \in Seq(Entry) /\ Len(json.entries) \in Nat
  BY DEF TypeOK, Json
<1>2. ct \in 1 .. Len(json.entries) + 1
  BY DEF TypeOK
<1>3. ASSUME ct <= Len(json.entries)
      PROVE  /\ This \in Entry
             /\ This.path \in Paths \cup {""}
             /\ This.patches \in Seq(Item)
  <2>1. This \in Entry
    BY <1>1, <1>2, <1>3 DEF This
  <2> QED
    BY <2>1 DEF Entry
<1>4. \A p \in Paths : files[p].size \in Nat
  BY DEF TypeOK, FileState
<1>5. c.size \in Nat /\ c.fd \in Descriptors \cup {-1}
  BY DEF TypeOK
<1>6. ct \in Nat \ {0}
  BY <1>1, <1>2
<1> QED
  BY <1>1, <1>3, <1>4, <1>5, <1>6

(* A text that is no array has no entries. *)
LEMMA NoJsonType ==
    /\ NoJson \in Json
    /\ Len(NoJson.entries) = 0
    /\ 1 \in 1 .. Len(NoJson.entries) + 1
<1>1. NoJson.entries = <<>> /\ <<>> \in Seq(Entry) /\ Len(<<>>) = 0
  BY DEF NoJson
<1>2. NoJson \in Json
  BY <1>1 DEF NoJson, Json
<1> QED
  BY <1>1, <1>2

(* Closing the descriptors of the chunks leaves open ones that were. *)
LEMMA RemoveAllType ==
    ASSUME TypeOK, RemoveAll
    PROVE  /\ DOMAIN fdtable' = DOMAIN fdtable \ Held
           /\ DOMAIN fdtable' \subseteq Descriptors
           /\ \A f \in DOMAIN fdtable' : fdtable'[f] \in Paths
           /\ chunks' \in Seq(Chunk) /\ replaces' \in Seq(Replaced)
           /\ decoded' \in Seq(Int)
           /\ merged_size' = 0 /\ is_valid' \in BOOLEAN
<1>1. is_valid' \in BOOLEAN
  BY Zenon DEF RemoveAll
<1> QED
  BY <1>1 DEF TypeOK, RemoveAll, Keep

(***************************************************************************)
(* The range parseJson keeps of a replacement it does not ignore is not    *)
(* empty and lies inside the file, whatever the numbers written were.      *)
(***************************************************************************)
LEMMA KeptInside ==
    ASSUME TypeOK, AtPatch, HasChunk => ct <= Len(json.entries), ~Ignored
    PROVE  /\ Start \in Nat /\ Kept \in Nat \ {0} /\ Length \in Int
           /\ Start + Kept <= c.size
           /\ Kept <= Length
           /\ Patch.content \in Int
<1>1. This.patches \in Seq(Item) /\ c.size \in Nat
  BY EntryFields DEF AtPatch, HasChunk
<1>2. Patch \in Item
  BY <1>1 DEF AtPatch, Patch, TypeOK
<1>3. Length \in Int /\ Wanted \in Int
  BY <1>2, NarrowedInt, ConstantFacts DEF Length, Wanted, Item
<1>4. Length > 0 /\ -c.size <= Wanted /\ Wanted < c.size
  BY <1>1, <1>3 DEF Ignored, InFile
<1>5. Start \in 0 .. c.size - 1
  BY <1>1, <1>3, <1>4 DEF Start
<1>6. /\ Kept \in Int /\ Kept > 0 /\ Kept <= Length
      /\ Start + Kept <= c.size
  BY <1>1, <1>3, <1>4, <1>5 DEF Kept, Min2
<1> QED
  BY <1>1, <1>2, <1>3, <1>5, <1>6 DEF Item

-----------------------------------------------------------------------------
(* One lemma for each step. *)

(* The invariant holds at the start. *)
LEMMA InitInv == Init => ParseInv
<1> SUFFICES ASSUME Init PROVE ParseInv
  OBVIOUS
<1>1. TypeOK
  <2>1. files \in [Paths -> FileState] /\ doc \in Document
    BY InputsInRange DEF Init
  <2>2. json \in Json /\ ct \in 1 .. Len(json.entries) + 1
    BY NoJsonType DEF Init
  <2>3. c \in [size : Nat, fd : Descriptors \cup {-1}]
    BY DEF Init, NoChunk
  <2>4. DOMAIN fdtable = {}
    BY DEF Init
  <2>5. strict \in BOOLEAN /\ is_valid \in BOOLEAN
    BY DEF Init
  <2> QED
    BY <2>1, <2>2, <2>3, <2>4, <2>5 DEF Init, TypeOK
<1>2. ContentCovers
  BY DEF Init, ContentCovers
<1>3. LayoutInv
  BY DEF Init, LayoutInv, Blank, Building, HasChunk, ParsedWellFormed, Usable,
         FailedIsEmpty
<1>4. DescriptorInv
  BY DEF Init, DescriptorInv, OwnDescriptors, OwnThis, DescriptorsAccounted,
         Held, NoChunk
<1>5. TableInv
  BY DEF Init, TableInv, Building, Usable
<1> QED
  BY <1>1, <1>2, <1>3, <1>4, <1>5 DEF ParseInv

(***************************************************************************)
(* A failure closes what the chunks hold and counts the descriptor of the  *)
(* chunk under construction as lost.                                       *)
(***************************************************************************)
LEMMA ThrowKeeps ==
    ASSUME ParseInv, Throw
    PROVE  ParseInv'
<1>1. TypeOK'
  <2>1. RemoveAll /\ TypeOK
    BY DEF ParseInv, Throw
  <2>2. c' \in [size : Nat, fd : Descriptors \cup {-1}]
    BY DEF Throw, NoChunk
  <2>3. lost' \subseteq Descriptors
    BY <2>1 DEF Throw, TypeOK
  <2> QED
    BY <2>1, <2>2, <2>3, RemoveAllType DEF TypeOK, Throw, world, reading
<1>2. ContentCovers'
  BY DEF ContentCovers, Throw, RemoveAll
<1>3. LayoutInv'
  BY DEF LayoutInv, Throw, RemoveAll, Building, HasChunk, ParsedWellFormed,
         Usable, FailedIsEmpty
<1>4. OwnDescriptors' /\ OwnThis'
  BY DEF OwnDescriptors, OwnThis, Throw, RemoveAll, NoChunk
<1>5. DescriptorsAccounted'
  <2>1. lost \subseteq Descriptors /\ -1 \notin Descriptors
    BY ConstantFacts DEF ParseInv, TypeOK
  <2>2. Held \cap (lost \cup {c.fd}) \subseteq {-1}
    BY DEF ParseInv, DescriptorInv, OwnDescriptors, Held
  <2>3. DOMAIN fdtable = (Held \cup {c.fd} \cup lost) \ {-1}
    BY DEF ParseInv, DescriptorInv, DescriptorsAccounted
  <2>4. Held' = {} /\ c'.fd = -1
    BY DEF Throw, RemoveAll, Held, NoChunk
  <2>5. /\ DOMAIN fdtable' = DOMAIN fdtable \ Held
        /\ lost' = lost \cup ({c.fd} \cap DOMAIN fdtable)
    BY DEF Throw, RemoveAll, Keep
  <2> QED
    BY <2>1, <2>2, <2>3, <2>4, <2>5 DEF DescriptorsAccounted
<1>6. TableInv'
  BY DEF TableInv, Throw, RemoveAll, Building, Usable
<1> QED
  BY <1>1, <1>2, <1>3, <1>4, <1>5, <1>6 DEF ParseInv, DescriptorInv

(* The destructor closes what the chunks hold. *)
LEMMA DeleteKeeps ==
    ASSUME ParseInv, Delete
    PROVE  ParseInv'
<1>1. TypeOK'
  <2>1. RemoveAll /\ TypeOK
    BY DEF ParseInv, Delete
  <2>2. json' \in Json /\ ct' \in 1 .. Len(json'.entries) + 1
    BY NoJsonType DEF Delete
  <2> QED
    BY <2>1, <2>2, RemoveAllType DEF TypeOK, Delete, world
<1>2. ContentCovers'
  BY DEF ContentCovers, Delete, RemoveAll
<1>3. LayoutInv'
  BY DEF LayoutInv, Delete, RemoveAll, Building, HasChunk, ParsedWellFormed,
         Usable, FailedIsEmpty, Blank
<1>4. c.fd = -1
  BY DEF ParseInv, DescriptorInv, OwnThis, HasChunk, Delete
<1>5. OwnDescriptors' /\ OwnThis'
  BY <1>4 DEF OwnDescriptors, OwnThis, Delete, RemoveAll
<1>6. DescriptorsAccounted'
  <2>1. Held \cap lost \subseteq {-1}
    BY DEF ParseInv, DescriptorInv, OwnDescriptors, Held
  <2>2. DOMAIN fdtable = (Held \cup {c.fd} \cup lost) \ {-1}
    BY DEF ParseInv, DescriptorInv, DescriptorsAccounted
  <2>3. Held' = {} /\ c' = c /\ lost' = lost
    BY DEF Delete, RemoveAll, Held
  <2>4. DOMAIN fdtable' = DOMAIN fdtable \ Held
    BY DEF Delete, RemoveAll, Keep
  <2> QED
    BY <1>4, <2>1, <2>2, <2>3, <2>4 DEF DescriptorsAccounted
<1>7. TableInv'
  BY DEF TableInv, Delete, Building, Usable
<1> QED
  BY <1>1, <1>2, <1>3, <1>5, <1>6, <1>7 DEF ParseInv, DescriptorInv

(* A new object starts blank. *)
LEMMA SetFileKeeps ==
    ASSUME ParseInv, NEW s \in Modes, SetFile(s)
    PROVE  ParseInv'
<1>1. TypeOK'
  <2>1. before' = [f \in DOMAIN before' |-> before'[f]]
    BY DEF SetFile, Keep
  <2> QED
    BY <2>1, InputsInRange
       DEF ParseInv, TypeOK, SetFile, world, built, Document
<1>2. ContentCovers'
  BY DEF ParseInv, ContentCovers, SetFile, built
<1>3. LayoutInv'
  BY DEF ParseInv, LayoutInv, SetFile, built, Building, HasChunk,
         ParsedWellFormed, Usable, FailedIsEmpty, Blank
<1>4. DescriptorInv'
  BY DEF ParseInv, LayoutInv, Blank, DescriptorInv, OwnDescriptors, OwnThis,
         HasChunk, DescriptorsAccounted, Held, SetFile, built
<1>5. TableInv'
  <2>1. c.fd = -1 /\ Held = {}
    BY DEF ParseInv, LayoutInv, Blank, DescriptorInv, OwnThis, HasChunk, Held,
           SetFile
  <2>2. -1 \notin lost /\ DOMAIN fdtable = lost
    BY <2>1, ConstantFacts DEF ParseInv, TypeOK, DescriptorInv,
       DescriptorsAccounted
  <2> QED
    BY <2>2 DEF TableInv, SetFile, Keep
<1> QED
  BY <1>1, <1>2, <1>3, <1>4, <1>5 DEF ParseInv

(* Reading the description starts with no chunk and no replacement. *)
LEMMA ReadAllKeeps ==
    ASSUME ParseInv, ReadAll
    PROVE  ParseInv'
<1>1. json' \in Json
  BY InputsInRange DEF ParseInv, TypeOK, ReadAll, Parsed, Document
<1>2. TypeOK'
  BY <1>1 DEF ParseInv, TypeOK, ReadAll, world, built, Json
<1>3. ContentCovers'
  BY DEF ParseInv, ContentCovers, ReadAll, built
<1>4. (StrictSoFar /\ LenientSoFar)'
  <2>1. /\ chunks' = <<>> /\ replaces' = <<>> /\ decoded' = <<>>
        /\ merged_size' = 0 /\ ct' = 1 /\ off' = 0 /\ pc' = "entry"
    BY DEF ParseInv, LayoutInv, ReadAll, built, Blank
  <2> QED
    BY <2>1 DEF StrictSoFar, LenientSoFar, LaidOut, MergedLength
<1>5. LayoutInv'
  BY <1>4 DEF ParseInv, LayoutInv, ReadAll, built, HasChunk, ParsedWellFormed,
         Usable, FailedIsEmpty, Blank
<1>6. DescriptorInv'
  BY DEF ParseInv, LayoutInv, Blank, DescriptorInv, OwnDescriptors, OwnThis,
         HasChunk, DescriptorsAccounted, Held, ReadAll, built
<1>7. TableInv'
  BY DEF ParseInv, TableInv, ReadAll, Building, Usable
<1> QED
  BY <1>2, <1>3, <1>5, <1>6, <1>7 DEF ParseInv

(* A crash leaves everything as it was. *)
LEMMA CrashKeeps ==
    ASSUME ParseInv, Crash
    PROVE  ParseInv'
<1>1. TypeOK'
  BY DEF ParseInv, TypeOK, Crash, world, reading, built
<1>2. ContentCovers'
  BY DEF ParseInv, ContentCovers, Crash, built
<1>3. LayoutInv'
  BY DEF ParseInv, LayoutInv, Crash, built, Building, HasChunk,
         ParsedWellFormed, Usable, FailedIsEmpty
<1>4. DescriptorInv'
  BY DEF ParseInv, LayoutInv, Blank, DescriptorInv, OwnDescriptors, OwnThis,
         HasChunk, DescriptorsAccounted, Held, Crash, built, reading
<1>5. TableInv'
  BY DEF TableInv, Crash, Building, Usable
<1> QED
  BY <1>1, <1>2, <1>3, <1>4, <1>5 DEF ParseInv

(* Opening an entry's file gives the new chunk a descriptor nothing holds. *)
LEMMA OpenEntryKeeps ==
    ASSUME ParseInv, OpenEntry
    PROVE  ParseInv'
<1> DEFINE p == json.entries[ct].path
<1>1. /\ pc = "entry" /\ ct <= Len(json.entries) /\ p # "" /\ p \in Paths
      /\ This.path = p /\ c.fd = -1
  <2>1. pc = "entry" /\ ct <= Len(json.entries) /\ p # ""
    BY DEF OpenEntry, AtEntry
  <2>2. c.fd = -1
    BY <2>1 DEF ParseInv, DescriptorInv, OwnThis, HasChunk
  <2> QED
    BY <2>1, <2>2, EntryFields DEF ParseInv, This
<1>2. /\ pc' = "stat" /\ json' = json /\ ct' = ct /\ strict' = strict
      /\ chunks' = chunks /\ replaces' = replaces /\ decoded' = decoded
      /\ merged_size' = merged_size /\ off' = off /\ is_valid' = is_valid
      /\ lost' = lost /\ rt' = rt /\ files' = files /\ doc' = doc
      /\ file_size' = file_size /\ before' = before
  BY DEF OpenEntry, world, reading, built
<1>3. \/ /\ LowestFree \in Descriptors \ DOMAIN fdtable
         /\ c' = [size |-> 0, fd |-> LowestFree]
         /\ fdtable' = [f \in DOMAIN fdtable \cup {LowestFree} |->
                          IF f = LowestFree THEN p ELSE fdtable[f]]
      \/ c' = NoChunk /\ fdtable' = fdtable
  BY LowestIsFree DEF OpenEntry, CanOpen, Free
<1>4. /\ DOMAIN fdtable' = (DOMAIN fdtable \cup {c'.fd}) \ {-1}
      /\ \A f \in DOMAIN fdtable : fdtable'[f] = fdtable[f]
      /\ c'.fd # -1 => /\ c'.fd \in Descriptors \ DOMAIN fdtable
                       /\ fdtable'[c'.fd] = p
      /\ c' \in [size : Nat, fd : Descriptors \cup {-1}]
  <2>1. -1 \notin Descriptors /\ -1 \notin DOMAIN fdtable
    BY ConstantFacts DEF ParseInv, TypeOK
  <2>2. CASE c' = NoChunk /\ fdtable' = fdtable
    BY <2>1, <2>2 DEF NoChunk
  <2>3. CASE /\ LowestFree \in Descriptors \ DOMAIN fdtable
             /\ c' = [size |-> 0, fd |-> LowestFree]
             /\ fdtable' = [f \in DOMAIN fdtable \cup {LowestFree} |->
                              IF f = LowestFree THEN p ELSE fdtable[f]]
    BY <2>1, <2>3
  <2> QED
    BY <1>3, <2>2, <2>3
<1>5. TypeOK'
  <2>1. \A f \in DOMAIN fdtable' : f \in Descriptors /\ fdtable'[f] \in Paths
    BY <1>1, <1>4 DEF ParseInv, TypeOK
  <2> QED
    BY <1>2, <1>4, <2>1 DEF ParseInv, TypeOK
<1>6. ContentCovers'
  BY <1>2 DEF ParseInv, ContentCovers
<1>7. LayoutInv'
  <2>1. (IF strict THEN StrictSoFar ELSE LenientSoFar)'
    BY <1>1, <1>2 DEF ParseInv, LayoutInv, Building, StrictSoFar, LenientSoFar,
           Placed
  <2> QED
    BY <1>1, <1>2, <2>1 DEF ParseInv, LayoutInv, Building, HasChunk, This,
           ParsedWellFormed, Usable, FailedIsEmpty
<1>8. /\ DOMAIN fdtable = (Held \cup lost) \ {-1} /\ -1 \notin lost
      /\ \A i \in DOMAIN chunks : chunks[i].fd \in Held
  BY <1>1, ConstantFacts DEF ParseInv, TypeOK, DescriptorInv,
         DescriptorsAccounted, Held
<1>9. OwnDescriptors'
  BY <1>2, <1>4, <1>8 DEF ParseInv, DescriptorInv, OwnDescriptors
<1>10. OwnThis'
  BY <1>1, <1>2, <1>4, <1>8 DEF OwnThis, HasChunk
<1>11. DescriptorsAccounted'
  BY <1>2, <1>4, <1>8 DEF DescriptorsAccounted, Held
<1>12. TableInv'
  BY <1>1, <1>2, <1>4, <1>8 DEF ParseInv, TableInv, Building, Usable
<1> QED
  BY <1>5, <1>6, <1>7, <1>9, <1>10, <1>11, <1>12 DEF ParseInv, DescriptorInv

(* A lenient parse adds the size up and drops the chunk. *)
LEMMA StatLenientKeeps ==
    ASSUME ParseInv, StatLenient
    PROVE  ParseInv'
<1>1. /\ pc = "stat" /\ ~strict /\ ct <= Len(json.entries)
      /\ files[This.path].size \in Nat
  BY EntryFields
     DEF ParseInv, LayoutInv, HasChunk, StatLenient, Sized
<1>2. /\ pc' = "entry" /\ json' = json /\ ct' = ct + 1 /\ strict' = strict
      /\ chunks' = chunks /\ replaces' = replaces /\ decoded' = decoded
      /\ merged_size' = merged_size + files[This.path].size
      /\ off' = off /\ is_valid' = is_valid /\ c' = NoChunk
      /\ lost' = lost \cup ({c.fd} \cap DOMAIN fdtable)
      /\ rt' = rt /\ files' = files /\ doc' = doc
      /\ file_size' = file_size /\ before' = before /\ fdtable' = fdtable
  BY DEF StatLenient, Sized, world, reading
<1>3. TypeOK'
  <2>1. ct' \in 1 .. Len(json'.entries) + 1
    <3>1. ct \in Nat \ {0} /\ Len(json.entries) \in Nat
      BY EntryFields DEF ParseInv
    <3> QED
      BY <1>1, <1>2, <3>1
  <2>2. c' \in [size : Nat, fd : Descriptors \cup {-1}]
    BY <1>2 DEF NoChunk
  <2>3. merged_size' \in Nat /\ lost' \subseteq Descriptors
    <3>1. /\ merged_size \in Nat /\ lost \subseteq Descriptors
          /\ DOMAIN fdtable \subseteq Descriptors /\ files[This.path].size \in Nat
      BY <1>1 DEF ParseInv, TypeOK
    <3> QED
      BY <1>2, <3>1
  <2> QED
    BY <1>2, <2>1, <2>2, <2>3 DEF ParseInv, TypeOK
<1>4. ContentCovers'
  BY <1>2 DEF ParseInv, ContentCovers
<1>5. LenientSoFar /\ LenientSoFar'
  BY <1>1, <1>2 DEF ParseInv, LayoutInv, Building, LenientSoFar
<1>6. LayoutInv'
  BY <1>1, <1>2, <1>5 DEF ParseInv, LayoutInv, Building, HasChunk,
         ParsedWellFormed, Usable, FailedIsEmpty
<1>7. OwnDescriptors' /\ OwnThis'
  BY <1>2, <1>5 DEF LenientSoFar, OwnDescriptors, OwnThis, NoChunk
<1>8. DescriptorsAccounted'
  <2>1. Held = {} /\ Held' = {} /\ c'.fd = -1
    BY <1>2, <1>5 DEF LenientSoFar, Held, NoChunk
  <2>2. DOMAIN fdtable = (Held \cup {c.fd} \cup lost) \ {-1}
    BY DEF ParseInv, DescriptorInv, DescriptorsAccounted
  <2>3. -1 \notin lost
    BY ConstantFacts DEF ParseInv, TypeOK
  <2> QED
    BY <1>2, <2>1, <2>2, <2>3 DEF DescriptorsAccounted
<1>9. TableInv'
  BY <1>1, <1>2 DEF TableInv, Building, Usable
<1> QED
  BY <1>3, <1>4, <1>6, <1>7, <1>8, <1>9 DEF ParseInv, DescriptorInv

(* A strict parse measures the chunk under construction. *)
LEMMA StatStrictKeeps ==
    ASSUME ParseInv, StatStrict
    PROVE  ParseInv'
<1>1. /\ pc = "stat" /\ strict /\ ct <= Len(json.entries)
      /\ files[This.path].size \in Nat
  BY EntryFields
     DEF ParseInv, LayoutInv, HasChunk, StatStrict, Sized
<1>2. /\ pc' = "patch" /\ json' = json /\ ct' = ct /\ strict' = strict
      /\ chunks' = chunks /\ replaces' = replaces /\ decoded' = decoded
      /\ merged_size' = merged_size + files[This.path].size
      /\ off' = off /\ is_valid' = is_valid
      /\ c' = [c EXCEPT !.size = files[This.path].size]
      /\ lost' = lost /\ rt' = 1 /\ files' = files /\ doc' = doc
      /\ file_size' = file_size /\ before' = before /\ fdtable' = fdtable
  BY DEF StatStrict, Sized, world, reading
<1>3. /\ c' \in [size : Nat, fd : Descriptors \cup {-1}]
      /\ c'.fd = c.fd /\ c'.size = files[This.path].size
  BY <1>1, <1>2 DEF ParseInv, TypeOK
<1>4. TypeOK'
  <2>1. merged_size' \in Nat
    <3>1. merged_size \in Nat
      BY DEF ParseInv, TypeOK
    <3> QED
      BY <1>1, <1>2, <3>1
  <2> QED
    BY <1>2, <1>3, <2>1 DEF ParseInv, TypeOK
<1>5. ContentCovers'
  BY <1>2 DEF ParseInv, ContentCovers
<1>6. StrictSoFar'
  BY <1>1, <1>2, <1>3 DEF ParseInv, LayoutInv, Building, StrictSoFar, Placed
<1>7. LayoutInv'
  BY <1>1, <1>2, <1>6 DEF ParseInv, LayoutInv, Building, HasChunk, This,
         ParsedWellFormed, Usable, FailedIsEmpty
<1>8. DescriptorInv'
  BY <1>1, <1>2, <1>3 DEF ParseInv, DescriptorInv, OwnDescriptors, OwnThis,
         HasChunk, DescriptorsAccounted, Held
<1>9. TableInv'
  BY <1>1, <1>2 DEF ParseInv, TableInv, Building, Usable
<1> QED
  BY <1>4, <1>5, <1>7, <1>8, <1>9 DEF ParseInv

(* A replacement that is ignored changes nothing but the iterator. *)
LEMMA PatchSkipKeeps ==
    ASSUME ParseInv, PatchSkip
    PROVE  ParseInv'
<1>1. TypeOK'
  <2>1. rt' \in Nat \ {0}
    BY DEF ParseInv, TypeOK, PatchSkip
  <2> QED
    BY <2>1 DEF ParseInv, TypeOK, PatchSkip, world, reading, built
<1>2. ContentCovers'
  BY DEF ParseInv, ContentCovers, PatchSkip, built
<1>3. /\ pc' = pc /\ json' = json /\ ct' = ct /\ strict' = strict
      /\ chunks' = chunks /\ replaces' = replaces /\ decoded' = decoded
      /\ merged_size' = merged_size /\ off' = off /\ is_valid' = is_valid
      /\ c' = c /\ lost' = lost /\ fdtable' = fdtable
      /\ before' = before
  BY DEF PatchSkip, reading, built
<1>4. LayoutInv'
  BY <1>3 DEF ParseInv, LayoutInv, Blank, Building, HasChunk, This,
         StrictSoFar, LenientSoFar, Placed, InsideThis, ParsedWellFormed, Usable,
         FailedIsEmpty
<1>5. DescriptorInv'
  BY <1>3 DEF ParseInv, DescriptorInv, OwnDescriptors, OwnThis, HasChunk,
         DescriptorsAccounted, Held
<1>6. TableInv'
  BY <1>3 DEF ParseInv, TableInv, Building, Usable
<1> QED
  BY <1>1, <1>2, <1>4, <1>5, <1>6 DEF ParseInv

(***************************************************************************)
(* A replacement that is kept lies in the chunk under construction, and    *)
(* its content is long enough.                                             *)
(***************************************************************************)
LEMMA PatchPushKeeps ==
    ASSUME ParseInv, PatchPush
    PROVE  ParseInv'
<1> DEFINE k == [offset |-> off + Start, length |-> Kept]
<1>1. /\ pc' = pc /\ json' = json /\ ct' = ct /\ strict' = strict
      /\ chunks' = chunks /\ rt' = rt + 1
      /\ replaces' = Append(replaces, k)
      /\ decoded' = Append(decoded, Patch.content)
      /\ merged_size' = merged_size /\ off' = off /\ is_valid' = is_valid
      /\ c' = c /\ lost' = lost /\ fdtable' = fdtable
      /\ files' = files /\ doc' = doc /\ file_size' = file_size /\ before' = before
  BY DEF PatchPush, world, reading
<1>2. pc = "patch" /\ strict /\ StrictSoFar
  <2>1. pc = "patch"
    BY DEF PatchPush, AtPatch
  <2> QED
    BY <2>1 DEF ParseInv, LayoutInv, Building, LenientSoFar
<1>3. /\ Start \in Nat /\ Kept \in Nat \ {0}
      /\ Start + Kept <= c.size
      /\ Kept <= Patch.content /\ Kept <= MaxLength
      /\ Patch.content \in Int
  <2>1. AtPatch /\ ~Ignored /\ Length <= MaxLength /\ Kept <= Patch.content
    BY DEF PatchPush
  <2>2. HasChunk => ct <= Len(json.entries)
    BY DEF ParseInv, LayoutInv
  <2>3. /\ Start \in Nat /\ Kept \in Nat \ {0} /\ Length \in Int
        /\ Start + Kept <= c.size /\ Kept <= Length /\ Patch.content \in Int
    BY <2>1, <2>2, KeptInside DEF ParseInv
  <2> QED
    BY <2>1, <2>3, ConstantFacts
<1>4. /\ off \in Nat /\ c.size \in Nat /\ rt \in Nat \ {0}
      /\ replaces \in Seq(Replaced) /\ decoded \in Seq(Int)
  BY EntryFields DEF ParseInv, TypeOK
<1>5. /\ k \in Replaced /\ k.length > 0 /\ InsideThis(k)
      /\ k.length <= Patch.content /\ k.length <= MaxLength
  BY <1>3, <1>4 DEF Replaced, InsideThis
<1>6. /\ Len(replaces) \in Nat /\ Len(decoded) \in Nat
      /\ DOMAIN replaces = 1 .. Len(replaces)
      /\ DOMAIN replaces' = 1 .. Len(replaces) + 1
      /\ Len(replaces') = Len(replaces) + 1 /\ Len(decoded') = Len(decoded) + 1
      /\ \A i \in 1 .. Len(replaces) : replaces'[i] = replaces[i]
      /\ \A i \in 1 .. Len(decoded) : decoded'[i] = decoded[i]
      /\ replaces'[Len(replaces) + 1] = k
      /\ decoded'[Len(decoded) + 1] = Patch.content
      /\ replaces' \in Seq(Replaced) /\ decoded' \in Seq(Int)
  BY <1>1, <1>3, <1>4, <1>5
<1>7. TypeOK'
  <2>1. rt' \in Nat \ {0}
    BY <1>1, <1>4
  <2> QED
    BY <1>1, <1>6, <2>1 DEF ParseInv, TypeOK
<1>8. ContentCovers'
  <2>1. ASSUME NEW i \in DOMAIN replaces'
        PROVE  /\ replaces'[i].length <= decoded'[i]
               /\ replaces'[i].length <= MaxLength
    <3>1. CASE i \in 1 .. Len(replaces)
      BY <1>6, <3>1 DEF ParseInv, ContentCovers
    <3>2. CASE i = Len(replaces) + 1
      BY <1>5, <1>6, <3>2 DEF ParseInv, ContentCovers
    <3> QED
      BY <1>6, <3>1, <3>2
  <2> QED
    BY <1>6, <2>1 DEF ParseInv, ContentCovers
<1>9. StrictSoFar'
  <2>1. ASSUME NEW i \in DOMAIN replaces'
        PROVE  /\ replaces'[i].length > 0
               /\ \/ InsideOneChunk(replaces'[i], chunks)
                  \/ InsideThis(replaces'[i])
    <3>1. CASE i \in 1 .. Len(replaces)
      BY <1>2, <1>6, <3>1 DEF StrictSoFar, Placed
    <3>2. CASE i = Len(replaces) + 1
      BY <1>5, <1>6, <3>2
    <3> QED
      BY <1>6, <3>1, <3>2
  <2> QED
    BY <1>1, <1>2, <2>1 DEF StrictSoFar, Placed, InsideThis
<1>10. LayoutInv'
  BY <1>1, <1>2, <1>9 DEF ParseInv, LayoutInv, Building, HasChunk, This,
         ParsedWellFormed, Usable, FailedIsEmpty
<1>11. DescriptorInv'
  BY <1>1 DEF ParseInv, DescriptorInv, OwnDescriptors, OwnThis, HasChunk,
         DescriptorsAccounted, Held
<1>12. TableInv'
  BY <1>1 DEF ParseInv, TableInv, Building, Usable
<1> QED
  BY <1>7, <1>8, <1>10, <1>11, <1>12 DEF ParseInv

(* The chunk takes its place behind the others, and its replacements too. *)
LEMMA PushChunkKeeps ==
    ASSUME ParseInv, PushChunk
    PROVE  ParseInv'
<1> DEFINE k == [base |-> off, size |-> c.size, fd |-> c.fd]
<1>1. /\ pc = "patch" /\ pc' = "entry" /\ json' = json /\ ct' = ct + 1
      /\ strict' = strict /\ chunks' = Append(chunks, k) /\ rt' = rt
      /\ replaces' = replaces /\ decoded' = decoded
      /\ merged_size' = merged_size /\ off' = off + c.size
      /\ is_valid' = is_valid /\ c' = NoChunk
      /\ lost' = lost /\ fdtable' = fdtable
      /\ files' = files /\ doc' = doc /\ file_size' = file_size /\ before' = before
  BY DEF PushChunk, world, reading
<1>2. strict /\ StrictSoFar /\ ct <= Len(json.entries)
  BY <1>1 DEF ParseInv, LayoutInv, Building, HasChunk, LenientSoFar
<1>3. /\ off \in Nat /\ c.size \in Nat /\ c.fd \in Descriptors \cup {-1}
      /\ c.fd \in Int
      /\ ct \in Nat \ {0} /\ Len(json.entries) \in Nat
      /\ chunks \in Seq(Chunk) /\ replaces \in Seq(Replaced)
  <2>1. TypeOK
    BY DEF ParseInv
  <2>2. c.fd \in Int
    <3>1. c.fd \in Descriptors \cup {-1}
      BY <2>1 DEF TypeOK
    <3>2. ASSUME NEW d \in Descriptors PROVE d \in Int
      BY DescriptorRange
    <3>3. CASE c.fd = -1
      BY <3>3
    <3> QED
      BY <3>1, <3>2, <3>3
  <2>3. chunks \in Seq(Chunk) /\ replaces \in Seq(Replaced) /\ off \in Nat
    BY <2>1 DEF TypeOK
  <2> QED
    BY <2>1, <2>2, <2>3, EntryFields
<1>4. k \in Chunk /\ k.base = MergedLength(chunks) /\ LaidOut(chunks)
  BY <1>2, <1>3 DEF Chunk, StrictSoFar
<1>5. /\ chunks' \in Seq(Chunk) /\ LaidOut(chunks')
      /\ MergedLength(chunks') = off + c.size
  BY <1>1, <1>3, <1>4, OneMoreChunk
<1>6. /\ Len(chunks) \in Nat /\ Len(chunks) = ct - 1
      /\ DOMAIN chunks = 1 .. Len(chunks)
      /\ Len(chunks') = Len(chunks) + 1
      /\ DOMAIN chunks' = 1 .. Len(chunks) + 1
      /\ \A i \in 1 .. Len(chunks) : chunks'[i] = chunks[i]
      /\ chunks'[ct] = k
  BY <1>1, <1>2, <1>3, <1>4 DEF StrictSoFar
<1>7. TypeOK'
  <2>1. ct' \in 1 .. Len(json'.entries) + 1
    BY <1>1, <1>2, <1>3
  <2>2. off' \in Nat
    BY <1>1, <1>3
  <2>3. c' \in [size : Nat, fd : Descriptors \cup {-1}]
    BY <1>1 DEF NoChunk
  <2> QED
    BY <1>1, <1>5, <2>1, <2>2, <2>3 DEF ParseInv, TypeOK
<1>8. ContentCovers'
  BY <1>1 DEF ParseInv, ContentCovers
<1>9. StrictSoFar'
  <2>1. ASSUME NEW i \in DOMAIN replaces
        PROVE  replaces[i].length > 0 /\ InsideOneChunk(replaces[i], chunks')
    <3>1. replaces[i] \in Replaced
      BY <1>3
    <3>2. replaces[i].length > 0 /\ Placed(replaces[i])
      BY <1>2 DEF StrictSoFar
    <3>3. \/ InsideOneChunk(replaces[i], chunks)
          \/ /\ k.base <= replaces[i].offset
             /\ replaces[i].offset + replaces[i].length <= k.base + k.size
      BY <3>2 DEF Placed, InsideThis
    <3> QED
      BY <1>1, <1>3, <1>4, <3>1, <3>2, <3>3, InsideMore
  <2>2. Len(chunks') = ct' - 1
    BY <1>1, <1>3, <1>6
  <2> QED
    BY <1>1, <1>2, <1>5, <2>1, <2>2 DEF StrictSoFar, Placed
<1>10. LayoutInv'
  BY <1>1, <1>2, <1>9 DEF ParseInv, LayoutInv, Building, HasChunk,
         ParsedWellFormed, Usable, FailedIsEmpty
<1>11. Held' = Held \cup {c.fd} /\ c'.fd = -1
  <2>1. DOMAIN chunks' = DOMAIN chunks \cup {ct}
    BY <1>3, <1>6
  <2>2. \A i \in DOMAIN chunks : chunks'[i].fd = chunks[i].fd
    BY <1>6
  <2>3. chunks'[ct].fd = c.fd
    BY <1>6
  <2> QED
    BY <1>1, <2>1, <2>2, <2>3 DEF Held, NoChunk
<1>12. OwnDescriptors'
  <2>1. /\ c.fd # -1 => /\ c.fd \in DOMAIN fdtable /\ c.fd \notin lost
                        /\ fdtable[c.fd] = json.entries[ct].path
    BY DEF ParseInv, DescriptorInv, OwnThis
  <2>2. OwnDescriptors
    BY DEF ParseInv, DescriptorInv
  <2>3. ct \in Nat /\ DOMAIN chunks = 1 .. ct - 1 /\ DOMAIN chunks' = 1 .. ct
    BY <1>3, <1>6
  <2>4. \A i \in DOMAIN chunks' : chunks'[i].fd # -1 =>
            /\ chunks'[i].fd \in DOMAIN fdtable
            /\ fdtable[chunks'[i].fd] = json.entries[i].path
            /\ chunks'[i].fd \notin lost
    <3>1. TAKE i \in DOMAIN chunks'
    <3>2. CASE i = ct
      BY <1>6, <2>1, <3>2
    <3>3. CASE i \in DOMAIN chunks
      BY <1>6, <2>2, <3>3 DEF OwnDescriptors
    <3> QED
      BY <2>3, <3>2, <3>3
  <2>5. \A i, j \in DOMAIN chunks' : i # j /\ chunks'[i].fd # -1 =>
            chunks'[i].fd # chunks'[j].fd
    <3>1. TAKE i, j \in DOMAIN chunks'
    <3>2. CASE i \in DOMAIN chunks /\ j \in DOMAIN chunks
      BY <1>6, <2>2, <3>2 DEF OwnDescriptors
    <3>3. CASE i = ct /\ j \in DOMAIN chunks
      BY <1>6, <2>2, <3>3 DEF OwnDescriptors
    <3>4. CASE i \in DOMAIN chunks /\ j = ct
      BY <1>6, <2>2, <3>4 DEF OwnDescriptors
    <3> QED
      BY <2>3, <3>2, <3>3, <3>4
  <2> QED
    BY <1>1, <1>11, <2>4, <2>5 DEF OwnDescriptors
<1>13. OwnThis' /\ DescriptorsAccounted'
  BY <1>1, <1>11 DEF ParseInv, DescriptorInv, OwnThis, DescriptorsAccounted
<1>14. TableInv'
  BY <1>1 DEF ParseInv, TableInv, Building, Usable
<1> QED
  BY <1>7, <1>8, <1>10, <1>12, <1>13, <1>14 DEF ParseInv, DescriptorInv

(* After the last entry every replacement lies in a chunk. *)
LEMMA FinishKeeps ==
    ASSUME ParseInv, Finish
    PROVE  ParseInv'
<1>1. /\ pc = "entry" /\ pc' = "done" /\ json' = json /\ ct' = ct
      /\ strict' = strict
      /\ chunks' = chunks /\ replaces' = replaces /\ decoded' = decoded
      /\ merged_size' = merged_size /\ off' = off
      /\ c' = c /\ lost' = lost /\ fdtable' = fdtable /\ rt' = rt
      /\ files' = files /\ doc' = doc /\ file_size' = file_size /\ before' = before
  BY DEF Finish, world, reading, built
<1>2. is_valid' = TRUE
  BY DEF Finish
<1>3. TypeOK'
  <2>1. is_valid' \in BOOLEAN
    BY <1>2, Zenon
  <2> QED
    BY <1>1, <2>1 DEF ParseInv, TypeOK
<1>4. ContentCovers'
  BY <1>1 DEF ParseInv, ContentCovers
<1>5. ParsedWellFormed'
  <2>1. CASE ~strict
    BY <1>1, <2>1 DEF ParsedWellFormed, Usable
  <2>2. CASE strict
    <3>1. StrictSoFar /\ chunks \in Seq(Chunk) /\ replaces \in Seq(Replaced)
      BY <1>1, <2>2 DEF ParseInv, TypeOK, LayoutInv, Building
    <3>2. WellFormed(chunks, replaces) /\ merged_size = MergedLength(chunks)
      BY <1>1, <3>1 DEF StrictSoFar, Placed, WellFormed
    <3> QED
      BY <1>1, <3>2 DEF ParsedWellFormed
  <2> QED
    BY <2>1, <2>2
<1>6. LayoutInv'
  BY <1>1, <1>2, <1>5 DEF LayoutInv, Building, HasChunk, FailedIsEmpty
<1>7. c.fd = -1
  BY <1>1 DEF ParseInv, DescriptorInv, OwnThis, HasChunk
<1>8. DescriptorInv'
  BY <1>1, <1>7 DEF ParseInv, DescriptorInv, OwnDescriptors, OwnThis, HasChunk,
         DescriptorsAccounted, Held
<1>9. TableInv'
  BY <1>1 DEF ParseInv, TableInv, Building, Usable
<1> QED
  BY <1>3, <1>4, <1>6, <1>8, <1>9 DEF ParseInv

(* Edits change nothing the object remembers. *)
LEMMA EditKeeps ==
    ASSUME ParseInv,
           \/ \E p \in Paths, f \in FileStates : EditFile(p, f)
           \/ \E d \in Documents : EditDoc(d)
    PROVE  ParseInv'
<1>1. files' \in [Paths -> FileState] /\ doc' \in Document
  BY InputsInRange DEF ParseInv, TypeOK, EditFile, EditDoc
<1>2. /\ pc' = pc /\ json' = json /\ ct' = ct /\ strict' = strict
      /\ chunks' = chunks /\ replaces' = replaces /\ decoded' = decoded
      /\ merged_size' = merged_size /\ off' = off /\ is_valid' = is_valid
      /\ c' = c /\ lost' = lost /\ fdtable' = fdtable /\ rt' = rt
      /\ file_size' = file_size /\ before' = before
  BY DEF EditFile, EditDoc, reading, built
<1>3. TypeOK'
  BY <1>1, <1>2 DEF ParseInv, TypeOK
<1>4. ContentCovers'
  BY <1>2 DEF ParseInv, ContentCovers
<1>5. LayoutInv'
  BY <1>2 DEF ParseInv, LayoutInv, Blank, Building, HasChunk, This,
         StrictSoFar, LenientSoFar, Placed, InsideThis, ParsedWellFormed, Usable,
         FailedIsEmpty
<1>6. DescriptorInv'
  BY <1>2 DEF ParseInv, DescriptorInv, OwnDescriptors, OwnThis, HasChunk,
         DescriptorsAccounted, Held
<1>7. TableInv'
  BY <1>2 DEF ParseInv, TableInv, Building, Usable
<1> QED
  BY <1>3, <1>4, <1>5, <1>6, <1>7 DEF ParseInv

(* A step that changes no variable. *)
LEMMA StutterKeeps ==
    ASSUME ParseInv, UNCHANGED vars
    PROVE  ParseInv'
<1>1. /\ pc' = pc /\ json' = json /\ ct' = ct /\ strict' = strict
      /\ chunks' = chunks /\ replaces' = replaces /\ decoded' = decoded
      /\ merged_size' = merged_size /\ off' = off /\ is_valid' = is_valid
      /\ c' = c /\ lost' = lost /\ fdtable' = fdtable /\ rt' = rt
      /\ file_size' = file_size /\ before' = before /\ files' = files /\ doc' = doc
  BY DEF vars
<1>2. TypeOK'
  BY <1>1 DEF ParseInv, TypeOK
<1>3. ContentCovers'
  BY <1>1 DEF ParseInv, ContentCovers
<1>4. LayoutInv'
  BY <1>1 DEF ParseInv, LayoutInv, Blank, Building, HasChunk, This,
         StrictSoFar, LenientSoFar, Placed, InsideThis, ParsedWellFormed, Usable,
         FailedIsEmpty
<1>5. DescriptorInv'
  BY <1>1 DEF ParseInv, DescriptorInv, OwnDescriptors, OwnThis, HasChunk,
         DescriptorsAccounted, Held
<1>6. TableInv'
  BY <1>1 DEF ParseInv, TableInv, Building, Usable
<1> QED
  BY <1>2, <1>3, <1>4, <1>5, <1>6 DEF ParseInv

(* Every step keeps the invariant. *)
LEMMA NextKeeps == ParseInv /\ [Next]_vars => ParseInv'
<1> SUFFICES ASSUME ParseInv, [Next]_vars
             PROVE  ParseInv'
  OBVIOUS
<1>1. CASE \E s \in Modes : SetFile(s)
  BY <1>1, SetFileKeeps
<1>2. CASE TooSmall \/ BadFormat \/ StatGone \/ BadReplaces \/ PatchBad
  BY <1>2, ThrowKeeps DEF TooSmall, BadFormat, StatGone, BadReplaces, PatchBad
<1>3. CASE ReadAll \/ Crash \/ OpenEntry \/ StatLenient \/ StatStrict
  BY <1>3, ReadAllKeeps, CrashKeeps, OpenEntryKeeps, StatLenientKeeps,
     StatStrictKeeps
<1>4. CASE PatchSkip \/ PatchPush \/ PushChunk \/ Finish \/ Delete
  BY <1>4, PatchSkipKeeps, PatchPushKeeps, PushChunkKeeps, FinishKeeps,
     DeleteKeeps
<1>5. CASE \/ \E p \in Paths, f \in FileStates : EditFile(p, f)
           \/ \E d \in Documents : EditDoc(d)
  BY <1>5, EditKeeps
<1>6. CASE UNCHANGED vars
  BY <1>6, StutterKeeps
<1> QED
  BY <1>1, <1>2, <1>3, <1>4, <1>5, <1>6 DEF Next, Parse

-----------------------------------------------------------------------------
(* The theorems. *)

(* The inductive invariant is an invariant of every parse. *)
LEMMA Invariant == Spec => []ParseInv
BY InitInv, NextKeeps, PTL DEF Spec

(* Every variable of a parse keeps its type. *)
THEOREM TypeCorrect == Spec => []TypeOK
<1>1. ParseInv => TypeOK
  BY DEF ParseInv
<1> QED
  BY <1>1, Invariant, PTL

(***************************************************************************)
(* parseJson: whatever the description says and however its files change   *)
(* meanwhile, a strict parse that succeeds leaves chunks laid end to end   *)
(* and replacements inside them, and the size it added up is their length. *)
(***************************************************************************)
THEOREM ParsedIsWellFormed == Spec => []ParsedWellFormed
<1>1. ParseInv => ParsedWellFormed
  BY DEF ParseInv, LayoutInv
<1> QED
  BY <1>1, Invariant, PTL

(***************************************************************************)
(* throw_exception: a parse that failed leaves nothing to read behind.     *)
(***************************************************************************)
THEOREM FailedLeavesNothing == Spec => []FailedIsEmpty
<1>1. ParseInv => FailedIsEmpty
  BY DEF ParseInv, LayoutInv
<1> QED
  BY <1>1, Invariant, PTL

(***************************************************************************)
(* parseJson's checks of a replacement: its content is as long as its      *)
(* range, so replace's memcpy stays inside the content.                    *)
(***************************************************************************)
THEOREM ContentSuffices == Spec => []ContentCovers
<1>1. ParseInv => ContentCovers
  BY DEF ParseInv
<1> QED
  BY <1>1, Invariant, PTL

(***************************************************************************)
(* Each chunk's descriptor is its own and open on the file of its entry,   *)
(* so removeAll never closes a descriptor twice or another's.              *)
(***************************************************************************)
THEOREM DescriptorsAreOwn == Spec => []OwnDescriptors
<1>1. ParseInv => OwnDescriptors
  BY DEF ParseInv, DescriptorInv
<1> QED
  BY <1>1, Invariant, PTL

(***************************************************************************)
(* Every descriptor parsing opened is held by a chunk, by the chunk under  *)
(* construction, or is among those counted as lost.                        *)
(***************************************************************************)
THEOREM DescriptorsAreAccounted == Spec => []DescriptorsAccounted
<1>1. ParseInv => DescriptorsAccounted
  BY DEF ParseInv, DescriptorInv
<1> QED
  BY <1>1, Invariant, PTL

(***************************************************************************)
(* setFile, parseJson and removeAll: whatever the description says and     *)
(* however it and its files change, a strict parse that succeeds and the   *)
(* destructor leave the descriptor table as they found it, descriptors     *)
(* that earlier parses lost included.                                      *)
(***************************************************************************)
THEOREM StrictLifeIsNeutral == Spec => TableRestored
<1>1. ASSUME ParseInv, [Next]_vars, Usable, pc' = "none"
      PROVE  fdtable' = before
  <2>1. Delete
    BY <1>1 DEF Next, Parse, vars, Usable, SetFile, TooSmall, ReadAll, Crash,
           BadFormat, AtEntry, OpenEntry, StatGone, StatLenient, StatStrict,
           Sized, BadReplaces, PatchBad, PatchSkip, PatchPush, AtPatch,
           PushChunk, Finish, EditFile, EditDoc, Throw
  <2>2. fdtable' = [f \in DOMAIN fdtable \ Held |-> fdtable[f]]
    BY <2>1 DEF Delete, RemoveAll, Keep
  <2>3. c.fd = -1 /\ -1 \notin lost
    BY <1>1, ConstantFacts
       DEF ParseInv, TypeOK, DescriptorInv, OwnThis, HasChunk, Usable
  <2>4. Held \cap lost \subseteq {-1}
    BY <1>1 DEF ParseInv, DescriptorInv, OwnDescriptors, Held
  <2>5. DOMAIN fdtable = (Held \cup {c.fd} \cup lost) \ {-1}
    BY <1>1 DEF ParseInv, DescriptorInv, DescriptorsAccounted
  <2>6. DOMAIN fdtable \ Held = lost
    BY <2>3, <2>4, <2>5
  <2>7. /\ lost = DOMAIN before
        /\ \A f \in lost : fdtable[f] = before[f]
    BY <1>1 DEF ParseInv, TableInv
  <2>8. before = [f \in DOMAIN before |-> before[f]]
    BY <1>1 DEF ParseInv, TypeOK
  <2> QED
    BY <2>2, <2>6, <2>7, <2>8
<1>2. ParseInv /\ [Next]_vars =>
          [Usable /\ pc' = "none" => fdtable' = before]_vars
  BY <1>1
<1> QED
  BY <1>2, Invariant, PTL DEF Spec, TableRestored
=============================================================================
