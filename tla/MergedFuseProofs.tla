--------------------------- MODULE MergedFuseProofs ---------------------------
(***************************************************************************)
(* open_files, its lock and its objects are used soundly by any number of  *)
(* threads, files, descriptors and addresses.                              *)
(***************************************************************************)
EXTENDS MergedFuse, TLAPS

-----------------------------------------------------------------------------
(* The inductive invariant. *)

Parsing == {"want_parse", "parse", "blocked", "parsed"}
Transferring == {"find", "found", "find_again", "reading", "transfer"}
Releasing == {"remove", "close"}

(* What a thread knows about the request it serves. *)
Knows(t) ==
    /\ pc[t] \in Parsing => /\ op[t] \in {"open", "getattr"}
                            /\ path[t] \in Files
    /\ pc[t] = "parsed" => /\ obj[t] \in DOMAIN heap
                           /\ heap[obj[t]].file = path[t]
    /\ pc[t] \in Transferring => /\ op[t] \in {"read", "write"}
                                 /\ fd[t] \in DOMAIN handles
                                 /\ path[t] = fds[fd[t]]
    /\ pc[t] \in {"found", "reading"} => /\ fd[t] \in DOMAIN open_files
                                         /\ open_files[fd[t]] = obj[t]
    /\ pc[t] \in {"find_again", "reading"} => op[t] = "read"
    /\ pc[t] \in Releasing => op[t] = "release"
    /\ pc[t] = "idle" => op[t] = "none"

(* A descriptor that is being opened or closed is no handle, and no other's. *)
OwnDescriptor(t) ==
    op[t] \in {"open", "release"} =>
        /\ fd[t] \in DOMAIN fds
        /\ fd[t] \notin DOMAIN handles
        /\ op[t] = "open" => fds[fd[t]] = path[t]
        /\ \A u \in Threads : u # t /\ op[u] \in {"open", "release"}
                                  => fd[u] # fd[t]

(* An object that was parsed and is not in the table yet is no other's. *)
OwnObject(t) ==
    pc[t] = "parsed" =>
        /\ \A d \in DOMAIN open_files : open_files[d] # obj[t]
        /\ \A u \in Threads : u # t /\ pc[u] = "parsed" => obj[u] # obj[t]

SafeInv ==
    /\ TypeOK
    /\ \A t \in Threads : Knows(t)
    /\ \A t \in Threads : OwnDescriptor(t)
    /\ \A t \in Threads : OwnObject(t)
    /\ DeletedOnce
    /\ HeapAccounted

(* What holds as well until a file gains or loses its name. *)
NamesKept(t) ==
    /\ op[t] \in {"open", "getattr"} => named[path[t]]
    /\ pc[t] \in Transferring \ {"transfer"} =>
           handles[fd[t]] = "merged" \/ pc[t] = "find"
    /\ pc[t] = "find" => named[fds[fd[t]]]
    /\ pc[t] = "transfer" => handles[fd[t]] # "merged"
    /\ op[t] = "open" => fd[t] \notin writeonly
    /\ pc[t] = "close" => fd[t] \notin DOMAIN open_files

(* TableSound, one entry at a time. *)
Attended(d) ==
    \/ d \in DOMAIN handles /\ handles[d] = "merged"
    \/ \E t \in Threads : pc[t] = "remove" /\ fd[t] = d

EntrySound(d) ==
    /\ Attended(d)
    /\ d \in DOMAIN fds
    /\ heap[open_files[d]] = [file |-> fds[d], valid |-> TRUE]

MergedHandles ==
    \A d \in DOMAIN handles : handles[d] = "merged" =>
        d \in DOMAIN open_files /\ named[fds[d]]

CreatedHandles ==
    \A d \in DOMAIN handles : handles[d] = "created" <=> d \in writeonly

(* NoneStranded, one descriptor at a time. *)
Tended(d) ==
    \/ d \in DOMAIN handles
    \/ \E t \in Threads : op[t] \in {"open", "release"} /\ fd[t] = d

(* The last answer is the one that was due. *)
AnswerDue ==
    /\ answer.op = "read" => answer.got = ReadDue(answer.due)
    /\ answer.op = "open" => answer.got = answer.due

NamedInv ==
    /\ \A d \in DOMAIN open_files : EntrySound(d)
    /\ \A t \in Threads : NamesKept(t)
    /\ MergedHandles
    /\ CreatedHandles
    /\ \A d \in DOMAIN fds : Tended(d)
    /\ AnswerDue

(* new returns an address that no live object has. *)
LEMMA NewObjectFresh ==
    Objects \ DOMAIN heap # {} => NewObject \in Objects \ DOMAIN heap
BY DEF NewObject

(* Opening a plain file adds a handle on a descriptor nobody has. *)
LEMMA OpenPlainSafe ==
    ASSUME SafeInv, NEW t \in Threads, NEW f \in Files, OpenPlain(t, f)
    PROVE  SafeInv'
<1>1. TypeOK'
  BY DEF SafeInv, TypeOK, OpenPlain, thread, disk, With, Fresh, Routes
<1>2. ASSUME NEW u \in Threads PROVE Knows(u)'
  BY DEF SafeInv, TypeOK, OpenPlain, thread, With, Fresh, Knows
<1>3. ASSUME NEW u \in Threads PROVE OwnDescriptor(u)'
  BY DEF SafeInv, OpenPlain, thread, With, Fresh, OwnDescriptor
<1>4. ASSUME NEW u \in Threads PROVE OwnObject(u)'
  BY DEF SafeInv, OpenPlain, thread, OwnObject
<1>5. DeletedOnce'
  BY DEF SafeInv, OpenPlain, DeletedOnce
<1>6. HeapAccounted'
  BY DEF SafeInv, TypeOK, OpenPlain, thread, disk, With, Fresh,
    HeapAccounted, InHand, InTable, OwnObject, DeletedOnce, Knows
<1> QED
  BY <1>1, <1>2, <1>3, <1>4, <1>5, <1>6 DEF SafeInv

(* A merged open keeps its descriptor to itself until it is a handle. *)
LEMMA OpenSafe ==
    ASSUME SafeInv, NEW t \in Threads, NEW f \in Files, Open(t, f)
    PROVE  SafeInv'
<1>1. TypeOK'
  BY DEF SafeInv, TypeOK, Open, Begin, disk, With, Fresh, Steps, Routes,
    NoAnswer
<1>2. ASSUME NEW u \in Threads PROVE Knows(u)'
  BY DEF SafeInv, TypeOK, Open, Begin, With, Fresh, Knows, Transferring,
    Releasing
<1>3. ASSUME NEW u \in Threads PROVE OwnDescriptor(u)'
  BY DEF SafeInv, TypeOK, Open, Begin, With, Fresh, OwnDescriptor
<1>4. ASSUME NEW u \in Threads PROVE OwnObject(u)'
  BY DEF SafeInv, Open, Begin, OwnObject
<1>5. DeletedOnce'
  BY DEF SafeInv, Open, DeletedOnce
<1>6. HeapAccounted'
  BY DEF SafeInv, TypeOK, Open, Begin, disk, With, Fresh, HeapAccounted,
    InHand, InTable, OwnObject, DeletedOnce, Knows
<1> QED
  BY <1>1, <1>2, <1>3, <1>4, <1>5, <1>6 DEF SafeInv

(* A created file is a handle at once. *)
LEMMA CreateSafe ==
    ASSUME SafeInv, NEW t \in Threads, NEW f \in Files, Create(t, f)
    PROVE  SafeInv'
<1>1. TypeOK'
  <2>1. kind' \in [Files -> Kinds]
    BY KindRange DEF SafeInv, TypeOK, Create
  <2> QED
    BY <2>1 DEF SafeInv, TypeOK, Create, thread, With, Fresh, Routes
<1>2. ASSUME NEW u \in Threads PROVE Knows(u)'
  BY DEF SafeInv, TypeOK, Create, thread, With, Fresh, Knows
<1>3. ASSUME NEW u \in Threads PROVE OwnDescriptor(u)'
  BY DEF SafeInv, Create, thread, With, Fresh, OwnDescriptor
<1>4. ASSUME NEW u \in Threads PROVE OwnObject(u)'
  BY DEF SafeInv, Create, thread, OwnObject
<1>5. DeletedOnce'
  BY DEF SafeInv, Create, DeletedOnce
<1>6. HeapAccounted'
  BY DEF SafeInv, TypeOK, Create, thread, With, Fresh, HeapAccounted,
    InHand, InTable, OwnObject, DeletedOnce, Knows
<1> QED
  BY <1>1, <1>2, <1>3, <1>4, <1>5, <1>6 DEF SafeInv

(* getattr touches no descriptor. *)
LEMMA GetattrSafe ==
    ASSUME SafeInv, NEW t \in Threads, NEW f \in Files, Getattr(t, f)
    PROVE  SafeInv'
<1>1. TypeOK'
  BY DEF SafeInv, TypeOK, Getattr, Begin, disk, tables, Steps, Routes, NoAnswer
<1>2. ASSUME NEW u \in Threads PROVE Knows(u)'
  BY DEF SafeInv, TypeOK, Getattr, Begin, tables, Knows, Transferring,
    Releasing
<1>3. ASSUME NEW u \in Threads PROVE OwnDescriptor(u)'
  BY DEF SafeInv, TypeOK, Getattr, Begin, tables, OwnDescriptor
<1>4. ASSUME NEW u \in Threads PROVE OwnObject(u)'
  BY DEF SafeInv, Getattr, Begin, tables, OwnObject
<1>5. DeletedOnce'
  BY DEF SafeInv, Getattr, tables, DeletedOnce
<1>6. HeapAccounted'
  BY DEF SafeInv, TypeOK, Getattr, Begin, tables, disk, HeapAccounted,
    InHand, InTable, OwnObject, DeletedOnce, Knows
<1> QED
  BY <1>1, <1>2, <1>3, <1>4, <1>5, <1>6 DEF SafeInv

(* A read or a write starts on a handle that stays open until it ends. *)
LEMMA TransferSafe ==
    ASSUME SafeInv, NEW t \in Threads, NEW d \in Descriptors,
           NEW o \in {"read", "write"}, Transfer(t, d, o)
    PROVE  SafeInv'
<1>1. TypeOK'
  BY DEF SafeInv, TypeOK, Transfer, Begin, disk, tables, Steps, Routes,
    NoAnswer
<1>2. ASSUME NEW u \in Threads PROVE Knows(u)'
  BY DEF SafeInv, TypeOK, Transfer, Begin, tables, Knows, Parsing, Releasing
<1>3. ASSUME NEW u \in Threads PROVE OwnDescriptor(u)'
  BY DEF SafeInv, TypeOK, Transfer, Begin, tables, OwnDescriptor
<1>4. ASSUME NEW u \in Threads PROVE OwnObject(u)'
  BY DEF SafeInv, Transfer, Begin, tables, OwnObject
<1>5. DeletedOnce'
  BY DEF SafeInv, Transfer, tables, DeletedOnce
<1>6. HeapAccounted'
  BY DEF SafeInv, TypeOK, Transfer, Begin, tables, disk, HeapAccounted,
    InHand, InTable, OwnObject, DeletedOnce, Knows
<1> QED
  BY <1>1, <1>2, <1>3, <1>4, <1>5, <1>6 DEF SafeInv

(* A release takes the handle away before it removes the entry. *)
LEMMA ReleaseSafe ==
    ASSUME SafeInv, NEW t \in Threads, NEW d \in Descriptors, Release(t, d)
    PROVE  SafeInv'
<1>1. TypeOK'
  BY DEF SafeInv, TypeOK, Release, Begin, disk, Without, Steps, Routes,
    NoAnswer
<1>2. ASSUME NEW u \in Threads PROVE Knows(u)'
  BY DEF SafeInv, TypeOK, Release, Begin, Busy, Without, Knows, Parsing,
    Transferring
<1>3. ASSUME NEW u \in Threads PROVE OwnDescriptor(u)'
  BY DEF SafeInv, TypeOK, Release, Begin, Without, OwnDescriptor
<1>4. ASSUME NEW u \in Threads PROVE OwnObject(u)'
  BY DEF SafeInv, Release, Begin, OwnObject
<1>5. DeletedOnce'
  BY DEF SafeInv, Release, DeletedOnce
<1>6. HeapAccounted'
  BY DEF SafeInv, TypeOK, Release, Begin, disk, Without, HeapAccounted,
    InHand, InTable, OwnObject, DeletedOnce, Knows, OwnDescriptor,
    Releasing, Transferring, Parsing
<1> QED
  BY <1>1, <1>2, <1>3, <1>4, <1>5, <1>6 DEF SafeInv

(* Taking the lock changes nothing a thread relies on. *)
LEMMA ParseBeginSafe ==
    ASSUME SafeInv, NEW t \in Threads, ParseBegin(t)
    PROVE  SafeInv'
<1>1. TypeOK'
  BY DEF SafeInv, TypeOK, ParseBegin, Goto, disk, tables, Steps
<1>2. ASSUME NEW u \in Threads PROVE Knows(u)'
  BY DEF SafeInv, ParseBegin, Goto, tables, Knows, Parsing, Transferring,
    Releasing
<1>3. ASSUME NEW u \in Threads PROVE OwnDescriptor(u)'
  BY DEF SafeInv, ParseBegin, Goto, tables, OwnDescriptor
<1>4. ASSUME NEW u \in Threads PROVE OwnObject(u)'
  BY DEF SafeInv, ParseBegin, Goto, tables, OwnObject
<1>5. DeletedOnce'
  BY DEF SafeInv, ParseBegin, tables, DeletedOnce
<1>6. HeapAccounted'
  BY DEF SafeInv, TypeOK, ParseBegin, Goto, tables, disk, HeapAccounted,
    InHand, InTable, OwnObject, DeletedOnce, Knows
<1> QED
  BY <1>1, <1>2, <1>3, <1>4, <1>5, <1>6 DEF SafeInv

(* The parsed object is known to the thread that parsed it alone. *)
LEMMA ParsedSafe ==
    ASSUME SafeInv, NEW t \in Threads, pc[t] \in {"parse", "blocked"},
           NEW valid \in BOOLEAN, Parsed(t, valid)
    PROVE  SafeInv'
<1>1. TypeOK'
  <2>1. path[t] \in Files /\ NewObject \in Objects
    BY NewObjectFresh DEF SafeInv, Knows, Parsing, Parsed
  <2> QED
    BY <2>1 DEF SafeInv, TypeOK, Parsed, Goto, disk, With, Steps
<1>2. ASSUME NEW u \in Threads PROVE Knows(u)'
  BY NewObjectFresh DEF SafeInv, TypeOK, Parsed, Goto, With, Knows, Parsing,
    Transferring, Releasing
<1>3. ASSUME NEW u \in Threads PROVE OwnDescriptor(u)'
  BY DEF SafeInv, Parsed, Goto, OwnDescriptor
<1>4. ASSUME NEW u \in Threads PROVE OwnObject(u)'
  BY NewObjectFresh DEF SafeInv, TypeOK, Parsed, Goto, Knows, OwnObject
<1>5. DeletedOnce'
  BY DEF SafeInv, Parsed, DeletedOnce
<1>6. HeapAccounted'
  BY NewObjectFresh DEF SafeInv, TypeOK, Parsed, Goto, With, HeapAccounted,
    InHand, InTable
<1> QED
  BY <1>1, <1>2, <1>3, <1>4, <1>5, <1>6 DEF SafeInv

LEMMA ParseEndSafe ==
    ASSUME SafeInv, NEW t \in Threads, ParseEnd(t)
    PROVE  SafeInv'
<1>1. Parses(kind[path[t]], op[t] = "open") \in BOOLEAN
  BY DEF Parses
<1> QED
  BY <1>1, ParsedSafe DEF ParseEnd

LEMMA ParseResumesSafe ==
    ASSUME SafeInv, NEW t \in Threads, ParseResumes(t)
    PROVE  SafeInv'
BY ParsedSafe DEF ParseResumes

(* A thread that waits in open(2) keeps what it has. *)
LEMMA ParseBlocksSafe ==
    ASSUME SafeInv, NEW t \in Threads, ParseBlocks(t)
    PROVE  SafeInv'
<1>1. TypeOK'
  BY DEF SafeInv, TypeOK, ParseBlocks, Goto, disk, tables, Steps
<1>2. ASSUME NEW u \in Threads PROVE Knows(u)'
  BY DEF SafeInv, ParseBlocks, Goto, tables, Knows, Parsing, Transferring,
    Releasing
<1>3. ASSUME NEW u \in Threads PROVE OwnDescriptor(u)'
  BY DEF SafeInv, ParseBlocks, Goto, tables, OwnDescriptor
<1>4. ASSUME NEW u \in Threads PROVE OwnObject(u)'
  BY DEF SafeInv, ParseBlocks, Goto, tables, OwnObject
<1>5. DeletedOnce'
  BY DEF SafeInv, ParseBlocks, tables, DeletedOnce
<1>6. HeapAccounted'
  BY DEF SafeInv, TypeOK, ParseBlocks, Goto, tables, HeapAccounted, InHand,
    InTable
<1> QED
  BY <1>1, <1>2, <1>3, <1>4, <1>5, <1>6 DEF SafeInv

(* A description that does not parse is opened as it is. *)
LEMMA OpenNormalSafe ==
    ASSUME SafeInv, NEW t \in Threads, OpenNormal(t)
    PROVE  SafeInv'
<1>1. TypeOK'
  <2>1. /\ DOMAIN heap' = (DOMAIN heap \ (forgotten \cup {obj[t]})) \cup forgotten'
        /\ forgotten' \subseteq {obj[t]} /\ obj[t] \in DOMAIN heap
    BY DEF SafeInv, Knows, OpenNormal
  <2>2. \A o \in DOMAIN heap' : o \in DOMAIN heap /\ heap'[o] = heap[o]
    BY <2>1 DEF OpenNormal
  <2>3. \A e \in DOMAIN open_files : open_files[e] \in DOMAIN heap'
    BY <2>1 DEF SafeInv, TypeOK, OwnObject, HeapAccounted, InTable, OpenNormal
  <2>4. handles' = With(handles, fd[t], "raw") /\ fd[t] \in DOMAIN fds
    BY DEF SafeInv, OwnDescriptor, OpenNormal
  <2>5. DOMAIN heap' \subseteq Objects /\ forgotten' \subseteq DOMAIN heap'
    BY <2>1 DEF SafeInv, TypeOK
  <2>6. /\ Return(t, "raw", "raw")
        /\ UNCHANGED <<disk, fds, writeonly, open_files, the_lock>>
    BY DEF OpenNormal
  <2> HIDE DEF OpenNormal
  <2>7. /\ DOMAIN handles' \subseteq DOMAIN fds
        /\ \A d \in DOMAIN handles' : handles'[d] \in {"raw", "merged", "created"}
    BY <2>4 DEF SafeInv, TypeOK, With
  <2> QED
    BY <2>2, <2>3, <2>5, <2>6, <2>7 DEF SafeInv, TypeOK, Return, disk, Steps,
      Routes
<1>2. ASSUME NEW u \in Threads PROVE Knows(u)'
  <2>1. ASSUME u # t, pc[u] = "parsed"
        PROVE  obj[u] \in DOMAIN heap' /\ heap'[obj[u]] = heap[obj[u]]
    BY <2>1 DEF SafeInv, Knows, OwnObject, OpenNormal, HeapAccounted, InHand
  <2>2. CASE u = t
    BY <2>2 DEF SafeInv, TypeOK, OpenNormal, Return, Knows, Parsing,
      Transferring, Releasing
  <2>3. CASE u # t
    <3>1. /\ pc'[u] = pc[u] /\ op'[u] = op[u] /\ fd'[u] = fd[u]
          /\ path'[u] = path[u] /\ obj'[u] = obj[u]
          /\ fds' = fds /\ open_files' = open_files
          /\ DOMAIN handles \subseteq DOMAIN handles'
      BY <2>3 DEF SafeInv, TypeOK, OpenNormal, Return, With
    <3> QED
      BY <2>1, <2>3, <3>1 DEF SafeInv, Knows
  <2> QED
    BY <2>2, <2>3
<1>3. ASSUME NEW u \in Threads PROVE OwnDescriptor(u)'
  BY DEF SafeInv, TypeOK, OpenNormal, Return, With, OwnDescriptor
<1>4. ASSUME NEW u \in Threads PROVE OwnObject(u)'
  BY DEF SafeInv, TypeOK, OpenNormal, Return, OwnObject
<1>5. DeletedOnce'
  BY DEF SafeInv, OpenNormal, DeletedOnce
<1>6. HeapAccounted'
  BY DEF SafeInv, TypeOK, OpenNormal, Return, disk, With, HeapAccounted,
    InHand, InTable, OwnObject, DeletedOnce, Knows
<1> QED
  BY <1>1, <1>2, <1>3, <1>4, <1>5, <1>6 DEF SafeInv

(* The entry inserted leads to an object no other entry leads to. *)
LEMMA OpenInsertSafe ==
    ASSUME SafeInv, NEW t \in Threads, OpenInsert(t)
    PROVE  SafeInv'
<1>1. TypeOK'
  BY DEF SafeInv, TypeOK, OpenInsert, Return, disk, With, Knows, OwnDescriptor,
    Steps, Routes
<1>2. ASSUME NEW u \in Threads PROVE Knows(u)'
  BY DEF SafeInv, TypeOK, OpenInsert, Return, With, Knows, Parsing,
    Transferring, Releasing
<1>3. ASSUME NEW u \in Threads PROVE OwnDescriptor(u)'
  BY DEF SafeInv, TypeOK, OpenInsert, Return, With, OwnDescriptor
<1>4. ASSUME NEW u \in Threads PROVE OwnObject(u)'
  BY DEF SafeInv, TypeOK, OpenInsert, Return, With, OwnObject
<1>5. DeletedOnce'
  BY DEF SafeInv, OpenInsert, With, DeletedOnce, OwnObject
<1>6. HeapAccounted'
  <2>1. ASSUME NEW o \in DOMAIN heap
        PROVE  /\ InHand(o) => InHand(o)' \/ InTable(o)'
               /\ InTable(o)' => InTable(o) \/ InHand(o)
               /\ InTable(o) => InTable(o)'
               /\ InHand(o)' => InHand(o)
    BY DEF SafeInv, TypeOK, OpenInsert, Return, With, InHand, InTable
  <2> QED
    BY <2>1 DEF SafeInv, OpenInsert, HeapAccounted
<1> QED
  BY <1>1, <1>2, <1>3, <1>4, <1>5, <1>6 DEF SafeInv

(* A refused open closes the descriptor that was its own. *)
LEMMA OpenRefusedSafe ==
    ASSUME SafeInv, NEW t \in Threads, OpenRefused(t)
    PROVE  SafeInv'
<1>1. TypeOK'
  BY DEF SafeInv, TypeOK, OpenRefused, Return, disk, Without, OwnObject, Steps,
    Routes, HeapAccounted, InHand
<1>2. ASSUME NEW u \in Threads PROVE Knows(u)'
  BY DEF SafeInv, TypeOK, OpenRefused, Return, Without, Knows, OwnObject,
    Parsing, Transferring, Releasing
<1>3. ASSUME NEW u \in Threads PROVE OwnDescriptor(u)'
  BY DEF SafeInv, TypeOK, OpenRefused, Return, OwnDescriptor
<1>4. ASSUME NEW u \in Threads PROVE OwnObject(u)'
  BY DEF SafeInv, TypeOK, OpenRefused, Return, OwnObject
<1>5. DeletedOnce'
  BY DEF SafeInv, OpenRefused, DeletedOnce
<1>6. HeapAccounted'
  BY DEF SafeInv, TypeOK, OpenRefused, Return, disk, Without, HeapAccounted,
    InHand, InTable, OwnObject, DeletedOnce, Knows
<1> QED
  BY <1>1, <1>2, <1>3, <1>4, <1>5, <1>6 DEF SafeInv

(* getattr deletes an object that is in no entry. *)
LEMMA GetattrEndSafe ==
    ASSUME SafeInv, NEW t \in Threads, GetattrEnd(t)
    PROVE  SafeInv'
<1>1. TypeOK'
  BY DEF SafeInv, TypeOK, GetattrEnd, Return, disk, Without, OwnObject, Steps,
    Routes, HeapAccounted, InHand
<1>2. ASSUME NEW u \in Threads PROVE Knows(u)'
  BY DEF SafeInv, TypeOK, GetattrEnd, Return, Without, Knows, OwnObject,
    Parsing, Transferring, Releasing
<1>3. ASSUME NEW u \in Threads PROVE OwnDescriptor(u)'
  BY DEF SafeInv, GetattrEnd, Return, OwnDescriptor
<1>4. ASSUME NEW u \in Threads PROVE OwnObject(u)'
  BY DEF SafeInv, TypeOK, GetattrEnd, Return, OwnObject
<1>5. DeletedOnce'
  BY DEF SafeInv, GetattrEnd, DeletedOnce
<1>6. HeapAccounted'
  <2>1. ASSUME NEW o \in DOMAIN heap, o # obj[t]
        PROVE  (InHand(o)' <=> InHand(o)) /\ (InTable(o)' <=> InTable(o))
    BY <2>1 DEF SafeInv, TypeOK, GetattrEnd, Return, InHand, InTable
  <2> QED
    BY <2>1 DEF SafeInv, GetattrEnd, Without, HeapAccounted
<1> QED
  BY <1>1, <1>2, <1>3, <1>4, <1>5, <1>6 DEF SafeInv

(* What find returned is the entry of a handle that is not released. *)
LEMMA FindSafe ==
    ASSUME SafeInv, NEW t \in Threads, Find(t)
    PROVE  SafeInv'
<1>1. TypeOK'
  <2>1. CASE fd[t] \in DOMAIN open_files
    BY <2>1 DEF SafeInv, TypeOK, Find, Goto, disk, tables, Knows, Parsing,
      Transferring, Releasing, Steps, Routes
  <2>2. CASE fd[t] \notin DOMAIN open_files
    BY <2>2 DEF SafeInv, TypeOK, Find, Goto, disk, tables, Steps
  <2> QED
    BY <2>1, <2>2
<1>2. ASSUME NEW u \in Threads PROVE Knows(u)'
  BY DEF SafeInv, TypeOK, Find, Goto, tables, Knows, Parsing, Transferring,
    Releasing
<1>3. ASSUME NEW u \in Threads PROVE OwnDescriptor(u)'
  BY DEF SafeInv, Find, Goto, tables, OwnDescriptor
<1>4. ASSUME NEW u \in Threads PROVE OwnObject(u)'
  BY DEF SafeInv, TypeOK, Find, Goto, disk, tables, OwnObject, Parsing,
    Transferring, Releasing
<1>5. DeletedOnce'
  BY DEF SafeInv, Find, tables, DeletedOnce
<1>6. HeapAccounted'
  <2>1. ASSUME NEW o \in DOMAIN heap
        PROVE  (InHand(o)' <=> InHand(o)) /\ (InTable(o)' <=> InTable(o))
    BY DEF SafeInv, TypeOK, Find, Goto, tables, InHand, InTable
  <2> QED
    BY <2>1 DEF SafeInv, Find, tables, HeapAccounted
<1> QED
  BY <1>1, <1>2, <1>3, <1>4, <1>5, <1>6 DEF SafeInv

(* The entry that find returned is still there after the unlock. *)
LEMMA FoundSafe ==
    ASSUME SafeInv, NEW t \in Threads, Found(t)
    PROVE  SafeInv'
<1>1. TypeOK'
  BY DEF SafeInv, TypeOK, Found, Goto, disk, tables, Steps
<1>2. ASSUME NEW u \in Threads PROVE Knows(u)'
  BY DEF SafeInv, TypeOK, Found, Goto, tables, Knows, Parsing, Transferring,
    Releasing
<1>3. ASSUME NEW u \in Threads PROVE OwnDescriptor(u)'
  BY DEF SafeInv, Found, Goto, tables, OwnDescriptor
<1>4. ASSUME NEW u \in Threads PROVE OwnObject(u)'
  BY DEF SafeInv, Found, Goto, tables, OwnObject
<1>5. DeletedOnce'
  BY DEF SafeInv, Found, tables, DeletedOnce
<1>6. HeapAccounted'
  BY DEF SafeInv, TypeOK, Found, Goto, tables, disk, HeapAccounted, InHand,
    InTable, OwnObject, DeletedOnce, Knows, OwnDescriptor, Releasing,
    Transferring, Parsing
<1> QED
  BY <1>1, <1>2, <1>3, <1>4, <1>5, <1>6 DEF SafeInv

(* A refused write only answers. *)
LEMMA WriteRefusedSafe ==
    ASSUME SafeInv, NEW t \in Threads, WriteRefused(t)
    PROVE  SafeInv'
<1>1. TypeOK'
  BY DEF SafeInv, TypeOK, WriteRefused, Return, disk, tables, Knows,
    Transferring, Steps, Routes
<1>2. ASSUME NEW u \in Threads PROVE Knows(u)'
  BY DEF SafeInv, TypeOK, WriteRefused, Return, tables, Knows, Parsing,
    Transferring, Releasing
<1>3. ASSUME NEW u \in Threads PROVE OwnDescriptor(u)'
  BY DEF SafeInv, WriteRefused, Return, tables, OwnDescriptor
<1>4. ASSUME NEW u \in Threads PROVE OwnObject(u)'
  BY DEF SafeInv, WriteRefused, Return, tables, OwnObject
<1>5. DeletedOnce'
  BY DEF SafeInv, WriteRefused, tables, DeletedOnce
<1>6. HeapAccounted'
  BY DEF SafeInv, TypeOK, WriteRefused, Return, tables, disk, HeapAccounted,
    InHand, InTable, OwnObject, DeletedOnce, Knows
<1> QED
  BY <1>1, <1>2, <1>3, <1>4, <1>5, <1>6 DEF SafeInv

(* The second lookup finds the entry the first found. *)
LEMMA FindAgainSafe ==
    ASSUME SafeInv, NEW t \in Threads, FindAgain(t)
    PROVE  SafeInv'
<1>1. TypeOK'
  <2>1. CASE fd[t] \in DOMAIN open_files
    BY <2>1 DEF SafeInv, TypeOK, FindAgain, Goto, Return, disk, tables, Knows,
      Parsing, Transferring, Releasing, Steps, Routes
  <2>2. CASE fd[t] \notin DOMAIN open_files
    <3>1. /\ Return(t, "EBADF", handles[fd[t]])
          /\ UNCHANGED <<disk, tables, the_lock>>
      BY <2>2 DEF FindAgain
    <3>2. handles[fd[t]] \in {"raw", "merged", "created"}
      BY DEF SafeInv, TypeOK, Knows, FindAgain, Transferring
    <3> QED
      BY <3>1, <3>2 DEF SafeInv, TypeOK, Return, disk, tables, Steps, Routes
  <2> QED
    BY <2>1, <2>2
<1>2. ASSUME NEW u \in Threads PROVE Knows(u)'
  BY DEF SafeInv, TypeOK, FindAgain, Goto, Return, tables, Knows, Parsing,
    Transferring, Releasing
<1>3. ASSUME NEW u \in Threads PROVE OwnDescriptor(u)'
  BY DEF SafeInv, TypeOK, FindAgain, Goto, Return, disk, tables, OwnDescriptor,
    Transferring
<1>4. ASSUME NEW u \in Threads PROVE OwnObject(u)'
  BY DEF SafeInv, TypeOK, FindAgain, Goto, Return, disk, tables, Knows,
    OwnObject, Parsing, Transferring, Releasing
<1>5. DeletedOnce'
  BY DEF SafeInv, FindAgain, tables, DeletedOnce
<1>6. HeapAccounted'
  BY DEF SafeInv, TypeOK, FindAgain, Goto, Return, tables, disk,
    HeapAccounted, InHand, InTable, OwnObject, DeletedOnce, Knows,
    OwnDescriptor, Releasing, Transferring, Parsing
<1> QED
  BY <1>1, <1>2, <1>3, <1>4, <1>5, <1>6 DEF SafeInv

(* A merged read only answers. *)
LEMMA ReadMergedSafe ==
    ASSUME SafeInv, NEW t \in Threads, ReadMerged(t)
    PROVE  SafeInv'
<1>1. TypeOK'
  BY DEF SafeInv, TypeOK, ReadMerged, Return, disk, tables, Knows,
    Transferring, Steps, Routes
<1>2. ASSUME NEW u \in Threads PROVE Knows(u)'
  BY DEF SafeInv, TypeOK, ReadMerged, Return, tables, Knows, Parsing,
    Transferring, Releasing
<1>3. ASSUME NEW u \in Threads PROVE OwnDescriptor(u)'
  BY DEF SafeInv, TypeOK, ReadMerged, Return, tables, OwnDescriptor
<1>4. ASSUME NEW u \in Threads PROVE OwnObject(u)'
  BY DEF SafeInv, ReadMerged, Return, tables, OwnObject
<1>5. DeletedOnce'
  BY DEF SafeInv, ReadMerged, tables, DeletedOnce
<1>6. HeapAccounted'
  BY DEF SafeInv, TypeOK, ReadMerged, Return, tables, disk, HeapAccounted,
    InHand, InTable, OwnObject, DeletedOnce, Knows
<1> QED
  BY <1>1, <1>2, <1>3, <1>4, <1>5, <1>6 DEF SafeInv

(* A plain read only answers. *)
LEMMA PreadSafe ==
    ASSUME SafeInv, NEW t \in Threads, Pread(t)
    PROVE  SafeInv'
<1>1. TypeOK'
  BY DEF SafeInv, TypeOK, Pread, Return, disk, tables, Knows, Transferring,
    Steps, Routes
<1>2. ASSUME NEW u \in Threads PROVE Knows(u)'
  BY DEF SafeInv, TypeOK, Pread, Return, tables, Knows, Parsing, Transferring,
    Releasing
<1>3. ASSUME NEW u \in Threads PROVE OwnDescriptor(u)'
  BY DEF SafeInv, Pread, Return, tables, OwnDescriptor
<1>4. ASSUME NEW u \in Threads PROVE OwnObject(u)'
  BY DEF SafeInv, Pread, Return, tables, OwnObject
<1>5. DeletedOnce'
  BY DEF SafeInv, Pread, tables, DeletedOnce
<1>6. HeapAccounted'
  BY DEF SafeInv, TypeOK, Pread, Return, tables, disk, HeapAccounted,
    InHand, InTable, OwnObject, DeletedOnce, Knows
<1> QED
  BY <1>1, <1>2, <1>3, <1>4, <1>5, <1>6 DEF SafeInv

(* A plain write changes what is on disk and answers. *)
LEMMA PwriteSafe ==
    ASSUME SafeInv, NEW t \in Threads, Pwrite(t)
    PROVE  SafeInv'
<1>1. TypeOK'
  BY DEF SafeInv, TypeOK, Pwrite, Return, tables, Knows, Transferring, Steps,
    Routes
<1>2. ASSUME NEW u \in Threads PROVE Knows(u)'
  BY DEF SafeInv, TypeOK, Pwrite, Return, tables, Knows, Parsing, Transferring,
    Releasing
<1>3. ASSUME NEW u \in Threads PROVE OwnDescriptor(u)'
  BY DEF SafeInv, Pwrite, Return, tables, OwnDescriptor
<1>4. ASSUME NEW u \in Threads PROVE OwnObject(u)'
  BY DEF SafeInv, Pwrite, Return, tables, OwnObject
<1>5. DeletedOnce'
  BY DEF SafeInv, Pwrite, tables, DeletedOnce
<1>6. HeapAccounted'
  BY DEF SafeInv, TypeOK, Pwrite, Return, tables, HeapAccounted, InHand,
    InTable, OwnObject, DeletedOnce, Knows
<1> QED
  BY <1>1, <1>2, <1>3, <1>4, <1>5, <1>6 DEF SafeInv

(* Removing an entry frees an object nobody else is using. *)
LEMMA RemoveSafe ==
    ASSUME SafeInv, NEW t \in Threads, Remove(t)
    PROVE  SafeInv'
<1>1. TypeOK'
  BY DEF SafeInv, TypeOK, Remove, Goto, disk, Without, DeletedOnce, Steps,
    HeapAccounted, InTable
<1>2. ASSUME NEW u \in Threads PROVE Knows(u)'
  BY DEF SafeInv, Remove, Goto, Without, Knows, OwnDescriptor, OwnObject,
    Parsing, Transferring, Releasing
<1>3. ASSUME NEW u \in Threads PROVE OwnDescriptor(u)'
  BY DEF SafeInv, Remove, Goto, OwnDescriptor
<1>4. ASSUME NEW u \in Threads PROVE OwnObject(u)'
  BY DEF SafeInv, Remove, Goto, Without, OwnObject
<1>5. DeletedOnce'
  BY DEF SafeInv, Remove, Without, DeletedOnce
<1>6. HeapAccounted'
  <2>1. ASSUME NEW o \in DOMAIN heap' PROVE InHand(o)' <=> InHand(o)
    BY DEF SafeInv, TypeOK, Remove, Goto, InHand
  <2>2. ASSUME NEW o \in DOMAIN heap' PROVE InTable(o)' <=> InTable(o)
    BY DEF SafeInv, TypeOK, Remove, Without, InTable, DeletedOnce
  <2> QED
    BY <2>1, <2>2 DEF SafeInv, Remove, Without, HeapAccounted
<1> QED
  BY <1>1, <1>2, <1>3, <1>4, <1>5, <1>6 DEF SafeInv

(* Closing frees a descriptor that is no handle. *)
LEMMA CloseSafe ==
    ASSUME SafeInv, NEW t \in Threads, Close(t)
    PROVE  SafeInv'
<1>1. TypeOK'
  BY DEF SafeInv, TypeOK, Close, Return, disk, Without, Knows, OwnDescriptor,
    Releasing, Steps, Routes
<1>2. ASSUME NEW u \in Threads PROVE Knows(u)'
  BY DEF SafeInv, TypeOK, Close, Return, Without, Knows, OwnDescriptor,
    Parsing, Transferring, Releasing
<1>3. ASSUME NEW u \in Threads PROVE OwnDescriptor(u)'
  BY DEF SafeInv, TypeOK, Close, Return, Without, Knows, OwnDescriptor,
    Releasing
<1>4. ASSUME NEW u \in Threads PROVE OwnObject(u)'
  BY DEF SafeInv, Close, Return, OwnObject
<1>5. DeletedOnce'
  BY DEF SafeInv, Close, DeletedOnce
<1>6. HeapAccounted'
  BY DEF SafeInv, TypeOK, Close, Return, disk, Without, HeapAccounted,
    InHand, InTable, OwnObject, DeletedOnce, Knows
<1> QED
  BY <1>1, <1>2, <1>3, <1>4, <1>5, <1>6 DEF SafeInv

(* A name is not part of what a thread knows of its request. *)
LEMMA RenameSafe ==
    ASSUME SafeInv, NEW f \in Files, Rename(f)
    PROVE  SafeInv'
<1>1. TypeOK'
  <2>1. renames' \in 0 .. MaxRenames
    BY Bounds DEF SafeInv, TypeOK, Rename
  <2> QED
    BY <2>1 DEF SafeInv, TypeOK, Rename, thread, tables
<1>2. ASSUME NEW u \in Threads PROVE Knows(u)'
  BY DEF SafeInv, Rename, thread, tables, Knows
<1>3. ASSUME NEW u \in Threads PROVE OwnDescriptor(u)'
  BY DEF SafeInv, Rename, thread, tables, OwnDescriptor
<1>4. ASSUME NEW u \in Threads PROVE OwnObject(u)'
  BY DEF SafeInv, Rename, thread, tables, OwnObject
<1>5. DeletedOnce'
  BY DEF SafeInv, Rename, tables, DeletedOnce
<1>6. HeapAccounted'
  BY DEF SafeInv, TypeOK, Rename, thread, tables, HeapAccounted, InHand,
    InTable, OwnObject, DeletedOnce, Knows
<1> QED
  BY <1>1, <1>2, <1>3, <1>4, <1>5, <1>6 DEF SafeInv

(* Nor is the content of a file. *)
LEMMA EditSafe ==
    ASSUME SafeInv, NEW f \in Files, NEW k \in Kinds, Edit(f, k)
    PROVE  SafeInv'
<1>1. TypeOK'
  BY DEF SafeInv, TypeOK, Edit, thread, tables
<1>2. ASSUME NEW u \in Threads PROVE Knows(u)'
  BY DEF SafeInv, Edit, thread, tables, Knows
<1>3. ASSUME NEW u \in Threads PROVE OwnDescriptor(u)'
  BY DEF SafeInv, Edit, thread, tables, OwnDescriptor
<1>4. ASSUME NEW u \in Threads PROVE OwnObject(u)'
  BY DEF SafeInv, Edit, thread, tables, OwnObject
<1>5. DeletedOnce'
  BY DEF SafeInv, Edit, tables, DeletedOnce
<1>6. HeapAccounted'
  BY DEF SafeInv, TypeOK, Edit, thread, tables, HeapAccounted, InHand,
    InTable, OwnObject, DeletedOnce, Knows
<1> QED
  BY <1>1, <1>2, <1>3, <1>4, <1>5, <1>6 DEF SafeInv

(* Nothing is open at the start. *)
LEMMA SafeInit == Init => SafeInv
<1> SUFFICES ASSUME Init PROVE SafeInv
  OBVIOUS
<1>1. TypeOK
  <2>1. renames \in 0 .. MaxRenames
    BY Bounds DEF Init
  <2> QED
    BY <2>1 DEF Init, TypeOK, Empty, NoAnswer, Steps, Routes
<1>2. \A t \in Threads : pc[t] = "idle" /\ op[t] = "none"
  BY DEF Init
<1>3. DeletedOnce /\ HeapAccounted
  BY DEF Init, DeletedOnce, HeapAccounted, Empty
<1> QED
  BY <1>1, <1>2, <1>3 DEF SafeInv, Knows, OwnDescriptor, OwnObject, Parsing,
    Transferring, Releasing

(* Every step keeps SafeInv. *)
LEMMA SafeStep == SafeInv /\ [Next]_vars => SafeInv'
<1> SUFFICES ASSUME SafeInv, [Next]_vars PROVE SafeInv'
  OBVIOUS
<1>1. CASE UNCHANGED vars
  BY <1>1 DEF vars, SafeInv, TypeOK, Knows, OwnDescriptor, OwnObject,
    DeletedOnce, HeapAccounted, InHand, InTable
<1>2. ASSUME NEW t \in Threads, Request(t) PROVE SafeInv'
  <2>1. ASSUME NEW f \in Files,
               \/ OpenPlain(t, f) \/ Open(t, f)
               \/ Create(t, f) \/ Getattr(t, f)
        PROVE  SafeInv'
    BY <2>1, OpenPlainSafe, OpenSafe, CreateSafe, GetattrSafe
  <2>2. ASSUME NEW d \in Descriptors, Read(t, d) \/ Write(t, d)
        PROVE  SafeInv'
    BY <2>2, TransferSafe DEF Read, Write
  <2>3. ASSUME NEW d \in Descriptors, Release(t, d)
        PROVE  SafeInv'
    BY <2>3, ReleaseSafe
  <2> QED
    BY <1>2, <2>1, <2>2, <2>3 DEF Request
<1>3. ASSUME NEW t \in Threads, Step(t) PROVE SafeInv'
  BY <1>3, ParseBeginSafe, ParseEndSafe, ParseBlocksSafe, OpenNormalSafe, OpenInsertSafe,
    OpenRefusedSafe, GetattrEndSafe, FindSafe, FoundSafe, WriteRefusedSafe,
    FindAgainSafe, ReadMergedSafe, PreadSafe, PwriteSafe, RemoveSafe, CloseSafe
    DEF Step
<1>4. ASSUME NEW f \in Files, Rename(f) PROVE SafeInv'
  BY <1>4, RenameSafe
<1>5. ASSUME NEW f \in Files, NEW k \in Kinds, Edit(f, k) PROVE SafeInv'
  BY <1>5, EditSafe
<1>6. ASSUME NEW t \in Threads, ParseResumes(t) PROVE SafeInv'
  BY <1>6, ParseResumesSafe
<1> QED
  BY <1>1, <1>2, <1>3, <1>4, <1>5, <1>6 DEF Next

-----------------------------------------------------------------------------
(* What threads know of their requests, descriptors and objects stays true *)
(* in every interleaving of the handlers, whatever is renamed meanwhile.   *)
THEOREM SafeInvariant == Spec => []SafeInv
BY SafeInit, SafeStep, PTL DEF Spec

(* Every value stays in its range; every entry leads to a live object. *)
THEOREM TypeCorrect == Spec => []TypeOK
<1>1. SafeInv => TypeOK
  BY DEF SafeInv
<1> QED
  BY <1>1, SafeInvariant, PTL

(* get_concat's use of an iterator after unlock, and the reads with no lock *)
(* at all, never meet an entry or an object that a release has removed.     *)
THEOREM NeverUsedAfterFree == Spec => []NoUseAfterFree
<1>1. SafeInv => NoUseAfterFree
  BY DEF SafeInv, TypeOK, Knows, NoUseAfterFree
<1> QED
  BY <1>1, SafeInvariant, PTL

(* What getattr, a refused open and a release delete is all there was. *)
THEOREM HeapIsAccounted == Spec => []HeapAccounted
<1>1. SafeInv => HeapAccounted
  BY DEF SafeInv
<1> QED
  BY <1>1, SafeInvariant, PTL

(* remove_concat deletes no object that another entry still leads to. *)
THEOREM EachDeletedOnce == Spec => []DeletedOnce
<1>1. SafeInv => DeletedOnce
  BY DEF SafeInv
<1> QED
  BY <1>1, SafeInvariant, PTL

-----------------------------------------------------------------------------
(* A handle has an entry if and only if it is a merged one. *)
LEMMA HandleEntry ==
    ASSUME SafeInv, NamedInv, NEW d \in DOMAIN handles
    PROVE  /\ d \in DOMAIN open_files <=> handles[d] = "merged"
           /\ d \in DOMAIN open_files =>
                 /\ heap[open_files[d]] = [file |-> fds[d], valid |-> TRUE]
                 /\ named[fds[d]]
<1>1. ASSUME d \in DOMAIN open_files
      PROVE  /\ handles[d] = "merged"
             /\ heap[open_files[d]] = [file |-> fds[d], valid |-> TRUE]
  BY <1>1 DEF SafeInv, NamedInv, EntrySound, Attended, Knows, OwnDescriptor,
    Releasing
<1> QED
  BY <1>1 DEF NamedInv, MergedHandles

(* No entry is left under the descriptor an open has just been given. *)
LEMMA OpeningHasNoEntry ==
    ASSUME SafeInv, NamedInv, NEW t \in Threads, op[t] = "open"
    PROVE  fd[t] \notin DOMAIN open_files
<1>1. fd[t] \notin DOMAIN handles
  BY DEF SafeInv, OwnDescriptor
<1>2. ASSUME NEW u \in Threads, pc[u] = "remove" PROVE fd[u] # fd[t]
  <2>1. op[u] = "release"
    BY <1>2 DEF SafeInv, Knows, Releasing
  <2> QED
    BY <2>1 DEF SafeInv, OwnDescriptor
<1> QED
  BY <1>1, <1>2 DEF NamedInv, EntrySound, Attended

(* A plain handle has no entry and needs none. *)
LEMMA OpenPlainNamed ==
    ASSUME SafeInv, NamedInv,
           NEW t \in Threads, NEW f \in Files, OpenPlain(t, f)
    PROVE  NamedInv'
<1>1. ASSUME NEW e \in DOMAIN open_files' PROVE EntrySound(e)'
  <2>1. e \in DOMAIN open_files /\ EntrySound(e)
    BY DEF NamedInv, OpenPlain
  <2>2. /\ e \in DOMAIN fds'
        /\ heap'[open_files'[e]] = [file |-> fds'[e], valid |-> TRUE]
    <3>1. e \in DOMAIN fds' /\ fds'[e] = fds[e]
      BY <2>1 DEF OpenPlain, With, Fresh, EntrySound
    <3>2. heap' = heap /\ open_files' = open_files
      BY DEF OpenPlain
    <3> QED
      BY <2>1, <3>1, <3>2 DEF EntrySound
  <2>3. CASE e \in DOMAIN handles /\ handles[e] = "merged"
    BY <2>1, <2>2, <2>3 DEF OpenPlain, With, Fresh, EntrySound, Attended
  <2>4. ASSUME NEW u \in Threads, pc[u] = "remove", fd[u] = e
        PROVE  EntrySound(e)'
    BY <2>1, <2>2, <2>4 DEF OpenPlain, thread, EntrySound, Attended
  <2> QED
    BY <2>1, <2>3, <2>4 DEF EntrySound, Attended
<1>2. ASSUME NEW u \in Threads PROVE NamesKept(u)'
  BY DEF SafeInv, NamedInv, TypeOK, OpenPlain, thread, disk, With, Fresh,
    NamesKept, Knows, Transferring
<1>3. MergedHandles'
  BY DEF SafeInv, NamedInv, TypeOK, OpenPlain, disk, With, MergedHandles
<1>4. AnswerDue'
  BY DEF NamedInv, OpenPlain, AnswerDue, ReadDue
<1>5. CreatedHandles'
  BY DEF SafeInv, TypeOK, NamedInv, OpenPlain, thread, disk, With, Fresh,
    CreatedHandles, OwnDescriptor, Knows, NamesKept, Releasing
<1>6. ASSUME NEW e \in DOMAIN fds' PROVE Tended(e)'
  BY DEF SafeInv, TypeOK, NamedInv, OpenPlain, thread, disk, With, Fresh,
    Tended, OwnDescriptor, Knows, Parsing, Transferring, Releasing
<1> QED
  BY <1>1, <1>2, <1>3, <1>4, <1>5, <1>6 DEF NamedInv

(* The descriptor a merged open is given has no entry yet. *)
LEMMA OpenNamed ==
    ASSUME SafeInv, NamedInv, NEW t \in Threads, NEW f \in Files, Open(t, f)
    PROVE  NamedInv'
<1>1. ASSUME NEW e \in DOMAIN open_files' PROVE EntrySound(e)'
  <2>1. e \in DOMAIN open_files /\ EntrySound(e)
    BY DEF NamedInv, Open
  <2>2. /\ e \in DOMAIN fds'
        /\ heap'[open_files'[e]] = [file |-> fds'[e], valid |-> TRUE]
    <3>1. e \in DOMAIN fds' /\ fds'[e] = fds[e]
      BY <2>1 DEF Open, With, Fresh, EntrySound
    <3>2. heap' = heap /\ open_files' = open_files
      BY DEF Open
    <3> QED
      BY <2>1, <3>1, <3>2 DEF EntrySound
  <2>3. CASE e \in DOMAIN handles /\ handles[e] = "merged"
    BY <2>1, <2>2, <2>3 DEF Open, EntrySound, Attended
  <2>4. ASSUME NEW u \in Threads, pc[u] = "remove", fd[u] = e
        PROVE  EntrySound(e)'
    BY <2>1, <2>2, <2>4 DEF Open, Begin, EntrySound, Attended
  <2> QED
    BY <2>1, <2>3, <2>4 DEF EntrySound, Attended
<1>2. ASSUME NEW u \in Threads PROVE NamesKept(u)'
  BY DEF SafeInv, NamedInv, TypeOK, Open, Begin, disk, With, Fresh, NamesKept,
    Knows, OwnDescriptor, Transferring
<1>3. MergedHandles'
  BY DEF SafeInv, NamedInv, TypeOK, Open, disk, With, MergedHandles
<1>4. AnswerDue'
  BY DEF NamedInv, Open, Begin, AnswerDue, ReadDue, NoAnswer
<1>5. CreatedHandles'
  BY DEF SafeInv, TypeOK, NamedInv, Open, Begin, disk, With, Fresh,
    CreatedHandles, OwnDescriptor, Knows, NamesKept, Releasing
<1>6. ASSUME NEW e \in DOMAIN fds' PROVE Tended(e)'
  BY DEF SafeInv, TypeOK, NamedInv, Open, Begin, disk, With, Fresh, Tended,
    OwnDescriptor, Knows, Parsing, Transferring, Releasing
<1> QED
  BY <1>1, <1>2, <1>3, <1>4, <1>5, <1>6 DEF NamedInv

(* A created file is a plain handle. *)
LEMMA CreateNamed ==
    ASSUME SafeInv, NamedInv, NEW t \in Threads, NEW f \in Files, Create(t, f)
    PROVE  NamedInv'
<1>1. ASSUME NEW e \in DOMAIN open_files' PROVE EntrySound(e)'
  <2>1. e \in DOMAIN open_files /\ EntrySound(e)
    BY DEF NamedInv, Create
  <2>2. /\ e \in DOMAIN fds'
        /\ heap'[open_files'[e]] = [file |-> fds'[e], valid |-> TRUE]
    <3>1. e \in DOMAIN fds' /\ fds'[e] = fds[e]
      BY <2>1 DEF Create, With, Fresh, EntrySound
    <3>2. heap' = heap /\ open_files' = open_files
      BY DEF Create
    <3> QED
      BY <2>1, <3>1, <3>2 DEF EntrySound
  <2>3. CASE e \in DOMAIN handles /\ handles[e] = "merged"
    BY <2>1, <2>2, <2>3 DEF Create, With, Fresh, EntrySound, Attended
  <2>4. ASSUME NEW u \in Threads, pc[u] = "remove", fd[u] = e
        PROVE  EntrySound(e)'
    BY <2>1, <2>2, <2>4 DEF Create, thread, EntrySound, Attended
  <2> QED
    BY <2>1, <2>3, <2>4 DEF EntrySound, Attended
<1>2. ASSUME NEW u \in Threads PROVE NamesKept(u)'
  BY DEF SafeInv, NamedInv, TypeOK, Create, thread, With, Fresh, NamesKept,
    Knows, OwnDescriptor, Transferring
<1>3. MergedHandles'
  BY DEF SafeInv, NamedInv, TypeOK, Create, With, MergedHandles
<1>4. AnswerDue'
  BY DEF NamedInv, Create, AnswerDue, ReadDue
<1>5. CreatedHandles'
  BY DEF SafeInv, TypeOK, NamedInv, Create, thread, With, Fresh,
    CreatedHandles, OwnDescriptor, Knows, NamesKept, Releasing
<1>6. ASSUME NEW e \in DOMAIN fds' PROVE Tended(e)'
  BY DEF SafeInv, TypeOK, NamedInv, Create, thread, With, Fresh, Tended,
    OwnDescriptor, Knows, Parsing, Transferring, Releasing
<1> QED
  BY <1>1, <1>2, <1>3, <1>4, <1>5, <1>6 DEF NamedInv

(* getattr leaves the table as it is. *)
LEMMA GetattrNamed ==
    ASSUME SafeInv, NamedInv, NEW t \in Threads, NEW f \in Files, Getattr(t, f)
    PROVE  NamedInv'
<1>1. ASSUME NEW e \in DOMAIN open_files' PROVE EntrySound(e)'
  <2>1. e \in DOMAIN open_files /\ EntrySound(e)
    BY DEF NamedInv, Getattr, tables
  <2>2. /\ e \in DOMAIN fds'
        /\ heap'[open_files'[e]] = [file |-> fds'[e], valid |-> TRUE]
    BY <2>1 DEF Getattr, tables, EntrySound
  <2>3. CASE e \in DOMAIN handles /\ handles[e] = "merged"
    BY <2>1, <2>2, <2>3 DEF Getattr, tables, EntrySound, Attended
  <2>4. ASSUME NEW u \in Threads, pc[u] = "remove", fd[u] = e
        PROVE  EntrySound(e)'
    BY <2>1, <2>2, <2>4 DEF Getattr, Begin, EntrySound, Attended
  <2> QED
    BY <2>1, <2>3, <2>4 DEF EntrySound, Attended
<1>2. ASSUME NEW u \in Threads PROVE NamesKept(u)'
  BY DEF SafeInv, NamedInv, TypeOK, Getattr, Begin, disk, tables, NamesKept,
    Transferring
<1>3. MergedHandles'
  BY DEF NamedInv, Getattr, disk, tables, MergedHandles
<1>4. AnswerDue'
  BY DEF NamedInv, Getattr, Begin, AnswerDue, ReadDue, NoAnswer
<1>5. CreatedHandles'
  BY DEF SafeInv, TypeOK, NamedInv, Getattr, Begin, tables, disk,
    CreatedHandles, OwnDescriptor, Knows, NamesKept, Releasing
<1>6. ASSUME NEW e \in DOMAIN fds' PROVE Tended(e)'
  BY DEF SafeInv, TypeOK, NamedInv, Getattr, Begin, tables, disk, Tended,
    OwnDescriptor, Knows, Parsing, Transferring, Releasing
<1> QED
  BY <1>1, <1>2, <1>3, <1>4, <1>5, <1>6 DEF NamedInv

(* The name still tells a merged handle from a plain one. *)
LEMMA TransferNamed ==
    ASSUME SafeInv, NamedInv,
           NEW t \in Threads, NEW d \in Descriptors,
           NEW o \in {"read", "write"}, Transfer(t, d, o)
    PROVE  NamedInv'
<1>1. ASSUME NEW e \in DOMAIN open_files' PROVE EntrySound(e)'
  <2>1. e \in DOMAIN open_files /\ EntrySound(e)
    BY DEF NamedInv, Transfer, tables
  <2>2. /\ e \in DOMAIN fds'
        /\ heap'[open_files'[e]] = [file |-> fds'[e], valid |-> TRUE]
    BY <2>1 DEF Transfer, tables, EntrySound
  <2>3. CASE e \in DOMAIN handles /\ handles[e] = "merged"
    BY <2>1, <2>2, <2>3 DEF Transfer, tables, EntrySound, Attended
  <2>4. ASSUME NEW u \in Threads, pc[u] = "remove", fd[u] = e
        PROVE  EntrySound(e)'
    BY <2>1, <2>2, <2>4 DEF Transfer, Begin, EntrySound, Attended
  <2> QED
    BY <2>1, <2>3, <2>4 DEF EntrySound, Attended
<1>2. ASSUME NEW u \in Threads PROVE NamesKept(u)'
  BY DEF SafeInv, NamedInv, TypeOK, Transfer, Begin, disk, tables, NamesKept,
    MergedHandles
<1>3. MergedHandles'
  BY DEF NamedInv, Transfer, disk, tables, MergedHandles
<1>4. AnswerDue'
  BY DEF NamedInv, Transfer, Begin, AnswerDue, ReadDue, NoAnswer
<1>5. CreatedHandles'
  BY DEF SafeInv, TypeOK, NamedInv, Transfer, Begin, tables, disk,
    CreatedHandles, OwnDescriptor, Knows, NamesKept, Releasing
<1>6. ASSUME NEW e \in DOMAIN fds' PROVE Tended(e)'
  BY DEF SafeInv, TypeOK, NamedInv, Transfer, Begin, tables, disk, Tended,
    OwnDescriptor, Knows, Parsing, Transferring, Releasing
<1> QED
  BY <1>1, <1>2, <1>3, <1>4, <1>5, <1>6 DEF NamedInv

(* A merged handle that is released is bound to remove its entry. *)
LEMMA ReleaseNamed ==
    ASSUME SafeInv, NamedInv,
           NEW t \in Threads, NEW d \in Descriptors, Release(t, d)
    PROVE  NamedInv'
<1>1. ASSUME NEW e \in DOMAIN open_files' PROVE EntrySound(e)'
  <2>1. e \in DOMAIN open_files /\ EntrySound(e)
    BY DEF NamedInv, Release
  <2>2. /\ e \in DOMAIN fds'
        /\ heap'[open_files'[e]] = [file |-> fds'[e], valid |-> TRUE]
    BY <2>1 DEF Release, EntrySound
  <2>3. CASE e \in DOMAIN handles /\ handles[e] = "merged"
    <3>1. CASE e = d
      <4>1. pc'[t] = "remove" /\ fd'[t] = e
        BY <2>1, <3>1, HandleEntry DEF SafeInv, TypeOK, Release, Begin
      <4> QED
        BY <2>2, <4>1 DEF EntrySound, Attended
    <3>2. CASE e # d
      BY <2>2, <2>3, <3>2 DEF Release, Without, EntrySound, Attended
    <3> QED
      BY <3>1, <3>2
  <2>4. ASSUME NEW u \in Threads, pc[u] = "remove", fd[u] = e
        PROVE  EntrySound(e)'
    BY <2>1, <2>2, <2>4 DEF Release, Begin, EntrySound, Attended
  <2> QED
    BY <2>1, <2>3, <2>4 DEF EntrySound, Attended
<1>2. ASSUME NEW u \in Threads PROVE NamesKept(u)'
  <2>1. CASE u = t
    <3>1. fd[t]' = d /\ op'[t] = "release" /\ pc'[t] \in {"remove", "close"}
      BY DEF SafeInv, TypeOK, Release, Begin
    <3>2. pc'[t] = "close" => ~named[fds[d]]
      BY DEF Release, Begin
    <3>3. pc'[t] = "close" => d \notin DOMAIN open_files'
      BY <3>2, HandleEntry DEF Release
    <3> QED
      BY <2>1, <3>1, <3>3 DEF NamesKept, Transferring
  <2>2. CASE u # t
    BY <2>2 DEF SafeInv, NamedInv, Release, Begin, Busy, disk, Without,
      NamesKept, Knows, Transferring
  <2> QED
    BY <2>1, <2>2
<1>3. MergedHandles'
  BY DEF NamedInv, Release, disk, Without, MergedHandles
<1>4. AnswerDue'
  BY HandleEntry DEF NamedInv, Release, Begin, AnswerDue, ReadDue,
    NoAnswer
<1>5. CreatedHandles'
  BY DEF SafeInv, TypeOK, NamedInv, Release, Begin, disk, Without,
    CreatedHandles, OwnDescriptor, Knows, NamesKept, Releasing
<1>6. ASSUME NEW e \in DOMAIN fds' PROVE Tended(e)'
  BY DEF SafeInv, TypeOK, NamedInv, Release, Begin, disk, Without, Tended,
    OwnDescriptor, Knows, Parsing, Transferring, Releasing
<1> QED
  BY <1>1, <1>2, <1>3, <1>4, <1>5, <1>6 DEF NamedInv

(* Taking the lock leaves the table as it is. *)
LEMMA ParseBeginNamed ==
    ASSUME SafeInv, NamedInv, NEW t \in Threads, ParseBegin(t)
    PROVE  NamedInv'
<1>1. ASSUME NEW e \in DOMAIN open_files' PROVE EntrySound(e)'
  <2>1. e \in DOMAIN open_files /\ EntrySound(e)
    BY DEF NamedInv, ParseBegin, tables
  <2>2. /\ e \in DOMAIN fds'
        /\ heap'[open_files'[e]] = [file |-> fds'[e], valid |-> TRUE]
    BY <2>1 DEF ParseBegin, tables, EntrySound
  <2>3. CASE e \in DOMAIN handles /\ handles[e] = "merged"
    BY <2>1, <2>2, <2>3 DEF ParseBegin, tables, EntrySound, Attended
  <2>4. ASSUME NEW u \in Threads, pc[u] = "remove", fd[u] = e
        PROVE  EntrySound(e)'
    BY <2>1, <2>2, <2>4 DEF ParseBegin, Goto, EntrySound, Attended
  <2> QED
    BY <2>1, <2>3, <2>4 DEF EntrySound, Attended
<1>2. ASSUME NEW u \in Threads PROVE NamesKept(u)'
  BY DEF NamedInv, ParseBegin, Goto, disk, tables, NamesKept, Transferring
<1>3. MergedHandles'
  BY DEF NamedInv, ParseBegin, disk, tables, MergedHandles
<1>4. AnswerDue'
  BY DEF NamedInv, ParseBegin, AnswerDue, ReadDue
<1>5. CreatedHandles'
  BY DEF SafeInv, TypeOK, NamedInv, ParseBegin, Goto, tables, disk,
    CreatedHandles, OwnDescriptor, Knows, NamesKept, Releasing
<1>6. ASSUME NEW e \in DOMAIN fds' PROVE Tended(e)'
  BY DEF SafeInv, TypeOK, NamedInv, ParseBegin, Goto, tables, disk, Tended,
    OwnDescriptor, Knows, Parsing, Transferring, Releasing
<1> QED
  BY <1>1, <1>2, <1>3, <1>4, <1>5, <1>6 DEF NamedInv

(* A new object is in no entry. *)
LEMMA ParsedNamed ==
    ASSUME SafeInv, NamedInv, NEW t \in Threads, pc[t] \in {"parse", "blocked"},
           NEW valid \in BOOLEAN, Parsed(t, valid)
    PROVE  NamedInv'
<1>1. ASSUME NEW e \in DOMAIN open_files' PROVE EntrySound(e)'
  <2>1. e \in DOMAIN open_files /\ EntrySound(e)
    BY DEF NamedInv, Parsed
  <2>2. /\ e \in DOMAIN fds'
        /\ heap'[open_files'[e]] = [file |-> fds'[e], valid |-> TRUE]
    BY NewObjectFresh, <2>1 DEF SafeInv, TypeOK, Parsed, With, EntrySound
  <2>3. CASE e \in DOMAIN handles /\ handles[e] = "merged"
    BY <2>1, <2>2, <2>3 DEF Parsed, EntrySound, Attended
  <2>4. ASSUME NEW u \in Threads, pc[u] = "remove", fd[u] = e
        PROVE  EntrySound(e)'
    BY <2>1, <2>2, <2>4 DEF Parsed, Goto, EntrySound, Attended
  <2> QED
    BY <2>1, <2>3, <2>4 DEF EntrySound, Attended
<1>2. ASSUME NEW u \in Threads PROVE NamesKept(u)'
  BY DEF NamedInv, Parsed, Goto, disk, NamesKept, Transferring
<1>3. MergedHandles'
  BY DEF NamedInv, Parsed, disk, MergedHandles
<1>4. AnswerDue'
  BY DEF NamedInv, Parsed, AnswerDue, ReadDue
<1>5. CreatedHandles'
  BY DEF SafeInv, TypeOK, NamedInv, Parsed, CreatedHandles, OwnDescriptor,
    Knows, NamesKept, Releasing
<1>6. ASSUME NEW e \in DOMAIN fds' PROVE Tended(e)'
  BY DEF SafeInv, TypeOK, NamedInv, Parsed, Goto, Tended, OwnDescriptor, Knows,
    Parsing, Transferring, Releasing
<1> QED
  BY <1>1, <1>2, <1>3, <1>4, <1>5, <1>6 DEF NamedInv

LEMMA ParseEndNamed ==
    ASSUME SafeInv, NamedInv, NEW t \in Threads, ParseEnd(t)
    PROVE  NamedInv'
<1>1. Parses(kind[path[t]], op[t] = "open") \in BOOLEAN
  BY DEF Parses
<1> QED
  BY <1>1, ParsedNamed DEF ParseEnd

LEMMA ParseResumesNamed ==
    ASSUME SafeInv, NamedInv, NEW t \in Threads, ParseResumes(t)
    PROVE  NamedInv'
BY ParsedNamed DEF ParseResumes

(* Waiting in open(2) leaves the table as it is. *)
LEMMA ParseBlocksNamed ==
    ASSUME SafeInv, NamedInv, NEW t \in Threads, ParseBlocks(t)
    PROVE  NamedInv'
<1>1. ASSUME NEW e \in DOMAIN open_files' PROVE EntrySound(e)'
  <2>1. e \in DOMAIN open_files /\ EntrySound(e)
    BY DEF NamedInv, ParseBlocks, tables
  <2>2. /\ e \in DOMAIN fds'
        /\ heap'[open_files'[e]] = [file |-> fds'[e], valid |-> TRUE]
    BY <2>1 DEF ParseBlocks, tables, EntrySound
  <2>3. CASE e \in DOMAIN handles /\ handles[e] = "merged"
    BY <2>1, <2>2, <2>3 DEF ParseBlocks, tables, EntrySound, Attended
  <2>4. ASSUME NEW u \in Threads, pc[u] = "remove", fd[u] = e
        PROVE  EntrySound(e)'
    BY <2>1, <2>2, <2>4 DEF ParseBlocks, Goto, EntrySound, Attended
  <2> QED
    BY <2>1, <2>3, <2>4 DEF EntrySound, Attended
<1>2. ASSUME NEW u \in Threads PROVE NamesKept(u)'
  BY DEF NamedInv, ParseBlocks, Goto, disk, tables, NamesKept, Transferring
<1>3. MergedHandles'
  BY DEF NamedInv, ParseBlocks, disk, tables, MergedHandles
<1>4. AnswerDue'
  BY DEF NamedInv, ParseBlocks, AnswerDue, ReadDue
<1>5. CreatedHandles'
  BY DEF SafeInv, TypeOK, NamedInv, ParseBlocks, Goto, tables, disk,
    CreatedHandles, OwnDescriptor, Knows, NamesKept, Releasing
<1>6. ASSUME NEW e \in DOMAIN fds' PROVE Tended(e)'
  BY DEF SafeInv, TypeOK, NamedInv, ParseBlocks, Goto, tables, disk, Tended,
    OwnDescriptor, Knows, Parsing, Transferring, Releasing
<1> QED
  BY <1>1, <1>2, <1>3, <1>4, <1>5, <1>6 DEF NamedInv

(* A description opened as it is is a plain handle. *)
LEMMA OpenNormalNamed ==
    ASSUME SafeInv, NamedInv, NEW t \in Threads, OpenNormal(t)
    PROVE  NamedInv'
<1>1. ASSUME NEW e \in DOMAIN open_files' PROVE EntrySound(e)'
  <2>1. e \in DOMAIN open_files /\ EntrySound(e)
    BY DEF NamedInv, OpenNormal
  <2>2. /\ e \in DOMAIN fds'
        /\ heap'[open_files'[e]] = [file |-> fds'[e], valid |-> TRUE]
    BY <2>1 DEF SafeInv, TypeOK, OpenNormal, EntrySound, HeapAccounted, InTable,
      OwnObject
  <2>3. CASE e \in DOMAIN handles /\ handles[e] = "merged"
    BY <2>1, <2>2, <2>3 DEF SafeInv, OpenNormal, With, EntrySound, Attended,
      OwnDescriptor
  <2>4. ASSUME NEW u \in Threads, pc[u] = "remove", fd[u] = e
        PROVE  EntrySound(e)'
    BY <2>1, <2>2, <2>4 DEF OpenNormal, Return, EntrySound, Attended
  <2> QED
    BY <2>1, <2>3, <2>4 DEF EntrySound, Attended
<1>2. ASSUME NEW u \in Threads PROVE NamesKept(u)'
  BY DEF SafeInv, NamedInv, TypeOK, OpenNormal, Return, disk, With, NamesKept,
    Knows, OwnDescriptor, Transferring
<1>3. MergedHandles'
  BY DEF NamedInv, OpenNormal, disk, With, MergedHandles
<1>4. AnswerDue'
  BY DEF NamedInv, OpenNormal, Return, AnswerDue, ReadDue
<1>5. CreatedHandles'
  BY DEF SafeInv, TypeOK, NamedInv, OpenNormal, Return, disk, With,
    CreatedHandles, OwnDescriptor, Knows, NamesKept, Releasing
<1>6. ASSUME NEW e \in DOMAIN fds' PROVE Tended(e)'
  BY DEF SafeInv, TypeOK, NamedInv, OpenNormal, Return, disk, With, Tended,
    OwnDescriptor, Knows, Parsing, Transferring, Releasing
<1> QED
  BY <1>1, <1>2, <1>3, <1>4, <1>5, <1>6 DEF NamedInv

(* The entry inserted is of the description the descriptor is open on. *)
LEMMA OpenInsertNamed ==
    ASSUME SafeInv, NamedInv, NEW t \in Threads, OpenInsert(t)
    PROVE  NamedInv'
<1>1. ASSUME NEW e \in DOMAIN open_files' PROVE EntrySound(e)'
  <2>1. CASE e = fd[t]
    <3>1. open_files'[e] = obj[t] /\ heap' = heap /\ fds' = fds
      BY <2>1 DEF OpenInsert, With
    <3>2. heap[obj[t]] = [file |-> fds[e], valid |-> TRUE]
      BY <2>1 DEF SafeInv, TypeOK, OpenInsert, Knows, OwnDescriptor, Parsing
    <3>3. e \in DOMAIN fds /\ e \in DOMAIN handles' /\ handles'[e] = "merged"
      BY <2>1 DEF SafeInv, OpenInsert, With, OwnDescriptor
    <3> QED
      BY <3>1, <3>2, <3>3 DEF EntrySound, Attended
  <2>2. CASE e # fd[t]
    <3>1. e \in DOMAIN open_files /\ EntrySound(e)
      BY <2>2 DEF NamedInv, OpenInsert, With
    <3>2. /\ e \in DOMAIN fds'
          /\ heap'[open_files'[e]] = [file |-> fds'[e], valid |-> TRUE]
      BY <2>2, <3>1 DEF OpenInsert, With, EntrySound
    <3>3. CASE e \in DOMAIN handles /\ handles[e] = "merged"
      BY <3>1, <3>2, <3>3 DEF OpenInsert, With, EntrySound, Attended
    <3>4. ASSUME NEW u \in Threads, pc[u] = "remove", fd[u] = e
          PROVE  EntrySound(e)'
      BY <3>1, <3>2, <3>4 DEF OpenInsert, Return, EntrySound, Attended
    <3> QED
      BY <3>1, <3>3, <3>4 DEF EntrySound, Attended
  <2> QED
    BY <2>1, <2>2
<1>2. ASSUME NEW u \in Threads PROVE NamesKept(u)'
  BY DEF SafeInv, NamedInv, TypeOK, OpenInsert, Return, disk, With, NamesKept,
    Knows, OwnDescriptor, Transferring, Releasing
<1>3. MergedHandles'
  BY DEF SafeInv, NamedInv, OpenInsert, disk, With, MergedHandles,
    OwnDescriptor, NamesKept
<1>4. AnswerDue'
  BY DEF NamedInv, OpenInsert, Return, AnswerDue, ReadDue
<1>5. CreatedHandles'
  BY DEF SafeInv, TypeOK, NamedInv, OpenInsert, Return, disk, With,
    CreatedHandles, OwnDescriptor, Knows, NamesKept, Releasing
<1>6. ASSUME NEW e \in DOMAIN fds' PROVE Tended(e)'
  BY DEF SafeInv, TypeOK, NamedInv, OpenInsert, Return, disk, With, Tended,
    OwnDescriptor, Knows, Parsing, Transferring, Releasing
<1> QED
  BY <1>1, <1>2, <1>3, <1>4, <1>5, <1>6 DEF NamedInv

(* An open is refused only when an entry is left, which is never. *)
LEMMA OpenRefusedNamed ==
    ASSUME SafeInv, NamedInv, NEW t \in Threads, OpenRefused(t)
    PROVE  NamedInv'
BY OpeningHasNoEntry DEF OpenRefused

(* The object getattr deletes is in no entry. *)
LEMMA GetattrEndNamed ==
    ASSUME SafeInv, NamedInv, NEW t \in Threads, GetattrEnd(t)
    PROVE  NamedInv'
<1>1. ASSUME NEW e \in DOMAIN open_files' PROVE EntrySound(e)'
  <2>1. e \in DOMAIN open_files /\ EntrySound(e)
    BY DEF NamedInv, GetattrEnd
  <2>2. /\ e \in DOMAIN fds'
        /\ heap'[open_files'[e]] = [file |-> fds'[e], valid |-> TRUE]
    BY <2>1 DEF SafeInv, TypeOK, GetattrEnd, Without, EntrySound, OwnObject
  <2>3. CASE e \in DOMAIN handles /\ handles[e] = "merged"
    BY <2>1, <2>2, <2>3 DEF GetattrEnd, EntrySound, Attended
  <2>4. ASSUME NEW u \in Threads, pc[u] = "remove", fd[u] = e
        PROVE  EntrySound(e)'
    BY <2>1, <2>2, <2>4 DEF GetattrEnd, Return, EntrySound, Attended
  <2> QED
    BY <2>1, <2>3, <2>4 DEF EntrySound, Attended
<1>2. ASSUME NEW u \in Threads PROVE NamesKept(u)'
  BY DEF SafeInv, NamedInv, TypeOK, GetattrEnd, Return, disk, NamesKept,
    Transferring
<1>3. MergedHandles'
  BY DEF NamedInv, GetattrEnd, disk, MergedHandles
<1>4. AnswerDue'
  BY DEF NamedInv, GetattrEnd, Return, AnswerDue, ReadDue
<1>5. CreatedHandles'
  BY DEF SafeInv, TypeOK, NamedInv, GetattrEnd, Return, disk, Without,
    CreatedHandles, OwnDescriptor, Knows, NamesKept, Releasing
<1>6. ASSUME NEW e \in DOMAIN fds' PROVE Tended(e)'
  BY DEF SafeInv, TypeOK, NamedInv, GetattrEnd, Return, disk, Without,
    Tended, OwnDescriptor, Knows, Parsing, Transferring, Releasing
<1> QED
  BY <1>1, <1>2, <1>3, <1>4, <1>5, <1>6 DEF NamedInv

(* A merged handle is found in the table. *)
LEMMA FindNamed ==
    ASSUME SafeInv, NamedInv, NEW t \in Threads, Find(t)
    PROVE  NamedInv'
<1>1. ASSUME NEW e \in DOMAIN open_files' PROVE EntrySound(e)'
  <2>1. e \in DOMAIN open_files /\ EntrySound(e)
    BY DEF NamedInv, Find, tables
  <2>2. /\ e \in DOMAIN fds'
        /\ heap'[open_files'[e]] = [file |-> fds'[e], valid |-> TRUE]
    BY <2>1 DEF Find, tables, EntrySound
  <2>3. CASE e \in DOMAIN handles /\ handles[e] = "merged"
    BY <2>1, <2>2, <2>3 DEF Find, tables, EntrySound, Attended
  <2>4. ASSUME NEW u \in Threads, pc[u] = "remove", fd[u] = e
        PROVE  EntrySound(e)'
    BY <2>1, <2>2, <2>4 DEF SafeInv, TypeOK, Find, Goto, EntrySound, Attended
  <2> QED
    BY <2>1, <2>3, <2>4 DEF EntrySound, Attended
<1>2. ASSUME NEW u \in Threads PROVE NamesKept(u)'
  <2>1. fd[t] \in DOMAIN handles /\ handles[fd[t]] \in {"raw", "merged", "created"}
    BY DEF SafeInv, TypeOK, Knows, Find, Transferring
  <2>2. CASE u = t
    <3>1. fd[t] \in DOMAIN open_files <=> handles[fd[t]] = "merged"
      BY <2>1, HandleEntry
    <3>2. op'[t] = op[t] /\ op[t] \notin {"open", "getattr"}
      BY DEF SafeInv, Knows, Find, Goto, Transferring
    <3>3. fd' = fd /\ handles' = handles
      BY DEF Find, Goto, tables
    <3>4. pc'[t] = IF fd[t] \in DOMAIN open_files THEN "found" ELSE "transfer"
      BY DEF SafeInv, TypeOK, Find, Goto
    <3> QED
      BY <2>1, <2>2, <3>1, <3>2, <3>3, <3>4 DEF NamesKept, Transferring
  <2>3. CASE u # t
    BY <2>3 DEF SafeInv, NamedInv, TypeOK, Find, Goto, disk, tables, NamesKept
  <2> QED
    BY <2>2, <2>3
<1>3. MergedHandles'
  BY DEF NamedInv, Find, disk, tables, MergedHandles
<1>4. AnswerDue'
  BY HandleEntry DEF NamedInv, Find, AnswerDue, ReadDue
<1>5. CreatedHandles'
  BY DEF SafeInv, TypeOK, NamedInv, Find, Goto, tables, disk,
    CreatedHandles, OwnDescriptor, Knows, NamesKept, Releasing
<1>6. ASSUME NEW e \in DOMAIN fds' PROVE Tended(e)'
  BY DEF SafeInv, TypeOK, NamedInv, Find, Goto, tables, disk, Tended,
    OwnDescriptor, Knows, Parsing, Transferring, Releasing
<1> QED
  BY <1>1, <1>2, <1>3, <1>4, <1>5, <1>6 DEF NamedInv

(* A read that found its entry goes on with it, a write is refused. *)
LEMMA FoundNamed ==
    ASSUME SafeInv, NamedInv, NEW t \in Threads, Found(t)
    PROVE  NamedInv'
<1>1. ASSUME NEW e \in DOMAIN open_files' PROVE EntrySound(e)'
  <2>1. e \in DOMAIN open_files /\ EntrySound(e)
    BY DEF NamedInv, Found, tables
  <2>2. /\ e \in DOMAIN fds'
        /\ heap'[open_files'[e]] = [file |-> fds'[e], valid |-> TRUE]
    BY <2>1 DEF Found, tables, EntrySound
  <2>3. CASE e \in DOMAIN handles /\ handles[e] = "merged"
    BY <2>1, <2>2, <2>3 DEF Found, tables, EntrySound, Attended
  <2>4. ASSUME NEW u \in Threads, pc[u] = "remove", fd[u] = e
        PROVE  EntrySound(e)'
    BY <2>1, <2>2, <2>4 DEF Found, Goto, EntrySound, Attended
  <2> QED
    BY <2>1, <2>3, <2>4 DEF EntrySound, Attended
<1>2. ASSUME NEW u \in Threads PROVE NamesKept(u)'
  <2>1. handles[fd[t]] = "merged" /\ heap[obj[t]].valid
    <3>1. /\ fd[t] \in DOMAIN handles /\ fd[t] \in DOMAIN open_files
          /\ open_files[fd[t]] = obj[t]
      BY DEF SafeInv, Knows, Found, Transferring
    <3>2. handles[fd[t]] = "merged"
      BY <3>1, HandleEntry
    <3>3. heap[obj[t]] = [file |-> fds[fd[t]], valid |-> TRUE]
      BY <3>1, HandleEntry
    <3> QED
      BY <3>1, <3>2, <3>3
  <2>2. CASE u = t
    BY <2>1, <2>2 DEF Found, Goto, tables, NamesKept
  <2>3. CASE u # t
    BY <2>3 DEF NamedInv, Found, Goto, disk, tables, NamesKept
  <2> QED
    BY <2>2, <2>3
<1>3. MergedHandles'
  BY DEF NamedInv, Found, disk, tables, MergedHandles
<1>4. AnswerDue'
  BY HandleEntry DEF NamedInv, Found, AnswerDue, ReadDue
<1>5. CreatedHandles'
  BY DEF SafeInv, TypeOK, NamedInv, Found, Goto, tables, disk,
    CreatedHandles, OwnDescriptor, Knows, NamesKept, Releasing
<1>6. ASSUME NEW e \in DOMAIN fds' PROVE Tended(e)'
  BY DEF SafeInv, TypeOK, NamedInv, Found, Goto, tables, disk, Tended,
    OwnDescriptor, Knows, Parsing, Transferring, Releasing
<1> QED
  BY <1>1, <1>2, <1>3, <1>4, <1>5, <1>6 DEF NamedInv

(* The refused write was one on a merged handle. *)
LEMMA WriteRefusedNamed ==
    ASSUME SafeInv, NamedInv, NEW t \in Threads, WriteRefused(t)
    PROVE  NamedInv'
<1>1. ASSUME NEW e \in DOMAIN open_files' PROVE EntrySound(e)'
  <2>1. e \in DOMAIN open_files /\ EntrySound(e)
    BY DEF NamedInv, WriteRefused, tables
  <2>2. /\ e \in DOMAIN fds'
        /\ heap'[open_files'[e]] = [file |-> fds'[e], valid |-> TRUE]
    BY <2>1 DEF WriteRefused, tables, EntrySound
  <2>3. CASE e \in DOMAIN handles /\ handles[e] = "merged"
    BY <2>1, <2>2, <2>3 DEF WriteRefused, tables, EntrySound, Attended
  <2>4. ASSUME NEW u \in Threads, pc[u] = "remove", fd[u] = e
        PROVE  EntrySound(e)'
    BY <2>1, <2>2, <2>4 DEF WriteRefused, Return, EntrySound, Attended
  <2> QED
    BY <2>1, <2>3, <2>4 DEF EntrySound, Attended
<1>2. ASSUME NEW u \in Threads PROVE NamesKept(u)'
  BY DEF SafeInv, NamedInv, TypeOK, WriteRefused, Return, disk, tables,
    NamesKept, Transferring
<1>3. MergedHandles'
  BY DEF NamedInv, WriteRefused, disk, tables, MergedHandles
<1>4. AnswerDue'
  BY DEF NamedInv, WriteRefused, Return, AnswerDue, ReadDue
<1>5. CreatedHandles'
  BY DEF SafeInv, TypeOK, NamedInv, WriteRefused, Return, tables, disk,
    CreatedHandles, OwnDescriptor, Knows, NamesKept, Releasing
<1>6. ASSUME NEW e \in DOMAIN fds' PROVE Tended(e)'
  BY DEF SafeInv, TypeOK, NamedInv, WriteRefused, Return, tables, disk,
    Tended, OwnDescriptor, Knows, Parsing, Transferring, Releasing
<1> QED
  BY <1>1, <1>2, <1>3, <1>4, <1>5, <1>6 DEF NamedInv

(* The second lookup finds the entry too. *)
LEMMA FindAgainNamed ==
    ASSUME SafeInv, NamedInv, NEW t \in Threads, FindAgain(t)
    PROVE  NamedInv'
<1>1. ASSUME NEW e \in DOMAIN open_files' PROVE EntrySound(e)'
  <2>1. e \in DOMAIN open_files /\ EntrySound(e)
    BY DEF NamedInv, FindAgain, tables
  <2>2. /\ e \in DOMAIN fds'
        /\ heap'[open_files'[e]] = [file |-> fds'[e], valid |-> TRUE]
    BY <2>1 DEF FindAgain, tables, EntrySound
  <2>3. CASE e \in DOMAIN handles /\ handles[e] = "merged"
    BY <2>1, <2>2, <2>3 DEF FindAgain, tables, EntrySound, Attended
  <2>4. ASSUME NEW u \in Threads, pc[u] = "remove", fd[u] = e
        PROVE  EntrySound(e)'
    BY <2>1, <2>2, <2>4 DEF SafeInv, TypeOK, FindAgain, Goto, Return,
      EntrySound, Attended
  <2> QED
    BY <2>1, <2>3, <2>4 DEF EntrySound, Attended
<1>2. ASSUME NEW u \in Threads PROVE NamesKept(u)'
  BY DEF SafeInv, NamedInv, TypeOK, FindAgain, Goto, Return, disk, tables,
    NamesKept, Transferring
<1>3. MergedHandles'
  BY DEF NamedInv, FindAgain, disk, tables, MergedHandles
<1>4. AnswerDue'
  BY DEF SafeInv, NamedInv, FindAgain, AnswerDue, ReadDue, Knows,
    NamesKept, MergedHandles, Transferring
<1>5. CreatedHandles'
  BY DEF SafeInv, TypeOK, NamedInv, FindAgain, Goto, Return, tables, disk,
    CreatedHandles, OwnDescriptor, Knows, NamesKept, Releasing
<1>6. ASSUME NEW e \in DOMAIN fds' PROVE Tended(e)'
  BY DEF SafeInv, TypeOK, NamedInv, FindAgain, Goto, Return, tables, disk,
    Tended, OwnDescriptor, Knows, Parsing, Transferring, Releasing
<1> QED
  BY <1>1, <1>2, <1>3, <1>4, <1>5, <1>6 DEF NamedInv

(* The content returned is of the description opened. *)
LEMMA ReadMergedNamed ==
    ASSUME SafeInv, NamedInv, NEW t \in Threads, ReadMerged(t)
    PROVE  NamedInv'
<1>1. ASSUME NEW e \in DOMAIN open_files' PROVE EntrySound(e)'
  <2>1. e \in DOMAIN open_files /\ EntrySound(e)
    BY DEF NamedInv, ReadMerged, tables
  <2>2. /\ e \in DOMAIN fds'
        /\ heap'[open_files'[e]] = [file |-> fds'[e], valid |-> TRUE]
    BY <2>1 DEF ReadMerged, tables, EntrySound
  <2>3. CASE e \in DOMAIN handles /\ handles[e] = "merged"
    BY <2>1, <2>2, <2>3 DEF ReadMerged, tables, EntrySound, Attended
  <2>4. ASSUME NEW u \in Threads, pc[u] = "remove", fd[u] = e
        PROVE  EntrySound(e)'
    BY <2>1, <2>2, <2>4 DEF ReadMerged, Return, EntrySound, Attended
  <2> QED
    BY <2>1, <2>3, <2>4 DEF EntrySound, Attended
<1>2. ASSUME NEW u \in Threads PROVE NamesKept(u)'
  BY HandleEntry DEF SafeInv, NamedInv, TypeOK, ReadMerged, Return, disk,
    tables, NamesKept, Transferring
<1>3. MergedHandles'
  BY DEF NamedInv, ReadMerged, disk, tables, MergedHandles
<1>4. AnswerDue'
  <2>1. /\ handles[fd[t]] = "merged"
        /\ heap[obj[t]].valid /\ heap[obj[t]].file = path[t]
    <3>1. /\ fd[t] \in DOMAIN handles /\ fd[t] \in DOMAIN open_files
          /\ open_files[fd[t]] = obj[t] /\ path[t] = fds[fd[t]]
      BY DEF SafeInv, Knows, ReadMerged, Transferring
    <3>2. handles[fd[t]] = "merged"
      BY <3>1, HandleEntry
    <3>3. heap[obj[t]] = [file |-> fds[fd[t]], valid |-> TRUE]
      BY <3>1, HandleEntry
    <3> QED
      BY <3>1, <3>2, <3>3
  <2>2. Return(t, "merged", "merged")
    BY <2>1 DEF ReadMerged
  <2> QED
    BY <2>2 DEF NamedInv, Return, AnswerDue, ReadDue
<1>5. CreatedHandles'
  BY DEF SafeInv, TypeOK, NamedInv, ReadMerged, Return, tables, disk,
    CreatedHandles, OwnDescriptor, Knows, NamesKept, Releasing
<1>6. ASSUME NEW e \in DOMAIN fds' PROVE Tended(e)'
  BY DEF SafeInv, TypeOK, NamedInv, ReadMerged, Return, tables, disk,
    Tended, OwnDescriptor, Knows, Parsing, Transferring, Releasing
<1> QED
  BY <1>1, <1>2, <1>3, <1>4, <1>5, <1>6 DEF NamedInv

(* A plain read returns the file itself. *)
LEMMA PreadNamed ==
    ASSUME SafeInv, NamedInv, NEW t \in Threads, Pread(t)
    PROVE  NamedInv'
<1>1. ASSUME NEW e \in DOMAIN open_files' PROVE EntrySound(e)'
  <2>1. e \in DOMAIN open_files /\ EntrySound(e)
    BY DEF NamedInv, Pread, tables
  <2>2. /\ e \in DOMAIN fds'
        /\ heap'[open_files'[e]] = [file |-> fds'[e], valid |-> TRUE]
    BY <2>1 DEF Pread, tables, EntrySound
  <2>3. CASE e \in DOMAIN handles /\ handles[e] = "merged"
    BY <2>1, <2>2, <2>3 DEF Pread, tables, EntrySound, Attended
  <2>4. ASSUME NEW u \in Threads, pc[u] = "remove", fd[u] = e
        PROVE  EntrySound(e)'
    BY <2>1, <2>2, <2>4 DEF Pread, Return, EntrySound, Attended
  <2> QED
    BY <2>1, <2>3, <2>4 DEF EntrySound, Attended
<1>2. ASSUME NEW u \in Threads PROVE NamesKept(u)'
  BY DEF SafeInv, NamedInv, TypeOK, Pread, Return, disk, tables, NamesKept,
    Transferring
<1>3. MergedHandles'
  BY DEF NamedInv, Pread, disk, tables, MergedHandles
<1>4. AnswerDue'
  <2>1. fd[t] \in DOMAIN handles /\ handles[fd[t]] \in {"raw", "created"}
    BY DEF SafeInv, NamedInv, TypeOK, Pread, Knows, NamesKept, Transferring
  <2>2. handles[fd[t]] = "created" <=> fd[t] \in writeonly
    BY <2>1 DEF NamedInv, CreatedHandles
  <2>3. \E got : got = ReadDue(handles[fd[t]]) /\ Return(t, got, handles[fd[t]])
    BY <2>1, <2>2 DEF Pread, ReadDue
  <2> QED
    BY <2>3 DEF Pread, Return, AnswerDue
<1>5. CreatedHandles'
  BY DEF SafeInv, TypeOK, NamedInv, Pread, Return, tables, disk,
    CreatedHandles, OwnDescriptor, Knows, NamesKept, Releasing
<1>6. ASSUME NEW e \in DOMAIN fds' PROVE Tended(e)'
  BY DEF SafeInv, TypeOK, NamedInv, Pread, Return, tables, disk, Tended,
    OwnDescriptor, Knows, Parsing, Transferring, Releasing
<1> QED
  BY <1>1, <1>2, <1>3, <1>4, <1>5, <1>6 DEF NamedInv

(* A plain write goes to a plain handle. *)
LEMMA PwriteNamed ==
    ASSUME SafeInv, NamedInv, NEW t \in Threads, Pwrite(t)
    PROVE  NamedInv'
<1>1. ASSUME NEW e \in DOMAIN open_files' PROVE EntrySound(e)'
  <2>1. e \in DOMAIN open_files /\ EntrySound(e)
    BY DEF NamedInv, Pwrite, tables
  <2>2. /\ e \in DOMAIN fds'
        /\ heap'[open_files'[e]] = [file |-> fds'[e], valid |-> TRUE]
    BY <2>1 DEF Pwrite, tables, EntrySound
  <2>3. CASE e \in DOMAIN handles /\ handles[e] = "merged"
    BY <2>1, <2>2, <2>3 DEF Pwrite, tables, EntrySound, Attended
  <2>4. ASSUME NEW u \in Threads, pc[u] = "remove", fd[u] = e
        PROVE  EntrySound(e)'
    BY <2>1, <2>2, <2>4 DEF Pwrite, Return, EntrySound, Attended
  <2> QED
    BY <2>1, <2>3, <2>4 DEF EntrySound, Attended
<1>2. ASSUME NEW u \in Threads PROVE NamesKept(u)'
  BY DEF SafeInv, NamedInv, TypeOK, Pwrite, Return, tables, NamesKept,
    Transferring
<1>3. MergedHandles'
  BY DEF NamedInv, Pwrite, tables, MergedHandles
<1>4. AnswerDue'
  BY DEF NamedInv, Pwrite, Return, AnswerDue, ReadDue
<1>5. CreatedHandles'
  BY DEF SafeInv, TypeOK, NamedInv, Pwrite, Return, tables, CreatedHandles,
    OwnDescriptor, Knows, NamesKept, Releasing
<1>6. ASSUME NEW e \in DOMAIN fds' PROVE Tended(e)'
  BY DEF SafeInv, TypeOK, NamedInv, Pwrite, Return, tables, Tended,
    OwnDescriptor, Knows, Parsing, Transferring, Releasing
<1> QED
  BY <1>1, <1>2, <1>3, <1>4, <1>5, <1>6 DEF NamedInv

(* The entry removed is the one its release attended to. *)
LEMMA RemoveNamed ==
    ASSUME SafeInv, NamedInv, NEW t \in Threads, Remove(t)
    PROVE  NamedInv'
<1>1. ASSUME NEW e \in DOMAIN open_files' PROVE EntrySound(e)'
  <2>1. e \in DOMAIN open_files /\ EntrySound(e)
    BY DEF NamedInv, Remove, Without
  <2>2. /\ e \in DOMAIN fds'
        /\ heap'[open_files'[e]] = [file |-> fds'[e], valid |-> TRUE]
    BY <2>1 DEF SafeInv, TypeOK, Remove, Without, EntrySound, DeletedOnce
  <2>3. CASE e \in DOMAIN handles /\ handles[e] = "merged"
    BY <2>1, <2>2, <2>3 DEF Remove, EntrySound, Attended
  <2>4. ASSUME NEW u \in Threads, pc[u] = "remove", fd[u] = e
        PROVE  EntrySound(e)'
    BY <2>1, <2>2, <2>4 DEF Remove, Goto, Without, EntrySound, Attended
  <2> QED
    BY <2>1, <2>3, <2>4 DEF EntrySound, Attended
<1>2. ASSUME NEW u \in Threads PROVE NamesKept(u)'
  BY DEF NamedInv, Remove, Goto, disk, Without, NamesKept, Transferring
<1>3. MergedHandles'
  BY DEF SafeInv, NamedInv, Remove, disk, Without, MergedHandles,
    OwnDescriptor, Knows, Releasing
<1>4. AnswerDue'
  BY DEF NamedInv, Remove, AnswerDue, ReadDue
<1>5. CreatedHandles'
  BY DEF SafeInv, TypeOK, NamedInv, Remove, Goto, disk, Without,
    CreatedHandles, OwnDescriptor, Knows, NamesKept, Releasing
<1>6. ASSUME NEW e \in DOMAIN fds' PROVE Tended(e)'
  BY DEF SafeInv, TypeOK, NamedInv, Remove, Goto, disk, Without, Tended,
    OwnDescriptor, Knows, Parsing, Transferring, Releasing
<1> QED
  BY <1>1, <1>2, <1>3, <1>4, <1>5, <1>6 DEF NamedInv

(* The descriptor that is closed has no entry any more. *)
LEMMA CloseNamed ==
    ASSUME SafeInv, NamedInv, NEW t \in Threads, Close(t)
    PROVE  NamedInv'
<1>1. ASSUME NEW e \in DOMAIN open_files' PROVE EntrySound(e)'
  <2>0. e # fd[t]
    BY DEF NamedInv, Close, NamesKept
  <2>1. e \in DOMAIN open_files /\ EntrySound(e)
    BY DEF NamedInv, Close
  <2>2. /\ e \in DOMAIN fds'
        /\ heap'[open_files'[e]] = [file |-> fds'[e], valid |-> TRUE]
    BY <2>0, <2>1 DEF Close, Without, EntrySound
  <2>3. CASE e \in DOMAIN handles /\ handles[e] = "merged"
    BY <2>1, <2>2, <2>3 DEF Close, EntrySound, Attended
  <2>4. ASSUME NEW u \in Threads, pc[u] = "remove", fd[u] = e
        PROVE  EntrySound(e)'
    BY <2>1, <2>2, <2>4 DEF Close, Return, EntrySound, Attended
  <2> QED
    BY <2>1, <2>3, <2>4 DEF EntrySound, Attended
<1>2. ASSUME NEW u \in Threads PROVE NamesKept(u)'
  BY DEF SafeInv, NamedInv, TypeOK, Close, Return, disk, Without, NamesKept,
    Knows, OwnDescriptor, Transferring, Releasing
<1>3. MergedHandles'
  BY DEF SafeInv, NamedInv, TypeOK, Close, disk, Without, MergedHandles,
    NamesKept
<1>4. AnswerDue'
  BY DEF NamedInv, Close, Return, AnswerDue, ReadDue
<1>5. CreatedHandles'
  BY DEF SafeInv, TypeOK, NamedInv, Close, Return, disk, Without,
    CreatedHandles, OwnDescriptor, Knows, NamesKept, Releasing
<1>6. ASSUME NEW e \in DOMAIN fds' PROVE Tended(e)'
  BY DEF SafeInv, TypeOK, NamedInv, Close, Return, disk, Without, Tended,
    OwnDescriptor, Knows, Parsing, Transferring, Releasing
<1> QED
  BY <1>1, <1>2, <1>3, <1>4, <1>5, <1>6 DEF NamedInv

(* The table does not depend on what is in the files. *)
LEMMA EditNamed ==
    ASSUME SafeInv, NamedInv, NEW f \in Files, NEW k \in Kinds, Edit(f, k)
    PROVE  NamedInv'
<1>1. ASSUME NEW e \in DOMAIN open_files' PROVE EntrySound(e)'
  <2>1. e \in DOMAIN open_files /\ EntrySound(e)
    BY DEF NamedInv, Edit, tables
  <2>2. /\ e \in DOMAIN fds'
        /\ heap'[open_files'[e]] = [file |-> fds'[e], valid |-> TRUE]
    BY <2>1 DEF Edit, tables, EntrySound
  <2>3. CASE e \in DOMAIN handles /\ handles[e] = "merged"
    BY <2>1, <2>2, <2>3 DEF Edit, tables, EntrySound, Attended
  <2>4. ASSUME NEW u \in Threads, pc[u] = "remove", fd[u] = e
        PROVE  EntrySound(e)'
    BY <2>1, <2>2, <2>4 DEF Edit, thread, EntrySound, Attended
  <2> QED
    BY <2>1, <2>3, <2>4 DEF EntrySound, Attended
<1>2. ASSUME NEW u \in Threads PROVE NamesKept(u)'
  BY DEF NamedInv, Edit, thread, tables, NamesKept
<1>3. MergedHandles'
  BY DEF NamedInv, Edit, tables, MergedHandles
<1>4. AnswerDue'
  BY DEF NamedInv, Edit, AnswerDue, ReadDue
<1>5. CreatedHandles'
  BY DEF SafeInv, TypeOK, NamedInv, Edit, thread, tables, CreatedHandles,
    OwnDescriptor, Knows, NamesKept, Releasing
<1>6. ASSUME NEW e \in DOMAIN fds' PROVE Tended(e)'
  BY DEF SafeInv, TypeOK, NamedInv, Edit, thread, tables, Tended,
    OwnDescriptor, Knows, Parsing, Transferring, Releasing
<1> QED
  BY <1>1, <1>2, <1>3, <1>4, <1>5, <1>6 DEF NamedInv
-----------------------------------------------------------------------------
(* At the start there are no entries and no handles. *)
LEMMA NamedInit == Init => NamedInv
<1> SUFFICES ASSUME Init PROVE NamedInv
  OBVIOUS
<1>1. \A t \in Threads :
          pc[t] = "idle" /\ op[t] = "none"
  BY DEF Init
<1>2. DOMAIN open_files = {} /\ DOMAIN handles = {} /\ DOMAIN fds = {}
  BY DEF Init, Empty
<1>3. AnswerDue
  BY DEF Init, NoAnswer, AnswerDue
<1> QED
  BY <1>1, <1>2, <1>3 DEF NamedInv, NamesKept, MergedHandles, CreatedHandles,
    Transferring

(* Every step but a rename keeps NamedInv. *)
LEMMA NamedStep ==
    ASSUME SafeInv, NamedInv, [Next]_vars, NoRename'
    PROVE  NamedInv'
<1>1. CASE UNCHANGED vars
  BY <1>1 DEF vars, NamedInv, EntrySound, Attended, NamesKept, MergedHandles,
    CreatedHandles, Tended, AnswerDue
<1>2. ASSUME NEW t \in Threads, Request(t) PROVE NamedInv'
  <2>1. ASSUME NEW f \in Files,
               \/ OpenPlain(t, f) \/ Open(t, f)
               \/ Create(t, f) \/ Getattr(t, f)
        PROVE  NamedInv'
    BY <2>1, OpenPlainNamed, OpenNamed, CreateNamed, GetattrNamed
  <2>2. ASSUME NEW d \in Descriptors, Read(t, d) \/ Write(t, d)
        PROVE  NamedInv'
    BY <2>2, TransferNamed DEF Read, Write
  <2>3. ASSUME NEW d \in Descriptors, Release(t, d)
        PROVE  NamedInv'
    BY <2>3, ReleaseNamed
  <2> QED
    BY <1>2, <2>1, <2>2, <2>3 DEF Request
<1>3. ASSUME NEW t \in Threads, Step(t) PROVE NamedInv'
  BY <1>3, ParseBeginNamed, ParseEndNamed, ParseBlocksNamed, OpenNormalNamed,
    OpenInsertNamed,
    OpenRefusedNamed, GetattrEndNamed, FindNamed, FoundNamed,
    WriteRefusedNamed, FindAgainNamed, ReadMergedNamed, PreadNamed,
    PwriteNamed, RemoveNamed, CloseNamed DEF Step
<1>4. ASSUME NEW f \in Files, Rename(f) PROVE FALSE
  BY <1>4 DEF Rename, NoRename, SafeInv, TypeOK
<1>5. ASSUME NEW f \in Files, NEW k \in Kinds, Edit(f, k) PROVE NamedInv'
  BY <1>5, EditNamed
<1>6. ASSUME NEW t \in Threads, ParseResumes(t) PROVE NamedInv'
  BY <1>6, ParseResumesNamed
<1> QED
  BY <1>1, <1>2, <1>3, <1>4, <1>5, <1>6 DEF Next

(* The number of renames only grows. *)
LEMMA RenamesGrow ==
    ASSUME SafeInv, [Next]_vars, NoRename'
    PROVE  NoRename
<1>1. CASE UNCHANGED vars
  BY <1>1 DEF vars, NoRename
<1>2. ASSUME NEW t \in Threads, Request(t) PROVE renames' = renames
  BY <1>2 DEF Request, OpenPlain, Open, Create, Getattr, Read, Write, Transfer,
    Release, disk
<1>3. ASSUME NEW t \in Threads, Step(t) \/ ParseResumes(t)
      PROVE  renames' = renames
  BY <1>3 DEF Step, ParseBegin, ParseEnd, ParseBlocks, ParseResumes, Parsed,
    OpenNormal, OpenInsert, OpenRefused, GetattrEnd, Find, Found, WriteRefused,
    FindAgain, ReadMerged, Pread, Pwrite, Remove, Close, disk
<1>4. ASSUME NEW f \in Files, Rename(f) PROVE FALSE
  BY <1>4 DEF Rename, NoRename, SafeInv, TypeOK
<1>5. ASSUME NEW f \in Files, NEW k \in Kinds, Edit(f, k)
      PROVE  renames' = renames
  BY <1>5 DEF Edit
<1> QED
  BY <1>1, <1>2, <1>3, <1>4, <1>5 DEF Next, NoRename

(* Until a file gains or loses its merged name, the table and the handles  *)
(* agree.                                                                  *)
THEOREM NamedInvariant == Spec => [](NoRename => NamedInv)
<1>1. Init => (NoRename => NamedInv)
  BY NamedInit
<1>2. SafeInv /\ (NoRename => NamedInv) /\ [Next]_vars
          => (NoRename => NamedInv)'
  <2> SUFFICES ASSUME SafeInv, NoRename => NamedInv, [Next]_vars, NoRename'
               PROVE  NamedInv'
    OBVIOUS
  <2>1. NamedInv
    BY RenamesGrow
  <2> QED
    BY <2>1, NamedStep
<1> QED
  BY <1>1, <1>2, SafeInvariant, PTL DEF Spec

(* open_files holds exactly the entries that open handles need, each of the *)
(* description its descriptor is open on.                                   *)
THEOREM TableIsSound == Spec => []TableSound
<1>1. (NoRename => NamedInv) => TableSound
  BY DEF NamedInv, EntrySound, Attended, TableSound
<1> QED
  BY <1>1, NamedInvariant, PTL

(* A handle serves to the end what its open settled. *)
THEOREM ReadsAreAsOpened == Spec => []ReadAsOpened
<1>1. (NoRename => NamedInv) => ReadAsOpened
  BY DEF NamedInv, AnswerDue, ReadAsOpened
<1> QED
  BY <1>1, NamedInvariant, PTL

(* m_write lets nothing through to a description that is being served. *)
THEOREM WritesAreRefused == Spec => []WriteProtected
<1>1. (NoRename => NamedInv) => WriteProtected
  BY DEF NamedInv, NamesKept, WriteProtected
<1> QED
  BY <1>1, NamedInvariant, PTL

(* m_open refuses no description that parses. *)
THEOREM OpensAreServed == Spec => []OpenServes
<1>1. (NoRename => NamedInv) => OpenServes
  BY DEF NamedInv, AnswerDue, OpenServes
<1> QED
  BY <1>1, NamedInvariant, PTL

(* m_open, m_create and m_release leave no descriptor open behind them. *)
THEOREM NoneIsStranded == Spec => []NoneStranded
<1>1. SafeInv /\ (NoRename => NamedInv) => NoneStranded
  BY DEF SafeInv, Knows, NamedInv, Tended, NoneStranded
<1> QED
  BY <1>1, SafeInvariant, NamedInvariant, PTL
=============================================================================
