----------------------------- MODULE MergedFuse -----------------------------
(***************************************************************************)
(* The FUSE handlers of src/merged-fuse.cpp that share open_files: open,   *)
(* create, read, write, release and getattr, run by several threads of     *)
(* libfuse, with the_lock, descriptor numbers that are reused, and the     *)
(* concat objects on the heap.  What one object's parsing and reading do   *)
(* is in ConcatParse and ConcatRead; here an object is valid or not.       *)
(*                                                                         *)
(* A handle is known by its descriptor (fi->fh).  The kernel releases a    *)
(* handle once, after every other request on it has been answered; libfuse *)
(* renames a path only while no request on that path runs, and gives a     *)
(* handler the present name of the file.  Removing a file that is open     *)
(* renames it too, to .fuse_hidden...                                      *)
(***************************************************************************)
EXTENDS Naturals, FiniteSets

CONSTANTS
    Threads,      \* the threads of libfuse
    Files,        \* the files of the source directory
    Descriptors,  \* the descriptors that may be open at once
    Objects,      \* the addresses concat objects may have
    Kinds,        \* what the text of a file may be
    MaxRenames,   \* how often files gain or lose "-merged-" in their name
    KeepForgotten,   \* whether an object nothing points to stays on the heap
    NoThread, NoDescriptor, NoObject, NoFile

ASSUME NothingIsNoOne ==
    /\ NoThread \notin Threads /\ NoFile \notin Files
    /\ NoDescriptor \notin Descriptors /\ NoObject \notin Objects

ASSUME Bounds == MaxRenames \in Nat /\ KeepForgotten \in BOOLEAN

(***************************************************************************)
(* What parsing makes of a file's text: nothing; a size only, because one  *)
(* of its replacements is refused by a strict parse; a merged file; or it  *)
(* waits in open(2), because an entry names a FIFO nobody writes to, or a  *)
(* merged file of this very mount, whose m_getattr waits for the_lock.     *)
(***************************************************************************)
ASSUME KindRange ==
    /\ Kinds \subseteq {"plain", "sizes", "valid", "blocking"}
    /\ "plain" \in Kinds

VARIABLES
    kind,         \* what each file's text is
    named,        \* whether its path holds "-merged-"
    renames,      \* history: how often a file gained or lost that name
    fds,          \* the open descriptors, and the file each is open on
    writeonly,    \* the descriptors that creat returned
    handles,      \* the handles the kernel holds: what their reads are due
    open_files,   \* descriptor -> object
    heap,         \* the live objects: [file, valid]
    forgotten,    \* history: the last object nothing points to any more
    the_lock,     \* the thread that parses, or NoThread
    pc, op,       \* where each thread stands, and the request it serves
    fd,           \* the handle, or the descriptor being opened
    path,         \* the file the request names
    obj,          \* the concat pointer or iterator the handler holds
    answer        \* history: [op, got, due] of the last answer given

vars == <<kind, named, renames, fds, writeonly, handles, open_files, heap,
          forgotten, the_lock, pc, op, fd, path, obj, answer>>
thread == <<pc, op, fd, path, obj>>
tables == <<fds, writeonly, handles, open_files, heap, forgotten>>
disk == <<kind, named, renames>>

NoAnswer == [op |-> "none", got |-> "none", due |-> "none"]

Empty == [x \in {} |-> x]

(* A partial function with x mapped to v, and one without x. *)
With(f, x, v) == [y \in DOMAIN f \cup {x} |-> IF y = x THEN v ELSE f[y]]
Without(f, x) == [y \in DOMAIN f \ {x} |-> f[y]]

Init ==
    /\ kind \in [Files -> Kinds]
    /\ named \in [Files -> BOOLEAN]
    /\ renames = 0
    /\ fds = Empty /\ handles = Empty /\ open_files = Empty /\ heap = Empty
    /\ writeonly = {} /\ forgotten = {}
    /\ the_lock = NoThread
    /\ pc = [t \in Threads |-> "idle"]
    /\ op = [t \in Threads |-> "none"]
    /\ fd = [t \in Threads |-> NoDescriptor]
    /\ path = [t \in Threads |-> NoFile]
    /\ obj = [t \in Threads |-> NoObject]
    /\ answer = NoAnswer

-----------------------------------------------------------------------------
Begin(t, o, d, p, step) ==
    /\ pc[t] = "idle"
    /\ pc' = [pc EXCEPT ![t] = step]
    /\ op' = [op EXCEPT ![t] = o]
    /\ fd' = [fd EXCEPT ![t] = d]
    /\ path' = [path EXCEPT ![t] = p]
    /\ obj' = [obj EXCEPT ![t] = NoObject]
    /\ answer' = NoAnswer

Goto(t, step) ==
    /\ pc' = [pc EXCEPT ![t] = step]
    /\ UNCHANGED <<op, fd, path>>

(* The handler returns; what it returned is compared with what was due. *)
Return(t, got, due) ==
    /\ pc' = [pc EXCEPT ![t] = "idle"]
    /\ op' = [op EXCEPT ![t] = "none"]
    /\ fd' = [fd EXCEPT ![t] = NoDescriptor]
    /\ path' = [path EXCEPT ![t] = NoFile]
    /\ obj' = [obj EXCEPT ![t] = NoObject]
    /\ answer' = [op |-> op[t], got |-> got, due |-> due]

LockIsFree == the_lock = NoThread

(* Requests in progress on a handle, and on a path. *)
Busy(d) == \E t \in Threads : pc[t] # "idle" /\ fd[t] = d
PathBusy(f) == \E t \in Threads : pc[t] # "idle" /\ path[t] = f

Fresh == Descriptors \ DOMAIN fds

-----------------------------------------------------------------------------
(* m_open and m_create: open the file, parse it if its name says so. *)

OpenPlain(t, f) ==
    \E d \in Fresh :
        /\ ~named[f]
        /\ pc[t] = "idle"
        /\ fds' = With(fds, d, f)
        /\ handles' = With(handles, d, "raw")
        /\ answer' = [op |-> "open", got |-> "raw", due |-> "raw"]
        /\ UNCHANGED <<disk, writeonly, open_files, heap, forgotten, the_lock, thread>>

Open(t, f) ==
    \E d \in Fresh :
        /\ named[f]
        /\ Begin(t, "open", d, f, "want_parse")
        /\ fds' = With(fds, d, f)
        /\ UNCHANGED <<disk, writeonly, handles, open_files, heap, forgotten, the_lock>>

(***************************************************************************)
(* creat truncates, whatever the name; nothing is parsed.  It opens for    *)
(* writing only, also when the caller asked to read what it writes.        *)
(***************************************************************************)
Create(t, f) ==
    \E d \in Fresh :
        /\ pc[t] = "idle"
        /\ fds' = With(fds, d, f)
        /\ writeonly' = writeonly \cup {d}
        /\ handles' = With(handles, d, "created")
        /\ kind' = [kind EXCEPT ![f] = "plain"]
        /\ answer' = [op |-> "open", got |-> "raw", due |-> "raw"]
        /\ UNCHANGED <<named, renames, open_files, heap, forgotten, the_lock, thread>>

Getattr(t, f) ==
    /\ named[f]
    /\ Begin(t, "getattr", NoDescriptor, f, "want_parse")
    /\ UNCHANGED <<disk, tables, the_lock>>

(* create_concat holds the_lock while it reads the description. *)
ParseBegin(t) ==
    /\ pc[t] = "want_parse" /\ LockIsFree
    /\ the_lock' = t
    /\ Goto(t, "parse")
    /\ UNCHANGED <<disk, tables, obj, answer>>

Parses(k, strict) == k = "valid" \/ (~strict /\ k = "sizes")

(* new concat: an address no live object has; deleted ones are used again. *)
NewObject == CHOOSE o \in Objects : o \notin DOMAIN heap

(* The parse is over, well or with an exception that create_concat caught. *)
Parsed(t, valid) ==
    /\ Objects \ DOMAIN heap # {}
    /\ heap' = With(heap, NewObject, [file |-> path[t], valid |-> valid])
    /\ obj' = [obj EXCEPT ![t] = NewObject]
    /\ the_lock' = NoThread
    /\ Goto(t, "parsed")
    /\ UNCHANGED <<disk, fds, writeonly, handles, open_files, forgotten, answer>>

\* Mistake: an exception leaves create_concat with the lock held.
ParseEndKeepsLock(t) ==
    /\ pc[t] = "parse" /\ kind[path[t]] # "blocking"
    /\ Parses(kind[path[t]], op[t] = "open")
    /\ Parsed(t, TRUE)

ParseEnd(t) ==
    /\ pc[t] = "parse" /\ kind[path[t]] # "blocking"
    /\ Parsed(t, Parses(kind[path[t]], op[t] = "open"))

(* open(2) of an entry waits; it may never return, so nothing is fair here. *)
ParseBlocks(t) ==
    /\ pc[t] = "parse" /\ kind[path[t]] = "blocking"
    /\ Goto(t, "blocked")
    /\ UNCHANGED <<disk, tables, the_lock, obj, answer>>

ParseResumes(t) ==
    /\ pc[t] = "blocked"
    /\ \E valid \in BOOLEAN : Parsed(t, valid)

(***************************************************************************)
(* An object that is not valid is forgotten ("normal file") and stays on   *)
(* the heap for good.  To stay finite, the model keeps the last such       *)
(* object at most, and takes the memory of the one before it back.         *)
(***************************************************************************)
OpenNormal(t) ==
    /\ pc[t] = "parsed" /\ op[t] = "open"
    /\ ~heap[obj[t]].valid
    /\ forgotten' = IF KeepForgotten THEN {obj[t]} ELSE {}
    /\ heap' = [o \in (DOMAIN heap \ (forgotten \cup {obj[t]})) \cup forgotten' |->
                  heap[o]]
    /\ handles' = With(handles, fd[t], "raw")
    /\ Return(t, "raw", "raw")
    /\ UNCHANGED <<disk, fds, writeonly, open_files, the_lock>>

\* Mistake: the handles of one description share its object.
OpenInsertShares(t) ==
    LET same == {e \in DOMAIN open_files : heap[open_files[e]].file = path[t]} IN
    /\ pc[t] = "parsed" /\ op[t] = "open"
    /\ heap[obj[t]].valid /\ LockIsFree
    /\ fd[t] \notin DOMAIN open_files
    /\ open_files' = With(open_files, fd[t],
                          IF same = {} THEN obj[t]
                          ELSE open_files[CHOOSE e \in same : TRUE])
    /\ handles' = With(handles, fd[t], "merged")
    /\ Return(t, "merged", "merged")
    /\ UNCHANGED <<disk, fds, writeonly, heap, forgotten, the_lock>>

(* insert_concat *)
OpenInsert(t) ==
    /\ pc[t] = "parsed" /\ op[t] = "open"
    /\ heap[obj[t]].valid /\ LockIsFree
    /\ fd[t] \notin DOMAIN open_files
    /\ open_files' = With(open_files, fd[t], obj[t])
    /\ handles' = With(handles, fd[t], "merged")
    /\ Return(t, "merged", "merged")
    /\ UNCHANGED <<disk, fds, writeonly, heap, forgotten, the_lock>>

(* insert_concat finds an entry: EBADF, and the descriptor stays open. *)
OpenRefused(t) ==
    /\ pc[t] = "parsed" /\ op[t] = "open"
    /\ heap[obj[t]].valid /\ LockIsFree
    /\ fd[t] \in DOMAIN open_files
    /\ heap' = Without(heap, obj[t])
    /\ Return(t, "EBADF", "merged")
    /\ UNCHANGED <<disk, fds, writeonly, handles, open_files, forgotten, the_lock>>

\* Mistake: an object that is not valid is forgotten here too.
GetattrEndForgets(t) ==
    /\ pc[t] = "parsed" /\ op[t] = "getattr"
    /\ Return(t, IF heap[obj[t]].valid THEN "merged" ELSE "raw", "any")
    /\ heap' = IF heap[obj[t]].valid THEN Without(heap, obj[t]) ELSE heap
    /\ UNCHANGED <<disk, fds, writeonly, handles, open_files, forgotten, the_lock>>

(* m_getattr reports getMergedSize, or what lstat said. *)
GetattrEnd(t) ==
    /\ pc[t] = "parsed" /\ op[t] = "getattr"
    /\ Return(t, IF heap[obj[t]].valid THEN "merged" ELSE "raw", "any")
    /\ heap' = Without(heap, obj[t])
    /\ UNCHANGED <<disk, fds, writeonly, handles, open_files, forgotten, the_lock>>

-----------------------------------------------------------------------------
(* m_read and m_write on a handle. *)

\* Mistake: whether the file is a merged one is not asked first.
TransferAlwaysLooksUp(t, d, o) ==
    /\ d \in DOMAIN handles
    /\ Begin(t, o, d, fds[d], "find")
    /\ UNCHANGED <<disk, tables, the_lock>>

Transfer(t, d, o) ==
    /\ d \in DOMAIN handles
    /\ Begin(t, o, d, fds[d], IF named[fds[d]] THEN "find" ELSE "transfer")
    /\ UNCHANGED <<disk, tables, the_lock>>

Read(t, d) == Transfer(t, d, "read")
Write(t, d) == Transfer(t, d, "write")

\* Mistake: a write does not look for an object.
FindForReads(t) ==
    /\ pc[t] = "find" /\ LockIsFree
    /\ IF op[t] = "read" /\ fd[t] \in DOMAIN open_files
       THEN /\ obj' = [obj EXCEPT ![t] = open_files[fd[t]]]
            /\ Goto(t, "found")
       ELSE /\ UNCHANGED obj
            /\ Goto(t, "transfer")
    /\ UNCHANGED <<disk, tables, the_lock, answer>>

\* Mistake: whether to merge is asked of the description as it is now.
FoundAsksText(t) ==
    /\ pc[t] = "found" /\ op[t] = "read"
    /\ obj' = [obj EXCEPT ![t] = NoObject]
    /\ Goto(t, IF kind[path[t]] = "valid" THEN "find_again" ELSE "transfer")
    /\ UNCHANGED <<disk, tables, the_lock, answer>>

(***************************************************************************)
(* get_concat: the entry is found under the lock, and its object taken     *)
(* from the iterator after the lock is released.                           *)
(***************************************************************************)
Find(t) ==
    /\ pc[t] = "find" /\ LockIsFree
    /\ IF fd[t] \in DOMAIN open_files
       THEN /\ obj' = [obj EXCEPT ![t] = open_files[fd[t]]]
            /\ Goto(t, "found")
       ELSE /\ UNCHANGED obj
            /\ Goto(t, "transfer")
    /\ UNCHANGED <<disk, tables, the_lock, answer>>

Found(t) ==
    /\ pc[t] = "found" /\ op[t] = "read"
    /\ obj' = [obj EXCEPT ![t] = NoObject]
    /\ Goto(t, IF heap[obj[t]].valid THEN "find_again" ELSE "transfer")
    /\ UNCHANGED <<disk, tables, the_lock, answer>>

WriteRefused(t) ==
    /\ pc[t] = "found" /\ op[t] = "write"
    /\ heap[obj[t]].valid
    /\ Return(t, "EINVAL", handles[fd[t]])
    /\ UNCHANGED <<disk, tables, the_lock>>

(* read_concat looks the object up once more; then it reads through it. *)
FindAgain(t) ==
    /\ pc[t] = "find_again" /\ LockIsFree
    /\ IF fd[t] \in DOMAIN open_files
       THEN /\ obj' = [obj EXCEPT ![t] = open_files[fd[t]]]
            /\ Goto(t, "reading")
            /\ UNCHANGED answer
       ELSE Return(t, "EBADF", handles[fd[t]])
    /\ UNCHANGED <<disk, tables, the_lock>>

ReadMerged(t) ==
    /\ pc[t] = "reading"
    /\ Return(t, CASE ~heap[obj[t]].valid -> "EINVAL"
                   [] heap[obj[t]].file = path[t] -> "merged"
                   [] OTHER -> "foreign",
              handles[fd[t]])
    /\ UNCHANGED <<disk, tables, the_lock>>

(* pread and pwrite on the file itself; a write leaves any text there. *)
Pread(t) ==
    /\ pc[t] = "transfer" /\ op[t] = "read"
    /\ Return(t, IF fd[t] \in writeonly THEN "EBADF" ELSE "raw", handles[fd[t]])
    /\ UNCHANGED <<disk, tables, the_lock>>

Pwrite(t) ==
    /\ pc[t] = "transfer" /\ op[t] = "write"
    /\ \E k \in Kinds : kind' = [kind EXCEPT ![fds[fd[t]]] = k]
    /\ Return(t, "raw", handles[fd[t]])
    /\ UNCHANGED <<named, renames, tables, the_lock>>

-----------------------------------------------------------------------------
(* m_release: remove_concat if the name says so, then close. *)

\* Mistake: the entry is left in the table.
ReleaseKeepsEntry(t, d) ==
    /\ d \in DOMAIN handles /\ ~Busy(d)
    /\ Begin(t, "release", d, fds[d], "close")
    /\ handles' = Without(handles, d)
    /\ UNCHANGED <<disk, fds, writeonly, open_files, heap, forgotten, the_lock>>

Release(t, d) ==
    /\ d \in DOMAIN handles /\ ~Busy(d)
    /\ Begin(t, "release", d, fds[d], IF named[fds[d]] THEN "remove" ELSE "close")
    /\ handles' = Without(handles, d)
    /\ UNCHANGED <<disk, fds, writeonly, open_files, heap, forgotten, the_lock>>

\* Mistake: the entries of all handles of the file are erased.
RemoveByFile(t) ==
    LET same == {e \in DOMAIN open_files : heap[open_files[e]].file = path[t]} IN
    /\ pc[t] = "remove" /\ LockIsFree
    /\ heap' = [o \in DOMAIN heap \ {open_files[e] : e \in same} |-> heap[o]]
    /\ open_files' = [e \in DOMAIN open_files \ same |-> open_files[e]]
    /\ Goto(t, "close")
    /\ UNCHANGED <<disk, fds, writeonly, handles, forgotten, the_lock, obj, answer>>

Remove(t) ==
    /\ pc[t] = "remove" /\ LockIsFree
    /\ IF fd[t] \in DOMAIN open_files
       THEN /\ heap' = Without(heap, open_files[fd[t]])
            /\ open_files' = Without(open_files, fd[t])
       ELSE UNCHANGED <<heap, open_files>>
    /\ Goto(t, "close")
    /\ UNCHANGED <<disk, fds, writeonly, handles, forgotten, the_lock, obj, answer>>

\* Mistake: only a file with a merged name is closed.
CloseMergedOnly(t) ==
    /\ pc[t] = "close"
    /\ fds' = IF named[path[t]] THEN Without(fds, fd[t]) ELSE fds
    /\ writeonly' = writeonly \ {fd[t]}
    /\ Return(t, "closed", "closed")
    /\ UNCHANGED <<disk, handles, open_files, heap, forgotten, the_lock>>

Close(t) ==
    /\ pc[t] = "close"
    /\ fds' = Without(fds, fd[t])
    /\ writeonly' = writeonly \ {fd[t]}
    /\ Return(t, "closed", "closed")
    /\ UNCHANGED <<disk, handles, open_files, heap, forgotten, the_lock>>

-----------------------------------------------------------------------------
(* m_rename, and m_unlink of an open file. *)
Rename(f) ==
    /\ renames < MaxRenames
    /\ ~PathBusy(f)
    /\ named' = [named EXCEPT ![f] = ~named[f]]
    /\ renames' = renames + 1
    /\ UNCHANGED <<kind, tables, the_lock, thread, answer>>

(* m_truncate, or a write in the source directory. *)
Edit(f, k) ==
    /\ kind[f] # k
    /\ kind' = [kind EXCEPT ![f] = k]
    /\ UNCHANGED <<named, renames, tables, the_lock, thread, answer>>

Request(t) ==
    \/ \E f \in Files : OpenPlain(t, f) \/ Open(t, f) \/ Create(t, f) \/ Getattr(t, f)
    \/ \E d \in Descriptors : Read(t, d) \/ Write(t, d) \/ Release(t, d)

Step(t) ==
    \/ ParseBegin(t) \/ ParseEnd(t) \/ ParseBlocks(t)
    \/ OpenNormal(t) \/ OpenInsert(t) \/ OpenRefused(t) \/ GetattrEnd(t)
    \/ Find(t) \/ Found(t) \/ WriteRefused(t) \/ FindAgain(t) \/ ReadMerged(t)
    \/ Pread(t) \/ Pwrite(t)
    \/ Remove(t) \/ Close(t)

Next ==
    \/ \E t \in Threads : Request(t) \/ Step(t) \/ ParseResumes(t)
    \/ \E f \in Files : Rename(f)
    \/ \E f \in Files, k \in Kinds : Edit(f, k)

Spec == Init /\ [][Next]_vars

(* Every thread keeps running, until open(2) keeps it. *)
FairSpec == Spec /\ \A t \in Threads : WF_vars(Step(t))

-----------------------------------------------------------------------------
Steps == {"idle", "want_parse", "parse", "blocked", "parsed", "find", "found",
          "find_again", "reading", "transfer", "remove", "close"}
Routes == {"none", "raw", "merged", "created", "foreign", "EBADF", "EINVAL",
           "any", "closed"}

TypeOK ==
    /\ kind \in [Files -> Kinds]
    /\ named \in [Files -> BOOLEAN]
    /\ renames \in 0 .. MaxRenames
    /\ DOMAIN fds \subseteq Descriptors /\ \A d \in DOMAIN fds : fds[d] \in Files
    /\ DOMAIN handles \subseteq DOMAIN fds
    /\ \A d \in DOMAIN handles : handles[d] \in {"raw", "merged", "created"}
    /\ writeonly \subseteq DOMAIN fds
    /\ forgotten \subseteq DOMAIN heap
    /\ DOMAIN open_files \subseteq Descriptors
    /\ \A d \in DOMAIN open_files : open_files[d] \in DOMAIN heap
    /\ DOMAIN heap \subseteq Objects
    /\ \A o \in DOMAIN heap : heap[o] \in [file : Files, valid : BOOLEAN]
    /\ the_lock \in Threads \cup {NoThread}
    /\ pc \in [Threads -> Steps]
    /\ op \in [Threads -> {"none", "open", "getattr", "read", "write", "release"}]
    /\ fd \in [Threads -> Descriptors \cup {NoDescriptor}]
    /\ path \in [Threads -> Files \cup {NoFile}]
    /\ obj \in [Threads -> Objects \cup {NoObject}]
    /\ answer \in [op : {"none", "open", "getattr", "read", "write", "release"},
                   got : Routes, due : Routes]

(***************************************************************************)
(* get_concat dereferences the entry after it released the lock, and the   *)
(* handlers use the object with no lock at all; no release in between ever *)
(* erased that entry or deleted that object.                               *)
(***************************************************************************)
NoUseAfterFree ==
    \A t \in Threads : pc[t] \in {"found", "reading"} =>
        /\ fd[t] \in DOMAIN open_files /\ open_files[fd[t]] = obj[t]
        /\ obj[t] \in DOMAIN heap

(* No object is reachable from two entries: each is deleted once. *)
DeletedOnce ==
    \A d, e \in DOMAIN open_files : d # e => open_files[d] # open_files[e]

(***************************************************************************)
(* Every live object is reached from one entry, is in the hands of the one *)
(* thread that parsed it, or was forgotten by an open that served a normal *)
(* file; so what getattr, a refused open and a release delete is all there *)
(* was, and nothing is deleted that is still reached.                      *)
(***************************************************************************)
InHand(o) == \E t \in Threads : pc[t] = "parsed" /\ obj[t] = o
InTable(o) == \E d \in DOMAIN open_files : open_files[d] = o

HeapAccounted ==
    \A o \in DOMAIN heap :
        /\ InHand(o) \/ InTable(o) \/ o \in forgotten
        /\ o \in forgotten => ~InHand(o) /\ ~InTable(o) /\ ~heap[o].valid

NoRename == renames = 0

(***************************************************************************)
(* Until a file gains or loses its "-merged-" name, open_files holds       *)
(* exactly what the open handles need: an entry belongs to a handle, or to *)
(* one whose release is about to remove it, and is the description of the  *)
(* file the descriptor is open on.                                         *)
(***************************************************************************)
TableSound ==
    NoRename =>
    \A d \in DOMAIN open_files :
        /\ \/ d \in DOMAIN handles /\ handles[d] = "merged"
           \/ \E t \in Threads : pc[t] = "remove" /\ fd[t] = d
        /\ d \in DOMAIN fds
        /\ heap[open_files[d]] = [file |-> fds[d], valid |-> TRUE]

(***************************************************************************)
(* Until then, what a handle serves is settled by its open: all its reads  *)
(* return merged content, or all return the file's own text, or, on a      *)
(* handle m_create returned, all fail with EBADF; however the description  *)
(* is rewritten or truncated meanwhile.                                    *)
(***************************************************************************)
ReadDue(due) == IF due = "created" THEN "EBADF" ELSE due

ReadAsOpened ==
    NoRename /\ answer.op = "read" => answer.got = ReadDue(answer.due)

(***************************************************************************)
(* Until then, no pwrite reaches a description through a handle that       *)
(* serves its content.                                                     *)
(***************************************************************************)
WriteProtected ==
    NoRename =>
    \A t \in Threads : pc[t] = "transfer" /\ op[t] = "write" =>
        handles[fd[t]] # "merged"

(***************************************************************************)
(* README: "And Read your -merged- file at mounted dir": until then,       *)
(* opening a description that parses is never refused.                     *)
(***************************************************************************)
OpenServes ==
    NoRename /\ answer.op = "open" => answer.got = answer.due

(***************************************************************************)
(* Until then, every descriptor that is open is a handle the kernel will   *)
(* release, or is being opened or closed: the one path of m_open that      *)
(* returns without closing its descriptor, after insert_concat found an    *)
(* entry, is not taken.                                                    *)
(***************************************************************************)
NoneStranded ==
    NoRename =>
    \A d \in DOMAIN fds :
        d \in DOMAIN handles \/ \E t \in Threads : pc[t] # "idle" /\ fd[t] = d

(***************************************************************************)
(* README: "when system read this file, it output the merged/replaced      *)
(* content of many really files that you set": a read never returns what   *)
(* another description sets.                                               *)
(***************************************************************************)
OwnContent ==
    answer.op = "read" => answer.got # "foreign"

(***************************************************************************)
(* Whoever parses lets the others in again, whatever is wrong with the     *)
(* description, unless open(2) of one of its entries never returns.        *)
(***************************************************************************)
LockReleased ==
    \A t \in Threads : (the_lock = t) ~> (the_lock # t \/ pc[t] = "blocked")

(***************************************************************************)
(* A description that blocks stops merged files only: reads, writes and    *)
(* releases of plain files are answered while the lock is held for ever.   *)
(***************************************************************************)
PlainServed ==
    \A t \in Threads :
        (pc[t] # "idle" /\ ~named[path[t]]) ~> (pc[t] = "idle")
=============================================================================
