----------------------------- MODULE ConcatParse -----------------------------
(***************************************************************************)
(* concat::setFile, parsing, parseJson, removeAll and throw_exception      *)
(* (src/concat.cpp): the life of a concat object from its construction to  *)
(* its destruction, one system call or one replacement per step, while     *)
(* others edit the description and the files it names.  create_concat      *)
(* holds the_lock around all of it, so one object is parsed at a time.     *)
(***************************************************************************)
EXTENDS Concat, FiniteSets

CONSTANTS
    Paths,        \* the files descriptions may name
    FileStates,   \* what a path may be: [there, readable, size]
    Documents,    \* what the description may be: [there, readable, size, json]
    Descriptors,  \* the descriptors the process may still open
    Modes,        \* the values of strict its callers use
    Edits,        \* whether others change files while the process runs
    MaxLength,    \* the longest replacement parseJson accepts (1024)
    IntSpan,      \* 2^32: the number of values of an int
    LongSpan      \* 2^64: the number of values of a long long

(***************************************************************************)
(* A description, as json::parse hands it over.  array is FALSE for text   *)
(* that is no JSON array; path is "" when an entry has none; listed is     *)
(* FALSE when "replaces" is no array.  A replacement is complete when its  *)
(* three keys are there and its numbers are numbers; content is the number *)
(* of bytes its base64 decodes to, -1 when it is no string.                *)
(***************************************************************************)
Item == [complete : BOOLEAN, offset : Int, length : Int, content : Int]
Entry == [path : Paths \cup {""}, listed : BOOLEAN, patches : Seq(Item)]
Json == [array : BOOLEAN, entries : Seq(Entry)]
Document == [there : BOOLEAN, readable : BOOLEAN, size : Nat, json : Json]
FileState == [there : BOOLEAN, readable : BOOLEAN, size : Nat]

ASSUME InputsInRange ==
    /\ Documents \subseteq Document
    /\ FileStates \subseteq FileState
    /\ Modes \subseteq BOOLEAN /\ Edits \in BOOLEAN

ASSUME DescriptorRange ==
    /\ Descriptors \subseteq Nat \ {0}
    /\ IsFiniteSet(Descriptors)

ASSUME IntegerWidths ==
    /\ MaxLength \in Nat \ {0}
    /\ IntSpan \in Nat /\ IntSpan > 2 * MaxLength
    /\ LongSpan \in Nat \ {0}

VARIABLES
    files,        \* the state of each path
    doc,          \* the description, as it is on disk
    fdtable,      \* the open descriptors, and the path each is open on
    pc,           \* "none", "sized", "entry", "stat", "patch", "done", "crashed"
    strict,       \* the argument of parsing
    file_size,    \* the description's size when setFile looked
    json,         \* what was read of it
    ct, rt,       \* the iterators over entries and over replaces
    c,            \* the chunk under construction: [size, fd]
    off,
    merged_size,
    chunks, replaces,
    decoded,      \* history: the decoded size of each replacement's content
    is_valid,
    lost,         \* history: descriptors no object refers to any more
    before        \* history: the descriptors open when setFile began

world == <<files, doc>>
built == <<chunks, replaces, decoded, merged_size>>
reading == <<strict, file_size, json, before>>
vars == <<files, doc, fdtable, pc, strict, file_size, json, ct, rt, c, off,
          merged_size, chunks, replaces, decoded, is_valid, lost, before>>

NoJson == [array |-> FALSE, entries |-> <<>>]
NoChunk == [size |-> 0, fd |-> -1]

Init ==
    /\ files \in [Paths -> FileStates]
    /\ doc \in Documents
    /\ fdtable = <<>>
    /\ pc = "none" /\ strict = TRUE /\ file_size = 0 /\ json = NoJson
    /\ ct = 1 /\ rt = 1 /\ c = NoChunk /\ off = 0
    /\ merged_size = 0 /\ chunks = <<>> /\ replaces = <<>> /\ decoded = <<>>
    /\ is_valid = FALSE
    /\ lost = {} /\ before = <<>>

-----------------------------------------------------------------------------
(* The descriptor table. *)

Free == Descriptors \ DOMAIN fdtable

(* open takes the lowest free descriptor. *)
LowestFree == CHOOSE f \in Free : \A g \in Free : f <= g

CanOpen(p) == files[p].there /\ files[p].readable /\ Free # {}

Held == {chunks[i].fd : i \in DOMAIN chunks}

Keep(fds) == [f \in fds |-> fdtable[f]]

(* An integer stored in a signed type of span values. *)
Narrowed(n, span) == ((n + span \div 2) % span) - span \div 2

-----------------------------------------------------------------------------
\* Mistake: the list of chunks outlives their descriptors.
RemoveAllKeepsChunks ==
    /\ replaces' = <<>> /\ decoded' = <<>>
    /\ merged_size' = 0
    /\ is_valid' = FALSE
    /\ fdtable' = Keep(DOMAIN fdtable \ Held)
    /\ UNCHANGED chunks

\* Mistake: the descriptors of the chunks are not closed.
RemoveAllKeepsOpen ==
    /\ chunks' = <<>> /\ replaces' = <<>> /\ decoded' = <<>>
    /\ merged_size' = 0
    /\ is_valid' = FALSE
    /\ UNCHANGED fdtable

(***************************************************************************)
(* removeAll: every chunk's descriptor is closed, but not the one of the   *)
(* chunk under construction.                                               *)
(***************************************************************************)
RemoveAll ==
    /\ chunks' = <<>> /\ replaces' = <<>> /\ decoded' = <<>>
    /\ merged_size' = 0
    /\ is_valid' = FALSE
    /\ fdtable' = Keep(DOMAIN fdtable \ Held)

\* Mistake: what was parsed before the error is kept.
ThrowKeepsParsed ==
    /\ pc' = "done"
    /\ is_valid' = FALSE
    /\ lost' = lost \cup ({c.fd} \cap DOMAIN fdtable)
    /\ c' = NoChunk
    /\ UNCHANGED <<world, fdtable, reading, ct, rt, off, built>>

(* throw_exception, and the catch in parsing that throws once more. *)
Throw ==
    /\ pc' = "done"
    /\ RemoveAll
    /\ lost' = lost \cup ({c.fd} \cap DOMAIN fdtable)
    /\ c' = NoChunk
    /\ UNCHANGED <<world, reading, ct, rt, off>>

(* The constructor and setFile: stat the description. *)
SetFile(s) ==
    /\ pc = "none"
    /\ pc' = "sized"
    /\ strict' = s
    /\ file_size' = IF doc.there THEN doc.size ELSE 0
    /\ before' = Keep(DOMAIN fdtable)
    /\ UNCHANGED <<world, fdtable, json, ct, rt, c, off, built, is_valid, lost>>

TooSmall == pc = "sized" /\ file_size < 2 /\ Throw

(***************************************************************************)
(* fopen, fread and json::parse.  When the description changed its length  *)
(* since setFile, the buffer ends in the middle of it or in uninitialized  *)
(* memory, and anything may be parsed.                                     *)
(***************************************************************************)
Parsed == IF doc.size = file_size THEN {doc.json} ELSE {d.json : d \in Documents}

CanRead == doc.there /\ doc.readable /\ Free # {}

ReadAll ==
    /\ pc = "sized" /\ file_size >= 2
    /\ CanRead
    /\ json' \in Parsed
    /\ pc' = "entry"
    /\ ct' = 1 /\ off' = 0
    /\ UNCHANGED <<world, fdtable, strict, file_size, before, rt, c, built,
                   is_valid, lost>>

(* fopen returned NULL, and fread is called with it. *)
Crash ==
    /\ pc = "sized" /\ file_size >= 2
    /\ ~CanRead
    /\ pc' = "crashed"
    /\ UNCHANGED <<world, fdtable, reading, ct, rt, c, off, built, is_valid,
                   lost>>

AtEntry == pc = "entry" /\ json.array /\ ct <= Len(json.entries)

BadFormat ==
    /\ \/ pc = "entry" /\ ~json.array
       \/ AtEntry /\ json.entries[ct].path = ""
    /\ Throw

OpenEntry ==
    LET p == json.entries[ct].path IN
    /\ AtEntry
    /\ p # ""
    /\ IF CanOpen(p)
       THEN /\ c' = [size |-> 0, fd |-> LowestFree]
            /\ fdtable' = [f \in DOMAIN fdtable \cup {LowestFree} |->
                             IF f = LowestFree THEN p ELSE fdtable[f]]
       ELSE /\ c' = NoChunk
            /\ UNCHANGED fdtable
    /\ pc' = "stat"
    /\ UNCHANGED <<world, reading, ct, rt, off, built, is_valid, lost>>

This == json.entries[ct]

(* stat the entry's file: gone, measured only, or measured and kept. *)
StatGone == pc = "stat" /\ ~files[This.path].there /\ Throw

Sized ==
    /\ pc = "stat"
    /\ files[This.path].there
    /\ merged_size' = merged_size + files[This.path].size
    /\ UNCHANGED <<world, reading, fdtable, chunks, replaces, decoded, off,
                   is_valid>>

\* Mistake: the chunk is skipped in a strict parse too.
StatLenientAlways ==
    /\ Sized
    /\ pc' = "entry"
    /\ ct' = ct + 1
    /\ lost' = lost \cup ({c.fd} \cap DOMAIN fdtable)
    /\ c' = NoChunk
    /\ UNCHANGED rt

StatLenient ==
    /\ Sized /\ ~strict
    /\ pc' = "entry"
    /\ ct' = ct + 1
    /\ lost' = lost \cup ({c.fd} \cap DOMAIN fdtable)
    /\ c' = NoChunk
    /\ UNCHANGED rt

StatStrict ==
    /\ Sized /\ strict
    /\ pc' = "patch"
    /\ rt' = 1
    /\ c' = [c EXCEPT !.size = files[This.path].size]
    /\ UNCHANGED <<ct, lost>>

BadReplaces == pc = "patch" /\ ~This.listed /\ Throw

AtPatch == pc = "patch" /\ This.listed /\ rt <= Len(This.patches)

-----------------------------------------------------------------------------
(* One replacement. *)

Patch == This.patches[rt]
Length == Narrowed(Patch.length, IntSpan)
Wanted == Narrowed(Patch.offset, LongSpan)
InFile == -c.size <= Wanted /\ Wanted < c.size
Start == IF Wanted < 0 THEN c.size + Wanted ELSE Wanted

Kept == Min2(Length, c.size - Start)

Ignored == Length <= 0 \/ ~InFile

PatchBad ==
    /\ AtPatch
    /\ \/ ~Patch.complete
       \/ Length > MaxLength
       \/ ~Ignored /\ Patch.content < Kept
    /\ Throw

\* Mistake: the iterator stays where it is.
PatchSkipStays ==
    /\ AtPatch
    /\ Patch.complete /\ Length <= MaxLength /\ Ignored
    /\ UNCHANGED vars

PatchSkip ==
    /\ AtPatch
    /\ Patch.complete /\ Length <= MaxLength /\ Ignored
    /\ rt' = rt + 1
    /\ UNCHANGED <<world, reading, fdtable, pc, ct, c, off, built, is_valid,
                   lost>>

\* Mistake: the decoded content is not measured.
PatchPushUnmeasured ==
    /\ AtPatch
    /\ Patch.complete /\ Length <= MaxLength /\ ~Ignored
    /\ replaces' = Append(replaces, [offset |-> off + Start, length |-> Kept])
    /\ decoded' = Append(decoded, Patch.content)
    /\ rt' = rt + 1
    /\ UNCHANGED <<world, reading, fdtable, pc, ct, c, off, merged_size,
                   chunks, is_valid, lost>>

PatchPush ==
    /\ AtPatch
    /\ Patch.complete /\ Length <= MaxLength /\ ~Ignored
    /\ Patch.content >= Kept
    /\ replaces' = Append(replaces, [offset |-> off + Start, length |-> Kept])
    /\ decoded' = Append(decoded, Patch.content)
    /\ rt' = rt + 1
    /\ UNCHANGED <<world, reading, fdtable, pc, ct, c, off, merged_size,
                   chunks, is_valid, lost>>

-----------------------------------------------------------------------------
\* Mistake: the next chunk starts where the file ends now.
PushChunkMeasuresAgain ==
    /\ pc = "patch" /\ This.listed /\ rt > Len(This.patches)
    /\ chunks' = Append(chunks, [base |-> off, size |-> c.size, fd |-> c.fd])
    /\ off' = off + files[This.path].size
    /\ ct' = ct + 1
    /\ c' = NoChunk
    /\ pc' = "entry"
    /\ UNCHANGED <<world, reading, fdtable, rt, merged_size, replaces, decoded,
                   is_valid, lost>>

PushChunk ==
    /\ pc = "patch" /\ This.listed /\ rt > Len(This.patches)
    /\ chunks' = Append(chunks, [base |-> off, size |-> c.size, fd |-> c.fd])
    /\ off' = off + c.size
    /\ ct' = ct + 1
    /\ c' = NoChunk
    /\ pc' = "entry"
    /\ UNCHANGED <<world, reading, fdtable, rt, merged_size, replaces, decoded,
                   is_valid, lost>>

Finish ==
    /\ pc = "entry" /\ json.array /\ ct > Len(json.entries)
    /\ is_valid' = TRUE
    /\ pc' = "done"
    /\ UNCHANGED <<world, reading, fdtable, ct, rt, c, off, built, lost>>

(* The destructor; the caller makes another object later. *)
Delete ==
    /\ pc = "done"
    /\ RemoveAll
    /\ pc' = "none"
    /\ file_size' = 0 /\ json' = NoJson /\ off' = 0 /\ ct' = 1 /\ rt' = 1
    /\ before' = <<>>
    /\ UNCHANGED <<world, strict, c, lost>>

(* Someone writes, truncates, removes or protects a file. *)
EditFile(p, f) ==
    /\ Edits
    /\ files[p] # f
    /\ files' = [files EXCEPT ![p] = f]
    /\ UNCHANGED <<doc, fdtable, pc, reading, ct, rt, c, off, built, is_valid,
                   lost>>

EditDoc(d) ==
    /\ Edits
    /\ doc # d
    /\ doc' = d
    /\ UNCHANGED <<files, fdtable, pc, reading, ct, rt, c, off, built, is_valid,
                   lost>>

Parse ==
    \/ TooSmall \/ ReadAll \/ Crash
    \/ BadFormat \/ OpenEntry
    \/ StatGone \/ StatLenient \/ StatStrict
    \/ BadReplaces \/ PatchBad \/ PatchSkip \/ PatchPush
    \/ PushChunk \/ Finish

Next ==
    \/ \E s \in Modes : SetFile(s)
    \/ Parse
    \/ Delete
    \/ \E p \in Paths, f \in FileStates : EditFile(p, f)
    \/ \E d \in Documents : EditDoc(d)

Spec == Init /\ [][Next]_vars

(* The thread that parses keeps running. *)
FairSpec == Spec /\ WF_vars(Parse)

-----------------------------------------------------------------------------
TypeOK ==
    /\ files \in [Paths -> FileState]
    /\ doc \in Document
    /\ DOMAIN fdtable \subseteq Descriptors
    /\ \A f \in DOMAIN fdtable : fdtable[f] \in Paths
    /\ pc \in {"none", "sized", "entry", "stat", "patch", "done", "crashed"}
    /\ strict \in BOOLEAN
    /\ file_size \in Nat
    /\ json \in Json
    /\ ct \in 1 .. Len(json.entries) + 1
    /\ rt \in Nat \ {0}
    /\ c \in [size : Nat, fd : Descriptors \cup {-1}]
    /\ off \in Nat
    /\ merged_size \in Nat
    /\ chunks \in Seq(Chunk)
    /\ replaces \in Seq(Replaced)
    /\ decoded \in Seq(Int)
    /\ is_valid \in BOOLEAN
    /\ lost \subseteq Descriptors
    /\ before = [f \in DOMAIN before |-> before[f]]

Usable == pc = "done" /\ is_valid /\ strict

(***************************************************************************)
(* A strict parse that succeeds leaves an object a read can rely on: its   *)
(* chunks lie end to end, every replacement stays inside the chunk it was  *)
(* written for, whatever its sign and length were, and the size m_getattr  *)
(* would report for those very files is where the last chunk ends.         *)
(***************************************************************************)
ParsedWellFormed ==
    Usable => /\ WellFormed(chunks, replaces)
              /\ merged_size = MergedLength(chunks)

(***************************************************************************)
(* The content kept for a replacement is never shorter than the range it   *)
(* replaces: replace's memcpy stays inside it.                             *)
(***************************************************************************)
ContentCovers ==
    /\ Len(decoded) = Len(replaces)
    /\ \A i \in DOMAIN replaces :
           replaces[i].length <= decoded[i] /\ replaces[i].length <= MaxLength

(* A parse that failed, at whatever entry, leaves nothing behind to read. *)
FailedIsEmpty ==
    pc = "done" /\ ~is_valid =>
        chunks = <<>> /\ replaces = <<>> /\ merged_size = 0

(***************************************************************************)
(* Chunk i of the object holds a descriptor of its own, open on the file   *)
(* of entry i; so closing the chunks never closes what another holds.      *)
(***************************************************************************)
OwnDescriptors ==
    /\ \A i \in DOMAIN chunks : chunks[i].fd # -1 =>
           /\ chunks[i].fd \in DOMAIN fdtable
           /\ fdtable[chunks[i].fd] = json.entries[i].path
           /\ chunks[i].fd # c.fd /\ chunks[i].fd \notin lost
    /\ \A i, j \in DOMAIN chunks :
           i # j /\ chunks[i].fd # -1 => chunks[i].fd # chunks[j].fd

(***************************************************************************)
(* Every descriptor that is open belongs to a chunk, to the chunk under    *)
(* construction, or was lost on the way; between objects only the lost     *)
(* ones remain.                                                            *)
(***************************************************************************)
DescriptorsAccounted ==
    DOMAIN fdtable = (Held \cup {c.fd} \cup lost) \ {-1}

(***************************************************************************)
(* An object that parsed strictly and well, and is then destroyed, leaves  *)
(* the descriptor table as its construction found it: removeAll closes one *)
(* descriptor for each that parseJson opened, and no other, whatever       *)
(* happened to the files and the description in between.                   *)
(***************************************************************************)
TableRestored == [][Usable /\ pc' = "none" => fdtable' = before]_vars

(* Every parse ends. *)
ParseEnds == (pc = "sized") ~> (pc \in {"done", "crashed"})

-----------------------------------------------------------------------------
(***************************************************************************)
(* README: "when system read this file, it output the merged/replaced      *)
(* content of many really files that you set": a description whose files   *)
(* are all there yields an object that can read all of them.               *)
(***************************************************************************)
MergedFileServed ==
    /\ pc # "crashed"
    /\ pc = "done" /\ strict => /\ is_valid
                                /\ \A i \in DOMAIN chunks : chunks[i].fd # -1
=============================================================================
