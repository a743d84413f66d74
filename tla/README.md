# A TLA+ model of merged-fuse

merged-fuse is a FUSE file system that mirrors a source directory. A file whose
name holds `-merged-` is a *description*: a JSON array of entries, each a path
and a list of byte ranges to replace. Read through the mount, a description
yields the files it names laid end to end, with the replaced bytes painted over
them. This directory models that program and the JSON library it parses
descriptions with, checks the model with TLC, and proves with TLAPS that reading
and parsing, the handlers, base64, the scanner, the JSON parser, the readers of
its binary formats and the comparisons are safe. Line numbers are
those of the repository at the commit beside this directory; `concat.cpp`,
`merged-fuse.cpp` and so on are under `src/src/`, `concat.h`, `compare.hpp` and
`json.hpp` under `src/include/`.

## Inventory

| component | state | operations | modelled by |
|---|---|---|---|
| the merged view (`concat.h`) | `chunks`, `replaces` | what a position of the merged file shows | `Concat`, `MergedView` |
| `concat::read`, `concat::replace` | iterators, `offset`, `count`, `bytes_read`, the caller's buffer | one read request, several `pread`s and `memcpy`s | `ConcatRead` |
| life of a `concat`: constructor, `setFile`, `parsing`, `parseJson`, `removeAll`, destructor | `file_size`, `merged_size`, `chunks`, `replaces`, `is_valid`, descriptors of the process | parse strictly (open) or leniently (getattr), delete | `ConcatParse` |
| FUSE handlers that share `open_files` | `open_files`, `the_lock`, `fi->fh`, the heap of `concat` objects | open, create, read, write, release, getattr, rename, unlink, truncate | `MergedFuse` |
| base64 (`base64.cpp`) | none | encode, decode | `Base64` |
| comparisons of mixed signs (`compare.hpp`) | none | less, equal, greater, ... | `Compare` |
| JSON lexer (`json.hpp`) | line buffer, `m_start`, `m_marker`, `m_cursor`, label | scan, get_string, get_number, fill_line_buffer | `JsonTokens`, `JsonScan` |
| JSON parser (`json.hpp`) | the call stack, the values under construction | parse, parse_internal | `JsonParse` |
| JSON values (`json.hpp`) | `m_type`, `m_value` and what it owns | assign, move, swap, insert, erase, compare, point into, patch, diff, flatten | `JsonHeap`, `JsonValue`, `JsonOrder`, `JsonPointer`, `JsonPatch` |
| JSON iterators (`json.hpp`) | a place in a value | increment, dereference, compare, `key` | `JsonIterator` |
| JSON binary formats (`json.hpp`) | bytes, an index | to/from CBOR and MessagePack | `JsonBinaryFormats`, `JsonBinary`, `JsonBinaryWriter` |
| JSON serializer (`json.hpp`) | a stream | dump | strings and integers: `JsonDump` |
| JSON conversions from and to C++ types | none | `get`, constructors | no |
| `parseBinary` | as `parseJson` | none: its only call is commented out (`concat.cpp:168`) | no |
| pass-through handlers (mkdir, chmod, readdir, ...) | none | one system call on the translated path | no |
| `main`, path helpers | `src_dir`, set once | register the handlers | no |
| `main.cpp`, `main.h`, `common.h` | | commented out, not included, macros | no |
| `int128.hpp` | | never instantiated | no |

How they interact. libfuse calls the handlers from several threads. `m_open`
and `m_getattr` call `create_concat`, which holds `the_lock` while a new object
stats and reads its description, parses it with `json::parse`, and opens, stats
and patches every file it names. `m_open` stores a valid object in `open_files`
under the descriptor it opened; `m_read` and `m_write` look it up by that
number; `m_read` then calls `concat::read` with no lock held. `m_release` erases
and deletes the object and closes the descriptor. Descriptors are shared by
everything: the handle, the `fopen` of the description and the chunks of every
object take the lowest free number. The files, and the descriptions themselves,
live in the source directory, where others write at any time.

What is hard about it, and what correctness means:

* a read is several `pread`s on files that change meanwhile; it must return a
  prefix of its window of the merged file or an error, never bytes at a wrong
  place, and never touch memory beyond the caller's buffer;
* parsing is a sequence of system calls on paths, with an exception leaving it
  at a dozen places; what it leaves must be either something a read can rely on
  or nothing, and descriptors must be neither closed twice nor lost;
* the table of open descriptions is keyed by a number the kernel uses again,
  guarded by a lock that is released before the result is used, and emptied
  only if the file's *present* name still says so;
* all of `json::parse` runs on bytes somebody else wrote, under `the_lock`: the
  scanner is generated code that reads most characters without asking whether
  the buffer has them, and exceptions unwind a recursion that holds half-built
  values.

`PROJECT.json` lists the hazards one by one, with the line where each bites and
the property that would catch it.

## The modules

### The file system

`Concat` defines chunks, replacements and `Shows(b, cs, rs, m, p)`: byte `b` is
the one at position `p` of the merged file after the first `m` replacements. A
byte is abstracted to its origin (byte `pos` of chunk or replacement `index`),
which decides every question about what a read returns. `base` of a chunk is
the value of `parseJson`'s `off` when the chunk is pushed; the code does not
store it.

`MergedView` is the abstract specification of a read: the answer to a request is
a prefix of its window, all of it unless a chunk was damaged since the request.

`ConcatRead` is `concat::read` and `replace`. Its variables are the function's
locals (`it`, `offset`, `count`, `bytes_read`, the iterator `rt` of `replace`,
the caller's `buf`), and each action is one turn of a loop with its system
call: `SeekNext`/`SeekDone` (66-67), `CrossWhole`, `CrossShort`, `CrossFail`
(70-85), `TailRead`, `TailFail`, `TailNone` (87-95), `Replace` (one turn of
106-137), `Return`. `Resize` is someone else truncating or extending a file
between any two of them. `errno` after a `pread` that returned 0 is whatever an
earlier call left (`StaleErrno`). A `pread` of a regular file fails only for a
bad descriptor.

`Compare` is the templates of `compare.hpp`, with the conversion of each
`static_cast` where the code has one; a type is its sign and the number of its
values. `ConcatRead` uses its `greater` where `concat.cpp:70` compares a
`size_t` with an `off_t`.

`ConcatParse` is the life of one object: `SetFile` (41-56), `TooSmall`,
`ReadAll`, `Crash` (142-161), one action per exit of `parseJson`'s loops, and
`Delete`. `fdtable` is the process's descriptor table, so a leak, a double
close or an exhausted table can happen. `EditFile` and `EditDoc` change the
files and the description between any two steps. A description is given as
`json::parse` hands it over; when its length changed since `setFile`, the
buffer is cut or uninitialized at its end and any description may be parsed.
`fopen` returning `NULL` is followed by `fread` on it: the model's process stops
there (`Crash`), so runs of this module do not check deadlock. Offsets and
lengths narrow as `long long` and `int` do (`Narrowed`). `lost`, `decoded` and
`before` are history: the descriptors nothing refers to any more, the decoded
size of each replacement, and the descriptors that were open, and on what, when
`setFile` began. `TableRestored` looks at the descriptor table and `before`
alone: a strict parse that succeeds and the destructor leave it as they found
it, closing what they opened and nothing that an earlier parse has left.

`MergedFuse` is the handlers: `Open`/`OpenPlain`/`Create`/`Getattr`/`Read`/
`Write`/`Release` begin a request of a thread, and the steps between are the
places where another thread may run: before and after `create_concat`
(`ParseBegin`, `ParseEnd`, `OpenNormal`), `insert_concat` (`OpenInsert`,
`OpenRefused`), `get_concat` (`Find`) and the use of the pointer it returned
after its unlock (`Found`, `ReadMerged`), `pread` and `pwrite`, `remove_concat`
(`Remove`), `close`. A lock section that neither blocks nor throws is one step.
A description may also block: `ParseBlocks` is `open(2)` of a FIFO, or of a
merged file of this very mount, waiting with `the_lock` held; `ParseResumes` may
or may not happen. `writeonly` holds the descriptors that `creat` returned,
whose reads fail; `forgotten` and, where `KeepForgotten` is set, the heap keep
the objects `m_open` drops without deleting (157). What libfuse and the kernel
guarantee are the guards of `Release` (once, after all other requests on the
handle), and of `Rename` (no request on the path in progress; unlinking an open
file renames it to `.fuse_hidden...`). What one object's parsing and reading do
is in the two modules above; here a description is `plain`, `valid`, `blocking`,
or valid for the lenient parse only (`sizes`).

`Base64` is `base64_encode` and `base64_decode`, one turn of a loop per step:
the group of up to three bytes or four digits that is being collected, and what
has been appended so far. A digit is its position in `base64_chars`; masks and
shifts are products and remainders of `Quarter`, a quarter of a byte, which is 4
in the code. `ConcatParse` uses of it only the number of bytes decoded.

### JSON

`JsonTokens` is what the lexer makes of a token once it is found: `GetString`
with `ToUnicode`, and `GetNumber`, whose integers have `Bits` bits and whose
floats are known by their magnitude. `JsonDump` is the way back, `dump_escaped`
and `dump_integer`. `JsonGrammar` says, as sets of byte sequences and with no
regard to the code, what the tokens of JSON are. `JsonScan` is the generated
scanner: `label` is the number of the label it stands at, `Goto` where each label
goes on the character it reads, `Guard` how many bytes it asks for before,
`Accepted` and `Backtrack` the way back to the last token that was complete.
`Begin`, `Advance`, `Backtrack`, `Skip`, `Found` are its steps; `Take` is the
parser asking for the value, `GetToken` and `Stop` what it does next.

`JsonTree` is values as mathematics has them, `JsonHeap` values as the program
has them: a type, and a number or the address of what is owned. An allocation
takes some free address (`Fresh`); what can be got at from a value (`Reach`) is
the smallest part of the heap that is closed under what its cells own, and
destroying a value frees all of it. `JsonDocuments`
gives the sequences of tokens that are documents, and what each means, by the
grammar of RFC 7159. `JsonParse` is `parse` and `parse_internal`: a frame is an
activation, an action one branch of it, `Unwind` one step of an exception. The
text is arbitrary: each `get_token` may find any token, with what `JsonScan`
shows of the lexer as the only promise. `Room` bounds the model, not the code: an
allocation waits for a free address where the program would run out of memory.

`JsonValue` is the operations that change a value (`Set`, `Clear`, `Assign`,
`Move`, `Swap`, `PushBack`, `Insert`, `InsertRange`, `InsertPair`, `Element`,
`Member`, `AtKey`, `AtIndex`, `EraseKey`, `EraseIndex`, `EraseAll`, `List`), one
call a step, with what each allocates and frees. `JsonValues` is the same calls
on values that share nothing, and throw as documented: `JsonValue` implements
it. `JsonOrder` is `==` and `<`: an unsigned number wraps when it is compared with
an integer, an integer is rounded to `Precision` bits, half to even, when it is
compared with a float, and a float is one of the numbers this gives, or NaN.
`JsonPointer` pointers with `flatten` and
`unflatten`, `JsonPatch` `patch` and `diff`, `JsonIterator` the iterators; these
only compute, so they are operators, and `JsonLaws` states what they have in
common for all values that the operations of `JsonValue` can make, patches
against RFC 6902 written down on its own.

`JsonBinaryFormats` has the tables of first bytes, `JsonBinary` reads bytes as
`from_cbor` and `from_msgpack` do, one first byte or one turn of a loop per
step, every `check_length` included; which bytes is a constant, `Inputs`.
`JsonBinaryWriter` is what `to_cbor` and `to_msgpack` write, byte by byte, and
says that it is read back. The writer recurses over values, the reader does
not, and so the reader can be proved about.

The `MC` modules give the constants their values for TLC. `ConcatReadProofs`,
`ConcatParseProofs`, `MergedFuseProofs`, `JsonScanProofs`, `JsonParseProofs`,
`JsonValueProofs`, `Base64Proofs` and `JsonBinaryProofs` hold the theorems.
Operators whose comment starts with "Mistake:" are plausible errors of the
definition that follows them; nothing uses them but the experiments that show
each property can fail.

## The runs

| run | question | bounds |
|---|---|---|
| `concat` | is every read right, complete while no file shrank, within its buffer, ended, and as `MergedView` says? | 3 chunks of 0-2 bytes with one replacement anywhere inside a chunk, 2 with two (so they overlap, touch and nest), 2 of which opens may have failed; requests of 0, 2 or 6 bytes at 0, 1, 2 and beyond the end; every file resized to 0 or 1 byte at any time |
| `parse_items` | is what an accepted description leaves long enough, and does parsing end? | 2 files of 0-3 bytes, up to three replacements, offsets one beyond either end, lengths -1, 0, 1, 2, the limit, one more, and one that wraps; decoded sizes missing, 0 to the limit |
| `parse_edits` | is it well formed or nothing, is every descriptor one chunk's and closed with it, when everything is edited between any two system calls, by strict and lenient parses? | 8 descriptions of every kind, 4 file states, 3 descriptors |
| `parse_leak` | can proper descriptions always be served? No: finding 1 | 2 files, 3 descriptors, no edits |
| `fuse_handles` | table, objects, reads and writes, whether or not a file changes its name | 2 threads, 2 files, 2 descriptors, 4 addresses, 1 rename |
| `fuse_lock` | is the lock released by every parse that does not block, are plain files served beside one that does, and where is every object? | 2 threads, 2 files, 1 descriptor, 4 addresses |
| `fuse_foreign` | can a read return another description's content? Yes: finding 2 | 2 threads, 2 files, 2 descriptors, 1 rename |
| `base64` | does what is encoded come back, and what of an ill-formed text is decoded? | bytes of 4 bits, digits of 3; all buffers up to 3 bytes, buffers up to 5 and texts up to 6 from a few values, pads and foreign characters anywhere |
| `json_scan` | does the scanner find the longest token, within its buffer, to the end of the text; do strings and numbers mean what they say; is what is dumped read again? | all texts of up to 5 characters of `-08.e+,`, words cut anywhere, marks and blanks, and strings of two of 26 pieces (escapes, halves of pairs, UTF-8 of every length, right and wrong), whole and cut anywhere; integers of 4 bits |
| `json_parse` | does the parser return what the document means, or refuse only what is none, with every value owned once? | every sequence of up to 10 of 15 tokens |
| `json_value` | do values behave as values, and do the laws of order, patch, diff, flatten and iteration hold of all of them? | 2 variables, 3 objects, arrays and strings, 3 members and elements; keys `0` and `~1`, 10 paths; integers of 3 bits, floats of 2; in comparisons and diffs each number is one of 7, of every type, among them pairs that are equal only once they are cast, and NaN |
| `json_binary` | is what is written read back, and are all other bytes refused or read within the vector? | numbers and lengths at both sides of every bound, cut after each byte; every first byte; the forms of each head with 0-8 bytes after it |

Why the bounds are enough. In a read, three chunks give a first, a crossed and a
last one, sizes 0-2 give empty chunks and starts before, on and after a
boundary, and two replacements give every overlap of two. In parsing, a
replacement's fate depends only on its signs and on comparisons with its file's
size, with 1024 and with the widths of the integers: the limit is 4, `int` has
16 values and `long long` 64, so each comparison goes both ways. Two entries
give an earlier chunk to lose when a later entry fails, and three descriptors
fill up. In the handlers, a race has two parties, and two descriptors are
enough for one to be reused while the other is open; four addresses are as many
as two handles and two parsing threads hold at once. In base64, a buffer of five
bytes is one full group and the largest rest, and the shifts depend on the
quarters of a byte alone, which are of one bit here. In the scanner, what a
token is depends on its class of characters and on at most one token before it;
five bytes are the longest lookahead. Ten tokens nest arrays in objects in
arrays, with a name given twice. Two values are what every operation of
`JsonValue` relates, and `MCView` forgets the addresses, which make no
difference once each has one owner; nothing in `JsonLaws` looks at them.

Fairness. `FairSpec` of `ConcatRead` and `ConcatParse` says that the thread
serving the request keeps running (a `pread`, `open` or `stat` of a regular file
returns); that of `JsonScan` says so of the thread that parses; that of
`MergedFuse` of every thread until `open(2)` keeps it. Nothing is assumed of
callers or editors, of a blocked `open` (`ParseResumes` has no fairness), nor of
the order in which the mutex is granted: that is why `LockReleased` says that
whoever parses lets go unless it blocks, not that every waiter gets its turn,
and why `PlainServed` is about plain files, which never ask for the lock.

`CHECK_DEADLOCK FALSE` stands in the configurations whose system stops: a parsed
text, a process that crashed, a table of addresses that is full.

## Findings

1. `parse_leak`: each `getattr` of a description opens its files
   (`concat.cpp:362`) and, being lenient, goes on to the next entry without
   keeping the descriptor (369). When the table is full, descriptions stop being
   served: their chunks have no descriptor, or `fopen` returns `NULL`.
2. `fuse_foreign`: `m_release` decides by the present name whether there is an
   entry to remove (`merged-fuse.cpp:207`). A file renamed away from `-merged-`
   while it is open leaves its entry behind; the next handle on the same
   descriptor number either is refused with `EBADF` (line 90) or, when `m_create`
   made it, reads the content of the old description.

Met while modelling, and modelled as the code has it, but with no run of their own:

* README line 173, "If **offset** is out of file, return error":
  `concat.cpp:390-391` skips the replacement and accepts the description. README
  line 175, "length [short]: max value is 1024": `concat.cpp:383` narrows the
  number to `int` first, so 2^32 + 2 is taken for 2.
* `json.hpp:13277` documents `j == j.flatten().unflatten()`; an object whose first
  path leads to a member named `0` comes back as an array. `FlattenReturns`
  leaves these objects out.
* `patch` is more lenient than RFC 6902: a missing parent is created, a removal
  below a value that holds nothing does nothing (13459-13477), a copy to an
  element replaces it, an index may be written `01`. What `stoi` throws is no
  `json` exception, the `assert(false)` of 13446 can be reached. The order
  in which 13571 reads and creates is the compiler's, and so is whether a test or a
  replace without a value is refused for that or for its path (13544, 13582).
* An unsigned number from 2^63 up equals a negative integer (6216), and an integer
  beyond 2^53 equals the float it is rounded to (6200-6212), so `==` and `<` are
  not transitive among numbers of several types; `Ordered` asks only that of two
  values without NaN exactly one of less, equal, greater holds.
* NaN equals nothing, itself included (6138), and is neither less nor greater. A
  value that holds NaN therefore is not equal to its own copy, and the documented
  `source.patch(diff(source, target)) == target` (`json.hpp:13619`) fails for such a
  target whatever the patch does. `Ordered` says what holds with NaN: never two of
  less, equal, greater, and never equal; `DiffThenPatch` leaves these targets out.
* `operator[]` with the index -1 on an empty array fills it up with 2^64 nulls,
  which is none, and then goes out of bounds (3991-3998); the pointer `/-1` leads
  there. The model stops with `OutOfBounds`; no law speaks of such a path.
* CBOR's negative integers of eight bytes below -2^63 are read as non-negative
  (8519). The parser's callback is called with inconsistent depths (12161,
  12240); the program passes none. `rend() - rbegin()` is negative, since
  `json_reverse_iterator` subtracts the bases in the wrong order.

## What is proved

The assumptions are those named in the modules, on the constants only; TLC
evaluates them in the runs.

**Comparing.** `ConcatReadProofs` proves `ComparesAsIntegers`: for every two integer
types and all their values, the six comparisons of `compare.hpp` decide what the
integers decide. The cases are whether one of the signs differs and whether the
value of the signed type is negative; otherwise `CastKeeps` says the conversion
changes nothing. `concat.cpp:404` compares with `sweet::less`; `ConcatParse`
compares the values, which this theorem justifies.

**Reading.** `ConcatReadProofs` proves, for every set of well-formed objects,
every offset, count, buffer size, width of integers and every resizing of the
files:

* `TypeCorrect`: `Spec => []TypeOK`;
* `ReadIsCorrect`: `Spec => []ReadCorrect`, the bytes returned are those of the merged file;
* `ReadIsComplete`: `Spec => []ReadComplete`, all of them if no file shrank;
* `BufferIsRespected`: `Spec => []BufferRespected`;
* `ReadImplementsView`: `Spec => ImplementsView`, the read refines `MergedView`.

None of the three safety properties is inductive: `ReadCorrect` speaks of
finished requests only. The invariant `ReadInv` adds what each program point
knows. While seeking, `chunks[it].base + offset = off`, or the request lies
beyond the end. While crossing, the first `bytes_read` cells of the buffer show
the merged file *without* replacements from `off` on (`Filled(0)`), the rest is
unwritten, `count + bytes_read = size`, and the next byte wanted is at `base +
offset`. While replacing, the cells show it with the first `rt - 1` replacements
(`Filled(rt - 1)`). At each of the last two, what has been read is the whole
window if nothing was damaged. Each action has a lemma that it preserves
`ReadInv`; the loops that copy share `FillStep`, `ShowsPatch` is the step
from `m` to `m + 1` replacements, and `CrossingExact` takes the comparison of
mixed signs from `ComparesAsIntegers`.

**Parsing.** `ConcatParseProofs` proves, for all descriptions, file states,
descriptors, edits and widths of integers: `TypeCorrect`, `ParsedIsWellFormed`,
`FailedLeavesNothing`, `ContentSuffices`, `DescriptorsAreOwn`,
`DescriptorsAreAccounted` and `StrictLifeIsNeutral`. The first of the safety
properties speaks of finished parses, so `ParseInv` says what a parse has built
so far: a strict one has laid its chunks end to end up to `off`, one for each
entry before `ct`, each replacement lies in one of them or in the chunk under
construction (`Placed`), and `merged_size` is `off`, plus that chunk's size once
it is measured; a lenient one has no chunks. For descriptors, it adds that the
chunk under construction has one of its own, open on its entry's file
(`OwnThis`), and that what is lost while a strict parse runs, and after it
succeeded, is what was open before it, on the same files (`TableInv`): with the
accounting of the other descriptors, closing those of the chunks leaves just
that table. `KeptInside` is the arithmetic of a replacement: after narrowing,
sign, range check and cut, its range is not empty and lies in its file.
`OneMoreChunk` and `InsideMore` carry the layout over to a longer list. `ParsedIsWellFormed` is what `ObjectsWellFormed`, the assumption
of the proofs about reading, asks of every object.

**Handlers.** `MergedFuseProofs` proves, for any number of threads, files,
descriptors and addresses, and with files renamed at will, `TypeCorrect`,
`NeverUsedAfterFree`, `EachDeletedOnce` and `HeapIsAccounted`. Their invariant
`SafeInv` adds to the types what each thread knows about its request (`Knows`:
between `get_concat`'s `find` and the end of the read the entry is there and
leads to the object found, because a handle is released only after its other
requests), that a descriptor being opened or closed is no handle and no other
thread's (`OwnDescriptor`), and that an object parsed but not yet inserted is no
other thread's and in no entry (`OwnObject`). Until a file gains or loses its
name (`NoRename`), it proves `TableIsSound`, `ReadsAreAsOpened`,
`WritesAreRefused`, `OpensAreServed` and `NoneIsStranded`; `NamedInv` adds that
every entry belongs to a merged handle or to the release that is removing it and
is of the description its descriptor is open on (`EntrySound`), that every
merged handle has an entry (`MergedHandles`), and that each open descriptor is a
handle or belongs to a request. Finding 2 shows that the condition is needed.

**Scanning.** `JsonScanProofs` proves, for every text of bytes, `TypeCorrect` and
`BufferIsRespected`: no label reads past the buffer. Most labels do not ask; the
invariant `Slack` says how many bytes each may rely on (`Need`), because the
label the token began at asked for five, or the last digit for three.
`NextNeed` goes through all labels and characters: what a label asked for, or
was promised, less the byte it has read, is enough for the next.

It also proves `LongestIsFound`: `Spec => []LongestToken`. Whatever the text is,
`scan` returns the longest token that what is left of it begins with, and an error
exactly where there is none. This relates about seventy generated labels to the
grammar of `JsonGrammar`, through every refill of the buffer and every return to
the marker. The argument has three parts.

* The grammar speaks of sequences; the labels of places. `KindsOf` restates it by
  places: the first `n` bytes of the text are a number, a string or a word where
  `RealAt`, `ClosesAt` and so on say so. `AllUnits` says that a string can be *cut*
  into units, rather than taking them off one by one, so that no induction is
  needed: `UnitsUnfold` takes off the first by choosing the cuts anew.
* `Left(q, R, k, n, T)` is what `R[k + 1] .. R[n]` must be for the first `n` bytes to
  be the token `T`, when label `q` has been reached after `k` bytes. `Begun` says so
  after the first byte, `StepNumber`, `StepWord` and `StepString` that one byte more
  keeps it so, one label at a time, and `NextEnds` and `LeftHere` what has been
  found when nothing is left to read.
* The invariant `Scanned` adds to `Slack` that the buffer shows what is left of the
  text (`Synced`, kept by `PaddedSynced` when the buffer is filled) and that the scan
  knows its tokens (`Progress`): a longer one is what the label leaves open
  (`Viewed`), of the shorter ones the marker and `yyaccept` are at the longest
  (`Marked`), and a leading zero, after which a digit makes an error of the whole,
  is not forgotten (`Zeros`). There is a lemma for each action: `BeginScanned`,
  `AdvanceScanned`, `BacktrackScanned`, `SkipScanned`, `FoundScanned`.

**Base64.** `Base64Proofs` proves, for every buffer, every text and every width
of a quarter of a byte, `TypeCorrect` and

* `RoundTripHolds`: `Spec => []RoundTrip`, what is encoded comes back;
* `DecodesPrefixHolds`: `Spec => []DecodesPrefix`, any other text decodes to the
  bytes its leading digits fill, quarter by quarter.

`RoundTrip` speaks of the end of decoding. `IInv` says what is true before it:
while encoding, that the text so far is the groups of four digits that the
groups of three bytes before `at` split into (`Encoding`); between, that the
text is those and one last padded group (`Encoded`); while decoding, that `ret`
is the buffer up to the last group of digits and `group` the digits of the next
(`Decoding`). `JoinSplit` is the arithmetic, that four digits join to the bytes
they were split from, and `PaddedDigits` that the digits of an unfinished group
do not depend on what it was filled up with. `PrefixInv` does the same for any
text, where a quarter of a byte is what `ret` and the text are compared by.

**The JSON parser.** `JsonParseProofs` proves, for every sequence of tokens and
every set of addresses,

* `OneOwnerHolds`: `Spec => []OneOwner`, what `parse_internal` allocated has one
  owner at every step, also while an exception leaves the activations, so that
  nothing is leaked and nothing freed twice;
* `TypeCorrect`: `Spec => []TypeOK`, an activation that adds members has an
  object, one that adds elements an array, and one that has not read a bracket
  nothing.

`OneOwner` counts owners and asks what can be got at. The invariant `IInv` says
the same as a relation, `Points`: place `k` of a cell, or of the results, owns
address `a`. `Kept` of it is that what is owned is there and of its type
(`Sound`), that no address is owned at two places (`Unique`), and that whatever
part of the heap the results and its own cells do not point out of is all of it
(`Reached`); `KeptIsSingle` leads back to `OneOwner`. Four lemmas say that `Kept`
survives what a step can do to an owner, whatever the heap: `OwnerComes` (`Open`,
`String`), `OwnerMoves` (`AddMember`, `AddElement`), `OwnerGoes` (`Unwind`) and
`SlotGoes` (the member that `AddMember` replaces); `ReachIsPart` is why freeing
what a value leads to takes nothing that another place leads to. All other steps
only hand results on (`OwnersStay`).

**JSON values.** `JsonValueProofs` proves, for any number of variables, all names
and texts, all scalars, every finite set of addresses and every bound,

* `OwnedOnceHolds`: `Spec => []OwnedOnce`, whatever calls a client makes, each
  object, array and string is owned by exactly one value, of its type, and can be
  got at from a variable: a copy shares nothing, what is moved from owns nothing,
  what is replaced, erased or assigned over is freed once, with all it holds;
* `TypeCorrect`: `Spec => []TypeOK`, variables, members and elements are values,
  and every cell is what its kind says.

The assumptions on the constants are that addresses are finitely many positive
numbers, that the bounds are numbers, that names are bytes, and that the scalars
are of the types whose `m_value` owns nothing. The invariant `IInv` is that the
variables are values and `Kept(heap, vals)`: as in the parser, what is owned is
there and of its type, has one owner, is held at one place of it, and is reached;
`KeptIsSingle` leads back to `OwnedOnce`. A call allocates, copies, moves and
destroys several values, and between two of these the variables do not own
everything. So `Kept` is stated of any roots, and a value that is on its way (a
copy not assigned yet, a value swapped out that will be destroyed, a temporary of
an initializer list) is a root of its own, under a name no variable has
(`With(roots, x, v)`). Each call is then a few steps over all heaps and roots:
`CopyKept` adds a deep copy (`Copied` renames what is reached, and
`RenamesApart` says that no two get one address), `NewKept` an empty cell,
`PutKept` moves a root into the cell of another, `TakeKept` back, `DropKept` and
`DestroyKept` free a part, `AssignKept` swaps and destroys, and `AbsorbKept` lets one
array take all elements of another and frees the shell. There is a lemma for each
action (`SetKept` to `ListKept`), about arrays with what `InsertAt`, `RemoveAt` and
`\o` make of a sequence (`InsertAtIs`, `RemoveAtIs`, `SplicedIs`), and `NextKept`
puts them together. In `InsertRange`, where the copied array is freed but not its
elements, and in `List`, where two pairs lose their values before they are
destroyed, this is most of what there is to go wrong.

**Binary formats.** `JsonBinaryProofs` proves, for all bytes in either format,

* `ReadsInVectorHolds`: `Spec => []ReadsInVector`, no index is used that the
  vector does not have;
* `TypeCorrect`: `Spec => []TypeOK`, loops are nested as values are, none reads
  more than its head announced, and none is left when a value is returned.

The invariant `Within` keeps `idx` and `touched` at most the length of the
vector, which every action restores through `Checked`: what `check_length` lets
pass is there. `Heads` goes through the first bytes, for what each table promises
of the width of the length that follows. `Nested` says of each loop that the
values it holds and those it still expects are what its head announced; `Push`
and `Pop` carry it over the beginning and the end of a loop.

Model-checked only: liveness (`Answered`, `ParseEnds`, `LockReleased`,
`PlainServed`, `ScanEnds`), since the prover has no rule for fairness and ENABLED
that reaches them. Of JSON, whatever speaks of what all strings, values or
documents mean (`TokenMeans`, `DumpedIsRead`, `ParsesDocuments`,
`WrittenIsRead`, `ImplementsValues` and the laws of `JsonLaws`): these are
recursive definitions, and a proof would be an induction over data, which is out
of the prover's reach; the modules that only TLC uses therefore declare
`RECURSIVE` operators where trees ask for them.

## Not modelled

* `dump` of arrays, objects and floats: its layout is fixed text around what
  `JsonDump` models, its floats are `snprintf` and the locale's. The program
  dumps nothing.
* The conversions between values and C++ types, which the compiler resolves, and
  the parser's callback, which the program passes nowhere.
* The memory of a `std::vector` or a `std::map`: what an operation is given does not
  move while it runs, so `push_back` of an element of the array itself, which the
  standard library must allow for, is not told from that of another value.
* Floats other than those that integers are rounded to: fractions, infinities and
  numbers out of the integers' range compare as the processor has it.
* The stack: `parse_internal` recurses once per bracket (12153) with no bound.
* Sizes of a description that a strict parse refuses: `m_getattr` reports the
  merged size (`merged-fuse.cpp:229`), and `m_open` serves the text. `MergedFuse`
  has such descriptions, but compares no sizes.
* Paths: an entry's relative path is the path it stands for.
* Errors of `pread` other than a bad descriptor, and sums beyond `off_t`.
* `parseBinary`, which nothing calls; the handlers that pass one system call on
  to the source directory, and `main`: they keep no state.
* `int128.hpp`, which `compare.hpp` includes for an instance nothing uses.

## Plan

Done in this order: `Concat` and `ConcatRead` (what the program is for), its
refinement of `MergedView` and the proofs, `ConcatParse`, `MergedFuse`, their
proofs, `Base64`, `Compare` and its place in the reads, blocking descriptions,
access modes and forgotten objects in `MergedFuse`, the scanner and its proof,
the parser, values and their laws, the binary formats, iterators, strings and
integers of `dump`, and the proofs about base64, the readers of the binary
formats, the parser, the tokens of the scanner and the ownership of values. What
is left:

1. a composition of getattr and read: the size reported against the bytes read,
   for descriptions a strict parse refuses;
2. `dump` of whole documents against `JsonDocuments`.
