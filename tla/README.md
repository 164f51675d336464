# LeoUTF8: specifications, model checking and proofs

LeoUTF8 is a small C and Objective-C text layer for Mac OS X 10.5: it validates
UTF-8, counts its code points, brings it into the normal forms NFC and NFD,
folds case, and carries text across the border to CoreFoundation and Foundation.
The work is done by a vendored copy of utf8proc 2.11.3. This directory holds TLA+
models of that code, what TLC checks of them, and what TLAPS proves.

## 1. Inventory

| Component | Source | State | Operations |
|---|---|---|---|
| utf8proc codec | `vendor/utf8proc/utf8proc.c` 124-201 | none | `utf8proc_iterate`, `utf8proc_encode_char` |
| scanning | `Sources/LeoUTF8Core/LeoUTF8.c` 106-182, 220-236 | a cursor, the bytes left, a local count; the caller's `*count` | validate and count, by bytes or as a C string |
| mapping | `LeoUTF8.c` 40-84, 184-218, 238-276 | the caller's `*out`, `*outLen`, the heap | NFC, NFD, case folding, by bytes or as a C string; `LeoUTF8Free` |
| mapping engine | `utf8proc.c` 380-397, 452-803 | a word buffer that becomes the text, three cached values of composition | decompose (twice), order, compose, reencode, shrink |
| property tables | `utf8proc_data.c` (generated) | none | look-ups |
| CoreFoundation bridge | `Sources/LeoUTF8CoreFoundation` | retained objects, a temporary buffer | bytes to `CFString`, `CFString` to `CFData` |
| Foundation bridge | `Sources/LeoUTF8Foundation` | retained objects | bytes to `NSString`, `NSString` to `NSData` |
| version, status messages | `LeoUTF8Version.c`, `LeoUTF8.c` 86-104 | none | constants |
| programs on the library | `Sources/LeoUTF8CLI`, `Tests/consumer_*`, `Examples` | their output variables, what they have yet to release, the exit code | a line of checks that ends at the first failure |
| probes of the fuzzer | `Tests/leofuzz_*` | an open file, a line buffer, the two byte strings of a case file, the output | read a file whole, or a case file line by line; a verdict as an exit code |
| HFS+ probes in C | `Research/HFSPlus/hfsplus_filename_probe.c`, `hfsplus_case_probe.c` | directories and files on the disk, whether the second spelling matched, the entries read | remove, create, create exclusively, list; conclude |
| HFS+ probes on the frameworks | `Research/HFSPlus/*.m` | none | print what the frameworks answer |
| build | `Makefile`, `tools` | - | - |

Interaction is by call only: a program calls a bridge or LeoUTF8Core, a bridge calls
scanning, scanning calls the codec, mapping calls the engine, the engine calls the
codec and reads the tables. There is no thread, no callback, no global that changes.
Only the HFS+ probes leave something behind that their next run meets: files. What is hard is elsewhere:

* *edges of the encoding* - truncation, overlong forms, surrogates, the end of the
  buffer with more memory behind it;
* *two passes that must agree* - the engine decomposes once to measure and once to
  write; the CoreFoundation bridge converts once to measure and once to write; the
  Foundation bridge asks one method for bytes and another for their number;
* *in-place work* - canonical ordering that steps back, composition that writes
  behind its own reader and caches properties of what it overwrites, encoding over
  the words being read;
* *ways out* - a program that has been handed three objects has a dozen exits, each
  with its own list of what to release, written by hand;
* *leftovers* - a probe that was killed has left files, and the next run takes what it
  finds on the disk for evidence;
* *ownership and failure* - which of the client's variables holds memory or an
  object after any sequence of successes, failures and releases, and what the
  status says of them.

What makes each component correct: the codec is a bijection between scalar values
and their encodings; scanning accepts exactly the well-formed strings and writes
the count exactly on success; the engine returns the normal form of the standard
in memory it allocated; mapping hands out each allocation once and tells the truth
about it; a bridge carries a text whole and unchanged or not at all. A program holds
nothing when it exits and its exit code is earned; what an HFS+ probe concludes is true
of the file system it ran on.

PROJECT.json lists the hazards line by line with the properties that cover them.

## 2. The modules

| Module | Models | Extends / used by |
|---|---|---|
| `Utf8procAPI` | option sets and error codes | |
| `Utf8Codec` | `utf8proc_iterate` and `utf8proc_encode_char` as operators on byte sequences | |
| `LeoUTF8Status` | statuses, the two conversions between them and utf8proc | `Utf8procAPI` |
| `LeoUTF8Scan` | the four scanning functions, a loop turn per step | `Utf8Codec`, `LeoUTF8Status` |
| `Utf8WellFormed` | *abstract*: the Unicode table of well-formed byte sequences; one atomic answer per call | implemented by `LeoUTF8Scan` |
| `Utf8procData` | decomposition of one character, Hangul arithmetic, the tables as constants | `Utf8Codec`, `Utf8procAPI` |
| `UnicodeNormalForms` | normal forms and case folding as the standard defines them, and which answers to a call are right by them (`RightAnswer`); definitions only | `Utf8procData`, `Utf8Text` |
| `MappingPromise` | *abstract*: one atomic, right answer per call | implemented by `Utf8procMap` |
| `Utf8procMap` | `utf8proc_map_custom` and everything under it, a loop turn per step | `UnicodeNormalForms` |
| `LeoUTF8Core` | `LeoUTF8MapBytes`, the six functions over it, `LeoUTF8Free`, the client and the heap | `LeoUTF8Status` |
| `Utf8Text` | byte strings as texts: characters, encoding, well-formedness | `Utf8Codec` |
| `Utf16Text` | *external*: strings as the frameworks keep them, and their conversions | `Utf8Text` |
| `LeoUTF8Bridge` | what the two bridges share: client, objects, shape of a call | `LeoUTF8Status`, `Utf16Text` |
| `LeoUTF8CoreFoundation`, `LeoUTF8Foundation` | the bridges | `LeoUTF8Bridge` |
| `TextBridge` | *abstract*: a text crosses whole and unchanged or not at all, and every call is answered | implemented by both bridges |
| `CoreClients` | the C probe, example and consumer, composed with the mapping functions | `LeoUTF8Core`, `Utf8Text` |
| `BridgeClients` | what the programs on either bridge share | `LeoUTF8Bridge` |
| `CoreFoundationClients`, `FoundationClients` | those programs, composed with their bridge | `BridgeClients` and the bridge |
| `ProbeProcess` | what the probes of the next two modules share: which one runs, its statement, its exit code | |
| `LeoFuzzProbes` | the three probes a fuzzer runs | `ProbeProcess` |
| `HFSPlusProbes` | the filename and the case probe, killed and run again, on an *external* file system | `ProbeProcess` |
| `Utf8CodecProofs` | theorems on the codec; lemmas on decoding whole texts, on `FlattenSeq` and on recursive functions | `Utf8Text` |
| `LeoUTF8ScanProofs`, `Utf8procMapProofs` | theorems and proofs | `LeoUTF8Scan`, `Utf8procMap`; `Utf8CodecProofs` |
| `LeoUTF8CoreProofs` | theorems and proofs, of the mapping functions and of the programs on them | `CoreClients` |
| `LeoUTF8BridgeProofs` | lemmas: what a step of either bridge does to the holders of objects and to a text on its way | `LeoUTF8Bridge`, `Utf8CodecProofs` |
| `LeoUTF8CoreFoundationProofs` | theorems and proofs, of the bridge and of the programs on it | `CoreFoundationClients`, `LeoUTF8BridgeProofs` |
| `LeoUTF8FoundationProofs` | theorems and proofs | `LeoUTF8Foundation`, `LeoUTF8BridgeProofs` |
| `ProbesProofs` | theorems and proofs, of the probes of the fuzzer and of the research | `LeoFuzzProbes`, `HFSPlusProbes`, `Utf8CodecProofs` |
| `MC...` | instances for TLC | |

### How state and actions correspond to the code

**LeoUTF8Scan.** `bytes`, `length`, `p`, `remaining`, `localCount` are the arguments
and locals of `LeoUTF8ValidateBytes` and `LeoUTF8CodepointCountBytes` (they differ
only in `counting`, whether a count is kept and delivered); `count` is the caller's
variable and survives calls. `Memory` is what the caller's pointer points at, and a
call may give a length shorter than it, so that an over-read would find real bytes.
Offsets are from `bytes`, counted from 0; sequences are read with `At(s, i)`. The
four `Call` disjuncts are the entry points with their argument checks; `Advance`,
`Reject` and `Accept` are a turn of the loop that decodes a character, one that does
not, and its end.

**Utf8procMap.** `pc` names the loop that is running. The buffer is one allocation
seen twice, as words (`buffer`) and, from its first byte on, as text (`out`); a word
the text has covered reads as `UNSET`, so an encoder that overtook its reader would
encode garbage in the model as in memory. `allocated` is the size passed to
`malloc`. `starter`, `starterProperty` and `maxClass` are the three cached locals of
`utf8proc_normalize_utf32`. A word that was never written is `UNSET` too. A starter's
composition table is identified by the starter, which is what makes a stale cache
visible. `MaxWords` stands for `SSIZE_MAX/sizeof(utf8proc_int32_t)/2`.

**LeoUTF8Core.** Texts, lengths and addresses are abstract, the engine is one step
with the outcomes `MappingPromise` allows it: fresh memory with the mapped text,
or an error that leaves nothing behind. `Places` are the client's pairs of
variables; `mine` is what a client that follows the header has to remember (which
`*out` it must still free); `heap` is what is allocated. A client does not pass a
place it has yet to free, and it calls `LeoUTF8Free` once. A freed pointer stays in
its variable, and with `Prepare` a client sets its variables to anything (`Leftovers`
are the lengths) before a call, as one that declares them without a value does: that
is what a failing call could leave there.

**The bridges.** `objects` holds the live retained objects, strings as UTF-16 units
and data as bytes. CoreFoundation and Foundation are external: any call that makes
an object may fail, `CFStringGetBytes` stops at the first lone surrogate and answers
how many units it converted, `canBeConvertedToEncoding:` is false of such a string.
`usedBytes` and `buffer` are the locals of `LeoUTF8CopyUTF8DataFromCFString`; `utf8`
is the C string `UTF8String` answered, with its NUL. A call's `pc` names the
framework call it stands before. Strings are immutable and there is one thread, as
the code assumes.

**The programs.** A program's steps are joined with the steps of the library it calls:
`pc` and `call` are the library's, `at` is the statement the program has come to. On
LeoUTF8Core a program is a sequence of checks (`Probe`, `Example`, `Consumer`), consumed
from the front; a scanning call, which keeps nothing, is one step. On a bridge,
`toRelease` is the list of the variables a way out releases, in the order of the source,
one per step. Releasing twice, or `CFRelease` of NULL, is undefined behaviour and ends
the process: the step is not enabled, so that the program never exits and
`EndsWithVerdict` fails. `LawfulClient` says that the composition implements the
specification of the library with its most general client, so that every theorem about
that holds of the programs. The texts are those of the programs, the bridges' sample
shortened to its last word.

**The fuzzer's probes.** A case file is any bytes, and `offset` is how far it was read.
`LineEnd` is where `fgets` stops: behind a newline, where the buffer is full, or at the end
of the file; `InBuffer` is what the probe sees of that line, which is a C string and ends
before its first NUL. The rest of a line longer than the buffer is the next line, and is
looked at for a key like any other. `Digits` are the values `HexValue` gives of what
follows a key without its blanks, -1 for what is no digit. `live` counts the buffers that
were allocated and not freed. Any call of the C library may fail, `fgets` included, which
looks like the end of the file and is told from it by `ferror`.

**The HFS+ probes.** A name is its letters, their case and the state of its accents.
The file system is external: what it stores (`Stored`) and which names it takes for one
(`Key`) is fixed for a run and unknown to the probe. `RemoveLeftovers` is the probe's
`rm -rf`, whose answer it ignores: it may leave any part. `RunAgain` is a kill at any
step, or an exit, and another run over the same disk.

## 3. What is checked

Every property of a passing run is also run against a mutant: a definition of the
model changed as a plausible bug would change the code (the definitions headed
"Mutant:"), which must violate it.

| Run | Shows |
|---|---|
| `scan` | over sequences of calls, on 95 pieces of memory and every length in and at the end of each: the cursor is always between two characters and the count is of those behind it (`CursorBetweenCharacters`); a scan gives up only where no character starts (`RejectsAtFirstDefect`); the scan implements `Utf8WellFormed`, so that the status and the count are the standard's, the caller's `*count` changes on success only, and every call returns (`Promised`) |
| `map` | the engine stays in its allocation, NUL included (`WritesStayInAllocation`), its second pass writes what the first measured (`SecondPassFillsBuffer`), ordering leaves no exchangeable pair behind although it steps back (`OrderedBehind`), composition's caches are what a fresh look would find (`CompositionCachesFresh`), encoding never overtakes reading (`TextBehindReader`); the answer is stable under mapping it again (`AnswerIsStable`); the whole implements `MappingPromise` with the answers `UnicodeNormalForms` calls right, errors and termination included (`Promised`) |
| `ownership` | each live allocation has one holder (`OneHolderPerAllocation`); the status tells the truth about the outputs (`StatusTellsOutputs`) and about the text (`StatusTellsText`) |
| `corefoundation` | each live object has one holder (`OneHolderPerObject`); `*out` is an object of the right kind or NULL, as the status says (`StatusTellsOutput`); why a call failed is told rightly (`StatusTellsText`); the conversion buffer is freed on every way out (`BufferLivesInCall`); the bridge implements `TextBridge` (`Promised`) |
| `foundation` | the same, for bytes and a length that come from two methods: a text with a NUL inside crosses whole |
| `core_clients` | the C programs keep a client's side of the contract (`LawfulClient`: they free once, and nothing a refused call left in a variable), hold no memory at exit (`NothingHeldAtExit`), and exit, with 1 exactly when memory ran out (`EndsWithVerdict`): the probe's own checks, the one of the cleared length among them, never fail for another reason |
| `corefoundation_clients` | the same of the programs on that bridge, where each later failure has one more object to release |
| `hfs` | "matched existing file" is printed exactly when the file system takes both spellings for one name, whatever killed runs left (`MatchedMeansSameName`); the evidence `docs/findings` takes for decomposition is printed by no file system that does not decompose, although a directory may be read in part (`SignatureMeansDecomposition`); memory and the directory stream are given back on every way out (`NothingKeptAtExit`) |
| `leofuzz` | exit code 0 is earned: by well-formed input, or by a case file in which whatever follows a key is pairs of digits, as far as the probe sees the line, and whose last expectation is the whole output for its last input (`OkIsEarned`); buffers and the file are given back on every way out (`NothingHeldAtExit`) |
| `failure_contract` | a disagreement, see section 6 |
| `foundation_contract` | a disagreement, see section 6 |
| `foundation_clients` | a string that is never released, see section 6 |

### Bounds, and why they are enough

* **scan**: a character or a defect from each side of every boundary of the
  well-formedness table, followed by nothing, a NUL, another character, a stray
  continuation byte or a long lead byte; every prefix length, so that each sequence
  is cut everywhere with its missing bytes lying beyond the end. The decoder looks at
  four bytes at most, and a call's only memory of earlier characters is the count.
  `LONG_MAX` is 7: the one thing asked of it is that a longer length is refused.
* **map**: real entries of `utf8proc_data.c` for 38 characters, closed under
  decomposition, folding and composition; among them marks of four classes, a
  character that decomposes in three steps, singletons, exclusions from composition,
  one-to-three folding, a mark that folds to a starter, Hangul and its neighbours, and
  characters of one to four bytes. Strings are all of at most two of 25 of these
  characters, of at most four and of three from smaller sets chosen around marks, folding
  and Hangul, and malformed sequences between two characters: an exchange followed by a step back,
  a blocked mark and a composition of a composition all happen. `MaxWords` is 6, so that the
  overflow check is reached by some strings and not by others.
* **ownership**: two places and three addresses, one more than can be in use, so that
  `malloc` may or may not reuse a freed address; one text of each kind (empty, mapped
  to two lengths, malformed, too long to map, of a length no `size_t` of utf8proc has);
  a variable may hold any address and a length of 0 or 7 before a call. `SYMMETRY`
  exchanges places and addresses, which the code treats alike; the run has no liveness.
* **bridges**: two places, two addresses; byte strings and strings empty, with a NUL
  inside, with characters of one to four bytes and one and two units, cut off,
  containing an encoded surrogate, and with lone surrogates at the end, at the start
  and in front of a pair. A client may also pass back any string it was handed.
* **programs**: the programs are finite and run as they are; there is one address more
  than a program can use at a time, and every allocation and every framework call may
  fail.
* **hfs**: one file system that compares bytes, one that takes canonically equivalent
  names for one and keeps them as given, one that also folds case and stores names
  decomposed. The five pairs of names are those of the source. Runs repeat without bound.
* **leofuzz**: all case files of at most three of 15 pieces, so that each key can be given
  twice with something between. The pieces are lines with digits, blanks, an odd digit, a
  character that is none, junk behind a NUL, or nothing behind a key; a line without a
  key; and lines too long for the buffer or without a newline, so that the rest of a line
  is digits, another key, or half of one. `LineSize` is 18, which leaves 7 characters
  behind the key of the input and 4 behind that of the expectation, as 4096 leaves 4085
  and 4082: one odd, one even, so that a cut makes a line malformed in one case and
  silently shorter in the other.

### Fairness

`WF_vars(Run)`: a function that was entered keeps executing. That is all ordinary
sequential code needs; nothing is assumed of the client, which may stop calling or
never free. `LeoUTF8Core` states no liveness and no fairness. The programs are
composed as one sequential process, program and library together, which goes on until it
exits: `WF_allVars(ClientsNext)`, again no more than that the process is scheduled. The
HFS+ and fuzzer probes have safety properties only; deadlock is not checked where a
program ends.

## 4. What is proved

For every value of the constants that satisfies the named assumptions:

| Theorem | Establishes |
|---|---|
| `Utf8CodecProofs!DecodeEncode` | what `utf8proc_encode_char` writes of a scalar value, `utf8proc_iterate` gives back, at any offset of any buffer, without looking further |
| `Utf8CodecProofs!IterateSound` | what `utf8proc_iterate` accepts lies before the end and is the encoding of a scalar value |
| `LeoUTF8ScanProofs!TypeCorrect`, `CursorCorrect`, `RefusalCorrect` | the invariants of the `scan` run, for any memory and any lengths |
| `LeoUTF8ScanProofs!AnswersAsPromised` | the scan implements `Utf8WellFormed` step by step: `Promised` without its fairness |
| `Utf8procMapProofs!EngineInvariant`, `MapTypeCorrect`, `NoWriteOutside`, `PassesAgree`, `OrderingComplete`, `CachesFresh`, `ReaderAhead` | the invariants of the `map` run about the buffer and the loops, for any byte strings, any memory limit and any tables that satisfy the assumptions |
| `Utf8procMapProofs!EncodesIntactWords` | what `utf8proc_reencode` reads is a code point: no indeterminate word, none its own text has covered |
| `Utf8procMapProofs!DecomposeCharFull` | `utf8proc_decompose_char`, look-ups, recursion and Hangul arithmetic together, gives the full mapping of the standard |
| `Utf8procMapProofs!EngineMeaning` | what each loop has computed at every turn, in the standard's terms |
| `Utf8procMapProofs!AnswersRightly`, `PromisedIfAnswered` | the engine implements `MappingPromise` step by step: the text is the normal form or folding of `UnicodeNormalForms`, each error code is given where it applies. `Promised` adds only that calls return |
| `Utf8procMapProofs!AnswersStable` | `AnswerIsStable`: mapping an answer again changes nothing, and composing what was decomposed is composing |
| `LeoUTF8CoreProofs!CoreTypeCorrect`, `NothingLeaks`, `StatusReliable`, `StatusHonest` | the invariants of the `ownership` run, for any number of places, texts and addresses, whatever the variables held before |
| `LeoUTF8CoreProofs!ProgramsAreLawful`, `ProgramsHoldNothing` | `LawfulClient` and `NothingHeldAtExit` of the `core_clients` run, whatever fails and whatever `malloc` answers |
| `LeoUTF8BridgeProofs!TwoPassesWhole` | `CFStringGetBytes` measures a string whole exactly if it has UTF-8, and then fills a buffer of the measured size with that text |
| `LeoUTF8CoreFoundationProofs!BufferTypeCorrect`, `ObjectsHeldOnce`, `OutputsTrue`, `BufferFreed`, `StatusTruthful` | the invariants of the `corefoundation` run, for any texts, variables and addresses, and any failures of the framework |
| `LeoUTF8FoundationProofs!BytesTypeCorrect`, `ObjectsHeldOnce`, `OutputsTrue` | those of the `foundation` run |
| `LeoUTF8CoreFoundationProofs!TextsCrossWhole`, `LeoUTF8FoundationProofs!TextsCrossWhole` | each bridge implements `TextBridge!Crossings` step by step: `Promised` without its liveness |
| `LeoUTF8CoreFoundationProofs!ProgramsAreLawful`, `ProgramsHoldNothing` | those of the `corefoundation_clients` run, however often CoreFoundation fails |
| `ProbesProofs!ProbesGiveBack`, `ExitCodeEarned` | the invariants of the `leofuzz` run, for any bytes in a file or a case file, any line buffer of at least two characters and any transform |
| `ProbesProofs!MatchIsEvidence`, `SignatureIsEvidence`, `ProbesHoldNothing` | the invariants of the `hfs` run, for any number of runs, each killed anywhere |

**Codec.** Both directions are split by length of the encoding (one to four bytes).
Soundness rests on the payload arithmetic of each length being inverted by `\div` and
`%`; completeness on the same arithmetic read the other way. They are stated about
offsets into a longer buffer, since that is how the scan uses them.

**Scan.** The inductive invariant is `TypeOK /\ CursorBetweenCharacters /\
RejectsAtFirstDefect`. `CursorBetweenCharacters` speaks of a set of cuts that tiles
the bytes behind the cursor into encodings: `Advance` extends the tiling by one
(`TilesExtend`, from `IterateSound`), and the count is the number of cuts less one
(`CutsFinite`). `Reject` needs completeness of the decoder: where some scalar value's
encoding starts, `DecodeEncode` says it is accepted. The assumptions used are those
of the module: memories are byte strings no longer than `LONG_MAX`.

**Scan implements `Utf8WellFormed`.** Two things lie between the invariant and the
abstract specification. The first is arithmetic: `EncodesRow` shows, row by row, that a
place starts the encoding of a scalar value exactly if its bytes are those of a row of
the Unicode table (3-7), although the code compares sums and the table lists intervals.
The second is about whole strings, which the abstract module defines by a recursive
function: `WellFormedTilable` shows that a string is well-formed exactly if it has a set
of cuts as in `CursorBetweenCharacters`, and `TilesCount` that every such set has one
cut more than the string has bytes that continue nothing, which is how the abstract
module counts characters. Then `Advance` is a stutter, `Reject` an `Answer` with
`LEO_UTF8_INVALID` because no cuts lead past the defect the scan stands at
(`DefectStops`), and `Accept` an `Answer` with `LEO_UTF8_OK` and that count.

**Engine.** The inductive invariant `IInv` joins the six properties with four facts.
`SamePasses` is what the two passes have in common: a record (`PassTo`) of the positions
at which a pass read a character and of the words it had there. While the first pass
runs the record grows with it; at its end the record is complete, and the second pass is
always at one of its positions with the number of words noted there. Since the numbers
in a record never fall, the second pass has room for whatever it decomposes next, which
is what keeps every write inside the memory. `Memory` ties the buffer to its size in
bytes and to the words in use; `WordsWritten` says none of these is indeterminate;
`Untouched` what a loop finds when it starts. Ordering keeps the number of words,
composition lowers it. `OrderedBehind` holds although the loop steps back, because
`Swap` disturbs only the pair in front of the place it steps back to. For
`CompositionCachesFresh` the actions of composition are split by what becomes of the
word read: joined to the starter, which moves nothing and drops the cached property, or
kept, which appends to the composed words. In `Reencode` an encoding is at most four
bytes, which is the size of the word just read. Of the tables this part uses that they hold
scalar values, that no entry is empty, and that classes are numbers below 255.

**The engine's answer.** Over `IInv` stands a second invariant, `Meaning`, with a part
for each loop. While the engine decomposes, what it has read is a decoding of the bytes
behind the reader (`ReadTo`), and the words are the full mapping of the characters read:
`DecomposeCharFull` says so of one character, where the code recurses into an entry and
the standard applies one mapping until nothing changes, and the lemmas on `FlattenSeq` of
all. The ordering loop keeps its words a rearrangement of that mapping (`Rearranged`: a
permutation that leaves two characters as they stand unless the canonical order says
otherwise). Each exchange is allowed by `Before`, and a rearrangement with no
exchangeable pair left is the canonical order, since only one permutation sorts; that
`Before` is a strict order (`BeforeOneWay` and what follows it) makes it so. Composition has,
at the word it reads, what the standard's definition gives for the words read so far
(`Upto`); the caches are fresh by `IInv`, so the code's test for a blocked mark is the
definition's. Reencoding has encoded a prefix of the form. The error codes come out of
the same invariant: a call is refused as malformed exactly where no decoding of the whole
string exists, and as too long exactly if its mapping has more words than `MaxWords`. The map to
`MappingPromise` is that of the `map` run, and every step but the one that ends a call is
a stutter of it or its question.

**Stability.** `AnswersStable` is about what the answer would be mapped to, so it needs no
further run of the engine but facts about the definitions (`FormStable`). A full mapping
holds nothing that maps on (`FullSettled`), so mapping it again is the identity; canonical
ordering of what is in order is, too. The hard part is composition, whose result does
decompose again. A composite's decomposition is what it was composed from
(`CompositionAssumption`), by induction on the words read: each mark that composition took
in stands, in the full mapping of the result so far, right in front of the marks it
overtook. These are of lower classes, since one of an equal or a higher class would have
blocked it; so canonical ordering moves it back behind them, where it came from
(`RearrangedInsert`, `AddedApart`, `UptoApart`). So decomposing and ordering the
composed text restores the ordered words, and composing those gives the composed text.
The invariant `Kept` carries from the ordering loop to the return what this starts from:
that a canonical order of the mapping exists.

**What is assumed of the tables.** Three assumptions on constants, named in
`Utf8procData`: `TableAssumption` (classes are those of scalar values, compositions are
starters), `EntryAssumption` (entries are non-empty and refer to entries at most three
deep, Hangul stays out of the tables) and `CompositionAssumption` (a pair composes to a
character whose entry is that pair). They are conditions on generated data. TLC evaluates
them for the characters of the runs; a program that walks `utf8proc_data.c` through
utf8proc's own accessors, which is not kept here, found them true of every code point and
of all 961 pairs.

**Mapping.** `OneHolderPerAllocation` is not inductive by itself. It needs
`CallInProgress`: while a call is between its entry and its return, its place is not
one the client holds, and `mapped` is the engine's fresh memory exactly when `rc` says
so. With it, each action either moves an allocation from one holder to the next or
touches none. `StatusTellsText` needs `EngineAnswers` besides, which relates `rc` to
the kind of the text between the engine's return and the status. The assumptions are
`TextAssumption` and `NullAssumption`.

**The programs.** `ProgramsAreLawful` needs no knowledge of the checks beyond what they
pass: a statement of a program is a call, a return or a release of the library's most
general client, or leaves the library's variables alone. What has to be shown is that it
may: that a program on LeoUTF8Core passes a variable only when it holds nothing in it
and frees what it holds (`ClientInv`), and that a program on CoreFoundation, at each of its
statements, holds exactly the objects of certain variables, and on a way out exactly those
in `toRelease`, each once (`ProgramInv` with `Holding`). `ProgramsHoldNothing` is its last
line. The invariants of the library
are inherited, not proved again. The programs on Foundation have no such theorem, because
it is false: section 6.

**Bridges.** Both have the inductive invariant `BridgeInv`: `Shape` (what the client's
variables may hold), `CallInProgress` (a call never has a variable the client holds an
object in; past its argument checks it has a variable, and that is NULL; a call that
returns `LEO_UTF8_OK` left a live object in it), `OneHolderPerObject` and
`StatusTellsOutput`. `CallInProgress` is what makes ownership inductive: without it,
delivering an object could overwrite the only pointer to another. Every step of a bridge
either makes no object (`QuietBridge`) or delivers one (`DeliverBridge`); the two lemmas
and those about the client's steps are shared, and each bridge's proof only shows which
of the two a step is. This part uses nothing of the texts or of the conversions, and of
the constants only `NullAssumption`.

**Texts that cross.** The second invariant of each bridge, `CallInv`, adds what is true
of the text on its way: a call past its checks has a text that can cross (`TextInv`),
and what the framework has answered so far is that text - for CoreFoundation a measured
size and then a buffer of it (`BufferInv`), for Foundation the text's bytes with one NUL
behind them (`BytesInv`), so that the length the other method answers is that of the
bytes and not where a NUL happens to be. What makes it inductive are facts about the
conversions, for texts of any length: decoding the bytes of a text gives the text back
(`CharactersEncoding`), so that a byte string is well-formed exactly if it is some
text's encoding; the units of a string determine its characters, so that the longest
convertible prefix is the whole string exactly if there is no lone surrogate; hence
`TwoPassesWhole`. With `CallInv` a step of a bridge is a step of `TextBridge!Next` or a
stutter.

**The fuzzer's probes.** `ProbeInv` counts: while lines are read, `live` is the number
of the two byte strings that are held (`Balance`). What `OkIsEarned` says of a whole file
is made inductive by saying it of the lines that start before `offset`: each that has a
key has digits behind it (`Taken`), and what is held for a key is what the last of them
with that key said (`Loaded`). That the code's loop meets exactly the lines `Starts`
defines is `NextStart`: where one line ends the next one starts, and none starts between,
although the definition counts buffers from the last newline and the loop only knows
where it stopped. A line has one key at most (`OneKey`), and its pairs of digits are bytes
(`DigitsAreBytes`).

**The HFS+ probes.** The invariant `HInv` says, for every statement, which files can be in
the directory of the running test. Before that directory is made, the disk has any part of
what earlier runs created; but a directory that could be made is empty, and from then
on it has the files of this test only, under the names the file system stores
(`FilesKnown`). Then meeting a file under the second spelling can only be that one
(`MatchKnown`), and what was read of the directory, all of it or a part, is names of
files that are there (`EntriesRead`). `HeldAt` lists what each statement has yet to give
back. The file systems may be any subset of the three the model has.

**Recursive functions.** `Characters`, `CharactersOf`, `FlattenSeq` and
`Utf8WellFormed!WellFormed` are recursive functions. That the function a recursive
equation describes exists, and what it computes, is shown with sets of indices: if some
index fails there is a least (or greatest) one, and its neighbour does not (`Least`,
`Greatest`, `Climb` in `Utf8CodecProofs`, from the well-founded order of the numbers).

All proofs are hierarchical, one lemma per action; the temporal step is the usual
`Init => IInv`, `IInv /\ [Next]_vars => IInv'`, PTL. The models have the form the proofs
need: the safety part of an abstract specification has a name of its own (`Answers`,
`Crossings`), and the mappings to the abstract specifications stand in `LeoUTF8Scan`,
`Utf8procMap` and `LeoUTF8Bridge`, where the proof modules see them.

## 5. What is only model-checked

* *Liveness*: that every call is answered (`Promised` of the scan, the engine and the
  bridges, beyond what section 4 proves of them), and `EndsWithVerdict`. The prover does
  not reason about fairness and `ENABLED`.

Every invariant a passing run checks is a theorem besides, and so is the safety part of every
`Promised` and of `LawfulClient` (on LeoUTF8Core that is all of it, since its specification
has no fairness).

Out of the prover's reach beside liveness are the library's induction theorems that
take an operator as a parameter, and `RECURSIVE` operators, which the modules under proof
do without.

## 6. Where code and documentation disagree

* `failure_contract`: `docs/api/LeoUTF8Core.md` 257-271 promises that on failure
  `*out == NULL` and `*outLen == 0`, "part of the API contract". The C-string functions
  return before they clear anything when the text is NULL (`LeoUTF8.c` 242, 253, 264):
  a variable that held something still holds it.
* `foundation_contract`: `docs/api/LeoUTF8Foundation.md` 80-82 has `LEO_UTF8_ERROR` for
  a Foundation that unexpectedly fails to make the string, and `LEO_UTF8_INVALID` for
  bad arguments and malformed text. The code answers `LEO_UTF8_INVALID`
  (`LeoUTF8Foundation.m` 29-31), where the CoreFoundation bridge answers
  `LEO_UTF8_ERROR`.
* `foundation_clients`: the Foundation probe tries its malformed bytes with the variable
  that holds its first string (`leoutf8_foundation_probe.m` 92), the function clears it
  (`LeoUTF8Foundation.m` 14), and the release at the end is sent to nil: the first string
  is never released, on a run where everything succeeds. `docs/api/LeoUTF8Foundation.md`
  64-66 has the caller release it. The CoreFoundation probe has a variable of its own for
  this call, and `corefoundation_clients` passes.

Two observations no run is about:

* A case file need not say what its author meant to be taken without an error. A line
  longer than the buffer is cut (`leofuzz_transform_expect_probe.c` 169): an expectation cut
  in the middle is compared as if it were whole, and the rest is a line of its own, whose
  key, if it starts with one, replaces what was said before. What stands behind a NUL is
  not looked at (line 52), digits or not. `docs/leofuzzer-integration.md` has an exit code
  for a malformed case file and says nothing of these. `OkIsEarned` speaks of lines as the
  probe sees them.
* `leofuzz_validate_probe.c` 96 exits with 1 when the file could not be read, the code
  `docs/leofuzzer-integration.md` 20 gives to a rejected text.

## 7. What is not modelled

* Branches of utf8proc for options LeoUTF8 never passes (COMPAT, LUMP, IGNORE,
  CHARBOUND, STRIPMARK, STRIPCC, NLF2LS, NULLTERM, custom functions): unreachable.
* Grapheme breaking, case mapping, widths, categories: not called.
* The tables' two-level index and their compressed sequences: generated data. The model
  takes the mappings as constants and constrains them by `TableAssumption`,
  `EntryAssumption` and `CompositionAssumption` (section 4).
* The bookkeeping within the decomposition of one character (`utf8proc.c` 391-392:
  destination and room, less what was written so far): the model writes a character's
  words in one step, clipped at the room there is.
* The CoreFoundation bridge's check for a negative `usedBytes`, which `CFStringGetBytes`
  never answers, and what `leoutf8_probe.c` 189 and 197 free after a call that should have
  been refused and was not: the library refuses it.
* Version and status messages: constants. The bytes of the strings they return are
  nobody's input.
* What the programs print, their checks of `argc`, `statfs`, and the contents of the
  files the HFS+ probes write: nothing depends on them. Path names always fit.
* The HFS+ probes on the frameworks (`Research/HFSPlus/*.m`): they print what
  CoreFoundation and Foundation answer about names, which is not in the repository.
* The build.
* Threads: no function shares state, and the frameworks' objects are taken as immutable.

## 8. Plan

Done, in this order: codec, scanning and its proofs, engine and its abstract
specification, mapping and its proofs, bridges; then the programs composed with the part
of the library they call, the fuzzer's probes, the HFS+ probes with kills and reruns, and
the proofs of the bridges.

The proofs followed: scanning, mapping and the ownership of the bridges first; then
the engine's memory, the two step refinements, the texts that cross and the fuzzer's
probes; last the programs, the HFS+ probes, the engine's answer and its stability.

Left to model:

1. *Composition*: `LeoUTF8Core` over the step-by-step `Utf8procMap` instead of the engine
   in one step, to check what is now assumed at that border.
2. *Two programs at once* on one disk: the HFS+ probes use fixed paths; what a second
   one running at the same time does to the conclusions.

Left to prove:

1. `HFSPlusProbes` for any file system whose names are an equivalence, instead of any
   of the three: the file systems would have to become constants.
2. The liveness of section 5, with a prover that reasons about fairness.
