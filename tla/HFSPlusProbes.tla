---------------------------- MODULE HFSPlusProbes ----------------------------
(***************************************************************************)
(* The two research probes that ask a file system what it makes of a       *)
(* spelling: hfsplus_filename_probe and hfsplus_case_probe.  A probe       *)
(* removes what an earlier run left, creates a file under one spelling,    *)
(* tries to create it under another, and reads the directory.  It may be   *)
(* killed at any step and run again, and every system call may fail.       *)
(***************************************************************************)
EXTENDS ProbeProcess, Naturals, Sequences

CONSTANT FileSystems

ASSUME FileSystemAssumption ==
    FileSystems \subseteq {"bytes", "preserving", "decomposing"}

\* program is "filename" or "case".
VARIABLES fs,           \* the file system under the probe
          dirs, files,  \* what is on the disk: 0 is the probe's own directory
          test,         \* the test that runs
          spelling,     \* the name whose forms are printed
          matched,      \* O_EXCL met an existing file
          left, seen,   \* the directory's entries: yet to come, and read
          held          \* the memory and the directory stream not given back

disk    == << dirs, files >>
process == << pc, exit, test, spelling, matched, left, seen, held >>
researchVars    == << fs, program, disk, process >>

-----------------------------------------------------------------------------
(* Names and file systems.  A name is its letters, their case, and whether *)
(* its accents are composed, decomposed or none.                           *)

Name(text, upper, accents) == [text |-> text, upper |-> upper, accents |-> accents]

\* LeoUTF8NormalizeNFDBytes of a name.
Decompose(name) ==
    IF name.accents = "none" THEN name ELSE [name EXCEPT !.accents = "decomposed"]

\* HFS+ stores names decomposed and tells them apart by their decomposed and
\* simply folded letters; the other file systems store the bytes they are given.
Stored(name) == IF fs = "decomposing" THEN Decompose(name) ELSE name
Key(name) ==
    CASE fs = "bytes"       -> name
      [] fs = "preserving"  -> Decompose(name)
      [] fs = "decomposing" -> [Decompose(name) EXCEPT !.upper = FALSE]
SameName(a, b) == Key(a) = Key(b)

nfcName == Name("cafe", FALSE, "composed")
nfdName == Name("cafe", FALSE, "decomposed")

Test(dir, first, second) == [dir |-> dir, first |-> first, second |-> second]

\* Mutant: the decomposed spelling is created first.
FilenameTestSwapped == << Test(0, nfdName, nfcName) >>

\* The filename probe works in its directory, the case probe in one for each test.
FilenameTest == << Test(0, nfcName, nfdName) >>
CaseTests ==
    << Test(1, Name("case", FALSE, "none"), Name("case", TRUE, "none")),
       Test(2, Name("a", FALSE, "composed"), Name("a", TRUE, "composed")),
       Test(3, nfcName, Name("cafe", TRUE, "composed")),
       Test(4, Name("sharp s", FALSE, "none"), Name("ss", TRUE, "none")) >>
Tests   == IF program = "filename" THEN FilenameTest ELSE CaseTests
Current == Tests[test]

-----------------------------------------------------------------------------
Fresh == /\ exit' = 0 /\ test' = 1 /\ spelling' = 1 /\ matched' = FALSE
         /\ left' = {} /\ seen' = {} /\ held' = {}

ResearchInit ==
    /\ fs \in FileSystems /\ program \in {"filename", "case"}
    /\ dirs = {} /\ files = {} /\ pc = "start"
    /\ exit = 0 /\ test = 1 /\ spelling = 1 /\ matched = FALSE
    /\ left = {} /\ seen = {} /\ held = {}

\* The filename probe holds the expected NFD bytes until it leaves; the case
\* probe holds nothing from one function to the next.
OwnMemory == IF program = "filename" THEN {"nfd"} ELSE {}

Frees(those) == held' = held \ those

\* rm -rf: its answer is ignored, and it may not get to the end.
RemoveLeftovers ==
    /\ pc = "start" /\ Goto("mkdir")
    /\ \E d \in SUBSET dirs, f \in SUBSET files :
          /\ d # {} => 0 \in d
          /\ \A file \in f : file.dir \in d
          /\ dirs' = d /\ files' = f
    /\ UNCHANGED << fs, program, test, spelling, matched, left, seen, held >>

\* Mutant: a directory that is there already will do.
MakeDirectoryTolerant(dir, next) ==
    \/ dirs' = dirs \cup {dir} /\ Goto(next)
    \/ UNCHANGED dirs /\ Leave(1)

\* mkdir, of a directory that is not there; it may fail otherwise, too.
MakeDirectory(dir, next) ==
    \/ dir \notin dirs /\ dirs' = dirs \cup {dir} /\ Goto(next)
    \/ UNCHANGED dirs /\ Leave(1)

MakeProbeDir ==
    /\ pc = "mkdir"
    /\ MakeDirectory(0, IF program = "filename" THEN "normalize" ELSE "mkdir test")
    /\ UNCHANGED << fs, program, files, test, spelling, matched, left, seen, held >>

MakeTestDir ==
    /\ pc = "mkdir test" /\ MakeDirectory(Current.dir, "normalize")
    /\ UNCHANGED << fs, program, files, test, spelling, matched, left, seen, held >>

\* LeoUTF8NormalizeNFDBytes, which may run out of memory.
Normalize ==
    /\ pc = "normalize"
    /\ \/ /\ held' = held \cup {"nfd"}
          /\ Goto(IF program = "filename" THEN "create first" ELSE "fold")
       \/ UNCHANGED held /\ Leave(1)
    /\ UNCHANGED << fs, program, disk, test, spelling, matched, left, seen >>

\* Mutant: out of memory, the NFD bytes are forgotten.
FoldLeaking ==
    /\ pc = "fold"
    /\ \/ Frees({"nfd"}) /\ spelling = 1 /\ spelling' = 2 /\ Goto("normalize")
       \/ Frees({"nfd"}) /\ spelling = 2 /\ spelling' = 1 /\ Goto("create first")
       \/ UNCHANGED << held, spelling >> /\ Leave(1)
    /\ UNCHANGED << fs, program, disk, test, matched, left, seen >>

\* The rest of print_leoutf8_forms, for the first and then the second name.
Fold ==
    /\ pc = "fold"
    /\ \/ Frees({"nfd"}) /\ spelling = 1 /\ spelling' = 2 /\ Goto("normalize")
       \/ Frees({"nfd"}) /\ spelling = 2 /\ spelling' = 1 /\ Goto("create first")
       \/ Frees({"nfd"}) /\ UNCHANGED spelling /\ Leave(1)
    /\ UNCHANGED << fs, program, disk, test, matched, left, seen >>

\* open with O_CREAT and O_EXCL.
Exists(name) == \E f \in files : f.dir = Current.dir /\ SameName(f.name, name)
CreateFileExclusive(name) ==
    /\ ~ Exists(name)
    /\ files' = files \cup {[dir |-> Current.dir, name |-> Stored(name)]}

CreateFirst ==
    /\ pc = "create first"
    /\ \/ /\ CreateFileExclusive(Current.first)
          /\ Goto("create second") /\ UNCHANGED held
       \/ UNCHANGED files /\ Frees(OwnMemory) /\ Leave(1)
    /\ UNCHANGED << fs, program, dirs, test, spelling, matched, left, seen >>

\* Only EEXIST is a match.
CreateSecond ==
    /\ pc = "create second"
    /\ \/ /\ CreateFileExclusive(Current.second)
          /\ Goto("opendir") /\ UNCHANGED << matched, held >>
       \/ /\ Exists(Current.second) /\ matched' = TRUE
          /\ Goto("opendir") /\ UNCHANGED << files, held >>
       \/ UNCHANGED << files, matched >> /\ Frees(OwnMemory) /\ Leave(1)
    /\ UNCHANGED << fs, program, dirs, test, spelling, left, seen >>

OpenDirectory ==
    /\ pc = "opendir"
    /\ \/ /\ left' = {f.name : f \in {g \in files : g.dir = Current.dir}}
          /\ held' = held \cup {"dir"} /\ Goto("readdir")
       \/ UNCHANGED left /\ Frees(OwnMemory) /\ Leave(1)
    /\ UNCHANGED << fs, program, disk, test, spelling, matched, seen >>

\* readdir answers the entries in any order; an error looks like the end.
ReadEntry ==
    /\ pc = "readdir"
    /\ \E name \in left : seen' = seen \cup {name} /\ left' = left \ {name}
    /\ UNCHANGED << fs, program, disk, pc, exit, test, spelling, matched, held >>

CloseDirectory ==
    /\ pc = "readdir" /\ Goto("summary") /\ Frees({"dir"})
    /\ UNCHANGED << fs, program, disk, test, spelling, matched, left, seen >>

\* The summary is printed; the case probe goes on to its next test.
Summarize ==
    /\ pc = "summary"
    /\ IF test < Len(Tests)
       THEN /\ Goto("mkdir test") /\ UNCHANGED << spelling, held >>
            /\ test' = test + 1 /\ matched' = FALSE /\ left' = {} /\ seen' = {}
       ELSE /\ Frees(OwnMemory) /\ Leave(0)
            /\ UNCHANGED << test, spelling, matched, left, seen >>
    /\ UNCHANGED << fs, program, disk >>

\* The process is killed, or has exited; the disk is as it was when it is run again.
RunAgain == /\ pc # "start" /\ pc' = "start" /\ Fresh
            /\ UNCHANGED << fs, program, disk >>

ResearchNext ==
    \/ RemoveLeftovers \/ MakeProbeDir \/ MakeTestDir \/ Normalize \/ Fold
    \/ CreateFirst \/ CreateSecond \/ OpenDirectory \/ ReadEntry
    \/ CloseDirectory \/ Summarize \/ RunAgain

ResearchSpec == ResearchInit /\ [][ResearchNext]_researchVars

-----------------------------------------------------------------------------
(* Correctness.                                                            *)

\* A summary tells the truth about the file system, whatever earlier runs left
\* on the disk: the second spelling "matched existing file" exactly when the
\* file system takes the two spellings for one name.
MatchedMeansSameName ==
    pc = "summary" => (matched <=> SameName(Current.first, Current.second))

\* docs/findings/LEOUTF8-FIND-0002 takes "matched: yes, NFC bytes: no, NFD bytes:
\* yes" to show that the file system decomposes names.  No other file system
\* prints that, even if the directory is only read in part.
SignatureMeansDecomposition ==
    (pc = "summary" /\ program = "filename") =>
        (matched /\ nfcName \notin seen /\ nfdName \in seen
            => fs = "decomposing")

\* Whatever call fails, the memory is freed and the directory closed at exit.
NothingKeptAtExit == pc = "exit" => held = {}
==============================================================================
