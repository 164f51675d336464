---------------------------- MODULE LeoFuzzProbes ----------------------------
(***************************************************************************)
(* The probes a fuzzer runs on files: leofuzz_validate_probe and           *)
(* leofuzz_transform_probe, which read a file whole, and the transform's   *)
(* leofuzz_transform_expect_probe, which reads a case file line by line    *)
(* into a buffer of LineSize characters.  Any call of the C library may    *)
(* fail.                                                                   *)
(***************************************************************************)
EXTENDS ProbeProcess, Integers, Sequences, FiniteSets, SequencesExt

CONSTANTS Inputs,       \* the contents of files, byte strings
          CaseFiles,    \* those of case files
          LineSize,     \* 4096 in the source
          Transform(_), \* the bytes LeoUTF8 makes of bytes; NULL if malformed
          NULL

Keys == {"input", "expected"}

Bytes == Seq(0 .. 255)

ASSUME InputAssumption == Inputs \subseteq Bytes /\ NULL \notin Bytes
ASSUME CaseAssumption == CaseFiles \subseteq Bytes
ASSUME LineAssumption == LineSize \in Nat /\ LineSize > 1

\* program is "validate", "transform" or "expect".
VARIABLES file,         \* what is in the file
          offset,       \* how much of the case file was read
          loaded,       \* the bytes of the two HexBuffers; "input" is the whole file
          out,          \* what the transform answered
          live,         \* how many mallocs have yet to be freed
          handle        \* is the file open?

vars == << program, file, pc, exit, offset, loaded, out, live, handle >>

Init ==
    /\ \/ program \in {"validate", "transform"} /\ file \in Inputs
       \/ program = "expect" /\ file \in CaseFiles
    /\ pc = "open" /\ exit = 0 /\ offset = 0 /\ loaded = [key \in Keys |-> NULL]
    /\ out = NULL /\ live = 0 /\ handle = FALSE

Held(bytes) == IF bytes = NULL THEN 0 ELSE 1

\* fopen.
Open ==
    /\ pc = "open"
    /\ \/ /\ handle' = TRUE
          /\ Goto(IF program = "expect" THEN "fgets" ELSE "malloc")
       \/ UNCHANGED handle /\ Leave(IF program = "expect" THEN 2 ELSE 1)
    /\ UNCHANGED << program, file, offset, loaded, out, live >>

-----------------------------------------------------------------------------
(* ReadFile.                                                               *)

\* The size is asked for, and memory, one byte for an empty file.
Allocate ==
    /\ pc = "malloc"
    /\ \/ live' = live + 1 /\ UNCHANGED handle /\ Goto("fread")
       \/ UNCHANGED live /\ handle' = FALSE /\ Leave(1)
    /\ UNCHANGED << program, file, offset, loaded, out >>

\* An empty file is not read.
ReadWhole ==
    /\ pc = "fread" /\ handle' = FALSE
    /\ \/ /\ loaded' = [loaded EXCEPT !["input"] = file]
          /\ UNCHANGED live /\ Goto("run")
       \/ file # << >> /\ live' = live - 1 /\ UNCHANGED loaded /\ Leave(1)
    /\ UNCHANGED << program, file, offset, out >>

-----------------------------------------------------------------------------
(* LoadCaseFile.                                                           *)

NUL     == 0
NEWLINE == 10

\* "input_hex=" and "expected_hex=".
Prefix == [input    |-> << 105, 110, 112, 117, 116, 95, 104, 101, 120, 61 >>,
           expected |-> << 101, 120, 112, 101, 99, 116, 101, 100, 95,
                           104, 101, 120, 61 >>]

\* fgets reads a newline, or all the room in the buffer, or the rest of the file.
LineEnd(from) ==
    Min({i \in from + 1 .. Len(file) :
            file[i] = NEWLINE \/ i - from = LineSize - 1 \/ i = Len(file)})

\* As a C string the line ends before its first NUL.
InBuffer(from) ==
    LET nuls == {i \in from + 1 .. LineEnd(from) : file[i] = NUL}
    IN  SubSeq(file, from + 1, Min(nuls \cup {LineEnd(from) + 1}) - 1)

StartsWith(from, key) == IsPrefix(Prefix[key], InBuffer(from))

\* ParseHexBytes: no digit is -1.
HexValue(ch) == CASE ch \in 48 .. 57  -> ch - 48
                  [] ch \in 97 .. 102 -> ch - 87
                  [] ch \in 65 .. 70  -> ch - 55
                  [] OTHER -> -1

IsIgnoredHexChar(ch) == ch \in {32, 9, 13, 10}

Digits(from, key) ==
    LET line == InBuffer(from)
        text == SubSeq(line, Len(Prefix[key]) + 1, Len(line))
    IN  FlattenSeq([i \in 1 .. Len(text) |->
                       IF IsIgnoredHexChar(text[i]) THEN << >>
                       ELSE << HexValue(text[i]) >>])

IsHex(digits)      == Len(digits) % 2 = 0 /\ \A i \in DOMAIN digits : digits[i] # -1
ParseBytes(digits) ==
    [i \in 1 .. Len(digits) \div 2 |-> 16 * digits[(2 * i) - 1] + digits[2 * i]]

\* A line without a key changes nothing.
SkipLine ==
    /\ \A key \in Keys : ~ StartsWith(offset, key)
    /\ Goto("fgets") /\ UNCHANGED << loaded, live, handle >>

\* Mutant: the bytes of an earlier line with the same key are not freed.
LoadLineLeaking(key) ==
    /\ IsHex(Digits(offset, key))
    /\ loaded' = [loaded EXCEPT ![key] = ParseBytes(Digits(offset, key))]
    /\ live' = live + 1
    /\ Goto("fgets") /\ UNCHANGED handle

\* A line with a key replaces what an earlier one said.
LoadLine(key) ==
    /\ IsHex(Digits(offset, key))
    /\ loaded' = [loaded EXCEPT ![key] = ParseBytes(Digits(offset, key))]
    /\ live' = (live - Held(loaded[key])) + 1
    /\ Goto("fgets") /\ UNCHANGED handle

\* Its text is not pairs of digits, or there is no memory for the bytes.
RefuseLine(key) ==
    /\ loaded' = [loaded EXCEPT ![key] = NULL]
    /\ live' = live - Held(loaded[key])
    /\ handle' = FALSE /\ Goto("invalid")

\* The rest of a line that is longer than the buffer is a line of its own.
ReadLine ==
    /\ pc = "fgets" /\ offset < Len(file) /\ offset' = LineEnd(offset)
    /\ \/ SkipLine
       \/ \E key \in Keys : /\ StartsWith(offset, key)
                            /\ LoadLine(key) \/ RefuseLine(key)
    /\ UNCHANGED << program, file, out >>

\* The last line was read, or fgets failed.
EndOfLines ==
    /\ pc = "fgets" /\ handle' = FALSE
    /\ \/ /\ offset = Len(file) /\ NULL \notin {loaded[key] : key \in Keys}
          /\ Goto("run")
       \/ Goto("invalid")
    /\ UNCHANGED << program, file, offset, loaded, out, live >>

FreeAll == /\ live' = live - (Held(loaded["input"]) + Held(loaded["expected"]) + Held(out))
           /\ loaded' = [key \in Keys |-> NULL]

InvalidCaseFile ==
    /\ pc = "invalid" /\ FreeAll /\ Leave(2)
    /\ UNCHANGED << program, file, offset, out, handle >>

-----------------------------------------------------------------------------
\* LeoUTF8ValidateBytes or RunTransform; a transform may run out of memory.
RunTransform ==
    /\ pc = "run" /\ Goto("verdict")
    /\ out' \in {Transform(loaded["input"])} \cup
                   (IF program = "validate" THEN {} ELSE {NULL})
    /\ live' = live + (IF program = "validate" THEN 0 ELSE Held(out'))
    /\ UNCHANGED << program, file, offset, loaded, handle >>

\* Mutant: as many bytes are compared as are expected.
MismatchPrefix(actual, expected) == ~ IsPrefix(expected, actual)

Mismatch(actual, expected) == actual # expected

Verdict ==
    /\ pc = "verdict"
    /\ IF program = "validate"
       THEN live' = live - 1 /\ loaded' = [key \in Keys |-> NULL]
       ELSE FreeAll
    /\ CASE out = NULL -> Leave(IF program = "expect" THEN 3 ELSE 1)
         [] out # NULL /\ program # "expect" -> Leave(0)
         [] OTHER -> Leave(IF Mismatch(out, loaded["expected"]) THEN 3 ELSE 0)
    /\ UNCHANGED << program, file, offset, out, handle >>

Next == \/ Open \/ Allocate \/ ReadWhole \/ ReadLine \/ EndOfLines
        \/ InvalidCaseFile \/ RunTransform \/ Verdict

Spec == Init /\ [][Next]_vars

-----------------------------------------------------------------------------
(* Correctness.                                                            *)

\* Whatever fails, the buffers are freed and the file is closed at exit.
NothingHeldAtExit == pc = "exit" => live = 0 /\ ~ handle

\* Where the lines of a case file start: at its beginning, behind a newline, and,
\* in a line that is longer than the buffer, wherever the buffer was full.
Beginning(i) == Max({0} \cup {n \in 1 .. i : file[n] = NEWLINE})
Starts == {i \in 0 .. Len(file) - 1 :
              \E full \in 0 .. i : i = Beginning(i) + full * (LineSize - 1)}

\* The line that starts at i is the last one with its key.
Says(key, i) == /\ i \in Starts /\ StartsWith(i, key)
                /\ \A j \in Starts : StartsWith(j, key) => j <= i

\* What earns exit code 0: a file LeoUTF8 takes, or a case file in which whatever
\* follows a key is pairs of digits, up to the end of the line or a NUL, and whose
\* last expectation is the whole output for its last input.
Earned ==
    IF program # "expect" THEN Transform(file) # NULL
    ELSE /\ \A i \in Starts, key \in Keys :
               StartsWith(i, key) => IsHex(Digits(i, key))
         /\ \E i \in Starts, e \in Starts :
               /\ Says("input", i) /\ Says("expected", e)
               /\ Transform(ParseBytes(Digits(i, "input")))
                    = ParseBytes(Digits(e, "expected"))

\* Exit code 0 is earned, whatever is in the file and whatever fails.
OkIsEarned == (pc = "exit" /\ exit = 0) => Earned
==============================================================================
