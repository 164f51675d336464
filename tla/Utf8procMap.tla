----------------------------- MODULE Utf8procMap -----------------------------
(***************************************************************************)
(* utf8proc_map, the engine behind LeoUTF8's normalisation and case        *)
(* folding, one loop iteration at a time: decode and measure, allocate,    *)
(* decode and write, order the combining marks, compose, encode back into  *)
(* the same memory, shrink it.                                             *)
(*                                                                         *)
(* The buffer is malloc'd memory seen twice: as 4-byte words (`buffer`)    *)
(* and, from its first byte on, as the text written over them (`out`).     *)
(***************************************************************************)
EXTENDS UnicodeNormalForms

CONSTANTS Inputs,       \* the byte strings callers pass
          MaxWords      \* SSIZE_MAX / sizeof(utf8proc_int32_t) / 2

ASSUME InputAssumption == Inputs \subseteq Seq(Byte) /\ MaxWords \in Nat

NONE  == -1             \* a NULL pointer or property
UNSET == -1             \* an indeterminate word

VARIABLES pc, options, str,
          rpos,             \* the reading position of the running loop
          wpos,             \* its writing position in words
          length,           \* how many words the finished loop left
          buffer, allocated,               \* its words and its size in bytes
          starter, starterProperty, maxClass,      \* composition's locals
          out, rc

composition == << starter, starterProperty, maxClass >>
vars == << pc, options, str, rpos, wpos, length, buffer, allocated,
           starter, starterProperty, maxClass, out, rc >>

Init ==
    /\ pc = "idle" /\ options = COMPOSE /\ str = << >>
    /\ rpos = 0 /\ wpos = 0 /\ length = 0
    /\ buffer = << >> /\ allocated = 0
    /\ starter = NONE /\ starterProperty = NONE /\ maxClass = -1
    /\ out = << >> /\ rc = 0

Call ==
    /\ pc = "idle" /\ pc' = "decompose"
    /\ options' \in Options /\ str' \in Inputs
    /\ UNCHANGED << rpos, wpos, length, buffer, allocated, composition, out, rc >>

\* An error return: the buffer, if there is one, has been freed.
Fail(code) ==
    /\ rc' = code /\ pc' = "returned"
    /\ buffer' = << >> /\ allocated' = 0
    /\ UNCHANGED << options, str, rpos, wpos, length, composition, out >>

-----------------------------------------------------------------------------
(* utf8proc_decompose_custom, entered twice: first with no buffer, to      *)
(* measure, then with one of the measured size.                            *)

Decoding == pc = "decompose" /\ rpos < Len(str)

Char == Iterate(str, rpos, Len(str))
New  == DecomposeChar(options, Char.dst)

\* Mutant: the buffer is taken to be one word smaller than it is.
WrittenButLast(words, at, chars) ==
    [i \in DOMAIN words |->
        IF at < i /\ i <= at + Len(chars) /\ i < Len(words)
        THEN chars[i - at] ELSE words[i]]

\* What of `chars` fits in words at .. Len(words) - 1 is written.
Written(words, at, chars) ==
    [i \in DOMAIN words |->
        IF at < i /\ i <= at + Len(chars) THEN chars[i - at] ELSE words[i]]

Malformed == Decoding /\ Char.dst < 0 /\ Fail(UTF8PROC_ERROR_INVALIDUTF8)

TooLong ==
    /\ Decoding /\ Char.dst >= 0
    /\ wpos + Len(New) > MaxWords
    /\ Fail(UTF8PROC_ERROR_OVERFLOW)

Decompose ==
    /\ Decoding /\ Char.dst >= 0
    /\ wpos + Len(New) <= MaxWords
    /\ buffer' = Written(buffer, wpos, New)
    /\ wpos' = wpos + Len(New)
    /\ rpos' = rpos + Char.step
    /\ UNCHANGED << pc, options, str, length, allocated, composition, out, rc >>

\* After the decomposing call: composition's loop, for NFC, or the encoder.
AfterDecomposition == IF options = COMPOSE THEN "compose" ELSE "reencode"

EndOfString ==
    /\ pc = "decompose" /\ rpos >= Len(str)
    /\ length' = wpos /\ rpos' = 0 /\ wpos' = 0
    /\ pc' = CASE allocated = 0 -> "allocate"
               [] allocated # 0 -> IF Normalizing(options) /\ Len(buffer) >= wpos
                                   THEN "order" ELSE AfterDecomposition
    /\ UNCHANGED << options, str, buffer, allocated, composition, out, rc >>

\* Mutant: no room for the NUL.
AllocateExactly ==
    /\ pc = "allocate" /\ pc' = "decompose"
    /\ allocated' = 4 * length
    /\ buffer' = [i \in 1 .. length |-> UNSET]
    /\ UNCHANGED << options, str, rpos, wpos, length, composition, out, rc >>

Allocate ==
    /\ pc = "allocate" /\ pc' = "decompose"
    /\ allocated' = 4 * length + 1
    /\ buffer' = [i \in 1 .. length |-> UNSET]
    /\ UNCHANGED << options, str, rpos, wpos, length, composition, out, rc >>

NoMemory == pc = "allocate" /\ Fail(UTF8PROC_ERROR_NOMEM)

-----------------------------------------------------------------------------
(* Canonical ordering, at the end of the second decomposing call.          *)

OutOfOrder(uc1, uc2) == /\ CombiningClass(uc1) > CombiningClass(uc2)
                        /\ CombiningClass(uc2) > 0

Ordering == pc = "order" /\ rpos < length - 1

\* Mutant: one pass of exchanges, never stepping back.
SwapForward ==
    /\ Ordering /\ OutOfOrder(At(buffer, rpos), At(buffer, rpos + 1))
    /\ buffer' = [buffer EXCEPT ![rpos + 1] = At(buffer, rpos + 1),
                                ![rpos + 2] = At(buffer, rpos)]
    /\ rpos' = rpos + 1
    /\ UNCHANGED << pc, options, str, wpos, length, allocated, composition, out,
                    rc >>

Swap ==
    /\ Ordering /\ OutOfOrder(At(buffer, rpos), At(buffer, rpos + 1))
    /\ buffer' = [buffer EXCEPT ![rpos + 1] = At(buffer, rpos + 1),
                                ![rpos + 2] = At(buffer, rpos)]
    /\ rpos' = IF rpos > 0 THEN rpos - 1 ELSE rpos + 1
    /\ UNCHANGED << pc, options, str, wpos, length, allocated, composition, out,
                    rc >>

InOrder ==
    /\ Ordering /\ ~ OutOfOrder(At(buffer, rpos), At(buffer, rpos + 1))
    /\ rpos' = rpos + 1
    /\ UNCHANGED << pc, options, str, wpos, length, buffer, allocated,
                    composition, out, rc >>

EndOfOrdering ==
    /\ pc = "order" /\ rpos >= length - 1
    /\ pc' = AfterDecomposition /\ rpos' = 0
    /\ UNCHANGED << options, str, wpos, length, buffer, allocated, composition,
                    out, rc >>

-----------------------------------------------------------------------------
(* Composition, utf8proc_normalize_utf32, in place: the words before wpos  *)
(* are composed, those from rpos on are to be read.                        *)

Current == At(buffer, rpos)
Starter == At(buffer, starter)

\* starter_property: looked up once per starter and kept.
StarterProperty == IF starterProperty = NONE THEN Starter ELSE starterProperty

Composing  == pc = "compose" /\ rpos < length

\* Mutant: a mark is not blocked by an equal one before it.
MayCombineAgain == starter # NONE /\ CombiningClass(Current) >= maxClass

MayCombine == starter # NONE /\ CombiningClass(Current) > maxClass

\* Mutant: no lower bound on the starter's index.
VowelFollowsAny == /\ Starter - LBASE < LCOUNT
                   /\ IsIndex(Current - VBASE, VCOUNT)

VowelFollows == /\ IsIndex(Starter - LBASE, LCOUNT)
                /\ IsIndex(Current - VBASE, VCOUNT)
TrailFollows == /\ IsHangulSyllable(Starter) /\ (Starter - SBASE) % TCOUNT = 0
                /\ Current - TBASE \in 1 .. TCOUNT - 1
InTable      == << StarterProperty, Current >> \in DOMAIN CombinationTable

\* Mutant: the cached property is not dropped with the old starter.
ComposeToStale(composite) ==
    /\ buffer' = [buffer EXCEPT ![starter + 1] = composite]
    /\ rpos' = rpos + 1
    /\ UNCHANGED << pc, options, str, wpos, length, allocated, starter,
                    starterProperty, maxClass, out, rc >>

\* The starter becomes the composition; the current character is consumed.
ComposeTo(composite) ==
    /\ buffer' = [buffer EXCEPT ![starter + 1] = composite]
    /\ starterProperty' = NONE
    /\ rpos' = rpos + 1
    /\ UNCHANGED << pc, options, str, wpos, length, allocated, starter, maxClass,
                    out, rc >>

ComposeVowel ==
    /\ Composing /\ MayCombine /\ VowelFollows
    /\ ComposeTo(SBASE + ((Starter - LBASE) * VCOUNT + (Current - VBASE)) * TCOUNT)

ComposeTrail ==
    /\ Composing /\ MayCombine /\ ~ VowelFollows /\ TrailFollows
    /\ ComposeTo(Starter + (Current - TBASE))

ComposePair ==
    /\ Composing /\ MayCombine /\ ~ VowelFollows /\ ~ TrailFollows /\ InTable
    /\ ComposeTo(CombinationTable[<< StarterProperty, Current >>])

Keep ==
    /\ Composing
    /\ MayCombine => ~ (VowelFollows \/ TrailFollows \/ InTable)
    /\ buffer' = [buffer EXCEPT ![wpos + 1] = Current]
    /\ wpos' = wpos + 1 /\ rpos' = rpos + 1
    /\ IF CombiningClass(Current) > 0
       THEN /\ maxClass' = IF CombiningClass(Current) > maxClass
                           THEN CombiningClass(Current) ELSE maxClass
            /\ starterProperty' = IF MayCombine THEN StarterProperty
                                  ELSE starterProperty
            /\ starter' = starter
       ELSE starter' = wpos /\ starterProperty' = NONE /\ maxClass' = -1
    /\ UNCHANGED << pc, options, str, length, allocated, out, rc >>

EndOfComposition ==
    /\ pc = "compose" /\ rpos >= length
    /\ length' = wpos
    /\ pc' = "reencode" /\ rpos' = 0
    /\ UNCHANGED << options, str, wpos, buffer, allocated, composition, out, rc >>

-----------------------------------------------------------------------------
(* utf8proc_reencode: the text overwrites the words it is made from.       *)

\* The word at i as memory holds it now: indeterminate once text covers it.
Word(i) == IF Len(out) <= 4 * i THEN At(buffer, i) ELSE UNSET

\* Mutant: every character is written with a NUL after it.
ReencodeTerminated ==
    /\ pc = "reencode" /\ rpos < length
    /\ out' = out \o Append(EncodeChar(Word(rpos)), 0)
    /\ rpos' = rpos + 1
    /\ UNCHANGED << pc, options, str, wpos, length, buffer, allocated,
                    composition, rc >>

Reencode ==
    /\ pc = "reencode" /\ rpos < length
    /\ out' = out \o EncodeChar(Word(rpos))
    /\ rpos' = rpos + 1
    /\ UNCHANGED << pc, options, str, wpos, length, buffer, allocated,
                    composition, rc >>

Terminate ==
    /\ pc = "reencode" /\ rpos >= length
    /\ out' = Append(out, 0) /\ rc' = Len(out)
    /\ pc' = "shrink"
    /\ UNCHANGED << options, str, rpos, wpos, length, buffer, allocated,
                    composition >>

\* realloc may refuse to shrink the buffer: the larger one is returned then.
Shrink ==
    /\ pc = "shrink" /\ pc' = "returned"
    /\ allocated' \in {rc + 1, allocated}
    /\ UNCHANGED << options, str, rpos, wpos, length, buffer, composition, out,
                    rc >>

\* The caller is done with the answer: LeoUTF8Free.
Free ==
    /\ pc = "returned" /\ pc' = "idle"
    /\ options' = COMPOSE /\ str' = << >>
    /\ rpos' = 0 /\ wpos' = 0 /\ length' = 0
    /\ buffer' = << >> /\ allocated' = 0
    /\ starter' = NONE /\ starterProperty' = NONE /\ maxClass' = -1
    /\ out' = << >> /\ rc' = 0

-----------------------------------------------------------------------------
Run == \/ Malformed \/ TooLong \/ Decompose \/ EndOfString
       \/ Allocate \/ NoMemory
       \/ Swap \/ InOrder \/ EndOfOrdering
       \/ ComposeVowel \/ ComposeTrail \/ ComposePair \/ Keep \/ EndOfComposition
       \/ Reencode \/ Terminate \/ Shrink

Next == Call \/ Run \/ Free

\* A call is ordinary sequential code: once entered it keeps running.
Spec == Init /\ [][Next]_vars /\ WF_vars(Run)

-----------------------------------------------------------------------------
(* Correctness.                                                            *)

\* The words [from, to) of the buffer.
Words(from, to) == SubSeq(buffer, from + 1, to)

TypeOK ==
    /\ pc \in {"idle", "decompose", "allocate", "order", "compose", "reencode",
               "shrink", "returned"}
    /\ options \in Options /\ str \in Seq(Byte)
    /\ {rpos, wpos, length, allocated} \subseteq Nat
    /\ buffer \in Seq(CodePoint \cup {UNSET})
    /\ starter \in Nat \cup {NONE} /\ starterProperty \in CodePoint \cup {NONE}
    /\ maxClass \in -1 .. 254
    /\ out \in Seq(Byte) /\ rc \in Int

\* Nothing is written outside the allocation: no word, no byte of the text, not
\* the NUL after it, and the caller is given memory that holds them all.
WritesStayInAllocation ==
    /\ allocated > 0 => Len(out) <= allocated
    /\ pc \in {"order", "compose", "reencode"} =>
          wpos <= Len(buffer) /\ 4 * Len(buffer) + 1 <= allocated

\* The two decomposing passes agree: when the second one is over, the words it
\* reports are exactly the measured ones and each of them has been written.
SecondPassFillsBuffer ==
    pc \in {"order", "compose"} =>
        /\ length = Len(buffer)
        /\ \A i \in 1 .. length : buffer[i] # UNSET

\* The ordering loop never leaves an exchangeable pair behind it, however often
\* it steps back; where it ends, the whole buffer is in canonical order.
OrderedBehind ==
    pc = "order" =>
        \A i \in 0 .. rpos - 1 : i < length - 1 =>
            ~ OutOfOrder(At(buffer, i), At(buffer, i + 1))

\* Composition writes behind its reader, and its three cached values are what a
\* fresh look at the words before wpos would find: the last starter, that
\* starter's own property (not the one it had before it was composed), and the
\* largest combining class after it.
CompositionCachesFresh ==
    pc = "compose" =>
        /\ wpos <= rpos
        /\ starter # NONE => starter < wpos
        /\ \A i \in 0 .. wpos - 1 :
              CombiningClass(At(buffer, i)) = 0 => i <= starter
        /\ starterProperty # NONE => starter # NONE /\ starterProperty = Starter
        /\ starter # NONE =>
              /\ \A i \in starter + 1 .. wpos - 1 :
                    CombiningClass(At(buffer, i)) <= maxClass
              /\ \/ maxClass = -1 /\ starter = wpos - 1
                 \/ \E i \in starter + 1 .. wpos - 1 :
                       CombiningClass(At(buffer, i)) = maxClass

\* Encoding in place never overtakes its own reading: no word is covered by
\* text before it has been read.
TextBehindReader == pc = "reencode" => Len(out) <= 4 * rpos

\* Normal forms are stable: mapping what a call returned changes nothing, and
\* recomposing what was decomposed gives what composing gives.
AnswerIsStable ==
    (pc = "returned" /\ rc >= 0) =>
        LET cs == Characters(SubSeq(out, 1, rc))
        IN  /\ NormalForm(options, cs) = cs
            /\ options = DECOMPOSE =>
                  NormalForm(COMPOSE, cs)
                     = NormalForm(COMPOSE, Characters(str))

\* utf8proc_map as its caller sees it.
RightForm(request, answer) == RightAnswer(MaxWords, request, answer)

Promise == INSTANCE MappingPromise
              WITH Right     <- RightForm,
                   NoRequest <- [options |-> COMPOSE, str |-> << >>],
                   phase     <- CASE pc = "idle"     -> "idle"
                                  [] pc = "returned" -> "answered"
                                  [] OTHER           -> "asked",
                   request   <- [options |-> options, str |-> str],
                   answer    <- IF pc = "returned"
                                THEN [text |-> IF rc < 0 THEN << >> ELSE out,
                                      rc   |-> rc]
                                ELSE NoAnswer

\* utf8proc_map computes the normal form the standard defines: every answer is
\* the NUL-terminated encoding of it, with its length, or the error that
\* applies; and every call returns.
Promised == Promise!Spec
==============================================================================
