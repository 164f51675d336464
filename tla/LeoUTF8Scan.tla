----------------------------- MODULE LeoUTF8Scan -----------------------------
(***************************************************************************)
(* The scanning half of LeoUTF8Core: LeoUTF8ValidateBytes,                 *)
(* LeoUTF8CodepointCountBytes and their C-string wrappers.  A caller makes *)
(* one call after another; a call walks its argument one utf8proc_iterate  *)
(* at a time.  The caller's memory may go on beyond the length it passes,  *)
(* and its `count` variable lives across calls.                            *)
(***************************************************************************)
EXTENDS Utf8Codec, LeoUTF8Status, FiniteSets

CONSTANTS Memory,       \* the byte strings the caller's pointers point at
          NULL,
          LONG_MAX

ASSUME MemoryAssumption == Memory \subseteq Seq(Byte)
ASSUME NullAssumption   == NULL \notin Memory
ASSUME LimitAssumption  == /\ LONG_MAX \in Nat
                           /\ \A m \in Memory : Len(m) <= LONG_MAX

VARIABLES pc,           \* "idle", "loop" inside a call, "returned" from one
          counting,     \* whether the call is one of the CodepointCount pair
          bytes,        \* its argument
          length,
          p,            \* offset of the cursor from bytes
          remaining,
          localCount,
          count,        \* the caller's variable
          status        \* what the last call returned

vars == << pc, counting, bytes, length, p, remaining, localCount, count,
           status >>

\* strlen: the offset of the first NUL of a terminated string.
FirstNul(m, i) == m[i] = 0 /\ \A j \in 1 .. i - 1 : m[j] # 0
IsCString(m)   == \E i \in 1 .. Len(m) : FirstNul(m, i)
StrLen(m)      == (CHOOSE i \in 1 .. Len(m) : FirstNul(m, i)) - 1

-----------------------------------------------------------------------------
Init ==
    /\ pc = "idle" /\ counting = FALSE
    /\ bytes = NULL /\ length = 0
    /\ p = 0 /\ remaining = 0 /\ localCount = 0
    /\ count = 0 /\ status = OK

\* The entry of a byte-length function: the argument checks, then the locals.
\* `usable` says that no pointer argument is NULL.
Enter(usable, isCount, b, n) ==
    /\ pc = "idle"
    /\ counting' = isCount
    /\ bytes' = b /\ length' = n
    /\ p' = 0 /\ localCount' = 0
    /\ IF usable /\ FitsUtf8procLength(n, LONG_MAX)
       THEN pc' = "loop" /\ remaining' = n /\ status' = status
       ELSE /\ pc' = "returned" /\ remaining' = 0
            /\ status' = IF usable THEN ERROR ELSE INVALID
    /\ UNCHANGED count

\* Any prefix of the memory, or a length that no buffer has.
Lengths(m) == (0 .. Len(m)) \cup {LONG_MAX + 1}

ValidateBytes ==
    \/ \E m \in Memory : \E n \in Lengths(m) : Enter(TRUE, FALSE, m, n)
    \/ Enter(FALSE, FALSE, NULL, 0)

CodepointCountBytes ==
    \/ \E m \in Memory, hasCount \in BOOLEAN :
          \E n \in Lengths(m) : Enter(hasCount, TRUE, m, n)
    \/ Enter(FALSE, TRUE, NULL, 0)

Validate ==
    \/ \E m \in Memory : IsCString(m) /\ Enter(TRUE, FALSE, m, StrLen(m))
    \/ Enter(FALSE, FALSE, NULL, 0)

CodepointCount ==
    \/ \E m \in Memory, hasCount \in BOOLEAN :
          IsCString(m) /\ Enter(hasCount, TRUE, m, StrLen(m))
    \/ Enter(FALSE, TRUE, NULL, 0)

-----------------------------------------------------------------------------
Step == Iterate(bytes, p, p + remaining).step

\* Mutant: the caller's variable is the loop's counter.
AdvanceInPlace ==
    /\ pc = "loop" /\ remaining > 0 /\ Step > 0
    /\ p' = p + Step
    /\ remaining' = remaining - Step
    /\ localCount' = IF counting THEN localCount + 1 ELSE localCount
    /\ count' = IF counting THEN count + 1 ELSE count
    /\ UNCHANGED << pc, counting, bytes, length, status >>

Advance ==
    /\ pc = "loop" /\ remaining > 0 /\ Step > 0
    /\ p' = p + Step
    /\ remaining' = remaining - Step
    /\ localCount' = IF counting THEN localCount + 1 ELSE localCount
    /\ UNCHANGED << pc, counting, bytes, length, count, status >>

Reject ==
    /\ pc = "loop" /\ remaining > 0 /\ Step <= 0
    /\ status' = IF Step < 0 THEN LeoUTF8StatusFromUtf8proc(Step) ELSE ERROR
    /\ pc' = "returned"
    /\ UNCHANGED << counting, bytes, length, p, remaining, localCount, count >>

Accept ==
    /\ pc = "loop" /\ remaining <= 0
    /\ count' = IF counting THEN localCount ELSE count
    /\ status' = OK
    /\ pc' = "returned"
    /\ UNCHANGED << counting, bytes, length, p, remaining, localCount >>

\* The caller has the answer; the call's arguments and locals are gone.
Return ==
    /\ pc = "returned" /\ pc' = "idle" /\ counting' = FALSE
    /\ bytes' = NULL /\ length' = 0
    /\ p' = 0 /\ remaining' = 0 /\ localCount' = 0
    /\ UNCHANGED << count, status >>

Call == ValidateBytes \/ CodepointCountBytes \/ Validate \/ CodepointCount
Run  == Advance \/ Reject \/ Accept
Next == Call \/ Run \/ Return

\* A call is ordinary sequential code: once entered it keeps running.
Spec == Init /\ [][Next]_vars /\ WF_vars(Run)

-----------------------------------------------------------------------------
(* Correctness.                                                            *)

TypeOK ==
    /\ pc \in {"idle", "loop", "returned"}
    /\ counting \in BOOLEAN
    /\ bytes \in Memory \cup {NULL}
    /\ {length, p, remaining, localCount, count} \subseteq Nat
    /\ status \in Status
    /\ pc = "loop" => bytes \in Memory /\ length <= Len(bytes)

\* The cuts divide the first m bytes of s into encodings.
Tiles(cuts, s, m) ==
    /\ {0, m} \subseteq cuts
    /\ \A a \in cuts, b \in cuts :
          (a < b /\ \A c \in cuts : c <= a \/ b <= c) => Encodes(s, a, b)

\* At every turn of the loop the cursor stands between two characters: what is
\* behind it is a whole number of encodings - localCount of them when the call
\* counts - and what is ahead is what `remaining` says, so the scan never
\* steps over the end of the buffer it was given.
CursorBetweenCharacters ==
    pc = "loop" =>
        /\ p + remaining = length
        /\ \E cuts \in SUBSET (0 .. p) :
              /\ Tiles(cuts, bytes, p)
              /\ counting => Cardinality(cuts) = localCount + 1

\* A scan that stopped early (`remaining` bytes are left) stopped at its first
\* ill-formed byte sequence: no scalar value's encoding starts at the cursor.
RejectsAtFirstDefect ==
    (pc = "returned" /\ remaining > 0) =>
        \A to \in p + 1 .. length : ~ Encodes(bytes, p, to)

\* A call as its caller sees it.
Phase    == CASE pc = "idle"     -> "idle"
              [] pc = "loop"     -> "asked"
              [] pc = "returned" -> "answered"
Question == [count |-> counting, bytes |-> bytes, length |-> length]

Promise == INSTANCE Utf8WellFormed WITH phase <- Phase, question <- Question

\* Every call is answered as the abstract specification promises: LEO_UTF8_OK
\* exactly for the byte strings the Unicode table calls well formed, the count
\* written then and only then, and every call that is entered returns.
Promised == Promise!Spec
==============================================================================
