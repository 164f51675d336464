----------------------------- MODULE CoreClients -----------------------------
(***************************************************************************)
(* The C programs of the repository that live on LeoUTF8Core - the probe,  *)
(* the example and the consumer's probe - composed with the library.  A    *)
(* program is a line of checks; the first that fails ends it with exit     *)
(* code 1.  Texts are byte strings here, and a scanning call, which keeps  *)
(* nothing, is one step.                                                   *)
(***************************************************************************)
EXTENDS LeoUTF8Core, Utf8Text

\* Both halves of the library agree on what is malformed.
ASSUME MalformedAssumption == \A t \in Texts : t \in Malformed <=> ~ WellFormed(t)

VARIABLES program,      \* the checks yet to come
          at,           \* "check", "declared", "waiting", "answered", "exit"
          exit

\* A program's mapped and mappedLen: it has one such pair at a time.
pair == CHOOSE place \in Places : TRUE

clientVars == << program, at, exit >>
allVars    == << vars, clientVars >>

-----------------------------------------------------------------------------
(* The programs.                                                           *)

Scans(text, expected) ==
    [kind |-> "scan", text |-> text, expected |-> expected, exactly |-> {}]
Counts(text, n) == [Scans(text, OK) EXCEPT !.exactly = {n}]
Maps(options, cString, text) ==
    [kind |-> "map", options |-> options, cString |-> cString, text |-> text]
\* A call that must fail and clear a length that was not 0.
RefusesToMap(text) ==
    [kind |-> "refused map", options |-> COMPOSE, cString |-> TRUE, text |-> text]

\* "Groesse AOU Strasse" with its umlauts and sharp s, and "Strasse".
Sample   == << 71, 114, 195, 182, 195, 159, 101, 32, 195, 132, 195, 150,
               195, 156, 32, 83, 116, 114, 97, 195, 159, 101 >>
Strasse  == << 83, 116, 114, 97, 195, 159, 101 >>
WithNul  == << 65, 0, 66 >>
Overlong == << 192, 175 >>

\* A call with a NULL text or a NULL count is a scan of NULL.
RunValidChecks ==
    << Scans(Sample, OK), Scans(Sample, OK), Scans(WithNul, OK),
       Counts(WithNul, 3), Maps(COMPOSE, TRUE, Sample),
       Maps(DECOMPOSE, TRUE, Sample), Maps(CASEFOLD, TRUE, Sample) >>
RunInvalidChecks ==
    << Scans(NULL, INVALID), Scans(NULL, INVALID), Scans(NULL, INVALID),
       Scans(<< 128 >>, INVALID), Scans(<< 195 >>, INVALID),
       Scans(<< 226, 130 >>, INVALID), Scans(Overlong, INVALID),
       Scans(Overlong, INVALID), RefusesToMap(Overlong) >>

Probe    == RunValidChecks \o RunInvalidChecks
Example  == << Scans(Strasse, OK), Scans(Strasse, OK),
               Maps(CASEFOLD, FALSE, Strasse) >>
Consumer == << Scans(Strasse, OK), Counts(Strasse, 6) >>

\* What the programs use: a variable to map into, the values they leave in its
\* length, and texts a C string can be.
ASSUME ProgramAssumption ==
    /\ Places # {} /\ {0, 12345} \subseteq Leftovers
    /\ {Sample, Strasse, Overlong} \subseteq Texts \ Oversized

-----------------------------------------------------------------------------
ClientsInit ==
    /\ Init
    /\ program \in {Probe, Example, Consumer} /\ at = "check" /\ exit = 0

Check == Head(program)

Pass        == program' = Tail(program) /\ at' = "check" /\ UNCHANGED exit
Leave(code) == at' = "exit" /\ exit' = code /\ UNCHANGED program

\* LeoUTF8Validate and LeoUTF8CodepointCount, as C strings or with a length.
ScanStatus(text) ==
    CASE text = NULL                         -> INVALID
      [] text # NULL /\ ~ WellFormed(text)   -> INVALID
      [] OTHER                               -> OK

Scan ==
    /\ at = "check" /\ program # << >> /\ Check.kind = "scan"
    /\ IF /\ ScanStatus(Check.text) = Check.expected
          /\ \A n \in Check.exactly : Len(Characters(Check.text)) = n
       THEN Pass ELSE Leave(1)
    /\ UNCHANGED vars

\* mapped = 0, and mappedLen = 0 or, to see it cleared, 12345.
Declare ==
    /\ at = "check" /\ program # << >> /\ Check.kind # "scan"
    /\ at' = "declared"
    /\ out' = [out EXCEPT ![pair] = NULL]
    /\ outLen' =
          [outLen EXCEPT ![pair] = IF Check.kind = "map" THEN 0 ELSE 12345]
    /\ UNCHANGED << pc, call, mapped, rc, status, heap, mine, program, exit >>

Ask ==
    /\ at = "declared" /\ at' = "waiting"
    /\ pc' = "map"
    /\ call' = [options |-> Check.options, cString |-> Check.cString,
                wantLen |-> TRUE, text |-> Check.text, place |-> pair]
    /\ UNCHANGED << mapped, rc, status, out, outLen, heap, mine, program, exit >>

Await == /\ at = "waiting" /\ Return /\ at' = "answered"
         /\ UNCHANGED << program, exit >>

\* LeoUTF8Free(mapped), which lets NULL pass.  A program that freed memory twice
\* would get no further than this.
FreeMapped == /\ out[pair] \in DOMAIN heap \cup {NULL}
              /\ heap' = [a \in DOMAIN heap \ {out[pair]} |-> heap[a]]
              /\ mine' = mine \ {pair}

\* Mutant: print_mapped forgets the memory.
PrintMappedLeaking ==
    /\ at = "answered" /\ Check.kind = "map"
    /\ IF status = OK THEN Pass ELSE Leave(1)
    /\ UNCHANGED vars

\* print_mapped and its like: the text is printed and freed.
PrintMapped ==
    /\ at = "answered" /\ Check.kind = "map"
    /\ IF status = OK THEN FreeMapped /\ Pass
       ELSE Leave(1) /\ UNCHANGED << heap, mine >>
    /\ UNCHANGED << pc, call, mapped, rc, status, out, outLen >>

\* The last of run_invalid_checks: whatever came out is freed on the way out.
ExpectRefusal ==
    /\ at = "answered" /\ Check.kind = "refused map"
    /\ IF status = INVALID /\ out[pair] = NULL /\ outLen[pair] = 0
       THEN Pass /\ UNCHANGED << heap, mine >>
       ELSE FreeMapped /\ Leave(1)
    /\ UNCHANGED << pc, call, mapped, rc, status, out, outLen >>

Finish == at = "check" /\ program = << >> /\ Leave(0) /\ UNCHANGED vars

ClientsNext ==
    \/ Scan \/ Declare \/ Ask \/ Await \/ PrintMapped \/ ExpectRefusal \/ Finish
    \/ Run /\ UNCHANGED clientVars

\* One sequential process, which goes on until it exits.
ClientsSpec == ClientsInit /\ [][ClientsNext]_allVars /\ WF_allVars(ClientsNext)

-----------------------------------------------------------------------------
(* Correctness.                                                            *)

\* The programs keep their side of the contract: what they do to their output
\* variables and to the heap is what a client of LeoUTF8Core may do, so that
\* all that is proved of LeoUTF8Core holds of the programs.
LawfulClient == Spec

\* No way out of a program leaves memory allocated.
NothingHeldAtExit == at = "exit" => DOMAIN heap = {}

\* Every program ends, and it ends with exit code 1 exactly when memory ran
\* out: no check of the probe fails for another reason, the one for cleared
\* outputs included, and none hides that failure.
EndsWithVerdict == <>[](at = "exit" /\ (exit = 1 <=> status = NO_MEMORY))
==============================================================================
