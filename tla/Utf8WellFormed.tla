--------------------------- MODULE Utf8WellFormed ----------------------------
(***************************************************************************)
(* What well-formed UTF-8 is, as the Unicode standard tabulates it (table  *)
(* 3-7), independently of how utf8proc decodes; and the abstract           *)
(* specification of the scanning functions: one atomic, correct answer per *)
(* call.                                                                   *)
(***************************************************************************)
EXTENDS Integers, Sequences, FiniteSets

CONSTANTS Memory, NULL, LONG_MAX

VARIABLES phase,         \* "idle", "asked", "answered"
          question,      \* the arguments of the call: count?, bytes, length
          count, status

promised == << phase, question, count, status >>

\* The rows of the table: the range of each byte of a sequence.
Trail  == 128 .. 191
Table == { << 0..127 >>,
           << 194..223, Trail >>,
           << {224}, 160..191, Trail >>,
           << 225..236, Trail, Trail >>,
           << {237}, 128..159, Trail >>,
           << 238..239, Trail, Trail >>,
           << {240}, 144..191, Trail, Trail >>,
           << 241..243, Trail, Trail, Trail >>,
           << {244}, 128..143, Trail, Trail >> }

InRow(row, s, from, to) ==
    /\ to - from = Len(row)
    /\ \A i \in 1 .. Len(row) : s[from + i] \in row[i]

WellFormed(s, m) ==
    LET whole[k \in 0 .. m] ==     \* the first k bytes are whole characters
            \/ k = 0
            \/ \E n \in 1 .. 4 :
                  /\ n <= k
                  /\ \E row \in Table : InRow(row, s, k - n, k)
                  /\ whole[k - n]
    IN  whole[m]

Characters(s, m) == Cardinality({i \in 1 .. m : s[i] \notin Trail})

-----------------------------------------------------------------------------
Nothing  == [count |-> FALSE, bytes |-> NULL, length |-> 0]
IsQuestion(q) == /\ q.count \in BOOLEAN /\ q.length \in Nat
                 /\ q.bytes = NULL \/ q.bytes \in Memory

Init == phase = "idle" /\ question = Nothing
        /\ count = 0 /\ status = "LEO_UTF8_OK"

Ask ==
    /\ phase = "idle" /\ phase' = "asked"
    /\ IsQuestion(question')
    /\ question'.bytes # NULL /\ question'.length <= Len(question'.bytes)
    /\ UNCHANGED << count, status >>

\* A call with a NULL pointer, or with a length beyond LONG_MAX.
Refuse ==
    /\ phase = "idle" /\ phase' = "answered"
    /\ IsQuestion(question')
    /\ \/ /\ question'.bytes = NULL \/ question'.count
          /\ status' = "LEO_UTF8_INVALID"
       \/ /\ question'.length > LONG_MAX
          /\ status' = "LEO_UTF8_ERROR"
    /\ UNCHANGED count

Answer ==
    /\ phase = "asked" /\ phase' = "answered"
    /\ IF WellFormed(question.bytes, question.length)
       THEN /\ status' = "LEO_UTF8_OK"
            /\ count' = IF question.count
                        THEN Characters(question.bytes, question.length)
                        ELSE count
       ELSE status' = "LEO_UTF8_INVALID" /\ UNCHANGED count
    /\ UNCHANGED question

Take == /\ phase = "answered" /\ phase' = "idle" /\ question' = Nothing
        /\ UNCHANGED << count, status >>

Next == Ask \/ Refuse \/ Answer \/ Take

\* Every answer is the right one, whenever it comes.
Answers == Init /\ [][Next]_promised

Spec == Answers /\ WF_promised(Answer)
==============================================================================
