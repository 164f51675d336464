---------------------------- MODULE Utf8procData -----------------------------
(***************************************************************************)
(* What utf8proc_map knows of single code points: the tables of            *)
(* utf8proc_data.c, as functions over the code points that have an entry,  *)
(* the algorithmic Hangul syllables, and utf8proc_decompose_char.          *)
(*                                                                         *)
(* LeoUTF8 maps with one of three option sets, all of them UTF8PROC_STABLE *)
(* besides: COMPOSE, DECOMPOSE, CASEFOLD.                                  *)
(***************************************************************************)
EXTENDS Utf8Codec, SequencesExt

CONSTANTS CombiningClassTable,   \* code point -> its non-zero combining class
          DecompTable,           \* code point -> its canonical decomp_seqindex
          CaseFoldTable,         \* code point -> its casefold_seqindex
          CombinationTable       \* << first, second >> -> their composition

CombiningClass(uc) ==
    IF uc \in DOMAIN CombiningClassTable THEN CombiningClassTable[uc] ELSE 0

-----------------------------------------------------------------------------
(* Hangul.                                                                 *)

SBASE  == 44032
LBASE  == 4352
VBASE  == 4449
TBASE  == 4519
LCOUNT == 19
VCOUNT == 21
TCOUNT == 28
NCOUNT == VCOUNT * TCOUNT
SCOUNT == LCOUNT * NCOUNT

IsIndex(i, n) == 0 <= i /\ i < n

IsHangulSyllable(uc) == IsIndex(uc - SBASE, SCOUNT)

DecomposeHangul(uc) ==
    LET s == uc - SBASE
        t == s % TCOUNT
        lv == << LBASE + s \div NCOUNT, VBASE + (s % NCOUNT) \div TCOUNT >>
    IN  IF t = 0 THEN lv ELSE Append(lv, TBASE + t)

-----------------------------------------------------------------------------
(* utf8proc_decompose_char.                                                *)

Normalizing(options) == options \in {COMPOSE, DECOMPOSE}

Entry(options) == IF Normalizing(options) THEN DecompTable ELSE CaseFoldTable

\* Mutant: an entry's code points are written as they stand.
ExpansionOnce(options) == Entry(options)

\* seqindex_write_char_decomposed: an entry's code points, each decomposed
\* under the same options in its turn.
Expansion(options) ==
    LET table == Entry(options)
        expansion[uc \in DOMAIN table] ==
            FlattenSeq([i \in 1 .. Len(table[uc]) |->
                           IF table[uc][i] \in DOMAIN table
                           THEN expansion[table[uc][i]]
                           ELSE << table[uc][i] >>])
    IN  expansion

\* What utf8proc_decompose_char would write into a large enough buffer; its
\* return value is the length.
DecomposeChar(options, uc) ==
    CASE Normalizing(options) /\ IsHangulSyllable(uc) -> DecomposeHangul(uc)
      [] OTHER -> IF uc \in DOMAIN Entry(options)
                  THEN Expansion(options)[uc] ELSE << uc >>

-----------------------------------------------------------------------------
\* Combining classes are those of a uint8_t-sized table.  Compositions are
\* starters; none begins with what the Hangul rules compose.
ASSUME TableAssumption ==
    /\ \A uc \in DOMAIN CombiningClassTable :
          /\ uc \in Scalar /\ ~ IsHangulSyllable(uc)
          /\ CombiningClassTable[uc] \in 1 .. 254
    /\ \A pair \in DOMAIN CombinationTable :
          /\ CombinationTable[pair] \in Scalar
          /\ CombinationTable[pair] \notin DOMAIN CombiningClassTable
          /\ ~ IsHangulSyllable(pair[1]) /\ ~ IsIndex(pair[1] - LBASE, LCOUNT)

\* The code points some entry of these code points has.
Targets(table, cps) == UNION {Range(table[uc]) : uc \in cps \cap DOMAIN table}

\* An entry is never empty, and entries refer to entries at most three deep.
\* Hangul syllables and the jamo they are made of have no entry in the
\* decomposition table and are in none.
ASSUME EntryAssumption ==
    /\ \A options \in Options :
          LET table == Entry(options)
              next(cps) == Targets(table, cps)
          IN  /\ \A uc \in DOMAIN table : table[uc] \in Seq(Scalar) \ {<< >>}
              /\ next(next(next(DOMAIN table))) \cap DOMAIN table = {}
    /\ \A uc \in DOMAIN DecompTable :
          /\ ~ IsHangulSyllable(uc) /\ ~ IsIndex(uc - LBASE, LCOUNT)
          /\ ~ IsIndex(uc - VBASE, VCOUNT) /\ ~ IsIndex(uc - TBASE, TCOUNT)
          /\ \A i \in DOMAIN DecompTable[uc] : ~ IsHangulSyllable(DecompTable[uc][i])

\* Two characters compose to one that decomposes to these two: the tables are
\* made from one list of decompositions.
ASSUME CompositionAssumption ==
    \A pair \in DOMAIN CombinationTable :
       /\ CombinationTable[pair] \in DOMAIN DecompTable
       /\ DecompTable[CombinationTable[pair]] = pair
==============================================================================
