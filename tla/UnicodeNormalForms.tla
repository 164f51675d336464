-------------------------- MODULE UnicodeNormalForms -------------------------
(***************************************************************************)
(* The Unicode normalisation forms and full case folding, as the standard  *)
(* defines them (decomposition D68, canonical order D109, canonical        *)
(* composition D115-D117), independently of how utf8proc computes them;    *)
(* and which answers to a call of utf8proc_map are right by them.  Only    *)
(* the character tables are shared with the model of the code.             *)
(***************************************************************************)
EXTENDS Utf8procData, Utf8Text

\* One mapping applied everywhere; then until nothing changes.  A Hangul
\* syllable maps to an LV syllable and a trailing consonant, or, being LV
\* itself, to a leading consonant and a vowel.
HangulMapping(c) ==
    LET LV == CHOOSE lv \in {44032 + 28 * k : k \in 0 .. 398} :
                 lv <= c /\ c < lv + 28
        L  == CHOOSE l \in 4352 .. 4370 :
                 \E v \in 0 .. 20 : c = 44032 + (l - 4352) * 588 + v * 28
    IN  IF c = LV THEN << L, 4449 + (c - 44032 - (L - 4352) * 588) \div 28 >>
        ELSE << LV, 4519 + c - LV >>

Mapping(opts, c) ==
    IF Normalizing(opts) /\ IsHangulSyllable(c) THEN HangulMapping(c)
    ELSE IF c \in DOMAIN Entry(opts) THEN Entry(opts)[c]
    ELSE << c >>

Mapped(opts, cs) == FlattenSeq([i \in 1 .. Len(cs) |-> Mapping(opts, cs[i])])

FullyMapped(opts, cs) == Mapped(opts, Mapped(opts, Mapped(opts, cs)))

\* Canonical order: characters of non-zero class sort by class, stably, between
\* the starters around them.  Before(i, j): i ends up before j.
Before(cs, i, j) ==
    LET ccc(k)   == CombiningClass(cs[k])
        lo       == IF i < j THEN i ELSE j
        hi       == IF i < j THEN j ELSE i
        together == \A k \in lo .. hi : ccc(k) > 0
    IN  IF together /\ ccc(i) # ccc(j) THEN ccc(i) < ccc(j) ELSE i < j

InCanonicalOrder(cs) ==
    [n \in 1 .. Len(cs) |->
        cs[CHOOSE i \in 1 .. Len(cs) :
              Cardinality({j \in 1 .. Len(cs) : Before(cs, j, i)}) = n - 1]]

\* The primary composite of two characters, if there is one.
HasComposite(a, b) ==
    \/ << a, b >> \in DOMAIN CombinationTable
    \/ a \in 4352 .. 4370 /\ b \in 4449 .. 4469
    \/ IsHangulSyllable(a) /\ (a - 44032) % 28 = 0 /\ b \in 4520 .. 4546
Composite(a, b) ==
    CASE << a, b >> \in DOMAIN CombinationTable -> CombinationTable[<< a, b >>]
      [] a \in 4352 .. 4370 -> 44032 + (a - 4352) * 588 + (b - 4449) * 28
      [] IsHangulSyllable(a) -> a + b - 4519

\* Add c to what is composed so far: to the last starter, unless something
\* between them blocks it.
AddComposing(cs, c) ==
    LET starters == {i \in 1 .. Len(cs) : CombiningClass(cs[i]) = 0}
        last     == CHOOSE i \in starters : \A j \in starters : j <= i
        blocked  == \E i \in last + 1 .. Len(cs) :
                       CombiningClass(cs[i]) >= CombiningClass(c)
    IN  IF starters # {} /\ ~ blocked /\ HasComposite(cs[last], c)
        THEN [cs EXCEPT ![last] = Composite(cs[last], c)]
        ELSE Append(cs, c)

Composed(cs) ==
    LET upTo[n \in 0 .. Len(cs)] ==
            IF n = 0 THEN << >> ELSE AddComposing(upTo[n - 1], cs[n])
    IN  upTo[Len(cs)]

NormalForm(opts, cs) ==
    LET mapped == FullyMapped(opts, cs)
    IN  CASE opts = CASEFOLD  -> mapped
          [] opts = DECOMPOSE -> InCanonicalOrder(mapped)
          [] opts = COMPOSE   -> Composed(InCanonicalOrder(mapped))

-----------------------------------------------------------------------------
\* A call asks for the normal form of a byte string; its answer is a text and
\* the return value.
Requests    == [options : Options, str : Seq(Byte)]
NoAnswer    == [text |-> << >>, rc |-> 0]
Error(code) == [text |-> << >>, rc |-> code]

\* The normal form, NUL-terminated, with its length; or the error that applies.
\* Memory may run out at any call.
RightAnswer(maxWords, request, answer) ==
    LET cs     == Characters(request.str)
        text   == Encoding(NormalForm(request.options, cs))
        mapped == Len(FullyMapped(request.options, cs))
    IN  \/ /\ WellFormed(request.str) /\ mapped <= maxWords
           /\ answer \in {[text |-> Append(text, 0), rc |-> Len(text)],
                          Error(UTF8PROC_ERROR_NOMEM)}
        \/ /\ ~ WellFormed(request.str) /\ mapped <= maxWords
           /\ answer = Error(UTF8PROC_ERROR_INVALIDUTF8)
        \/ mapped > maxWords /\ answer = Error(UTF8PROC_ERROR_OVERFLOW)
==============================================================================
