--------------------------- MODULE MCUtf8procMap ----------------------------
(* Instances of Utf8procMap over real entries of utf8proc_data.c: some     *)
(* thirty characters with everything they decompose, fold and compose to,  *)
(* so that no sequence of them leaves the tables.                          *)
EXTENDS Utf8procMap

Table(entries) == [key \in {e[1] : e \in entries} |->
                      (CHOOSE e \in entries : e[1] = key)[2]]

CombiningClassEntries == Table({
    << \h0301, 230 >>, << \h0307, 230 >>, << \h0308, 230 >>,
    << \h030A, 230 >>, << \h0323, 220 >>, << \h0344, 230 >>,
    << \h0345, 240 >>, << \h1D165, 216 >> })

DecompEntries == Table({
    << \h00C1, << \h0041, \h0301 >> >>,
    << \h00C4, << \h0041, \h0308 >> >>,
    << \h00C5, << \h0041, \h030A >> >>,
    << \h00E1, << \h0061, \h0301 >> >>,
    << \h00E4, << \h0061, \h0308 >> >>,
    << \h00E5, << \h0061, \h030A >> >>,
    << \h015B, << \h0073, \h0301 >> >>,
    << \h01FA, << \h00C5, \h0301 >> >>,
    << \h01FB, << \h00E5, \h0301 >> >>,
    << \h0226, << \h0041, \h0307 >> >>,
    << \h0227, << \h0061, \h0307 >> >>,
    << \h0344, << \h0308, \h0301 >> >>,
    << \h0390, << \h03CA, \h0301 >> >>,
    << \h03AF, << \h03B9, \h0301 >> >>,
    << \h03CA, << \h03B9, \h0308 >> >>,
    << \h1E61, << \h0073, \h0307 >> >>,
    << \h1E63, << \h0073, \h0323 >> >>,
    << \h1E65, << \h015B, \h0307 >> >>,
    << \h1E69, << \h1E63, \h0307 >> >>,
    << \h1E9B, << \h017F, \h0307 >> >>,
    << \h1EA0, << \h0041, \h0323 >> >>,
    << \h1EA1, << \h0061, \h0323 >> >>, << \h212B, << \h00C5 >> >>,
    << \h1D15E, << \h1D157, \h1D165 >> >> })

CaseFoldEntries == Table({
    << \h0041, << \h0061 >> >>, << \h00C1, << \h00E1 >> >>,
    << \h00C4, << \h00E4 >> >>, << \h00C5, << \h00E5 >> >>,
    << \h00DF, << \h0073, \h0073 >> >>, << \h017F, << \h0073 >> >>,
    << \h01FA, << \h01FB >> >>, << \h0226, << \h0227 >> >>,
    << \h0345, << \h03B9 >> >>,
    << \h0390, << \h03B9, \h0308, \h0301 >> >>,
    << \h1E9B, << \h1E61 >> >>, << \h1EA0, << \h1EA1 >> >>,
    << \h212B, << \h00E5 >> >> })

CombinationEntries == Table({
    << << \h0041, \h0301 >>, \h00C1 >>,
    << << \h0041, \h0307 >>, \h0226 >>,
    << << \h0041, \h0308 >>, \h00C4 >>,
    << << \h0041, \h030A >>, \h00C5 >>,
    << << \h0041, \h0323 >>, \h1EA0 >>,
    << << \h0061, \h0301 >>, \h00E1 >>,
    << << \h0061, \h0307 >>, \h0227 >>,
    << << \h0061, \h0308 >>, \h00E4 >>,
    << << \h0061, \h030A >>, \h00E5 >>,
    << << \h0061, \h0323 >>, \h1EA1 >>,
    << << \h0073, \h0301 >>, \h015B >>,
    << << \h0073, \h0307 >>, \h1E61 >>,
    << << \h0073, \h0323 >>, \h1E63 >>,
    << << \h00C5, \h0301 >>, \h01FA >>,
    << << \h00E5, \h0301 >>, \h01FB >>,
    << << \h015B, \h0307 >>, \h1E65 >>,
    << << \h017F, \h0307 >>, \h1E9B >>,
    << << \h03B9, \h0301 >>, \h03AF >>,
    << << \h03B9, \h0308 >>, \h03CA >>,
    << << \h03CA, \h0301 >>, \h0390 >>,
    << << \h1E63, \h0307 >>, \h1E69 >> })

\* The characters the texts are made of, by what they are there for.
A              == \h0041
s              == \h0073
Aring          == \h00C5
Angstrom       == \h212B      \* decomposes in two steps, never comes back
sAbove         == \h1E61
sBelow         == \h1E63
sBoth          == \h1E69      \* composes in two steps
LongS          == \h017F      \* folds to s
LongSAbove     == \h1E9B
SharpS         == \h00DF      \* folds to ss
Ring           == \h030A      \* marks above: class 230
DotAbove       == \h0307
Acute          == \h0301
DotBelow       == \h0323      \* class 220
DiaeresisAcute == \h0344      \* a mark that decomposes into two, for good
Ypogegrammeni  == \h0345      \* a mark, 240, that folds to a letter
Iota           == \h03B9
IotaDiaeresis  == \h03CA
IotaBoth       == \h0390      \* folds to three
HalfNote       == \h1D15E     \* four bytes; excluded from composition
Stem           == \h1D165     \* class 216
Ga             == \hAC00      \* Hangul: an LV and an LVT syllable, jamo
Gag            == \hAC01
Kiyeok         == \h1100
Vowel          == \h1161
Trail          == \h11A8

-----------------------------------------------------------------------------
Upto(n, set) == UNION { [1 .. k -> set] : k \in 0 .. n }

\* Any two of all the characters; any few around the combining of marks and of
\* jamo; and what is malformed before, between and after well-formed text.
Alphabet == {A, s, Aring, Angstrom, sAbove, sBelow, sBoth, LongS, LongSAbove,
             SharpS, Ring, DotAbove, DotBelow, DiaeresisAcute, Ypogegrammeni,
             Iota, IotaDiaeresis, IotaBoth, HalfNote, Stem, Ga, Gag, Kiyeok,
             Vowel, Trail}
Texts == Upto(2, Alphabet)
         \cup Upto(4, {s, sAbove, DotAbove, DotBelow})
         \cup [1 .. 3 -> {s, Angstrom, LongSAbove, Ring, DotAbove, DotBelow,
                       HalfNote, Stem}]
         \cup [1 .. 3 -> {Iota, IotaDiaeresis, Acute, DiaeresisAcute, Stem}]
         \cup [1 .. 3 -> {Kiyeok, Vowel, Trail, Ga, DotBelow}]
Defects == { << 128 >>, << 195 >>, << 237, 160, 128 >>, << 244, 144, 128, 128 >> }
Strings == { Encoding(t) : t \in Texts }
            \cup { Encoding(<< a >>) \o d \o Encoding(<< b >>) :
                      a \in {s, IotaBoth}, d \in Defects, b \in {DotAbove, Ga} }

MCCombiningClassTable == CombiningClassEntries
MCDecompTable         == DecompEntries
MCCaseFoldTable       == CaseFoldEntries
MCCombinationTable    == CombinationEntries
MCInputs              == Strings
MCMaxWords            == 6
==============================================================================
