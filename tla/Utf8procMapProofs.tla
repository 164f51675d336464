-------------------------- MODULE Utf8procMapProofs --------------------------
(***************************************************************************)
(* The mapping engine, for every byte string, every size of memory and     *)
(* every contents of the tables that TableAssumption and EntryAssumption   *)
(* allow: first that a character is decomposed as the standard has it,     *)
(* then the invariants of the loops, then what the loops compute - the     *)
(* mapped text, its canonical order, its composition, its encoding - and   *)
(* from that that every answer is the promised one.                        *)
(***************************************************************************)
EXTENDS Utf8procMap, Utf8CodecProofs, FiniteSetTheorems

-----------------------------------------------------------------------------
(* Characters.                                                             *)

LEMMA ClassRange == ASSUME NEW uc PROVE CombiningClass(uc) \in 0 .. 254
BY SMT, TableAssumption DEF CombiningClass

\* What the Hangul mapping of the standard chooses, in numbers.
LEMMA HangulMapped ==
    ASSUME NEW c \in CodePoint, IsHangulSyllable(c),
           NEW s, s = c - 44032
    PROVE  /\ s \in Nat /\ s < 11172
           /\ s % 28 = 0 => HangulMapping(c) = << 4352 + s \div 588,
                                                  4449 + (s % 588) \div 28 >>
           /\ s % 28 # 0 => HangulMapping(c) = << c - (s % 28), 4519 + (s % 28) >>
<1>1. s \in Nat /\ s < 11172 /\ c \in Nat /\ c = 44032 + s
  BY SMT DEF CodePoint, IsHangulSyllable, IsIndex, SBASE, LCOUNT, NCOUNT,
             VCOUNT, TCOUNT, SCOUNT
<1> DEFINE LVs == {44032 + 28 * k : k \in 0 .. 398}
           LV  == CHOOSE lv \in LVs : lv <= c /\ c < lv + 28
           Made(l) == \E v \in 0 .. 20 : c = 44032 + (l - 4352) * 588 + v * 28
           L   == CHOOSE l \in 4352 .. 4370 : Made(l)
<1>2. LV = c - (s % 28)
  <2>1. c - (s % 28) = 44032 + 28 * (s \div 28) /\ s \div 28 \in 0 .. 398
    BY SMT, <1>1
  <2>2. c - (s % 28) \in LVs
    BY <2>1
  <2>3. c - (s % 28) <= c /\ c < c - (s % 28) + 28
    BY SMT, <1>1
  <2>4. ASSUME NEW lv \in LVs, lv <= c, c < lv + 28 PROVE lv = c - (s % 28)
    <3>1. PICK k \in 0 .. 398 : lv = 44032 + 28 * k
      OBVIOUS
    <3>2. k \in Int /\ 28 * k <= s /\ s < 28 * k + 28
      BY SMT, <1>1, <2>4, <3>1
    <3>3. s \div 28 = k
      BY SMT, <1>1, <3>2
    <3> QED
      BY <2>1, <3>1, <3>3
  <2> HIDE DEF LVs
  <2> QED
    BY <2>2, <2>3, <2>4
<1>3. ASSUME s % 28 = 0 PROVE L = 4352 + s \div 588
  <2>1. /\ s \div 588 \in 0 .. 18 /\ (s % 588) \div 28 \in 0 .. 20
        /\ s = (s \div 588) * 588 + ((s % 588) \div 28) * 28
    BY SMT, <1>1, <1>3
  <2>2. 4352 + s \div 588 \in 4352 .. 4370
        /\ (4352 + s \div 588) - 4352 = s \div 588
    <3>1. PICK d : d = s \div 588
      OBVIOUS
    <3>2. d \in 0 .. 18
      BY <2>1, <3>1
    <3>3. 4352 + d \in 4352 .. 4370 /\ (4352 + d) - 4352 = d
      BY SMT, <3>2
    <3> QED
      BY <3>1, <3>3
  <2>3. Made(4352 + s \div 588)
    <3>1. c = 44032 + (s \div 588) * 588 + ((s % 588) \div 28) * 28
      BY SMT, <1>1, <2>1
    <3> QED
      BY <2>1, <2>2, <3>1
  <2>4. ASSUME NEW l \in 4352 .. 4370, Made(l) PROVE l = 4352 + s \div 588
    <3>1. PICK v \in 0 .. 20 : c = 44032 + (l - 4352) * 588 + v * 28
      BY <2>4
    <3>2. PICK d : d = l - 4352
      OBVIOUS
    <3>3. d \in 0 .. 18 /\ l = 4352 + d /\ s = d * 588 + v * 28
      BY SMT, <1>1, <3>1, <3>2
    <3>4. s \div 588 = d
      BY SMT, <1>1, <3>3
    <3> QED
      BY <3>3, <3>4
  <2> HIDE DEF Made
  <2> QED
    BY <2>2, <2>3, <2>4
<1>4. HangulMapping(c) =
         IF c = LV THEN << L, 4449 + (c - 44032 - (L - 4352) * 588) \div 28 >>
         ELSE << LV, 4519 + c - LV >>
  BY DEF HangulMapping
<1> HIDE DEF LV, L
<1>5. ASSUME s % 28 = 0
      PROVE  HangulMapping(c) = << 4352 + s \div 588, 4449 + (s % 588) \div 28 >>
  <2>1. c = LV
    BY SMT, <1>1, <1>2, <1>5
  <2>2. c - 44032 - (L - 4352) * 588 = s % 588
    BY SMT, <1>1, <1>3, <1>5
  <2> QED
    BY <1>3, <1>4, <1>5, <2>1, <2>2
<1>6. ASSUME s % 28 # 0
      PROVE  HangulMapping(c) = << c - (s % 28), 4519 + (s % 28) >>
  <2>1. c # LV /\ 4519 + c - LV = 4519 + (s % 28)
    BY SMT, <1>1, <1>2, <1>6
  <2> QED
    BY <1>2, <1>4, <2>1
<1> QED
  BY <1>1, <1>5, <1>6

-----------------------------------------------------------------------------
(* One mapping of every character.                                         *)

MapOf(opts) == [c \in Scalar |-> Mapping(opts, c)]

\* What has an entry and is in cps, or has none; no Hangul syllable, where those
\* are mapped by rule.
Lower(opts, cps) ==
    {z \in Scalar : /\ ~ (Normalizing(opts) /\ IsHangulSyllable(z))
                    /\ z \in DOMAIN Entry(opts) => z \in cps}

Deep(opts, n) ==
    LET D == DOMAIN Entry(opts)
        next(cps) == Targets(Entry(opts), cps)
    IN  CASE n = 0 -> D [] n = 1 -> next(D) [] n = 2 -> next(next(D))
          [] n = 3 -> next(next(next(D)))

LEMMA EntryFacts ==
    ASSUME NEW opts \in Options, NEW c \in DOMAIN Entry(opts)
    PROVE  /\ Entry(opts)[c] \in Seq(Scalar) /\ Entry(opts)[c] # << >>
           /\ Normalizing(opts) =>
                 /\ ~ IsHangulSyllable(c)
                 /\ \A i \in DOMAIN Entry(opts)[c] :
                       ~ IsHangulSyllable(Entry(opts)[c][i])
<1>1. Entry(opts)[c] \in Seq(Scalar) \ {<< >>}
  BY Zenon, EntryAssumption
<1>2. Normalizing(opts) => Entry(opts) = DecompTable
  BY DEF Entry
<1> QED
  BY Zenon, <1>1, <1>2, EntryAssumption

LEMMA EntriesEnd ==
    ASSUME NEW opts \in Options
    PROVE  Deep(opts, 3) \cap DOMAIN Entry(opts) = {}
<1>1. Deep(opts, 3) = Targets(Entry(opts), Targets(Entry(opts),
                         Targets(Entry(opts), DOMAIN Entry(opts))))
  BY SMT DEF Deep
<1> QED
  BY Zenon, <1>1, EntryAssumption

LEMMA DeepStep ==
    ASSUME NEW opts
    PROVE  /\ Deep(opts, 0) = DOMAIN Entry(opts)
           /\ Deep(opts, 1) = Targets(Entry(opts), Deep(opts, 0))
           /\ Deep(opts, 2) = Targets(Entry(opts), Deep(opts, 1))
           /\ Deep(opts, 3) = Targets(Entry(opts), Deep(opts, 2))
BY SMT DEF Deep

LEMMA LowerMapped ==
    ASSUME NEW opts \in Options, NEW cps, NEW z \in Lower(opts, cps)
    PROVE  Mapping(opts, z) \in Seq(Lower(opts, Targets(Entry(opts), cps)))
<1> DEFINE table == Entry(opts)
           down  == Targets(table, cps)
<1>1. z \in Scalar /\ ~ (Normalizing(opts) /\ IsHangulSyllable(z))
      /\ (z \in DOMAIN table => z \in cps)
  BY DEF Lower
<1>2. CASE z \in DOMAIN table
  <2>1. Mapping(opts, z) = table[z]
    BY <1>1, <1>2 DEF Mapping
  <2>2. table[z] \in Seq(Scalar)
        /\ (Normalizing(opts) => \A i \in DOMAIN table[z] :
                                    ~ IsHangulSyllable(table[z][i]))
    BY <1>2, EntryFacts
  <2>3. PICK e : e = table[z]
    OBVIOUS
  <2>4. /\ e \in Seq(Scalar) /\ Len(e) \in Nat /\ DOMAIN e = 1 .. Len(e)
        /\ \A i \in 1 .. Len(e) : e[i] \in Scalar
    BY <2>2, <2>3, LenProperties, ElementOfSeq
  <2>5. ASSUME NEW i \in 1 .. Len(e) PROVE e[i] \in Lower(opts, down)
    <3>1. e[i] \in Range(table[z]) /\ Range(table[z]) \subseteq down
      <4>1. z \in cps \cap DOMAIN table
        BY <1>1, <1>2
      <4> QED
        BY <2>3, <2>4, <4>1 DEF Targets, Range
    <3> QED
      BY <2>2, <2>3, <2>4, <3>1 DEF Lower
  <2> HIDE DEF down, table
  <2>6. e \in Seq(Lower(opts, down))
    BY SMT, <2>4, <2>5
  <2> QED
    BY <2>1, <2>3, <2>6 DEF down, table
<1>3. CASE z \notin DOMAIN table
  <2>1. Mapping(opts, z) = << z >>
    BY <1>1, <1>3 DEF Mapping
  <2>2. z \in Lower(opts, down)
    BY <1>1, <1>3 DEF Lower
  <2> HIDE DEF down
  <2> QED
    BY <2>1, <2>2, ShortSeqs DEF down
<1> QED
  BY <1>2, <1>3

\* What is mapped no further.
Settled(opts) == Lower(opts, Deep(opts, 3))

LEMMA SettledMapped ==
    ASSUME NEW opts \in Options, NEW z \in Settled(opts)
    PROVE  Mapping(opts, z) = << z >> /\ z \notin DOMAIN Entry(opts)
<1>1. z \notin DOMAIN Entry(opts) /\ ~ (Normalizing(opts) /\ IsHangulSyllable(z))
  BY EntriesEnd DEF Settled, Lower
<1> QED
  BY <1>1 DEF Mapping

\* The jamo a Hangul syllable is made of.
IsJamo(c) == \/ IsIndex(c - LBASE, LCOUNT) \/ IsIndex(c - VBASE, VCOUNT)
             \/ IsIndex(c - TBASE, TCOUNT)

LEMMA JamoSettled ==
    ASSUME NEW opts \in Options, Normalizing(opts), NEW c \in Nat, IsJamo(c)
    PROVE  c \in Settled(opts)
<1>1. c \notin DOMAIN Entry(opts)
  BY Zenon, EntryAssumption DEF IsJamo, Entry
<1>2. c \in Scalar /\ ~ IsHangulSyllable(c)
  BY SMT DEF IsJamo, IsIndex, LBASE, VBASE, TBASE, LCOUNT, VCOUNT, TCOUNT, Scalar,
             CodePoint, Between, IsHangulSyllable, SBASE, SCOUNT, NCOUNT
<1> QED
  BY <1>1, <1>2 DEF Settled, Lower

LEMMA AppendToPair ==
    ASSUME NEW S, NEW a \in S, NEW b \in S, NEW c \in S
    PROVE  Append(<< a, b >>, c) = << a, b, c >>
<1> DEFINE x == Append(<< a, b >>, c)
           y == << a, b, c >>
<1>1. << a, b >> \in Seq(S) /\ Len(<< a, b >>) = 2
  OBVIOUS
<1>2. x \in Seq(S) /\ Len(x) = 3 /\ x[1] = a /\ x[2] = b /\ x[3] = c
  BY SMT, <1>1
<1>3. y \in Seq(S) /\ Len(y) = 3 /\ y[1] = a /\ y[2] = b /\ y[3] = c
  OBVIOUS
<1> HIDE DEF x, y
<1>4. \A i \in 1 .. Len(x) : x[i] = y[i]
  BY SMT, <1>2, <1>3
<1>5. x = y
  BY <1>2, <1>3, <1>4, SeqEqual
<1> QED
  BY <1>5 DEF x, y

\* The two or three jamo of a Hangul syllable: DecomposeHangul finds them at
\* once, the mappings of the standard in one step or two.
LEMMA HangulParts ==
    ASSUME NEW opts \in Options, Normalizing(opts),
           NEW c \in CodePoint, IsHangulSyllable(c)
    PROVE  \E l, v \in Settled(opts) :
              \/ Mapping(opts, c) = << l, v >> /\ DecomposeHangul(c) = << l, v >>
              \/ \E t \in Settled(opts), lv \in Scalar :
                    /\ Mapping(opts, c) = << lv, t >>
                    /\ Mapping(opts, lv) = << l, v >>
                    /\ DecomposeHangul(c) = << l, v, t >>
<1> DEFINE s == c - SBASE
           l == LBASE + s \div NCOUNT
           v == VBASE + (s % NCOUNT) \div TCOUNT
           t == TBASE + (s % TCOUNT)
           lv == c - (s % TCOUNT)
<1>0. Mapping(opts, c) = HangulMapping(c)
  BY DEF Mapping
<1>8. SBASE = 44032 /\ LBASE = 4352 /\ VBASE = 4449 /\ TBASE = 4519
      /\ NCOUNT = 588 /\ TCOUNT = 28
  BY SMT DEF SBASE, LBASE, VBASE, TBASE, NCOUNT, VCOUNT, TCOUNT
<1>9. /\ s = c - 44032 /\ l = 4352 + s \div 588 /\ v = 4449 + (s % 588) \div 28
      /\ t = 4519 + (s % 28) /\ lv = c - (s % 28)
  BY SMT, <1>8
<1> HIDE DEF s, l, v, t, lv
<1>1. /\ s \in Nat /\ s < 11172 /\ c = 44032 + s
      /\ s % 28 = 0 => Mapping(opts, c) = << l, v >>
      /\ s % 28 # 0 => Mapping(opts, c) = << lv, t >>
  <2>1. s \in Nat /\ c = 44032 + s
    BY SMT, <1>9 DEF CodePoint, IsHangulSyllable, IsIndex, SBASE
  <2>2. /\ s < 11172
        /\ s % 28 = 0 => HangulMapping(c) = << 4352 + s \div 588,
                                               4449 + (s % 588) \div 28 >>
        /\ s % 28 # 0 => HangulMapping(c) = << c - (s % 28), 4519 + (s % 28) >>
    BY <1>9, HangulMapped
  <2> QED
    BY <1>0, <1>9, <2>1, <2>2
<1>3. /\ IsIndex(l - LBASE, LCOUNT) /\ l \in Nat
      /\ IsIndex(v - VBASE, VCOUNT) /\ v \in Nat
      /\ IsIndex(t - TBASE, TCOUNT) /\ t \in Nat
  <2>2. s \in Nat /\ s <= 11171
    BY SMT, <1>1
  <2>3. s \div 588 \in 0 .. 18
    BY SMT, <2>2
  <2>4. s % 588 \in 0 .. 587
    BY SMT, <2>2
  <2>5. s % 28 \in 0 .. 27
    BY SMT, <2>2
  <2>6. (s % 588) \div 28 \in 0 .. 20
    BY SMT, <2>4
  <2>7. PICK i, j, k : i = s \div 588 /\ j = (s % 588) \div 28 /\ k = s % 28
    OBVIOUS
  <2>8. i \in 0 .. 18 /\ j \in 0 .. 20 /\ k \in 0 .. 27
    BY <2>3, <2>5, <2>6, <2>7
  <2>9. l = 4352 + i /\ v = 4449 + j /\ t = 4519 + k
    BY <1>9, <2>7
  <2> QED
    BY SMT, <2>8, <2>9
       DEF IsIndex, LBASE, VBASE, TBASE, LCOUNT, VCOUNT, TCOUNT
<1>2. DecomposeHangul(c) = IF s % 28 = 0 THEN << l, v >> ELSE << l, v, t >>
  <2>1. DecomposeHangul(c) = IF s % TCOUNT = 0 THEN << l, v >>
                             ELSE Append(<< l, v >>, t)
    BY DEF DecomposeHangul, s, l, v, t
  <2>2. Append(<< l, v >>, t) = << l, v, t >>
    BY <1>3, AppendToPair
  <2>3. TCOUNT = 28
    BY <1>8
  <2> QED
    BY Zenon, <2>1, <2>2, <2>3
<1>4. l \in Settled(opts) /\ v \in Settled(opts) /\ t \in Settled(opts)
  BY <1>3, JamoSettled DEF IsJamo
<1>5. lv \in Scalar /\ Mapping(opts, lv) = << l, v >>
  <2>1. PICK q, r : q = s \div 588 /\ r = s % 588
    OBVIOUS
  <2>2. q \in 0 .. 18 /\ r \in 0 .. 587 /\ s = 588 * q + r
    BY SMT, <1>1, <2>1
  <2>3. PICK k, m : k = r \div 28 /\ m = r % 28
    OBVIOUS
  <2>4. k \in 0 .. 20 /\ m \in 0 .. 27 /\ r = 28 * k + m
    BY SMT, <2>2, <2>3
  <2>5. s % 28 = m
    BY SMT, <2>2, <2>4
  <2>6. lv = c - m
    BY <1>9, <2>5
  <2>7. PICK s2 : s2 = 588 * q + 28 * k
    OBVIOUS
  <2>8. s2 \in Nat /\ s2 <= 11171
    BY SMT, <2>2, <2>4, <2>7
  <2>9. lv = 44032 + s2
    BY SMT, <1>1, <2>2, <2>4, <2>6, <2>7
  <2>10. s2 % 28 = 0 /\ s2 \div 588 = q /\ s2 % 588 = 28 * k
    BY SMT, <2>2, <2>4, <2>7
  <2>11. (28 * k) \div 28 = k
    BY SMT, <2>4
  <2>12. lv \in CodePoint /\ lv \in Scalar /\ IsHangulSyllable(lv)
    <3>1. SCOUNT = 11172
      BY SMT DEF LCOUNT, NCOUNT, VCOUNT, TCOUNT, SCOUNT
    <3> QED
      BY SMT, <2>8, <2>9, <3>1
         DEF CodePoint, Scalar, Between, IsHangulSyllable, IsIndex, SBASE
  <2>13. Mapping(opts, lv) = HangulMapping(lv)
    BY <2>12 DEF Mapping
  <2>14. s2 = lv - 44032
    BY SMT, <2>8, <2>9
  <2>15. HangulMapping(lv) = << 4352 + s2 \div 588, 4449 + (s2 % 588) \div 28 >>
    BY <2>10, <2>12, <2>14, HangulMapped
  <2>16. l = 4352 + q /\ v = 4449 + k
    BY <1>9, <2>1, <2>3
  <2> QED
    BY <2>10, <2>11, <2>12, <2>13, <2>15, <2>16
<1>6. CASE s % 28 = 0
  BY <1>1, <1>2, <1>4, <1>6
<1>7. CASE s % 28 # 0
  <2>1. /\ Mapping(opts, c) = << lv, t >> /\ Mapping(opts, lv) = << l, v >>
        /\ DecomposeHangul(c) = << l, v, t >>
    BY <1>1, <1>2, <1>5, <1>7
  <2> QED
    BY Zenon, <1>4, <1>5, <2>1
<1> QED
  BY <1>6, <1>7

LEMMA LowerScalar == ASSUME NEW opts, NEW cps PROVE Lower(opts, cps) \subseteq Scalar
BY DEF Lower

LEMMA PlainOrHangul ==
    ASSUME NEW opts, NEW z \in Scalar, ~ (Normalizing(opts) /\ IsHangulSyllable(z))
    PROVE  z \in Lower(opts, Deep(opts, 0))
BY DeepStep DEF Lower

LEMMA MappingType ==
    ASSUME NEW opts \in Options, NEW z \in Scalar
    PROVE  Mapping(opts, z) \in Seq(Scalar)
<1>1. CASE Normalizing(opts) /\ IsHangulSyllable(z)
  <2>1. z \in CodePoint
    BY DEF Scalar
  <2>2. PICK l, v \in Settled(opts) :
           \/ Mapping(opts, z) = << l, v >>
           \/ \E t \in Settled(opts), lv \in Scalar : Mapping(opts, z) = << lv, t >>
    BY <1>1, <2>1, HangulParts
  <2>3. Settled(opts) \subseteq Scalar
    BY LowerScalar DEF Settled
  <2> QED
    BY <2>2, <2>3, ShortSeqs
<1>2. CASE ~ (Normalizing(opts) /\ IsHangulSyllable(z))
  <2>1. z \in Lower(opts, Deep(opts, 0))
    BY <1>2, PlainOrHangul
  <2>2. Mapping(opts, z)
           \in Seq(Lower(opts, Targets(Entry(opts), Deep(opts, 0))))
    BY <2>1, LowerMapped
  <2> QED
    BY <2>2, LowerScalar, SeqMonotonic
<1> QED
  BY <1>1, <1>2

LEMMA MapSends ==
    ASSUME NEW opts \in Options
    PROVE  Sends(MapOf(opts), Scalar, Scalar)
BY MappingType DEF Sends, MapOf

LEMMA MappedSpread ==
    ASSUME NEW opts \in Options, NEW cs \in Seq(Scalar)
    PROVE  Mapped(opts, cs) = Spread(MapOf(opts), cs)
<1>1. \A i \in 1 .. Len(cs) : MapOf(opts)[cs[i]] = Mapping(opts, cs[i])
  BY ElementOfSeq DEF MapOf
<1>2. Pieces(MapOf(opts), cs) = [i \in 1 .. Len(cs) |-> Mapping(opts, cs[i])]
  BY <1>1 DEF Pieces
<1> QED
  BY <1>2 DEF Mapped, Spread

LEMMA MappedType ==
    ASSUME NEW opts \in Options, NEW cs \in Seq(Scalar)
    PROVE  Mapped(opts, cs) \in Seq(Scalar)
BY MappedSpread, MapSends, SpreadType

LEMMA MappedConcat ==
    ASSUME NEW opts \in Options, NEW a \in Seq(Scalar), NEW b \in Seq(Scalar)
    PROVE  Mapped(opts, a \o b) = Mapped(opts, a) \o Mapped(opts, b)
<1>1. a \o b \in Seq(Scalar)
  BY ConcatProperties
<1>2. Mapped(opts, a \o b) = Spread(MapOf(opts), a \o b)
  BY <1>1, MappedSpread
<1>3. Spread(MapOf(opts), a \o b) = Spread(MapOf(opts), a) \o Spread(MapOf(opts), b)
  <2>1. PICK f : f = MapOf(opts)
    OBVIOUS
  <2>2. Sends(f, Scalar, Scalar)
    BY <2>1, MapSends
  <2>3. /\ Spread(f, a \o b) = Spread(f, a) \o Spread(f, b)
        /\ Spread(f, a \o b) \in Seq(Scalar)
    BY <2>2, SpreadConcat
  <2> QED
    BY <2>1, <2>3
<1> QED
  BY <1>2, <1>3, MappedSpread

LEMMA MappedOne ==
    ASSUME NEW opts \in Options, NEW c \in Scalar
    PROVE  Mapped(opts, << c >>) = Mapping(opts, c)
<1>1. << c >> \in Seq(Scalar)
  BY ShortSeqs
<1>2. Spread(MapOf(opts), << c >>) = MapOf(opts)[c]
  BY MapSends, SpreadOne
<1> QED
  BY <1>1, <1>2, MappedSpread DEF MapOf

LEMMA MappedDown ==
    ASSUME NEW opts \in Options, NEW cps, NEW cs \in Seq(Lower(opts, cps))
    PROVE  Mapped(opts, cs) \in Seq(Lower(opts, Targets(Entry(opts), cps)))
<1>1. cs \in Seq(Scalar)
  BY LowerScalar, SeqMonotonic
<1>2. Sends(MapOf(opts), Lower(opts, cps), Lower(opts, Targets(Entry(opts), cps)))
  BY LowerMapped, LowerScalar DEF Sends, MapOf
<1>3. Spread(MapOf(opts), cs) \in Seq(Lower(opts, Targets(Entry(opts), cps)))
  BY <1>2, SpreadType
<1> QED
  BY <1>1, <1>3, MappedSpread

LEMMA MappedSame ==
    ASSUME NEW opts \in Options, NEW cs \in Seq(Settled(opts))
    PROVE  Mapped(opts, cs) = cs
<1>1. Settled(opts) \subseteq Scalar
  BY LowerScalar DEF Settled
<1>2. cs \in Seq(Scalar)
  BY <1>1, SeqMonotonic
<1>3. \A x \in Settled(opts) : MapOf(opts)[x] = << x >>
  BY <1>1, SettledMapped DEF MapOf
<1>4. Spread(MapOf(opts), cs) = cs
  BY <1>3, SpreadSame
<1> QED
  BY <1>2, <1>4, MappedSpread

LEMMA MappedEmpty == ASSUME NEW opts PROVE Mapped(opts, << >>) = << >>
<1>1. Len(<< >>) = 0 /\ \A i : i \notin 1 .. 0
  BY SMT
<1>2. [i \in 1 .. 0 |-> Mapping(opts, << >>[i])] = << >>
  BY SMT, <1>1
<1> QED
  BY <1>1, <1>2, FlattenEmpty DEF Mapped

-----------------------------------------------------------------------------
(* The full mapping.                                                       *)

LEMMA FullType ==
    ASSUME NEW opts \in Options, NEW cs \in Seq(Scalar)
    PROVE  FullyMapped(opts, cs) \in Seq(Scalar)
BY MappedType DEF FullyMapped

LEMMA FullConcat ==
    ASSUME NEW opts \in Options, NEW a \in Seq(Scalar), NEW b \in Seq(Scalar)
    PROVE  FullyMapped(opts, a \o b) = FullyMapped(opts, a) \o FullyMapped(opts, b)
<1>1. PICK a1, b1 : a1 = Mapped(opts, a) /\ b1 = Mapped(opts, b)
  OBVIOUS
<1>2. a1 \in Seq(Scalar) /\ b1 \in Seq(Scalar)
  BY <1>1, MappedType
<1>3. PICK a2, b2 : a2 = Mapped(opts, a1) /\ b2 = Mapped(opts, b1)
  OBVIOUS
<1>4. a2 \in Seq(Scalar) /\ b2 \in Seq(Scalar)
  BY <1>2, <1>3, MappedType
<1>5. Mapped(opts, a \o b) = a1 \o b1
  BY <1>1, MappedConcat
<1>6. Mapped(opts, a1 \o b1) = a2 \o b2
  BY <1>2, <1>3, MappedConcat
<1>7. Mapped(opts, a2 \o b2) = Mapped(opts, a2) \o Mapped(opts, b2)
  BY <1>4, MappedConcat
<1> QED
  BY <1>1, <1>3, <1>5, <1>6, <1>7 DEF FullyMapped

LEMMA FullEmpty == ASSUME NEW opts PROVE FullyMapped(opts, << >>) = << >>
BY MappedEmpty DEF FullyMapped

\* What each character becomes.
FullOf(opts) == [c \in Scalar |-> FullyMapped(opts, << c >>)]

LEMMA FullSends ==
    ASSUME NEW opts \in Options PROVE Sends(FullOf(opts), Scalar, Scalar)
<1>1. \A c \in Scalar : << c >> \in Seq(Scalar)
  BY ShortSeqs
<1> QED
  BY <1>1, FullType DEF Sends, FullOf

LEMMA FullSpread ==
    ASSUME NEW opts \in Options
    PROVE  \A cs \in Seq(Scalar) : FullyMapped(opts, cs) = Spread(FullOf(opts), cs)
<1> DEFINE B == {cs \in Seq(Scalar) : FullyMapped(opts, cs) = Spread(FullOf(opts), cs)}
<1>1. << >> \in B
  BY EmptySeq, FullEmpty, SpreadEmpty
<1>2. ASSUME NEW s \in Seq(Scalar), NEW e \in Scalar, s \in B
      PROVE  Append(s, e) \in B
  <2>1. << e >> \in Seq(Scalar) /\ Append(s, e) = s \o << e >>
        /\ Append(s, e) \in Seq(Scalar)
    BY ShortSeqs, AppendIsConcat, AppendProperties
  <2>2. FullyMapped(opts, s \o << e >>)
           = FullyMapped(opts, s) \o FullyMapped(opts, << e >>)
    BY <2>1, FullConcat
  <2>3. Spread(FullOf(opts), Append(s, e))
           = Spread(FullOf(opts), s) \o FullOf(opts)[e]
    BY FullSends, SpreadAppend
  <2>4. FullOf(opts)[e] = FullyMapped(opts, << e >>)
    BY DEF FullOf
  <2>5. FullyMapped(opts, s) = Spread(FullOf(opts), s)
    BY <1>2
  <2> QED
    BY <2>1, <2>2, <2>3, <2>4, <2>5
<1> HIDE DEF B
<1>3. \A cs \in Seq(Scalar) : cs \in B
  BY <1>1, <1>2, Lengthen
<1> QED
  BY <1>3 DEF B

\* A character that has an entry becomes what the entry does; one that has none
\* and is no Hangul syllable stays.
LEMMA FullOfEntry ==
    ASSUME NEW opts \in Options, NEW c \in DOMAIN Entry(opts)
    PROVE  /\ c \in Scalar => FullyMapped(opts, << c >>) = FullyMapped(opts, Entry(opts)[c])
           /\ FullyMapped(opts, Entry(opts)[c]) \in Seq(Scalar)
<1>1. PICK e : e = Entry(opts)[c]
  OBVIOUS
<1>2. /\ e \in Seq(Scalar)
      /\ Normalizing(opts) => /\ ~ IsHangulSyllable(c)
                              /\ \A i \in DOMAIN e : ~ IsHangulSyllable(e[i])
  BY <1>1, EntryFacts
<1>3. e \in Seq(Lower(opts, Deep(opts, 1)))
  <2>1. \A i \in 1 .. Len(e) : e[i] \in Range(Entry(opts)[c])
    BY <1>1, <1>2, LenProperties DEF Range
  <2>2. \A i \in 1 .. Len(e) : e[i] \in Deep(opts, 1)
    BY <2>1, DeepStep DEF Targets
  <2>3. \A i \in 1 .. Len(e) : e[i] \in Lower(opts, Deep(opts, 1))
    BY <1>2, <2>2, ElementOfSeq, LenProperties DEF Lower
  <2>4. Len(e) \in Nat /\ e \in Seq(Scalar)
    BY <1>2, LenProperties
  <2> QED
    BY SMT, <2>3, <2>4
<1>4. PICK e1, e2 : e1 = Mapped(opts, e) /\ e2 = Mapped(opts, e1)
  OBVIOUS
<1>5. e1 \in Seq(Lower(opts, Deep(opts, 2)))
  BY <1>3, <1>4, MappedDown, DeepStep
<1>6. e2 \in Seq(Settled(opts))
  BY <1>4, <1>5, MappedDown, DeepStep DEF Settled
<1>7. Mapped(opts, e2) = e2
  BY <1>6, MappedSame
<1>8. ASSUME c \in Scalar PROVE Mapped(opts, << c >>) = e
  BY <1>1, <1>2, <1>8, MappedOne DEF Mapping
<1> QED
  BY <1>1, <1>2, <1>4, <1>7, <1>8, FullType DEF FullyMapped

LEMMA FullOfSettled ==
    ASSUME NEW opts \in Options, NEW cs \in Seq(Settled(opts))
    PROVE  FullyMapped(opts, cs) = cs
BY MappedSame DEF FullyMapped

-----------------------------------------------------------------------------
(* Expansion, the recursion of the code, is the full mapping.              *)

\* Its equation.
ExpandedAt(table, f, c) ==
    FlattenSeq([i \in 1 .. Len(table[c]) |->
                   IF table[c][i] \in DOMAIN table THEN f[table[c][i]]
                   ELSE << table[c][i] >>])

Expands(table, f) == f = [c \in DOMAIN table |-> ExpandedAt(table, f, c)]

LEMMA ExpansionChosen ==
    ASSUME NEW opts
    PROVE  Expansion(opts) = CHOOSE f : Expands(Entry(opts), f)
BY Zenon DEF Expansion, Expands, ExpandedAt

\* A function that solves it: what the entry becomes.
FullExpansion(opts) ==
    [c \in DOMAIN Entry(opts) |-> FullyMapped(opts, Entry(opts)[c])]

LEMMA FullExpands ==
    ASSUME NEW opts \in Options
    PROVE  Expands(Entry(opts), FullExpansion(opts))
<1> DEFINE table == Entry(opts)
           g     == FullExpansion(opts)
<1>1. ASSUME NEW c \in DOMAIN table PROVE ExpandedAt(table, g, c) = g[c]
  <2>1. PICK e : e = table[c]
    OBVIOUS
  <2>2. e \in Seq(Scalar)
    BY <2>1, EntryFacts
  <2>3. ASSUME NEW i \in 1 .. Len(e)
        PROVE  (IF e[i] \in DOMAIN table THEN g[e[i]] ELSE << e[i] >>)
                  = FullOf(opts)[e[i]]
    <3>1. e[i] \in Scalar
      BY <2>2, ElementOfSeq
    <3>2. FullOf(opts)[e[i]] = FullyMapped(opts, << e[i] >>)
      BY <3>1 DEF FullOf
    <3>3. CASE e[i] \in DOMAIN table
      <4>1. g[e[i]] = FullyMapped(opts, table[e[i]])
        BY <3>3 DEF FullExpansion
      <4>2. FullyMapped(opts, << e[i] >>) = FullyMapped(opts, table[e[i]])
        BY <3>1, <3>3, FullOfEntry
      <4> QED
        BY <3>2, <3>3, <4>1, <4>2
    <3>4. CASE e[i] \notin DOMAIN table
      <4>1. ~ (Normalizing(opts) /\ IsHangulSyllable(e[i]))
        <5>1. i \in DOMAIN e
          BY <2>2, LenProperties
        <5> QED
          BY <2>1, <5>1, EntryFacts
      <4>2. e[i] \in Settled(opts)
        BY <3>1, <3>4, <4>1 DEF Settled, Lower
      <4>3. FullyMapped(opts, << e[i] >>) = << e[i] >>
        BY <4>2, ShortSeqs, FullOfSettled
      <4> QED
        BY <3>2, <3>4, <4>3
    <3> QED
      BY <3>3, <3>4
  <2>4. [i \in 1 .. Len(e) |-> IF e[i] \in DOMAIN table THEN g[e[i]]
                               ELSE << e[i] >>]
           = Pieces(FullOf(opts), e)
    BY <2>3 DEF Pieces
  <2>5. ExpandedAt(table, g, c) = Spread(FullOf(opts), e)
    BY <2>1, <2>4 DEF ExpandedAt, Spread
  <2>6. Spread(FullOf(opts), e) = FullyMapped(opts, e)
    BY <2>2, FullSpread
  <2> QED
    BY <2>1, <2>5, <2>6 DEF FullExpansion
<1>2. g = [c \in DOMAIN table |-> g[c]]
  BY DEF FullExpansion
<1>3. \A c \in DOMAIN table : g[c] = ExpandedAt(table, g, c)
  BY <1>1
<1> HIDE DEF g, table
<1>4. g = [c \in DOMAIN table |-> ExpandedAt(table, g, c)]
  BY <1>2, <1>3
<1> QED
  BY <1>4 DEF Expands, g, table

\* Solutions that agree on what an entry is made of agree on the entry.
LEMMA ExpandsAgree ==
    ASSUME NEW table, NEW f, NEW g, Expands(table, f), Expands(table, g),
           NEW cps, \A c \in DOMAIN table \cap Targets(table, cps) : f[c] = g[c],
           \A c \in DOMAIN table : table[c] \in Seq(Scalar)
    PROVE  \A c \in DOMAIN table \cap cps : f[c] = g[c]
<1> TAKE c \in DOMAIN table \cap cps
<1>1. PICK e : e = table[c]
  OBVIOUS
<1>2. e \in Seq(Scalar)
  BY <1>1
<1>3. \A i \in 1 .. Len(e) : e[i] \in Targets(table, cps)
  <2>1. \A i \in 1 .. Len(e) : e[i] \in Range(table[c])
    BY <1>1, <1>2, LenProperties DEF Range
  <2> QED
    BY <2>1 DEF Targets
<1>4. [i \in 1 .. Len(e) |-> IF e[i] \in DOMAIN table THEN f[e[i]] ELSE << e[i] >>]
        = [i \in 1 .. Len(e) |-> IF e[i] \in DOMAIN table THEN g[e[i]]
                                 ELSE << e[i] >>]
  BY <1>3
<1>5. ExpandedAt(table, f, c) = ExpandedAt(table, g, c)
  BY <1>1, <1>4 DEF ExpandedAt
<1>6. f[c] = ExpandedAt(table, f, c) /\ g[c] = ExpandedAt(table, g, c)
  BY Zenon DEF Expands
<1> QED
  BY <1>5, <1>6

LEMMA ExpansionIsFull ==
    ASSUME NEW opts \in Options, NEW c \in DOMAIN Entry(opts)
    PROVE  Expansion(opts)[c] = FullyMapped(opts, Entry(opts)[c])
<1> DEFINE table == Entry(opts)
           g     == FullExpansion(opts)
<1>1. PICK f : f = Expansion(opts)
  OBVIOUS
<1>2. Expands(table, f) /\ Expands(table, g)
  BY <1>1, FullExpands, ExpansionChosen, Zenon
<1>3. \A z \in DOMAIN table : table[z] \in Seq(Scalar)
  BY EntryFacts
<1>4. /\ Deep(opts, 0) = DOMAIN table
      /\ Deep(opts, 1) = Targets(table, Deep(opts, 0))
      /\ Deep(opts, 2) = Targets(table, Deep(opts, 1))
      /\ Deep(opts, 3) = Targets(table, Deep(opts, 2))
      /\ Deep(opts, 3) \cap DOMAIN table = {}
  BY DeepStep, EntriesEnd
<1>5. g[c] = FullyMapped(opts, Entry(opts)[c])
  BY DEF FullExpansion
<1> HIDE DEF g, table
<1>6. \A z \in DOMAIN table \cap Deep(opts, 3) : f[z] = g[z]
  BY <1>4
<1>7. \A z \in DOMAIN table \cap Deep(opts, 2) : f[z] = g[z]
  BY <1>2, <1>3, <1>4, <1>6, ExpandsAgree
<1>8. \A z \in DOMAIN table \cap Deep(opts, 1) : f[z] = g[z]
  BY <1>2, <1>3, <1>4, <1>7, ExpandsAgree
<1>9. \A z \in DOMAIN table \cap Deep(opts, 0) : f[z] = g[z]
  BY <1>2, <1>3, <1>4, <1>8, ExpandsAgree
<1> QED
  BY <1>1, <1>4, <1>5, <1>9 DEF table

\* utf8proc_decompose_char, with its recursion through the entries and its Hangul
\* arithmetic, writes the full mapping of the standard, for every character.
THEOREM DecomposeCharFull ==
    ASSUME NEW opts \in Options, NEW c \in Scalar
    PROVE  DecomposeChar(opts, c) = FullyMapped(opts, << c >>)
<1>1. CASE Normalizing(opts) /\ IsHangulSyllable(c)
  <2>1. DecomposeChar(opts, c) = DecomposeHangul(c)
    BY <1>1 DEF DecomposeChar
  <2>2. Mapped(opts, << c >>) = Mapping(opts, c) /\ c \in CodePoint
    BY MappedOne DEF Scalar
  <2>3. PICK l, v \in Settled(opts) :
           \/ Mapping(opts, c) = << l, v >> /\ DecomposeHangul(c) = << l, v >>
           \/ \E t \in Settled(opts), lv \in Scalar :
                 /\ Mapping(opts, c) = << lv, t >>
                 /\ Mapping(opts, lv) = << l, v >>
                 /\ DecomposeHangul(c) = << l, v, t >>
    BY <1>1, <2>2, HangulParts
  <2>4. Settled(opts) \subseteq Scalar
    BY LowerScalar DEF Settled
  <2>5. CASE Mapping(opts, c) = << l, v >> /\ DecomposeHangul(c) = << l, v >>
    <3>1. << l, v >> \in Seq(Settled(opts))
      BY ShortSeqs
    <3>2. Mapped(opts, << l, v >>) = << l, v >>
      BY <3>1, MappedSame
    <3> QED
      BY <2>1, <2>2, <2>5, <3>2 DEF FullyMapped
  <2>6. ASSUME NEW t \in Settled(opts), NEW lv \in Scalar,
               Mapping(opts, c) = << lv, t >>, Mapping(opts, lv) = << l, v >>,
               DecomposeHangul(c) = << l, v, t >>
        PROVE  DecomposeChar(opts, c) = FullyMapped(opts, << c >>)
    <3>1. << lv >> \in Seq(Scalar) /\ << t >> \in Seq(Scalar)
          /\ << lv, t >> = << lv >> \o << t >> /\ << t >> \in Seq(Settled(opts))
          /\ << l, v, t >> \in Seq(Settled(opts))
      <4>1. t \in Scalar
        BY <2>4
      <4>2. << lv, t >> = << lv >> \o << t >>
        BY SMT, <4>1
      <4> QED
        BY <4>1, <4>2, ShortSeqs
    <3>2. Mapped(opts, << lv >> \o << t >>)
             = Mapped(opts, << lv >>) \o Mapped(opts, << t >>)
      BY <3>1, MappedConcat
    <3>3. Mapped(opts, << lv >>) = << l, v >>
      BY <2>6, MappedOne
    <3>4. Mapped(opts, << t >>) = << t >>
      BY <3>1, MappedSame
    <3>5. << l, v >> \o << t >> = << l, v, t >>
      <4>1. << l, v >> \in Seq(Settled(opts))
        BY ShortSeqs
      <4>2. << l, v >> \o << t >> = Append(<< l, v >>, t)
        BY <4>1, AppendIsConcat
      <4> QED
        BY <4>2, AppendToPair
    <3>6. Mapped(opts, << lv, t >>) = << l, v, t >>
      BY <3>1, <3>2, <3>3, <3>4, <3>5
    <3>7. Mapped(opts, << l, v, t >>) = << l, v, t >>
      BY <3>1, MappedSame
    <3> QED
      BY <2>1, <2>2, <2>6, <3>6, <3>7 DEF FullyMapped
  <2> QED
    BY <2>3, <2>5, <2>6
<1>2. CASE ~ (Normalizing(opts) /\ IsHangulSyllable(c)) /\ c \in DOMAIN Entry(opts)
  <2>1. DecomposeChar(opts, c) = Expansion(opts)[c]
    BY <1>2 DEF DecomposeChar
  <2> QED
    BY <1>2, <2>1, ExpansionIsFull, FullOfEntry
<1>3. CASE ~ (Normalizing(opts) /\ IsHangulSyllable(c)) /\ c \notin DOMAIN Entry(opts)
  <2>1. DecomposeChar(opts, c) = << c >>
    BY <1>3 DEF DecomposeChar
  <2>2. c \in Settled(opts)
    BY <1>3 DEF Settled, Lower
  <2> QED
    BY <2>1, <2>2, ShortSeqs, FullOfSettled
<1> QED
  BY <1>1, <1>2, <1>3

\* A character decomposes into characters.
LEMMA DecomposeCharType ==
    ASSUME NEW opts \in Options, NEW uc \in Scalar
    PROVE  DecomposeChar(opts, uc) \in Seq(Scalar)
BY ShortSeqs, FullType, DecomposeCharFull

\* An encoding takes no more room than the word it is made of.
LEMMA EncodeCharType ==
    ASSUME NEW uc \in CodePoint \cup {UNSET}
    PROVE  EncodeChar(uc) \in Seq(Byte) /\ Len(EncodeChar(uc)) \in 0 .. 4
<1>1. CASE uc = UNSET
  <2>1. EncodeChar(uc) = << >>
    BY SMT, <1>1 DEF EncodeChar, Between, UNSET
  <2> QED
    BY SMT, <2>1
<1>2. CASE uc \in CodePoint
  <2>1. uc \in Nat /\ uc <= 1114111
    BY <1>2 DEF CodePoint
  <2>2. CASE uc <= 127
    <3>1. EncodeChar(uc) = << uc >> /\ uc \in Byte
      BY SMT, <2>1, <2>2, EncodeCharByRange DEF Byte
    <3> QED
      BY SMT, <3>1
  <2>3. CASE Between(128, uc, 2047)
    <3>1. EncodeChar(uc) = << 192 + uc \div 64, 128 + Low6(uc) >>
      BY <2>1, <2>3, EncodeCharByRange
    <3>2. 192 + uc \div 64 \in Byte /\ 128 + Low6(uc) \in Byte
      BY SMT, <2>1, <2>3 DEF Between, Low6, Byte
    <3> QED
      BY SMT, <3>1, <3>2
  <2>4. CASE Between(2048, uc, 65535)
    <3>1. EncodeChar(uc) = << 224 + uc \div 4096, 128 + Low6(uc \div 64),
                              128 + Low6(uc) >>
      BY <2>1, <2>4, EncodeCharByRange
    <3>2. /\ 224 + uc \div 4096 \in Byte /\ 128 + Low6(uc \div 64) \in Byte
          /\ 128 + Low6(uc) \in Byte
      BY SMT, <2>1, <2>4 DEF Between, Low6, Byte
    <3> QED
      BY SMT, <3>1, <3>2
  <2>5. CASE Between(65536, uc, 1114111)
    <3>1. EncodeChar(uc) = << 240 + uc \div 262144, 128 + Low6(uc \div 4096),
                              128 + Low6(uc \div 64), 128 + Low6(uc) >>
      BY <2>1, <2>5, EncodeCharByRange
    <3>2. /\ 240 + uc \div 262144 \in Byte /\ 128 + Low6(uc \div 4096) \in Byte
          /\ 128 + Low6(uc \div 64) \in Byte /\ 128 + Low6(uc) \in Byte
      BY SMT, <2>1, <2>5 DEF Between, Low6, Byte
    <3> QED
      BY SMT, <3>1, <3>2
  <2> QED
    BY SMT, <2>1, <2>2, <2>3, <2>4, <2>5 DEF Between
<1> QED
  BY <1>1, <1>2

-----------------------------------------------------------------------------
(* Buffers.                                                                *)

\* Writing changes the words it is about and not how many there are.
LEMMA WrittenWords ==
    ASSUME NEW S, NEW words \in Seq(S), NEW chars \in Seq(S), NEW at \in Nat
    PROVE  /\ Written(words, at, chars) \in Seq(S)
           /\ Len(Written(words, at, chars)) = Len(words)
           /\ \A i \in 1 .. Len(words) :
                 Written(words, at, chars)[i] =
                    IF at < i /\ i <= at + Len(chars)
                    THEN chars[i - at] ELSE words[i]
<1>1. /\ Len(words) \in Nat /\ DOMAIN words = 1 .. Len(words)
      /\ Len(chars) \in Nat
      /\ \A i \in 1 .. Len(words) : words[i] \in S
      /\ \A i \in 1 .. Len(chars) : chars[i] \in S
  BY SMT
<1> DEFINE new == [i \in 1 .. Len(words) |->
                      IF at < i /\ i <= at + Len(chars)
                      THEN chars[i - at] ELSE words[i]]
<1>2. Written(words, at, chars) = new
  BY <1>1 DEF Written
<1>3. \A i \in 1 .. Len(words) : new[i] \in S
  BY SMT, <1>1
<1>4. new \in [1 .. Len(words) -> S]
  BY <1>3
<1>5. new \in Seq(S) /\ Len(new) = Len(words)
  BY SMT, <1>1, <1>4
<1> QED
  BY <1>2, <1>5

LEMMA WordAt ==
    ASSUME NEW S, NEW words \in Seq(S), NEW i \in Nat, i < Len(words)
    PROVE  At(words, i) \in S /\ i + 1 \in 1 .. Len(words)
BY SMT DEF At

LEMMA ExceptWord ==
    ASSUME NEW S, NEW words \in Seq(S), NEW i \in Nat, i < Len(words),
           NEW word \in S
    PROVE  /\ [words EXCEPT ![i + 1] = word] \in Seq(S)
           /\ Len([words EXCEPT ![i + 1] = word]) = Len(words)
           /\ \A j \in 0 .. Len(words) - 1 :
                 At([words EXCEPT ![i + 1] = word], j) =
                    IF j = i THEN word ELSE At(words, j)
<1>1. i + 1 \in 1 .. Len(words)
  BY SMT
<1>2. /\ [words EXCEPT ![i + 1] = word] \in Seq(S)
      /\ Len([words EXCEPT ![i + 1] = word]) = Len(words)
      /\ \A j \in 1 .. Len(words) : [words EXCEPT ![i + 1] = word][j] =
            IF j = i + 1 THEN word ELSE words[j]
  BY <1>1, ExceptSeq
<1> DEFINE new == [words EXCEPT ![i + 1] = word]
<1> HIDE DEF new
<1>3. \A j \in 0 .. Len(words) - 1 : At(new, j) =
            IF j = i THEN word ELSE At(words, j)
  <2>1. \A j \in 1 .. Len(words) : new[j] = IF j = i + 1 THEN word ELSE words[j]
    BY <1>2 DEF new
  <2>2. Len(words) \in Nat
    BY SMT
  <2> QED
    BY SMT, <2>1, <2>2 DEF At
<1> QED
  BY <1>2, <1>3 DEF new

-----------------------------------------------------------------------------
(* The inductive invariant.                                                *)

\* What utf8proc_iterate answers at a position of the string, and how many words
\* its character takes.
Read(at)  == Iterate(str, at, Len(str))
Takes(at) == Len(DecomposeChar(options, Read(at).dst))

\* A record of a decomposing pass up to the position `end`: the positions where
\* it read a character, and how many words it had by then.
PassTo(words, end) ==
    /\ {0, end} \subseteq DOMAIN words
    /\ DOMAIN words \subseteq 0 .. end
    /\ words[0] = 0
    /\ \A at \in DOMAIN words :
          /\ words[at] \in Nat
          /\ at # end => /\ at + Read(at).step \in DOMAIN words
                         /\ words[at + Read(at).step] = words[at] + Takes(at)

\* The second pass is where the first one was when it had as many words.
SamePasses ==
    /\ pc = "decompose" /\ allocated = 0 =>
          /\ rpos <= Len(str)
          /\ \E words : PassTo(words, rpos) /\ words[rpos] = wpos
    /\ pc = "allocate" =>
          \E words : PassTo(words, Len(str)) /\ words[Len(str)] = length
    /\ pc = "decompose" /\ allocated # 0 =>
          \E words : /\ PassTo(words, Len(str)) /\ words[Len(str)] = length
                     /\ rpos \in DOMAIN words /\ words[rpos] = wpos

\* The buffer, its size in bytes, and the words that were written.
Memory ==
    /\ pc \in {"idle", "decompose", "allocate"} /\ allocated = 0 => buffer = << >>
    /\ pc \in {"idle", "allocate"} => allocated = 0 /\ rpos = 0 /\ wpos = 0
    /\ pc = "decompose" /\ allocated # 0 =>
          Len(buffer) = length /\ allocated = 4 * length + 1
    /\ pc = "order" => wpos = 0
    /\ pc = "reencode" => rpos <= length /\ length <= Len(buffer)
    /\ pc = "shrink" => rc + 1 = Len(out) /\ Len(out) <= allocated

\* No word is read before it was written.
WordsWritten ==
    /\ pc = "decompose" =>
          \A i \in 1 .. Len(buffer) : i <= wpos => buffer[i] # UNSET
    /\ pc = "reencode" => \A i \in 1 .. length : buffer[i] # UNSET

\* What a loop has not begun to use.
Untouched ==
    /\ pc \in {"idle", "decompose", "allocate", "order", "compose"} => out = << >>
    /\ pc \in {"idle", "decompose", "allocate", "order"} =>
          starter = NONE /\ starterProperty = NONE /\ maxClass = -1

IInv == /\ TypeOK /\ WritesStayInAllocation /\ SecondPassFillsBuffer
        /\ OrderedBehind /\ CompositionCachesFresh /\ TextBehindReader
        /\ SamePasses /\ Memory /\ WordsWritten /\ Untouched

LEMMA InitIInv == Init => IInv
<1> SUFFICES ASSUME Init PROVE IInv
  OBVIOUS
<1>1. TypeOK
  <2>1. << >> \in Seq(Byte) /\ << >> \in Seq(CodePoint \cup {UNSET})
    BY EmptySeq
  <2>2. /\ {rpos, wpos, length, allocated} \subseteq Nat /\ rc \in Int
        /\ maxClass \in -1 .. 254
    BY SMT DEF Init
  <2> QED
    BY <2>1, <2>2, Zenon DEF Init, TypeOK, Options
<1>2. /\ WritesStayInAllocation /\ SecondPassFillsBuffer
      /\ OrderedBehind /\ CompositionCachesFresh /\ TextBehindReader
  <2>1. WritesStayInAllocation
    BY SMT DEF Init, WritesStayInAllocation
  <2> QED
    BY Zenon, <2>1 DEF Init, SecondPassFillsBuffer, OrderedBehind,
                       CompositionCachesFresh, TextBehindReader
<1>3. SamePasses /\ Memory /\ WordsWritten /\ Untouched
  BY Zenon DEF Init, SamePasses, Memory, WordsWritten, Untouched
<1> QED
  BY <1>1, <1>2, <1>3 DEF IInv

-----------------------------------------------------------------------------
(* One lemma per action.                                                   *)

LEMMA CallIInv == ASSUME IInv, Call PROVE IInv'
<1>0. /\ pc = "idle" /\ pc' = "decompose" /\ options' \in Options /\ str' \in Inputs
      /\ UNCHANGED << rpos, wpos, length, buffer, allocated, starter,
                      starterProperty, maxClass, out, rc >>
  BY DEF Call, composition
<1>1. /\ allocated = 0 /\ rpos = 0 /\ wpos = 0 /\ buffer = << >>
      /\ TypeOK /\ Untouched
  BY <1>0 DEF IInv, Memory
<1>2. str' \in Seq(Byte) /\ Len(str') \in Nat
  BY <1>0, InputAssumption, LenProperties
<1>3. TypeOK'
  BY <1>0, <1>1, <1>2 DEF TypeOK
<1>4. /\ WritesStayInAllocation' /\ SecondPassFillsBuffer'
      /\ OrderedBehind' /\ CompositionCachesFresh' /\ TextBehindReader'
  BY <1>0, <1>1
     DEF WritesStayInAllocation, SecondPassFillsBuffer, OrderedBehind,
         CompositionCachesFresh, TextBehindReader
<1>5. SamePasses'
  <2> DEFINE start == [at \in {0} |-> 0]
  <2>1. DOMAIN start = {0} /\ start[0] = 0
    OBVIOUS
  <2>2. PassTo(start, 0)'
    BY SMT, <2>1 DEF PassTo
  <2>3. 0 <= Len(str')
    BY SMT, <1>2
  <2> HIDE DEF start
  <2> QED
    BY <1>0, <1>1, <2>1, <2>2, <2>3 DEF SamePasses
<1>6. Memory' /\ WordsWritten' /\ Untouched'
  <2>1. Len(<< >>) = 0
    BY EmptySeq
  <2>2. WordsWritten'
    BY SMT, <1>0, <1>1, <2>1 DEF WordsWritten
  <2> QED
    BY <1>0, <1>1, <2>2 DEF Memory, Untouched
<1> QED
  BY <1>3, <1>4, <1>5, <1>6 DEF IInv

\* Every error return frees the buffer and leaves no text.
LEMMA FailIInv ==
    ASSUME IInv, NEW code \in Int, Fail(code), pc \in {"decompose", "allocate"}
    PROVE  IInv'
<1>0. /\ rc' = code /\ pc' = "returned" /\ buffer' = << >> /\ allocated' = 0
      /\ UNCHANGED << options, str, rpos, wpos, length, starter,
                      starterProperty, maxClass, out >>
  BY DEF Fail, composition
<1>1. TypeOK
  BY DEF IInv
<1>2. TypeOK'
  <2>1. << >> \in Seq(CodePoint \cup {UNSET}) /\ 0 \in Nat
    BY EmptySeq
  <2> QED
    BY <1>0, <1>1, <2>1 DEF TypeOK
<1>3. WritesStayInAllocation'
  BY SMT, <1>0 DEF WritesStayInAllocation
<1>4. /\ SecondPassFillsBuffer' /\ OrderedBehind'
      /\ CompositionCachesFresh' /\ TextBehindReader'
  BY <1>0 DEF SecondPassFillsBuffer, OrderedBehind, CompositionCachesFresh,
              TextBehindReader
<1>5. SamePasses' /\ Memory' /\ WordsWritten' /\ Untouched'
  BY <1>0 DEF SamePasses, Memory, WordsWritten, Untouched
<1> QED
  BY <1>2, <1>3, <1>4, <1>5 DEF IInv

\* A character that is decoded lies in the string and is a code point.
LEMMA CharRead ==
    ASSUME TypeOK, Decoding, Char.dst >= 0
    PROVE  /\ Char.step \in 1 .. 4
           /\ rpos + Char.step <= Len(str)
           /\ New \in Seq(CodePoint)
<1>1. str \in Seq(Byte) /\ rpos \in Nat /\ Len(str) \in Nat /\ options \in Options
  BY LenProperties DEF TypeOK
<1>2. rpos < Len(str) /\ Len(str) \in 0 .. Len(str) /\ rpos \in 0 .. Len(str) - 1
  BY SMT, <1>1 DEF Decoding
<1>3. Char # Rejected
  BY SMT DEF Rejected, Decoded
<1>4. /\ Char.step \in 1 .. 4 /\ rpos + Char.step <= Len(str)
      /\ Char.dst \in Scalar
  BY <1>1, <1>2, <1>3, IterateSound DEF Char
<1>5. New \in Seq(Scalar) /\ Scalar \subseteq CodePoint
  BY <1>1, <1>4, DecomposeCharType DEF New, Scalar
<1> QED
  BY <1>4, <1>5, SeqMonotonic

LEMMA DecomposeIInv == ASSUME IInv, Decompose PROVE IInv'
<1> DEFINE next == rpos + Char.step
           more == wpos + Len(New)
<1>0. /\ pc = "decompose" /\ pc' = "decompose" /\ Decoding /\ Char.dst >= 0
      /\ buffer' = Written(buffer, wpos, New) /\ wpos' = more /\ rpos' = next
      /\ UNCHANGED << options, str, length, allocated, starter, starterProperty,
                      maxClass, out, rc >>
  BY DEF Decompose, composition, Decoding
<1>1. TypeOK
  BY DEF IInv
<1>2. /\ rpos \in Nat /\ wpos \in Nat /\ Len(str) \in Nat /\ rpos < Len(str)
      /\ buffer \in Seq(CodePoint \cup {UNSET})
  BY <1>0, <1>1, LenProperties DEF TypeOK, Decoding
<1>3. /\ Char.step \in 1 .. 4 /\ next <= Len(str) /\ New \in Seq(CodePoint)
  BY <1>0, <1>1, CharRead
<1>4. Len(New) \in Nat /\ next \in Nat /\ more \in Nat /\ rpos < next
  <2>1. Len(New) \in Nat
    BY <1>3, LenProperties
  <2> QED
    BY SMT, <1>2, <1>3, <2>1
<1>5. /\ buffer' \in Seq(CodePoint \cup {UNSET})
      /\ Len(buffer') = Len(buffer) /\ Len(buffer) \in Nat
      /\ \A i \in 1 .. Len(buffer) :
            buffer'[i] = IF wpos < i /\ i <= more THEN New[i - wpos] ELSE buffer[i]
  <2>1. New \in Seq(CodePoint \cup {UNSET})
    BY <1>3, SeqMonotonic
  <2> QED
    <3> DEFINE S == CodePoint \cup {UNSET}
    <3>1. buffer \in Seq(S) /\ New \in Seq(S)
      BY <1>2, <2>1
    <3> HIDE DEF S
    <3>2. /\ Written(buffer, wpos, New) \in Seq(S)
          /\ Len(Written(buffer, wpos, New)) = Len(buffer)
          /\ \A i \in 1 .. Len(buffer) :
                Written(buffer, wpos, New)[i] =
                   IF wpos < i /\ i <= wpos + Len(New) THEN New[i - wpos]
                   ELSE buffer[i]
      BY Zenon, <1>2, <3>1, WrittenWords
    <3>3. Len(buffer) \in Nat
      BY <3>1, LenProperties
    <3> QED
      BY <1>0, <3>2, <3>3 DEF S
<1>6. TypeOK'
  BY <1>0, <1>1, <1>4, <1>5 DEF TypeOK
<1>7. /\ WritesStayInAllocation' /\ SecondPassFillsBuffer' /\ OrderedBehind'
      /\ CompositionCachesFresh' /\ TextBehindReader'
  <2>1. WritesStayInAllocation
    BY DEF IInv
  <2> QED
    BY <1>0, <2>1 DEF WritesStayInAllocation, SecondPassFillsBuffer, OrderedBehind,
                      CompositionCachesFresh, TextBehindReader
<1>8. Read(rpos) = Char /\ Takes(rpos) = Len(New)
  BY DEF Read, Takes, Char, New
<1>9. SamePasses'
  <2>1. CASE allocated = 0
    <3>1. PICK words : PassTo(words, rpos) /\ words[rpos] = wpos
      BY <1>0, <2>1 DEF IInv, SamePasses
    <3> DEFINE longer == [at \in DOMAIN words \cup {next} |->
                             IF at = next THEN more ELSE words[at]]
    <3>2. DOMAIN longer = DOMAIN words \cup {next} /\ longer[next] = more
      OBVIOUS
    <3>3. \A at \in DOMAIN words : longer[at] = words[at]
      BY SMT, <3>1, <1>2, <1>4 DEF PassTo
    <3> HIDE DEF longer, next, more
    <3>4. {0, next} \subseteq DOMAIN longer /\ longer[0] = 0
      BY <3>1, <3>2, <3>3 DEF PassTo
    <3>5. DOMAIN longer \subseteq 0 .. next
      BY SMT, <3>1, <3>2, <1>2, <1>4 DEF PassTo
    <3>6. ASSUME NEW at \in DOMAIN longer
          PROVE  /\ longer[at] \in Nat
                 /\ at # next => /\ at + Read(at).step \in DOMAIN longer
                                 /\ longer[at + Read(at).step]
                                       = longer[at] + Takes(at)
      <4>1. CASE at = next
        BY <4>1, <3>2, <1>4
      <4>2. CASE at = rpos
        BY <4>2, <3>1, <3>2, <3>3, <1>2, <1>4, <1>8 DEF PassTo, next, more
      <4>3. CASE at \in DOMAIN words /\ at # rpos
        BY <4>3, <3>1, <3>2, <3>3 DEF PassTo
      <4> QED
        BY <4>1, <4>2, <4>3, <3>2
    <3>7. PassTo(longer, next)
      BY <3>4, <3>5, <3>6 DEF PassTo
    <3>8. PICK w, end : PassTo(w, end) /\ end = next /\ w[end] = more
      BY <3>2, <3>7
    <3>9. PassTo(w, rpos)' /\ w[rpos'] = wpos' /\ rpos' <= Len(str')
      BY <1>0, <1>3, <3>8 DEF PassTo, Read, Takes, next, more
    <3> QED
      BY <1>0, <2>1, <3>9 DEF SamePasses
  <2>2. CASE allocated # 0
    <3>1. PICK words : /\ PassTo(words, Len(str)) /\ words[Len(str)] = length
                       /\ rpos \in DOMAIN words /\ words[rpos] = wpos
      BY <1>0, <2>2 DEF IInv, SamePasses
    <3>2. rpos # Len(str)
      BY SMT, <1>2
    <3>3. next \in DOMAIN words /\ words[next] = more
      BY <3>1, <3>2, <1>8 DEF PassTo
    <3>4. PassTo(words, Len(str))'
      BY <1>0, <3>1 DEF PassTo, Read, Takes
    <3> QED
      BY <1>0, <2>2, <3>1, <3>3, <3>4 DEF SamePasses
  <2> QED
    BY <2>1, <2>2
<1>10. Memory'
  <2>1. Memory
    BY DEF IInv
  <2>2. allocated = 0 => buffer' = << >>
    <3>1. allocated = 0 => Len(buffer') = 0
      BY <1>0, <1>5, <2>1, EmptySeq DEF Memory
    <3> QED
      BY <1>5, <3>1, EmptySeq
  <2> QED
    BY <1>0, <1>5, <2>1, <2>2 DEF Memory
<1>11. WordsWritten'
  <2>1. ASSUME NEW i \in 1 .. Len(buffer), i <= more PROVE buffer'[i] # UNSET
    <3>1. CASE i <= wpos
      <4>1. buffer'[i] = buffer[i]
        BY SMT, <3>1, <1>2, <1>5
      <4> QED
        BY <4>1, <3>1, <1>0 DEF IInv, WordsWritten
    <3>2. CASE wpos < i
      <4>1. buffer'[i] = New[i - wpos]
        BY <2>1, <3>2, <1>5
      <4>2. i - wpos \in 1 .. Len(New)
        BY SMT, <2>1, <3>2, <1>2, <1>4
      <4>3. New[i - wpos] \in CodePoint
        BY <4>2, <1>3, ElementOfSeq
      <4> QED
        BY SMT, <4>1, <4>3 DEF CodePoint, UNSET
    <3> QED
      BY SMT, <3>1, <3>2, <1>2
  <2> QED
    BY <1>0, <1>5, <2>1 DEF WordsWritten
<1>12. Untouched'
  BY <1>0 DEF IInv, Untouched
<1> QED
  BY <1>6, <1>7, <1>9, <1>10, <1>11, <1>12 DEF IInv

LEMMA EndOfStringIInv == ASSUME IInv, EndOfString PROVE IInv'
<1>0. /\ pc = "decompose" /\ rpos >= Len(str)
      /\ length' = wpos /\ rpos' = 0 /\ wpos' = 0
      /\ UNCHANGED << options, str, buffer, allocated, starter, starterProperty,
                      maxClass, out, rc >>
  BY DEF EndOfString, composition
<1>1. TypeOK /\ Untouched /\ Memory /\ WordsWritten /\ SamePasses
  BY DEF IInv
<1>2. /\ rpos \in Nat /\ wpos \in Nat /\ Len(str) \in Nat /\ allocated \in Nat
      /\ buffer \in Seq(CodePoint \cup {UNSET}) /\ Len(buffer) \in Nat
  BY <1>1, LenProperties DEF TypeOK
<1>3. CASE allocated = 0
  <2>1. pc' = "allocate"
    BY Zenon, <1>3 DEF EndOfString
  <2>2. TypeOK'
    BY <1>0, <1>1, <1>2, <2>1 DEF TypeOK
  <2>3. /\ WritesStayInAllocation' /\ SecondPassFillsBuffer' /\ OrderedBehind'
        /\ CompositionCachesFresh' /\ TextBehindReader'
    BY <1>0, <2>1 DEF IInv, WritesStayInAllocation, SecondPassFillsBuffer,
                      OrderedBehind, CompositionCachesFresh, TextBehindReader
  <2>4. SamePasses'
    <3>1. PICK words : PassTo(words, rpos) /\ words[rpos] = wpos /\ rpos <= Len(str)
      BY <1>0, <1>1, <1>3 DEF SamePasses
    <3>2. rpos = Len(str)
      BY SMT, <1>0, <1>2, <3>1
    <3>3. PassTo(words, Len(str)) /\ words[Len(str)] = wpos
      BY <3>1, <3>2
    <3>4. PassTo(words, Len(str))' /\ words[Len(str')] = length'
      BY <1>0, <3>3 DEF PassTo, Read, Takes
    <3> QED
      BY <2>1, <3>4 DEF SamePasses
  <2>5. Memory' /\ WordsWritten' /\ Untouched'
    BY <1>0, <1>1, <1>3, <2>1 DEF Memory, WordsWritten, Untouched
  <2> QED
    BY <2>2, <2>3, <2>4, <2>5 DEF IInv
<1>4. CASE allocated # 0
  <2>1. PICK words : /\ PassTo(words, Len(str)) /\ words[Len(str)] = length
                     /\ rpos \in DOMAIN words /\ words[rpos] = wpos
    BY <1>0, <1>1, <1>4 DEF SamePasses
  <2>2. rpos <= Len(str)
    BY SMT, <1>2, <2>1 DEF PassTo
  <2>3. rpos = Len(str)
    BY SMT, <1>0, <1>2, <2>2
  <2>4. wpos = length
    BY <2>1, <2>3
  <2>5. length = Len(buffer) /\ allocated = 4 * length + 1
    BY <1>0, <1>1, <1>4 DEF Memory
  <2>6. /\ pc' \in {"order", "reencode"}
        /\ pc' = "order" => Normalizing(options)
    <3>1. Len(buffer) >= wpos
      BY SMT, <1>2, <2>4, <2>5
    <3>2. CASE Normalizing(options)
      BY Zenon, <1>4, <3>1, <3>2 DEF EndOfString
    <3>3. CASE ~ Normalizing(options)
      <4>1. pc' = AfterDecomposition
        BY Zenon, <1>4, <3>3 DEF EndOfString
      <4>2. options # COMPOSE
        BY <3>3 DEF Normalizing
      <4> QED
        BY <3>3, <4>1, <4>2 DEF AfterDecomposition
    <3> QED
      BY <3>2, <3>3
  <2>7. \A i \in 1 .. length' : buffer'[i] # UNSET
    <3>1. \A i \in 1 .. Len(buffer) : i <= wpos => buffer[i] # UNSET
      BY <1>0, <1>1 DEF WordsWritten
    <3> QED
      BY SMT, <1>0, <1>2, <2>4, <2>5, <3>1
  <2>8. TypeOK'
    BY <1>0, <1>1, <1>2, <2>6 DEF TypeOK
  <2>9. WritesStayInAllocation'
    <3>1. 0 <= Len(buffer) /\ 4 * Len(buffer) + 1 <= allocated
      BY SMT, <1>2, <2>5
    <3>2. WritesStayInAllocation
      BY DEF IInv
    <3> QED
      BY <1>0, <3>1, <3>2 DEF WritesStayInAllocation
  <2>10. SecondPassFillsBuffer'
    BY <1>0, <2>4, <2>5, <2>7 DEF SecondPassFillsBuffer
  <2>11. OrderedBehind' /\ CompositionCachesFresh'
    BY SMT, <1>0, <2>6 DEF OrderedBehind, CompositionCachesFresh
  <2>12. TextBehindReader'
    <3>1. Len(out') = 0
      BY <1>0, <1>1, EmptySeq DEF Untouched
    <3> QED
      BY SMT, <1>0, <3>1 DEF TextBehindReader
  <2>13. SamePasses'
    BY <2>6 DEF SamePasses
  <2>14. Memory' /\ WordsWritten' /\ Untouched'
    <3>1. rpos' <= length' /\ length' <= Len(buffer')
      BY SMT, <1>0, <1>2, <2>4, <2>5
    <3> QED
      BY <1>0, <1>1, <1>4, <2>6, <2>7, <3>1 DEF Memory, WordsWritten, Untouched
  <2> QED
    BY <2>8, <2>9, <2>10, <2>11, <2>12, <2>13, <2>14 DEF IInv
<1> QED
  BY <1>3, <1>4

LEMMA AllocateIInv == ASSUME IInv, Allocate PROVE IInv'
<1>0. /\ pc = "allocate" /\ pc' = "decompose" /\ allocated' = 4 * length + 1
      /\ buffer' = [i \in 1 .. length |-> UNSET]
      /\ UNCHANGED << options, str, rpos, wpos, length, starter, starterProperty,
                      maxClass, out, rc >>
  BY DEF Allocate, composition
<1>1. TypeOK /\ Untouched /\ Memory /\ SamePasses
  BY DEF IInv
<1>2. length \in Nat /\ rpos = 0 /\ wpos = 0 /\ out = << >>
  BY <1>0, <1>1 DEF TypeOK, Memory, Untouched
<1>3. buffer' \in Seq(CodePoint \cup {UNSET}) /\ Len(buffer') = length
  BY <1>0, <1>2, IsASeq
<1>4. allocated' \in Nat /\ allocated' # 0
  BY SMT, <1>0, <1>2
<1>5. TypeOK'
  BY <1>0, <1>1, <1>3, <1>4 DEF TypeOK
<1>6. /\ WritesStayInAllocation' /\ SecondPassFillsBuffer' /\ OrderedBehind'
      /\ CompositionCachesFresh' /\ TextBehindReader'
  <2>1. Len(out') = 0
    BY <1>0, <1>2, EmptySeq
  <2>2. WritesStayInAllocation'
    BY SMT, <1>0, <1>4, <2>1 DEF WritesStayInAllocation
  <2> QED
    BY <1>0, <2>2 DEF SecondPassFillsBuffer, OrderedBehind,
                      CompositionCachesFresh, TextBehindReader
<1>7. SamePasses'
  <2>1. PICK words : PassTo(words, Len(str)) /\ words[Len(str)] = length
    BY <1>0, <1>1 DEF SamePasses
  <2>2. 0 \in DOMAIN words /\ words[0] = 0
    BY <2>1 DEF PassTo
  <2>3. PassTo(words, Len(str))' /\ words[Len(str')] = length'
    BY <1>0, <2>1 DEF PassTo, Read, Takes
  <2> QED
    BY <1>0, <1>2, <1>4, <2>2, <2>3 DEF SamePasses
<1>8. Memory' /\ WordsWritten' /\ Untouched'
  <2>1. Memory' /\ Untouched'
    BY <1>0, <1>1, <1>3, <1>4 DEF Memory, Untouched
  <2>2. WordsWritten'
    BY SMT, <1>0, <1>2 DEF WordsWritten
  <2> QED
    BY <2>1, <2>2
<1> QED
  BY <1>5, <1>6, <1>7, <1>8 DEF IInv

\* Exchanging two neighbours.
LEMMA Exchanged ==
    ASSUME NEW S, NEW words \in Seq(S), NEW i \in Nat, i < Len(words) - 1
    PROVE  LET new == [words EXCEPT ![i + 1] = At(words, i + 1),
                                    ![i + 2] = At(words, i)]
           IN  /\ new \in Seq(S)
               /\ Len(new) = Len(words)
               /\ \A j \in 0 .. Len(words) - 1 :
                     At(new, j) = IF j = i THEN At(words, i + 1)
                                  ELSE IF j = i + 1 THEN At(words, i)
                                  ELSE At(words, j)
<1> DEFINE first == [words EXCEPT ![i + 1] = At(words, i + 1)]
           new == [first EXCEPT ![(i + 1) + 1] = At(words, i)]
<1>1. /\ Len(words) \in Nat /\ i + 1 \in Nat /\ i < Len(words)
      /\ i + 1 < Len(words) /\ (i + 1) + 1 = i + 2
  BY SMT, LenProperties
<1>2. At(words, i) \in S /\ At(words, i + 1) \in S
  BY <1>1, WordAt
<1>3. /\ first \in Seq(S) /\ Len(first) = Len(words)
      /\ \A j \in 0 .. Len(words) - 1 :
            At(first, j) = IF j = i THEN At(words, i + 1) ELSE At(words, j)
  BY <1>1, <1>2, ExceptWord
<1> HIDE DEF first
<1>4. /\ new \in Seq(S) /\ Len(new) = Len(first)
      /\ \A j \in 0 .. Len(first) - 1 :
            At(new, j) = IF j = i + 1 THEN At(words, i) ELSE At(first, j)
  BY <1>1, <1>2, <1>3, ExceptWord
<1>5. new = [words EXCEPT ![i + 1] = At(words, i + 1), ![i + 2] = At(words, i)]
  BY <1>1 DEF first
<1> HIDE DEF new
<1>6. \A j \in 0 .. Len(words) - 1 :
         At(new, j) = IF j = i THEN At(words, i + 1)
                      ELSE IF j = i + 1 THEN At(words, i) ELSE At(words, j)
  BY SMT, <1>1, <1>3, <1>4
<1> QED
  BY <1>3, <1>4, <1>5, <1>6

\* A buffer has no unwritten word when none is read.
LEMMA WrittenAt ==
    ASSUME NEW S, NEW words \in Seq(S)
    PROVE  (\A i \in 1 .. Len(words) : words[i] # UNSET)
           <=> \A i \in 0 .. Len(words) - 1 : At(words, i) # UNSET
<1>1. Len(words) \in Nat
  BY LenProperties
<1>2. ASSUME \A i \in 0 .. Len(words) - 1 : At(words, i) # UNSET,
             NEW i \in 1 .. Len(words)
      PROVE  words[i] # UNSET
  <2>1. i - 1 \in 0 .. Len(words) - 1 /\ (i - 1) + 1 = i
    BY SMT, <1>1
  <2> QED
    BY <1>2, <2>1 DEF At
<1>3. ASSUME \A i \in 1 .. Len(words) : words[i] # UNSET,
             NEW i \in 0 .. Len(words) - 1
      PROVE  At(words, i) # UNSET
  <2>1. i + 1 \in 1 .. Len(words)
    BY SMT, <1>1
  <2> QED
    BY <1>3, <2>1 DEF At
<1> QED
  BY <1>2, <1>3

LEMMA OneWayOutOfOrder ==
    ASSUME NEW uc1, NEW uc2, OutOfOrder(uc1, uc2)
    PROVE  ~ OutOfOrder(uc2, uc1)
<1>1. PICK c1, c2 : c1 = CombiningClass(uc1) /\ c2 = CombiningClass(uc2)
  OBVIOUS
<1>2. c1 \in 0 .. 254 /\ c2 \in 0 .. 254
  BY <1>1, ClassRange
<1>3. c1 > c2
  BY <1>1 DEF OutOfOrder
<1>4. ~ (c2 > c1)
  BY SMT, <1>2, <1>3
<1> QED
  BY <1>1, <1>4 DEF OutOfOrder

LEMMA SwapIInv == ASSUME IInv, Swap PROVE IInv'
<1> DEFINE S == CodePoint \cup {UNSET}
           a == At(buffer, rpos)
           next == rpos + 1
           b == At(buffer, next)
<1>0. /\ pc = "order" /\ pc' = "order" /\ rpos < length - 1
      /\ OutOfOrder(At(buffer, rpos), At(buffer, rpos + 1))
      /\ buffer' = [buffer EXCEPT ![rpos + 1] = At(buffer, rpos + 1),
                                  ![rpos + 2] = At(buffer, rpos)]
      /\ rpos' = IF rpos > 0 THEN rpos - 1 ELSE rpos + 1
      /\ UNCHANGED << options, str, wpos, length, allocated, starter,
                      starterProperty, maxClass, out, rc >>
  BY DEF Swap, Ordering, composition
<1>1. TypeOK /\ Untouched /\ Memory
  BY DEF IInv
<1>2. /\ rpos \in Nat /\ length \in Nat /\ buffer \in Seq(S) /\ length = Len(buffer)
      /\ \A i \in 1 .. length : buffer[i] # UNSET
  BY <1>0, <1>1 DEF IInv, TypeOK, SecondPassFillsBuffer
<1> HIDE DEF S
<1>3. /\ buffer' \in Seq(S) /\ Len(buffer') = Len(buffer)
      /\ \A j \in 0 .. Len(buffer) - 1 :
            At(buffer', j) = IF j = rpos THEN b ELSE IF j = next THEN a
                             ELSE At(buffer, j)
  <2> DEFINE new == [buffer EXCEPT ![rpos + 1] = b, ![rpos + 2] = a]
  <2>1. rpos \in Nat /\ buffer \in Seq(S) /\ rpos < Len(buffer) - 1
    BY <1>0, <1>2
  <2>2. /\ new \in Seq(S) /\ Len(new) = Len(buffer)
        /\ \A j \in 0 .. Len(buffer) - 1 :
              At(new, j) = IF j = rpos THEN b ELSE IF j = next THEN a
                           ELSE At(buffer, j)
    BY Zenon, <2>1, Exchanged
  <2>3. buffer' = new
    BY <1>0
  <2> QED
    BY Zenon, <2>2, <2>3
<1>10. next \in 0 .. length - 1 /\ next = rpos + 1 /\ rpos \in 0 .. length - 1
  BY SMT, <1>0, <1>2
<1>11. OutOfOrder(a, b)
  BY <1>0
<1> HIDE DEF a, b, next
<1>4. rpos' \in Nat
  BY SMT, <1>0, <1>2
<1>5. TypeOK'
  BY <1>0, <1>1, <1>3, <1>4 DEF TypeOK, S
<1>6. WritesStayInAllocation' /\ CompositionCachesFresh' /\ TextBehindReader'
  BY <1>0, <1>3 DEF IInv, WritesStayInAllocation, CompositionCachesFresh,
                    TextBehindReader
<1>7. SecondPassFillsBuffer'
  <2>1. \A i \in 0 .. Len(buffer) - 1 : At(buffer, i) # UNSET
    BY <1>2, WrittenAt
  <2>2. a # UNSET /\ b # UNSET
    BY <1>2, <1>10, <2>1 DEF a, b
  <2>4. \A i \in 0 .. Len(buffer) - 1 : At(buffer', i) # UNSET
    BY Zenon, <1>3, <2>1, <2>2
  <2>3. \A i \in 1 .. Len(buffer') : buffer'[i] # UNSET
    BY <1>3, <2>4, WrittenAt
  <2> QED
    BY <1>0, <1>2, <1>3, <2>3 DEF SecondPassFillsBuffer
<1>8. OrderedBehind'
  <2> SUFFICES ASSUME NEW i \in 0 .. rpos' - 1, i < length - 1
               PROVE  ~ OutOfOrder(At(buffer', i), At(buffer', i + 1))
    BY <1>0 DEF OrderedBehind
  <2>1. CASE rpos > 0
    <3>1. /\ i \in 0 .. rpos - 1 /\ i # rpos /\ i # next /\ i + 1 # rpos
          /\ i + 1 # next /\ i \in 0 .. Len(buffer) - 1
          /\ i + 1 \in 0 .. Len(buffer) - 1
      BY SMT, <1>0, <1>2, <1>10, <2>1
    <3>2. At(buffer', i) = At(buffer, i) /\ At(buffer', i + 1) = At(buffer, i + 1)
      BY Zenon, <1>3, <3>1
    <3> QED
      BY <1>0, <3>1, <3>2 DEF IInv, OrderedBehind
  <2>2. CASE ~ (rpos > 0)
    <3>1. i = rpos /\ i + 1 = next /\ rpos # next
      BY SMT, <1>0, <1>2, <1>10, <2>2
    <3>2. At(buffer', i) = b /\ At(buffer', i + 1) = a
      BY Zenon, <1>2, <1>3, <1>10, <3>1
    <3> QED
      BY Zenon, <1>11, <3>2, OneWayOutOfOrder
  <2> QED
    BY <2>1, <2>2
<1>9. SamePasses' /\ WordsWritten' /\ Untouched' /\ Memory'
  BY <1>0, <1>1, <1>3 DEF SamePasses, WordsWritten, Untouched, Memory
<1> QED
  BY <1>5, <1>6, <1>7, <1>8, <1>9 DEF IInv

LEMMA InOrderIInv == ASSUME IInv, InOrder PROVE IInv'
<1>0. /\ pc = "order" /\ pc' = "order" /\ rpos < length - 1 /\ rpos' = rpos + 1
      /\ ~ OutOfOrder(At(buffer, rpos), At(buffer, rpos + 1))
      /\ UNCHANGED << options, str, wpos, length, buffer, allocated, starter,
                      starterProperty, maxClass, out, rc >>
  BY DEF InOrder, Ordering, composition
<1>1. TypeOK /\ rpos \in Nat /\ rpos' \in Nat
  BY <1>0 DEF IInv, TypeOK
<1>2. TypeOK'
  BY <1>0, <1>1 DEF TypeOK
<1>3. OrderedBehind'
  <2> SUFFICES ASSUME NEW i \in 0 .. rpos' - 1, i < length - 1
               PROVE  ~ OutOfOrder(At(buffer, i), At(buffer, i + 1))
    BY <1>0 DEF OrderedBehind
  <2>1. i \in 0 .. rpos - 1 \/ i = rpos
    BY SMT, <1>0, <1>1
  <2> QED
    BY <1>0, <2>1 DEF IInv, OrderedBehind
<1>4. /\ WritesStayInAllocation' /\ SecondPassFillsBuffer'
      /\ CompositionCachesFresh' /\ TextBehindReader'
  BY <1>0 DEF IInv, WritesStayInAllocation, SecondPassFillsBuffer,
              CompositionCachesFresh, TextBehindReader
<1>5. SamePasses' /\ WordsWritten' /\ Untouched' /\ Memory'
  BY <1>0 DEF IInv, SamePasses, WordsWritten, Untouched, Memory
<1> QED
  BY <1>2, <1>3, <1>4, <1>5 DEF IInv

LEMMA EndOfOrderingIInv == ASSUME IInv, EndOfOrdering PROVE IInv'
<1>0. /\ pc = "order" /\ pc' \in {"compose", "reencode"} /\ rpos' = 0
      /\ UNCHANGED << options, str, wpos, length, buffer, allocated, starter,
                      starterProperty, maxClass, out, rc >>
  BY DEF EndOfOrdering, composition, AfterDecomposition
<1>1. /\ TypeOK /\ wpos = 0 /\ starter = NONE /\ starterProperty = NONE
      /\ maxClass = -1 /\ out = << >>
      /\ length = Len(buffer) /\ \A i \in 1 .. length : buffer[i] # UNSET
      /\ length \in Nat
  BY <1>0 DEF IInv, TypeOK, Memory, Untouched, SecondPassFillsBuffer
<1>2. TypeOK'
  BY <1>0, <1>1 DEF TypeOK
<1>3. CompositionCachesFresh'
  BY SMT, <1>0, <1>1 DEF CompositionCachesFresh
<1>4. TextBehindReader'
  <2>1. Len(out') = 0
    BY <1>0, <1>1, EmptySeq
  <2> QED
    BY SMT, <1>0, <2>1 DEF TextBehindReader
<1>5. WritesStayInAllocation' /\ SecondPassFillsBuffer' /\ OrderedBehind'
  BY <1>0 DEF IInv, WritesStayInAllocation, SecondPassFillsBuffer, OrderedBehind
<1>6. SamePasses' /\ WordsWritten' /\ Untouched' /\ Memory'
  <2>1. rpos' <= length' /\ length' <= Len(buffer')
    BY SMT, <1>0, <1>1
  <2> QED
    BY <1>0, <1>1, <2>1 DEF IInv, SamePasses, WordsWritten, Untouched, Memory
<1> QED
  BY <1>2, <1>3, <1>4, <1>5, <1>6 DEF IInv

-----------------------------------------------------------------------------
(* Composition.                                                            *)

\* The facts every step of the composing loop starts from.
LEMMA ComposingFacts ==
    ASSUME IInv, Composing
    PROVE  /\ pc = "compose" /\ TypeOK /\ CompositionCachesFresh
           /\ rpos \in Nat /\ wpos \in Nat /\ length \in Nat
           /\ wpos <= rpos /\ rpos < length /\ length = Len(buffer)
           /\ buffer \in Seq(CodePoint)
           /\ starter # NONE => starter \in Nat /\ starter < wpos
           /\ Current \in CodePoint
           /\ starter # NONE => Starter \in CodePoint
<1>1. /\ pc = "compose" /\ TypeOK /\ CompositionCachesFresh
      /\ rpos \in Nat /\ wpos \in Nat /\ length \in Nat
      /\ wpos <= rpos /\ rpos < length /\ length = Len(buffer)
      /\ buffer \in Seq(CodePoint \cup {UNSET})
      /\ starter # NONE => starter \in Nat /\ starter < wpos
      /\ \A i \in 1 .. length : buffer[i] # UNSET
  BY DEF IInv, TypeOK, Composing, CompositionCachesFresh, SecondPassFillsBuffer
<1>2. buffer \in Seq(CodePoint)
  <2>1. \A i \in 1 .. Len(buffer) : buffer[i] \in CodePoint
    BY <1>1, ElementOfSeq
  <2>2. buffer \in [1 .. Len(buffer) -> CodePoint] /\ Len(buffer) \in Nat
    BY <1>1, <2>1, LenProperties
  <2> QED
    BY <2>2
<1>3. Current \in CodePoint
  BY <1>1, <1>2, WordAt DEF Current
<1>4. ASSUME starter # NONE PROVE Starter \in CodePoint
  <2>1. starter \in Nat /\ starter < Len(buffer)
    BY SMT, <1>1, <1>4
  <2> QED
    BY <1>2, <2>1, WordAt DEF Starter
<1> QED
  BY <1>1, <1>2, <1>3, <1>4

LEMMA ComposeToIInv ==
    ASSUME IInv, Composing, MayCombine, NEW composite \in CodePoint,
           ComposeTo(composite)
    PROVE  IInv'
<1>0. /\ pc' = "compose" /\ rpos' = rpos + 1 /\ starterProperty' = NONE
      /\ buffer' = [buffer EXCEPT ![starter + 1] = composite]
      /\ UNCHANGED << options, str, wpos, length, allocated, starter, maxClass,
                      out, rc >>
  BY ComposingFacts DEF ComposeTo
<1>1. /\ pc = "compose" /\ TypeOK /\ CompositionCachesFresh
      /\ rpos \in Nat /\ wpos \in Nat /\ length \in Nat
      /\ wpos <= rpos /\ rpos < length /\ length = Len(buffer)
      /\ buffer \in Seq(CodePoint)
      /\ starter \in Nat /\ starter < wpos /\ starter # NONE
  <2>1. starter # NONE
    BY DEF MayCombine
  <2> QED
    BY Zenon, <2>1, ComposingFacts
<1>2. starter < Len(buffer)
  BY SMT, <1>1
<1>3. /\ buffer' \in Seq(CodePoint) /\ Len(buffer') = Len(buffer)
      /\ \A j \in 0 .. Len(buffer) - 1 :
            At(buffer', j) = IF j = starter THEN composite ELSE At(buffer, j)
  <2>1. /\ [buffer EXCEPT ![starter + 1] = composite] \in Seq(CodePoint)
        /\ Len([buffer EXCEPT ![starter + 1] = composite]) = Len(buffer)
        /\ \A j \in 0 .. Len(buffer) - 1 :
              At([buffer EXCEPT ![starter + 1] = composite], j) =
                 IF j = starter THEN composite ELSE At(buffer, j)
    <3>1. buffer \in Seq(CodePoint) /\ starter \in Nat /\ composite \in CodePoint
      BY <1>1
    <3> QED
      BY <1>2, <3>1, ExceptWord
  <2> QED
    BY Zenon, <1>0, <2>1
<1>4. TypeOK'
  <2>1. buffer' \in Seq(CodePoint \cup {UNSET})
    BY <1>3, SeqMonotonic
  <2>2. rpos' \in Nat
    BY SMT, <1>0, <1>1
  <2> QED
    BY <1>0, <1>1, <2>1, <2>2 DEF TypeOK
<1>5. /\ \A i \in 1 .. length' : buffer'[i] # UNSET
      /\ length' = Len(buffer')
  <2>1. \A i \in 1 .. Len(buffer') : buffer'[i] \in CodePoint
    BY <1>3, ElementOfSeq
  <2>2. UNSET \notin CodePoint
    BY SMT DEF UNSET, CodePoint
  <2> QED
    BY <1>0, <1>1, <1>3, <2>1, <2>2
<1>6. WritesStayInAllocation' /\ SecondPassFillsBuffer' /\ OrderedBehind'
      /\ TextBehindReader'
  <2>1. WritesStayInAllocation
    BY DEF IInv
  <2> QED
    BY <1>0, <1>1, <1>3, <1>5, <2>1
       DEF WritesStayInAllocation, SecondPassFillsBuffer, OrderedBehind,
           TextBehindReader
<1>7. CompositionCachesFresh'
  <2>1. wpos' <= rpos' /\ starter' < wpos'
    BY SMT, <1>0, <1>1
  <2>2. ASSUME NEW i \in 0 .. wpos - 1, i # starter
        PROVE  At(buffer', i) = At(buffer, i)
    <3>1. i \in 0 .. Len(buffer) - 1
      BY SMT, <1>1
    <3> QED
      BY <1>3, <2>2, <3>1
  <2>3. ASSUME NEW i \in 0 .. wpos - 1, CombiningClass(At(buffer', i)) = 0
        PROVE  i <= starter
    <3>1. CASE i = starter
      BY SMT, <1>1, <3>1
    <3>2. CASE i # starter
      BY Zenon, <1>1, <2>2, <2>3, <3>2 DEF CompositionCachesFresh
    <3> QED
      BY <3>1, <3>2
  <2>4. ASSUME NEW i \in starter + 1 .. wpos - 1
        PROVE  At(buffer', i) = At(buffer, i)
    <3>1. i \in 0 .. wpos - 1 /\ i # starter
      BY SMT, <1>1
    <3> QED
      BY <2>2, <3>1
  <2>5. ASSUME NEW i \in starter + 1 .. wpos - 1
        PROVE  CombiningClass(At(buffer', i)) <= maxClass
    BY Zenon, <1>1, <2>4 DEF CompositionCachesFresh
  <2>6. \/ maxClass = -1 /\ starter = wpos - 1
        \/ \E i \in starter + 1 .. wpos - 1 :
              CombiningClass(At(buffer', i)) = maxClass
    BY Zenon, <1>1, <2>4 DEF CompositionCachesFresh
  <2> QED
    BY Zenon, <1>0, <2>1, <2>3, <2>5, <2>6 DEF CompositionCachesFresh
<1>8. SamePasses' /\ WordsWritten' /\ Untouched' /\ Memory'
  BY <1>0, <1>1 DEF IInv, SamePasses, WordsWritten, Untouched, Memory
<1> QED
  BY <1>4, <1>6, <1>7, <1>8 DEF IInv

LEMMA ComposeVowelIInv == ASSUME IInv, ComposeVowel PROVE IInv'
<1>1. PICK s, c : s = Starter /\ c = Current
  OBVIOUS
<1>2. PICK composite : composite = SBASE + ((s - LBASE) * VCOUNT + (c - VBASE)) * TCOUNT
  OBVIOUS
<1>3. /\ Composing /\ MayCombine /\ ComposeTo(composite)
      /\ IsIndex(s - LBASE, LCOUNT) /\ IsIndex(c - VBASE, VCOUNT)
  BY <1>1, <1>2 DEF ComposeVowel, VowelFollows
<1>4. s \in Int /\ c \in Int
  <2>1. s \in CodePoint /\ c \in CodePoint
    BY <1>1, <1>3, ComposingFacts DEF MayCombine
  <2> QED
    BY <2>1 DEF CodePoint
<1>5. composite \in CodePoint
  <2>1. composite = 44032 + ((s - 4352) * 21 + (c - 4449)) * 28
    BY <1>2 DEF SBASE, LBASE, VBASE, VCOUNT, TCOUNT
  <2>2. /\ 0 <= s - 4352 /\ s - 4352 < 19 /\ 0 <= c - 4449 /\ c - 4449 < 21
    BY <1>3 DEF IsIndex, LBASE, VBASE, LCOUNT, VCOUNT
  <2> QED
    BY SMT, <1>4, <2>1, <2>2 DEF CodePoint
<1> QED
  BY <1>3, <1>5, ComposeToIInv

LEMMA ComposeTrailIInv == ASSUME IInv, ComposeTrail PROVE IInv'
<1>1. PICK s, c : s = Starter /\ c = Current
  OBVIOUS
<1>2. PICK composite : composite = s + (c - TBASE)
  OBVIOUS
<1>3. /\ Composing /\ MayCombine /\ ComposeTo(composite)
      /\ IsHangulSyllable(s) /\ c - TBASE \in 1 .. TCOUNT - 1
  BY <1>1, <1>2 DEF ComposeTrail, TrailFollows
<1>4. s \in Int /\ c \in Int
  <2>1. s \in CodePoint /\ c \in CodePoint
    BY <1>1, <1>3, ComposingFacts DEF MayCombine
  <2> QED
    BY <2>1 DEF CodePoint
<1>5. composite \in CodePoint
  BY SMT, <1>2, <1>3, <1>4
     DEF CodePoint, IsHangulSyllable, IsIndex, SBASE, SCOUNT, LCOUNT, NCOUNT,
         VCOUNT, TCOUNT, TBASE
<1> QED
  BY <1>3, <1>5, ComposeToIInv

LEMMA ComposePairIInv == ASSUME IInv, ComposePair PROVE IInv'
<1>1. PICK pair : pair = << StarterProperty, Current >>
  OBVIOUS
<1>2. PICK composite : composite = CombinationTable[pair]
  OBVIOUS
<1>3. /\ Composing /\ MayCombine /\ ComposeTo(composite)
      /\ pair \in DOMAIN CombinationTable
  BY <1>1, <1>2 DEF ComposePair, InTable
<1>4. composite \in CodePoint
  BY <1>2, <1>3, TableAssumption DEF Scalar
<1> QED
  BY <1>3, <1>4, ComposeToIInv

\* A character that is kept is written behind the reader, and the caches follow.
LEMMA KeepIInv == ASSUME IInv, Keep PROVE IInv'
<1>0. /\ Composing /\ pc' = pc /\ rpos' = rpos + 1 /\ wpos' = wpos + 1
      /\ buffer' = [buffer EXCEPT ![wpos + 1] = Current]
      /\ UNCHANGED << options, str, length, allocated, out, rc >>
  BY DEF Keep
<1>1. /\ pc = "compose" /\ TypeOK /\ CompositionCachesFresh
      /\ rpos \in Nat /\ wpos \in Nat /\ length \in Nat
      /\ wpos <= rpos /\ rpos < length /\ length = Len(buffer)
      /\ buffer \in Seq(CodePoint) /\ Current \in CodePoint
      /\ starter # NONE => starter \in Nat /\ starter < wpos
      /\ starter # NONE => Starter \in CodePoint
  BY <1>0, ComposingFacts
<1>2. PICK class : class = CombiningClass(Current)
  OBVIOUS
<1>3. class \in 0 .. 254 /\ maxClass \in -1 .. 254
  BY <1>1, <1>2, ClassRange DEF TypeOK
<1>4. wpos < Len(buffer)
  BY SMT, <1>1
<1>5. /\ buffer' \in Seq(CodePoint) /\ Len(buffer') = Len(buffer)
      /\ \A j \in 0 .. Len(buffer) - 1 :
            At(buffer', j) = IF j = wpos THEN Current ELSE At(buffer, j)
  <2>1. /\ [buffer EXCEPT ![wpos + 1] = Current] \in Seq(CodePoint)
        /\ Len([buffer EXCEPT ![wpos + 1] = Current]) = Len(buffer)
        /\ \A j \in 0 .. Len(buffer) - 1 :
              At([buffer EXCEPT ![wpos + 1] = Current], j) =
                 IF j = wpos THEN Current ELSE At(buffer, j)
    <3>1. buffer \in Seq(CodePoint) /\ wpos \in Nat /\ Current \in CodePoint
      BY <1>1
    <3> QED
      BY <1>4, <3>1, ExceptWord
  <2> QED
    BY Zenon, <1>0, <2>1
<1>6. CombiningClass(At(buffer', wpos)) = class
  <2>1. wpos \in 0 .. Len(buffer) - 1
    BY SMT, <1>1, <1>4
  <2> QED
    BY <1>2, <1>5, <2>1
<1>7. \A i \in 0 .. wpos - 1 : At(buffer', i) = At(buffer, i)
  <2> TAKE i \in 0 .. wpos - 1
  <2>1. i \in 0 .. Len(buffer) - 1 /\ i # wpos
    BY SMT, <1>1, <1>4
  <2> QED
    BY <1>5, <2>1
<1>8. /\ class > 0 =>
            /\ maxClass' = IF class > maxClass THEN class ELSE maxClass
            /\ starterProperty' = IF MayCombine THEN StarterProperty
                                  ELSE starterProperty
            /\ starter' = starter
      /\ ~ (class > 0) => starter' = wpos /\ starterProperty' = NONE /\ maxClass' = -1
  BY <1>2 DEF Keep
<1>9. ASSUME class > 0
      PROVE  /\ starterProperty' # NONE => starter # NONE /\ starterProperty' = Starter
             /\ starterProperty' \in CodePoint \cup {NONE}
  <2>1. starterProperty # NONE => starter # NONE /\ starterProperty = Starter
    BY <1>1 DEF CompositionCachesFresh
  <2>2. CASE MayCombine
    <3>1. starter # NONE /\ starterProperty' = StarterProperty
      BY Zenon, <1>8, <1>9, <2>2 DEF MayCombine
    <3>2. StarterProperty = Starter
      BY Zenon, <2>1 DEF StarterProperty
    <3> QED
      BY <1>1, <3>1, <3>2
  <2>3. CASE ~ MayCombine
    <3>1. starterProperty' = starterProperty
      BY Zenon, <1>8, <1>9, <2>3
    <3> QED
      BY <1>1, <2>1, <3>1 DEF TypeOK
  <2> QED
    BY <2>2, <2>3
<1>10. /\ starter' \in Nat \cup {NONE} /\ starterProperty' \in CodePoint \cup {NONE}
       /\ maxClass' \in -1 .. 254
  <2>1. CASE class > 0
    <3>1. maxClass' = class \/ maxClass' = maxClass
      BY Zenon, <1>8, <2>1
    <3>2. maxClass' \in -1 .. 254
      BY SMT, <1>3, <3>1
    <3>3. starter' = starter /\ starter \in Nat \cup {NONE}
      BY Zenon, <1>1, <1>8, <2>1 DEF TypeOK
    <3> QED
      BY <1>9, <2>1, <3>2, <3>3
  <2>2. CASE ~ (class > 0)
    BY SMT, <1>1, <1>8, <2>2
  <2> QED
    BY <2>1, <2>2
<1>11. TypeOK'
  <2>1. buffer' \in Seq(CodePoint \cup {UNSET})
    BY <1>5, SeqMonotonic
  <2>2. rpos' \in Nat /\ wpos' \in Nat
    BY SMT, <1>0, <1>1
  <2> QED
    BY <1>0, <1>1, <1>10, <2>1, <2>2 DEF TypeOK
<1>12. /\ \A i \in 1 .. length' : buffer'[i] # UNSET
       /\ length' = Len(buffer')
  <2>1. \A i \in 1 .. Len(buffer') : buffer'[i] \in CodePoint
    BY <1>5, ElementOfSeq
  <2>2. UNSET \notin CodePoint
    BY SMT DEF UNSET, CodePoint
  <2> QED
    BY <1>0, <1>1, <1>5, <2>1, <2>2
<1>13. WritesStayInAllocation' /\ SecondPassFillsBuffer' /\ OrderedBehind'
       /\ TextBehindReader'
  <2>1. WritesStayInAllocation
    BY DEF IInv
  <2>2. wpos' <= Len(buffer')
    BY SMT, <1>0, <1>1, <1>4, <1>5
  <2>3. 4 * Len(buffer') + 1 <= allocated'
    BY <1>0, <1>1, <1>5, <2>1 DEF WritesStayInAllocation
  <2> QED
    BY <1>0, <1>1, <1>12, <2>1, <2>2, <2>3
       DEF WritesStayInAllocation, SecondPassFillsBuffer, OrderedBehind,
           TextBehindReader
<1>14. CompositionCachesFresh'
  <2>1. wpos' <= rpos'
    BY SMT, <1>0, <1>1
  <2>2. CASE class > 0
    <3>1. /\ starter' = starter
          /\ maxClass' = IF class > maxClass THEN class ELSE maxClass
      BY Zenon, <1>8, <2>2
    <3>2. starter # NONE => starter < wpos'
      BY SMT, <1>0, <1>1
    <3>3. ASSUME NEW i \in 0 .. wpos' - 1, CombiningClass(At(buffer', i)) = 0
          PROVE  i <= starter
      <4>1. i # wpos
        BY SMT, <1>6, <2>2, <3>3
      <4>2. i \in 0 .. wpos - 1
        BY SMT, <1>0, <1>1, <4>1
      <4>3. CombiningClass(At(buffer, i)) = 0
        BY Zenon, <1>7, <3>3, <4>2
      <4> QED
        BY <1>1, <4>2, <4>3 DEF CompositionCachesFresh
    <3>4. starterProperty' # NONE => starter # NONE /\ starterProperty' = Starter'
      <4>1. starter # NONE => Starter' = Starter
        <5>1. starter # NONE => starter \in 0 .. wpos - 1
          BY SMT, <1>1
        <5> QED
          BY Zenon, <1>7, <3>1, <5>1 DEF Starter
      <4> QED
        BY <1>9, <2>2, <4>1
    <3>5. ASSUME starter # NONE, NEW i \in starter + 1 .. wpos' - 1
          PROVE  CombiningClass(At(buffer', i)) <= maxClass'
      <4>1. class <= maxClass' /\ maxClass <= maxClass'
        BY SMT, <1>3, <3>1
      <4>2. CASE i = wpos
        BY Zenon, <1>6, <4>1, <4>2
      <4>3. CASE i # wpos
        <5>1. i \in starter + 1 .. wpos - 1 /\ i \in 0 .. wpos - 1
          BY SMT, <1>0, <1>1, <3>5, <4>3
        <5>2. CombiningClass(At(buffer', i)) <= maxClass
          BY Zenon, <1>1, <1>7, <3>5, <5>1 DEF CompositionCachesFresh
        <5>3. PICK c : c = CombiningClass(At(buffer', i))
          OBVIOUS
        <5>4. c \in 0 .. 254 /\ c <= maxClass /\ maxClass' \in -1 .. 254
          BY <1>10, <5>2, <5>3, ClassRange
        <5>5. c <= maxClass'
          BY SMT, <1>3, <4>1, <5>4
        <5> QED
          BY <5>3, <5>5
      <4> QED
        BY <4>2, <4>3
    <3>6. ASSUME starter # NONE
          PROVE  \E i \in starter + 1 .. wpos' - 1 :
                    CombiningClass(At(buffer', i)) = maxClass'
      <4>1. CASE class > maxClass
        <5>1. wpos \in starter + 1 .. wpos' - 1
          BY SMT, <1>0, <1>1, <3>6
        <5>2. maxClass' = class
          BY <3>1, <4>1
        <5> QED
          BY Zenon, <1>6, <5>1, <5>2
      <4>2. CASE ~ (class > maxClass)
        <5>1. maxClass' = maxClass /\ maxClass # -1
          BY SMT, <1>3, <2>2, <3>1, <4>2
        <5>2. PICK i \in starter + 1 .. wpos - 1 :
                      CombiningClass(At(buffer, i)) = maxClass
          BY <1>1, <3>6, <5>1 DEF CompositionCachesFresh
        <5>3. i \in 0 .. wpos - 1 /\ i \in starter + 1 .. wpos' - 1
          BY SMT, <1>0, <1>1, <3>6, <5>2
        <5> QED
          BY Zenon, <1>7, <5>1, <5>2, <5>3
      <4> QED
        BY <4>1, <4>2
    <3> QED
      BY Zenon, <1>0, <2>1, <3>1, <3>2, <3>3, <3>4, <3>5, <3>6
         DEF CompositionCachesFresh
  <2>3. CASE ~ (class > 0)
    <3>1. starter' = wpos /\ starterProperty' = NONE /\ maxClass' = -1
      BY <1>8, <2>3
    <3>2. starter' < wpos' /\ wpos' - 1 = wpos
      BY SMT, <1>0, <1>1, <3>1
    <3>3. \A i \in 0 .. wpos' - 1 : i <= starter'
      BY SMT, <1>1, <3>1, <3>2
    <3>4. \A i \in starter' + 1 .. wpos' - 1 : FALSE
      BY SMT, <1>1, <3>1, <3>2
    <3> QED
      BY Zenon, <1>0, <2>1, <3>1, <3>2, <3>3, <3>4 DEF CompositionCachesFresh
  <2> QED
    BY <2>2, <2>3
<1>15. SamePasses' /\ WordsWritten' /\ Untouched' /\ Memory'
  BY <1>0, <1>1 DEF IInv, SamePasses, WordsWritten, Untouched, Memory
<1> QED
  BY <1>11, <1>13, <1>14, <1>15 DEF IInv

LEMMA EndOfCompositionIInv == ASSUME IInv, EndOfComposition PROVE IInv'
<1>0. /\ pc = "compose" /\ pc' = "reencode" /\ rpos' = 0 /\ length' = wpos
      /\ UNCHANGED << options, str, wpos, buffer, allocated, starter,
                      starterProperty, maxClass, out, rc >>
  BY DEF EndOfComposition, composition
<1>1. /\ TypeOK /\ wpos \in Nat /\ length \in Nat /\ out = << >>
      /\ WritesStayInAllocation /\ wpos <= Len(buffer) /\ length = Len(buffer)
      /\ \A i \in 1 .. length : buffer[i] # UNSET
  BY <1>0 DEF IInv, TypeOK, WritesStayInAllocation, SecondPassFillsBuffer, Untouched
<1>2. TypeOK'
  BY <1>0, <1>1 DEF TypeOK
<1>3. TextBehindReader'
  <2>1. Len(out') = 0
    BY <1>0, <1>1, EmptySeq
  <2> QED
    BY SMT, <1>0, <2>1 DEF TextBehindReader
<1>4. WritesStayInAllocation'
  BY <1>0, <1>1 DEF WritesStayInAllocation
<1>5. SecondPassFillsBuffer' /\ OrderedBehind' /\ CompositionCachesFresh'
  BY <1>0 DEF SecondPassFillsBuffer, OrderedBehind, CompositionCachesFresh
<1>6. SamePasses' /\ WordsWritten' /\ Untouched' /\ Memory'
  <2>1. rpos' <= length' /\ \A i \in 1 .. length' : buffer'[i] # UNSET
    BY SMT, <1>0, <1>1
  <2> QED
    BY <1>0, <1>1, <2>1 DEF SamePasses, WordsWritten, Untouched, Memory
<1> QED
  BY <1>2, <1>3, <1>4, <1>5, <1>6 DEF IInv

-----------------------------------------------------------------------------
(* Encoding in place, and the returns.                                     *)

LEMMA ReencodeIInv == ASSUME IInv, Reencode PROVE IInv'
<1> DEFINE enc == EncodeChar(Word(rpos))
<1>0. /\ pc = "reencode" /\ pc' = "reencode" /\ rpos < length /\ rpos' = rpos + 1
      /\ out' = out \o enc
      /\ UNCHANGED << options, str, wpos, length, buffer, allocated, starter,
                      starterProperty, maxClass, rc >>
  BY DEF Reencode, composition
<1>1. /\ TypeOK /\ rpos \in Nat /\ wpos \in Nat /\ length \in Nat /\ allocated \in Nat
      /\ out \in Seq(Byte) /\ buffer \in Seq(CodePoint \cup {UNSET})
      /\ wpos <= Len(buffer) /\ 4 * Len(buffer) + 1 <= allocated
      /\ length <= Len(buffer) /\ Len(out) <= 4 * rpos
  BY <1>0 DEF IInv, TypeOK, WritesStayInAllocation, Memory, TextBehindReader
<1>2. Len(out) \in Nat /\ Len(buffer) \in Nat
  BY <1>1, LenProperties
<1>3. Word(rpos) \in CodePoint \cup {UNSET}
  <2>1. rpos < Len(buffer)
    BY SMT, <1>0, <1>1, <1>2
  <2>2. At(buffer, rpos) \in CodePoint \cup {UNSET}
    BY <1>1, <2>1, WordAt
  <2> QED
    BY <2>2 DEF Word
<1>4. enc \in Seq(Byte) /\ Len(enc) \in 0 .. 4
  BY <1>3, EncodeCharType
<1> HIDE DEF enc
<1>5. out' \in Seq(Byte) /\ Len(out') = Len(out) + Len(enc)
  BY <1>0, <1>1, <1>4, ConcatProperties
<1>6. /\ Len(out') <= 4 * rpos' /\ rpos' <= length /\ rpos' \in Nat
      /\ Len(out') <= allocated
  <2>1. PICK l, e, r, n, b : l = Len(out) /\ e = Len(enc) /\ r = rpos /\ n = length
                             /\ b = Len(buffer)
    OBVIOUS
  <2>2. /\ l \in Nat /\ e \in 0 .. 4 /\ r \in Nat /\ n \in Nat /\ b \in Nat
        /\ l <= 4 * r /\ r < n /\ n <= b /\ 4 * b + 1 <= allocated
    BY <1>0, <1>1, <1>2, <1>4, <2>1
  <2>3. /\ l + e <= 4 * (r + 1) /\ r + 1 <= n /\ r + 1 \in Nat
        /\ l + e <= allocated
    BY SMT, <1>1, <2>2
  <2> QED
    BY Zenon, <1>0, <1>5, <2>1, <2>3
<1>7. TypeOK'
  BY <1>0, <1>1, <1>5, <1>6 DEF TypeOK
<1>8. WritesStayInAllocation' /\ TextBehindReader'
  BY <1>0, <1>1, <1>6 DEF WritesStayInAllocation, TextBehindReader
<1>9. SecondPassFillsBuffer' /\ OrderedBehind' /\ CompositionCachesFresh'
  BY <1>0 DEF SecondPassFillsBuffer, OrderedBehind, CompositionCachesFresh
<1>10. SamePasses' /\ WordsWritten' /\ Untouched' /\ Memory'
  BY <1>0, <1>1, <1>6 DEF IInv, SamePasses, WordsWritten, Untouched, Memory
<1> QED
  BY <1>7, <1>8, <1>9, <1>10 DEF IInv

LEMMA TerminateIInv == ASSUME IInv, Terminate PROVE IInv'
<1>0. /\ pc = "reencode" /\ pc' = "shrink" /\ rpos >= length
      /\ out' = Append(out, 0) /\ rc' = Len(out)
      /\ UNCHANGED << options, str, rpos, wpos, length, buffer, allocated,
                      starter, starterProperty, maxClass >>
  BY DEF Terminate, composition
<1>1. /\ TypeOK /\ rpos \in Nat /\ length \in Nat /\ allocated \in Nat
      /\ out \in Seq(Byte) /\ buffer \in Seq(CodePoint \cup {UNSET})
      /\ 4 * Len(buffer) + 1 <= allocated /\ rpos <= length
      /\ length <= Len(buffer) /\ Len(out) <= 4 * rpos
  BY <1>0 DEF IInv, TypeOK, WritesStayInAllocation, Memory, TextBehindReader
<1>2. Len(out) \in Nat /\ Len(buffer) \in Nat
  BY <1>1, LenProperties
<1>3. out' \in Seq(Byte) /\ Len(out') = Len(out) + 1
  <2>1. 0 \in Byte
    BY SMT DEF Byte
  <2> QED
    BY <1>0, <1>1, <2>1, AppendProperties
<1>4. rc' + 1 = Len(out') /\ Len(out') <= allocated' /\ rc' \in Int
  BY SMT, <1>0, <1>1, <1>2, <1>3
<1>5. TypeOK'
  BY <1>0, <1>1, <1>3, <1>4 DEF TypeOK
<1>6. WritesStayInAllocation'
  BY <1>0, <1>4 DEF WritesStayInAllocation
<1>7. /\ SecondPassFillsBuffer' /\ OrderedBehind' /\ CompositionCachesFresh'
      /\ TextBehindReader'
  BY <1>0 DEF SecondPassFillsBuffer, OrderedBehind, CompositionCachesFresh,
              TextBehindReader
<1>8. SamePasses' /\ WordsWritten' /\ Untouched' /\ Memory'
  BY <1>0, <1>4 DEF SamePasses, WordsWritten, Untouched, Memory
<1> QED
  BY <1>5, <1>6, <1>7, <1>8 DEF IInv

LEMMA ShrinkIInv == ASSUME IInv, Shrink PROVE IInv'
<1>0. /\ pc = "shrink" /\ pc' = "returned" /\ allocated' \in {rc + 1, allocated}
      /\ UNCHANGED << options, str, rpos, wpos, length, buffer, starter,
                      starterProperty, maxClass, out, rc >>
  BY DEF Shrink, composition
<1>1. /\ TypeOK /\ allocated \in Nat /\ out \in Seq(Byte)
      /\ rc + 1 = Len(out) /\ Len(out) <= allocated
  BY <1>0 DEF IInv, TypeOK, Memory
<1>2. Len(out) \in Nat
  BY <1>1, LenProperties
<1>3. allocated' \in Nat /\ Len(out') <= allocated'
  BY SMT, <1>0, <1>1, <1>2
<1>4. TypeOK'
  BY <1>0, <1>1, <1>3 DEF TypeOK
<1>5. /\ WritesStayInAllocation' /\ SecondPassFillsBuffer' /\ OrderedBehind'
      /\ CompositionCachesFresh' /\ TextBehindReader'
  BY <1>0, <1>3 DEF WritesStayInAllocation, SecondPassFillsBuffer, OrderedBehind,
                    CompositionCachesFresh, TextBehindReader
<1>6. SamePasses' /\ WordsWritten' /\ Untouched' /\ Memory'
  BY <1>0 DEF SamePasses, WordsWritten, Untouched, Memory
<1> QED
  BY <1>4, <1>5, <1>6 DEF IInv

\* Free leaves what Init describes.
LEMMA FreeIInv == ASSUME IInv, Free PROVE IInv'
<1>1. TypeOK'
  <2>1. << >> \in Seq(Byte) /\ << >> \in Seq(CodePoint \cup {UNSET})
    BY EmptySeq
  <2>2. /\ {rpos', wpos', length', allocated'} \subseteq Nat /\ rc' \in Int
        /\ maxClass' \in -1 .. 254
    BY SMT DEF Free
  <2> QED
    BY <2>1, <2>2, Zenon DEF Free, TypeOK, Options
<1>2. WritesStayInAllocation'
  BY SMT DEF Free, WritesStayInAllocation
<1>3. /\ SecondPassFillsBuffer' /\ OrderedBehind' /\ CompositionCachesFresh'
      /\ TextBehindReader'
  BY Zenon DEF Free, SecondPassFillsBuffer, OrderedBehind, CompositionCachesFresh,
               TextBehindReader
<1>4. SamePasses' /\ Memory' /\ WordsWritten' /\ Untouched'
  BY Zenon DEF Free, SamePasses, Memory, WordsWritten, Untouched
<1> QED
  BY <1>1, <1>2, <1>3, <1>4 DEF IInv

LEMMA NextIInv == ASSUME IInv, [Next]_vars PROVE IInv'
<1>1. CASE Malformed
  BY <1>1, FailIInv DEF Malformed, Decoding, UTF8PROC_ERROR_INVALIDUTF8
<1>2. CASE TooLong
  BY <1>2, FailIInv DEF TooLong, Decoding, UTF8PROC_ERROR_OVERFLOW
<1>3. CASE NoMemory
  BY <1>3, FailIInv DEF NoMemory, UTF8PROC_ERROR_NOMEM
<1>4. CASE UNCHANGED vars
  <2>1. UNCHANGED << pc, options, str, rpos, wpos, length, buffer, allocated,
                     starter, starterProperty, maxClass, out, rc >>
    BY <1>4 DEF vars
  <2>2. TypeOK' /\ WritesStayInAllocation' /\ SecondPassFillsBuffer'
    BY <2>1 DEF IInv, TypeOK, WritesStayInAllocation, SecondPassFillsBuffer
  <2>3. OrderedBehind' /\ CompositionCachesFresh' /\ TextBehindReader'
    BY <2>1 DEF IInv, OrderedBehind, CompositionCachesFresh, Starter,
                TextBehindReader
  <2>4. SamePasses' /\ Memory' /\ WordsWritten' /\ Untouched'
    BY <2>1 DEF IInv, SamePasses, PassTo, Read, Takes, Memory, WordsWritten,
                Untouched
  <2> QED
    BY <2>2, <2>3, <2>4 DEF IInv
<1> QED
  BY <1>1, <1>2, <1>3, <1>4, CallIInv, DecomposeIInv, EndOfStringIInv,
     AllocateIInv, SwapIInv, InOrderIInv, EndOfOrderingIInv, ComposeVowelIInv,
     ComposeTrailIInv, ComposePairIInv, KeepIInv, EndOfCompositionIInv,
     ReencodeIInv, TerminateIInv, ShrinkIInv, FreeIInv
     DEF Next, Run

-----------------------------------------------------------------------------
(* The theorems.                                                           *)

\* The inductive invariant holds of every state of the engine.
THEOREM EngineInvariant == Spec => []IInv
<1>1. Init => IInv
  BY InitIInv
<1>2. IInv /\ [Next]_vars => IInv'
  BY NextIInv
<1> QED
  BY <1>1, <1>2, PTL DEF Spec

\* utf8proc_map's variables keep their types: an indeterminate word is the only
\* thing beside code points the buffer ever holds, and the text is bytes.
THEOREM MapTypeCorrect == Spec => []TypeOK
<1>1. IInv => TypeOK
  BY DEF IInv
<1> QED
  BY <1>1, EngineInvariant, PTL

\* No word, no byte of the text and not the NUL after it is written outside the
\* memory the measuring pass asked for, and the shrunk memory holds them all.
THEOREM NoWriteOutside == Spec => []WritesStayInAllocation
<1>1. IInv => WritesStayInAllocation
  BY DEF IInv
<1> QED
  BY <1>1, EngineInvariant, PTL

\* The second decomposing pass of utf8proc_map fills the buffer that the first
\* one measured, with no word left over and none left out.
THEOREM PassesAgree == Spec => []SecondPassFillsBuffer
<1>1. IInv => SecondPassFillsBuffer
  BY DEF IInv
<1> QED
  BY <1>1, EngineInvariant, PTL

\* The exchanges of utf8proc_decompose_custom leave no pair of marks behind the
\* loop's position that is out of canonical order.
THEOREM OrderingComplete == Spec => []OrderedBehind
<1>1. IInv => OrderedBehind
  BY DEF IInv
<1> QED
  BY <1>1, EngineInvariant, PTL

\* starter, starter_property and max_combining_class of utf8proc_normalize_utf32
\* always say what the words composed so far say.
THEOREM CachesFresh == Spec => []CompositionCachesFresh
<1>1. IInv => CompositionCachesFresh
  BY DEF IInv
<1> QED
  BY <1>1, EngineInvariant, PTL

\* utf8proc_reencode writes over words it has read, never over one it has not.
THEOREM ReaderAhead == Spec => []TextBehindReader
<1>1. IInv => TextBehindReader
  BY DEF IInv
<1> QED
  BY <1>1, EngineInvariant, PTL

\* What utf8proc_reencode reads is a code point the decomposition or composition
\* left there: no indeterminate word, and none that its own text has covered.
WordIntact == pc = "reencode" /\ rpos < length => Word(rpos) \in CodePoint

\* utf8proc_reencode encodes code points only, although it writes its text over
\* the words it is reading.
THEOREM EncodesIntactWords == Spec => []WordIntact
<1>1. IInv => WordIntact
  <2> SUFFICES ASSUME IInv, pc = "reencode", rpos < length
               PROVE  Word(rpos) \in CodePoint
    BY DEF WordIntact
  <2>1. /\ rpos \in Nat /\ length \in Nat /\ length <= Len(buffer)
        /\ buffer \in Seq(CodePoint \cup {UNSET}) /\ Len(out) <= 4 * rpos
        /\ \A i \in 1 .. length : buffer[i] # UNSET
    BY DEF IInv, TypeOK, Memory, TextBehindReader, WordsWritten
  <2>2. rpos + 1 \in 1 .. length /\ rpos < Len(buffer)
    <3>1. Len(buffer) \in Nat
      BY <2>1, LenProperties
    <3> QED
      BY SMT, <2>1, <3>1
  <2>3. At(buffer, rpos) \in CodePoint \cup {UNSET}
    BY <2>1, <2>2, WordAt
  <2>4. At(buffer, rpos) # UNSET
    BY <2>1, <2>2 DEF At
  <2> QED
    BY <2>1, <2>3, <2>4 DEF Word
<1> QED
  BY <1>1, EngineInvariant, PTL

-----------------------------------------------------------------------------
(* Canonical order.                                                        *)

Class(cs, k) == CombiningClass(cs[k])

\* No starter stands among them.
Marks(cs, i, j) == \A k \in i .. j : Class(cs, k) > 0

LEMMA BeforeCases ==
    ASSUME NEW cs, NEW i \in Nat, NEW j \in Nat, i < j
    PROVE  /\ Before(cs, i, j) <=> ~ (Marks(cs, i, j) /\ Class(cs, j) < Class(cs, i))
           /\ Before(cs, j, i) <=> Marks(cs, i, j) /\ Class(cs, j) < Class(cs, i)
<1>1. ~ (j < i)
  BY SMT
<1>2. PICK a, b : a = Class(cs, i) /\ b = Class(cs, j)
  OBVIOUS
<1>3. a \in Int /\ b \in Int
  BY SMT, <1>2, ClassRange DEF Class
<1>4. /\ Before(cs, i, j) <=> IF Marks(cs, i, j) /\ a # b THEN a < b ELSE i < j
      /\ Before(cs, j, i) <=> IF Marks(cs, i, j) /\ b # a THEN b < a ELSE j < i
  BY <1>1, <1>2 DEF Before, Marks, Class
<1> QED
  BY SMT, <1>1, <1>2, <1>3, <1>4

LEMMA BeforeItself == ASSUME NEW cs, NEW i \in Nat PROVE ~ Before(cs, i, i)
<1>1. ~ (i < i)
  BY SMT
<1> QED
  BY <1>1 DEF Before

LEMMA BeforeOneWay ==
    ASSUME NEW cs, NEW i \in Nat, NEW j \in Nat, Before(cs, i, j)
    PROVE  ~ Before(cs, j, i)
<1>1. i < j \/ j < i \/ i = j
  BY SMT
<1>2. CASE i < j
  BY <1>2, BeforeCases
<1>3. CASE j < i
  BY <1>3, BeforeCases
<1>4. CASE i = j
  BY <1>4, BeforeItself
<1> QED
  BY <1>1, <1>2, <1>3, <1>4

\* b holds the elements of cs in the order p; where that is not the old order,
\* it is the canonical one.
Rearranged(cs, b, p) ==
    LET places == 1 .. Len(cs)
    IN  /\ Len(b) = Len(cs)
        /\ p \in [places -> places]
        /\ \A i, j \in places : p[i] = p[j] => i = j
        /\ \A i \in places : \E k \in places : p[k] = i
        /\ \A k \in places : b[k] = cs[p[k]]
        /\ \A i, j \in places : i < j => p[i] < p[j] \/ Before(cs, p[i], p[j])

LEMMA RearrangedStart ==
    ASSUME NEW S, NEW cs \in Seq(S)
    PROVE  \E p : Rearranged(cs, cs, p)
<1> DEFINE p == [k \in 1 .. Len(cs) |-> k]
<1>1. Rearranged(cs, cs, p)
  BY DEF Rearranged
<1> QED
  BY <1>1

\* An exchange of the code, of neighbours that are out of order.
LEMMA RearrangedSwap ==
    ASSUME NEW S, NEW cs \in Seq(S), NEW b, NEW p, Rearranged(cs, b, p),
           NEW c, NEW k \in 1 .. Len(cs), k + 1 \in 1 .. Len(cs),
           OutOfOrder(b[k], b[k + 1]),
           Len(c) = Len(b), c[k] = b[k + 1], c[k + 1] = b[k],
           \A i \in 1 .. Len(cs) : i # k /\ i # k + 1 => c[i] = b[i]
    PROVE  \E q : Rearranged(cs, c, q)
<1> DEFINE places == 1 .. Len(cs)
           other(i) == IF i = k THEN k + 1 ELSE IF i = k + 1 THEN k ELSE i
           q == [i \in places |-> p[other(i)]]
<1>1. /\ Len(b) = Len(cs)
      /\ p \in [places -> places]
      /\ \A i, j \in places : p[i] = p[j] => i = j
      /\ \A i \in places : \E m \in places : p[m] = i
      /\ \A m \in places : b[m] = cs[p[m]]
      /\ \A i, j \in places : i < j => p[i] < p[j] \/ Before(cs, p[i], p[j])
  BY DEF Rearranged
<1>2. /\ Len(cs) \in Nat /\ k \in Nat /\ k + 1 \in Nat /\ k < k + 1 /\ k # k + 1
      /\ \A i \in places : i \in Nat
  BY SMT
<1>3. \A i \in places : other(i) \in places /\ other(other(i)) = i
  BY <1>2
<1>4. q \in [places -> places]
  BY <1>1, <1>3
<1>5. \A i \in places : q[i] = p[other(i)]
  OBVIOUS
<1> HIDE DEF q
<1>6. ASSUME NEW i \in places, NEW j \in places, q[i] = q[j] PROVE i = j
  <2>1. PICK m, n : m = other(i) /\ n = other(j)
    OBVIOUS
  <2>2. m \in places /\ n \in places /\ other(m) = i /\ other(n) = j
    BY <1>3, <2>1
  <2>3. p[m] = p[n]
    BY <1>5, <1>6, <2>1
  <2>4. m = n
    BY <1>1, <2>2, <2>3
  <2> QED
    BY <2>2, <2>4
<1>7. \A i \in places : \E m \in places : q[m] = i
  <2> TAKE i \in places
  <2>1. PICK m \in places : p[m] = i
    BY <1>1
  <2>2. q[other(m)] = i /\ other(m) \in places
    BY <1>3, <1>5, <2>1
  <2> QED
    BY <2>2
<1>8. \A m \in places : c[m] = cs[q[m]]
  <2>1. c[k] = cs[q[k]]
    BY <1>1, <1>2, <1>5
  <2>2. c[k + 1] = cs[q[k + 1]]
    BY <1>1, <1>2, <1>5
  <2> QED
    BY <1>1, <1>5, <2>1, <2>2
<1>9. Before(cs, p[k + 1], p[k]) \/ p[k + 1] < p[k]
  <2>1. PICK x, y : x = p[k] /\ y = p[k + 1]
    OBVIOUS
  <2>2. x \in places /\ y \in places /\ x \in Nat /\ y \in Nat /\ x # y
    BY <1>1, <1>2, <2>1
  <2>3. Class(cs, y) < Class(cs, x) /\ Class(cs, y) > 0 /\ Class(cs, x) > 0
    <3>1. b[k] = cs[x] /\ b[k + 1] = cs[y]
      BY <1>1, <2>1
    <3>2. Class(cs, x) > Class(cs, y) /\ Class(cs, y) > 0
      BY <3>1 DEF OutOfOrder, Class
    <3>3. PICK m, n : m = Class(cs, x) /\ n = Class(cs, y)
      OBVIOUS
    <3>4. m \in 0 .. 254 /\ n \in 0 .. 254
      BY <3>3, ClassRange DEF Class
    <3>5. m > n /\ n > 0
      BY <3>2, <3>3
    <3>6. n < m /\ n > 0 /\ m > 0
      BY SMT, <3>4, <3>5
    <3> QED
      BY <3>3, <3>6
  <2>4. ASSUME x < y PROVE Marks(cs, x, y)
    <3> SUFFICES ASSUME NEW z \in x .. y, ~ (Class(cs, z) > 0) PROVE FALSE
      BY DEF Marks
    <3>1. z \in places /\ z \in Nat
      BY SMT, <2>2
    <3>2. PICK m \in places : p[m] = z
      BY <1>1, <3>1
    <3>3. z # x /\ z # y
      BY <2>3
    <3>4. m # k /\ m # k + 1
      BY <2>1, <3>2, <3>3
    <3>5. m < k \/ k + 1 < m
      BY SMT, <1>2, <3>4
    <3>6. x < z /\ z < y /\ ~ (z < x) /\ ~ (y < z)
      BY SMT, <2>2, <3>1, <3>3
    <3>7. CASE m < k
      <4>1. Before(cs, z, x)
        BY <1>1, <2>1, <3>2, <3>6, <3>7
      <4>2. Marks(cs, x, z)
        BY <2>2, <3>1, <3>6, <4>1, BeforeCases
      <4>3. z \in x .. z
        BY SMT, <2>2, <3>1, <3>6
      <4> QED
        BY <4>2, <4>3 DEF Marks
    <3>8. CASE k + 1 < m
      <4>1. Before(cs, y, z)
        BY <1>1, <2>1, <3>2, <3>6, <3>8
      <4>2. Marks(cs, z, y)
        BY <2>2, <3>1, <3>6, <4>1, BeforeCases
      <4>3. z \in z .. y
        BY SMT, <2>2, <3>1, <3>6
      <4> QED
        BY <4>2, <4>3 DEF Marks
    <3> QED
      BY <3>5, <3>7, <3>8
  <2>5. x < y \/ y < x
    BY SMT, <2>2
  <2>6. x < y => Before(cs, y, x)
    BY <2>2, <2>3, <2>4, BeforeCases
  <2> QED
    BY <2>1, <2>5, <2>6
<1>10. ASSUME NEW i \in places, NEW j \in places, i < j
       PROVE  q[i] < q[j] \/ Before(cs, q[i], q[j])
  <2>1. CASE i = k /\ j = k + 1
    BY <1>2, <1>5, <1>9, <2>1
  <2>2. CASE ~ (i = k /\ j = k + 1)
    <3>1. PICK m, n : m = other(i) /\ n = other(j)
      OBVIOUS
    <3>2. m < n
      BY SMT, <1>2, <1>10, <2>2, <3>1
    <3>3. m \in places /\ n \in places /\ q[i] = p[m] /\ q[j] = p[n]
      BY <1>3, <1>5, <3>1
    <3> QED
      BY <1>1, <3>2, <3>3
  <2> QED
    BY <2>1, <2>2
<1>11. Rearranged(cs, c, q)
  BY <1>1, <1>4, <1>6, <1>7, <1>8, <1>10 DEF Rearranged
<1> QED
  BY <1>11

\* Where no neighbours are out of order, any two are in the canonical order.
LEMMA RearrangedOrdered ==
    ASSUME NEW S, NEW cs \in Seq(S), NEW b, NEW p, Rearranged(cs, b, p),
           \A k \in 1 .. Len(cs) :
              k + 1 \in 1 .. Len(cs) => ~ OutOfOrder(b[k], b[k + 1])
    PROVE  \A i, j \in 1 .. Len(cs) : i < j => Before(cs, p[i], p[j])
<1> DEFINE places == 1 .. Len(cs)
<1>1. /\ Len(b) = Len(cs)
      /\ p \in [places -> places]
      /\ \A i, j \in places : p[i] = p[j] => i = j
      /\ \A i \in places : \E m \in places : p[m] = i
      /\ \A m \in places : b[m] = cs[p[m]]
      /\ \A i, j \in places : i < j => p[i] < p[j] \/ Before(cs, p[i], p[j])
  BY DEF Rearranged
<1>2. Len(cs) \in Nat /\ \A i \in places : i \in Nat
  BY SMT
<1> SUFFICES ASSUME NEW i \in places, NEW j \in places, i < j
             PROVE  Before(cs, p[i], p[j])
  OBVIOUS
<1>3. PICK x, y : x = p[i] /\ y = p[j]
  OBVIOUS
<1>4. x \in places /\ y \in places /\ x \in Nat /\ y \in Nat
  BY <1>1, <1>2, <1>3
<1>5. ASSUME x < y, Marks(cs, x, y), Class(cs, y) < Class(cs, x) PROVE FALSE
  <2> DEFINE B == {k \in i + 1 .. j : CombiningClass(b[k]) < Class(cs, x)}
  <2>1. /\ i \in Nat /\ j \in Nat /\ j \in i + 1 .. j
        /\ \A k \in i + 1 .. j : k \in places /\ k \in Nat /\ k - 1 \in places
                                 /\ k - 1 + 1 = k
                                 /\ (k - 1 = i \/ k - 1 \in i + 1 .. j)
                                 /\ ~ (k <= k - 1)
    BY SMT, <1>2
  <2>2. j \in B
    BY <1>1, <1>3, <1>5, <2>1 DEF Class
  <2>3. B \subseteq Nat
    BY <2>1
  <2> HIDE DEF B
  <2>4. PICK k \in B : \A l \in B : k <= l
    BY <2>2, <2>3, Least
  <2>5. k \in i + 1 .. j /\ CombiningClass(b[k]) < Class(cs, x)
    BY <2>4 DEF B
  <2>6. ~ (CombiningClass(b[k - 1]) < Class(cs, x))
    <3>1. CASE k - 1 = i
      <4>1. CombiningClass(b[k - 1]) = Class(cs, x)
        BY <1>1, <1>3, <3>1 DEF Class
      <4>2. Class(cs, x) \in 0 .. 254
        BY ClassRange DEF Class
      <4>3. PICK w : w = Class(cs, x)
        OBVIOUS
      <4>5. w \in 0 .. 254
        BY <4>2, <4>3
      <4>4. ~ (w < w)
        BY SMT, <4>5
      <4> QED
        BY <4>1, <4>3, <4>4
    <3>2. CASE k - 1 \in i + 1 .. j
      BY <2>1, <2>4, <2>5, <3>2 DEF B
    <3> QED
      BY <2>1, <2>5, <3>1, <3>2
  <2>7. ~ OutOfOrder(b[k - 1], b[k])
    BY <2>1, <2>5
  <2>8. ~ (CombiningClass(b[k]) > 0)
    <3>1. PICK u, v, w : u = CombiningClass(b[k - 1]) /\ v = CombiningClass(b[k])
                         /\ w = Class(cs, x)
      OBVIOUS
    <3>2. u \in 0 .. 254 /\ v \in 0 .. 254 /\ w \in 0 .. 254
      BY <3>1, ClassRange DEF Class
    <3>3. v < w /\ ~ (u < w) /\ ~ (u > v /\ v > 0)
      BY <2>5, <2>6, <2>7, <3>1 DEF OutOfOrder
    <3>4. ~ (v > 0)
      BY SMT, <3>2, <3>3
    <3> QED
      BY <3>1, <3>4
  <2>9. PICK z : z = p[k]
    OBVIOUS
  <2>10. z \in places /\ z \in Nat /\ ~ (Class(cs, z) > 0) /\ k \in places
    BY <1>1, <1>2, <2>1, <2>5, <2>8, <2>9 DEF Class
  <2>11. x < z
    <3>1. i < k
      BY SMT, <2>1, <2>5
    <3>2. x < z \/ Before(cs, x, z)
      BY <1>1, <1>3, <2>9, <2>10, <3>1
    <3>3. ASSUME z < x PROVE ~ Before(cs, x, z)
      <4>1. z \in z .. x
        BY SMT, <1>4, <2>10, <3>3
      <4>2. ~ Marks(cs, z, x)
        BY <2>10, <4>1 DEF Marks
      <4> QED
        BY <1>4, <2>10, <3>3, <4>2, BeforeCases
    <3>4. x # z
      <4>1. x \in x .. y
        BY SMT, <1>4, <1>5
      <4> QED
        BY <1>5, <2>10, <4>1 DEF Marks
    <3>5. x < z \/ z < x
      BY SMT, <1>4, <2>10, <3>4
    <3> QED
      BY <3>2, <3>3, <3>5
  <2>12. z < y
    <3>1. k # j
      <4>1. y \in x .. y
        BY SMT, <1>4, <1>5
      <4>2. Class(cs, y) > 0
        BY <1>5, <4>1 DEF Marks
      <4> QED
        BY <1>3, <2>9, <2>10, <4>2
    <3>2. k < j
      BY SMT, <2>1, <2>5, <3>1
    <3>3. z < y \/ Before(cs, z, y)
      BY <1>1, <1>3, <2>9, <2>10, <3>2
    <3>4. ASSUME y < z PROVE ~ Before(cs, z, y)
      <4>1. z \in y .. z
        BY SMT, <1>4, <2>10, <3>4
      <4>2. ~ Marks(cs, y, z)
        BY <2>10, <4>1 DEF Marks
      <4> QED
        BY <1>4, <2>10, <3>4, <4>2, BeforeCases
    <3>5. y # z
      BY <1>1, <1>3, <2>9, <2>10, <3>1
    <3>6. z < y \/ y < z
      BY SMT, <1>4, <2>10, <3>5
    <3> QED
      BY <3>3, <3>4, <3>6
  <2>13. z \in x .. y
    BY SMT, <1>4, <2>10, <2>11, <2>12
  <2> QED
    BY <1>5, <2>10, <2>13 DEF Marks
<1>6. x < y => Before(cs, x, y)
  BY <1>4, <1>5, BeforeCases
<1> QED
  BY <1>1, <1>3, <1>6

\* Then they are what the standard's canonical order makes of them.
LEMMA RearrangedCanonical ==
    ASSUME NEW S, NEW cs \in Seq(S), NEW b, NEW p, Rearranged(cs, b, p),
           \A i, j \in 1 .. Len(cs) : i < j => Before(cs, p[i], p[j])
    PROVE  \A m \in 1 .. Len(cs) : InCanonicalOrder(cs)[m] = b[m]
<1> DEFINE places == 1 .. Len(cs)
           Ahead(i) == {j \in places : Before(cs, j, i)}
<1>1. /\ p \in [places -> places]
      /\ \A i, j \in places : p[i] = p[j] => i = j
      /\ \A i \in places : \E m \in places : p[m] = i
      /\ \A m \in places : b[m] = cs[p[m]]
  BY DEF Rearranged
<1>2. Len(cs) \in Nat /\ \A i \in places : i \in Nat
  BY SMT
<1>3. ASSUME NEW k \in places PROVE Cardinality(Ahead(p[k])) = k - 1
  <2> DEFINE front == 1 .. k - 1
             f == [l \in front |-> p[l]]
  <2>1. \A l \in front : l \in places /\ l < k
    BY SMT, <1>2
  <2>2. \A j \in Ahead(p[k]) : \E l \in front : p[l] = j
    <3> TAKE j \in Ahead(p[k])
    <3>1. PICK l \in places : p[l] = j
      BY <1>1
    <3>2. Before(cs, p[l], p[k])
      BY <3>1
    <3>3. p[l] \in Nat /\ p[k] \in Nat
      BY <1>1, <1>2
    <3>4. ~ (k < l) /\ k # l
      BY <3>2, <3>3, BeforeOneWay, BeforeItself
    <3>5. l \in front
      BY SMT, <1>2, <3>4
    <3> QED
      BY <3>1, <3>5
  <2>3. \A l \in front : p[l] \in Ahead(p[k])
    BY <1>1, <2>1
  <2>4. f \in Bijection(front, Ahead(p[k]))
    <3>1. f \in [front -> Ahead(p[k])]
      BY <2>3
    <3>2. \A a, c \in front : f[a] = f[c] => a = c
      BY <1>1, <2>1
    <3>3. \A j \in Ahead(p[k]) : \E l \in front : f[l] = j
      BY <2>2
    <3> HIDE DEF f, front, Ahead
    <3> QED
      BY <3>1, <3>2, <3>3 DEF Bijection, Injection, Surjection, IsInjective
  <2>5. IsFiniteSet(front) /\ Cardinality(front) = k - 1
    <3>1. 1 \in Int /\ k - 1 \in Int /\ k - 1 - 1 + 1 = k - 1 /\ (1 > k - 1 => k - 1 = 0)
      BY SMT, <1>2
    <3> QED
      BY <3>1, FS_Interval
  <2>6. ExistsBijection(front, Ahead(p[k]))
    BY <2>4 DEF ExistsBijection
  <2> HIDE DEF front, f
  <2> QED
    BY <2>5, <2>6, FS_Bijection, FS_SameCardinalityBij
<1>4. ASSUME NEW m \in places
      PROVE  (CHOOSE i \in places : Cardinality(Ahead(i)) = m - 1) = p[m]
  <2>1. p[m] \in places /\ Cardinality(Ahead(p[m])) = m - 1
    BY <1>1, <1>3
  <2>2. ASSUME NEW i \in places, Cardinality(Ahead(i)) = m - 1 PROVE i = p[m]
    <3>1. PICK k \in places : p[k] = i
      BY <1>1
    <3>2. k - 1 = m - 1
      BY <1>3, <2>2, <3>1
    <3>3. k = m
      BY SMT, <1>2, <3>2
    <3> QED
      BY <3>1, <3>3
  <2> HIDE DEF Ahead, places
  <2> QED
    BY <2>1, <2>2
<1> TAKE m \in places
<1>5. InCanonicalOrder(cs)[m] = cs[CHOOSE i \in places : Cardinality(Ahead(i)) = m - 1]
  BY DEF InCanonicalOrder
<1> QED
  BY <1>1, <1>4, <1>5

-----------------------------------------------------------------------------
(* Canonical composition.                                                  *)

\* The composition of the first n characters: the values of Composed's recursive
\* function, and its equation.
ComposeAt(f, cs, n) == IF n = 0 THEN << >> ELSE AddComposing(f[n - 1], cs[n])

Composes(f, cs, n) == f = [i \in 0 .. n |-> ComposeAt(f, cs, i)]

Upto(cs, n) == (CHOOSE f : Composes(f, cs, Len(cs)))[n]

LEMMA ComposedUpto == ASSUME NEW cs PROVE Composed(cs) = Upto(cs, Len(cs))
BY Zenon DEF Composed, Upto, Composes, ComposeAt

LEMMA ComposesExists ==
    ASSUME NEW cs, NEW n \in Nat
    PROVE  \E f : Composes(f, cs, n)
<1> DEFINE Without == {i \in Nat : ~ \E f : Composes(f, cs, i)}
<1> SUFFICES ASSUME Without # {} PROVE FALSE
  OBVIOUS
<1>1. PICK k \in Without : \A j \in Without : k <= j
  <2>1. Without \subseteq Nat
    OBVIOUS
  <2> QED
    BY <2>1, Least
<1>2. k # 0
  <2> SUFFICES ASSUME k = 0 PROVE \E f : Composes(f, cs, k)
    OBVIOUS
  <2> DEFINE f == [i \in 0 .. k |-> << >>]
  <2>1. \A i \in 0 .. k : i = 0
    BY SMT
  <2>2. f = [i \in 0 .. k |-> ComposeAt(f, cs, i)]
    BY <2>1 DEF ComposeAt
  <2> QED
    BY <2>2 DEF Composes
<1>3. k - 1 \in Nat /\ ~ (k <= k - 1)
  BY SMT, <1>2
<1>4. PICK g : Composes(g, cs, k - 1)
  BY <1>1, <1>3
<1> DEFINE f == [i \in 0 .. k |-> ComposeAt(g, cs, i)]
<1>5. ASSUME NEW i \in 0 .. k PROVE ComposeAt(g, cs, i) = ComposeAt(f, cs, i)
  <2>1. CASE i = 0
    BY <2>1 DEF ComposeAt
  <2>2. CASE i # 0
    <3>1. i - 1 \in 0 .. k - 1 /\ i - 1 \in 0 .. k
      BY SMT, <2>2
    <3>2. g[i - 1] = ComposeAt(g, cs, i - 1)
      BY Zenon, <1>4, <3>1 DEF Composes
    <3>3. f[i - 1] = ComposeAt(g, cs, i - 1)
      BY Zenon, <3>1
    <3> HIDE DEF f
    <3> QED
      BY Zenon, <2>2, <3>2, <3>3 DEF ComposeAt
  <2> QED
    BY <2>1, <2>2
<1>6. Composes(f, cs, k)
  <2>1. f = [i \in 0 .. k |-> ComposeAt(g, cs, i)]
    OBVIOUS
  <2> HIDE DEF f
  <2> QED
    BY Zenon, <1>5, <2>1 DEF Composes
<1> QED
  BY <1>1, <1>6

LEMMA UptoStep ==
    ASSUME NEW S, NEW cs \in Seq(S), NEW n \in 0 .. Len(cs)
    PROVE  /\ n = 0 => Upto(cs, n) = << >>
           /\ n # 0 => Upto(cs, n) = AddComposing(Upto(cs, n - 1), cs[n])
<1> DEFINE f == CHOOSE g : Composes(g, cs, Len(cs))
<1>1. Composes(f, cs, Len(cs))
  <2>1. Len(cs) \in Nat
    BY LenProperties
  <2> QED
    BY Zenon, <2>1, ComposesExists
<1>2. \A k : Upto(cs, k) = f[k]
  BY DEF Upto
<1> HIDE DEF f
<1>3. f[n] = ComposeAt(f, cs, n)
  BY Zenon, <1>1 DEF Composes
<1> QED
  BY Zenon, <1>2, <1>3 DEF ComposeAt

\* What the three branches of the composing loop test and write.
VowelAfter(a, b) == IsIndex(a - LBASE, LCOUNT) /\ IsIndex(b - VBASE, VCOUNT)
TrailAfter(a, b) == /\ IsHangulSyllable(a) /\ (a - SBASE) % TCOUNT = 0
                    /\ b - TBASE \in 1 .. TCOUNT - 1
Listed(a, b)     == << a, b >> \in DOMAIN CombinationTable

LEMMA SyllableStarts ==
    ASSUME NEW c, IsHangulSyllable(c) PROVE CombiningClass(c) = 0
BY Zenon, TableAssumption DEF CombiningClass

LEMMA SyllableScalar ==
    ASSUME NEW c \in Int, 44032 <= c, c <= 55203
    PROVE  c \in Scalar /\ IsHangulSyllable(c)
<1>1. SCOUNT = 11172
  BY SMT DEF LCOUNT, NCOUNT, VCOUNT, TCOUNT, SCOUNT
<1> QED
  BY SMT, <1>1 DEF CodePoint, Scalar, Between, IsHangulSyllable, IsIndex, SBASE

LEMMA ListedStarts ==
    ASSUME NEW a, NEW b, Listed(a, b)
    PROVE  /\ ~ IsHangulSyllable(a) /\ ~ IsIndex(a - LBASE, LCOUNT)
           /\ CombinationTable[<< a, b >>] \in Scalar
           /\ CombiningClass(CombinationTable[<< a, b >>]) = 0
<1>1. PICK pair : pair = << a, b >>
  OBVIOUS
<1>2. pair \in DOMAIN CombinationTable /\ pair[1] = a
  BY <1>1 DEF Listed
<1>3. /\ ~ IsHangulSyllable(pair[1]) /\ ~ IsIndex(pair[1] - LBASE, LCOUNT)
      /\ CombinationTable[pair] \in Scalar
      /\ CombinationTable[pair] \notin DOMAIN CombiningClassTable
  BY Zenon, <1>2, TableAssumption
<1> QED
  BY <1>1, <1>2, <1>3 DEF CombiningClass

LEMMA JamoNumbers ==
    ASSUME NEW a \in Nat, NEW b \in Nat
    PROVE  /\ IsIndex(a - LBASE, LCOUNT) <=> a \in 4352 .. 4370
           /\ IsIndex(b - VBASE, VCOUNT) <=> b \in 4449 .. 4469
           /\ b - TBASE \in 1 .. TCOUNT - 1 <=> b \in 4520 .. 4546
           /\ SBASE = 44032 /\ TCOUNT = 28 /\ LBASE = 4352 /\ VBASE = 4449
           /\ TBASE = 4519 /\ VCOUNT = 21
<1>1. IsIndex(a - LBASE, LCOUNT) <=> a \in 4352 .. 4370
  BY SMT DEF IsIndex, LBASE, LCOUNT
<1>2. IsIndex(b - VBASE, VCOUNT) <=> b \in 4449 .. 4469
  BY SMT DEF IsIndex, VBASE, VCOUNT
<1>3. b - TBASE \in 1 .. TCOUNT - 1 <=> b \in 4520 .. 4546
  BY SMT DEF TBASE, TCOUNT
<1> QED
  BY <1>1, <1>2, <1>3 DEF SBASE, TCOUNT, LBASE, VBASE, TBASE, VCOUNT

LEMMA CompositeFound ==
    ASSUME NEW a \in Nat, NEW b \in Nat
    PROVE  HasComposite(a, b) <=> VowelAfter(a, b) \/ TrailAfter(a, b) \/ Listed(a, b)
<1>1. VowelAfter(a, b) <=> a \in 4352 .. 4370 /\ b \in 4449 .. 4469
  BY JamoNumbers DEF VowelAfter
<1>2. TrailAfter(a, b) <=>
         IsHangulSyllable(a) /\ (a - 44032) % 28 = 0 /\ b \in 4520 .. 4546
  <2>1. /\ b - TBASE \in 1 .. TCOUNT - 1 <=> b \in 4520 .. 4546
        /\ SBASE = 44032 /\ TCOUNT = 28
    BY JamoNumbers
  <2>2. (a - SBASE) % TCOUNT = (a - 44032) % 28
    BY <2>1
  <2> QED
    BY <2>1, <2>2 DEF TrailAfter
<1> QED
  BY <1>1, <1>2 DEF HasComposite, Listed

LEMMA CompositeListed ==
    ASSUME NEW a, NEW b, Listed(a, b)
    PROVE  /\ Composite(a, b) = CombinationTable[<< a, b >>]
           /\ Composite(a, b) \in Scalar /\ CombiningClass(Composite(a, b)) = 0
<1>1. ~ IsHangulSyllable(a) /\ ~ IsIndex(a - LBASE, LCOUNT)
  BY ListedStarts
<1>2. a \notin 4352 .. 4370
  BY SMT, <1>1 DEF IsIndex, LBASE, LCOUNT
<1>3. Composite(a, b) = CombinationTable[<< a, b >>]
  BY <1>1, <1>2 DEF Composite, Listed
<1> QED
  BY <1>3, ListedStarts

LEMMA CompositeVowel ==
    ASSUME NEW a \in Nat, NEW b \in Nat, VowelAfter(a, b)
    PROVE  /\ Composite(a, b) = SBASE + ((a - LBASE) * VCOUNT + (b - VBASE)) * TCOUNT
           /\ Composite(a, b) \in Scalar /\ CombiningClass(Composite(a, b)) = 0
           /\ ~ TrailAfter(a, b) /\ ~ Listed(a, b)
<1>1. a \in 4352 .. 4370 /\ b \in 4449 .. 4469
  BY JamoNumbers DEF VowelAfter
<1>2. ~ Listed(a, b)
  BY ListedStarts DEF VowelAfter
<1>3. ~ IsHangulSyllable(a)
  BY SMT, <1>1 DEF IsHangulSyllable, IsIndex, SBASE
<1>4. Composite(a, b) = 44032 + (a - 4352) * 588 + (b - 4449) * 28
  BY <1>1, <1>2, <1>3 DEF Composite, Listed
<1>5. PICK c : c = 44032 + (a - 4352) * 588 + (b - 4449) * 28
  OBVIOUS
<1>6. c \in Int /\ 44032 <= c /\ c <= 55203
  BY SMT, <1>1, <1>5
<1>7. SBASE + ((a - LBASE) * VCOUNT + (b - VBASE)) * TCOUNT = c
  BY SMT, <1>1, <1>5 DEF SBASE, LBASE, VBASE, VCOUNT, TCOUNT
<1>8. Composite(a, b) = c
  BY <1>4, <1>5
<1> QED
  BY <1>2, <1>3, <1>6, <1>7, <1>8, SyllableScalar, SyllableStarts DEF TrailAfter

LEMMA CompositeTrail ==
    ASSUME NEW a \in Nat, NEW b \in Nat, TrailAfter(a, b)
    PROVE  /\ Composite(a, b) = a + (b - TBASE)
           /\ Composite(a, b) \in Scalar /\ CombiningClass(Composite(a, b)) = 0
           /\ ~ VowelAfter(a, b) /\ ~ Listed(a, b)
<1>1. IsHangulSyllable(a) /\ (a - 44032) % 28 = 0 /\ b \in 4520 .. 4546
  <2>1. TCOUNT = 28 /\ SBASE = 44032 /\ b \in 4520 .. 4546
    BY JamoNumbers DEF TrailAfter
  <2> QED
    BY <2>1 DEF TrailAfter
<1>2. ~ Listed(a, b)
  BY ListedStarts DEF TrailAfter
<1>3. 44032 <= a /\ a <= 55203
  <2>1. SCOUNT = 11172
    BY SMT DEF LCOUNT, NCOUNT, VCOUNT, TCOUNT, SCOUNT
  <2> QED
    BY SMT, <1>1, <2>1 DEF IsHangulSyllable, IsIndex, SBASE
<1>4. a \notin 4352 .. 4370
  BY SMT, <1>3
<1>5. Composite(a, b) = a + b - 4519
  BY <1>1, <1>2, <1>4 DEF Composite, Listed
<1>6. PICK c : c = a + b - 4519
  OBVIOUS
<1>7. c \in Int /\ 44032 <= c /\ c <= 55203
  <2>1. PICK s : s = a - 44032
    OBVIOUS
  <2>2. s \in Nat /\ s <= 11171 /\ s % 28 = 0
    BY SMT, <1>1, <1>3, <2>1
  <2>3. PICK q : q = s \div 28
    OBVIOUS
  <2>4. q \in 0 .. 398 /\ s = 28 * q
    BY SMT, <2>2, <2>3
  <2> QED
    BY SMT, <1>1, <1>3, <1>6, <2>1, <2>4
<1>8. a + (b - TBASE) = c
  BY SMT, <1>1, <1>6 DEF TBASE
<1>9. Composite(a, b) = c
  BY <1>5, <1>6
<1>10. ~ VowelAfter(a, b)
  BY <1>4, JamoNumbers DEF VowelAfter
<1> QED
  BY <1>2, <1>7, <1>8, <1>9, <1>10, SyllableScalar, SyllableStarts

\* To which starter a character is added, and when.
LEMMA AddToStarter ==
    ASSUME NEW cs, NEW c, NEW last \in 1 .. Len(cs), Class(cs, last) = 0,
           Len(cs) \in Nat,
           \A i \in 1 .. Len(cs) : Class(cs, i) = 0 => i <= last
    PROVE  LET free == \A i \in last + 1 .. Len(cs) :
                          ~ (Class(cs, i) >= CombiningClass(c))
           IN  /\ free /\ HasComposite(cs[last], c) =>
                     AddComposing(cs, c) = [cs EXCEPT ![last] = Composite(cs[last], c)]
               /\ ~ (free /\ HasComposite(cs[last], c)) =>
                     AddComposing(cs, c) = Append(cs, c)
<1> DEFINE starters == {i \in 1 .. Len(cs) : CombiningClass(cs[i]) = 0}
           chosen   == CHOOSE i \in starters : \A j \in starters : j <= i
<1>1. last \in starters /\ \A j \in starters : j <= last
  BY DEF Class
<1>2. chosen = last
  <2>1. chosen \in starters /\ \A j \in starters : j <= chosen
    BY <1>1
  <2>2. last <= chosen /\ chosen <= last /\ chosen \in 1 .. Len(cs)
    BY <1>1, <2>1
  <2> HIDE DEF chosen
  <2> QED
    BY SMT, <2>2
<1>3. starters # {}
  BY <1>1
<1> HIDE DEF starters
<1> QED
  BY <1>2, <1>3 DEF AddComposing, Class, starters

LEMMA AddWithoutStarter ==
    ASSUME NEW cs, NEW c, \A i \in 1 .. Len(cs) : Class(cs, i) # 0
    PROVE  AddComposing(cs, c) = Append(cs, c)
<1>1. {i \in 1 .. Len(cs) : CombiningClass(cs[i]) = 0} = {}
  BY DEF Class
<1> QED
  BY <1>1 DEF AddComposing

-----------------------------------------------------------------------------
(* What the loops compute.                                                 *)

Whole == FullyMapped(options, Characters(str))
Form  == NormalForm(options, Characters(str))

\* Decomposing: what was read is mapped, and written as far as there is room.
DecodedSoFar ==
    pc = "decompose" =>
        \E read :
           /\ ReadTo(str, read, rpos)
           /\ wpos = Len(FullyMapped(options, read)) /\ wpos <= MaxWords
           /\ \A i \in 1 .. wpos :
                 i <= Len(buffer) => buffer[i] = FullyMapped(options, read)[i]

\* Nothing after it is done for a string that is not to be mapped.
RightToMap ==
    pc \in {"allocate", "order", "compose", "reencode", "shrink"} =>
        WellFormed(str) /\ Len(Whole) <= MaxWords

\* Ordering: the mapped text, rearranged only as the canonical order has it.
OrderedSoFar ==
    pc = "order" => /\ Normalizing(options)
                    /\ \E p : Rearranged(Whole, buffer, p)

\* Composing: what is still to be read, and the composition of what was.
ComposedSoFar ==
    LET cs == InCanonicalOrder(Whole)
    IN  pc = "compose" =>
           /\ options = COMPOSE /\ cs \in Seq(Scalar)
           /\ Len(cs) = length /\ rpos <= length
           /\ \A i \in 1 .. length : i > rpos => buffer[i] = cs[i]
           /\ SubSeq(buffer, 1, wpos) = Upto(cs, rpos)
           /\ SubSeq(buffer, 1, wpos) \in Seq(Scalar)
           /\ starter # NONE => CombiningClass(Starter) = 0

\* Encoding: the normal form, and the encoding of its beginning.
EncodedSoFar ==
    /\ pc = "reencode" =>
          /\ Form \in Seq(Scalar) /\ length = Len(Form)
          /\ \A i \in 1 .. length : buffer[i] = Form[i]
          /\ out = Encoding(SubSeq(Form, 1, rpos))
    /\ pc = "shrink" =>
          out = Append(Encoding(Form), 0) /\ rc = Len(Encoding(Form))

Meaning == /\ DecodedSoFar /\ RightToMap /\ OrderedSoFar
           /\ ComposedSoFar /\ EncodedSoFar

\* Where nothing is computed, nothing is to be shown.
LEMMA AtRest == ASSUME pc \in {"idle", "returned"} PROVE Meaning
BY DEF Meaning, DecodedSoFar, RightToMap, OrderedSoFar, ComposedSoFar, EncodedSoFar

LEMMA BackAtRest == ASSUME pc' \in {"idle", "returned"} PROVE Meaning'
BY DEF Meaning, DecodedSoFar, RightToMap, OrderedSoFar, ComposedSoFar, EncodedSoFar

\* Nothing read, nothing written.
LEMMA StartMeaning ==
    ASSUME pc' = "decompose", str' \in Seq(Byte), rpos' = 0, wpos' = 0
    PROVE  Meaning'
<1>1. ReadTo(str', << >>, 0)
  BY ReadStart
<1>2. FullyMapped(options', << >>) = << >> /\ Len(<< >>) = 0 /\ 0 <= MaxWords
  <2>1. Len(<< >>) = 0
    BY EmptySeq
  <2>2. 0 <= MaxWords
    BY SMT, InputAssumption
  <2> QED
    BY <2>1, <2>2, FullEmpty
<1>3. \A i \in 1 .. 0 : FALSE
  BY SMT
<1>4. DecodedSoFar'
  BY <1>1, <1>2, <1>3 DEF DecodedSoFar
<1> QED
  BY <1>4 DEF Meaning, RightToMap, OrderedSoFar, ComposedSoFar, EncodedSoFar

LEMMA CallMeaning == ASSUME IInv, Call PROVE Meaning'
<1>1. /\ pc' = "decompose" /\ str' \in Inputs /\ rpos' = rpos /\ wpos' = wpos
      /\ pc = "idle"
  BY DEF Call
<1>2. rpos = 0 /\ wpos = 0
  BY <1>1 DEF IInv, Memory
<1>3. str' \in Seq(Byte)
  BY <1>1, InputAssumption
<1> QED
  BY <1>1, <1>2, <1>3, StartMeaning

LEMMA AllocateMeaning == ASSUME IInv, Allocate PROVE Meaning'
<1>1. /\ pc' = "decompose" /\ str' = str /\ rpos' = rpos /\ wpos' = wpos
      /\ pc = "allocate"
  BY DEF Allocate
<1>2. rpos = 0 /\ wpos = 0 /\ str \in Seq(Byte)
  BY <1>1 DEF IInv, Memory, TypeOK
<1> QED
  BY <1>1, <1>2, StartMeaning

\* What utf8proc_iterate answers where the decoder stands.
LEMMA Accepts ==
    ASSUME TypeOK, Decoding
    PROVE  Char.dst >= 0 <=> Accepted(str, rpos)
<1>1. str \in Seq(Byte) /\ rpos \in Nat /\ Len(str) \in Nat /\ rpos < Len(str)
  BY LenProperties DEF TypeOK, Decoding
<1>2. Len(str) \in 0 .. Len(str) /\ rpos \in 0 .. Len(str) - 1
  BY SMT, <1>1
<1>3. Char = Iterate(str, rpos, Len(str))
  BY DEF Char
<1>4. CASE Char = Rejected
  <2>1. Char.dst = -1 /\ Char.step = UTF8PROC_ERROR_INVALIDUTF8
    BY <1>4 DEF Rejected, Decoded
  <2>2. ~ (Char.dst >= 0) /\ ~ (Char.step > 0)
    BY SMT, <2>1 DEF UTF8PROC_ERROR_INVALIDUTF8
  <2> QED
    BY <1>3, <2>2 DEF Accepted
<1>5. CASE Char # Rejected
  <2>1. Char.step \in 1 .. 4 /\ Char.dst \in Scalar
    BY <1>1, <1>2, <1>3, <1>5, IterateSound
  <2>2. Char.step > 0 /\ Char.dst >= 0
    BY SMT, <2>1 DEF Scalar, CodePoint
  <2> QED
    BY <1>1, <1>3, <2>2 DEF Accepted
<1> QED
  BY <1>4, <1>5

\* One more character: its mapping comes after those before it.
LEMMA MappedMore ==
    ASSUME NEW opts \in Options, NEW read \in Seq(Scalar), NEW c \in Scalar
    PROVE  FullyMapped(opts, Append(read, c))
              = FullyMapped(opts, read) \o DecomposeChar(opts, c)
<1>1. << c >> \in Seq(Scalar) /\ Append(read, c) = read \o << c >>
  BY ShortSeqs, AppendIsConcat
<1> QED
  BY <1>1, FullConcat, DecomposeCharFull

LEMMA DecomposeMeaning == ASSUME IInv, Meaning, Decompose PROVE Meaning'
<1>0. /\ pc = "decompose" /\ pc' = "decompose" /\ Decoding /\ Char.dst >= 0
      /\ wpos + Len(New) <= MaxWords
      /\ buffer' = Written(buffer, wpos, New) /\ wpos' = wpos + Len(New)
      /\ rpos' = rpos + Char.step /\ options' = options /\ str' = str
  BY DEF Decompose, Decoding
<1>1. TypeOK /\ options \in Options /\ str \in Seq(Byte) /\ wpos \in Nat
      /\ buffer \in Seq(CodePoint \cup {UNSET})
  BY DEF IInv, TypeOK
<1>2. PICK read : /\ ReadTo(str, read, rpos)
                  /\ wpos = Len(FullyMapped(options, read))
                  /\ \A i \in 1 .. wpos :
                        i <= Len(buffer) => buffer[i] = FullyMapped(options, read)[i]
  BY <1>0 DEF Meaning, DecodedSoFar
<1>3. Accepted(str, rpos)
  BY <1>0, <1>1, Accepts
<1>4. PICK c : c = Char.dst
  OBVIOUS
<1>5. c \in Scalar /\ ReadTo(str, Append(read, c), rpos')
  BY <1>0, <1>1, <1>2, <1>3, <1>4, ReadMore DEF Char
<1>6. read \in Seq(Scalar)
  BY <1>2 DEF ReadTo
<1>7. FullyMapped(options, Append(read, c)) = FullyMapped(options, read) \o New
  BY <1>1, <1>4, <1>5, <1>6, MappedMore DEF New
<1>8. PICK m, n : m = FullyMapped(options, read) /\ n = New
  OBVIOUS
<1>9. m \in Seq(Scalar) /\ n \in Seq(Scalar) /\ Len(m) = wpos
  BY <1>1, <1>2, <1>4, <1>5, <1>6, <1>8, FullType, DecomposeCharType DEF New
<1>10. /\ Len(m \o n) = wpos + Len(n) /\ Len(n) \in Nat
       /\ \A i \in 1 .. wpos + Len(n) :
             (m \o n)[i] = IF i <= wpos THEN m[i] ELSE n[i - wpos]
  BY <1>9, ConcatProperties, LenProperties
<1>11. /\ Len(buffer') = Len(buffer) /\ Len(buffer) \in Nat
       /\ \A i \in 1 .. Len(buffer) :
             buffer'[i] = IF wpos < i /\ i <= wpos + Len(n) THEN n[i - wpos]
                          ELSE buffer[i]
  <2> DEFINE S == CodePoint \cup {UNSET}
  <2>1. n \in Seq(S)
    <3>1. Scalar \subseteq S
      BY DEF Scalar
    <3> QED
      BY <1>9, <3>1, SeqMonotonic
  <2>2. buffer \in Seq(S)
    BY <1>1
  <2> HIDE DEF S
  <2>3. /\ Written(buffer, wpos, n) \in Seq(S)
        /\ Len(Written(buffer, wpos, n)) = Len(buffer)
        /\ \A i \in 1 .. Len(buffer) :
              Written(buffer, wpos, n)[i] =
                 IF wpos < i /\ i <= wpos + Len(n) THEN n[i - wpos]
                 ELSE buffer[i]
    BY Zenon, <1>1, <2>1, <2>2, WrittenWords
  <2>4. Len(buffer) \in Nat
    BY <2>2, LenProperties
  <2> QED
    BY <1>0, <1>8, <2>3, <2>4
<1>12. ASSUME NEW i \in 1 .. wpos + Len(n), i <= Len(buffer)
       PROVE  buffer'[i] = (m \o n)[i]
  <2>1. i \in 1 .. Len(buffer)
    BY SMT, <1>1, <1>10, <1>11, <1>12
  <2>2. CASE i <= wpos
    <3>1. i \in 1 .. wpos /\ ~ (wpos < i)
      BY SMT, <1>1, <1>10, <2>2
    <3>2. buffer[i] = m[i]
      BY <1>2, <1>8, <1>12, <3>1
    <3> QED
      BY <1>10, <1>11, <2>1, <2>2, <3>1, <3>2
  <2>3. CASE ~ (i <= wpos)
    <3>1. wpos < i /\ i <= wpos + Len(n)
      BY SMT, <1>1, <1>10, <2>3
    <3> QED
      BY <1>10, <1>11, <2>1, <2>3, <3>1
  <2> QED
    BY <2>2, <2>3
<1>13. DecodedSoFar'
  <2>1. PICK more : more = Append(read, c)
    OBVIOUS
  <2>2. ReadTo(str', more, rpos')
    BY <1>0, <1>5, <2>1
  <2>3. FullyMapped(options', more) = m \o n
    BY <1>0, <1>7, <1>8, <2>1
  <2>4. wpos' = Len(FullyMapped(options', more)) /\ wpos' <= MaxWords
    BY <1>0, <1>8, <1>10, <2>3
  <2>5. \A i \in 1 .. wpos' :
           i <= Len(buffer') => buffer'[i] = FullyMapped(options', more)[i]
    BY <1>0, <1>8, <1>11, <1>12, <2>3
  <2> QED
    BY <2>2, <2>4, <2>5 DEF DecodedSoFar
<1> QED
  BY <1>0, <1>13
     DEF Meaning, RightToMap, OrderedSoFar, ComposedSoFar, EncodedSoFar

LEMMA FormByOptions ==
    /\ options = CASEFOLD => Form = Whole
    /\ options = DECOMPOSE => Form = InCanonicalOrder(Whole)
    /\ options = COMPOSE => Form = Composed(InCanonicalOrder(Whole))
BY DEF Form, Whole, NormalForm, CASEFOLD, DECOMPOSE, COMPOSE

LEMMA EndOfStringMeaning == ASSUME IInv, Meaning, EndOfString PROVE Meaning'
<1>0. /\ pc = "decompose" /\ rpos >= Len(str)
      /\ length' = wpos /\ rpos' = 0 /\ wpos' = 0
      /\ options' = options /\ str' = str /\ buffer' = buffer
      /\ allocated' = allocated /\ out' = out
  BY DEF EndOfString
<1>1. /\ TypeOK /\ options \in Options /\ str \in Seq(Byte) /\ wpos \in Nat
      /\ rpos \in Nat /\ Len(str) \in Nat
      /\ buffer \in Seq(CodePoint \cup {UNSET}) /\ Len(buffer) \in Nat
  BY LenProperties DEF IInv, TypeOK
<1>2. PICK read : /\ ReadTo(str, read, rpos)
                  /\ wpos = Len(FullyMapped(options, read)) /\ wpos <= MaxWords
                  /\ \A i \in 1 .. wpos :
                        i <= Len(buffer) => buffer[i] = FullyMapped(options, read)[i]
  BY <1>0 DEF Meaning, DecodedSoFar
<1>3. ~ Accepted(str, rpos) /\ rpos = Len(str)
  <2>1. rpos \in 0 .. Len(str)
    BY <1>2 DEF ReadTo
  <2>2. rpos = Len(str) /\ ~ (rpos < Len(str))
    BY SMT, <1>0, <1>1, <2>1
  <2> QED
    BY <2>2 DEF Accepted
<1>4. read = Characters(str) /\ WellFormed(str)
  BY <1>1, <1>2, <1>3, ReadAll
<1>5. /\ wpos = Len(Whole) /\ wpos <= MaxWords
      /\ \A i \in 1 .. wpos : i <= Len(buffer) => buffer[i] = Whole[i]
  BY <1>2, <1>4 DEF Whole
<1>6. Whole' = Whole /\ Form' = Form
  BY <1>0 DEF Whole, Form
<1>7. RightToMap'
  BY <1>0, <1>4, <1>5, <1>6 DEF RightToMap
<1>8. Whole \in Seq(Scalar)
  BY <1>1, CharactersScalar, FullType DEF Whole
<1>9. /\ SecondPassFillsBuffer' /\ Memory' /\ Untouched
  BY EndOfStringIInv DEF IInv
<1>10. CASE allocated = 0
  <2>1. pc' = "allocate"
    BY <1>10 DEF EndOfString
  <2> QED
    BY <1>7, <2>1 DEF Meaning, DecodedSoFar, OrderedSoFar, ComposedSoFar, EncodedSoFar
<1>11. CASE allocated # 0
  <2>1. pc' = IF Normalizing(options) /\ Len(buffer) >= wpos
              THEN "order" ELSE AfterDecomposition
    BY <1>11 DEF EndOfString
  <2>2. wpos <= Len(buffer) /\ (pc' \in {"order", "compose"} => wpos = Len(buffer))
    <3>1. pc' \in {"order", "compose", "reencode"}
      BY <2>1 DEF AfterDecomposition
    <3>2. pc' \in {"order", "compose"} => wpos = Len(buffer)
      BY <1>0, <1>9 DEF SecondPassFillsBuffer
    <3>3. pc' = "reencode" => wpos <= Len(buffer)
      BY <1>0, <1>9 DEF Memory
    <3>4. wpos <= wpos
      BY SMT, <1>1
    <3> QED
      BY <3>1, <3>2, <3>3, <3>4
  <2>3. Len(buffer) >= wpos
    BY SMT, <1>1, <2>2
  <2>4. \A i \in 1 .. wpos : buffer[i] = Whole[i]
    <3>1. \A i \in 1 .. wpos : i <= Len(buffer)
      BY SMT, <1>1, <2>2
    <3> QED
      BY <1>5, <3>1
  <2>5. CASE Normalizing(options)
    <3>1. pc' = "order"
      BY <2>1, <2>3, <2>5
    <3>2. buffer = Whole
      <4>1. PICK b, w : b = buffer /\ w = Whole
        OBVIOUS
      <4>2. /\ b \in Seq(CodePoint \cup {UNSET}) /\ Len(b) = Len(w)
            /\ \A i \in 1 .. Len(b) : b[i] = w[i]
        BY <1>1, <1>5, <2>2, <2>4, <3>1, <4>1
      <4>3. w \in Seq(CodePoint \cup {UNSET})
        BY <1>8, <4>1, SeqMonotonic DEF Scalar
      <4>4. b = w
        BY <4>2, <4>3, SeqEqual
      <4> QED
        BY <4>1, <4>4
    <3>3. \E p : Rearranged(Whole, Whole, p)
      BY <1>8, RearrangedStart
    <3>4. OrderedSoFar'
      BY <1>0, <1>6, <2>5, <3>2, <3>3 DEF OrderedSoFar
    <3> QED
      BY <1>7, <3>1, <3>4 DEF Meaning, DecodedSoFar, ComposedSoFar, EncodedSoFar
  <2>6. CASE ~ Normalizing(options)
    <3>1. options = CASEFOLD /\ options # COMPOSE
      BY <1>1, <2>6 DEF Normalizing, Options, COMPOSE
    <3>2. pc' = "reencode"
      BY <2>1, <2>6, <3>1 DEF AfterDecomposition
    <3>3. Form = Whole
      BY <3>1, FormByOptions
    <3>4. out = << >>
      BY <1>0, <1>9 DEF Untouched
    <3>5. SubSeq(Whole, 1, 0) = << >>
      BY <1>8, PrefixEmpty
    <3>6. EncodedSoFar'
      BY <1>0, <1>5, <1>6, <1>8, <2>4, <3>2, <3>3, <3>4, <3>5, EncodingEmpty
         DEF EncodedSoFar
    <3> QED
      BY <1>7, <3>2, <3>6 DEF Meaning, DecodedSoFar, OrderedSoFar, ComposedSoFar
  <2> QED
    BY <2>5, <2>6
<1> QED
  BY <1>10, <1>11

-----------------------------------------------------------------------------
LEMMA WholeType == ASSUME TypeOK PROVE Whole \in Seq(Scalar)
BY CharactersScalar, FullType DEF Whole, TypeOK

\* An exchange, in words counted from 1.
LEMMA ExchangedWords ==
    ASSUME NEW S, NEW b \in Seq(S), NEW i \in Nat, i < Len(b) - 1
    PROVE  LET c == [b EXCEPT ![i + 1] = At(b, i + 1), ![i + 2] = At(b, i)]
           IN  /\ Len(c) = Len(b) /\ c[i + 1] = b[i + 2] /\ c[i + 2] = b[i + 1]
               /\ \A j \in 1 .. Len(b) : j # i + 1 /\ j # i + 2 => c[j] = b[j]
<1>1. PICK c : c = [b EXCEPT ![i + 1] = At(b, i + 1), ![i + 2] = At(b, i)]
  OBVIOUS
<1>2. /\ Len(c) = Len(b)
      /\ \A j \in 0 .. Len(b) - 1 :
            At(c, j) = IF j = i THEN At(b, i + 1)
                       ELSE IF j = i + 1 THEN At(b, i) ELSE At(b, j)
  BY Zenon, <1>1, Exchanged
<1>3. \A j \in 0 .. Len(b) - 1 :
         c[j + 1] = IF j = i THEN b[(i + 1) + 1]
                    ELSE IF j = i + 1 THEN b[i + 1] ELSE b[j + 1]
  BY Zenon, <1>2 DEF At
<1>4. /\ i \in 0 .. Len(b) - 1 /\ i + 1 \in 0 .. Len(b) - 1
      /\ i + 1 # i /\ (i + 1) + 1 = i + 2
  BY SMT, LenProperties
<1>5. c[i + 1] = b[i + 2] /\ c[i + 2] = b[i + 1]
  BY Zenon, <1>3, <1>4
<1>6. ASSUME NEW j \in 1 .. Len(b), j # i + 1, j # i + 2 PROVE c[j] = b[j]
  <2>1. PICK k : k = j - 1
    OBVIOUS
  <2>2. k \in 0 .. Len(b) - 1 /\ k # i /\ k # i + 1 /\ k + 1 = j
    BY SMT, <1>6, <2>1, LenProperties
  <2> QED
    BY Zenon, <1>3, <2>2
<1> QED
  BY <1>1, <1>2, <1>5, <1>6

LEMMA SwapMeaning == ASSUME IInv, Meaning, Swap PROVE Meaning'
<1>0. /\ pc = "order" /\ pc' = "order" /\ rpos < length - 1
      /\ OutOfOrder(At(buffer, rpos), At(buffer, rpos + 1))
      /\ buffer' = [buffer EXCEPT ![rpos + 1] = At(buffer, rpos + 1),
                                  ![rpos + 2] = At(buffer, rpos)]
      /\ UNCHANGED << options, str >>
  BY DEF Swap, Ordering
<1>1. /\ TypeOK /\ rpos \in Nat /\ length = Len(buffer)
      /\ buffer \in Seq(CodePoint \cup {UNSET})
  BY <1>0 DEF IInv, TypeOK, SecondPassFillsBuffer
<1>2. Normalizing(options) /\ \E p : Rearranged(Whole, buffer, p)
  BY <1>0 DEF Meaning, OrderedSoFar
<1>3. PICK b, c, w, k : b = buffer /\ c = buffer' /\ w = Whole /\ k = rpos + 1
  OBVIOUS
<1>4. PICK p : Rearranged(w, b, p)
  BY <1>2, <1>3
<1>5. w \in Seq(Scalar) /\ Len(w) = Len(b)
  BY <1>1, <1>3, <1>4, WholeType DEF Rearranged
<1>6. k \in 1 .. Len(w) /\ k + 1 \in 1 .. Len(w) /\ rpos + 2 = k + 1
      /\ (rpos + 1) + 1 = k + 1
  BY SMT, <1>0, <1>1, <1>3, <1>5
<1>7. /\ Len(c) = Len(b) /\ c[k] = b[k + 1] /\ c[k + 1] = b[k]
      /\ \A j \in 1 .. Len(b) : j # k /\ j # k + 1 => c[j] = b[j]
  <2> DEFINE S == CodePoint \cup {UNSET}
             new == [b EXCEPT ![rpos + 1] = At(b, rpos + 1), ![rpos + 2] = At(b, rpos)]
  <2>1. b \in Seq(S) /\ rpos \in Nat /\ rpos < Len(b) - 1
    BY <1>0, <1>1, <1>3
  <2>2. c = new
    BY <1>0, <1>3
  <2> HIDE DEF S
  <2>3. /\ Len(new) = Len(b) /\ new[rpos + 1] = b[rpos + 2]
        /\ new[rpos + 2] = b[rpos + 1]
        /\ \A j \in 1 .. Len(b) : j # rpos + 1 /\ j # rpos + 2 => new[j] = b[j]
    <3>1. PICK r : r = rpos
      OBVIOUS
    <3>2. r \in Nat /\ r < Len(b) - 1 /\ b \in Seq(S)
      BY <2>1, <3>1
    <3>3. LET c2 == [b EXCEPT ![r + 1] = At(b, r + 1), ![r + 2] = At(b, r)]
          IN  /\ Len(c2) = Len(b) /\ c2[r + 1] = b[r + 2] /\ c2[r + 2] = b[r + 1]
              /\ \A j \in 1 .. Len(b) : j # r + 1 /\ j # r + 2 => c2[j] = b[j]
      BY <3>2, ExchangedWords
    <3> QED
      BY Zenon, <3>1, <3>3
  <2> HIDE DEF new
  <2> QED
    BY <1>3, <1>6, <2>2, <2>3
<1>8. OutOfOrder(b[k], b[k + 1])
  BY <1>0, <1>3, <1>6 DEF At
<1>9. \E q : Rearranged(w, c, q)
  BY Zenon, <1>4, <1>5, <1>6, <1>7, <1>8, RearrangedSwap
<1>10. Whole' = Whole
  BY <1>0 DEF Whole
<1>11. OrderedSoFar' /\ RightToMap'
  BY <1>0, <1>2, <1>3, <1>9, <1>10 DEF OrderedSoFar, RightToMap, Meaning
<1> QED
  BY <1>0, <1>11 DEF Meaning, DecodedSoFar, ComposedSoFar, EncodedSoFar

LEMMA InOrderMeaning == ASSUME Meaning, InOrder PROVE Meaning'
<1>0. /\ pc = "order" /\ pc' = "order" /\ UNCHANGED << options, str, buffer >>
  BY DEF InOrder, Ordering
<1>1. Whole' = Whole
  BY <1>0 DEF Whole
<1>2. OrderedSoFar' /\ RightToMap'
  BY <1>0, <1>1 DEF OrderedSoFar, RightToMap, Meaning
<1> QED
  BY <1>0, <1>2 DEF Meaning, DecodedSoFar, ComposedSoFar, EncodedSoFar

\* A rearrangement with nothing out of order in it is the canonical order.
LEMMA RearrangedIsCanonical ==
    ASSUME NEW w \in Seq(Scalar), NEW b, NEW p, Rearranged(w, b, p),
           \A k \in 1 .. Len(w) :
              k + 1 \in 1 .. Len(w) => ~ OutOfOrder(b[k], b[k + 1])
    PROVE  /\ InCanonicalOrder(w) \in Seq(Scalar)
           /\ Len(InCanonicalOrder(w)) = Len(w)
           /\ \A m \in 1 .. Len(w) : b[m] = InCanonicalOrder(w)[m]
<1>1. \A i, j \in 1 .. Len(w) : i < j => Before(w, p[i], p[j])
  BY Zenon, RearrangedOrdered
<1>2. \A m \in 1 .. Len(w) : InCanonicalOrder(w)[m] = b[m]
  BY Zenon, <1>1, RearrangedCanonical
<1>3. \A m \in 1 .. Len(w) : b[m] \in Scalar
  <2> TAKE m \in 1 .. Len(w)
  <2>1. p[m] \in 1 .. Len(w) /\ b[m] = w[p[m]]
    BY DEF Rearranged
  <2> QED
    BY <2>1, ElementOfSeq
<1>4. PICK o : o = InCanonicalOrder(w)
  OBVIOUS
<1>5. DOMAIN o = 1 .. Len(w)
  BY <1>4 DEF InCanonicalOrder
<1>6. \A m \in 1 .. Len(w) : o[m] \in Scalar
  BY <1>2, <1>3, <1>4
<1>7. o \in [1 .. Len(w) -> Scalar]
  <2>1. o = [m \in 1 .. Len(w) |-> o[m]]
    BY <1>4 DEF InCanonicalOrder
  <2> QED
    BY <1>6, <2>1
<1>8. o \in Seq(Scalar) /\ Len(o) = Len(w)
  BY <1>7, LenProperties
<1> QED
  BY <1>2, <1>4, <1>8

\* No two neighbours are to be exchanged.
NoneToSwap(cs) ==
    \A k \in 1 .. Len(cs) : k + 1 \in 1 .. Len(cs) => ~ OutOfOrder(cs[k], cs[k + 1])

LEMMA RearrangedSame ==
    ASSUME NEW w, NEW b, NEW p, Rearranged(w, b, p), NEW o, Len(o) = Len(w),
           \A m \in 1 .. Len(w) : b[m] = o[m]
    PROVE  Rearranged(w, o, p)
BY DEF Rearranged

\* The canonical order of w is w rearranged, and none is left to swap.
Sorts(w, o) == /\ o = InCanonicalOrder(w) /\ o \in Seq(Scalar)
               /\ \E p : Rearranged(w, o, p)
               /\ NoneToSwap(o)

\* Where the ordering loop ends, the buffer is the canonical order.
LEMMA OrderingOver ==
    ASSUME IInv, Meaning, EndOfOrdering
    PROVE  LET o == InCanonicalOrder(Whole)
           IN  /\ Sorts(Whole, o) /\ Len(o) = length
               /\ \A i \in 1 .. length : buffer[i] = o[i]
<1>0. pc = "order" /\ rpos >= length - 1
  BY DEF EndOfOrdering
<1>1. /\ TypeOK /\ rpos \in Nat /\ length \in Nat /\ length = Len(buffer)
      /\ OrderedBehind
  BY <1>0 DEF IInv, TypeOK, SecondPassFillsBuffer
<1>2. \E p : Rearranged(Whole, buffer, p)
  BY <1>0 DEF Meaning, OrderedSoFar
<1>3. PICK b, w : b = buffer /\ w = Whole
  OBVIOUS
<1>4. PICK p : Rearranged(w, b, p)
  BY <1>2, <1>3
<1>5. w \in Seq(Scalar) /\ Len(w) = length
  BY <1>1, <1>3, <1>4, WholeType DEF Rearranged
<1>6. ASSUME NEW k \in 1 .. Len(w), k + 1 \in 1 .. Len(w)
      PROVE  ~ OutOfOrder(b[k], b[k + 1])
  <2>1. PICK i : i = k - 1
    OBVIOUS
  <2>2. i \in 0 .. rpos - 1 /\ i < length - 1 /\ i + 1 = k /\ (i + 1) + 1 = k + 1
    BY SMT, <1>0, <1>1, <1>5, <1>6, <2>1
  <2>3. ~ OutOfOrder(At(buffer, i), At(buffer, i + 1))
    BY Zenon, <1>0, <1>1, <2>2 DEF OrderedBehind
  <2> QED
    BY Zenon, <1>3, <2>2, <2>3 DEF At
<1>7. PICK o : o = InCanonicalOrder(w)
  OBVIOUS
<1>8. o \in Seq(Scalar) /\ Len(o) = Len(w) /\ \A m \in 1 .. Len(w) : b[m] = o[m]
  BY <1>4, <1>5, <1>6, <1>7, RearrangedIsCanonical
<1>9. Rearranged(w, o, p)
  BY <1>4, <1>8, RearrangedSame
<1>10. NoneToSwap(o)
  BY <1>6, <1>8 DEF NoneToSwap
<1> QED
  BY <1>3, <1>5, <1>7, <1>8, <1>9, <1>10 DEF Sorts

LEMMA EndOfOrderingMeaning ==
    ASSUME IInv, Meaning, EndOfOrdering PROVE Meaning'
<1>0. /\ pc = "order" /\ pc' = AfterDecomposition /\ rpos' = 0 /\ rpos >= length - 1
      /\ UNCHANGED << options, str, wpos, length, buffer, starter, out >>
  BY DEF EndOfOrdering, composition
<1>1. /\ TypeOK /\ rpos \in Nat /\ length \in Nat /\ length = Len(buffer)
      /\ options \in Options /\ wpos = 0 /\ starter = NONE /\ out = << >>
  BY <1>0 DEF IInv, TypeOK, SecondPassFillsBuffer, Memory, Untouched
<1>2. Normalizing(options)
  BY <1>0 DEF Meaning, OrderedSoFar
<1>3. PICK w, cs : w = Whole /\ cs = InCanonicalOrder(w)
  OBVIOUS
<1>4. cs \in Seq(Scalar) /\ Len(cs) = length
      /\ \A i \in 1 .. length : buffer[i] = cs[i]
  BY <1>3, OrderingOver DEF Sorts
<1>5. /\ Whole' = Whole /\ Form' = Form
  BY <1>0 DEF Whole, Form
<1>6. RightToMap /\ RightToMap'
  BY <1>0, <1>5 DEF Meaning, RightToMap, AfterDecomposition
<1>7. CASE options = COMPOSE
  <2>1. pc' = "compose"
    BY <1>0, <1>7 DEF AfterDecomposition
  <2>2. SubSeq(buffer, 1, 0) = << >>
    <3>1. 0 < 1 /\ 1 \in Int /\ 0 \in Int
      BY SMT
    <3> QED
      BY <3>1, SubSeqEmpty
  <2>3. 0 \in 0 .. Len(cs) /\ 0 <= length
    BY SMT, <1>1, <1>4
  <2>4. Upto(cs, 0) = << >> /\ << >> \in Seq(Scalar)
    BY <1>4, <2>3, UptoStep, EmptySeq
  <2>5. ComposedSoFar'
    BY <1>0, <1>1, <1>3, <1>4, <1>5, <1>7, <2>2, <2>3, <2>4 DEF ComposedSoFar
  <2> QED
    BY <1>6, <2>1, <2>5 DEF Meaning, DecodedSoFar, OrderedSoFar, EncodedSoFar
<1>8. CASE options # COMPOSE
  <2>1. pc' = "reencode"
    BY <1>0, <1>8 DEF AfterDecomposition
  <2>2. options = DECOMPOSE
    BY <1>1, <1>2, <1>8 DEF Options, Normalizing, CASEFOLD
  <2>3. Form = cs
    BY <1>3, <2>2, FormByOptions
  <2>4. SubSeq(cs, 1, 0) = << >>
    BY <1>4, PrefixEmpty
  <2>5. EncodedSoFar'
    BY <1>0, <1>1, <1>4, <1>5, <2>1, <2>3, <2>4, EncodingEmpty DEF EncodedSoFar
  <2> QED
    BY <1>6, <2>1, <2>5 DEF Meaning, DecodedSoFar, OrderedSoFar, ComposedSoFar
<1> QED
  BY <1>7, <1>8

-----------------------------------------------------------------------------
(* Composition, and what is composed so far.                               *)

\* The composed words, the character to come, and what the standard makes of
\* them.
LEMMA ComposingMeaning ==
    ASSUME IInv, Meaning, Composing
    PROVE  LET d  == SubSeq(buffer, 1, wpos)
               cs == InCanonicalOrder(Whole)
           IN  /\ options = COMPOSE /\ cs \in Seq(Scalar) /\ Len(cs) = length
               /\ d \in Seq(Scalar) /\ Len(d) = wpos
               /\ \A i \in 1 .. wpos : d[i] = At(buffer, i - 1)
               /\ Current \in Scalar /\ rpos + 1 \in 0 .. length
               /\ Upto(cs, rpos + 1) = AddComposing(d, Current)
<1> DEFINE d  == SubSeq(buffer, 1, wpos)
           cs == InCanonicalOrder(Whole)
<1>1. /\ pc = "compose" /\ rpos \in Nat /\ wpos \in Nat /\ length \in Nat
      /\ wpos <= rpos /\ rpos < length /\ length = Len(buffer)
      /\ buffer \in Seq(CodePoint)
  BY ComposingFacts
<1>2. /\ options = COMPOSE /\ cs \in Seq(Scalar) /\ Len(cs) = length
      /\ \A i \in 1 .. length : i > rpos => buffer[i] = cs[i]
      /\ d = Upto(cs, rpos) /\ d \in Seq(Scalar)
  BY <1>1 DEF Meaning, ComposedSoFar
<1>3. Len(d) = wpos /\ \A i \in 1 .. wpos : d[i] = At(buffer, i - 1)
  <2>1. \A i \in 1 .. wpos : buffer[i] \in CodePoint
    <3>1. \A i \in 1 .. wpos : i \in 1 .. Len(buffer)
      BY SMT, <1>1
    <3> QED
      BY <1>1, <3>1, ElementOfSeq
  <2>2. /\ Len(d) = IF 1 <= wpos THEN wpos - 1 + 1 ELSE 0
        /\ \A i \in 1 .. wpos - 1 + 1 : d[i] = buffer[1 + i - 1]
    <3>1. 1 \in Int /\ wpos \in Int
      BY SMT, <1>1
    <3> QED
      BY <2>1, <3>1, SubSeqProperties
  <2> HIDE DEF d
  <2>3. Len(d) = wpos
    BY SMT, <1>1, <2>2
  <2>4. ASSUME NEW i \in 1 .. wpos PROVE d[i] = At(buffer, i - 1)
    <3>1. i \in 1 .. wpos - 1 + 1 /\ 1 + i - 1 = i /\ i - 1 + 1 = i
      BY SMT, <1>1
    <3> QED
      BY <2>2, <3>1 DEF At
  <2> QED
    BY <2>3, <2>4
<1> HIDE DEF d, cs
<1>4. rpos + 1 \in 1 .. length /\ rpos + 1 > rpos
  BY SMT, <1>1
<1>5. Current = cs[rpos + 1] /\ Current \in Scalar
  BY <1>2, <1>4, ElementOfSeq DEF Current, At
<1>6. Upto(cs, rpos + 1) = AddComposing(d, Current)
  <2>1. PICK n : n = rpos + 1
    OBVIOUS
  <2>2. n \in 0 .. Len(cs) /\ n # 0 /\ n - 1 = rpos
    BY SMT, <1>1, <1>2, <1>4, <2>1
  <2>3. Upto(cs, n) = AddComposing(Upto(cs, n - 1), cs[n])
    BY <1>2, <2>2, UptoStep
  <2> QED
    BY <1>2, <1>5, <2>1, <2>2, <2>3
<1>7. rpos + 1 \in 0 .. length
  BY SMT, <1>4
<1> QED
  BY <1>2, <1>3, <1>5, <1>6, <1>7 DEF d, cs

\* The engine combines where the standard does: with the last starter, when its
\* cached maximum says that nothing blocks it.
LEMMA CombineMeaning ==
    ASSUME IInv, Meaning, Composing
    PROVE  LET d == SubSeq(buffer, 1, wpos)
               combines == MayCombine /\ HasComposite(Starter, Current)
           IN  /\ combines =>
                     /\ starter + 1 \in 1 .. wpos
                     /\ AddComposing(d, Current)
                           = [d EXCEPT ![starter + 1] = Composite(Starter, Current)]
               /\ ~ combines => AddComposing(d, Current) = Append(d, Current)
<1>1. /\ CompositionCachesFresh /\ pc = "compose"
      /\ rpos \in Nat /\ wpos \in Nat
      /\ starter # NONE => starter \in Nat /\ starter < wpos
  BY ComposingFacts
<1>2. PICK d, c : d = SubSeq(buffer, 1, wpos) /\ c = Current
  OBVIOUS
<1>3. /\ d \in Seq(Scalar) /\ Len(d) = wpos /\ Len(d) \in Nat
      /\ \A i \in 1 .. wpos : d[i] = At(buffer, i - 1)
  BY <1>1, <1>2, ComposingMeaning
<1>4. maxClass \in -1 .. 254
  BY DEF IInv, TypeOK
<1>5. CombiningClass(c) \in 0 .. 254
  BY ClassRange
<1>6. ASSUME NEW i \in 1 .. wpos PROVE Class(d, i) = CombiningClass(At(buffer, i - 1))
  BY <1>3 DEF Class
<1>7. CASE starter = NONE
  <2>1. ASSUME NEW i \in 1 .. Len(d) PROVE Class(d, i) # 0
    <3>1. i - 1 \in 0 .. wpos - 1 /\ i \in 1 .. wpos /\ ~ (i - 1 <= starter)
      BY SMT, <1>1, <1>3, <1>7 DEF NONE
    <3>2. CombiningClass(At(buffer, i - 1)) # 0
      BY <1>1, <3>1 DEF CompositionCachesFresh
    <3> QED
      BY <1>6, <3>1, <3>2
  <2>2. AddComposing(d, c) = Append(d, c)
    BY <2>1, AddWithoutStarter
  <2>3. ~ MayCombine
    BY <1>7 DEF MayCombine
  <2> QED
    BY <1>2, <2>2, <2>3
<1>8. CASE starter # NONE
  <2>1. PICK last : last = starter + 1
    OBVIOUS
  <2>2. last \in 1 .. wpos /\ last \in 1 .. Len(d) /\ last - 1 = starter
    BY SMT, <1>1, <1>3, <1>8, <2>1
  <2>3. d[last] = Starter
    BY <1>3, <2>2 DEF Starter
  <2>4. Class(d, last) = 0
    <3>1. CombiningClass(Starter) = 0
      BY <1>1, <1>8 DEF Meaning, ComposedSoFar
    <3> QED
      BY <2>3, <3>1 DEF Class
  <2>5. ASSUME NEW i \in 1 .. Len(d), Class(d, i) = 0 PROVE i <= last
    <3>1. i - 1 \in 0 .. wpos - 1 /\ i \in 1 .. wpos
      BY SMT, <1>1, <1>3
    <3>2. CombiningClass(At(buffer, i - 1)) = 0
      BY <1>6, <2>5, <3>1
    <3>3. i - 1 <= starter
      BY <1>1, <3>1, <3>2 DEF CompositionCachesFresh
    <3> QED
      BY SMT, <1>1, <1>8, <2>1, <3>1, <3>3
  <2> DEFINE free == \A i \in last + 1 .. Len(d) : ~ (Class(d, i) >= CombiningClass(c))
  <2>6. free <=> MayCombine
    <3>1. MayCombine <=> CombiningClass(c) > maxClass
      BY <1>2, <1>8 DEF MayCombine
    <3>2. ASSUME CombiningClass(c) > maxClass, NEW i \in last + 1 .. Len(d)
          PROVE  ~ (Class(d, i) >= CombiningClass(c))
      <4>1. i - 1 \in starter + 1 .. wpos - 1 /\ i \in 1 .. wpos
        BY SMT, <1>1, <1>3, <1>8, <2>1
      <4>2. CombiningClass(At(buffer, i - 1)) <= maxClass
        BY <1>1, <1>8, <4>1 DEF CompositionCachesFresh
      <4>3. PICK x, y : x = Class(d, i) /\ y = CombiningClass(c)
        OBVIOUS
      <4>4. x <= maxClass /\ x \in 0 .. 254 /\ y \in 0 .. 254 /\ y > maxClass
        BY <1>5, <1>6, <3>2, <4>1, <4>2, <4>3, ClassRange DEF Class
      <4>5. ~ (x >= y)
        BY SMT, <1>4, <4>4
      <4> QED
        BY <4>3, <4>5
    <3>3. ASSUME free PROVE CombiningClass(c) > maxClass
      <4>1. CASE maxClass = -1
        BY SMT, <1>5, <4>1
      <4>2. CASE maxClass # -1
        <5>1. PICK j \in starter + 1 .. wpos - 1 :
                      CombiningClass(At(buffer, j)) = maxClass
          BY <1>1, <1>8, <4>2 DEF CompositionCachesFresh
        <5>2. PICK i : i = j + 1
          OBVIOUS
        <5>3. i \in last + 1 .. Len(d) /\ i \in 1 .. wpos /\ i - 1 = j
          BY SMT, <1>1, <1>3, <1>8, <2>1, <5>2
        <5>4. ~ (Class(d, i) >= CombiningClass(c)) /\ Class(d, i) = maxClass
          BY <1>6, <3>3, <5>1, <5>3
        <5>5. PICK y : y = CombiningClass(c)
          OBVIOUS
        <5>6. ~ (maxClass >= y) /\ y \in 0 .. 254
          BY <1>5, <5>4, <5>5
        <5>7. y > maxClass
          BY SMT, <1>4, <5>6
        <5> QED
          BY <5>5, <5>7
      <4> QED
        BY <4>1, <4>2
    <3> QED
      BY <3>1, <3>2, <3>3
  <2>7. /\ free /\ HasComposite(d[last], c) =>
              AddComposing(d, c) = [d EXCEPT ![last] = Composite(d[last], c)]
        /\ ~ (free /\ HasComposite(d[last], c)) =>
              AddComposing(d, c) = Append(d, c)
    BY <1>3, <2>2, <2>4, <2>5, AddToStarter
  <2> HIDE DEF free
  <2> QED
    BY <1>2, <2>1, <2>2, <2>3, <2>6, <2>7
<1> QED
  BY <1>7, <1>8

\* A word of the composed text is replaced.
LEMMA PrefixReplaced ==
    ASSUME NEW b \in Seq(CodePoint), NEW w \in Nat, w <= Len(b),
           SubSeq(b, 1, w) \in Seq(Scalar),
           NEW k \in 1 .. w, NEW x \in Scalar,
           NEW c, c = [b EXCEPT ![k] = x]
    PROVE  /\ SubSeq(c, 1, w) = [SubSeq(b, 1, w) EXCEPT ![k] = x]
           /\ SubSeq(c, 1, w) \in Seq(Scalar)
           /\ c[k] = x
           /\ \A i \in 1 .. Len(b) : i # k => c[i] = b[i]
<1>1. Len(b) \in Nat /\ DOMAIN b = 1 .. Len(b) /\ k \in 1 .. Len(b)
  BY SMT, LenProperties
<1>2. c[k] = x /\ \A i \in 1 .. Len(b) : i # k => c[i] = b[i]
  BY <1>1
<1>3. \A i \in 1 .. w : i \in 1 .. Len(b)
  BY SMT, <1>1
<1>4. PICK d : d = SubSeq(b, 1, w)
  OBVIOUS
<1>5. d \in Seq(Scalar) /\ Len(d) = w /\ \A i \in 1 .. w : d[i] = b[i]
  BY SMT, <1>3, <1>4
<1>6. PICK e : e = [d EXCEPT ![k] = x]
  OBVIOUS
<1>7. /\ e \in Seq(Scalar) /\ Len(e) = w
      /\ \A i \in 1 .. w : e[i] = IF i = k THEN x ELSE d[i]
  BY SMT, <1>5, <1>6
<1>8. \A i \in 1 .. w : c[i] \in Scalar /\ c[i] = e[i]
  <2> TAKE i \in 1 .. w
  <2>1. c[i] = e[i]
    BY <1>2, <1>3, <1>5, <1>7
  <2>2. e[i] \in Scalar
    BY <1>7, ElementOfSeq
  <2> QED
    BY <2>1, <2>2
<1>9. PICK f : f = SubSeq(c, 1, w)
  OBVIOUS
<1>10. f \in Seq(Scalar) /\ Len(f) = w /\ \A i \in 1 .. w : f[i] = c[i]
  BY SMT, <1>8, <1>9
<1>11. f = e
  BY <1>7, <1>8, <1>10, SeqEqual
<1> QED
  BY <1>2, <1>4, <1>6, <1>9, <1>10, <1>11

\* A word is added to it.
LEMMA PrefixAppended ==
    ASSUME NEW b \in Seq(CodePoint), NEW w \in Nat, w < Len(b),
           SubSeq(b, 1, w) \in Seq(Scalar), NEW x \in Scalar,
           NEW c, c = [b EXCEPT ![w + 1] = x]
    PROVE  /\ SubSeq(c, 1, w + 1) = Append(SubSeq(b, 1, w), x)
           /\ SubSeq(c, 1, w + 1) \in Seq(Scalar)
           /\ c[w + 1] = x
           /\ \A i \in 1 .. Len(b) : i # w + 1 => c[i] = b[i]
<1>1. Len(b) \in Nat /\ DOMAIN b = 1 .. Len(b) /\ w + 1 \in 1 .. Len(b)
  BY SMT, LenProperties
<1>2. c[w + 1] = x /\ \A i \in 1 .. Len(b) : i # w + 1 => c[i] = b[i]
  BY <1>1
<1>3. /\ \A i \in 1 .. w : i \in 1 .. Len(b) /\ i # w + 1
      /\ \A i \in 1 .. w + 1 : i \in 1 .. w \/ i = w + 1
  BY SMT, <1>1
<1>4. PICK d : d = SubSeq(b, 1, w)
  OBVIOUS
<1>5. d \in Seq(Scalar) /\ Len(d) = w /\ \A i \in 1 .. w : d[i] = b[i]
  BY SMT, <1>3, <1>4
<1>6. PICK e : e = Append(d, x)
  OBVIOUS
<1>7. /\ e \in Seq(Scalar) /\ Len(e) = w + 1 /\ e[w + 1] = x
      /\ \A i \in 1 .. w : e[i] = d[i]
  BY SMT, <1>5, <1>6
<1>8. \A i \in 1 .. w + 1 : c[i] \in Scalar /\ c[i] = e[i]
  <2> TAKE i \in 1 .. w + 1
  <2>1. c[i] = e[i]
    BY <1>2, <1>3, <1>5, <1>7
  <2>2. e[i] \in Scalar
    BY <1>7, ElementOfSeq
  <2> QED
    BY <2>1, <2>2
<1>9. PICK f : f = SubSeq(c, 1, w + 1)
  OBVIOUS
<1>10. f \in Seq(Scalar) /\ Len(f) = w + 1 /\ \A i \in 1 .. w + 1 : f[i] = c[i]
  BY SMT, <1>8, <1>9
<1>11. f = e
  BY <1>7, <1>8, <1>10, SeqEqual
<1> QED
  BY <1>2, <1>4, <1>6, <1>9, <1>10, <1>11

LEMMA ComposeToMeaning ==
    ASSUME IInv, Meaning, Composing, MayCombine, HasComposite(Starter, Current),
           NEW composite \in Scalar, composite = Composite(Starter, Current),
           CombiningClass(composite) = 0, ComposeTo(composite)
    PROVE  Meaning'
<1>0. /\ pc = "compose" /\ pc' = "compose" /\ rpos' = rpos + 1 /\ starter # NONE
      /\ buffer' = [buffer EXCEPT ![starter + 1] = composite]
      /\ UNCHANGED << options, str, wpos, length, starter >>
  BY ComposingFacts DEF ComposeTo, MayCombine
<1>1. /\ rpos \in Nat /\ wpos \in Nat /\ length \in Nat
      /\ wpos <= rpos /\ rpos < length /\ length = Len(buffer)
      /\ buffer \in Seq(CodePoint) /\ starter \in Nat /\ starter < wpos
  BY <1>0, ComposingFacts
<1>2. PICK cs, d : cs = InCanonicalOrder(Whole) /\ d = SubSeq(buffer, 1, wpos)
  OBVIOUS
<1>3. /\ options = COMPOSE /\ cs \in Seq(Scalar) /\ Len(cs) = length
      /\ d \in Seq(Scalar) /\ rpos + 1 \in 0 .. length
      /\ Upto(cs, rpos + 1) = AddComposing(d, Current)
  BY <1>2, ComposingMeaning
<1>4. /\ starter + 1 \in 1 .. wpos
      /\ AddComposing(d, Current) = [d EXCEPT ![starter + 1] = composite]
  BY <1>2, CombineMeaning
<1>5. wpos <= Len(buffer)
  BY SMT, <1>1
<1>6. PICK b, c, k : b = buffer /\ c = buffer' /\ k = starter + 1
  OBVIOUS
<1>7. /\ SubSeq(c, 1, wpos) = [d EXCEPT ![k] = composite]
      /\ SubSeq(c, 1, wpos) \in Seq(Scalar)
      /\ c[k] = composite
      /\ \A i \in 1 .. Len(b) : i # k => c[i] = b[i]
  <2>1. /\ b \in Seq(CodePoint) /\ wpos \in Nat /\ wpos <= Len(b)
        /\ SubSeq(b, 1, wpos) \in Seq(Scalar) /\ k \in 1 .. wpos
        /\ c = [b EXCEPT ![k] = composite] /\ d = SubSeq(b, 1, wpos)
    BY <1>0, <1>1, <1>2, <1>3, <1>4, <1>5, <1>6
  <2> QED
    BY <2>1, PrefixReplaced
<1>8. ASSUME NEW i \in 1 .. length, i > rpos + 1 PROVE c[i] = cs[i]
  <2>1. i > rpos /\ i # k /\ i \in 1 .. Len(b)
    BY SMT, <1>1, <1>6, <1>8
  <2>2. b[i] = cs[i]
    BY <1>0, <1>2, <1>6, <2>1 DEF Meaning, ComposedSoFar
  <2> QED
    BY <1>7, <2>1, <2>2
<1>9. CombiningClass(Starter') = 0
  BY <1>0, <1>6, <1>7 DEF Starter, At
<1>10. Whole' = Whole
  BY <1>0 DEF Whole
<1>11. rpos + 1 <= length
  BY SMT, <1>1
<1>12. ComposedSoFar'
  <2>1. InCanonicalOrder(Whole') = cs
    BY <1>2, <1>10
  <2>2. /\ Len(cs) = length' /\ rpos' <= length'
        /\ \A i \in 1 .. length' : i > rpos' => buffer'[i] = cs[i]
    BY <1>0, <1>3, <1>6, <1>8, <1>11
  <2>3. SubSeq(buffer', 1, wpos') = Upto(cs, rpos')
        /\ SubSeq(buffer', 1, wpos') \in Seq(Scalar)
    BY <1>0, <1>3, <1>4, <1>6, <1>7
  <2> QED
    BY <1>0, <1>3, <1>9, <2>1, <2>2, <2>3 DEF ComposedSoFar
<1>13. RightToMap'
  BY <1>0, <1>10 DEF Meaning, RightToMap
<1> QED
  BY <1>0, <1>12, <1>13 DEF Meaning, DecodedSoFar, OrderedSoFar, EncodedSoFar

\* The starter and the current character as numbers.
LEMMA StarterAndCurrent ==
    ASSUME IInv, Composing, MayCombine
    PROVE  /\ Starter \in Nat /\ Current \in Nat /\ StarterProperty = Starter
           /\ VowelFollows <=> VowelAfter(Starter, Current)
           /\ TrailFollows <=> TrailAfter(Starter, Current)
           /\ InTable <=> Listed(Starter, Current)
<1>1. Starter \in CodePoint /\ Current \in CodePoint /\ CompositionCachesFresh
      /\ pc = "compose"
  BY ComposingFacts DEF MayCombine
<1>2. Starter \in Nat /\ Current \in Nat
  BY SMT, <1>1 DEF CodePoint
<1>3. StarterProperty = Starter
  BY <1>1 DEF CompositionCachesFresh, StarterProperty
<1> QED
  BY <1>2, <1>3 DEF VowelFollows, VowelAfter, TrailFollows, TrailAfter, InTable, Listed

LEMMA ComposeVowelMeaning == ASSUME IInv, Meaning, ComposeVowel PROVE Meaning'
<1>1. Composing /\ MayCombine /\ VowelFollows
  BY DEF ComposeVowel
<1>2. PICK s, c : s = Starter /\ c = Current
  OBVIOUS
<1>3. s \in Nat /\ c \in Nat /\ VowelAfter(s, c)
  BY <1>1, <1>2, StarterAndCurrent
<1>4. HasComposite(s, c)
  BY <1>3, CompositeFound
<1>5. PICK x : x = Composite(s, c)
  OBVIOUS
<1>6. /\ x = SBASE + ((s - LBASE) * VCOUNT + (c - VBASE)) * TCOUNT
      /\ x \in Scalar /\ CombiningClass(x) = 0
  BY <1>3, <1>5, CompositeVowel
<1>7. ComposeTo(x)
  BY <1>2, <1>6 DEF ComposeVowel
<1> QED
  BY <1>1, <1>2, <1>4, <1>5, <1>6, <1>7, ComposeToMeaning

LEMMA ComposeTrailMeaning == ASSUME IInv, Meaning, ComposeTrail PROVE Meaning'
<1>1. Composing /\ MayCombine /\ TrailFollows
  BY DEF ComposeTrail
<1>2. PICK s, c : s = Starter /\ c = Current
  OBVIOUS
<1>3. s \in Nat /\ c \in Nat /\ TrailAfter(s, c)
  BY <1>1, <1>2, StarterAndCurrent
<1>4. HasComposite(s, c)
  BY <1>3, CompositeFound
<1>5. PICK x : x = Composite(s, c)
  OBVIOUS
<1>6. x = s + (c - TBASE) /\ x \in Scalar /\ CombiningClass(x) = 0
  BY <1>3, <1>5, CompositeTrail
<1>7. ComposeTo(x)
  BY <1>2, <1>6 DEF ComposeTrail
<1> QED
  BY <1>1, <1>2, <1>4, <1>5, <1>6, <1>7, ComposeToMeaning

LEMMA ComposePairMeaning == ASSUME IInv, Meaning, ComposePair PROVE Meaning'
<1>1. Composing /\ MayCombine /\ InTable
  BY DEF ComposePair
<1>2. PICK s, c : s = Starter /\ c = Current
  OBVIOUS
<1>3. s \in Nat /\ c \in Nat /\ Listed(s, c) /\ StarterProperty = s
  BY <1>1, <1>2, StarterAndCurrent
<1>4. HasComposite(s, c)
  BY <1>3, CompositeFound
<1>5. PICK x : x = Composite(s, c)
  OBVIOUS
<1>6. x = CombinationTable[<< s, c >>] /\ x \in Scalar /\ CombiningClass(x) = 0
  BY <1>3, <1>5, CompositeListed
<1>7. ComposeTo(x)
  BY <1>2, <1>3, <1>6 DEF ComposePair
<1> QED
  BY <1>1, <1>2, <1>4, <1>5, <1>6, <1>7, ComposeToMeaning

LEMMA KeepMeaning == ASSUME IInv, Meaning, Keep PROVE Meaning'
<1>0. /\ Composing /\ pc' = pc /\ rpos' = rpos + 1 /\ wpos' = wpos + 1
      /\ buffer' = [buffer EXCEPT ![wpos + 1] = Current]
      /\ UNCHANGED << options, str, length >>
      /\ MayCombine => ~ (VowelFollows \/ TrailFollows \/ InTable)
      /\ IF CombiningClass(Current) > 0 THEN starter' = starter ELSE starter' = wpos
  BY DEF Keep
<1>1. /\ pc = "compose" /\ rpos \in Nat /\ wpos \in Nat /\ length \in Nat
      /\ wpos <= rpos /\ rpos < length /\ length = Len(buffer)
      /\ buffer \in Seq(CodePoint)
      /\ starter # NONE => starter \in Nat /\ starter < wpos
  BY <1>0, ComposingFacts
<1>2. PICK cs, d : cs = InCanonicalOrder(Whole) /\ d = SubSeq(buffer, 1, wpos)
  OBVIOUS
<1>3. /\ options = COMPOSE /\ cs \in Seq(Scalar) /\ Len(cs) = length
      /\ d \in Seq(Scalar) /\ Current \in Scalar /\ rpos + 1 \in 0 .. length
      /\ Upto(cs, rpos + 1) = AddComposing(d, Current)
  BY <1>0, <1>2, ComposingMeaning
<1>4. ~ (MayCombine /\ HasComposite(Starter, Current))
  <2> SUFFICES ASSUME MayCombine PROVE ~ HasComposite(Starter, Current)
    OBVIOUS
  <2>1. /\ Starter \in Nat /\ Current \in Nat
        /\ ~ VowelAfter(Starter, Current) /\ ~ TrailAfter(Starter, Current)
        /\ ~ Listed(Starter, Current)
    BY <1>0, StarterAndCurrent
  <2> QED
    BY <2>1, CompositeFound
<1>5. AddComposing(d, Current) = Append(d, Current)
  BY <1>0, <1>2, <1>4, CombineMeaning
<1>6. wpos < Len(buffer) /\ wpos + 1 <= rpos + 1 /\ rpos + 1 <= length
  BY SMT, <1>1
<1>7. PICK b, c : b = buffer /\ c = buffer'
  OBVIOUS
<1>8. /\ SubSeq(c, 1, wpos + 1) = Append(d, Current)
      /\ SubSeq(c, 1, wpos + 1) \in Seq(Scalar)
      /\ c[wpos + 1] = Current
      /\ \A i \in 1 .. Len(b) : i # wpos + 1 => c[i] = b[i]
  <2>1. PICK x, w : x = Current /\ w = wpos
    OBVIOUS
  <2>2. /\ b \in Seq(CodePoint) /\ w \in Nat /\ w < Len(b)
        /\ SubSeq(b, 1, w) \in Seq(Scalar) /\ x \in Scalar
        /\ c = [b EXCEPT ![w + 1] = x] /\ d = SubSeq(b, 1, w)
    BY <1>0, <1>1, <1>2, <1>3, <1>6, <1>7, <2>1
  <2>3. /\ SubSeq(c, 1, w + 1) = Append(d, x)
        /\ SubSeq(c, 1, w + 1) \in Seq(Scalar)
        /\ c[w + 1] = x
        /\ \A i \in 1 .. Len(b) : i # w + 1 => c[i] = b[i]
    BY <2>2, PrefixAppended
  <2> QED
    BY <2>1, <2>3
<1>9. ASSUME NEW i \in 1 .. length, i > rpos + 1 PROVE c[i] = cs[i]
  <2>1. i > rpos /\ i # wpos + 1 /\ i \in 1 .. Len(b)
    BY SMT, <1>1, <1>7, <1>9
  <2>2. b[i] = cs[i]
    BY <1>1, <1>2, <1>7, <2>1 DEF Meaning, ComposedSoFar
  <2> QED
    BY <1>8, <2>1, <2>2
<1>10. starter' # NONE => CombiningClass(Starter') = 0
  <2>1. CASE CombiningClass(Current) > 0
    <3>1. starter' = starter
      BY <1>0, <2>1
    <3>2. ASSUME starter # NONE PROVE CombiningClass(Starter') = 0
      <4>1. starter + 1 \in 1 .. Len(b) /\ starter + 1 # wpos + 1
        BY SMT, <1>1, <1>7, <3>2
      <4>2. Starter' = Starter
        BY <1>7, <1>8, <3>1, <4>1 DEF Starter, At
      <4> QED
        BY <1>1, <3>2, <4>2 DEF Meaning, ComposedSoFar
    <3> QED
      BY <3>1, <3>2
  <2>2. CASE ~ (CombiningClass(Current) > 0)
    <3>1. starter' = wpos
      BY <1>0, <2>2
    <3>2. Starter' = Current
      BY <1>7, <1>8, <3>1 DEF Starter, At
    <3>3. CombiningClass(Current) = 0
      <4>1. PICK x : x = CombiningClass(Current)
        OBVIOUS
      <4>2. x \in 0 .. 254 /\ ~ (x > 0)
        BY <2>2, <4>1, ClassRange
      <4>3. x = 0
        BY SMT, <4>2
      <4> QED
        BY <4>1, <4>3
    <3> QED
      BY <3>2, <3>3
  <2> QED
    BY <2>1, <2>2
<1>11. Whole' = Whole
  BY <1>0 DEF Whole
<1>12. ComposedSoFar'
  <2>1. InCanonicalOrder(Whole') = cs
    BY <1>2, <1>11
  <2>2. /\ Len(cs) = length' /\ rpos' <= length'
        /\ \A i \in 1 .. length' : i > rpos' => buffer'[i] = cs[i]
    BY <1>0, <1>3, <1>6, <1>7, <1>9
  <2>3. SubSeq(buffer', 1, wpos') = Upto(cs, rpos')
        /\ SubSeq(buffer', 1, wpos') \in Seq(Scalar)
    BY <1>0, <1>3, <1>5, <1>7, <1>8
  <2> QED
    BY <1>0, <1>3, <1>10, <2>1, <2>2, <2>3 DEF ComposedSoFar
<1>13. RightToMap'
  BY <1>0, <1>1, <1>11 DEF Meaning, RightToMap
<1> QED
  BY <1>0, <1>1, <1>12, <1>13 DEF Meaning, DecodedSoFar, OrderedSoFar, EncodedSoFar

LEMMA EndOfCompositionMeaning ==
    ASSUME IInv, Meaning, EndOfComposition PROVE Meaning'
<1>0. /\ pc = "compose" /\ pc' = "reencode" /\ rpos >= length /\ rpos' = 0
      /\ length' = wpos /\ UNCHANGED << options, str, buffer, out >>
  BY DEF EndOfComposition
<1>1. /\ rpos \in Nat /\ wpos \in Nat /\ length \in Nat /\ out = << >>
      /\ wpos <= rpos /\ length = Len(buffer)
  BY <1>0 DEF IInv, TypeOK, Untouched, CompositionCachesFresh, SecondPassFillsBuffer
<1>2. PICK cs, d : cs = InCanonicalOrder(Whole) /\ d = SubSeq(buffer, 1, wpos)
  OBVIOUS
<1>3. /\ options = COMPOSE /\ cs \in Seq(Scalar) /\ Len(cs) = length
      /\ rpos <= length /\ d = Upto(cs, rpos) /\ d \in Seq(Scalar)
  BY <1>0, <1>2 DEF Meaning, ComposedSoFar
<1>4. rpos = Len(cs) /\ wpos <= Len(buffer)
  BY SMT, <1>0, <1>1, <1>3
<1>5. Form = d
  BY <1>2, <1>3, <1>4, FormByOptions, ComposedUpto
<1>6. Len(d) = wpos /\ \A i \in 1 .. wpos : buffer[i] = d[i]
  <2>1. PICK b : b = buffer
    OBVIOUS
  <2>2. b \in Seq(CodePoint \cup {UNSET}) /\ wpos <= Len(b) /\ d = SubSeq(b, 1, wpos)
    BY <1>2, <1>4, <2>1 DEF IInv, TypeOK
  <2> DEFINE S == CodePoint \cup {UNSET}
  <2> HIDE DEF S
  <2>3. b \in Seq(S)
    BY <2>2 DEF S
  <2>4. Len(d) = wpos /\ \A i \in 1 .. wpos : d[i] = b[i]
    BY SMT, <1>1, <2>2, <2>3
  <2> QED
    BY <2>1, <2>4
<1>7. Whole' = Whole /\ Form' = Form
  BY <1>0 DEF Whole, Form
<1>8. SubSeq(d, 1, 0) = << >>
  BY <1>3, PrefixEmpty
<1>9. EncodedSoFar'
  BY <1>0, <1>1, <1>3, <1>5, <1>6, <1>7, <1>8, EncodingEmpty DEF EncodedSoFar
<1>10. RightToMap'
  BY <1>0, <1>7 DEF Meaning, RightToMap
<1> QED
  BY <1>0, <1>9, <1>10 DEF Meaning, DecodedSoFar, OrderedSoFar, ComposedSoFar

-----------------------------------------------------------------------------
(* Encoding.                                                               *)

LEMMA ReencodeMeaning == ASSUME IInv, Meaning, Reencode PROVE Meaning'
<1>0. /\ pc = "reencode" /\ pc' = "reencode" /\ rpos < length /\ rpos' = rpos + 1
      /\ out' = out \o EncodeChar(Word(rpos))
      /\ UNCHANGED << options, str, length, buffer >>
  BY DEF Reencode
<1>1. rpos \in Nat /\ length \in Nat /\ Len(out) <= 4 * rpos
  BY <1>0 DEF IInv, TypeOK, TextBehindReader
<1>2. PICK f, k : f = Form /\ k = rpos + 1
  OBVIOUS
<1>3. /\ f \in Seq(Scalar) /\ length = Len(f)
      /\ \A i \in 1 .. length : buffer[i] = f[i]
      /\ out = Encoding(SubSeq(f, 1, rpos))
  BY <1>0, <1>2 DEF Meaning, EncodedSoFar
<1>4. k \in 1 .. length /\ k \in 1 .. Len(f) /\ k - 1 = rpos
  BY SMT, <1>0, <1>1, <1>2, <1>3
<1>5. Word(rpos) = f[k]
  BY <1>1, <1>2, <1>3, <1>4 DEF Word, At
<1>6. out' = Encoding(SubSeq(f, 1, k))
  <2>1. PICK e, x : e = SubSeq(f, 1, rpos) /\ x = f[k]
    OBVIOUS
  <2>2. e \in Seq(Scalar) /\ x \in Scalar /\ SubSeq(f, 1, k) = Append(e, x)
    BY <1>3, <1>4, <2>1, PrefixText
  <2>3. Encoding(Append(e, x)) = Encoding(e) \o EncodeChar(x)
    BY <2>2, EncodingAppend
  <2> QED
    BY <1>0, <1>3, <1>5, <2>1, <2>2, <2>3
<1>7. Whole' = Whole /\ Form' = Form
  BY <1>0 DEF Whole, Form
<1>8. EncodedSoFar'
  BY <1>0, <1>2, <1>3, <1>6, <1>7 DEF EncodedSoFar
<1>9. RightToMap'
  BY <1>0, <1>7 DEF Meaning, RightToMap
<1> QED
  BY <1>0, <1>8, <1>9 DEF Meaning, DecodedSoFar, OrderedSoFar, ComposedSoFar

LEMMA TerminateMeaning == ASSUME IInv, Meaning, Terminate PROVE Meaning'
<1>0. /\ pc = "reencode" /\ pc' = "shrink" /\ rpos >= length
      /\ out' = Append(out, 0) /\ rc' = Len(out)
      /\ UNCHANGED << options, str >>
  BY DEF Terminate
<1>1. rpos \in Nat /\ length \in Nat /\ rpos <= length
  BY <1>0 DEF IInv, TypeOK, Memory
<1>2. rpos = length
  BY SMT, <1>0, <1>1
<1>3. /\ Form \in Seq(Scalar) /\ length = Len(Form)
      /\ out = Encoding(SubSeq(Form, 1, rpos))
  BY <1>0 DEF Meaning, EncodedSoFar
<1>4. out = Encoding(Form)
  BY <1>2, <1>3, PrefixEmpty
<1>5. Whole' = Whole /\ Form' = Form
  BY <1>0 DEF Whole, Form
<1>6. EncodedSoFar'
  BY <1>0, <1>4, <1>5 DEF EncodedSoFar
<1>7. RightToMap'
  BY <1>0, <1>5 DEF Meaning, RightToMap
<1> QED
  BY <1>0, <1>6, <1>7 DEF Meaning, DecodedSoFar, OrderedSoFar, ComposedSoFar

LEMMA NextMeaning == ASSUME IInv, Meaning, [Next]_vars PROVE Meaning'
<1>1. CASE Malformed \/ TooLong \/ NoMemory \/ Shrink \/ Free
  <2>1. pc' \in {"idle", "returned"}
    BY <1>1 DEF Malformed, TooLong, NoMemory, Fail, Shrink, Free
  <2> QED
    BY <2>1, BackAtRest
<1>2. CASE UNCHANGED vars
  <2>1. UNCHANGED << pc, options, str, rpos, wpos, length, buffer, starter, out, rc >>
    BY <1>2 DEF vars
  <2>2. Whole' = Whole /\ Form' = Form /\ Starter' = Starter
    BY <2>1 DEF Whole, Form, Starter
  <2>3. DecodedSoFar' /\ RightToMap' /\ OrderedSoFar'
    BY <2>1, <2>2 DEF Meaning, DecodedSoFar, RightToMap, OrderedSoFar
  <2>4. ComposedSoFar' /\ EncodedSoFar'
    BY <2>1, <2>2 DEF Meaning, ComposedSoFar, EncodedSoFar
  <2> QED
    BY <2>3, <2>4 DEF Meaning
<1> QED
  BY <1>1, <1>2, CallMeaning, DecomposeMeaning, EndOfStringMeaning,
     AllocateMeaning, SwapMeaning, InOrderMeaning, EndOfOrderingMeaning,
     ComposeVowelMeaning, ComposeTrailMeaning, ComposePairMeaning, KeepMeaning,
     EndOfCompositionMeaning, ReencodeMeaning, TerminateMeaning
     DEF Next, Run

-----------------------------------------------------------------------------
(* utf8proc_map implements what it promises.                               *)

\* The answer a state would give, were the engine to return in it.
Given(code, text) == [text |-> IF code < 0 THEN << >> ELSE text, rc |-> code]
Asked == [options |-> options, str |-> str]

\* A return with the right answer is the answer promised.
LEMMA AnswerGiven ==
    ASSUME pc \notin {"idle", "returned"}, pc' = "returned",
           UNCHANGED << options, str >>, RightForm(Asked, Given(rc', out'))
    PROVE  Promise!Next
BY DEF Asked, Given, Promise!Next, Promise!Answer

LEMMA RightByCases ==
    ASSUME NEW answer
    PROVE  /\ RightToMap /\ pc \in {"allocate", "shrink"}
                 /\ answer \in {[text |-> Append(Encoding(Form), 0),
                                 rc |-> Len(Encoding(Form))],
                                Error(UTF8PROC_ERROR_NOMEM)}
              => RightForm(Asked, answer)
           /\ ~ WellFormed(str) /\ Len(Whole) <= MaxWords
                 /\ answer = Error(UTF8PROC_ERROR_INVALIDUTF8)
              => RightForm(Asked, answer)
           /\ Len(Whole) > MaxWords /\ answer = Error(UTF8PROC_ERROR_OVERFLOW)
              => RightForm(Asked, answer)
BY DEF RightForm, RightAnswer, Asked, Whole, Form, RightToMap

LEMMA ErrorGiven ==
    ASSUME NEW code \in Int, code < 0, NEW text
    PROVE  Given(code, text) = Error(code)
BY DEF Given, Error

LEMMA MalformedAnswer ==
    ASSUME IInv, Meaning, Malformed PROVE Promise!Next
<1>0. /\ pc = "decompose" /\ pc' = "returned" /\ Decoding /\ Char.dst < 0
      /\ rc' = UTF8PROC_ERROR_INVALIDUTF8 /\ UNCHANGED << options, str >>
  BY DEF Malformed, Decoding, Fail
<1>1. TypeOK /\ str \in Seq(Byte) /\ rpos \in Nat
  BY DEF IInv, TypeOK
<1>2. PICK read : /\ ReadTo(str, read, rpos)
                  /\ wpos = Len(FullyMapped(options, read)) /\ wpos <= MaxWords
  BY <1>0 DEF Meaning, DecodedSoFar
<1>3. ~ Accepted(str, rpos)
  <2>1. ~ (Char.dst >= 0)
    <3>1. CASE Char = Rejected
      <4>1. Char.dst = -1
        BY <3>1 DEF Rejected, Decoded
      <4> QED
        BY SMT, <4>1
    <3>2. CASE Char # Rejected
      <4>1. Len(str) \in Nat /\ rpos < Len(str)
        BY <1>0, <1>1, LenProperties DEF Decoding
      <4>2. Len(str) \in 0 .. Len(str) /\ rpos \in 0 .. Len(str) - 1
        BY SMT, <1>1, <4>1
      <4>3. Char.dst \in Scalar
        BY <1>1, <3>2, <4>2, IterateSound DEF Char
      <4> QED
        BY SMT, <1>0, <4>3 DEF Scalar, CodePoint
    <3> QED
      BY <3>1, <3>2
  <2> QED
    BY <1>0, <1>1, <2>1, Accepts
<1>4. read = Characters(str) /\ (WellFormed(str) <=> rpos = Len(str))
  BY <1>1, <1>2, <1>3, ReadAll
<1>5. rpos # Len(str)
  BY SMT, <1>0, <1>1 DEF Decoding
<1>6. ~ WellFormed(str) /\ Len(Whole) <= MaxWords
  BY <1>2, <1>4, <1>5 DEF Whole
<1>7. Given(rc', out') = Error(UTF8PROC_ERROR_INVALIDUTF8)
  BY <1>0, ErrorGiven DEF UTF8PROC_ERROR_INVALIDUTF8
<1> QED
  BY <1>0, <1>6, <1>7, RightByCases, AnswerGiven

LEMMA TooLongAnswer ==
    ASSUME IInv, Meaning, TooLong PROVE Promise!Next
<1>0. /\ pc = "decompose" /\ pc' = "returned" /\ Decoding /\ Char.dst >= 0
      /\ wpos + Len(New) > MaxWords
      /\ rc' = UTF8PROC_ERROR_OVERFLOW /\ UNCHANGED << options, str >>
  BY DEF TooLong, Decoding, Fail
<1>1. TypeOK /\ options \in Options /\ str \in Seq(Byte) /\ wpos \in Nat
  BY DEF IInv, TypeOK
<1>2. PICK read : /\ ReadTo(str, read, rpos)
                  /\ wpos = Len(FullyMapped(options, read))
  BY <1>0 DEF Meaning, DecodedSoFar
<1>3. Accepted(str, rpos)
  BY <1>0, <1>1, Accepts
<1>4. PICK c, next : c = Char.dst /\ next = rpos + Char.step
  OBVIOUS
<1>5. c \in Scalar /\ ReadTo(str, Append(read, c), next)
  BY <1>1, <1>2, <1>3, <1>4, ReadMore DEF Char
<1>6. PICK rest : rest = Rest(str, next)
  OBVIOUS
<1>7. /\ read \in Seq(Scalar) /\ Append(read, c) \in Seq(Scalar)
      /\ rest \in Seq(Scalar) /\ Characters(str) = Append(read, c) \o rest
  BY <1>1, <1>2, <1>5, <1>6, RestType DEF ReadTo
<1>8. PICK m, n, r : /\ m = FullyMapped(options, read) /\ n = New
                     /\ r = FullyMapped(options, rest)
  OBVIOUS
<1>9. m \in Seq(Scalar) /\ n \in Seq(Scalar) /\ r \in Seq(Scalar)
  BY <1>1, <1>4, <1>5, <1>7, <1>8, FullType, DecomposeCharType DEF New
<1>10. FullyMapped(options, Append(read, c)) = m \o n
  BY <1>1, <1>4, <1>5, <1>7, <1>8, MappedMore DEF New
<1>11. Whole = (m \o n) \o r
  BY <1>1, <1>7, <1>8, <1>10, FullConcat DEF Whole
<1>12. Len(Whole) = (Len(m) + Len(n)) + Len(r)
       /\ Len(m) \in Nat /\ Len(n) \in Nat /\ Len(r) \in Nat
  BY <1>9, <1>11, ConcatProperties, LenProperties
<1>13. Len(Whole) > MaxWords
  <2>1. Len(m) + Len(n) > MaxWords
    BY <1>0, <1>2, <1>8
  <2> QED
    BY SMT, <1>12, <2>1, InputAssumption
<1>14. Given(rc', out') = Error(UTF8PROC_ERROR_OVERFLOW)
  BY <1>0, ErrorGiven DEF UTF8PROC_ERROR_OVERFLOW
<1> QED
  BY <1>0, <1>13, <1>14, RightByCases, AnswerGiven

LEMMA NoMemoryAnswer == ASSUME Meaning, NoMemory PROVE Promise!Next
<1>0. /\ pc = "allocate" /\ pc' = "returned"
      /\ rc' = UTF8PROC_ERROR_NOMEM /\ UNCHANGED << options, str >>
  BY DEF NoMemory, Fail
<1>1. Given(rc', out') = Error(UTF8PROC_ERROR_NOMEM)
  BY <1>0, ErrorGiven DEF UTF8PROC_ERROR_NOMEM
<1>2. RightForm(Asked, Given(rc', out'))
  BY <1>0, <1>1, RightByCases DEF Meaning
<1> QED
  BY <1>0, <1>2, AnswerGiven

LEMMA ShrinkAnswer == ASSUME IInv, Meaning, Shrink PROVE Promise!Next
<1>0. /\ pc = "shrink" /\ pc' = "returned"
      /\ rc' = rc /\ out' = out /\ UNCHANGED << options, str >>
  BY DEF Shrink
<1>1. out = Append(Encoding(Form), 0) /\ rc = Len(Encoding(Form))
  BY <1>0 DEF Meaning, EncodedSoFar
<1>2. ~ (rc < 0)
  <2>1. rc \in Int /\ rc + 1 = Len(out) /\ out \in Seq(Byte)
    BY <1>0 DEF IInv, Memory, TypeOK
  <2>2. Len(out) \in Nat /\ out # << >>
    BY <1>1, <2>1, LenProperties
  <2>3. Len(out) # 0
    BY <2>1, <2>2, EmptySeq
  <2> QED
    BY SMT, <2>1, <2>2, <2>3
<1>3. Given(rc', out') = [text |-> Append(Encoding(Form), 0),
                          rc |-> Len(Encoding(Form))]
  BY <1>0, <1>1, <1>2 DEF Given
<1>4. RightForm(Asked, Given(rc', out'))
  BY <1>0, <1>3, RightByCases DEF Meaning
<1> QED
  BY <1>0, <1>4, AnswerGiven

\* A step inside the call is one its caller cannot see.
LEMMA StepInside ==
    ASSUME pc \notin {"idle", "returned"}, pc' \notin {"idle", "returned"},
           UNCHANGED << options, str >>
    PROVE  UNCHANGED Promise!promised
BY DEF Promise!promised

LEMMA NextPromised ==
    ASSUME IInv, Meaning, [Next]_vars
    PROVE  [Promise!Next]_(Promise!promised)
<1>1. CASE Call
  <2>1. /\ pc = "idle" /\ pc' = "decompose" /\ options' \in Options
        /\ str' \in Seq(Byte)
    BY <1>1, InputAssumption DEF Call
  <2>2. Promise!Ask
    BY <2>1 DEF Promise!Ask, Requests
  <2> QED
    BY <2>2 DEF Promise!Next
<1>2. CASE Free
  BY <1>2 DEF Free, Promise!Next, Promise!Take
<1>3. CASE Malformed \/ TooLong \/ NoMemory \/ Shrink
  BY <1>3, MalformedAnswer, TooLongAnswer, NoMemoryAnswer, ShrinkAnswer
<1>4. CASE \/ Decompose \/ EndOfString \/ Allocate \/ Swap \/ InOrder
           \/ EndOfOrdering \/ ComposeVowel \/ ComposeTrail \/ ComposePair
           \/ Keep \/ EndOfComposition \/ Reencode \/ Terminate
  <2>1. /\ pc \notin {"idle", "returned"} /\ pc' \notin {"idle", "returned"}
        /\ UNCHANGED << options, str >>
    BY <1>4
       DEF Decompose, Decoding, EndOfString, AfterDecomposition, Allocate, Swap,
           Ordering, InOrder, EndOfOrdering, Composing, ComposeVowel,
           ComposeTrail, ComposePair, ComposeTo, Keep, EndOfComposition,
           Reencode, Terminate
  <2> QED
    BY <2>1, StepInside
<1>5. CASE UNCHANGED vars
  BY <1>5 DEF vars, Promise!promised
<1> QED
  BY <1>1, <1>2, <1>3, <1>4, <1>5 DEF Next, Run

\* What the variables mean holds of every state of the engine.
THEOREM EngineMeaning == Spec => []Meaning
<1>1. Init => Meaning
  BY AtRest DEF Init
<1>2. IInv /\ Meaning /\ [Next]_vars => Meaning'
  BY NextMeaning
<1> QED
  BY <1>1, <1>2, EngineInvariant, PTL DEF Spec

\* Every answer utf8proc_map gives is the one the standard and its error codes
\* call for: the engine implements MappingPromise.
THEOREM AnswersRightly == Spec => Promise!Answers
<1>1. Init => Promise!Init
  BY DEF Init, Promise!Init, NoAnswer
<1>2. IInv /\ Meaning /\ [Next]_vars => [Promise!Next]_(Promise!promised)
  BY NextPromised
<1> QED
  BY <1>1, <1>2, EngineInvariant, EngineMeaning, PTL DEF Spec, Promise!Answers

\* What is left of the run's property: if the calls of utf8proc_map return at all,
\* they keep the whole promise.
THEOREM PromisedIfAnswered == Spec /\ Promise!Answered => Promised
BY AnswersRightly DEF Promised, Promise!Spec

-----------------------------------------------------------------------------
(* Normal forms are stable: what a call returned is its own normal form.   *)
(* Composed text decomposes again into the canonical order it was composed *)
(* from, whatever was composed, kept, or left behind a composition.        *)

\* After the full mapping nothing is mapped further.
LEMMA FullOneSettled ==
    ASSUME NEW opts \in Options, NEW c \in Scalar
    PROVE  FullyMapped(opts, << c >>) \in Seq(Settled(opts))
<1> << c >> \in Seq(Scalar)
  BY ShortSeqs
<1>1. CASE Normalizing(opts) /\ IsHangulSyllable(c)
  <2>1. PICK l, v \in Settled(opts) :
           \/ Mapping(opts, c) = << l, v >>
           \/ \E t \in Settled(opts), lv \in Scalar :
                 Mapping(opts, c) = << lv, t >> /\ Mapping(opts, lv) = << l, v >>
    <3>1. c \in CodePoint
      BY DEF Scalar
    <3> QED
      BY <1>1, <3>1, HangulParts
  <2>2. Settled(opts) \subseteq Scalar
    BY LowerScalar DEF Settled
  <2>3. Mapped(opts, << c >>) = Mapping(opts, c)
    BY MappedOne
  <2>4. CASE Mapping(opts, c) = << l, v >>
    <3>1. << l, v >> \in Seq(Settled(opts))
      BY ShortSeqs
    <3> QED
      BY <2>3, <2>4, <3>1, MappedSame DEF FullyMapped
  <2>5. CASE \E t \in Settled(opts), lv \in Scalar :
                Mapping(opts, c) = << lv, t >> /\ Mapping(opts, lv) = << l, v >>
    <3>1. PICK t \in Settled(opts), lv \in Scalar :
             Mapping(opts, c) = << lv, t >> /\ Mapping(opts, lv) = << l, v >>
      BY <2>5
    <3>2. << lv >> \in Seq(Scalar) /\ << t >> \in Seq(Settled(opts))
          /\ << t >> \in Seq(Scalar) /\ << l, v >> \in Seq(Settled(opts))
      BY <2>2, ShortSeqs
    <3>3. << lv, t >> = << lv >> \o << t >>
      OBVIOUS
    <3>4. Mapped(opts, << lv, t >>) = << l, v >> \o << t >>
      <4>1. PICK x, y : x = << lv >> /\ y = << t >>
        OBVIOUS
      <4>2. Mapped(opts, x \o y) = Mapped(opts, x) \o Mapped(opts, y)
        BY <3>2, <4>1, MappedConcat
      <4>3. Mapped(opts, x) = << l, v >>
        BY <3>1, <4>1, MappedOne
      <4>4. Mapped(opts, y) = y
        BY <3>2, <4>1, MappedSame
      <4> QED
        BY <3>3, <4>1, <4>2, <4>3, <4>4
    <3>5. << l, v >> \o << t >> \in Seq(Settled(opts))
      BY <3>2, ConcatProperties
    <3> QED
      BY <2>3, <3>1, <3>4, <3>5, MappedSame DEF FullyMapped
  <2> QED
    BY <2>1, <2>4, <2>5
<1>2. CASE ~ (Normalizing(opts) /\ IsHangulSyllable(c))
  <2>1. c \in Lower(opts, Deep(opts, 0))
    BY <1>2, PlainOrHangul
  <2>2. << c >> \in Seq(Lower(opts, Deep(opts, 0)))
    BY <2>1, ShortSeqs
  <2>3. PICK e1, e2 : e1 = Mapped(opts, << c >>) /\ e2 = Mapped(opts, e1)
    OBVIOUS
  <2>4. e1 \in Seq(Lower(opts, Deep(opts, 1)))
    BY <2>2, <2>3, MappedDown, DeepStep
  <2>5. e2 \in Seq(Lower(opts, Deep(opts, 2)))
    BY <2>3, <2>4, MappedDown, DeepStep
  <2>6. Mapped(opts, e2) \in Seq(Lower(opts, Deep(opts, 3)))
    BY <2>5, MappedDown, DeepStep
  <2> QED
    BY <2>3, <2>6 DEF FullyMapped, Settled
<1> QED
  BY <1>1, <1>2

\* So is every text.
LEMMA FullSettled ==
    ASSUME NEW opts \in Options, NEW cs \in Seq(Scalar)
    PROVE  FullyMapped(opts, cs) \in Seq(Settled(opts))
<1>1. Sends(FullOf(opts), Scalar, Settled(opts))
  BY FullOneSettled DEF Sends, FullOf
<1>2. Spread(FullOf(opts), cs) \in Seq(Settled(opts))
  BY <1>1, SpreadType
<1> QED
  BY <1>2, FullSpread

LEMMA PairOfOnes ==
    ASSUME NEW S, NEW a \in S, NEW b \in S
    PROVE  << a, b >> = << a >> \o << b >>
<1>1. PICK x, y : x = << a, b >> /\ y = << a >>
  OBVIOUS
<1>2. /\ x \in Seq(S) /\ Len(x) = 2 /\ x[1] = a /\ x[2] = b
      /\ y \in Seq(S) /\ Len(y) = 1 /\ y[1] = a
  BY SMT, <1>1
<1>3. PICK z : z = Append(y, b)
  OBVIOUS
<1>4. z \in Seq(S) /\ Len(z) = 2 /\ z[1] = a /\ z[2] = b
  BY SMT, <1>2, <1>3
<1>5. \A i \in 1 .. Len(x) : x[i] = z[i]
  BY SMT, <1>2, <1>4
<1>6. x = z
  BY <1>2, <1>4, <1>5, SeqEqual
<1>7. z = y \o << b >>
  BY <1>2, <1>3, AppendIsConcat
<1> QED
  BY <1>1, <1>6, <1>7

\* A composite decomposes to the decomposition of its first part, and its second.
LEMMA CompositeApart ==
    ASSUME NEW a \in Scalar, NEW c \in Settled(COMPOSE), HasComposite(a, c)
    PROVE  /\ Composite(a, c) \in Scalar /\ CombiningClass(Composite(a, c)) = 0
           /\ FullyMapped(COMPOSE, << Composite(a, c) >>)
                 = FullyMapped(COMPOSE, << a >>) \o << c >>
<1> COMPOSE \in Options /\ Normalizing(COMPOSE)
  BY DEF Options, Normalizing
<1>1. c \in Scalar /\ a \in Nat /\ c \in Nat
  <2>1. c \in Scalar
    BY LowerScalar DEF Settled
  <2> QED
    BY SMT, <2>1 DEF Scalar, CodePoint
<1>2. /\ << a >> \in Seq(Scalar) /\ << c >> \in Seq(Scalar)
      /\ << c >> \in Seq(Settled(COMPOSE)) /\ << a, c >> = << a >> \o << c >>
  <2> QED
    BY <1>1, PairOfOnes, ShortSeqs
<1>3. FullyMapped(COMPOSE, << c >>) = << c >> /\ Mapped(COMPOSE, << c >>) = << c >>
  BY <1>2, FullOfSettled, MappedSame
<1>4. PICK d : d = Composite(a, c)
  OBVIOUS
<1>5. CASE Listed(a, c)
  <2>1. PICK pair : pair = << a, c >>
    OBVIOUS
  <2>2. d = CombinationTable[pair] /\ d \in Scalar /\ CombiningClass(d) = 0
    BY <1>4, <1>5, <2>1, CompositeListed
  <2>3. d \in DOMAIN Entry(COMPOSE) /\ Entry(COMPOSE)[d] = pair
    <3>1. pair \in DOMAIN CombinationTable
      BY <1>5, <2>1 DEF Listed
    <3>2. d \in DOMAIN DecompTable /\ DecompTable[d] = pair
      BY <2>2, <3>1, CompositionAssumption
    <3> QED
      BY <3>2 DEF Entry
  <2>4. FullyMapped(COMPOSE, << d >>) = FullyMapped(COMPOSE, pair)
    BY <2>2, <2>3, FullOfEntry
  <2>5. FullyMapped(COMPOSE, pair) = FullyMapped(COMPOSE, << a >>) \o << c >>
    BY <1>2, <1>3, <2>1, FullConcat
  <2> QED
    BY <1>4, <2>2, <2>4, <2>5
<1>6. CASE VowelAfter(a, c)
  <2>1. d \in Scalar /\ CombiningClass(d) = 0
    BY <1>1, <1>4, <1>6, CompositeVowel
  <2>2. a \in Settled(COMPOSE)
    BY <1>1, <1>6, JamoSettled DEF VowelAfter, IsJamo
  <2>3. Mapping(COMPOSE, d) = << a, c >>
    <3>1. a \in 4352 .. 4370 /\ c \in 4449 .. 4469
      BY <1>1, <1>6, JamoNumbers DEF VowelAfter
    <3>2. PICK x, y : x = a - 4352 /\ y = c - 4449
      OBVIOUS
    <3>3. x \in 0 .. 18 /\ y \in 0 .. 20 /\ a = 4352 + x /\ c = 4449 + y
      BY SMT, <1>1, <3>1, <3>2
    <3>4. d = 44032 + 588 * x + 28 * y
      <4>1. d = SBASE + ((a - LBASE) * VCOUNT + (c - VBASE)) * TCOUNT
        BY <1>1, <1>4, <1>6, CompositeVowel
      <4>2. d = 44032 + ((a - 4352) * 21 + (c - 4449)) * 28
        BY <1>1, <4>1, JamoNumbers
      <4> QED
        BY SMT, <3>3, <4>2
    <3>5. d \in CodePoint /\ d \in Int /\ 44032 <= d /\ d <= 55203
      BY SMT, <2>1, <3>3, <3>4 DEF Scalar
    <3>6. IsHangulSyllable(d)
      BY <3>5, SyllableScalar
    <3>7. PICK s : s = d - 44032
      OBVIOUS
    <3>8. s % 28 = 0 /\ s \div 588 = x /\ (s % 588) \div 28 = y
      <4>1. s = 588 * x + 28 * y
        BY SMT, <3>3, <3>4, <3>7
      <4>2. s % 588 = 28 * y /\ s \div 588 = x
        BY SMT, <3>3, <4>1
      <4>3. s % 28 = 0
        BY SMT, <3>3, <4>1
      <4>4. (28 * y) \div 28 = y
        BY SMT, <3>3
      <4> QED
        BY <4>2, <4>3, <4>4
    <3>9. HangulMapping(d) = << 4352 + x, 4449 + y >>
      BY <3>5, <3>6, <3>7, <3>8, HangulMapped
    <3> QED
      BY <3>3, <3>6, <3>9 DEF Mapping
  <2>4. FullyMapped(COMPOSE, << d >>) = << a, c >> /\ FullyMapped(COMPOSE, << a >>) = << a >>
    <3>1. << a, c >> \in Seq(Settled(COMPOSE)) /\ << a >> \in Seq(Settled(COMPOSE))
      BY <2>2, ShortSeqs
    <3>2. Mapped(COMPOSE, << d >>) = << a, c >>
      BY <2>1, <2>3, MappedOne
    <3> QED
      BY <3>1, <3>2, MappedSame, FullOfSettled DEF FullyMapped
  <2> QED
    BY <1>2, <1>4, <2>1, <2>4
<1>7. CASE TrailAfter(a, c)
  <2>1. d \in Scalar /\ CombiningClass(d) = 0
    BY <1>1, <1>4, <1>7, CompositeTrail
  <2>2. /\ Mapping(COMPOSE, d) = << a, c >>
        /\ \E l, v \in Settled(COMPOSE) : Mapping(COMPOSE, a) = << l, v >>
    <3>1. /\ IsHangulSyllable(a) /\ (a - 44032) % 28 = 0 /\ c \in 4520 .. 4546
          /\ d = a + (c - 4519)
      <4>1. d = a + (c - TBASE)
        BY <1>1, <1>4, <1>7, CompositeTrail
      <4> QED
        BY <1>1, <1>7, <4>1, JamoNumbers DEF TrailAfter
    <3>2. a \in CodePoint
      BY DEF Scalar
    <3>3. PICK s, t : s = a - 44032 /\ t = c - 4519
      OBVIOUS
    <3>4. s \in Nat /\ s < 11172 /\ s % 28 = 0
      BY <3>1, <3>2, <3>3, HangulMapped
    <3>5. t \in 1 .. 27 /\ c = 4519 + t /\ d = a + t /\ a = 44032 + s
      BY SMT, <1>1, <3>1, <3>3
    <3>6. PICK q : q = s \div 28
      OBVIOUS
    <3>7. q \in 0 .. 398 /\ s = 28 * q
      BY SMT, <3>4, <3>6
    <3>8. PICK r : r = d - 44032
      OBVIOUS
    <3>9. r % 28 = t /\ t # 0 /\ d - t = a
      BY SMT, <3>5, <3>7, <3>8
    <3>10. d \in CodePoint /\ d \in Int /\ 44032 <= d /\ d <= 55203
      BY SMT, <2>1, <3>5, <3>7 DEF Scalar
    <3>11. IsHangulSyllable(d)
      BY <3>10, SyllableScalar
    <3>12. HangulMapping(d) = << d - t, 4519 + t >>
      BY <3>8, <3>9, <3>10, <3>11, HangulMapped
    <3>13. Mapping(COMPOSE, d) = << a, c >>
      BY <3>5, <3>9, <3>11, <3>12 DEF Mapping
    <3>14. PICK l, v : l = 4352 + s \div 588 /\ v = 4449 + (s % 588) \div 28
      OBVIOUS
    <3>15. HangulMapping(a) = << l, v >>
      BY <3>1, <3>2, <3>3, <3>4, <3>14, HangulMapped
    <3>16. l \in 4352 .. 4370 /\ v \in 4449 .. 4469 /\ l \in Nat /\ v \in Nat
      <4>1. s \div 588 \in 0 .. 18
        BY SMT, <3>4
      <4>2. PICK y : y = s % 588
        OBVIOUS
      <4>3. y \in 0 .. 587
        BY SMT, <3>4, <4>2
      <4>4. y \div 28 \in 0 .. 20
        BY SMT, <4>3
      <4> QED
        BY SMT, <3>14, <4>1, <4>2, <4>4
    <3>17. l \in Settled(COMPOSE) /\ v \in Settled(COMPOSE)
      BY <3>16, JamoNumbers, JamoSettled DEF IsJamo
    <3> QED
      BY <3>1, <3>13, <3>15, <3>17 DEF Mapping
  <2>3. PICK l, v \in Settled(COMPOSE) : Mapping(COMPOSE, a) = << l, v >>
    BY <2>2
  <2>4. /\ << l, v >> \in Seq(Settled(COMPOSE)) /\ Mapped(COMPOSE, << a >>) = << l, v >>
        /\ Mapped(COMPOSE, << d >>) = << a, c >>
    BY <2>1, <2>2, <2>3, ShortSeqs, MappedOne
  <2>5. Mapped(COMPOSE, << a, c >>) = << l, v >> \o << c >>
    BY <1>2, <1>3, <2>4, MappedConcat
  <2>6. << l, v >> \o << c >> \in Seq(Settled(COMPOSE))
    BY <1>2, <2>4, ConcatProperties
  <2>7. FullyMapped(COMPOSE, << d >>) = << l, v >> \o << c >>
    BY <2>4, <2>5, <2>6, MappedSame DEF FullyMapped
  <2>8. FullyMapped(COMPOSE, << a >>) = << l, v >>
    BY <2>4, MappedSame DEF FullyMapped
  <2> QED
    BY <1>4, <2>1, <2>7, <2>8
<1> QED
  BY <1>1, <1>5, <1>6, <1>7, CompositeFound

-----------------------------------------------------------------------------
LEMMA AboveAClass ==
    ASSUME NEW cs, NEW k, NEW c, Class(cs, k) > 0, Class(cs, k) < CombiningClass(c)
    PROVE  CombiningClass(c) > 0
<1>1. PICK x, y \in 0 .. 254 : x = CombiningClass(cs[k]) /\ y = CombiningClass(c)
  BY ClassRange
<1> QED
  BY SMT, <1>1 DEF Class

\* One element between two sequences.
LEMMA AroundAt ==
    ASSUME NEW S, NEW p \in Seq(S), NEW e \in S, NEW r \in Seq(S),
           NEW x, x = (p \o << e >>) \o r
    PROVE  /\ x \in Seq(S) /\ Len(x) = (Len(p) + 1) + Len(r)
           /\ \A i \in 1 .. (Len(p) + 1) + Len(r) :
                 x[i] = IF i <= Len(p) THEN p[i]
                        ELSE IF i = Len(p) + 1 THEN e ELSE r[i - (Len(p) + 1)]
<1>1. PICK y : y = p \o << e >>
  OBVIOUS
<1>2. PICK m, k \in Nat : m = Len(p) /\ k = Len(r)
  OBVIOUS
<1>3. /\ y \in Seq(S) /\ Len(y) = m + 1
      /\ \A i \in 1 .. m + 1 : y[i] = IF i <= m THEN p[i] ELSE e
  BY SMT, <1>1, <1>2
<1>4. /\ x \in Seq(S) /\ Len(x) = (m + 1) + k
      /\ \A i \in 1 .. (m + 1) + k :
            x[i] = IF i <= m + 1 THEN y[i] ELSE r[i - (m + 1)]
  <2>1. x = y \o r
    BY <1>1
  <2>2. /\ x \in Seq(S) /\ Len(x) = Len(y) + Len(r)
        /\ \A i \in 1 .. Len(y) + Len(r) :
              x[i] = IF i <= Len(y) THEN y[i] ELSE r[i - Len(y)]
    <3>1. y \in Seq(S)
      BY <1>3
    <3>2. /\ y \o r \in Seq(S) /\ Len(y \o r) = Len(y) + Len(r)
          /\ \A i \in 1 .. Len(y) + Len(r) :
                (y \o r)[i] = IF i <= Len(y) THEN y[i] ELSE r[i - Len(y)]
      BY <3>1, ConcatProperties
    <3> QED
      BY <2>1, <3>2
  <2> QED
    BY <1>2, <1>3, <2>2
<1>5. \A i \in 1 .. (m + 1) + k :
         x[i] = IF i <= m THEN p[i] ELSE IF i = m + 1 THEN e ELSE r[i - (m + 1)]
  BY SMT, <1>2, <1>3, <1>4
<1> QED
  BY <1>2, <1>4, <1>5

\* A character is inserted in front of marks of lower classes: it is where the
\* canonical order has it, although it came last.
LEMMA RearrangedInsert ==
    ASSUME NEW S, NEW u \in Seq(S), NEW q \in Seq(S), NEW c \in S,
           NEW b \in Seq(S), NEW p, Rearranged(u \o q, b, p),
           \A i \in 1 .. Len(q) : Class(q, i) > 0 /\ Class(q, i) < CombiningClass(c)
    PROVE  \E r : Rearranged((u \o << c >>) \o q, Append(b, c), r)
<1>1. PICK old, new, d : /\ old = u \o q /\ new = (u \o << c >>) \o q
                         /\ d = Append(b, c)
  OBVIOUS
<1>2. PICK m, n : m = Len(u) /\ n = Len(old)
  OBVIOUS
<1>3. /\ m \in Nat /\ n \in Nat /\ Len(q) = n - m /\ m <= n
      /\ Len(new) = n + 1 /\ Len(b) = n /\ Len(d) = n + 1
      /\ \A i \in 1 .. n : old[i] = IF i <= m THEN u[i] ELSE q[i - m]
      /\ \A i \in 1 .. n + 1 : new[i] = IF i <= m THEN u[i]
                                       ELSE IF i = m + 1 THEN c ELSE q[i - (m + 1)]
      /\ \A i \in 1 .. n + 1 : d[i] = IF i <= n THEN b[i] ELSE c
  <2>1. Len(b) = n
    BY <1>1, <1>2 DEF Rearranged
  <2>2. /\ m \in Nat /\ Len(q) \in Nat /\ n = m + Len(q)
        /\ \A i \in 1 .. n : old[i] = IF i <= m THEN u[i] ELSE q[i - m]
    BY SMT, <1>1, <1>2
  <2>3. /\ Len(new) = (m + 1) + Len(q)
        /\ \A i \in 1 .. (m + 1) + Len(q) :
              new[i] = IF i <= m THEN u[i]
                       ELSE IF i = m + 1 THEN c ELSE q[i - (m + 1)]
    BY <1>1, <1>2, AroundAt
  <2>4. /\ Len(d) = n + 1
        /\ \A i \in 1 .. n + 1 : d[i] = IF i <= n THEN b[i] ELSE c
    BY SMT, <1>1, <2>1, <2>2
  <2> QED
    BY SMT, <2>1, <2>2, <2>3, <2>4
<1> DEFINE shift(a) == IF a <= m THEN a ELSE a + 1
           r == [k \in 1 .. n + 1 |-> IF k <= n THEN shift(p[k]) ELSE m + 1]
<1>4. /\ p \in [1 .. n -> 1 .. n]
      /\ \A i, j \in 1 .. n : p[i] = p[j] => i = j
      /\ \A i \in 1 .. n : \E k \in 1 .. n : p[k] = i
      /\ \A k \in 1 .. n : b[k] = old[p[k]]
      /\ \A i, j \in 1 .. n : i < j => p[i] < p[j] \/ Before(old, p[i], p[j])
  BY <1>1, <1>2 DEF Rearranged
<1>5. ASSUME NEW a \in 1 .. n
      PROVE  /\ shift(a) \in 1 .. n + 1 /\ shift(a) # m + 1 /\ new[shift(a)] = old[a]
             /\ Class(new, shift(a)) = Class(old, a)
  <2>1. shift(a) \in 1 .. n + 1 /\ shift(a) # m + 1
    BY SMT, <1>3
  <2>2. CASE a <= m
    <3>1. shift(a) = a /\ new[a] = u[a] /\ old[a] = u[a]
      BY SMT, <1>3, <2>2
    <3> QED
      BY <2>1, <3>1 DEF Class
  <2>3. CASE ~ (a <= m)
    <3>1. /\ shift(a) = a + 1 /\ a + 1 \in 1 .. n + 1 /\ ~ (a + 1 <= m)
          /\ a + 1 # m + 1 /\ (a + 1) - (m + 1) = a - m
      BY SMT, <1>3, <2>3
    <3>2. new[a + 1] = q[a - m] /\ old[a] = q[a - m]
      BY <1>3, <2>3, <3>1
    <3> QED
      BY <2>1, <3>1, <3>2 DEF Class
  <2> QED
    BY <2>2, <2>3
<1>6. ASSUME NEW a \in 1 .. n, a > m
      PROVE  Class(old, a) > 0 /\ Class(old, a) < CombiningClass(c)
  <2>1. a - m \in 1 .. Len(q) /\ ~ (a <= m)
    BY SMT, <1>3, <1>6
  <2>2. old[a] = q[a - m]
    BY <1>3, <2>1
  <2> QED
    BY <2>1, <2>2 DEF Class
<1>7. new[m + 1] = c /\ Class(new, m + 1) = CombiningClass(c) /\ m + 1 \in 1 .. n + 1
  <2>1. m + 1 \in 1 .. n + 1 /\ ~ (m + 1 <= m)
    BY SMT, <1>3
  <2> QED
    BY <1>3, <2>1 DEF Class
<1>8. ASSUME NEW a \in 1 .. n, NEW e \in 1 .. n, a < e
      PROVE  shift(a) < shift(e)
  BY SMT, <1>3, <1>8
\* Between two shifted places stand those that stood between, and c.
<1>9. ASSUME NEW k \in 1 .. n + 1, k # m + 1
      PROVE  \E a \in 1 .. n : shift(a) = k /\ a = IF k <= m THEN k ELSE k - 1
  <2>1. PICK a : a = IF k <= m THEN k ELSE k - 1
    OBVIOUS
  <2>2. a \in 1 .. n /\ shift(a) = k
    BY SMT, <1>3, <1>9, <2>1
  <2> QED
    BY <2>1, <2>2
\* What was exchanged may still be.
<1>10. ASSUME NEW a \in 1 .. n, NEW e \in 1 .. n, e < a, Before(old, a, e)
       PROVE  Before(new, shift(a), shift(e))
  <2>1. Marks(old, e, a) /\ Class(old, a) < Class(old, e)
    <3>1. a \in Nat /\ e \in Nat
      BY SMT, <1>3
    <3> QED
      BY <1>10, <3>1, BeforeCases
  <2>2. shift(e) < shift(a) /\ shift(e) \in Nat /\ shift(a) \in Nat
    BY SMT, <1>3, <1>10
  <2>3. Class(new, shift(a)) < Class(new, shift(e))
    BY <1>5, <2>1
  <2>4. ASSUME NEW k \in shift(e) .. shift(a) PROVE Class(new, k) > 0
    <3>1. CASE k = m + 1
      <4>1. m < a
        BY SMT, <1>3, <2>2, <2>4, <3>1
      <4>2. Class(old, a) > 0 /\ Class(old, a) < CombiningClass(c)
        BY <1>6, <4>1
      <4>4. CombiningClass(c) > 0
        BY <4>2, AboveAClass
      <4> QED
        BY <1>7, <3>1, <4>4
    <3>2. CASE k # m + 1
      <4>1. k \in 1 .. n + 1
        BY SMT, <1>3, <2>2, <2>4
      <4>2. PICK o \in 1 .. n : shift(o) = k /\ o = IF k <= m THEN k ELSE k - 1
        BY <1>9, <3>2, <4>1
      <4>3. o \in e .. a
        BY SMT, <1>3, <2>2, <2>4, <3>2, <4>1, <4>2
      <4>4. Class(old, o) > 0
        BY <2>1, <4>3 DEF Marks
      <4> QED
        BY <1>5, <4>2, <4>4
    <3> QED
      BY <3>1, <3>2
  <2>5. Marks(new, shift(e), shift(a))
    BY <2>4 DEF Marks
  <2> HIDE DEF shift
  <2> QED
    BY <2>2, <2>3, <2>5, BeforeCases
<1>11. ASSUME NEW a \in 1 .. n, a > m
       PROVE  Before(new, shift(a), m + 1)
  <2>1. shift(a) = a + 1 /\ m + 1 < a + 1 /\ m + 1 \in Nat /\ a + 1 \in Nat
    BY SMT, <1>3, <1>11
  <2>2. Class(new, a + 1) < Class(new, m + 1)
    BY <1>5, <1>6, <1>7, <1>11, <2>1
  <2>3. ASSUME NEW k \in m + 1 .. a + 1 PROVE Class(new, k) > 0
    <3>1. CASE k = m + 1
      <4>1. Class(old, a) > 0 /\ Class(old, a) < CombiningClass(c)
        BY <1>6, <1>11
      <4>3. CombiningClass(c) > 0
        BY <4>1, AboveAClass
      <4> QED
        BY <1>7, <3>1, <4>3
    <3>2. CASE k # m + 1
      <4>1. k \in 1 .. n + 1
        BY SMT, <1>3, <2>3
      <4>2. PICK o \in 1 .. n : shift(o) = k /\ o = IF k <= m THEN k ELSE k - 1
        BY <1>9, <3>2, <4>1
      <4>3. o > m
        BY SMT, <1>3, <2>3, <3>2, <4>2
      <4> QED
        BY <1>5, <1>6, <4>2, <4>3
    <3> QED
      BY <3>1, <3>2
  <2>4. Marks(new, m + 1, a + 1)
    BY <2>3 DEF Marks
  <2> QED
    BY <2>1, <2>2, <2>4, BeforeCases
<1>12. Rearranged(new, d, r)
  <2>1. /\ \A k \in 1 .. n : k \in 1 .. n + 1 /\ k <= n
        /\ \A k \in 1 .. n + 1 : k \in 1 .. n \/ k = n + 1
        /\ n + 1 \in 1 .. n + 1 /\ ~ (n + 1 <= n)
    BY SMT, <1>3
  <2>2. /\ \A k \in 1 .. n : r[k] = shift(p[k]) /\ p[k] \in 1 .. n
        /\ r[n + 1] = m + 1 /\ DOMAIN r = 1 .. n + 1
    BY <1>4, <2>1
  <2>3. r \in [1 .. n + 1 -> 1 .. n + 1]
    <3>1. \A k \in 1 .. n + 1 : r[k] \in 1 .. n + 1
      BY <1>5, <1>7, <2>1, <2>2
    <3> QED
      BY <3>1
  <2> HIDE DEF r
  <2>4. ASSUME NEW i \in 1 .. n + 1, NEW j \in 1 .. n + 1, r[i] = r[j] PROVE i = j
    <3>1. CASE i \in 1 .. n /\ j \in 1 .. n
      <4>1. PICK x, y : x = p[i] /\ y = p[j]
        OBVIOUS
      <4>2. x \in 1 .. n /\ y \in 1 .. n /\ shift(x) = shift(y)
        BY <2>2, <2>4, <3>1, <4>1
      <4>3. x = y
        BY SMT, <1>3, <4>2
      <4> QED
        BY <1>4, <3>1, <4>1, <4>3
    <3>2. CASE i = n + 1 /\ j \in 1 .. n
      BY <1>5, <2>2, <2>4, <3>2
    <3>3. CASE i \in 1 .. n /\ j = n + 1
      BY <1>5, <2>2, <2>4, <3>3
    <3> QED
      BY <2>1, <3>1, <3>2, <3>3
  <2>5. ASSUME NEW i \in 1 .. n + 1 PROVE \E k \in 1 .. n + 1 : r[k] = i
    <3>1. CASE i = m + 1
      BY <2>1, <2>2, <3>1
    <3>2. CASE i # m + 1
      <4>1. PICK o \in 1 .. n : shift(o) = i
        BY <1>9, <3>2
      <4>2. PICK k \in 1 .. n : p[k] = o
        BY <1>4
      <4> QED
        BY <2>1, <2>2, <4>1, <4>2
    <3> QED
      BY <3>1, <3>2
  <2>6. ASSUME NEW k \in 1 .. n + 1 PROVE d[k] = new[r[k]]
    <3>1. CASE k \in 1 .. n
      <4>1. d[k] = b[k] /\ b[k] = old[p[k]]
        BY <1>3, <1>4, <2>1, <3>1
      <4> QED
        BY <1>5, <2>2, <3>1, <4>1
    <3>2. CASE k = n + 1
      BY <1>3, <1>7, <2>1, <2>2, <3>2
    <3> QED
      BY <2>1, <3>1, <3>2
  <2>7. ASSUME NEW i \in 1 .. n + 1, NEW j \in 1 .. n + 1, i < j
        PROVE  r[i] < r[j] \/ Before(new, r[i], r[j])
    <3>1. i \in 1 .. n
      BY SMT, <1>3, <2>7
    <3>2. PICK x : x = p[i]
      OBVIOUS
    <3>3. x \in 1 .. n /\ r[i] = shift(x)
      BY <2>2, <3>1, <3>2
    <3>4. CASE j \in 1 .. n
      <4>1. PICK y : y = p[j]
        OBVIOUS
      <4>2. y \in 1 .. n /\ r[j] = shift(y) /\ (x < y \/ Before(old, x, y))
        BY <1>4, <2>2, <2>7, <3>1, <3>2, <3>4, <4>1
      <4>3. x < y \/ y < x \/ x = y
        BY SMT, <1>3, <3>3, <4>2
      <4>4. x # y
        <5>1. i # j
          BY SMT, <1>3, <2>7
        <5> QED
          BY <1>4, <3>1, <3>2, <3>4, <4>1, <5>1
      <4>5. CASE x < y
        BY <1>8, <3>3, <4>2, <4>5
      <4>6. CASE y < x
        <5>1. ~ (x < y)
          BY SMT, <1>3, <3>3, <4>2, <4>6
        <5> QED
          BY <1>10, <3>3, <4>2, <4>6, <5>1
      <4> QED
        BY <4>3, <4>4, <4>5, <4>6
    <3>5. CASE j = n + 1
      <4>1. CASE x <= m
        <5>1. shift(x) < m + 1
          BY SMT, <1>3, <3>3, <4>1
        <5> QED
          BY <2>2, <3>3, <3>5, <5>1
      <4>2. CASE ~ (x <= m)
        <5>1. x > m
          BY SMT, <1>3, <3>3, <4>2
        <5> QED
          BY <1>11, <2>2, <3>3, <3>5, <5>1
      <4> QED
        BY <4>1, <4>2
    <3> QED
      BY <2>1, <3>4, <3>5
  <2>8. Len(new) = n + 1 /\ Len(d) = n + 1
    BY <1>3
  <2> HIDE DEF shift
  <2> QED
    BY <2>3, <2>4, <2>5, <2>6, <2>7, <2>8 DEF Rearranged
<1> QED
  BY <1>1, <1>12

\* What stands before and after place k, where d is put.
Around(s, k, d, p, r) ==
    /\ Len(r) = Len(s) - k
    /\ \A i \in 1 .. Len(r) : r[i] = s[k + i]
    /\ s = (p \o << s[k] >>) \o r
    /\ [s EXCEPT ![k] = d] = (p \o << d >>) \o r

LEMMA SplitAround ==
    ASSUME NEW S, NEW s \in Seq(S), NEW k \in 1 .. Len(s), NEW d \in S
    PROVE  \E p, r \in Seq(S) : Around(s, k, d, p, r)
<1>1. PICK n : n = Len(s) /\ n \in Nat /\ k \in Nat /\ 1 <= k /\ k <= n
               /\ \A i \in 1 .. n : s[i] \in S
  BY SMT
<1>2. PICK p, r : p = [i \in 1 .. k - 1 |-> s[i]] /\ r = [i \in 1 .. n - k |-> s[k + i]]
  OBVIOUS
<1>3. p \in Seq(S) /\ Len(p) = k - 1 /\ \A i \in 1 .. k - 1 : p[i] = s[i]
  BY SMT, <1>1, <1>2
<1>4. r \in Seq(S) /\ Len(r) = n - k /\ \A i \in 1 .. n - k : r[i] = s[k + i]
  BY SMT, <1>1, <1>2
<1>5. s[k] \in S
  BY <1>1
<1>6. PICK x, y, z : /\ x = (p \o << s[k] >>) \o r
                     /\ y = (p \o << d >>) \o r
                     /\ z = [s EXCEPT ![k] = d]
  OBVIOUS
<1>7. /\ x \in Seq(S) /\ Len(x) = n
      /\ \A i \in 1 .. n : x[i] = IF i <= k - 1 THEN p[i]
                                 ELSE IF i = k THEN s[k] ELSE r[i - k]
  <2>1. /\ x \in Seq(S) /\ Len(x) = (Len(p) + 1) + Len(r)
        /\ \A i \in 1 .. (Len(p) + 1) + Len(r) :
              x[i] = IF i <= Len(p) THEN p[i]
                     ELSE IF i = Len(p) + 1 THEN s[k] ELSE r[i - (Len(p) + 1)]
    <3>1. p \in Seq(S) /\ r \in Seq(S) /\ x = (p \o << s[k] >>) \o r
      BY <1>3, <1>4, <1>6
    <3> QED
      BY <1>5, <3>1, AroundAt
  <2>2. Len(p) + 1 = k /\ (Len(p) + 1) + Len(r) = n
    BY SMT, <1>1, <1>3, <1>4
  <2> QED
    BY <1>3, <2>1, <2>2
<1>8. /\ y \in Seq(S) /\ Len(y) = n
      /\ \A i \in 1 .. n : y[i] = IF i <= k - 1 THEN p[i]
                                 ELSE IF i = k THEN d ELSE r[i - k]
  <2>1. /\ y \in Seq(S) /\ Len(y) = (Len(p) + 1) + Len(r)
        /\ \A i \in 1 .. (Len(p) + 1) + Len(r) :
              y[i] = IF i <= Len(p) THEN p[i]
                     ELSE IF i = Len(p) + 1 THEN d ELSE r[i - (Len(p) + 1)]
    <3>1. p \in Seq(S) /\ r \in Seq(S) /\ y = (p \o << d >>) \o r
      BY <1>3, <1>4, <1>6
    <3> QED
      BY <3>1, AroundAt
  <2>2. Len(p) + 1 = k /\ (Len(p) + 1) + Len(r) = n
    BY SMT, <1>1, <1>3, <1>4
  <2> QED
    BY <1>3, <2>1, <2>2
<1>9. z \in Seq(S) /\ Len(z) = n /\ \A i \in 1 .. n : z[i] = IF i = k THEN d ELSE s[i]
  BY SMT, <1>1, <1>6
<1>10. \A i \in 1 .. n : s[i] = x[i] /\ z[i] = y[i]
  <2>1. ASSUME NEW i \in 1 .. n PROVE s[i] = x[i] /\ z[i] = y[i]
    <3>1. CASE i <= k - 1
      <4>1. i \in 1 .. k - 1 /\ i # k
        BY SMT, <1>1, <3>1
      <4> QED
        BY <1>3, <1>7, <1>8, <1>9, <3>1, <4>1
    <3>2. CASE i = k
      <4>1. ~ (i <= k - 1)
        BY SMT, <1>1, <3>2
      <4> QED
        BY <1>7, <1>8, <1>9, <3>2, <4>1
    <3>3. CASE ~ (i <= k - 1) /\ i # k
      <4>1. i - k \in 1 .. n - k /\ k + (i - k) = i
        BY SMT, <1>1, <3>3
      <4> QED
        BY <1>4, <1>7, <1>8, <1>9, <3>3, <4>1
    <3> QED
      BY <3>1, <3>2, <3>3
  <2> QED
    BY <2>1
<1>11. s = x /\ z = y
  <2>1. s = x
    BY <1>1, <1>7, <1>10, SeqEqual
  <2>2. z = y
    BY <1>8, <1>9, <1>10, SeqEqual
  <2> QED
    BY <2>1, <2>2
<1> QED
  BY <1>1, <1>3, <1>4, <1>6, <1>11 DEF Around

-----------------------------------------------------------------------------
LEMMA Reassociated ==
    ASSUME NEW a \in Seq(Scalar), NEW b \in Seq(Scalar), NEW c \in Seq(Scalar)
    PROVE  a \o (b \o c) = (a \o b) \o c
BY ConcatAssociative

\* Composition leaves the marks it does not consume as they were decomposed.
MarksSettled(cs) ==
    \A i \in 1 .. Len(cs) : Class(cs, i) # 0 => cs[i] \in Settled(COMPOSE)

LEMMA FullThree ==
    ASSUME NEW opts \in Options,
           NEW a \in Seq(Scalar), NEW b \in Seq(Scalar), NEW c \in Seq(Scalar)
    PROVE  FullyMapped(opts, (a \o b) \o c)
              = (FullyMapped(opts, a) \o FullyMapped(opts, b)) \o FullyMapped(opts, c)
<1>1. PICK ab : ab = a \o b
  OBVIOUS
<1>2. ab \in Seq(Scalar)
  BY <1>1, ConcatProperties
<1>3. FullyMapped(opts, ab \o c) = FullyMapped(opts, ab) \o FullyMapped(opts, c)
  BY <1>2, FullConcat
<1>4. FullyMapped(opts, ab) = FullyMapped(opts, a) \o FullyMapped(opts, b)
  BY <1>1, FullConcat
<1> QED
  BY <1>1, <1>3, <1>4

\* c stands in w behind u, in front of q: marks of lower classes.
InFrontOf(w, u, c, q) ==
    /\ w = (u \o << c >>) \o q
    /\ \A i \in 1 .. Len(q) : Class(q, i) > 0 /\ Class(q, i) < CombiningClass(c)

\* Adding c to cs: in the full decomposition c is inserted, in front of marks of
\* lower classes.
LEMMA AddedApart ==
    ASSUME NEW cs \in Seq(Scalar), MarksSettled(cs), NEW c \in Settled(COMPOSE),
           NEW d, d = AddComposing(cs, c)
    PROVE  /\ d \in Seq(Scalar) /\ MarksSettled(d)
           /\ \E u, q \in Seq(Scalar) :
                 /\ FullyMapped(COMPOSE, cs) = u \o q
                 /\ InFrontOf(FullyMapped(COMPOSE, d), u, c, q)
<1> COMPOSE \in Options
  BY DEF Options
<1>1. c \in Scalar
  BY LowerScalar DEF Settled
<1>2. << c >> \in Seq(Scalar) /\ << c >> \in Seq(Settled(COMPOSE))
  BY <1>1, ShortSeqs
<1>3. FullyMapped(COMPOSE, << c >>) = << c >>
  BY <1>2, FullOfSettled
<1>4. PICK n : n = Len(cs) /\ n \in Nat
  OBVIOUS
<1>5. CASE d = Append(cs, c)
  <2>1. /\ d \in Seq(Scalar) /\ d = cs \o << c >> /\ Len(d) = n + 1
        /\ \A i \in 1 .. n : d[i] = cs[i]
        /\ d[n + 1] = c
    BY <1>1, <1>4, <1>5, AppendProperties, AppendIsConcat
  <2>2. MarksSettled(d)
    <3>1. ASSUME NEW i \in 1 .. n + 1, Class(d, i) # 0
          PROVE  d[i] \in Settled(COMPOSE)
      <4>1. CASE i \in 1 .. n
        <5>1. d[i] = cs[i] /\ Class(cs, i) # 0
          BY <2>1, <3>1, <4>1 DEF Class
        <5> QED
          BY <1>4, <4>1, <5>1 DEF MarksSettled
      <4>2. CASE i = n + 1
        BY <2>1, <4>2
      <4>3. i \in 1 .. n \/ i = n + 1
        BY SMT, <1>4
      <4> QED
        BY <4>1, <4>2, <4>3
    <3> QED
      BY <2>1, <3>1 DEF MarksSettled
  <2>3. PICK u : u = FullyMapped(COMPOSE, cs)
    OBVIOUS
  <2>4. u \in Seq(Scalar)
    BY <2>3, FullType
  <2>5. FullyMapped(COMPOSE, d) = u \o << c >>
    BY <1>2, <1>3, <2>1, <2>3, FullConcat
  <2>6. << >> \in Seq(Scalar) /\ Len(<< >>) = 0
    BY EmptySeq
  <2>7. u \o << c >> \in Seq(Scalar)
    BY <1>2, <2>4, ConcatProperties
  <2>8. u = u \o << >> /\ u \o << c >> = (u \o << c >>) \o << >>
    BY <2>4, <2>7, ConcatEmptySeq
  <2>9. \A i \in 1 .. Len(<< >>) :
           Class(<< >>, i) > 0 /\ Class(<< >>, i) < CombiningClass(c)
    BY SMT, <2>6
  <2>10. PICK q : q = << >>
    OBVIOUS
  <2>11. /\ q \in Seq(Scalar) /\ u = u \o q /\ FullyMapped(COMPOSE, d) = (u \o << c >>) \o q
         /\ \A i \in 1 .. Len(q) : Class(q, i) > 0 /\ Class(q, i) < CombiningClass(c)
    BY <2>5, <2>6, <2>8, <2>9, <2>10
  <2> QED
    BY <2>1, <2>2, <2>3, <2>4, <2>11 DEF InFrontOf
<1>6. CASE d # Append(cs, c)
  <2> DEFINE free(l) == \A i \in l + 1 .. Len(cs) :
                              ~ (Class(cs, i) >= CombiningClass(c))
  <2>1. PICK last \in 1 .. n :
           /\ Class(cs, last) = 0
           /\ \A i \in 1 .. n : Class(cs, i) = 0 => i <= last
    <3>1. PICK T : T = {i \in 1 .. n : Class(cs, i) = 0}
      OBVIOUS
    <3>2. T # {}
      BY <1>4, <1>6, <3>1, AddWithoutStarter
    <3>3. T \in SUBSET (0 .. n)
      BY SMT, <3>1
    <3>4. PICK x \in T : \A y \in T : y <= x
      BY <1>4, <3>2, <3>3, Greatest
    <3> QED
      BY <3>1, <3>4
  <2>2. /\ free(last) /\ HasComposite(cs[last], c)
        /\ d = [cs EXCEPT ![last] = Composite(cs[last], c)]
    <3>1. free(last) /\ HasComposite(cs[last], c) =>
             AddComposing(cs, c) = [cs EXCEPT ![last] = Composite(cs[last], c)]
      BY <1>4, <2>1, AddToStarter
    <3>2. ~ (free(last) /\ HasComposite(cs[last], c)) =>
             AddComposing(cs, c) = Append(cs, c)
      BY <1>4, <2>1, AddToStarter
    <3> QED
      BY <1>6, <3>1, <3>2
  <2>3. PICK a, e : a = cs[last] /\ e = Composite(a, c)
    OBVIOUS
  <2>4. a \in Scalar /\ HasComposite(a, c)
    BY <1>4, <2>1, <2>2, <2>3
  <2>5. /\ e \in Scalar /\ CombiningClass(e) = 0
        /\ FullyMapped(COMPOSE, << e >>) = FullyMapped(COMPOSE, << a >>) \o << c >>
    BY <2>3, <2>4, CompositeApart
  <2>. PICK p, r \in Seq(Scalar) : Around(cs, last, e, p, r)
    <3>1. last \in 1 .. Len(cs) /\ e \in Scalar
      BY <1>4, <2>1, <2>5
    <3> QED
      BY <3>1, SplitAround
  <2>6. /\ Len(r) = Len(cs) - last
        /\ \A i \in 1 .. Len(r) : r[i] = cs[last + i]
        /\ cs = (p \o << cs[last] >>) \o r
        /\ [cs EXCEPT ![last] = e] = (p \o << e >>) \o r
    BY DEF Around
  <2>7. cs = (p \o << a >>) \o r /\ d = (p \o << e >>) \o r
    BY <2>2, <2>3, <2>6
  <2>8. d \in Seq(Scalar) /\ Len(d) = n /\ \A i \in 1 .. n : d[i] = IF i = last THEN e ELSE cs[i]
    <3>1. d = [cs EXCEPT ![last] = e]
      BY <2>2, <2>3
    <3> QED
      BY SMT, <1>4, <2>5, <3>1
  <2>9. MarksSettled(d)
    <3>1. ASSUME NEW i \in 1 .. n, Class(d, i) # 0
          PROVE  d[i] \in Settled(COMPOSE)
      <4>1. CASE i = last
        BY <2>5, <2>8, <3>1, <4>1 DEF Class
      <4>2. CASE i # last
        <5>1. d[i] = cs[i] /\ Class(cs, i) # 0
          BY <2>8, <3>1, <4>2 DEF Class
        <5> QED
          BY <1>4, <5>1 DEF MarksSettled
      <4> QED
        BY <4>1, <4>2
    <3> QED
      BY <2>8, <3>1 DEF MarksSettled
  <2>10. /\ r \in Seq(Settled(COMPOSE))
         /\ \A i \in 1 .. Len(r) : Class(r, i) > 0 /\ Class(r, i) < CombiningClass(c)
    <3>1. ASSUME NEW i \in 1 .. Len(r)
          PROVE  /\ r[i] \in Settled(COMPOSE) /\ Class(r, i) > 0
                 /\ Class(r, i) < CombiningClass(c)
      <4>1. PICK k : k = last + i
        OBVIOUS
      <4>2. k \in 1 .. n /\ k \in last + 1 .. Len(cs) /\ ~ (k <= last)
        BY SMT, <1>4, <2>6, <4>1
      <4>3. r[i] = cs[k]
        BY <2>6, <4>1
      <4>4. Class(cs, k) # 0 /\ ~ (Class(cs, k) >= CombiningClass(c))
        BY <2>1, <2>2, <4>2
      <4>5. PICK x, y \in 0 .. 254 : x = Class(cs, k) /\ y = CombiningClass(c)
        BY ClassRange DEF Class
      <4>6. x > 0 /\ x < y
        <5>1. x # 0 /\ ~ (x >= y)
          BY <4>4, <4>5
        <5> QED
          BY SMT, <5>1
      <4>7. Class(r, i) = x
        BY <4>3, <4>5 DEF Class
      <4>8. cs[k] \in Settled(COMPOSE)
        BY <1>4, <4>2, <4>4 DEF MarksSettled
      <4> QED
        BY <4>3, <4>5, <4>6, <4>7, <4>8
    <3>2. r \in Seq(Settled(COMPOSE))
      <4>1. PICK S : S = Settled(COMPOSE)
        OBVIOUS
      <4>2. r \in Seq(S)
        <5>1. \A i \in 1 .. Len(r) : r[i] \in S
          BY <3>1, <4>1
        <5>2. r = [i \in 1 .. Len(r) |-> r[i]] /\ Len(r) \in Nat
          OBVIOUS
        <5> QED
          BY SMT, <5>1, <5>2
      <4> QED
        BY <4>1, <4>2
    <3> QED
      BY <3>1, <3>2
  <2>11. FullyMapped(COMPOSE, r) = r
    BY <2>10, FullOfSettled
  <2>12. PICK x, y, z : x = << a >> /\ y = << e >> /\ z = << c >>
    OBVIOUS
  <2>13. x \in Seq(Scalar) /\ y \in Seq(Scalar) /\ z \in Seq(Scalar)
    BY <1>1, <2>4, <2>5, <2>12, ShortSeqs
  <2>14. PICK fp, fx : fp = FullyMapped(COMPOSE, p) /\ fx = FullyMapped(COMPOSE, x)
    OBVIOUS
  <2>15. fp \in Seq(Scalar) /\ fx \in Seq(Scalar) /\ fp \o fx \in Seq(Scalar)
    BY <2>13, <2>14, FullType, ConcatProperties
  <2>16. FullyMapped(COMPOSE, cs) = (fp \o fx) \o r
    <3>1. x \in Seq(Scalar)
      BY <2>13
    <3>2. FullyMapped(COMPOSE, (p \o x) \o r) = (fp \o fx) \o r
      <4>1. FullyMapped(COMPOSE, (p \o x) \o r)
          = (FullyMapped(COMPOSE, p) \o FullyMapped(COMPOSE, x)) \o FullyMapped(COMPOSE, r)
        BY <3>1, FullThree
      <4> QED
        BY <2>11, <2>14, <4>1
    <3> QED
      BY <2>7, <2>12, <3>2
  <2>17. FullyMapped(COMPOSE, d) = ((fp \o fx) \o z) \o r
    <3>1. y \in Seq(Scalar)
      BY <2>13
    <3>2. FullyMapped(COMPOSE, (p \o y) \o r) = (fp \o FullyMapped(COMPOSE, y)) \o r
      <4>1. FullyMapped(COMPOSE, (p \o y) \o r)
          = (FullyMapped(COMPOSE, p) \o FullyMapped(COMPOSE, y)) \o FullyMapped(COMPOSE, r)
        BY <3>1, FullThree
      <4> QED
        BY <2>11, <2>14, <4>1
    <3>3. FullyMapped(COMPOSE, y) = fx \o z
      BY <2>5, <2>12, <2>14
    <3>4. fp \o (fx \o z) = (fp \o fx) \o z
      <4>1. fp \in Seq(Scalar)
        BY <2>15
      <4>2. fx \in Seq(Scalar)
        BY <2>15
      <4>3. z \in Seq(Scalar)
        BY <2>13
      <4> QED
        BY <4>1, <4>2, <4>3, Reassociated
    <3>5. d = (p \o y) \o r
      BY <2>7, <2>12
    <3> QED
      BY <3>2, <3>3, <3>4, <3>5
  <2>18. PICK u : u = fp \o fx
    OBVIOUS
  <2>19. /\ u \in Seq(Scalar) /\ FullyMapped(COMPOSE, cs) = u \o r
         /\ FullyMapped(COMPOSE, d) = (u \o << c >>) \o r
    BY <2>12, <2>15, <2>16, <2>17, <2>18
  <2> QED
    BY <2>8, <2>9, <2>10, <2>19 DEF InFrontOf
<1> QED
  BY <1>5, <1>6

LEMMA SettledSeq ==
    ASSUME NEW opts, NEW cs \in Seq(Settled(opts)) PROVE cs \in Seq(Scalar)
<1>1. PICK S : S = Settled(opts)
  OBVIOUS
<1>2. S \subseteq Scalar /\ cs \in Seq(S)
  BY <1>1, LowerScalar DEF Settled
<1> QED
  BY SMT, <1>2

LEMMA RearrangedNothing == \E p : Rearranged(<< >>, << >>, p)
<1>1. << >> \in Seq(Scalar)
  BY EmptySeq
<1> QED
  BY <1>1, RearrangedStart

\* What is composed so far decomposes to what was read so far: but for an order
\* that canonical ordering restores.
LEMMA UptoApart ==
    ASSUME NEW cs \in Seq(Settled(COMPOSE))
    PROVE  \A n \in 0 .. Len(cs) :
              /\ Upto(cs, n) \in Seq(Scalar) /\ MarksSettled(Upto(cs, n))
              /\ \E p : Rearranged(FullyMapped(COMPOSE, Upto(cs, n)),
                                   SubSeq(cs, 1, n), p)
<1>1. cs \in Seq(Scalar) /\ Len(cs) \in Nat
  BY SettledSeq
<1> DEFINE Good(n) == /\ Upto(cs, n) \in Seq(Scalar) /\ MarksSettled(Upto(cs, n))
                      /\ \E p : Rearranged(FullyMapped(COMPOSE, Upto(cs, n)),
                                           SubSeq(cs, 1, n), p)
           B == {n \in 0 .. Len(cs) : Good(n)}
<1>2. 0 \in B
  <2>1. 0 \in 0 .. Len(cs)
    BY SMT, <1>1
  <2>2. Upto(cs, 0) = << >>
    BY <1>1, <2>1, UptoStep
  <2>3. << >> \in Seq(Scalar) /\ Len(<< >>) = 0
    BY EmptySeq
  <2>4. MarksSettled(<< >>)
    BY SMT, <2>3 DEF MarksSettled
  <2>5. FullyMapped(COMPOSE, << >>) = << >> /\ SubSeq(cs, 1, 0) = << >>
    BY <1>1, FullEmpty, PrefixEmpty
  <2> QED
    BY <2>1, <2>2, <2>3, <2>4, <2>5, RearrangedNothing
<1>3. ASSUME NEW k \in 1 .. Len(cs), k - 1 \in B PROVE k \in B
  <2>1. k \in 0 .. Len(cs) /\ k # 0
    BY SMT, <1>1
  <2>2. PICK y, d, c, v : /\ y = Upto(cs, k - 1) /\ d = Upto(cs, k)
                          /\ c = cs[k] /\ v = SubSeq(cs, 1, k - 1)
    OBVIOUS
  <2>3. /\ y \in Seq(Scalar) /\ MarksSettled(y)
        /\ \E p : Rearranged(FullyMapped(COMPOSE, y), v, p)
    BY <1>3, <2>2
  <2>4. c \in Settled(COMPOSE)
    BY <2>2
  <2>5. d = AddComposing(y, c)
    BY <1>1, <2>1, <2>2, UptoStep
  <2>6. /\ v \in Seq(Scalar) /\ c \in Scalar
        /\ SubSeq(cs, 1, k) = Append(v, c)
    BY <1>1, <2>2, PrefixText
  <2>7. /\ d \in Seq(Scalar) /\ MarksSettled(d)
        /\ \E u, q \in Seq(Scalar) :
              FullyMapped(COMPOSE, y) = u \o q /\ InFrontOf(FullyMapped(COMPOSE, d), u, c, q)
    BY <2>3, <2>4, <2>5, AddedApart
  <2>8. PICK u \in Seq(Scalar), q \in Seq(Scalar) :
              /\ FullyMapped(COMPOSE, y) = u \o q
              /\ FullyMapped(COMPOSE, d) = (u \o << c >>) \o q
              /\ \A i \in 1 .. Len(q) :
                    Class(q, i) > 0 /\ Class(q, i) < CombiningClass(c)
    BY <2>7 DEF InFrontOf
  <2>9. PICK p : Rearranged(u \o q, v, p)
    BY <2>3, <2>8
  <2>10. \E r : Rearranged((u \o << c >>) \o q, Append(v, c), r)
    <3>1. c \in Scalar
      BY <2>6
    <3>2. v \in Seq(Scalar)
      BY <2>6
    <3>3. \A i \in 1 .. Len(q) : Class(q, i) > 0 /\ Class(q, i) < CombiningClass(c)
      BY <2>8
    <3> QED
      BY <2>9, <3>1, <3>2, <3>3, RearrangedInsert
  <2>11. Good(k)
    BY <2>2, <2>6, <2>7, <2>8, <2>10
  <2> QED
    BY <2>1, <2>11
<1> HIDE DEF B
<1>4. \A n \in 0 .. Len(cs) : n \in B
  BY <1>1, <1>2, <1>3, Climb
<1> QED
  BY <1>4 DEF B

\* What canonical ordering makes of a rearrangement that has none to swap.
LEMMA OrderedSettled ==
    ASSUME NEW opts \in Options, NEW w \in Seq(Settled(opts)),
           NEW b \in Seq(Scalar), NEW p, Rearranged(w, b, p), NoneToSwap(b)
    PROVE  InCanonicalOrder(w) = b /\ b \in Seq(Settled(opts))
<1>1. w \in Seq(Scalar)
  BY SettledSeq
<1>2. Len(b) = Len(w) /\ Len(w) \in Nat
  BY <1>1 DEF Rearranged
<1>3. \A k \in 1 .. Len(w) : k + 1 \in 1 .. Len(w) => ~ OutOfOrder(b[k], b[k + 1])
  BY <1>2 DEF NoneToSwap
<1>4. PICK o : o = InCanonicalOrder(w)
  OBVIOUS
<1>5. o \in Seq(Scalar) /\ Len(o) = Len(w) /\ \A m \in 1 .. Len(w) : b[m] = o[m]
  BY <1>1, <1>3, <1>4, RearrangedIsCanonical
<1>6. \A m \in 1 .. Len(w) : o[m] \in Settled(opts)
  <2>1. ASSUME NEW m \in 1 .. Len(w) PROVE o[m] \in Settled(opts)
    <3>1. p[m] \in 1 .. Len(w) /\ b[m] = w[p[m]]
      BY DEF Rearranged
    <3> QED
      BY <1>5, <3>1
  <2> QED
    BY <2>1
<1>7. o \in Seq(Settled(opts))
  <2>1. PICK S : S = Settled(opts)
    OBVIOUS
  <2>2. \A m \in 1 .. Len(o) : o[m] \in S
    BY <1>5, <1>6, <2>1
  <2>3. o \in Seq(S)
    BY SMT, <1>5, <2>2
  <2> QED
    BY <2>1, <2>3
<1>8. o = b
  BY <1>2, <1>5, SeqEqual
<1> QED
  BY <1>4, <1>7, <1>8

\* Canonical ordering leaves what is in order alone.
LEMMA OrderedStays ==
    ASSUME NEW cs \in Seq(Scalar), NoneToSwap(cs)
    PROVE  InCanonicalOrder(cs) = cs
<1>1. PICK p : Rearranged(cs, cs, p)
  BY RearrangedStart
<1>2. PICK o : o = InCanonicalOrder(cs)
  OBVIOUS
<1>3. o \in Seq(Scalar) /\ Len(o) = Len(cs) /\ \A m \in 1 .. Len(cs) : cs[m] = o[m]
  BY <1>1, <1>2, RearrangedIsCanonical DEF NoneToSwap
<1>4. o = cs
  BY <1>3, SeqEqual
<1> QED
  BY <1>2, <1>4

\* Composing changes nothing for a reader who decomposes.
LEMMA ComposedApart ==
    ASSUME NEW cs \in Seq(Settled(COMPOSE)), NoneToSwap(cs)
    PROVE  /\ Composed(cs) \in Seq(Scalar)
           /\ InCanonicalOrder(FullyMapped(COMPOSE, Composed(cs))) = cs
<1> COMPOSE \in Options
  BY DEF Options
<1>1. cs \in Seq(Scalar) /\ Len(cs) \in Nat
  BY SettledSeq
<1>2. PICK d, w : d = Composed(cs) /\ w = FullyMapped(COMPOSE, d)
  OBVIOUS
<1>3. d = Upto(cs, Len(cs)) /\ SubSeq(cs, 1, Len(cs)) = cs /\ Len(cs) \in 0 .. Len(cs)
  <2>1. Len(cs) \in 0 .. Len(cs)
    BY SMT, <1>1
  <2> QED
    BY <1>1, <1>2, <2>1, ComposedUpto, PrefixEmpty
<1>4. d \in Seq(Scalar) /\ \E p : Rearranged(w, cs, p)
  BY <1>2, <1>3, UptoApart
<1>5. w \in Seq(Settled(COMPOSE))
  BY <1>2, <1>4, FullSettled
<1>6. InCanonicalOrder(w) = cs
  BY <1>1, <1>4, <1>5, OrderedSettled
<1> QED
  BY <1>2, <1>4, <1>6

\* Both normalizing options decompose alike.
LEMMA SameFullMapping ==
    ASSUME NEW cs
    PROVE  FullyMapped(DECOMPOSE, cs) = FullyMapped(COMPOSE, cs)
<1>1. Normalizing(DECOMPOSE) /\ Normalizing(COMPOSE)
  BY DEF Normalizing
<1>2. Entry(DECOMPOSE) = Entry(COMPOSE)
  BY <1>1 DEF Entry
<1>3. \A c : Mapping(DECOMPOSE, c) = Mapping(COMPOSE, c)
  BY <1>1, <1>2 DEF Mapping
<1>4. \A x : Mapped(DECOMPOSE, x) = Mapped(COMPOSE, x)
  BY <1>3 DEF Mapped
<1> QED
  BY <1>4 DEF FullyMapped

\* The normal form of a normal form; and the composition of a decomposition.
LEMMA FormStable ==
    ASSUME NEW opts \in Options, NEW cs \in Seq(Scalar),
           Normalizing(opts) =>
              \E b \in Seq(Scalar) :
                 /\ \E p : Rearranged(FullyMapped(opts, cs), b, p)
                 /\ NoneToSwap(b),
           NEW form, form = NormalForm(opts, cs)
    PROVE  /\ form \in Seq(Scalar) /\ NormalForm(opts, form) = form
           /\ opts = DECOMPOSE => NormalForm(COMPOSE, form) = NormalForm(COMPOSE, cs)
<1> COMPOSE \in Options /\ DECOMPOSE \in Options /\ CASEFOLD \in Options
  BY DEF Options
<1>1. COMPOSE # DECOMPOSE /\ COMPOSE # CASEFOLD /\ DECOMPOSE # CASEFOLD
  BY DEF COMPOSE, DECOMPOSE, CASEFOLD
<1>2. opts \in {COMPOSE, DECOMPOSE, CASEFOLD}
  BY DEF Options
<1>3. \A x : /\ NormalForm(CASEFOLD, x) = FullyMapped(CASEFOLD, x)
             /\ NormalForm(DECOMPOSE, x) = InCanonicalOrder(FullyMapped(DECOMPOSE, x))
             /\ NormalForm(COMPOSE, x)
                   = Composed(InCanonicalOrder(FullyMapped(COMPOSE, x)))
  BY <1>1 DEF NormalForm
<1>4. PICK w : w = FullyMapped(opts, cs)
  OBVIOUS
<1>5. w \in Seq(Settled(opts))
  BY <1>4, FullSettled
<1>6. CASE opts = CASEFOLD
  <2>1. form = w
    BY <1>3, <1>4, <1>6
  <2>2. FullyMapped(opts, w) = w /\ w \in Seq(Scalar)
    BY <1>5, FullOfSettled, SettledSeq
  <2> QED
    BY <1>1, <1>3, <1>6, <2>1, <2>2
<1>7. CASE opts # CASEFOLD
  <2>1. Normalizing(opts)
    BY <1>2, <1>7 DEF Normalizing
  <2>2. PICK b \in Seq(Scalar) : (\E p : Rearranged(w, b, p)) /\ NoneToSwap(b)
    BY <1>4, <2>1
  <2>3. InCanonicalOrder(w) = b /\ b \in Seq(Settled(opts)) /\ b \in Seq(Scalar)
    BY <1>5, <2>2, OrderedSettled
  <2>4. FullyMapped(opts, b) = b
    BY <2>3, FullOfSettled
  <2>5. InCanonicalOrder(b) = b
    BY <2>2, <2>3, OrderedStays
  <2>6. CASE opts = DECOMPOSE
    <3>1. form = b
      BY <1>3, <1>4, <2>3, <2>6
    <3>2. NormalForm(DECOMPOSE, b) = b
      BY <1>3, <2>4, <2>5, <2>6
    <3>3. NormalForm(COMPOSE, b) = Composed(b)
      <4>1. FullyMapped(COMPOSE, b) = b
        BY <2>4, <2>6, SameFullMapping
      <4> QED
        BY <1>3, <2>5, <4>1
    <3>4. NormalForm(COMPOSE, cs) = Composed(b)
      <4>1. FullyMapped(COMPOSE, cs) = w
        BY <1>4, <2>6, SameFullMapping
      <4> QED
        BY <1>3, <2>3, <4>1
    <3> QED
      BY <2>3, <2>6, <3>1, <3>2, <3>3, <3>4
  <2>7. CASE opts = COMPOSE
    <3>1. form = Composed(b)
      BY <1>3, <1>4, <2>3, <2>7
    <3>2. b \in Seq(Settled(COMPOSE))
      BY <2>3, <2>7
    <3>3. form \in Seq(Scalar) /\ InCanonicalOrder(FullyMapped(COMPOSE, form)) = b
      BY <2>2, <3>1, <3>2, ComposedApart
    <3>4. NormalForm(COMPOSE, form) = form
      BY <1>3, <3>1, <3>3
    <3> QED
      BY <1>1, <2>7, <3>3, <3>4
  <2> QED
    BY <1>2, <1>7, <2>6, <2>7
<1> QED
  BY <1>6, <1>7

-----------------------------------------------------------------------------
(* What a call returned is stable under the form it was asked for.         *)

\* Past the ordering, the full mapping of what was asked is known to have a
\* canonical order; the answer is the encoding of the form it has.
Kept ==
    /\ (pc \in {"compose", "reencode", "shrink"} \/ (pc = "returned" /\ rc >= 0))
          => (Normalizing(options) => Sorts(Whole, InCanonicalOrder(Whole)))
    /\ pc = "returned" /\ rc >= 0 =>
          out = Append(Encoding(Form), 0) /\ rc = Len(Encoding(Form))

LEMMA EndOfStringOrders ==
    ASSUME IInv, Meaning, EndOfString, Normalizing(options)
    PROVE  pc' \in {"allocate", "order"}
<1>0. pc = "decompose" /\ length' = wpos /\ buffer' = buffer
  BY DEF EndOfString
<1>1. wpos \in Nat /\ buffer \in Seq(CodePoint \cup {UNSET}) /\ Len(buffer) \in Nat
  BY LenProperties DEF IInv, TypeOK
<1>2. SecondPassFillsBuffer' /\ Memory'
  BY EndOfStringIInv DEF IInv
<1>3. CASE allocated = 0
  BY <1>3 DEF EndOfString
<1>4. CASE allocated # 0
  <2>1. pc' = IF Normalizing(options) /\ Len(buffer) >= wpos
              THEN "order" ELSE AfterDecomposition
    BY <1>4 DEF EndOfString
  <2>2. CASE ~ (Len(buffer) >= wpos)
    <3>1. pc' \in {"compose", "reencode"}
      BY <2>1, <2>2 DEF AfterDecomposition
    <3>2. pc' = "compose" => wpos = Len(buffer)
      BY <1>0, <1>2 DEF SecondPassFillsBuffer
    <3>3. pc' = "reencode" => wpos <= Len(buffer)
      BY <1>0, <1>2 DEF Memory
    <3>4. wpos <= Len(buffer)
      <4>1. wpos <= wpos
        BY SMT, <1>1
      <4> QED
        BY <3>1, <3>2, <3>3, <4>1
    <3> QED
      BY SMT, <1>1, <2>2, <3>4
  <2> QED
    BY <2>1, <2>2
<1> QED
  BY <1>3, <1>4

LEMMA NextKept == ASSUME IInv, Meaning, Kept, [Next]_vars PROVE Kept'
<1>1. CASE Malformed \/ TooLong \/ NoMemory
  <2>1. rc' \in {UTF8PROC_ERROR_INVALIDUTF8, UTF8PROC_ERROR_OVERFLOW,
                 UTF8PROC_ERROR_NOMEM} /\ pc' = "returned"
    BY <1>1 DEF Malformed, TooLong, NoMemory, Fail
  <2>2. ~ (rc' >= 0)
    BY SMT, <2>1
       DEF UTF8PROC_ERROR_INVALIDUTF8, UTF8PROC_ERROR_OVERFLOW, UTF8PROC_ERROR_NOMEM
  <2> QED
    BY <2>1, <2>2 DEF Kept
<1>2. CASE Call \/ Decompose \/ Allocate \/ Swap \/ InOrder \/ Free
  <2>1. pc' \in {"idle", "decompose", "order"}
    BY <1>2 DEF Call, Decompose, Decoding, Allocate, Swap, InOrder, Ordering, Free
  <2> QED
    BY <2>1 DEF Kept
<1>3. CASE EndOfString
  <2>1. options' = options /\ pc' # "returned"
    BY <1>3 DEF EndOfString, AfterDecomposition
  <2>2. Normalizing(options) => pc' \in {"allocate", "order"}
    BY <1>3, EndOfStringOrders
  <2> QED
    BY <2>1, <2>2 DEF Kept
<1>4. CASE EndOfOrdering
  <2>1. Whole' = Whole /\ pc' # "returned"
    BY <1>4 DEF EndOfOrdering, AfterDecomposition, Whole
  <2>2. Sorts(Whole, InCanonicalOrder(Whole))
    BY <1>4, OrderingOver
  <2>3. Sorts(Whole', InCanonicalOrder(Whole'))
    BY <2>1, <2>2
  <2> QED
    BY <2>1, <2>3 DEF Kept
<1>5. CASE \/ ComposeVowel \/ ComposeTrail \/ ComposePair \/ Keep
           \/ EndOfComposition \/ Reencode \/ Terminate
  <2>1. /\ pc \in {"compose", "reencode"} /\ pc' \in {"compose", "reencode", "shrink"}
        /\ UNCHANGED << options, str >>
    BY <1>5 DEF Composing, ComposeVowel, ComposeTrail, ComposePair, ComposeTo, Keep,
                EndOfComposition, Reencode, Terminate
  <2>2. Whole' = Whole
    BY <2>1 DEF Whole
  <2> QED
    BY <2>1, <2>2 DEF Kept
<1>6. CASE Shrink
  <2>1. /\ pc = "shrink" /\ pc' = "returned"
        /\ rc' = rc /\ out' = out /\ UNCHANGED << options, str >>
    BY <1>6 DEF Shrink
  <2>2. Whole' = Whole /\ Form' = Form
    BY <2>1 DEF Whole, Form
  <2>3. out = Append(Encoding(Form), 0) /\ rc = Len(Encoding(Form))
    BY <2>1 DEF Meaning, EncodedSoFar
  <2> QED
    BY <2>1, <2>2, <2>3 DEF Kept
<1>7. CASE UNCHANGED vars
  <2>1. UNCHANGED << pc, options, str, out, rc >>
    BY <1>7 DEF vars
  <2>2. Whole' = Whole /\ Form' = Form
    BY <2>1 DEF Whole, Form
  <2> QED
    BY <2>1, <2>2 DEF Kept
<1> QED
  BY <1>1, <1>2, <1>3, <1>4, <1>5, <1>6, <1>7 DEF Next, Run

LEMMA SubSeqAppended ==
    ASSUME NEW S, NEW s \in Seq(S), NEW e \in S
    PROVE  SubSeq(Append(s, e), 1, Len(s)) = s
<1>1. PICK n : n = Len(s) /\ n \in Nat
  OBVIOUS
<1>2. PICK x, y : x = Append(s, e) /\ y = SubSeq(x, 1, n)
  OBVIOUS
<1>3. x \in Seq(S) /\ Len(x) = n + 1 /\ \A i \in 1 .. n : x[i] = s[i]
  BY SMT, <1>1, <1>2
<1>4. y \in Seq(S) /\ Len(y) = n /\ \A i \in 1 .. n : y[i] = x[i]
  BY SMT, <1>1, <1>2, <1>3
<1>5. y = s
  BY <1>1, <1>3, <1>4, SeqEqual
<1> QED
  BY <1>1, <1>2, <1>5

LEMMA KeptStable == ASSUME IInv, Kept PROVE AnswerIsStable
<1> SUFFICES ASSUME pc = "returned", rc >= 0 PROVE AnswerIsStable
  BY DEF AnswerIsStable
<1>1. /\ options \in Options /\ str \in Seq(Byte)
      /\ out = Append(Encoding(Form), 0) /\ rc = Len(Encoding(Form))
  BY DEF IInv, TypeOK, Kept
<1>2. PICK cs, form, opts : cs = Characters(str) /\ form = Form /\ opts = options
  OBVIOUS
<1>3. cs \in Seq(Scalar) /\ opts \in Options /\ form = NormalForm(opts, cs)
  BY <1>1, <1>2, CharactersScalar DEF Form
<1>4. Normalizing(opts) =>
         \E b \in Seq(Scalar) : /\ \E p : Rearranged(FullyMapped(opts, cs), b, p)
                                /\ NoneToSwap(b)
  <2>1. Normalizing(opts) => Sorts(Whole, InCanonicalOrder(Whole))
    BY <1>2 DEF Kept
  <2>2. Whole = FullyMapped(opts, cs)
    BY <1>2 DEF Whole
  <2> QED
    BY <2>1, <2>2 DEF Sorts
<1>5. /\ form \in Seq(Scalar) /\ NormalForm(opts, form) = form
      /\ opts = DECOMPOSE => NormalForm(COMPOSE, form) = NormalForm(COMPOSE, cs)
  BY <1>3, <1>4, FormStable
<1>6. Characters(SubSeq(out, 1, rc)) = form
  <2>1. PICK text : text = Encoding(form)
    OBVIOUS
  <2>2. text \in Seq(Byte) /\ 0 \in Byte
    BY SMT, <1>5, <2>1, TextTypes DEF Byte
  <2>3. SubSeq(Append(text, 0), 1, Len(text)) = text
    BY <2>2, SubSeqAppended
  <2>4. Characters(text) = form
    BY <1>5, <2>1, CharactersEncoding
  <2> QED
    BY <1>1, <1>2, <2>1, <2>3, <2>4
<1> QED
  BY <1>2, <1>5, <1>6 DEF AnswerIsStable

\* Normal forms are stable: normalising or folding what utf8proc_map returned
\* changes nothing, and composing what it decomposed gives what composing gives.
THEOREM AnswersStable == Spec => []AnswerIsStable
<1>1. Init => Kept
  BY DEF Init, Kept
<1>2. IInv /\ Meaning /\ Kept /\ [Next]_vars => Kept'
  BY NextKept
<1>3. IInv /\ Kept => AnswerIsStable
  BY KeptStable
<1> QED
  BY <1>1, <1>2, <1>3, EngineInvariant, EngineMeaning, PTL DEF Spec
==============================================================================
