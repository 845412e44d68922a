------------------------ MODULE KnockoutBracketProofs ------------------------
(***************************************************************************)
(* The end of the group stage, for any standings of the thirds and any     *)
(* knockout results. The order of the thirds is total, so eight of them    *)
(* are classified and none left out ranks before one of these; the draw    *)
(* has a place for each of the thirty-two, once. The bracket is stored     *)
(* with the last group result and not otherwise, what was announced of it  *)
(* is what is stored, and no administration command changes a row, because *)
(* what it loaded is never newer than what is stored. No winner gets any   *)
(* further than the round of 32, whichever of the defects are mended.      *)
(***************************************************************************)
EXTENDS KnockoutBracket, FiniteSetTheorems, TLAPS

-----------------------------------------------------------------------------
(* The ranks of the thirds.                                                *)

Quad == Int \X Int \X Int \X Int
Candidate == [team: Team, standing: Quad]

\* The j-th candidate comes before the i-th in a stable sort.
Ahead(thirds, j, i) ==
  \/ StandingLess(thirds[j].standing, thirds[i].standing)
  \/ j < i /\ ~ StandingLess(thirds[i].standing, thirds[j].standing)

\* The comparison of two standings is a strict weak order.
LEMMA LessIsAnOrder ==
  ASSUME NEW a \in Quad, NEW b \in Quad, NEW c \in Quad
  PROVE  /\ ~ (StandingLess(a, b) /\ StandingLess(b, a))
         /\ StandingLess(a, b) /\ StandingLess(b, c) => StandingLess(a, c)
         /\ ~ StandingLess(b, a) /\ ~ StandingLess(c, b) => ~ StandingLess(c, a)
<1>1. /\ a[1] \in Int /\ a[2] \in Int /\ a[3] \in Int /\ a[4] \in Int
      /\ b[1] \in Int /\ b[2] \in Int /\ b[3] \in Int /\ b[4] \in Int
      /\ c[1] \in Int /\ c[2] \in Int /\ c[3] \in Int /\ c[4] \in Int
  BY DEF Quad
<1> QED
  BY <1>1 DEF StandingLess

\* So the candidates are in one order, which is total.
LEMMA AheadIsTotal ==
  ASSUME NEW n \in Nat, NEW thirds \in [1..n -> Candidate],
         NEW i \in 1..n, NEW j \in 1..n, NEW k \in 1..n
  PROVE  /\ ~ Ahead(thirds, i, i)
         /\ i # j => Ahead(thirds, i, j) \/ Ahead(thirds, j, i)
         /\ Ahead(thirds, i, j) /\ Ahead(thirds, j, k) => Ahead(thirds, i, k)
<1> DEFINE a == thirds[i].standing
           b == thirds[j].standing
           c == thirds[k].standing
<1>1. a \in Quad /\ b \in Quad /\ c \in Quad
  BY DEF Candidate
<1> DEFINE ab == StandingLess(a, b)
           ba == StandingLess(b, a)
           bc == StandingLess(b, c)
           cb == StandingLess(c, b)
           ac == StandingLess(a, c)
           ca == StandingLess(c, a)
<1>2. /\ ~ StandingLess(a, a)
      /\ ~ (ab /\ ba) /\ ~ (bc /\ cb) /\ ~ (ac /\ ca)
      /\ (ab /\ bc => ac) /\ (~ ba /\ ~ cb => ~ ca)
      /\ (bc /\ ca => ba) /\ (ca /\ ab => cb)
      /\ (~ ab /\ ~ ca => ~ cb) /\ (~ bc /\ ~ ab => ~ ac)
      /\ (~ cb /\ ~ ac => ~ ab) /\ (~ ac /\ ~ ba => ~ bc)
  BY <1>1, LessIsAnOrder
<1>3. /\ Ahead(thirds, i, i) <=> StandingLess(a, a) \/ (i < i /\ ~ StandingLess(a, a))
      /\ Ahead(thirds, i, j) <=> ab \/ (i < j /\ ~ ba)
      /\ Ahead(thirds, j, i) <=> ba \/ (j < i /\ ~ ab)
      /\ Ahead(thirds, j, k) <=> bc \/ (j < k /\ ~ cb)
      /\ Ahead(thirds, i, k) <=> ac \/ (i < k /\ ~ ca)
  BY DEF Ahead
<1> HIDE DEF ab, ba, bc, cb, ac, ca
<1>4. i \in Int /\ j \in Int /\ k \in Int
  OBVIOUS
<1>5. ~ (i < i) /\ (i # j => i < j \/ j < i) /\ (i < j /\ j < k => i < k)
  BY <1>4
<1> QED
  BY <1>2, <1>3, <1>5

\* Of two candidates the one ahead has the lower rank, and each rank from 1 is that of
\* one candidate.
LEMMA RanksAreDistinct ==
  ASSUME NEW n \in Nat, NEW thirds \in [1..n -> Candidate]
  PROVE  /\ \A i \in 1..n : RankOf(thirds, i) \in 1..n
         /\ \A i, j \in 1..n : Ahead(thirds, j, i) => RankOf(thirds, j) < RankOf(thirds, i)
         /\ \A i, j \in 1..n : RankOf(thirds, i) = RankOf(thirds, j) => i = j
         /\ \A k \in 1..n : \E i \in 1..n : RankOf(thirds, i) = k
<1> DEFINE Before(i) == {j \in 1..n : Ahead(thirds, j, i)}
<1>1. IsFiniteSet(1..n) /\ Cardinality(1..n) = n
  BY FS_Interval
<1>2. \A i : Before(i) \in SUBSET (1..n)
  OBVIOUS
<1>3. \A i : IsFiniteSet(Before(i)) /\ Cardinality(Before(i)) \in Nat
  BY <1>1, <1>2, FS_Subset, FS_CardinalityType
<1>4. \A i : RankOf(thirds, i) = 1 + Cardinality(Before(i))
  <2>1. DOMAIN thirds = 1..n
    OBVIOUS
  <2> QED
    BY <2>1 DEF RankOf, Ahead
<1>5. \A i \in 1..n : \A S \in SUBSET (1..n) :
        Before(i) \cup {i} \subseteq S => RankOf(thirds, i) <= Cardinality(S)
  <2> TAKE i \in 1..n
  <2> TAKE S \in SUBSET (1..n)
  <2> HAVE Before(i) \cup {i} \subseteq S
  <2>1. i \notin Before(i)
    BY AheadIsTotal
  <2>2. Cardinality(Before(i) \cup {i}) = Cardinality(Before(i)) + 1
    BY <1>3, <2>1, FS_AddElement
  <2>3. IsFiniteSet(S) /\ Cardinality(S) \in Nat
    BY <1>1, FS_Subset, FS_CardinalityType
  <2>4. Cardinality(Before(i) \cup {i}) <= Cardinality(S)
    BY <2>3, FS_Subset
  <2> DEFINE x == Cardinality(Before(i))
             y == Cardinality(Before(i) \cup {i})
             z == Cardinality(S)
             r == RankOf(thirds, i)
  <2>5. x \in Nat /\ z \in Nat /\ y = x + 1 /\ y <= z /\ r = 1 + x
    BY <1>3, <1>4, <2>2, <2>3, <2>4
  <2> HIDE DEF x, y, z, r
  <2>6. r <= z
    BY <2>5
  <2> QED
    BY <2>6 DEF r, z
<1>6. ASSUME NEW i \in 1..n PROVE RankOf(thirds, i) \in 1..n
  <2>1. Before(i) \cup {i} \subseteq 1..n
    OBVIOUS
  <2>2. RankOf(thirds, i) <= n
    BY <1>1, <1>5, <2>1
  <2>3. Cardinality(Before(i)) \in Nat /\ RankOf(thirds, i) = 1 + Cardinality(Before(i))
    BY <1>3, <1>4
  <2> HIDE DEF Before
  <2> QED
    BY <2>2, <2>3
<1>7. ASSUME NEW i \in 1..n, NEW j \in 1..n, Ahead(thirds, j, i)
      PROVE  RankOf(thirds, j) < RankOf(thirds, i)
  <2>1. \A k \in 1..n : Ahead(thirds, k, j) => Ahead(thirds, k, i)
    BY <1>7, AheadIsTotal
  <2>2. Before(j) \cup {j} \subseteq Before(i)
    BY <1>7, <2>1
  <2>3. RankOf(thirds, j) <= Cardinality(Before(i))
    BY <1>2, <1>5, <2>2
  <2>4. RankOf(thirds, j) \in Nat
    BY <1>6
  <2>5. Cardinality(Before(i)) \in Nat /\ RankOf(thirds, i) = 1 + Cardinality(Before(i))
    BY <1>3, <1>4
  <2> HIDE DEF Before
  <2> QED
    BY <2>3, <2>4, <2>5
<1>8. ASSUME NEW i \in 1..n, NEW j \in 1..n, RankOf(thirds, i) = RankOf(thirds, j)
      PROVE  i = j
  <2>1. RankOf(thirds, i) \in Nat
    BY <1>6
  <2>2. ~ Ahead(thirds, i, j) /\ ~ Ahead(thirds, j, i)
    BY <1>7, <1>8, <2>1
  <2> QED
    BY <2>2, AheadIsTotal
<1>9. ASSUME NEW k \in 1..n PROVE \E i \in 1..n : RankOf(thirds, i) = k
  <2> DEFINE rank == [i \in 1..n |-> RankOf(thirds, i)]
  <2>1. rank \in Injection(1..n, 1..n)
    BY <1>6, <1>8 DEF Injection, IsInjective
  <2> HIDE DEF rank
  <2>2. rank \in Surjection(1..n, 1..n)
    BY <1>1, <2>1, FS_Injection
  <2>3. PICK i \in 1..n : rank[i] = k
    BY <2>2 DEF Surjection
  <2> QED
    BY <2>3 DEF rank
<1> QED
  BY <1>6, <1>7, <1>8, <1>9

\* Twelve letters, each of one group.
LEMMA TwelveLetters ==
  /\ DOMAIN Letters = 1..12
  /\ \A i \in 1..12 : Letters[i] \in Group
  /\ \A g \in Group : \E i \in 1..12 : Letters[i] = g
  /\ \A i, j \in 1..12 : Letters[i] = Letters[j] => i = j
<1>1. DOMAIN Letters = 1..12
  BY DEF Letters
<1>2. \A i, j \in 1..12 : Letters[i] = Letters[j] => i = j
  BY DEF Letters
<1> QED
  BY <1>1, <1>2 DEF Group

\* The aggregate ranks twelve thirds and takes the first eight of them.
LEMMA EightAreClassified ==
  ASSUME NEW f, f.groups \in [Group -> GroupRow]
  PROVE  LET C == BestThirdCandidates(f)
         IN  /\ C \in [1..12 -> Candidate]
             /\ \A i \in 1..12 : /\ C[i].standing = f.groups[Letters[i]].third
                                 /\ C[i].team = <<Letters[i], 3>>
             /\ Classify(C) \in [1..8 -> Team]
             /\ \A k \in 1..8 : \E i \in 1..12 :
                  RankOf(C, i) = k /\ Classify(C)[k] = <<Letters[i], 3>>
<1> DEFINE C == BestThirdCandidates(f)
<1>1. \A i \in 1..12 : f.groups[Letters[i]].third \in Quad
  <2> TAKE i \in 1..12
  <2>1. f.groups[Letters[i]] \in GroupRow
    BY TwelveLetters
  <2>2. f.groups[Letters[i]].third \in Standing \cup {BlankStanding}
    BY <2>1 DEF GroupRow
  <2> QED
    BY <2>2, KnockoutAssumption DEF BlankStanding, Quad
<1>2. C = [i \in 1..12 |-> [team     |-> <<Letters[i], 3>>,
                            standing |-> f.groups[Letters[i]].third]]
  BY TwelveLetters DEF BestThirdCandidates
<1>3. \A i \in 1..12 : <<Letters[i], 3>> \in Team
  BY TwelveLetters DEF Team
<1>4. C \in [1..12 -> Candidate]
  BY <1>1, <1>2, <1>3 DEF Candidate
<1>5. \A i \in 1..12 : /\ C[i].standing = f.groups[Letters[i]].third
                       /\ C[i].team = <<Letters[i], 3>>
  BY <1>2
<1>6. DOMAIN C = 1..12 /\ Len(C) = 12
  BY <1>4
<1> HIDE DEF C
<1>7. Classify(C) = [k \in 1..8 |-> C[CHOOSE i \in 1..12 : RankOf(C, i) = k].team]
  BY <1>6 DEF Classify
<1>8. \A k \in 1..8 : \E i \in 1..12 :
        RankOf(C, i) = k /\ Classify(C)[k] = <<Letters[i], 3>>
  <2> TAKE k \in 1..8
  <2> DEFINE i == CHOOSE x \in 1..12 : RankOf(C, x) = k
  <2>1. \E x \in 1..12 : RankOf(C, x) = k
    <3>1. PICK n \in Nat : n = 12
      OBVIOUS
    <3>2. C \in [1..n -> Candidate] /\ k \in 1..n
      BY <1>4, <3>1
    <3>3. \E x \in 1..n : RankOf(C, x) = k
      BY <3>2, RanksAreDistinct
    <3> QED
      BY <3>1, <3>3
  <2>2. i \in 1..12 /\ RankOf(C, i) = k
    BY <2>1
  <2>3. Classify(C)[k] = C[i].team
    BY <1>7
  <2> HIDE DEF i
  <2> QED
    BY <1>5, <2>2, <2>3
<1>9. Classify(C) \in [1..8 -> Team]
  <2> DEFINE best == Classify(C)
  <2>1. \A k \in 1..8 : best[k] \in Team
    BY <1>3, <1>8
  <2>2. best = [k \in 1..8 |-> best[k]]
    BY <1>7
  <2> HIDE DEF best
  <2>3. best \in [1..8 -> Team]
    BY <2>1, <2>2
  <2> QED
    BY <2>3 DEF best
<1> QED
  BY <1>4, <1>5, <1>8, <1>9 DEF C

\* The classified are a set that the query for the best thirds may show: eight groups,
\* and no third of another one ranks before one of theirs.
LEMMA ClassifiedAreBest ==
  ASSUME NEW f, f.groups \in [Group -> GroupRow]
  PROVE  LET best == Classify(BestThirdCandidates(f))
         IN  /\ \A k, l \in 1..8 : best[k] = best[l] => k = l
             /\ GetBestThirds(f, {g \in Group : \E k \in 1..8 : best[k] = <<g, 3>>})
<1> DEFINE C == BestThirdCandidates(f)
           best == Classify(C)
           S == {g \in Group : \E k \in 1..8 : best[k] = <<g, 3>>}
<1>1. /\ C \in [1..12 -> Candidate]
      /\ \A i \in 1..12 : C[i].standing = f.groups[Letters[i]].third
      /\ best \in [1..8 -> Team]
      /\ \A k \in 1..8 : \E i \in 1..12 : RankOf(C, i) = k /\ best[k] = <<Letters[i], 3>>
  BY EightAreClassified
<1> HIDE DEF C, best
<1>2. /\ \A i \in 1..12 : RankOf(C, i) \in 1..12
      /\ \A i, j \in 1..12 : Ahead(C, j, i) => RankOf(C, j) < RankOf(C, i)
      /\ \A i, j \in 1..12 : RankOf(C, i) = RankOf(C, j) => i = j
  <2>1. PICK n \in Nat : n = 12
    OBVIOUS
  <2>2. C \in [1..n -> Candidate]
    BY <1>1, <2>1
  <2>3. /\ \A i \in 1..n : RankOf(C, i) \in 1..n
        /\ \A i, j \in 1..n : Ahead(C, j, i) => RankOf(C, j) < RankOf(C, i)
        /\ \A i, j \in 1..n : RankOf(C, i) = RankOf(C, j) => i = j
    BY <2>2, RanksAreDistinct
  <2> QED
    BY <2>1, <2>3
<1>3. \A k \in 1..8, i \in 1..12 : best[k] = <<Letters[i], 3>> <=> RankOf(C, i) = k
  <2> TAKE k \in 1..8, i \in 1..12
  <2>1. PICK j \in 1..12 : RankOf(C, j) = k /\ best[k] = <<Letters[j], 3>>
    BY <1>1
  <2> QED
    BY <1>2, <2>1, TwelveLetters
<1>4. ASSUME NEW k \in 1..8, NEW l \in 1..8, best[k] = best[l]
      PROVE  k = l
  BY <1>1, <1>3, <1>4
<1>5. Cardinality(S) = 8
  <2> DEFINE third == [k \in 1..8 |-> CHOOSE g \in Group : best[k] = <<g, 3>>]
  <2>1. \A k \in 1..8 : \E g \in Group : best[k] = <<g, 3>>
    BY <1>1, TwelveLetters
  <2>2. \A k \in 1..8 : third[k] \in Group /\ best[k] = <<third[k], 3>>
    BY <2>1
  <2> HIDE DEF third
  <2>3. \A g \in Group, k \in 1..8 : best[k] = <<g, 3>> => g = third[k]
    BY <2>2
  <2>4. third \in Bijection(1..8, S)
    <3>1. third \in [1..8 -> S]
      BY <2>2 DEF third
    <3>2. \A k, l \in 1..8 : third[k] = third[l] => k = l
      BY <1>4, <2>2
    <3>3. \A g \in S : \E k \in 1..8 : third[k] = g
      BY <2>3
    <3> HIDE DEF S
    <3> QED
      BY <3>1, <3>2, <3>3 DEF Bijection, Injection, Surjection, IsInjective
  <2>5. IsFiniteSet(1..8) /\ Cardinality(1..8) = 8
    <3>1. PICK n \in Nat : n = 8
      OBVIOUS
    <3>2. IsFiniteSet(1..n) /\ Cardinality(1..n) = n
      BY FS_Interval
    <3> QED
      BY <3>1, <3>2
  <2> HIDE DEF S
  <2> QED
    BY <2>4, <2>5, FS_Bijection DEF ExistsBijection
<1>6. ASSUME NEW g \in S, NEW h \in Group \ S
      PROVE  ~ SqlBefore(f.groups[h].third, f.groups[g].third)
  <2>1. PICK i \in 1..12, j \in 1..12 : Letters[i] = g /\ Letters[j] = h
    BY TwelveLetters
  <2>2. PICK k \in 1..8 : RankOf(C, i) = k
    BY <1>3, <2>1
  <2>3. ~ (RankOf(C, j) \in 1..8)
    BY <1>3, <2>1
  <2>4. ~ (RankOf(C, j) < RankOf(C, i))
    BY <1>2, <2>2, <2>3
  <2>5. ~ StandingLess(C[j].standing, C[i].standing)
    BY <1>2, <2>4 DEF Ahead
  <2>6. C[i].standing = f.groups[g].third /\ C[j].standing = f.groups[h].third
    BY <1>1, <2>1
  <2> QED
    BY <2>5, <2>6 DEF StandingLess, SqlBefore
<1>7. GetBestThirds(f, S)
  BY <1>5, <1>6 DEF GetBestThirds
<1> QED
  BY <1>4, <1>7 DEF best, C

-----------------------------------------------------------------------------
(* The places of the round of 32.                                          *)

\* The places, home and then away, that do not depend on the thirds.
FixedPlaces ==
  << <<"A", 1>>, <<"C", 1>>, <<"E", 1>>, <<"G", 1>>, <<"I", 1>>, <<"K", 1>>,
     <<"B", 1>>, <<"D", 1>>, <<"F", 1>>, <<"H", 1>>, <<"J", 1>>, <<"L", 1>>,
     <<"E", 2>>, <<"G", 2>>, <<"I", 2>>, <<"K", 2>>, <<"B", 2>>, <<"D", 2>>,
     <<"F", 2>>, <<"H", 2>>, <<"J", 2>>, <<"L", 2>>, <<"A", 2>>, <<"C", 2>> >>

Places(round) == [i \in 1..32 |-> IF i <= 16 THEN round[i].home ELSE round[i - 16].away]

\* They are the firsts and seconds of the groups, each once.
LEMMA FirstsAndSeconds ==
  /\ \A i \in 1..24 : FixedPlaces[i] \in Group \X {1, 2}
  /\ \A i, j \in 1..24 : FixedPlaces[i] = FixedPlaces[j] => i = j
  /\ \A t \in Group \X {1, 2} : \E i \in 1..24 : FixedPlaces[i] = t
<1>1. Group = {"A", "B", "C", "D", "E", "F", "G", "H", "I", "J", "K", "L"}
  BY DEF Group, Letters
<1>2. \A i \in 1..24 : FixedPlaces[i] \in Group \X {1, 2}
  BY <1>1 DEF FixedPlaces
<1>3. \A i, j \in 1..24 : FixedPlaces[i] = FixedPlaces[j] => i = j
  BY DEF FixedPlaces
<1>4. \A t \in Group \X {1, 2} : \E i \in 1..24 : FixedPlaces[i] = t
  BY <1>1 DEF FixedPlaces
<1> QED
  BY <1>2, <1>3, <1>4

\* The round is of these places and the classified thirds.
LEMMA RoundOf32 ==
  ASSUME NEW best \in [1..8 -> Team]
  PROVE  LET round == BuildRoundOf32(best)
         IN  /\ DOMAIN round = 1..16 /\ round \in Seq(KnockoutMatch)
             /\ \A i \in 1..24 : Places(round)[i] = FixedPlaces[i]
             /\ \A i \in 25..32 : Places(round)[i] = best[i - 24]
<1> DEFINE slots == RoundOf32Slots(best)
           round == BuildRoundOf32(best)
<1>1. \A k \in 1..8 : BestThirdsOrNil(best, k) = best[k]
  <2>1. Len(best) = 8
    OBVIOUS
  <2> QED
    BY <2>1 DEF BestThirdsOrNil
<1>2. round = [i \in 1..16 |-> [number |-> 48 + i, home |-> slots[i][1],
                                away |-> slots[i][2], score |-> NoScore,
                                parentHome |-> NoMatch, parentAway |-> NoMatch]]
  BY DEF BuildRoundOf32
<1>3. /\ \A i \in 1..16 : slots[i][1] = FixedPlaces[i]
      /\ \A i \in 1..8 : slots[i][2] = FixedPlaces[i + 16]
      /\ \A i \in 9..16 : slots[i][2] = best[i - 8]
  BY <1>1 DEF RoundOf32Slots, FixedPlaces
<1>4. \A i \in 1..16 : slots[i][1] \in Slot /\ slots[i][2] \in Slot
  BY <1>3, FirstsAndSeconds DEF Slot, Team
<1> HIDE DEF slots, round
<1>5. DOMAIN round = 1..16
  BY <1>2
<1>6. \A i \in 1..16 : round[i] \in KnockoutMatch
  BY <1>2, <1>4 DEF KnockoutMatch
<1>7. \A i \in 1..16 : round[i].home = slots[i][1] /\ round[i].away = slots[i][2]
  BY <1>2
<1>8. \A i \in 1..24 : Places(round)[i] = FixedPlaces[i]
  BY <1>3, <1>7 DEF Places
<1>9. \A i \in 25..32 : Places(round)[i] = best[i - 24]
  BY <1>3, <1>7 DEF Places
<1>10. round \in Seq(KnockoutMatch)
  BY <1>2, <1>5, <1>6
<1> QED
  BY <1>5, <1>8, <1>9, <1>10 DEF round

\* The teams of a round are those of the draw from f.
DrawnFrom(f, round) ==
  LET drawn == BuildRoundOf32(Classify(BestThirdCandidates(f)))
  IN /\ DOMAIN round = 1..16
     /\ \A i \in 1..16 : round[i].home = drawn[i].home /\ round[i].away = drawn[i].away

\* A round with the teams of the draw has a place for every first and second and for
\* the classified thirds, and each of its teams once.
LEMMA DrawHoldsTheQualified ==
  ASSUME NEW f, f.groups \in [Group -> GroupRow], NEW round, DrawnFrom(f, round)
  PROVE  /\ \A i, j \in 1..32 : Places(round)[i] = Places(round)[j] => i = j
         /\ Group \X {1, 2} \subseteq {Places(round)[i] : i \in 1..32}
         /\ GetBestThirds(f, ThirdsDrawn(round))
<1> DEFINE best == Classify(BestThirdCandidates(f))
           drawn == BuildRoundOf32(best)
           S == {g \in Group : \E k \in 1..8 : best[k] = <<g, 3>>}
<1>1. /\ best \in [1..8 -> Team]
      /\ \A k \in 1..8 : \E g \in Group : best[k] = <<g, 3>>
      /\ \A k, l \in 1..8 : best[k] = best[l] => k = l
      /\ GetBestThirds(f, S)
  <2>1. /\ best \in [1..8 -> Team]
        /\ \A k \in 1..8 : \E i \in 1..12 : best[k] = <<Letters[i], 3>>
    BY EightAreClassified
  <2>2. \A k \in 1..8 : \E g \in Group : best[k] = <<g, 3>>
    BY <2>1, TwelveLetters
  <2>3. (\A k, l \in 1..8 : best[k] = best[l] => k = l) /\ GetBestThirds(f, S)
    BY ClassifiedAreBest
  <2> QED
    BY <2>1, <2>2, <2>3
<1>2. /\ DOMAIN round = 1..16
      /\ \A i \in 1..16 : round[i].home = drawn[i].home /\ round[i].away = drawn[i].away
  BY DEF DrawnFrom
<1> HIDE DEF best
<1>3. /\ \A i \in 1..24 : Places(drawn)[i] = FixedPlaces[i]
      /\ \A i \in 25..32 : Places(drawn)[i] = best[i - 24]
  BY <1>1, RoundOf32
<1> HIDE DEF drawn
<1> DEFINE p == Places(round)
<1>4. p = Places(drawn)
  BY <1>2 DEF Places
<1>5. /\ \A i \in 1..24 : p[i] = FixedPlaces[i]
      /\ \A i \in 25..32 : p[i] = best[i - 24]
  BY <1>3, <1>4
<1>6. \A i \in 1..16 : p[i] = round[i].home /\ p[i + 16] = round[i].away
  BY DEF Places
<1> HIDE DEF p
<1>7. \A i \in 1..24 : \A j \in 25..32 : p[i] # p[j]
  <2> TAKE i \in 1..24
  <2> TAKE j \in 25..32
  <2>1. j - 24 \in 1..8
    OBVIOUS
  <2>2. PICK g \in Group : p[j] = <<g, 3>>
    BY <1>1, <1>5, <2>1
  <2>3. p[i] \in Group \X {1, 2}
    BY <1>5, FirstsAndSeconds
  <2> QED
    BY <2>2, <2>3
<1>8. ASSUME NEW i \in 1..32, NEW j \in 1..32, p[i] = p[j] PROVE i = j
  <2>1. CASE i \in 1..24 /\ j \in 1..24
    BY <1>5, <1>8, <2>1, FirstsAndSeconds
  <2>2. CASE i \in 25..32 /\ j \in 25..32
    <3>1. i - 24 \in 1..8 /\ j - 24 \in 1..8
      BY <2>2
    <3>2. best[i - 24] = best[j - 24]
      BY <1>5, <1>8, <2>2
    <3>3. i - 24 = j - 24
      BY <1>1, <3>1, <3>2
    <3> QED
      BY <2>2, <3>3
  <2>3. (i \in 1..24 \/ i \in 25..32) /\ (j \in 1..24 \/ j \in 25..32)
    OBVIOUS
  <2> QED
    BY <1>7, <1>8, <2>1, <2>2, <2>3
<1>9. Group \X {1, 2} \subseteq {p[i] : i \in 1..32}
  <2> SUFFICES ASSUME NEW t \in Group \X {1, 2} PROVE \E i \in 1..32 : p[i] = t
    OBVIOUS
  <2>1. PICK i \in 1..24 : FixedPlaces[i] = t
    BY FirstsAndSeconds
  <2>2. i \in 1..32 /\ p[i] = t
    BY <1>5, <2>1
  <2> QED
    BY <2>2
<1>10. ThirdsDrawn(round) = S
  <2>1. ASSUME NEW g \in Group, NEW i \in 1..32, p[i] = <<g, 3>>
        PROVE  \E k \in 1..8 : best[k] = <<g, 3>>
    <3>1. ~ (i \in 1..24)
      <4> SUFFICES ASSUME i \in 1..24 PROVE FALSE
        OBVIOUS
      <4>1. p[i] \in Group \X {1, 2}
        BY <1>5, FirstsAndSeconds
      <4> QED
        BY <2>1, <4>1
    <3>2. i \in 25..32 /\ i - 24 \in 1..8
      BY <3>1
    <3> QED
      BY <1>5, <2>1, <3>2
  <2>2. ASSUME NEW g \in Group, NEW k \in 1..8, best[k] = <<g, 3>>
        PROVE  k + 8 \in 1..16 /\ round[k + 8].away = <<g, 3>>
    <3>1. k + 8 \in 1..16 /\ k + 24 \in 25..32 /\ (k + 8) + 16 = k + 24 /\ (k + 24) - 24 = k
      OBVIOUS
    <3>2. p[k + 24] = best[k]
      BY <1>5, <3>1
    <3>3. p[k + 24] = round[k + 8].away
      BY <1>6, <3>1
    <3> QED
      BY <2>2, <3>1, <3>2, <3>3
  <2>3. \A i \in 1..16 : i \in 1..32 /\ i + 16 \in 1..32
    OBVIOUS
  <2>4. ThirdsDrawn(round) \subseteq S
    BY <1>2, <1>6, <2>1, <2>3 DEF ThirdsDrawn
  <2>5. S \subseteq ThirdsDrawn(round)
    BY <1>2, <2>2 DEF ThirdsDrawn
  <2> QED
    BY <2>4, <2>5
<1> QED
  BY <1>1, <1>8, <1>9, <1>10 DEF p

-----------------------------------------------------------------------------
(* The bracket.                                                            *)

\* A position is a round and a match of it.
LEMMA PositionsOf ==
  ASSUME NEW rounds
  PROVE  /\ \A n \in Positions(rounds) : /\ n = <<n[1], n[2]>> /\ n[1] \in DOMAIN rounds
                                         /\ n[2] \in DOMAIN rounds[n[1]]
         /\ \A r \in DOMAIN rounds : \A i \in DOMAIN rounds[r] : <<r, i>> \in Positions(rounds)
BY DEF Positions

\* A function on an interval from 1 is a sequence.
LEMMA FunctionIsSeq ==
  ASSUME NEW S, NEW n \in Nat, NEW q, q = [i \in 1..n |-> q[i]], \A i \in 1..n : q[i] \in S
  PROVE  q \in Seq(S)
<1>1. q \in [1..n -> S]
  OBVIOUS
<1> QED
  BY <1>1

\* The bracket is of five rounds: the draw, and four whose slots are unresolved.
LEMMA BracketIsDrawn ==
  ASSUME NEW f, f.groups \in [Group -> GroupRow]
  PROVE  LET rounds == GenerateKnockoutBracket(f)
         IN  /\ rounds \in Seq(Seq(KnockoutMatch)) /\ rounds # <<>>
             /\ DrawnFrom(f, rounds[1])
             /\ \A n \in Positions(rounds) :
                  n[1] # 1 => /\ rounds[n[1]][n[2]].home = Unresolved
                              /\ rounds[n[1]][n[2]].away = Unresolved
                              /\ rounds[n[1]][n[2]].score = NoScore
<1> DEFINE best == Classify(BestThirdCandidates(f))
           first == BuildRoundOf32(best)
           rounds == GenerateKnockoutBracket(f)
<1>1. best \in [1..8 -> Team]
  BY EightAreClassified
<1>2. first \in Seq(KnockoutMatch) /\ DOMAIN first = 1..16
  <2> HIDE DEF best
  <2> QED
    BY <1>1, RoundOf32
<1> DEFINE Blank(round) ==
      /\ round \in Seq(KnockoutMatch)
      /\ \A i \in DOMAIN round : /\ round[i].home = Unresolved
                                 /\ round[i].away = Unresolved
                                 /\ round[i].score = NoScore
<1>3. ASSUME NEW count \in Nat, NEW start \in Nat
      PROVE  Blank(BuildEmptyRound(count, start))
  <2> DEFINE round == BuildEmptyRound(count, start)
  <2>1. round = [i \in 1..count |-> [number |-> start + i - 1, home |-> Unresolved,
                                     away |-> Unresolved, score |-> NoScore,
                                     parentHome |-> NoMatch, parentAway |-> NoMatch]]
    BY DEF BuildEmptyRound
  <2>2. \A i \in 1..count : start + i - 1 \in Nat
    OBVIOUS
  <2> HIDE DEF round
  <2>3. DOMAIN round = 1..count
    BY <2>1
  <2>4. \A i \in 1..count : round[i] \in KnockoutMatch
    BY <2>1, <2>2 DEF KnockoutMatch, Slot
  <2>5. round \in Seq(KnockoutMatch)
    <3>1. round = [i \in 1..count |-> round[i]]
      BY <2>1
    <3> QED
      BY <2>4, <3>1, FunctionIsSeq
  <2>6. \A i \in 1..count : /\ round[i].home = Unresolved /\ round[i].away = Unresolved
                           /\ round[i].score = NoScore
    BY <2>1
  <2> QED
    BY <2>3, <2>5, <2>6 DEF round
<1> DEFINE a == BuildEmptyRound(8, 65)
           b == BuildEmptyRound(4, 73)
           c == BuildEmptyRound(1, 77)
           d == BuildEmptyRound(1, 78)
<1>4. rounds = <<first, a, b, c, d>>
  BY DEF GenerateKnockoutBracket
<1>5. Blank(a) /\ Blank(b) /\ Blank(c) /\ Blank(d)
  <2> HIDE DEF Blank
  <2>1. 8 \in Nat /\ 65 \in Nat /\ 4 \in Nat /\ 73 \in Nat
    OBVIOUS
  <2>2. 1 \in Nat /\ 77 \in Nat /\ 78 \in Nat
    OBVIOUS
  <2>3. Blank(a) /\ Blank(b)
    BY <1>3, <2>1, Zenon
  <2>4. Blank(c) /\ Blank(d)
    BY <1>3, <2>2, Zenon
  <2> QED
    BY <2>3, <2>4
<1>6. DrawnFrom(f, first)
  BY <1>2 DEF DrawnFrom
<1> HIDE DEF first, a, b, c, d, rounds
<1>7. rounds \in Seq(Seq(KnockoutMatch)) /\ rounds # <<>> /\ rounds[1] = first
  BY <1>2, <1>4, <1>5
<1>8. ASSUME NEW n \in Positions(rounds), n[1] # 1
      PROVE  /\ rounds[n[1]][n[2]].home = Unresolved /\ rounds[n[1]][n[2]].away = Unresolved
             /\ rounds[n[1]][n[2]].score = NoScore
  <2>1. n[1] \in DOMAIN rounds /\ n[2] \in DOMAIN rounds[n[1]]
    BY PositionsOf
  <2>2. n[1] \in {2, 3, 4, 5}
    BY <1>4, <1>8, <2>1
  <2>3. rounds[2] = a /\ rounds[3] = b /\ rounds[4] = c /\ rounds[5] = d
    BY <1>4
  <2> QED
    BY <1>5, <2>1, <2>2, <2>3
<1> QED
  BY <1>6, <1>7, <1>8 DEF rounds

\* No match names its parents, so a result changes the score of its own match and
\* nothing else.
LEMMA AdvanceScoresOnly ==
  ASSUME NEW rounds \in Seq(Seq(KnockoutMatch)), NEW m \in Positions(rounds),
         NEW s \in Score, NEW new, new = AdvanceKnockoutBracket(rounds, m, s)
  PROVE  /\ new \in Seq(Seq(KnockoutMatch)) /\ Positions(new) = Positions(rounds)
         /\ DOMAIN new = DOMAIN rounds
         /\ \A r \in DOMAIN rounds :
              /\ DOMAIN new[r] = DOMAIN rounds[r]
              /\ \A i \in DOMAIN rounds[r] :
                   new[r][i] = IF <<r, i>> = m THEN WithScore(rounds[r][i], s)
                                               ELSE rounds[r][i]
<1> DEFINE row(r, i) == IF <<r, i>> = m THEN WithScore(rounds[r][i], s)
                                        ELSE rounds[r][i]
<1>1. \A r \in DOMAIN rounds : rounds[r] \in Seq(KnockoutMatch)
  OBVIOUS
<1>2. \A r \in DOMAIN rounds : \A i \in DOMAIN rounds[r] : rounds[r][i] \in KnockoutMatch
  BY <1>1
<1>3. m = <<m[1], m[2]>> /\ m[1] \in DOMAIN rounds /\ m[2] \in DOMAIN rounds[m[1]]
  BY PositionsOf
<1>4. m # NoMatch /\ DOMAIN rounds \subseteq Nat \ {0}
  BY <1>3 DEF NoMatch
<1>5. \A r \in DOMAIN rounds : \A i \in DOMAIN rounds[r] :
        rounds[r][i].parentHome = NoMatch /\ rounds[r][i].parentAway = NoMatch
  BY <1>2 DEF KnockoutMatch
<1>6. FindNextMatch(rounds, m) = NoMatch
  <2>1. \A n \in Positions(rounds) :
          m \notin {rounds[n[1]][n[2]].parentHome, rounds[n[1]][n[2]].parentAway}
    BY <1>4, <1>5, PositionsOf
  <2> QED
    BY <2>1 DEF FindNextMatch
<1>7. \A r \in DOMAIN rounds : \A i \in DOMAIN rounds[r] : <<r, i>> # NoMatch
  BY <1>4 DEF NoMatch
<1> DEFINE match == rounds[m[1]][m[2]]
           scored(r, i) == IF <<r, i>> = m THEN WithScore(match, s) ELSE rounds[r][i]
           resolved(r, i) == IF <<r, i>> = FindNextMatch(rounds, m)
                             THEN WithWinner(scored(r, i), match, m, s) ELSE scored(r, i)
           e(r, i) == IF Phases[m[1]] = "SEMIFINAL" /\ Phases[r] = "THIRD_PLACE"
                      THEN AssignThirdPlaceSlot(resolved(r, i), match, m, s)
                      ELSE resolved(r, i)
<1>9. new = [r \in DOMAIN rounds |-> [i \in DOMAIN rounds[r] |-> e(r, i)]]
  BY DEF AdvanceKnockoutBracket
<1>10. DOMAIN new = DOMAIN rounds /\ \A r \in DOMAIN rounds : DOMAIN new[r] = DOMAIN rounds[r]
  <2> HIDE DEF e
  <2> QED
    BY <1>9
<1>11. ASSUME NEW r \in DOMAIN rounds, NEW i \in DOMAIN rounds[r]
       PROVE  new[r][i] = row(r, i)
  <2>1. new[r][i] = e(r, i)
    <3> HIDE DEF e
    <3> QED
      BY <1>9
  <2>2. scored(r, i) = row(r, i)
    OBVIOUS
  <2> HIDE DEF scored
  <2>3. resolved(r, i) = row(r, i)
    BY <1>6, <1>7, <2>2
  <2>4. row(r, i).parentHome = NoMatch /\ row(r, i).parentAway = NoMatch
    BY <1>2, <1>5 DEF KnockoutMatch, WithScore
  <2> HIDE DEF resolved, row
  <2>5. e(r, i) = row(r, i)
    BY <1>4, <2>3, <2>4 DEF AssignThirdPlaceSlot
  <2> QED
    BY <2>1, <2>5
<1>12. ASSUME NEW r \in DOMAIN rounds, NEW i \in DOMAIN rounds[r]
       PROVE  row(r, i) \in KnockoutMatch
  BY <1>2 DEF KnockoutMatch, WithScore
<1>13. \A r \in DOMAIN rounds : new[r] \in Seq(KnockoutMatch)
  <2> TAKE r \in DOMAIN rounds
  <2> HIDE DEF e
  <2>1. new[r] = [i \in DOMAIN rounds[r] |-> new[r][i]]
    BY <1>9
  <2>2. \A i \in DOMAIN rounds[r] : new[r][i] \in KnockoutMatch
    BY <1>11, <1>12
  <2>3. PICK n \in Nat : DOMAIN rounds[r] = 1..n
    BY <1>1
  <2>4. PICK q : q = new[r]
    OBVIOUS
  <2>5. q = [i \in 1..n |-> q[i]] /\ \A i \in 1..n : q[i] \in KnockoutMatch
    BY <2>1, <2>2, <2>3, <2>4
  <2>6. q \in Seq(KnockoutMatch)
    BY <2>5, FunctionIsSeq
  <2> QED
    BY <2>4, <2>6
<1>14. new \in Seq(Seq(KnockoutMatch))
  <2> HIDE DEF e
  <2>1. new = [r \in DOMAIN rounds |-> new[r]]
    BY <1>9
  <2>2. PICK n \in Nat : DOMAIN rounds = 1..n
    OBVIOUS
  <2>3. new = [r \in 1..n |-> new[r]] /\ \A r \in 1..n : new[r] \in Seq(KnockoutMatch)
    BY <1>13, <2>1, <2>2
  <2> QED
    BY <2>3, FunctionIsSeq
<1>15. Positions(new) = Positions(rounds)
  BY <1>10 DEF Positions
<1> QED
  BY <1>10, <1>11, <1>14, <1>15

-----------------------------------------------------------------------------
(* The invariant.                                                          *)

\* What an administration command holds is not newer than the rows.
AdminInv == admin.f.version <= stored.version

\* A group is completed exactly when it has no match left, if that is stored; if not,
\* the stage goes on.
StatusesInv ==
  /\ "groupStatus" \in repaired =>
       /\ \A g \in Group : stored.groups[g].open <=> stored.groups[g].status # "COMPLETED"
       /\ (\A g \in Group : ~ stored.groups[g].open) <=> stored.rounds # <<>>
       /\ stored.rounds # <<>> <=> stored.status # "GROUP_STAGE"
  /\ "groupStatus" \notin repaired =>
       /\ \A g \in Group : stored.groups[g].status # "COMPLETED"
       /\ stored.rounds = <<>> /\ stored.status = "GROUP_STAGE"

\* The round of 32 has the teams that the stored tables send there, and no other round
\* has a team.
DrawInv ==
  stored.rounds # <<>> =>
    /\ DrawnFrom(stored, stored.rounds[1])
    /\ \A n \in Positions(stored.rounds) :
         n[1] # 1 => /\ stored.rounds[n[1]][n[2]].home = Unresolved
                     /\ stored.rounds[n[1]][n[2]].away = Unresolved

\* The bracket but for its scores.
SameTeams(round, other) ==
  /\ DOMAIN round = DOMAIN other
  /\ \A i \in DOMAIN round :
       [round[i] EXCEPT !.score = NoScore] = [other[i] EXCEPT !.score = NoScore]

\* What was announced of the bracket and of a result is stored.
AnnouncedInv ==
  \A e \in announced :
    /\ e.type = "KnockoutBracketGenerated" =>
         stored.rounds # <<>> /\ SameTeams(e.round, stored.rounds[1])
    /\ e.type = "KnockoutMatchAdvanced" =>
         /\ e.of \in Positions(stored.rounds)
         /\ LET match == stored.rounds[e.of[1]][e.of[2]]
            IN match.score # NoScore /\ e = KnockoutMatchAdvanced(e.of, match, match.score)

\* Only matches of the round of 32 have a result.
NobodyAdvances ==
  /\ stored.status # "FINISHED"
  /\ \A n \in Positions(stored.rounds) :
       stored.rounds[n[1]][n[2]].score # NoScore => n[1] = 1

IInv == TypeOK /\ AdminInv /\ StatusesInv /\ DrawInv /\ AnnouncedInv /\ NobodyAdvances

-----------------------------------------------------------------------------

\* The aggregate that initialisation builds.
LEMMA BuiltIsTyped == BuiltFixture \in Fixture /\ BuiltFixture.version = 0
<1> DEFINE groups == [g \in Group |-> [status |-> "PENDING", open |-> TRUE,
                                       third |-> BlankStanding]]
<1>1. groups \in [Group -> GroupRow]
  BY DEF GroupRow
<1>2. <<>> \in Seq(Seq(KnockoutMatch))
  OBVIOUS
<1>3. BuiltFixture = [version |-> 0, status |-> "GROUP_STAGE", rounds |-> <<>>,
                      groups |-> groups]
  BY DEF BuiltFixture
<1> HIDE DEF groups
<1> QED
  BY <1>1, <1>2, <1>3 DEF Fixture

\* The stage begins with a match to be played and without a bracket.
LEMMA BracketInit == Init => IInv
<1> SUFFICES ASSUME Init PROVE IInv
  OBVIOUS
<1>1. PICK thirds \in InitialThirds :
        stored = [version |-> 66, status |-> "GROUP_STAGE", rounds |-> <<>>,
                  groups  |-> [g \in Group |->
                    [status |-> IF "groupStatus" \notin repaired THEN "PENDING"
                                ELSE IF g \in Open THEN "IN_PROGRESS"
                                ELSE "COMPLETED",
                     open   |-> g \in Open,
                     third  |-> thirds[g]]]]
  BY DEF Init
<1>2. thirds \in [Group -> Standing]
  BY KnockoutAssumption
<1>3. TypeOK
  <2>1. stored.groups \in [Group -> GroupRow]
    BY <1>1, <1>2 DEF GroupRow
  <2>2. <<>> \in Seq(Seq(KnockoutMatch))
    OBVIOUS
  <2>3. PICK groups \in [Group -> GroupRow] :
          stored = [version |-> 66, status |-> "GROUP_STAGE", rounds |-> <<>>,
                    groups  |-> groups]
    BY <1>1, <2>1
  <2>4. stored \in Fixture
    BY <2>2, <2>3 DEF Fixture
  <2>5. admin \in [pc: {"idle", "save"}, f: Fixture]
    BY BuiltIsTyped DEF Init
  <2> QED
    BY <2>4, <2>5 DEF Init, TypeOK
<1>4. AdminInv
  BY <1>1, BuiltIsTyped DEF Init, AdminInv
<1>5. StatusesInv
  <2>1. \E g \in Group : g \in Open
    BY KnockoutAssumption
  <2> QED
    BY <1>1, <2>1 DEF StatusesInv
<1>6. stored.rounds = <<>> /\ stored.status = "GROUP_STAGE" /\ announced = {}
  BY <1>1 DEF Init
<1>7. \A n : n \notin Positions(<<>>)
  BY DEF Positions
<1> QED
  BY <1>3, <1>4, <1>5, <1>6, <1>7 DEF IInv, DrawInv, AnnouncedInv, NobodyAdvances

\* An administration command is refused by the lock.
LEMMA AdminRefused == IInv /\ AdminSave => UNCHANGED <<stored, announced>>
<1> SUFFICES ASSUME IInv, AdminSave PROVE UNCHANGED <<stored, announced>>
  OBVIOUS
<1>1. stored.version \in Nat /\ admin.f.version \in Nat /\ admin.f.version <= stored.version
  BY DEF IInv, TypeOK, Fixture, AdminInv
<1>2. ~ LockHeld(admin.f)
  BY <1>1 DEF LockHeld
<1> QED
  BY <1>2 DEF AdminSave, Save

\* An aggregate with another version and other groups.
LEMMA FixtureWithGroups ==
  ASSUME NEW f \in Fixture, NEW v, NEW groups,
         NEW h, h = [f EXCEPT !.groups = groups, !.version = v]
  PROVE  h = [version |-> v, status |-> f.status, groups |-> groups, rounds |-> f.rounds]
<1>1. h = [x \in {"version", "status", "groups", "rounds"} |-> h[x]]
  BY DEF Fixture
<1>2. h.version = v /\ h.status = f.status /\ h.groups = groups /\ h.rounds = f.rounds
  BY DEF Fixture
<1> QED
  BY ONLY <1>1, <1>2

\* An aggregate with another status and other rounds.
LEMMA FixtureWithRounds ==
  ASSUME NEW v, NEW s, NEW groups, NEW r, NEW status, NEW rounds,
         NEW f, f = [version |-> v, status |-> s, groups |-> groups, rounds |-> r],
         NEW h, h = [f EXCEPT !.rounds = rounds, !.status = status]
  PROVE  h = [version |-> v, status |-> status, groups |-> groups, rounds |-> rounds]
<1>1. h = [x \in {"version", "status", "groups", "rounds"} |-> h[x]]
  OBVIOUS
<1>2. h.version = v /\ h.status = status /\ h.groups = groups /\ h.rounds = rounds
  OBVIOUS
<1> QED
  BY ONLY <1>1, <1>2

\* A group result that is stored is stored whole: the group's last match, its status
\* if statuses are saved, and with the last group the bracket that is announced.
LEMMA GroupResultStores ==
  ASSUME IInv, NEW g \in Group, NEW t \in Standing, RegisterGroupResult(g, t)
  PROVE  /\ UNCHANGED <<admin, repaired>> /\ stored.groups[g].open
         /\ \/ UNCHANGED <<stored, announced>>
            \/ /\ stored' \in Fixture /\ stored'.version = stored.version + 1
               /\ ~ stored'.groups[g].open
               /\ \A h \in Group : h # g => /\ stored'.groups[h].open = stored.groups[h].open
                                            /\ stored'.groups[h].third = stored.groups[h].third
               /\ \A h \in Group :
                    stored'.groups[h].status =
                      IF h = g /\ "groupStatus" \in repaired THEN "COMPLETED"
                      ELSE stored.groups[h].status
               /\ \/ /\ "groupStatus" \in repaired
                     /\ \A h \in Group : stored'.groups[h].status = "COMPLETED"
                     /\ stored'.status = "KNOCKOUT"
                     /\ stored'.rounds = GenerateKnockoutBracket(stored')
                     /\ announced' = announced \cup {BracketGenerated(stored'.rounds)}
                  \/ /\ "groupStatus" \in repaired =>
                          \E h \in Group : stored'.groups[h].status # "COMPLETED"
                     /\ stored'.status = stored.status
                     /\ stored'.rounds = stored.rounds
                     /\ announced' = announced
<1> DEFINE row == [status |-> "COMPLETED", open |-> FALSE, third |-> t]
           groups == [stored.groups EXCEPT ![g] = row]
           played == [version |-> stored.version + 1, status |-> stored.status,
                      groups |-> groups, rounds |-> stored.rounds]
           complete == AllGroupsComplete(played)
           f == CompleteGroup(stored, g, t)
           kept == [h \in Group |->
                      [f.groups[h] EXCEPT !.status =
                         IF "groupStatus" \in repaired THEN @
                         ELSE stored.groups[h].status]]
<1>1. /\ stored \in Fixture /\ stored.version \in Nat /\ stored.groups \in [Group -> GroupRow]
      /\ stored.rounds \in Seq(Seq(KnockoutMatch))
      /\ stored.status \in {"GROUP_STAGE", "KNOCKOUT", "FINISHED"}
  BY DEF IInv, TypeOK, Fixture
<1>2. row \in GroupRow
  BY DEF GroupRow
<1>3. /\ groups \in [Group -> GroupRow] /\ groups[g] = row
      /\ \A h \in Group : h # g => groups[h] = stored.groups[h]
  BY <1>1, <1>2
<1>4. f = IF complete
          THEN [version |-> stored.version + 1, status |-> "KNOCKOUT",
                groups |-> groups, rounds |-> GenerateKnockoutBracket(played)]
          ELSE played
  <2> DEFINE v == stored.version + 1
             rounds == GenerateKnockoutBracket(played)
  <2> HIDE DEF groups, v
  <2>1. [stored EXCEPT !.groups = groups, !.version = v]
          = [version |-> v, status |-> stored.status, groups |-> groups,
             rounds |-> stored.rounds]
    BY <1>1, FixtureWithGroups
  <2>2. f = IF complete
            THEN [played EXCEPT !.rounds = GenerateKnockoutBracket(played),
                                !.status = "KNOCKOUT"]
            ELSE played
    BY <2>1 DEF CompleteGroup, groups, row, v
  <2> HIDE DEF f, complete, rounds
  <2>3. [played EXCEPT !.rounds = rounds, !.status = "KNOCKOUT"]
          = [version |-> v, status |-> "KNOCKOUT", groups |-> groups, rounds |-> rounds]
    <3>1. PICK p : p = played
      OBVIOUS
    <3>2. p = [version |-> v, status |-> stored.status, groups |-> groups,
               rounds |-> stored.rounds]
      BY <3>1 DEF v
    <3> HIDE DEF played
    <3>3. PICK h : h = [p EXCEPT !.rounds = rounds, !.status = "KNOCKOUT"]
      OBVIOUS
    <3>4. h = [version |-> v, status |-> "KNOCKOUT", groups |-> groups, rounds |-> rounds]
      BY <3>2, <3>3, FixtureWithRounds
    <3> QED
      BY <3>1, <3>3, <3>4
  <2> QED
    BY <2>2, <2>3 DEF v, rounds
<1>5. UNCHANGED <<admin, repaired>> /\ stored.groups[g].open
  BY DEF RegisterGroupResult
<1>6. Save(f, IF f.status = "KNOCKOUT" THEN {BracketGenerated(f.rounds)} ELSE {})
  BY DEF RegisterGroupResult
<1>7. CASE ~ (LockHeld(f) /\ NumbersFree(f))
  <2>1. UNCHANGED <<stored, announced>>
    BY <1>6, <1>7 DEF Save
  <2> QED
    BY <1>5, <2>1
<1>8. CASE LockHeld(f) /\ NumbersFree(f)
  <2>1. /\ stored' = [f EXCEPT !.groups = kept]
        /\ announced' = announced \cup
             (IF f.status = "KNOCKOUT" THEN {BracketGenerated(f.rounds)} ELSE {})
    BY <1>6, <1>8 DEF Save
  <2>2. f.groups = groups
    BY <1>4
  <2> HIDE DEF f, groups
  <2>3. /\ kept \in [Group -> GroupRow]
        /\ \A h \in Group :
             /\ kept[h].open = groups[h].open /\ kept[h].third = groups[h].third
             /\ kept[h].status = IF "groupStatus" \in repaired THEN groups[h].status
                                 ELSE stored.groups[h].status
    BY <1>1, <1>3, <2>2 DEF GroupRow
  <2> HIDE DEF kept
  <2>4. /\ ~ kept[g].open
        /\ \A h \in Group : h # g => /\ kept[h].open = stored.groups[h].open
                                     /\ kept[h].third = stored.groups[h].third
        /\ \A h \in Group :
             kept[h].status = IF h = g /\ "groupStatus" \in repaired THEN "COMPLETED"
                              ELSE stored.groups[h].status
    BY <1>3, <2>3
  <2>5. complete <=> \A h \in Group : groups[h].status = "COMPLETED"
    BY DEF AllGroupsComplete
  <2>6. complete => "groupStatus" \in repaired
    <3>1. PICK h \in Group : h # g
      <4>1. "A" \in Group /\ "B" \in Group
        BY DEF Group, Letters
      <4> QED
        BY <4>1
    <3> QED
      BY <1>3, <2>5, <3>1 DEF IInv, StatusesInv
  <2>7. stored.status = "GROUP_STAGE"
    BY <1>5 DEF IInv, StatusesInv
  <2> HIDE DEF complete, played, row
  <2>8. CASE complete
    <3> DEFINE rounds == GenerateKnockoutBracket(played)
    <3>1. f = [version |-> stored.version + 1, status |-> "KNOCKOUT",
               groups |-> groups, rounds |-> rounds]
      BY <1>4, <2>8
    <3>2. rounds \in Seq(Seq(KnockoutMatch))
      <4>1. played.groups \in [Group -> GroupRow]
        BY <1>3 DEF played
      <4> QED
        BY <4>1, BracketIsDrawn
    <3> HIDE DEF rounds
    <3>3. stored' = [version |-> stored.version + 1, status |-> "KNOCKOUT",
                     groups |-> kept, rounds |-> rounds]
      BY <2>1, <3>1
    <3>4. rounds = GenerateKnockoutBracket(stored')
      <4>1. \A i \in DOMAIN Letters :
              played.groups[Letters[i]].third = stored'.groups[Letters[i]].third
        <5>1. \A h \in Group : played.groups[h].third = stored'.groups[h].third
          BY <2>3, <3>3 DEF played
        <5> QED
          BY <5>1, TwelveLetters
      <4>2. BestThirdCandidates(played) = BestThirdCandidates(stored')
        BY <4>1 DEF BestThirdCandidates
      <4> QED
        BY <4>2 DEF rounds, GenerateKnockoutBracket
    <3>5. stored' \in Fixture
      BY <1>1, <2>3, <3>2, <3>3 DEF Fixture
    <3>6. announced' = announced \cup {BracketGenerated(stored'.rounds)}
      BY <2>1, <3>1, <3>3
    <3>7. \A h \in Group : stored'.groups[h].status = "COMPLETED"
      BY <2>3, <2>5, <2>6, <2>8, <3>3
    <3>8. /\ stored'.version = stored.version + 1 /\ stored'.groups = kept
          /\ stored'.status = "KNOCKOUT" /\ stored'.rounds = rounds
      BY <3>3
    <3> QED
      BY <1>5, <2>4, <2>6, <2>8, <3>4, <3>5, <3>6, <3>7, <3>8
  <2>9. CASE ~ complete
    <3>1. f = [version |-> stored.version + 1, status |-> stored.status,
               groups |-> groups, rounds |-> stored.rounds]
      BY <1>4, <2>9 DEF played
    <3>2. stored' = [version |-> stored.version + 1, status |-> stored.status,
                     groups |-> kept, rounds |-> stored.rounds]
      BY <2>1, <3>1
    <3>3. stored' \in Fixture
      BY <1>1, <2>3, <3>2 DEF Fixture
    <3>4. announced' = announced
      BY <2>1, <2>7, <3>1
    <3>5. "groupStatus" \in repaired =>
            \E h \in Group : stored'.groups[h].status # "COMPLETED"
      BY <2>3, <2>5, <2>9, <3>2
    <3>6. /\ stored'.version = stored.version + 1 /\ stored'.groups = kept
          /\ stored'.status = stored.status /\ stored'.rounds = stored.rounds
      BY <3>2
    <3> QED
      BY <1>5, <2>4, <3>3, <3>4, <3>5, <3>6
  <2> QED
    BY <2>8, <2>9
<1> QED
  BY <1>7, <1>8

\* A knockout result that is stored is of a match of the round of 32 that had none, and
\* changes the score of that match and nothing else.
LEMMA KnockoutResultStores ==
  ASSUME IInv, NEW m, NEW s \in Score, RegisterKnockoutResult(m, s)
  PROVE  /\ UNCHANGED <<admin, repaired>>
         /\ m \in Positions(stored.rounds) /\ m[1] = 1
         /\ stored.rounds[m[1]][m[2]].score = NoScore
         /\ \/ UNCHANGED <<stored, announced>>
            \/ /\ stored' \in Fixture /\ stored'.version = stored.version + 1
               /\ stored'.status = stored.status /\ stored'.groups = stored.groups
               /\ stored'.rounds = AdvanceKnockoutBracket(stored.rounds, m, s)
               /\ announced' = announced
                    \cup {KnockoutMatchAdvanced(m, stored.rounds[m[1]][m[2]], s)}
<1> DEFINE rounds == AdvanceKnockoutBracket(stored.rounds, m, s)
           match == stored.rounds[m[1]][m[2]]
           f == AdvancedFixture(stored, m, s)
           kept == [h \in Group |->
                      [f.groups[h] EXCEPT !.status =
                         IF "groupStatus" \in repaired THEN @
                         ELSE stored.groups[h].status]]
<1>1. /\ stored \in Fixture /\ stored.version \in Nat /\ stored.groups \in [Group -> GroupRow]
      /\ stored.rounds \in Seq(Seq(KnockoutMatch))
      /\ stored.status \in {"GROUP_STAGE", "KNOCKOUT", "FINISHED"}
  BY DEF IInv, TypeOK, Fixture
<1>2. /\ m \in Positions(stored.rounds) /\ ValidResult(match, s)
      /\ Save(f, ResultEvents(m, match, s)) /\ UNCHANGED <<admin, repaired>>
  BY DEF RegisterKnockoutResult
<1>3. m[1] = 1 /\ Phases[m[1]] = "ROUND_OF_32"
  <2>1. stored.rounds # <<>>
    <3>1. DOMAIN stored.rounds # {}
      BY <1>2, PositionsOf
    <3> QED
      BY <3>1
  <2>2. m[1] = 1
    BY <1>2, <2>1 DEF IInv, DrawInv, ValidResult, IsResolved
  <2> QED
    BY <2>2 DEF Phases
<1>4. rounds \in Seq(Seq(KnockoutMatch))
  BY <1>1, <1>2, AdvanceScoresOnly
<1>5. f = [version |-> stored.version + 1, status |-> stored.status,
           groups |-> stored.groups, rounds |-> rounds]
  <2> HIDE DEF rounds, f
  <2>1. f = [stored EXCEPT !.version = stored.version + 1, !.status = stored.status,
                           !.rounds = rounds]
    BY <1>3 DEF AdvancedFixture, f, rounds
  <2> DEFINE v == stored.version + 1
             status == stored.status
  <2> HIDE DEF v, status
  <2>2. f = [stored EXCEPT !.version = v, !.status = status, !.rounds = rounds]
    BY <2>1 DEF v, status
  <2>3. f = [x \in {"version", "status", "groups", "rounds"} |-> f[x]]
    BY <1>1, <2>2 DEF Fixture
  <2>4. f.version = v /\ f.status = status /\ f.groups = stored.groups /\ f.rounds = rounds
    BY <1>1, <2>2 DEF Fixture
  <2>5. f = [version |-> v, status |-> status, groups |-> stored.groups, rounds |-> rounds]
    BY ONLY <2>3, <2>4
  <2> QED
    BY <2>5 DEF v, status
<1>6. match.score = NoScore
  BY <1>2 DEF ValidResult
<1>7. CASE ~ (LockHeld(f) /\ NumbersFree(f))
  <2>1. UNCHANGED <<stored, announced>>
    BY <1>2, <1>7 DEF Save
  <2> QED
    BY <1>2, <1>3, <1>6, <2>1
<1>8. CASE LockHeld(f) /\ NumbersFree(f)
  <2>1. /\ stored' = [f EXCEPT !.groups = kept]
        /\ announced' = announced \cup ResultEvents(m, match, s)
    BY <1>2, <1>8 DEF Save
  <2> HIDE DEF rounds
  <2>2. f.groups = stored.groups
    BY <1>5
  <2> HIDE DEF f, match
  <2>3. kept = stored.groups
    BY <1>1, <2>2 DEF GroupRow
  <2> HIDE DEF kept
  <2>4. stored' = [version |-> stored.version + 1, status |-> stored.status,
                   groups |-> stored.groups, rounds |-> rounds]
    BY <1>5, <2>1, <2>3
  <2>5. stored' \in Fixture
    BY <1>1, <1>4, <2>4 DEF Fixture
  <2>6. ResultEvents(m, match, s) = {KnockoutMatchAdvanced(m, match, s)}
    BY <1>3 DEF ResultEvents
  <2>7. /\ stored'.version = stored.version + 1 /\ stored'.status = stored.status
        /\ stored'.groups = stored.groups /\ stored'.rounds = rounds
    BY <2>4
  <2> QED
    BY <1>2, <1>3, <1>6, <2>1, <2>5, <2>6, <2>7 DEF rounds, match
<1> QED
  BY <1>7, <1>8

\* Winners and losers are slots.
LEMMA WinnersAreSlots ==
  ASSUME NEW match \in KnockoutMatch, NEW s
  PROVE  Winner(match, s) \in Slot /\ Loser(match, s) \in Slot
<1>1. match.home \in Slot /\ match.away \in Slot /\ Nobody \in Slot
  BY DEF KnockoutMatch, Slot
<1> QED
  BY <1>1 DEF Winner, Loser

\* A group result keeps the invariant.
LEMMA GroupResultKeeps ==
  ASSUME IInv, NEW g \in Group, NEW t \in Standing, RegisterGroupResult(g, t)
  PROVE  IInv'
<1>1. UNCHANGED <<admin, repaired>> /\ stored.groups[g].open
  BY GroupResultStores
<1>2. CASE UNCHANGED <<stored, announced>>
  BY <1>1, <1>2 DEF IInv, TypeOK, AdminInv, StatusesInv, DrawInv, AnnouncedInv, NobodyAdvances
<1>3. CASE /\ stored' \in Fixture /\ stored'.version = stored.version + 1
           /\ ~ stored'.groups[g].open
           /\ \A h \in Group : h # g => stored'.groups[h].open = stored.groups[h].open
           /\ \A h \in Group :
                stored'.groups[h].status =
                  IF h = g /\ "groupStatus" \in repaired THEN "COMPLETED"
                  ELSE stored.groups[h].status
           /\ \/ /\ "groupStatus" \in repaired
                 /\ \A h \in Group : stored'.groups[h].status = "COMPLETED"
                 /\ stored'.status = "KNOCKOUT"
                 /\ stored'.rounds = GenerateKnockoutBracket(stored')
                 /\ announced' = announced \cup {BracketGenerated(stored'.rounds)}
              \/ /\ "groupStatus" \in repaired =>
                      \E h \in Group : stored'.groups[h].status # "COMPLETED"
                 /\ stored'.status = stored.status
                 /\ stored'.rounds = stored.rounds
                 /\ announced' = announced
  <2>1. AdminInv'
    <3>1. stored.version \in Nat /\ admin.f.version \in Nat
      BY DEF IInv, TypeOK, Fixture
    <3> QED
      BY <1>1, <1>3, <3>1 DEF IInv, AdminInv
  <2>2. stored.rounds = <<>> /\ stored.status = "GROUP_STAGE"
    BY <1>1 DEF IInv, StatusesInv
  <2>3. stored'.groups \in [Group -> GroupRow]
    BY <1>3 DEF Fixture
  <2>4. "groupStatus" \in repaired =>
          \A h \in Group : stored'.groups[h].open <=> stored'.groups[h].status # "COMPLETED"
    BY <1>3 DEF IInv, StatusesInv
  <2>5. announced \subseteq KnockoutBracketGeneratedPayload \cup KnockoutMatchAdvancedPayload
                              \cup TournamentFinishedPayload
    BY DEF IInv, TypeOK
  <2>6. \A n : n \notin Positions(<<>>)
    BY DEF Positions
  <2>7. \A e \in announced : /\ e.type # "KnockoutBracketGenerated"
                             /\ e.type # "KnockoutMatchAdvanced"
    BY <2>2, <2>6 DEF IInv, AnnouncedInv
  <2>8. CASE /\ "groupStatus" \in repaired
             /\ \A h \in Group : stored'.groups[h].status = "COMPLETED"
             /\ stored'.status = "KNOCKOUT"
             /\ stored'.rounds = GenerateKnockoutBracket(stored')
             /\ announced' = announced \cup {BracketGenerated(stored'.rounds)}
    <3>1. /\ stored'.rounds \in Seq(Seq(KnockoutMatch)) /\ stored'.rounds # <<>>
          /\ DrawnFrom(stored', stored'.rounds[1])
          /\ \A n \in Positions(stored'.rounds) :
               n[1] # 1 => /\ stored'.rounds[n[1]][n[2]].home = Unresolved
                           /\ stored'.rounds[n[1]][n[2]].away = Unresolved
                           /\ stored'.rounds[n[1]][n[2]].score = NoScore
      BY <2>3, <2>8, BracketIsDrawn
    <3>2. stored'.rounds[1] \in Seq(KnockoutMatch)
      BY <3>1
    <3>3. BracketGenerated(stored'.rounds) \in KnockoutBracketGeneratedPayload
      BY <3>2 DEF BracketGenerated, KnockoutBracketGeneratedPayload
    <3>4. TypeOK'
      BY <1>1, <1>3, <2>5, <2>8, <3>3 DEF IInv, TypeOK
    <3>5. StatusesInv'
      BY <1>1, <2>4, <2>8, <3>1 DEF StatusesInv
    <3>6. DrawInv'
      BY <3>1 DEF DrawInv, DrawnFrom
    <3>7. AnnouncedInv'
      <4>1. /\ BracketGenerated(stored'.rounds).type = "KnockoutBracketGenerated"
            /\ SameTeams(BracketGenerated(stored'.rounds).round, stored'.rounds[1])
        BY DEF BracketGenerated, SameTeams
      <4>2. \A e \in announced' :
              /\ e.type = "KnockoutBracketGenerated" =>
                   SameTeams(e.round, stored'.rounds[1])
              /\ e.type # "KnockoutMatchAdvanced"
        BY <2>7, <2>8, <4>1
      <4> QED
        BY <3>1, <4>2 DEF AnnouncedInv
    <3>8. NobodyAdvances'
      BY <2>8, <3>1 DEF NobodyAdvances
    <3> QED
      BY <2>1, <3>4, <3>5, <3>6, <3>7, <3>8 DEF IInv
  <2>9. CASE /\ "groupStatus" \in repaired =>
                  \E h \in Group : stored'.groups[h].status # "COMPLETED"
             /\ stored'.status = stored.status
             /\ stored'.rounds = stored.rounds
             /\ announced' = announced
    <3>1. TypeOK'
      BY <1>1, <1>3, <2>5, <2>9 DEF IInv, TypeOK
    <3>2. StatusesInv'
      BY <1>1, <1>3, <2>2, <2>4, <2>9 DEF IInv, StatusesInv
    <3>3. DrawInv' /\ NobodyAdvances'
      BY <2>2, <2>6, <2>9 DEF DrawInv, NobodyAdvances
    <3>4. AnnouncedInv'
      BY <2>7, <2>9 DEF AnnouncedInv
    <3> QED
      BY <2>1, <3>1, <3>2, <3>3, <3>4 DEF IInv
  <2> QED
    BY <1>3, <2>8, <2>9
<1> QED
  BY <1>2, <1>3, GroupResultStores

\* A match and the same match with another score.
LEMMA ScoreErased ==
  ASSUME NEW match \in KnockoutMatch, NEW s, NEW new, new = WithScore(match, s)
  PROVE  /\ new.score = s /\ new.home = match.home /\ new.away = match.away
         /\ [new EXCEPT !.score = NoScore] = [match EXCEPT !.score = NoScore]
<1>1. new.score = s /\ new.home = match.home /\ new.away = match.away
  BY DEF KnockoutMatch, WithScore
<1>2. [new EXCEPT !.score = NoScore] = [match EXCEPT !.score = NoScore]
  BY DEF KnockoutMatch, WithScore
<1> QED
  BY <1>1, <1>2

\* A knockout result keeps the invariant.
LEMMA KnockoutResultKeeps ==
  ASSUME IInv, NEW m, NEW s \in Score, RegisterKnockoutResult(m, s)
  PROVE  IInv'
<1> DEFINE match == stored.rounds[m[1]][m[2]]
           advanced == KnockoutMatchAdvanced(m, match, s)
<1>1. /\ UNCHANGED <<admin, repaired>>
      /\ m \in Positions(stored.rounds) /\ m[1] = 1 /\ match.score = NoScore
  BY KnockoutResultStores
<1>2. CASE UNCHANGED <<stored, announced>>
  BY <1>1, <1>2 DEF IInv, TypeOK, AdminInv, StatusesInv, DrawInv, AnnouncedInv, NobodyAdvances
<1>3. CASE /\ stored' \in Fixture /\ stored'.version = stored.version + 1
           /\ stored'.status = stored.status /\ stored'.groups = stored.groups
           /\ stored'.rounds = AdvanceKnockoutBracket(stored.rounds, m, s)
           /\ announced' = announced \cup {advanced}
  <2> DEFINE old == stored.rounds
             new == stored'.rounds
  <2>1. /\ stored.version \in Nat /\ admin.f.version \in Nat
        /\ old \in Seq(Seq(KnockoutMatch)) /\ new \in Seq(Seq(KnockoutMatch))
    BY <1>3 DEF IInv, TypeOK, Fixture
  <2>2. /\ Positions(new) = Positions(old) /\ DOMAIN new = DOMAIN old
        /\ \A r \in DOMAIN old :
             /\ DOMAIN new[r] = DOMAIN old[r]
             /\ \A i \in DOMAIN old[r] :
                  new[r][i] = IF <<r, i>> = m THEN WithScore(old[r][i], s) ELSE old[r][i]
    <3>1. m \in Positions(old) /\ new = AdvanceKnockoutBracket(old, m, s)
      BY <1>1, <1>3
    <3> HIDE DEF old, new
    <3> QED
      BY <2>1, <3>1, AdvanceScoresOnly
  <2>3. m = <<m[1], m[2]>> /\ m[1] \in DOMAIN old /\ m[2] \in DOMAIN old[m[1]]
    BY <1>1, PositionsOf
  <2>4. \A r \in DOMAIN old : \A i \in DOMAIN old[r] : old[r][i] \in KnockoutMatch
    <3>1. \A r \in DOMAIN old : old[r] \in Seq(KnockoutMatch)
      BY <2>1
    <3> QED
      BY <3>1
  <2>5. old # <<>> /\ new # <<>> /\ 1 \in DOMAIN old
    BY <2>1, <2>2, <2>3
  <2> HIDE DEF old, new, match
  <2>6. match = old[m[1]][m[2]]
    BY DEF match, old
  <2>7. \A r \in DOMAIN old : \A i \in DOMAIN old[r] :
          /\ new[r][i].home = old[r][i].home /\ new[r][i].away = old[r][i].away
          /\ [new[r][i] EXCEPT !.score = NoScore] = [old[r][i] EXCEPT !.score = NoScore]
    <3> SUFFICES ASSUME NEW r \in DOMAIN old, NEW i \in DOMAIN old[r]
                 PROVE  /\ new[r][i].home = old[r][i].home
                        /\ new[r][i].away = old[r][i].away
                        /\ [new[r][i] EXCEPT !.score = NoScore]
                             = [old[r][i] EXCEPT !.score = NoScore]
      OBVIOUS
    <3>1. new[r][i] = IF <<r, i>> = m THEN WithScore(old[r][i], s) ELSE old[r][i]
      BY <2>2
    <3>2. CASE <<r, i>> = m
      <4>1. PICK a, b : a = old[r][i] /\ b = new[r][i]
        OBVIOUS
      <4>2. b = WithScore(a, s) /\ a \in KnockoutMatch
        BY <2>4, <3>1, <3>2, <4>1
      <4>3. /\ b.home = a.home /\ b.away = a.away
            /\ [b EXCEPT !.score = NoScore] = [a EXCEPT !.score = NoScore]
        BY <4>2, ScoreErased, Zenon
      <4> QED
        BY <4>1, <4>3, Zenon
    <3>3. CASE <<r, i>> # m
      BY <3>1, <3>3
    <3> QED
      BY <3>2, <3>3
  <2>8. TypeOK'
    <3>1. match \in KnockoutMatch
      BY <2>3, <2>4, <2>6
    <3>2. m \in Nat \X Nat
      <4>1. m[1] \in Nat
        BY <2>1, <2>3
      <4>2. old[m[1]] \in Seq(KnockoutMatch)
        BY <2>1, <2>3
      <4>3. m[2] \in Nat
        BY <2>3, <4>2
      <4> QED
        BY <2>3, <4>1, <4>3
    <3>3. advanced \in KnockoutMatchAdvancedPayload
      BY <3>1, <3>2, WinnersAreSlots DEF KnockoutMatchAdvanced, KnockoutMatchAdvancedPayload
    <3> QED
      BY <1>1, <1>3, <3>3 DEF IInv, TypeOK
  <2>9. AdminInv'
    BY <1>1, <1>3, <2>1 DEF IInv, AdminInv
  <2>10. StatusesInv'
    BY <1>1, <1>3, <2>5 DEF IInv, StatusesInv, old, new
  <2>11. NobodyAdvances'
    <3>1. /\ stored.status # "FINISHED"
          /\ \A n \in Positions(old) : old[n[1]][n[2]].score # NoScore => n[1] = 1
      BY DEF IInv, NobodyAdvances, old
    <3>2. ASSUME NEW n \in Positions(new), new[n[1]][n[2]].score # NoScore PROVE n[1] = 1
      <4>1. n \in Positions(old)
        BY <2>2
      <4>2. n = <<n[1], n[2]>> /\ n[1] \in DOMAIN old /\ n[2] \in DOMAIN old[n[1]]
        BY <4>1, PositionsOf
      <4>3. CASE n = m
        BY <1>1, <4>3
      <4>4. CASE n # m
        <5>1. new[n[1]][n[2]] = old[n[1]][n[2]]
          BY <2>2, <4>2, <4>4
        <5> QED
          BY <3>1, <3>2, <4>1, <5>1
      <4> QED
        BY <4>3, <4>4
    <3> QED
      BY <1>3, <3>1, <3>2 DEF NobodyAdvances, new
  <2>12. DrawInv'
    <3>1. /\ DrawnFrom(stored, old[1])
          /\ \A n \in Positions(old) : n[1] # 1 => /\ old[n[1]][n[2]].home = Unresolved
                                                   /\ old[n[1]][n[2]].away = Unresolved
      BY <2>5 DEF IInv, DrawInv, old
    <3>2. BestThirdCandidates(stored') = BestThirdCandidates(stored)
      BY <1>3 DEF BestThirdCandidates
    <3>3. DrawnFrom(stored', new[1])
      BY <2>2, <2>5, <2>7, <3>1, <3>2 DEF DrawnFrom
    <3>4. \A n \in Positions(new) : n[1] # 1 => /\ new[n[1]][n[2]].home = Unresolved
                                                /\ new[n[1]][n[2]].away = Unresolved
      <4> SUFFICES ASSUME NEW n \in Positions(new), n[1] # 1
                   PROVE  /\ new[n[1]][n[2]].home = Unresolved
                          /\ new[n[1]][n[2]].away = Unresolved
        OBVIOUS
      <4>1. n \in Positions(old)
        BY <2>2
      <4>2. n[1] \in DOMAIN old /\ n[2] \in DOMAIN old[n[1]]
        BY <4>1, PositionsOf
      <4> QED
        BY <2>7, <3>1, <4>1, <4>2
    <3> QED
      BY <3>3, <3>4 DEF DrawInv, new
  <2>13. AnnouncedInv'
    <3>1. ASSUME NEW e \in announced, e.type = "KnockoutBracketGenerated"
          PROVE  SameTeams(e.round, new[1])
      <4>1. SameTeams(e.round, old[1])
        BY <3>1 DEF IInv, AnnouncedInv, old
      <4> QED
        BY <2>2, <2>5, <2>7, <4>1 DEF SameTeams
    <3>2. ASSUME NEW e \in announced, e.type = "KnockoutMatchAdvanced"
          PROVE  /\ e.of \in Positions(new)
                 /\ LET played == new[e.of[1]][e.of[2]]
                    IN  played.score # NoScore
                        /\ e = KnockoutMatchAdvanced(e.of, played, played.score)
      <4>1. /\ e.of \in Positions(old)
            /\ LET played == old[e.of[1]][e.of[2]]
               IN  played.score # NoScore
                   /\ e = KnockoutMatchAdvanced(e.of, played, played.score)
        BY <3>2 DEF IInv, AnnouncedInv, old
      <4>2. e.of # m
        BY <1>1, <2>6, <4>1
      <4>3. /\ e.of = <<e.of[1], e.of[2]>> /\ e.of[1] \in DOMAIN old
            /\ e.of[2] \in DOMAIN old[e.of[1]]
        BY <4>1, PositionsOf
      <4>4. new[e.of[1]][e.of[2]] = old[e.of[1]][e.of[2]]
        BY <2>2, <4>2, <4>3
      <4> QED
        BY <2>2, <4>1, <4>4
    <3>3. /\ advanced.type = "KnockoutMatchAdvanced" /\ advanced.of = m
          /\ m \in Positions(new)
          /\ LET played == new[m[1]][m[2]]
             IN  played.score # NoScore
                 /\ advanced = KnockoutMatchAdvanced(m, played, played.score)
      <4>1. PICK played, open : played = new[m[1]][m[2]] /\ open = match
        OBVIOUS
      <4>2. played = WithScore(open, s) /\ open \in KnockoutMatch
        BY <2>2, <2>3, <2>4, <2>6, <4>1
      <4>3. played.score = s /\ played.home = open.home /\ played.away = open.away
        BY <4>2 DEF WithScore, KnockoutMatch
      <4>4. Winner(played, s) = Winner(match, s) /\ Loser(played, s) = Loser(match, s)
        BY <4>1, <4>3 DEF Winner, Loser
      <4>5. s # NoScore
        BY KnockoutAssumption
      <4> QED
        BY <1>1, <2>2, <4>1, <4>3, <4>4, <4>5 DEF KnockoutMatchAdvanced, old
    <3> HIDE DEF advanced
    <3> SUFFICES ASSUME NEW e \in announced'
                 PROVE  /\ e.type = "KnockoutBracketGenerated" =>
                             new # <<>> /\ SameTeams(e.round, new[1])
                        /\ e.type = "KnockoutMatchAdvanced" =>
                             /\ e.of \in Positions(new)
                             /\ LET played == new[e.of[1]][e.of[2]]
                                IN  played.score # NoScore
                                    /\ e = KnockoutMatchAdvanced(e.of, played, played.score)
      BY DEF AnnouncedInv, new
    <3>4. CASE e \in announced
      BY <2>5, <3>1, <3>2, <3>4
    <3>5. CASE e = advanced
      BY <3>3, <3>5
    <3> QED
      BY <1>3, <3>4, <3>5
  <2> QED
    BY <2>8, <2>9, <2>10, <2>11, <2>12, <2>13 DEF IInv
<1> QED
  BY <1>2, <1>3, KnockoutResultStores

-----------------------------------------------------------------------------
(* The theorems.                                                           *)

\* Every step keeps the invariant.
LEMMA BracketStep == IInv /\ [Next]_vars => IInv'
<1> SUFFICES ASSUME IInv, [Next]_vars PROVE IInv'
  OBVIOUS
<1>1. CASE \E g \in Group, t \in Standing : RegisterGroupResult(g, t)
  BY <1>1, GroupResultKeeps
<1>2. CASE \E m \in Playable, s \in Score : RegisterKnockoutResult(m, s)
  BY <1>2, KnockoutResultKeeps
<1>3. ASSUME NEW f \in Fixture, NEW pc \in {"idle", "save"}, f.version <= stored.version,
             admin' = [pc |-> pc, f |-> f], UNCHANGED <<stored, announced, repaired>>
      PROVE  IInv'
  <2>1. admin' \in [pc : {"idle", "save"}, f : Fixture] /\ admin'.f = f
    BY <1>3
  <2> QED
    BY <1>3, <2>1
       DEF IInv, TypeOK, AdminInv, StatusesInv, DrawInv, AnnouncedInv, NobodyAdvances
<1>4. stored \in Fixture /\ stored.version \in Nat
  BY DEF IInv, TypeOK, Fixture
<1>5. BuiltFixture \in Fixture /\ BuiltFixture.version <= stored.version
  BY <1>4, BuiltIsTyped
<1>6. CASE InitializeTournament
  BY <1>3, <1>5, <1>6 DEF InitializeTournament
<1>7. CASE \E force \in BOOLEAN : AdminLoad(force)
  <2>1. /\ admin' = [pc |-> "save", f |-> stored] /\ UNCHANGED <<stored, announced, repaired>>
        /\ stored.version <= stored.version
    BY <1>4, <1>7 DEF AdminLoad
  <2> QED
    BY <1>3, <1>4, <2>1
<1>8. CASE AdminSave
  BY <1>3, <1>5, <1>8, AdminRefused DEF AdminSave
<1>9. CASE UNCHANGED vars
  BY <1>9
     DEF vars, IInv, TypeOK, AdminInv, StatusesInv, DrawInv, AnnouncedInv, NobodyAdvances
<1> QED
  BY <1>1, <1>2, <1>6, <1>7, <1>8, <1>9 DEF Next

\* The invariant, and with it the types of the aggregate and of its events.
THEOREM BracketInvariance == Spec => []IInv
BY BracketInit, BracketStep, PTL DEF Spec

\* The rows, what a command holds and the events keep their types.
THEOREM BracketTypeCorrectness == Spec => []TypeOK
<1>1. IInv => TypeOK
  BY DEF IInv
<1> QED
  BY <1>1, BracketInvariance, PTL

\* The last group result and the bracket are stored together, for any standings,
\* any order of the last results and any administration commands.
THEOREM BracketIsDrawnAtTheEnd == Spec => []BracketClosesTheStage
<1>1. IInv => BracketClosesTheStage
  BY DEF IInv, StatusesInv, BracketClosesTheStage
<1> QED
  BY <1>1, BracketInvariance, PTL

\* Whatever the standings of the twelve thirds, the round of 32 has each first and
\* second once, and eight thirds that the query of GET best-thirds may classify.
THEOREM BracketIsOfTheQualified == Spec => []BracketHoldsTheQualified
<1>1. IInv => BracketHoldsTheQualified
  <2> SUFFICES ASSUME IInv, stored.rounds # <<>> PROVE BracketHoldsTheQualified
    BY DEF BracketHoldsTheQualified
  <2> DEFINE round == stored.rounds[1]
  <2>1. DrawnFrom(stored, round) /\ stored.groups \in [Group -> GroupRow]
    BY DEF IInv, DrawInv, TypeOK, Fixture
  <2> HIDE DEF round
  <2>2. /\ \A i, j \in 1..32 : Places(round)[i] = Places(round)[j] => i = j
        /\ Group \X {1, 2} \subseteq {Places(round)[i] : i \in 1..32}
        /\ GetBestThirds(stored, ThirdsDrawn(round))
    BY <2>1, DrawHoldsTheQualified
  <2> QED
    BY <2>2 DEF BracketHoldsTheQualified, Places, round
<1> QED
  BY <1>1, BracketInvariance, PTL

\* What was announced of the bracket and of its results is what the rows say.
THEOREM AnnouncementsHold == Spec => []AnnouncedIsStored
<1>1. IInv => AnnouncedIsStored
  BY DEF IInv, AnnouncedInv, SameTeams, AnnouncedIsStored
<1> QED
  BY <1>1, BracketInvariance, PTL

\* The tournament never finishes, and no result of a later round than the round of 32
\* is ever stored: whichever of the three defects are mended, the winners get nowhere.
THEOREM NobodyGetsFurther == Spec => []NobodyAdvances
<1>1. IInv => NobodyAdvances
  BY DEF IInv
<1> QED
  BY <1>1, BracketInvariance, PTL

\* Whatever the last results, the knockout results and the administration commands,
\* and whatever was stored between the load and the save of such a command: no step
\* reopens a group, changes its table, takes the bracket away or touches a match
\* that has a result.
THEOREM StoredResultsStay == Spec => ResultsAreNeverUndone
<1> DEFINE Kept ==
      /\ \A g \in Group : ~ stored.groups[g].open =>
           /\ ~ stored'.groups[g].open
           /\ stored'.groups[g].third = stored.groups[g].third
      /\ stored.status # "GROUP_STAGE" => stored'.status # "GROUP_STAGE"
      /\ \A m \in Positions(stored.rounds) :
           stored.rounds[m[1]][m[2]].score # NoScore =>
             /\ m \in Positions(stored'.rounds)
             /\ stored'.rounds[m[1]][m[2]] = stored.rounds[m[1]][m[2]]
<1>1. stored' = stored => Kept
  OBVIOUS
<1>2. ASSUME IInv, NEW g \in Group, NEW t \in Standing, RegisterGroupResult(g, t)
      PROVE  Kept
  <2>1. CASE UNCHANGED <<stored, announced>>
    BY <1>1, <2>1
  <2>2. CASE stored' # stored
    <3>1. /\ stored.groups[g].open /\ ~ stored'.groups[g].open
          /\ \A h \in Group : h # g => /\ stored'.groups[h].open = stored.groups[h].open
                                       /\ stored'.groups[h].third = stored.groups[h].third
          /\ stored'.status = "KNOCKOUT" \/ stored'.status = stored.status
      BY <1>2, <2>2, GroupResultStores
    <3>2. stored.rounds = <<>>
      BY <1>2, <3>1 DEF IInv, StatusesInv
    <3>3. Positions(stored.rounds) = {}
      BY <3>2 DEF Positions
    <3> QED
      BY <3>1, <3>3
  <2> QED
    BY <2>1, <2>2
<1>3. ASSUME IInv, NEW m, NEW s \in Score, RegisterKnockoutResult(m, s)
      PROVE  Kept
  <2>1. CASE UNCHANGED <<stored, announced>>
    BY <1>1, <2>1
  <2>2. CASE stored' # stored
    <3>1. /\ m \in Positions(stored.rounds)
          /\ stored.rounds[m[1]][m[2]].score = NoScore
          /\ stored'.status = stored.status /\ stored'.groups = stored.groups
          /\ stored'.rounds = AdvanceKnockoutBracket(stored.rounds, m, s)
      BY <1>3, <2>2, KnockoutResultStores
    <3>2. stored.rounds \in Seq(Seq(KnockoutMatch))
      BY <1>3 DEF IInv, TypeOK, Fixture
    <3>3. /\ Positions(stored'.rounds) = Positions(stored.rounds)
          /\ \A r \in DOMAIN stored.rounds : \A i \in DOMAIN stored.rounds[r] :
               <<r, i>> # m => stored'.rounds[r][i] = stored.rounds[r][i]
      BY <1>3, <3>1, <3>2, AdvanceScoresOnly
    <3>4. \A n \in Positions(stored.rounds) :
            n # m => stored'.rounds[n[1]][n[2]] = stored.rounds[n[1]][n[2]]
      BY <3>3, PositionsOf
    <3> QED
      BY <3>1, <3>3, <3>4
  <2> QED
    BY <2>1, <2>2
<1>4. ASSUME IInv, [Next]_vars PROVE Kept
  <2> HIDE DEF Kept
  <2>1. CASE \E g \in Group, t \in Standing : RegisterGroupResult(g, t)
    BY <1>2, <1>4, <2>1
  <2>2. CASE \E m \in Playable, s \in Score : RegisterKnockoutResult(m, s)
    BY <1>3, <1>4, <2>2
  <2>3. CASE AdminSave
    BY <1>1, <1>4, <2>3, AdminRefused
  <2>4. CASE InitializeTournament \/ (\E force \in BOOLEAN : AdminLoad(force)) \/ UNCHANGED vars
    BY <1>1, <2>4 DEF InitializeTournament, AdminLoad, vars
  <2> QED
    BY <1>4, <2>1, <2>2, <2>3, <2>4 DEF Next
<1> QED
  BY <1>4, BracketInvariance, PTL DEF Spec, ResultsAreNeverUndone
=============================================================================
