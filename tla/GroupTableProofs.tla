-------------------------- MODULE GroupTableProofs --------------------------
(***************************************************************************)
(* The properties of the group table, for any number of teams, matches and *)
(* reports. The argument goes from the inside out: the insertion sort is   *)
(* the stable sort by StandingLess (SortIsStable); the replay of the       *)
(* results leads from the seeded table to the table of the first m results *)
(* for every m (ReplaySteps); the stored table is the replay of the stored *)
(* results (TableInv); and the upsert refuses what reorders it             *)
(* (ReorderingIsRefused). Induction is over numbers up to a bound, in the  *)
(* form of a set that has the successor of each of its members             *)
(* (InductionTo).                                                          *)
(***************************************************************************)
EXTENDS GroupTable, FiniteSetTheorems, TLAPS

\* old and new differ at i and agree before it.
FirstDifferAt(old, new, i) == /\ old[i] # new[i]
                              /\ \A j \in 1..(i - 1) : old[j] = new[j]

\* Two functions on 1..n that differ somewhere have a first difference.
LEMMA FirstDifference ==
  ASSUME NEW n \in Nat, NEW T,
         NEW old \in [1..n -> T], NEW new \in [1..n -> T],
         \E i \in 1..n : old[i] # new[i]
  PROVE  \E i \in 1..n : FirstDifferAt(old, new, i)
<1> DEFINE R == OpToRel(<, Nat)
           D == {i \in 1..n : old[i] # new[i]}
<1>1. IsWellFoundedOn(R, Nat)
  BY NatLessThanWellFounded
<1>2. D \subseteq Nat /\ D # {}
  OBVIOUS
<1> HIDE DEF R, D
<1>3. PICK i \in D : \A j \in D : ~ (<<j, i>> \in R)
  BY <1>1, <1>2, WFMin
<1> USE DEF D
<1>4. ASSUME NEW j \in 1..(i - 1)
      PROVE  old[j] = new[j]
  <2>1. j \in Nat /\ i \in Nat /\ j < i /\ j \in 1..n
    BY <1>4
  <2>2. <<j, i>> \in R
    BY <2>1 DEF R, OpToRel
  <2> QED
    BY <1>3, <2>1, <2>2
<1> QED
  BY <1>3, <1>4 DEF FirstDifferAt

\* The upsert of a group's rows (upsertStandings, under the constraint
\* group_standings_position_unique) is refused exactly when the new table
\* lists the teams in another order than the stored one, whatever the number
\* of teams: with the constraint as built a team never overtakes another.
THEOREM ReorderingIsRefused ==
  ASSUME NEW n \in Nat, NEW T,
         NEW old \in [1..n -> T], NEW new \in [1..n -> T],
         \A i, j \in 1..n : old[i] = old[j] => i = j
  PROVE  UpsertRefused(old, new) <=> new # old
<1>1. ASSUME UpsertRefused(old, new)
      PROVE  new # old
  BY <1>1 DEF UpsertRefused, PositionTaken
<1>2. ASSUME new # old
      PROVE  UpsertRefused(old, new)
  <2>1. \E i \in 1..n : old[i] # new[i]
    BY <1>2
  <2>2. PICK i \in 1..n : FirstDifferAt(old, new, i)
    BY <2>1, FirstDifference
  <2>3. ASSUME NEW j \in 1..(i - 1)
        PROVE  new[j] # old[i]
    <3>1. j \in 1..n /\ j # i
      BY <2>3
    <3> QED
      BY <3>1, <2>2 DEF FirstDifferAt
  <2>4. PositionTaken(old, new, i)
    BY <2>2, <2>3 DEF PositionTaken, FirstDifferAt
  <2> QED
    BY <2>4 DEF UpsertRefused
<1> QED
  BY <1>1, <1>2

-----------------------------------------------------------------------------
(* The announced table *)

\* The strengthening: only a complete group has been announced. A command
\* that gets past ValidResult finds a match without a result, so it finds
\* nothing announced yet.
AnnouncedInv ==
  /\ result \in [Match -> Report \cup {NoReport}]
  /\ AnnouncedTableIsFinal
  /\ announced # {} => IsComplete(result)

\* Nothing is announced in the seeded tournament.
LEMMA AnnouncedInvInit == Init => AnnouncedInv
BY DEF Init, AnnouncedInv, AnnouncedTableIsFinal

\* The strengthened invariant is inductive.
LEMMA AnnouncedInvNext == AnnouncedInv /\ [Next]_vars => AnnouncedInv'
<1> SUFFICES ASSUME AnnouncedInv, [Next]_vars
             PROVE  AnnouncedInv'
  OBVIOUS
<1> USE DEF AnnouncedInv
<1>1. ASSUME NEW r \in Report, RegisterMatchResult(r)
      PROVE  AnnouncedInv'
  <2>1. /\ result' = [result EXCEPT ![r.match] = r]
        /\ announced' = IF IsComplete(result')
                        THEN announced \cup {table'} ELSE announced
    BY <1>1 DEF RegisterMatchResult
  <2>2. r.match \in Match /\ result[r.match] = NoReport
    BY <1>1, ReportAssumption DEF RegisterMatchResult, ValidResult
  <2>3. announced = {}
    BY <2>2 DEF IsComplete
  <2>4. announced' \subseteq {table'} /\ (announced' # {} => IsComplete(result'))
    BY <2>1, <2>3
  <2>5. (IsComplete(result))' <=> IsComplete(result')
    BY DEF IsComplete
  <2> QED
    BY <2>1, <2>4, <2>5 DEF AnnouncedTableIsFinal
<1>2. CASE UNCHANGED vars
  BY <1>2 DEF vars, AnnouncedTableIsFinal, IsComplete
<1> QED
  BY <1>1, <1>2 DEF Next, SaveFails, RejectResult

\* A GroupStageCompleted event carries the table the group ends with
\* (RegisterMatchResult, fixture.go:80-84): no later result of the group is
\* accepted, whatever the teams, the matches and the results.
THEOREM AnnouncedTablesAreFinal == Spec => []AnnouncedTableIsFinal
<1>1. AnnouncedInv => AnnouncedTableIsFinal
  BY DEF AnnouncedInv
<1> QED
  BY <1>1, AnnouncedInvInit, AnnouncedInvNext, PTL DEF Spec

-----------------------------------------------------------------------------
(* Induction                                                               *)

\* Induction up to n, for a set of numbers.
LEMMA InductionTo ==
  ASSUME NEW n \in Nat, NEW A, 0 \in A, \A k \in 0..(n - 1) : k \in A => k + 1 \in A
  PROVE  \A k \in 0..n : k \in A
<1> DEFINE R == OpToRel(<, Nat)
           D == {k \in 0..n : k \notin A}
<1> SUFFICES ASSUME D # {} PROVE FALSE
  OBVIOUS
<1>1. IsWellFoundedOn(R, Nat)
  BY NatLessThanWellFounded
<1>2. D \subseteq Nat
  OBVIOUS
<1> HIDE DEF R, D
<1>3. PICK k \in D : \A j \in D : ~ (<<j, k>> \in R)
  BY <1>1, <1>2, WFMin
<1> USE DEF D
<1>4. k \in 0..n /\ k \notin A /\ k # 0
  BY <1>3
<1>5. k - 1 \in 0..(n - 1) /\ (k - 1) + 1 = k /\ k - 1 \in Nat /\ k \in Nat /\ k - 1 < k
  BY <1>4
<1>6. k - 1 \notin A
  BY <1>4, <1>5
<1>7. k - 1 \in D
  BY <1>5, <1>6
<1>8. <<k - 1, k>> \in R
  BY <1>5 DEF R, OpToRel
<1> QED
  BY <1>3, <1>7, <1>8

\* f is computed from b by the first n steps.
Recursion(f, n, b, step) == f[0] = b /\ \A k \in 1..n : f[k] = step[k][f[k - 1]]

\* A recursion up to n defines a function.
LEMMA RecursionTo ==
  ASSUME NEW n \in Nat, NEW S, NEW b \in S, NEW step \in [1..n -> [S -> S]]
  PROVE  \E f \in [0..n -> S] : Recursion(f, n, b, step)
<1> DEFINE Upto(k) == \E f \in [0..k -> S] : /\ f[0] = b
                                             /\ \A j \in 1..k : f[j] = step[j][f[j - 1]]
           A == {k \in 0..n : Upto(k)}
<1>1. 0 \in A
  <2> DEFINE f == [i \in 0..0 |-> b]
  <2>1. f \in [0..0 -> S] /\ f[0] = b /\ \A j \in 1..0 : f[j] = step[j][f[j - 1]]
    OBVIOUS
  <2>2. Upto(0)
    BY <2>1
  <2> QED
    BY <2>2
<1>2. ASSUME NEW k \in 0..(n - 1), k \in A PROVE k + 1 \in A
  <2>1. PICK f \in [0..k -> S] : /\ f[0] = b
                                 /\ \A j \in 1..k : f[j] = step[j][f[j - 1]]
    BY <1>2
  <2> DEFINE x == step[k + 1][f[k]]
             g == [i \in 0..(k + 1) |-> IF i = k + 1 THEN x ELSE f[i]]
  <2>2. k + 1 \in 1..n /\ k \in 0..k /\ f[k] \in S
    BY <2>1
  <2>3. x \in S
    BY <2>2
  <2>4. g \in [0..(k + 1) -> S] /\ g[0] = b
    BY <2>1, <2>3
  <2>5. ASSUME NEW j \in 1..(k + 1) PROVE g[j] = step[j][g[j - 1]]
    <3>1. CASE j = k + 1
      <4>1. g[j] = x /\ j - 1 = k /\ g[j - 1] = f[k]
        BY <3>1
      <4> QED
        BY <3>1, <4>1
    <3>2. CASE j # k + 1
      <4>1. j \in 1..k /\ g[j] = f[j] /\ g[j - 1] = f[j - 1]
        BY <3>2
      <4> QED
        BY <2>1, <4>1
    <3> QED
      BY <3>1, <3>2
  <2>6. Upto(k + 1)
    <3> HIDE DEF g
    <3> QED
      BY <2>4, <2>5
  <2> HIDE DEF Upto
  <2> QED
    BY <2>2, <2>6
<1> HIDE DEF Upto
<1>3. \A k \in 0..n : k \in A
  <2> HIDE DEF A
  <2> QED
    BY <1>1, <1>2, InductionTo
<1>4. Upto(n)
  BY <1>3
<1> QED
  BY <1>4 DEF Upto, Recursion

\* A set of numbers up to n has a greatest.
LEMMA GreatestOf ==
  ASSUME NEW n \in Nat, NEW I \in SUBSET (1..n), I # {}
  PROVE  Max(I) \in I /\ \A i \in I : i <= Max(I)
<1> DEFINE Has(J) == \E x \in J : \A y \in J : x >= y
           A == {k \in 0..n : \A J \in SUBSET (1..k) : J # {} => Has(J)}
<1>1. 0 \in A
  <2> HIDE DEF Has
  <2>1. 0 \in 0..n /\ 1..0 = {}
    OBVIOUS
  <2> QED
    BY <2>1
<1>2. ASSUME NEW k \in 0..(n - 1), k \in A PROVE k + 1 \in A
  <2> SUFFICES ASSUME NEW J \in SUBSET (1..(k + 1)), J # {} PROVE Has(J)
    OBVIOUS
  <2>1. CASE k + 1 \in J
    BY <2>1
  <2>2. CASE k + 1 \notin J
    <3>1. J \in SUBSET (1..k)
      BY <2>2
    <3> QED
      BY <1>2, <3>1
  <2> QED
    BY <2>1, <2>2
<1> HIDE DEF Has
<1>3. \A k \in 0..n : k \in A
  <2> HIDE DEF A
  <2> QED
    BY <1>1, <1>2, InductionTo
<1>4. Has(I)
  BY <1>3
<1> QED
  BY <1>4 DEF Has, Max

-----------------------------------------------------------------------------
(* The sort                                                                *)

\* The comparison of two rows is a strict weak order.
LEMMA LessIsAnOrder ==
  ASSUME NEW a \in Standing, NEW b \in Standing, NEW c \in Standing
  PROVE  /\ ~ StandingLess(a, a)
         /\ ~ (StandingLess(a, b) /\ StandingLess(b, a))
         /\ ~ StandingLess(b, a) /\ ~ StandingLess(c, b) => ~ StandingLess(c, a)
<1>1. /\ Points(a) \in Int /\ GoalDifference(a) \in Int /\ a.goalsFor \in Int
      /\ Points(b) \in Int /\ GoalDifference(b) \in Int /\ b.goalsFor \in Int
      /\ Points(c) \in Int /\ GoalDifference(c) \in Int /\ c.goalsFor \in Int
  BY DEF Standing, Points, GoalDifference
<1> QED
  BY <1>1 DEF StandingLess

\* A sequence with an element inserted at position c.
Inserted(q, n, c, e) ==
  [i \in 1..(n + 1) |-> IF i < c THEN q[i] ELSE IF i = c THEN e ELSE q[i - 1]]

\* InsertAt of the community modules inserts.
LEMMA InsertAtInserts ==
  ASSUME NEW S, NEW n \in Nat, NEW q \in [1..n -> S], NEW c \in 1..(n + 1), NEW e \in S
  PROVE  /\ InsertAt(q, c, e) = Inserted(q, n, c, e)
         /\ Inserted(q, n, c, e) \in [1..(n + 1) -> S]
<1> DEFINE a == SubSeq(q, 1, c - 1)
           b == SubSeq(q, c, Len(q))
           new == Inserted(q, n, c, e)
<1>1. q \in Seq(S) /\ Len(q) = n
  OBVIOUS
<1>2. a \in Seq(S) /\ Len(a) = c - 1 /\ \A i \in 1..(c - 1) : a[i] = q[i]
  BY <1>1
<1>3. b \in Seq(S) /\ Len(b) = n + 1 - c /\ \A i \in 1..(n + 1 - c) : b[i] = q[c + i - 1]
  BY <1>1
<1>4. InsertAt(q, c, e) = (a \o <<e>>) \o b
  BY DEF InsertAt
<1> HIDE DEF a, b
<1> DEFINE x == a \o <<e>>
<1>5. x \in Seq(S) /\ Len(x) = c /\ x[c] = e /\ \A i \in 1..(c - 1) : x[i] = q[i]
  BY <1>2
<1> HIDE DEF x
<1> DEFINE y == x \o b
<1>6. y \in Seq(S) /\ Len(y) = n + 1
  <2>1. y \in Seq(S) /\ Len(y) = Len(x) + Len(b)
    <3>1. x \in Seq(S) /\ b \in Seq(S)
      BY <1>3, <1>5
    <3>2. x \o b \in Seq(S)
      BY ONLY <3>1
    <3>3. Len(x \o b) = Len(x) + Len(b)
      BY ONLY <3>1
    <3> QED
      BY <3>2, <3>3
  <2>2. Len(x) + Len(b) = n + 1
    BY <1>3, <1>5
  <2> QED
    BY <2>1, <2>2
<1>7. ASSUME NEW i \in 1..(n + 1)
      PROVE  y[i] = IF i < c THEN q[i] ELSE IF i = c THEN e ELSE q[i - 1]
  <2>1. CASE i \in 1..c
    BY <1>3, <1>5, <2>1
  <2>2. CASE i > c
    <3>1. y[i] = b[i - c]
      BY <1>3, <1>5, <2>2
    <3>2. i - c \in 1..(n + 1 - c) /\ c + (i - c) - 1 = i - 1
      BY <2>2
    <3>3. b[i - c] = q[c + (i - c) - 1]
      BY <1>3, <3>2
    <3>4. y[i] = q[i - 1]
      BY <3>1, <3>2, <3>3
    <3> QED
      BY <2>2, <3>4
  <2>3. i \in 1..c \/ i > c
    OBVIOUS
  <2> QED
    BY <2>1, <2>2, <2>3
<1>8. y = new /\ new \in [1..(n + 1) -> S]
  <2> HIDE DEF y
  <2>1. new = [i \in 1..(n + 1) |-> IF i < c THEN q[i] ELSE IF i = c THEN e ELSE q[i - 1]]
    BY DEF Inserted
  <2>2. y = [i \in 1..(n + 1) |-> y[i]]
    BY <1>6
  <2>3. y = new
    BY <1>7, <2>1, <2>2
  <2>4. y \in [1..(n + 1) -> S]
    BY <1>6, <2>2
  <2> QED
    BY <2>3, <2>4
<1> QED
  BY <1>4, <1>8 DEF x

\* A row goes to the place behind the last that it does not beat.
LEMMA InsertPlaces ==
  ASSUME NEW n \in Nat, NEW q \in [1..n -> Standing], NEW e \in Standing
  PROVE  \E c \in 1..(n + 1) :
           /\ InsertStanding(q, e) = Inserted(q, n, c, e)
           /\ Inserted(q, n, c, e) \in [1..(n + 1) -> Standing]
           /\ c > 1 => ~ StandingLess(e, q[c - 1])
           /\ \A i \in c..n : StandingLess(e, q[i])
<1> DEFINE I == {i \in 1..Len(q) : ~ StandingLess(e, q[i])}
           last == IF I # {} THEN Max(I) ELSE 0
           c == last + 1
<1>1. Len(q) = n /\ I \in SUBSET (1..n)
  OBVIOUS
<1>2. InsertStanding(q, e) = InsertAt(q, c, e)
  BY DEF InsertStanding, SelectLastInSeq
<1>3. /\ last \in 0..n
      /\ last > 0 => last \in I
      /\ \A i \in I : i <= last
  <2>1. CASE I = {}
    BY <2>1
  <2>2. CASE I # {}
    <3>1. Max(I) \in I /\ \A i \in I : i <= Max(I)
      <4> HIDE DEF I
      <4> QED
        BY <1>1, <2>2, GreatestOf
    <3>2. last = Max(I)
      BY <2>2
    <3> HIDE DEF last
    <3> QED
      BY <1>1, <3>1, <3>2
  <2> QED
    BY <2>1, <2>2
<1> HIDE DEF last
<1>4. c \in 1..(n + 1)
  BY <1>3
<1>5. c > 1 => ~ StandingLess(e, q[c - 1])
  BY <1>1, <1>3
<1>6. \A i \in c..n : StandingLess(e, q[i])
  BY <1>1, <1>3
<1> HIDE DEF c
<1>7. /\ InsertAt(q, c, e) = Inserted(q, n, c, e)
      /\ Inserted(q, n, c, e) \in [1..(n + 1) -> Standing]
  BY <1>4, InsertAtInserts
<1> QED
  BY <1>2, <1>4, <1>5, <1>6, <1>7

\* Place p[i] of s holds the i-th row of q, and every place holds one row.
Arranged(q, s, k, p) ==
  /\ p \in [1..k -> 1..k]
  /\ \A i, j \in 1..k : p[i] = p[j] => i = j
  /\ \A j \in 1..k : \E i \in 1..k : p[i] = j
  /\ \A i \in 1..k : s[p[i]] = q[i]

\* No row stands above one that beats it.
Ranked(s, k) == \A i, j \in 1..k : i < j => ~ StandingLess(s[j], s[i])

\* A row that does not beat an earlier one stays below it.
Stable(q, k, p) == \A i, j \in 1..k : i < j /\ ~ StandingLess(q[j], q[i]) => p[i] < p[j]

\* s is the stable sort of the first k rows of q.
IsSort(q, s, k) ==
  /\ s \in [1..k -> Standing]
  /\ Ranked(s, k)
  /\ \E p : Arranged(q, s, k, p) /\ Stable(q, k, p)

\* The next row is sorted in.
LEMMA InsertSorts ==
  ASSUME NEW n \in Nat, NEW q \in [1..n -> Standing], NEW k \in 0..(n - 1), NEW s,
         IsSort(q, s, k)
  PROVE  IsSort(q, InsertStanding(s, q[k + 1]), k + 1)
<1> DEFINE e == q[k + 1]
           new == InsertStanding(s, e)
<1>1. k \in Nat /\ k + 1 \in 1..n /\ e \in Standing /\ s \in [1..k -> Standing] /\ Ranked(s, k)
  BY DEF IsSort
<1> HIDE DEF e
<1>2. PICK c \in 1..(k + 1) :
        /\ new = Inserted(s, k, c, e)
        /\ Inserted(s, k, c, e) \in [1..(k + 1) -> Standing]
        /\ c > 1 => ~ StandingLess(e, s[c - 1])
        /\ \A i \in c..k : StandingLess(e, s[i])
  BY <1>1, InsertPlaces
<1>3. PICK p : Arranged(q, s, k, p) /\ Stable(q, k, p)
  BY DEF IsSort
<1> HIDE DEF new
<1>4. /\ new \in [1..(k + 1) -> Standing] /\ new[c] = e
      /\ \A i \in 1..(c - 1) : new[i] = s[i]
      /\ \A i \in c..k : new[i + 1] = s[i]
  BY <1>1, <1>2 DEF Inserted
<1>5. \A i \in 1..(c - 1) : ~ StandingLess(e, s[i])
  <2> TAKE i \in 1..(c - 1)
  <2>1. i \in 1..k /\ c - 1 \in 1..k /\ c > 1
    BY <1>1
  <2>2. s[i] \in Standing /\ s[c - 1] \in Standing
    BY <1>1, <2>1
  <2>3. CASE i = c - 1
    BY <1>2, <2>1, <2>3
  <2>4. CASE i < c - 1
    <3>1. ~ StandingLess(s[c - 1], s[i])
      BY <1>1, <2>1, <2>4 DEF Ranked
    <3> QED
      BY <1>1, <1>2, <2>1, <2>2, <3>1, LessIsAnOrder
  <2> QED
    BY <2>1, <2>3, <2>4
<1>6. Ranked(new, k + 1)
  <2> SUFFICES ASSUME NEW i \in 1..(k + 1), NEW j \in 1..(k + 1), i < j
               PROVE  ~ StandingLess(new[j], new[i])
    BY DEF Ranked
  <2>1. CASE j < c
    <3>1. i \in 1..(c - 1) /\ j \in 1..(c - 1) /\ i \in 1..k /\ j \in 1..k
      BY <1>1, <2>1
    <3> QED
      BY <1>1, <1>4, <3>1 DEF Ranked
  <2>2. CASE j = c
    <3>1. i \in 1..(c - 1)
      BY <2>2
    <3> QED
      BY <1>4, <1>5, <2>2, <3>1
  <2>3. CASE j > c /\ i = c
    <3>1. j - 1 \in c..k /\ (j - 1) + 1 = j
      BY <2>3
    <3>2. new[j] = s[j - 1] /\ new[i] = e
      BY <1>4, <2>3, <3>1
    <3>3. StandingLess(e, s[j - 1]) /\ s[j - 1] \in Standing
      BY <1>1, <1>2, <3>1
    <3> QED
      BY <1>1, <3>2, <3>3, LessIsAnOrder
  <2>4. CASE j > c /\ i < c
    <3>1. j - 1 \in c..k /\ (j - 1) + 1 = j /\ i \in 1..(c - 1) /\ i \in 1..k /\ j - 1 \in 1..k
          /\ i < j - 1
      BY <1>1, <2>4
    <3> QED
      BY <1>1, <1>4, <3>1 DEF Ranked
  <2>5. CASE j > c /\ i > c
    <3>1. /\ j - 1 \in c..k /\ (j - 1) + 1 = j /\ i - 1 \in c..k /\ (i - 1) + 1 = i
          /\ i - 1 < j - 1 /\ i - 1 \in 1..k /\ j - 1 \in 1..k
      BY <1>1, <2>5
    <3>2. new[i] = s[i - 1] /\ new[j] = s[j - 1]
      BY <1>4, <3>1
    <3> QED
      BY <1>1, <3>1, <3>2 DEF Ranked
  <2> QED
    BY <2>1, <2>2, <2>3, <2>4, <2>5
<1> DEFINE place(i) == IF i = k + 1 THEN c ELSE IF p[i] < c THEN p[i] ELSE p[i] + 1
           t == [i \in 1..(k + 1) |-> place(i)]
<1>7. /\ p \in [1..k -> 1..k]
      /\ \A i, j \in 1..k : p[i] = p[j] => i = j
      /\ \A j \in 1..k : \E i \in 1..k : p[i] = j
      /\ \A i \in 1..k : s[p[i]] = q[i]
  BY <1>3 DEF Arranged
<1>8. /\ t[k + 1] = c
      /\ \A i \in 1..k : /\ i \in 1..(k + 1) /\ p[i] \in 1..k
                         /\ p[i] < c => t[i] = p[i]
                         /\ p[i] >= c => t[i] = p[i] + 1
  <2>1. \A i \in 1..(k + 1) : t[i] = place(i)
    <3> HIDE DEF place
    <3> QED
      OBVIOUS
  <2>2. k + 1 \in 1..(k + 1) /\ place(k + 1) = c
    BY <1>1
  <2>3. ASSUME NEW i \in 1..k
        PROVE  /\ i \in 1..(k + 1) /\ p[i] \in 1..k
               /\ p[i] < c => place(i) = p[i]
               /\ p[i] >= c => place(i) = p[i] + 1
    <3>1. i # k + 1 /\ i \in 1..(k + 1)
      BY <1>1
    <3>2. p[i] \in 1..k
      BY <1>7
    <3> QED
      BY <3>1, <3>2
  <2> HIDE DEF t, place
  <2> QED
    BY <2>1, <2>2, <2>3
<1>9. t \in [1..(k + 1) -> 1..(k + 1)]
  <2>1. ASSUME NEW i \in 1..(k + 1) PROVE place(i) \in 1..(k + 1)
    <3>1. CASE i = k + 1
      BY <1>1, <3>1
    <3>2. CASE i \in 1..k
      <4>1. p[i] \in 1..k /\ i # k + 1
        BY <1>1, <1>7, <3>2
      <4> QED
        BY <1>1, <4>1
    <3> QED
      BY <1>1, <3>1, <3>2
  <2> HIDE DEF place
  <2> QED
    BY <2>1
<1> HIDE DEF t
<1>10. \A i \in 1..(k + 1) : i \in 1..k \/ i = k + 1
  BY <1>1
<1>11. ASSUME NEW i \in 1..k, NEW j \in 1..k, p[i] < p[j] PROVE t[i] < t[j]
  BY <1>8, <1>11
<1>12. \A i, j \in 1..(k + 1) : t[i] = t[j] => i = j
  <2> SUFFICES ASSUME NEW i \in 1..(k + 1), NEW j \in 1..(k + 1), t[i] = t[j] PROVE i = j
    OBVIOUS
  <2>1. CASE i \in 1..k /\ j \in 1..k
    <3>1. p[i] < p[j] \/ p[j] < p[i] \/ p[i] = p[j]
      BY <1>8, <2>1
    <3>2. t[i] \in Int /\ t[j] \in Int
      BY <1>9
    <3>3. ~ (p[i] < p[j]) /\ ~ (p[j] < p[i])
      BY <1>11, <2>1, <3>2
    <3> QED
      BY <1>7, <2>1, <3>1, <3>3
  <2>2. \A l \in 1..k : t[l] # c
    BY <1>8
  <2> QED
    BY <1>8, <1>10, <2>1, <2>2
<1>13. \A j \in 1..(k + 1) : \E i \in 1..(k + 1) : t[i] = j
  <2> TAKE j \in 1..(k + 1)
  <2>1. CASE j = c
    BY <1>1, <1>8, <2>1
  <2>2. CASE j < c
    <3>1. j \in 1..k
      BY <1>1, <2>2
    <3>2. PICK i \in 1..k : p[i] = j
      BY <1>7, <3>1
    <3> QED
      BY <1>8, <2>2, <3>2
  <2>3. CASE j > c
    <3>1. j - 1 \in 1..k /\ j - 1 >= c /\ (j - 1) + 1 = j
      BY <1>1, <2>3
    <3>2. PICK i \in 1..k : p[i] = j - 1
      BY <1>7, <3>1
    <3> QED
      BY <1>8, <3>1, <3>2
  <2> QED
    BY <2>1, <2>2, <2>3
<1>14. \A i \in 1..(k + 1) : new[t[i]] = q[i]
  <2> TAKE i \in 1..(k + 1)
  <2>1. CASE i = k + 1
    BY <1>4, <1>8, <2>1 DEF e
  <2>2. CASE i \in 1..k /\ p[i] < c
    <3>1. p[i] \in 1..(c - 1) /\ t[i] = p[i] /\ s[p[i]] = q[i]
      BY <1>7, <1>8, <2>2
    <3> QED
      BY <1>4, <3>1
  <2>3. CASE i \in 1..k /\ p[i] >= c
    <3>1. p[i] \in c..k /\ t[i] = p[i] + 1 /\ s[p[i]] = q[i]
      BY <1>7, <1>8, <2>3
    <3> QED
      BY <1>4, <3>1
  <2>4. i \in 1..k => p[i] < c \/ p[i] >= c
    BY <1>8
  <2> QED
    BY <1>10, <2>1, <2>2, <2>3, <2>4
<1>15. Stable(q, k + 1, t)
  <2> SUFFICES ASSUME NEW i \in 1..(k + 1), NEW j \in 1..(k + 1), i < j,
                      ~ StandingLess(q[j], q[i])
               PROVE  t[i] < t[j]
    BY DEF Stable
  <2>1. i \in 1..k
    BY <1>1
  <2>2. CASE j \in 1..k
    <3>1. p[i] < p[j]
      BY <1>3, <2>1, <2>2 DEF Stable
    <3> QED
      BY <1>11, <2>1, <2>2, <3>1
  <2>3. CASE j = k + 1
    <3>1. ~ StandingLess(e, s[p[i]])
      BY <1>7, <2>1, <2>3 DEF e
    <3>2. p[i] < c
      BY <1>2, <1>8, <2>1, <3>1
    <3> QED
      BY <1>8, <2>1, <2>3, <3>2
  <2> QED
    BY <1>10, <2>2, <2>3
<1>16. Arranged(q, new, k + 1, t)
  BY <1>9, <1>12, <1>13, <1>14 DEF Arranged
<1> QED
  BY <1>4, <1>6, <1>15, <1>16 DEF IsSort, new, e

\* The recursion that SortStandings is.
LEMMA SortRecursion ==
  ASSUME NEW n \in Nat, NEW q \in [1..n -> Standing]
  PROVE  \E sorted \in [0..n -> Seq(Standing)] :
           /\ sorted[0] = <<>>
           /\ \A k \in 1..n : sorted[k] = InsertStanding(sorted[k - 1], q[k])
           /\ SortStandings(q) = sorted[n]
<1> DEFINE Row(f, k) == IF k = 0 THEN <<>> ELSE InsertStanding(f[k - 1], q[k])
           Sorts(f) == f = [k \in 0..n |-> Row(f, k)]
           g == CHOOSE f : Sorts(f)
           step == [k \in 1..n |-> [s \in Seq(Standing) |-> InsertStanding(s, q[k])]]
<1>1. ASSUME NEW s \in Seq(Standing), NEW e \in Standing
      PROVE  InsertStanding(s, e) \in Seq(Standing)
  <2>1. PICK m \in Nat : s \in [1..m -> Standing]
    <3>1. Len(s) \in Nat /\ s \in [1..Len(s) -> Standing]
      OBVIOUS
    <3> QED
      BY <3>1
  <2>2. PICK c \in 1..(m + 1) :
          /\ InsertStanding(s, e) = Inserted(s, m, c, e)
          /\ Inserted(s, m, c, e) \in [1..(m + 1) -> Standing]
    BY <2>1, InsertPlaces
  <2> DEFINE t == InsertStanding(s, e)
             l == m + 1
  <2>3. t \in [1..l -> Standing] /\ l \in Nat
    BY <2>2
  <2> HIDE DEF t, l
  <2>4. t \in Seq(Standing)
    BY <2>3
  <2> QED
    BY <2>4 DEF t
<1>2. step \in [1..n -> [Seq(Standing) -> Seq(Standing)]]
  BY <1>1
<1>3. <<>> \in Seq(Standing)
  OBVIOUS
<1>4. PICK f \in [0..n -> Seq(Standing)] : Recursion(f, n, <<>>, step)
  <2> HIDE DEF step
  <2> QED
    BY <1>2, <1>3, RecursionTo
<1>5. \A k \in 1..n : f[k] = InsertStanding(f[k - 1], q[k])
  <2> TAKE k \in 1..n
  <2>1. f[k - 1] \in Seq(Standing)
    OBVIOUS
  <2> QED
    BY <1>4, <2>1 DEF Recursion
<1>6. Sorts(f)
  <2>1. \A k \in 0..n : f[k] = Row(f, k)
    <3> TAKE k \in 0..n
    <3>1. k = 0 \/ k \in 1..n
      OBVIOUS
    <3> QED
      BY <1>4, <1>5, <3>1 DEF Recursion
  <2> HIDE DEF Row
  <2> QED
    BY <2>1
<1>7. Sorts(g)
  <2> HIDE DEF Sorts
  <2> QED
    BY <1>6
<1>8. SortStandings(q) = g[n]
  <2>1. Len(q) = n
    OBVIOUS
  <2> QED
    BY <2>1 DEF SortStandings
<1> HIDE DEF g, step
<1>9. \A k \in 0..n : g[k] = Row(g, k)
  <2> HIDE DEF Row
  <2> QED
    BY <1>7
<1>10. /\ g[0] = <<>>
       /\ \A k \in 1..n : g[k] = InsertStanding(g[k - 1], q[k])
  BY <1>9
<1>11. \A k \in 0..n : g[k] \in Seq(Standing)
  <2> DEFINE A == {k \in 0..n : g[k] \in Seq(Standing)}
  <2>1. 0 \in A
    <3>1. g[0] \in Seq(Standing) /\ 0 \in 0..n
      BY <1>3, <1>10
    <3> QED
      BY <3>1
  <2>2. \A k \in 0..(n - 1) : k \in A => k + 1 \in A
    <3> TAKE k \in 0..(n - 1)
    <3>1. k + 1 \in 1..n /\ k + 1 \in 0..n /\ (k + 1) - 1 = k /\ q[k + 1] \in Standing
      OBVIOUS
    <3>2. g[k + 1] = InsertStanding(g[k], q[k + 1])
      BY <1>10, <3>1
    <3> QED
      BY <1>1, <3>1, <3>2
  <2> HIDE DEF A
  <2>3. \A k \in 0..n : k \in A
    BY <2>1, <2>2, InductionTo
  <2> QED
    BY <2>3 DEF A
<1>12. g \in [0..n -> Seq(Standing)]
  <2>1. g = [k \in 0..n |-> g[k]]
    <3> HIDE DEF Row
    <3> QED
      BY <1>7, <1>9
  <2> QED
    BY <1>11, <2>1
<1> QED
  BY <1>8, <1>10, <1>12

\* SortStandings (standing.go:66) is the stable sort by StandingLess, whatever
\* the number of rows: the rows it was given, none above one that beats it, and
\* rows of which the later does not beat the earlier in the order they had.
THEOREM SortIsStable ==
  ASSUME NEW n \in Nat, NEW q \in [1..n -> Standing]
  PROVE  IsSort(q, SortStandings(q), n)
<1>1. PICK sorted \in [0..n -> Seq(Standing)] :
        /\ sorted[0] = <<>>
        /\ \A k \in 1..n : sorted[k] = InsertStanding(sorted[k - 1], q[k])
        /\ SortStandings(q) = sorted[n]
  BY SortRecursion
<1> DEFINE A == {k \in 0..n : IsSort(q, sorted[k], k)}
<1>2. 0 \in A
  <2>1. Arranged(q, <<>>, 0, <<>>) /\ Stable(q, 0, <<>>)
    BY DEF Arranged, Stable
  <2>2. Ranked(<<>>, 0) /\ <<>> \in [1..0 -> Standing]
    BY DEF Ranked
  <2>3. IsSort(q, <<>>, 0)
    BY <2>1, <2>2 DEF IsSort
  <2> QED
    BY <1>1, <2>3
<1>3. \A k \in 0..(n - 1) : k \in A => k + 1 \in A
  <2> SUFFICES ASSUME NEW k \in 0..(n - 1), IsSort(q, sorted[k], k)
               PROVE  k + 1 \in A
    OBVIOUS
  <2>1. k + 1 \in 1..n /\ k + 1 \in 0..n /\ (k + 1) - 1 = k
    OBVIOUS
  <2>2. sorted[k + 1] = InsertStanding(sorted[k], q[k + 1])
    BY <1>1, <2>1
  <2>3. IsSort(q, sorted[k + 1], k + 1)
    BY <2>2, InsertSorts
  <2> QED
    BY <2>1, <2>3
<1> HIDE DEF A
<1>4. \A k \in 0..n : k \in A
  BY <1>2, <1>3, InductionTo
<1>5. n \in A
  BY <1>4
<1> QED
  BY <1>1, <1>5 DEF A

\* Two rows are sorted by StandingLess, and by their order before if level.
LEMMA SortOrder ==
  ASSUME NEW n \in Nat, NEW q \in [1..n -> Standing], NEW s \in [1..n -> Standing], NEW p,
         Ranked(s, n), Arranged(q, s, n, p), Stable(q, n, p),
         NEW i \in 1..n, NEW j \in 1..n
  PROVE  p[i] < p[j] <=> \/ StandingLess(q[i], q[j])
                         \/ ~ StandingLess(q[j], q[i]) /\ i < j
<1>1. /\ p \in [1..n -> 1..n]
      /\ p[i] = p[j] => i = j
      /\ s[p[i]] = q[i] /\ s[p[j]] = q[j]
  BY DEF Arranged
<1>2. p[i] \in 1..n /\ p[j] \in 1..n
  BY <1>1
<1>3. ~ StandingLess(q[i], q[i]) /\ ~ (StandingLess(q[i], q[j]) /\ StandingLess(q[j], q[i]))
  BY LessIsAnOrder
<1>4. p[i] < p[j] => ~ StandingLess(q[j], q[i])
  BY <1>1, <1>2 DEF Ranked
<1>5. p[j] < p[i] => ~ StandingLess(q[i], q[j])
  BY <1>1, <1>2 DEF Ranked
<1>6. i < j /\ ~ StandingLess(q[j], q[i]) => p[i] < p[j]
  BY DEF Stable
<1>7. j < i /\ ~ StandingLess(q[i], q[j]) => p[j] < p[i]
  BY DEF Stable
<1>8. ASSUME p[i] < p[j]
      PROVE  StandingLess(q[i], q[j]) \/ (~ StandingLess(q[j], q[i]) /\ i < j)
  <2>1. ~ (p[j] < p[i]) /\ i # j
    BY <1>2, <1>8
  <2>2. i < j \/ j < i
    BY <2>1
  <2> QED
    BY <1>4, <1>7, <1>8, <2>1, <2>2
<1>9. ASSUME StandingLess(q[i], q[j])
      PROVE  p[i] < p[j]
  <2>1. p[i] # p[j]
    BY <1>1, <1>3, <1>9
  <2> QED
    BY <1>2, <1>5, <1>9, <2>1
<1> QED
  BY <1>6, <1>8, <1>9

-----------------------------------------------------------------------------
(* Counts and sums over the first matches                                  *)

\* One more number counts one more, if it is in D.
LEMMA CountStep ==
  ASSUME NEW D, NEW m \in Nat
  PROVE  /\ Cardinality(D \cap (1..m)) \in Nat
         /\ m + 1 \in D => Cardinality(D \cap (1..(m + 1))) = Cardinality(D \cap (1..m)) + 1
         /\ m + 1 \notin D => Cardinality(D \cap (1..(m + 1))) = Cardinality(D \cap (1..m))
<1>1. IsFiniteSet(1..m)
  BY FS_Interval
<1>2. IsFiniteSet(D \cap (1..m))
  BY <1>1, FS_Intersection
<1>3. Cardinality(D \cap (1..m)) \in Nat
  BY <1>2, FS_CardinalityType
<1>4. m + 1 \notin D \cap (1..m)
  OBVIOUS
<1>5. m + 1 \in D => D \cap (1..(m + 1)) = (D \cap (1..m)) \cup {m + 1}
  OBVIOUS
<1>6. m + 1 \notin D => D \cap (1..(m + 1)) = D \cap (1..m)
  OBVIOUS
<1>7. Cardinality((D \cap (1..m)) \cup {m + 1}) = Cardinality(D \cap (1..m)) + 1
  BY <1>2, <1>4, FS_AddElement
<1> QED
  BY <1>3, <1>5, <1>6, <1>7

\* The recursion that Sums is.
LEMMA SumsRecursion ==
  ASSUME NEW f \in [Match -> Nat]
  PROVE  /\ Sums(f) \in [0..MatchesPerGroup -> Nat]
         /\ Sums(f)[0] = 0
         /\ \A m \in Match : Sums(f)[m] = Sums(f)[m - 1] + f[m]
<1> DEFINE n == MatchesPerGroup
           Sum(h, k) == IF k = 0 THEN 0 ELSE h[k - 1] + f[k]
           IsSum(h) == h = [k \in 0..n |-> Sum(h, k)]
           g == CHOOSE h : IsSum(h)
           step == [k \in 1..n |-> [x \in Nat |-> x + f[k]]]
<1>1. n \in Nat /\ Match = 1..n
  BY ReportAssumption DEF Match
<1>2. Sums(f) = g
  BY DEF Sums
<1> HIDE DEF n
<1>3. step \in [1..n -> [Nat -> Nat]]
  <2>1. ASSUME NEW k \in 1..n, NEW x \in Nat PROVE x + f[k] \in Nat
    <3>1. f[k] \in Nat
      BY <1>1
    <3> QED
      BY <3>1
  <2> QED
    BY <2>1
<1>4. PICK h \in [0..n -> Nat] : Recursion(h, n, 0, step)
  <2> HIDE DEF step
  <2> QED
    BY <1>1, <1>3, RecursionTo
<1>5. IsSum(h)
  <2>1. \A k \in 0..n : h[k] = Sum(h, k)
    <3> TAKE k \in 0..n
    <3>1. CASE k = 0
      BY <1>4, <3>1 DEF Recursion
    <3>2. CASE k # 0
      <4>1. k \in 1..n /\ k - 1 \in 0..n
        BY <1>1, <3>2
      <4>2. h[k] = step[k][h[k - 1]] /\ h[k - 1] \in Nat
        BY <1>4, <4>1 DEF Recursion
      <4> QED
        BY <4>1, <4>2
    <3> QED
      BY <3>1, <3>2
  <2> HIDE DEF Sum
  <2> QED
    BY <2>1
<1>6. IsSum(g)
  <2> HIDE DEF IsSum
  <2> QED
    BY <1>5
<1> HIDE DEF g, step
<1>7. \A k \in 0..n : g[k] = Sum(g, k)
  <2> HIDE DEF Sum
  <2> QED
    BY <1>6
<1>8. g[0] = 0 /\ \A k \in 1..n : g[k] = g[k - 1] + f[k]
  BY <1>1, <1>7
<1>9. \A k \in 0..n : g[k] \in Nat
  <2> DEFINE A == {k \in 0..n : g[k] \in Nat}
  <2>1. 0 \in A
    BY <1>1, <1>8
  <2>2. \A k \in 0..(n - 1) : k \in A => k + 1 \in A
    <3> TAKE k \in 0..(n - 1)
    <3>1. k + 1 \in 1..n /\ k + 1 \in 0..n /\ (k + 1) - 1 = k
      BY <1>1
    <3>2. g[k + 1] = g[k] + f[k + 1] /\ f[k + 1] \in Nat
      BY <1>1, <1>8, <3>1
    <3> QED
      BY <3>1, <3>2
  <2> HIDE DEF A
  <2>3. \A k \in 0..n : k \in A
    BY <1>1, <2>1, <2>2, InductionTo
  <2> QED
    BY <2>3 DEF A
<1>10. g \in [0..n -> Nat]
  <2>1. g = [k \in 0..n |-> g[k]]
    <3> HIDE DEF Sum
    <3> QED
      BY <1>6, <1>7
  <2> QED
    BY <1>9, <2>1
<1> QED
  BY <1>1, <1>2, <1>8, <1>10 DEF n

-----------------------------------------------------------------------------
(* The row a team should have after the first matches                      *)

\* Results that validateResult lets through.
Results ==
  {results \in [Match -> Report \cup {NoReport}] :
     \A m \in Match : results[m] # NoReport =>
       results[m].homeGoals \in Nat /\ results[m].awayGoals \in Nat}

\* The results that name t; those among them that it won, drew and lost; its
\* goals in each match.
Names(results, t) == {m \in Match : results[m] # NoReport
                                    /\ t \in {results[m].home, results[m].away}}
Won(results, t) == {m \in Names(results, t) :
                      Scored(t, results[m]) > Conceded(t, results[m])}
Drawn(results, t) == {m \in Names(results, t) :
                        Scored(t, results[m]) = Conceded(t, results[m])}
Lost(results, t) == {m \in Names(results, t) :
                       Scored(t, results[m]) < Conceded(t, results[m])}
For(results, t) ==
  [m \in Match |-> IF m \in Names(results, t) THEN Scored(t, results[m]) ELSE 0]
Against(results, t) ==
  [m \in Match |-> IF m \in Names(results, t) THEN Conceded(t, results[m]) ELSE 0]

\* What the first m of the results add up to for team t.
TallyUpTo(results, t, m) ==
  [team |-> t,
   played |-> Cardinality(Names(results, t) \cap (1..m)),
   won |-> Cardinality(Won(results, t) \cap (1..m)),
   drawn |-> Cardinality(Drawn(results, t) \cap (1..m)),
   lost |-> Cardinality(Lost(results, t) \cap (1..m)),
   goalsFor |-> Sums(For(results, t))[m],
   goalsAgainst |-> Sums(Against(results, t))[m]]

\* The goals of a team are numbers.
LEMMA GoalsAreNumbers ==
  ASSUME NEW results \in Results, NEW t
  PROVE  /\ For(results, t) \in [Match -> Nat]
         /\ Against(results, t) \in [Match -> Nat]
         /\ \A m \in Names(results, t) : /\ Scored(t, results[m]) \in Nat
                                         /\ Conceded(t, results[m]) \in Nat
<1>1. \A m \in Names(results, t) : /\ m \in Match
                                   /\ Scored(t, results[m]) \in Nat
                                   /\ Conceded(t, results[m]) \in Nat
  BY DEF Names, Scored, Conceded, Results
<1> QED
  BY <1>1 DEF For, Against

\* After no match a team has a blank row.
LEMMA TallyOfNone ==
  ASSUME NEW results \in Results, NEW t
  PROVE  TallyUpTo(results, t, 0) = Blank(t)
<1>1. Sums(For(results, t))[0] = 0 /\ Sums(Against(results, t))[0] = 0
  BY GoalsAreNumbers, SumsRecursion
<1>2. \A D : Cardinality(D \cap (1..0)) = 0
  <2> TAKE D
  <2>1. D \cap (1..0) = {}
    OBVIOUS
  <2> QED
    BY <2>1, FS_EmptySet
<1> QED
  BY <1>1, <1>2 DEF TallyUpTo, Blank

\* The row has numbers of its type.
LEMMA TallyType ==
  ASSUME NEW results \in Results, NEW t \in Team, NEW m \in 0..MatchesPerGroup
  PROVE  TallyUpTo(results, t, m) \in Standing
<1>1. Sums(For(results, t))[m] \in Nat /\ Sums(Against(results, t))[m] \in Nat
  <2>1. m \in 0..MatchesPerGroup
    OBVIOUS
  <2>2. \A f \in [Match -> Nat] : Sums(f) \in [0..MatchesPerGroup -> Nat]
    BY SumsRecursion
  <2>3. \A f \in [Match -> Nat] : Sums(f)[m] \in Nat
    BY <2>1, <2>2
  <2> QED
    BY <2>3, GoalsAreNumbers
<1>2. \A D : Cardinality(D \cap (1..m)) \in Nat
  <2>1. m \in Nat
    BY ReportAssumption
  <2> QED
    BY <2>1, CountStep
<1>3. /\ Cardinality(Names(results, t) \cap (1..m)) \in Nat
      /\ Cardinality(Won(results, t) \cap (1..m)) \in Nat
      /\ Cardinality(Drawn(results, t) \cap (1..m)) \in Nat
      /\ Cardinality(Lost(results, t) \cap (1..m)) \in Nat
  BY <1>2
<1> QED
  BY <1>1, <1>3 DEF TallyUpTo, Standing

\* A match that has no result or does not name the team adds nothing to its row.
LEMMA TallySkips ==
  ASSUME NEW results \in Results, NEW t, NEW m \in 0..(MatchesPerGroup - 1),
         m + 1 \notin Names(results, t)
  PROVE  TallyUpTo(results, t, m + 1) = TallyUpTo(results, t, m)
<1>1. m \in Nat /\ m + 1 \in Match /\ (m + 1) - 1 = m /\ m \in 0..MatchesPerGroup
  BY ReportAssumption DEF Match
<1>2. /\ m + 1 \notin Won(results, t)
      /\ m + 1 \notin Drawn(results, t)
      /\ m + 1 \notin Lost(results, t)
  BY DEF Won, Drawn, Lost
<1>3. For(results, t)[m + 1] = 0 /\ Against(results, t)[m + 1] = 0
  BY <1>1 DEF For, Against
<1>4. /\ Sums(For(results, t))[m + 1] = Sums(For(results, t))[m]
      /\ Sums(Against(results, t))[m + 1] = Sums(Against(results, t))[m]
  <2>1. ASSUME NEW f \in [Match -> Nat], f[m + 1] = 0
        PROVE  Sums(f)[m + 1] = Sums(f)[m]
    <3>1. Sums(f)[m + 1] = Sums(f)[m] + f[m + 1] /\ Sums(f)[m] \in Nat
      BY <1>1, SumsRecursion
    <3> QED
      BY <2>1, <3>1
  <2> QED
    BY <1>3, <2>1, GoalsAreNumbers
<1>5. \A D : m + 1 \notin D => Cardinality(D \cap (1..(m + 1))) = Cardinality(D \cap (1..m))
  BY <1>1, CountStep
<1> QED
  BY <1>2, <1>4, <1>5 DEF TallyUpTo

\* A match that names the team adds its score as ApplyResultToStanding does.
LEMMA TallyAdds ==
  ASSUME NEW results \in Results, NEW t, NEW m \in 0..(MatchesPerGroup - 1),
         m + 1 \in Names(results, t)
  PROVE  TallyUpTo(results, t, m + 1) =
         ApplyResultToStanding(TallyUpTo(results, t, m),
                               Scored(t, results[m + 1]), Conceded(t, results[m + 1]))
<1> DEFINE x == Scored(t, results[m + 1])
           y == Conceded(t, results[m + 1])
<1>1. m \in Nat /\ m + 1 \in Match /\ (m + 1) - 1 = m /\ m \in 0..MatchesPerGroup
  BY ReportAssumption DEF Match
<1>2. x \in Nat /\ y \in Nat
  BY GoalsAreNumbers
<1>3. For(results, t)[m + 1] = x /\ Against(results, t)[m + 1] = y
  BY <1>1 DEF For, Against
<1>4. /\ m + 1 \in Won(results, t) <=> x > y
      /\ m + 1 \in Drawn(results, t) <=> x = y
      /\ m + 1 \in Lost(results, t) <=> x < y
  BY DEF Won, Drawn, Lost
<1> HIDE DEF x, y
<1>5. /\ Sums(For(results, t))[m + 1] = Sums(For(results, t))[m] + x
      /\ Sums(Against(results, t))[m + 1] = Sums(Against(results, t))[m] + y
  <2>1. ASSUME NEW f \in [Match -> Nat]
        PROVE  Sums(f)[m + 1] = Sums(f)[m] + f[m + 1]
    BY <1>1, SumsRecursion
  <2> QED
    BY <1>3, <2>1, GoalsAreNumbers
<1>6. \A D : /\ m + 1 \notin D => Cardinality(D \cap (1..(m + 1))) = Cardinality(D \cap (1..m))
             /\ m + 1 \in D => Cardinality(D \cap (1..(m + 1))) = Cardinality(D \cap (1..m)) + 1
  BY <1>1, CountStep
<1> DEFINE old == TallyUpTo(results, t, m)
           new == TallyUpTo(results, t, m + 1)
<1>7. /\ new.played = old.played + 1
      /\ new.won = IF x > y THEN old.won + 1 ELSE old.won
      /\ new.drawn = IF x = y THEN old.drawn + 1 ELSE old.drawn
      /\ new.lost = IF x < y THEN old.lost + 1 ELSE old.lost
      /\ new.goalsFor = old.goalsFor + x
      /\ new.goalsAgainst = old.goalsAgainst + y
  BY <1>4, <1>5, <1>6 DEF TallyUpTo
<1>8. new = ApplyResultToStanding(old, x, y)
  <2>1. new = [team |-> t, played |-> new.played, won |-> new.won, drawn |-> new.drawn,
               lost |-> new.lost, goalsFor |-> new.goalsFor,
               goalsAgainst |-> new.goalsAgainst]
    BY DEF TallyUpTo
  <2>2. old.team = t
    BY DEF TallyUpTo
  <2> HIDE DEF old, new
  <2> QED
    BY <1>7, <2>1, <2>2 DEF ApplyResultToStanding
<1> QED
  BY <1>8 DEF x, y

-----------------------------------------------------------------------------
(* The replay                                                              *)

\* Tables of the group's size.
Rows == [1..Len(Teams) -> Standing]

\* A row after a match, and a table before it is sorted again.
RowAfter(s, r) ==
  CASE s.team = r.home -> ApplyResultToStanding(s, r.homeGoals, r.awayGoals)
    [] s.team = r.away -> ApplyResultToStanding(s, r.awayGoals, r.homeGoals)
    [] OTHER           -> s
Updated(standings, r) == [i \in 1..Len(Teams) |-> RowAfter(standings[i], r)]

\* There are teams, each in one place.
LEMMA TeamsType ==
  /\ Len(Teams) \in Nat
  /\ Teams \in [1..Len(Teams) -> Team]
  /\ \A t \in Team : \E i \in 1..Len(Teams) : Teams[i] = t
  /\ \A i, j \in 1..Len(Teams) : Teams[i] = Teams[j] => i = j
<1>1. Teams \in Seq(Team) /\ \A i, j \in DOMAIN Teams : Teams[i] = Teams[j] => i = j
  BY TeamsAssumption
<1>2. Len(Teams) \in Nat /\ DOMAIN Teams = 1..Len(Teams) /\ Teams \in [1..Len(Teams) -> Team]
  BY <1>1
<1>3. Team = {Teams[i] : i \in DOMAIN Teams}
  BY DEF Team, ToSet
<1> QED
  BY <1>1, <1>2, <1>3

\* The seeded table has the group's teams.
LEMMA SeededType ==
  /\ SeededTable \in Rows
  /\ \A i \in 1..Len(Teams) : SeededTable[i] = Blank(Teams[i])
<1>1. \A t \in Team : Blank(t) \in Standing
  BY DEF Blank, Standing
<1> QED
  BY <1>1, TeamsType DEF SeededTable, Rows

\* A row keeps its team, and its counters stay numbers.
LEMMA RowAfterType ==
  ASSUME NEW s \in Standing, NEW r, r.homeGoals \in Nat, r.awayGoals \in Nat
  PROVE  RowAfter(s, r) \in Standing /\ RowAfter(s, r).team = s.team
<1>1. ASSUME NEW x \in Nat, NEW y \in Nat
      PROVE  /\ ApplyResultToStanding(s, x, y) \in Standing
             /\ ApplyResultToStanding(s, x, y).team = s.team
  BY <1>1 DEF Standing, ApplyResultToStanding
<1>2. CASE s.team = r.home
  BY <1>1, <1>2 DEF RowAfter
<1>3. CASE s.team # r.home /\ s.team = r.away
  BY <1>1, <1>3 DEF RowAfter
<1>4. CASE s.team # r.home /\ s.team # r.away
  BY <1>4 DEF RowAfter
<1> QED
  BY <1>2, <1>3, <1>4

\* A match updates the rows and sorts them.
LEMMA ApplyIsSort ==
  ASSUME NEW s \in Rows, NEW r, r.homeGoals \in Nat, r.awayGoals \in Nat
  PROVE  /\ Updated(s, r) \in Rows
         /\ ApplyMatchToStandings(s, r) \in Rows
         /\ IsSort(Updated(s, r), ApplyMatchToStandings(s, r), Len(Teams))
<1>1. Updated(s, r) \in Rows
  BY RowAfterType DEF Updated, Rows
<1>2. ApplyMatchToStandings(s, r) = SortStandings(Updated(s, r))
  <2>1. DOMAIN s = 1..Len(Teams)
    BY DEF Rows
  <2> QED
    BY <2>1 DEF ApplyMatchToStandings, Updated, RowAfter
<1>3. IsSort(Updated(s, r), SortStandings(Updated(s, r)), Len(Teams))
  BY <1>1, TeamsType, SortIsStable DEF Rows
<1> QED
  BY <1>1, <1>2, <1>3 DEF IsSort, Rows

\* The recursion that StandingsAfter is.
LEMMA StandingsRecursion ==
  ASSUME NEW results \in Results
  PROVE  /\ StandingsAfter(results) \in [0..MatchesPerGroup -> Rows]
         /\ StandingsAfter(results)[0] = SeededTable
         /\ \A m \in Match :
              StandingsAfter(results)[m] =
                IF results[m] = NoReport THEN StandingsAfter(results)[m - 1]
                ELSE ApplyMatchToStandings(StandingsAfter(results)[m - 1], results[m])
<1> DEFINE n == MatchesPerGroup
           Counted(s, k) == IF results[k] = NoReport THEN s
                          ELSE ApplyMatchToStandings(s, results[k])
           After(h, k) == IF k = 0 THEN SeededTable ELSE
                          IF results[k] = NoReport THEN h[k - 1]
                          ELSE ApplyMatchToStandings(h[k - 1], results[k])
           IsAfter(h) == h = [k \in 0..n |-> After(h, k)]
           g == CHOOSE h : IsAfter(h)
           step == [k \in 1..n |-> [s \in Rows |-> Counted(s, k)]]
<1>1. n \in Nat /\ Match = 1..n
  BY ReportAssumption DEF Match
<1>2. StandingsAfter(results) = g
  BY DEF StandingsAfter
<1>3. ASSUME NEW k \in 1..n, NEW s \in Rows PROVE Counted(s, k) \in Rows
  <2>1. CASE results[k] = NoReport
    BY <2>1
  <2>2. CASE results[k] # NoReport
    <3>1. results[k].homeGoals \in Nat /\ results[k].awayGoals \in Nat
      BY <1>1, <2>2 DEF Results
    <3> QED
      BY <2>2, <3>1, ApplyIsSort
  <2> QED
    BY <2>1, <2>2
<1> HIDE DEF n
<1>4. step \in [1..n -> [Rows -> Rows]]
  <2> HIDE DEF Counted
  <2> QED
    BY <1>3
<1>5. PICK h \in [0..n -> Rows] : Recursion(h, n, SeededTable, step)
  <2> HIDE DEF step
  <2> QED
    BY <1>1, <1>4, SeededType, RecursionTo
<1>6. \A k \in 1..n : h[k] = Counted(h[k - 1], k)
  <2> TAKE k \in 1..n
  <2>1. k - 1 \in 0..n /\ k \in Nat
    BY <1>1
  <2>2. h[k - 1] \in Rows
    BY <2>1
  <2>3. h[k] = step[k][h[k - 1]]
    BY <1>5 DEF Recursion
  <2>4. \A s \in Rows : step[k][s] = Counted(s, k)
    <3> HIDE DEF Counted
    <3> QED
      OBVIOUS
  <2> HIDE DEF step, Counted
  <2> QED
    BY <2>2, <2>3, <2>4
<1>7. IsAfter(h)
  <2>1. \A k \in 0..n : h[k] = After(h, k)
    <3> TAKE k \in 0..n
    <3>1. CASE k = 0
      BY <1>5, <3>1 DEF Recursion
    <3>2. CASE k # 0
      <4>1. k \in 1..n
        BY <1>1, <3>2
      <4> QED
        BY <1>6, <3>2, <4>1
    <3> QED
      BY <3>1, <3>2
  <2> HIDE DEF After
  <2> QED
    BY <2>1
<1>8. IsAfter(g)
  <2> HIDE DEF IsAfter
  <2> QED
    BY <1>7
<1> HIDE DEF g, step
<1>9. \A k \in 0..n : g[k] = After(g, k)
  <2> HIDE DEF After
  <2> QED
    BY <1>8
<1>10. g[0] = SeededTable
  BY <1>1, <1>9
<1>11. \A k \in 1..n : g[k] = Counted(g[k - 1], k)
  <2> TAKE k \in 1..n
  <2>1. k \in 0..n /\ k # 0
    BY <1>1
  <2> QED
    BY <1>9, <2>1
<1>12. \A k \in 0..n : g[k] \in Rows
  <2> DEFINE A == {k \in 0..n : g[k] \in Rows}
  <2>1. 0 \in A
    BY <1>1, <1>10, SeededType
  <2>2. \A k \in 0..(n - 1) : k \in A => k + 1 \in A
    <3> TAKE k \in 0..(n - 1)
    <3>1. k + 1 \in 1..n /\ k + 1 \in 0..n /\ (k + 1) - 1 = k
      BY <1>1
    <3>2. g[k + 1] = Counted(g[k], k + 1)
      BY <1>11, <3>1
    <3> HIDE DEF Counted
    <3> QED
      BY <1>3, <3>1, <3>2
  <2> HIDE DEF A
  <2>3. \A k \in 0..n : k \in A
    BY <1>1, <2>1, <2>2, InductionTo
  <2> QED
    BY <2>3 DEF A
<1>13. g \in [0..n -> Rows]
  <2>1. g = [k \in 0..n |-> g[k]]
    <3> HIDE DEF After
    <3> QED
      BY <1>8, <1>9
  <2> QED
    BY <1>12, <2>1
<1> QED
  BY <1>1, <1>2, <1>10, <1>11, <1>13 DEF n

\* T is the table of the first m results: it has one row for every team, the
\* row is the team's tally, and the rows are ranked.
IsTable(T, results, m) ==
  /\ T \in Rows
  /\ Ranked(T, Len(Teams))
  /\ \A i \in 1..Len(Teams) : T[i] = TallyUpTo(results, T[i].team, m)
  /\ \A i, j \in 1..Len(Teams) : T[i].team = T[j].team => i = j
  /\ \A t \in Team : \E i \in 1..Len(Teams) : T[i].team = t

\* The seeded table is the table of no results.
LEMMA SeededIsTable ==
  ASSUME NEW results \in Results
  PROVE  IsTable(SeededTable, results, 0)
<1>1. \A t : TallyUpTo(results, t, 0) = Blank(t) /\ Blank(t).team = t
  BY TallyOfNone DEF Blank
<1>2. \A t, u : ~ StandingLess(Blank(t), Blank(u))
  BY DEF StandingLess, Points, GoalDifference, Blank
<1>3. Ranked(SeededTable, Len(Teams))
  BY <1>2, SeededType DEF Ranked
<1>4. \A i \in 1..Len(Teams) : /\ SeededTable[i].team = Teams[i]
                               /\ SeededTable[i] = TallyUpTo(results, SeededTable[i].team, 0)
  BY <1>1, SeededType
<1> QED
  BY <1>3, <1>4, TeamsType, SeededType DEF IsTable

\* A match makes the tally of the first m the tally of the first m + 1.
LEMMA RowAfterTally ==
  ASSUME NEW results \in Results, NEW t, NEW m \in 0..(MatchesPerGroup - 1),
         results[m + 1] # NoReport
  PROVE  RowAfter(TallyUpTo(results, t, m), results[m + 1]) = TallyUpTo(results, t, m + 1)
<1> DEFINE r == results[m + 1]
           s == TallyUpTo(results, t, m)
<1> SUFFICES RowAfter(s, r) = TallyUpTo(results, t, m + 1)
  OBVIOUS
<1>1. m + 1 \in Match
  BY ReportAssumption DEF Match
<1>2. s.team = t
  BY DEF TallyUpTo
<1>3. r.home # r.away
  BY <1>1, ReportAssumption DEF Results
<1>4. m + 1 \in Names(results, t) <=> t \in {r.home, r.away}
  BY <1>1 DEF Names
<1>5. CASE t = r.home
  <2>1. Scored(t, r) = r.homeGoals /\ Conceded(t, r) = r.awayGoals
    BY <1>5 DEF Scored, Conceded
  <2>2. TallyUpTo(results, t, m + 1) = ApplyResultToStanding(s, r.homeGoals, r.awayGoals)
    BY <1>4, <1>5, <2>1, TallyAdds
  <2> HIDE DEF s, r
  <2> QED
    BY <1>2, <1>3, <1>5, <2>2 DEF RowAfter
<1>6. CASE t = r.away
  <2>1. Scored(t, r) = r.awayGoals /\ Conceded(t, r) = r.homeGoals
    BY <1>3, <1>6 DEF Scored, Conceded
  <2>2. TallyUpTo(results, t, m + 1) = ApplyResultToStanding(s, r.awayGoals, r.homeGoals)
    BY <1>4, <1>6, <2>1, TallyAdds
  <2> HIDE DEF s, r
  <2> QED
    BY <1>2, <1>3, <1>6, <2>2 DEF RowAfter
<1>7. CASE t # r.home /\ t # r.away
  <2>1. TallyUpTo(results, t, m + 1) = s
    BY <1>4, <1>7, TallySkips
  <2> HIDE DEF s, r
  <2> QED
    BY <1>2, <1>7, <2>1 DEF RowAfter
<1> QED
  BY <1>5, <1>6, <1>7

\* The rows of two teams are in the order of their places.
LEMMA AboveIsBefore ==
  ASSUME NEW results, NEW m, NEW T, IsTable(T, results, m),
         NEW i \in 1..Len(Teams), NEW j \in 1..Len(Teams)
  PROVE  Above(T, T[i].team, T[j].team) <=> i < j
<1>1. /\ DOMAIN T = 1..Len(Teams)
      /\ \A k, l \in 1..Len(Teams) : T[k].team = T[l].team => k = l
  BY DEF IsTable, Rows
<1> QED
  BY <1>1 DEF Above

\* The table of the next match: IsTable holds again, and the order of two
\* teams is by StandingLess of their new rows, or as it was if level.
TableStep(old, new, results, m) ==
  /\ IsTable(new, results, m + 1)
  /\ \A s, t \in Team :
       Above(new, s, t) <=>
         \/ StandingLess(TallyUpTo(results, s, m + 1), TallyUpTo(results, t, m + 1))
         \/ /\ ~ StandingLess(TallyUpTo(results, t, m + 1), TallyUpTo(results, s, m + 1))
            /\ Above(old, s, t)

\* A match without a result leaves the table as it is.
LEMMA TableStays ==
  ASSUME NEW results \in Results, NEW m \in 0..(MatchesPerGroup - 1),
         results[m + 1] = NoReport, NEW T, IsTable(T, results, m)
  PROVE  TableStep(T, T, results, m)
<1>1. \A t : TallyUpTo(results, t, m + 1) = TallyUpTo(results, t, m)
  BY TallySkips DEF Names
<1>2. IsTable(T, results, m + 1)
  BY <1>1 DEF IsTable
<1>3. ASSUME NEW s \in Team, NEW t \in Team
      PROVE  Above(T, s, t) <=>
               \/ StandingLess(TallyUpTo(results, s, m), TallyUpTo(results, t, m))
               \/ /\ ~ StandingLess(TallyUpTo(results, t, m), TallyUpTo(results, s, m))
                  /\ Above(T, s, t)
  <2>1. PICK i \in 1..Len(Teams) : T[i].team = s
    BY DEF IsTable
  <2>2. PICK j \in 1..Len(Teams) : T[j].team = t
    BY DEF IsTable
  <2>3. /\ T[i] \in Standing /\ T[i] = TallyUpTo(results, s, m)
        /\ T[j] \in Standing /\ T[j] = TallyUpTo(results, t, m)
    BY <2>1, <2>2 DEF IsTable, Rows
  <2>4. Above(T, s, t) <=> i < j
    BY <2>1, <2>2, AboveIsBefore
  <2>5. /\ i < j => ~ StandingLess(T[j], T[i])
        /\ j < i => ~ StandingLess(T[i], T[j])
    BY DEF IsTable, Ranked
  <2>6. i = j => ~ StandingLess(T[i], T[j])
    BY <2>3, LessIsAnOrder
  <2>7. i < j \/ j < i \/ i = j
    OBVIOUS
  <2> QED
    BY <2>3, <2>4, <2>5, <2>6, <2>7
<1> QED
  BY <1>1, <1>2, <1>3 DEF TableStep

\* A match with a result updates the rows and sorts them.
LEMMA TableMoves ==
  ASSUME NEW results \in Results, NEW m \in 0..(MatchesPerGroup - 1),
         results[m + 1] # NoReport, NEW T, IsTable(T, results, m)
  PROVE  TableStep(T, ApplyMatchToStandings(T, results[m + 1]), results, m)
<1> DEFINE n == Len(Teams)
           r == results[m + 1]
           q == Updated(T, r)
           new == ApplyMatchToStandings(T, r)
           R(t) == TallyUpTo(results, t, m + 1)
<1>1. m + 1 \in Match /\ n \in Nat
  BY ReportAssumption, TeamsType DEF Match
<1>2. r.homeGoals \in Nat /\ r.awayGoals \in Nat
  BY <1>1 DEF Results
<1>3. T \in Rows
  BY DEF IsTable
<1>4. q \in Rows /\ new \in Rows /\ IsSort(q, new, n)
  BY <1>2, <1>3, ApplyIsSort
<1>5. PICK p : Arranged(q, new, n, p) /\ Stable(q, n, p)
  BY <1>4 DEF IsSort
<1>6. /\ p \in [1..n -> 1..n]
      /\ \A i, j \in 1..n : p[i] = p[j] => i = j
      /\ \A j \in 1..n : \E i \in 1..n : p[i] = j
      /\ \A i \in 1..n : new[p[i]] = q[i]
  BY <1>5 DEF Arranged
<1>7. Ranked(new, n)
  BY <1>4 DEF IsSort
<1>8. \A i \in 1..n : q[i] = R(T[i].team) /\ q[i].team = T[i].team
  <2> TAKE i \in 1..n
  <2>1. T[i] = TallyUpTo(results, T[i].team, m) /\ T[i] \in Standing
    BY DEF IsTable, Rows
  <2>2. q[i] = RowAfter(T[i], r)
    BY DEF Updated
  <2>3. q[i] = R(T[i].team)
    BY <2>1, <2>2, RowAfterTally
  <2>4. R(T[i].team).team = T[i].team
    BY DEF TallyUpTo
  <2> QED
    BY <2>3, <2>4
<1> HIDE DEF q, new, R, r
<1>9. \A j \in 1..n : new[j] = R(new[j].team)
  <2> TAKE j \in 1..n
  <2>1. PICK i \in 1..n : p[i] = j
    BY <1>6
  <2>2. new[j] = q[i]
    BY <1>6, <2>1
  <2>3. q[i] = R(T[i].team) /\ q[i].team = T[i].team
    BY <1>8
  <2> QED
    BY ONLY <2>2, <2>3
<1>10. \A j, k \in 1..n : new[j].team = new[k].team => j = k
  <2> SUFFICES ASSUME NEW j \in 1..n, NEW k \in 1..n, new[j].team = new[k].team
               PROVE  j = k
    OBVIOUS
  <2>1. PICK a \in 1..n : p[a] = j
    BY <1>6
  <2>2. PICK b \in 1..n : p[b] = k
    BY <1>6
  <2>3. T[a].team = T[b].team
    <3>1. new[j] = q[a] /\ new[k] = q[b]
      BY <1>6, <2>1, <2>2
    <3>2. q[a].team = T[a].team /\ q[b].team = T[b].team
      BY <1>8
    <3> QED
      BY <3>1, <3>2
  <2>4. a = b
    BY <2>3 DEF IsTable
  <2> QED
    BY <2>1, <2>2, <2>4
<1>11. \A t \in Team : \E j \in 1..n : new[j].team = t
  <2> TAKE t \in Team
  <2>1. PICK i \in 1..n : T[i].team = t
    BY DEF IsTable
  <2>2. p[i] \in 1..n /\ new[p[i]].team = t
    BY <1>6, <1>8, <2>1
  <2> QED
    BY <2>2
<1>12. IsTable(new, results, m + 1)
  BY <1>4, <1>7, <1>9, <1>10, <1>11 DEF IsTable, R
<1>13. ASSUME NEW s \in Team, NEW t \in Team
       PROVE  Above(new, s, t) <=> \/ StandingLess(R(s), R(t))
                                   \/ ~ StandingLess(R(t), R(s)) /\ Above(T, s, t)
  <2>1. PICK i \in 1..n : T[i].team = s
    BY DEF IsTable
  <2>2. PICK j \in 1..n : T[j].team = t
    BY DEF IsTable
  <2>3. Above(T, s, t) <=> i < j
    BY <2>1, <2>2, AboveIsBefore
  <2>4. /\ p[i] \in 1..n /\ new[p[i]].team = s
        /\ p[j] \in 1..n /\ new[p[j]].team = t
    BY <1>6, <1>8, <2>1, <2>2
  <2>5. Above(new, s, t) <=> p[i] < p[j]
    BY <1>12, <2>4, AboveIsBefore
  <2>6. p[i] < p[j] <=> \/ StandingLess(q[i], q[j])
                        \/ ~ StandingLess(q[j], q[i]) /\ i < j
    <3>1. q \in [1..n -> Standing] /\ new \in [1..n -> Standing]
      BY <1>4 DEF Rows
    <3> HIDE DEF n
    <3> QED
      BY <1>1, <1>5, <1>7, <3>1, SortOrder
  <2>7. q[i] = R(s) /\ q[j] = R(t)
    BY <1>8, <2>1, <2>2
  <2> QED
    BY <2>3, <2>5, <2>6, <2>7
<1> QED
  BY <1>12, <1>13 DEF TableStep, new, r, R

\* The replay goes from table to table.
LEMMA ReplaySteps ==
  ASSUME NEW results \in Results
  PROVE  /\ \A m \in 0..MatchesPerGroup : IsTable(StandingsAfter(results)[m], results, m)
         /\ \A m \in 0..(MatchesPerGroup - 1) :
              TableStep(StandingsAfter(results)[m], StandingsAfter(results)[m + 1], results, m)
<1> DEFINE n == MatchesPerGroup
           after == StandingsAfter(results)
           A == {m \in 0..n : IsTable(after[m], results, m)}
<1>1. n \in Nat /\ \A m \in 0..(n - 1) : m + 1 \in Match /\ (m + 1) - 1 = m /\ m \in 0..n
                                         /\ m + 1 \in 0..n
  BY ReportAssumption DEF Match
<1>2. /\ after[0] = SeededTable
      /\ \A m \in Match : after[m] = IF results[m] = NoReport THEN after[m - 1]
                                     ELSE ApplyMatchToStandings(after[m - 1], results[m])
  BY StandingsRecursion
<1> HIDE DEF n, after
<1>3. ASSUME NEW m \in 0..(n - 1), IsTable(after[m], results, m)
      PROVE  TableStep(after[m], after[m + 1], results, m)
  <2>1. after[m + 1] = IF results[m + 1] = NoReport THEN after[m]
                       ELSE ApplyMatchToStandings(after[m], results[m + 1])
    BY <1>1, <1>2
  <2>2. CASE results[m + 1] = NoReport
    BY <1>3, <2>1, <2>2, TableStays DEF n
  <2>3. CASE results[m + 1] # NoReport
    BY <1>3, <2>1, <2>3, TableMoves DEF n
  <2> QED
    BY <2>2, <2>3
<1>4. 0 \in A
  BY <1>1, <1>2, SeededIsTable
<1>5. \A m \in 0..(n - 1) : m \in A => m + 1 \in A
  BY <1>1, <1>3 DEF TableStep
<1> HIDE DEF A
<1>6. \A m \in 0..n : m \in A
  BY <1>1, <1>4, <1>5, InductionTo
<1>7. \A m \in 0..n : IsTable(after[m], results, m)
  BY <1>6 DEF A
<1>8. \A m \in 0..(n - 1) : TableStep(after[m], after[m + 1], results, m)
  BY <1>1, <1>3, <1>7
<1> QED
  BY <1>7, <1>8 DEF n, after

\* The replay ends in the table of all the results.
LEMMA ReplayIsTable ==
  ASSUME NEW results \in Results
  PROVE  IsTable(RecalculateStandings(results), results, MatchesPerGroup)
<1>1. MatchesPerGroup \in 0..MatchesPerGroup
  BY ReportAssumption
<1> QED
  BY <1>1, ReplaySteps DEF RecalculateStandings

\* One more result.
WithResult(results, r) == [results EXCEPT ![r.match] = r]

\* One more result of a match does not change the tally of a team it does not
\* name.
LEMMA TallyOfBystander ==
  ASSUME NEW results \in Results, NEW r \in Report, results[r.match] = NoReport,
         NEW later, later = WithResult(results, r),
         NEW t, t \notin {r.home, r.away}, NEW m
  PROVE  TallyUpTo(later, t, m) = TallyUpTo(results, t, m)
<1>1. /\ r.match \in Match /\ later[r.match] = r /\ results \in [Match -> Report \cup {NoReport}]
      /\ \A k \in Match : k # r.match => later[k] = results[k]
  BY ReportAssumption DEF Results, WithResult
<1>2. Names(later, t) = Names(results, t)
  BY <1>1 DEF Names
<1>3. \A k \in Names(results, t) : later[k] = results[k]
  BY <1>1 DEF Names
<1>4. /\ Won(later, t) = Won(results, t)
      /\ Drawn(later, t) = Drawn(results, t)
      /\ Lost(later, t) = Lost(results, t)
      /\ For(later, t) = For(results, t)
      /\ Against(later, t) = Against(results, t)
  <2>1. Won(later, t) = Won(results, t)
    BY <1>2, <1>3 DEF Won
  <2>2. Drawn(later, t) = Drawn(results, t)
    BY <1>2, <1>3 DEF Drawn
  <2>3. Lost(later, t) = Lost(results, t)
    BY <1>2, <1>3 DEF Lost
  <2>4. For(later, t) = For(results, t)
    BY <1>2, <1>3 DEF For
  <2>5. Against(later, t) = Against(results, t)
    BY <1>2, <1>3 DEF Against
  <2> QED
    BY <2>1, <2>2, <2>3, <2>4, <2>5
<1> QED
  BY <1>2, <1>4 DEF TallyUpTo

\* Nor the order of two of them in the replay.
LEMMA ReplayKeepsBystanders ==
  ASSUME NEW results \in Results, NEW r \in Report, results[r.match] = NoReport,
         NEW later \in Results, later = WithResult(results, r),
         NEW s \in Team \ {r.home, r.away}, NEW t \in Team \ {r.home, r.away}
  PROVE  Above(RecalculateStandings(results), s, t)
           <=> Above(RecalculateStandings(later), s, t)
<1> DEFINE n == MatchesPerGroup
           old == StandingsAfter(results)
           new == StandingsAfter(later)
           A == {m \in 0..n : Above(old[m], s, t) <=> Above(new[m], s, t)}
<1>1. n \in Nat /\ \A m \in 0..(n - 1) : m \in 0..n /\ m + 1 \in 0..n
  BY ReportAssumption
<1>2. 0 \in A
  <2>1. old[0] = new[0]
    BY StandingsRecursion
  <2> QED
    BY <1>1, <2>1
<1>3. \A m : /\ TallyUpTo(later, s, m) = TallyUpTo(results, s, m)
             /\ TallyUpTo(later, t, m) = TallyUpTo(results, t, m)
  BY TallyOfBystander
<1>4. ASSUME NEW m \in 0..(n - 1), m \in A PROVE m + 1 \in A
  <2>1. /\ TableStep(old[m], old[m + 1], results, m)
        /\ TableStep(new[m], new[m + 1], later, m)
    BY ReplaySteps
  <2>2. Above(old[m], s, t) <=> Above(new[m], s, t)
    BY <1>4
  <2> HIDE DEF old, new
  <2>3. Above(old[m + 1], s, t) <=> Above(new[m + 1], s, t)
    BY <1>3, <2>1, <2>2 DEF TableStep
  <2> QED
    BY <1>1, <2>3
<1> HIDE DEF A, n
<1>5. \A m \in 0..n : m \in A
  BY <1>1, <1>2, <1>4, InductionTo
<1>6. n \in A
  BY <1>1, <1>5
<1> QED
  BY <1>6 DEF A, n, RecalculateStandings

-----------------------------------------------------------------------------
(* The stored table                                                        *)

\* The strengthening: the stored table is the replay of the stored results,
\* none of which has negative goals.
TableInv ==
  /\ AnnouncedInv
  /\ swappable \in BOOLEAN
  /\ result \in Results
  /\ table = RecalculateStandings(result)

\* A result that validateResult lets through joins the others.
LEMMA ResultsTakeReport ==
  ASSUME result \in Results, NEW r \in Report, ValidResult(r)
  PROVE  [result EXCEPT ![r.match] = r] \in Results
<1>1. r.match \in Match /\ r.homeGoals \in Nat /\ r.awayGoals \in Nat
  BY ReportAssumption DEF ValidResult
<1> QED
  BY <1>1 DEF Results

\* The seeded table is the replay of no results.
LEMMA TableInvInit == Init => TableInv
<1> SUFFICES ASSUME Init PROVE TableInv
  OBVIOUS
<1>1. result \in Results /\ \A m \in Match : result[m] = NoReport
  BY DEF Init, Results
<1> DEFINE n == MatchesPerGroup
           after == StandingsAfter(result)
           A == {m \in 0..n : after[m] = SeededTable}
<1>2. n \in Nat /\ \A m \in 0..(n - 1) : m + 1 \in Match /\ (m + 1) - 1 = m /\ m + 1 \in 0..n
  BY ReportAssumption DEF Match
<1>3. 0 \in A /\ \A m \in Match : after[m] = after[m - 1]
  <2>1. /\ after[0] = SeededTable
        /\ \A m \in Match : after[m] = IF result[m] = NoReport THEN after[m - 1]
                                       ELSE ApplyMatchToStandings(after[m - 1], result[m])
    BY <1>1, StandingsRecursion
  <2> HIDE DEF after
  <2> QED
    BY <1>1, <1>2, <2>1
<1>4. \A m \in 0..(n - 1) : m \in A => m + 1 \in A
  BY <1>2, <1>3
<1> HIDE DEF A, n
<1>5. \A m \in 0..n : m \in A
  BY <1>2, <1>3, <1>4, InductionTo
<1>6. n \in A
  BY <1>2, <1>5
<1>7. table = RecalculateStandings(result)
  BY <1>6 DEF A, n, Init, RecalculateStandings
<1> QED
  BY <1>1, <1>7, AnnouncedInvInit DEF TableInv, Init

\* Every stored result is followed by the replay.
LEMMA TableInvNext == TableInv /\ [Next]_vars => TableInv'
<1> SUFFICES ASSUME TableInv, [Next]_vars
             PROVE  TableInv'
  OBVIOUS
<1>1. AnnouncedInv'
  BY AnnouncedInvNext DEF TableInv
<1>2. ASSUME NEW r \in Report, RegisterMatchResult(r)
      PROVE  TableInv'
  <2>1. /\ result' = [result EXCEPT ![r.match] = r]
        /\ table' = RecalculateStandings(result')
        /\ swappable' = swappable
        /\ ValidResult(r)
    BY <1>2 DEF RegisterMatchResult
  <2>2. result' \in Results
    BY <2>1, ResultsTakeReport DEF TableInv
  <2> QED
    BY <1>1, <2>1, <2>2 DEF TableInv
<1>3. CASE UNCHANGED vars
  BY <1>1, <1>3 DEF TableInv, vars
<1> QED
  BY <1>2, <1>3 DEF Next, SaveFails, RejectResult

\* The replay invariant of the group table.
LEMMA TableInvariance == Spec => []TableInv
BY TableInvInit, TableInvNext, PTL DEF Spec

\* Every component of the state keeps its type.
THEOREM TableTypeCorrectness == Spec => []TypeOK
<1>1. ASSUME TableInv PROVE TypeOK
  <2>1. IsTable(table, result, MatchesPerGroup)
    BY <1>1, ReplayIsTable DEF TableInv
  <2>2. table \in Seq(Standing)
    <3>1. table \in [1..Len(Teams) -> Standing] /\ Len(Teams) \in Nat
      BY <2>1, TeamsType DEF IsTable, Rows
    <3> QED
      BY <3>1
  <2>3. announced \subseteq {table}
    BY <1>1 DEF TableInv, AnnouncedInv, AnnouncedTableIsFinal
  <2> QED
    BY <1>1, <2>2, <2>3 DEF TableInv, Results, TypeOK
<1> QED
  BY <1>1, TableInvariance, PTL

\* What Tally adds up is what TallyUpTo adds up over all the matches.
LEMMA TallyIsOfAll ==
  ASSUME NEW t
  PROVE  Tally(t) = TallyUpTo(result, t, MatchesPerGroup)
<1> DEFINE scored == [m \in Named(t) |-> Scored(t, result[m])]
           conceded == [m \in Named(t) |-> Conceded(t, result[m])]
<1>1. Named(t) = Names(result, t) /\ Names(result, t) \subseteq Match
  BY DEF Named, Names
<1>2. \A D \in SUBSET Match : D \cap (1..MatchesPerGroup) = D
  BY DEF Match
<1>3. /\ Names(result, t) \cap (1..MatchesPerGroup) = Named(t)
      /\ Won(result, t) \cap (1..MatchesPerGroup) = {m \in Named(t) : scored[m] > conceded[m]}
      /\ Drawn(result, t) \cap (1..MatchesPerGroup) = {m \in Named(t) : scored[m] = conceded[m]}
      /\ Lost(result, t) \cap (1..MatchesPerGroup) = {m \in Named(t) : scored[m] < conceded[m]}
  <2>1. Names(result, t) \cap (1..MatchesPerGroup) = Named(t)
    BY <1>1, <1>2
  <2>2. \A m \in Named(t) : scored[m] = Scored(t, result[m]) /\ conceded[m] = Conceded(t, result[m])
    OBVIOUS
  <2> HIDE DEF scored, conceded
  <2>3. /\ Won(result, t) = {m \in Named(t) : scored[m] > conceded[m]}
        /\ Won(result, t) \subseteq Match
    BY <1>1, <2>2 DEF Won
  <2>4. /\ Drawn(result, t) = {m \in Named(t) : scored[m] = conceded[m]}
        /\ Drawn(result, t) \subseteq Match
    BY <1>1, <2>2 DEF Drawn
  <2>5. /\ Lost(result, t) = {m \in Named(t) : scored[m] < conceded[m]}
        /\ Lost(result, t) \subseteq Match
    BY <1>1, <2>2 DEF Lost
  <2> QED
    BY <1>2, <2>1, <2>3, <2>4, <2>5
<1>4. /\ For(result, t) = [m \in Match |-> IF m \in Named(t) THEN scored[m] ELSE 0]
      /\ Against(result, t) = [m \in Match |-> IF m \in Named(t) THEN conceded[m] ELSE 0]
  BY <1>1 DEF For, Against
<1> HIDE DEF scored, conceded
<1>5. /\ SumOver(Named(t), scored) = Sums(For(result, t))[MatchesPerGroup]
      /\ SumOver(Named(t), conceded) = Sums(Against(result, t))[MatchesPerGroup]
  BY <1>4 DEF SumOver
<1>6. Tally(t) = [team |-> t,
                  played |-> Cardinality(Named(t)),
                  won |-> Cardinality({m \in Named(t) : scored[m] > conceded[m]}),
                  drawn |-> Cardinality({m \in Named(t) : scored[m] = conceded[m]}),
                  lost |-> Cardinality({m \in Named(t) : scored[m] < conceded[m]}),
                  goalsFor |-> SumOver(Named(t), scored),
                  goalsAgainst |-> SumOver(Named(t), conceded)]
  BY DEF Tally, scored, conceded
<1> QED
  BY <1>3, <1>5, <1>6 DEF TallyUpTo

\* The stored table has one row for every team of the group and the row says
\* what the stored results that name the team add up to, whatever the teams,
\* the number of matches and the order the results came in
\* (recalculateStandings, group.go:120).
THEOREM TheTableAddsUp == Spec => []TableMatchesResults
<1>1. ASSUME TableInv PROVE TableMatchesResults
  <2>1. IsTable(table, result, MatchesPerGroup)
    BY <1>1, ReplayIsTable DEF TableInv
  <2>2. /\ Len(Teams) \in Nat
        /\ DOMAIN table = 1..Len(Teams) /\ table \in [1..Len(Teams) -> Standing]
    BY <2>1, TeamsType DEF IsTable, Rows
  <2>3. Len(table) = Len(Teams)
    BY <2>2
  <2>4. ASSUME NEW i \in DOMAIN table PROVE \E t \in Team : table[i] = Tally(t)
    <3>1. table[i].team \in Team
      BY <2>2 DEF Standing
    <3>2. table[i] = Tally(table[i].team)
      BY <2>1, <2>2, TallyIsOfAll DEF IsTable
    <3> QED
      BY <3>1, <3>2
  <2>5. ASSUME NEW t \in Team PROVE \E i \in DOMAIN table : table[i] = Tally(t)
    <3>1. PICK i \in 1..Len(Teams) : table[i].team = t
      BY <2>1 DEF IsTable
    <3>2. table[i] = Tally(t)
      BY <2>1, <3>1, TallyIsOfAll DEF IsTable
    <3> QED
      BY <2>2, <3>2
  <2> QED
    BY <2>3, <2>4, <2>5 DEF TableMatchesResults
<1> QED
  BY <1>1, TableInvariance, PTL

\* A row that does not beat another is not above it on the first criterion on
\* which they differ.
LEMMA RankOfRows ==
  ASSUME NEW a \in Standing, NEW b \in Standing, ~ StandingLess(b, a),
         NEW rank, rank = <<Points(a) - Points(b),
                            GoalDifference(a) - GoalDifference(b),
                            a.goalsFor - b.goalsFor>>
  PROVE  \A k \in 1..3 : rank[k] < 0 => \E l \in 1..(k - 1) : rank[l] > 0
<1>1. /\ Points(a) \in Int /\ GoalDifference(a) \in Int /\ a.goalsFor \in Int
      /\ Points(b) \in Int /\ GoalDifference(b) \in Int /\ b.goalsFor \in Int
  BY DEF Standing, Points, GoalDifference
<1>2. /\ ~ (rank[1] < 0)
      /\ rank[2] < 0 => rank[1] > 0
      /\ rank[3] < 0 => rank[1] > 0 \/ rank[2] > 0
  BY <1>1 DEF StandingLess
<1> TAKE k \in 1..3
<1>3. CASE k = 1
  BY <1>2, <1>3
<1>4. CASE k = 2
  <2>1. 1 \in 1..(k - 1)
    BY <1>4
  <2> QED
    BY <1>2, <1>4, <2>1
<1>5. CASE k = 3
  <2>1. 1 \in 1..(k - 1) /\ 2 \in 1..(k - 1)
    BY <1>5
  <2> QED
    BY <1>2, <1>5, <2>1
<1> QED
  BY <1>3, <1>4, <1>5

\* The stored table is in FIFA's order, for any number of teams: the insertion
\* sort that runs after every match on the order the match before it left ends
\* in that order (SortStandings, standing.go:66).
THEOREM TheTableIsRanked == Spec => []TableIsRanked
<1>1. ASSUME TableInv PROVE TableIsRanked
  <2>1. IsTable(table, result, MatchesPerGroup)
    BY <1>1, ReplayIsTable DEF TableInv
  <2>2. DOMAIN table = 1..Len(Teams) /\ table \in [1..Len(Teams) -> Standing]
    BY <2>1 DEF IsTable, Rows
  <2>3. ASSUME NEW i \in DOMAIN table, NEW j \in DOMAIN table, i < j
        PROVE  ~ StandingLess(table[j], table[i]) /\ table[i] \in Standing /\ table[j] \in Standing
    BY <2>1, <2>2, <2>3 DEF IsTable, Ranked
  <2> QED
    BY <2>3, RankOfRows DEF TableIsRanked
<1> QED
  BY <1>1, TableInvariance, PTL

\* With the constraint as built Save refuses exactly the results that change
\* the order of the stored table (upsertStandings under
\* group_standings_position_unique), in every state the group gets to.
THEOREM OvertakersAreRefused == Spec => []RefusedIffReordered
<1>1. ASSUME TableInv PROVE RefusedIffReordered
  <2> SUFFICES ASSUME NEW r \in Report, ValidResult(r),
                      NEW new, new = RecalculateStandings([result EXCEPT ![r.match] = r])
               PROVE  UpsertRefused(Order(table), Order(new)) <=> Order(new) # Order(table)
    BY DEF RefusedIffReordered
  <2> DEFINE results == [result EXCEPT ![r.match] = r]
  <2>1. results \in Results
    BY <1>1, ResultsTakeReport DEF TableInv
  <2>2. IsTable(new, results, MatchesPerGroup)
    BY <2>1, ReplayIsTable
  <2>3. IsTable(table, result, MatchesPerGroup)
    BY <1>1, ReplayIsTable DEF TableInv
  <2>4. \A T \in Rows : /\ Order(T) \in [1..Len(Teams) -> Team]
                        /\ \A i \in 1..Len(Teams) : Order(T)[i] = T[i].team
    BY DEF Order, Rows, Standing
  <2>5. /\ Order(table) \in [1..Len(Teams) -> Team]
        /\ Order(new) \in [1..Len(Teams) -> Team]
        /\ \A i, j \in 1..Len(Teams) : Order(table)[i] = Order(table)[j] => i = j
    BY <2>2, <2>3, <2>4 DEF IsTable
  <2> QED
    BY <2>5, TeamsType, ReorderingIsRefused
<1> QED
  BY <1>1, TableInvariance, PTL

\* A result never changes the order of two teams that it does not name,
\* whatever the number of teams and matches and the place of the result among
\* them: the replay breaks ties by the order they left before, and its sort is
\* stable (SortStandings, standing.go:66).
THEOREM BystandersAreKept == Spec => BystandersKeepOrder
<1> DEFINE Keeps ==
      \A r \in Report :
        (result[r.match] = NoReport /\ result'[r.match] = r) =>
          \A s, t \in Team \ {r.home, r.away} :
            Above(table, s, t) <=> Above(table', s, t)
<1>1. ASSUME TableInv, TableInv', [Next]_vars PROVE Keeps
  <2> SUFFICES ASSUME NEW r \in Report,
                      result[r.match] = NoReport, result'[r.match] = r,
                      NEW s \in Team \ {r.home, r.away}, NEW t \in Team \ {r.home, r.away}
               PROVE  Above(table, s, t) <=> Above(table', s, t)
    OBVIOUS
  <2>1. result'[r.match] # result[r.match]
    BY ReportAssumption
  <2>2. PICK x \in Report : RegisterMatchResult(x)
    BY <1>1, <2>1 DEF Next, SaveFails, RejectResult, vars
  <2>3. result' = WithResult(result, x)
    BY <2>2 DEF RegisterMatchResult, WithResult
  <2>4. result \in [Match -> Report \cup {NoReport}] /\ r.match \in Match /\ x.match \in Match
    BY <1>1, ReportAssumption DEF TableInv, Results
  <2>5. r.match = x.match /\ r = x
    BY <2>1, <2>3, <2>4 DEF WithResult
  <2>6. /\ result \in Results /\ result' \in Results
        /\ table = RecalculateStandings(result)
        /\ table' = RecalculateStandings(result')
    BY <1>1 DEF TableInv
  <2>7. result' = WithResult(result, r)
    BY <2>3, <2>5
  <2> QED
    BY <2>6, <2>7, ReplayKeepsBystanders
<1> QED
  BY <1>1, TableInvariance, PTL DEF BystandersKeepOrder, Spec
=============================================================================
