------------------------ MODULE VenueDistancesProofs ------------------------
(***************************************************************************)
(* What the distance cache promises, for any venues, places and requests.  *)
(* The four properties of the run are inductive together with one more     *)
(* about the matrix in memory and one about requests between their two     *)
(* queries. The types need the rows of the cache to be positive distances. *)
(***************************************************************************)
EXTENDS VenueDistances, TLAPS

\* The matrix in memory is as old as the last Save of its pair.
MatrixStaleOnlyIfMoved ==
  \A p \in DOMAIN matrix \ matrixMoved : matrix[p] = DistanceOf(venues, p)

\* A request under way has seen the present distance of its pair, and knows of a
\* row that is old.
RequestsWatch ==
  \A r \in Reader :
    request[r].pc \in {"cache", "calc"} =>
      /\ CalculatedDistance(venues, request[r].pair) \in during[r].distances
      /\ request[r].pair \in moved => request[r].pair \in during[r].moved

\* The variables of the requests are records over all readers.
Shapes ==
  /\ request \in [Reader -> [pc : {"idle", "cache", "calc", "answered"},
                             pair : Pair \cup {<<>>}, answer : Int]]
  /\ during \in [Reader -> [distances : SUBSET Int, moved : SUBSET Pair]]
  /\ \A r \in Reader : request[r].pc # "idle" => request[r].pair \in Pair

\* The strengthening: the cache part and the request part.
CacheInv ==
  /\ DOMAIN venues \subseteq Venue /\ \A v \in DOMAIN venues : venues[v] \in Place
  /\ DOMAIN venue_distances \subseteq PairsOf(venues)
  /\ DOMAIN matrix \subseteq PairsOf(venues)
  /\ \A p \in DOMAIN venue_distances : venue_distances[p] \in Int
  /\ \A p \in DOMAIN matrix : matrix[p] \in Int
  /\ StaleOnlyIfMoved
  /\ MatrixStaleOnlyIfMoved
  /\ MissingOnlyIfAdded

-----------------------------------------------------------------------------

\* A distance between places is a natural number.
LEMMA DistanceNat == \A a, b \in Int : Distance(a, b) \in Nat
  BY DEF Distance

\* A rounded distance is an integer.
LEMMA RoundedInt == \A m \in Int : Rounded(m) \in Int
  BY DEF Rounded

\* The pair of two venues is a pair whichever is named first.
LEMMA SortedKeyPair ==
  ASSUME NEW a \in Venue, NEW b \in Venue, a # b
  PROVE  SortedKey(a, b) \in Pair
  BY VenueAssumption DEF SortedKey, Pair

\* The distance of two venues is a natural number, and an integer once rounded.
LEMMA DistanceOfNat ==
  ASSUME NEW locations, \A v \in DOMAIN locations : locations[v] \in Place
  PROVE  \A p \in PairsOf(locations) :
           DistanceOf(locations, p) \in Nat /\ Rounded(DistanceOf(locations, p)) \in Int
<1> SUFFICES ASSUME NEW p \in PairsOf(locations)
             PROVE  DistanceOf(locations, p) \in Nat /\ Rounded(DistanceOf(locations, p)) \in Int
  OBVIOUS
<1>1. DistanceOf(locations, p) \in Nat
  BY VenueAssumption, DistanceNat DEF PairsOf, DistanceOf
<1> QED
  BY <1>1, RoundedInt

\* BuildDistanceMatrix has every pair of the venues, each with its distance.
LEMMA MatrixOf ==
  ASSUME NEW locations
  PROVE  /\ DOMAIN BuildDistanceMatrix(locations) = PairsOf(locations)
         /\ \A p \in PairsOf(locations) :
              BuildDistanceMatrix(locations)[p] = DistanceOf(locations, p)
  BY DEF BuildDistanceMatrix

-----------------------------------------------------------------------------

\* The cache part holds at the seed.
LEMMA CacheInvInit == Init => CacheInv
<1> SUFFICES ASSUME Init PROVE CacheInv
  OBVIOUS
<1> DEFINE rows == BuildDistanceMatrix(Seeded)
<1>1. /\ DOMAIN rows = PairsOf(Seeded)
      /\ \A p \in PairsOf(Seeded) : rows[p] = DistanceOf(Seeded, p)
  BY MatrixOf
<1>2. DOMAIN Nothing = {}
  BY DEF Nothing
<1>3. /\ DOMAIN venue_distances = PairsOf(Seeded)
      /\ \A p \in PairsOf(Seeded) : venue_distances[p] = Rounded(DistanceOf(Seeded, p))
  <2> HIDE DEF rows
  <2>1. venue_distances = Upsert(rows, Nothing)
    BY DEF Init, rows
  <2> QED
    BY <2>1, <1>1, <1>2 DEF Upsert
<1>4. \A p \in DOMAIN venue_distances : venue_distances[p] \in Int
  BY <1>3, DistanceOfNat, VenueAssumption
<1> QED
  BY <1>2, <1>3, <1>4, VenueAssumption
  DEF Init, CacheInv, StaleOnlyIfMoved, MatrixStaleOnlyIfMoved, MissingOnlyIfAdded,
      GetDistanceMatrix

\* The cache part is kept by every step: Save puts the pairs it touches into the
\* histories, a write of the cache takes out only pairs it writes.
LEMMA CacheInvStep == CacheInv /\ [Next]_vars => CacheInv'
<1> SUFFICES ASSUME CacheInv, [Next]_vars PROVE CacheInv'
  OBVIOUS
<1> USE DEF CacheInv, StaleOnlyIfMoved, MatrixStaleOnlyIfMoved, MissingOnlyIfAdded,
      GetDistanceMatrix
<1>1. ASSUME NEW v \in Venue, NEW place \in Place, Save(v, place) PROVE CacheInv'
  <2> DEFINE touched == {p \in Pair : v \in {p[1], p[2]}}
  <2>1. /\ venues' = [u \in DOMAIN venues \cup {v} |-> IF u = v THEN place ELSE venues[u]]
        /\ venue_distances' = venue_distances /\ matrix' = matrix
        /\ moved' = moved \cup touched /\ matrixMoved' = matrixMoved \cup touched
        /\ added' = IF v \in DOMAIN venues THEN added ELSE added \cup touched
    BY <1>1 DEF Save, KeptRows
  <2>2. DOMAIN venues' = DOMAIN venues \cup {v}
    BY <2>1
  <2>3. PairsOf(venues) \subseteq PairsOf(venues')
    BY <2>2 DEF PairsOf
  <2>4. \A p \in PairsOf(venues) \ touched : DistanceOf(venues', p) = DistanceOf(venues, p)
    <3> SUFFICES ASSUME NEW p \in PairsOf(venues) \ touched
                 PROVE  DistanceOf(venues', p) = DistanceOf(venues, p)
      OBVIOUS
    <3>1. p[1] \in DOMAIN venues /\ p[2] \in DOMAIN venues /\ v # p[1] /\ v # p[2]
      BY DEF PairsOf
    <3> QED
      BY <2>1, <3>1 DEF DistanceOf
  <2>5. \A w \in DOMAIN venues' : w \in Venue /\ venues'[w] \in Place
    BY <2>1
  <2>6. MissingOnlyIfAdded'
    <3>1. PairsOf(venues') \subseteq PairsOf(venues) \cup touched
      BY <2>2 DEF PairsOf
    <3>2. v \in DOMAIN venues => PairsOf(venues') = PairsOf(venues)
      BY <2>2 DEF PairsOf
    <3> QED
      BY <3>1, <3>2, <2>1
  <2>7. StaleOnlyIfMoved'
    BY <2>1, <2>4
  <2>8. MatrixStaleOnlyIfMoved'
    BY <2>1, <2>4
  <2> QED
    BY <2>1, <2>3, <2>5, <2>6, <2>7, <2>8
<1>2. CASE Rebuild
  <2> DEFINE rows == BuildDistanceMatrix(venues)
  <2>1. /\ DOMAIN rows = PairsOf(venues)
        /\ \A p \in PairsOf(venues) : rows[p] = DistanceOf(venues, p)
    BY MatrixOf
  <2>2. /\ venue_distances' = Upsert(rows, venue_distances)
        /\ moved' = moved \ DOMAIN rows /\ added' = added \ DOMAIN rows
        /\ venues' = venues /\ matrix' = matrix /\ matrixMoved' = matrixMoved
    BY <1>2 DEF Rebuild
  <2> HIDE DEF rows
  <2>3. /\ DOMAIN venue_distances' = PairsOf(venues)
        /\ \A p \in PairsOf(venues) : venue_distances'[p] = Rounded(DistanceOf(venues, p))
    BY <2>1, <2>2 DEF Upsert
  <2>4. \A p \in DOMAIN venue_distances' : venue_distances'[p] \in Int
    BY <2>3, DistanceOfNat
  <2> QED
    BY <2>2, <2>3, <2>4
<1>3. CASE ComputeMatrix
  <2>1. /\ DOMAIN matrix' = PairsOf(venues)
        /\ \A p \in PairsOf(venues) : matrix'[p] = DistanceOf(venues, p)
    BY <1>3, MatrixOf DEF ComputeMatrix
  <2>2. \A p \in DOMAIN matrix' : matrix'[p] \in Int
    BY <2>1, DistanceOfNat
  <2> QED
    BY <1>3, <2>1, <2>2 DEF ComputeMatrix
<1>4. CASE SaveDistanceMatrix
  <2>1. venues' = venues /\ matrix' = Nothing /\ matrixMoved' = {}
    BY <1>4 DEF SaveDistanceMatrix
  <2>2. DOMAIN matrix' = {}
    BY <2>1 DEF Nothing
  <2>3. CASE UNCHANGED <<venue_distances, moved, added>>
    BY <2>1, <2>2, <2>3
  <2>4. CASE /\ venue_distances' = Upsert(matrix, venue_distances)
             /\ moved' = (moved \ DOMAIN matrix) \cup (matrixMoved \cap DOMAIN matrix)
             /\ added' = added \ DOMAIN matrix
    <3>1. /\ DOMAIN venue_distances' = DOMAIN venue_distances \cup DOMAIN matrix
          /\ \A p \in DOMAIN matrix : venue_distances'[p] = Rounded(matrix[p])
          /\ \A p \in DOMAIN venue_distances \ DOMAIN matrix :
               venue_distances'[p] = venue_distances[p]
      BY <2>4 DEF Upsert
    <3>2. StaleOnlyIfMoved'
      BY <3>1, <2>1, <2>4
    <3>3. MissingOnlyIfAdded'
      BY <3>1, <2>1, <2>4
    <3>4. \A p \in DOMAIN venue_distances' : venue_distances'[p] \in Int
      BY <3>1, RoundedInt
    <3> QED
      BY <3>1, <3>2, <3>3, <3>4, <2>1, <2>2
  <2> QED
    BY <1>4, <2>3, <2>4 DEF SaveDistanceMatrix
<1>5. ASSUME NEW r \in Reader, NEW from \in Venue, NEW to \in Venue, Ask(r, from, to)
      PROVE  CacheInv'
  BY <1>5 DEF Ask
<1>6. ASSUME NEW r \in Reader, ReadCache(r) PROVE CacheInv'
  BY <1>6 DEF ReadCache
<1>7. ASSUME NEW r \in Reader, Calculate(r) PROVE CacheInv'
  BY <1>7 DEF Calculate
<1>8. CASE UNCHANGED vars
  BY <1>8 DEF vars
<1> QED
  BY <1>1, <1>2, <1>3, <1>4, <1>5, <1>6, <1>7, <1>8 DEF Next

-----------------------------------------------------------------------------

\* A row of the cache differs from the distance of its venues only if one of them
\* was saved since they were read for it.
THEOREM CacheStaleOnlyIfMoved == Spec => []StaleOnlyIfMoved
<1>1. CacheInv => StaleOnlyIfMoved
  BY DEF CacheInv
<1> QED
  BY <1>1, CacheInvInit, CacheInvStep, PTL DEF Spec

\* The cache lacks a pair of venues only if one of them was added since they were
\* read for the last rebuild.
THEOREM CacheMissingOnlyIfAdded == Spec => []MissingOnlyIfAdded
<1>1. CacheInv => MissingOnlyIfAdded
  BY DEF CacheInv
<1> QED
  BY <1>1, CacheInvInit, CacheInvStep, PTL DEF Spec

-----------------------------------------------------------------------------

\* The distance of a pair of venues is a natural number, so never NotFound.
LEMMA PairDistance ==
  ASSUME NEW p \in Pair, CacheInv
  PROVE  /\ p \in PairsOf(venues) => DistanceOf(venues, p) \in Nat
         /\ CalculatedDistance(venues, p) \in Int
<1>1. p \in PairsOf(venues) => DistanceOf(venues, p) \in Nat
  BY DistanceOfNat DEF CacheInv
<1> QED
  BY <1>1 DEF CalculatedDistance, NotFound

\* The request part of the strengthening.
RequestInv == Shapes /\ RequestsWatch /\ AnswersWereTrue

\* The request part holds when nothing has been asked.
LEMMA RequestInvInit == Init => RequestInv
  BY DEF Init, NoRequest, NoAnswer, RequestInv, Shapes, RequestsWatch, AnswersWereTrue

\* What a step that changes the venues or the cache writes to the history keeps the
\* request part.
LEMMA WatchedKeeps ==
  ASSUME CacheInv, CacheInv', RequestInv, request' = request,
         during' = Watched(venues', moved')
  PROVE  RequestInv'
<1> USE DEF RequestInv, Shapes
<1>1. \A r \in Reader : request[r].pc \in {"cache", "calc"} =>
        during'[r] = [distances |-> during[r].distances
                                      \cup {CalculatedDistance(venues', request[r].pair)},
                      moved |-> during[r].moved \cup ({request[r].pair} \cap moved')]
  BY DEF Watched
<1>2. \A r \in Reader : request[r].pc \notin {"cache", "calc"} => during'[r] = during[r]
  BY DEF Watched
<1>3. \A r \in Reader : request[r].pc # "idle" =>
        CalculatedDistance(venues', request[r].pair) \in Int
  <2>1. \A p \in Pair : CalculatedDistance(venues', p) \in Int
    <3> SUFFICES ASSUME NEW p \in Pair PROVE CalculatedDistance(venues', p) \in Int
      OBVIOUS
    <3>1. p \in PairsOf(venues') => DistanceOf(venues', p) \in Nat
      BY DistanceOfNat DEF CacheInv
    <3> QED
      BY <3>1 DEF CalculatedDistance, NotFound
  <2> QED
    BY <2>1
<1>4. Shapes'
  <2>1. \A r \in Reader : during'[r] \in [distances : SUBSET Int, moved : SUBSET Pair]
    <3> SUFFICES ASSUME NEW r \in Reader
                 PROVE  during'[r] \in [distances : SUBSET Int, moved : SUBSET Pair]
      OBVIOUS
    <3>1. CASE request[r].pc \in {"cache", "calc"}
      <4>1. CalculatedDistance(venues', request[r].pair) \in Int
        BY <3>1, <1>3
      <4> DEFINE seen == during[r].distances
                           \cup {CalculatedDistance(venues', request[r].pair)}
                 old  == during[r].moved \cup ({request[r].pair} \cap moved')
      <4>2. during[r].distances \in SUBSET Int /\ during[r].moved \in SUBSET Pair
        OBVIOUS
      <4>3. request[r].pair \in Pair
        BY <3>1
      <4>4. seen \in SUBSET Int /\ old \in SUBSET Pair
        BY <4>1, <4>2, <4>3
      <4>5. during'[r] = [distances |-> seen, moved |-> old]
        BY <3>1, <1>1
      <4> HIDE DEF seen, old
      <4> QED
        BY <4>4, <4>5
    <3>2. CASE request[r].pc \notin {"cache", "calc"}
      BY <3>2, <1>2
    <3> QED
      BY <3>1, <3>2
  <2>2. during' \in [Reader -> [distances : SUBSET Int, moved : SUBSET Pair]]
    BY <2>1 DEF Watched
  <2> QED
    BY <2>2
<1>5. RequestsWatch'
  <2> SUFFICES ASSUME NEW r \in Reader, request[r].pc \in {"cache", "calc"}
               PROVE  /\ CalculatedDistance(venues', request[r].pair) \in during'[r].distances
                      /\ request[r].pair \in moved' => request[r].pair \in during'[r].moved
    BY DEF RequestsWatch
  <2> DEFINE seen == during[r].distances
                         \cup {CalculatedDistance(venues', request[r].pair)}
             old  == during[r].moved \cup ({request[r].pair} \cap moved')
  <2>1. during'[r] = [distances |-> seen, moved |-> old]
    BY <1>1
  <2> HIDE DEF seen, old
  <2>2. during'[r].distances = seen /\ during'[r].moved = old
    BY <2>1
  <2> QED
    BY <2>2 DEF seen, old
<1>6. AnswersWereTrue'
  BY <1>2 DEF AnswersWereTrue
<1> QED
  BY <1>4, <1>5, <1>6

\* The request part is kept by every step.
LEMMA RequestInvStep ==
  ASSUME CacheInv, CacheInv', RequestInv, [Next]_vars
  PROVE  RequestInv'
<1> USE DEF RequestInv
<1>1. ASSUME NEW v \in Venue, NEW place \in Place, Save(v, place) PROVE RequestInv'
  BY <1>1, WatchedKeeps DEF Save
<1>2. ASSUME UNCHANGED <<venues, request, during>>, moved' \subseteq moved
      PROVE  RequestInv'
  BY <1>2 DEF Shapes, RequestsWatch, AnswersWereTrue
<1>3. CASE Rebuild
  BY <1>3, <1>2 DEF Rebuild
<1>4. CASE ComputeMatrix
  BY <1>4, <1>2 DEF ComputeMatrix
<1>5. CASE SaveDistanceMatrix
  <2>1. CASE during' = Watched(venues, moved')
    BY <1>5, <2>1, WatchedKeeps DEF SaveDistanceMatrix
  <2>2. CASE UNCHANGED <<venue_distances, moved, added, during>>
    BY <1>5, <2>2, <1>2 DEF SaveDistanceMatrix
  <2> QED
    BY <1>5, <2>1, <2>2 DEF SaveDistanceMatrix
<1>6. ASSUME NEW r \in Reader, NEW from \in Venue, NEW to \in Venue, Ask(r, from, to)
      PROVE  RequestInv'
  <2> DEFINE p == SortedKey(from, to)
             asked == [pc |-> "cache", pair |-> p, answer |-> NoAnswer]
             watch == [distances |-> {CalculatedDistance(venues, p)}, moved |-> {p} \cap moved]
  <2>1. /\ request' = [request EXCEPT ![r] = asked]
        /\ during' = [during EXCEPT ![r] = watch]
        /\ UNCHANGED <<venues, moved>>
    BY <1>6 DEF Ask
  <2>2. p \in Pair
    BY <1>6, SortedKeyPair DEF Ask
  <2>3. CalculatedDistance(venues, p) \in Int
    BY <2>2, PairDistance
  <2> HIDE DEF p
  <2>5. /\ asked \in [pc : {"idle", "cache", "calc", "answered"},
                      pair : Pair \cup {<<>>}, answer : Int]
        /\ watch \in [distances : SUBSET Int, moved : SUBSET Pair]
        /\ asked.pc = "cache" /\ asked.pair = p
        /\ watch.distances = {CalculatedDistance(venues, p)}
        /\ watch.moved = {p} \cap moved
    BY <2>2, <2>3 DEF NoAnswer
  <2> HIDE DEF asked, watch
  <2>6. \A q \in Reader : q # r => request'[q] = request[q] /\ during'[q] = during[q]
    BY <2>1 DEF Shapes
  <2>7. request'[r] = asked /\ during'[r] = watch
    BY <2>1 DEF Shapes
  <2>8. Shapes'
    <3>1. request' \in [Reader -> [pc : {"idle", "cache", "calc", "answered"},
                                  pair : Pair \cup {<<>>}, answer : Int]]
      BY <2>1, <2>5 DEF Shapes
    <3>2. during' \in [Reader -> [distances : SUBSET Int, moved : SUBSET Pair]]
      BY <2>1, <2>5 DEF Shapes
    <3> QED
      BY <3>1, <3>2, <2>2, <2>5, <2>6, <2>7 DEF Shapes
  <2>9. RequestsWatch'
    BY <2>1, <2>5, <2>6, <2>7 DEF RequestsWatch
  <2>10. AnswersWereTrue'
    BY <2>5, <2>6, <2>7 DEF AnswersWereTrue
  <2> QED
    BY <2>8, <2>9, <2>10
<1>7. ASSUME NEW r \in Reader, ReadCache(r) PROVE RequestInv'
  <2> DEFINE p == request[r].pair
  <2>1. /\ request[r].pc = "cache" /\ UNCHANGED <<venues, moved, during>>
        /\ request' = [request EXCEPT ![r] =
             IF p \in DOMAIN venue_distances
             THEN [request[r] EXCEPT !.pc = "answered", !.answer = venue_distances[p]]
             ELSE [request[r] EXCEPT !.pc = "calc"]]
    BY <1>7 DEF ReadCache, AfterMiss
  <2>2. p \in Pair
    BY <2>1 DEF Shapes
  <2>3. CASE p \notin DOMAIN venue_distances
    <3>1. request' = [request EXCEPT ![r] = [request[r] EXCEPT !.pc = "calc"]]
      BY <2>1, <2>3
    <3> QED
      BY <3>1, <2>1, <2>2 DEF Shapes, RequestsWatch, AnswersWereTrue
  <2>4. CASE p \in DOMAIN venue_distances
    <3> DEFINE row == venue_distances[p]
    <3>1. request' = [request EXCEPT ![r] =
            [request[r] EXCEPT !.pc = "answered", !.answer = row]]
      BY <2>1, <2>4
    <3>2. p \notin moved =>
            /\ row = Rounded(DistanceOf(venues, p))
            /\ DistanceOf(venues, p) \in during[r].distances \ {NotFound}
      <4> SUFFICES ASSUME p \notin moved
                   PROVE  /\ row = Rounded(DistanceOf(venues, p))
                          /\ DistanceOf(venues, p) \in during[r].distances \ {NotFound}
        OBVIOUS
      <4>1. p \in PairsOf(venues)
        BY <2>4 DEF CacheInv
      <4>2. row = Rounded(DistanceOf(venues, p))
        BY <2>4 DEF CacheInv, StaleOnlyIfMoved
      <4>3. DistanceOf(venues, p) \in Nat
        BY <4>1, <2>2, PairDistance
      <4>4. CalculatedDistance(venues, p) = DistanceOf(venues, p)
        BY <4>1 DEF CalculatedDistance
      <4> QED
        BY <4>2, <4>3, <4>4, <2>1 DEF RequestsWatch, NotFound
    <3>3. row \in Int
      BY <2>4 DEF CacheInv
    <3> HIDE DEF row
    <3>4. Shapes'
      <4>1. [request[r] EXCEPT !.pc = "answered", !.answer = row]
              \in [pc : {"idle", "cache", "calc", "answered"}, pair : Pair \cup {<<>>},
                  answer : Int]
        BY <3>3 DEF Shapes
      <4> QED
        BY <4>1, <3>1, <2>1, <2>2 DEF Shapes
    <3>5. RequestsWatch'
      BY <3>1, <2>1 DEF Shapes, RequestsWatch
    <3>6. request'[r].answer = row /\ request'[r].pair = p
      BY <3>1 DEF Shapes
    <3>7. \A q \in Reader : q # r => request'[q] = request[q]
      BY <3>1 DEF Shapes
    <3>8. p \notin during[r].moved => p \notin moved
      BY <2>1 DEF RequestsWatch
    <3>9. AnswersWereTrue'
      BY <3>2, <3>6, <3>7, <3>8, <2>1 DEF AnswersWereTrue
    <3> QED
      BY <3>4, <3>5, <3>9
  <2> QED
    BY <2>3, <2>4
<1>8. ASSUME NEW r \in Reader, Calculate(r) PROVE RequestInv'
  <2> DEFINE km == CalculatedDistance(venues, request[r].pair)
  <2>1. /\ request[r].pc = "calc" /\ UNCHANGED <<venues, moved, during>>
        /\ request' = [request EXCEPT ![r] =
             [request[r] EXCEPT !.pc = "answered", !.answer = km]]
    BY <1>8 DEF Calculate, Shapes
  <2>2. km \in Int
    BY <2>1, PairDistance DEF Shapes
  <2>3. km \in during[r].distances
    BY <2>1 DEF RequestsWatch
  <2> HIDE DEF km
  <2> QED
    BY <2>1, <2>2, <2>3 DEF Shapes, RequestsWatch, AnswersWereTrue
<1>9. CASE UNCHANGED vars
  BY <1>9, <1>2 DEF vars
<1> QED
  BY <1>1, <1>3, <1>4, <1>5, <1>6, <1>7, <1>8, <1>9 DEF Next

\* A request answers, between whatever writes, with a distance its pair had while it
\* ran or with a row that some Save has outdated.
THEOREM AnswersAreOfTheirTime == Spec => []AnswersWereTrue
<1>1. Init => CacheInv /\ RequestInv
  BY CacheInvInit, RequestInvInit
<1>2. CacheInv /\ RequestInv /\ [Next]_vars => CacheInv' /\ RequestInv'
  BY CacheInvStep, RequestInvStep
<1>3. RequestInv => AnswersWereTrue
  BY DEF RequestInv
<1> QED
  BY <1>1, <1>2, <1>3, PTL DEF Spec

-----------------------------------------------------------------------------
(* The columns.                                                            *)

\* What TypeOK says beyond CacheInv and Shapes: a row is a rounded distance of two
\* places and above zero.
ColumnsInv ==
  /\ \A p \in DOMAIN venue_distances : venue_distances[p] \in CachedMetres
  /\ \A p \in DOMAIN matrix : matrix[p] \in Metres
  /\ moved \subseteq Pair /\ matrixMoved \subseteq Pair /\ added \subseteq Pair
  /\ \A r \in Reader :
       /\ request[r].answer \in Metres \cup CachedMetres \cup {NotFound, NoAnswer}
       /\ during[r].distances \subseteq Metres \cup {NotFound}

\* The distance of a pair of venues is one of the metres; what is asked of the
\* venues is that or NotFound.
LEMMA DistanceOfMetres ==
  ASSUME NEW locations, \A v \in DOMAIN locations : locations[v] \in Place
  PROVE  /\ \A p \in PairsOf(locations) : DistanceOf(locations, p) \in Metres
         /\ \A p \in Pair : CalculatedDistance(locations, p) \in Metres \cup {NotFound}
  BY DEF PairsOf, DistanceOf, Metres, CalculatedDistance

\* A rounded distance that the column accepts is one of those it can hold.
LEMMA AcceptedIsCached ==
  ASSUME NEW m \in Metres, Rounded(m) > 0
  PROVE  Rounded(m) \in CachedMetres
<1>1. PICK a, b \in Place : m = Distance(a, b)
  BY DEF Metres
<1>2. m \in Int
  BY <1>1, VenueAssumption, DistanceNat
<1>3. Rounded(m) # 0
  BY <1>2, RoundedInt
<1> QED
  BY <1>3 DEF CachedMetres

\* The seed's rows are accepted: no two seeded venues are within five metres.
LEMMA SeededRowsAccepted ==
  ASSUME NEW p \in PairsOf(Seeded)
  PROVE  Rounded(DistanceOf(Seeded, p)) > 0
<1>1. /\ p[1] \in DOMAIN Seeded /\ p[2] \in DOMAIN Seeded /\ p[1] # p[2]
  <2>1. /\ p \in Venue \X Venue /\ p[1] < p[2]
        /\ p[1] \in DOMAIN Seeded /\ p[2] \in DOMAIN Seeded
    BY DEF PairsOf, Pair
  <2>2. p[1] \in Nat /\ p[2] \in Nat
    BY <2>1, VenueAssumption
  <2> QED
    BY <2>1, <2>2
<1>2. /\ Seeded[p[1]] \in Int /\ Seeded[p[2]] \in Int
      /\ Seeded[p[1]] - Seeded[p[2]] \notin -4..4
  BY <1>1, VenueAssumption
<1>3. \A a, b \in Int : a - b \notin -4..4 => Rounded(Distance(a, b)) > 0
  BY DEF Rounded, Distance
<1> QED
  BY <1>2, <1>3 DEF DistanceOf

\* What is written into the histories of the requests is of their types.
LEMMA WatchedColumns ==
  ASSUME CacheInv', Shapes, ColumnsInv, UNCHANGED request,
         during' = Watched(venues', moved')
  PROVE  \A r \in Reader : during'[r].distances \subseteq Metres \cup {NotFound}
<1> SUFFICES ASSUME NEW r \in Reader
             PROVE  during'[r].distances \subseteq Metres \cup {NotFound}
  OBVIOUS
<1>1. CASE request[r].pc \in {"cache", "calc"}
  <2> DEFINE d == CalculatedDistance(venues', request[r].pair)
  <2>1. request[r].pair \in Pair
    BY <1>1 DEF Shapes
  <2>2. d \in Metres \cup {NotFound}
    BY <2>1, DistanceOfMetres DEF CacheInv
  <2> HIDE DEF d
  <2>3. during'[r].distances = during[r].distances \cup {d}
    BY <1>1 DEF Watched, d
  <2> QED
    BY <2>2, <2>3 DEF ColumnsInv
<1>2. CASE request[r].pc \notin {"cache", "calc"}
  BY <1>2 DEF Watched, ColumnsInv
<1> QED
  BY <1>1, <1>2

\* A write of accepted rows keeps the column.
LEMMA UpsertColumns ==
  ASSUME NEW rows, \A p \in DOMAIN rows : rows[p] \in Metres, Accepted(rows),
         \A p \in DOMAIN venue_distances : venue_distances[p] \in CachedMetres
  PROVE  LET new == Upsert(rows, venue_distances)
         IN  \A p \in DOMAIN new : new[p] \in CachedMetres
<1> DEFINE new == Upsert(rows, venue_distances)
<1>1. /\ DOMAIN new = DOMAIN venue_distances \cup DOMAIN rows
      /\ \A p \in DOMAIN rows : new[p] = Rounded(rows[p])
      /\ \A p \in DOMAIN venue_distances \ DOMAIN rows : new[p] = venue_distances[p]
  BY DEF Upsert
<1>2. \A p \in DOMAIN rows : Rounded(rows[p]) \in CachedMetres
  BY AcceptedIsCached DEF Accepted
<1> HIDE DEF new
<1>3. \A p \in DOMAIN new : new[p] \in CachedMetres
  BY <1>1, <1>2
<1> QED
  BY <1>3 DEF new

\* The columns hold at the seed.
LEMMA ColumnsInvInit == Init => ColumnsInv
<1> SUFFICES ASSUME Init PROVE ColumnsInv
  OBVIOUS
<1> DEFINE rows == BuildDistanceMatrix(Seeded)
<1>1. /\ DOMAIN rows = PairsOf(Seeded)
      /\ \A p \in PairsOf(Seeded) : rows[p] = DistanceOf(Seeded, p)
  BY MatrixOf
<1>2. DOMAIN Nothing = {}
  BY DEF Nothing
<1>3. \A p \in DOMAIN rows : Rounded(rows[p]) \in CachedMetres
  BY <1>1, SeededRowsAccepted, AcceptedIsCached, DistanceOfMetres, VenueAssumption
<1> HIDE DEF rows
<1>4. venue_distances = Upsert(rows, Nothing)
  BY DEF Init, rows
<1>5. \A p \in DOMAIN venue_distances : venue_distances[p] \in CachedMetres
  BY <1>2, <1>3, <1>4 DEF Upsert
<1> QED
  BY <1>2, <1>5 DEF Init, ColumnsInv, NoRequest

\* The columns are kept by every step: a statement with a row of distance zero
\* writes nothing.
LEMMA ColumnsInvStep ==
  ASSUME CacheInv, CacheInv', Shapes, ColumnsInv, [Next]_vars
  PROVE  ColumnsInv'
<1>1. /\ \A p \in PairsOf(venues) : DistanceOf(venues, p) \in Metres
      /\ \A p \in Pair : CalculatedDistance(venues, p) \in Metres \cup {NotFound}
  BY DistanceOfMetres DEF CacheInv
<1>2. /\ DOMAIN BuildDistanceMatrix(venues) = PairsOf(venues)
      /\ \A p \in PairsOf(venues) : BuildDistanceMatrix(venues)[p] \in Metres
  BY <1>1, MatrixOf
<1>3. ASSUME NEW v \in Venue, NEW place \in Place, Save(v, place) PROVE ColumnsInv'
  <2>1. \A r \in Reader : during'[r].distances \subseteq Metres \cup {NotFound}
    BY <1>3, WatchedColumns DEF Save
  <2> QED
    BY <1>3, <2>1 DEF Save, KeptRows, ColumnsInv
<1>4. CASE Rebuild
  <2> DEFINE rows == BuildDistanceMatrix(venues)
  <2>1. Accepted(rows) /\ venue_distances' = Upsert(rows, venue_distances)
    BY <1>4 DEF Rebuild
  <2>2. \A p \in DOMAIN rows : rows[p] \in Metres
    BY <1>2
  <2> HIDE DEF rows
  <2>3. \A p \in DOMAIN venue_distances' : venue_distances'[p] \in CachedMetres
    BY <2>1, <2>2, UpsertColumns DEF ColumnsInv
  <2> QED
    BY <1>4, <2>3 DEF Rebuild, ColumnsInv
<1>5. CASE ComputeMatrix
  BY <1>2, <1>5 DEF ComputeMatrix, ColumnsInv
<1>6. CASE SaveDistanceMatrix
  <2>1. /\ UNCHANGED request /\ matrix' = Nothing /\ matrixMoved' = {}
        /\ DOMAIN Nothing = {} /\ venues' = venues
    BY <1>6 DEF SaveDistanceMatrix, Nothing
  <2>2. CASE ~ Accepted(matrix)
    BY <1>6, <2>1, <2>2 DEF SaveDistanceMatrix, ColumnsInv
  <2>3. CASE Accepted(matrix)
    <3>1. /\ venue_distances' = Upsert(matrix, venue_distances)
          /\ moved' \subseteq moved \cup matrixMoved /\ added' \subseteq added
          /\ during' = Watched(venues', moved')
      BY <1>6, <2>1, <2>3 DEF SaveDistanceMatrix
    <3>2. \A p \in DOMAIN venue_distances' : venue_distances'[p] \in CachedMetres
      BY <2>3, <3>1, UpsertColumns DEF ColumnsInv
    <3>3. \A r \in Reader : during'[r].distances \subseteq Metres \cup {NotFound}
      BY <2>1, <3>1, WatchedColumns
    <3> QED
      BY <2>1, <3>1, <3>2, <3>3 DEF ColumnsInv
  <2> QED
    BY <2>2, <2>3
<1>7. ASSUME NEW r \in Reader, NEW from \in Venue, NEW to \in Venue, Ask(r, from, to)
      PROVE  ColumnsInv'
  <2> DEFINE d == CalculatedDistance(venues, SortedKey(from, to))
  <2>1. d \in Metres \cup {NotFound}
    BY <1>1, <1>7, SortedKeyPair DEF Ask
  <2> HIDE DEF d
  <2>2. /\ UNCHANGED <<venue_distances, matrix, moved, matrixMoved, added>>
        /\ request'[r].answer = NoAnswer /\ during'[r].distances = {d}
        /\ \A q \in Reader \ {r} : request'[q] = request[q] /\ during'[q] = during[q]
    BY <1>7 DEF Ask, Shapes, d
  <2> QED
    BY <2>1, <2>2 DEF ColumnsInv
<1>8. ASSUME NEW r \in Reader, ReadCache(r) PROVE ColumnsInv'
  <2> DEFINE p == request[r].pair
  <2>1. /\ UNCHANGED <<venue_distances, matrix, moved, matrixMoved, added, during>>
        /\ request'[r].answer = IF p \in DOMAIN venue_distances THEN venue_distances[p]
                                                               ELSE request[r].answer
        /\ \A q \in Reader \ {r} : request'[q] = request[q]
    BY <1>8 DEF ReadCache, AfterMiss, Shapes
  <2> QED
    BY <2>1 DEF ColumnsInv
<1>9. ASSUME NEW r \in Reader, Calculate(r) PROVE ColumnsInv'
  <2> DEFINE d == CalculatedDistance(venues, request[r].pair)
  <2>1. d \in Metres \cup {NotFound}
    BY <1>1, <1>9 DEF Calculate, Shapes
  <2> HIDE DEF d
  <2>2. /\ UNCHANGED <<venue_distances, matrix, moved, matrixMoved, added, during>>
        /\ request'[r].answer = d
        /\ \A q \in Reader \ {r} : request'[q] = request[q]
    BY <1>9 DEF Calculate, Shapes, d
  <2> QED
    BY <2>1, <2>2 DEF ColumnsInv
<1>10. CASE UNCHANGED vars
  BY <1>10 DEF vars, ColumnsInv
<1> QED
  BY <1>3, <1>4, <1>5, <1>6, <1>7, <1>8, <1>9, <1>10 DEF Next

\* The tables hold what their columns and keys admit, for any venues and places: a
\* row is of two venues that exist, in the order of their ids, and above zero.
THEOREM TypeCorrectness == Spec => []TypeOK
<1>1. Init => CacheInv /\ RequestInv /\ ColumnsInv
  BY CacheInvInit, RequestInvInit, ColumnsInvInit
<1>2. CacheInv /\ RequestInv /\ ColumnsInv /\ [Next]_vars
        => CacheInv' /\ RequestInv' /\ ColumnsInv'
  BY CacheInvStep, RequestInvStep, ColumnsInvStep DEF RequestInv
<1>3. CacheInv /\ RequestInv /\ ColumnsInv => TypeOK
  BY DEF CacheInv, RequestInv, Shapes, ColumnsInv, TypeOK
<1> QED
  BY <1>1, <1>2, <1>3, PTL DEF Spec
=============================================================================
