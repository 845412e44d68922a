--------------------------- MODULE VenueDistances ---------------------------
(***************************************************************************)
(* venue-geo: the venues, the cache venue_distances that Rebuild and       *)
(* SaveDistanceMatrix fill, and the requests that read the cache first and *)
(* the venues after a miss. A statement is one step; GetDistance is two    *)
(* queries, and the matrix computed in Go is saved some time after the     *)
(* venues were listed. Nothing in the deployed service calls the writers:  *)
(* the seed is their only effect so far.                                   *)
(*                                                                         *)
(* A venue is a number, in the order of the ids; a location is a point of  *)
(* a line and a distance whole metres, of which the cache keeps hundredths *)
(* of a kilometre.                                                         *)
(***************************************************************************)
EXTENDS Integers, FiniteSets

CONSTANTS
  Venue,      \* ids
  Place,      \* locations
  Seeded,     \* what seed_venues.sql inserts
  Reader      \* requests for a distance

ASSUME VenueAssumption ==
  /\ Venue \subseteq Nat /\ Place \subseteq Int
  /\ DOMAIN Seeded \subseteq Venue
  /\ \A v \in DOMAIN Seeded : Seeded[v] \in Place
  /\ \A u, v \in DOMAIN Seeded : u # v => Seeded[u] - Seeded[v] \notin -4..4

VARIABLES
  venues,            \* locations by id, of the venues there are
  venue_distances,   \* the cache: metres by pair, rounded
  matrix,            \* the matrix computed in memory, not yet saved
  request,           \* the readers: the pair asked for, and the answer
  moved,             \* history: pairs with a venue saved since the row was read
  matrixMoved,       \* history: the same for the matrix in memory
  added,             \* history: pairs with a venue new since a rebuild
  during             \* history: what was true of its pair while a request ran

vars == <<venues, venue_distances, matrix, request, moved, matrixMoved, added, during>>

Pair == {p \in Venue \X Venue : p[1] < p[2]}
Nothing == [p \in {} |-> 0]     \* no matrix in memory
NotFound == -1                  \* 404
NoAnswer == -2

-----------------------------------------------------------------------------
(* Distances.                                                              *)

Distance(a, b) == IF a < b THEN b - a ELSE a - b

\* NUMERIC(8, 2) of kilometres; ROUND(..., 2) gives the same.
Rounded(metres) == ((metres + 5) \div 10) * 10

\* sortedKey: the key of a matrix; CHECK (from_venue_id < to_venue_id).
SortedKey(a, b) == IF a < b THEN <<a, b>> ELSE <<b, a>>

DistanceOf(locations, p) == Distance(locations[p[1]], locations[p[2]])
PairsOf(locations) ==
  {p \in Pair : p[1] \in DOMAIN locations /\ p[2] \in DOMAIN locations}

\* BuildDistanceMatrix, and the CROSS JOIN of Rebuild.
BuildDistanceMatrix(locations) ==
  [p \in PairsOf(locations) |-> DistanceOf(locations, p)]

\* What qCalc finds.
CalculatedDistance(locations, p) ==
  IF p \in PairsOf(locations) THEN DistanceOf(locations, p) ELSE NotFound

\* Mutant: rows that are there already are left as they are.
UpsertNothing(rows, old) ==
  [p \in DOMAIN old \cup DOMAIN rows |->
     IF p \in DOMAIN old THEN old[p] ELSE Rounded(rows[p])]

\* ON CONFLICT DO UPDATE.
Upsert(rows, old) ==
  [p \in DOMAIN old \cup DOMAIN rows |->
     IF p \in DOMAIN rows THEN Rounded(rows[p]) ELSE old[p]]

\* Mutant: the column takes any number.
AcceptedUnchecked(rows) == TRUE

\* CHECK (distance_km > 0): one pair of venues too close fails the statement, or
\* the transaction.
Accepted(rows) == \A p \in DOMAIN rows : Rounded(rows[p]) > 0

\* The history of the requests under way: the distances their pair has had, and
\* whether its row was of another place.
Watched(locations, stale) ==
  [r \in Reader |->
     IF request[r].pc \in {"cache", "calc"}
     THEN [distances |-> during[r].distances
                           \cup {CalculatedDistance(locations, request[r].pair)},
           moved |-> during[r].moved \cup ({request[r].pair} \cap stale)]
     ELSE during[r]]

-----------------------------------------------------------------------------
(* The writers.                                                            *)

\* Mutant: the rows of a venue that is saved are deleted with it.
KeptRowsWithout(v) == [p \in {q \in DOMAIN venue_distances : v \notin {q[1], q[2]}} |->
                         venue_distances[p]]

\* Nothing of the cache depends on the venues but their existence.
KeptRows(v) == venue_distances

\* Save: a venue is inserted, or moved.
Save(v, place) ==
  LET touched == {p \in Pair : v \in {p[1], p[2]}}
  IN /\ venues' = [u \in DOMAIN venues \cup {v} |-> IF u = v THEN place ELSE venues[u]]
     /\ venue_distances' = KeptRows(v)
     /\ moved' = moved \cup touched
     /\ matrixMoved' = matrixMoved \cup touched
     /\ added' = IF v \in DOMAIN venues THEN added ELSE added \cup touched
     /\ during' = Watched(venues', moved')
     /\ UNCHANGED <<matrix, request>>

\* Rebuild: one statement over the venues as they are.
Rebuild ==
  LET rows == BuildDistanceMatrix(venues)
  IN /\ Accepted(rows)
     /\ venue_distances' = Upsert(rows, venue_distances)
     /\ moved' = moved \ DOMAIN rows
     /\ added' = added \ DOMAIN rows
     /\ UNCHANGED <<venues, matrix, request, matrixMoved, during>>

\* List and BuildDistanceMatrix.
ComputeMatrix ==
  /\ matrix = Nothing
  /\ PairsOf(venues) # {}
  /\ matrix' = BuildDistanceMatrix(venues)
  /\ matrixMoved' = {}
  /\ UNCHANGED <<venues, venue_distances, request, moved, added, during>>

\* SaveDistanceMatrix: a transaction; a matrix older than a Rebuild undoes it.
SaveDistanceMatrix ==
  /\ matrix # Nothing
  /\ IF Accepted(matrix)
     THEN /\ venue_distances' = Upsert(matrix, venue_distances)
          /\ moved' = (moved \ DOMAIN matrix) \cup (matrixMoved \cap DOMAIN matrix)
          /\ added' = added \ DOMAIN matrix
          /\ during' = Watched(venues, moved')
     ELSE UNCHANGED <<venue_distances, moved, added, during>>
  /\ matrix' = Nothing
  /\ matrixMoved' = {}
  /\ UNCHANGED <<venues, request>>

-----------------------------------------------------------------------------
(* GET /venues/distance. The answer is metres, or why there is none.       *)

\* GET /venues/distance-matrix is one query, the rows as they are.
GetDistanceMatrix == venue_distances

NoRequest == [pc |-> "idle", pair |-> <<>>, answer |-> NoAnswer]

\* A request that names one venue twice is refused before any query.
Ask(r, from, to) ==
  LET p == SortedKey(from, to)
  IN /\ request[r].pc \in {"idle", "answered"}
     /\ from # to
     /\ request' = [request EXCEPT ![r] = [pc |-> "cache", pair |-> p, answer |-> NoAnswer]]
     /\ during' = [during EXCEPT ![r] =
          [distances |-> {CalculatedDistance(venues, p)}, moved |-> {p} \cap moved]]
     /\ UNCHANGED <<venues, venue_distances, matrix, moved, matrixMoved, added>>

\* Mutant: a pair without a row is at distance 0, as in DistanceMatrix.Get.
AfterMissZero(old) == [old EXCEPT !.pc = "answered", !.answer = 0]

\* A miss is answered from the venues.
AfterMiss(old) == [old EXCEPT !.pc = "calc"]

\* The row of either order, if there is one.
ReadCache(r) ==
  LET p == request[r].pair
  IN /\ request[r].pc = "cache"
     /\ request' = [request EXCEPT ![r] =
          IF p \in DOMAIN venue_distances
          THEN [@ EXCEPT !.pc = "answered", !.answer = venue_distances[p]]
          ELSE AfterMiss(@)]
     /\ UNCHANGED <<venues, venue_distances, matrix, moved, matrixMoved, added, during>>

\* ST_DistanceSphere of the two venues, not rounded; NotFound without rows.
Calculate(r) ==
  /\ request[r].pc = "calc"
  /\ request' = [request EXCEPT ![r].pc = "answered",
                                ![r].answer = CalculatedDistance(venues, request[r].pair)]
  /\ UNCHANGED <<venues, venue_distances, matrix, moved, matrixMoved, added, during>>

-----------------------------------------------------------------------------

\* seed_venues.sql: the venues, and the rows of all their pairs.
Init ==
  /\ venues = Seeded
  /\ venue_distances = Upsert(BuildDistanceMatrix(Seeded), Nothing)
  /\ matrix = Nothing
  /\ request = [r \in Reader |-> NoRequest]
  /\ moved = {} /\ matrixMoved = {} /\ added = {}
  /\ during = [r \in Reader |-> [distances |-> {}, moved |-> {}]]

Next ==
  \/ \E v \in Venue, place \in Place : Save(v, place)
  \/ Rebuild
  \/ ComputeMatrix
  \/ SaveDistanceMatrix
  \/ \E r \in Reader :
       \/ \E from, to \in Venue : Ask(r, from, to)
       \/ ReadCache(r)
       \/ Calculate(r)

Spec == Init /\ [][Next]_vars

-----------------------------------------------------------------------------
(* Properties.                                                             *)

Metres == {Distance(a, b) : a, b \in Place}
CachedMetres == {Rounded(m) : m \in Metres} \ {0}

\* The state variables hold what the columns can: rows of ordered pairs of
\* venues that exist, rounded to hundredths and above zero.
TypeOK ==
  /\ DOMAIN venues \subseteq Venue /\ \A v \in DOMAIN venues : venues[v] \in Place
  /\ DOMAIN venue_distances \subseteq PairsOf(venues)
  /\ \A p \in DOMAIN venue_distances : venue_distances[p] \in CachedMetres
  /\ DOMAIN matrix \subseteq PairsOf(venues)
  /\ \A p \in DOMAIN matrix : matrix[p] \in Metres
  /\ moved \subseteq Pair /\ matrixMoved \subseteq Pair /\ added \subseteq Pair
  /\ \A r \in Reader :
       /\ request[r].pc \in {"idle", "cache", "calc", "answered"}
       /\ request[r].pc # "idle" => request[r].pair \in Pair
       /\ request[r].answer \in Metres \cup CachedMetres \cup {NotFound, NoAnswer}
       /\ during[r].distances \subseteq Metres \cup {NotFound}
       /\ during[r].moved \subseteq Pair

\* The cache (distance_cache.go:16, "al inicializar el torneo o cuando se agrega un
\* venue") is only as old as the last write of its pair: a row differs from the
\* distance of its venues only if one of them was saved after the venues were
\* read for the row, however Save, Rebuild and the two halves of
\* SaveDistanceMatrix interleave.
StaleOnlyIfMoved ==
  \A p \in DOMAIN venue_distances \ moved :
    venue_distances[p] = Rounded(DistanceOf(venues, p))

\* The matrix that GET /venues/distance-matrix answers is complete
\* (get_distance.go:86): a pair of venues has no row only if one of them was added
\* after the venues were read for the last rebuild that succeeded; a pair that is
\* too close for the column never loses the others.
MissingOnlyIfAdded == PairsOf(venues) \ added \subseteq DOMAIN GetDistanceMatrix

\* A request answers with a distance that its pair had while it ran, exact or
\* rounded, or with "not found" only if one of the venues was missing, whatever is
\* saved or rebuilt between its two queries; only a row older than a move of its
\* venues answers anything else.
AnswersWereTrue ==
  \A r \in Reader :
    request[r].pc = "answered" /\ request[r].pair \notin during[r].moved =>
      request[r].answer \in during[r].distances
                             \cup {Rounded(m) : m \in during[r].distances \ {NotFound}}
=============================================================================
