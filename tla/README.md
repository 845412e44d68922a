# TLA+ verification of wc-fixture

Models of the services of this repository, TLC runs that check them on small
instances, and TLAPS proofs of their main theorems for every value of the
constants. Paths are relative to the repository (`src/` in the tables of
`PROJECT.json`); `contexts/fixture-core/internal/domain/fixture` is written
`domain/fixture`.

    tlc -config FixtureHandlers.cfg MCFixtureService     # one run
    tlapm FixtureServiceProofs.tla                       # one proof module

## 1. The system

Five Go services, each with its own database, linked by one NATS JetStream
stream (`fixture.>`).

| Component | State it keeps | Operations that change it | Talks to |
|---|---|---|---|
| fixture-core, write path | `tournaments` (status, version), `matches`, `match_results`, `group_standings`, `fixture_events` | RegisterMatchResult, UpdateMatchSchedule | HTTP callers, consumer, stream |
| fixture-core, administration | the same rows | InitializeTournament, CloseGroupStage, GenerateKnockoutBracket, AdvanceKnockoutMatch (built, not wired) | write path |
| fixture-core, result consumer | durable JetStream consumer: deliveries, acks | processMessage | stream, write path |
| fixture-core, aggregate | one `Fixture` in memory per command: groups, tables, knockout rounds | applyResult, recalculateStandings, generateKnockoutBracket, advanceKnockoutBracket | write path |
| fixture-core, queries | none (read models over the same tables) | none | HTTP callers |
| result-ingestion | `ingestion_log` (idempotency keys) | IngestResult | HTTP sources, stream |
| notification | in-memory webhook subscribers, durable consumer | processMessage, Notify, Save, Deactivate | stream, webhooks |
| venue-geo | `venues`, `venue_distances` | Save, Rebuild, SaveDistanceMatrix (no caller in the service) | HTTP callers |
| team-registry | `teams` (seeded) | none | HTTP callers |
| shared/pkg | none | none | all |

What is hard about it:

* **Interleaving.** net/http runs one goroutine per request and the consumer is
  one more. A command loads its aggregate with several queries outside a
  transaction, decides in memory, and saves under an optimistic lock on
  `tournaments.version`. Everything else can run in between. Readers put one
  answer together from up to five queries without a transaction.
* **Failure.** Every query, commit and publication may fail, a commit may
  succeed without the caller hearing of it, the process may die; events are
  published after the commit, with no outbox.
* **Redelivery.** JetStream redelivers after a NAK, after AckWait (for which
  the first backoff of 1 s stands in) and after a restart, five times at most;
  the client buffers messages while their AckWait runs.
* **Replay.** A group table is rebuilt from all its results on each command and
  written row by row under a uniqueness constraint on positions.
* **Stages.** The last group result draws the bracket from twelve tables and
  the eight best thirds, in the same commit, and nothing corrects it later.
* **Idempotency.** result-ingestion looks a key up, inserts it and publishes in
  three steps that nothing joins.
* **Caches and pages.** Distances are cached without invalidation; listings are
  counted and cut by offset in separate requests.

What makes each component correct: standings that agree with the stored results
and are ranked by FIFA's order; results that are written once; completion of a
group announced once, with its last table; a bracket of exactly the qualified
teams; callers and messages that are told the truth about what is stored;
events published only for what was committed; a report published once per key,
and no confirmed report lost silently; a webhook that hears of each event it
wants, and not more often than the stream says; answers whose parts are no older
than the request and come in the order of its queries, and distances that were
true.
`PROJECT.json` lists every hazard with the line it bites at and the properties
aimed at it.

## 2. Modules

| Module | Models | Proofs |
|---|---|---|
| `FixtureService` | write path, consumer and publisher of fixture-core | `FixtureServiceProofs` |
| `TournamentLedger` | what fixture-core promises: atomic commands on results, kick-offs and announcements | (refined by the above) |
| `GroupTable` | one group's standings: computation, order, upsert | `GroupTableProofs` |
| `KnockoutBracket` | best thirds, the bracket and its results, the administration commands | `KnockoutBracketProofs` |
| `FixtureReads` | the read models beside the writer | `FixtureReadsProofs` |
| `ResultIngestion` | the POST handlers of result-ingestion | `ResultIngestionProofs` |
| `Notification` | consumer, dispatch and webhooks of notification | `NotificationProofs` |
| `VenueDistances` | venues, the distance cache and its readers | `VenueDistancesProofs` |
| `MC...` | the small instance of each for TLC | |

The modules are views of one database at different grain. `FixtureService` has
every step of a command, with scores and tables abstracted to which matches
they count; `GroupTable` has the scores of one group, with a command as one
step, which `SaveIsOfCurrentRows` of `FixtureService` justifies (a commit is
the command applied to the rows as they are); `KnockoutBracket` has the end of
twelve such groups, reduced to the standing of their third; `FixtureReads` has
commands as steps and queries as steps.

### FixtureService

State: `db` is the rows of fixture_db as one aggregate; `pc`, `cmd`, `fixture`,
`evts` are the locals of each goroutine (`Handle` of
`application/commands/register_match_result.go` and `update_match_schedule.go`);
`body`, `deliveries`, `acked` are JetStream's, `inbox` the prefetched messages,
`current` the one in `processMessage`; `published` is the stream of events.
`announced` and `confirmed` are history.

One command runs through the actions `Begin` (validate, tournaments row) →
`LoadGroupMatches` → `Apply` (standings row, the aggregate's decision) →
`Save`, `SaveConflict`, `StoreRefuses` → `PublishNext`… → `Reply` or `Settle`.
`StoreFails`, `SaveUnconfirmed`, `PublishFails`, `AckWaitExpires` and `Crash`
are the faults, enabled by `Faults`. `Deliver`, `DiscardMessage`,
`RefuseMessage` and `ProcessMessage` are the consumer's side.

Abstractions: a score is a model value in `Decisive`, `Drawn` or `Invalid`; a
standings table is the set of matches it counts (its scores are in
`GroupTable`); a venue and a time are one `Kickoff`.

**As built and repaired.** Four defects of the row mapping stop the deployed
program before anything interesting happens. Each is a constant; FALSE is the
code as built, TRUE that mapping repaired:

* `SlotsDecoded`: `MatchSlot` has no json tags, the seed's keys do not decode,
  and every result of a seeded match is refused (`domain/fixture/match_slot.go:29`);
* `PhaseScanned`: `scanMatch` never reads `phase`; draws are refused as in a
  knockout match, and `upsertMatch` writes an empty phase, which the CHECK of
  `migrations/000003` refuses: no Save ever commits (`fixture_repository.go:508`);
* `ResultScanned`: a completed match scans `completed_at` into a placeholder
  that does not take it, so a tournament with a result cannot be loaded again;
* `PositionsSwap`: `UNIQUE (group_id, position)` is checked after every row, so
  a table whose order changes cannot be stored.

`FixtureSaves.cfg` has the program as built; the other runs say what lies
behind the defects, and the proofs hold for all values of the constants.

### GroupTable

`result` is the group's match_results rows, `table` its group_standings rows in
order of position, `announced` the tables carried by GroupStageCompleted,
`swappable` whether the position constraint is deferred (both values are
explored). `RegisterMatchResult` is applyResult, the whole replay of the
results (`RecalculateStandings`, with the insertion sort after every match) and
Save; `SaveFails` the refused upsert; `RejectResult` what validateResult
refuses. Reports may name a team of another group: nothing compares the teams
of a result with the slots of its match.

### KnockoutBracket

`stored` is the rows of fixture_db as one aggregate: twelve groups (status,
whether a match is still open, the standing of the third) and the knockout
rounds, as sequences of matches with slots, parents and a score. A team is the
group and the place it finished in. `admin` is the administration command under
way, `announced` the events of the commits.

`RegisterGroupResult` is the result that completes a group, with everything
the aggregate does after it: group status, `AllGroupsComplete`, `Classify`, the
sixteen pairings, the empty rounds. `RegisterKnockoutResult` is
validateResult, the CHECKs of match_results, `AdvanceKnockoutBracket` (next
match, loser of a semifinal, end of the tournament) and Save.
`InitializeTournament`, `AdminLoad` and `AdminSave` are the commands of
`wire.go:83-86`; load and save are two steps.

Three defects keep the bracket out of fixture_db; the variable `repaired` is
any subset of them, chosen once: `groupStatus` (Save never writes
groups.status, so the stage never closes), `matchNumbers` (the bracket's
numbers 49 to 64 are those of group matches), `knockoutScan`
(loadKnockoutRounds has fewer destinations than columns). {} is the code as
built.

### FixtureReads

The writer's commands are `RegisterGroupResult`, `RegisterKnockoutResult` and
`Reschedule`, each one transaction. `view` is one request for the fixture, the
groups, the standings or the bracket, whose queries are the action `Query` in
the order `NextQuery` (`standing_repository.go`, GetFixture, loadGroupDTOs,
loadKnockoutDTO). `listing` is a client that walks through the pages of GET
/matches: `Count`, `FetchPage`, one pair per page, with history of what entered
or left the listing meanwhile. The order of rows is `OrderedBefore`, the
arithmetic of pages `Offset` and `TotalPages` (`shared/pkg/httputil/pagination.go`).
`repaired` has one more defect, `resultScan`: scanMatchDTO scans completed_at
into the result, so a page with a completed match fails.

### ResultIngestion

`ingestionLog` is the table of keys; `pc` and `report` the handlers;
`published` the stream. `IngestResult` (parse, validate) → `Exists` →
`Register` → `Publish` → `Reply`, with `ExistsFails` and `RegisterFails` (both
only logged by the code), `PublishFails` and `Crash`. `doubted` and `abandoned`
are history: keys whose insert returned an error, and keys claimed whose
publication failed or was cut.

### Notification

`stream` and `durable` are JetStream's (external): where the consumer starts,
deliveries and acks. `inbox` is the buffer of the client, copies included,
`current` the Notify under way, `subscribers` the map of
`inmemory_webhook_repo.go`. `Start` creates the durable consumer with
DeliverNew the first time and resumes it afterwards; `Deliver`,
`AckWaitExpires` are JetStream's deliveries; `ProcessMessage` dispatches and
copies the subscribers; `Post` and `PostFails` are the deliveries, in the order
of a Go map; `Settle` acks, or naks when no delivery succeeded and one was
tried. `Save` and `Deactivate` are operations of the repository that nothing in
the deployed service calls; `Crash` loses everything in memory.

### VenueDistances

`venues` and `venue_distances` are the tables, `matrix` the one computed in Go
and not yet saved, `request` the readers. `Save`, `Rebuild` (one statement),
`ComputeMatrix` and `SaveDistanceMatrix` (a list and, later, a transaction)
write; `Ask`, `ReadCache` and `Calculate` are GET distance with its two queries;
GET distance-matrix is `GetDistanceMatrix`. `Rounded` is NUMERIC(8, 2),
`Accepted` the CHECK that a distance is above zero, which fails the whole
statement. `moved`, `matrixMoved`, `added` and `during` are history: which pairs
are older than a move, and what was true while a request ran.

## 3. Runs

| Run | Instance | Shows |
|---|---|---|
| `fixture_handlers` | 1 handler and the consumer, 3 matches in 2 groups, 1 score, 1 reschedule, 1 message with 2 deliveries, no faults, fairness | standings, completion events and the refinement of the ledger under every interleaving of two commands and more in sequence; every request is answered; an ingested result lands, or lost the lock on every delivery |
| `fixture_faults` | 1 handler and the consumer, 1 message, 3 deliveries, 2 matches, faults, position constraint as built | truthful answers and acks, results final, events published once |
| `group_table` | 4 teams, 6 matches, 3 scores each, an outsider, a negative score | the table computation against a tally, ranking, ties, the upsert |
| `knockout` | the last matches of groups A and L, 5 tables of thirds, 4 knockout matches, 7 scores, every subset of the defects | who is in the bracket, when it is drawn, what is announced of it, that no step puts older rows back |
| `fixture_reads` | 2 groups of 2 matches, 1 knockout match, pages of 2, 2 days, 2 moves, every subset of the defects | answers of several queries are torn only by commits during the request, and run forward; what a walk through the pages may repeat or skip |
| `ingestion` | 3 handlers, 2 reports of one key and an invalid one, faults, fairness | a key is published once; confirmations are honest; claims are settled |
| `notification` | a reliable and a failing webhook, 2 events, 2 deliveries, a buffer of 2, 1 restart, fairness | what an ack means, who is skipped and why, how many copies, that a reliable webhook hears |
| `venue_distances` | 3 venues, 3 places, 1 reader | how old a cached distance may be, and that answers were true |

Four runs end in a violation, each of one statement of the repository that the
code does not keep (`findings` in `PROJECT.json` quotes the lines):

* `save_fails_only_on_conflict`: as built, a Save fails without any conflict,
  for the empty phase it writes back;
* `close_group_stage_closes`: CloseGroupStage changes nothing of what it loaded,
  and its version test finds no row, so the stage stays open, also when nothing
  races it and every defect before it is mended;
* `winners_advance`: the rounds after the first are built without parents, so
  no winner reaches a later match (with the defects before it mended);
* `delivered_at_least_once`: a report whose publication failed is a duplicate
  from then on and never published.

**Bounds.** Two goroutines, a handler and the consumer, are enough for every
pairwise race on the lock; both run the same commands' code. Two groups, one of
two matches, tell "the group is complete" from "the stage is complete" and let
the two race for the last result of a group. `MaxDeliver` 3 allows a redelivery
of a redelivery. `MaxReschedules` only stops new reschedules from some version
on; results are bounded by the matches.

In `fixture_handlers` the commits that can collide with the message are three
(two other matches and a reschedule) and its deliveries two, so that it can lose
the lock on every one of them: the code then drops the result.
`EveryIngestedResultLands` says that nothing else loses it, as its last delivery
is spent only where as many commits as deliveries were made; without that
exception TLC finds the dropped result on this instance. The deployed
`MaxDeliver` is 5. One score is enough there: which of two results of one match
is stored is a question of `fixture_faults`, which has two, and no reschedules;
that a kick-off is final once its match is completed rests on `RefinesLedger`
and on the theorem `ResultsAreFinal`.

`MaxPublished` stops failing inserts once the stream holds a
message; publications themselves are bounded by the keys and the handlers.
Six matches with a home win, an away win with more goals and a goalless draw
reach every tie-break of the cascade, including all-level tables. Symmetry is
used only in runs without liveness.

In `knockout` the groups, pairings and rounds are those of the code, all of
them; what is bounded are the tables of the thirds (all level; the cut between
stronger and weaker; between cards; goals against goal difference), the groups
still open (the first and the last in the list), and the knockout matches with
results (two of the round of 32, one with a third; one of a later round and the
final, which stay unplayable). In `fixture_reads` two commands per walk shift
the page of two by more than one; the three listings are all rows, rows that
only leave (`status=SCHEDULED`) and rows that come and go (a date). In
`notification` two events, one that both webhooks want and one that no
handler is for, with two deliveries each are the least with a redelivery and an
overtaking copy; `MaxPrefetch` 2 lets both copies wait. In `venue_distances` two
places are four metres apart, which rounds to the refused zero, and their
distances to the third round differently.

**Fairness.** Weak fairness of each goroutine's next step (Go's scheduler runs
runnable goroutines, and every database call returns: without `Faults` with
success), of the reply, of the consumer, and of JetStream's delivery of a
pending message. No fairness is assumed of clients, sources, result-ingestion
or faults. In `ResultIngestion`, of each handler only. In `Notification`, of
the consumer's goroutine, of the end of each POST (the HTTP client has a timeout
of ten seconds) and of JetStream's deliveries; none of webhooks that are not
reliable, publishers or restarts. After a crash the process need not start
again, nor anyone register: what is owed is owed to the registered.

## 4. Proofs

`FixtureServiceProofs` proves `IInv` inductive. The properties alone are not:
that a commit keeps `StandingsAgree` needs to know that the saved aggregate is
the command applied to the rows *as they are* (`SaveIsOfCurrentRows`), which
needs to know what a half-finished load has read: rows of the version it read
first, or that version is already gone (`LoadIsCurrent`). This is the argument
that makes the optimistic lock sound although the load is not a transaction:
the version is read *first*. The mutant that reads it last breaks the
invariant. `PastCommit` and `ConsumerRunsMessage` carry what a handler knows
to its answer. From `IInv`: `TypeCorrectness`, `StandingsAlwaysAgree`,
`CompletionIsAnnounced`, `SavesAreCurrent`, `CallersAreToldTheTruth`,
`PublishesCommittedOnly`, `ResultsAreFinal`, and `ImplementsLedger`, where each
commit is a ledger step and every other action a stutter. `AcksAreEarned` says of
a message what `CallersAreToldTheTruth` says of a client: success means that the
result is stored. `FactsArePublishedOnce` has an invariant of its own,
`OnceInv`: a one-time fact has one place in all, in the stream or in what one
handler still has to publish. A commit makes the fact when the match it saves was
not completed, which the lock ensures for one handler only; a publication moves
it; a redelivery finds the match completed and has nothing to publish.

`ResultIngestionProofs` proves `IInv` of that module (`Invariance`): the primary fact is
`ClaimIsExclusive` (one handler past the insert per key, nothing published of
its key, unless an insert of it was in doubt), with `ClaimIsHonoured` for the
confirmations. From it `PublishedAtMostOnce`, `ConfirmationIsEarned` and
`StreamPassesCore`, the last with the lemma that the validation of the one
service implies that of the other for all scores.

`GroupTableProofs` proves all six properties of the table, for any number of teams,
matches and reports, from the inside out:

- `SortIsStable`: each round of the insertion sort puts a row behind the last that
  it does not beat (`InsertPlaces`), which keeps the rows ranked and the level ones
  in their order (`InsertSorts`). `StandingLess` is a strict weak order
  (`LessIsAnOrder`); with another comparison the sort would not rank.
- `ReplaySteps`: the table after the first m matches has one row for every team,
  the row is the team's tally of these m results (`TallyUpTo`), and it is ranked
  (`IsTable`). The same step says what decides the order of two teams: their new
  rows and, if level, the order before.
- `TableInv`: the stored table is the replay of the stored results. From it
  `TheTableAddsUp`, `TheTableIsRanked` and `TableTypeCorrectness`.
- `BystandersAreKept` compares two replays, with and without the new result,
  wherever in the order of the matches it falls: two teams that it does not name
  have the same tallies in both, so the same comparisons decide their order.
- `ReorderingIsRefused`: for tables of any length, the row-by-row upsert under the
  uniqueness constraint is refused exactly when the order of the teams changes
  (the first position that changes hands is still held when it is written).
  `OvertakersAreRefused` says so of every state the group gets to.
- `AnnouncedTablesAreFinal`, from the invariant that only a complete group has
  been announced.

Sort, replay and sums are recursive functions on an interval of numbers. For each
the proofs first show that the function exists (`RecursionTo`), so that its equation
holds, and then use induction up to a bound (`InductionTo`), which follows from the
well-foundedness of < on the naturals.

`VenueDistancesProofs` proves `CacheStaleOnlyIfMoved` and
`CacheMissingOnlyIfAdded` from an invariant of the cache and the matrix in
memory together (a matrix entry is the present distance, or its pair is in
`matrixMoved`): without the second half a late SaveDistanceMatrix would not
keep the first. `AnswersAreOfTheirTime` adds what a request has seen between
its two queries. `TypeCorrectness` is not by shape either: that a row of the cache
and an answer are distances of the type rests on `ColumnsInv`, that seeded venues
lie apart and that the CHECK refuses a distance of zero.

`FixtureReadsProofs` proves `TornOnlyByCommitsMeanwhile` for any groups and
matches: the later a query of an answer, the newer what it shows, and nothing that
was stored before the request is missing from any part. It does not say that an
answer shows one state, which it need not (section 5).
The argument is monotonicity: results, completed groups and the bracket only
grow, a table never counts more than the results, and the queries are made in
the order in which these grow last (groups, then tables, then matches). The
mutant that reads the matches before the tables breaks it. `RepeatsAreEntered`
and `SkipsAreShifts` are about a walk through the pages with LIMIT and OFFSET while
commands commit. Both count: rows move past the first k of the listing only for
rows that came in among the first k, and forward into them only for rows that left
them (`Crossing`). `WalkInv` bounds, of a walk under way, the matches it has shown
again or would if nothing changed (`AgainSoon`) and those it would miss (`Missed`):
a command adds to either no more than the rows it brings into the listing or
takes from it, and reading a page turns what would happen into what did.
`ReadsTypeCorrectness` gives the types.

`KnockoutBracketProofs` proves one invariant (`BracketInvariance`) for any tables
of thirds and any knockout scores, and from it:

- `StoredResultsStay`: no step takes back a stored result, group or bracket. What
  an administration command holds is never of a newer version than the rows; the
  lock looks for rows one version older than the aggregate and, as these commands
  do not raise its version, finds none. The same argument makes the finding of
  `close_group_stage_closes`: the lock that protects the rows refuses the command
  always.
- `BracketIsDrawnAtTheEnd`: a stored group is completed exactly when it has no
  match left (`StatusesInv`), so the transaction with the last result is the only
  one that finds all groups completed, and it draws the bracket.
- `BracketIsOfTheQualified`: "ranks before, or is level and comes first" is a
  total order on the twelve thirds, so their ranks are a bijection with 1..12
  (`RanksAreDistinct`), so the eight classified are eight teams, none of those left
  out ranks before one of them, and the thirty-two places hold different teams.
  `DrawInv` keeps this through the knockout results, which do not touch the teams.
- `AnnouncementsHold`: a result changes the score of its own match and nothing else
  (`AdvanceScoresOnly`), and a match with a score takes no other, so that what was
  announced stays what is stored.
- `NobodyGetsFurther`: for the same reason no later slot is ever resolved and the
  tournament never finishes, whichever of the three defects are mended. This is
  the finding of the run `winners_advance` for every instance.
- `BracketTypeCorrectness`.

`NotificationProofs` proves an invariant of eight parts and from it
`AckedIsHeard`, `NobodyIsSkipped`, `CopiesAreDeliveries` and `TypeCorrectness`,
for any webhooks, buffers, deliveries and restarts. `SkippedOnlyIfRefused` is not
inductive: that a later event was not posted first needs to know that an event
somebody waits for is in hand or in the buffer ahead of every later one
(`InLine`), which needs that JetStream delivers in stream order for the first
time (`Placed`) and that whoever is registered registered while the consumer
existed (`Registered`). `Known` carries what the loop over the subscribers has
done to the ack, and `Counted` adds up posts made, in hand and in the buffer.

Assumptions: those named in the modules (disjoint kinds of results, every group
has a match, at least two groups, a group stage with a match left to play, the
consumer is no HTTP handler, types of the reports, seeded venues that are not
co-located, group matches numbered before knockout matches), which TLC evaluates
on every run.

Only model-checked: liveness and everything under fairness
(`EveryIngestedResultLands`, `EveryRequestIsAnswered`, `ReliableSubscribersHear`,
and `ClaimIsSettled`). Every invariant and every action property that a passing run
checks is stated by a theorem.

## 5. Not modelled

* team-registry: single read-only queries over seeded teams. Likewise
  GetMatch, FindNearby, the listing of venues, GetFurthestPair and Stats, which
  are one query each and keep no state.
* LoadEvents and LoadEventsFrom of the event store, MarkDelivered and MarkFailed
  of a notification, validateUniqueTeams and validateVenues: no caller.
* Filters of GET /matches by group, phase and team; the fields that
  InitializeTournament validates.
* Formats, ids, dates, headers, logging, connection set-up, containers. Delays:
  the backoffs are only the order of events. Retention of the stream.

Seen while reading, without a run of their own.

fixture-core, writing:

* groups.status is never stored, so as built no bracket is ever generated,
  although `domain/fixture/fixture.go:67` calls it automatic; its numbers would
  collide with those of the group matches (`fixture.go:369` counts 48 group
  matches, validation demands 72); and it could not be loaded again
  (loadKnockoutRounds scans 10 of 20 columns).
* Handlers drain the events before Save, so Save appends none of them
  (`fixture_repository.go:317` says it does).
* A publication that failed is never retried, although
  `register_match_result.go:142` says the events can be.
* Save writes slots with the keys `Kind` and `TeamID`; the CHECK on
  `->>'kind'` sees NULL and passes, and from then on the readers, who look for
  `kind` and `team_id`, find no teams.
* `upsertMatchResult` writes back the `completed_at` it did not read, so a later
  save resets it; `StoredResultIsFinal` is about teams, goals and kick-off.
* `domain/fixture/standing.go:48` leaves head-to-head and FIFA ranking to the
  aggregate, which does not apply them; cards are never written.
* The best thirds are entered by rank; `best_thirds.go:65-71` says that the
  groups they come from decide, so a third may meet a team of its own group.
* advanceKnockoutBracket compares a match's parent with its own id
  (`fixture.go:245`); four "semifinals" feed one final; a knockout match level
  after extra time without penalties is accepted by the aggregate and has no
  winner, which `match.go:80` excludes.
* GenerateKnockoutBracket, like CloseGroupStage (the run
  `close_group_stage_closes`), leaves the drawing to an aggregate that is not
  asked for it (`generate_knockout_bracket.go:67`). InitializeTournament updates
  a row that is not there.
* A result message that loses the optimistic lock on each of its five deliveries
  is dropped, and nobody is told (`infrastructure/nats/result_consumer.go:50`).

fixture-core, reading:

* GET /fixture and GET /groups may show a match as played that the table beside
  it does not count, and all groups completed in a tournament that is still in
  its group stage: the status, the groups, the tables and the matches are read
  one after the other (`standing_repository.go:155`). `AnswersRunForward` says what
  is left: never the other way round, and never for what was stored before the
  request.
* In a listing of matches still to be played, each match played during the walk
  moves one that is still to be played off the pages; in a listing by date, one
  that comes in after the count moves the last one off.
* As built, GET match and any page with a completed match fail (scanMatchDTO).
* GET best-thirds does not ask whether the group stage is over
  (`standing_repository.go:77` says it does); GET match ignores the tournament.

result-ingestion:

* `domain/result/result.go:147` adds the goals of regular time, extra time and
  penalties into the key, so that different outcomes can share one. The properties
  judge per key, so they do not see a correction that is taken for a duplicate.
* `domain/result/validator.go:23` announces checks against the match; none
  exist, and a zero `completed_at` is accepted that fixture-core refuses.
* `BackOff[0]` of 1 s replaces the AckWait of the consumers' configuration.

notification:

* Nothing in the deployed service registers a subscriber, and a restart loses
  those there are, while the messages of the time in between are delivered. The
  properties speak of those registered and exempt the lost ones.
* GroupStageCompleted, KnockoutMatchAdvanced and MatchScheduleUpdated are sent
  as match_result: who asks for group_completed, knockout_advanced or
  schedule_updated hears nothing.
* `webhook/dispatcher.go:30` offers the delivery id for idempotency, but every
  redelivery builds a new one; with a buffer of 20, an AckWait of 1 s and POSTs
  of up to 10 s, duplicates are normal (`CopiesAreBounded` says how many; ids of
  deliveries are not in the model).
* An Ack that does not reach JetStream (`consumer.go:133`, its error is dropped) is not
  modelled: the copies that follow from it are those that AckWait gives.
* `consumer.go:30` says that only events from the start of the service on are
  consumed; the durable consumer also gets those of its downtime.

venue-geo:

* Nothing in the repository calls Save, Rebuild or SaveDistanceMatrix. The model
  lets anyone call them, as the interface of the repository does, so that their
  races are those of callers to come and not of the deployed service.
* One pair of venues too close for the column fails the whole rebuild. No row
  is lost by it; that the new ones are missing, `MissingOnlyIfAdded` allows.
* FindNearby filters by distance on the spheroid and answers with the distance
  on the sphere, which may be more than the radius asked for.

## 6. Plan

Done: the seven modules above with `TournamentLedger`, and the theorems of
section 4. Left, in this order:

1. the composition of `ResultIngestion` and `FixtureService` over the stream:
   a report confirmed by the one is stored by the other;
2. `GroupTable` as a refinement of the standings of `FixtureService`.
