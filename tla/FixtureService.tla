--------------------------- MODULE FixtureService ---------------------------
(***************************************************************************)
(* The write path of fixture-core: the HTTP handlers and the NATS consumer *)
(* goroutine that run RegisterMatchResult and UpdateMatchSchedule against  *)
(* fixture_db, publish the resulting events and answer their caller.       *)
(*                                                                         *)
(* A command runs in the steps between which other goroutines can run: the *)
(* tournaments row, the matches and the standings are read by separate     *)
(* queries outside a transaction; the aggregate decides in memory; Save is *)
(* one transaction with an optimistic lock on tournaments.version; the     *)
(* events go out one by one after the commit.                              *)
(*                                                                         *)
(* Score tables are abstracted to the set of matches they count, scores to *)
(* model values, a (scheduled_at, venue_id) pair to one Kickoff value.     *)
(* Four defects of the row mapping stop the program as it is: with each of *)
(* SlotsDecoded, PhaseScanned, ResultScanned and PositionsSwap FALSE the   *)
(* module is the code as built; TRUE is that mapping repaired, so that     *)
(* what lies behind it can be checked. Any query or commit may also fail   *)
(* (Faults): a lost connection, a cancelled request, a violated constraint. *)
(***************************************************************************)
EXTENDS Naturals, Sequences, FiniteSets

CONSTANTS
  Group,            \* the groups of the tournament (12 in production)
  Match,            \* the group-stage matches
  GroupOf,          \* the group each match belongs to
  NoSuchMatch,      \* a match id that no row has
  Decisive,         \* results with a winner
  Drawn,            \* results level after regular time, without extra time
  Invalid,          \* results the command's validate() refuses
  Kickoff,          \* (scheduled_at, venue_id) pairs
  InitialKickoff,   \* the one every match is seeded with
  Request,          \* the HTTP handler goroutines
  Consumer,         \* the single goroutine of the NATS result consumer
  Msg,              \* the messages of the stream of ingested results
  NoMsg,
  Garbage,          \* a message body that does not decode
  NoResult,
  MaxDeliver,       \* deliveries per message (5 in production)
  MaxReschedules,   \* bound on version at which reschedules still begin
  SlotsDecoded,     \* do stored slots decode to a team id?
  PhaseScanned,     \* does scanMatch read matches.phase?
  ResultScanned,    \* does scanMatch read match_results.completed_at?
  PositionsSwap,    \* can two teams exchange positions, written row by row?
  Faults            \* may I/O fail, acks time out, the process crash?

ASSUME GroupsAssumption ==
  /\ GroupOf \in [Match -> Group]
  /\ \A g \in Group : \E m \in Match : GroupOf[m] = g
  /\ \E g1, g2 \in Group : g1 # g2
  /\ NoSuchMatch \notin Match
ASSUME ResultsAssumption ==
  /\ Decisive \cap Drawn = {}
  /\ (Decisive \cup Drawn) \cap Invalid = {}
  /\ NoResult \notin Decisive \cup Drawn \cup Invalid
  /\ InitialKickoff \in Kickoff
ASSUME ProcessAssumption ==
  /\ Consumer \notin Request
  /\ NoMsg \notin Msg /\ Garbage # NoMsg
  /\ {NoMsg, Garbage} \cap [op: {"RegisterMatchResult"},
                           match: Match \cup {NoSuchMatch},
                           arg: Decisive \cup Drawn \cup Invalid] = {}
  /\ MaxDeliver \in Nat /\ MaxReschedules \in Nat
  /\ {SlotsDecoded, PhaseScanned, ResultScanned, PositionsSwap, Faults}
       \subseteq BOOLEAN

Process == Request \cup {Consumer}
Result == Decisive \cup Drawn \cup Invalid

\* One row of matches LEFT JOIN match_results.
MatchRow == [status: {"SCHEDULED", "COMPLETED"},
             result: Result \cup {NoResult},
             kickoff: Kickoff]

\* The aggregate in memory, and the rows of fixture_db it is saved in.
Aggregate == [version: Nat,
              status: {"GROUP_STAGE", "KNOCKOUT"},
              matches: [Match -> MatchRow],
              standings: [Group -> SUBSET Match]]

SeededFixture ==
  [version   |-> 0,
   status    |-> "GROUP_STAGE",
   matches   |-> [m \in Match |-> [status  |-> "SCHEDULED",
                                   result  |-> NoResult,
                                   kickoff |-> InitialKickoff]],
   standings |-> [g \in Group |-> {}]]

\* groups.status as loadGroups reads it: Save never writes the groups table.
StoredGroupStatus(g) == "PENDING"

RegisterMatchResultCmd ==
  [op: {"RegisterMatchResult"}, match: Match \cup {NoSuchMatch}, arg: Result]
UpdateMatchScheduleCmd ==
  [op: {"UpdateMatchSchedule"}, match: Match \cup {NoSuchMatch}, arg: Kickoff]
NoCmd == [op |-> "none", match |-> NoSuchMatch, arg |-> NoResult]
Cmd == RegisterMatchResultCmd \cup UpdateMatchScheduleCmd

\* What the payload of a ResultIngested message decodes to.
MessageBody == RegisterMatchResultCmd \cup {Garbage}

MatchResultRegistered(m, r) ==
  [type |-> "MatchResultRegistered", of |-> m, data |-> r]
GroupStageCompleted(g) ==
  [type |-> "GroupStageCompleted", of |-> g, data |-> NoResult]
KnockoutBracketGenerated ==
  [type |-> "KnockoutBracketGenerated", of |-> NoSuchMatch, data |-> NoResult]
MatchScheduleUpdated(m, k) ==
  [type |-> "MatchScheduleUpdated", of |-> m, data |-> k]
Event ==
  [type: {"MatchResultRegistered", "GroupStageCompleted",
          "KnockoutBracketGenerated", "MatchScheduleUpdated"},
   of: Match \cup Group \cup {NoSuchMatch},
   data: Result \cup Kickoff \cup {NoResult}]

VARIABLES
  db,          \* tournaments, matches, match_results and group_standings
  eventStore,  \* the rows of fixture_events
  pc,          \* where each goroutine is
  cmd,         \* the command it executes
  fixture,     \* the aggregate it has loaded
  evts,        \* the events it has drained from the aggregate
  body,        \* the messages result-ingestion has published
  deliveries,  \* how often JetStream has delivered each message
  inbox,       \* the copies prefetched by the consumer
  current,     \* the message the consumer is processing
  acked,       \* the messages acknowledged
  published,   \* the FIXTURE_EVENTS stream
  announced,   \* history: the events of every committed command
  confirmed    \* history: the results whose HTTP request got a success

handlers == <<pc, cmd, fixture, evts>>
jetstream == <<body, deliveries, acked>>
vars == <<db, eventStore, pc, cmd, fixture, evts, body, deliveries, inbox,
          current, acked, published, announced, confirmed>>

PC == {"idle", "loadMatches", "loadStandings", "save", "publish", "done",
       "failed"}

TypeOK ==
  /\ db \in Aggregate
  /\ eventStore \in SUBSET Event
  /\ pc \in [Process -> PC]
  /\ cmd \in [Process -> Cmd \cup {NoCmd}]
  /\ fixture \in [Process -> Aggregate]
  /\ evts \in [Process -> Seq(Event)]
  /\ body \in [Msg -> MessageBody \cup {NoMsg}]
  /\ deliveries \in [Msg -> 0..MaxDeliver]
  /\ inbox \in Seq(Msg)
  /\ current \in Msg \cup {NoMsg}
  /\ acked \in SUBSET Msg
  /\ published \in Seq(Event)
  /\ announced \in SUBSET Event
  /\ confirmed \in SUBSET RegisterMatchResultCmd

Init ==
  /\ db = SeededFixture
  /\ eventStore = {}
  /\ pc = [p \in Process |-> "idle"]
  /\ cmd = [p \in Process |-> NoCmd]
  /\ fixture = [p \in Process |-> SeededFixture]
  /\ evts = [p \in Process |-> <<>>]
  /\ body = [k \in Msg |-> NoMsg]
  /\ deliveries = [k \in Msg |-> 0]
  /\ inbox = <<>>
  /\ current = NoMsg
  /\ acked = {}
  /\ published = <<>>
  /\ announced = {}
  /\ confirmed = {}

-----------------------------------------------------------------------------
(* The aggregate.                                                          *)

IsCompleted(row) == row.status = "COMPLETED" /\ row.result # NoResult

IsComplete(matches, g) ==
  \A m \in Match : GroupOf[m] = g => IsCompleted(matches[m])

\* Only the group of the command has its status brought up to date.
AllGroupsComplete(matches, g) ==
  \A h \in Group : IF h = g THEN IsComplete(matches, g)
                            ELSE StoredGroupStatus(h) = "COMPLETED"

\* Mutant: the result of a match can be registered again.
AcceptsResultAgain(f, c) ==
  /\ c.match \in Match
  /\ SlotsDecoded
  /\ c.arg \in Drawn => PhaseScanned

\* A match loaded without its phase counts as a knockout one, and a draw
\* without extra time is refused.
AcceptsResult(f, c) ==
  /\ c.match \in Match
  /\ ~ IsCompleted(f.matches[c.match])
  /\ SlotsDecoded
  /\ c.arg \in Drawn => PhaseScanned

AcceptsSchedule(f, c) ==
  /\ c.match \in Match
  /\ ~ IsCompleted(f.matches[c.match])

Accepts(f, c) ==
  \/ c.op = "RegisterMatchResult" /\ AcceptsResult(f, c)
  \/ c.op = "UpdateMatchSchedule" /\ AcceptsSchedule(f, c)

CompletedMatchesOf(matches, g) ==
  {m \in Match : GroupOf[m] = g /\ IsCompleted(matches[m])}

WithResult(matches, m, r) ==
  [matches EXCEPT ![m].result = r, ![m].status = "COMPLETED"]

\* Fixture.RegisterMatchResult on a group match it accepts.
RegisterMatchResult(f, c) ==
  LET g       == GroupOf[c.match]
      matches == WithResult(f.matches, c.match, c.arg)
  IN [version   |-> f.version + 1,
      status    |-> IF AllGroupsComplete(matches, g)
                    THEN "KNOCKOUT" ELSE f.status,
      matches   |-> matches,
      standings |-> [f.standings EXCEPT ![g] = CompletedMatchesOf(matches, g)]]

\* Mutant: completion is looked up before the result is applied.
ResultEventsBeforeApply(f, c) ==
  <<MatchResultRegistered(c.match, c.arg)>>
    \o (IF IsComplete(f.matches, GroupOf[c.match])
        THEN <<GroupStageCompleted(GroupOf[c.match])>> ELSE <<>>)

ResultEvents(f, c) ==
  LET g       == GroupOf[c.match]
      matches == WithResult(f.matches, c.match, c.arg)
  IN <<MatchResultRegistered(c.match, c.arg)>>
     \o (IF IsComplete(matches, g)
         THEN <<GroupStageCompleted(g)>> ELSE <<>>)
     \o (IF AllGroupsComplete(matches, g)
         THEN <<KnockoutBracketGenerated>> ELSE <<>>)

\* Mutant: the new kick-off is scanned into the wrong column.
UpdateMatchScheduleSwapped(f, c) ==
  [f EXCEPT !.version = @ + 1, !.matches[c.match].result = c.arg]

\* Fixture.UpdateMatchSchedule on a match it accepts.
UpdateMatchSchedule(f, c) ==
  [version   |-> f.version + 1,
   status    |-> f.status,
   matches   |-> [f.matches EXCEPT ![c.match].kickoff = c.arg],
   standings |-> f.standings]

\* What the command makes of the aggregate, and the events it raises.
Outcome(f, c) ==
  IF c.op = "RegisterMatchResult" THEN RegisterMatchResult(f, c)
                                  ELSE UpdateMatchSchedule(f, c)
RaisedEvents(f, c) ==
  IF c.op = "RegisterMatchResult" THEN ResultEvents(f, c)
                                  ELSE <<MatchScheduleUpdated(c.match, c.arg)>>

-----------------------------------------------------------------------------
(* A command: load, apply, save, publish.                                  *)

\* validate(), then the tournaments row: the version is read first.
Begin(p, c) ==
  /\ pc' = [pc EXCEPT ![p] = "loadMatches"]
  /\ cmd' = [cmd EXCEPT ![p] = c]
  /\ fixture' = [fixture EXCEPT ![p].version = db.version,
                                ![p].status = db.status]
  /\ UNCHANGED <<db, eventStore, evts, jetstream, published, announced,
                 confirmed>>

\* Rows that scanMatch can read: completed_at goes into a *MatchResult, which
\* only a NULL fits.
RowsScan == ResultScanned \/ \A m \in Match : db.matches[m].result = NoResult

LoadGroupMatches(p) ==
  /\ pc[p] = "loadMatches"
  /\ RowsScan
  /\ fixture' = [fixture EXCEPT ![p].matches = db.matches]
  /\ pc' = [pc EXCEPT ![p] = "loadStandings"]
  /\ UNCHANGED <<db, eventStore, cmd, evts, jetstream, inbox, current,
                 published, announced, confirmed>>

\* Mutant: the version is the last thing read.
GetByTournamentIDVersionLast(p) ==
  [fixture[p] EXCEPT !.standings = db.standings, !.version = db.version]

\* loadGroupStandings, the last query, completes the aggregate.
GetByTournamentID(p) == [fixture[p] EXCEPT !.standings = db.standings]

\* The command on the loaded aggregate; the handler drains its events before
\* it saves.
Apply(p) ==
  /\ pc[p] = "loadStandings"
  /\ Accepts(GetByTournamentID(p), cmd[p])
  /\ fixture' = [fixture EXCEPT ![p] = Outcome(GetByTournamentID(p), cmd[p])]
  /\ evts' = [evts EXCEPT ![p] = RaisedEvents(GetByTournamentID(p), cmd[p])]
  /\ pc' = [pc EXCEPT ![p] = "save"]
  /\ UNCHANGED <<db, eventStore, cmd, jetstream, inbox, current, published,
                 announced, confirmed>>

\* What Save's own PendingEvents() call finds: the handler has drained it.
PendingEvents == {}

\* Rows after the upserts: match_results rows are written, never deleted.
Upserted(f) ==
  [f EXCEPT !.matches = [m \in Match |->
     [f.matches[m] EXCEPT !.result =
        IF @ = NoResult THEN db.matches[m].result ELSE @]]]

\* Mutant: no optimistic lock.
SaveTransactionUnlocked(p) ==
  /\ pc[p] = "save"
  /\ db' = Upserted(fixture[p])
  /\ eventStore' = eventStore \cup PendingEvents
  /\ announced' = announced \cup {evts[p][i] : i \in DOMAIN evts[p]}

\* The transaction of Save, which commits only over the version it read, and
\* only rows whose phase passes the CHECK of the matches table.
SaveTransaction(p) ==
  /\ pc[p] = "save"
  /\ db.version = fixture[p].version - 1
  /\ PhaseScanned
  /\ db' = Upserted(fixture[p])
  /\ eventStore' = eventStore \cup PendingEvents
  /\ announced' = announced \cup {evts[p][i] : i \in DOMAIN evts[p]}

\* The aggregate loaded by p and its events go out of scope.
Forget(p) ==
  /\ fixture' = [fixture EXCEPT ![p] = SeededFixture]
  /\ evts' = [evts EXCEPT ![p] = <<>>]

Fail(p) ==
  /\ pc' = [pc EXCEPT ![p] = "failed"]
  /\ Forget(p)
  /\ UNCHANGED <<cmd, jetstream, inbox, current, published, confirmed>>

Save(p) ==
  /\ SaveTransaction(p)
  /\ pc' = [pc EXCEPT ![p] = "publish"]
  /\ fixture' = [fixture EXCEPT ![p] = SeededFixture]
  /\ UNCHANGED <<cmd, evts, jetstream, inbox, current, published, confirmed>>

\* The commit took effect, its confirmation was lost: Save returns an error.
SaveUnconfirmed(p) ==
  /\ Faults
  /\ SaveTransaction(p)
  /\ Fail(p)

\* Mutant: Save is tried again over the version that has moved.
SaveConflictRetried(p) ==
  /\ pc[p] = "save"
  /\ db.version # fixture[p].version - 1
  /\ UNCHANGED vars

\* No row updated: apperrors.Conflict, and the transaction is rolled back.
SaveConflict(p) ==
  /\ pc[p] = "save"
  /\ db.version # fixture[p].version - 1
  /\ Fail(p)
  /\ UNCHANGED <<db, eventStore, announced>>

\* mapDomainError: the aggregate refused the command.
Reject(p) ==
  /\ pc[p] = "loadStandings"
  /\ ~ Accepts(GetByTournamentID(p), cmd[p])
  /\ Fail(p)
  /\ UNCHANGED <<db, eventStore, announced>>

\* The scores may reorder the table of the group, and UNIQUE (group_id,
\* position) refuses the first row that takes a position still held
\* (GroupTable has the scores and tells exactly when).
TableReordered(p) == ~ PositionsSwap /\ cmd[p].op = "RegisterMatchResult"

\* The mapping makes a row that cannot be read, or one that cannot be written.
StoreRefuses(p) ==
  /\ \/ pc[p] = "loadMatches" /\ ~ RowsScan
     \/ /\ pc[p] = "save" /\ db.version = fixture[p].version - 1
        /\ ~ PhaseScanned \/ TableReordered(p)
  /\ Fail(p)
  /\ UNCHANGED <<db, eventStore, announced>>

\* Mutant: a failed Save is only logged, like a failed PublishAll.
StoreFailsSilently(p) ==
  /\ Faults
  /\ pc[p] = "save"
  /\ pc' = [pc EXCEPT ![p] = "publish"]
  /\ UNCHANGED <<db, eventStore, cmd, fixture, evts, jetstream, inbox,
                 current, published, announced, confirmed>>

\* A query, a constraint or the connection failed.
StoreFails(p) ==
  /\ Faults
  /\ pc[p] \in {"loadMatches", "loadStandings", "save"}
  /\ Fail(p)
  /\ UNCHANGED <<db, eventStore, announced>>

\* PublishAll: one event after the other.
PublishNext(p) ==
  /\ pc[p] = "publish"
  /\ IF evts[p] = <<>>
     THEN /\ pc' = [pc EXCEPT ![p] = "done"]
          /\ UNCHANGED <<evts, published>>
     ELSE /\ published' = Append(published, Head(evts[p]))
          /\ evts' = [evts EXCEPT ![p] = Tail(@)]
          /\ UNCHANGED pc
  /\ UNCHANGED <<db, eventStore, cmd, fixture, jetstream, inbox, current,
                 announced, confirmed>>

\* Mutant: an event without its ack is published again.
PublishFailsRetried(p) ==
  /\ Faults
  /\ pc[p] = "publish"
  /\ evts[p] # <<>>
  /\ published' = Append(published, Head(evts[p]))
  /\ UNCHANGED <<db, eventStore, handlers, jetstream, inbox, current,
                 announced, confirmed>>

\* PublishAll stops at the first error, which the handler only logs; when what
\* failed was waiting for JetStream's ack, the event is in the stream.
PublishFails(p) ==
  /\ Faults
  /\ pc[p] = "publish"
  /\ evts[p] # <<>>
  /\ published' \in {published, Append(published, Head(evts[p]))}
  /\ pc' = [pc EXCEPT ![p] = "done"]
  /\ Forget(p)
  /\ UNCHANGED <<db, eventStore, cmd, jetstream, inbox, current, announced,
                 confirmed>>

Release(p) ==
  /\ pc' = [pc EXCEPT ![p] = "idle"]
  /\ cmd' = [cmd EXCEPT ![p] = NoCmd]
  /\ UNCHANGED <<fixture, evts>>

-----------------------------------------------------------------------------
(* Callers: HTTP requests.                                                 *)

RegisterResult(p) ==
  /\ pc[p] = "idle"
  /\ \E c \in RegisterMatchResultCmd : c.arg \notin Invalid /\ Begin(p, c)
  /\ UNCHANGED <<inbox, current>>

UpdateSchedule(p) ==
  /\ pc[p] = "idle"
  /\ db.version < MaxReschedules
  /\ \E c \in UpdateMatchScheduleCmd : Begin(p, c)
  /\ UNCHANGED <<inbox, current>>

Reply(p) ==
  /\ pc[p] \in {"done", "failed"}
  /\ confirmed' = IF pc[p] = "done" /\ cmd[p].op = "RegisterMatchResult"
                  THEN confirmed \cup {cmd[p]} ELSE confirmed
  /\ Release(p)
  /\ UNCHANGED <<db, eventStore, jetstream, inbox, current, published,
                 announced>>

-----------------------------------------------------------------------------
(* Callers: JetStream and the consumer goroutine.                          *)

\* result-ingestion publishes a result (external to this service).
Ingest(k) ==
  /\ body[k] = NoMsg
  /\ \E b \in MessageBody : body' = [body EXCEPT ![k] = b]
  /\ UNCHANGED <<db, eventStore, handlers, deliveries, inbox, current, acked,
                 published, announced, confirmed>>

Outstanding(k) == current = k \/ \E i \in DOMAIN inbox : inbox[i] = k

DeliverCopy(k) ==
  /\ body[k] # NoMsg
  /\ k \notin acked
  /\ deliveries[k] < MaxDeliver
  /\ deliveries' = [deliveries EXCEPT ![k] = @ + 1]
  /\ inbox' = Append(inbox, k)
  /\ UNCHANGED <<db, eventStore, handlers, body, current, acked, published,
                 announced, confirmed>>

\* First delivery, or redelivery after a NAK or after a crash.
Deliver(k) == ~ Outstanding(k) /\ DeliverCopy(k)

\* AckWait expires while a copy is still waiting or being processed.
AckWaitExpires(k) == Faults /\ Outstanding(k) /\ DeliverCopy(k)

\* A body that does not decode, or a payload that does not parse: acked.
DiscardMessage ==
  /\ pc[Consumer] = "idle"
  /\ inbox # <<>>
  /\ body[Head(inbox)] = Garbage
  /\ acked' = acked \cup {Head(inbox)}
  /\ inbox' = Tail(inbox)
  /\ UNCHANGED <<db, eventStore, handlers, body, deliveries, current,
                 published, announced, confirmed>>

\* A command that validate() refuses fails at once, and is negatively acked.
RefuseMessage ==
  /\ pc[Consumer] = "idle"
  /\ inbox # <<>>
  /\ body[Head(inbox)] \in RegisterMatchResultCmd
  /\ body[Head(inbox)].arg \in Invalid
  /\ inbox' = Tail(inbox)
  /\ UNCHANGED <<db, eventStore, handlers, jetstream, current, published,
                 announced, confirmed>>

ProcessMessage ==
  /\ pc[Consumer] = "idle"
  /\ inbox # <<>>
  /\ body[Head(inbox)] \in RegisterMatchResultCmd
  /\ body[Head(inbox)].arg \notin Invalid
  /\ Begin(Consumer, body[Head(inbox)])
  /\ current' = Head(inbox)
  /\ inbox' = Tail(inbox)

\* Mutant: acked whatever the handler returned.
SettleAlwaysAcks ==
  /\ pc[Consumer] \in {"done", "failed"}
  /\ acked' = acked \cup {current}
  /\ current' = NoMsg
  /\ Release(Consumer)
  /\ UNCHANGED <<db, eventStore, body, deliveries, inbox, published,
                 announced, confirmed>>

\* Ack on success; on any handler error a NAK, which leaves it to JetStream.
Settle ==
  /\ pc[Consumer] \in {"done", "failed"}
  /\ acked' = IF pc[Consumer] = "done" THEN acked \cup {current} ELSE acked
  /\ current' = NoMsg
  /\ Release(Consumer)
  /\ UNCHANGED <<db, eventStore, body, deliveries, inbox, published,
                 announced, confirmed>>

\* The process dies and restarts: what is in memory is gone.
Crash ==
  /\ Faults
  /\ pc' = [p \in Process |-> "idle"]
  /\ cmd' = [p \in Process |-> NoCmd]
  /\ fixture' = [p \in Process |-> SeededFixture]
  /\ evts' = [p \in Process |-> <<>>]
  /\ inbox' = <<>>
  /\ current' = NoMsg
  /\ UNCHANGED <<db, eventStore, jetstream, published, announced, confirmed>>

-----------------------------------------------------------------------------
HandlerStep(p) ==
  \/ LoadGroupMatches(p) \/ Apply(p) \/ Reject(p)
  \/ Save(p) \/ SaveConflict(p) \/ StoreRefuses(p) \/ PublishNext(p)

HandlerFault(p) == SaveUnconfirmed(p) \/ StoreFails(p) \/ PublishFails(p)

ConsumerStep == DiscardMessage \/ RefuseMessage \/ ProcessMessage \/ Settle

Next ==
  \/ \E p \in Process : HandlerStep(p) \/ HandlerFault(p)
  \/ \E p \in Request : RegisterResult(p) \/ UpdateSchedule(p) \/ Reply(p)
  \/ \E k \in Msg : Ingest(k) \/ Deliver(k) \/ AckWaitExpires(k)
  \/ ConsumerStep
  \/ Crash

Spec == Init /\ [][Next]_vars

\* A goroutine that can run does run, and JetStream delivers what is pending.
\* Nothing obliges a client, result-ingestion or a fault to act.
Fairness ==
  /\ \A p \in Process : WF_vars(HandlerStep(p))
  /\ \A p \in Request : WF_vars(Reply(p))
  /\ \A k \in Msg : WF_vars(Deliver(k))
  /\ WF_vars(ConsumerStep)

FairSpec == Spec /\ Fairness

-----------------------------------------------------------------------------
(* Safety.                                                                 *)

\* The materialised standings of every group count exactly the matches whose
\* result is stored: neither a torn load (rows read by separate queries) nor
\* two concurrent commands on one group make upsertStandings drop a result.
StandingsAgree ==
  \A g \in Group : db.standings[g] = CompletedMatchesOf(db.matches, g)

\* Every stored result was announced by the commit that stored it, and a group
\* is announced complete exactly when its last result is stored: two handlers
\* that each store one of the last two results cannot both miss completion.
CompletionAnnounced ==
  /\ \A m \in Match, r \in Result :
       MatchResultRegistered(m, r) \in announced
         <=> IsCompleted(db.matches[m]) /\ db.matches[m].result = r
  /\ \A g \in Group :
       GroupStageCompleted(g) \in announced <=> IsComplete(db.matches, g)

\* What a handler is about to save over an unchanged version is its command
\* applied to the rows as they are: had any query of its load run after
\* another commit, the version it read first would be out of date.
SaveIsOfCurrentRows ==
  \A p \in Process :
    pc[p] = "save" /\ fixture[p].version = db.version + 1 =>
      /\ Accepts(db, cmd[p])
      /\ fixture[p] = Outcome(db, cmd[p])
      /\ evts[p] = RaisedEvents(db, cmd[p])

\* Nothing reaches FIXTURE_EVENTS that fixture_db has not committed.
PublishedWasCommitted ==
  \A i \in DOMAIN published : published[i] \in announced

\* A match result and a group completion are published at most once, whatever
\* JetStream redelivers and whichever handler retries.
PublishedOnce ==
  \A i, j \in DOMAIN published :
    /\ published[i] = published[j]
    /\ published[i].type \in {"MatchResultRegistered", "GroupStageCompleted"}
    => i = j

\* The result of command c is in fixture_db.
IsStored(c) ==
  /\ c.match \in Match
  /\ IsCompleted(db.matches[c.match])
  /\ db.matches[c.match].result = c.arg

\* processMessage acks a decodable message only when its very result is stored.
AckedMeansStored ==
  \A k \in acked :
    body[k] # Garbage => IsStored(body[k])

\* A client answered 204 by RegisterResult finds its result stored from then on.
ConfirmedMeansStored == \A c \in confirmed : IsStored(c)

\* A stored result is final: no later Save, of whatever handler, changes it,
\* reopens the match or moves its kick-off.
StoredResultIsFinal ==
  [][\A m \in Match :
       IsCompleted(db.matches[m]) => db'.matches[m] = db.matches[m]]_vars

\* Every behaviour of the handlers, the consumer and their faults is one of a
\* ledger whose commands are atomic: the commit of Save is the instant at which
\* a command takes effect, and everything else is invisible in fixture_db.
Ledger == INSTANCE TournamentLedger WITH
            result  <- [m \in Match |-> db.matches[m].result],
            kickoff <- [m \in Match |-> db.matches[m].kickoff]

RefinesLedger == Ledger!Spec

(* The inductive invariant: the above, and what each goroutine knows.       *)

\* groups.status stays PENDING, so the stage never changes either, and a match
\* is COMPLETED exactly when it has a result row.
RowsConsistent ==
  /\ db.status = "GROUP_STAGE"
  /\ \A m \in Match :
       db.matches[m].status = "COMPLETED" <=> db.matches[m].result # NoResult

\* A load under way has read the rows of the version it read, or that version
\* is gone.
LoadIsCurrent ==
  \A p \in Process :
    /\ pc[p] \in {"loadMatches", "loadStandings"} =>
         /\ fixture[p].version <= db.version
         /\ fixture[p].status = db.status
    /\ pc[p] = "loadStandings" /\ fixture[p].version = db.version =>
         fixture[p].matches = db.matches
    /\ pc[p] = "save" => fixture[p].version <= db.version + 1

\* Past its commit, a handler holds events and a result that are stored.
PastCommit ==
  \A p \in Process :
    /\ pc[p] = "publish" => \A i \in DOMAIN evts[p] : evts[p][i] \in announced
    /\ pc[p] \in {"publish", "done"} /\ cmd[p].op = "RegisterMatchResult" =>
         IsStored(cmd[p])

\* The consumer runs the command of the message it has taken.
ConsumerRunsMessage ==
  /\ pc[Consumer] # "idle" =>
       /\ current \in Msg
       /\ cmd[Consumer] = body[current]
       /\ cmd[Consumer] \in RegisterMatchResultCmd
  /\ \A p \in Process : pc[p] # "idle" => cmd[p] \in Cmd
  /\ \A k \in acked : body[k] # NoMsg

IInv ==
  /\ TypeOK
  /\ RowsConsistent
  /\ StandingsAgree
  /\ CompletionAnnounced
  /\ LoadIsCurrent
  /\ SaveIsOfCurrentRows
  /\ PastCommit
  /\ ConsumerRunsMessage
  /\ PublishedWasCommitted
  /\ AckedMeansStored
  /\ ConfirmedMeansStored

(* Liveness.                                                               *)

\* JetStream delivers message k no more: its deliveries are spent, none of them
\* was acknowledged.
GivenUp(k) == deliveries[k] = MaxDeliver /\ ~ Outstanding(k) /\ k \notin acked

\* Without faults every ingested winner is eventually stored for its match (or the
\* match got another result first). The consumer's redeliveries outlast version
\* conflicts with HTTP requests, unless every one of the MaxDeliver deliveries
\* loses the lock, each to another commit: then the result is dropped, and there
\* have been MaxDeliver commits at least.
EveryIngestedResultLands ==
  \A k \in Msg, m \in Match, r \in Decisive :
    body[k] = [op |-> "RegisterMatchResult", match |-> m, arg |-> r]
      ~> \/ IsCompleted(db.matches[m])
         \/ GivenUp(k) /\ db.version >= MaxDeliver

\* Without faults every request that has begun is answered.
EveryRequestIsAnswered ==
  \A p \in Request : pc[p] # "idle" ~> pc[p] = "idle"

-----------------------------------------------------------------------------
(* What a comment of the code says and the code does not do.               *)

\* fixture_repository.go: Save persists the aggregate it is given, unless the
\* version moved. It violates the CHECK on the phase of every loaded match.
SaveFailsOnlyOnConflict ==
  [][\A p \in Process :
       pc[p] = "save" /\ pc'[p] = "failed"
         => db.version # fixture[p].version - 1]_vars
=============================================================================
