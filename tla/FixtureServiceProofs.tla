------------------------ MODULE FixtureServiceProofs ------------------------
(***************************************************************************)
(* Proofs about FixtureService, for any number of groups, matches, HTTP    *)
(* handlers and messages, with and without faults.                         *)
(***************************************************************************)
EXTENDS FixtureService, SequenceTheorems, TLAPS

(* The aggregate. *)

\* The group of a command is completed in memory only; the other groups keep
\* their stored status, so no command ever finds all groups COMPLETED.
LEMMA NeverAllComplete ==
  ASSUME NEW matches, NEW g \in Group
  PROVE  ~ AllGroupsComplete(matches, g)
<1>1. PICK h \in Group : h # g
  BY GroupsAssumption
<1> QED
  BY <1>1 DEF AllGroupsComplete, StoredGroupStatus

\* The seeded tournament is a well-typed aggregate.
LEMMA SeededFixtureType == SeededFixture \in Aggregate
BY ResultsAssumption DEF SeededFixture, Aggregate, MatchRow

\* Both commands take a well-typed aggregate to a well-typed aggregate.
LEMMA OutcomeType ==
  ASSUME NEW f \in Aggregate, NEW c \in Cmd, Accepts(f, c)
  PROVE  /\ Outcome(f, c) \in Aggregate
         /\ Outcome(f, c).version = f.version + 1
         /\ Outcome(f, c).status = f.status
         /\ c.match \in Match
<1>1. CASE c.op = "RegisterMatchResult"
  <2>1. c.match \in Match /\ c.arg \in Result
    BY <1>1 DEF Accepts, AcceptsResult, Cmd, RegisterMatchResultCmd,
                UpdateMatchScheduleCmd
  <2>2. GroupOf[c.match] \in Group
    BY <2>1, GroupsAssumption
  <2>3. WithResult(f.matches, c.match, c.arg) \in [Match -> MatchRow]
    BY <2>1 DEF WithResult, Aggregate, MatchRow
  <2>4. ~ AllGroupsComplete(WithResult(f.matches, c.match, c.arg),
                            GroupOf[c.match])
    BY <2>2, NeverAllComplete
  <2> QED
    BY <1>1, <2>1, <2>2, <2>3, <2>4
    DEF Outcome, RegisterMatchResult, Aggregate, CompletedMatchesOf
<1>2. CASE c.op = "UpdateMatchSchedule"
  <2>1. c.match \in Match /\ c.arg \in Kickoff
    BY <1>2 DEF Accepts, AcceptsSchedule, Cmd, RegisterMatchResultCmd,
                UpdateMatchScheduleCmd
  <2>2. [f.matches EXCEPT ![c.match].kickoff = c.arg] \in [Match -> MatchRow]
    BY <2>1 DEF Aggregate, MatchRow
  <2> QED
    BY <1>2, <2>1, <2>2 DEF Outcome, UpdateMatchSchedule, Aggregate
<1> QED
  BY <1>1, <1>2 DEF Accepts

\* The events either command raises are events.
LEMMA EventsType ==
  ASSUME NEW f \in Aggregate, NEW c \in Cmd, Accepts(f, c)
  PROVE  RaisedEvents(f, c) \in Seq(Event)
<1>1. c.match \in Match
  BY DEF Accepts, AcceptsResult, AcceptsSchedule
<1>2. CASE c.op = "RegisterMatchResult"
  <2>1. c.arg \in Result /\ GroupOf[c.match] \in Group
    BY <1>1, <1>2, GroupsAssumption
    DEF Cmd, RegisterMatchResultCmd, UpdateMatchScheduleCmd
  <2>2. /\ MatchResultRegistered(c.match, c.arg) \in Event
        /\ GroupStageCompleted(GroupOf[c.match]) \in Event
        /\ KnockoutBracketGenerated \in Event
    BY <1>1, <2>1
    DEF MatchResultRegistered, GroupStageCompleted, KnockoutBracketGenerated,
        Event
  <2> QED
    BY <1>2, <2>2 DEF RaisedEvents, ResultEvents
<1>3. CASE c.op = "UpdateMatchSchedule"
  <2>1. c.arg \in Kickoff
    BY <1>3 DEF Cmd, RegisterMatchResultCmd, UpdateMatchScheduleCmd
  <2> QED
    BY <1>1, <1>3, <2>1 DEF RaisedEvents, MatchScheduleUpdated, Event
<1> QED
  BY <1>2, <1>3 DEF Accepts

\* The elements of a sequence of two.
LEMMA PairElements ==
  ASSUME NEW x, NEW y, NEW s, s = <<x, y>>
  PROVE  {s[i] : i \in DOMAIN s} = {x, y}
<1>1. DOMAIN s = {1, 2} /\ s[1] = x /\ s[2] = y
  OBVIOUS
<1> QED
  BY <1>1

\* The two events of a command that ends a group, concatenated as appendEvent
\* leaves them.
LEMMA PairConcatenation ==
  ASSUME NEW x, NEW y
  PROVE  <<x>> \o <<y>> \o <<>> = <<x, y>>
<1> DEFINE S == {x, y}
<1>1. <<x>> \in Seq(S) /\ <<y>> \in Seq(S) /\ <<x, y>> \in Seq(S)
  OBVIOUS
<1>2. /\ <<x>> \o <<y>> \in Seq(S)
      /\ Len(<<x>> \o <<y>>) = 2
      /\ \A i \in 1..2 : (<<x>> \o <<y>>)[i] = IF i <= 1 THEN x ELSE <<y>>[i - 1]
  <2>1. Len(<<x>>) = 1 /\ Len(<<y>>) = 1 /\ <<x>>[1] = x
    OBVIOUS
  <2> HIDE DEF S
  <2> QED
    BY <1>1, <2>1, ConcatProperties
<1>3. (<<x>> \o <<y>>)[1] = x /\ (<<x>> \o <<y>>)[2] = y
  BY <1>2
<1>4. <<x>> \o <<y>> = <<x, y>>
  <2>1. Len(<<x, y>>) = 2 /\ <<x, y>>[1] = x /\ <<x, y>>[2] = y
    OBVIOUS
  <2>2. \A i \in 1..2 : (<<x>> \o <<y>>)[i] = <<x, y>>[i]
    BY <1>3, <2>1
  <2> HIDE DEF S
  <2> QED
    BY <1>1, <1>2, <2>1, <2>2, SeqEqual
<1>5. <<x, y>> \o <<>> = <<x, y>>
  <2> HIDE DEF S
  <2> QED
    BY <1>1, ConcatEmptySeq
<1> QED
  BY <1>4, <1>5

\* The events a registered result raises: itself, and its group's completion
\* when that was the group's last result.
LEMMA RaisedByResult ==
  ASSUME NEW f \in Aggregate, NEW c \in Cmd, Accepts(f, c),
         c.op = "RegisterMatchResult"
  PROVE  {RaisedEvents(f, c)[i] : i \in DOMAIN RaisedEvents(f, c)}
           = {MatchResultRegistered(c.match, c.arg)}
             \cup (IF IsComplete(WithResult(f.matches, c.match, c.arg),
                                 GroupOf[c.match])
                   THEN {GroupStageCompleted(GroupOf[c.match])} ELSE {})
<1> DEFINE g == GroupOf[c.match]
           w == WithResult(f.matches, c.match, c.arg)
           e == MatchResultRegistered(c.match, c.arg)
           d == GroupStageCompleted(g)
<1>1. ~ AllGroupsComplete(w, g)
  BY NeverAllComplete, GroupsAssumption DEF Accepts, AcceptsResult
<1>2. CASE IsComplete(w, g)
  <2>1. RaisedEvents(f, c) = <<e>> \o <<d>> \o <<>>
    BY <1>1, <1>2 DEF RaisedEvents, ResultEvents
  <2>2. RaisedEvents(f, c) = <<e, d>>
    BY <2>1, PairConcatenation
  <2>3. {RaisedEvents(f, c)[i] : i \in DOMAIN RaisedEvents(f, c)} = {e, d}
    BY <2>2, PairElements
  <2>4. {e} \cup (IF IsComplete(w, g) THEN {d} ELSE {}) = {e, d}
    BY <1>2
  <2> QED
    BY <2>3, <2>4
<1>3. CASE ~ IsComplete(w, g)
  <2>1. RaisedEvents(f, c) = <<e>> \o <<>> \o <<>>
    BY <1>1, <1>3 DEF RaisedEvents, ResultEvents
  <2>2. RaisedEvents(f, c) = <<e>>
    BY <2>1
  <2> QED
    BY <1>3, <2>2
<1> QED
  BY <1>2, <1>3

\* An accepted result is written to its match and to no other.
LEMMA OutcomeOfResult ==
  ASSUME NEW f \in Aggregate, NEW c \in Cmd, Accepts(f, c),
         c.op = "RegisterMatchResult"
  PROVE  /\ c.match \in Match /\ c.arg \in Result /\ c.arg # NoResult
         /\ ~ IsCompleted(f.matches[c.match])
         /\ Outcome(f, c).matches = WithResult(f.matches, c.match, c.arg)
         /\ Outcome(f, c).matches[c.match].status = "COMPLETED"
         /\ Outcome(f, c).matches[c.match].result = c.arg
         /\ Outcome(f, c).matches[c.match].kickoff
              = f.matches[c.match].kickoff
         /\ \A m \in Match \ {c.match} :
              Outcome(f, c).matches[m] = f.matches[m]
         /\ Outcome(f, c).standings
              = [f.standings EXCEPT ![GroupOf[c.match]] =
                   CompletedMatchesOf(Outcome(f, c).matches, GroupOf[c.match])]
<1>1. /\ c.match \in Match /\ c.arg \in Result
      /\ ~ IsCompleted(f.matches[c.match])
  BY DEF Accepts, AcceptsResult, Cmd, RegisterMatchResultCmd,
         UpdateMatchScheduleCmd
<1>2. c.arg # NoResult
  BY <1>1, ResultsAssumption DEF Result
<1>3. /\ Outcome(f, c).matches = WithResult(f.matches, c.match, c.arg)
      /\ Outcome(f, c).standings
           = [f.standings EXCEPT ![GroupOf[c.match]] =
                CompletedMatchesOf(Outcome(f, c).matches, GroupOf[c.match])]
  BY DEF Outcome, RegisterMatchResult
<1>4. f.matches \in [Match -> MatchRow]
  BY DEF Aggregate
<1>5. f.matches[c.match] \in MatchRow
  BY <1>1, <1>4
<1>6. /\ WithResult(f.matches, c.match, c.arg)[c.match].status = "COMPLETED"
      /\ WithResult(f.matches, c.match, c.arg)[c.match].result = c.arg
      /\ WithResult(f.matches, c.match, c.arg)[c.match].kickoff
           = f.matches[c.match].kickoff
      /\ \A m \in Match \ {c.match} :
           WithResult(f.matches, c.match, c.arg)[m] = f.matches[m]
  BY <1>1, <1>4, <1>5 DEF WithResult, MatchRow
<1> QED
  BY <1>1, <1>2, <1>3, <1>6

\* An accepted change of schedule touches the kick-off of one open match.
LEMMA OutcomeOfSchedule ==
  ASSUME NEW f \in Aggregate, NEW c \in Cmd, Accepts(f, c),
         c.op = "UpdateMatchSchedule"
  PROVE  /\ c.match \in Match /\ c.arg \in Kickoff
         /\ ~ IsCompleted(f.matches[c.match])
         /\ Outcome(f, c).matches[c.match].status = f.matches[c.match].status
         /\ Outcome(f, c).matches[c.match].result = f.matches[c.match].result
         /\ Outcome(f, c).matches[c.match].kickoff = c.arg
         /\ \A m \in Match \ {c.match} :
              Outcome(f, c).matches[m] = f.matches[m]
         /\ Outcome(f, c).standings = f.standings
<1>1. /\ c.match \in Match /\ c.arg \in Kickoff
      /\ ~ IsCompleted(f.matches[c.match])
  BY DEF Accepts, AcceptsSchedule, Cmd, RegisterMatchResultCmd,
         UpdateMatchScheduleCmd
<1>2. f.matches \in [Match -> MatchRow]
  BY DEF Aggregate
<1>3. f.matches[c.match] \in MatchRow
  BY <1>1, <1>2
<1>4. Outcome(f, c).matches = [f.matches EXCEPT ![c.match].kickoff = c.arg]
      /\ Outcome(f, c).standings = f.standings
  BY DEF Outcome, UpdateMatchSchedule
<1>5. /\ Outcome(f, c).matches[c.match].status = f.matches[c.match].status
      /\ Outcome(f, c).matches[c.match].result = f.matches[c.match].result
      /\ Outcome(f, c).matches[c.match].kickoff = c.arg
      /\ \A m \in Match \ {c.match} :
           Outcome(f, c).matches[m] = f.matches[m]
  BY <1>1, <1>2, <1>3, <1>4 DEF MatchRow
<1> QED
  BY <1>1, <1>4, <1>5

-----------------------------------------------------------------------------
(* The commit.                                                             *)

\* The upserts of Save write exactly the aggregate, because a command applied
\* to the stored rows drops no result.
LEMMA UpsertedOutcome ==
  ASSUME db \in Aggregate, NEW c \in Cmd, Accepts(db, c)
  PROVE  Upserted(Outcome(db, c)) = Outcome(db, c)
<1> DEFINE f == Outcome(db, c)
<1>1. f \in Aggregate
  BY OutcomeType
<1>2. \A m \in Match :
        f.matches[m].result = NoResult => db.matches[m].result = NoResult
  <2>1. CASE c.op = "RegisterMatchResult"
    <3>1. f.matches[c.match].result # NoResult
      BY <2>1, OutcomeOfResult
    <3>2. \A m \in Match \ {c.match} : f.matches[m] = db.matches[m]
      BY <2>1, OutcomeOfResult
    <3> HIDE DEF f
    <3> QED
      BY <3>1, <3>2
  <2>2. CASE c.op = "UpdateMatchSchedule"
    BY <2>2, OutcomeOfSchedule
  <2> QED
    BY <2>1, <2>2 DEF Accepts
<1> HIDE DEF f
<1>3. \A m \in Match :
        [f.matches[m] EXCEPT !.result =
           IF @ = NoResult THEN db.matches[m].result ELSE @] = f.matches[m]
  BY <1>1, <1>2 DEF Aggregate, MatchRow
<1>4. f.matches \in [Match -> MatchRow]
  BY <1>1 DEF Aggregate
<1>5. [m \in Match |->
        [f.matches[m] EXCEPT !.result =
           IF @ = NoResult THEN db.matches[m].result ELSE @]] = f.matches
  BY <1>3, <1>4
<1>6. Upserted(f) = f
  BY <1>1, <1>5 DEF Upserted, Aggregate
<1> QED
  BY <1>6 DEF f

\* What a successful Save does to the database: its command, atomically.
LEMMA CommitIsOutcome ==
  ASSUME TypeOK, SaveIsOfCurrentRows, ConsumerRunsMessage,
         NEW p \in Process, SaveTransaction(p)
  PROVE  /\ cmd[p] \in Cmd /\ Accepts(db, cmd[p])
         /\ db' = Outcome(db, cmd[p])
         /\ announced' = announced \cup
              {RaisedEvents(db, cmd[p])[i] : i \in DOMAIN RaisedEvents(db, cmd[p])}
<1>1. db \in Aggregate /\ fixture[p] \in Aggregate
  BY DEF TypeOK
<1>2. fixture[p].version = db.version + 1
  BY <1>1 DEF SaveTransaction, Aggregate
<1>3. /\ cmd[p] \in Cmd /\ Accepts(db, cmd[p])
      /\ fixture[p] = Outcome(db, cmd[p])
      /\ evts[p] = RaisedEvents(db, cmd[p])
  BY <1>2 DEF SaveIsOfCurrentRows, SaveTransaction, ConsumerRunsMessage
<1>4. db' = Outcome(db, cmd[p])
  BY <1>1, <1>3, UpsertedOutcome DEF SaveTransaction
<1> QED
  BY <1>3, <1>4 DEF SaveTransaction

\* A committed result completes its match and leaves every other row alone.
LEMMA CommitOfResult ==
  ASSUME TypeOK, RowsConsistent, SaveIsOfCurrentRows, ConsumerRunsMessage,
         NEW p \in Process, SaveTransaction(p), cmd[p].op = "RegisterMatchResult"
  PROVE  /\ cmd[p].match \in Match /\ cmd[p].arg \in Result
         /\ ~ IsCompleted(db.matches[cmd[p].match])
         /\ IsCompleted(db'.matches[cmd[p].match])
         /\ db'.matches[cmd[p].match].result = cmd[p].arg
         /\ db'.matches[cmd[p].match].status = "COMPLETED"
         /\ db'.matches[cmd[p].match].kickoff = db.matches[cmd[p].match].kickoff
         /\ cmd[p].arg # NoResult
         /\ \A m \in Match \ {cmd[p].match} : db'.matches[m] = db.matches[m]
         /\ db'.standings =
              [db.standings EXCEPT ![GroupOf[cmd[p].match]] =
                 CompletedMatchesOf(db'.matches, GroupOf[cmd[p].match])]
         /\ announced' = announced
              \cup {MatchResultRegistered(cmd[p].match, cmd[p].arg)}
              \cup (IF IsComplete(db'.matches, GroupOf[cmd[p].match])
                    THEN {GroupStageCompleted(GroupOf[cmd[p].match])} ELSE {})
<1>1. /\ cmd[p] \in Cmd /\ Accepts(db, cmd[p]) /\ db' = Outcome(db, cmd[p])
      /\ announced' = announced \cup
           {RaisedEvents(db, cmd[p])[i] : i \in DOMAIN RaisedEvents(db, cmd[p])}
  BY CommitIsOutcome
<1>2. db \in Aggregate
  BY DEF TypeOK
<1>3. /\ cmd[p].match \in Match /\ cmd[p].arg \in Result
      /\ cmd[p].arg # NoResult
      /\ ~ IsCompleted(db.matches[cmd[p].match])
      /\ db'.matches = WithResult(db.matches, cmd[p].match, cmd[p].arg)
      /\ db'.matches[cmd[p].match].status = "COMPLETED"
      /\ db'.matches[cmd[p].match].result = cmd[p].arg
      /\ db'.matches[cmd[p].match].kickoff = db.matches[cmd[p].match].kickoff
      /\ \A m \in Match \ {cmd[p].match} : db'.matches[m] = db.matches[m]
      /\ db'.standings =
           [db.standings EXCEPT ![GroupOf[cmd[p].match]] =
              CompletedMatchesOf(db'.matches, GroupOf[cmd[p].match])]
  BY <1>1, <1>2, OutcomeOfResult
<1>4. {RaisedEvents(db, cmd[p])[i] : i \in DOMAIN RaisedEvents(db, cmd[p])}
        = {MatchResultRegistered(cmd[p].match, cmd[p].arg)}
          \cup (IF IsComplete(db'.matches, GroupOf[cmd[p].match])
                THEN {GroupStageCompleted(GroupOf[cmd[p].match])} ELSE {})
  BY <1>1, <1>2, <1>3, RaisedByResult
<1>5. IsCompleted(db'.matches[cmd[p].match])
  BY <1>3 DEF IsCompleted
<1> QED
  BY <1>1, <1>3, <1>4, <1>5

\* A committed change of schedule changes no status, result or standing.
LEMMA CommitOfSchedule ==
  ASSUME TypeOK, RowsConsistent, SaveIsOfCurrentRows, ConsumerRunsMessage,
         NEW p \in Process, SaveTransaction(p), cmd[p].op = "UpdateMatchSchedule"
  PROVE  /\ cmd[p].match \in Match /\ cmd[p].arg \in Kickoff
         /\ ~ IsCompleted(db.matches[cmd[p].match])
         /\ \A m \in Match :
              /\ db'.matches[m].status = db.matches[m].status
              /\ db'.matches[m].result = db.matches[m].result
         /\ db'.matches[cmd[p].match].kickoff = cmd[p].arg
         /\ \A m \in Match \ {cmd[p].match} : db'.matches[m] = db.matches[m]
         /\ db'.standings = db.standings
         /\ announced' = announced
              \cup {MatchScheduleUpdated(cmd[p].match, cmd[p].arg)}
<1>1. /\ cmd[p] \in Cmd /\ Accepts(db, cmd[p]) /\ db' = Outcome(db, cmd[p])
      /\ announced' = announced \cup
           {RaisedEvents(db, cmd[p])[i] : i \in DOMAIN RaisedEvents(db, cmd[p])}
  BY CommitIsOutcome
<1>2. db \in Aggregate
  BY DEF TypeOK
<1>3. /\ cmd[p].match \in Match /\ cmd[p].arg \in Kickoff
      /\ ~ IsCompleted(db.matches[cmd[p].match])
      /\ db'.matches[cmd[p].match].status = db.matches[cmd[p].match].status
      /\ db'.matches[cmd[p].match].result = db.matches[cmd[p].match].result
      /\ db'.matches[cmd[p].match].kickoff = cmd[p].arg
      /\ \A m \in Match \ {cmd[p].match} : db'.matches[m] = db.matches[m]
      /\ db'.standings = db.standings
  BY <1>1, <1>2, OutcomeOfSchedule
<1>4. RaisedEvents(db, cmd[p]) = <<MatchScheduleUpdated(cmd[p].match, cmd[p].arg)>>
  BY DEF RaisedEvents
<1>5. {RaisedEvents(db, cmd[p])[i] : i \in DOMAIN RaisedEvents(db, cmd[p])}
        = {MatchScheduleUpdated(cmd[p].match, cmd[p].arg)}
  BY <1>4
<1>6. \A m \in Match :
        /\ db'.matches[m].status = db.matches[m].status
        /\ db'.matches[m].result = db.matches[m].result
  BY <1>3
<1> QED
  BY <1>1, <1>3, <1>5, <1>6

\* A commit keeps every stored row, and stores the result of its own command.
LEMMA CommitKeepsResults ==
  ASSUME TypeOK, RowsConsistent, SaveIsOfCurrentRows, ConsumerRunsMessage,
         NEW p \in Process, SaveTransaction(p), cmd' = cmd
  PROVE  /\ \A m \in Match :
              IsCompleted(db.matches[m]) => db'.matches[m] = db.matches[m]
         /\ \A c : IsStored(c) => IsStored(c)'
         /\ cmd[p].op = "RegisterMatchResult" => IsStored(cmd[p])'
         /\ RowsConsistent'
         /\ db' \in Aggregate
         /\ db'.version = db.version + 1
         /\ db'.status = db.status
<1>1. /\ cmd[p] \in Cmd /\ Accepts(db, cmd[p]) /\ db' = Outcome(db, cmd[p])
      /\ db \in Aggregate
  BY CommitIsOutcome DEF TypeOK
<1>2. /\ db' \in Aggregate
      /\ db'.version = db.version + 1
      /\ db'.status = db.status
  BY <1>1, OutcomeType
<1>3. cmd[p].op = "RegisterMatchResult" \/ cmd[p].op = "UpdateMatchSchedule"
  BY <1>1 DEF Accepts
<1>4. \A m \in Match :
        IsCompleted(db.matches[m]) => db'.matches[m] = db.matches[m]
  BY <1>3, CommitOfResult, CommitOfSchedule
<1>5. \A c : IsStored(c) => IsStored(c)'
  BY <1>4 DEF IsStored
<1>6. cmd[p].op = "RegisterMatchResult" => IsStored(cmd[p])'
  BY CommitOfResult DEF IsStored
<1>7. RowsConsistent'
  <2>1. CASE cmd[p].op = "RegisterMatchResult"
    <3>1. ASSUME NEW m \in Match
          PROVE  db'.matches[m].status = "COMPLETED"
                   <=> db'.matches[m].result # NoResult
      BY <2>1, CommitOfResult DEF RowsConsistent
    <3> QED
      BY <1>2, <3>1 DEF RowsConsistent
  <2>2. CASE cmd[p].op = "UpdateMatchSchedule"
    BY <1>2, <2>2, CommitOfSchedule DEF RowsConsistent
  <2> QED
    BY <1>3, <2>1, <2>2
<1> QED
  BY <1>2, <1>4, <1>5, <1>6, <1>7

\* A commit brings the standings of its group up to date with its result.
LEMMA CommitKeepsStandings ==
  ASSUME TypeOK, RowsConsistent, SaveIsOfCurrentRows, ConsumerRunsMessage,
         StandingsAgree, NEW p \in Process, SaveTransaction(p)
  PROVE  StandingsAgree'
<1>1. /\ cmd[p] \in Cmd /\ Accepts(db, cmd[p]) /\ db \in Aggregate
  BY CommitIsOutcome DEF TypeOK
<1> SUFFICES ASSUME NEW h \in Group
             PROVE  db'.standings[h] = CompletedMatchesOf(db'.matches, h)
  BY DEF StandingsAgree
<1>2. db.standings[h] = CompletedMatchesOf(db.matches, h)
  BY DEF StandingsAgree
<1>3. CASE cmd[p].op = "RegisterMatchResult"
  <2> DEFINE g == GroupOf[cmd[p].match]
  <2>1. /\ cmd[p].match \in Match
        /\ \A m \in Match \ {cmd[p].match} : db'.matches[m] = db.matches[m]
        /\ db'.standings =
             [db.standings EXCEPT ![g] = CompletedMatchesOf(db'.matches, g)]
    BY <1>3, CommitOfResult
  <2>2. db.standings \in [Group -> SUBSET Match]
    BY <1>1 DEF Aggregate
  <2>3. CASE h = g
    BY <2>1, <2>2, <2>3
  <2>4. CASE h # g
    <3>1. CompletedMatchesOf(db'.matches, h) = CompletedMatchesOf(db.matches, h)
      BY <2>1, <2>4 DEF CompletedMatchesOf
    <3> QED
      BY <1>2, <2>1, <2>2, <2>4, <3>1
  <2> QED
    BY <2>3, <2>4
<1>4. CASE cmd[p].op = "UpdateMatchSchedule"
  BY <1>2, <1>4, CommitOfSchedule DEF CompletedMatchesOf, IsCompleted
<1> QED
  BY <1>1, <1>3, <1>4 DEF Accepts

\* A commit announces its own result, and its group when that was the last one
\* missing: no other result is stored meanwhile.
LEMMA CommitKeepsAnnounced ==
  ASSUME TypeOK, RowsConsistent, SaveIsOfCurrentRows, ConsumerRunsMessage,
         CompletionAnnounced, NEW p \in Process, SaveTransaction(p)
  PROVE  CompletionAnnounced'
<1>1. /\ cmd[p] \in Cmd /\ Accepts(db, cmd[p]) /\ db \in Aggregate
  BY CommitIsOutcome DEF TypeOK
<1>2. CASE cmd[p].op = "RegisterMatchResult"
  <2> DEFINE n == cmd[p].match
             g == GroupOf[n]
  <2>1. /\ n \in Match /\ cmd[p].arg \in Result
        /\ ~ IsCompleted(db.matches[n]) /\ IsCompleted(db'.matches[n])
        /\ db'.matches[n].result = cmd[p].arg
        /\ \A m \in Match \ {n} : db'.matches[m] = db.matches[m]
        /\ announced' = announced
             \cup {MatchResultRegistered(n, cmd[p].arg)}
             \cup (IF IsComplete(db'.matches, g)
                   THEN {GroupStageCompleted(g)} ELSE {})
    BY <1>2, CommitOfResult
  <2>2. g \in Group /\ ~ IsComplete(db.matches, g)
    BY <2>1, GroupsAssumption DEF IsComplete
  <2> HIDE DEF n, g
  <2>3. ASSUME NEW m \in Match, NEW r \in Result
        PROVE  MatchResultRegistered(m, r) \in announced'
                 <=> IsCompleted(db'.matches[m]) /\ db'.matches[m].result = r
    <3>1. MatchResultRegistered(m, r) # GroupStageCompleted(g)
      BY DEF MatchResultRegistered, GroupStageCompleted
    <3>2. MatchResultRegistered(m, r) = MatchResultRegistered(n, cmd[p].arg)
            <=> m = n /\ r = cmd[p].arg
      BY DEF MatchResultRegistered
    <3>3. MatchResultRegistered(m, r) \in announced
            <=> IsCompleted(db.matches[m]) /\ db.matches[m].result = r
      BY DEF CompletionAnnounced
    <3>4. MatchResultRegistered(m, r) \in announced'
            <=> MatchResultRegistered(m, r) \in announced
                \/ (m = n /\ r = cmd[p].arg)
      BY <2>1, <3>1, <3>2
    <3> QED
      BY <2>1, <3>3, <3>4
  <2>4. ASSUME NEW h \in Group
        PROVE  GroupStageCompleted(h) \in announced'
                 <=> IsComplete(db'.matches, h)
    <3>1. GroupStageCompleted(h) # MatchResultRegistered(n, cmd[p].arg)
      BY DEF MatchResultRegistered, GroupStageCompleted
    <3>2. GroupStageCompleted(h) = GroupStageCompleted(g) <=> h = g
      BY DEF GroupStageCompleted
    <3>3. GroupStageCompleted(h) \in announced <=> IsComplete(db.matches, h)
      BY DEF CompletionAnnounced
    <3>4. h # g => (IsComplete(db'.matches, h) <=> IsComplete(db.matches, h))
      BY <2>1 DEF IsComplete, g
    <3> QED
      BY <2>1, <2>2, <3>1, <3>2, <3>3, <3>4
  <2> QED
    BY <2>3, <2>4 DEF CompletionAnnounced
<1>3. CASE cmd[p].op = "UpdateMatchSchedule"
  <2>1. /\ \A m \in Match :
             /\ IsCompleted(db'.matches[m]) <=> IsCompleted(db.matches[m])
             /\ db'.matches[m].result = db.matches[m].result
        /\ announced' = announced
             \cup {MatchScheduleUpdated(cmd[p].match, cmd[p].arg)}
    BY <1>3, CommitOfSchedule DEF IsCompleted
  <2>2. \A m, r : MatchResultRegistered(m, r)
                    # MatchScheduleUpdated(cmd[p].match, cmd[p].arg)
    BY DEF MatchResultRegistered, MatchScheduleUpdated
  <2>3. \A h : GroupStageCompleted(h)
                 # MatchScheduleUpdated(cmd[p].match, cmd[p].arg)
    BY DEF GroupStageCompleted, MatchScheduleUpdated
  <2>4. \A h \in Group : IsComplete(db'.matches, h) <=> IsComplete(db.matches, h)
    BY <2>1 DEF IsComplete
  <2> QED
    BY <2>1, <2>2, <2>3, <2>4 DEF CompletionAnnounced
<1> QED
  BY <1>1, <1>2, <1>3 DEF Accepts

-----------------------------------------------------------------------------
(* What a step does to fixture_db.                                         *)

\* Only the transaction of Save writes to the database.
LEMMA OnlySaveWrites ==
  ASSUME [Next]_vars
  PROVE  \/ UNCHANGED <<db, announced, eventStore>>
         \/ \E p \in Process : SaveTransaction(p) /\ cmd' = cmd
<1>1. CASE UNCHANGED vars
  BY <1>1 DEF vars
<1>2. ASSUME NEW p \in Process, HandlerStep(p) \/ HandlerFault(p)
      PROVE  \/ UNCHANGED <<db, announced, eventStore>>
             \/ SaveTransaction(p) /\ cmd' = cmd
  BY <1>2 DEF HandlerStep, HandlerFault, LoadGroupMatches, Apply, Reject, Save,
              SaveConflict, StoreRefuses, PublishNext, SaveUnconfirmed,
              StoreFails, PublishFails, Fail
<1>3. ASSUME NEW p \in Request, RegisterResult(p) \/ UpdateSchedule(p) \/ Reply(p)
      PROVE  UNCHANGED <<db, announced, eventStore>>
  BY <1>3 DEF RegisterResult, UpdateSchedule, Reply, Begin
<1>4. ASSUME NEW k \in Msg, Ingest(k) \/ Deliver(k) \/ AckWaitExpires(k)
      PROVE  UNCHANGED <<db, announced, eventStore>>
  BY <1>4 DEF Ingest, Deliver, AckWaitExpires, DeliverCopy
<1>5. CASE ConsumerStep
  BY <1>5 DEF ConsumerStep, DiscardMessage, RefuseMessage, ProcessMessage,
              Settle, Begin
<1>6. CASE Crash
  BY <1>6 DEF Crash
<1> QED
  BY <1>1, <1>2, <1>3, <1>4, <1>5, <1>6 DEF Next

\* Only Reply answers a client.
LEMMA OnlyReplyConfirms ==
  ASSUME [Next]_vars
  PROVE  UNCHANGED confirmed \/ \E p \in Request : Reply(p)
BY DEF Next, vars, HandlerStep, HandlerFault, LoadGroupMatches, Apply, Reject,
       Save, SaveConflict, StoreRefuses, PublishNext, SaveUnconfirmed,
       StoreFails, PublishFails, Fail, RegisterResult, UpdateSchedule, Begin,
       Ingest, Deliver, AckWaitExpires, DeliverCopy, ConsumerStep,
       DiscardMessage, RefuseMessage, ProcessMessage, Settle, Crash

\* Only PublishAll appends to the stream, one event of the command committed.
LEMMA OnlyPublishAppends ==
  ASSUME [Next]_vars
  PROVE  \/ UNCHANGED published
         \/ \E p \in Process :
              /\ pc[p] = "publish" /\ evts[p] # <<>>
              /\ published' = Append(published, Head(evts[p]))
BY DEF Next, vars, HandlerStep, HandlerFault, LoadGroupMatches, Apply, Reject,
       Save, SaveConflict, StoreRefuses, PublishNext, SaveUnconfirmed,
       StoreFails, PublishFails, Fail, RegisterResult, UpdateSchedule, Reply,
       Begin, Ingest, Deliver, AckWaitExpires, DeliverCopy, ConsumerStep,
       DiscardMessage, RefuseMessage, ProcessMessage, Settle, Crash

\* Every step keeps the rows consistent, the standings and the announcements
\* up to date, and every stored result stored.
LEMMA DatabaseStep ==
  ASSUME IInv, [Next]_vars
  PROVE  /\ RowsConsistent' /\ StandingsAgree' /\ CompletionAnnounced'
         /\ \A m \in Match :
              IsCompleted(db.matches[m]) => db'.matches[m] = db.matches[m]
         /\ \A c : IsStored(c) => IsStored(c)'
         /\ announced \subseteq announced'
         /\ db' \in Aggregate
<1>1. CASE UNCHANGED <<db, announced, eventStore>>
  BY <1>1 DEF IInv, TypeOK, RowsConsistent, StandingsAgree,
              CompletionAnnounced, IsStored
<1>2. ASSUME NEW p \in Process, SaveTransaction(p), cmd' = cmd
      PROVE  /\ RowsConsistent' /\ StandingsAgree' /\ CompletionAnnounced'
             /\ \A m \in Match :
                  IsCompleted(db.matches[m]) => db'.matches[m] = db.matches[m]
             /\ \A c : IsStored(c) => IsStored(c)'
             /\ announced \subseteq announced'
             /\ db' \in Aggregate
  <2>1. announced \subseteq announced'
    BY <1>2 DEF SaveTransaction
  <2> QED
    BY <1>2, <2>1, CommitKeepsResults, CommitKeepsStandings,
       CommitKeepsAnnounced DEF IInv
<1> QED
  BY <1>1, <1>2, OnlySaveWrites

-----------------------------------------------------------------------------
(* What each goroutine knows.                                              *)

\* The conjuncts of the invariant about one goroutine.
Knows(q) ==
  /\ pc[q] # "idle" => cmd[q] \in Cmd
  /\ pc[q] \in {"loadMatches", "loadStandings"} =>
       /\ fixture[q].version <= db.version
       /\ fixture[q].status = db.status
  /\ pc[q] = "loadStandings" /\ fixture[q].version = db.version =>
       fixture[q].matches = db.matches
  /\ pc[q] = "save" => fixture[q].version <= db.version + 1
  /\ pc[q] = "save" /\ fixture[q].version = db.version + 1 =>
       /\ Accepts(db, cmd[q])
       /\ fixture[q] = Outcome(db, cmd[q])
       /\ evts[q] = RaisedEvents(db, cmd[q])
  /\ pc[q] = "publish" => \A i \in DOMAIN evts[q] : evts[q][i] \in announced
  /\ pc[q] \in {"publish", "done"} /\ cmd[q].op = "RegisterMatchResult" =>
       IsStored(cmd[q])

\* The invariant, read as what one goroutine knows.
LEMMA KnowsOfIInv ==
  ASSUME IInv, NEW q \in Process
  PROVE  Knows(q)
BY DEF IInv, Knows, LoadIsCurrent, SaveIsOfCurrentRows, PastCommit,
       ConsumerRunsMessage

\* A goroutine that a step of another one leaves alone keeps what it knows: a
\* commit only makes the version it read an old one.
LEMMA OthersKnow ==
  ASSUME IInv, [Next]_vars, NEW q \in Process,
         pc'[q] = pc[q], cmd'[q] = cmd[q], fixture'[q] = fixture[q],
         evts'[q] = evts[q]
  PROVE  Knows(q)'
<1>1. Knows(q)
  BY KnowsOfIInv
<1>2. CASE UNCHANGED <<db, announced, eventStore>>
  BY <1>1, <1>2 DEF Knows, IsStored
<1>3. ASSUME NEW p \in Process, SaveTransaction(p), cmd' = cmd
      PROVE  Knows(q)'
  <2>1. /\ db'.version = db.version + 1 /\ db'.status = db.status
        /\ \A c : IsStored(c) => IsStored(c)'
    BY <1>3, CommitKeepsResults DEF IInv
  <2>2. db.version \in Nat /\ fixture[q].version \in Nat
    BY DEF IInv, TypeOK, Aggregate
  <2>3. announced \subseteq announced'
    BY <1>3 DEF SaveTransaction
  <2> QED
    BY <1>1, <2>1, <2>2, <2>3 DEF Knows, IsStored
<1> QED
  BY <1>2, <1>3, OnlySaveWrites

\* What Apply works on is the database itself, unless it changed meanwhile.
LEMMA LoadedIsCurrent ==
  ASSUME IInv, NEW p \in Process, pc[p] = "loadStandings"
  PROVE  /\ GetByTournamentID(p) \in Aggregate
         /\ GetByTournamentID(p).version = fixture[p].version
         /\ fixture[p].version <= db.version
         /\ fixture[p].version = db.version => GetByTournamentID(p) = db
<1>1. fixture[p] \in Aggregate /\ db \in Aggregate
  BY DEF IInv, TypeOK
<1>2. /\ fixture[p].version <= db.version
      /\ fixture[p].status = db.status
      /\ fixture[p].version = db.version => fixture[p].matches = db.matches
  BY KnowsOfIInv DEF Knows
<1>3. GetByTournamentID(p) \in Aggregate
      /\ GetByTournamentID(p).version = fixture[p].version
  BY <1>1 DEF GetByTournamentID, Aggregate
<1>4. ASSUME fixture[p].version = db.version
      PROVE  GetByTournamentID(p) = db
  <2> DEFINE f == GetByTournamentID(p)
  <2>1. /\ f.version = db.version /\ f.status = db.status
        /\ f.matches = db.matches /\ f.standings = db.standings
    BY <1>1, <1>2, <1>4 DEF GetByTournamentID, Aggregate
  <2>2. f \in Aggregate
    BY <1>3
  <2> HIDE DEF f
  <2> QED
    BY <1>1, <2>1, <2>2 DEF Aggregate, f
<1> QED
  BY <1>2, <1>3, <1>4

\* The step by which a goroutine takes up a command.
LEMMA BeginKnows ==
  ASSUME IInv, NEW p \in Process, NEW c \in Cmd, Begin(p, c)
  PROVE  Knows(p)'
<1>1. /\ fixture \in [Process -> Aggregate] /\ db \in Aggregate
      /\ pc \in [Process -> PC] /\ cmd \in [Process -> Cmd \cup {NoCmd}]
  BY DEF IInv, TypeOK
<1>2. /\ fixture'[p].version = db.version /\ fixture'[p].status = db.status
      /\ pc'[p] = "loadMatches" /\ cmd'[p] = c /\ db' = db
  BY <1>1 DEF Begin, Aggregate
<1> QED
  BY <1>1, <1>2 DEF Knows, Aggregate

\* The steps of a command under way.
LEMMA HandlerKnows ==
  ASSUME IInv, [Next]_vars, NEW p \in Process, HandlerStep(p) \/ HandlerFault(p)
  PROVE  Knows(p)'
<1>1. /\ fixture \in [Process -> Aggregate] /\ db \in Aggregate
      /\ pc \in [Process -> PC] /\ evts \in [Process -> Seq(Event)]
      /\ Knows(p)
  BY KnowsOfIInv DEF IInv, TypeOK
<1>2. CASE LoadGroupMatches(p)
  <2>1. /\ fixture'[p].version = fixture[p].version
        /\ fixture'[p].status = fixture[p].status
        /\ fixture'[p].matches = db.matches
        /\ pc[p] = "loadMatches" /\ pc'[p] = "loadStandings"
        /\ cmd'[p] = cmd[p] /\ db' = db
    BY <1>1, <1>2 DEF LoadGroupMatches, Aggregate
  <2> QED
    BY <1>1, <2>1 DEF Knows
<1>3. CASE Apply(p)
  <2>1. /\ fixture'[p] = Outcome(GetByTournamentID(p), cmd[p])
        /\ evts'[p] = RaisedEvents(GetByTournamentID(p), cmd[p])
        /\ Accepts(GetByTournamentID(p), cmd[p])
        /\ pc[p] = "loadStandings" /\ pc'[p] = "save"
        /\ cmd'[p] = cmd[p] /\ db' = db
    BY <1>1, <1>3 DEF Apply
  <2>2. cmd[p] \in Cmd
    BY <1>1, <2>1 DEF Knows
  <2>3. /\ GetByTournamentID(p) \in Aggregate
        /\ GetByTournamentID(p).version = fixture[p].version
        /\ fixture[p].version <= db.version
        /\ fixture[p].version = db.version => GetByTournamentID(p) = db
    BY <2>1, LoadedIsCurrent
  <2>4. fixture'[p].version = fixture[p].version + 1
    BY <2>1, <2>2, <2>3, OutcomeType
  <2>5. fixture[p].version \in Nat /\ db.version \in Nat
    BY <1>1 DEF Aggregate
  <2>6. fixture'[p].version <= db.version + 1
    BY <2>3, <2>4, <2>5
  <2>7. fixture'[p].version = db.version + 1 => GetByTournamentID(p) = db
    BY <2>3, <2>4, <2>5
  <2> QED
    BY <2>1, <2>2, <2>6, <2>7 DEF Knows
<1>4. CASE Save(p)
  <2>1. /\ pc'[p] = "publish" /\ cmd' = cmd /\ evts' = evts
        /\ SaveTransaction(p) /\ pc[p] = "save"
    BY <1>1, <1>4 DEF Save, SaveTransaction
  <2>2. /\ cmd[p].op = "RegisterMatchResult" => IsStored(cmd[p])'
        /\ \A i \in DOMAIN evts[p] : evts[p][i] \in announced'
    BY <2>1, CommitKeepsResults DEF IInv, SaveTransaction
  <2> QED
    BY <1>1, <2>1, <2>2 DEF Knows
<1>5. CASE Reject(p) \/ SaveConflict(p) \/ StoreRefuses(p) \/ SaveUnconfirmed(p)
           \/ StoreFails(p)
  <2>1. /\ pc'[p] = "failed" /\ cmd' = cmd /\ pc[p] # "idle"
    BY <1>1, <1>5 DEF Reject, SaveConflict, StoreRefuses, SaveUnconfirmed,
                      StoreFails, Fail, SaveTransaction
  <2> QED
    BY <1>1, <2>1 DEF Knows
<1>6. CASE PublishNext(p) \/ PublishFails(p)
  <2>1. /\ pc[p] = "publish" /\ pc'[p] \in {"publish", "done"}
        /\ cmd' = cmd /\ db' = db /\ announced' = announced
    BY <1>1, <1>6 DEF PublishNext, PublishFails
  <2>2. pc'[p] = "publish" => \A i \in DOMAIN evts'[p] : evts'[p][i] \in announced
    <3>1. CASE PublishNext(p)
      <4>1. CASE evts[p] = <<>>
        BY <1>1, <2>1, <3>1, <4>1 DEF PublishNext
      <4>2. CASE evts[p] # <<>>
        <5>1. evts'[p] = Tail(evts[p]) /\ evts[p] \in Seq(Event)
          BY <1>1, <3>1, <4>2 DEF PublishNext
        <5>2. \A i \in DOMAIN Tail(evts[p]) :
                i + 1 \in DOMAIN evts[p] /\ Tail(evts[p])[i] = evts[p][i + 1]
          BY <4>2, <5>1
        <5> QED
          BY <1>1, <2>1, <5>1, <5>2 DEF Knows
      <4> QED
        BY <4>1, <4>2
    <3>2. CASE PublishFails(p)
      BY <1>1, <3>2 DEF PublishFails
    <3> QED
      BY <1>6, <3>1, <3>2
  <2> QED
    BY <1>1, <2>1, <2>2 DEF Knows, IsStored
<1> QED
  BY <1>2, <1>3, <1>4, <1>5, <1>6 DEF HandlerStep, HandlerFault

\* A message that is neither absent nor garbage is a command.
LEMMA CommandTypes ==
  /\ RegisterMatchResultCmd \subseteq Cmd /\ UpdateMatchScheduleCmd \subseteq Cmd
  /\ NoMsg \notin RegisterMatchResultCmd /\ Garbage \notin RegisterMatchResultCmd
BY ProcessAssumption DEF Cmd, RegisterMatchResultCmd, Result

\* Every goroutine knows after a step what the invariant asks of it: the one
\* that moved by HandlerKnows and its like, the others by OthersKnow.
LEMMA EveryoneKnows ==
  ASSUME IInv, [Next]_vars, NEW q \in Process
  PROVE  Knows(q)'
<1> USE DEF Process
<1>1. /\ pc \in [Process -> PC] /\ cmd \in [Process -> Cmd \cup {NoCmd}]
      /\ fixture \in [Process -> Aggregate] /\ evts \in [Process -> Seq(Event)]
  BY DEF IInv, TypeOK
<1>2. CASE UNCHANGED handlers
  BY <1>2, OthersKnow DEF handlers
<1>3. ASSUME NEW p \in Process, HandlerStep(p) \/ HandlerFault(p)
      PROVE  Knows(q)'
  <2>1. CASE p = q
    BY <1>3, <2>1, HandlerKnows
  <2>2. CASE p # q
    <3>1. /\ pc'[q] = pc[q] /\ cmd'[q] = cmd[q]
          /\ fixture'[q] = fixture[q] /\ evts'[q] = evts[q]
      BY <1>1, <1>3, <2>2
      DEF HandlerStep, HandlerFault, LoadGroupMatches, Apply, Reject, Save,
          SaveConflict, StoreRefuses, PublishNext, SaveUnconfirmed,
          StoreFails, PublishFails, Fail, Forget
    <3> QED
      BY <3>1, OthersKnow
  <2> QED
    BY <2>1, <2>2
<1>4. ASSUME NEW p \in Process, NEW c \in Cmd, Begin(p, c)
      PROVE  Knows(q)'
  <2>1. CASE p = q
    BY <1>4, <2>1, BeginKnows
  <2>2. CASE p # q
    <3>1. /\ pc'[q] = pc[q] /\ cmd'[q] = cmd[q]
          /\ fixture'[q] = fixture[q] /\ evts'[q] = evts[q]
      BY <1>1, <1>4, <2>2 DEF Begin
    <3> QED
      BY <3>1, OthersKnow
  <2> QED
    BY <2>1, <2>2
<1>5. ASSUME NEW p \in Process, Release(p)
      PROVE  Knows(q)'
  <2>1. CASE p = q
    <3>1. pc'[q] = "idle"
      BY <1>1, <1>5, <2>1 DEF Release
    <3> QED
      BY <3>1 DEF Knows
  <2>2. CASE p # q
    <3>1. /\ pc'[q] = pc[q] /\ cmd'[q] = cmd[q]
          /\ fixture'[q] = fixture[q] /\ evts'[q] = evts[q]
      BY <1>1, <1>5, <2>2 DEF Release
    <3> QED
      BY <3>1, OthersKnow
  <2> QED
    BY <2>1, <2>2
<1>6. ASSUME NEW p \in Request, RegisterResult(p) \/ UpdateSchedule(p) \/ Reply(p)
      PROVE  Knows(q)'
  BY <1>4, <1>5, <1>6, CommandTypes DEF RegisterResult, UpdateSchedule, Reply
<1>7. ASSUME NEW k \in Msg, Ingest(k) \/ Deliver(k) \/ AckWaitExpires(k)
      PROVE  Knows(q)'
  BY <1>2, <1>7 DEF Ingest, Deliver, AckWaitExpires, DeliverCopy
<1>8. CASE ConsumerStep
  BY <1>2, <1>4, <1>5, <1>8, CommandTypes
  DEF ConsumerStep, DiscardMessage, RefuseMessage, ProcessMessage, Settle
<1>9. CASE Crash
  BY <1>9 DEF Crash, Knows
<1>10. CASE UNCHANGED vars
  BY <1>2, <1>10 DEF vars, handlers
<1> QED
  BY <1>3, <1>6, <1>7, <1>8, <1>9, <1>10 DEF Next

-----------------------------------------------------------------------------
(* Type correctness.                                                       *)

\* The conjuncts of TypeOK about the goroutines and what they read and write.
HandlersType ==
  /\ pc \in [Process -> PC]
  /\ cmd \in [Process -> Cmd \cup {NoCmd}]
  /\ fixture \in [Process -> Aggregate]
  /\ evts \in [Process -> Seq(Event)]
  /\ published \in Seq(Event)

StreamType ==
  /\ body \in [Msg -> MessageBody \cup {NoMsg}]
  /\ deliveries \in [Msg -> 0..MaxDeliver]
  /\ inbox \in Seq(Msg)
  /\ current \in Msg \cup {NoMsg}
  /\ acked \in SUBSET Msg

\* Begin keeps the types of the goroutines' state.
LEMMA BeginType ==
  ASSUME TypeOK, NEW p \in Process, NEW c \in Cmd, Begin(p, c)
  PROVE  HandlersType'
<1>1. /\ fixture \in [Process -> Aggregate] /\ db \in Aggregate
  BY DEF TypeOK
<1>2. [fixture[p] EXCEPT !.version = db.version, !.status = db.status] \in Aggregate
  BY <1>1 DEF Aggregate
<1>3. fixture' \in [Process -> Aggregate]
  BY <1>1, <1>2 DEF Begin
<1> QED
  BY <1>3 DEF Begin, TypeOK, HandlersType, PC

\* So does every step of a handler.
LEMMA HandlerType ==
  ASSUME IInv, NEW p \in Process, HandlerStep(p) \/ HandlerFault(p)
  PROVE  HandlersType'
<1> USE DEF HandlersType, PC
<1>1. /\ HandlersType /\ db \in Aggregate
  BY DEF IInv, TypeOK
<1>2. CASE LoadGroupMatches(p)
  <2>1. [fixture[p] EXCEPT !.matches = db.matches] \in Aggregate
    BY <1>1 DEF Aggregate
  <2> QED
    BY <1>1, <1>2, <2>1 DEF LoadGroupMatches
<1>3. CASE Apply(p)
  <2>1. GetByTournamentID(p) \in Aggregate /\ cmd[p] \in Cmd
    BY <1>3, LoadedIsCurrent, KnowsOfIInv DEF Apply, Knows
  <2>2. /\ Outcome(GetByTournamentID(p), cmd[p]) \in Aggregate
        /\ RaisedEvents(GetByTournamentID(p), cmd[p]) \in Seq(Event)
    BY <1>3, <2>1, OutcomeType, EventsType DEF Apply
  <2> QED
    BY <1>1, <1>3, <2>2 DEF Apply
<1>4. CASE Save(p)
  BY <1>1, <1>4, SeededFixtureType DEF Save
<1>5. CASE Reject(p) \/ SaveConflict(p) \/ StoreRefuses(p) \/ SaveUnconfirmed(p)
           \/ StoreFails(p)
  <2>1. Fail(p)
    BY <1>5 DEF Reject, SaveConflict, StoreRefuses, SaveUnconfirmed, StoreFails
  <2> QED
    BY <1>1, <2>1, SeededFixtureType DEF Fail, Forget
<1>6. CASE PublishNext(p) \/ PublishFails(p)
  <2>1. evts[p] \in Seq(Event)
    BY <1>1
  <2>2. evts[p] # <<>> =>
          /\ Tail(evts[p]) \in Seq(Event)
          /\ Append(published, Head(evts[p])) \in Seq(Event)
    BY <1>1, <2>1
  <2>3. CASE PublishNext(p)
    BY <1>1, <2>2, <2>3 DEF PublishNext
  <2>4. CASE PublishFails(p)
    <3>1. published' \in Seq(Event)
      BY <1>1, <2>2, <2>4 DEF PublishFails
    <3> QED
      BY <1>1, <2>4, <3>1, SeededFixtureType DEF PublishFails, Forget
  <2> QED
    BY <1>6, <2>3, <2>4
<1> QED
  BY <1>2, <1>3, <1>4, <1>5, <1>6 DEF HandlerStep, HandlerFault

\* So does every step of the service.
LEMMA HandlersTypeStep ==
  ASSUME IInv, [Next]_vars
  PROVE  HandlersType'
<1> USE DEF Process
<1>1. TypeOK
  BY DEF IInv
<1>2. CASE UNCHANGED <<handlers, published>>
  BY <1>1, <1>2 DEF TypeOK, HandlersType, handlers
<1>3. ASSUME NEW p \in Process, NEW c \in Cmd, Begin(p, c)
      PROVE  HandlersType'
  BY <1>1, <1>3, BeginType
<1>4. ASSUME NEW p \in Process, Release(p), published' = published
      PROVE  HandlersType'
  BY <1>1, <1>4 DEF TypeOK, HandlersType, Release, PC
<1>5. ASSUME NEW p \in Process, HandlerStep(p) \/ HandlerFault(p)
      PROVE  HandlersType'
  BY <1>5, HandlerType
<1>6. ASSUME NEW p \in Request, RegisterResult(p) \/ UpdateSchedule(p) \/ Reply(p)
      PROVE  HandlersType'
  BY <1>3, <1>4, <1>6, CommandTypes DEF RegisterResult, UpdateSchedule, Reply
<1>7. ASSUME NEW k \in Msg, Ingest(k) \/ Deliver(k) \/ AckWaitExpires(k)
      PROVE  HandlersType'
  BY <1>2, <1>7 DEF Ingest, Deliver, AckWaitExpires, DeliverCopy
<1>8. CASE ConsumerStep
  BY <1>2, <1>3, <1>4, <1>8, CommandTypes
  DEF ConsumerStep, DiscardMessage, RefuseMessage, ProcessMessage, Settle
<1>9. CASE Crash
  BY <1>1, <1>9, SeededFixtureType DEF Crash, TypeOK, HandlersType, PC
<1>10. CASE UNCHANGED vars
  BY <1>2, <1>10 DEF vars, handlers
<1> QED
  BY <1>5, <1>6, <1>7, <1>8, <1>9, <1>10 DEF Next

\* Every step keeps the types of the JetStream state and of the histories.
LEMMA StreamTypeStep ==
  ASSUME IInv, [Next]_vars
  PROVE  StreamType'
<1>1. StreamType
  BY DEF IInv, TypeOK, StreamType
<1>2. CASE UNCHANGED <<jetstream, inbox, current>>
  BY <1>1, <1>2 DEF StreamType, jetstream
<1>3. ASSUME NEW p \in Process, HandlerStep(p) \/ HandlerFault(p)
      PROVE  StreamType'
  BY <1>2, <1>3
  DEF HandlerStep, HandlerFault, LoadGroupMatches, Apply, Reject, Save,
      SaveConflict, StoreRefuses, PublishNext, SaveUnconfirmed, StoreFails,
      PublishFails, Fail
<1>4. ASSUME NEW p \in Request, RegisterResult(p) \/ UpdateSchedule(p) \/ Reply(p)
      PROVE  StreamType'
  BY <1>2, <1>4 DEF RegisterResult, UpdateSchedule, Reply, Begin
<1>5. ASSUME NEW k \in Msg, Ingest(k)
      PROVE  StreamType'
  BY <1>1, <1>5 DEF StreamType, Ingest
<1>6. ASSUME NEW k \in Msg, DeliverCopy(k)
      PROVE  StreamType'
  <2>1. deliveries[k] + 1 \in 0..MaxDeliver
    BY <1>1, <1>6, ProcessAssumption DEF StreamType, DeliverCopy
  <2> QED
    BY <1>1, <1>6, <2>1 DEF StreamType, DeliverCopy
<1>7. CASE ConsumerStep
  <2>1. inbox # <<>> => Head(inbox) \in Msg /\ Tail(inbox) \in Seq(Msg)
    BY <1>1 DEF StreamType
  <2>2. CASE DiscardMessage
    BY <1>1, <2>1, <2>2 DEF StreamType, DiscardMessage
  <2>3. CASE RefuseMessage
    BY <1>1, <2>1, <2>3 DEF StreamType, RefuseMessage, jetstream
  <2>4. CASE ProcessMessage
    BY <1>1, <2>1, <2>4 DEF StreamType, ProcessMessage, Begin, jetstream
  <2>5. CASE Settle
    <3>1. pc[Consumer] # "idle"
      BY <2>5 DEF Settle
    <3>2. current \in Msg
      BY <3>1 DEF IInv, ConsumerRunsMessage
    <3> QED
      BY <1>1, <2>5, <3>2 DEF StreamType, Settle
  <2> QED
    BY <1>7, <2>2, <2>3, <2>4, <2>5 DEF ConsumerStep
<1>8. CASE Crash
  BY <1>1, <1>8 DEF StreamType, Crash, jetstream
<1>9. CASE UNCHANGED vars
  BY <1>2, <1>9 DEF vars, jetstream
<1> QED
  BY <1>3, <1>4, <1>5, <1>6, <1>7, <1>8, <1>9 DEF Next, Deliver, AckWaitExpires

\* Every step keeps the type invariant.
LEMMA TypeStep ==
  ASSUME IInv, [Next]_vars
  PROVE  TypeOK'
<1>1. db' \in Aggregate
  BY DatabaseStep
<1>2. HandlersType' /\ StreamType'
  BY HandlersTypeStep, StreamTypeStep
<1>3. eventStore' \in SUBSET Event /\ announced' \in SUBSET Event
  <2>1. CASE UNCHANGED <<db, announced, eventStore>>
    BY <2>1 DEF IInv, TypeOK
  <2>2. ASSUME NEW p \in Process, SaveTransaction(p)
        PROVE  eventStore' \in SUBSET Event /\ announced' \in SUBSET Event
    <3>1. evts[p] \in Seq(Event)
      BY DEF IInv, TypeOK
    <3>2. \A i \in DOMAIN evts[p] : evts[p][i] \in Event
      BY <3>1
    <3> QED
      BY <2>2, <3>2 DEF SaveTransaction, PendingEvents, IInv, TypeOK
  <2> QED
    BY <2>1, <2>2, OnlySaveWrites
<1>4. confirmed' \in SUBSET RegisterMatchResultCmd
  <2> USE DEF IInv, TypeOK
  <2>1. CASE UNCHANGED confirmed
    BY <2>1
  <2>2. ASSUME NEW p \in Request, Reply(p)
        PROVE  confirmed' \in SUBSET RegisterMatchResultCmd
    <3>1. pc[p] # "idle"
      BY <2>2 DEF Reply
    <3>2. cmd[p] \in Cmd
      BY <3>1, KnowsOfIInv DEF Knows, Process
    <3>3. cmd[p].op = "RegisterMatchResult" => cmd[p] \in RegisterMatchResultCmd
      BY <3>2 DEF Cmd, RegisterMatchResultCmd, UpdateMatchScheduleCmd
    <3> QED
      BY <2>2, <3>3 DEF Reply
  <2> QED
    BY <2>1, <2>2, OnlyReplyConfirms
<1> QED
  BY <1>1, <1>2, <1>3, <1>4 DEF TypeOK, HandlersType, StreamType

-----------------------------------------------------------------------------
(* What the callers are told.                                              *)

\* A client answered with a success has its result stored, for good.
LEMMA ConfirmedStep ==
  ASSUME IInv, [Next]_vars
  PROVE  ConfirmedMeansStored'
<1>1. \A c : IsStored(c) => IsStored(c)'
  BY DatabaseStep
<1>2. CASE UNCHANGED confirmed
  BY <1>1, <1>2 DEF IInv, ConfirmedMeansStored
<1>3. ASSUME NEW p \in Request, Reply(p)
      PROVE  ConfirmedMeansStored'
  <2>1. pc[p] = "done" /\ cmd[p].op = "RegisterMatchResult" => IsStored(cmd[p])
    BY KnowsOfIInv DEF Knows, Process
  <2>2. \A c \in confirmed' : IsStored(c)
    BY <1>3, <2>1 DEF Reply, IInv, ConfirmedMeansStored
  <2> QED
    BY <1>1, <2>2 DEF ConfirmedMeansStored
<1> QED
  BY <1>2, <1>3, OnlyReplyConfirms

\* What is published is an event of the command just committed.
LEMMA PublishedStep ==
  ASSUME IInv, [Next]_vars
  PROVE  PublishedWasCommitted'
<1>1. announced \subseteq announced'
  BY DatabaseStep
<1>2. published \in Seq(Event)
      /\ \A i \in DOMAIN published : published[i] \in announced
  BY DEF IInv, TypeOK, PublishedWasCommitted
<1>3. CASE UNCHANGED published
  BY <1>1, <1>2, <1>3 DEF PublishedWasCommitted
<1>4. ASSUME NEW p \in Process, pc[p] = "publish", evts[p] # <<>>,
             published' = Append(published, Head(evts[p]))
      PROVE  PublishedWasCommitted'
  <2>1. evts[p] \in Seq(Event)
    BY DEF IInv, TypeOK
  <2>2. Head(evts[p]) \in announced
    <3>1. 1 \in DOMAIN evts[p] /\ Head(evts[p]) = evts[p][1]
      BY <1>4, <2>1
    <3> QED
      BY <1>4, <3>1, KnowsOfIInv DEF Knows
  <2>3. Head(evts[p]) \in Event
    BY <1>4, <2>1
  <2>4. \A i \in DOMAIN published' :
          \/ i \in DOMAIN published /\ published'[i] = published[i]
          \/ published'[i] = Head(evts[p])
    BY <1>2, <1>4, <2>3
  <2> QED
    BY <1>1, <1>2, <2>2, <2>4 DEF PublishedWasCommitted
<1> QED
  BY <1>3, <1>4, OnlyPublishAppends

\* The conjuncts of the invariant about the consumer and its messages.
ConsumerKnows ==
  /\ pc[Consumer] # "idle" =>
       /\ current \in Msg
       /\ cmd[Consumer] = body[current]
       /\ cmd[Consumer] \in RegisterMatchResultCmd
  /\ \A k \in acked : body[k] # NoMsg
  /\ \A k \in acked : body[k] # Garbage => IsStored(body[k])

\* A message is acked only when it cannot be decoded, or when its result has
\* been stored by the command the consumer ran for it.
LEMMA ConsumerStepKnows ==
  ASSUME IInv, [Next]_vars
  PROVE  ConsumerKnows'
<1> USE DEF ConsumerKnows
<1>1. /\ ConsumerKnows
      /\ pc \in [Process -> PC] /\ cmd \in [Process -> Cmd \cup {NoCmd}]
      /\ body \in [Msg -> MessageBody \cup {NoMsg}]
      /\ inbox \in Seq(Msg) /\ acked \in SUBSET Msg
      /\ Consumer \in Process
  BY DEF IInv, TypeOK, ConsumerRunsMessage, AckedMeansStored, Process
<1>2. \A c : IsStored(c) => IsStored(c)'
  BY DatabaseStep
<1>3. ASSUME UNCHANGED <<body, acked>>,
             pc'[Consumer] # "idle" =>
               /\ pc[Consumer] # "idle" /\ current' = current
               /\ cmd'[Consumer] = cmd[Consumer]
      PROVE  ConsumerKnows'
  BY <1>1, <1>2, <1>3
<1>4. CASE UNCHANGED vars
  BY <1>3, <1>4 DEF vars
<1>5. ASSUME NEW p \in Process, HandlerStep(p) \/ HandlerFault(p)
      PROVE  ConsumerKnows'
  <2>1. /\ UNCHANGED <<body, acked, current, cmd>>
        /\ pc[p] # "idle" /\ \E v : pc' = [pc EXCEPT ![p] = v] \/ pc' = pc
    BY <1>5
    DEF HandlerStep, HandlerFault, LoadGroupMatches, Apply, Reject, Save,
        SaveConflict, StoreRefuses, PublishNext, SaveUnconfirmed, StoreFails,
        PublishFails, Fail, SaveTransaction, jetstream
  <2>2. pc'[Consumer] # "idle" => pc[Consumer] # "idle"
    BY <1>1, <2>1
  <2> QED
    BY <1>3, <2>1, <2>2
<1>6. ASSUME NEW p \in Request, RegisterResult(p) \/ UpdateSchedule(p) \/ Reply(p)
      PROVE  ConsumerKnows'
  <2>1. p # Consumer
    BY ProcessAssumption
  <2>2. /\ pc'[Consumer] = pc[Consumer] /\ cmd'[Consumer] = cmd[Consumer]
        /\ UNCHANGED <<body, acked, current>>
    BY <1>1, <1>6, <2>1
    DEF RegisterResult, UpdateSchedule, Reply, Begin, Release, jetstream
  <2> QED
    BY <1>3, <2>2
<1>7. ASSUME NEW k \in Msg, Ingest(k)
      PROVE  ConsumerKnows'
  <2>1. /\ body[k] = NoMsg /\ \A j \in Msg \ {k} : body'[j] = body[j]
        /\ UNCHANGED <<pc, cmd, current, acked>>
    BY <1>1, <1>7 DEF Ingest, handlers
  <2>2. k \notin acked
    BY <1>1, <2>1
  <2>3. pc[Consumer] # "idle" => k # current
    BY <1>1, <2>1, CommandTypes
  <2> QED
    BY <1>1, <1>2, <2>1, <2>2, <2>3
<1>8. ASSUME NEW k \in Msg, DeliverCopy(k)
      PROVE  ConsumerKnows'
  BY <1>3, <1>8 DEF DeliverCopy, handlers
<1>9. CASE DiscardMessage
  <2>1. /\ pc'[Consumer] = "idle" /\ body' = body
        /\ acked' = acked \cup {Head(inbox)} /\ body[Head(inbox)] = Garbage
    BY <1>9 DEF DiscardMessage, handlers
  <2> QED
    BY <1>1, <1>2, <2>1, ProcessAssumption
<1>10. CASE RefuseMessage
  BY <1>3, <1>10 DEF RefuseMessage, handlers, jetstream
<1>11. CASE ProcessMessage
  <2>1. /\ body[Head(inbox)] \in RegisterMatchResultCmd
        /\ current' = Head(inbox) /\ cmd'[Consumer] = body[Head(inbox)]
        /\ UNCHANGED <<body, acked>>
    BY <1>1, <1>11 DEF ProcessMessage, Begin, jetstream
  <2>2. Head(inbox) \in Msg
    BY <1>1, <1>11 DEF ProcessMessage
  <2> QED
    BY <1>1, <1>2, <2>1, <2>2
<1>12. CASE Settle
  <2>1. /\ pc[Consumer] \in {"done", "failed"} /\ pc'[Consumer] = "idle"
        /\ body' = body
        /\ acked' = IF pc[Consumer] = "done" THEN acked \cup {current} ELSE acked
    BY <1>1, <1>12 DEF Settle, Release
  <2>2. pc[Consumer] = "done" => IsStored(cmd[Consumer])
    <3>1. cmd[Consumer] \in RegisterMatchResultCmd
            => cmd[Consumer].op = "RegisterMatchResult"
      BY DEF RegisterMatchResultCmd
    <3> QED
      BY <1>1, <3>1, KnowsOfIInv DEF Knows
  <2>3. pc[Consumer] = "done" => IsStored(body[current]) /\ body[current] # NoMsg
    BY <1>1, <2>2, CommandTypes
  <2> QED
    BY <1>1, <1>2, <2>1, <2>3
<1>13. CASE Crash
  BY <1>1, <1>3, <1>13 DEF Crash, jetstream
<1> QED
  BY <1>4, <1>5, <1>6, <1>7, <1>8, <1>9, <1>10, <1>11, <1>12, <1>13
  DEF Next, Deliver, AckWaitExpires, ConsumerStep

-----------------------------------------------------------------------------
(* The invariant.                                                          *)

\* The seeded database and idle goroutines satisfy the invariant.
LEMMA IInvInit == Init => IInv
<1> SUFFICES ASSUME Init PROVE IInv
  OBVIOUS
<1> USE DEF Init
<1>1. TypeOK
  BY SeededFixtureType, ProcessAssumption DEF TypeOK, PC
<1>2. \A m \in Match : /\ db.matches[m].status = "SCHEDULED"
                      /\ db.matches[m].result = NoResult
  BY DEF SeededFixture
<1>3. RowsConsistent
  BY <1>2 DEF RowsConsistent, SeededFixture
<1>4. \A m \in Match : ~ IsCompleted(db.matches[m])
  BY <1>2 DEF IsCompleted
<1>5. StandingsAgree
  BY <1>4 DEF StandingsAgree, CompletedMatchesOf, SeededFixture
<1>6. \A g \in Group : ~ IsComplete(db.matches, g)
  BY <1>4, GroupsAssumption DEF IsComplete
<1>7. CompletionAnnounced
  BY <1>4, <1>6 DEF CompletionAnnounced
<1>8. Consumer \in Process /\ \A q \in Process : pc[q] = "idle"
  BY DEF Process
<1> QED
  BY <1>1, <1>3, <1>5, <1>7, <1>8
  DEF IInv, LoadIsCurrent, SaveIsOfCurrentRows, PastCommit,
      ConsumerRunsMessage, PublishedWasCommitted, AckedMeansStored,
      ConfirmedMeansStored

\* The invariant is inductive.
LEMMA IInvStep == IInv /\ [Next]_vars => IInv'
<1> SUFFICES ASSUME IInv, [Next]_vars PROVE IInv'
  OBVIOUS
<1>1. TypeOK'
  BY TypeStep
<1>2. RowsConsistent' /\ StandingsAgree' /\ CompletionAnnounced'
  BY DatabaseStep
<1>3. \A q \in Process : Knows(q)'
  BY EveryoneKnows
<1>4. LoadIsCurrent' /\ SaveIsOfCurrentRows' /\ PastCommit'
  BY <1>3 DEF Knows, LoadIsCurrent, SaveIsOfCurrentRows, PastCommit
<1>5. ConsumerRunsMessage' /\ AckedMeansStored'
  BY <1>3, ConsumerStepKnows
  DEF Knows, ConsumerKnows, ConsumerRunsMessage, AckedMeansStored
<1>6. PublishedWasCommitted' /\ ConfirmedMeansStored'
  BY PublishedStep, ConfirmedStep
<1> QED
  BY <1>1, <1>2, <1>4, <1>5, <1>6 DEF IInv

\* The inductive invariant holds in every state of every behaviour.
LEMMA Invariance == Spec => []IInv
BY IInvInit, IInvStep, PTL DEF Spec

-----------------------------------------------------------------------------
(* The theorems.                                                           *)

\* Type correctness of the handlers, the consumer and fixture_db.
THEOREM TypeCorrectness == Spec => []TypeOK
<1>1. IInv => TypeOK
  BY DEF IInv
<1> QED
  BY <1>1, Invariance, PTL

\* With any number of concurrent handlers and redeliveries, torn loads and
\* crashes included, the stored standings count exactly the stored results.
THEOREM StandingsAlwaysAgree == Spec => []StandingsAgree
<1>1. IInv => StandingsAgree
  BY DEF IInv
<1> QED
  BY <1>1, Invariance, PTL

\* No two handlers can both miss the completion of a group, and every stored
\* result was announced by the command that stored it.
THEOREM CompletionIsAnnounced == Spec => []CompletionAnnounced
<1>1. IInv => CompletionAnnounced
  BY DEF IInv
<1> QED
  BY <1>1, Invariance, PTL

\* The optimistic lock is enough: a Save that passes it saves its command
\* applied to the rows as they are, though they were read by separate queries.
THEOREM SavesAreCurrent == Spec => []SaveIsOfCurrentRows
<1>1. IInv => SaveIsOfCurrentRows
  BY DEF IInv
<1> QED
  BY <1>1, Invariance, PTL

\* An acked message that can be decoded has its very result stored.
THEOREM AcksAreEarned == Spec => []AckedMeansStored
<1>1. IInv => AckedMeansStored
  BY DEF IInv
<1> QED
  BY <1>1, Invariance, PTL

\* A client that was answered with success has its result stored from then on.
THEOREM CallersAreToldTheTruth == Spec => []ConfirmedMeansStored
<1>1. IInv => ConfirmedMeansStored
  BY DEF IInv
<1> QED
  BY <1>1, Invariance, PTL

\* Nothing is published that was not committed.
THEOREM PublishesCommittedOnly == Spec => []PublishedWasCommitted
<1>1. IInv => PublishedWasCommitted
  BY DEF IInv
<1> QED
  BY <1>1, Invariance, PTL

\* No step changes a match whose result is stored.
THEOREM ResultsAreFinal == Spec => StoredResultIsFinal
<1>1. IInv /\ [Next]_vars =>
        [\A m \in Match :
           IsCompleted(db.matches[m]) => db'.matches[m] = db.matches[m]]_vars
  BY DatabaseStep
<1> QED
  BY <1>1, Invariance, PTL DEF Spec, StoredResultIsFinal

-----------------------------------------------------------------------------
(* Refinement: the service implements the atomic ledger.                   *)

\* The seeded database is the initial ledger.
LEMMA LedgerInit == Init => Ledger!Init
BY DEF Init, SeededFixture, Ledger!Init

\* The commit of a result is the ledger's Register.
LEMMA CommitRegisters ==
  ASSUME IInv, NEW p \in Process, SaveTransaction(p),
         cmd[p].op = "RegisterMatchResult"
  PROVE  Ledger!Next
<1> DEFINE n == cmd[p].match
           g == GroupOf[n]
<1>1. /\ n \in Match /\ cmd[p].arg \in Result
      /\ ~ IsCompleted(db.matches[n]) /\ IsCompleted(db'.matches[n])
      /\ db'.matches[n].result = cmd[p].arg
      /\ db'.matches[n].kickoff = db.matches[n].kickoff
      /\ \A m \in Match \ {n} : db'.matches[m] = db.matches[m]
      /\ announced' = announced
           \cup {MatchResultRegistered(n, cmd[p].arg)}
           \cup (IF IsComplete(db'.matches, g)
                 THEN {GroupStageCompleted(g)} ELSE {})
  BY CommitOfResult DEF IInv
<1>2. \A m \in Match : IsCompleted(db.matches[m]) <=> db.matches[m].result # NoResult
  BY DEF IInv, RowsConsistent, IsCompleted
<1> HIDE DEF n, g
<1>3. ~ Ledger!Over(n)
  BY <1>1, <1>2 DEF Ledger!Over
<1>4. [m \in Match |-> db'.matches[m].result]
        = [[m \in Match |-> db.matches[m].result] EXCEPT ![n] = cmd[p].arg]
  BY <1>1
<1>5. [m \in Match |-> db'.matches[m].kickoff]
        = [m \in Match |-> db.matches[m].kickoff]
  BY <1>1
<1>6. IsComplete(db'.matches, g)
        <=> \A m \in Match \ {n} : GroupOf[m] = g => Ledger!Over(m)
  BY <1>1, <1>2 DEF IsComplete, Ledger!Over
<1>7. (IF IsComplete(db'.matches, g) THEN {GroupStageCompleted(g)} ELSE {})
        = {GroupStageCompleted(h) : h \in Ledger!CompletedBy(n)}
  <2>1. Ledger!CompletedBy(n) = IF IsComplete(db'.matches, g) THEN {g} ELSE {}
    BY <1>6 DEF Ledger!CompletedBy, g
  <2> QED
    BY <2>1
<1> QED
  BY <1>1, <1>3, <1>4, <1>5, <1>7 DEF Ledger!Next, Ledger!Register

\* The commit of a change of schedule is the ledger's Reschedule.
LEMMA CommitReschedules ==
  ASSUME IInv, NEW p \in Process, SaveTransaction(p),
         cmd[p].op = "UpdateMatchSchedule"
  PROVE  Ledger!Next
<1> DEFINE n == cmd[p].match
<1>1. /\ n \in Match /\ cmd[p].arg \in Kickoff
      /\ ~ IsCompleted(db.matches[n])
      /\ \A m \in Match : db'.matches[m].result = db.matches[m].result
      /\ db'.matches[n].kickoff = cmd[p].arg
      /\ \A m \in Match \ {n} : db'.matches[m] = db.matches[m]
      /\ announced' = announced \cup {MatchScheduleUpdated(n, cmd[p].arg)}
  BY CommitOfSchedule DEF IInv
<1>2. IsCompleted(db.matches[n]) <=> db.matches[n].result # NoResult
  BY <1>1 DEF IInv, RowsConsistent, IsCompleted
<1> HIDE DEF n
<1>3. ~ Ledger!Over(n)
  BY <1>1, <1>2 DEF Ledger!Over
<1>4. [m \in Match |-> db'.matches[m].kickoff]
        = [[m \in Match |-> db.matches[m].kickoff] EXCEPT ![n] = cmd[p].arg]
  BY <1>1
<1>5. [m \in Match |-> db'.matches[m].result]
        = [m \in Match |-> db.matches[m].result]
  BY <1>1
<1> QED
  BY <1>1, <1>3, <1>4, <1>5 DEF Ledger!Next, Ledger!Reschedule

\* A step that does not commit is invisible in the ledger.
LEMMA LedgerStep ==
  ASSUME IInv, [Next]_vars
  PROVE  [Ledger!Next]_<<[m \in Match |-> db.matches[m].result],
                         [m \in Match |-> db.matches[m].kickoff],
                         announced>>
<1>1. CASE UNCHANGED <<db, announced, eventStore>>
  BY <1>1
<1>2. ASSUME NEW p \in Process, SaveTransaction(p), cmd' = cmd
      PROVE  Ledger!Next
  <2>1. cmd[p] \in Cmd /\ Accepts(db, cmd[p])
    BY <1>2, CommitIsOutcome DEF IInv
  <2> QED
    BY <1>2, <2>1, CommitRegisters, CommitReschedules DEF Accepts
<1> QED
  BY <1>1, <1>2, OnlySaveWrites

\* Every behaviour of the service, faults included, is one of the ledger.
THEOREM ImplementsLedger == Spec => RefinesLedger
<1>1. Init => Ledger!Init
  BY LedgerInit
<1>2. IInv /\ [Next]_vars =>
        [Ledger!Next]_<<[m \in Match |-> db.matches[m].result],
                        [m \in Match |-> db.matches[m].kickoff],
                        announced>>
  BY LedgerStep
<1> QED
  BY <1>1, <1>2, Invariance, PTL DEF Spec, RefinesLedger, Ledger!Spec

-----------------------------------------------------------------------------
(* Published once.                                                         *)

\* The events that a consumer of the stream takes for one-time facts.
IsOneTime(e) == e.type \in {"MatchResultRegistered", "GroupStageCompleted"}

\* What handler p has still to publish of the command it committed.
Pending(p) == IF pc[p] = "publish" THEN evts[p] ELSE <<>>

\* A one-time fact has one place in all: in the stream, or in what one handler
\* has still to publish.
OnceInv ==
  /\ PublishedOnce
  /\ \A p \in Process : \A i, j \in DOMAIN Pending(p) :
       Pending(p)[i] = Pending(p)[j] /\ IsOneTime(Pending(p)[i]) => i = j
  /\ \A p \in Process : \A i \in DOMAIN Pending(p), j \in DOMAIN published :
       IsOneTime(Pending(p)[i]) => Pending(p)[i] # published[j]
  /\ \A p, q \in Process : \A i \in DOMAIN Pending(p), j \in DOMAIN Pending(q) :
       IsOneTime(Pending(p)[i]) /\ Pending(p)[i] = Pending(q)[j] => p = q

\* A command raises no one-time fact twice.
LEMMA RaisedOnce ==
  ASSUME NEW f \in Aggregate, NEW c \in Cmd, Accepts(f, c)
  PROVE  \A i, j \in DOMAIN RaisedEvents(f, c) :
           RaisedEvents(f, c)[i] = RaisedEvents(f, c)[j]
             /\ IsOneTime(RaisedEvents(f, c)[i]) => i = j
<1> DEFINE g == GroupOf[c.match]
           w == WithResult(f.matches, c.match, c.arg)
           e == MatchResultRegistered(c.match, c.arg)
           d == GroupStageCompleted(g)
<1>1. CASE c.op = "RegisterMatchResult"
  <2>1. ~ AllGroupsComplete(w, g)
    BY <1>1, NeverAllComplete, GroupsAssumption DEF Accepts, AcceptsResult
  <2>2. e # d
    BY DEF MatchResultRegistered, GroupStageCompleted
  <2>3. RaisedEvents(f, c) = <<e>> \o (IF IsComplete(w, g) THEN <<d>> ELSE <<>>) \o <<>>
    BY <1>1, <2>1 DEF RaisedEvents, ResultEvents
  <2> HIDE DEF e, d, w, g
  <2>4. CASE IsComplete(w, g)
    <3>1. RaisedEvents(f, c) = <<e, d>>
      BY <2>3, <2>4, PairConcatenation
    <3> QED
      BY <2>2, <3>1
  <2>5. CASE ~ IsComplete(w, g)
    <3>1. RaisedEvents(f, c) = <<e>>
      BY <2>3, <2>5
    <3> QED
      BY <3>1
  <2> QED
    BY <2>4, <2>5
<1>2. CASE c.op = "UpdateMatchSchedule"
  <2>1. RaisedEvents(f, c) = <<MatchScheduleUpdated(c.match, c.arg)>>
    BY <1>2 DEF RaisedEvents
  <2> QED
    BY <2>1
<1> QED
  BY <1>1, <1>2 DEF Accepts

\* The one-time facts of a commit were announced by no commit before it.
LEMMA RaisedIsNew ==
  ASSUME IInv, NEW p \in Process, SaveTransaction(p)
  PROVE  /\ evts[p] = RaisedEvents(db, cmd[p])
         /\ db \in Aggregate /\ cmd[p] \in Cmd /\ Accepts(db, cmd[p])
         /\ \A i \in DOMAIN evts[p] : IsOneTime(evts[p][i]) => evts[p][i] \notin announced
<1> DEFINE c == cmd[p]
<1>1. /\ db \in Aggregate /\ c \in Cmd /\ Accepts(db, c)
  BY CommitIsOutcome DEF IInv, TypeOK
<1>2. evts[p] = RaisedEvents(db, c)
  <2>1. fixture[p].version = db.version + 1
    <3>1. fixture[p] \in Aggregate /\ db \in Aggregate
      BY DEF IInv, TypeOK
    <3> QED
      BY <3>1 DEF SaveTransaction, Aggregate
  <2> QED
    BY <2>1 DEF IInv, SaveIsOfCurrentRows, SaveTransaction
<1> HIDE DEF c
<1>3. CASE c.op = "RegisterMatchResult"
  <2> DEFINE e == MatchResultRegistered(c.match, c.arg)
             d == GroupStageCompleted(GroupOf[c.match])
  <2>1. /\ c.match \in Match /\ c.arg \in Result
        /\ ~ IsCompleted(db.matches[c.match])
        /\ GroupOf[c.match] \in Group
    BY <1>1, <1>3, GroupsAssumption
    DEF Accepts, AcceptsResult, Cmd, RegisterMatchResultCmd, UpdateMatchScheduleCmd
  <2>2. e \notin announced
    BY <2>1 DEF IInv, CompletionAnnounced
  <2>3. ~ IsComplete(db.matches, GroupOf[c.match])
    BY <2>1 DEF IsComplete
  <2>4. d \notin announced
    BY <2>1, <2>3 DEF IInv, CompletionAnnounced
  <2> HIDE DEF e, d
  <2>5. {RaisedEvents(db, c)[i] : i \in DOMAIN RaisedEvents(db, c)} \subseteq {e, d}
    BY <1>1, <1>3, RaisedByResult DEF e, d
  <2> QED
    BY <1>1, <1>2, <2>2, <2>4, <2>5 DEF c
<1>4. CASE c.op = "UpdateMatchSchedule"
  <2>1. RaisedEvents(db, c) = <<MatchScheduleUpdated(c.match, c.arg)>>
    BY <1>4 DEF RaisedEvents
  <2>2. \A i \in DOMAIN RaisedEvents(db, c) : ~ IsOneTime(RaisedEvents(db, c)[i])
    BY <2>1 DEF IsOneTime, MatchScheduleUpdated
  <2> QED
    BY <1>1, <1>2, <2>2 DEF c
<1> QED
  BY <1>1, <1>3, <1>4 DEF Accepts

\* A step commits a command, publishes the next event of one, or neither.
LEMMA PublishingStep ==
  ASSUME IInv, [Next]_vars
  PROVE  \/ /\ UNCHANGED published
            /\ \A q \in Process : Pending(q)' \in {Pending(q), <<>>}
         \/ /\ UNCHANGED published
            /\ \E p \in Process :
                 /\ SaveTransaction(p) /\ Pending(p)' = evts[p]
                 /\ \A q \in Process \ {p} : Pending(q)' = Pending(q)
         \/ \E p \in Process :
              /\ Pending(p) # <<>>
              /\ published' = Append(published, Head(Pending(p)))
              /\ Pending(p)' \in {Tail(Pending(p)), <<>>}
              /\ \A q \in Process \ {p} : Pending(q)' = Pending(q)
<1> DEFINE Quiet == UNCHANGED published
                    /\ \A q \in Process : Pending(q)' \in {Pending(q), <<>>}
           Commits == /\ UNCHANGED published
                      /\ \E p \in Process :
                           /\ SaveTransaction(p) /\ Pending(p)' = evts[p]
                           /\ \A q \in Process \ {p} : Pending(q)' = Pending(q)
           Publishes == \E p \in Process :
                          /\ Pending(p) # <<>>
                          /\ published' = Append(published, Head(Pending(p)))
                          /\ Pending(p)' \in {Tail(Pending(p)), <<>>}
                          /\ \A q \in Process \ {p} : Pending(q)' = Pending(q)
<1>1. pc \in [Process -> PC] /\ evts \in [Process -> Seq(Event)]
  BY DEF IInv, TypeOK
<1>2. Consumer \in Process /\ Request \subseteq Process
  BY DEF Process
<1>3. ASSUME NEW p \in Process, NEW s \in PC \ {"publish"},
             pc' = [pc EXCEPT ![p] = s],
             UNCHANGED published, \A q \in Process \ {p} : evts'[q] = evts[q]
      PROVE  Quiet
  <2>1. /\ pc'[p] # "publish"
        /\ \A q \in Process \ {p} : pc'[q] = pc[q] /\ evts'[q] = evts[q]
    BY <1>1, <1>3
  <2>2. Pending(p)' = <<>> /\ \A q \in Process \ {p} : Pending(q)' = Pending(q)
    BY <2>1 DEF Pending
  <2> QED
    BY <1>3, <2>2
<1>4. ASSUME UNCHANGED <<pc, evts, published>>
      PROVE  Quiet
  BY <1>4 DEF Pending
<1>5. ASSUME NEW p \in Process, Fail(p)
      PROVE  Quiet
  <2>1. /\ pc' = [pc EXCEPT ![p] = "failed"] /\ UNCHANGED published
        /\ \A q \in Process \ {p} : evts'[q] = evts[q]
    BY <1>1, <1>5 DEF Fail, Forget
  <2>2. "failed" \in PC \ {"publish"}
    BY DEF PC
  <2> HIDE DEF Quiet
  <2> QED
    BY <1>3, <2>1, <2>2
<1>6. ASSUME NEW p \in Process, Save(p)
      PROVE  Commits
  <2>1. /\ SaveTransaction(p) /\ pc'[p] = "publish" /\ evts' = evts
        /\ UNCHANGED published
        /\ \A q \in Process \ {p} : pc'[q] = pc[q]
    BY <1>1, <1>6 DEF Save
  <2> QED
    BY <2>1 DEF Pending
<1>7. ASSUME NEW p \in Process, PublishNext(p)
      PROVE  Quiet \/ Publishes
  <2>1. CASE evts[p] = <<>>
    <3>1. pc' = [pc EXCEPT ![p] = "done"] /\ UNCHANGED <<evts, published>>
          /\ "done" \in PC \ {"publish"}
      BY <1>7, <2>1 DEF PublishNext, PC
    <3> HIDE DEF Quiet
    <3> QED
      BY <1>3, <3>1
  <2>2. CASE evts[p] # <<>>
    <3>1. /\ pc[p] = "publish" /\ pc' = pc
          /\ published' = Append(published, Head(evts[p]))
          /\ evts'[p] = Tail(evts[p])
          /\ \A q \in Process \ {p} : evts'[q] = evts[q]
      BY <1>1, <1>7, <2>2 DEF PublishNext
    <3> QED
      BY <2>2, <3>1 DEF Pending
  <2> QED
    BY <2>1, <2>2
<1>8. ASSUME NEW p \in Process, PublishFails(p)
      PROVE  Quiet \/ Publishes
  <2>1. /\ pc[p] = "publish" /\ evts[p] # <<>>
        /\ pc' = [pc EXCEPT ![p] = "done"] /\ pc'[p] = "done"
        /\ published' \in {published, Append(published, Head(evts[p]))}
        /\ \A q \in Process \ {p} : evts'[q] = evts[q] /\ pc'[q] = pc[q]
        /\ "done" \in PC \ {"publish"}
    BY <1>1, <1>8 DEF PublishFails, Forget, PC
  <2>2. CASE UNCHANGED published
    <3> HIDE DEF Quiet
    <3> QED
      BY <1>3, <2>1, <2>2
  <2>3. CASE published' = Append(published, Head(evts[p]))
    BY <2>1, <2>3 DEF Pending
  <2> QED
    BY <2>1, <2>2, <2>3
<1>9. ASSUME NEW p \in Process, NEW c, Begin(p, c)
      PROVE  Quiet
  <2>1. pc' = [pc EXCEPT ![p] = "loadMatches"] /\ UNCHANGED <<evts, published>>
        /\ "loadMatches" \in PC \ {"publish"}
    BY <1>9 DEF Begin, PC
  <2> HIDE DEF Quiet
  <2> QED
    BY <1>3, <2>1
<1>10. ASSUME NEW p \in Process, Release(p), UNCHANGED published
       PROVE  Quiet
  <2>1. pc' = [pc EXCEPT ![p] = "idle"] /\ UNCHANGED <<evts, published>>
        /\ "idle" \in PC \ {"publish"}
    BY <1>10 DEF Release, PC
  <2> HIDE DEF Quiet
  <2> QED
    BY <1>3, <2>1
<1>11. ASSUME NEW p \in Process, LoadGroupMatches(p) \/ Apply(p)
       PROVE  Quiet
  <2>1. PICK s \in PC \ {"publish"} : pc' = [pc EXCEPT ![p] = s]
    <3>1. {"loadStandings", "save"} \subseteq PC \ {"publish"}
      BY DEF PC
    <3> QED
      BY <1>11, <3>1 DEF LoadGroupMatches, Apply
  <2>2. UNCHANGED published /\ \A q \in Process \ {p} : evts'[q] = evts[q]
    BY <1>1, <1>11 DEF LoadGroupMatches, Apply
  <2> HIDE DEF Quiet
  <2> QED
    BY <1>3, <2>1, <2>2
<1>12. ASSUME Crash
       PROVE  Quiet
  <2>1. UNCHANGED published /\ \A q \in Process : pc'[q] = "idle"
    BY <1>12 DEF Crash
  <2> QED
    BY <2>1 DEF Pending
<1> HIDE DEF Quiet, Commits, Publishes
<1>13. ASSUME NEW p \in Process, HandlerStep(p) \/ HandlerFault(p)
       PROVE  Quiet \/ Commits \/ Publishes
  BY <1>5, <1>6, <1>7, <1>8, <1>11, <1>13
  DEF HandlerStep, HandlerFault, Reject, SaveConflict, StoreRefuses, SaveUnconfirmed,
      StoreFails
<1>14. ASSUME NEW p \in Request, RegisterResult(p) \/ UpdateSchedule(p) \/ Reply(p)
       PROVE  Quiet
  BY <1>2, <1>9, <1>10, <1>14 DEF RegisterResult, UpdateSchedule, Reply
<1>15. ASSUME NEW k \in Msg, Ingest(k) \/ Deliver(k) \/ AckWaitExpires(k)
       PROVE  Quiet
  BY <1>4, <1>15 DEF Ingest, Deliver, AckWaitExpires, DeliverCopy, handlers
<1>16. ASSUME ConsumerStep
       PROVE  Quiet
  BY <1>2, <1>4, <1>9, <1>10, <1>16
  DEF ConsumerStep, DiscardMessage, RefuseMessage, ProcessMessage, Settle, handlers
<1>17. ASSUME UNCHANGED vars
       PROVE  Quiet
  BY <1>4, <1>17 DEF vars
<1>18. Quiet \/ Commits \/ Publishes
  BY <1>12, <1>13, <1>14, <1>15, <1>16, <1>17 DEF Next
<1> QED
  BY <1>18 DEF Quiet, Commits, Publishes

\* A commit adds facts that no handler and no place of the stream has; publishing
\* one moves it from its handler to the stream.
LEMMA OnceStep ==
  ASSUME IInv, OnceInv, [Next]_vars
  PROVE  OnceInv'
<1>1. /\ published \in Seq(Event)
      /\ \A p \in Process : Pending(p) \in Seq(Event)
      /\ \A p \in Process : evts[p] \in Seq(Event)
  BY DEF IInv, TypeOK, Pending
<1>2. /\ \A i \in DOMAIN published : published[i] \in announced
      /\ \A p \in Process : \A i \in DOMAIN Pending(p) : Pending(p)[i] \in announced
  BY DEF IInv, PublishedWasCommitted, PastCommit, Pending
<1>3. CASE /\ UNCHANGED published
           /\ \A q \in Process : Pending(q)' \in {Pending(q), <<>>}
  <2>1. \A q \in Process : \A i \in DOMAIN Pending(q)' :
          i \in DOMAIN Pending(q) /\ Pending(q)'[i] = Pending(q)[i]
    BY <1>3
  <2> QED
    BY <1>3, <2>1 DEF OnceInv, PublishedOnce
<1>4. ASSUME UNCHANGED published, NEW p \in Process, SaveTransaction(p),
             Pending(p)' = evts[p], \A q \in Process \ {p} : Pending(q)' = Pending(q)
      PROVE  OnceInv'
  <2>1. \A i, j \in DOMAIN evts[p] :
          evts[p][i] = evts[p][j] /\ IsOneTime(evts[p][i]) => i = j
    BY <1>4, RaisedIsNew, RaisedOnce
  <2>2. \A i \in DOMAIN evts[p] : IsOneTime(evts[p][i]) => evts[p][i] \notin announced
    BY <1>4, RaisedIsNew
  <2>3. PublishedOnce'
    BY <1>4 DEF OnceInv, PublishedOnce
  <2>4. \A q \in Process : \A i, j \in DOMAIN Pending(q)' :
          Pending(q)'[i] = Pending(q)'[j] /\ IsOneTime(Pending(q)'[i]) => i = j
    BY <1>4, <2>1 DEF OnceInv
  <2>5. \A q \in Process : \A i \in DOMAIN Pending(q)', j \in DOMAIN published :
          IsOneTime(Pending(q)'[i]) => Pending(q)'[i] # published[j]
    BY <1>2, <1>4, <2>2 DEF OnceInv
  <2>6. \A q, r \in Process : \A i \in DOMAIN Pending(q)', j \in DOMAIN Pending(r)' :
          IsOneTime(Pending(q)'[i]) /\ Pending(q)'[i] = Pending(r)'[j] => q = r
    BY <1>2, <1>4, <2>2 DEF OnceInv
  <2> QED
    BY <1>4, <2>3, <2>4, <2>5, <2>6 DEF OnceInv, IsOneTime
<1>5. ASSUME NEW p \in Process, Pending(p) # <<>>,
             published' = Append(published, Head(Pending(p))),
             Pending(p)' \in {Tail(Pending(p)), <<>>},
             \A q \in Process \ {p} : Pending(q)' = Pending(q)
      PROVE  OnceInv'
  <2> DEFINE e == Head(Pending(p))
             n == Len(published)
  <2>1. e = Pending(p)[1] /\ 1 \in DOMAIN Pending(p) /\ e \in Event
    BY <1>1, <1>5
  <2>2. /\ DOMAIN published = 1..n /\ DOMAIN published' = 1..(n + 1) /\ n \in Nat
        /\ published'[n + 1] = e
        /\ \A i \in 1..n : published'[i] = published[i]
    BY <1>1, <1>5, <2>1
  <2>3. \A i \in DOMAIN Pending(p)' :
          /\ i \in Nat /\ i + 1 # 1 /\ i + 1 \in DOMAIN Pending(p)
          /\ Pending(p)'[i] = Pending(p)[i + 1]
    BY <1>1, <1>5
  <2> HIDE DEF e, n
  <2>4. IsOneTime(e) => \A j \in 1..n : e # published[j]
    BY <2>1, <2>2 DEF OnceInv
  <2>5. PublishedOnce'
    <3> SUFFICES ASSUME NEW i \in 1..(n + 1), NEW j \in 1..(n + 1),
                        published'[i] = published'[j], IsOneTime(published'[i])
                 PROVE  i = j
      BY <2>2 DEF PublishedOnce, IsOneTime
    <3>1. CASE i \in 1..n /\ j \in 1..n
      BY <3>1, <2>2 DEF OnceInv, PublishedOnce, IsOneTime
    <3>2. CASE i = n + 1 /\ j \in 1..n
      BY <3>2, <2>2, <2>4
    <3>3. CASE i \in 1..n /\ j = n + 1
      BY <3>3, <2>2, <2>4
    <3> QED
      BY <3>1, <3>2, <3>3, <2>2
  <2>6. \A q \in Process : \A i, j \in DOMAIN Pending(q)' :
          Pending(q)'[i] = Pending(q)'[j] /\ IsOneTime(Pending(q)'[i]) => i = j
    <3>1. \A i, j \in DOMAIN Pending(p)' :
            Pending(p)'[i] = Pending(p)'[j] /\ IsOneTime(Pending(p)'[i]) => i = j
      <4> SUFFICES ASSUME NEW i \in DOMAIN Pending(p)', NEW j \in DOMAIN Pending(p)',
                          Pending(p)'[i] = Pending(p)'[j], IsOneTime(Pending(p)'[i])
                   PROVE  i = j
        OBVIOUS
      <4>1. i + 1 = j + 1
        BY <2>3 DEF OnceInv
      <4> QED
        BY <4>1, <2>3
    <3> QED
      BY <1>5, <3>1 DEF OnceInv
  <2>7. \A q \in Process : \A i \in DOMAIN Pending(q)' :
          IsOneTime(Pending(q)'[i]) => Pending(q)'[i] # e
    <3> SUFFICES ASSUME NEW q \in Process, NEW i \in DOMAIN Pending(q)',
                        IsOneTime(Pending(q)'[i]), Pending(q)'[i] = e
                 PROVE  FALSE
      OBVIOUS
    <3>1. CASE q = p
      BY <3>1, <2>1, <2>3 DEF OnceInv
    <3>2. CASE q # p
      BY <3>2, <1>5, <2>1 DEF OnceInv
    <3> QED
      BY <3>1, <3>2
  <2>8. \A q \in Process : \A i \in DOMAIN Pending(q)', j \in 1..n :
          IsOneTime(Pending(q)'[i]) => Pending(q)'[i] # published[j]
    BY <1>5, <2>2, <2>3 DEF OnceInv
  <2>9. \A q \in Process : \A i \in DOMAIN Pending(q)', j \in DOMAIN published' :
          IsOneTime(Pending(q)'[i]) => Pending(q)'[i] # published'[j]
    <3>1. \A j \in 1..(n + 1) : j \in 1..n \/ j = n + 1
      BY <2>2
    <3> QED
      BY <2>2, <2>7, <2>8, <3>1
  <2>10. \A q, r \in Process : \A i \in DOMAIN Pending(q)', j \in DOMAIN Pending(r)' :
           IsOneTime(Pending(q)'[i]) /\ Pending(q)'[i] = Pending(r)'[j] => q = r
    <3>1. \A q \in Process : \A i \in DOMAIN Pending(q)' :
            \E k \in DOMAIN Pending(q) : Pending(q)'[i] = Pending(q)[k]
      BY <1>5, <2>3
    <3> QED
      BY <3>1 DEF OnceInv
  <2> QED
    BY <2>5, <2>6, <2>9, <2>10 DEF OnceInv, IsOneTime
<1> QED
  BY <1>3, <1>4, <1>5, PublishingStep

\* However often JetStream redelivers and whichever handlers retry, compete or
\* crash between commit and publication: a match result and the completion of a
\* group are published at most once.
THEOREM FactsArePublishedOnce == Spec => []PublishedOnce
<1>1. Init => OnceInv
  BY DEF Init, OnceInv, PublishedOnce, Pending
<1>2. IInv /\ OnceInv /\ [Next]_vars => OnceInv'
  BY OnceStep
<1>3. OnceInv => PublishedOnce
  BY DEF OnceInv
<1> QED
  BY <1>1, <1>2, <1>3, Invariance, PTL DEF Spec
=============================================================================
