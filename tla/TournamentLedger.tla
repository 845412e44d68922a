-------------------------- MODULE TournamentLedger --------------------------
(***************************************************************************)
(* What fixture-core promises its callers, whatever runs concurrently: a   *)
(* register of match results and kick-offs in which every command takes    *)
(* effect at one instant, a result is written once, no match is moved once *)
(* it is over, and each effect is announced with the command that caused   *)
(* it, group completion included.                                          *)
(***************************************************************************)
CONSTANTS Group, Match, GroupOf, Kickoff, InitialKickoff, Result, NoResult,
          MatchResultRegistered(_, _),   \* the events, as the service
          GroupStageCompleted(_),        \* builds them
          MatchScheduleUpdated(_, _)

VARIABLES result,     \* the result of each match, or NoResult
          kickoff,    \* the kick-off of each match
          announced   \* the events of every command so far

Init ==
  /\ result = [m \in Match |-> NoResult]
  /\ kickoff = [m \in Match |-> InitialKickoff]
  /\ announced = {}

Over(m) == result[m] # NoResult

\* The groups that end with match m.
CompletedBy(m) ==
  {g \in {GroupOf[m]} : \A n \in Match \ {m} : GroupOf[n] = g => Over(n)}

Register(m, r) ==
  /\ ~ Over(m)
  /\ result' = [result EXCEPT ![m] = r]
  /\ announced' = announced \cup {MatchResultRegistered(m, r)}
                    \cup {GroupStageCompleted(g) : g \in CompletedBy(m)}
  /\ UNCHANGED kickoff

Reschedule(m, k) ==
  /\ ~ Over(m)
  /\ kickoff' = [kickoff EXCEPT ![m] = k]
  /\ announced' = announced \cup {MatchScheduleUpdated(m, k)}
  /\ UNCHANGED result

Next ==
  \E m \in Match :
    \/ \E r \in Result : Register(m, r)
    \/ \E k \in Kickoff : Reschedule(m, k)

Spec == Init /\ [][Next]_<<result, kickoff, announced>>
=============================================================================
