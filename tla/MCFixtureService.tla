-------------------------- MODULE MCFixtureService --------------------------
(* Instances of FixtureService.                                            *)
EXTENDS FixtureService, TLC

CONSTANTS gA, gB, m1, m2, m3

MCGroup == {gA, gB}

\* Group gA has two matches, group gB one.
MCMatch == {m1, m2, m3}
MCGroupOf == (m1 :> gA) @@ (m2 :> gA) @@ (m3 :> gB)

\* One match per group: every result completes a group.
MCMatchPair == {m1, m3}
MCGroupOfPair == (m1 :> gA) @@ (m3 :> gB)

\* Handlers, messages and decisive results are interchangeable.
MCActorSymmetry ==
  Permutations(Request) \cup Permutations(Msg) \cup Permutations(Decisive)
=============================================================================
