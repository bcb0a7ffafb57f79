-------------------------- MODULE GovernRefinement --------------------------
(***************************************************************************)
(* The govern program holds ballots.  A proposal's status is computed from *)
(* its timestamps, its running tally and the clock, and its votes are in   *)
(* accounts of their own: together they are the ballot of Ballot.          *)
(***************************************************************************)
EXTENDS Govern

StatusOf(q) ==
  CASE State(q) = "Canceled"  -> "withdrawn"
    [] State(q) = "Draft"     -> "draft"
    [] State(q) = "Active"    -> "open"
    [] State(q) = "Overflow"  -> "uncountable"
    [] State(q) = "Defeated"  -> "rejected"
    [] State(q) = "Succeeded" -> "passed"
    [] State(q) = "Queued"    -> "carried out"

NoBallot == [status |-> "none", yes_no |-> FALSE, quorum |-> 0,
             votes |-> [v \in Voters |-> [side |-> 0, weight |-> 0]]]

BallotOf(p) ==
  IF p \notin Created THEN NoBallot
  ELSE [status |-> StatusOf(proposals[p]),
        yes_no |-> proposals[p].proposal_type = "YesNo",
        quorum |-> proposals[p].quorum_votes,
        votes  |-> [v \in Voters |-> [side   |-> votes[p][v].side,
                                      weight |-> votes[p][v].voting_power]]]

Box == INSTANCE Ballot WITH
  BallotIds    <- ProposalIds,
  BallotVoters <- Voters,
  Against      <- AGAINST_VOTE_INDEX,
  For          <- FOR_VOTE_INDEX,
  Limit        <- U64Max,
  ballots      <- [p \in ProposalIds |-> BallotOf(p)]

\* Whatever is called when, around the end of a voting, on one proposal or on
\* several whose votings overlap, every proposal goes the way of a ballot: it
\* is open once, and from the end of its voting on has the outcome that the
\* votes as they stand give it, not what a stale tally or timestamp does.  The
\* outcome is the program's: its quorum is of all votes cast (Ballot!Outcome).
ImplementsBallot == Box!BallotSpec
=============================================================================
