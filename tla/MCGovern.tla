------------------------------ MODULE MCGovern ------------------------------
(* Instances of Govern and of its refinement for TLC. *)
EXTENDS GovernRefinement, TLC

CONSTANTS Alice, Bob, Carol, Locker1, Locker2, Jup, Tx1, Tx2

MCGovernance(delay, period, quorum, timelock) ==
  [voting_delay |-> delay, voting_period |-> period, quorum_votes |-> quorum,
   timelock_delay_seconds |-> timelock]

\* Every proposal is voted on as soon and as shortly as time can tell.
MCQuickGovernance == {MCGovernance(0, 1, 2, 0)}

\* A voting period may be 0: the proposal is decided in the instant it is activated.
MCGovernances == {MCGovernance(0, 0, 0, 0), MCGovernance(1, 2, 2, 1)}

MCSymmetry == Permutations({Alice, Bob})
=============================================================================
