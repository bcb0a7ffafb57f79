---------------------------- MODULE MCMetVoting ----------------------------
(* Instances of MetVoting for TLC. *)
EXTENDS MetVoting, TLC

CONSTANTS Alice, Bob, Carol

MCParams(multiplier, activation) ==
  {[max_stake_vote_multiplier |-> multiplier, min_stake_duration |-> 0,
    max_stake_duration |-> 2, proposal_activation_min_votes |-> activation]}

MCLockerParams == MCParams(2, 1)

\* Voting lasts as long as the maximum lock: the shortest lock allowed.
MCGovernance == {[voting_delay |-> 0, voting_period |-> 2, quorum_votes |-> 1,
                  timelock_delay_seconds |-> 0]}

MCInstants == 1..6

MCSymmetry == Permutations({Alice, Bob})
=============================================================================
