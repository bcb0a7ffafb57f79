--------------------------- MODULE MCLockedVoting ---------------------------
(* Instances of LockedVoting for TLC. *)
EXTENDS LockedVoting, TLC

CONSTANTS Alice, Bob, Carol, Unstake1

MCLockerParams == {[max_stake_vote_multiplier |-> 2, min_stake_duration |-> 0,
                    max_stake_duration |-> 2]}

\* Voting lasts as long as the maximum lock: the shortest lock allowed.
MCGovernance == {[voting_delay |-> 0, voting_period |-> 2, quorum_votes |-> 1,
                  timelock_delay_seconds |-> 0]}

MCSymmetry == Permutations({Alice, Bob})
=============================================================================
