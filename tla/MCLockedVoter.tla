--------------------------- MODULE MCLockedVoter ---------------------------
(* Instances of LockedVoter for TLC. *)
EXTENDS LockedVoter, TLC

CONSTANTS Alice, Bob, Dave, Unstake1, Unstake2

MCParams(min, max) == [max_stake_vote_multiplier |-> 2, min_stake_duration |-> min,
                       max_stake_duration |-> max]

\* The governor changes the minimum duration, never the maximum.
MCFixedMax2 == {MCParams(0, 2), MCParams(2, 2)}

MCInstants == 1..6

MCSymmetry == Permutations({Alice, Bob}) \cup Permutations({Unstake1, Unstake2})
=============================================================================
