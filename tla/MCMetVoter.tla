----------------------------- MODULE MCMetVoter -----------------------------
(* Instances of MetVoter and of its refinement for TLC. *)
EXTENDS MetVoterRefinement, TLC

CONSTANTS Alice, Bob

MCParams(min, max) ==
  [max_stake_vote_multiplier |-> 2, min_stake_duration |-> min,
   max_stake_duration |-> max, proposal_activation_min_votes |-> 1]

\* The governor changes both durations.
MCDurations == {MCParams(0, 2), MCParams(1, 1)}
=============================================================================
