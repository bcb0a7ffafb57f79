------------------------ MODULE MCMerkleDistributor ------------------------
(* Instances of MerkleDistributor for TLC. *)
EXTENDS MerkleDistributor, TLC

CONSTANTS Alice, Bob, Admin1, Admin2, Account1, Vault

Leaf(index, claimant, amount) == [index |-> index, claimant |-> claimant, amount |-> amount]

\* The tree has index 0 twice: either Alice or Bob claims it.
MCLeaves == {Leaf(0, Alice, 1), Leaf(0, Bob, 2), Leaf(1, Bob, 1)}

MCLockerParams ==
  {[max_stake_vote_multiplier |-> 1, min_stake_duration |-> 1,
    max_stake_duration |-> 1, proposal_activation_min_votes |-> 1]}
=============================================================================
