---------------------------- MODULE MCMerkleTree ----------------------------
(* Instances of MerkleTree for TLC. *)
EXTENDS MerkleTree

CONSTANTS K1, K2, K3, K4, K5, K6

MCKeys == <<K1, K2, K3, K4, K5, K6>>
MCClaimants == ToSet(MCKeys)

\* One to six allocations: every shape of layers up to three levels.
MCSnapshots ==
  {[i \in 1..n |-> [pubkey |-> MCKeys[i], amount |-> (i % 2) + 1]] : n \in 1..6}
=============================================================================
