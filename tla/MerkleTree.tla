----------------------------- MODULE MerkleTree -----------------------------
(***************************************************************************)
(* The tree behind a distributor's root: how the command-line client makes *)
(* it from a snapshot of allocations, the proof it finds for a claimant,   *)
(* and how merkle-distributor verifies that proof.                         *)
(*                                                                         *)
(* A hash is the term it is computed from, so that different inputs have   *)
(* different hashes.  combine_hash and verify both put the smaller hash of *)
(* a pair first: they hash the pair as a set.  Which of two hashes is the  *)
(* smaller cannot be known, so that the sorted first layer may be any      *)
(* permutation of the leaves.                                              *)
(***************************************************************************)
EXTENDS Naturals, FiniteSets, SequencesExt

CONSTANTS
  Snapshots,  \* sequences of TokenAllocations: [pubkey, amount]
  Claimants,  \* keys that may try to claim
  Amounts     \* amounts they may try to claim

Pubkeys(s) == {s[i].pubkey : i \in DOMAIN s}

\* read_snapshot panics on a duplicate, get_root on an empty snapshot.
ASSUME SnapshotAssumption ==
  \A s \in Snapshots : /\ s \in Seq([pubkey : Claimants, amount : Nat])
                       /\ s # <<>> /\ Cardinality(Pubkeys(s)) = Len(s)

VARIABLES
  snapshot,  \* the Snapshot
  tree       \* MerkleTree::tree, as far as it is built

treeState == <<snapshot, tree>>

-----------------------------------------------------------------------------
\* The hash of one allocation; a mutant forgot the amount.
LeafWithoutAmount(index, claimant, amount) == <<"leaf", index, claimant, 0>>
LeafHash(index, claimant, amount) == <<"leaf", index, claimant, amount>>

CombineHash(first, second) == <<"node", {first, second}>>

\* The hash of the allocation at position i; the program's index starts at 0.
HashOf(i) == LeafHash(i - 1, snapshot[i].pubkey, snapshot[i].amount)

\* get_next_layer: the last hash of an odd layer moves up alone.  A mutant
\* pairs it with itself.
PairedWithItself(layer) ==
  [i \in 1..((Len(layer) + 1) \div 2) |->
     CombineHash(layer[2 * i - 1], layer[IF 2 * i > Len(layer) THEN 2 * i - 1 ELSE 2 * i])]
NextLayer(layer) ==
  [i \in 1..((Len(layer) + 1) \div 2) |->
     IF 2 * i > Len(layer) THEN layer[2 * i - 1]
     ELSE CombineHash(layer[2 * i - 1], layer[2 * i])]

\* MerkleTree::get_root
Root == Last(tree)[1]

\* find_proof: the hash beside the path at every layer that has one.  A hash
\* that is not in the first layer gets the proof of the first that is.  One turn
\* of the loop, AddPair, halves the index.
PairElement(idx, layer) ==
  LET pair_id == IF idx % 2 = 0 THEN idx + 1 ELSE idx - 1
  IN  IF pair_id > Len(layer) - 1 THEN <<>> ELSE <<layer[pair_id + 1]>>

Place(hash) ==
  LET places == {i \in DOMAIN tree[1] : tree[1][i] = hash}
  IN  IF places = {} THEN 0 ELSE (CHOOSE i \in places : \A j \in places : i <= j) - 1

AddPair(path, layer) ==
  [idx |-> path.idx \div 2, proof |-> path.proof \o PairElement(path.idx, layer)]

FindProof(hash) == FoldLeft(AddPair, [idx |-> Place(hash), proof |-> <<>>], tree).proof

\* get_user_claim_info: what the client of claimant k sends.
ClaimInfo(k) ==
  LET i == CHOOSE j \in DOMAIN snapshot : snapshot[j].pubkey = k
  IN  [index |-> i - 1, amount |-> snapshot[i].amount, proof |-> FindProof(HashOf(i))]

\* merkle_proof::verify, in the program
ComputedHash(leaf, proof) == FoldLeft(CombineHash, leaf, proof)
Verify(proof, root, leaf) == ComputedHash(leaf, proof) = root

-----------------------------------------------------------------------------
TreeInit ==
  /\ snapshot \in Snapshots
  /\ \E first_branch \in SetToSeqs({HashOf(i) : i \in DOMAIN snapshot}) :
       tree = <<first_branch>>

\* One turn of build_merkle_tree's loop.
BuildLayer ==
  /\ Len(Last(tree)) > 1
  /\ tree' = Append(tree, NextLayer(Last(tree)))
  /\ UNCHANGED snapshot

TreeSpec == TreeInit /\ [][BuildLayer]_treeState

-----------------------------------------------------------------------------
(* What a root promises *)

Built == Len(Last(tree)) = 1

\* Every claimant can claim: what the client sends for him is accepted by the
\* program, also if layers of odd length are on his path.
EveryClaimVerifies ==
  Built => \A k \in Pubkeys(snapshot) :
    LET claim == ClaimInfo(k)
    IN  Verify(claim.proof, Root, LeafHash(claim.index, k, claim.amount))

\* Parts of the proofs the client finds for the allocations.
FoundProofs ==
  UNION {LET proof == ClaimInfo(k).proof
         IN  {SubSeq(proof, a, b) : a \in 1..(Len(proof) + 1), b \in 0..Len(proof)} :
         k \in Pubkeys(snapshot)}

\* And nothing else is claimed: an index, claimant and amount that verify with
\* the proof of any allocation, or with a part of one, are an allocation.
OnlyClaimsVerify ==
  Built =>
    \A index \in 0..Len(snapshot), claimant \in Claimants, amount \in Amounts :
      (\E proof \in FoundProofs : Verify(proof, Root, LeafHash(index, claimant, amount))) =>
        \E i \in DOMAIN snapshot :
          index = i - 1 /\ snapshot[i] = [pubkey |-> claimant, amount |-> amount]
=============================================================================
