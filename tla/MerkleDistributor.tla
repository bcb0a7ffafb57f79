------------------------- MODULE MerkleDistributor -------------------------
(***************************************************************************)
(* The merkle-distributor program: one MerkleDistributor, the ClaimStatus  *)
(* of every index, and the distributor's token account (token_vault).  A   *)
(* claim deposits tokens of the vault into the claimant's met-voter escrow *)
(* by calling increase_locked_amount with the distributor as the payer, so *)
(* that this module is a composition with MetVoter.                        *)
(*                                                                         *)
(* The root of the tree commits to a set of leaves: a proof verifies only  *)
(* for a leaf of the set (hashes do not collide), and whoever built the    *)
(* tree may have given an index to several leaves.                         *)
(***************************************************************************)
EXTENDS MetVoter

CONSTANTS
  Leaves,          \* the leaves the root commits to: [index, claimant, amount]
  MaxTotalClaims,  \* max_total_claim new_distributor is called with
  MaxNumNodes,     \* max_num_nodes it is called with
  ClawbackStarts,  \* clawback_start_ts it is called with
  Admins,          \* keys that may become the admin
  Receivers,       \* token accounts that may receive the clawback
  TokenVault       \* the distributor's own: nothing keeps it from being one of them

Indices == {leaf.index : leaf \in Leaves}

ASSUME DistributorAssumption ==
  /\ IsFiniteSet(Leaves) /\ IsFiniteSet(Receivers)
  /\ Leaves \subseteq [index : Nat, claimant : Owners, amount : Nat]
  /\ MaxTotalClaims \subseteq Nat /\ MaxNumNodes \subseteq Nat /\ ClawbackStarts \subseteq Nat

VARIABLES
  max_total_claim, max_num_nodes,          \* fields of the MerkleDistributor
  total_amount_claimed, num_nodes_claimed,
  admin, clawback_start_ts, clawback_receiver, clawed_back,
  claim_status,                            \* the ClaimStatus of each index
  token_vault,                             \* balance of the distributor's token account
  funded,                                  \* history: all that was paid into it
  returned                                 \* history: what each receiver got back

limits == <<max_total_claim, max_num_nodes, clawback_start_ts>>
totals == <<total_amount_claimed, num_nodes_claimed, claim_status>>
roles == <<admin, clawback_receiver>>
distributorVars ==
  <<limits, totals, roles, clawed_back, token_vault, funded, returned>>
distributorState == <<now, metVars, distributorVars>>

-----------------------------------------------------------------------------
Unclaimed == [is_claimed |-> FALSE, claimant |-> NoKey, claimed_at |-> 0, amount |-> 0]

\* The state new_distributor leaves behind.
DistributorInit ==
  /\ max_total_claim \in MaxTotalClaims
  /\ max_num_nodes \in MaxNumNodes
  /\ clawback_start_ts \in {t \in ClawbackStarts : t >= now + ONE_DAY}
  /\ total_amount_claimed = 0
  /\ num_nodes_claimed = 0
  /\ admin \in Admins
  /\ clawback_receiver \in Receivers
  /\ clawed_back = FALSE
  /\ claim_status = [i \in Indices |-> Unclaimed]
  /\ token_vault = 0
  /\ funded = 0
  /\ returned = [r \in Receivers |-> 0]

\* A plain token transfer into the vault, by anyone at any time.
FundVault(amount) ==
  /\ amount <= circulating
  /\ circulating' = circulating - amount
  /\ token_vault' = token_vault + amount
  /\ funded' = funded + amount
  /\ UNCHANGED <<params, expiration, locked_supply, total_escrow, escrows, vault>>
  /\ UNCHANGED <<limits, totals, roles, clawed_back, returned>>

\* Limits checked before the claim is counted: one claim too many.
WithinOldLimits(amount) ==
  total_amount_claimed <= max_total_claim /\ num_nodes_claimed <= max_num_nodes
WithinLimits(amount) ==
  /\ total_amount_claimed + amount <= max_total_claim
  /\ num_nodes_claimed + 1 <= max_num_nodes

\* The call of met-voter; a mutant does without its checks.
CreditUnchecked(o, amount) ==
  /\ escrows' = [escrows EXCEPT ![o].amount = @ + amount]
  /\ vault' = [vault EXCEPT ![o] = @ + amount]
  /\ locked_supply' = locked_supply + amount
  /\ UNCHANGED <<params, expiration, total_escrow>>
Credit(o, amount) == Deposit(o, amount)

\* The ClaimStatus of an index is created by its claim; a mutant keeps one for
\* each claimant.
UnclaimedBySame(leaf) == claim_status[leaf.index].claimant # leaf.claimant
IsUnclaimed(leaf) == ~ claim_status[leaf.index].is_claimed

\* Signed by the claimant; a ClaimStatus is created, which fails if the index
\* has one.  A failing deposit takes the whole claim back.
Claim(leaf) ==
  /\ ~ clawed_back
  /\ IsUnclaimed(leaf)
  /\ WithinLimits(leaf.amount)
  /\ leaf.amount <= token_vault
  /\ Credit(leaf.claimant, leaf.amount)
  /\ token_vault' = token_vault - leaf.amount
  /\ claim_status' = [claim_status EXCEPT ![leaf.index] =
       [is_claimed |-> TRUE, claimant |-> leaf.claimant, claimed_at |-> now,
        amount |-> leaf.amount]]
  /\ total_amount_claimed' = total_amount_claimed + leaf.amount
  /\ num_nodes_claimed' = num_nodes_claimed + 1
  /\ UNCHANGED <<circulating, limits, roles, clawed_back, funded, returned>>

\* Pays out what is in the vault, if not to the vault itself.  Anyone may
\* send it, once.
PaidBack == IF clawback_receiver = TokenVault THEN 0 ELSE token_vault

Clawback ==
  /\ ~ clawed_back
  /\ now >= clawback_start_ts
  /\ token_vault' = token_vault - PaidBack
  /\ returned' = [returned EXCEPT ![clawback_receiver] = @ + PaidBack]
  /\ circulating' = circulating + PaidBack
  /\ clawed_back' = TRUE
  /\ UNCHANGED <<params, expiration, locked_supply, total_escrow, escrows, vault>>
  /\ UNCHANGED <<limits, totals, roles, funded>>

\* Both are signed by the admin and refuse the present value.
SetAdmin(new_admin) ==
  /\ new_admin # admin
  /\ admin' = new_admin
  /\ UNCHANGED <<metVars, limits, totals, clawback_receiver, clawed_back, token_vault,
                 funded, returned>>

SetClawbackReceiver(r) ==
  /\ r # clawback_receiver
  /\ clawback_receiver' = r
  /\ UNCHANGED <<metVars, limits, totals, admin, clawed_back, token_vault, funded, returned>>

-----------------------------------------------------------------------------
DistributorNext ==
  \/ \E leaf \in Leaves : Claim(leaf)
  \/ Clawback
  \/ \E k \in Admins : SetAdmin(k)
  \/ \E r \in Receivers : SetClawbackReceiver(r)
  \/ \E amount \in 1..TokenSupply : FundVault(amount)

DistributorStart == ClockInit /\ MetInit /\ DistributorInit

DistributorStep ==
  \/ /\ DistributorNext \/ (MetNext /\ UNCHANGED distributorVars)
     /\ UNCHANGED now
  \/ Tick /\ UNCHANGED <<metVars, distributorVars>>

DistributorSpec == DistributorStart /\ [][DistributorStep]_distributorState

-----------------------------------------------------------------------------
(* What the distributor owes the claimants and its funders *)

ClaimedIndices == {i \in Indices : claim_status[i].is_claimed}

\* The totals of the distributor are those of its claim statuses, each of
\* which is a leaf of the tree: an index is paid once, to one claimant, also
\* when the tree has it twice.  They stay within what the distributor was
\* created for.
ClaimsAccounted ==
  /\ total_amount_claimed =
       SumFunctionOnSet([i \in Indices |-> claim_status[i].amount], Indices)
  /\ num_nodes_claimed = Cardinality(ClaimedIndices)
  /\ total_amount_claimed <= max_total_claim /\ num_nodes_claimed <= max_num_nodes
  /\ \A i \in ClaimedIndices :
       [index |-> i, claimant |-> claim_status[i].claimant,
        amount |-> claim_status[i].amount] \in Leaves

\* All that was paid into the vault is still there, or was claimed, or was
\* clawed back; and no token appears or is lost between the vault, the
\* escrows and the others' accounts.
TokensAccounted ==
  /\ funded = token_vault + total_amount_claimed + SumFunctionOnSet(returned, Receivers)
  /\ locked_supply = TotalEscrowed
  /\ circulating + token_vault + locked_supply = TokenSupply

\* The most that claims of index i can take.
Share(i) ==
  CHOOSE amount \in {leaf.amount : leaf \in {l \in Leaves : l.index = i}} :
    \A leaf \in Leaves : leaf.index = i => leaf.amount <= amount

TreeTotal == SumFunctionOnSet([i \in Indices |-> Share(i)], Indices)

\* No claimant is shut out by the claims of others: if the distributor was
\* created for its whole tree and the vault was ever given as much, then until
\* the clawback, which nobody can send before clawback_start_ts, every open
\* claim is within the limits and the vault can pay it, in whatever order
\* claims come, and whatever the admin does.
NobodyIsShutOut ==
  max_total_claim >= TreeTotal /\ max_num_nodes >= Cardinality(Indices)
  /\ (now < clawback_start_ts \/ ~ clawed_back) =>
    \A leaf \in Leaves : ~ claim_status[leaf.index].is_claimed =>
      /\ total_amount_claimed + leaf.amount <= max_total_claim
      /\ num_nodes_claimed < max_num_nodes
      /\ funded >= TreeTotal => leaf.amount <= token_vault

\* To met-voter the distributor is one more payer of deposits: a claim is an
\* increase_locked_amount with all its checks, in either phase, and tokens in
\* the vault are tokens outside the escrows.
Met == INSTANCE MetVoter WITH circulating <- circulating + token_vault

ImplementsMetVoter == Met!MetSpec
=============================================================================
