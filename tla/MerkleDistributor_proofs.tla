---------------------- MODULE MerkleDistributor_proofs ----------------------
(***************************************************************************)
(* Proofs about MerkleDistributor and met-voter together, for every tree,  *)
(* every limits and every clawback time that DistributorAssumption admits. *)
(***************************************************************************)
EXTENDS MerkleDistributor, MetVoter_proofs

-----------------------------------------------------------------------------
(* Types *)

Status == [is_claimed : BOOLEAN, claimant : Owners \cup {NoKey}, claimed_at : Nat, amount : Nat]

\* Every account of the distributor and of met-voter holds values of its type.
DistributorTypes ==
  /\ MetTypeOK
  /\ max_total_claim \in Nat /\ max_num_nodes \in Nat /\ clawback_start_ts \in Nat
  /\ total_amount_claimed \in Nat /\ num_nodes_claimed \in Nat
  /\ clawback_receiver \in Receivers
  /\ clawed_back \in BOOLEAN
  /\ claim_status \in [Indices -> Status]
  /\ token_vault \in Nat /\ funded \in Nat
  /\ returned \in [Receivers -> Nat]

\* The tree's indices are finitely many, and every leaf has one.
LEMMA IndicesFinite == IsFiniteSet(Indices) /\ \A leaf \in Leaves : leaf.index \in Indices
<1> DEFINE f == [leaf \in Leaves |-> leaf.index]
<1>1. f \in [Leaves -> Indices] /\ \A i \in Indices : \E leaf \in Leaves : f[leaf] = i
  BY DEF Indices
<1> HIDE DEF f
<1>2. f \in Surjection(Leaves, Indices)
  BY <1>1 DEF Surjection
<1>3. IsFiniteSet(Indices)
  <2>1. IsFiniteSet(Leaves)
    BY DistributorAssumption
  <2> QED BY <1>2, <2>1, FS_Surjection
<1> QED BY <1>3 DEF Indices

\* What met-voter is before anything was funded or claimed.
LEMMA StartTyped == DistributorStart => DistributorTypes
<1> SUFFICES ASSUME DistributorStart PROVE DistributorTypes
  OBVIOUS
<1>1. MetTypeOK
  BY InitTyped DEF DistributorStart, MetStart
<1>2. Unclaimed \in Status
  BY DEF Unclaimed, Status
<1>3. claim_status \in [Indices -> Status] /\ returned \in [Receivers -> Nat]
  BY <1>2 DEF DistributorStart, DistributorInit
<1> QED BY <1>1, <1>3, DistributorAssumption DEF DistributorStart, DistributorInit, DistributorTypes

\* The instructions of met-voter, of the distributor, and time keep the types.
LEMMA StepTyped ==
  DistributorTypes /\ [DistributorStep]_distributorState => DistributorTypes'
<1> SUFFICES ASSUME DistributorTypes, [DistributorStep]_distributorState PROVE DistributorTypes'
  OBVIOUS
<1>0. MetTypeOK /\ circulating \in Nat /\ token_vault \in Nat
  BY DEF DistributorTypes, MetTypeOK
<1>1. ASSUME UNCHANGED distributorVars, MetTypeOK' PROVE DistributorTypes'
  BY <1>1 DEF DistributorTypes, distributorVars, limits, totals, roles
<1>2. ASSUME MetNext, UNCHANGED now, UNCHANGED distributorVars PROVE DistributorTypes'
  BY <1>0, <1>1, <1>2, NextTyped DEF MetStep
<1>3. ASSUME NEW leaf \in Leaves, Claim(leaf), UNCHANGED now PROVE DistributorTypes'
  <2>1. leaf.index \in Indices /\ leaf.claimant \in Owners /\ leaf.amount \in Nat /\ now \in Nat
    BY IndicesFinite, DistributorAssumption DEF DistributorTypes, MetTypeOK
  <2>2. MetTypeOK'
    BY <1>0, <1>3, <2>1, DepositTyped DEF Claim, Credit
  <2>3. [is_claimed |-> TRUE, claimant |-> leaf.claimant, claimed_at |-> now,
         amount |-> leaf.amount] \in Status
    BY <2>1 DEF Status
  <2>4. claim_status' \in [Indices -> Status]
    BY <1>3, <2>3 DEF Claim, DistributorTypes
  <2>5. token_vault' \in Nat /\ total_amount_claimed' \in Nat /\ num_nodes_claimed' \in Nat
    BY <1>3, <2>1 DEF Claim, DistributorTypes
  <2> QED BY <1>3, <2>2, <2>4, <2>5 DEF Claim, DistributorTypes, limits, roles
<1>4. ASSUME Clawback, UNCHANGED now PROVE DistributorTypes'
  <2>1. MetTypeOK'
    <3>1. PaidBack \in Nat /\ circulating' = circulating + PaidBack
      BY <1>0, <1>4 DEF Clawback, PaidBack
    <3>2. circulating' \in Nat
      BY <1>0, <3>1
    <3> QED BY <1>0, <1>4, <3>2 DEF Clawback, MetTypeOK
  <2>2. returned' \in [Receivers -> Nat] /\ token_vault' \in Nat
    BY <1>4 DEF Clawback, PaidBack, DistributorTypes
  <2> QED BY <1>4, <2>1, <2>2 DEF Clawback, DistributorTypes, limits, totals, roles
<1>5. ASSUME NEW r \in Receivers, SetClawbackReceiver(r), UNCHANGED now PROVE DistributorTypes'
  BY <1>5 DEF SetClawbackReceiver, DistributorTypes, MetTypeOK, metVars, limits, totals
<1>6. ASSUME NEW k \in Admins, SetAdmin(k), UNCHANGED now PROVE DistributorTypes'
  BY <1>6 DEF SetAdmin, DistributorTypes, MetTypeOK, metVars, limits, totals
<1>7. ASSUME NEW a \in 1..TokenSupply, FundVault(a), UNCHANGED now PROVE DistributorTypes'
  <2>1. a \in Nat
    BY MetAssumption
  <2>2. circulating' \in Nat /\ token_vault' \in Nat /\ funded' \in Nat
    BY <1>0, <1>7, <2>1 DEF FundVault, DistributorTypes
  <2> QED BY <1>7, <2>2 DEF FundVault, DistributorTypes, MetTypeOK, limits, totals, roles
<1>8. ASSUME Tick, UNCHANGED <<metVars, distributorVars>> PROVE DistributorTypes'
  BY <1>0, <1>1, <1>8, NextTyped DEF MetStep
<1>9. ASSUME UNCHANGED distributorState PROVE DistributorTypes'
  BY <1>0, <1>1, <1>9, NextTyped DEF distributorState, metState
<1> QED BY <1>2, <1>3, <1>4, <1>5, <1>6, <1>7, <1>8, <1>9 DEF DistributorStep, DistributorNext

-----------------------------------------------------------------------------
(* Tokens *)

TokensInv == TokensAccounted /\ BooksBalance

\* Tokens are conserved between the vault, the escrows and everyone else, and
\* what was paid into the vault is there, or claimed, or clawed back.
LEMMA StepTokens ==
  DistributorTypes /\ DistributorTypes' /\ TokensInv /\ [DistributorStep]_distributorState
  => TokensInv'
<1> SUFFICES ASSUME DistributorTypes, DistributorTypes', TokensInv,
                    [DistributorStep]_distributorState
             PROVE  TokensInv'
  OBVIOUS
<1> DEFINE back == SumFunctionOnSet(returned, Receivers)
<1>0. /\ MetTypeOK /\ MetTypeOK' /\ circulating \in Nat /\ token_vault \in Nat /\ locked_supply \in Nat
      /\ total_amount_claimed \in Nat /\ funded \in Nat
      /\ returned \in [Receivers -> Nat] /\ returned' \in [Receivers -> Nat]
  BY DEF DistributorTypes, MetTypeOK
<1>1. /\ funded = token_vault + total_amount_claimed + back
      /\ circulating + token_vault + locked_supply = TokenSupply
      /\ BooksBalance
  BY DEF TokensInv, TokensAccounted
<1>2. back \in Int
  BY <1>0, DistributorAssumption, SumIsInt
<1>3. ASSUME BooksBalance', UNCHANGED <<funded, token_vault, total_amount_claimed, returned>>,
             circulating' + locked_supply' = circulating + locked_supply
      PROVE  TokensInv'
  <2>1. circulating' \in Nat /\ locked_supply' \in Nat
    BY <1>0 DEF MetTypeOK
  <2>2. circulating' + token_vault + locked_supply' = TokenSupply
    <3>1. circulating' + locked_supply' = circulating + locked_supply
      BY <1>3
    <3>2. circulating \in Nat /\ token_vault \in Nat /\ locked_supply \in Nat
      BY <1>0
    <3> DEFINE x == circulating'
               y == locked_supply'
    <3>3. x \in Nat /\ y \in Nat /\ x + y = circulating + locked_supply
      BY <2>1, <3>1
    <3> HIDE DEF x, y
    <3>4. x + token_vault + y = circulating + token_vault + locked_supply
      BY <3>2, <3>3
    <3> QED BY <1>1, <3>4 DEF x, y
  <2> QED BY <1>1, <1>3, <2>2 DEF TokensInv, TokensAccounted, BooksBalance
<1>4. ASSUME EscrowNext, UNCHANGED distributorVars PROVE TokensInv'
  BY <1>0, <1>1, <1>3, <1>4, EscrowStepBalances DEF distributorVars, totals
<1>5. ASSUME NEW o \in Owners, NEW a \in 1..TokenSupply, IncreaseLockedAmount(o, a),
             UNCHANGED distributorVars
      PROVE  TokensInv'
  <2>1. a \in Nat
    BY MetAssumption
  <2>2. BooksBalance' /\ locked_supply' = locked_supply + a
    BY <1>0, <1>1, <1>5, <2>1, DepositBalances DEF IncreaseLockedAmount
  <2>3. circulating' + locked_supply' = circulating + locked_supply
    BY <1>0, <1>5, <2>1, <2>2 DEF IncreaseLockedAmount
  <2> QED BY <1>3, <1>5, <2>2, <2>3 DEF distributorVars, totals
<1>6. ASSUME NEW leaf \in Leaves, Claim(leaf) PROVE TokensInv'
  <2> DEFINE a == leaf.amount
  <2>1. leaf.claimant \in Owners /\ a \in Nat
    BY DistributorAssumption
  <2>2. BooksBalance' /\ locked_supply' = locked_supply + a
    BY <1>0, <1>1, <1>6, <2>1, DepositBalances DEF Claim, Credit
  <2>3. /\ token_vault' = token_vault - a /\ total_amount_claimed' = total_amount_claimed + a
        /\ UNCHANGED <<circulating, funded, returned>>
    BY <1>6 DEF Claim
  <2> HIDE DEF a
  <2>4. /\ circulating' + token_vault' + locked_supply' = TokenSupply
        /\ funded' = token_vault' + total_amount_claimed' + back'
    <3> HIDE DEF back
    <3>1. back' = back
      BY <2>3 DEF back
    <3> QED BY <1>0, <1>1, <1>2, <2>1, <2>2, <2>3, <3>1
  <2> QED BY <2>2, <2>4 DEF TokensInv, TokensAccounted, BooksBalance
<1>7. ASSUME Clawback PROVE TokensInv'
  <2> DEFINE paid == PaidBack
  <2>0. paid \in Nat
    BY <1>0 DEF PaidBack
  <2>1. /\ token_vault' = token_vault - paid /\ circulating' = circulating + paid
        /\ returned' = [returned EXCEPT ![clawback_receiver] = @ + paid]
        /\ UNCHANGED <<locked_supply, total_amount_claimed, funded, escrows, vault>>
    BY <1>7 DEF Clawback, totals
  <2> HIDE DEF paid
  <2>2. clawback_receiver \in Receivers
    BY DEF DistributorTypes
  <2>3. SumFunctionOnSet(returned', Receivers)
          = back - returned[clawback_receiver] + returned'[clawback_receiver]
    <3>1. \A r \in Receivers \ {clawback_receiver} : returned[r] = returned'[r]
      BY <1>0, <2>1
    <3>2. \A r \in Receivers : returned[r] \in Int /\ returned'[r] \in Int
      BY <1>0
    <3>3. IsFiniteSet(Receivers)
      BY DistributorAssumption
    <3> QED BY <2>2, <3>1, <3>2, <3>3, SumUpdate
  <2>4. returned'[clawback_receiver] = returned[clawback_receiver] + paid
        /\ returned[clawback_receiver] \in Nat
    BY <1>0, <2>0, <2>1, <2>2
  <2>5. back' = back + paid
    <3> HIDE DEF back
    <3>1. SumFunctionOnSet(returned', Receivers) = back + paid
      BY <1>0, <1>2, <2>0, <2>3, <2>4
    <3> QED BY <3>1 DEF back
  <2>6. BooksBalance'
    BY <1>1, <2>1 DEF BooksBalance, TotalEscrowed
  <2> HIDE DEF back
  <2>7. /\ circulating' + token_vault' + locked_supply' = TokenSupply
        /\ funded' = token_vault' + total_amount_claimed' + back'
    BY <1>0, <1>1, <1>2, <2>0, <2>1, <2>5
  <2> QED BY <2>6, <2>7 DEF TokensInv, TokensAccounted, BooksBalance, back
<1>8. ASSUME NEW a \in 1..TokenSupply, FundVault(a) PROVE TokensInv'
  <2>1. a \in Nat
    BY MetAssumption
  <2>2. /\ circulating' = circulating - a /\ token_vault' = token_vault + a /\ funded' = funded + a
        /\ UNCHANGED <<locked_supply, total_amount_claimed, returned, escrows, vault>>
    BY <1>8 DEF FundVault, totals
  <2>3. BooksBalance'
    BY <1>1, <2>2 DEF BooksBalance, TotalEscrowed
  <2> HIDE DEF back
  <2>4. back' = back
    BY <2>2 DEF back
  <2>5. /\ circulating' + token_vault' + locked_supply' = TokenSupply
        /\ funded' = token_vault' + total_amount_claimed' + back'
    BY <1>0, <1>1, <1>2, <2>1, <2>2, <2>4
  <2> QED BY <2>3, <2>5 DEF TokensInv, TokensAccounted, BooksBalance, back
<1>9. ASSUME UNCHANGED <<metVars, funded, token_vault, total_amount_claimed, returned>>
      PROVE  TokensInv'
  BY <1>9 DEF TokensInv, TokensAccounted, BooksBalance, TotalEscrowed, metVars
<1>10. ASSUME NEW k, SetAdmin(k) PROVE TokensInv'
  BY <1>9, <1>10 DEF SetAdmin, totals
<1>11. ASSUME NEW r, SetClawbackReceiver(r) PROVE TokensInv'
  BY <1>9, <1>11 DEF SetClawbackReceiver, totals
<1>12. ASSUME UNCHANGED <<metVars, distributorVars>> PROVE TokensInv'
  BY <1>9, <1>12 DEF distributorVars, totals
<1> QED BY <1>4, <1>5, <1>6, <1>7, <1>8, <1>10, <1>11, <1>12
       DEF DistributorStep, DistributorNext, MetNext, distributorState

\* The tokens and the books of every behaviour.
LEMMA TokensAlways == DistributorSpec => []TokensInv
<1>1. DistributorStart => TokensInv
  <2> SUFFICES ASSUME DistributorStart PROVE TokensInv
    OBVIOUS
  <2>1. SupplyAccounted
    BY InitAccounts DEF DistributorStart, MetStart
  <2>2. SumFunctionOnSet(returned, Receivers) = 0
    <3>1. \A r \in Receivers : returned[r] = 0
      BY DEF DistributorStart, DistributorInit
    <3> QED BY <3>1, DistributorAssumption, SumOfZeros
  <2>3. /\ token_vault = 0 /\ funded = 0 /\ total_amount_claimed = 0
        /\ circulating = TokenSupply /\ locked_supply = 0
    BY DEF DistributorStart, DistributorInit, MetInit
  <2>4. funded = token_vault + total_amount_claimed + SumFunctionOnSet(returned, Receivers)
    BY <2>2, <2>3
  <2>5. circulating + token_vault + locked_supply = TokenSupply
    BY <2>3, MetAssumption
  <2> QED BY <2>1, <2>4, <2>5 DEF TokensInv, TokensAccounted, SupplyAccounted, BooksBalance
<1>2. DistributorTypes /\ DistributorTypes' /\ TokensInv /\ [DistributorStep]_distributorState
        => TokensInv'
  BY StepTokens
<1> QED BY <1>1, <1>2, StartTyped, StepTyped, PTL DEF DistributorSpec

\* Funding, claims, the clawback and met-voter's own deposits and withdrawals
\* neither make nor lose a token.
THEOREM TokensAlwaysAccounted == DistributorSpec => []TokensAccounted
<1>1. TokensInv => TokensAccounted
  BY DEF TokensInv
<1> QED BY <1>1, TokensAlways, PTL

-----------------------------------------------------------------------------
(* Claims *)

\* An index without a claim has no amount, nobody got anything back before the
\* clawback, and the clawback was not too early.
ClaimsInv ==
  /\ ClaimsAccounted
  /\ \A i \in Indices : ~ claim_status[i].is_claimed => claim_status[i] = Unclaimed
  /\ clawed_back => now >= clawback_start_ts
  /\ ~ clawed_back => \A r \in Receivers : returned[r] = 0

\* A claim adds its leaf to the accounts.
LEMMA ClaimCounted ==
  ASSUME DistributorTypes, DistributorTypes', ClaimsInv, NEW leaf \in Leaves, Claim(leaf)
  PROVE  ClaimsAccounted'
<1> DEFINE i == leaf.index
           a == leaf.amount
           status == [is_claimed |-> TRUE, claimant |-> leaf.claimant, claimed_at |-> now,
                      amount |-> a]
           f == [j \in Indices |-> claim_status[j].amount]
           g == [j \in Indices |-> claim_status'[j].amount]
<1>1. /\ i \in Indices /\ a \in Nat
      /\ leaf = [index |-> i, claimant |-> leaf.claimant, amount |-> a]
  BY IndicesFinite, DistributorAssumption
<1>2. /\ claim_status' = [claim_status EXCEPT ![i] = status]
      /\ ~ claim_status[i].is_claimed
      /\ total_amount_claimed' = total_amount_claimed + a
      /\ num_nodes_claimed' = num_nodes_claimed + 1
      /\ total_amount_claimed + a <= max_total_claim /\ num_nodes_claimed + 1 <= max_num_nodes
      /\ UNCHANGED limits
  BY DEF Claim, IsUnclaimed, WithinLimits
<1>3. /\ claim_status'[i] = status
      /\ \A j \in Indices \ {i} : claim_status'[j] = claim_status[j]
      /\ status.is_claimed /\ status.amount = a /\ status.claimant = leaf.claimant
  BY <1>1, <1>2 DEF DistributorTypes
<1> HIDE DEF status
<1>4. total_amount_claimed' = SumFunctionOnSet(g, Indices)
  <2>1. \A j \in Indices : f[j] \in Int /\ g[j] \in Int
    BY DEF DistributorTypes, Status
  <2>2. \A j \in Indices \ {i} : f[j] = g[j]
    BY <1>3
  <2>3. f[i] = 0 /\ g[i] = a
    BY <1>1, <1>2, <1>3 DEF ClaimsInv, Unclaimed
  <2>4. total_amount_claimed = SumFunctionOnSet(f, Indices)
    BY DEF ClaimsInv, ClaimsAccounted
  <2> HIDE DEF f, g
  <2>5. SumFunctionOnSet(g, Indices) = SumFunctionOnSet(f, Indices) - f[i] + g[i]
    BY <1>1, <2>1, <2>2, IndicesFinite, SumUpdate
  <2>6. total_amount_claimed \in Nat
    BY DEF DistributorTypes
  <2> QED BY <1>1, <1>2, <2>3, <2>4, <2>5, <2>6
<1>5. num_nodes_claimed' = Cardinality(ClaimedIndices')
  <2>1. ClaimedIndices' = ClaimedIndices \cup {i} /\ i \notin ClaimedIndices
    BY <1>1, <1>2, <1>3 DEF ClaimedIndices
  <2>2. IsFiniteSet(ClaimedIndices)
    BY IndicesFinite, FS_Subset DEF ClaimedIndices
  <2>3. Cardinality(ClaimedIndices \cup {i}) = Cardinality(ClaimedIndices) + 1
    BY <2>1, <2>2, FS_AddElement
  <2>4. num_nodes_claimed = Cardinality(ClaimedIndices)
    BY DEF ClaimsInv, ClaimsAccounted
  <2> QED BY <1>2, <2>1, <2>3, <2>4
<1>6. total_amount_claimed' <= max_total_claim' /\ num_nodes_claimed' <= max_num_nodes'
  BY <1>2 DEF limits
<1>7. ASSUME NEW j \in ClaimedIndices'
      PROVE  [index |-> j, claimant |-> claim_status'[j].claimant,
              amount |-> claim_status'[j].amount] \in Leaves
  <2>1. CASE j = i
    BY <1>1, <1>3, <2>1
  <2>2. CASE j # i
    <3>1. j \in Indices /\ claim_status'[j].is_claimed
      BY <1>7 DEF ClaimedIndices
    <3>2. claim_status'[j] = claim_status[j] /\ j \in ClaimedIndices
      BY <1>3, <2>2, <3>1 DEF ClaimedIndices
    <3> QED BY <3>2 DEF ClaimsInv, ClaimsAccounted
  <2> QED BY <2>1, <2>2
<1> QED BY <1>4, <1>5, <1>6, <1>7 DEF ClaimsAccounted

\* Every step keeps the claims accounted for.
LEMMA StepClaims ==
  DistributorTypes /\ DistributorTypes' /\ ClaimsInv /\ [DistributorStep]_distributorState
  => ClaimsInv'
<1> SUFFICES ASSUME DistributorTypes, DistributorTypes', ClaimsInv,
                    [DistributorStep]_distributorState
             PROVE  ClaimsInv'
  OBVIOUS
<1>0. /\ now \in Nat /\ now' \in Nat /\ clawback_start_ts \in Nat
      /\ claim_status \in [Indices -> Status] /\ returned \in [Receivers -> Nat]
  BY DEF DistributorTypes, MetTypeOK
<1>1. ASSUME UNCHANGED <<limits, totals>> PROVE ClaimsAccounted'
  BY <1>1 DEF ClaimsInv, ClaimsAccounted, ClaimedIndices, limits, totals
<1>2. ASSUME UNCHANGED <<limits, totals, clawed_back, returned>>, now' >= now
      PROVE  ClaimsInv'
  <2>1. clawed_back' => now' >= clawback_start_ts'
    BY <1>0, <1>2 DEF ClaimsInv, limits
  <2>2. \A i \in Indices : ~ claim_status'[i].is_claimed => claim_status'[i] = Unclaimed
    BY <1>2 DEF ClaimsInv, totals
  <2> QED BY <1>1, <1>2, <2>1, <2>2 DEF ClaimsInv
<1>3. ASSUME NEW leaf \in Leaves, Claim(leaf), UNCHANGED now PROVE ClaimsInv'
  <2>1. ClaimsAccounted'
    BY <1>3, ClaimCounted
  <2>2. \A i \in Indices : ~ claim_status'[i].is_claimed => claim_status'[i] = Unclaimed
    BY <1>0, <1>3 DEF Claim, ClaimsInv
  <2> QED BY <1>3, <2>1, <2>2 DEF Claim, ClaimsInv, limits
<1>4. ASSUME Clawback, UNCHANGED now PROVE ClaimsInv'
  <2>1. ClaimsAccounted' /\ clawed_back' /\ now' >= clawback_start_ts'
    BY <1>1, <1>4 DEF Clawback, limits
  <2>2. \A i \in Indices : ~ claim_status'[i].is_claimed => claim_status'[i] = Unclaimed
    BY <1>4 DEF Clawback, ClaimsInv, totals
  <2> QED BY <2>1, <2>2 DEF ClaimsInv
<1>5. ASSUME UNCHANGED now,
             \/ \E r \in Receivers : SetClawbackReceiver(r)
             \/ \E k \in Admins : SetAdmin(k)
             \/ \E b \in 1..TokenSupply : FundVault(b)
             \/ UNCHANGED distributorVars
      PROVE  ClaimsInv'
  BY <1>0, <1>2, <1>5 DEF SetClawbackReceiver, SetAdmin, FundVault, distributorVars
<1>6. ASSUME Tick, UNCHANGED <<metVars, distributorVars>> PROVE ClaimsInv'
  BY <1>0, <1>2, <1>6 DEF Tick, distributorVars
<1> QED BY <1>3, <1>4, <1>5, <1>6 DEF DistributorStep, DistributorNext, distributorState

\* The invariant of every behaviour of the distributor.
LEMMA ClaimsAlways == DistributorSpec => [](DistributorTypes /\ TokensAccounted /\ ClaimsInv)
<1>1. DistributorStart => ClaimsInv
  <2> SUFFICES ASSUME DistributorStart PROVE ClaimsInv
    OBVIOUS
  <2> USE DEF DistributorStart, DistributorInit
  <2> DEFINE f == [i \in Indices |-> claim_status[i].amount]
  <2>1. \A i \in Indices : f[i] = 0 /\ ~ claim_status[i].is_claimed
    BY DEF Unclaimed
  <2>2. SumFunctionOnSet(f, Indices) = 0
    <3> HIDE DEF f
    <3> QED BY <2>1, IndicesFinite, SumOfZeros
  <2>3. ClaimedIndices = {} /\ Cardinality({}) = 0
    BY <2>1, FS_EmptySet DEF ClaimedIndices
  <2> QED BY <2>1, <2>2, <2>3, DistributorAssumption DEF ClaimsInv, ClaimsAccounted
<1>2. DistributorTypes /\ DistributorTypes' /\ ClaimsInv /\ [DistributorStep]_distributorState
        => ClaimsInv'
  BY StepClaims
<1> QED BY <1>1, <1>2, StartTyped, StepTyped, TokensAlwaysAccounted, PTL DEF DistributorSpec

\* An index is paid once, to one claimant, also when the tree has it twice, and
\* the distributor's totals count exactly that, within its limits.
THEOREM ClaimsAlwaysAccounted == DistributorSpec => []ClaimsAccounted
<1>1. ClaimsInv => ClaimsAccounted
  BY DEF ClaimsInv
<1> QED BY <1>1, ClaimsAlways, PTL

-----------------------------------------------------------------------------
(* Nobody is shut out *)

\* The share of an index is an amount, and no leaf of the index exceeds it.
LEMMA ShareIsMost ==
  ASSUME NEW i \in Indices
  PROVE  Share(i) \in Nat /\ \A leaf \in Leaves : leaf.index = i => leaf.amount <= Share(i)
<1> DEFINE S == {l \in Leaves : l.index = i}
           P == {T \in SUBSET S : T = {} \/ \E m \in T : \A l \in T : l.amount <= m.amount}
<1>1. S # {} /\ IsFiniteSet(S) /\ \A l \in S : l.amount \in Nat
  <2>1. IsFiniteSet(Leaves)
    BY DistributorAssumption
  <2>2. IsFiniteSet(S)
    BY <2>1, FS_Subset
  <2> QED BY <2>2, DistributorAssumption DEF Indices
<1>2. {} \in P
  OBVIOUS
<1>3. ASSUME NEW T \in SUBSET S, T # {}, \A x \in T : T \ {x} \in P
      PROVE  T \in P
  <2>1. PICK x \in T : TRUE
    BY <1>3
  <2>2. x.amount \in Nat /\ \A l \in T : l.amount \in Nat
    BY <1>1, <2>1
  <2>3. T \ {x} \in P
    BY <1>3, <2>1
  <2>4. CASE T \ {x} = {}
    BY <2>1, <2>2, <2>4
  <2>5. CASE T \ {x} # {}
    <3>1. PICK m \in T \ {x} : \A l \in T \ {x} : l.amount <= m.amount
      BY <2>3, <2>5
    <3>2. CASE x.amount <= m.amount
      BY <3>1, <3>2
    <3>3. CASE x.amount > m.amount
      BY <2>1, <2>2, <3>1, <3>3
    <3> QED BY <2>2, <3>1, <3>2, <3>3
  <2> QED BY <2>4, <2>5
<1>4. S \in P
  <2> HIDE DEF P, S
  <2>1. \A T \in SUBSET S : T \in P
    BY <1>1, <1>2, <1>3, SubsetInduction
  <2> QED BY <2>1
<1>5. PICK m \in S : \A l \in S : l.amount <= m.amount
  BY <1>1, <1>4
<1>6. /\ m.amount \in {leaf.amount : leaf \in {l \in Leaves : l.index = i}}
      /\ \A leaf \in Leaves : leaf.index = i => leaf.amount <= m.amount
  BY <1>5
<1>7. /\ Share(i) \in {leaf.amount : leaf \in {l \in Leaves : l.index = i}}
      /\ \A leaf \in Leaves : leaf.index = i => leaf.amount <= Share(i)
  BY <1>6 DEF Share
<1> QED BY <1>7, DistributorAssumption

\* What is claimed, and one leaf that is not, fit together in the tree's total.
LEMMA RoomForLeaf ==
  ASSUME DistributorTypes, ClaimsInv, NEW leaf \in Leaves, ~ claim_status[leaf.index].is_claimed
  PROVE  /\ TreeTotal \in Int
         /\ total_amount_claimed + leaf.amount <= TreeTotal
         /\ num_nodes_claimed < Cardinality(Indices)
<1> DEFINE i == leaf.index
           a == leaf.amount
           f == [j \in Indices |-> claim_status[j].amount]
           g == [j \in Indices |-> IF j = i THEN a ELSE claim_status[j].amount]
           h == [j \in Indices |-> Share(j)]
<1>1. i \in Indices /\ a \in Nat /\ IsFiniteSet(Indices)
  BY IndicesFinite, DistributorAssumption
<1>2. \A j \in Indices : f[j] \in Nat /\ g[j] \in Nat /\ h[j] \in Nat
  BY <1>1, ShareIsMost DEF DistributorTypes, Status
<1>3. f[i] = 0 /\ g[i] = a /\ \A j \in Indices \ {i} : f[j] = g[j]
  BY <1>1 DEF ClaimsInv, Unclaimed
<1>4. \A j \in Indices : g[j] <= h[j]
  <2> SUFFICES ASSUME NEW j \in Indices PROVE g[j] <= h[j]
    OBVIOUS
  <2>1. CASE j = i
    BY <1>1, <2>1, ShareIsMost
  <2>2. CASE j # i /\ claim_status[j].is_claimed
    <3> DEFINE l == [index |-> j, claimant |-> claim_status[j].claimant,
                     amount |-> claim_status[j].amount]
    <3>1. l \in Leaves
      BY <2>2 DEF ClaimsInv, ClaimsAccounted, ClaimedIndices
    <3>2. l.index = j /\ l.amount = claim_status[j].amount
      OBVIOUS
    <3> HIDE DEF l
    <3>3. claim_status[j].amount <= Share(j)
      BY <3>1, <3>2, ShareIsMost
    <3> QED BY <2>2, <3>3
  <2>3. CASE j # i /\ ~ claim_status[j].is_claimed
    <3>1. claim_status[j].amount = 0
      BY <2>3 DEF ClaimsInv, Unclaimed
    <3> QED BY <1>2, <2>3, <3>1
  <2> QED BY <2>1, <2>2, <2>3
<1>5. total_amount_claimed = SumFunctionOnSet(f, Indices) /\ TreeTotal = SumFunctionOnSet(h, Indices)
  BY DEF ClaimsInv, ClaimsAccounted, TreeTotal
<1>6. total_amount_claimed \in Nat
  BY DEF DistributorTypes
<1> HIDE DEF f, g, h
<1>7. SumFunctionOnSet(g, Indices) = SumFunctionOnSet(f, Indices) - f[i] + g[i]
  <2>1. \A j \in Indices : f[j] \in Int /\ g[j] \in Int
    BY <1>2
  <2>2. \A j \in Indices \ {i} : f[j] = g[j]
    BY <1>3
  <2>3. IsFiniteSet(Indices)
    BY <1>1
  <2>4. i \in Indices
    BY <1>1
  <2> HIDE DEF i
  <2> QED BY <2>1, <2>2, <2>3, <2>4, SumUpdate
<1>8. SumFunctionOnSet(g, Indices) <= SumFunctionOnSet(h, Indices)
  BY <1>1, <1>2, <1>4, SumMonotone
<1>9. SumFunctionOnSet(h, Indices) \in Int
  BY <1>1, <1>2, SumIsInt
<1>10. total_amount_claimed + a <= TreeTotal
  BY <1>1, <1>3, <1>5, <1>6, <1>7, <1>8, <1>9
<1>11. num_nodes_claimed < Cardinality(Indices)
  <2>1. ClaimedIndices \subseteq Indices \ {i} /\ num_nodes_claimed = Cardinality(ClaimedIndices)
    BY DEF ClaimsInv, ClaimsAccounted, ClaimedIndices
  <2>2. /\ IsFiniteSet(Indices \ {i}) /\ Cardinality(Indices \ {i}) = Cardinality(Indices) - 1
    BY <1>1, FS_RemoveElement
  <2>3. Cardinality(ClaimedIndices) <= Cardinality(Indices \ {i})
    BY <2>1, <2>2, FS_Subset
  <2>4. Cardinality(Indices) \in Nat /\ num_nodes_claimed \in Nat
    BY <1>1, FS_CardinalityType DEF DistributorTypes
  <2> QED BY <2>1, <2>2, <2>3, <2>4
<1> QED BY <1>5, <1>9, <1>10, <1>11

\* If the distributor was created for its whole tree and funded with as much,
\* then until the clawback every open claim is within the limits and can be
\* paid, in whatever order claims come.
THEOREM NobodyIsEverShutOut == DistributorSpec => []NobodyIsShutOut
<1>1. DistributorTypes /\ TokensAccounted /\ ClaimsInv => NobodyIsShutOut
  <2> SUFFICES ASSUME DistributorTypes, TokensAccounted, ClaimsInv,
                      max_total_claim >= TreeTotal, max_num_nodes >= Cardinality(Indices),
                      now < clawback_start_ts \/ ~ clawed_back,
                      NEW leaf \in Leaves, ~ claim_status[leaf.index].is_claimed
               PROVE  /\ total_amount_claimed + leaf.amount <= max_total_claim
                      /\ num_nodes_claimed < max_num_nodes
                      /\ funded >= TreeTotal => leaf.amount <= token_vault
    BY DEF NobodyIsShutOut
  <2>0. /\ total_amount_claimed \in Nat /\ max_total_claim \in Nat /\ max_num_nodes \in Nat
        /\ num_nodes_claimed \in Nat /\ token_vault \in Nat /\ funded \in Nat /\ leaf.amount \in Nat
        /\ now \in Nat /\ clawback_start_ts \in Nat
    BY DistributorAssumption DEF DistributorTypes, MetTypeOK
  <2>1. /\ TreeTotal \in Int
        /\ total_amount_claimed + leaf.amount <= TreeTotal
        /\ num_nodes_claimed < Cardinality(Indices)
    BY RoomForLeaf
  <2>2. Cardinality(Indices) \in Nat
    BY IndicesFinite, FS_CardinalityType
  <2>3. ~ clawed_back
    BY <2>0 DEF ClaimsInv, DistributorTypes
  <2>4. SumFunctionOnSet(returned, Receivers) = 0
    BY <2>3, DistributorAssumption, SumOfZeros DEF ClaimsInv
  <2>5. funded = token_vault + total_amount_claimed
    BY <2>0, <2>4 DEF TokensAccounted
  <2> QED BY <2>0, <2>1, <2>2, <2>5
<1> QED BY <1>1, ClaimsAlways, PTL

-----------------------------------------------------------------------------
(* The distributor is a payer of deposits *)

\* A deposit paid by anyone, out of the account he holds or out of the
\* distributor's vault, is met-voter's increase of a locked amount.
LEMMA PayerIncreases ==
  ASSUME NEW o, NEW a \in Nat, NEW before, NEW after,
         before = circulating + token_vault, after = circulating' + token_vault',
         after = before - a, a <= before, Met!Deposit(o, a)
  PROVE  Met!IncreaseLockedAmount(o, a)
BY DEF Met!IncreaseLockedAmount

\* Every step is one of met-voter's, which sees the vault among the tokens
\* outside the escrows, or moves tokens only there.
LEMMA StepIsMetStep ==
  DistributorTypes /\ DistributorTypes' /\ TokensInv /\ [DistributorStep]_distributorState
  => [Met!MetStep]_Met!metState
<1> SUFFICES ASSUME DistributorTypes, DistributorTypes', TokensInv,
                    [DistributorStep]_distributorState
             PROVE  [Met!MetStep]_Met!metState
  OBVIOUS
<1> DEFINE Goal == [Met!MetStep]_Met!metState
<1>0. /\ circulating \in Nat /\ token_vault \in Nat /\ locked_supply \in Nat
      /\ circulating' \in Nat /\ token_vault' \in Nat
      /\ circulating + token_vault + locked_supply = TokenSupply
      /\ TokenSupply \in Nat
      /\ escrows \in [Owners -> MetEscrow]
  BY MetAssumption DEF DistributorTypes, MetTypeOK, TokensInv, TokensAccounted
<1>1. ASSUME UNCHANGED <<now, params, expiration, locked_supply, total_escrow, escrows, vault>>,
             circulating' + token_vault' = circulating + token_vault
      PROVE  Goal
  BY <1>1 DEF Met!metState, Met!metVars
<1>2. ASSUME NEW o \in Owners, NewEscrow(o), UNCHANGED <<now, token_vault>>
      PROVE  Goal
  <2>1. Met!NewEscrow(o)
    BY <1>2 DEF NewEscrow, Met!NewEscrow, ClosedEscrow, Met!ClosedEscrow
  <2> QED BY <1>2, <2>1 DEF Met!MetStep, Met!MetNext, Met!EscrowNext
<1>3. ASSUME NEW o \in Owners, NEW d \in 0..params.max_stake_duration, ExtendLockDuration(o, d),
             UNCHANGED <<now, token_vault>>
      PROVE  Goal
  <2>1. Met!ExtendLockDuration(o, d)
    BY <1>3 DEF ExtendLockDuration, Met!ExtendLockDuration, InitialPhase, Met!InitialPhase,
                RefreshAllowed, Met!RefreshAllowed
  <2> QED BY <1>3, <2>1 DEF Met!MetStep, Met!MetNext, Met!EscrowNext
<1>4. ASSUME NEW o \in Owners, NEW b \in BOOLEAN, ToggleMaxLock(o, b), UNCHANGED <<now, token_vault>>
      PROVE  Goal
  <2>1. Met!ToggleMaxLock(o, b)
    BY <1>4 DEF ToggleMaxLock, Met!ToggleMaxLock, InitialPhase, Met!InitialPhase
  <2> QED BY <1>4, <2>1 DEF Met!MetStep, Met!MetNext, Met!EscrowNext
<1>5. ASSUME NEW o \in Owners, Withdraw(o), UNCHANGED <<now, token_vault>>
      PROVE  Goal
  <2> DEFINE a == escrows[o].amount
  <2>1. a \in Nat /\ circulating' = circulating + a
    BY <1>0, <1>5 DEF Withdraw, MetEscrow
  <2> HIDE DEF a
  <2>2. circulating' + token_vault' = circulating + token_vault + a
    BY <1>0, <1>5, <2>1
  <2>3. Met!Withdraw(o)
    BY <1>5, <2>2 DEF Withdraw, Met!Withdraw, Withdrawable, Met!Withdrawable, InitialPhase,
                      Met!InitialPhase, SupplyWithout, Met!SupplyWithout, ClosedEscrow,
                      Met!ClosedEscrow, a
  <2> QED BY <1>5, <2>3 DEF Met!MetStep, Met!MetNext, Met!EscrowNext
<1>6. ASSUME NEW o \in Owners, NEW d \in Delegates, SetVoteDelegate(o, d),
             UNCHANGED <<now, token_vault>>
      PROVE  Goal
  <2>1. Met!SetVoteDelegate(o, d)
    BY <1>6 DEF SetVoteDelegate, Met!SetVoteDelegate
  <2> QED BY <1>6, <2>1 DEF Met!MetStep, Met!MetNext, Met!EscrowNext
<1>7. ASSUME NEW q \in LockerParams, SetLockerParams(q), UNCHANGED <<now, token_vault>>
      PROVE  Goal
  <2>1. Met!SetLockerParams(q)
    BY <1>7 DEF SetLockerParams, Met!SetLockerParams
  <2> QED BY <1>7, <2>1 DEF Met!MetStep, Met!MetNext, Met!EscrowNext
<1>8. ASSUME NEW t \in Expirations, ChangeLockerExpiration(t), UNCHANGED <<now, token_vault>>
      PROVE  Goal
  <2>1. Met!ChangeLockerExpiration(t)
    BY <1>8 DEF ChangeLockerExpiration, Met!ChangeLockerExpiration, InitialPhase, Met!InitialPhase
  <2> QED BY <1>8, <2>1 DEF Met!MetStep, Met!MetNext, Met!EscrowNext
<1>9. ASSUME NEW o \in Owners, NEW a \in 1..TokenSupply, UNCHANGED now,
             a <= circulating + token_vault,
             circulating' + token_vault' = (circulating + token_vault) - a, Deposit(o, a)
      PROVE  Goal
  <2>1. Met!Deposit(o, a)
    BY <1>9 DEF Deposit, Met!Deposit, MayDeposit, Met!MayDeposit, InitialPhase, Met!InitialPhase,
                RemainingDuration, Met!RemainingDuration
  <2> DEFINE before == circulating + token_vault
             after  == circulating' + token_vault'
  <2>2. before = circulating + token_vault /\ after = circulating' + token_vault'
    OBVIOUS
  <2>3. after = before - a /\ a <= before
    BY <1>9
  <2>4. a \in Nat
    BY <1>0
  <2> HIDE DEF before, after
  <2>5. Met!IncreaseLockedAmount(o, a)
    BY <2>1, <2>2, <2>3, <2>4, PayerIncreases
  <2> QED BY <1>9, <2>5 DEF Met!MetStep, Met!MetNext
<1>10. ASSUME NEW o \in Owners, NEW a \in 1..TokenSupply, IncreaseLockedAmount(o, a),
              UNCHANGED <<now, token_vault>>
       PROVE  Goal
  <2>1. a \in Nat /\ a <= circulating /\ circulating' = circulating - a /\ Deposit(o, a)
    BY <1>0, <1>10 DEF IncreaseLockedAmount
  <2> QED BY <1>0, <1>9, <1>10, <2>1
<1>11. ASSUME NEW leaf \in Leaves, Claim(leaf), UNCHANGED now PROVE Goal
  <2> DEFINE o == leaf.claimant
             a == leaf.amount
  <2>1. o \in Owners /\ a \in Nat
    BY DistributorAssumption
  <2>2. /\ a <= token_vault /\ a > 0 /\ token_vault' = token_vault - a /\ UNCHANGED circulating
        /\ Deposit(o, a)
    BY <1>11 DEF Claim, Credit, Deposit
  <2> HIDE DEF o, a
  <2>3. a \in 1..TokenSupply
    BY <1>0, <2>1, <2>2
  <2>4. circulating' + token_vault' = (circulating + token_vault) - a /\ a <= circulating + token_vault
    BY <1>0, <2>1, <2>2
  <2> QED BY <1>9, <1>11, <2>1, <2>2, <2>3, <2>4
<1>12. ASSUME Clawback, UNCHANGED now PROVE Goal
  <2>1. PaidBack \in Nat
    BY <1>0 DEF PaidBack
  <2>2. circulating' + token_vault' = circulating + token_vault
    BY <1>0, <1>12, <2>1 DEF Clawback
  <2> QED BY <1>1, <1>12, <2>2 DEF Clawback
<1>13. ASSUME NEW a \in 1..TokenSupply, FundVault(a), UNCHANGED now PROVE Goal
  <2>1. a \in Nat
    BY <1>0
  <2>2. circulating' = circulating - a /\ token_vault' = token_vault + a
    BY <1>13 DEF FundVault
  <2>3. circulating' + token_vault' = circulating + token_vault
    BY <1>0, <2>1, <2>2
  <2> QED BY <1>1, <1>13, <2>3 DEF FundVault
<1>14. ASSUME UNCHANGED <<now, metVars, token_vault>> PROVE Goal
  BY <1>1, <1>14 DEF metVars
<1>15. ASSUME UNCHANGED now,
              \/ \E r \in Receivers : SetClawbackReceiver(r)
              \/ \E k \in Admins : SetAdmin(k)
       PROVE  Goal
  BY <1>14, <1>15 DEF SetClawbackReceiver, SetAdmin
<1>16. ASSUME Tick, UNCHANGED <<metVars, distributorVars>> PROVE Goal
  <2>1. Met!Tick /\ UNCHANGED Met!metVars
    BY <1>16 DEF Tick, Met!Tick, Met!metVars, metVars, distributorVars
  <2> QED BY <2>1 DEF Met!MetStep
<1>17. ASSUME MetNext, UNCHANGED distributorVars, UNCHANGED now PROVE Goal
  <2>1. UNCHANGED <<now, token_vault>>
    BY <1>17 DEF distributorVars
  <2> HIDE DEF Goal
  <2> QED BY <1>2, <1>3, <1>4, <1>5, <1>6, <1>7, <1>8, <1>10, <1>17, <2>1 DEF MetNext, EscrowNext
<1>18. ASSUME UNCHANGED distributorState PROVE Goal
  BY <1>14, <1>18 DEF distributorState, distributorVars
<1> HIDE DEF Goal
<1>19. Goal
  BY <1>11, <1>12, <1>13, <1>15, <1>16, <1>17, <1>18 DEF DistributorStep, DistributorNext
<1> QED BY <1>19 DEF Goal

\* To met-voter the distributor is one more payer of deposits: whatever holds
\* of every behaviour of met-voter holds with it.
THEOREM DistributorImplementsMetVoter == DistributorSpec => ImplementsMetVoter
<1>1. DistributorStart => Met!MetStart
  <2> SUFFICES ASSUME DistributorStart PROVE Met!MetStart
    OBVIOUS
  <2>1. circulating + token_vault = TokenSupply
    BY MetAssumption DEF DistributorStart, DistributorInit, MetInit
  <2> QED BY <2>1 DEF DistributorStart, MetInit, Met!MetStart, Met!MetInit, ClockInit,
                      Met!ClockInit, ClosedEscrow, Met!ClosedEscrow
<1>2. DistributorTypes /\ DistributorTypes' /\ TokensInv /\ [DistributorStep]_distributorState
        => [Met!MetStep]_Met!metState
  BY StepIsMetStep
<1> QED BY <1>1, <1>2, StartTyped, StepTyped, TokensAlways, PTL
       DEF DistributorSpec, ImplementsMetVoter, Met!MetSpec
=============================================================================
