--------------------------- MODULE Govern_proofs ---------------------------
(***************************************************************************)
(* Proofs about Govern, for every set of voters, lockers, mints and        *)
(* parameters that GovernAssumption admits.  They are about a governor in  *)
(* an open world, where any locker reports any powers and the smart wallet *)
(* does several of its instructions at once, so that they hold wherever    *)
(* the programs of this repository are composed with govern.               *)
(***************************************************************************)
EXTENDS GovernRefinement, SumTheorems

-----------------------------------------------------------------------------
(* The open world *)

\* What a locker may ask for: any program may be the locker, and report any
\* power for any side.
LockerAsks ==
  \E l \in Lockers, p \in Created :
    \/ ActivateProposal(l, p)
    \/ \E v \in Voters, side \in Nat, power \in Nat : SetVote(l, p, v, side, power)

\* What the governor's smart wallet may do in one transaction: any of its three
\* instructions, any number of times.
WalletActs ==
  /\ governance_params' \in GovernanceParams /\ locker' \in Lockers
  /\ voting_reward' \in VotingReward
  /\ UNCHANGED <<proposal_count, proposals, votes, queued_transactions,
                 reward_vaults, rewards_received, reward_funds>>

\* A governor among other programs.
OpenWorldStep ==
  \/ (OpenNext \/ LockerAsks \/ WalletActs) /\ UNCHANGED now
  \/ Tick /\ UNCHANGED governVars

OpenWorldSpec == GovernStart /\ [][OpenWorldStep]_governState

\* The locker of Govern, which reports the powers in Powers, is one of them.
LEMMA LockerSignedAsks == LockerSigned => LockerAsks
<1>1. Powers \subseteq Nat /\ 0..(MAX_OPTION + 1) \subseteq Nat
  BY GovernAssumption
<1> QED BY <1>1 DEF LockerSigned, LockerAsks

LEMMA LockerIsOfOpenWorld == GovernSpec => OpenWorldSpec
<1>1. [GovernStep]_governState => [OpenWorldStep]_governState
  BY LockerSignedAsks DEF GovernStep, OpenWorldStep
<1> QED BY <1>1, PTL DEF GovernSpec, OpenWorldSpec

-----------------------------------------------------------------------------
(* Types *)

\* The options of a proposal are finitely many.
LEMMA OptionsFinite == IsFiniteSet(Options) /\ ABSTAIN_VOTE_INDEX \in Options
                       /\ AGAINST_VOTE_INDEX \in Options /\ FOR_VOTE_INDEX \in Options
BY GovernAssumption, FS_Interval
   DEF Options, ABSTAIN_VOTE_INDEX, AGAINST_VOTE_INDEX, FOR_VOTE_INDEX

\* The total of a tally is a natural number.
LEMMA TotalVotesIsNat ==
  ASSUME NEW q \in Proposal
  PROVE  TotalVotes(q) \in Nat
<1> DEFINE f == q.option_votes
<1>1. \A s \in Options : f[s] \in Nat
  BY DEF Proposal
<1>2. TotalVotes(q) = SumFunctionOnSet(f, Options)
  BY DEF TotalVotes
<1> HIDE DEF f
<1> QED BY <1>1, <1>2, OptionsFinite, SumOfNats

\* A share of a reward is a natural number.
LEMMA RewardIsNat ==
  ASSUME NEW q \in Proposal, NEW w \in Nat
  PROVE  RewardOf(q, w) \in Nat
<1> DEFINE r == q.voting_reward.reward_per_proposal
           n == TotalVotes(q)
<1>1. r \in Nat
  BY DEF Proposal, VotingReward
<1>2. n \in Nat
  BY TotalVotesIsNat
<1>3. r * w \in Nat
  BY <1>1
<1>4. n # 0 => (r * w) \div n \in Nat
  <2> DEFINE x == r * w
  <2>1. x \in Nat
    BY <1>3
  <2> HIDE DEF x, n
  <2>2. n # 0 => x \div n \in Nat
    BY <2>1, <1>2
  <2> QED BY <2>2 DEF x
<1> HIDE DEF n
<1> QED BY <1>4 DEF RewardOf, n

\* Moving weight between the sides of a tally gives a tally, if none of its
\* sides goes below zero.
LEMMA AddToTyped ==
  ASSUME NEW tally \in [Options -> Nat], NEW side, NEW w \in Int,
         side \in Options => tally[side] + w >= 0
  PROVE  AddTo(tally, side, w) \in [Options -> Nat]
BY DEF AddTo

\* create_governor leaves a well-typed state.
LEMMA GovernInitTyped == GovernStart => GovernTypeOK
<1> SUFFICES ASSUME GovernStart PROVE GovernTypeOK
  OBVIOUS
<1> USE GovernAssumption DEF GovernStart, ClockInit, GovernInit
<1>1. proposal_count \in 0..MaxProposals /\ Created = {}
  BY DEF Created
<1>2. proposals \in [Created -> Proposal]
  BY <1>1
<1>3. ClosedVote \in Vote /\ EmptyTransaction \in QueuedTransaction
  BY DEF ClosedVote, Vote, EmptyTransaction, QueuedTransaction
<1>4. votes \in [ProposalIds -> [Voters -> Vote]]
  BY <1>3
<1>5. queued_transactions \in [Transactions -> QueuedTransaction]
  BY <1>3
<1>6. voting_reward \in VotingReward
  BY DEF VotingReward
<1> QED BY <1>1, <1>2, <1>4, <1>5, <1>6 DEF GovernTypeOK

\* The proposals created are among the addresses of proposals.
LEMMA CreatedAreIds ==
  ASSUME GovernTypeOK, NEW p \in Created
  PROVE  p \in ProposalIds /\ p \in Nat /\ proposals[p] \in Proposal
BY GovernAssumption DEF GovernTypeOK, Created, ProposalIds

\* set_vote keeps the types: the old vote is subtracted only where it was
\* added.
LEMMA SetVoteTyped ==
  ASSUME GovernTypeOK, UNCHANGED now,
         NEW l, NEW p \in Created, NEW v \in Voters, NEW side \in Nat, NEW power \in Nat,
         SetVote(l, p, v, side, power)
  PROVE  GovernTypeOK'
<1> DEFINE q == proposals[p]
           vote == votes[p][v]
           rest == TallyWithout(q, vote)
           tally == AddTo(rest, side, power)
<1>1. /\ q \in Proposal /\ p \in ProposalIds
      /\ vote \in Vote /\ votes[p] \in [Voters -> Vote]
  BY CreatedAreIds DEF GovernTypeOK
<1>2. /\ q.option_votes \in [Options -> Nat]
      /\ vote.voting_power \in Nat /\ vote.side \in Nat
  BY <1>1 DEF Proposal, Vote
<1>3. CanSubtract(q.option_votes, q, vote.side, vote.voting_power)
  BY DEF SetVote
<1>4. rest \in [Options -> Nat]
  <2>1. vote.side \in Options => q.option_votes[vote.side] + (- vote.voting_power) >= 0
    BY <1>2, <1>3 DEF CanSubtract
  <2>2. - vote.voting_power \in Int
    BY <1>2
  <2> QED BY <1>2, <2>1, <2>2, AddToTyped DEF TallyWithout
<1>5. tally \in [Options -> Nat]
  <2>1. side \in Options => rest[side] + power >= 0
    BY <1>4
  <2> HIDE DEF rest
  <2> QED BY <1>4, <2>1, AddToTyped
<1>6. proposals' = [proposals EXCEPT ![p].option_votes = tally]
  BY DEF SetVote
<1>7. [q EXCEPT !.option_votes = tally] \in Proposal
  <2> HIDE DEF q, tally
  <2> QED BY <1>1, <1>5 DEF Proposal
<1>8. proposals' \in [Created -> Proposal]
  <2> HIDE DEF tally
  <2> QED BY <1>6, <1>7 DEF GovernTypeOK
<1>9. votes' \in [ProposalIds -> [Voters -> Vote]]
  <2>1. [[vote EXCEPT !.side = side] EXCEPT !.voting_power = power] \in Vote
    BY <1>1 DEF Vote
  <2>2. votes' = [votes EXCEPT ![p][v].side = side, ![p][v].voting_power = power]
    BY DEF SetVote
  <2> QED BY <1>1, <2>1, <2>2 DEF GovernTypeOK, Vote
<1> QED BY <1>8, <1>9 DEF SetVote, GovernTypeOK, Created

\* activate_proposal keeps the types.
LEMMA ActivateTyped ==
  ASSUME GovernTypeOK, UNCHANGED now, NEW l, NEW p \in Created, ActivateProposal(l, p)
  PROVE  GovernTypeOK'
<1> DEFINE q == proposals[p]
           ends == now + governance_params.voting_period
<1>1. q \in Proposal /\ now \in Nat /\ ends \in Nat
  BY CreatedAreIds, GovernAssumption DEF GovernTypeOK, GovernanceParameters
<1>2. proposals' = [proposals EXCEPT ![p].activated_at = now, ![p].voting_ends_at = ends]
  BY DEF ActivateProposal
<1>3. [[q EXCEPT !.activated_at = now] EXCEPT !.voting_ends_at = ends] \in Proposal
  <2> HIDE DEF q, ends
  <2> QED BY <1>1 DEF Proposal
<1>4. proposals' \in [Created -> Proposal]
  <2> HIDE DEF ends
  <2> QED BY <1>2, <1>3 DEF GovernTypeOK
<1> QED BY <1>4 DEF ActivateProposal, OnlyProposals, GovernTypeOK, Created

\* The instructions that no locker signs keep the types: a transfer out of a
\* reward vault or out of the funds never exceeds the balance.
LEMMA OpenTyped ==
  ASSUME GovernTypeOK, UNCHANGED now, OpenNext
  PROVE  GovernTypeOK'
<1> USE GovernAssumption
<1>1. ASSUME NEW proposer \in Proposers, NEW max_option \in Options,
             NEW proposal_type \in {"YesNo", "Option"},
             CreateProposal(proposer, proposal_type, max_option)
      PROVE  GovernTypeOK'
  <2> DEFINE new == [proposer |-> proposer, proposal_type |-> proposal_type,
                     quorum_votes |-> governance_params.quorum_votes,
                     max_option |-> max_option, option_votes |-> [s \in Options |-> 0],
                     canceled_at |-> 0, created_at |-> now, activated_at |-> 0,
                     voting_ends_at |-> 0, queued_at |-> 0,
                     queued_transaction |-> NoTransaction,
                     voting_reward |-> voting_reward, total_claimed_reward |-> 0]
  <2>1. new \in Proposal
    BY DEF GovernTypeOK, Proposal, GovernanceParameters
  <2>2. proposal_count \in Nat /\ proposal_count' \in 0..MaxProposals
    BY <1>1 DEF CreateProposal, GovernTypeOK
  <2>3. proposals' = [p \in 0..proposal_count |->
                        IF p = proposal_count THEN new ELSE proposals[p]]
    BY <1>1 DEF CreateProposal
  <2>4. Created' = 0..proposal_count
    BY <1>1, <2>2 DEF CreateProposal, Created
  <2>5. \A p \in 0..proposal_count : p # proposal_count => p \in Created
    BY <2>2 DEF Created
  <2>6. proposals' \in [Created' -> Proposal]
    <3> HIDE DEF new
    <3> QED BY <2>1, <2>3, <2>4, <2>5 DEF GovernTypeOK
  <2> QED BY <1>1, <2>2, <2>6 DEF CreateProposal, GovernTypeOK
<1>2. ASSUME NEW p \in Created, CancelProposal(p)
      PROVE  GovernTypeOK'
  <2>0. proposals[p] \in Proposal /\ now \in Nat
    BY CreatedAreIds DEF GovernTypeOK
  <2>1. [proposals[p] EXCEPT !.canceled_at = now] \in Proposal
    BY <2>0 DEF Proposal
  <2>2. proposals' \in [Created -> Proposal]
    BY <1>2, <2>1 DEF CancelProposal, GovernTypeOK
  <2> QED BY <1>2, <2>2 DEF CancelProposal, OnlyProposals, GovernTypeOK, Created
<1>3. ASSUME NEW p \in Created, NEW v \in Voters, NewVote(p, v)
      PROVE  GovernTypeOK'
  <2>1. [ClosedVote EXCEPT !.open = TRUE] \in Vote
    BY DEF ClosedVote, Vote
  <2>2. votes' \in [ProposalIds -> [Voters -> Vote]]
    BY <1>3, <2>1, CreatedAreIds DEF NewVote, GovernTypeOK
  <2> QED BY <1>3, <2>2 DEF NewVote, GovernTypeOK, Created
<1>4. ASSUME NEW p \in Created, NEW v \in Voters, ClaimReward(p, v)
      PROVE  GovernTypeOK'
  <2> DEFINE q == proposals[p]
             vote == votes[p][v]
             m == q.voting_reward.reward_mint
             reward == RewardOf(q, vote.voting_power)
  <2>1. /\ q \in Proposal /\ p \in ProposalIds
        /\ vote \in Vote /\ votes[p] \in [Voters -> Vote]
        /\ rewards_received[v] \in [Mints -> Nat]
    BY CreatedAreIds DEF GovernTypeOK
  <2>2. reward \in Nat
    BY <2>1, RewardIsNat DEF Vote
  <2>3. m \in Mints
    BY <1>4, <2>1 DEF ClaimReward, Proposal, VotingReward
  <2>4. /\ votes' = [votes EXCEPT ![p][v].claimed = TRUE]
        /\ reward_vaults' = [reward_vaults EXCEPT ![m] = @ - reward]
        /\ rewards_received' = [rewards_received EXCEPT ![v][m] = @ + reward]
        /\ proposals' = [proposals EXCEPT ![p].total_claimed_reward = @ + reward]
        /\ reward <= reward_vaults[m]
    BY <1>4 DEF ClaimReward
  <2>5. votes' \in [ProposalIds -> [Voters -> Vote]]
    <3>1. [vote EXCEPT !.claimed = TRUE] \in Vote
      BY <2>1 DEF Vote
    <3> QED BY <2>1, <2>4, <3>1 DEF GovernTypeOK
  <2>6. [q EXCEPT !.total_claimed_reward = @ + reward] \in Proposal
    <3> HIDE DEF q, reward
    <3> QED BY <2>1, <2>2 DEF Proposal
  <2>7. proposals' \in [Created -> Proposal]
    <3> HIDE DEF reward
    <3> QED BY <2>4, <2>6 DEF GovernTypeOK
  <2>8. reward_vaults' \in [Mints -> Nat] /\ rewards_received' \in [Voters -> [Mints -> Nat]]
    <3> HIDE DEF reward, m
    <3> QED BY <2>1, <2>2, <2>3, <2>4 DEF GovernTypeOK
  <2> QED BY <1>4, <2>5, <2>7, <2>8 DEF ClaimReward, GovernTypeOK, Created
<1>5. ASSUME NEW p \in Created, NEW x \in Transactions, QueueProposal(p, x)
      PROVE  GovernTypeOK'
  <2> DEFINE eta == IF governance_params.timelock_delay_seconds = 0 THEN -1
                    ELSE now + governance_params.timelock_delay_seconds
  <2>1. eta \in Int /\ now \in Nat /\ p \in ProposalIds /\ proposals[p] \in Proposal
    BY CreatedAreIds DEF GovernTypeOK, GovernanceParameters
  <2>2. queued_transactions' = [queued_transactions EXCEPT ![x] =
                           [open |-> TRUE, proposal |-> p, eta |-> eta]]
    BY <1>5 DEF QueueProposal
  <2>3. queued_transactions' \in [Transactions -> QueuedTransaction]
    <3> HIDE DEF eta
    <3> QED BY <2>1, <2>2 DEF GovernTypeOK, QueuedTransaction
  <2>4. [[proposals[p] EXCEPT !.queued_at = now] EXCEPT !.queued_transaction = x] \in Proposal
    BY <2>1 DEF Proposal
  <2>5. proposals' \in [Created -> Proposal]
    BY <1>5, <2>4 DEF QueueProposal, GovernTypeOK
  <2> QED BY <1>5, <2>3, <2>5 DEF QueueProposal, GovernTypeOK, Created
<1>6. ASSUME NEW g \in GovernanceParams, SetGovernanceParams(g)
      PROVE  GovernTypeOK'
  BY <1>6 DEF SetGovernanceParams, GovernTypeOK, Created
<1>7. ASSUME NEW l \in Lockers, SetLocker(l)
      PROVE  GovernTypeOK'
  BY <1>7 DEF SetLocker, GovernTypeOK, Created
<1>8. ASSUME NEW m \in Mints, NEW amount \in Rewards, SetVotingReward(m, amount)
      PROVE  GovernTypeOK'
  BY <1>8 DEF SetVotingReward, GovernTypeOK, Created, VotingReward
<1>9. ASSUME NEW m \in Mints, NEW amount \in 1..RewardSupply, FundRewards(m, amount)
      PROVE  GovernTypeOK'
  <2>1. /\ reward_funds' = [reward_funds EXCEPT ![m] = @ - amount]
        /\ reward_vaults' = [reward_vaults EXCEPT ![m] = @ + amount]
        /\ amount <= reward_funds[m]
    BY <1>9 DEF FundRewards
  <2>2. reward_funds' \in [Mints -> Nat] /\ reward_vaults' \in [Mints -> Nat]
    BY <2>1 DEF GovernTypeOK
  <2> QED BY <1>9, <2>2 DEF FundRewards, GovernTypeOK, Created
<1> QED BY <1>1, <1>2, <1>3, <1>4, <1>5, <1>6, <1>7, <1>8, <1>9 DEF OpenNext

\* Every step of govern keeps the types.
LEMMA GovernNextTyped == GovernTypeOK /\ [OpenWorldStep]_governState => GovernTypeOK'
<1> SUFFICES ASSUME GovernTypeOK, [OpenWorldStep]_governState PROVE GovernTypeOK'
  OBVIOUS
<1>1. CASE OpenNext /\ UNCHANGED now
  BY <1>1, OpenTyped
<1>2. CASE LockerAsks /\ UNCHANGED now
  BY <1>2, ActivateTyped, SetVoteTyped DEF LockerAsks
<1>3. CASE Tick /\ UNCHANGED governVars
  BY <1>3 DEF Tick, governVars, GovernTypeOK, Created
<1>4. CASE UNCHANGED governState
  BY <1>4 DEF governState, governVars, GovernTypeOK, Created
<1>5. CASE WalletActs /\ UNCHANGED now
  BY <1>5 DEF WalletActs, GovernTypeOK, Created
<1> QED BY <1>1, <1>2, <1>3, <1>4, <1>5 DEF OpenWorldStep

\* Type correctness of govern: no tally, balance or count ever goes below zero.
THEOREM GovernTypeCorrect == OpenWorldSpec => []GovernTypeOK
<1> QED BY GovernInitTyped, GovernNextTyped, PTL DEF OpenWorldSpec

-----------------------------------------------------------------------------
(* The tally *)

\* All votes on proposal p together.
VotesOn(p) == SumFunctionOnSet([v \in Voters |-> votes[p][v].voting_power], Voters)

TotalsAccounted == \A p \in Created : TotalVotes(proposals[p]) = VotesOn(p)

\* Nobody has a vote with weight before a proposal is activated.
UnvotedUntilActive ==
  \A p \in ProposalIds :
    p \notin Created \/ proposals[p].activated_at = 0 =>
      \A v \in Voters : votes[p][v].voting_power = 0

\* An address without a Vote account has no weight.
ClosedVotesEmpty ==
  \A p \in ProposalIds, v \in Voters : ~ votes[p][v].open => votes[p][v].voting_power = 0

TallyInv == TallyAccounted /\ TotalsAccounted /\ UnvotedUntilActive /\ ClosedVotesEmpty

\* Adding weight to one side of a tally adds it to its total.
LEMMA AddToTotal ==
  ASSUME NEW tally \in [Options -> Nat], NEW side, NEW w \in Int,
         w # 0 => side \in Options
  PROVE  SumFunctionOnSet(AddTo(tally, side, w), Options)
           = SumFunctionOnSet(tally, Options) + w
<1> DEFINE g == AddTo(tally, side, w)
<1>1. \A s \in Options : tally[s] \in Int /\ g[s] \in Int
  BY DEF AddTo
<1>2. \A s \in Options : s # side => tally[s] = g[s]
  BY DEF AddTo
<1>3. side \in Options => g[side] = tally[side] + w
  BY DEF AddTo
<1>4. w = 0 => \A s \in Options : tally[s] = g[s]
  BY DEF AddTo
<1>8. IsFiniteSet(Options)
  BY OptionsFinite
<1>5. SumFunctionOnSet(tally, Options) \in Int
  BY <1>1, <1>8, SumIsInt
<1> HIDE DEF g
<1>6. CASE side \in Options
  <2>1. SumFunctionOnSet(g, Options) = SumFunctionOnSet(tally, Options) - tally[side] + g[side]
    <3>1. \A s \in Options \ {side} : tally[s] = g[s]
      BY <1>2
    <3> QED BY <1>1, <1>6, <1>8, <3>1, SumUpdate
  <2>2. tally[side] \in Int
    BY <1>1, <1>6
  <2> QED BY <1>3, <1>5, <1>6, <2>1, <2>2 DEF g
<1>7. CASE side \notin Options
  <2>1. w = 0
    BY <1>7
  <2>2. SumFunctionOnSet(tally, Options) = SumFunctionOnSet(g, Options)
    BY <1>4, <1>8, <2>1, SumCongruence
  <2> QED BY <1>5, <2>1, <2>2 DEF g
<1> QED BY <1>6, <1>7

\* When one vote on a proposal changes, the votes on a side, and all votes
\* together, change by the difference.
LEMMA OneVoteChanges ==
  ASSUME GovernTypeOK, GovernTypeOK', NEW p \in ProposalIds, NEW v \in Voters,
         \A u \in Voters \ {v} : votes'[p][u] = votes[p][u]
  PROVE  /\ VotesOn(p)' = VotesOn(p) - votes[p][v].voting_power + votes'[p][v].voting_power
         /\ \A s \in Options :
              VotesFor(p, s)' = VotesFor(p, s) - WeightOn(votes[p][v], s) + WeightOn(votes'[p][v], s)
<1>0. \A u \in Voters : votes[p][u] \in Vote /\ votes'[p][u] \in Vote
  BY DEF GovernTypeOK
<1>3. IsFiniteSet(Voters)
  BY GovernAssumption
<1>1. VotesOn(p)' = VotesOn(p) - votes[p][v].voting_power + votes'[p][v].voting_power
  <2> DEFINE f == [u \in Voters |-> votes[p][u].voting_power]
             g == [u \in Voters |-> votes'[p][u].voting_power]
  <2>1. \A u \in Voters : f[u] \in Int /\ g[u] \in Int
    BY <1>0 DEF Vote
  <2>2. \A u \in Voters \ {v} : f[u] = g[u]
    OBVIOUS
  <2>3. SumFunctionOnSet(g, Voters) = SumFunctionOnSet(f, Voters) - f[v] + g[v]
    <3> HIDE DEF f, g
    <3> QED BY <1>3, <2>1, <2>2, SumUpdate
  <2> QED BY <2>3 DEF VotesOn
<1>2. ASSUME NEW s \in Options
      PROVE  VotesFor(p, s)' = VotesFor(p, s) - WeightOn(votes[p][v], s) + WeightOn(votes'[p][v], s)
  <2> DEFINE f == [u \in Voters |-> WeightOn(votes[p][u], s)]
             g == [u \in Voters |-> WeightOn(votes'[p][u], s)]
  <2>1. \A u \in Voters : f[u] \in Int /\ g[u] \in Int
    BY <1>0 DEF Vote, WeightOn
  <2>2. \A u \in Voters \ {v} : f[u] = g[u]
    OBVIOUS
  <2>3. SumFunctionOnSet(g, Voters) = SumFunctionOnSet(f, Voters) - f[v] + g[v]
    <3> HIDE DEF f, g
    <3> QED BY <1>3, <2>1, <2>2, SumUpdate
  <2> QED BY <2>3 DEF VotesFor
<1> QED BY <1>1, <1>2

\* The votes on a proposal on which nobody has a vote with weight sum to 0.
LEMMA NoVotesSumToZero ==
  ASSUME NEW p, \A v \in Voters : votes[p][v].voting_power = 0
  PROVE  VotesOn(p) = 0 /\ \A s \in Options : VotesFor(p, s) = 0
<1>1. VotesOn(p) = 0
  <2> DEFINE f == [v \in Voters |-> votes[p][v].voting_power]
  <2>1. \A v \in Voters : f[v] = 0
    OBVIOUS
  <2>2. SumFunctionOnSet(f, Voters) = 0
    <3> HIDE DEF f
    <3> QED BY <2>1, GovernAssumption, SumOfZeros
  <2> QED BY <2>2 DEF VotesOn
<1>2. ASSUME NEW s \in Options PROVE VotesFor(p, s) = 0
  <2> DEFINE f == [v \in Voters |-> WeightOn(votes[p][v], s)]
  <2>1. \A v \in Voters : f[v] = 0
    BY DEF WeightOn
  <2>2. SumFunctionOnSet(f, Voters) = 0
    <3> HIDE DEF f
    <3> QED BY <2>1, GovernAssumption, SumOfZeros
  <2> QED BY <2>2 DEF VotesFor
<1> QED BY <1>1, <1>2

\* Fewer proposals have fewer addresses.
LEMMA LowerIds ==
  ASSUME NEW m \in Nat, NEW n \in 0..m
  PROVE  0..(n - 1) \subseteq 0..(m - 1)
OBVIOUS

\* What leaves every tally and the weight of every vote alone keeps the
\* tallies right; a new proposal starts with an empty tally.
LEMMA TallyKept ==
  ASSUME GovernTypeOK, GovernTypeOK', TallyInv,
         \A p \in Created : /\ p \in Created'
                            /\ proposals'[p].option_votes = proposals[p].option_votes
                            /\ proposals'[p].activated_at = 0 => proposals[p].activated_at = 0,
         \A p \in Created' : p \notin Created =>
            proposals'[p].option_votes = [s \in Options |-> 0],
         \A p \in ProposalIds, v \in Voters :
            /\ votes'[p][v].voting_power = votes[p][v].voting_power
            /\ votes[p][v].voting_power # 0 => votes'[p][v].side = votes[p][v].side
            /\ votes[p][v].open => votes'[p][v].open
  PROVE  TallyInv'
<1>1. ASSUME NEW p \in ProposalIds
      PROVE  /\ VotesOn(p)' = VotesOn(p)
             /\ \A s \in Options : VotesFor(p, s)' = VotesFor(p, s)
  <2>1. VotesOn(p)' = VotesOn(p)
    <3> DEFINE f == [v \in Voters |-> votes[p][v].voting_power]
               g == [v \in Voters |-> votes'[p][v].voting_power]
    <3>1. f = g
      OBVIOUS
    <3> QED BY <3>1 DEF VotesOn
  <2>2. ASSUME NEW s \in Options PROVE VotesFor(p, s)' = VotesFor(p, s)
    <3> DEFINE f == [v \in Voters |-> WeightOn(votes[p][v], s)]
               g == [v \in Voters |-> WeightOn(votes'[p][v], s)]
    <3>1. f = g
      BY DEF WeightOn
    <3> QED BY <3>1 DEF VotesFor
  <2> QED BY <2>1, <2>2
<1>2. \A p \in Created' : p \in ProposalIds
  <2>1. proposal_count' \in 0..MaxProposals /\ MaxProposals \in Nat
    BY GovernAssumption DEF GovernTypeOK
  <2>2. Created' = 0..(proposal_count' - 1)
    BY DEF Created
  <2> QED BY <2>1, <2>2, LowerIds DEF ProposalIds
<1>3. UnvotedUntilActive' /\ ClosedVotesEmpty'
  BY DEF TallyInv, UnvotedUntilActive, ClosedVotesEmpty
<1>4. ASSUME NEW p \in Created', p \in Created
      PROVE  /\ \A s \in Options : proposals'[p].option_votes[s] = VotesFor(p, s)'
             /\ TotalVotes(proposals'[p]) = VotesOn(p)'
  BY <1>1, <1>2, <1>4 DEF TallyInv, TallyAccounted, TotalsAccounted, TotalVotes
<1>5. ASSUME NEW p \in Created', p \notin Created
      PROVE  /\ \A s \in Options : proposals'[p].option_votes[s] = VotesFor(p, s)'
             /\ TotalVotes(proposals'[p]) = VotesOn(p)'
  <2>1. \A v \in Voters : votes[p][v].voting_power = 0
    BY <1>2, <1>5 DEF TallyInv, UnvotedUntilActive
  <2>2. VotesOn(p) = 0 /\ \A s \in Options : VotesFor(p, s) = 0
    BY <2>1, NoVotesSumToZero
  <2> DEFINE zero == [s \in Options |-> 0]
  <2>3. proposals'[p].option_votes = zero
    BY <1>5
  <2>4. SumFunctionOnSet(zero, Options) = 0
    <3>1. \A s \in Options : zero[s] = 0
      OBVIOUS
    <3> HIDE DEF zero
    <3> QED BY <3>1, OptionsFinite, SumOfZeros
  <2>5. TotalVotes(proposals'[p]) = 0
    BY <2>3, <2>4 DEF TotalVotes
  <2> QED BY <1>1, <1>2, <2>2, <2>3, <2>5
<1>6. TallyAccounted' /\ TotalsAccounted'
  BY <1>4, <1>5 DEF TallyAccounted, TotalsAccounted, TotalVotes
<1> QED BY <1>3, <1>6 DEF TallyInv

\* set_vote moves exactly the weight of one vote.
LEMMA SetVoteTally ==
  ASSUME GovernTypeOK, GovernTypeOK', TallyInv, UNCHANGED now,
         NEW l, NEW p \in Created, NEW v \in Voters, NEW side \in Nat, NEW power \in Nat,
         SetVote(l, p, v, side, power)
  PROVE  TallyInv'
<1> DEFINE q == proposals[p]
           vote == votes[p][v]
           rest == TallyWithout(q, vote)
           tally == AddTo(rest, side, power)
<1>1. /\ p \in ProposalIds /\ p \in Nat /\ q \in Proposal
      /\ vote \in Vote /\ votes[p] \in [Voters -> Vote]
  BY CreatedAreIds DEF GovernTypeOK
<1>2. /\ q.option_votes \in [Options -> Nat] /\ q.max_option \in Options
      /\ vote.voting_power \in Nat /\ vote.side \in Nat
  BY <1>1 DEF Proposal, Vote
<1>3. /\ CanSubtract(q.option_votes, q, vote.side, vote.voting_power)
      /\ CanAdd(rest, q, side, power)
      /\ proposals' = [proposals EXCEPT ![p].option_votes = tally]
      /\ votes' = [votes EXCEPT ![p][v].side = side, ![p][v].voting_power = power]
      /\ proposal_count' = proposal_count
      /\ State(q) = "Active" /\ vote.open
  BY DEF SetVote
<1>4. /\ votes'[p][v].side = side /\ votes'[p][v].voting_power = power
      /\ votes'[p][v].open = vote.open
      /\ \A u \in Voters \ {v} : votes'[p][u] = votes[p][u]
      /\ \A r \in ProposalIds \ {p} : votes'[r] = votes[r]
  BY <1>1, <1>3 DEF GovernTypeOK, Vote
<1>5. /\ proposals'[p].option_votes = tally
      /\ proposals'[p].activated_at = q.activated_at
      /\ \A r \in Created \ {p} : proposals'[r] = proposals[r]
      /\ Created' = Created
  <2> HIDE DEF tally
  <2> QED BY <1>1, <1>3 DEF GovernTypeOK, Proposal, Created
<1>6. /\ vote.voting_power # 0 => vote.side \in Options
      /\ power # 0 => side \in Options
  BY <1>2, <1>3, GovernAssumption, SMTT(30) DEF CanSubtract, CanAdd, Options
<1>7. rest \in [Options -> Nat]
  <2>1. vote.side \in Options => q.option_votes[vote.side] + (- vote.voting_power) >= 0
    BY <1>2, <1>3 DEF CanSubtract
  <2>2. - vote.voting_power \in Int
    BY <1>2
  <2> QED BY <1>2, <2>1, <2>2, AddToTyped DEF TallyWithout
<1>8. SumFunctionOnSet(tally, Options)
        = SumFunctionOnSet(q.option_votes, Options) - vote.voting_power + power
  <2>1. SumFunctionOnSet(rest, Options)
          = SumFunctionOnSet(q.option_votes, Options) + (- vote.voting_power)
    <3>1. - vote.voting_power \in Int /\ (- vote.voting_power # 0 => vote.side \in Options)
      BY <1>2, <1>6
    <3> QED BY <1>2, <3>1, AddToTotal DEF TallyWithout
  <2>2. SumFunctionOnSet(tally, Options) = SumFunctionOnSet(rest, Options) + power
    <3> HIDE DEF rest
    <3> QED BY <1>6, <1>7, AddToTotal
  <2>3. SumFunctionOnSet(q.option_votes, Options) \in Int
    BY <1>1, TotalVotesIsNat DEF TotalVotes
  <2> HIDE DEF tally, rest
  <2> QED BY <1>2, <2>1, <2>2, <2>3
<1>9. /\ VotesOn(p)' = VotesOn(p) - vote.voting_power + power
      /\ \A s \in Options :
           VotesFor(p, s)' = VotesFor(p, s) - WeightOn(vote, s) + WeightOn(votes'[p][v], s)
  BY <1>1, <1>4, OneVoteChanges
<1>10. ASSUME NEW r \in Created \ {p}
       PROVE  /\ VotesOn(r)' = VotesOn(r)
              /\ \A s \in Options : VotesFor(r, s)' = VotesFor(r, s)
  <2>1. votes'[r] = votes[r]
    BY <1>4, <1>10, CreatedAreIds
  <2> QED BY <2>1 DEF VotesOn, VotesFor
<1>11. \A s \in Options : tally[s] = VotesFor(p, s)'
  <2> SUFFICES ASSUME NEW s \in Options PROVE tally[s] = VotesFor(p, s)'
    OBVIOUS
  <2>1. q.option_votes[s] = VotesFor(p, s) /\ q.option_votes[s] \in Nat
    BY <1>2 DEF TallyInv, TallyAccounted
  <2>2. tally[s] = q.option_votes[s] - WeightOn(vote, s) + WeightOn(votes'[p][v], s)
    BY <1>2, <1>4, <2>1 DEF AddTo, TallyWithout, WeightOn
  <2> QED BY <1>9, <2>1, <2>2
<1>12. TallyAccounted'
  <2> HIDE DEF tally
  <2> QED BY <1>5, <1>10, <1>11 DEF TallyInv, TallyAccounted
<1>13. TotalsAccounted'
  <2>1. TotalVotes(proposals'[p]) = TotalVotes(q) - vote.voting_power + power
    BY <1>5, <1>8 DEF TotalVotes
  <2>2. TotalVotes(q) = VotesOn(p)
    BY DEF TallyInv, TotalsAccounted
  <2>3. TotalVotes(proposals'[p]) = VotesOn(p)'
    BY <1>9, <2>1, <2>2
  <2>4. \A r \in Created \ {p} : TotalVotes(proposals'[r]) = VotesOn(r)'
    BY <1>5, <1>10 DEF TallyInv, TotalsAccounted
  <2> HIDE DEF q
  <2> QED BY <1>5, <2>3, <2>4 DEF TotalsAccounted, TotalVotes
<1>14. UnvotedUntilActive' /\ ClosedVotesEmpty'
  <2>1. q.activated_at # 0
    BY <1>1, <1>3 DEF State, Proposal
  <2>2. UnvotedUntilActive'
    <3> HIDE DEF tally
    <3> QED BY <1>4, <1>5, <2>1 DEF TallyInv, UnvotedUntilActive
  <2>3. ClosedVotesEmpty'
    <3> SUFFICES ASSUME NEW r \in ProposalIds, NEW u \in Voters, ~ votes'[r][u].open
                 PROVE  votes'[r][u].voting_power = 0
      BY DEF ClosedVotesEmpty
    <3>1. CASE r = p /\ u = v
      <4>1. votes'[p][v].open
        BY <1>3, <1>4
      <4> QED BY <3>1, <4>1
    <3>2. CASE ~ (r = p /\ u = v)
      <4>1. votes'[r][u] = votes[r][u]
        BY <1>4, <3>2
      <4> QED BY <4>1 DEF TallyInv, ClosedVotesEmpty
    <3> QED BY <3>1, <3>2
  <2> QED BY <2>2, <2>3
<1> QED BY <1>12, <1>13, <1>14 DEF TallyInv

\* activate_proposal keeps the tallies: nobody has voted on a draft.
LEMMA ActivateTally ==
  ASSUME GovernTypeOK, TallyInv, UNCHANGED now,
         NEW l, NEW p \in Created, ActivateProposal(l, p)
  PROVE  TallyInv'
<1>1. GovernTypeOK'
  BY ActivateTyped
<1>2. /\ proposal_count' = proposal_count /\ votes' = votes
      /\ proposals' = [proposals EXCEPT
           ![p].activated_at = now,
           ![p].voting_ends_at = now + governance_params.voting_period]
  BY DEF ActivateProposal, OnlyProposals
<1>3. Created' = Created
  BY <1>2 DEF Created
<1>4. State(proposals[p]) = "Draft" /\ proposals[p] \in Proposal
  BY CreatedAreIds DEF ActivateProposal
<1>5. proposals[p].activated_at = 0
  BY <1>4 DEF State
<1>6. \A r \in Created :
        /\ proposals'[r].option_votes = proposals[r].option_votes
        /\ proposals'[r].activated_at = 0 => proposals[r].activated_at = 0
  BY <1>2, <1>4, <1>5 DEF GovernTypeOK, Proposal
<1> QED BY <1>1, <1>2, <1>3, <1>6, TallyKept

\* What an instruction that no locker signs leaves alone: of a proposal, its
\* tally and when it was activated and ends; of a vote, its weight and, if it
\* has any, its side.  A new proposal is a draft without votes.
VotingFrame ==
  /\ \A p \in Created :
       /\ p \in Created'
       /\ proposals'[p].option_votes = proposals[p].option_votes
       /\ proposals'[p].activated_at = proposals[p].activated_at
       /\ proposals'[p].voting_ends_at = proposals[p].voting_ends_at
       /\ ~ (proposals'[p].canceled_at > 0) => ~ (proposals[p].canceled_at > 0)
  /\ \A p \in Created' : p \notin Created =>
       /\ proposals'[p].option_votes = [s \in Options |-> 0]
       /\ proposals'[p].activated_at = 0
  /\ \A p \in ProposalIds, v \in Voters :
       /\ votes'[p][v].voting_power = votes[p][v].voting_power
       /\ votes[p][v].voting_power # 0 => votes'[p][v].side = votes[p][v].side
       /\ votes[p][v].open => votes'[p][v].open

\* Every instruction that no locker signs respects the frame: new_vote opens
\* an empty vote where none was.
LEMMA OpenFrame ==
  ASSUME GovernTypeOK, ClosedVotesEmpty, UNCHANGED now, OpenNext
  PROVE  VotingFrame
<1> USE DEF VotingFrame
<1>1. ASSUME NEW proposer \in Proposers, NEW max_option \in Options,
             NEW proposal_type \in {"YesNo", "Option"},
             CreateProposal(proposer, proposal_type, max_option)
      PROVE  VotingFrame
  <2>1. proposal_count \in Nat
    BY DEF GovernTypeOK
  <2>2. proposal_count' = proposal_count + 1 /\ votes' = votes
    BY <1>1 DEF CreateProposal
  <2>3. Created' = Created \cup {proposal_count} /\ proposal_count \notin Created
    BY <2>1, <2>2 DEF Created
  <2>4. Created' = 0..proposal_count
    BY <2>1, <2>2 DEF Created
  <2>5. /\ \A p \in Created : proposals'[p] = proposals[p]
        /\ proposals'[proposal_count].option_votes = [s \in Options |-> 0]
        /\ proposals'[proposal_count].activated_at = 0
    BY <1>1, <2>3, <2>4 DEF CreateProposal
  <2> QED BY <2>2, <2>3, <2>5
<1>2. ASSUME NEW p \in Created, CancelProposal(p)
      PROVE  VotingFrame
  <2>1. proposals[p] \in Proposal /\ ~ (proposals[p].canceled_at > 0)
    BY <1>2, CreatedAreIds DEF CancelProposal, State
  <2>2. /\ Created' = Created /\ votes' = votes
        /\ proposals' = [proposals EXCEPT ![p].canceled_at = now]
    BY <1>2 DEF CancelProposal, OnlyProposals, Created
  <2>3. \A r \in Created :
          /\ proposals'[r].option_votes = proposals[r].option_votes
          /\ proposals'[r].activated_at = proposals[r].activated_at
          /\ proposals'[r].voting_ends_at = proposals[r].voting_ends_at
          /\ ~ (proposals'[r].canceled_at > 0) => ~ (proposals[r].canceled_at > 0)
    BY <2>1, <2>2 DEF GovernTypeOK, Proposal
  <2> QED BY <2>2, <2>3
<1>3. ASSUME NEW p \in Created, NEW v \in Voters, NewVote(p, v)
      PROVE  VotingFrame
  <2>1. /\ Created' = Created /\ proposals' = proposals /\ ~ votes[p][v].open
        /\ votes' = [votes EXCEPT ![p][v] = [ClosedVote EXCEPT !.open = TRUE]]
    BY <1>3 DEF NewVote, Created
  <2>2. p \in ProposalIds /\ votes[p][v].voting_power = 0
    BY <2>1, CreatedAreIds DEF ClosedVotesEmpty
  <2>3. /\ votes'[p][v].voting_power = 0 /\ votes'[p][v].open
        /\ \A r \in ProposalIds, u \in Voters :
              ~ (r = p /\ u = v) => votes'[r][u] = votes[r][u]
    BY <2>1, <2>2 DEF GovernTypeOK, ClosedVote
  <2>4. \A r \in ProposalIds, u \in Voters :
          /\ votes'[r][u].voting_power = votes[r][u].voting_power
          /\ votes[r][u].voting_power # 0 => votes'[r][u].side = votes[r][u].side
          /\ votes[r][u].open => votes'[r][u].open
    BY <2>1, <2>2, <2>3
  <2> QED BY <2>1, <2>4
<1>4. ASSUME NEW p \in Created, NEW v \in Voters, ClaimReward(p, v)
      PROVE  VotingFrame
  <2> DEFINE reward == RewardOf(proposals[p], votes[p][v].voting_power)
  <2>1. p \in ProposalIds /\ proposals[p] \in Proposal
    BY CreatedAreIds
  <2>2. /\ Created' = Created
        /\ votes' = [votes EXCEPT ![p][v].claimed = TRUE]
        /\ proposals' = [proposals EXCEPT ![p].total_claimed_reward = @ + reward]
    BY <1>4 DEF ClaimReward, Created
  <2>3. \A r \in Created :
          /\ proposals'[r].option_votes = proposals[r].option_votes
          /\ proposals'[r].activated_at = proposals[r].activated_at
          /\ proposals'[r].voting_ends_at = proposals[r].voting_ends_at
          /\ ~ (proposals'[r].canceled_at > 0) => ~ (proposals[r].canceled_at > 0)
    <3> HIDE DEF reward
    <3> QED BY <2>1, <2>2 DEF GovernTypeOK, Proposal
  <2>4. \A r \in ProposalIds, u \in Voters :
          /\ votes'[r][u].voting_power = votes[r][u].voting_power
          /\ votes'[r][u].side = votes[r][u].side
          /\ votes'[r][u].open = votes[r][u].open
    BY <2>1, <2>2 DEF GovernTypeOK, Vote
  <2> QED BY <2>2, <2>3, <2>4
<1>5. ASSUME NEW p \in Created, NEW x \in Transactions, QueueProposal(p, x)
      PROVE  VotingFrame
  <2>1. proposals[p] \in Proposal
    BY CreatedAreIds
  <2>2. /\ Created' = Created /\ votes' = votes
        /\ proposals' = [proposals EXCEPT ![p].queued_at = now, ![p].queued_transaction = x]
    BY <1>5 DEF QueueProposal, Created
  <2>3. \A r \in Created :
          /\ proposals'[r].option_votes = proposals[r].option_votes
          /\ proposals'[r].activated_at = proposals[r].activated_at
          /\ proposals'[r].voting_ends_at = proposals[r].voting_ends_at
          /\ ~ (proposals'[r].canceled_at > 0) => ~ (proposals[r].canceled_at > 0)
    BY <2>1, <2>2 DEF GovernTypeOK, Proposal
  <2> QED BY <2>2, <2>3
<1>6. ASSUME UNCHANGED <<proposal_count, proposals, votes>>
      PROVE  VotingFrame
  <2>1. Created' = Created
    BY <1>6 DEF Created
  <2> QED BY <1>6, <2>1
<1>7. ASSUME NEW g \in GovernanceParams, SetGovernanceParams(g) PROVE VotingFrame
  BY <1>6, <1>7 DEF SetGovernanceParams
<1>8. ASSUME NEW l \in Lockers, SetLocker(l) PROVE VotingFrame
  BY <1>6, <1>8 DEF SetLocker
<1>9. ASSUME NEW m \in Mints, NEW amount \in Rewards, SetVotingReward(m, amount)
      PROVE  VotingFrame
  BY <1>6, <1>9 DEF SetVotingReward
<1>10. ASSUME NEW m \in Mints, NEW amount \in 1..RewardSupply, FundRewards(m, amount)
       PROVE  VotingFrame
  BY <1>6, <1>10 DEF FundRewards
<1> QED BY <1>1, <1>2, <1>3, <1>4, <1>5, <1>7, <1>8, <1>9, <1>10 DEF OpenNext

\* An instruction within the frame keeps the tallies.
LEMMA OpenTally ==
  ASSUME GovernTypeOK, TallyInv, UNCHANGED now, OpenNext
  PROVE  TallyInv'
<1>1. GovernTypeOK'
  BY OpenTyped
<1>2. VotingFrame
  BY OpenFrame DEF TallyInv
<1> QED BY <1>1, <1>2, TallyKept DEF VotingFrame

\* A step that leaves the proposals and the votes alone keeps the tallies.
LEMMA TallyStutters ==
  ASSUME TallyInv, UNCHANGED <<proposal_count, proposals, votes>>
  PROVE  TallyInv'
<1>1. \A p \in ProposalIds : VotesOn(p)' = VotesOn(p)
  BY DEF VotesOn
<1>2. Created' = Created
  BY DEF Created
<1>3. \A p \in Created : VotesOn(p)' = VotesOn(p) /\ \A s \in Options : VotesFor(p, s)' = VotesFor(p, s)
  BY DEF VotesOn, VotesFor
<1>4. TallyAccounted' /\ TotalsAccounted'
  BY <1>2, <1>3 DEF TallyInv, TallyAccounted, TotalsAccounted, TotalVotes
<1> QED BY <1>2, <1>4 DEF TallyInv, UnvotedUntilActive, ClosedVotesEmpty

\* Every step of govern keeps the tallies.
LEMMA GovernNextTally ==
  GovernTypeOK /\ TallyInv /\ [OpenWorldStep]_governState => TallyInv'
<1> SUFFICES ASSUME GovernTypeOK, TallyInv, [OpenWorldStep]_governState PROVE TallyInv'
  OBVIOUS
<1>1. CASE OpenNext /\ UNCHANGED now
  BY <1>1, OpenTally
<1>2. CASE LockerAsks /\ UNCHANGED now
  <2>1. ASSUME NEW l \in Lockers, NEW p \in Created, ActivateProposal(l, p) PROVE TallyInv'
    BY <1>2, <2>1, ActivateTally
  <2>2. ASSUME NEW l \in Lockers, NEW p \in Created, NEW v \in Voters,
               NEW side \in Nat, NEW power \in Nat, SetVote(l, p, v, side, power)
        PROVE  TallyInv'
    BY <1>2, <2>2, SetVoteTyped, SetVoteTally
  <2> QED BY <1>2, <2>1, <2>2 DEF LockerAsks
<1>3. CASE UNCHANGED governVars
  BY <1>3, TallyStutters DEF governVars
<1>4. CASE WalletActs
  BY <1>4, TallyStutters DEF WalletActs
<1> QED BY <1>1, <1>2, <1>3, <1>4 DEF OpenWorldStep, governState

\* A governor without proposals has accounted for all its votes.
LEMMA GovernInitTally == GovernStart => TallyInv
<1> SUFFICES ASSUME GovernStart PROVE TallyInv
  OBVIOUS
<1>1. Created = {}
  BY DEF GovernStart, GovernInit, Created
<1>2. \A p \in ProposalIds, v \in Voters : votes[p][v].voting_power = 0
  BY DEF GovernStart, GovernInit, ClosedVote
<1> QED BY <1>1, <1>2
        DEF TallyInv, TallyAccounted, TotalsAccounted, UnvotedUntilActive, ClosedVotesEmpty

\* option_votes is always, on every side, the sum of the votes as they
\* stand, however often set_vote was called and whatever power was reported.
THEOREM TallyAlwaysAccounted == OpenWorldSpec => []TallyAccounted
<1>1. GovernStart => GovernTypeOK /\ TallyInv
  BY GovernInitTyped, GovernInitTally
<1>2. GovernTypeOK /\ TallyInv /\ [OpenWorldStep]_governState => (GovernTypeOK /\ TallyInv)'
  BY GovernNextTyped, GovernNextTally
<1>3. GovernTypeOK /\ TallyInv => TallyAccounted
  BY DEF TallyInv
<1> QED BY <1>1, <1>2, <1>3, PTL DEF OpenWorldSpec

-----------------------------------------------------------------------------
(* The outcome *)

ClockRuns == now > 0

\* The state of proposal p in the next state is that of now, or Queued after
\* Succeeded, if it is final now.
OutcomeKept(p) ==
  State(proposals[p]) \in Final =>
    \/ State(proposals[p])' = State(proposals[p])
    \/ State(proposals[p]) = "Succeeded" /\ State(proposals[p])' = "Queued"

\* A proposal is neither a draft nor being voted on when it is final.
LEMMA FinalIsOver ==
  ASSUME NEW q \in Proposal, State(q) \in Final
  PROVE  \/ q.canceled_at > 0
         \/ /\ q.canceled_at = 0 /\ q.activated_at # 0 /\ ~ (now < q.voting_ends_at)
            /\ ~ (TotalVotes(q) > U64Max)
<1>1. q.canceled_at \in Nat
  BY DEF Proposal
<1> QED BY <1>1 DEF State, Final

\* The state of a proposal depends on these fields alone, and a final one is
\* not undone by time.
LEMMA SameFieldsSameOutcome ==
  ASSUME GovernTypeOK, now' \in Nat, now' >= now, NEW p \in Created,
         proposals'[p].canceled_at = proposals[p].canceled_at,
         proposals'[p].activated_at = proposals[p].activated_at,
         proposals'[p].voting_ends_at = proposals[p].voting_ends_at,
         proposals'[p].option_votes = proposals[p].option_votes,
         proposals'[p].quorum_votes = proposals[p].quorum_votes,
         proposals'[p].queued_at = proposals[p].queued_at,
         proposals'[p].proposal_type = proposals[p].proposal_type
  PROVE  OutcomeKept(p)
<1> SUFFICES ASSUME State(proposals[p]) \in Final
             PROVE  State(proposals[p])' = State(proposals[p])
  BY DEF OutcomeKept
<1> DEFINE q == proposals[p]
           r == proposals'[p]
<1>1. q \in Proposal /\ now \in Nat
  BY CreatedAreIds DEF GovernTypeOK
<1>2. /\ TotalVotes(r) = TotalVotes(q) /\ (MeetsQuorum(r) <=> MeetsQuorum(q))
      /\ (Outvoted(r) <=> Outvoted(q))
  BY DEF TotalVotes, MeetsQuorum, Outvoted
<1>3. CASE q.canceled_at > 0
  BY <1>3 DEF State
<1>4. CASE ~ (q.canceled_at > 0)
  <2>1. /\ q.activated_at # 0 /\ q.voting_ends_at \in Nat /\ ~ (now < q.voting_ends_at)
        /\ ~ (TotalVotes(q) > U64Max)
    BY <1>1, <1>4, FinalIsOver DEF Proposal
  <2>2. ~ (now' < q.voting_ends_at)
    BY <1>1, <2>1
  <2> QED BY <1>2, <1>4, <2>1, <2>2 DEF State
<1> QED BY <1>3, <1>4

\* An instruction on another proposal, or on none, keeps the outcome.
LEMMA UntouchedOutcome ==
  ASSUME GovernTypeOK, now' \in Nat, now' >= now, NEW p \in Created,
         proposals'[p] = proposals[p]
  PROVE  OutcomeKept(p)
BY SameFieldsSameOutcome

\* An instruction that changes one proposal keeps the outcome of them all, if
\* the one it changes is not final.
LEMMA OpenOutcome ==
  ASSUME GovernTypeOK, UNCHANGED now, NEW r \in Created, State(proposals[r]) \notin Final,
         NEW q, proposals' = [proposals EXCEPT ![r] = q], NEW p \in Created
  PROVE  OutcomeKept(p)
<1>1. now' \in Nat /\ now' >= now
  BY DEF GovernTypeOK
<1>2. CASE p = r
  BY <1>2 DEF OutcomeKept
<1>3. CASE p # r
  <2>1. proposals'[p] = proposals[p]
    BY <1>3 DEF GovernTypeOK
  <2> QED BY <1>1, <2>1, UntouchedOutcome
<1> QED BY <1>2, <1>3

\* No step changes a final outcome, except that it may queue a success.
LEMMA StepKeepsOutcome ==
  ASSUME GovernTypeOK, ClockRuns, OpenWorldStep, NEW p \in Created
  PROVE  OutcomeKept(p)
<1>t. now \in Nat /\ now' \in Nat /\ now' >= now
  BY DEF OpenWorldStep, Tick, GovernTypeOK
<1>u. proposals'[p] = proposals[p] => OutcomeKept(p)
  BY <1>t, UntouchedOutcome
<1>1. CASE Tick /\ UNCHANGED governVars
  BY <1>1, <1>u DEF governVars
<1>2. CASE LockerAsks /\ UNCHANGED now
  <2>1. ASSUME NEW l \in Lockers, NEW r \in Created, ActivateProposal(l, r)
        PROVE  OutcomeKept(p)
    <3>1. State(proposals[r]) \notin Final
      BY <2>1 DEF ActivateProposal, Final
    <3> DEFINE q == [[proposals[r] EXCEPT !.activated_at = now]
                       EXCEPT !.voting_ends_at = now + governance_params.voting_period]
    <3>2. proposals' = [proposals EXCEPT ![r] = q]
      BY <2>1 DEF ActivateProposal, GovernTypeOK
    <3> HIDE DEF q
    <3> QED BY <1>2, <3>1, <3>2, OpenOutcome
  <2>2. ASSUME NEW l \in Lockers, NEW r \in Created, NEW v \in Voters, NEW side, NEW power,
               SetVote(l, r, v, side, power)
        PROVE  OutcomeKept(p)
    <3>1. State(proposals[r]) \notin Final
      BY <2>2 DEF SetVote, Final
    <3> DEFINE tally == AddTo(TallyWithout(proposals[r], votes[r][v]), side, power)
               q == [proposals[r] EXCEPT !.option_votes = tally]
    <3>2. proposals' = [proposals EXCEPT ![r] = q]
      BY <2>2 DEF SetVote, GovernTypeOK
    <3> HIDE DEF q
    <3> QED BY <1>2, <3>1, <3>2, OpenOutcome
  <2> QED BY <1>2, <2>1, <2>2 DEF LockerAsks
<1>3. CASE OpenNext /\ UNCHANGED now
  <2>1. ASSUME NEW proposer \in Proposers, NEW max_option \in Options,
               NEW proposal_type \in {"YesNo", "Option"},
               CreateProposal(proposer, proposal_type, max_option)
        PROVE  OutcomeKept(p)
    <3>1. proposal_count \in Nat
      BY DEF GovernTypeOK
    <3>2. p \in 0..proposal_count /\ p # proposal_count
      BY <3>1 DEF Created
    <3> QED BY <1>u, <2>1, <3>2 DEF CreateProposal
  <2>2. ASSUME NEW r \in Created, CancelProposal(r) PROVE OutcomeKept(p)
    <3>1. State(proposals[r]) \notin Final
      BY <2>2 DEF CancelProposal, Final
    <3> DEFINE q == [proposals[r] EXCEPT !.canceled_at = now]
    <3>2. proposals' = [proposals EXCEPT ![r] = q]
      BY <2>2 DEF CancelProposal, GovernTypeOK
    <3> HIDE DEF q
    <3> QED BY <1>3, <3>1, <3>2, OpenOutcome
  <2>3. ASSUME NEW r \in Created, NEW v \in Voters, NewVote(r, v) PROVE OutcomeKept(p)
    BY <1>u, <2>3 DEF NewVote
  <2>4. ASSUME NEW r \in Created, NEW v \in Voters, ClaimReward(r, v) PROVE OutcomeKept(p)
    <3> DEFINE reward == RewardOf(proposals[r], votes[r][v].voting_power)
    <3>1. proposals' = [proposals EXCEPT ![r].total_claimed_reward = @ + reward]
      BY <2>4 DEF ClaimReward
    <3>2. p # r => proposals'[p] = proposals[p]
      <4> HIDE DEF reward
      <4> QED BY <3>1 DEF GovernTypeOK
    <3>3. proposals[p] \in Proposal
      BY CreatedAreIds
    <3>4. p = r => proposals'[p] = [proposals[p] EXCEPT !.total_claimed_reward = @ + reward]
      <4> HIDE DEF reward
      <4> QED BY <3>1 DEF GovernTypeOK
    <3>5. p = r => OutcomeKept(p)
      <4> HIDE DEF reward
      <4> SUFFICES ASSUME p = r PROVE OutcomeKept(p)
        OBVIOUS
      <4>1. /\ proposals'[p].canceled_at = proposals[p].canceled_at
            /\ proposals'[p].activated_at = proposals[p].activated_at
            /\ proposals'[p].voting_ends_at = proposals[p].voting_ends_at
            /\ proposals'[p].option_votes = proposals[p].option_votes
            /\ proposals'[p].quorum_votes = proposals[p].quorum_votes
            /\ proposals'[p].queued_at = proposals[p].queued_at
            /\ proposals'[p].proposal_type = proposals[p].proposal_type
        BY <3>3, <3>4 DEF Proposal
      <4> QED BY <1>t, <4>1, SameFieldsSameOutcome
    <3> QED BY <1>u, <3>2, <3>5
  <2>5. ASSUME NEW r \in Created, NEW x \in Transactions, QueueProposal(r, x)
        PROVE  OutcomeKept(p)
    <3>1. /\ proposals' = [proposals EXCEPT ![r].queued_at = now, ![r].queued_transaction = x]
          /\ State(proposals[r]) = "Succeeded"
      BY <2>5 DEF QueueProposal
    <3>2. p # r => proposals'[p] = proposals[p]
      BY <3>1 DEF GovernTypeOK
    <3>3. p = r => State(proposals[p])' = "Queued"
      <4> SUFFICES ASSUME p = r PROVE State(proposals[p])' = "Queued"
        OBVIOUS
      <4> DEFINE q == proposals[p]
                 n == proposals'[p]
      <4>1. q \in Proposal
        BY CreatedAreIds
      <4>2. /\ n.queued_at = now /\ n.canceled_at = q.canceled_at
            /\ n.activated_at = q.activated_at /\ n.voting_ends_at = q.voting_ends_at
            /\ n.option_votes = q.option_votes /\ n.quorum_votes = q.quorum_votes
        BY <3>1, <4>1 DEF GovernTypeOK, Proposal
      <4>3. TotalVotes(n) = TotalVotes(q) /\ (MeetsQuorum(n) <=> MeetsQuorum(q))
        BY <4>2 DEF TotalVotes, MeetsQuorum
      <4>4. /\ ~ (q.canceled_at > 0) /\ q.activated_at # 0 /\ ~ (now < q.voting_ends_at)
            /\ ~ (TotalVotes(q) > U64Max) /\ MeetsQuorum(q)
        BY <3>1 DEF State
      <4> HIDE DEF q, n
      <4>5. /\ ~ (n.canceled_at > 0) /\ n.activated_at # 0 /\ ~ (now' < n.voting_ends_at)
            /\ ~ (TotalVotes(n) > U64Max) /\ MeetsQuorum(n) /\ n.queued_at > 0
        BY <1>3, <4>2, <4>3, <4>4 DEF ClockRuns
      <4> QED BY <4>5 DEF State, n
    <3> QED BY <1>u, <3>1, <3>2, <3>3 DEF OutcomeKept
  <2>6. ASSUME NEW g \in GovernanceParams, SetGovernanceParams(g) PROVE OutcomeKept(p)
    BY <1>u, <2>6 DEF SetGovernanceParams
  <2>7. ASSUME NEW l \in Lockers, SetLocker(l) PROVE OutcomeKept(p)
    BY <1>u, <2>7 DEF SetLocker
  <2>8. ASSUME NEW m \in Mints, NEW amount \in Rewards, SetVotingReward(m, amount)
        PROVE  OutcomeKept(p)
    BY <1>u, <2>8 DEF SetVotingReward
  <2>9. ASSUME NEW m \in Mints, NEW amount \in 1..RewardSupply, FundRewards(m, amount)
        PROVE  OutcomeKept(p)
    BY <1>u, <2>9 DEF FundRewards
  <2> QED BY <1>3, <2>1, <2>2, <2>3, <2>4, <2>5, <2>6, <2>7, <2>8, <2>9 DEF OpenNext
<1>4. CASE WalletActs /\ UNCHANGED now
  BY <1>u, <1>4 DEF WalletActs
<1> QED BY <1>1, <1>2, <1>3, <1>4 DEF OpenWorldStep

\* What a vote decided stays decided: no instruction of govern, whatever the
\* locker, the proposers and the wallet do, changes the state of a proposal
\* that is canceled or whose voting is over, but for queueing it.
THEOREM OutcomeIsAlwaysFinal == OpenWorldSpec => OutcomeIsFinal
<1>1. GovernStart => GovernTypeOK /\ ClockRuns
  BY GovernInitTyped DEF GovernStart, ClockInit, ClockRuns
<1>2. GovernTypeOK /\ ClockRuns /\ [OpenWorldStep]_governState => (GovernTypeOK /\ ClockRuns)'
  <2>1. ClockRuns /\ now \in Nat /\ [OpenWorldStep]_governState => ClockRuns'
    BY DEF OpenWorldStep, governState, Tick, ClockRuns
  <2> QED BY <2>1, GovernNextTyped DEF GovernTypeOK
<1>3. GovernTypeOK /\ ClockRuns /\ [OpenWorldStep]_governState
        => [\A p \in Created :
              State(proposals[p]) \in Final =>
                \/ State(proposals[p])' = State(proposals[p])
                \/ State(proposals[p]) = "Succeeded" /\ State(proposals[p])' = "Queued"]_governState
  BY StepKeepsOutcome DEF OutcomeKept
<1> QED BY <1>1, <1>2, <1>3, PTL DEF OpenWorldSpec, OutcomeIsFinal

-----------------------------------------------------------------------------
(* One proposal at a time *)

\* How one instruction may change proposal p and the votes on it.
Activated(p) ==
  /\ State(proposals[p]) = "Draft"
  /\ proposals'[p] = [proposals[p] EXCEPT !.activated_at = now,
                        !.voting_ends_at = now + governance_params.voting_period]
  /\ votes'[p] = votes[p]

Canceled(p) ==
  /\ State(proposals[p]) = "Draft"
  /\ proposals'[p] = [proposals[p] EXCEPT !.canceled_at = now]
  /\ votes'[p] = votes[p]

Opened(p, v) ==
  /\ ~ votes[p][v].open
  /\ proposals'[p] = proposals[p]
  /\ votes'[p] = [votes[p] EXCEPT ![v] = [ClosedVote EXCEPT !.open = TRUE]]

Voted(p, v, side, power) ==
  LET q    == proposals[p]
      rest == TallyWithout(q, votes[p][v])
  IN
  /\ State(q) = "Active"
  /\ votes[p][v].open
  /\ CanSubtract(q.option_votes, q, votes[p][v].side, votes[p][v].voting_power)
  /\ CanAdd(rest, q, side, power)
  /\ proposals'[p] = [q EXCEPT !.option_votes = AddTo(rest, side, power)]
  /\ votes'[p] = [votes[p] EXCEPT ![v] = [@ EXCEPT !.side = side, !.voting_power = power]]

Queued(p, x) ==
  /\ State(proposals[p]) = "Succeeded"
  /\ proposals'[p] = [proposals[p] EXCEPT !.queued_at = now, !.queued_transaction = x]
  /\ votes'[p] = votes[p]

Claimed(p, v) ==
  LET reward == RewardOf(proposals[p], votes[p][v].voting_power) IN
  /\ Claimable(proposals[p])
  /\ votes[p][v].open /\ ~ votes[p][v].claimed
  /\ proposals'[p] = [proposals[p] EXCEPT !.total_claimed_reward = @ + reward]
  /\ votes'[p] = [votes[p] EXCEPT ![v] = [@ EXCEPT !.claimed = TRUE]]

Untouched(p) == proposals'[p] = proposals[p] /\ votes'[p] = votes[p]

ProposalStep(p) ==
  \/ Untouched(p)
  \/ Activated(p)
  \/ Canceled(p)
  \/ \E v \in Voters : Opened(p, v)
  \/ \E v \in Voters, side \in Nat, power \in Nat : Voted(p, v, side, power)
  \/ \E x \in Transactions : Queued(p, x)
  \/ \E v \in Voters : Claimed(p, v)

\* activate_proposal changes one proposal as Activated says.
LEMMA ActivateChanges ==
  ASSUME GovernTypeOK, NEW l, NEW r \in Created, ActivateProposal(l, r), NEW p \in Created
  PROVE  p \in Created' /\ ProposalStep(p)
<1>1. /\ proposals' = [proposals EXCEPT
           ![r].activated_at = now,
           ![r].voting_ends_at = now + governance_params.voting_period]
      /\ State(proposals[r]) = "Draft" /\ votes' = votes /\ Created' = Created
  BY DEF ActivateProposal, OnlyProposals, Created
<1>2. CASE p = r
  <2>1. Activated(p)
    BY <1>1, <1>2 DEF Activated, GovernTypeOK
  <2> QED BY <1>1, <2>1 DEF ProposalStep
<1>3. CASE p # r
  BY <1>1, <1>3 DEF GovernTypeOK, ProposalStep, Untouched
<1> QED BY <1>2, <1>3

\* set_vote changes one proposal, and one vote on it, as Voted says.
LEMMA SetVoteChanges ==
  ASSUME GovernTypeOK, NEW l, NEW r \in Created, NEW v \in Voters,
         NEW side \in Nat, NEW power \in Nat, SetVote(l, r, v, side, power), NEW p \in Created
  PROVE  p \in Created' /\ ProposalStep(p)
<1> DEFINE tally == AddTo(TallyWithout(proposals[r], votes[r][v]), side, power)
<1>1. /\ proposals' = [proposals EXCEPT ![r].option_votes = tally]
      /\ votes' = [votes EXCEPT ![r][v].side = side, ![r][v].voting_power = power]
      /\ Created' = Created
  BY DEF SetVote, Created
<1>2. /\ State(proposals[r]) = "Active" /\ votes[r][v].open
      /\ CanSubtract(proposals[r].option_votes, proposals[r], votes[r][v].side,
                     votes[r][v].voting_power)
      /\ CanAdd(TallyWithout(proposals[r], votes[r][v]), proposals[r], side, power)
  BY DEF SetVote
<1>3. p \in ProposalIds /\ r \in ProposalIds /\ votes \in [ProposalIds -> [Voters -> Vote]]
  BY CreatedAreIds DEF GovernTypeOK
<1>4. CASE p = r
  <2>1. proposals'[p] = [proposals[p] EXCEPT !.option_votes = tally]
    <3> HIDE DEF tally
    <3> QED BY <1>1, <1>4 DEF GovernTypeOK
  <2>2. votes'[p] = [votes[p] EXCEPT ![v] = [@ EXCEPT !.side = side, !.voting_power = power]]
    <3> HIDE DEF tally
    <3> QED BY <1>1, <1>3, <1>4
  <2>3. Voted(p, v, side, power)
    BY <1>2, <1>4, <2>1, <2>2 DEF Voted
  <2> QED BY <1>1, <2>3 DEF ProposalStep
<1>5. CASE p # r
  <2> HIDE DEF tally
  <2>1. proposals'[p] = proposals[p] /\ votes'[p] = votes[p]
    BY <1>1, <1>3, <1>5 DEF GovernTypeOK
  <2> QED BY <1>1, <2>1 DEF ProposalStep, Untouched
<1> QED BY <1>4, <1>5

\* claim_reward changes one proposal, and one vote on it, as Claimed says.
LEMMA ClaimChanges ==
  ASSUME GovernTypeOK, NEW r \in Created, NEW v \in Voters, ClaimReward(r, v)
  PROVE  /\ Created' = Created /\ Claimed(r, v)
         /\ \A p \in Created : p # r => Untouched(p)
<1> DEFINE reward == RewardOf(proposals[r], votes[r][v].voting_power)
<1>1. /\ proposals' = [proposals EXCEPT ![r].total_claimed_reward = @ + reward]
      /\ votes' = [votes EXCEPT ![r][v].claimed = TRUE]
      /\ Created' = Created
      /\ Claimable(proposals[r]) /\ votes[r][v].open /\ ~ votes[r][v].claimed
  BY DEF ClaimReward, Created
<1>2. r \in ProposalIds /\ votes \in [ProposalIds -> [Voters -> Vote]]
  BY CreatedAreIds DEF GovernTypeOK
<1>3. proposals'[r] = [proposals[r] EXCEPT !.total_claimed_reward = @ + reward]
  <2> HIDE DEF reward
  <2> QED BY <1>1 DEF GovernTypeOK
<1>4. votes'[r] = [votes[r] EXCEPT ![v] = [@ EXCEPT !.claimed = TRUE]]
  <2> HIDE DEF reward
  <2> QED BY <1>1, <1>2
<1>5. ASSUME NEW p \in Created, p # r PROVE Untouched(p)
  <2> HIDE DEF reward
  <2> QED BY <1>1, <1>2, <1>5, CreatedAreIds DEF GovernTypeOK, Untouched
<1> QED BY <1>1, <1>3, <1>4, <1>5 DEF Claimed

\* queue_proposal changes one proposal as Queued says.
LEMMA QueueChanges ==
  ASSUME GovernTypeOK, NEW r \in Created, NEW x \in Transactions, QueueProposal(r, x)
  PROVE  /\ Created' = Created /\ Queued(r, x)
         /\ \A p \in Created : p # r => Untouched(p)
<1>1. /\ proposals' = [proposals EXCEPT ![r].queued_at = now, ![r].queued_transaction = x]
      /\ State(proposals[r]) = "Succeeded" /\ votes' = votes /\ Created' = Created
  BY DEF QueueProposal, Created
<1> QED BY <1>1 DEF GovernTypeOK, Queued, Untouched

\* The instructions that no locker signs change a proposal as one of the
\* other alternatives says, if at all.
LEMMA OpenChanges ==
  ASSUME GovernTypeOK, OpenNext, NEW p \in Created
  PROVE  p \in Created' /\ ProposalStep(p)
<1> DEFINE Goal == p \in Created' /\ ProposalStep(p)
<1>1. p \in ProposalIds /\ votes \in [ProposalIds -> [Voters -> Vote]]
  BY CreatedAreIds DEF GovernTypeOK
<1>2. ASSUME UNCHANGED <<proposal_count, proposals, votes>>
      PROVE  Goal
  BY <1>2 DEF Created, ProposalStep, Untouched
<1>3. ASSUME NEW proposer \in Proposers, NEW max_option \in Options,
             NEW proposal_type \in {"YesNo", "Option"},
             CreateProposal(proposer, proposal_type, max_option)
      PROVE  Goal
  <2>1. proposal_count \in Nat /\ proposal_count' = proposal_count + 1 /\ votes' = votes
    BY <1>3 DEF GovernTypeOK, CreateProposal
  <2>2. p \in 0..proposal_count /\ p # proposal_count /\ p \in Created'
    BY <2>1 DEF Created
  <2>3. proposals'[p] = proposals[p]
    BY <1>3, <2>2 DEF CreateProposal
  <2> QED BY <2>1, <2>2, <2>3 DEF ProposalStep, Untouched
<1>4. ASSUME NEW r \in Created, CancelProposal(r) PROVE Goal
  <2>1. /\ proposals' = [proposals EXCEPT ![r].canceled_at = now]
        /\ State(proposals[r]) = "Draft" /\ votes' = votes /\ Created' = Created
    BY <1>4 DEF CancelProposal, OnlyProposals, Created
  <2>2. CASE p = r
    BY <2>1, <2>2 DEF GovernTypeOK, ProposalStep, Canceled
  <2>3. CASE p # r
    BY <2>1, <2>3 DEF GovernTypeOK, ProposalStep, Untouched
  <2> QED BY <2>2, <2>3
<1>5. ASSUME NEW r \in Created, NEW v \in Voters, NewVote(r, v) PROVE Goal
  <2>1. /\ votes' = [votes EXCEPT ![r][v] = [ClosedVote EXCEPT !.open = TRUE]]
        /\ ~ votes[r][v].open /\ proposals' = proposals /\ Created' = Created
    BY <1>5 DEF NewVote, Created
  <2>2. r \in ProposalIds
    BY CreatedAreIds
  <2>3. CASE p = r
    <3>1. votes'[p] = [votes[p] EXCEPT ![v] = [ClosedVote EXCEPT !.open = TRUE]]
      BY <1>1, <2>1, <2>3
    <3>2. Opened(p, v)
      BY <2>1, <2>3, <3>1 DEF Opened
    <3> QED BY <2>1, <3>2 DEF ProposalStep
  <2>4. CASE p # r
    <3>1. votes'[p] = votes[p]
      BY <1>1, <2>1, <2>2, <2>4
    <3> QED BY <2>1, <3>1 DEF ProposalStep, Untouched
  <2> QED BY <2>3, <2>4
<1>6. ASSUME NEW r \in Created, NEW v \in Voters, ClaimReward(r, v) PROVE Goal
  BY <1>6, ClaimChanges DEF ProposalStep
<1>7. ASSUME NEW r \in Created, NEW x \in Transactions, QueueProposal(r, x) PROVE Goal
  BY <1>7, QueueChanges DEF ProposalStep
<1> HIDE DEF Goal
<1>8. Goal
  BY <1>2, <1>3, <1>4, <1>5, <1>6, <1>7
     DEF OpenNext, SetGovernanceParams, SetLocker, SetVotingReward, FundRewards
<1> QED BY <1>8 DEF Goal

-----------------------------------------------------------------------------
(* What is queued *)

\* Proposal p was voted through and queued, as its own fields tell.
CarriedThrough(p) ==
  LET q == proposals[p] IN
  /\ q.canceled_at = 0 /\ q.activated_at > 0 /\ q.queued_at > 0
  /\ q.voting_ends_at <= q.queued_at /\ q.queued_at <= now
  /\ TotalVotes(q) <= U64Max /\ MeetsQuorum(q)
  /\ q.proposal_type = "YesNo" => ~ Outvoted(q)

\* Every transaction is that of a proposal that was voted through, and the
\* proposal's only one.
QueueInv ==
  \A x \in Transactions : queued_transactions[x].open =>
    \E p \in Created :
      /\ queued_transactions[x].proposal = p
      /\ proposals[p].queued_transaction = x
      /\ CarriedThrough(p)

\* A proposal that was carried through is neither voted on nor queued again.
LEMMA CarriedThroughIsQueued ==
  ASSUME GovernTypeOK, NEW p \in Created, CarriedThrough(p)
  PROVE  State(proposals[p]) = "Queued"
<1> DEFINE q == proposals[p]
<1>1. /\ q \in Proposal /\ now \in Nat /\ TotalVotes(q) \in Nat
  BY CreatedAreIds, TotalVotesIsNat DEF GovernTypeOK
<1>2. q.voting_ends_at \in Nat /\ q.queued_at \in Nat /\ q.activated_at \in Nat
  BY <1>1 DEF Proposal
<1>3. /\ q.canceled_at = 0 /\ q.activated_at > 0 /\ q.queued_at > 0
      /\ q.voting_ends_at <= q.queued_at /\ q.queued_at <= now
      /\ TotalVotes(q) <= U64Max /\ MeetsQuorum(q)
  BY DEF CarriedThrough
<1>4. /\ ~ (q.canceled_at > 0) /\ q.activated_at # 0 /\ ~ (now < q.voting_ends_at)
      /\ ~ (TotalVotes(q) > U64Max)
  BY <1>1, <1>2, <1>3, GovernAssumption
<1> HIDE DEF q
<1>5. State(q) = "Queued"
  BY <1>3, <1>4 DEF State
<1> QED BY <1>5 DEF q

\* And so nothing of it changes but the rewards paid for it.
LEMMA CarriedThroughStays ==
  ASSUME GovernTypeOK, now' \in Nat, now' >= now, NEW p \in Created, CarriedThrough(p),
         ProposalStep(p)
  PROVE  CarriedThrough(p)' /\ proposals'[p].queued_transaction = proposals[p].queued_transaction
<1> DEFINE q == proposals[p]
           r == proposals'[p]
<1>1. State(proposals[p]) = "Queued" /\ q \in Proposal /\ now \in Nat
  BY CarriedThroughIsQueued, CreatedAreIds DEF GovernTypeOK
<1>2. \/ Untouched(p)
      \/ \E v \in Voters : Opened(p, v)
      \/ \E v \in Voters : Claimed(p, v)
  BY <1>1 DEF ProposalStep, Activated, Canceled, Voted, Queued
<1>3. /\ r.canceled_at = q.canceled_at /\ r.activated_at = q.activated_at
      /\ r.queued_at = q.queued_at /\ r.voting_ends_at = q.voting_ends_at
      /\ r.option_votes = q.option_votes /\ r.quorum_votes = q.quorum_votes
      /\ r.proposal_type = q.proposal_type
      /\ r.queued_transaction = q.queued_transaction
  BY <1>1, <1>2 DEF Untouched, Opened, Claimed, Proposal
<1>4. /\ TotalVotes(r) = TotalVotes(q) /\ (MeetsQuorum(r) <=> MeetsQuorum(q))
      /\ (Outvoted(r) <=> Outvoted(q))
  BY <1>3 DEF TotalVotes, MeetsQuorum, Outvoted
<1>5. q.queued_at \in Nat
  BY <1>1 DEF Proposal
<1> QED BY <1>1, <1>3, <1>4, <1>5 DEF CarriedThrough

\* A transaction that was there stays a queued proposal's.
LEMMA QueueStays ==
  ASSUME GovernTypeOK, now' \in Nat, now' >= now, QueueInv,
         \A p \in Created : p \in Created' /\ ProposalStep(p),
         NEW x \in Transactions, queued_transactions[x].open,
         queued_transactions'[x] = queued_transactions[x]
  PROVE  \E p \in Created' :
           /\ queued_transactions'[x].proposal = p
           /\ proposals'[p].queued_transaction = x
           /\ CarriedThrough(p)'
<1>1. PICK p \in Created : /\ queued_transactions[x].proposal = p
                          /\ proposals[p].queued_transaction = x
                          /\ CarriedThrough(p)
  BY DEF QueueInv
<1>2. p \in Created' /\ ProposalStep(p)
  OBVIOUS
<1>3. CarriedThrough(p)' /\ proposals'[p].queued_transaction = x
  BY <1>1, <1>2, CarriedThroughStays
<1> QED BY <1>1, <1>2, <1>3

\* queue_proposal carries a proposal through.
LEMMA QueueCarries ==
  ASSUME GovernTypeOK, ClockRuns, UNCHANGED now, NEW p \in Created, NEW x \in Transactions,
         Queued(p, x)
  PROVE  CarriedThrough(p)' /\ proposals'[p].queued_transaction = x
<1> DEFINE q == proposals[p]
           r == proposals'[p]
<1>1. r = [q EXCEPT !.queued_at = now, !.queued_transaction = x] /\ State(q) = "Succeeded"
  BY DEF Queued
<1>2. q \in Proposal /\ now \in Nat /\ TotalVotes(q) \in Nat
  BY CreatedAreIds, TotalVotesIsNat DEF GovernTypeOK
<1>3. /\ r.queued_at = now /\ r.queued_transaction = x /\ r.canceled_at = q.canceled_at
      /\ r.activated_at = q.activated_at /\ r.voting_ends_at = q.voting_ends_at
      /\ r.option_votes = q.option_votes /\ r.quorum_votes = q.quorum_votes
      /\ r.proposal_type = q.proposal_type
  BY <1>1, <1>2 DEF Proposal
<1>4. /\ TotalVotes(r) = TotalVotes(q) /\ (MeetsQuorum(r) <=> MeetsQuorum(q))
      /\ (Outvoted(r) <=> Outvoted(q))
  BY <1>3 DEF TotalVotes, MeetsQuorum, Outvoted
<1>5. /\ q.canceled_at \in Nat /\ q.activated_at \in Nat /\ q.voting_ends_at \in Nat
  BY <1>2 DEF Proposal
<1>6. /\ ~ (q.canceled_at > 0) /\ q.activated_at # 0 /\ ~ (now < q.voting_ends_at)
      /\ ~ (TotalVotes(q) > U64Max) /\ MeetsQuorum(q)
      /\ ~ (q.proposal_type = "YesNo" /\ Outvoted(q))
  BY <1>1 DEF State
<1> HIDE DEF q
<1>7. /\ q.canceled_at = 0 /\ q.activated_at > 0 /\ q.voting_ends_at <= now
      /\ TotalVotes(q) <= U64Max /\ now > 0
  BY <1>2, <1>5, <1>6, GovernAssumption DEF ClockRuns
<1>8. CarriedThrough(p)'
  BY <1>2, <1>3, <1>4, <1>6, <1>7 DEF CarriedThrough
<1> QED BY <1>3, <1>8

\* An instruction that puts no transaction into the wallet.
LEMMA QueueKept ==
  ASSUME GovernTypeOK, now' \in Nat, now' >= now, QueueInv, UNCHANGED queued_transactions,
         \A p \in Created : p \in Created' /\ ProposalStep(p)
  PROVE  QueueInv'
BY QueueStays DEF QueueInv

\* queue_proposal puts one more transaction, at an empty address.
LEMMA QueueGrows ==
  ASSUME GovernTypeOK, ClockRuns, QueueInv, UNCHANGED now,
         \A r \in Created : r \in Created' /\ ProposalStep(r),
         NEW p \in Created, NEW x \in Transactions, QueueProposal(p, x)
  PROVE  QueueInv'
<1>1. now \in Nat /\ now' >= now /\ now' \in Nat
  BY DEF GovernTypeOK
<1>2. /\ \A y \in Transactions \ {x} : queued_transactions'[y] = queued_transactions[y]
      /\ queued_transactions'[x].proposal = p
  BY DEF QueueProposal, GovernTypeOK
<1>3. CarriedThrough(p)' /\ p \in Created' /\ proposals'[p].queued_transaction = x
  <2>1. Queued(p, x) /\ Created' = Created
    BY QueueChanges
  <2> QED BY <2>1, QueueCarries
<1>4. ASSUME NEW y \in Transactions, queued_transactions'[y].open
      PROVE  \E r \in Created' :
               /\ queued_transactions'[y].proposal = r
               /\ proposals'[r].queued_transaction = y
               /\ CarriedThrough(r)'
  <2>1. CASE y = x
    BY <1>2, <1>3, <2>1
  <2>2. CASE y # x
    BY <1>1, <1>2, <1>4, <2>2, QueueStays
  <2> QED BY <2>1, <2>2
<1> QED BY <1>4 DEF QueueInv

\* Time and other programs change no proposal.
LEMMA ProposalsStutter ==
  ASSUME UNCHANGED <<proposal_count, proposals, votes>>
  PROVE  \A p \in Created : p \in Created' /\ ProposalStep(p)
BY DEF Created, ProposalStep, Untouched

\* What a locker asks for changes no proposal but as ProposalStep says.
LEMMA LockerChanges ==
  ASSUME GovernTypeOK, LockerAsks
  PROVE  \A p \in Created : p \in Created' /\ ProposalStep(p)
BY ActivateChanges, SetVoteChanges DEF LockerAsks

\* Every step of govern keeps the queue in order.
LEMMA GovernNextQueue ==
  GovernTypeOK /\ ClockRuns /\ QueueInv /\ [OpenWorldStep]_governState => QueueInv'
<1> SUFFICES ASSUME GovernTypeOK, ClockRuns, QueueInv, [OpenWorldStep]_governState PROVE QueueInv'
  OBVIOUS
<1>1. now \in Nat /\ now' \in Nat /\ now' >= now
  BY DEF OpenWorldStep, governState, Tick, GovernTypeOK
<1>2. CASE OpenNext /\ UNCHANGED now
  <2>1. \A p \in Created : p \in Created' /\ ProposalStep(p)
    BY <1>2, OpenChanges
  <2>2. ASSUME NEW p \in Created, NEW x \in Transactions, QueueProposal(p, x) PROVE QueueInv'
    BY <1>2, <2>1, <2>2, QueueGrows
  <2>3. ASSUME UNCHANGED queued_transactions PROVE QueueInv'
    BY <1>1, <2>1, <2>3, QueueKept
  <2>4. \/ UNCHANGED queued_transactions
        \/ \E p \in Created, x \in Transactions : QueueProposal(p, x)
    BY <1>2 DEF OpenNext, CreateProposal, CancelProposal, OnlyProposals, NewVote, ClaimReward,
                SetGovernanceParams, SetLocker, SetVotingReward, FundRewards
  <2> QED BY <2>2, <2>3, <2>4
<1>3. CASE LockerAsks /\ UNCHANGED now
  <2>1. UNCHANGED queued_transactions
    <3>1. \A l, p : ActivateProposal(l, p) => UNCHANGED queued_transactions
      BY DEF ActivateProposal, OnlyProposals
    <3>2. \A l, p, v, side, power : SetVote(l, p, v, side, power) => UNCHANGED queued_transactions
      BY DEF SetVote
    <3> QED BY <1>3, <3>1, <3>2 DEF LockerAsks
  <2> QED BY <1>1, <1>3, <2>1, LockerChanges, QueueKept
<1>4. CASE UNCHANGED governVars \/ WalletActs
  BY <1>1, <1>4, ProposalsStutter, QueueKept DEF governVars, WalletActs
<1> QED BY <1>2, <1>3, <1>4 DEF OpenWorldStep, governState

\* What a proposal's fields say of its votes is what the votes say.
LEMMA CarriedThroughPassed ==
  ASSUME GovernTypeOK, TallyInv, NEW p \in Created, CarriedThrough(p)
  PROVE  Passed(p)
<1> DEFINE q == proposals[p]
<1>1. /\ q.option_votes[FOR_VOTE_INDEX] = VotesFor(p, FOR_VOTE_INDEX)
      /\ q.option_votes[AGAINST_VOTE_INDEX] = VotesFor(p, AGAINST_VOTE_INDEX)
  BY OptionsFinite DEF TallyInv, TallyAccounted
<1>2. TotalVotes(q) = SumFunctionOnSet([v \in Voters |-> votes[p][v].voting_power], Voters)
  BY DEF TallyInv, TotalsAccounted, VotesOn
<1>3. q.option_votes \in [Options -> Nat]
  BY CreatedAreIds DEF Proposal
<1>4. q.option_votes[FOR_VOTE_INDEX] \in Nat /\ q.option_votes[AGAINST_VOTE_INDEX] \in Nat
  BY <1>3, OptionsFinite
<1>5. MeetsQuorum(q) /\ (q.proposal_type = "YesNo" => ~ Outvoted(q))
  BY DEF CarriedThrough
<1>6. q.proposal_type = "YesNo" => VotesFor(p, FOR_VOTE_INDEX) > VotesFor(p, AGAINST_VOTE_INDEX)
  <2> HIDE DEF q
  <2> QED BY <1>1, <1>4, <1>5 DEF Outvoted
<1> QED BY <1>2, <1>5, <1>6 DEF Passed, MeetsQuorum

\* So the proposal of every transaction passed, by the votes as they stand.
LEMMA QueuedPassed ==
  ASSUME GovernTypeOK, TallyInv, QueueInv
  PROVE  QueuedProposalsPassed
<1> SUFFICES ASSUME NEW x \in Transactions, queued_transactions[x].open,
                    NEW p, p = queued_transactions[x].proposal
             PROVE  /\ p \in Created
                    /\ proposals[p].queued_transaction = x
                    /\ proposals[p].canceled_at = 0
                    /\ proposals[p].activated_at > 0
                    /\ proposals[p].queued_at >= proposals[p].voting_ends_at
                    /\ Passed(p)
  BY DEF QueuedProposalsPassed
<1>1. p \in Created /\ proposals[p].queued_transaction = x /\ CarriedThrough(p)
  BY DEF QueueInv
<1>2. Passed(p)
  BY <1>1, CarriedThroughPassed
<1>3. proposals[p].queued_at \in Nat /\ proposals[p].voting_ends_at \in Nat
  BY <1>1, CreatedAreIds DEF GovernTypeOK, Proposal
<1> QED BY <1>1, <1>2, <1>3 DEF CarriedThrough

\* Whatever the locker, the proposers and the wallet do, the governor puts
\* nothing into the wallet but what the votes as they stand pass.
THEOREM QueuedProposalsAlwaysPassed == OpenWorldSpec => []QueuedProposalsPassed
<1> DEFINE Inv == GovernTypeOK /\ ClockRuns /\ TallyInv /\ QueueInv
<1>1. GovernStart => Inv
  <2>1. GovernStart => QueueInv
    BY DEF GovernStart, GovernInit, QueueInv, EmptyTransaction
  <2> QED BY <2>1, GovernInitTyped, GovernInitTally DEF GovernStart, ClockInit, ClockRuns
<1>2. Inv /\ [OpenWorldStep]_governState => Inv'
  <2>1. ClockRuns /\ now \in Nat /\ [OpenWorldStep]_governState => ClockRuns'
    BY DEF OpenWorldStep, governState, Tick, ClockRuns
  <2> QED BY <2>1, GovernNextTyped, GovernNextTally, GovernNextQueue DEF GovernTypeOK
<1>3. Inv => QueuedProposalsPassed
  BY QueuedPassed
<1> QED BY <1>1, <1>2, <1>3, PTL DEF OpenWorldSpec
-----------------------------------------------------------------------------
(* Rewards *)

Decided == {"Defeated", "Queued", "Succeeded"}

\* What the claims of voter v on proposal p are due.
Due(p, v) ==
  IF votes[p][v].claimed THEN RewardOf(proposals[p], votes[p][v].voting_power) ELSE 0

\* Rewards are claimed on decided proposals only, whose tallies stay.
ClaimsDecided ==
  \A p \in ProposalIds, v \in Voters : votes[p][v].claimed =>
    /\ p \in Created /\ votes[p][v].open
    /\ State(proposals[p]) \in Decided

ClaimsCounted == \A p \in Created : proposals[p].total_claimed_reward = ClaimedRewards(p)

PaymentsCounted ==
  \A v \in Voters, m \in Mints :
    rewards_received[v][m] = SumFunctionOnSet([p \in Created |-> PaidFor(p, v, m)], Created)

RewardsInv == ClaimsDecided /\ ClaimsCounted /\ PaymentsCounted

\* A share of a reward is at most in proportion to the voting power.
LEMMA RewardInProportion ==
  ASSUME NEW q \in Proposal, NEW w \in Nat
  PROVE  TotalVotes(q) * RewardOf(q, w) <= q.voting_reward.reward_per_proposal * w
<1> DEFINE r == q.voting_reward.reward_per_proposal
           n == TotalVotes(q)
<1>1. r \in Nat /\ n \in Nat
  BY TotalVotesIsNat DEF Proposal, VotingReward
<1>2. r * w \in Nat
  BY <1>1
<1>3. CASE n = 0
  <2>1. RewardOf(q, w) = 0
    BY <1>3 DEF RewardOf
  <2>2. n * 0 = 0
    BY <1>1
  <2> QED BY <1>2, <2>1, <2>2
<1>4. CASE n > 0
  <2>1. RewardOf(q, w) = (r * w) \div n
    BY <1>4 DEF RewardOf
  <2>2. n * ((r * w) \div n) <= r * w
    <3> DEFINE x == r * w
    <3>1. x \in Nat
      BY <1>2
    <3> HIDE DEF x, n
    <3>2. n * (x \div n) <= x
      BY <1>1, <1>4, <3>1
    <3> QED BY <3>2 DEF x
  <2> QED BY <2>1, <2>2
<1> QED BY <1>1, <1>3, <1>4

\* All claims of a proposal together are due no more than its reward.
LEMMA ClaimsWithinReward ==
  ASSUME GovernTypeOK, TotalsAccounted, NEW p \in Created
  PROVE  ClaimedRewards(p) <= proposals[p].voting_reward.reward_per_proposal
<1> DEFINE q == proposals[p]
           r == q.voting_reward.reward_per_proposal
           f == [v \in Voters |-> Due(p, v)]
           g == [v \in Voters |-> votes[p][v].voting_power]
<1>1. q \in Proposal /\ \A v \in Voters : votes[p][v] \in Vote
  BY CreatedAreIds DEF GovernTypeOK
<1>2. r \in Nat /\ \A v \in Voters : g[v] \in Nat
  BY <1>1 DEF Proposal, VotingReward, Vote
<1>3. ClaimedRewards(p) = SumFunctionOnSet(f, Voters)
  BY DEF ClaimedRewards, Due
<1>4. TotalVotes(q) = SumFunctionOnSet(g, Voters) /\ TotalVotes(q) \in Nat
  BY <1>1, TotalVotesIsNat DEF TotalsAccounted, VotesOn
<1>5. \A v \in Voters : f[v] \in Nat /\ TotalVotes(q) * f[v] <= r * g[v]
  <2> SUFFICES ASSUME NEW v \in Voters PROVE f[v] \in Nat /\ TotalVotes(q) * f[v] <= r * g[v]
    OBVIOUS
  <2>1. CASE votes[p][v].claimed
    BY <1>1, <1>2, <2>1, RewardIsNat, RewardInProportion DEF Due
  <2>2. CASE ~ votes[p][v].claimed
    <3>1. f[v] = 0
      BY <2>2 DEF Due
    <3>2. TotalVotes(q) * 0 = 0 /\ r * g[v] \in Nat
      <4> HIDE DEF q, r, g
      <4> QED BY <1>2, <1>4
    <3> QED BY <3>1, <3>2
  <2> QED BY <2>1, <2>2
<1>6. IsFiniteSet(Voters)
  BY GovernAssumption
<1>7. CASE TotalVotes(q) = 0
  <2>1. \A v \in Voters : f[v] = 0
    BY <1>7 DEF Due, RewardOf
  <2>2. SumFunctionOnSet(f, Voters) = 0
    <3> HIDE DEF f
    <3> QED BY <1>6, <2>1, SumOfZeros
  <2> QED BY <1>2, <1>3, <2>2
<1>8. CASE TotalVotes(q) > 0
  <2>1. SumFunctionOnSet(f, Voters) <= r
    <3>1. \A v \in Voters : f[v] \in Int /\ g[v] \in Nat
      BY <1>2, <1>5
    <3>2. /\ SumFunctionOnSet(g, Voters) > 0
          /\ \A v \in Voters : SumFunctionOnSet(g, Voters) * f[v] <= r * g[v]
      BY <1>4, <1>5, <1>8
    <3> HIDE DEF f, g, r
    <3> QED BY <1>2, <1>6, <3>1, <3>2, SharesOfSum
  <2> QED BY <1>3, <2>1
<1> QED BY <1>4, <1>7, <1>8

\* Every step of govern changes a proposal as ProposalStep says, and not its
\* outcome; time does not touch it.
LEMMA GovernChanges ==
  ASSUME GovernTypeOK, ClockRuns, [OpenWorldStep]_governState, NEW p \in Created
  PROVE  /\ p \in Created' /\ ProposalStep(p) /\ OutcomeKept(p)
         /\ UNCHANGED now \/ Untouched(p)
<1>1. CASE OpenNext /\ UNCHANGED now
  <2>1. OpenWorldStep
    BY <1>1 DEF OpenWorldStep
  <2> QED BY <1>1, <2>1, OpenChanges, StepKeepsOutcome
<1>2. CASE LockerAsks /\ UNCHANGED now
  <2>1. OpenWorldStep
    BY <1>2 DEF OpenWorldStep
  <2> QED BY <1>2, <2>1, LockerChanges, StepKeepsOutcome
<1>3. CASE UNCHANGED governVars
  <2>1. now \in Nat /\ now' \in Nat /\ now' >= now
    BY DEF OpenWorldStep, governState, Tick, GovernTypeOK
  <2> QED BY <1>3, <2>1, ProposalsStutter, UntouchedOutcome DEF governVars, Untouched
<1>4. CASE WalletActs /\ UNCHANGED now
  <2>1. OpenWorldStep
    BY <1>4 DEF OpenWorldStep
  <2> QED BY <1>4, <2>1, ProposalsStutter, StepKeepsOutcome DEF WalletActs
<1> QED BY <1>1, <1>2, <1>3, <1>4 DEF OpenWorldStep, governState

\* The votes at an address where no proposal was created stay as they are.
LEMMA UncreatedStay ==
  ASSUME GovernTypeOK, [OpenWorldStep]_governState, NEW p \in ProposalIds, p \notin Created
  PROVE  votes'[p] = votes[p]
<1>1. ASSUME NEW r \in Created, NEW v \in Voters, NewVote(r, v) PROVE votes'[p] = votes[p]
  BY <1>1 DEF NewVote, GovernTypeOK
<1>2. ASSUME NEW r \in Created, NEW v \in Voters, ClaimReward(r, v) PROVE votes'[p] = votes[p]
  BY <1>2 DEF ClaimReward, GovernTypeOK
<1>3. ASSUME NEW l, NEW r \in Created, NEW v, NEW side, NEW power, SetVote(l, r, v, side, power)
      PROVE  votes'[p] = votes[p]
  <2>1. votes' = [votes EXCEPT ![r][v].side = side, ![r][v].voting_power = power]
    BY <1>3 DEF SetVote
  <2> QED BY <2>1 DEF GovernTypeOK
<1>4. CASE OpenNext
  BY <1>1, <1>2, <1>4
     DEF OpenNext, CreateProposal, CancelProposal, OnlyProposals, QueueProposal,
         SetGovernanceParams, SetLocker, SetVotingReward, FundRewards
<1>5. CASE LockerAsks
  BY <1>3, <1>5 DEF LockerAsks, ActivateProposal, OnlyProposals
<1> QED BY <1>4, <1>5 DEF OpenWorldStep, WalletActs, governState, governVars

\* Only claim_reward claims, and pays.
LEMMA OthersPayNothing ==
  ASSUME GovernTypeOK, ClaimsDecided, [OpenWorldStep]_governState,
         \A p \in Created, v \in Voters : ~ ClaimReward(p, v)
  PROVE  /\ rewards_received' = rewards_received
         /\ \A p \in ProposalIds, v \in Voters : votes'[p][v].claimed = votes[p][v].claimed
<1> DEFINE Goal == /\ rewards_received' = rewards_received
                   /\ \A p \in ProposalIds, v \in Voters :
                        votes'[p][v].claimed = votes[p][v].claimed
<1>0. votes \in [ProposalIds -> [Voters -> Vote]] /\ Created \subseteq ProposalIds
  BY CreatedAreIds DEF GovernTypeOK
<1>1. ASSUME NEW r \in Created, NEW v \in Voters, NewVote(r, v) PROVE Goal
  <2>1. /\ votes' = [votes EXCEPT ![r][v] = [ClosedVote EXCEPT !.open = TRUE]]
        /\ ~ votes[r][v].open /\ rewards_received' = rewards_received
    BY <1>1 DEF NewVote
  <2>2. ~ votes[r][v].claimed
    BY <1>0, <2>1 DEF ClaimsDecided
  <2>3. votes[r][v] \in Vote
    BY <1>0
  <2> QED BY <1>0, <2>1, <2>2, <2>3 DEF ClosedVote, Vote
<1>2. ASSUME NEW l \in Lockers, NEW r \in Created, NEW v \in Voters, NEW side, NEW power,
             SetVote(l, r, v, side, power)
      PROVE  Goal
  <2>1. /\ votes' = [votes EXCEPT ![r][v].side = side, ![r][v].voting_power = power]
        /\ rewards_received' = rewards_received
    BY <1>2 DEF SetVote
  <2> QED BY <1>0, <2>1 DEF Vote
<1>3. ASSUME UNCHANGED <<votes, rewards_received>> PROVE Goal
  BY <1>3
<1> HIDE DEF Goal
<1>4. ASSUME OpenNext PROVE Goal
  <2>1. \/ \E r \in Created, v \in Voters : NewVote(r, v)
        \/ UNCHANGED <<votes, rewards_received>>
    BY <1>4 DEF OpenNext, CreateProposal, CancelProposal, OnlyProposals, QueueProposal,
                SetGovernanceParams, SetLocker, SetVotingReward, FundRewards
  <2> QED BY <1>1, <1>3, <2>1
<1>5. ASSUME LockerAsks PROVE Goal
  <2>1. \A l, r : ActivateProposal(l, r) => UNCHANGED <<votes, rewards_received>>
    BY DEF ActivateProposal, OnlyProposals
  <2> QED BY <1>2, <1>3, <1>5, <2>1 DEF LockerAsks
<1>6. Goal
  BY <1>3, <1>4, <1>5 DEF OpenWorldStep, WalletActs, governState, governVars
<1> QED BY <1>6 DEF Goal

\* What is due for a proposal changes by a claim alone.
LEMMA DuesStay ==
  ASSUME GovernTypeOK, ClaimsDecided, NEW p \in Created, ProposalStep(p),
         \A v \in Voters : votes'[p][v].claimed = votes[p][v].claimed
  PROVE  /\ \A v \in Voters : Due(p, v)' = Due(p, v)
         /\ proposals'[p].total_claimed_reward = proposals[p].total_claimed_reward
         /\ proposals'[p].voting_reward = proposals[p].voting_reward
<1> DEFINE q == proposals[p]
           r == proposals'[p]
<1>1. /\ p \in ProposalIds /\ q \in Proposal
      /\ votes[p] \in [Voters -> Vote]
  BY CreatedAreIds DEF GovernTypeOK
<1>2. ~ \E v \in Voters : Claimed(p, v)
  BY <1>1 DEF Claimed, Vote
<1>3. /\ r.total_claimed_reward = q.total_claimed_reward
      /\ r.voting_reward = q.voting_reward
  <2>1. ASSUME NEW tally, r = [q EXCEPT !.option_votes = tally]
        PROVE  r.total_claimed_reward = q.total_claimed_reward /\ r.voting_reward = q.voting_reward
    BY <1>1, <2>1 DEF Proposal
  <2>2. CASE \E v \in Voters, side \in Nat, power \in Nat : Voted(p, v, side, power)
    BY <2>1, <2>2 DEF Voted
  <2>3. CASE ~ \E v \in Voters, side \in Nat, power \in Nat : Voted(p, v, side, power)
    BY <1>1, <1>2, <2>3 DEF ProposalStep, Untouched, Activated, Canceled, Opened, Queued, Proposal
  <2> QED BY <2>2, <2>3
<1>4. ASSUME NEW v \in Voters PROVE Due(p, v)' = Due(p, v)
  <2>1. CASE ~ votes[p][v].claimed
    BY <2>1 DEF Due
  <2>2. CASE votes[p][v].claimed
    <3>1. State(q) \in Decided /\ votes[p][v].open
      BY <1>1, <2>2 DEF ClaimsDecided
    <3>2. Untouched(p) \/ (\E u \in Voters : Opened(p, u)) \/ (\E x \in Transactions : Queued(p, x))
      BY <1>2, <3>1 DEF ProposalStep, Activated, Canceled, Voted, Decided
    <3>3. r.option_votes = q.option_votes
      BY <1>1, <3>2 DEF Untouched, Opened, Queued, Proposal
    <3>4. votes'[p][v] = votes[p][v]
      <4>1. ASSUME NEW u \in Voters, Opened(p, u) PROVE votes'[p][v] = votes[p][v]
        <5>1. /\ ~ votes[p][u].open
              /\ votes'[p] = [votes[p] EXCEPT ![u] = [ClosedVote EXCEPT !.open = TRUE]]
          BY <4>1 DEF Opened
        <5>2. u # v
          BY <3>1, <5>1
        <5> QED BY <1>1, <5>1, <5>2
      <4> QED BY <3>2, <4>1 DEF Untouched, Queued
    <3>5. RewardOf(r, votes[p][v].voting_power) = RewardOf(q, votes[p][v].voting_power)
      BY <1>3, <3>3 DEF RewardOf, TotalVotes
    <3> QED BY <3>4, <3>5 DEF Due, RewardOf, TotalVotes
  <2> QED BY <2>1, <2>2
<1> QED BY <1>3, <1>4

\* A claim adds what one vote is due.
LEMMA DueAdds ==
  ASSUME GovernTypeOK, NEW p \in Created, NEW v \in Voters, Claimed(p, v)
  PROVE  /\ \A u \in Voters : u # v => Due(p, u)' = Due(p, u)
         /\ Due(p, v) = 0
         /\ proposals'[p].total_claimed_reward = proposals[p].total_claimed_reward + Due(p, v)'
         /\ proposals'[p].voting_reward = proposals[p].voting_reward
         /\ Due(p, v)' = RewardOf(proposals[p], votes[p][v].voting_power)
<1> DEFINE q == proposals[p]
           r == proposals'[p]
           reward == RewardOf(q, votes[p][v].voting_power)
<1>1. /\ p \in ProposalIds /\ q \in Proposal
      /\ votes[p] \in [Voters -> Vote]
  BY CreatedAreIds DEF GovernTypeOK
<1>2. /\ r.total_claimed_reward = q.total_claimed_reward + reward
      /\ r.voting_reward = q.voting_reward /\ r.option_votes = q.option_votes
  <2>1. r = [q EXCEPT !.total_claimed_reward = @ + reward]
    BY DEF Claimed
  <2> HIDE DEF reward
  <2> QED BY <1>1, <2>1 DEF Proposal
<1>3. /\ \A u \in Voters : u # v => votes'[p][u] = votes[p][u]
      /\ votes'[p][v].claimed /\ votes'[p][v].voting_power = votes[p][v].voting_power
      /\ ~ votes[p][v].claimed
  BY <1>1 DEF Claimed, Vote
<1>4. \A w : RewardOf(r, w) = RewardOf(q, w)
  BY <1>2 DEF RewardOf, TotalVotes
<1>5. \A u \in Voters : u # v => Due(p, u)' = Due(p, u)
  BY <1>3, <1>4 DEF Due, RewardOf, TotalVotes
<1>6. Due(p, v)' = reward
  BY <1>3, <1>4 DEF Due, RewardOf, TotalVotes
<1>7. Due(p, v) = 0
  BY <1>3 DEF Due
<1> HIDE DEF q, r, reward
<1> QED BY <1>2, <1>5, <1>6, <1>7 DEF q, r, reward

\* A vote that is claimed after a step is one on a decided proposal.
LEMMA ClaimedBefore ==
  ASSUME GovernTypeOK, ClaimsDecided, NEW p \in Created, ProposalStep(p),
         NEW v \in Voters, votes'[p][v].claimed
  PROVE  State(proposals[p]) \in Decided /\ votes'[p][v].open
<1>1. p \in ProposalIds /\ votes[p] \in [Voters -> Vote]
  BY CreatedAreIds DEF GovernTypeOK
<1>2. votes[p][v].claimed => State(proposals[p]) \in Decided /\ votes[p][v].open
  BY <1>1 DEF ClaimsDecided
<1>3. ASSUME votes'[p][v].claimed = votes[p][v].claimed, votes'[p][v].open = votes[p][v].open
      PROVE  State(proposals[p]) \in Decided /\ votes'[p][v].open
  BY <1>2, <1>3
<1>4. CASE \E u \in Voters : Claimed(p, u)
  <2>1. PICK u \in Voters : Claimed(p, u)
    BY <1>4
  <2>2. State(proposals[p]) \in Decided /\ votes[p][u].open
    BY <2>1 DEF Claimed, Claimable, Decided
  <2>3. votes'[p][v].open = votes[p][v].open /\ (u # v => votes'[p][v] = votes[p][v])
    BY <1>1, <2>1 DEF Claimed, Vote
  <2> QED BY <1>2, <2>2, <2>3
<1>5. CASE \E u \in Voters, side \in Nat, power \in Nat : Voted(p, u, side, power)
  <2>1. PICK u \in Voters, side \in Nat, power \in Nat : Voted(p, u, side, power)
    BY <1>5
  <2>2. votes'[p] = [votes[p] EXCEPT ![u] = [@ EXCEPT !.side = side, !.voting_power = power]]
    BY <2>1 DEF Voted
  <2>3. votes'[p][v].claimed = votes[p][v].claimed /\ votes'[p][v].open = votes[p][v].open
    <3>1. CASE u = v
      <4>1. votes'[p][v] = [votes[p][v] EXCEPT !.side = side, !.voting_power = power]
        BY <1>1, <2>2, <3>1
      <4>2. votes[p][v] \in Vote
        BY <1>1
      <4> QED BY <4>1, <4>2 DEF Vote
    <3>2. CASE u # v
      BY <1>1, <2>2, <3>2
    <3> QED BY <3>1, <3>2
  <2> QED BY <1>3, <2>3
<1>6. CASE \E u \in Voters : Opened(p, u)
  <2>1. PICK u \in Voters : Opened(p, u)
    BY <1>6
  <2>2. votes'[p] = [votes[p] EXCEPT ![u] = [ClosedVote EXCEPT !.open = TRUE]]
    BY <2>1 DEF Opened
  <2>3. ~ votes'[p][u].claimed
    BY <1>1, <2>2 DEF ClosedVote
  <2>4. u # v
    BY <2>3
  <2>5. votes'[p][v] = votes[p][v]
    BY <1>1, <2>2, <2>4
  <2> QED BY <1>3, <2>5
<1>7. CASE votes'[p] = votes[p]
  BY <1>3, <1>7
<1> QED BY <1>4, <1>5, <1>6, <1>7 DEF ProposalStep, Untouched, Activated, Canceled, Queued

\* What is due is a natural number.
LEMMA DueIsNat ==
  ASSUME GovernTypeOK, NEW p \in Created, NEW v \in Voters
  PROVE  /\ Due(p, v) \in Nat
         /\ \A m \in Mints : PaidFor(p, v, m) \in Nat
<1>1. proposals[p] \in Proposal /\ votes[p][v] \in Vote
  BY CreatedAreIds DEF GovernTypeOK
<1>2. Due(p, v) \in Nat
  BY <1>1, RewardIsNat DEF Due, Vote
<1> QED BY <1>2 DEF PaidFor, Due

\* A step creates at most one proposal, a draft for which nothing was claimed.
LEMMA AtMostOneCreated ==
  ASSUME GovernTypeOK, [OpenWorldStep]_governState
  PROVE  \/ Created' = Created
         \/ \E n : /\ n \notin Created /\ Created' = Created \cup {n}
                   /\ proposals'[n].total_claimed_reward = 0
                   /\ proposals'[n].activated_at = 0 /\ proposals'[n].canceled_at = 0
                   /\ proposals'[n].queued_at = 0
<1>1. ASSUME NEW proposer \in Proposers, NEW max_option \in Options,
             NEW proposal_type \in {"YesNo", "Option"},
             CreateProposal(proposer, proposal_type, max_option)
      PROVE  /\ proposal_count \notin Created /\ Created' = Created \cup {proposal_count}
             /\ proposals'[proposal_count].total_claimed_reward = 0
             /\ proposals'[proposal_count].activated_at = 0
             /\ proposals'[proposal_count].canceled_at = 0
             /\ proposals'[proposal_count].queued_at = 0
  <2>1. proposal_count \in Nat /\ proposal_count' = proposal_count + 1
    BY <1>1 DEF GovernTypeOK, CreateProposal
  <2>2. proposal_count \notin Created /\ Created' = Created \cup {proposal_count}
    BY <2>1 DEF Created
  <2> QED BY <1>1, <2>1, <2>2 DEF CreateProposal
<1>2. ASSUME UNCHANGED proposal_count PROVE Created' = Created
  BY <1>2 DEF Created
<1>3. \/ \E proposer \in Proposers, max_option \in Options, proposal_type \in {"YesNo", "Option"} :
           CreateProposal(proposer, proposal_type, max_option)
      \/ UNCHANGED proposal_count
  <2>1. \A l, p : ActivateProposal(l, p) => UNCHANGED proposal_count
    BY DEF ActivateProposal, OnlyProposals
  <2>2. \A l, p, v, side, power : SetVote(l, p, v, side, power) => UNCHANGED proposal_count
    BY DEF SetVote
  <2>3. LockerAsks => UNCHANGED proposal_count
    BY <2>1, <2>2 DEF LockerAsks
  <2> QED BY <2>3
          DEF OpenWorldStep, WalletActs, governState, governVars, OpenNext, CancelProposal, OnlyProposals,
              NewVote, ClaimReward, QueueProposal, SetGovernanceParams, SetLocker,
              SetVotingReward, FundRewards
<1> QED BY <1>1, <1>2, <1>3

\* The proposals created are finitely many.
LEMMA CreatedFinite == GovernTypeOK => IsFiniteSet(Created)
<1> SUFFICES ASSUME GovernTypeOK PROVE IsFiniteSet(Created)
  OBVIOUS
<1>1. 0 \in Int /\ proposal_count - 1 \in Int
  BY DEF GovernTypeOK
<1> QED BY <1>1, FS_Interval DEF Created

\* claim_reward pays exactly what the claim it records is due.
LEMMA ClaimKeepsRewards ==
  ASSUME GovernTypeOK, RewardsInv, NEW r \in Created, NEW v \in Voters, ClaimReward(r, v)
  PROVE  ClaimsCounted' /\ PaymentsCounted'
<1> DEFINE reward == RewardOf(proposals[r], votes[r][v].voting_power)
           mint == proposals[r].voting_reward.reward_mint
<1>1. /\ Created' = Created /\ Claimed(r, v)
      /\ \A p \in Created : p # r => Untouched(p)
  BY ClaimChanges
<1>2. \A p \in Created, u \in Voters :
        /\ ~ (p = r /\ u = v) => Due(p, u)' = Due(p, u)
        /\ proposals'[p].voting_reward = proposals[p].voting_reward
        /\ p # r => proposals'[p].total_claimed_reward = proposals[p].total_claimed_reward
  BY <1>1, DueAdds DEF Untouched, Due
<1>3. /\ Due(r, v) = 0 /\ Due(r, v)' = reward
      /\ proposals'[r].total_claimed_reward = proposals[r].total_claimed_reward + reward
  BY <1>1, DueAdds
<1>4. \A p \in Created, u \in Voters :
        Due(p, u) \in Nat /\ \A m \in Mints : PaidFor(p, u, m) \in Nat
  BY DueIsNat
<1>5. /\ IsFiniteSet(Voters) /\ IsFiniteSet(Created) /\ reward \in Nat
      /\ mint \in Mints \cup {NoMint} /\ mint # NoMint
      /\ rewards_received' = [rewards_received EXCEPT ![v][mint] = @ + reward]
  <2>1. IsFiniteSet(Voters) /\ IsFiniteSet(Created)
    BY GovernAssumption, CreatedFinite
  <2>2. proposals[r] \in Proposal /\ votes[r][v] \in Vote
    BY CreatedAreIds DEF GovernTypeOK
  <2>3. votes[r][v].voting_power \in Nat /\ proposals[r].voting_reward \in VotingReward
    BY <2>2 DEF Vote, Proposal
  <2>4. reward \in Nat /\ mint \in Mints \cup {NoMint}
    BY <2>2, <2>3, RewardIsNat DEF VotingReward
  <2>5. /\ mint # NoMint
        /\ rewards_received' = [rewards_received EXCEPT ![v][mint] = @ + reward]
    BY DEF ClaimReward
  <2> QED BY <2>1, <2>4, <2>5
<1>6. ASSUME NEW p \in Created
      PROVE  proposals'[p].total_claimed_reward = ClaimedRewards(p)'
  <2> DEFINE f == [u \in Voters |-> Due(p, u)]
             g == [u \in Voters |-> Due(p, u)']
  <2>1. /\ ClaimedRewards(p) = SumFunctionOnSet(f, Voters)
        /\ ClaimedRewards(p)' = SumFunctionOnSet(g, Voters)
        /\ proposals[p].total_claimed_reward = ClaimedRewards(p)
    BY DEF ClaimedRewards, Due, RewardsInv, ClaimsCounted
  <2>2. CASE p # r
    <3>1. \A u \in Voters : f[u] = g[u]
      BY <1>2, <2>2
    <3>2. SumFunctionOnSet(f, Voters) = SumFunctionOnSet(g, Voters)
      <4> HIDE DEF f, g
      <4> QED BY <1>5, <3>1, SumCongruence
    <3> QED BY <1>2, <2>1, <2>2, <3>2
  <2>3. CASE p = r
    <3>1. /\ \A u \in Voters : f[u] \in Int /\ g[u] \in Int
          /\ \A u \in Voters \ {v} : f[u] = g[u]
          /\ f[v] = 0 /\ g[v] = reward
      BY <1>2, <1>3, <1>4, <1>5, <2>3
    <3>2. SumFunctionOnSet(g, Voters) = (SumFunctionOnSet(f, Voters) - f[v]) + g[v]
      <4>1. IsFiniteSet(Voters) /\ \A u \in Voters : f[u] \in Int /\ g[u] \in Int
        BY <1>5, <3>1
      <4>2. \A u \in Voters \ {v} : f[u] = g[u]
        BY <3>1
      <4> HIDE DEF f, g, reward
      <4> QED BY <4>1, <4>2, SumUpdate
    <3>3. SumFunctionOnSet(f, Voters) \in Int
      <4> HIDE DEF f, g, reward
      <4> QED BY <1>5, <3>1, SumIsInt
    <3> HIDE DEF f, g, reward
    <3> QED BY <1>3, <1>5, <2>1, <2>3, <3>1, <3>2, <3>3
  <2> QED BY <2>2, <2>3
<1>7. ASSUME NEW u \in Voters, NEW m \in Mints
      PROVE  rewards_received'[u][m] = SumFunctionOnSet([p \in Created |-> PaidFor(p, u, m)'], Created)
  <2> DEFINE f == [p \in Created |-> PaidFor(p, u, m)]
             g == [p \in Created |-> PaidFor(p, u, m)']
  <2>0. rewards_received[u][m] = SumFunctionOnSet(f, Created)
    BY DEF RewardsInv, PaymentsCounted
  <2>1. rewards_received \in [Voters -> [Mints -> Nat]]
    BY DEF GovernTypeOK
  <2>2. CASE u = v /\ m = mint
    <3>1. /\ \A p \in Created : f[p] \in Int
          /\ \A p \in Created \ {r} : f[p] = g[p]
          /\ f[r] = 0 /\ g[r] = reward
      BY <1>2, <1>3, <1>4, <2>2 DEF PaidFor, Due
    <3>2. \A p \in Created : f[p] \in Int /\ g[p] \in Int
      BY <1>5, <3>1
    <3>3. SumFunctionOnSet(g, Created) = (SumFunctionOnSet(f, Created) - f[r]) + g[r]
      <4>1. IsFiniteSet(Created)
        BY <1>5
      <4>2. \A p \in Created \ {r} : f[p] = g[p]
        BY <3>1
      <4> HIDE DEF f, g, reward
      <4> QED BY <4>1, <4>2, <3>2, SumUpdate
    <3>4. rewards_received'[u][m] = rewards_received[u][m] + reward
      <4> HIDE DEF f, g, reward, mint
      <4> QED BY <1>5, <2>1, <2>2
    <3>5. SumFunctionOnSet(f, Created) \in Int
      <4> HIDE DEF f, g, reward
      <4> QED BY <1>5, <3>2, SumIsInt
    <3>6. rewards_received'[u][m] = SumFunctionOnSet(g, Created)
      <4> HIDE DEF f, g, reward
      <4> QED BY <1>5, <2>0, <3>1, <3>3, <3>4, <3>5
    <3> QED BY <3>6
  <2>3. CASE ~ (u = v /\ m = mint)
    <3>1. f = g
      BY <1>2, <2>3 DEF PaidFor, Due
    <3>2. rewards_received'[u][m] = rewards_received[u][m]
      <4> HIDE DEF f, g, reward, mint
      <4> QED BY <1>5, <2>1, <2>3
    <3> QED BY <2>0, <3>1, <3>2
  <2> QED BY <2>2, <2>3
<1> QED BY <1>1, <1>6, <1>7 DEF ClaimsCounted, PaymentsCounted

\* Whatever pays nothing keeps the rewards as they are: a new proposal has
\* paid none.
LEMMA OthersKeepRewards ==
  ASSUME GovernTypeOK, RewardsInv, [OpenWorldStep]_governState,
         \A p \in Created : p \in Created' /\ ProposalStep(p),
         Created' \subseteq ProposalIds,
         \A p \in Created, v \in Voters : ~ ClaimReward(p, v)
  PROVE  ClaimsCounted' /\ PaymentsCounted'
<1>1. /\ rewards_received' = rewards_received
      /\ \A p \in ProposalIds, v \in Voters : votes'[p][v].claimed = votes[p][v].claimed
  BY OthersPayNothing DEF RewardsInv
<1>2. \A p \in Created :
        /\ \A v \in Voters : Due(p, v)' = Due(p, v)
        /\ proposals'[p].total_claimed_reward = proposals[p].total_claimed_reward
        /\ proposals'[p].voting_reward = proposals[p].voting_reward
  BY <1>1, DuesStay, CreatedAreIds DEF RewardsInv
<1>3. IsFiniteSet(Voters) /\ IsFiniteSet(Created)
  BY GovernAssumption, CreatedFinite
<1>4. ASSUME NEW p \in Created'
      PROVE  proposals'[p].total_claimed_reward = ClaimedRewards(p)'
  <2> DEFINE f == [u \in Voters |-> Due(p, u)]
             g == [u \in Voters |-> Due(p, u)']
  <2>1. /\ ClaimedRewards(p) = SumFunctionOnSet(f, Voters)
        /\ ClaimedRewards(p)' = SumFunctionOnSet(g, Voters)
    BY DEF ClaimedRewards, Due
  <2>2. CASE p \in Created
    <3>1. \A u \in Voters : f[u] = g[u]
      BY <1>2, <2>2
    <3>2. SumFunctionOnSet(f, Voters) = SumFunctionOnSet(g, Voters)
      <4> HIDE DEF f, g
      <4> QED BY <1>3, <3>1, SumCongruence
    <3> QED BY <1>2, <2>1, <2>2, <3>2 DEF RewardsInv, ClaimsCounted
  <2>3. CASE p \notin Created
    <3>1. proposals'[p].total_claimed_reward = 0
      BY <2>3, AtMostOneCreated
    <3>2. \A u \in Voters : g[u] = 0
      BY <1>1, <2>3 DEF RewardsInv, ClaimsDecided, Due
    <3>3. SumFunctionOnSet(g, Voters) = 0
      <4> HIDE DEF f, g
      <4> QED BY <1>3, <3>2, SumOfZeros
    <3> QED BY <2>1, <3>1, <3>3
  <2> QED BY <2>2, <2>3
<1>5. ASSUME NEW u \in Voters, NEW m \in Mints
      PROVE  rewards_received'[u][m]
               = SumFunctionOnSet([p \in Created' |-> PaidFor(p, u, m)'], Created')
  <2> DEFINE f == [p \in Created |-> PaidFor(p, u, m)]
             g == [p \in Created' |-> PaidFor(p, u, m)']
  <2>1. rewards_received'[u][m] = SumFunctionOnSet(f, Created)
    BY <1>1 DEF RewardsInv, PaymentsCounted
  <2>2. /\ \A p \in Created : f[p] = g[p] /\ f[p] \in Nat
        /\ \A p \in Created' : p \notin Created => g[p] = 0
    <3>1. \A p \in Created : f[p] = g[p]
      BY <1>2 DEF PaidFor, Due
    <3>2. \A p \in Created' : p \notin Created => g[p] = 0
      BY <1>1 DEF RewardsInv, ClaimsDecided, PaidFor
    <3>3. \A p \in Created : f[p] \in Nat
      BY DueIsNat
    <3> QED BY <3>1, <3>2, <3>3
  <2>3. SumFunctionOnSet(f, Created) = SumFunctionOnSet(g, Created)
    <3> HIDE DEF f, g
    <3> QED BY <1>3, <2>2, SumCongruence
  <2>4. CASE Created' = Created
    <3> HIDE DEF f
    <3> QED BY <2>1, <2>3, <2>4
  <2>5. ASSUME NEW n, n \notin Created, Created' = Created \cup {n}
        PROVE  SumFunctionOnSet(g, Created') = SumFunctionOnSet(g, Created)
    <3>1. /\ IsFiniteSet(Created') /\ n \in Created' /\ Created' \ {n} = Created
      BY <1>3, <2>5, FS_AddElement
    <3>2. (\A p \in Created' : g[p] \in Int) /\ g[n] = 0
      <4> HIDE DEF f, g
      <4> QED BY <2>2, <2>5
    <3>3. SumFunctionOnSet(g, Created') = g[n] + SumFunctionOnSet(g, Created)
      <4>1. SumFunctionOnSet(g, Created') = g[n] + SumFunctionOnSet(g, Created' \ {n})
        <5> HIDE DEF f, g
        <5> QED BY <3>1, <3>2, SumRemove
      <4> HIDE DEF f, g
      <4> QED BY <3>1, <4>1
    <3>4. SumFunctionOnSet(g, Created) \in Int
      <4>1. \A p \in Created : g[p] \in Int
        <5> HIDE DEF f, g
        <5> QED BY <3>2, <2>5
      <4> HIDE DEF f, g
      <4> QED BY <1>3, <4>1, SumIsInt
    <3> HIDE DEF f, g
    <3> QED BY <3>1, <3>2, <3>3, <3>4
  <2>6. SumFunctionOnSet(g, Created') = SumFunctionOnSet(g, Created)
    <3> HIDE DEF f, g
    <3> QED BY <2>5, AtMostOneCreated
  <2> HIDE DEF f
  <2> QED BY <2>1, <2>3, <2>6
<1> QED BY <1>4, <1>5 DEF ClaimsCounted, PaymentsCounted

\* Every step of govern keeps the rewards accounted for.
LEMMA GovernNextRewards ==
  GovernTypeOK /\ ClockRuns /\ RewardsInv /\ [OpenWorldStep]_governState => RewardsInv'
<1> SUFFICES ASSUME GovernTypeOK, ClockRuns, RewardsInv, [OpenWorldStep]_governState
             PROVE  RewardsInv'
  OBVIOUS
<1>0. GovernTypeOK' /\ IsFiniteSet(Voters)
  BY GovernNextTyped, GovernAssumption
<1>1. \A p \in Created : p \in Created' /\ ProposalStep(p) /\ OutcomeKept(p)
  BY GovernChanges
<1>2. \A p \in ProposalIds : p \notin Created => votes'[p] = votes[p]
  BY UncreatedStay
<1>3. Created \subseteq ProposalIds /\ Created' \subseteq ProposalIds
  <2>1. \A p \in Created : p \in ProposalIds
    BY CreatedAreIds
  <2>2. proposal_count' \in 0..MaxProposals /\ MaxProposals \in Nat
    BY <1>0, GovernAssumption DEF GovernTypeOK
  <2>3. Created' = 0..(proposal_count' - 1)
    BY DEF Created
  <2> QED BY <2>1, <2>2, <2>3, LowerIds DEF ProposalIds
<1>4. ClaimsDecided'
  <2> SUFFICES ASSUME NEW p \in ProposalIds, NEW v \in Voters, votes'[p][v].claimed
               PROVE  p \in Created' /\ votes'[p][v].open /\ State(proposals[p])' \in Decided
    BY DEF ClaimsDecided
  <2>1. p \in Created
    BY <1>2 DEF RewardsInv, ClaimsDecided
  <2>2. /\ State(proposals[p]) \in Decided
        /\ votes'[p][v].open
    BY <2>1, ClaimedBefore, <1>1 DEF RewardsInv
  <2>3. OutcomeKept(p)
    BY <1>1, <2>1
  <2>4. State(proposals[p])' \in Decided
    BY <2>2, <2>3 DEF OutcomeKept, Decided, Final
  <2> QED BY <1>1, <2>1, <2>2, <2>4
<1>5. ClaimsCounted' /\ PaymentsCounted'
  <2>1. CASE \E p \in Created, v \in Voters : ClaimReward(p, v)
    BY <2>1, ClaimKeepsRewards
  <2>2. CASE \A p \in Created, v \in Voters : ~ ClaimReward(p, v)
    BY <1>1, <1>3, <2>2, OthersKeepRewards
  <2> QED BY <2>1, <2>2
<1> QED BY <1>4, <1>5 DEF RewardsInv

\* Every voter is paid once for each proposal, his share of the final tally,
\* and all of them together no more than the reward of the proposal,
\* whatever is claimed, funded, voted or queued in between.
THEOREM RewardsAlwaysAccounted == OpenWorldSpec => []RewardsAccounted
<1> DEFINE Inv == GovernTypeOK /\ ClockRuns /\ TallyInv /\ RewardsInv
<1>1. GovernStart => Inv
  <2>1. GovernStart => RewardsInv
    <3> SUFFICES ASSUME GovernStart PROVE RewardsInv
      OBVIOUS
    <3>1. /\ Created = {}
          /\ \A p \in ProposalIds, v \in Voters : ~ votes[p][v].claimed
      BY DEF GovernStart, GovernInit, Created, ClosedVote
    <3>2. \A v \in Voters, m \in Mints : rewards_received[v][m] = 0
      BY DEF GovernStart, GovernInit
    <3> QED BY <3>1, <3>2, SumOfEmpty
            DEF RewardsInv, ClaimsDecided, ClaimsCounted, PaymentsCounted
  <2> QED BY <2>1, GovernInitTyped, GovernInitTally DEF GovernStart, ClockInit, ClockRuns
<1>2. Inv /\ [OpenWorldStep]_governState => Inv'
  <2>1. ClockRuns /\ now \in Nat /\ [OpenWorldStep]_governState => ClockRuns'
    BY DEF OpenWorldStep, governState, Tick, ClockRuns
  <2> QED BY <2>1, GovernNextTyped, GovernNextTally, GovernNextRewards DEF GovernTypeOK
<1>3. Inv => RewardsAccounted
  <2> SUFFICES ASSUME Inv PROVE RewardsAccounted
    OBVIOUS
  <2>1. \A p \in Created :
          ClaimedRewards(p) <= proposals[p].voting_reward.reward_per_proposal
    BY ClaimsWithinReward DEF TallyInv
  <2> QED BY <2>1 DEF RewardsInv, ClaimsCounted, PaymentsCounted, RewardsAccounted
<1> QED BY <1>1, <1>2, <1>3, PTL DEF OpenWorldSpec

-----------------------------------------------------------------------------
(* Proposals as ballots *)

\* A vote has a side once it is open, there are none on proposals still to be
\* created, and what is queued was carried through.
BallotInv ==
  /\ \A p \in ProposalIds, v \in Voters :
       /\ ~ votes[p][v].open => votes[p][v].side = 0
       /\ p \notin Created => ~ votes[p][v].open
  /\ \A p \in Created : proposals[p].queued_at > 0 => CarriedThrough(p)

\* The outcome that a proposal's own fields give it, once its voting is over.
Verdict(q) ==
  IF TotalVotes(q) > U64Max THEN "uncountable"
  ELSE IF MeetsQuorum(q) /\ ~ (q.proposal_type = "YesNo" /\ Outvoted(q))
  THEN "passed" ELSE "rejected"

\* A ballot sums what is cast as a proposal's voters do.
LEMMA BoxSum == \A f, S : Box!SumFunctionOnSet(f, S) = SumFunctionOnSet(f, S)
BY DEF SumFunctionOnSet, FoldFunctionOnSet, MapThenFoldSet,
       Box!SumFunctionOnSet, Box!FoldFunctionOnSet, Box!MapThenFoldSet

\* The outcome of the votes as they stand is that of the running tally.
LEMMA VerdictIsOutcome ==
  ASSUME GovernTypeOK, TallyInv, NEW p \in Created
  PROVE  Box!Outcome(BallotOf(p)) = Verdict(proposals[p])
<1> DEFINE q == proposals[p]
           b == BallotOf(p)
           f == [v \in Voters |-> votes[p][v].voting_power]
<1>1. /\ b.quorum = q.quorum_votes
      /\ b.yes_no = (q.proposal_type = "YesNo")
      /\ \A v \in Voters : /\ b.votes[v].side = votes[p][v].side
                           /\ b.votes[v].weight = votes[p][v].voting_power
  BY DEF BallotOf
<1>2. TotalVotes(q) = VotesOn(p) /\ TotalVotes(q) \in Nat /\ q \in Proposal
  BY CreatedAreIds, TotalVotesIsNat DEF TallyInv, TotalsAccounted
<1>3. Box!Cast(b) = TotalVotes(q)
  <2>1. [v \in Voters |-> b.votes[v].weight] = f
    <3> HIDE DEF b
    <3> QED BY <1>1
  <2>2. VotesOn(p) = SumFunctionOnSet(f, Voters)
    BY DEF VotesOn
  <2> HIDE DEF b, f, q
  <2> QED BY <1>2, <2>1, <2>2, BoxSum DEF Box!Cast
<1>4. \A s \in Options : Box!CastFor(b, s) = q.option_votes[s]
  <2> SUFFICES ASSUME NEW s \in Options PROVE Box!CastFor(b, s) = q.option_votes[s]
    OBVIOUS
  <2> DEFINE g == [v \in Voters |-> WeightOn(votes[p][v], s)]
  <2>1. [v \in Voters |-> IF b.votes[v].side = s THEN b.votes[v].weight ELSE 0] = g
    <3> HIDE DEF b
    <3> QED BY <1>1 DEF WeightOn
  <2>2. q.option_votes[s] = SumFunctionOnSet(g, Voters)
    BY DEF TallyInv, TallyAccounted, VotesFor
  <2> HIDE DEF b, g, q
  <2> QED BY <2>1, <2>2, BoxSum DEF Box!CastFor
<1>5. /\ q.option_votes[FOR_VOTE_INDEX] \in Nat /\ q.option_votes[AGAINST_VOTE_INDEX] \in Nat
      /\ q.quorum_votes \in Nat
  BY <1>2, OptionsFinite DEF Proposal
<1>6. /\ Box!CastFor(b, FOR_VOTE_INDEX) = q.option_votes[FOR_VOTE_INDEX]
      /\ Box!CastFor(b, AGAINST_VOTE_INDEX) = q.option_votes[AGAINST_VOTE_INDEX]
  BY <1>4, OptionsFinite
<1> HIDE DEF b, q
<1>7. Outvoted(q) <=> ~ (Box!CastFor(b, FOR_VOTE_INDEX) > Box!CastFor(b, AGAINST_VOTE_INDEX))
  BY <1>5, <1>6 DEF Outvoted
<1>8. MeetsQuorum(q) <=> Box!Cast(b) >= b.quorum
  BY <1>1, <1>3 DEF MeetsQuorum
<1> QED BY <1>1, <1>3, <1>7, <1>8 DEF Box!Outcome, Verdict, b, q

\* The status after a step of a proposal whose voting is over by then and that
\* was not queued is its verdict.
LEMMA OverIsVerdict ==
  ASSUME NEW p,
         ~ (proposals'[p].canceled_at > 0), proposals'[p].activated_at # 0,
         ~ (now' < proposals'[p].voting_ends_at), ~ (proposals'[p].queued_at > 0)
  PROVE  StatusOf(proposals[p])' = Verdict(proposals'[p])
BY DEF StatusOf, State, Verdict, MeetsQuorum, TotalVotes, Outvoted

\* Two proposals with the same tally have the same verdict.
LEMMA SameVerdict ==
  ASSUME NEW q, NEW r, r.option_votes = q.option_votes,
         r.quorum_votes = q.quorum_votes, r.proposal_type = q.proposal_type
  PROVE  Verdict(r) = Verdict(q)
BY DEF Verdict, MeetsQuorum, TotalVotes, Outvoted

\* The status of a proposal depends on these fields alone.
LEMMA SameStatus ==
  ASSUME UNCHANGED now, NEW p,
         proposals'[p].canceled_at = proposals[p].canceled_at,
         proposals'[p].activated_at = proposals[p].activated_at,
         proposals'[p].voting_ends_at = proposals[p].voting_ends_at,
         proposals'[p].option_votes = proposals[p].option_votes,
         proposals'[p].quorum_votes = proposals[p].quorum_votes,
         proposals'[p].queued_at = proposals[p].queued_at,
         proposals'[p].proposal_type = proposals[p].proposal_type
  PROVE  StatusOf(proposals[p])' = StatusOf(proposals[p])
<1>1. State(proposals[p])' = State(proposals[p])
  BY DEF State, MeetsQuorum, TotalVotes, Outvoted
<1> QED BY <1>1 DEF StatusOf

\* The ballot of a proposal in the next state.
LEMMA NextBallot ==
  ASSUME NEW p, p \in Created'
  PROVE  BallotOf(p)' = [status |-> StatusOf(proposals[p])',
                         yes_no |-> proposals'[p].proposal_type = "YesNo",
                         quorum |-> proposals'[p].quorum_votes,
                         votes  |-> [v \in Voters |-> [side   |-> votes'[p][v].side,
                                                       weight |-> votes'[p][v].voting_power]]]
BY DEF BallotOf

\* A step that leaves status, question and votes alone leaves the ballot alone.
LEMMA SameBallot ==
  ASSUME NEW p, p \in Created, p \in Created',
         StatusOf(proposals[p])' = StatusOf(proposals[p]),
         proposals'[p].proposal_type = proposals[p].proposal_type,
         proposals'[p].quorum_votes = proposals[p].quorum_votes,
         \A v \in Voters : /\ votes'[p][v].side = votes[p][v].side
                           /\ votes'[p][v].voting_power = votes[p][v].voting_power
  PROVE  BallotOf(p)' = BallotOf(p)
BY NextBallot DEF BallotOf

\* One that changes the status alone changes it in the ballot.
LEMMA NewStatus ==
  ASSUME NEW p, p \in Created, p \in Created', NEW s, StatusOf(proposals[p])' = s,
         proposals'[p].proposal_type = proposals[p].proposal_type,
         proposals'[p].quorum_votes = proposals[p].quorum_votes,
         votes'[p] = votes[p]
  PROVE  BallotOf(p)' = [BallotOf(p) EXCEPT !.status = s]
<1> DEFINE cast == [v \in Voters |-> [side   |-> votes[p][v].side,
                                     weight |-> votes[p][v].voting_power]]
           q == proposals[p]
<1>1. BallotOf(p) = [status |-> StatusOf(q), yes_no |-> q.proposal_type = "YesNo",
                     quorum |-> q.quorum_votes, votes |-> cast]
  BY DEF BallotOf
<1>2. BallotOf(p)' = [status |-> s, yes_no |-> q.proposal_type = "YesNo",
                      quorum |-> q.quorum_votes, votes |-> cast]
  BY NextBallot
<1> HIDE DEF cast
<1> QED BY <1>1, <1>2

\* activate_proposal opens the ballot, or decides it when the voting period
\* is 0.
LEMMA ActivatedOpens ==
  ASSUME GovernTypeOK, ClockRuns, TallyInv, BallotInv, UNCHANGED now,
         NEW p \in Created, p \in Created', Activated(p)
  PROVE  Box!Opens(BallotOf(p), BallotOf(p)')
<1> DEFINE q == proposals[p]
           r == proposals'[p]
<1>1. /\ q \in Proposal /\ State(q) = "Draft" /\ votes'[p] = votes[p]
      /\ now \in Nat /\ now > 0
  BY CreatedAreIds DEF Activated, GovernTypeOK, ClockRuns
<1>2. /\ r.canceled_at = q.canceled_at /\ r.activated_at = now /\ r.queued_at = q.queued_at
      /\ r.option_votes = q.option_votes /\ r.quorum_votes = q.quorum_votes
      /\ r.proposal_type = q.proposal_type
  BY <1>1 DEF Activated, Proposal
<1>3. ~ (q.canceled_at > 0) /\ q.activated_at = 0
  BY <1>1 DEF State
<1>4. ~ (q.queued_at > 0)
  BY <1>3 DEF BallotInv, CarriedThrough
<1>5. BallotOf(p).status = "draft"
  BY <1>1 DEF BallotOf, StatusOf
<1>6. CASE now < r.voting_ends_at
  <2>1. StatusOf(proposals[p])' = "open"
    BY <1>1, <1>2, <1>3, <1>6 DEF StatusOf, State
  <2>2. BallotOf(p)' = [BallotOf(p) EXCEPT !.status = "open"]
    BY <1>1, <1>2, <2>1, NewStatus
  <2> QED BY <1>5, <2>2 DEF Box!Opens
<1>7. CASE ~ (now < r.voting_ends_at)
  <2>1. StatusOf(proposals[p])' = Verdict(r)
    BY <1>1, <1>2, <1>3, <1>4, <1>7, OverIsVerdict
  <2>2. Verdict(r) = Box!Outcome(BallotOf(p))
    BY <1>2, SameVerdict, VerdictIsOutcome
  <2>3. BallotOf(p)' = [BallotOf(p) EXCEPT !.status = Box!Outcome(BallotOf(p))]
    BY <1>1, <1>2, <2>1, <2>2, NewStatus
  <2> QED BY <1>5, <2>3 DEF Box!Opens
<1> QED BY <1>6, <1>7

\* cancel_proposal withdraws it.
LEMMA CanceledWithdraws ==
  ASSUME GovernTypeOK, ClockRuns, UNCHANGED now, NEW p \in Created, p \in Created', Canceled(p)
  PROVE  Box!Withdraws(BallotOf(p), BallotOf(p)')
<1> DEFINE q == proposals[p]
           r == proposals'[p]
<1>1. /\ q \in Proposal /\ State(q) = "Draft" /\ votes'[p] = votes[p] /\ now > 0
  BY CreatedAreIds DEF Canceled, ClockRuns
<1>2. /\ r.canceled_at = now /\ r.quorum_votes = q.quorum_votes
      /\ r.proposal_type = q.proposal_type
  BY <1>1 DEF Canceled, Proposal
<1>3. StatusOf(proposals[p])' = "withdrawn"
  BY <1>1, <1>2 DEF StatusOf, State
<1>4. BallotOf(p)' = [BallotOf(p) EXCEPT !.status = "withdrawn"]
  BY <1>1, <1>2, <1>3, NewStatus
<1> QED BY <1>1, <1>4 DEF Box!Withdraws, BallotOf, StatusOf

\* set_vote changes one vote of an open ballot.
LEMMA VotedVotes ==
  ASSUME GovernTypeOK, UNCHANGED now, NEW p \in Created, p \in Created',
         NEW v \in Voters, NEW side \in Nat, NEW power \in Nat, Voted(p, v, side, power)
  PROVE  Box!Votes(BallotOf(p), BallotOf(p)')
<1> DEFINE q == proposals[p]
           r == proposals'[p]
           tally == AddTo(TallyWithout(q, votes[p][v]), side, power)
           b == BallotOf(p)
           c == BallotOf(p)'
<1>1. /\ q \in Proposal /\ State(q) = "Active" /\ p \in ProposalIds
      /\ r = [q EXCEPT !.option_votes = tally]
      /\ votes'[p] = [votes[p] EXCEPT ![v] = [@ EXCEPT !.side = side, !.voting_power = power]]
      /\ votes[p] \in [Voters -> Vote]
  BY CreatedAreIds DEF Voted, GovernTypeOK
<1>2. /\ r.canceled_at = q.canceled_at /\ r.activated_at = q.activated_at
      /\ r.voting_ends_at = q.voting_ends_at /\ r.quorum_votes = q.quorum_votes
      /\ r.proposal_type = q.proposal_type
  <2> HIDE DEF tally
  <2> QED BY <1>1 DEF Proposal
<1>3. State(proposals[p])' = "Active"
  BY <1>1, <1>2 DEF State
<1>4. b.status = "open" /\ c.status = "open"
  BY <1>1, <1>3, NextBallot DEF BallotOf, StatusOf
<1>5. c = [b EXCEPT !.votes[v] = c.votes[v]]
  <2>1. \A u \in Voters : u # v => votes'[p][u] = votes[p][u]
    BY <1>1
  <2>2. \A u \in Voters : u # v => c.votes[u] = b.votes[u]
    BY <2>1, NextBallot DEF BallotOf
  <2>3. /\ c.yes_no = b.yes_no /\ c.quorum = b.quorum
        /\ c.votes = [u \in Voters |-> c.votes[u]] /\ b.votes = [u \in Voters |-> b.votes[u]]
        /\ c = [status |-> c.status, yes_no |-> c.yes_no, quorum |-> c.quorum, votes |-> c.votes]
        /\ b = [status |-> b.status, yes_no |-> b.yes_no, quorum |-> b.quorum, votes |-> b.votes]
    BY <1>2, NextBallot DEF BallotOf
  <2> HIDE DEF b, c
  <2>4. c.votes = [b.votes EXCEPT ![v] = c.votes[v]]
    BY <2>2, <2>3
  <2> QED BY <1>4, <2>3, <2>4
<1> QED BY <1>4, <1>5 DEF Box!Votes

\* queue_proposal carries out what passed.
LEMMA QueuedCarriesOut ==
  ASSUME GovernTypeOK, ClockRuns, UNCHANGED now, NEW p \in Created, p \in Created',
         NEW x \in Transactions, Queued(p, x)
  PROVE  Box!CarriesOut(BallotOf(p), BallotOf(p)')
<1> DEFINE q == proposals[p]
           r == proposals'[p]
<1>1. /\ q \in Proposal /\ State(q) = "Succeeded" /\ votes'[p] = votes[p] /\ now > 0
      /\ r = [q EXCEPT !.queued_at = now, !.queued_transaction = x]
  BY CreatedAreIds DEF Queued, ClockRuns
<1>2. /\ r.queued_at = now /\ r.canceled_at = q.canceled_at
      /\ r.activated_at = q.activated_at /\ r.voting_ends_at = q.voting_ends_at
      /\ r.option_votes = q.option_votes /\ r.quorum_votes = q.quorum_votes
      /\ r.proposal_type = q.proposal_type
  BY <1>1 DEF Proposal
<1>3. TotalVotes(r) = TotalVotes(q) /\ (MeetsQuorum(r) <=> MeetsQuorum(q))
  BY <1>2 DEF TotalVotes, MeetsQuorum
<1>4. /\ ~ (q.canceled_at > 0) /\ q.activated_at # 0 /\ ~ (now < q.voting_ends_at)
      /\ ~ (TotalVotes(q) > U64Max) /\ MeetsQuorum(q)
  BY <1>1 DEF State
<1>5. StatusOf(proposals[p])' = "carried out"
  <2>1. /\ ~ (r.canceled_at > 0) /\ r.activated_at # 0 /\ ~ (now' < r.voting_ends_at)
        /\ ~ (TotalVotes(r) > U64Max) /\ MeetsQuorum(r) /\ r.queued_at > 0
    BY <1>1, <1>2, <1>3, <1>4
  <2>2. State(proposals[p])' = "Queued"
    <3> HIDE DEF q, r
    <3> QED BY <2>1 DEF State, r
  <2> QED BY <2>2 DEF StatusOf
<1>6. BallotOf(p)' = [BallotOf(p) EXCEPT !.status = "carried out"]
  BY <1>1, <1>2, <1>5, NewStatus
<1> QED BY <1>1, <1>6 DEF Box!CarriesOut, BallotOf, StatusOf

\* new_vote and claim_reward leave the ballot as it is.
LEMMA OpenedIsStill ==
  ASSUME GovernTypeOK, TallyInv, BallotInv, UNCHANGED now, NEW p \in Created, p \in Created',
         NEW v \in Voters, Opened(p, v) \/ Claimed(p, v)
  PROVE  BallotOf(p)' = BallotOf(p)
<1> DEFINE q == proposals[p]
           r == proposals'[p]
<1>1. q \in Proposal /\ p \in ProposalIds /\ votes[p] \in [Voters -> Vote]
  BY CreatedAreIds DEF GovernTypeOK
<1>2. /\ r.canceled_at = q.canceled_at /\ r.activated_at = q.activated_at
      /\ r.queued_at = q.queued_at /\ r.voting_ends_at = q.voting_ends_at
      /\ r.option_votes = q.option_votes /\ r.quorum_votes = q.quorum_votes
      /\ r.proposal_type = q.proposal_type
  BY <1>1 DEF Opened, Claimed, Proposal
<1>3. \A u \in Voters : /\ votes'[p][u].side = votes[p][u].side
                        /\ votes'[p][u].voting_power = votes[p][u].voting_power
  <2>1. CASE Opened(p, v)
    <3>1. votes[p][v].side = 0 /\ votes[p][v].voting_power = 0
      BY <1>1, <2>1 DEF Opened, BallotInv, TallyInv, ClosedVotesEmpty
    <3> QED BY <1>1, <2>1, <3>1 DEF Opened, ClosedVote
  <2>2. CASE Claimed(p, v)
    BY <1>1, <2>2 DEF Claimed, Vote
  <2> QED BY <2>1, <2>2
<1>4. StatusOf(proposals[p])' = StatusOf(proposals[p])
  BY <1>2, SameStatus
<1> QED BY <1>2, <1>3, <1>4, SameBallot

\* Time closes an open ballot, and changes no other.
LEMMA TimeCloses ==
  ASSUME GovernTypeOK, TallyInv, BallotInv, now' \in Nat, now' >= now,
         NEW p \in Created, p \in Created', Untouched(p)
  PROVE  BallotOf(p)' = BallotOf(p) \/ Box!Closes(BallotOf(p), BallotOf(p)')
<1> DEFINE q == proposals[p]
           r == proposals'[p]
<1>1. /\ q \in Proposal /\ now \in Nat /\ r = q /\ votes'[p] = votes[p]
      /\ q.voting_ends_at \in Nat
  BY CreatedAreIds DEF GovernTypeOK, Untouched, Proposal
<1>2. CASE ~ (q.canceled_at > 0) /\ q.activated_at # 0 /\ now < q.voting_ends_at
           /\ ~ (now' < q.voting_ends_at)
  <2>1. BallotOf(p).status = "open"
    BY <1>2 DEF BallotOf, StatusOf, State
  <2>2. ~ (q.queued_at > 0)
    <3> SUFFICES ASSUME q.queued_at > 0 PROVE FALSE
      OBVIOUS
    <3>1. q.voting_ends_at <= q.queued_at /\ q.queued_at <= now
      BY DEF BallotInv, CarriedThrough
    <3>2. q.queued_at \in Nat
      BY <1>1 DEF Proposal
    <3> HIDE DEF q
    <3> QED BY <1>1, <1>2, <3>1, <3>2
  <2>3. StatusOf(proposals[p])' = Box!Outcome(BallotOf(p))
    <3>1. StatusOf(proposals[p])' = Verdict(r)
      BY <1>1, <1>2, <2>2, OverIsVerdict
    <3> QED BY <1>1, <3>1, VerdictIsOutcome
  <2>4. BallotOf(p)' = [BallotOf(p) EXCEPT !.status = Box!Outcome(BallotOf(p))]
    BY <1>1, <2>3, NewStatus
  <2> QED BY <2>1, <2>4 DEF Box!Closes
<1>3. CASE ~ (~ (q.canceled_at > 0) /\ q.activated_at # 0 /\ now < q.voting_ends_at
              /\ ~ (now' < q.voting_ends_at))
  <2>1. \/ q.canceled_at > 0 \/ q.activated_at = 0
        \/ (now < q.voting_ends_at <=> now' < q.voting_ends_at)
    <3> HIDE DEF q
    <3> QED BY <1>1, <1>3
  <2>2. /\ MeetsQuorum(r) <=> MeetsQuorum(q)
        /\ Outvoted(r) <=> Outvoted(q)
        /\ TotalVotes(r) = TotalVotes(q)
    BY <1>1
  <2>3. State(proposals[p])' = State(proposals[p])
    BY <1>1, <2>1, <2>2 DEF State
  <2>4. StatusOf(proposals[p])' = StatusOf(proposals[p])
    BY <2>3 DEF StatusOf
  <2> QED BY <1>1, <2>4, SameBallot
<1> QED BY <1>2, <1>3

\* create_proposal drafts a ballot without votes.
LEMMA CreatedDrafts ==
  ASSUME TallyInv, BallotInv, NEW p \in ProposalIds, p \notin Created, p \in Created',
         votes'[p] = votes[p],
         ~ (proposals'[p].canceled_at > 0), proposals'[p].activated_at = 0
  PROVE  Box!Drafts(BallotOf(p), BallotOf(p)')
<1>1. BallotOf(p).status = "none"
  BY DEF BallotOf, NoBallot
<1>2. StatusOf(proposals[p])' = "draft"
  BY DEF StatusOf, State
<1>3. \A v \in Voters : votes[p][v].side = 0 /\ votes[p][v].voting_power = 0
  BY DEF BallotInv, TallyInv, ClosedVotesEmpty
<1>4. BallotOf(p)'.status = "draft" /\ BallotOf(p)'.votes = Box!NoVotes
  BY <1>2, <1>3, NextBallot DEF Box!NoVotes
<1> QED BY <1>1, <1>4 DEF Box!Drafts

\* Every step moves every ballot as a ballot moves, if at all.
LEMMA BallotMoves ==
  ASSUME GovernTypeOK, GovernTypeOK', ClockRuns, TallyInv, BallotInv, [OpenWorldStep]_governState,
         NEW p \in ProposalIds
  PROVE  BallotOf(p)' = BallotOf(p) \/ Box!Moves(BallotOf(p), BallotOf(p)')
<1>1. now \in Nat /\ now' \in Nat /\ now' >= now
  BY DEF OpenWorldStep, governState, Tick, GovernTypeOK
<1>2. CASE p \in Created
  <2>1. p \in Created' /\ ProposalStep(p) /\ (UNCHANGED now \/ Untouched(p))
    BY <1>2, GovernChanges
  <2>2. CASE Untouched(p)
    BY <1>1, <1>2, <2>1, <2>2, TimeCloses DEF Box!Moves
  <2>3. CASE ~ Untouched(p)
    <3>1. UNCHANGED now
      BY <2>1, <2>3
    <3>2. ASSUME Activated(p) PROVE Box!Moves(BallotOf(p), BallotOf(p)')
      BY <1>2, <2>1, <3>1, <3>2, ActivatedOpens DEF Box!Moves
    <3>3. ASSUME Canceled(p) PROVE Box!Moves(BallotOf(p), BallotOf(p)')
      BY <1>2, <2>1, <3>1, <3>3, CanceledWithdraws DEF Box!Moves
    <3>4. ASSUME NEW v \in Voters, Opened(p, v) \/ Claimed(p, v) PROVE BallotOf(p)' = BallotOf(p)
      BY <1>2, <2>1, <3>1, <3>4, OpenedIsStill
    <3>5. ASSUME NEW v \in Voters, NEW side \in Nat, NEW power \in Nat, Voted(p, v, side, power)
          PROVE  Box!Moves(BallotOf(p), BallotOf(p)')
      BY <1>2, <2>1, <3>1, <3>5, VotedVotes DEF Box!Moves
    <3>6. ASSUME NEW x \in Transactions, Queued(p, x) PROVE Box!Moves(BallotOf(p), BallotOf(p)')
      BY <1>2, <2>1, <3>1, <3>6, QueuedCarriesOut DEF Box!Moves
    <3> QED BY <2>1, <2>3, <3>2, <3>3, <3>4, <3>5, <3>6 DEF ProposalStep
  <2> QED BY <2>2, <2>3
<1>3. CASE p \notin Created
  <2>1. votes'[p] = votes[p]
    BY <1>3, UncreatedStay
  <2>2. CASE p \notin Created'
    BY <1>3, <2>2 DEF BallotOf, NoBallot
  <2>3. CASE p \in Created'
    <3>1. /\ ~ (proposals'[p].canceled_at > 0) /\ proposals'[p].activated_at = 0
      BY <1>3, <2>3, AtMostOneCreated
    <3> QED BY <1>3, <2>1, <2>3, <3>1, CreatedDrafts DEF Box!Moves
  <2> QED BY <2>2, <2>3
<1> QED BY <1>2, <1>3

\* Every step of govern keeps what the ballots rest on.
LEMMA GovernNextBallots ==
  GovernTypeOK /\ ClockRuns /\ BallotInv /\ [OpenWorldStep]_governState => BallotInv'
<1> SUFFICES ASSUME GovernTypeOK, ClockRuns, BallotInv, [OpenWorldStep]_governState
             PROVE  BallotInv'
  OBVIOUS
<1>1. now \in Nat /\ now' \in Nat /\ now' >= now
  BY DEF OpenWorldStep, governState, Tick, GovernTypeOK
<1>2. \A p \in Created : p \in Created' /\ ProposalStep(p) /\ (UNCHANGED now \/ Untouched(p))
  BY GovernChanges
<1>3. ASSUME NEW p \in ProposalIds, NEW v \in Voters
      PROVE  /\ ~ votes'[p][v].open => votes'[p][v].side = 0
             /\ p \notin Created' => ~ votes'[p][v].open
  <2>1. CASE p \notin Created
    <3>1. votes'[p] = votes[p]
      BY <2>1, UncreatedStay
    <3> QED BY <2>1, <3>1 DEF BallotInv
  <2>2. CASE p \in Created
    <3>1. p \in Created' /\ ProposalStep(p)
      BY <1>2, <2>2
    <3>2. votes[p] \in [Voters -> Vote]
      BY DEF GovernTypeOK
    <3>3. ~ votes[p][v].open => votes[p][v].side = 0
      BY DEF BallotInv
    <3>4. ASSUME votes'[p] = votes[p] PROVE ~ votes'[p][v].open => votes'[p][v].side = 0
      BY <3>3, <3>4
    <3>5. ASSUME NEW u \in Voters, Opened(p, u)
          PROVE  ~ votes'[p][v].open => votes'[p][v].side = 0
      BY <3>2, <3>3, <3>5 DEF Opened, ClosedVote
    <3>6. ASSUME NEW u \in Voters, NEW side \in Nat, NEW power \in Nat, Voted(p, u, side, power)
          PROVE  ~ votes'[p][v].open => votes'[p][v].side = 0
      <4>1. /\ votes'[p] = [votes[p] EXCEPT ![u] = [@ EXCEPT !.side = side, !.voting_power = power]]
            /\ votes[p][u].open
        BY <3>6 DEF Voted
      <4>2. CASE u = v
        <5>1. votes'[p][v] = [votes[p][v] EXCEPT !.side = side, !.voting_power = power]
          BY <3>2, <4>1, <4>2
        <5>2. votes'[p][v].open
          BY <3>2, <4>1, <4>2, <5>1 DEF Vote
        <5> QED BY <5>2
      <4>3. CASE u # v
        BY <3>2, <3>3, <4>1, <4>3
      <4> QED BY <4>2, <4>3
    <3>7. ASSUME NEW u \in Voters, Claimed(p, u)
          PROVE  ~ votes'[p][v].open => votes'[p][v].side = 0
      BY <3>2, <3>3, <3>7 DEF Claimed, Vote
    <3>8. ~ votes'[p][v].open => votes'[p][v].side = 0
      BY <3>1, <3>4, <3>5, <3>6, <3>7
         DEF ProposalStep, Untouched, Activated, Canceled, Queued
    <3> QED BY <3>1, <3>8
  <2> QED BY <2>1, <2>2
<1>4. ASSUME NEW p \in Created', proposals'[p].queued_at > 0
      PROVE  CarriedThrough(p)'
  <2>1. p \in Created
    <3>1. p \notin Created => proposals'[p].queued_at = 0
      BY AtMostOneCreated
    <3> QED BY <1>4, <3>1
  <2>2. CASE proposals[p].queued_at > 0
    <3>1. CarriedThrough(p)
      BY <2>1, <2>2 DEF BallotInv
    <3> QED BY <1>1, <1>2, <2>1, <3>1, CarriedThroughStays
  <2>3. CASE ~ (proposals[p].queued_at > 0)
    <3>1. proposals[p] \in Proposal /\ ProposalStep(p) /\ (UNCHANGED now \/ Untouched(p))
      BY <1>2, <2>1, CreatedAreIds
    <3>2. \E x \in Transactions : Queued(p, x)
      <4>1. ASSUME NEW tally, proposals'[p] = [proposals[p] EXCEPT !.option_votes = tally]
            PROVE  FALSE
        BY <1>4, <2>3, <3>1, <4>1 DEF Proposal
      <4>2. \A v, side, power : ~ Voted(p, v, side, power)
        BY <4>1 DEF Voted
      <4> QED BY <1>4, <2>3, <3>1, <4>2
              DEF ProposalStep, Untouched, Activated, Canceled, Opened, Claimed, Proposal
    <3>3. ~ Untouched(p)
      BY <1>4, <2>3 DEF Untouched
    <3> QED BY <2>1, <3>1, <3>2, <3>3, QueueCarries
  <2> QED BY <2>2, <2>3
<1> QED BY <1>3, <1>4 DEF BallotInv

\* Govern implements Ballot: whatever is called when, every proposal is
\* drafted, opened, voted on, decided and carried out as a ballot is, and its
\* outcome is that of the votes as they stand.
THEOREM GovernImplementsBallot == OpenWorldSpec => ImplementsBallot
<1> DEFINE Inv == GovernTypeOK /\ ClockRuns /\ TallyInv /\ BallotInv
<1>1. GovernStart => Inv /\ Box!BallotInit
  <2> SUFFICES ASSUME GovernStart PROVE Inv /\ Box!BallotInit
    OBVIOUS
  <2>1. Created = {} /\ \A p \in ProposalIds, v \in Voters : votes[p][v] = ClosedVote
    BY DEF GovernStart, GovernInit, Created
  <2>2. BallotInv
    BY <2>1 DEF BallotInv, ClosedVote
  <2>3. Box!BallotInit
    BY <2>1 DEF Box!BallotInit, BallotOf, NoBallot
  <2> QED BY <2>2, <2>3, GovernInitTyped, GovernInitTally DEF GovernStart, ClockInit, ClockRuns
<1>2. Inv /\ [OpenWorldStep]_governState => Inv'
  <2>1. ClockRuns /\ now \in Nat /\ [OpenWorldStep]_governState => ClockRuns'
    BY DEF OpenWorldStep, governState, Tick, ClockRuns
  <2> QED BY <2>1, GovernNextTyped, GovernNextTally, GovernNextBallots DEF GovernTypeOK
<1>3. Inv /\ Inv' /\ [OpenWorldStep]_governState
        => [Box!BallotNext]_([p \in ProposalIds |-> BallotOf(p)])
  <2> SUFFICES ASSUME Inv, Inv', [OpenWorldStep]_governState PROVE Box!BallotNext
    OBVIOUS
  <2>1. \A p \in ProposalIds :
          BallotOf(p)' = BallotOf(p) \/ Box!Moves(BallotOf(p), BallotOf(p)')
    BY BallotMoves
  <2> QED BY <2>1 DEF Box!BallotNext
<1> QED BY <1>1, <1>2, <1>3, PTL DEF OpenWorldSpec, ImplementsBallot, Box!BallotSpec

\* All of it in the words of Govern's own specification, whose locker reports
\* the powers in Powers.
THEOREM GovernKeepsItsPromises ==
  GovernSpec => /\ []GovernTypeOK
                /\ [](TallyAccounted /\ QueuedProposalsPassed /\ RewardsAccounted)
                /\ OutcomeIsFinal
                /\ ImplementsBallot
BY LockerIsOfOpenWorld, GovernTypeCorrect, TallyAlwaysAccounted, QueuedProposalsAlwaysPassed,
   RewardsAlwaysAccounted, OutcomeIsAlwaysFinal, GovernImplementsBallot, PTL

-----------------------------------------------------------------------------
(* A governor and its locker *)

\* How a step looks to the governor whose locker is another program: it is left
\* alone, anyone calls it, or the locker activates a proposal or reports a vote.
Called ==
  /\ now' \in Nat /\ now' >= now
  /\ \/ UNCHANGED governVars
     \/ UNCHANGED now /\ OpenNext
     \/ UNCHANGED now /\ \E p \in Created : ActivateProposal(locker, p)
     \/ UNCHANGED now /\ \E p \in Created, v \in Voters, side \in Nat, power \in Nat :
                           SetVote(locker, p, v, side, power)

\* That is a step of the open world.
LEMMA CalledIsOpenWorldStep ==
  ASSUME GovernTypeOK, Called, UNCHANGED now \/ (Tick /\ UNCHANGED governVars)
  PROVE  [OpenWorldStep]_governState
<1>1. locker \in Lockers
  BY DEF GovernTypeOK
<1>2. CASE Tick /\ UNCHANGED governVars
  BY <1>2 DEF OpenWorldStep
<1>3. CASE UNCHANGED now /\ UNCHANGED governVars
  BY <1>3 DEF governState
<1>4. CASE UNCHANGED now /\ OpenNext
  BY <1>4 DEF OpenWorldStep
<1>5. CASE UNCHANGED now /\ \E p \in Created : ActivateProposal(locker, p)
  BY <1>1, <1>5 DEF OpenWorldStep, LockerAsks
<1>6. CASE UNCHANGED now /\ \E p \in Created, v \in Voters, side \in Nat, power \in Nat :
                              SetVote(locker, p, v, side, power)
  BY <1>1, <1>6 DEF OpenWorldStep, LockerAsks
<1> QED BY <1>2, <1>3, <1>4, <1>5, <1>6 DEF Called

\* Whatever locker calls it, the governor's accounts keep their types and its
\* tallies the votes.
LEMMA CalledKeeps ==
  ASSUME GovernTypeOK, TallyInv, Called
  PROVE  GovernTypeOK' /\ TallyInv'
<1>1. CASE UNCHANGED governVars
  <2>1. GovernTypeOK'
    BY <1>1 DEF Called, governVars, GovernTypeOK, Created
  <2> QED BY <1>1, <2>1, TallyStutters DEF governVars
<1>2. CASE UNCHANGED now /\ OpenNext
  BY <1>2, OpenTyped, OpenTally
<1>3. ASSUME UNCHANGED now, NEW p \in Created, ActivateProposal(locker, p)
      PROVE  GovernTypeOK' /\ TallyInv'
  BY <1>3, ActivateTyped, ActivateTally
<1>4. ASSUME UNCHANGED now, NEW p \in Created, NEW v \in Voters, NEW side \in Nat,
             NEW power \in Nat, SetVote(locker, p, v, side, power)
      PROVE  GovernTypeOK' /\ TallyInv'
  <2>1. GovernTypeOK'
    BY <1>4, SetVoteTyped
  <2> QED BY <1>4, <2>1, SetVoteTally
<1> QED BY <1>1, <1>2, <1>3, <1>4 DEF Called

\* A vote on p that still counts after a step stood as it is before it.
VoteKept(p, v) ==
  /\ p \in Created /\ State(proposals[p]) = "Active"
  /\ proposals'[p].voting_ends_at = proposals[p].voting_ends_at
  /\ votes'[p][v].voting_power = votes[p][v].voting_power

\* What is still voted on was voted on if it was activated, and ends when it
\* would have.
LEMMA WasActive ==
  ASSUME GovernTypeOK, GovernTypeOK', now' >= now, NEW p \in Created, p \in Created',
         State(proposals[p])' = "Active",
         proposals'[p].activated_at = proposals[p].activated_at,
         proposals'[p].voting_ends_at = proposals[p].voting_ends_at,
         ~ (proposals'[p].canceled_at > 0) => ~ (proposals[p].canceled_at > 0)
  PROVE  State(proposals[p]) = "Active"
<1>1. /\ ~ (proposals'[p].canceled_at > 0) /\ proposals'[p].activated_at # 0
      /\ now' < proposals'[p].voting_ends_at
  BY DEF State
<1>2. now \in Nat /\ now' \in Nat /\ proposals[p].voting_ends_at \in Nat
  BY CreatedAreIds DEF GovernTypeOK, Proposal
<1> QED BY <1>1, <1>2 DEF State

\* Unless the locker reports a vote, the votes that count stood before.
LEMMA VotesStand ==
  ASSUME GovernTypeOK, GovernTypeOK', TallyInv, Called,
         \/ UNCHANGED governVars
         \/ UNCHANGED now /\ OpenNext
         \/ UNCHANGED now /\ \E r \in Created : ActivateProposal(locker, r),
         NEW p \in Created', State(proposals[p])' = "Active", NEW v \in Voters
  PROVE  votes'[p][v].voting_power = 0 \/ VoteKept(p, v)
<1>1. /\ ~ (proposals'[p].canceled_at > 0) /\ proposals'[p].activated_at # 0
  BY DEF State
<1>2. now' >= now
  BY DEF Called
<1>3. CASE UNCHANGED governVars
  <2>1. p \in Created /\ UNCHANGED <<proposals, votes>>
    BY <1>3 DEF governVars, Created
  <2> QED BY <1>2, <2>1, WasActive DEF VoteKept
<1>4. CASE UNCHANGED now /\ OpenNext
  <2>1. VotingFrame
    BY <1>4, OpenFrame DEF TallyInv
  <2>2. p \in Created /\ p \in ProposalIds
    BY <1>1, <2>1, CreatedAreIds DEF VotingFrame
  <2> QED BY <1>2, <2>1, <2>2, WasActive DEF VotingFrame, VoteKept
<1>5. ASSUME UNCHANGED now, NEW r \in Created, ActivateProposal(locker, r)
      PROVE  votes'[p][v].voting_power = 0 \/ VoteKept(p, v)
  <2>1. /\ Created' = Created /\ votes' = votes /\ State(proposals[r]) = "Draft"
        /\ proposals' = [proposals EXCEPT
             ![r].activated_at = now,
             ![r].voting_ends_at = now + governance_params.voting_period]
    BY <1>5 DEF ActivateProposal, OnlyProposals, Created
  <2>2. CASE p = r
    <3>1. proposals[p].activated_at = 0 /\ p \in ProposalIds
      BY <2>1, <2>2, CreatedAreIds DEF State
    <3> QED BY <2>1, <3>1 DEF TallyInv, UnvotedUntilActive
  <2>3. CASE p # r
    <3>1. proposals'[p] = proposals[p]
      BY <2>1, <2>3 DEF GovernTypeOK
    <3> QED BY <1>2, <2>1, <3>1, WasActive DEF VoteKept
  <2> QED BY <2>2, <2>3
<1> QED BY <1>3, <1>4, <1>5

\* When the locker reports a vote, it is the only one that did not stand before.
LEMMA OneVoteReported ==
  ASSUME GovernTypeOK, GovernTypeOK', UNCHANGED now,
         NEW r \in Created, NEW u \in Voters, NEW side \in Nat, NEW power \in Nat,
         SetVote(locker, r, u, side, power),
         NEW p \in Created', State(proposals[p])' = "Active", NEW v \in Voters
  PROVE  \/ VoteKept(p, v)
         \/ /\ p = r /\ v = u
            /\ proposals'[p].activated_at = proposals[p].activated_at
            /\ proposals'[p].voting_ends_at = proposals[p].voting_ends_at
            /\ votes'[p][v].voting_power = power
<1> DEFINE tally == AddTo(TallyWithout(proposals[r], votes[r][u]), side, power)
<1>1. /\ Created' = Created
      /\ proposals' = [proposals EXCEPT ![r].option_votes = tally]
      /\ votes' = [votes EXCEPT ![r][u].side = side, ![r][u].voting_power = power]
  BY DEF SetVote, Created
<1>2. /\ proposals[r] \in Proposal /\ r \in ProposalIds /\ p \in ProposalIds /\ p \in Created
      /\ votes[r] \in [Voters -> Vote] /\ votes[r][u] \in Vote
  BY <1>1, CreatedAreIds DEF GovernTypeOK
<1>3. /\ proposals'[p].activated_at = proposals[p].activated_at
      /\ proposals'[p].voting_ends_at = proposals[p].voting_ends_at
      /\ proposals'[p].canceled_at = proposals[p].canceled_at
  <2> HIDE DEF tally
  <2> QED BY <1>1, <1>2 DEF GovernTypeOK, Proposal
<1>4. CASE p = r /\ v = u
  <2>1. votes'[p][v].voting_power = power
    <3> HIDE DEF tally
    <3> QED BY <1>1, <1>2, <1>4 DEF GovernTypeOK, Vote
  <2> QED BY <1>3, <1>4, <2>1
<1>5. CASE ~ (p = r /\ v = u)
  <2>1. votes'[p][v] = votes[p][v]
    BY <1>1, <1>2, <1>5 DEF GovernTypeOK
  <2>2. now' >= now
    BY DEF GovernTypeOK
  <2> QED BY <1>2, <1>3, <2>1, <2>2, WasActive DEF VoteKept
<1> QED BY <1>4, <1>5

\* No voting takes longer than the longest voting period.
LEMMA EndsKept ==
  ASSUME GovernTypeOK, TallyInv, Called, NEW most \in Nat,
         \A g \in GovernanceParams : g.voting_period <= most,
         \A p \in Created : proposals[p].activated_at # 0 =>
                              proposals[p].voting_ends_at <= now + most
  PROVE  \A p \in Created' : proposals'[p].activated_at # 0 =>
                               proposals'[p].voting_ends_at <= now' + most
<1> DEFINE Goal == \A p \in Created' : proposals'[p].activated_at # 0 =>
                                         proposals'[p].voting_ends_at <= now' + most
<1>1. /\ now \in Nat /\ now' \in Nat /\ now' >= now
      /\ \A p \in Created : proposals[p] \in Proposal /\ proposals[p].voting_ends_at \in Nat
  BY CreatedAreIds DEF Called, GovernTypeOK, Proposal
<1>2. CASE UNCHANGED governVars
  BY <1>1, <1>2 DEF governVars, Created
<1>3. CASE UNCHANGED now /\ OpenNext
  <2>1. VotingFrame
    BY <1>3, OpenFrame DEF TallyInv
  <2> QED BY <1>1, <1>3, <2>1 DEF VotingFrame
<1>4. ASSUME UNCHANGED now, NEW p \in Created, ActivateProposal(locker, p)
      PROVE  Goal
  <2> DEFINE ends == now + governance_params.voting_period
  <2>1. /\ Created' = Created
        /\ proposals' = [proposals EXCEPT ![p].activated_at = now, ![p].voting_ends_at = ends]
    BY <1>4 DEF ActivateProposal, OnlyProposals, Created
  <2>2. ends <= now + most
    <3>1. governance_params.voting_period \in Nat /\ governance_params.voting_period <= most
      BY GovernAssumption DEF GovernTypeOK, GovernanceParameters
    <3> QED BY <1>1, <3>1
  <2> HIDE DEF ends
  <2>3. proposals'[p].voting_ends_at = ends
    BY <1>1, <2>1 DEF GovernTypeOK, Proposal
  <2>4. \A r \in Created \ {p} : proposals'[r] = proposals[r]
    BY <2>1 DEF GovernTypeOK
  <2> QED BY <1>1, <1>4, <2>1, <2>2, <2>3, <2>4
<1>5. ASSUME UNCHANGED now, NEW p \in Created, NEW v \in Voters, NEW side \in Nat,
             NEW power \in Nat, SetVote(locker, p, v, side, power)
      PROVE  Goal
  <2> DEFINE tally == AddTo(TallyWithout(proposals[p], votes[p][v]), side, power)
  <2>1. Created' = Created /\ proposals' = [proposals EXCEPT ![p].option_votes = tally]
    BY <1>5 DEF SetVote, Created
  <2>2. \A r \in Created : /\ proposals'[r].activated_at = proposals[r].activated_at
                           /\ proposals'[r].voting_ends_at = proposals[r].voting_ends_at
    <3> HIDE DEF tally
    <3> QED BY <1>1, <2>1 DEF GovernTypeOK, Proposal
  <2> QED BY <1>1, <1>5, <2>1, <2>2
<1> QED BY <1>2, <1>3, <1>4, <1>5 DEF Called

\* A tally changes only while its voting lasts, so that what bounds it then
\* bounds it for ever.
LEMMA TotalsKept ==
  ASSUME GovernTypeOK, TallyInv, Called, NEW most \in Nat,
         \A p \in Created : TotalVotes(proposals[p]) <= most,
         \A p \in Created' : State(proposals[p])' = "Active" => TotalVotes(proposals'[p]) <= most
  PROVE  \A p \in Created' : TotalVotes(proposals'[p]) <= most
<1> SUFFICES ASSUME NEW p \in Created', State(proposals[p])' # "Active"
             PROVE  TotalVotes(proposals'[p]) <= most
  OBVIOUS
<1>1. ASSUME p \in Created, proposals'[p].option_votes = proposals[p].option_votes
      PROVE  TotalVotes(proposals'[p]) <= most
  BY <1>1 DEF TotalVotes
<1>2. CASE UNCHANGED governVars
  BY <1>1, <1>2 DEF governVars, Created
<1>3. CASE UNCHANGED now /\ OpenNext
  <2>1. VotingFrame
    BY <1>3, OpenFrame DEF TallyInv
  <2>2. CASE p \in Created
    BY <1>1, <2>1, <2>2 DEF VotingFrame
  <2>3. CASE p \notin Created
    <3> DEFINE zero == [s \in Options |-> 0]
    <3>1. proposals'[p].option_votes = zero
      BY <2>1, <2>3 DEF VotingFrame
    <3>2. \A s \in Options : zero[s] = 0
      OBVIOUS
    <3>3. SumFunctionOnSet(zero, Options) = 0
      <4> HIDE DEF zero
      <4> QED BY <3>2, OptionsFinite, SumOfZeros
    <3> QED BY <3>1, <3>3 DEF TotalVotes
  <2> QED BY <2>2, <2>3
<1>4. ASSUME UNCHANGED now, NEW r \in Created, ActivateProposal(locker, r)
      PROVE  TotalVotes(proposals'[p]) <= most
  <2> DEFINE ends == now + governance_params.voting_period
  <2>1. /\ Created' = Created
        /\ proposals' = [proposals EXCEPT ![r].activated_at = now, ![r].voting_ends_at = ends]
    BY <1>4 DEF ActivateProposal, OnlyProposals, Created
  <2>2. proposals'[p].option_votes = proposals[p].option_votes
    <3>1. proposals[r] \in Proposal
      BY CreatedAreIds
    <3> HIDE DEF ends
    <3> QED BY <2>1, <3>1 DEF GovernTypeOK, Proposal
  <2> QED BY <1>1, <2>1, <2>2
<1>5. ASSUME UNCHANGED now, NEW r \in Created, NEW v \in Voters, NEW side \in Nat,
             NEW power \in Nat, SetVote(locker, r, v, side, power)
      PROVE  TotalVotes(proposals'[p]) <= most
  <2> DEFINE tally == AddTo(TallyWithout(proposals[r], votes[r][v]), side, power)
  <2>1. /\ Created' = Created /\ proposals' = [proposals EXCEPT ![r].option_votes = tally]
        /\ State(proposals[r]) = "Active" /\ proposals[r] \in Proposal
    BY <1>5, CreatedAreIds DEF SetVote, Created
  <2> HIDE DEF tally
  <2>2. CASE p = r
    <3>1. /\ proposals'[p].canceled_at = proposals[p].canceled_at
          /\ proposals'[p].activated_at = proposals[p].activated_at
          /\ proposals'[p].voting_ends_at = proposals[p].voting_ends_at
      BY <2>1, <2>2 DEF GovernTypeOK, Proposal
    <3>2. State(proposals[p])' = "Active"
      BY <1>5, <2>1, <2>2, <3>1 DEF State
    <3> QED BY <3>2
  <2>3. CASE p # r
    <3>1. proposals'[p] = proposals[p]
      BY <2>1, <2>3 DEF GovernTypeOK
    <3> QED BY <1>1, <2>1, <3>1
  <2> QED BY <2>2, <2>3
<1> QED BY <1>2, <1>3, <1>4, <1>5 DEF Called

\* Votes that weigh at most m for each of the tokens g their voters have
\* weigh together at most m for each of all the tokens.
LEMMA VotesWithin ==
  ASSUME GovernTypeOK, TallyInv, NEW p \in Created, NEW m \in Nat, NEW g,
         \A v \in Voters : g[v] \in Nat /\ votes[p][v].voting_power <= m * g[v]
  PROVE  TotalVotes(proposals[p]) \in Nat /\ TotalVotes(proposals[p]) <= m * SumFunctionOnSet(g, Voters)
<1> DEFINE f == [v \in Voters |-> votes[p][v].voting_power]
<1>1. \A v \in Voters : f[v] \in Int /\ g[v] \in Int /\ f[v] <= m * g[v]
  BY CreatedAreIds DEF GovernTypeOK, Vote
<1>2. SumFunctionOnSet(f, Voters) = TotalVotes(proposals[p])
  BY DEF TallyInv, TotalsAccounted, VotesOn
<1>3. IsFiniteSet(Voters)
  BY GovernAssumption
<1>4. SumFunctionOnSet(f, Voters) <= m * SumFunctionOnSet(g, Voters)
  <2> HIDE DEF f
  <2> QED BY <1>1, <1>3, SumScaled
<1>5. TotalVotes(proposals[p]) \in Nat
  BY TotalVotesIsNat, CreatedAreIds
<1> HIDE DEF f
<1> QED BY <1>2, <1>4, <1>5
=============================================================================
