------------------------------- MODULE Govern -------------------------------
(***************************************************************************)
(* The govern program: one Governor, its Proposals, the Vote accounts and  *)
(* the reward vaults.  An action is one successful instruction, its guard  *)
(* the conjunction of the handler's and the accounts' checks.              *)
(*                                                                         *)
(* The locker that signs activate_proposal and set_vote is the environment *)
(* here (LockedVoting puts the locked-voter program in its place), and so  *)
(* is the smart wallet, of which this module keeps only the transactions   *)
(* queue_proposal creates in it: the wallet may refuse one, and then the   *)
(* instruction fails and changes nothing.                                  *)
(***************************************************************************)
EXTENDS Integers, FiniteSets, Functions, SolanaClock

CONSTANTS
  Lockers,          \* keys the governor may name as its locker
  Proposers,        \* owners of the smart wallet
  Voters,           \* keys a Vote account may be opened for
  Mints,            \* mints rewards may be paid in
  NoMint,           \* Pubkey::default(), the mint of a governor without rewards
  Transactions,     \* addresses of smart-wallet transactions
  NoTransaction,    \* Pubkey::default()
  MaxProposals,     \* bound: how many proposals are created
  MAX_OPTION,       \* constants.rs: the largest option of a proposal
  GovernanceParams, \* the governance parameters the wallet may choose from
  Rewards,          \* rewards per proposal the wallet may choose from
  RewardSupply,     \* tokens of each reward mint
  Powers,           \* voting powers a locker may report
  U64Max            \* the largest u64

ABSTAIN_VOTE_INDEX == 0
AGAINST_VOTE_INDEX == 1
FOR_VOTE_INDEX == 2

ProposalIds == 0..(MaxProposals - 1)
Options == 0..MAX_OPTION

GovernanceParameters == [voting_delay : Nat, voting_period : Nat, quorum_votes : Nat,
                         timelock_delay_seconds : Int]

VotingReward == [reward_mint : Mints \cup {NoMint}, reward_per_proposal : Nat]

ASSUME GovernAssumption ==
  /\ IsFiniteSet(Voters)
  /\ NoMint \notin Mints
  /\ NoTransaction \notin Transactions
  /\ MaxProposals \in Nat
  /\ MAX_OPTION \in Nat /\ MAX_OPTION >= 2
  /\ GovernanceParams \subseteq GovernanceParameters
  /\ Rewards \subseteq Nat
  /\ RewardSupply \in Nat
  /\ Powers \subseteq Nat
  /\ U64Max \in Nat

VARIABLES
  proposal_count,      \* Governor::proposal_count
  locker,              \* Governor::locker
  governance_params,   \* Governor::params
  voting_reward,       \* Governor::voting_reward
  proposals,           \* the Proposal accounts
  votes,               \* the Vote of each proposal and voter
  queued_transactions, \* the smart wallet's, as queue_proposal creates them
  reward_vaults,       \* balance of the governor's token account of each mint
  rewards_received,    \* what each voter's token accounts got from claims
  reward_funds         \* reward tokens held by others

governVars == <<proposal_count, locker, governance_params, voting_reward, proposals,
                votes, queued_transactions, reward_vaults, rewards_received, reward_funds>>
governState == <<now, governVars>>

-----------------------------------------------------------------------------
Proposal == [proposer : Proposers, proposal_type : {"YesNo", "Option"},
             quorum_votes : Nat, max_option : Options, option_votes : [Options -> Nat],
             canceled_at : Nat, created_at : Nat, activated_at : Nat,
             voting_ends_at : Nat, queued_at : Nat,
             queued_transaction : Transactions \cup {NoTransaction},
             voting_reward : VotingReward, total_claimed_reward : Nat]

Vote == [open : BOOLEAN, side : Nat, voting_power : Nat, claimed : BOOLEAN]

ClosedVote == [open |-> FALSE, side |-> 0, voting_power |-> 0, claimed |-> FALSE]

\* A transaction account: the proposal it executes and its eta (NO_ETA is -1).
QueuedTransaction == [open : BOOLEAN, proposal : ProposalIds \cup {-1}, eta : Int]

EmptyTransaction == [open |-> FALSE, proposal |-> -1, eta |-> -1]

\* The proposals created so far: the addresses of the others are empty.
Created == 0..(proposal_count - 1)

\* For, against, abstentions and options alike.
TotalVotes(q) == SumFunctionOnSet(q.option_votes, Options)

MeetsQuorum(q) == TotalVotes(q) >= q.quorum_votes

\* A tie defeats a Yes/No proposal; in TieWins it does not.
TieWins(q) == q.option_votes[FOR_VOTE_INDEX] < q.option_votes[AGAINST_VOTE_INDEX]
Outvoted(q) == q.option_votes[FOR_VOTE_INDEX] <= q.option_votes[AGAINST_VOTE_INDEX]

\* Proposal::state at the current time.  Summing votes past a u64 aborts the
\* instruction (the programs are built with overflow-checks): "Overflow".
State(q) ==
  IF q.canceled_at > 0 THEN "Canceled"
  ELSE IF q.activated_at = 0 THEN "Draft"
  ELSE IF now < q.voting_ends_at THEN "Active"
  ELSE IF TotalVotes(q) > U64Max THEN "Overflow"
  ELSE IF ~ MeetsQuorum(q) THEN "Defeated"
  ELSE IF q.queued_at > 0 THEN "Queued"
  ELSE IF q.proposal_type = "YesNo" /\ Outvoted(q) THEN "Defeated"
  ELSE "Succeeded"

\* Proposal::get_voting_reward: the share of voting power w, rounded down.
RewardOf(q, w) ==
  IF TotalVotes(q) = 0 THEN 0
  ELSE (q.voting_reward.reward_per_proposal * w) \div TotalVotes(q)

AddTo(tally, side, w) == [s \in Options |-> IF s = side THEN tally[s] + w ELSE tally[s]]

-----------------------------------------------------------------------------
\* The state create_governor leaves behind: it refuses a negative timelock.
GovernInit ==
  /\ proposal_count = 0
  /\ locker \in Lockers
  /\ governance_params \in GovernanceParams
  /\ governance_params.timelock_delay_seconds >= 0
  /\ voting_reward = [reward_mint |-> NoMint, reward_per_proposal |-> 0]
  /\ proposals = [p \in {} |-> {}]
  /\ votes = [p \in ProposalIds |-> [v \in Voters |-> ClosedVote]]
  /\ queued_transactions = [x \in Transactions |-> EmptyTransaction]
  /\ reward_vaults = [m \in Mints |-> 0]
  /\ rewards_received = [v \in Voters |-> [m \in Mints |-> 0]]
  /\ reward_funds = [m \in Mints |-> RewardSupply]

CreateProposal(proposer, proposal_type, max_option) ==
  /\ proposal_count < MaxProposals
  /\ IF proposal_type = "YesNo" THEN max_option = 2 ELSE max_option \in 2..MAX_OPTION
  /\ LET new == [proposer |-> proposer, proposal_type |-> proposal_type,
                 quorum_votes |-> governance_params.quorum_votes,
                 max_option |-> max_option, option_votes |-> [s \in Options |-> 0],
                 canceled_at |-> 0, created_at |-> now, activated_at |-> 0,
                 voting_ends_at |-> 0, queued_at |-> 0,
                 queued_transaction |-> NoTransaction,
                 voting_reward |-> voting_reward, total_claimed_reward |-> 0]
     IN  proposals' = [p \in 0..proposal_count |->
                         IF p = proposal_count THEN new ELSE proposals[p]]
  /\ proposal_count' = proposal_count + 1
  /\ UNCHANGED <<locker, governance_params, voting_reward, votes, queued_transactions,
                 reward_vaults, rewards_received, reward_funds>>

\* Only proposals changes.
OnlyProposals ==
  UNCHANGED <<proposal_count, locker, governance_params, voting_reward, votes,
              queued_transactions, reward_vaults, rewards_received, reward_funds>>

\* An activation that forgot that the proposal must be a draft.
ReactivateProposal(l, p) ==
  /\ l = locker
  /\ State(proposals[p]) \in {"Draft", "Active"}
  /\ proposals' = [proposals EXCEPT
       ![p].activated_at = now,
       ![p].voting_ends_at = now + governance_params.voting_period]
  /\ OnlyProposals

\* Signed by the locker l.
ActivateProposal(l, p) ==
  /\ l = locker
  /\ State(proposals[p]) = "Draft"
  /\ now >= proposals[p].created_at + governance_params.voting_delay
  /\ proposals' = [proposals EXCEPT
       ![p].activated_at = now,
       ![p].voting_ends_at = now + governance_params.voting_period]
  /\ OnlyProposals

\* A cancellation that looks at queued_at alone.
CancelUnqueued(p) ==
  /\ proposals[p].canceled_at = 0 /\ proposals[p].queued_at = 0
  /\ proposals' = [proposals EXCEPT ![p].canceled_at = now]
  /\ OnlyProposals

\* Signed by the proposer.
CancelProposal(p) ==
  /\ State(proposals[p]) = "Draft"
  /\ proposals' = [proposals EXCEPT ![p].canceled_at = now]
  /\ OnlyProposals

\* Anyone may open any voter's vote, at any time; `init` fails if it exists.
NewVote(p, v) ==
  /\ ~ votes[p][v].open
  /\ votes' = [votes EXCEPT ![p][v] = [ClosedVote EXCEPT !.open = TRUE]]
  /\ UNCHANGED <<proposal_count, locker, governance_params, voting_reward, proposals,
                 queued_transactions, reward_vaults, rewards_received, reward_funds>>

\* A vote without power is not looked at by subtract_ and add_vote_weight.
CanSubtract(tally, q, side, w) == w > 0 => side <= q.max_option /\ w <= tally[side]
CanAdd(tally, q, side, w) == w > 0 => side <= q.max_option /\ tally[side] + w <= U64Max

\* The tally without vote x; two mutants forget to subtract it, or its side.
KeptTally(q, x) == q.option_votes
WithoutAbstain(q, x) == AddTo(q.option_votes, ABSTAIN_VOTE_INDEX, - x.voting_power)
TallyWithout(q, x) == AddTo(q.option_votes, x.side, - x.voting_power)

\* Signed by the locker l: the vote moves from its old side and power to the
\* new ones.
SetVote(l, p, v, side, power) ==
  LET q    == proposals[p]
      vote == votes[p][v]
      rest == TallyWithout(q, vote)
  IN
  /\ l = locker
  /\ vote.open
  /\ State(q) = "Active"
  /\ CanSubtract(q.option_votes, q, vote.side, vote.voting_power)
  /\ CanAdd(rest, q, side, power)
  /\ proposals' = [proposals EXCEPT ![p].option_votes = AddTo(rest, side, power)]
  /\ votes' = [votes EXCEPT ![p][v].side = side, ![p][v].voting_power = power]
  /\ UNCHANGED <<proposal_count, locker, governance_params, voting_reward, queued_transactions,
                 reward_vaults, rewards_received, reward_funds>>

\* Anyone may queue; the transaction's account must be empty.
QueueProposal(p, x) ==
  /\ State(proposals[p]) = "Succeeded"
  /\ ~ queued_transactions[x].open
  /\ queued_transactions' = [queued_transactions EXCEPT ![x] =
       [open |-> TRUE, proposal |-> p,
        eta |-> IF governance_params.timelock_delay_seconds = 0 THEN -1
                ELSE now + governance_params.timelock_delay_seconds]]
  /\ proposals' = [proposals EXCEPT ![p].queued_at = now, ![p].queued_transaction = x]
  /\ UNCHANGED <<proposal_count, locker, governance_params, voting_reward, votes,
                 reward_vaults, rewards_received, reward_funds>>

\* The voting is over, with a quorum; ClaimableEarly forgot that it is over.
ClaimableEarly(q) == State(q) \notin {"Canceled", "Draft"}
Claimable(q) ==
  /\ MeetsQuorum(q)
  /\ State(q) \in {"Defeated", "Queued", "Succeeded"}

\* Signed by the voter v.  The transfer fails when the vault is short.
ClaimReward(p, v) ==
  LET q      == proposals[p]
      m      == q.voting_reward.reward_mint
      reward == RewardOf(q, votes[p][v].voting_power)
  IN
  /\ votes[p][v].open
  /\ m # NoMint
  /\ Claimable(q)
  /\ ~ votes[p][v].claimed
  /\ reward <= reward_vaults[m]
  /\ votes' = [votes EXCEPT ![p][v].claimed = TRUE]
  /\ reward_vaults' = [reward_vaults EXCEPT ![m] = @ - reward]
  /\ rewards_received' = [rewards_received EXCEPT ![v][m] = @ + reward]
  /\ proposals' = [proposals EXCEPT ![p].total_claimed_reward = @ + reward]
  /\ UNCHANGED <<proposal_count, locker, governance_params, voting_reward, queued_transactions,
                 reward_funds>>

\* The three instructions of the governor's smart wallet.
SetGovernanceParams(g) ==
  /\ governance_params' = g
  /\ UNCHANGED <<proposal_count, locker, voting_reward, proposals, votes, queued_transactions,
                 reward_vaults, rewards_received, reward_funds>>

SetLocker(l) ==
  /\ locker' = l
  /\ UNCHANGED <<proposal_count, governance_params, voting_reward, proposals, votes,
                 queued_transactions, reward_vaults, rewards_received, reward_funds>>

SetVotingReward(m, amount) ==
  /\ voting_reward' = [reward_mint |-> m, reward_per_proposal |-> amount]
  /\ UNCHANGED <<proposal_count, locker, governance_params, proposals, votes,
                 queued_transactions, reward_vaults, rewards_received, reward_funds>>

\* A plain token transfer into the governor's vault, by anyone.
FundRewards(m, amount) ==
  /\ amount <= reward_funds[m]
  /\ reward_funds' = [reward_funds EXCEPT ![m] = @ - amount]
  /\ reward_vaults' = [reward_vaults EXCEPT ![m] = @ + amount]
  /\ UNCHANGED <<proposal_count, locker, governance_params, voting_reward, proposals,
                 votes, queued_transactions, rewards_received>>

-----------------------------------------------------------------------------
\* The instructions that no locker has to sign.
OpenNext ==
  \/ \E proposer \in Proposers, max_option \in Options :
       \E proposal_type \in {"YesNo", "Option"} :
         CreateProposal(proposer, proposal_type, max_option)
  \/ \E p \in Created :
       \/ CancelProposal(p)
       \/ \E v \in Voters : NewVote(p, v) \/ ClaimReward(p, v)
       \/ \E x \in Transactions : QueueProposal(p, x)
  \/ \E g \in GovernanceParams : SetGovernanceParams(g)
  \/ \E l \in Lockers : SetLocker(l)
  \/ \E m \in Mints, amount \in Rewards : SetVotingReward(m, amount)
  \/ \E m \in Mints, amount \in 1..RewardSupply : FundRewards(m, amount)

\* What a locker may ask for; sides past max_option are tried as well.
LockerSigned ==
  \E l \in Lockers, p \in Created :
    \/ ActivateProposal(l, p)
    \/ \E v \in Voters, side \in 0..(MAX_OPTION + 1), power \in Powers :
         SetVote(l, p, v, side, power)

GovernStart == ClockInit /\ GovernInit

GovernStep ==
  \/ (OpenNext \/ LockerSigned) /\ UNCHANGED now
  \/ Tick /\ UNCHANGED governVars

GovernSpec == GovernStart /\ [][GovernStep]_governState

\* Time passes.
GovernFairSpec == GovernSpec /\ WF_governState(Tick /\ UNCHANGED governVars)

-----------------------------------------------------------------------------
(* What the program owes its voters *)

\* Every account holds values of its Rust type: no subtraction underflows.
GovernTypeOK ==
  /\ now \in Nat
  /\ proposal_count \in 0..MaxProposals
  /\ locker \in Lockers
  /\ governance_params \in GovernanceParams
  /\ voting_reward \in VotingReward
  /\ proposals \in [Created -> Proposal]
  /\ votes \in [ProposalIds -> [Voters -> Vote]]
  /\ queued_transactions \in [Transactions -> QueuedTransaction]
  /\ reward_vaults \in [Mints -> Nat]
  /\ rewards_received \in [Voters -> [Mints -> Nat]]
  /\ reward_funds \in [Mints -> Nat]

\* What vote x adds to side s.
WeightOn(x, s) == IF x.side = s THEN x.voting_power ELSE 0

VotesFor(p, s) ==
  SumFunctionOnSet([v \in Voters |-> WeightOn(votes[p][v], s)], Voters)

\* option_votes, which set_vote keeps as a running total, is on every side
\* the sum of the votes as they stand, however often voters change side or
\* power: no weight is counted twice, lost, or left behind on an old side.
TallyAccounted ==
  \A p \in Created : \A s \in Options : proposals[p].option_votes[s] = VotesFor(p, s)

Final == {"Canceled", "Defeated", "Succeeded", "Queued"}

\* What a vote decided stays decided: once its voting is over (or it was
\* canceled) a proposal never changes its state again, but that a succeeded
\* one is queued; no later vote, parameter change or claim reopens it, and
\* "a canceled proposal cannot be reactivated".
OutcomeIsFinal ==
  [][\A p \in Created :
       State(proposals[p]) \in Final =>
         \/ State(proposals[p])' = State(proposals[p])
         \/ State(proposals[p]) = "Succeeded" /\ State(proposals[p])' = "Queued"]_governState

\* Proposal p passed as the program counts: enough votes "were made on the
\* proposal" (meets_quorum), whatever their side, and, on a Yes/No proposal
\* alone, more for than against.  So abstentions and votes against reach the
\* quorum too: Governor and Proposal call quorum_votes votes "in support of a
\* proposal" (state.rs:63, :117), and ProposalState's comment defeats every
\* proposal with as many against as for (proposal.rs:25); the code does
\* neither.
Passed(p) ==
  LET sum == SumFunctionOnSet([v \in Voters |-> votes[p][v].voting_power], Voters)
  IN  /\ sum >= proposals[p].quorum_votes
      /\ proposals[p].proposal_type = "YesNo" =>
           VotesFor(p, FOR_VOTE_INDEX) > VotesFor(p, AGAINST_VOTE_INDEX)

\* Every transaction the governor puts into the smart wallet executes a
\* proposal that was voted through: the votes as they stand pass it by the
\* program's count, it was queued after its voting ended, it was never
\* canceled, and no other transaction executes it.
QueuedProposalsPassed ==
  \A x \in Transactions : queued_transactions[x].open =>
    LET p == queued_transactions[x].proposal IN
    /\ p \in Created
    /\ proposals[p].queued_transaction = x
    /\ proposals[p].canceled_at = 0
    /\ proposals[p].activated_at > 0
    /\ proposals[p].queued_at >= proposals[p].voting_ends_at
    /\ Passed(p)

\* The rewards of proposal p that the claimed votes are due.
ClaimedRewards(p) ==
  SumFunctionOnSet([v \in Voters |->
    IF votes[p][v].claimed THEN RewardOf(proposals[p], votes[p][v].voting_power) ELSE 0],
    Voters)

\* What voter v was paid for proposal p in mint m.
PaidFor(p, v, m) ==
  IF votes[p][v].claimed /\ proposals[p].voting_reward.reward_mint = m
  THEN RewardOf(proposals[p], votes[p][v].voting_power) ELSE 0

\* Every voter is paid once for each proposal, the share of the final tally
\* (a tally that moved after the first claim would pay the later ones by
\* another total); all claims of a proposal together stay within its reward,
\* and total_claimed_reward is their sum.
RewardsAccounted ==
  /\ \A p \in Created :
       /\ proposals[p].total_claimed_reward = ClaimedRewards(p)
       /\ proposals[p].total_claimed_reward <= proposals[p].voting_reward.reward_per_proposal
  /\ \A v \in Voters, m \in Mints :
       rewards_received[v][m] = SumFunctionOnSet([p \in Created |-> PaidFor(p, v, m)], Created)

\* Every vote comes to an end: an active proposal whose end lies within the
\* time looked at is decided, provided its votes fit in a u64.
VotingEnds ==
  \A p \in ProposalIds :
    (p \in Created /\ State(proposals[p]) = "Active" /\ proposals[p].voting_ends_at <= MaxTime)
    ~> (p \in Created /\ State(proposals[p]) \in {"Defeated", "Succeeded", "Queued", "Overflow"})
=============================================================================
