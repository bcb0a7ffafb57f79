--------------------------- MODULE GovernedWallet ---------------------------
(***************************************************************************)
(* A DAO: the governor of Govern is an owner of the wallet of SmartWallet  *)
(* and the only key that can sign set_governance_params, set_locker and    *)
(* set_voting_reward is the wallet's.  The programs meet in two calls.     *)
(* queue_proposal creates the wallet's next transaction in the governor's  *)
(* name, with the instructions of the proposal; execute_transaction runs a *)
(* transaction's instructions one by one, those for the governor included. *)
(* If any part of a call fails, all of it does.                            *)
(*                                                                         *)
(* The governor's key signs in queue_proposal and nowhere else: it never   *)
(* approves, takes back, executes, removes or proposes.  The locker is the *)
(* environment, as in Govern.  Rewards are claimed from accounts the       *)
(* wallet has no part in: that is left to Govern.                          *)
(***************************************************************************)
EXTENDS Govern, SmartWallet

CONSTANT
  Governor              \* the key of the governor's account

\* The addresses of the wallet's transactions are their indices; instructions
\* for the governor carry what its three handlers read from them.
ASSUME GovernedAssumption ==
  /\ Governor \in WalletKeys
  /\ Proposers = WalletKeys \ {Governor}
  /\ Transactions = Indices
  /\ \A s \in Instructions : \A i \in DOMAIN s :
       /\ s[i].op = "set_governance_params" => s[i].params \in GovernanceParams
       /\ s[i].op = "set_locker" => s[i].locker \in Lockers
       /\ s[i].op = "set_voting_reward" => s[i].reward \in VotingReward

\* transactions, of SmartWallet, are the wallet's Transaction accounts;
\* queued_transactions, of Govern, has what the governor knows of its own.
VARIABLE
  proposed              \* Proposal::instructions of each proposal

governedState == <<now, governVars, walletVars, proposed>>

-----------------------------------------------------------------------------
SetParamsTo(g) == [op |-> "set_governance_params", params |-> g]
SetLockerTo(l) == [op |-> "set_locker", locker |-> l]
SetRewardTo(r) == [op |-> "set_voting_reward", reward |-> r]

\* The governor g = [params, locker, reward] after one instruction.
Call(g, ix) ==
  CASE ix.op = "set_governance_params" -> [g EXCEPT !.params = ix.params]
    [] ix.op = "set_locker" -> [g EXCEPT !.locker = ix.locker]
    [] ix.op = "set_voting_reward" -> [g EXCEPT !.reward = ix.reward]
    [] OTHER -> g

CallAll(instructions) ==
  FoldLeft(Call, [params |-> governance_params, locker |-> locker, reward |-> voting_reward],
           instructions)

-----------------------------------------------------------------------------
\* create_governor refuses a wallet that does not list the governor.
GovernedInit ==
  /\ ClockInit
  /\ GovernInit
  /\ WalletInit
  /\ IsOwner(Governor)
  /\ proposed = [p \in ProposalIds |-> <<>>]

\* create_proposal: signed by an owner.
Propose(k, proposal_type, max_option, instructions) ==
  /\ k # Governor
  /\ IsOwner(k)
  /\ CreateProposal(k, proposal_type, max_option)
  /\ proposed' = [proposed EXCEPT ![proposal_count] = instructions]
  /\ UNCHANGED walletVars

\* queue_proposal that takes no notice of the wallet's answer.
QueueAnyway(p) ==
  /\ num_transactions \in Transactions
  /\ QueueProposal(p, num_transactions)
  /\ \/ CreateTransaction(Governor, proposed[p], queued_transactions'[num_transactions].eta)
     \/ UNCHANGED walletVars
  /\ UNCHANGED proposed

\* queue_proposal: the transaction's address is the wallet's next one.
Queue(p) ==
  /\ num_transactions \in Transactions
  /\ QueueProposal(p, num_transactions)
  /\ CreateTransaction(Governor, proposed[p], queued_transactions'[num_transactions].eta)
  /\ UNCHANGED proposed

\* execute_transaction: signed by an owner.  set_voting_reward, set_locker and
\* set_governance_params check the wallet's signature and nothing else.
Execute(k, x) ==
  LET g == CallAll(transactions[x].instructions) IN
  /\ k # Governor
  /\ IsOwner(k)
  /\ ExecuteTransaction(x)
  /\ governance_params' = g.params
  /\ locker' = g.locker
  /\ voting_reward' = g.reward
  /\ UNCHANGED <<proposal_count, proposals, votes, queued_transactions, reward_vaults,
                 rewards_received, reward_funds, proposed>>

\* The instructions of either program that the other has no part in.
GovernAlone ==
  /\ \/ \E p \in Created : CancelProposal(p) \/ \E v \in Voters : NewVote(p, v)
     \/ LockerSigned
  /\ UNCHANGED <<walletVars, proposed>>

WalletAlone ==
  /\ \/ \E k \in WalletKeys \ {Governor} :
          \/ \E instructions \in Instructions, eta \in Etas \cup {NO_ETA} :
               CreateTransaction(k, instructions, eta)
          \/ \E x \in Transactions : Approve(k, x) \/ Unapprove(k, x)
     \/ \E x \in Transactions :
          transactions[x].proposer # Governor /\ RemoveTransaction(x)
  /\ UNCHANGED <<governVars, proposed>>

GovernedNext ==
  \/ \E k \in WalletKeys, max_option \in Options, instructions \in Instructions :
       \E proposal_type \in {"YesNo", "Option"} :
         Propose(k, proposal_type, max_option, instructions)
  \/ \E p \in Created : Queue(p)
  \/ \E k \in WalletKeys, x \in Transactions : Execute(k, x)
  \/ GovernAlone
  \/ WalletAlone

GovernedStep ==
  \/ GovernedNext /\ UNCHANGED now
  \/ Tick /\ UNCHANGED <<governVars, walletVars, proposed>>

GovernedSpec == GovernedInit /\ [][GovernedStep]_governedState
-----------------------------------------------------------------------------
(* What the DAO owes its voters *)

\* Wallet transaction x carries out proposal p.
CarriesOut(x, p) ==
  /\ proposals[p].queued_transaction = x
  /\ transactions[x].proposer = Governor
  /\ transactions[x].instructions = proposed[p]
  /\ transactions[x].created_at = proposals[p].queued_at

\* A queued proposal and its transaction are never one without the other: a
\* proposal is marked queued only if the wallet took its instructions, as they
\* were proposed; every transaction in the governor's name carries out exactly
\* one proposal, which was voted through; and nobody can remove it, since
\* nobody can take back the governor's approval.
QueuedHasTransaction ==
  /\ \A p \in Created : proposals[p].queued_at > 0 =>
       /\ transactions[proposals[p].queued_transaction].open
       /\ CarriesOut(proposals[p].queued_transaction, p)
  /\ \A x \in Transactions : transactions[x].proposer = Governor =>
       /\ Governor \in approved_by[x]
       /\ \E p \in Created :
            /\ CarriesOut(x, p) /\ Passed(p)
            /\ \A q \in Created : CarriesOut(x, q) => q = p

Executes(x) == transactions[x].executed_at = -1 /\ transactions'[x].executed_at = now

\* The wallet acts for the governor only as was voted: what it executes in the
\* governor's name is the proposal's instructions, after the voting ended and
\* the wallet's minimum delay on top, under the owners it was queued under and
\* with threshold approvals; and the governor's parameters, locker and reward
\* change only by such an execution, or by one that threshold owners approved
\* without a vote.
ActsAsVoted ==
  [][/\ \A x \in Transactions : Executes(x) =>
          /\ Cardinality({k \in approved_by[x] : IsOwner(k)}) >= threshold
          /\ transactions[x].owner_set_seqno = owner_set_seqno
          /\ transactions[x].proposer = Governor =>
               \E p \in Created :
                 /\ CarriesOut(x, p)
                 /\ State(proposals[p]) = "Queued" /\ Passed(p)
                 /\ now >= proposals[p].voting_ends_at + minimum_delay
     /\ <<governance_params, locker, voting_reward>>' # <<governance_params, locker, voting_reward>>
        => \E x \in Transactions : Executes(x)]_governedState

\* The timelock and the wallet's delays agree.
TimelockFits ==
  LET timelock == governance_params.timelock_delay_seconds IN
  \/ timelock = 0 /\ minimum_delay = 0
  \/ timelock > 0 /\ timelock \in minimum_delay..MAX_DELAY_SECONDS

\* What was voted through is not refused: while the timelock fits the wallet
\* and the governor is still an owner, every proposal that has succeeded can be
\* queued, at once and whoever calls.
PassedCanBeQueued ==
  TimelockFits /\ IsOwner(Governor) /\ num_transactions < MaxTransactions =>
    \A p \in Created : State(proposals[p]) = "Succeeded" => ENABLED Queue(p)
=============================================================================
