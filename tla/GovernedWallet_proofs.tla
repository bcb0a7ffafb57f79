------------------------ MODULE GovernedWallet_proofs ------------------------
(***************************************************************************)
(* Proofs about GovernedWallet: the invariants of the two programs hold in *)
(* it too, and one more ties each proposal that was queued to the wallet's *)
(* transaction that carries it out.                                        *)
(***************************************************************************)
EXTENDS GovernedWallet, Govern_proofs, SmartWallet_proofs

-----------------------------------------------------------------------------
(* The governor's instructions of a transaction *)

Settings == [params : GovernanceParams, locker : Lockers, reward : VotingReward]

\* g runs the instructions ins one after the other on the governor v.
IsCalled(g, v, ins) ==
  g = [s \in SUBSET DOMAIN ins |->
         IF s = {} THEN v ELSE Call(g[s \ {Max(s)}], ins[Max(s)])]

\* CallAll is such a function over all positions, if there is one.
LEMMA CallAllUnfolds ==
  ASSUME NEW ins
  PROVE  CallAll(ins) =
           (CHOOSE g : IsCalled(g, [params |-> governance_params, locker |-> locker,
                                    reward |-> voting_reward], ins))[DOMAIN ins]
BY DEF CallAll, FoldLeft, MapThenFoldSet, IsCalled

\* A transaction leaves the governor within a set that each of its
\* instructions leaves it within.
LEMMA CallAllWithin ==
  ASSUME NEW V, NEW v \in V,
         v = [params |-> governance_params, locker |-> locker, reward |-> voting_reward],
         NEW n \in Nat, NEW ins, DOMAIN ins = 1..n,
         \A w \in V : \A i \in 1..n : Call(w, ins[i]) \in V
  PROVE  CallAll(ins) \in V
<1> DEFINE F == [a \in V \X (1..n) |-> Call(a[1], ins[a[2]])]
<1>1. ASSUME NEW s \in SUBSET (1..n), s # {}
      PROVE  Max(s) \in 1..n
  BY <1>1, MaxInSet
<1>2. \A w \in V : \A i \in 1..n : F[<<w, i>>] = Call(w, ins[i])
  OBVIOUS
<1> HIDE DEF F
<1>3. PICK h : IsFold(h, v, F, SUBSET (1..n))
  BY FoldExists
<1>4. \A s \in SUBSET (1..n) : h[s] = IF s = {} THEN v ELSE F[<<h[s \ {Max(s)}], Max(s)>>]
  BY <1>3 DEF IsFold
<1>5. \A s \in SUBSET (1..n) : h[s] \in V
  <2>1. h[{}] \in V
    BY <1>4
  <2>2. ASSUME NEW s \in SUBSET (1..n), s # {}, h[s \ {Max(s)}] \in V
        PROVE  h[s] \in V
    <3>1. Max(s) \in 1..n
      BY <1>1, <2>2
    <3>2. h[s] = F[<<h[s \ {Max(s)}], Max(s)>>]
      BY <1>4, <2>2
    <3> DEFINE w == h[s \ {Max(s)}]
    <3>3. w \in V
      BY <2>2
    <3>4. h[s] = F[<<w, Max(s)>>]
      BY <3>2
    <3> HIDE DEF w
    <3>5. F[<<w, Max(s)>>] = Call(w, ins[Max(s)])
      BY <1>2, <3>1, <3>3
    <3>6. Call(w, ins[Max(s)]) \in V
      BY <3>1, <3>3
    <3> QED BY <3>4, <3>5, <3>6
  <2> QED BY <2>1, <2>2, StaysWithin
<1>6. IsCalled(h, v, ins)
  <2> DEFINE k == [s \in SUBSET (1..n) |->
                     IF s = {} THEN v ELSE Call(h[s \ {Max(s)}], ins[Max(s)])]
  <2>1. ASSUME NEW s \in SUBSET (1..n) PROVE h[s] = k[s]
    <3>1. CASE s = {}
      BY <1>4, <3>1
    <3>2. CASE s # {}
      <4>1. s \ {Max(s)} \in SUBSET (1..n)
        OBVIOUS
      <4>2. h[s \ {Max(s)}] \in V /\ Max(s) \in 1..n
        BY <1>1, <1>5, <3>2, <4>1
      <4> QED BY <1>2, <1>4, <3>2, <4>2
    <3> QED BY <3>1, <3>2
  <2>2. h = [s \in SUBSET (1..n) |-> h[s]]
    BY <1>3 DEF IsFold
  <2>3. h = k
    <3>1. k = [s \in SUBSET (1..n) |-> k[s]]
      OBVIOUS
    <3> HIDE DEF k
    <3> QED BY <2>1, <2>2, <3>1
  <2> QED BY <2>3 DEF IsCalled
<1>7. PICK g : IsCalled(g, v, ins) /\ CallAll(ins) = g[1..n]
  BY <1>6, CallAllUnfolds
<1>8. \A s \in SUBSET (1..n) : g[s] = IF s = {} THEN v ELSE Call(g[s \ {Max(s)}], ins[Max(s)])
  BY <1>7 DEF IsCalled
<1>9. g[1..n] \in V
  <2>1. g[{}] \in V
    BY <1>8
  <2>2. ASSUME NEW s \in SUBSET (1..n), s # {}, g[s \ {Max(s)}] \in V
        PROVE  g[s] \in V
    BY <1>1, <1>8, <2>2
  <2> QED BY <2>1, <2>2, StaysWithin
<1> QED BY <1>7, <1>9

\* So it leaves the governor with settings of their types.
LEMMA CallAllTyped ==
  ASSUME GovernTypeOK, NEW ins \in Instructions \cup {<<>>}
  PROVE  CallAll(ins) \in Settings
<1> DEFINE v == [params |-> governance_params, locker |-> locker, reward |-> voting_reward]
<1>1. v \in Settings
  BY DEF Settings, GovernTypeOK
<1>2. WellFormed(ins)
  <2>1. WellFormed(<<>>)
    BY DEF WellFormed
  <2> QED BY <2>1, WalletAssumption
<1>3. Len(ins) \in Nat /\ DOMAIN ins = 1..Len(ins)
  BY <1>2 DEF WellFormed
<1>4. ASSUME NEW w \in Settings, NEW i \in 1..Len(ins)
      PROVE  Call(w, ins[i]) \in Settings
  <2>1. ins \in Instructions
    BY <1>3, <1>4
  <2> DEFINE ix == ins[i]
  <2>2. /\ ix.op = "set_governance_params" => ix.params \in GovernanceParams
        /\ ix.op = "set_locker" => ix.locker \in Lockers
        /\ ix.op = "set_voting_reward" => ix.reward \in VotingReward
    BY <1>3, <2>1, GovernedAssumption
  <2> HIDE DEF ix
  <2>3. Call(w, ix) \in Settings
    BY <2>2 DEF Call, Settings
  <2> QED BY <2>3 DEF ix
<1> QED BY <1>1, <1>3, <1>4, CallAllWithin

-----------------------------------------------------------------------------
(* The invariants of the two programs *)

GovernInv == GovernTypeOK /\ ClockRuns /\ TallyInv /\ QueueInv

\* What is in a transaction that the wallet holds.
LEMMA TransactionTyped ==
  ASSUME WalletInv, NEW x \in Transactions
  PROVE  /\ x \in Indices /\ transactions[x] \in Transaction
         /\ transactions[x].instructions \in Instructions \cup {<<>>}
<1>1. x \in Indices
  BY GovernedAssumption
<1>2. transactions[x] \in Transaction
  BY <1>1 DEF WalletInv, WalletTypeOK
<1> QED BY <1>1, <1>2 DEF Transaction

\* What the wallet executes is what the wallet may do in the open world: it
\* changes no more of the governor than its settings, and leaves those with
\* values of their types.
LEMMA ExecuteIsOfOpenWorld ==
  ASSUME GovernTypeOK, WalletInv, NEW k, NEW x \in Transactions, Execute(k, x)
  PROVE  WalletActs
<1> DEFINE g == CallAll(transactions[x].instructions)
<1>1. g \in Settings
  BY TransactionTyped, CallAllTyped
<1>2. /\ governance_params' = g.params /\ locker' = g.locker /\ voting_reward' = g.reward
      /\ UNCHANGED <<proposal_count, proposals, votes, queued_transactions, reward_vaults,
                     rewards_received, reward_funds>>
  BY DEF Execute
<1> HIDE DEF g
<1> QED BY <1>1, <1>2 DEF Settings, WalletActs

\* So every step is one of the governor's, or leaves it alone.
LEMMA GovernedStepsGovern ==
  ASSUME GovernTypeOK, WalletInv, [GovernedStep]_governedState
  PROVE  [OpenWorldStep]_governState
<1>1. ASSUME UNCHANGED now, NEW k \in WalletKeys, NEW max_option \in Options,
             NEW proposal_type \in {"YesNo", "Option"}, NEW ins \in Instructions,
             Propose(k, proposal_type, max_option, ins)
      PROVE  OpenWorldStep
  <2>1. k \in Proposers /\ CreateProposal(k, proposal_type, max_option)
    BY <1>1, GovernedAssumption DEF Propose
  <2> QED BY <1>1, <2>1 DEF OpenWorldStep, OpenNext
<1>2. ASSUME UNCHANGED now, NEW p \in Created, Queue(p)
      PROVE  OpenWorldStep
  <2>1. num_transactions \in Transactions /\ QueueProposal(p, num_transactions)
    BY <1>2 DEF Queue
  <2> QED BY <1>2, <2>1 DEF OpenWorldStep, OpenNext
<1>3. ASSUME UNCHANGED now, NEW k \in WalletKeys, NEW x \in Transactions, Execute(k, x)
      PROVE  OpenWorldStep
  BY <1>3, ExecuteIsOfOpenWorld DEF OpenWorldStep
<1>4. ASSUME UNCHANGED now, GovernAlone
      PROVE  OpenWorldStep
  BY <1>4, LockerSignedAsks DEF GovernAlone, OpenWorldStep, OpenNext
<1>5. ASSUME UNCHANGED now, WalletAlone
      PROVE  UNCHANGED governState
  BY <1>5 DEF WalletAlone, governState
<1>6. ASSUME Tick, UNCHANGED <<governVars, walletVars, proposed>>
      PROVE  OpenWorldStep
  BY <1>6 DEF OpenWorldStep
<1>7. ASSUME UNCHANGED governedState
      PROVE  UNCHANGED governState
  BY <1>7 DEF governedState, governState
<1> QED BY <1>1, <1>2, <1>3, <1>4, <1>5, <1>6, <1>7 DEF GovernedStep, GovernedNext

\* So every step keeps the governor's invariants.
LEMMA NextGovernInv ==
  GovernInv /\ WalletInv /\ [GovernedStep]_governedState => GovernInv'
<1> SUFFICES ASSUME GovernInv, WalletInv, [GovernedStep]_governedState PROVE GovernInv'
  OBVIOUS
<1>1. [OpenWorldStep]_governState
  BY GovernedStepsGovern DEF GovernInv
<1>2. now \in Nat
  BY DEF GovernInv, GovernTypeOK
<1>3. ClockRuns'
  BY <1>1, <1>2 DEF OpenWorldStep, governState, Tick, GovernInv, ClockRuns
<1> QED BY <1>1, <1>3, GovernNextTyped, GovernNextTally, GovernNextQueue DEF GovernInv

\* What the governor puts into the wallet is a transaction like any other.
LEMMA QueueIsWalletStep ==
  ASSUME GovernTypeOK, WalletInv, UNCHANGED now, NEW p \in Created, Queue(p),
         proposed[p] \in Instructions
  PROVE  AnyEtaStep
<1> DEFINE n == num_transactions
<1>1. PICK eta \in Int : queued_transactions' = [queued_transactions EXCEPT ![n] =
                           [open |-> TRUE, proposal |-> p, eta |-> eta]]
  <2> DEFINE e == IF governance_params.timelock_delay_seconds = 0 THEN -1
                  ELSE now + governance_params.timelock_delay_seconds
  <2>1. e \in Int
    BY GovernAssumption DEF GovernTypeOK, GovernanceParameters
  <2>2. queued_transactions' = [queued_transactions EXCEPT ![n] =
                                  [open |-> TRUE, proposal |-> p, eta |-> e]]
    BY DEF Queue, QueueProposal
  <2> HIDE DEF e
  <2> QED BY <2>1, <2>2
<1>2. n \in Transactions
  BY DEF Queue
<1>3. queued_transactions'[n].eta = eta
  BY <1>1, <1>2 DEF GovernTypeOK
<1>4. CreateTransaction(Governor, proposed[p], eta)
  BY <1>3 DEF Queue
<1>5. EtaAllowed(eta)
  BY <1>4 DEF CreateTransaction
<1>6. eta \in Nat \cup {NO_ETA}
  BY <1>5 DEF EtaAllowed, GovernTypeOK
<1>7. Governor \in WalletKeys
  BY GovernedAssumption
<1> QED BY <1>4, <1>6, <1>7 DEF AnyEtaStep

\* Every step is one of the wallet's, or leaves it alone.
LEMMA GovernedStepsWallet ==
  ASSUME GovernTypeOK, WalletInv, \A p \in Created : proposed[p] \in Instructions,
         [GovernedStep]_governedState
  PROVE  [AnyEtaStep]_walletState
<1>0. Transactions = Indices
  BY GovernedAssumption
<1>1. ASSUME UNCHANGED now, NEW p \in Created, Queue(p) PROVE AnyEtaStep
  BY <1>1, QueueIsWalletStep
<1>2. ASSUME UNCHANGED now, NEW k \in WalletKeys, NEW x \in Transactions, Execute(k, x)
      PROVE  AnyEtaStep
  BY <1>0, <1>2 DEF Execute, AnyEtaStep, WalletNext
<1>3. ASSUME UNCHANGED now, WalletAlone
      PROVE  AnyEtaStep
  BY <1>0, <1>3 DEF WalletAlone, AnyEtaStep, WalletNext
<1>4. ASSUME UNCHANGED now, UNCHANGED walletVars
      PROVE  UNCHANGED walletState
  BY <1>4 DEF walletState
<1>5. ASSUME Tick, UNCHANGED walletVars
      PROVE  AnyEtaStep
  BY <1>5 DEF AnyEtaStep
<1>6. ASSUME UNCHANGED governedState PROVE UNCHANGED walletState
  BY <1>6 DEF governedState, walletState
<1>7. \A k, t, m, ins : Propose(k, t, m, ins) => UNCHANGED walletVars
  BY DEF Propose
<1>8. GovernAlone => UNCHANGED walletVars
  BY DEF GovernAlone
<1> QED BY <1>1, <1>2, <1>3, <1>4, <1>5, <1>6, <1>7, <1>8 DEF GovernedStep, GovernedNext

\* So every step keeps the wallet's invariant.
LEMMA NextWalletInv ==
  ASSUME GovernTypeOK, WalletInv, \A p \in Created : proposed[p] \in Instructions,
         [GovernedStep]_governedState
  PROVE  WalletInv'
BY GovernedStepsWallet, NextInv

-----------------------------------------------------------------------------
(* The link between them *)

\* The transactions in the governor's name are those it queued, each with the
\* instructions of its proposal and the governor's approval, which nobody takes
\* back; and a queued proposal has one.
LinkInv ==
  /\ proposed \in [ProposalIds -> Instructions \cup {<<>>}]
  /\ \A p \in Created : proposed[p] \in Instructions
  /\ \A x \in Transactions :
       /\ transactions[x].proposer = Governor => queued_transactions[x].open
       /\ queued_transactions[x].open =>
            /\ transactions[x].open
            /\ CarriesOut(x, queued_transactions[x].proposal)
            /\ Governor \in approved_by[x]
  /\ \A p \in Created : proposals[p].queued_at > 0 =>
       LET x == proposals[p].queued_transaction IN
       /\ x \in Transactions
       /\ queued_transactions[x].open /\ queued_transactions[x].proposal = p

\* A step that queues nothing: what proposal p and transaction x keep in it.
ProposalKept(p) ==
  /\ p \in Created'
  /\ proposals'[p].queued_at = proposals[p].queued_at
  /\ proposals'[p].queued_transaction = proposals[p].queued_transaction
  /\ proposed'[p] = proposed[p]

ProposalNew(p) == proposals'[p].queued_at = 0 /\ proposed'[p] \in Instructions

TransactionKept(x) ==
  \/ transactions[x].proposer # Governor /\ transactions'[x].proposer # Governor
  \/ /\ transactions'[x].proposer = transactions[x].proposer
     /\ transactions'[x].open = transactions[x].open
     /\ transactions'[x].instructions = transactions[x].instructions
     /\ transactions'[x].created_at = transactions[x].created_at
     /\ Governor \in approved_by[x] => Governor \in approved_by'[x]

\* Such a step keeps the link.
LEMMA LinksKept ==
  ASSUME QueueInv, LinkInv, UNCHANGED queued_transactions,
         proposed' \in [ProposalIds -> Instructions \cup {<<>>}],
         \A p \in Created : ProposalKept(p),
         \A p \in Created' : p \notin Created => ProposalNew(p),
         \A x \in Transactions : TransactionKept(x)
  PROVE  LinkInv'
<1>1. \A p \in Created' : proposed'[p] \in Instructions
  BY DEF LinkInv, ProposalKept, ProposalNew
<1>2. ASSUME NEW x \in Transactions, transactions'[x].proposer = Governor
      PROVE  queued_transactions'[x].open
  BY <1>2 DEF LinkInv, TransactionKept
<1>3. ASSUME NEW x \in Transactions, queued_transactions'[x].open
      PROVE  /\ transactions'[x].open
             /\ CarriesOut(x, queued_transactions[x].proposal)'
             /\ Governor \in approved_by'[x]
  <2>1. queued_transactions[x].open
    BY <1>3
  <2>2. PICK p \in Created : queued_transactions[x].proposal = p
    BY <2>1 DEF QueueInv
  <2>3. transactions[x].open /\ CarriesOut(x, p) /\ Governor \in approved_by[x]
    BY <2>1, <2>2 DEF LinkInv
  <2>4. /\ transactions'[x].proposer = transactions[x].proposer
        /\ transactions'[x].open = transactions[x].open
        /\ transactions'[x].instructions = transactions[x].instructions
        /\ transactions'[x].created_at = transactions[x].created_at
        /\ Governor \in approved_by'[x]
    BY <2>3 DEF TransactionKept, CarriesOut
  <2>5. ProposalKept(p)
    OBVIOUS
  <2>6. CarriesOut(x, p)'
    BY <2>3, <2>4, <2>5 DEF CarriesOut, ProposalKept
  <2>7. CarriesOut(x, queued_transactions[x].proposal)'
    BY <2>2, <2>6 DEF CarriesOut
  <2> QED BY <2>3, <2>4, <2>7
<1>4. ASSUME NEW p \in Created', proposals'[p].queued_at > 0
      PROVE  /\ proposals'[p].queued_transaction \in Transactions
             /\ queued_transactions'[proposals'[p].queued_transaction].open
             /\ queued_transactions'[proposals'[p].queued_transaction].proposal = p
  <2>1. p \in Created
    BY <1>4 DEF ProposalNew
  <2>2. ProposalKept(p)
    BY <2>1
  <2> QED BY <1>4, <2>1, <2>2 DEF ProposalKept, LinkInv
<1> QED BY <1>1, <1>2, <1>3, <1>4 DEF LinkInv

\* Without the wallet, nothing is queued.
LEMMA GovernAloneKeeps ==
  ASSUME GovernTypeOK, GovernAlone
  PROVE  /\ UNCHANGED queued_transactions /\ Created' = Created
         /\ \A p \in Created : ProposalKept(p)
<1> DEFINE Goal == /\ UNCHANGED queued_transactions /\ Created' = Created
                   /\ \A p \in Created : ProposalKept(p)
<1>0. UNCHANGED proposed /\ proposals \in [Created -> Proposal]
  BY DEF GovernAlone, GovernTypeOK
<1>1. ASSUME NEW p \in Created, CancelProposal(p) PROVE Goal
  <2>1. /\ proposals' = [proposals EXCEPT ![p].canceled_at = now]
        /\ UNCHANGED <<queued_transactions, proposal_count>>
    BY <1>1 DEF CancelProposal, OnlyProposals
  <2> QED BY <1>0, <2>1 DEF ProposalKept, Created, Proposal
<1>2. ASSUME NEW p \in Created, NEW v \in Voters, NewVote(p, v) PROVE Goal
  BY <1>0, <1>2 DEF NewVote, ProposalKept, Created
<1>3. ASSUME NEW l, NEW p \in Created, ActivateProposal(l, p) PROVE Goal
  <2> DEFINE ends == now + governance_params.voting_period
  <2>1. /\ proposals' = [proposals EXCEPT ![p].activated_at = now, ![p].voting_ends_at = ends]
        /\ UNCHANGED <<queued_transactions, proposal_count>>
    BY <1>3 DEF ActivateProposal, OnlyProposals
  <2> HIDE DEF ends
  <2> QED BY <1>0, <2>1 DEF ProposalKept, Created, Proposal
<1>4. ASSUME NEW l, NEW p \in Created, NEW v \in Voters, NEW side, NEW power,
             SetVote(l, p, v, side, power)
      PROVE  Goal
  <2> DEFINE tally == AddTo(TallyWithout(proposals[p], votes[p][v]), side, power)
  <2>1. /\ proposals' = [proposals EXCEPT ![p].option_votes = tally]
        /\ UNCHANGED <<queued_transactions, proposal_count>>
    BY <1>4 DEF SetVote
  <2> HIDE DEF tally
  <2> QED BY <1>0, <2>1 DEF ProposalKept, Created, Proposal
<1> HIDE DEF Goal
<1>5. Goal
  BY <1>1, <1>2, <1>3, <1>4 DEF GovernAlone, LockerSigned
<1> QED BY <1>5 DEF Goal

\* Whatever keys other than the governor's do to the wallet, the transactions in
\* the governor's name stay what they are, and none is added.
LEMMA WalletAloneKeeps ==
  ASSUME WalletInv, WalletAlone
  PROVE  \A x \in Transactions : TransactionKept(x)
<1> DEFINE Goal == \A x \in Transactions : TransactionKept(x)
<1>0. /\ transactions \in [Transactions -> Transaction]
      /\ approved_by \in [Transactions -> SUBSET WalletKeys]
      /\ ClosedTransaction.proposer # Governor
  BY GovernedAssumption, WalletAssumption DEF WalletInv, WalletTypeOK, ClosedTransaction
<1>1. ASSUME NEW k \in WalletKeys \ {Governor}, NEW ins, NEW eta, CreateTransaction(k, ins, eta)
      PROVE  Goal
  <2> DEFINE n == num_transactions
             new == transactions'[n]
  <2>1. n \in Transactions
    BY <1>1, GovernedAssumption, WalletAssumption
       DEF CreateTransaction, WalletInv, WalletTypeOK, Indices
  <2>2. transactions'[n].proposer = k
    BY <1>0, <1>1, <2>1 DEF CreateTransaction
  <2>3. transactions[n].proposer # Governor
    <3>1. transactions[n] = ClosedTransaction
      BY <2>1, GovernedAssumption, WalletAssumption
         DEF WalletInv, WalletTypeOK, AccountsInv
    <3> QED BY <1>0, <3>1
  <2>4. \A x \in Transactions \ {n} :
          transactions'[x] = transactions[x] /\ approved_by'[x] = approved_by[x]
    BY <1>0, <1>1 DEF CreateTransaction
  <2> QED BY <2>2, <2>3, <2>4 DEF TransactionKept
<1>2. ASSUME NEW k \in WalletKeys \ {Governor}, NEW y \in Transactions,
             Approve(k, y) \/ Unapprove(k, y)
      PROVE  Goal
  <2>1. PICK s : transactions' = [transactions EXCEPT ![y].signers = s]
    BY <1>2 DEF Approve, Unapprove
  <2>2. \A x \in Transactions : Governor \in approved_by[x] => Governor \in approved_by'[x]
    BY <1>0, <1>2 DEF Approve, Unapprove
  <2> QED BY <1>0, <2>1, <2>2 DEF TransactionKept, Transaction
<1>3. ASSUME NEW y \in Transactions, transactions[y].proposer # Governor, RemoveTransaction(y)
      PROVE  Goal
  <2>1. transactions'[y].proposer # Governor
    BY <1>0, <1>3 DEF RemoveTransaction
  <2>2. \A x \in Transactions \ {y} :
          transactions'[x] = transactions[x] /\ approved_by'[x] = approved_by[x]
    BY <1>0, <1>3 DEF RemoveTransaction
  <2> QED BY <1>3, <2>1, <2>2 DEF TransactionKept
<1> HIDE DEF Goal
<1>4. Goal
  BY <1>1, <1>2, <1>3 DEF WalletAlone
<1> QED BY <1>4 DEF Goal

\* A new proposal comes with instructions.
LEMMA ProposeKeepsLink ==
  ASSUME GovernTypeOK, QueueInv, LinkInv,
         NEW k \in WalletKeys, NEW proposal_type, NEW max_option, NEW ins \in Instructions,
         Propose(k, proposal_type, max_option, ins)
  PROVE  LinkInv'
<1> DEFINE n == proposal_count
<1>1. n \in Nat /\ n \in ProposalIds /\ n < MaxProposals /\ n' = n + 1
  BY GovernAssumption DEF Propose, CreateProposal, GovernTypeOK, ProposalIds
<1>2. Created' = 0..n /\ Created' = Created \cup {n} /\ n \notin Created
  BY <1>1 DEF Created
<1>3. /\ \A p \in Created : proposals'[p] = proposals[p]
      /\ proposals'[n].queued_at = 0
      /\ UNCHANGED queued_transactions
  BY <1>2 DEF Propose, CreateProposal
<1>4. proposed' = [proposed EXCEPT ![n] = ins] /\ UNCHANGED <<transactions, approved_by>>
  BY DEF Propose, walletVars
<1>5. proposed' \in [ProposalIds -> Instructions \cup {<<>>}]
  BY <1>4 DEF LinkInv
<1>6. \A p \in Created : p \in ProposalIds
  BY CreatedAreIds
<1> HIDE DEF n
<1>7. \A p \in Created : ProposalKept(p)
  BY <1>2, <1>3, <1>4, <1>6 DEF ProposalKept, LinkInv
<1>8. ProposalNew(n)
  BY <1>1, <1>3, <1>4 DEF ProposalNew, LinkInv
<1>9. \A x \in Transactions : TransactionKept(x)
  BY <1>4 DEF TransactionKept
<1>10. UNCHANGED queued_transactions
  BY <1>3
<1>11. \A p \in Created' : p \notin Created => ProposalNew(p)
  BY <1>2, <1>8
<1> QED BY <1>5, <1>7, <1>9, <1>10, <1>11, LinksKept

\* An execution marks the transaction as executed, whoever proposed it.
LEMMA ExecuteKeepsLink ==
  ASSUME WalletInv, QueueInv, LinkInv, NEW k, NEW y \in Transactions, Execute(k, y)
  PROVE  LinkInv'
<1>1. /\ transactions' = [transactions EXCEPT ![y].executed_at = now]
      /\ UNCHANGED <<proposal_count, proposals, queued_transactions, proposed, approved_by>>
  BY DEF Execute, ExecuteTransaction
<1>2. transactions \in [Transactions -> Transaction]
  BY GovernedAssumption DEF WalletInv, WalletTypeOK
<1>3. \A x \in Transactions : TransactionKept(x)
  BY <1>1, <1>2 DEF TransactionKept, Transaction
<1>4. Created' = Created /\ \A p \in Created : ProposalKept(p)
  BY <1>1 DEF Created, ProposalKept
<1>5. proposed' \in [ProposalIds -> Instructions \cup {<<>>}]
  BY <1>1 DEF LinkInv
<1> QED BY <1>1, <1>3, <1>4, <1>5, LinksKept

\* queue_proposal makes the link: the wallet's next transaction is the
\* proposal's, and it was no other's before.
LEMMA QueueMakesLink ==
  ASSUME GovernInv, WalletInv, LinkInv, UNCHANGED now, NEW p \in Created, Queue(p)
  PROVE  LinkInv'
<1> DEFINE n == num_transactions
<1>1. /\ n \in Transactions /\ QueueProposal(p, n) /\ UNCHANGED proposed
      /\ transactions \in [Transactions -> Transaction]
      /\ approved_by \in [Transactions -> SUBSET WalletKeys]
  BY GovernedAssumption DEF Queue, WalletInv, WalletTypeOK
<1>2. PICK eta : CreateTransaction(Governor, proposed[p], eta)
  BY DEF Queue
<1>3. /\ transactions'[n].open /\ transactions'[n].proposer = Governor
      /\ transactions'[n].instructions = proposed[p]
      /\ transactions'[n].created_at = now
      /\ approved_by'[n] = {Governor}
  BY <1>1, <1>2 DEF CreateTransaction
<1>4. \A x \in Transactions \ {n} :
        transactions'[x] = transactions[x] /\ approved_by'[x] = approved_by[x]
  BY <1>1, <1>2 DEF CreateTransaction
<1> HIDE DEF n
<1>5. /\ queued_transactions'[n].open /\ queued_transactions'[n].proposal = p
      /\ \A x \in Transactions \ {n} : queued_transactions'[x] = queued_transactions[x]
      /\ ~ queued_transactions[n].open
  BY <1>1 DEF QueueProposal, GovernInv, GovernTypeOK
<1>6. proposals' = [proposals EXCEPT ![p].queued_at = now, ![p].queued_transaction = n]
  BY <1>1 DEF QueueProposal
<1>7. /\ Created' = Created
      /\ proposals'[p].queued_at = now /\ proposals'[p].queued_transaction = n
      /\ \A q \in Created \ {p} : proposals'[q] = proposals[q]
  <2>1. proposals \in [Created -> Proposal] /\ proposals[p] \in Proposal
    BY DEF GovernInv, GovernTypeOK
  <2> QED BY <1>1, <1>6, <2>1 DEF QueueProposal, Created, Proposal
<1>8. proposals[p].queued_at = 0
  <2>1. proposals[p] \in Proposal /\ proposals[p].queued_at \in Nat
    BY CreatedAreIds DEF GovernInv, Proposal
  <2>2. State(proposals[p]) = "Succeeded"
    BY <1>1 DEF QueueProposal
  <2>3. ~ (proposals[p].queued_at > 0)
    BY <2>2 DEF State
  <2> QED BY <2>1, <2>3
<1>9. ASSUME NEW x \in Transactions, transactions'[x].proposer = Governor
      PROVE  queued_transactions'[x].open
  BY <1>4, <1>5, <1>9 DEF LinkInv
<1>10. ASSUME NEW x \in Transactions, queued_transactions'[x].open
       PROVE  /\ transactions'[x].open
              /\ CarriesOut(x, queued_transactions[x].proposal)'
              /\ Governor \in approved_by'[x]
  <2>1. CASE x = n
    <3>1. CarriesOut(x, p)'
      BY <1>1, <1>3, <1>7, <2>1 DEF CarriesOut
    <3>2. CarriesOut(x, queued_transactions[x].proposal)'
      BY <1>5, <2>1, <3>1 DEF CarriesOut
    <3> QED BY <1>3, <2>1, <3>2
  <2>2. CASE x # n
    <3>1. queued_transactions[x].open /\ queued_transactions'[x] = queued_transactions[x]
      BY <1>5, <1>10, <2>2
    <3>2. PICK q \in Created : queued_transactions[x].proposal = q /\ CarriedThrough(q)
      BY <3>1 DEF GovernInv, QueueInv
    <3>3. transactions[x].open /\ CarriesOut(x, q) /\ Governor \in approved_by[x]
      BY <3>1, <3>2 DEF LinkInv
    <3>4. q # p
      BY <1>8, <3>2 DEF CarriedThrough
    <3>5. CarriesOut(x, q)'
      BY <1>1, <1>4, <1>7, <2>2, <3>3, <3>4 DEF CarriesOut
    <3>6. CarriesOut(x, queued_transactions[x].proposal)'
      BY <3>1, <3>2, <3>5 DEF CarriesOut
    <3> QED BY <1>4, <2>2, <3>3, <3>6
  <2> QED BY <2>1, <2>2
<1>11. ASSUME NEW q \in Created', proposals'[q].queued_at > 0
       PROVE  /\ proposals'[q].queued_transaction \in Transactions
              /\ queued_transactions'[proposals'[q].queued_transaction].open
              /\ queued_transactions'[proposals'[q].queued_transaction].proposal = q
  <2>1. CASE q = p
    BY <1>1, <1>5, <1>7, <2>1
  <2>2. CASE q # p
    <3>1. q \in Created /\ proposals'[q] = proposals[q]
      BY <1>7, <2>2
    <3> DEFINE x == proposals[q].queued_transaction
    <3>2. x \in Transactions /\ queued_transactions[x].open /\ queued_transactions[x].proposal = q
      BY <1>11, <3>1 DEF LinkInv
    <3>3. x # n
      BY <1>5, <3>2
    <3>4. queued_transactions'[x] = queued_transactions[x]
      BY <1>5, <3>2, <3>3
    <3> QED BY <3>1, <3>2, <3>4
  <2> QED BY <2>1, <2>2
<1>12. proposed' \in [ProposalIds -> Instructions \cup {<<>>}]
       /\ \A q \in Created' : proposed'[q] \in Instructions
  BY <1>1, <1>7 DEF LinkInv
<1> QED BY <1>9, <1>10, <1>11, <1>12 DEF LinkInv

\* Every step keeps the link.
LEMMA NextLinkInv ==
  GovernInv /\ WalletInv /\ LinkInv /\ [GovernedStep]_governedState => LinkInv'
<1> SUFFICES ASSUME GovernInv, WalletInv, LinkInv, [GovernedStep]_governedState PROVE LinkInv'
  OBVIOUS
<1>1. ASSUME UNCHANGED now, NEW k \in WalletKeys, NEW proposal_type, NEW max_option,
             NEW ins \in Instructions, Propose(k, proposal_type, max_option, ins)
      PROVE  LinkInv'
  BY <1>1, ProposeKeepsLink DEF GovernInv
<1>2. ASSUME UNCHANGED now, NEW p \in Created, Queue(p)
      PROVE  LinkInv'
  BY <1>2, QueueMakesLink
<1>3. ASSUME NEW k, NEW x \in Transactions, Execute(k, x)
      PROVE  LinkInv'
  BY <1>3, ExecuteKeepsLink DEF GovernInv
<1>4. ASSUME GovernAlone
      PROVE  LinkInv'
  <2>1. /\ UNCHANGED queued_transactions /\ Created' = Created
        /\ \A p \in Created : ProposalKept(p)
    BY <1>4, GovernAloneKeeps DEF GovernInv
  <2>2. UNCHANGED <<transactions, approved_by, proposed>>
    BY <1>4 DEF GovernAlone, walletVars
  <2>3. \A x \in Transactions : TransactionKept(x)
    BY <2>2 DEF TransactionKept
  <2>4. proposed' \in [ProposalIds -> Instructions \cup {<<>>}]
    BY <2>2 DEF LinkInv
  <2> QED BY <2>1, <2>3, <2>4, LinksKept DEF GovernInv
<1>5. ASSUME UNCHANGED <<proposal_count, proposals, queued_transactions, proposed>>,
             \A x \in Transactions : TransactionKept(x)
      PROVE  LinkInv'
  <2>1. Created' = Created /\ \A p \in Created : ProposalKept(p)
    BY <1>5 DEF Created, ProposalKept
  <2>2. proposed' \in [ProposalIds -> Instructions \cup {<<>>}]
    BY <1>5 DEF LinkInv
  <2> QED BY <1>5, <2>1, <2>2, LinksKept DEF GovernInv
<1>6. ASSUME WalletAlone
      PROVE  LinkInv'
  <2>1. UNCHANGED <<proposal_count, proposals, queued_transactions, proposed>>
    BY <1>6 DEF WalletAlone, governVars
  <2> QED BY <1>5, <1>6, <2>1, WalletAloneKeeps
<1>7. ASSUME UNCHANGED <<governVars, walletVars, proposed>>
      PROVE  LinkInv'
  <2>1. /\ UNCHANGED <<proposal_count, proposals, queued_transactions, proposed>>
        /\ \A x \in Transactions : TransactionKept(x)
    BY <1>7 DEF governVars, walletVars, TransactionKept
  <2> QED BY <1>5, <2>1
<1>8. ASSUME UNCHANGED governedState PROVE UNCHANGED <<governVars, walletVars, proposed>>
  BY <1>8 DEF governedState
<1> QED BY <1>1, <1>2, <1>3, <1>4, <1>6, <1>7, <1>8 DEF GovernedStep, GovernedNext

\* create_governor and create_smart_wallet: nothing is proposed or queued.
LEMMA GovernedStarts == GovernedInit => GovernInv /\ WalletInv /\ LinkInv
<1> SUFFICES ASSUME GovernedInit PROVE GovernInv /\ WalletInv /\ LinkInv
  OBVIOUS
<1>1. GovernStart /\ WalletStart
  BY DEF GovernedInit, GovernStart, WalletStart
<1>2. Created = {} /\ \A x \in Transactions : queued_transactions[x] = EmptyTransaction
  BY <1>1 DEF GovernStart, GovernInit, Created
<1>3. GovernInv
  <2>1. QueueInv
    BY <1>2 DEF QueueInv, EmptyTransaction
  <2> QED BY <1>1, <2>1, GovernInitTyped, GovernInitTally
          DEF GovernStart, ClockInit, ClockRuns, GovernInv
<1>4. WalletInv
  BY <1>1, InitInv
<1>5. \A x \in Transactions : transactions[x].proposer # Governor
  <2>1. \A x \in Transactions : transactions[x] = ClosedTransaction
    BY <1>1, GovernedAssumption DEF WalletStart, WalletInit
  <2>2. ClosedTransaction.proposer # Governor
    BY GovernedAssumption, WalletAssumption DEF ClosedTransaction
  <2> QED BY <2>1, <2>2
<1>6. LinkInv
  BY <1>2, <1>5 DEF GovernedInit, LinkInv, EmptyTransaction
<1> QED BY <1>3, <1>4, <1>6

\* Together: the invariant of every behaviour of the two programs.
LEMMA GovernedAlwaysInv == GovernedSpec => [](GovernInv /\ WalletInv /\ LinkInv)
<1>1. GovernInv /\ WalletInv /\ LinkInv /\ [GovernedStep]_governedState => WalletInv'
  BY NextWalletInv DEF GovernInv, LinkInv
<1> QED BY <1>1, GovernedStarts, NextGovernInv, NextLinkInv, PTL DEF GovernedSpec

\* A proposal that is marked queued has its transaction in the wallet, as it was
\* proposed and with the governor's approval, and the governor has no other
\* transactions there, whatever the owners and the locker do.
THEOREM QueuedAlwaysHasTransaction == GovernedSpec => []QueuedHasTransaction
<1>1. GovernInv /\ WalletInv /\ LinkInv => QueuedHasTransaction
  <2> SUFFICES ASSUME GovernInv, WalletInv, LinkInv PROVE QueuedHasTransaction
    OBVIOUS
  <2>1. ASSUME NEW p \in Created, proposals[p].queued_at > 0
        PROVE  /\ transactions[proposals[p].queued_transaction].open
               /\ CarriesOut(proposals[p].queued_transaction, p)
    BY <2>1 DEF LinkInv
  <2>2. ASSUME NEW x \in Transactions, transactions[x].proposer = Governor
        PROVE  /\ Governor \in approved_by[x]
               /\ \E p \in Created :
                    /\ CarriesOut(x, p) /\ Passed(p)
                    /\ \A q \in Created : CarriesOut(x, q) => q = p
    <3>1. queued_transactions[x].open
      BY <2>2 DEF LinkInv
    <3>2. PICK p \in Created : queued_transactions[x].proposal = p /\ CarriedThrough(p)
      BY <3>1 DEF GovernInv, QueueInv
    <3>3. Governor \in approved_by[x] /\ CarriesOut(x, p)
      BY <3>1, <3>2 DEF LinkInv
    <3>4. Passed(p)
      BY <3>2, CarriedThroughPassed DEF GovernInv
    <3>5. ASSUME NEW q \in Created, CarriesOut(x, q) PROVE q = p
      <4>1. proposals[q].queued_at > 0 /\ proposals[q].queued_transaction = x
        BY <3>2, <3>3, <3>5 DEF CarriesOut, CarriedThrough
      <4>2. queued_transactions[x].proposal = q
        BY <4>1 DEF LinkInv
      <4> QED BY <3>2, <4>2
    <3> QED BY <3>3, <3>4, <3>5
  <2> QED BY <2>1, <2>2 DEF QueuedHasTransaction
<1> QED BY <1>1, GovernedAlwaysInv, PTL

-----------------------------------------------------------------------------
(* Execution *)

\* A transaction becomes executed only by execute_transaction.
LEMMA ExecutesExecutable ==
  ASSUME WalletInv, GovernedStep, NEW x \in Transactions, Executes(x)
  PROVE  Executable(x)
<1>0. /\ transactions \in [Transactions -> Transaction] /\ transactions[x] \in Transaction
      /\ now \in Nat /\ transactions[x].executed_at = -1 /\ transactions'[x].executed_at = now
      /\ transactions'[x].executed_at # -1
  BY GovernedAssumption DEF WalletInv, WalletTypeOK, Executes
<1>1. ASSUME NEW k, NEW ins, NEW eta, CreateTransaction(k, ins, eta) PROVE FALSE
  <2>1. num_transactions \in Transactions
    BY <1>1, GovernedAssumption, WalletAssumption
       DEF CreateTransaction, WalletInv, WalletTypeOK, Indices
  <2>2. x = num_transactions => transactions'[x].executed_at = -1
    BY <1>0, <1>1, <2>1 DEF CreateTransaction
  <2>3. x # num_transactions => transactions'[x] = transactions[x]
    BY <1>0, <1>1 DEF CreateTransaction
  <2> QED BY <1>0, <2>2, <2>3
<1>2. ASSUME NEW k, NEW y \in Transactions, Approve(k, y) \/ Unapprove(k, y) PROVE FALSE
  <2>1. PICK s : transactions' = [transactions EXCEPT ![y].signers = s]
    BY <1>2 DEF Approve, Unapprove
  <2> QED BY <1>0, <2>1 DEF Transaction
<1>3. ASSUME NEW y \in Transactions, RemoveTransaction(y) PROVE FALSE
  <2>1. transactions' = [transactions EXCEPT ![y] = ClosedTransaction]
    BY <1>3 DEF RemoveTransaction
  <2>2. ClosedTransaction.executed_at = -1
    BY DEF ClosedTransaction
  <2> QED BY <1>0, <2>1, <2>2
<1>4. ASSUME UNCHANGED walletVars PROVE FALSE
  BY <1>0, <1>4 DEF walletVars
<1>5. ASSUME NEW k, NEW y \in Transactions, Execute(k, y) PROVE Executable(x)
  <2>1. Executable(y) /\ transactions' = [transactions EXCEPT ![y].executed_at = now]
    BY <1>5 DEF Execute, ExecuteTransaction
  <2>2. x = y
    BY <1>0, <2>1
  <2> QED BY <2>1, <2>2
<1>6. \A k, t, m, ins : Propose(k, t, m, ins) => UNCHANGED walletVars
  BY DEF Propose
<1>7. ASSUME NEW p, Queue(p) PROVE FALSE
  BY <1>1, <1>7 DEF Queue
<1>8. ~ GovernAlone
  BY <1>4 DEF GovernAlone
<1>9. ~ WalletAlone
  BY <1>1, <1>2, <1>3 DEF WalletAlone
<1> QED BY <1>4, <1>5, <1>6, <1>7, <1>8, <1>9 DEF GovernedStep, GovernedNext

\* What runs in the governor's name is a proposal that was voted through, after
\* its voting and the wallet's delay.
LEMMA ExecutableWasVoted ==
  ASSUME GovernInv, WalletInv, LinkInv, NEW x \in Transactions, Executable(x),
         transactions[x].proposer = Governor
  PROVE  \E p \in Created :
           /\ CarriesOut(x, p)
           /\ State(proposals[p]) = "Queued" /\ Passed(p)
           /\ now >= proposals[p].voting_ends_at + minimum_delay
<1>1. queued_transactions[x].open
  BY DEF LinkInv
<1>2. PICK p \in Created : queued_transactions[x].proposal = p /\ CarriedThrough(p)
  BY <1>1 DEF GovernInv, QueueInv
<1>3. CarriesOut(x, p)
  BY <1>1, <1>2 DEF LinkInv
<1>4. State(proposals[p]) = "Queued" /\ Passed(p)
  BY <1>2, CarriedThroughIsQueued, CarriedThroughPassed DEF GovernInv
<1>5. now >= transactions[x].created_at + minimum_delay
  BY TransactionTyped, ExecutableAuthorized
<1>6. /\ proposals[p].voting_ends_at <= proposals[p].queued_at
      /\ transactions[x].created_at = proposals[p].queued_at
  BY <1>2, <1>3 DEF CarriedThrough, CarriesOut
<1>7. /\ proposals[p].voting_ends_at \in Nat /\ proposals[p].queued_at \in Nat
      /\ minimum_delay \in Nat /\ now \in Nat
  BY CreatedAreIds DEF GovernInv, Proposal, WalletInv, WalletTypeOK
<1>8. now >= proposals[p].voting_ends_at + minimum_delay
  BY <1>5, <1>6, <1>7
<1> QED BY <1>3, <1>4, <1>8

\* The governor's settings change by an execution and in no other way.
LEMMA SettingsChange ==
  ASSUME WalletInv, GovernedStep,
         <<governance_params, locker, voting_reward>>'
           # <<governance_params, locker, voting_reward>>
  PROVE  \E x \in Transactions : Executes(x)
<1> DEFINE Same == UNCHANGED <<governance_params, locker, voting_reward>>
<1>1. ASSUME NEW k, NEW x \in Transactions, Execute(k, x) PROVE Executes(x)
  <2>1. /\ transactions[x].executed_at = -1
        /\ transactions' = [transactions EXCEPT ![x].executed_at = now]
    BY <1>1 DEF Execute, ExecuteTransaction, Executable
  <2>2. transactions \in [Transactions -> Transaction] /\ transactions[x] \in Transaction
    BY GovernedAssumption DEF WalletInv, WalletTypeOK
  <2> QED BY <2>1, <2>2 DEF Executes, Transaction
<1>2. \A k, t, m, ins : Propose(k, t, m, ins) => Same
  BY DEF Propose, CreateProposal
<1>3. \A p : Queue(p) => Same
  BY DEF Queue, QueueProposal
<1>4. GovernAlone => Same
  <2>1. \A p : CancelProposal(p) => Same
    BY DEF CancelProposal, OnlyProposals
  <2>2. \A p, v : NewVote(p, v) => Same
    BY DEF NewVote
  <2>3. \A l, p : ActivateProposal(l, p) => Same
    BY DEF ActivateProposal, OnlyProposals
  <2>4. \A l, p, v, side, power : SetVote(l, p, v, side, power) => Same
    BY DEF SetVote
  <2> HIDE DEF Same
  <2> QED BY <2>1, <2>2, <2>3, <2>4 DEF GovernAlone, LockerSigned
<1>5. WalletAlone => Same
  BY DEF WalletAlone, governVars
<1>6. UNCHANGED governVars => Same
  BY DEF governVars
<1>7. ~ Same
  OBVIOUS
<1> HIDE DEF Same
<1> QED BY <1>1, <1>2, <1>3, <1>4, <1>5, <1>6, <1>7 DEF GovernedStep, GovernedNext

\* Whatever the owners, the locker and the proposers do, the wallet acts for the
\* governor only as was voted, and nothing else changes the governor's settings.
THEOREM AlwaysActsAsVoted == GovernedSpec => ActsAsVoted
<1> DEFINE AsVoted ==
      /\ \A x \in Transactions : Executes(x) =>
           /\ Cardinality({k \in approved_by[x] : IsOwner(k)}) >= threshold
           /\ transactions[x].owner_set_seqno = owner_set_seqno
           /\ transactions[x].proposer = Governor =>
                \E p \in Created :
                  /\ CarriesOut(x, p)
                  /\ State(proposals[p]) = "Queued" /\ Passed(p)
                  /\ now >= proposals[p].voting_ends_at + minimum_delay
      /\ <<governance_params, locker, voting_reward>>' # <<governance_params, locker, voting_reward>>
         => \E x \in Transactions : Executes(x)
<1>1. GovernInv /\ WalletInv /\ LinkInv /\ [GovernedStep]_governedState
        => [AsVoted]_governedState
  <2> SUFFICES ASSUME GovernInv, WalletInv, LinkInv, GovernedStep PROVE AsVoted
    OBVIOUS
  <2>1. ASSUME NEW x \in Transactions, Executes(x)
        PROVE  /\ Cardinality({k \in approved_by[x] : IsOwner(k)}) >= threshold
               /\ transactions[x].owner_set_seqno = owner_set_seqno
               /\ transactions[x].proposer = Governor =>
                    \E p \in Created :
                      /\ CarriesOut(x, p)
                      /\ State(proposals[p]) = "Queued" /\ Passed(p)
                      /\ now >= proposals[p].voting_ends_at + minimum_delay
    <3>1. Executable(x) /\ x \in Indices
      BY <2>1, ExecutesExecutable, GovernedAssumption
    <3> QED BY <3>1, ExecutableAuthorized, ExecutableWasVoted
  <2> QED BY <2>1, SettingsChange
<1>2. GovernedSpec => [][AsVoted]_governedState
  <2> HIDE DEF AsVoted
  <2> QED BY <1>1, GovernedAlwaysInv, PTL DEF GovernedSpec
<1> QED BY <1>2 DEF ActsAsVoted

-----------------------------------------------------------------------------
(* Queueing *)

\* The eta that queue_proposal asks the wallet for.
QueueEta == IF governance_params.timelock_delay_seconds = 0 THEN NO_ETA
            ELSE now + governance_params.timelock_delay_seconds

\* All that queue_proposal asks of the state, in both programs.
QueueGuards(p) ==
  /\ num_transactions \in Transactions /\ num_transactions < MaxTransactions
  /\ State(proposals[p]) = "Succeeded"
  /\ ~ queued_transactions[num_transactions].open
  /\ IsOwner(Governor)
  /\ EtaAllowed(QueueEta)

\* All that it does: one value for every variable.
QueueEffects(p) ==
  /\ queued_transactions' = [queued_transactions EXCEPT ![num_transactions] =
                               [open |-> TRUE, proposal |-> p, eta |-> QueueEta]]
  /\ proposals' = [proposals EXCEPT ![p].queued_at = now,
                                    ![p].queued_transaction = num_transactions]
  /\ transactions' = [transactions EXCEPT ![num_transactions] =
       [open |-> TRUE, proposer |-> Governor, instructions |-> proposed[p],
        signers |-> Flag([i \in DOMAIN owners |-> FALSE], Governor, TRUE),
        owner_set_seqno |-> owner_set_seqno, eta |-> QueueEta, executed_at |-> -1,
        created_at |-> now]]
  /\ approved_by' = [approved_by EXCEPT ![num_transactions] = {Governor}]
  /\ num_transactions' = num_transactions + 1
  /\ UNCHANGED <<proposal_count, locker, governance_params, voting_reward, votes,
                 reward_vaults, rewards_received, reward_funds, proposed,
                 owners, threshold, minimum_delay, owner_set_seqno>>

\* queue_proposal is these guards and effects: where the guards hold it succeeds.
LEMMA QueueIsGuarded ==
  ASSUME GovernTypeOK, NEW p
  PROVE  Queue(p) <=> QueueGuards(p) /\ QueueEffects(p)
<1> DEFINE new == [open |-> TRUE, proposal |-> p, eta |-> QueueEta]
<1>0. new.eta = QueueEta
  OBVIOUS
<1> HIDE DEF new
<1>1. ASSUME num_transactions \in Transactions,
             queued_transactions' = [queued_transactions EXCEPT ![num_transactions] = new]
      PROVE  queued_transactions'[num_transactions].eta = QueueEta
  <2>1. queued_transactions'[num_transactions] = new
    BY <1>1 DEF GovernTypeOK
  <2> QED BY <1>0, <2>1
<1>2. ASSUME Queue(p) PROVE QueueGuards(p) /\ QueueEffects(p)
  <2>1. /\ num_transactions \in Transactions /\ QueueProposal(p, num_transactions)
        /\ CreateTransaction(Governor, proposed[p], queued_transactions'[num_transactions].eta)
        /\ UNCHANGED proposed
    BY <1>2 DEF Queue
  <2>2. queued_transactions' = [queued_transactions EXCEPT ![num_transactions] = new]
    BY <2>1 DEF QueueProposal, new, QueueEta, NO_ETA
  <2>3. queued_transactions'[num_transactions].eta = QueueEta
    BY <1>1, <2>1, <2>2
  <2>4. CreateTransaction(Governor, proposed[p], QueueEta)
    BY <2>1, <2>3
  <2>5. QueueGuards(p)
    BY <2>1, <2>4 DEF QueueGuards, QueueProposal, CreateTransaction
  <2>6. QueueEffects(p)
    BY <2>1, <2>2, <2>4 DEF QueueEffects, QueueProposal, CreateTransaction, new
  <2> QED BY <2>5, <2>6
<1>3. ASSUME QueueGuards(p), QueueEffects(p) PROVE Queue(p)
  <2>1. num_transactions \in Transactions
    BY <1>3 DEF QueueGuards
  <2>2. queued_transactions' = [queued_transactions EXCEPT ![num_transactions] = new]
    BY <1>3 DEF QueueEffects, new
  <2>3. queued_transactions'[num_transactions].eta = QueueEta
    BY <1>1, <2>1, <2>2
  <2>4. CreateTransaction(Governor, proposed[p], QueueEta)
    BY <1>3 DEF QueueGuards, QueueEffects, CreateTransaction
  <2>5. QueueProposal(p, num_transactions)
    BY <1>3 DEF QueueGuards, QueueEffects, QueueProposal, QueueEta, NO_ETA
  <2>6. UNCHANGED proposed
    BY <1>3 DEF QueueEffects
  <2> QED BY <2>1, <2>3, <2>4, <2>5, <2>6 DEF Queue
<1> QED BY <1>2, <1>3

\* What was voted through is not refused: while the timelock fits the wallet's
\* delays, the governor is an owner and the wallet has an index left, every check
\* of queue_proposal and of the wallet's create_transaction passes for a proposal
\* that has succeeded (PassedCanBeQueued says this with ENABLED).
THEOREM SucceededPassesChecks ==
  GovernedSpec => [](TimelockFits /\ IsOwner(Governor) /\ num_transactions < MaxTransactions =>
                       \A p \in Created : State(proposals[p]) = "Succeeded" => QueueGuards(p))
<1>1. GovernInv /\ WalletInv /\ LinkInv =>
        (TimelockFits /\ IsOwner(Governor) /\ num_transactions < MaxTransactions =>
           \A p \in Created : State(proposals[p]) = "Succeeded" => QueueGuards(p))
  <2> SUFFICES ASSUME GovernInv, WalletInv, LinkInv, TimelockFits, IsOwner(Governor),
                      num_transactions < MaxTransactions,
                      NEW p \in Created, State(proposals[p]) = "Succeeded"
               PROVE  QueueGuards(p)
    OBVIOUS
  <2>1. num_transactions \in Transactions
    BY GovernedAssumption, WalletAssumption DEF WalletInv, WalletTypeOK, Indices
  <2>2. ~ queued_transactions[num_transactions].open
    <3>1. transactions[num_transactions] = ClosedTransaction
      BY <2>1, GovernedAssumption, WalletAssumption DEF WalletInv, WalletTypeOK, AccountsInv
    <3>2. ~ transactions[num_transactions].open
      BY <3>1 DEF ClosedTransaction
    <3> QED BY <2>1, <3>2 DEF LinkInv
  <2>3. EtaAllowed(QueueEta)
    <3> DEFINE d == governance_params.timelock_delay_seconds
    <3>1. d \in Int /\ now \in Nat /\ minimum_delay \in Nat /\ MAX_DELAY_SECONDS \in Nat
      BY GovernAssumption, WalletAssumption
         DEF GovernInv, GovernTypeOK, GovernanceParameters, WalletInv, WalletTypeOK
    <3>2. \/ d = 0 /\ minimum_delay = 0
          \/ d > 0 /\ d >= minimum_delay /\ d <= MAX_DELAY_SECONDS
      BY <3>1 DEF TimelockFits
    <3>3. QueueEta = IF d = 0 THEN NO_ETA ELSE now + d
      BY DEF QueueEta
    <3> HIDE DEF d
    <3> QED BY <3>1, <3>2, <3>3 DEF EtaAllowed, NO_ETA
  <2> QED BY <2>1, <2>2, <2>3 DEF QueueGuards
<1> QED BY <1>1, GovernedAlwaysInv, PTL

-----------------------------------------------------------------------------
(* What either program promises by itself *)

\* What each program keeps by itself it keeps with the other, although the
\* wallet's executions now change the governor's settings and the governor's
\* queueing the wallet's transactions: the tallies are the sums of the votes,
\* only proposals that passed are queued, and the flags of a transaction are
\* its approvals by the present owners.
THEOREM ProgramsKeepTheirBooks ==
  GovernedSpec => [](TallyAccounted /\ QueuedProposalsPassed /\ SignersAreApprovers)
<1>1. GovernInv /\ WalletInv => TallyAccounted /\ QueuedProposalsPassed /\ SignersAreApprovers
  BY QueuedPassed, FlagsAreApprovals DEF GovernInv, TallyInv
<1> QED BY <1>1, GovernedAlwaysInv, PTL

-----------------------------------------------------------------------------
(* Each program does in the DAO what it does alone *)

\* For the governor the wallet is one of the open world.
LEMMA GovernedIsOfOpenWorld == GovernedSpec => OpenWorldSpec
<1>1. GovernedInit => GovernStart
  BY DEF GovernedInit, GovernStart
<1>2. GovernInv /\ WalletInv /\ LinkInv /\ [GovernedStep]_governedState
        => [OpenWorldStep]_governState
  BY GovernedStepsGovern DEF GovernInv
<1> QED BY <1>1, <1>2, GovernedAlwaysInv, PTL DEF GovernedSpec, OpenWorldSpec

\* For the wallet the governor is one of its owners, with etas of its own.
LEMMA GovernedIsOfWallet == GovernedSpec => AnyEtaSpec
<1>1. GovernedInit => WalletStart
  BY DEF GovernedInit, WalletStart
<1>2. GovernInv /\ WalletInv /\ LinkInv /\ [GovernedStep]_governedState
        => [AnyEtaStep]_walletState
  BY GovernedStepsWallet DEF GovernInv, LinkInv
<1> QED BY <1>1, <1>2, GovernedAlwaysInv, PTL DEF GovernedSpec, AnyEtaSpec

\* What a vote decided stays decided, also when what it decided is carried out
\* and changes the governor's parameters, its locker, its rewards or the owners
\* of the wallet: every proposal still goes the way of a ballot.
THEOREM OutcomeFinalWhenGoverned == GovernedSpec => OutcomeIsFinal /\ ImplementsBallot
BY GovernedIsOfOpenWorld, OutcomeIsAlwaysFinal, GovernImplementsBallot, PTL

\* And a wallet that a governor is an owner of is still a multisig: the governor
\* is one member, and what it proposes is decided by enough of them, once.
THEOREM GovernedWalletIsMultisig ==
  GovernedSpec => /\ ExecutionIsAuthorized /\ ExecutedOnce /\ ThresholdStaysBelowOwners
                  /\ ImplementsMultisig
BY GovernedIsOfWallet, ExecutionAlwaysAuthorized, AlwaysExecutedOnce,
   ThresholdAlwaysBelowOwners, WalletImplementsMultisig, PTL
=============================================================================
