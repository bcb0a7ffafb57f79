---------------------------- MODULE SmartWallet ----------------------------
(***************************************************************************)
(* The smart-wallet program: one SmartWallet and its Transaction accounts. *)
(* set_owners and change_threshold must be signed by the wallet itself,    *)
(* so they happen only inside execute_transaction, as instructions of the  *)
(* executed transaction; those for other programs leave the wallet alone.  *)
(* GovernedWallet adds the calls of the governor, and Subaccounts the      *)
(* addresses derived from the wallet that its owners may sign with.        *)
(***************************************************************************)
EXTENDS Integers, FiniteSets, SequencesExt, SolanaClock

CONSTANTS
  WalletKeys,        \* keys that may be owners
  NoKey,             \* what a closed account holds
  InitialOwners,     \* the sequences create_smart_wallet is called with
  Thresholds,        \* the thresholds it is called with
  MinimumDelays,     \* the minimum delays it is called with
  Instructions,      \* what transactions may do to the wallet: sequences of
                     \* ChangeThreshold and SetOwners records
  Etas,              \* the etas create_transaction_with_timelock is called with
  MaxOwners,         \* SmartWallet::max_owners
  MaxTransactions,   \* bound: how many transactions are created
  DEFAULT_GRACE_PERIOD,
  MAX_DELAY_SECONDS

NO_ETA == -1
SetOwnersTo(s) == [op |-> "set_owners", owners |-> s]
ChangeThresholdTo(n) == [op |-> "change_threshold", threshold |-> n]

\* Instructions as the wallet reads them: set_owners takes keys, and
\* change_threshold a number.
WellFormed(s) ==
  /\ s \in Seq(Range(s))
  /\ \A i \in DOMAIN s : s[i].op = "set_owners" => s[i].owners \in Seq(WalletKeys)
  /\ \A i \in DOMAIN s : s[i].op = "change_threshold" => s[i].threshold \in Nat

ASSUME WalletAssumption ==
  /\ NoKey \notin WalletKeys
  /\ InitialOwners \subseteq Seq(WalletKeys)
  /\ Thresholds \subseteq Nat
  /\ MinimumDelays \subseteq Nat
  /\ \A s \in Instructions : WellFormed(s)
  /\ Etas \subseteq Nat
  /\ MaxOwners \in Nat /\ MaxTransactions \in Nat
  /\ DEFAULT_GRACE_PERIOD \in Nat /\ MAX_DELAY_SECONDS \in Nat

VARIABLES
  owners,            \* SmartWallet::owners
  threshold,         \* SmartWallet::threshold
  minimum_delay,     \* SmartWallet::minimum_delay
  owner_set_seqno,   \* SmartWallet::owner_set_seqno
  num_transactions,  \* SmartWallet::num_transactions
  transactions,      \* the Transaction account of each index
  approved_by        \* for each transaction, the keys whose last event was an
                     \* approval (the creation approves for the proposer)

walletVars == <<owners, threshold, minimum_delay, owner_set_seqno, num_transactions,
                transactions, approved_by>>
walletState == <<now, walletVars>>

-----------------------------------------------------------------------------
Indices == 0..(MaxTransactions - 1)

ClosedTransaction == [open |-> FALSE, proposer |-> NoKey, instructions |-> <<>>, signers |-> <<>>,
                      owner_set_seqno |-> 0, eta |-> NO_ETA, executed_at |-> -1,
                      created_at |-> 0]

IsOwner(k) == \E i \in DOMAIN owners : owners[i] = k

\* SmartWallet::owner_index: the first position of k.
OwnerIndex(k) ==
  CHOOSE i \in DOMAIN owners : owners[i] = k /\ \A j \in 1..(i - 1) : owners[j] # k

NumSigners(x) == Cardinality({i \in DOMAIN x.signers : x.signers[i]})

\* The signers vector with the flag of owner k set to b; a mutant flags every
\* position of a key that is listed twice.
FlagEverywhere(signers, k, b) ==
  [i \in DOMAIN signers |-> IF owners[i] = k THEN b ELSE signers[i]]
Flag(signers, k, b) == [signers EXCEPT ![OwnerIndex(k)] = b]

\* The wallet w = [owners, threshold, owner_set_seqno, ok] after one
\* instruction; ok is FALSE when it fails, and the transaction with it.
SameSeqno(w, s) ==
  [owners |-> s, owner_set_seqno |-> w.owner_set_seqno,
   threshold |-> IF Len(s) <= w.threshold THEN Len(s) - 1 ELSE w.threshold,
   ok |-> w.ok /\ s # <<>>]
KeepThreshold(w, s) ==
  [owners |-> s, owner_set_seqno |-> w.owner_set_seqno + 1,
   threshold |-> w.threshold, ok |-> w.ok /\ s # <<>>]
SetOwners(w, s) ==
  [owners |-> s, owner_set_seqno |-> w.owner_set_seqno + 1,
   threshold |-> IF Len(s) <= w.threshold THEN Len(s) - 1 ELSE w.threshold,
   ok |-> w.ok /\ s # <<>> /\ Len(s) <= MaxOwners]

ChangeThreshold(w, n) == [w EXCEPT !.threshold = n, !.ok = @ /\ n < Len(w.owners)]

\* An instruction for another program leaves the wallet alone.
Invoke(w, ix) ==
  CASE ix.op = "set_owners" -> SetOwners(w, ix.owners)
    [] ix.op = "change_threshold" -> ChangeThreshold(w, ix.threshold)
    [] OTHER -> w

InvokeAll(instructions) ==
  FoldLeft(Invoke, [owners |-> owners, threshold |-> threshold,
                    owner_set_seqno |-> owner_set_seqno, ok |-> TRUE], instructions)

-----------------------------------------------------------------------------
\* The state create_smart_wallet leaves behind: it does not look at the
\* threshold.
WalletInit ==
  /\ owners \in {s \in InitialOwners : Len(s) <= MaxOwners}
  /\ threshold \in Thresholds
  /\ minimum_delay \in {d \in MinimumDelays : d < MAX_DELAY_SECONDS}
  /\ owner_set_seqno = 0
  /\ num_transactions = 0
  /\ transactions = [x \in Indices |-> ClosedTransaction]
  /\ approved_by = [x \in Indices |-> {}]

\* Neither too soon nor too late; in EtaPastDelay the minimum itself is too soon.
EtaPastDelay(eta) ==
  /\ minimum_delay # 0 => eta > now + minimum_delay
  /\ eta # NO_ETA => eta >= now /\ eta - now <= MAX_DELAY_SECONDS
EtaAllowed(eta) ==
  /\ minimum_delay # 0 => eta >= now + minimum_delay
  /\ eta # NO_ETA => eta >= now /\ eta - now <= MAX_DELAY_SECONDS

\* create_transaction (eta = NO_ETA) and create_transaction_with_timelock.
CreateTransaction(proposer, instructions, eta) ==
  /\ num_transactions < MaxTransactions
  /\ IsOwner(proposer)
  /\ EtaAllowed(eta)
  /\ transactions' = [transactions EXCEPT ![num_transactions] =
       [open |-> TRUE, proposer |-> proposer, instructions |-> instructions,
        signers |-> Flag([i \in DOMAIN owners |-> FALSE], proposer, TRUE),
        owner_set_seqno |-> owner_set_seqno, eta |-> eta, executed_at |-> -1,
        created_at |-> now]]
  /\ approved_by' = [approved_by EXCEPT ![num_transactions] = {proposer}]
  /\ num_transactions' = num_transactions + 1
  /\ UNCHANGED <<owners, threshold, minimum_delay, owner_set_seqno>>

\* Approve::validate: the owner set is the one the transaction was created under.
SameOwnerSet(x) == transactions[x].open /\ transactions[x].owner_set_seqno = owner_set_seqno

Approve(k, x) ==
  /\ SameOwnerSet(x)
  /\ IsOwner(k)
  /\ transactions' = [transactions EXCEPT ![x].signers = Flag(@, k, TRUE)]
  /\ approved_by' = [approved_by EXCEPT ![x] = @ \cup {k}]
  /\ UNCHANGED <<owners, threshold, minimum_delay, owner_set_seqno, num_transactions>>

Unapprove(k, x) ==
  /\ SameOwnerSet(x)
  /\ IsOwner(k)
  /\ transactions' = [transactions EXCEPT ![x].signers = Flag(@, k, FALSE)]
  /\ approved_by' = [approved_by EXCEPT ![x] = @ \ {k}]
  /\ UNCHANGED <<owners, threshold, minimum_delay, owner_set_seqno, num_transactions>>

\* ExecuteTransaction::validate; two mutants forgot that it may run only once,
\* and only under the owners it was created under.
ExecutableUnderAnyOwners(x) ==
  /\ transactions[x].open
  /\ transactions[x].executed_at = -1
  /\ now >= transactions[x].eta
  /\ NumSigners(transactions[x]) >= threshold
ExecutableAgain(x) ==
  /\ SameOwnerSet(x)
  /\ now >= transactions[x].eta
  /\ NumSigners(transactions[x]) >= threshold
Executable(x) ==
  /\ SameOwnerSet(x)
  /\ transactions[x].executed_at = -1
  /\ now >= transactions[x].eta
  /\ transactions[x].eta # NO_ETA => now <= transactions[x].eta + DEFAULT_GRACE_PERIOD
  /\ NumSigners(transactions[x]) >= threshold

\* Signed by any owner.
ExecuteTransaction(x) ==
  LET w == InvokeAll(transactions[x].instructions) IN
  /\ Executable(x)
  /\ owners # <<>>
  /\ w.ok
  /\ owners' = w.owners
  /\ threshold' = w.threshold
  /\ owner_set_seqno' = w.owner_set_seqno
  /\ transactions' = [transactions EXCEPT ![x].executed_at = now]
  /\ UNCHANGED <<minimum_delay, num_transactions, approved_by>>

\* Signed by the proposer, who need not be an owner any more.
RemoveTransaction(x) ==
  /\ transactions[x].open
  /\ NumSigners(transactions[x]) = 0
  /\ transactions' = [transactions EXCEPT ![x] = ClosedTransaction]
  /\ approved_by' = [approved_by EXCEPT ![x] = {}]
  /\ UNCHANGED <<owners, threshold, minimum_delay, owner_set_seqno, num_transactions>>

WalletNext ==
  \/ \E k \in WalletKeys, instructions \in Instructions, eta \in Etas \cup {NO_ETA} :
       CreateTransaction(k, instructions, eta)
  \/ \E x \in Indices :
       \/ \E k \in WalletKeys : Approve(k, x) \/ Unapprove(k, x)
       \/ ExecuteTransaction(x)
       \/ RemoveTransaction(x)

WalletStart == ClockInit /\ WalletInit

WalletStep ==
  \/ WalletNext /\ UNCHANGED now
  \/ Tick /\ UNCHANGED walletVars

WalletSpec == WalletStart /\ [][WalletStep]_walletState

-----------------------------------------------------------------------------
(* What the wallet owes its owners *)

Transaction == [open : BOOLEAN, proposer : WalletKeys \cup {NoKey},
                instructions : Instructions \cup {<<>>}, signers : Seq(BOOLEAN), owner_set_seqno : Nat, eta : Nat \cup {NO_ETA},
                executed_at : Nat \cup {-1}, created_at : Nat]

\* Every account holds values of its Rust type; the owners fit in the
\* account's space, and a transaction of the current owner set has one flag
\* for each of them (approve indexes signers by the owner's position).
WalletTypeOK ==
  /\ owners \in Seq(WalletKeys) /\ Len(owners) <= MaxOwners
  /\ threshold \in Nat
  /\ minimum_delay \in Nat
  /\ owner_set_seqno \in Nat
  /\ num_transactions \in 0..MaxTransactions
  /\ transactions \in [Indices -> Transaction]
  /\ approved_by \in [Indices -> SUBSET WalletKeys]
  /\ \A x \in Indices : SameOwnerSet(x) => Len(transactions[x].signers) = Len(owners)

\* "signers[index] is true iff owners[index] signed the transaction": while
\* the owner set is the one of its creation, the flags of a transaction are
\* the approvals of today's owners, each counted once even if a key is listed
\* twice; no approval is credited to whoever took a former owner's place.
SignersAreApprovers ==
  \A x \in Indices : SameOwnerSet(x) =>
    LET signed == {i \in DOMAIN owners : transactions[x].signers[i]} IN
    /\ {owners[i] : i \in signed} = approved_by[x]
    /\ NumSigners(transactions[x]) = Cardinality(approved_by[x])

\* A transaction is executed only by an owner set that is the one it was
\* created under, with the approval of at least threshold different owners,
\* and no sooner than minimum_delay after it was created.
ExecutionIsAuthorized ==
  [][\A x \in Indices :
       transactions'[x].executed_at # transactions[x].executed_at /\ transactions'[x].open =>
         /\ transactions[x].owner_set_seqno = owner_set_seqno
         /\ Cardinality({k \in approved_by[x] : IsOwner(k)}) >= threshold
         /\ now >= transactions[x].created_at + minimum_delay]_walletState

\* "Burn the transaction to ensure one time use": what was executed is never
\* executed again, also when its account is approved, unapproved or removed,
\* and the address of a removed transaction is never used again.
ExecutedOnce ==
  [][\A x \in Indices :
       /\ transactions[x].executed_at # -1 =>
            transactions'[x].executed_at = transactions[x].executed_at \/ ~ transactions'[x].open
       /\ x < num_transactions /\ ~ transactions[x].open => ~ transactions'[x].open
       /\ num_transactions' >= num_transactions]_walletState

\* "one owner is governor, so threshold must be less than owners.len()": a
\* wallet with fewer signatures required than owners never loses that,
\* whatever owners and thresholds are set.
ThresholdStaysBelowOwners ==
  [][threshold < Len(owners) => threshold' < Len(owners')]_walletState

\* "Minimum delay between approval and execution": a transaction that has
\* just got the last approval it needs cannot be executed at once.
DelayFollowsApproval ==
  [][\A x \in Indices :
       minimum_delay > 0 /\ SameOwnerSet(x) /\ NumSigners(transactions[x]) < threshold
       => ~ Executable(x)']_walletState
=============================================================================
