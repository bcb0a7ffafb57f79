---------------------------- MODULE Subaccounts ----------------------------
(***************************************************************************)
(* The addresses derived from a smart wallet.  smart-wallet signs for a    *)
(* Derived one in execute_transaction_derived, with the approvals of the   *)
(* wallet, and for an OwnerInvoker one in owner_invoke_instruction, for    *)
(* any single owner.  create_subaccount_info, open to everyone, records    *)
(* for an address which of the two it is.                                  *)
(*                                                                         *)
(* An address is the kind, index and bump seed it is derived from: seeds   *)
(* that differ give different addresses.  find_program_address only looks  *)
(* for the canonical bump, and the signing instructions take any.          *)
(***************************************************************************)
EXTENDS SmartWallet

CONSTANTS
  SubaccountIndices,  \* indices of subaccounts
  Bumps,              \* bump seeds that give an address
  CanonicalBump       \* the one find_program_address returns

SubaccountTypes == {"Derived", "OwnerInvoker"}
Addresses == [type : SubaccountTypes, index : SubaccountIndices, bump : Bumps]

Address(type, index, bump) == [type |-> type, index |-> index, bump |-> bump]

\* Pubkey::find_program_address
FindAddress(type, index) == Address(type, index, CanonicalBump)

VARIABLES
  subaccount_info,    \* the SubaccountInfo account of each address
  acted               \* the addresses signed for, each with who asked for it:
                      \* an owner's key, or ByTransaction

subaccountState == <<walletState, subaccount_info, acted>>

ByTransaction == "transaction"

ASSUME SubaccountAssumption ==
  /\ CanonicalBump \in Bumps
  /\ ByTransaction \notin WalletKeys

\* SubaccountInfo; its smart_wallet is the one these addresses derive from.
NoInfo == [open |-> FALSE, type |-> "Derived", index |-> 0]

\* An instruction of a transaction that needs the signature of address a.
SignedAs(a) == [op |-> "signed_as", address |-> a]

Signers(x) ==
  LET ixs == transactions[x].instructions
  IN  {ixs[i].address : i \in {j \in DOMAIN ixs : ixs[j].op = "signed_as"}}

-----------------------------------------------------------------------------
SubaccountInit ==
  /\ WalletStart
  /\ subaccount_info = [a \in Addresses |-> NoInfo]
  /\ acted = {}

\* execute_transaction signs for the wallet alone: an instruction that needs
\* another signature fails.
ExecuteAsWallet(x) ==
  /\ Signers(x) = {}
  /\ ExecuteTransaction(x)
  /\ UNCHANGED <<subaccount_info, acted>>

\* execute_transaction_derived that forgot that a transaction runs once.
ExecuteDerivedAgain(x, index, bump) ==
  LET a == Address("Derived", index, bump) IN
  /\ ExecutableAgain(x)
  /\ Signers(x) \subseteq {a}
  /\ \A i \in DOMAIN transactions[x].instructions : transactions[x].instructions[i].op = "signed_as"
  /\ transactions' = [transactions EXCEPT ![x].executed_at = now]
  /\ acted' = acted \cup {[address |-> s, by |-> ByTransaction] : s \in Signers(x)}
  /\ UNCHANGED <<owners, threshold, minimum_delay, owner_set_seqno, num_transactions,
                 approved_by, subaccount_info>>

\* execute_transaction_derived: the same conditions, and the signature of the
\* derived address in place of the wallet's, which set_owners and
\* change_threshold would need.
ExecuteTransactionDerived(x, index, bump) ==
  LET a == Address("Derived", index, bump) IN
  /\ Executable(x)
  /\ owners # <<>>
  /\ Signers(x) \subseteq {a}
  /\ \A i \in DOMAIN transactions[x].instructions : transactions[x].instructions[i].op = "signed_as"
  /\ transactions' = [transactions EXCEPT ![x].executed_at = now]
  /\ acted' = acted \cup {[address |-> s, by |-> ByTransaction] : s \in Signers(x)}
  /\ UNCHANGED <<owners, threshold, minimum_delay, owner_set_seqno, num_transactions,
                 approved_by, subaccount_info>>

\* owner_invoke_instruction that does not look for the owner.
InvokeByAnyone(k, index, bump) ==
  /\ acted' = acted \cup {[address |-> Address("OwnerInvoker", index, bump), by |-> k]}
  /\ UNCHANGED <<walletVars, subaccount_info>>

\* owner_invoke_instruction and its v2, which marks another key as a signer
\* too: the runtime accepts that only for the address the seeds give.
OwnerInvoke(k, index, bump) ==
  /\ IsOwner(k)
  /\ acted' = acted \cup {[address |-> Address("OwnerInvoker", index, bump), by |-> k]}
  /\ UNCHANGED <<walletVars, subaccount_info>>

\* create_subaccount_info that believes the address it is given.
CreateUnchecked(a, type, index) ==
  /\ ~ subaccount_info[a].open
  /\ subaccount_info' = [subaccount_info EXCEPT ![a] =
       [open |-> TRUE, type |-> type, index |-> index]]
  /\ UNCHANGED <<walletVars, acted>>

CreateSubaccountInfo(a, type, index) ==
  /\ ~ subaccount_info[a].open
  /\ a = FindAddress(type, index)
  /\ subaccount_info' = [subaccount_info EXCEPT ![a] =
       [open |-> TRUE, type |-> type, index |-> index]]
  /\ UNCHANGED <<walletVars, acted>>

SubaccountNext ==
  \/ /\ \/ \E k \in WalletKeys, instructions \in Instructions, eta \in Etas \cup {NO_ETA} :
             CreateTransaction(k, instructions, eta)
        \/ \E x \in Indices :
             \/ \E k \in WalletKeys : Approve(k, x) \/ Unapprove(k, x)
             \/ RemoveTransaction(x)
     /\ UNCHANGED <<subaccount_info, acted>>
  \/ \E x \in Indices : ExecuteAsWallet(x)
  \/ \E index \in SubaccountIndices, bump \in Bumps :
       \/ \E x \in Indices : ExecuteTransactionDerived(x, index, bump)
       \/ \E k \in WalletKeys : OwnerInvoke(k, index, bump)
  \/ \E a \in Addresses, type \in SubaccountTypes, index \in SubaccountIndices :
       CreateSubaccountInfo(a, type, index)

SubaccountStep ==
  \/ SubaccountNext /\ UNCHANGED now
  \/ Tick /\ UNCHANGED <<walletVars, subaccount_info, acted>>

SubaccountSpec == SubaccountInit /\ [][SubaccountStep]_subaccountState

-----------------------------------------------------------------------------
(* What a subaccount's record promises *)

\* Derived: "Requires the normal multisig approval process"; OwnerInvoker:
\* "Any owner may sign".  Whoever recorded an address, and whether before or
\* after it was used, its record says how it was and will be signed for.
InfoTellsWhoSigns ==
  \A act \in acted : subaccount_info[act.address].open =>
    (subaccount_info[act.address].type = "Derived") = (act.by = ByTransaction)

\* An address is signed for only by a transaction that threshold different
\* present owners approved and that runs for the first time, or by a key that
\* is an owner at that moment.
ActsAreAuthorized ==
  [][\A act \in acted' \ acted :
       IF act.by = ByTransaction
       THEN \E x \in Indices :
              /\ transactions[x].executed_at = -1 /\ transactions'[x].executed_at = now
              /\ act.address \in Signers(x)
              /\ Cardinality({k \in approved_by[x] : IsOwner(k)}) >= threshold
       ELSE IsOwner(act.by)]_subaccountState

\* To the wallet a derived execution is an execution: every step is one of
\* the wallet's or leaves it alone, so whatever SmartWallet guarantees holds
\* with subaccounts too.
ImplementsSmartWallet == WalletSpec
=============================================================================
