----------------------- MODULE SmartWalletRefinement -----------------------
(***************************************************************************)
(* A smart wallet is a multisig.  Members are the owners as a set, however *)
(* often and in whatever order they are listed; a transaction's agreement  *)
(* is read off its signers flags by the owners' positions, and counts only *)
(* while owner_set_seqno is the one of its creation.                       *)
(***************************************************************************)
EXTENDS SmartWallet

\* What the account of transaction x says, if anything is left of it.
DecisionOf(x) ==
  LET t == transactions[x] IN
  [status |-> IF t.open THEN (IF t.executed_at = -1 THEN "proposed" ELSE "made")
              ELSE IF x < num_transactions THEN "dropped" ELSE "unused",
   live   |-> SameOwnerSet(x),
   agree  |-> IF SameOwnerSet(x)
              THEN {owners[i] : i \in {j \in DOMAIN owners : t.signers[j]}} ELSE {}]

Abstract == INSTANCE Multisig WITH
  Keys        <- WalletKeys,
  DecisionIds <- Indices,
  members     <- {owners[i] : i \in DOMAIN owners},
  quorum      <- threshold,
  decisions   <- [x \in Indices |-> DecisionOf(x)]

\* Counting flags by position is counting members who agree: the wallet makes
\* every decision once, with the agreement of enough different members of the
\* membership it was proposed under, and no agreement survives a change of it.
ImplementsMultisig == Abstract!MultisigSpec
=============================================================================
