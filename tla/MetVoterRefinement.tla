------------------------- MODULE MetVoterRefinement -------------------------
(***************************************************************************)
(* met-voter implements locked-voter: to its users it is a locked-voter    *)
(* whose locker has no minimum stake duration and where nobody opens a     *)
(* partial unstaking.  Every deposit, lock and withdrawal that met-voter   *)
(* lets happen, in either phase, is one locked-voter would let happen, so  *)
(* that no token leaves met-voter that locked-voter would still hold.      *)
(*                                                                         *)
(* The minimum stake duration is mapped to 0 because the initial phase     *)
(* takes deposits into escrows without a lock.                             *)
(***************************************************************************)
EXTENDS MetVoter

AsLocked(q) == [max_stake_vote_multiplier |-> q.max_stake_vote_multiplier,
                min_stake_duration |-> 0,
                max_stake_duration |-> q.max_stake_duration]

WithoutUnstaking(e) ==
  [open |-> e.open, amount |-> e.amount, escrow_started_at |-> e.escrow_started_at,
   escrow_ends_at |-> e.escrow_ends_at, vote_delegate |-> e.vote_delegate,
   is_max_lock |-> e.is_max_lock, partial_unstaking_amount |-> 0]

Locked == INSTANCE LockedVoter WITH
  PartialIds   <- {},
  LockerParams <- {AsLocked(q) : q \in LockerParams},
  params       <- AsLocked(params),
  escrows      <- [o \in Owners |-> WithoutUnstaking(escrows[o])],
  partials     <- [p \in {} |-> {}]

\* Every behaviour of met-voter is one of locked-voter.
ImplementsLockedVoter == Locked!LockerSpec
=============================================================================
