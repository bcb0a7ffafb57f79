---------------------------- MODULE LockedVoter ----------------------------
(***************************************************************************)
(* The locked-voter program: one Locker, the Escrow of every owner and the *)
(* PartialUnstaking accounts.  An instruction is atomic (an error rolls    *)
(* the whole instruction back), so an action is one successful             *)
(* instruction and its guard is the conjunction of the handler's checks.   *)
(*                                                                         *)
(* Token movements go between the escrow's token account (vault) and the   *)
(* tokens in circulation: whose wallet a circulating token is in does not  *)
(* matter to the program, any payer may deposit and the owner withdraws to *)
(* any account.  The mint's supply fits in a u64, so the checked additions *)
(* of amounts cannot overflow; the checked subtractions are guards.        *)
(* cast_vote and activate_proposal, which only call govern, are in         *)
(* LockedVoting.                                                           *)
(***************************************************************************)
EXTENDS Integers, FiniteSets, Functions, SolanaClock

CONSTANTS
  Owners,        \* keys that may own an escrow
  Delegates,     \* keys a vote may be delegated to
  NoKey,         \* Pubkey::default(), what a closed account holds
  PartialIds,    \* addresses of PartialUnstaking accounts
  LockerParams,  \* the parameters the governor may choose from
  TokenSupply,   \* tokens of the locker's mint
  MaxEscrows,    \* bound: how often new_escrow is called
  Instants       \* the instants LockIsKept looks at

ParamsType == [max_stake_vote_multiplier : Nat, min_stake_duration : Nat,
               max_stake_duration : Nat]

ASSUME LockerAssumption ==
  /\ IsFiniteSet(Owners) /\ IsFiniteSet(PartialIds)
  /\ NoKey \notin Owners \cup Delegates
  /\ LockerParams \subseteq ParamsType
  /\ LockerParams # {}
  /\ TokenSupply \in Nat
  /\ MaxEscrows \in Nat
  /\ Instants \subseteq Nat

VARIABLES
  params,         \* Locker::params
  locked_supply,  \* Locker::locked_supply
  total_escrow,   \* Locker::total_escrow
  escrows,        \* the Escrow account of each owner
  partials,       \* the PartialUnstaking accounts
  vault,          \* balance of each escrow's token account
  circulating     \* tokens outside the escrows

lockerVars == <<params, locked_supply, total_escrow, escrows, partials, vault, circulating>>
lockerState == <<now, lockerVars>>

-----------------------------------------------------------------------------
Keys == Owners \cup Delegates \cup {NoKey}

Escrow == [open : BOOLEAN, amount : Nat, escrow_started_at : Nat,
           escrow_ends_at : Nat, vote_delegate : Keys, is_max_lock : BOOLEAN,
           partial_unstaking_amount : Nat]

PartialUnstaking == [open : BOOLEAN, escrow : Owners \cup {NoKey},
                     amount : Nat, expiration : Nat]

ClosedEscrow == [open |-> FALSE, amount |-> 0, escrow_started_at |-> 0,
                 escrow_ends_at |-> 0, vote_delegate |-> NoKey,
                 is_max_lock |-> FALSE, partial_unstaking_amount |-> 0]

ClosedPartial == [open |-> FALSE, escrow |-> NoKey, amount |-> 0, expiration |-> 0]

\* Escrow::get_remaining_duration_until_expiration at the current time.
RemainingDuration(e) ==
  IF e.is_max_lock THEN params.max_stake_duration
  ELSE IF e.escrow_ends_at < now THEN 0
  ELSE e.escrow_ends_at - now

\* Locker::calculate_voter_power at t # 0 with parameters q, before the width
\* check: the largest intermediate value is amount * multiplier.
FullPower(q, e) == e.amount * q.max_stake_vote_multiplier

\* Escrow e has a lock at t: without one, and without the maximum lock, its
\* power is 0 whatever its amount.
LockedAt(e, t) ==
  e.escrow_started_at # 0 /\ e.escrow_started_at <= t /\ t < e.escrow_ends_at

VoterPower(q, e, t) ==
  IF e.is_max_lock THEN FullPower(q, e)
  ELSE IF ~ LockedAt(e, t) THEN 0
  ELSE LET left    == e.escrow_ends_at - t
           clamped == IF left < q.max_stake_duration THEN left ELSE q.max_stake_duration
       IN  (FullPower(q, e) * clamped) \div q.max_stake_duration

-----------------------------------------------------------------------------
\* The state new_locker leaves behind.
LockerInit ==
  /\ params \in LockerParams
  /\ locked_supply = 0
  /\ total_escrow = 0
  /\ escrows = [o \in Owners |-> ClosedEscrow]
  /\ partials = [p \in PartialIds |-> ClosedPartial]
  /\ vault = [o \in Owners |-> 0]
  /\ circulating = TokenSupply

\* Anyone may open an owner's escrow; `init` fails if the account exists.
NewEscrow(o) ==
  /\ ~ escrows[o].open
  /\ total_escrow < MaxEscrows
  /\ escrows' = [escrows EXCEPT ![o] = [ClosedEscrow EXCEPT !.open = TRUE,
                                                            !.vote_delegate = o]]
  /\ total_escrow' = total_escrow + 1
  /\ UNCHANGED <<params, locked_supply, partials, vault, circulating>>

\* Anyone may deposit into anyone's escrow.
IncreaseLockedAmount(o, amount) ==
  /\ escrows[o].open
  /\ RemainingDuration(escrows[o]) >= params.min_stake_duration
  /\ amount > 0
  /\ amount <= circulating
  /\ circulating' = circulating - amount
  /\ vault' = [vault EXCEPT ![o] = @ + amount]
  /\ escrows' = [escrows EXCEPT ![o].amount = @ + amount]
  /\ locked_supply' = locked_supply + amount
  /\ UNCHANGED <<params, total_escrow, partials>>

\* What a check that forgot RefreshCannotShorten would let through.
RefreshUnchecked(e, ends_at) == TRUE
RefreshAllowed(e, ends_at) == ends_at >= e.escrow_ends_at

ExtendLockDuration(o, duration) ==
  /\ escrows[o].open
  /\ ~ escrows[o].is_max_lock
  /\ duration >= params.min_stake_duration
  /\ duration <= params.max_stake_duration
  /\ RefreshAllowed(escrows[o], now + duration)
  /\ escrows' = [escrows EXCEPT ![o].escrow_started_at = now,
                                ![o].escrow_ends_at = now + duration]
  /\ UNCHANGED <<params, locked_supply, total_escrow, partials, vault, circulating>>

\* Toggling to the current value succeeds and changes nothing (a stutter).
ToggleMaxLock(o, is_max_lock) ==
  /\ escrows[o].open
  /\ escrows[o].is_max_lock # is_max_lock
  /\ escrows' = [escrows EXCEPT
       ![o].is_max_lock = is_max_lock,
       ![o].escrow_started_at = IF is_max_lock THEN @ ELSE now,
       ![o].escrow_ends_at = IF is_max_lock THEN @ ELSE now + params.max_stake_duration]
  /\ UNCHANGED <<params, locked_supply, total_escrow, partials, vault, circulating>>

\* What a withdrawal leaves of the locker's supply; SupplyKept forgot it.
SupplyKept(amount) == locked_supply
SupplyWithout(amount) == locked_supply - amount

\* Checks that forgot the partial unstakings, or the maximum lock.
WithdrawableWithPartials(e) == ~ e.is_max_lock /\ e.escrow_ends_at <= now
WithdrawableMaxLocked(e) == e.escrow_ends_at <= now /\ e.partial_unstaking_amount = 0
Withdrawable(e) ==
  ~ e.is_max_lock /\ e.escrow_ends_at <= now /\ e.partial_unstaking_amount = 0

Withdraw(o) ==
  LET amount == escrows[o].amount IN
  /\ escrows[o].open
  /\ Withdrawable(escrows[o])
  /\ amount <= vault[o]
  /\ amount <= locked_supply
  /\ vault' = [vault EXCEPT ![o] = @ - amount]
  /\ circulating' = circulating + amount
  /\ locked_supply' = SupplyWithout(amount)
  /\ escrows' = [escrows EXCEPT ![o] = ClosedEscrow]
  /\ UNCHANGED <<params, total_escrow, partials>>

\* A check that forgot the escrow's amount.
UnstakableAny(e, amount) == amount > 0
Unstakable(e, amount) == amount > 0 /\ amount <= e.amount

\* An expiration that forgot how much of the lock is left.
MaxExpiration(e) == now + params.max_stake_duration
PartialExpiration(e) == now + RemainingDuration(e)

OpenPartialUnstaking(o, p, amount) ==
  /\ escrows[o].open
  /\ ~ partials[p].open
  /\ Unstakable(escrows[o], amount)
  /\ RemainingDuration(escrows[o]) > 0
  /\ partials' = [partials EXCEPT ![p] =
       [open |-> TRUE, escrow |-> o, amount |-> amount,
        expiration |-> PartialExpiration(escrows[o])]]
  /\ escrows' = [escrows EXCEPT ![o].amount = @ - amount,
                                ![o].partial_unstaking_amount = @ + amount]
  /\ UNCHANGED <<params, locked_supply, total_escrow, vault, circulating>>

\* A merge that forgot to close the partial unstaking (`close = owner`).
MergeKeepsPartial(o, p) ==
  /\ escrows[o].open /\ partials[p].open /\ partials[p].escrow = o
  /\ partials[p].amount <= escrows[o].partial_unstaking_amount
  /\ escrows' = [escrows EXCEPT ![o].amount = @ + partials[p].amount,
                                ![o].partial_unstaking_amount = @ - partials[p].amount]
  /\ UNCHANGED <<params, locked_supply, total_escrow, partials, vault, circulating>>

MergePartialUnstaking(o, p) ==
  LET amount == partials[p].amount IN
  /\ escrows[o].open
  /\ partials[p].open /\ partials[p].escrow = o
  /\ RemainingDuration(escrows[o]) >= params.min_stake_duration
  /\ amount <= escrows[o].partial_unstaking_amount
  /\ escrows' = [escrows EXCEPT ![o].amount = @ + amount,
                                ![o].partial_unstaking_amount = @ - amount]
  /\ partials' = [partials EXCEPT ![p] = ClosedPartial]
  /\ UNCHANGED <<params, locked_supply, total_escrow, vault, circulating>>

WithdrawPartialUnstaking(o, p) ==
  LET amount == partials[p].amount IN
  /\ escrows[o].open
  /\ partials[p].open /\ partials[p].escrow = o
  /\ partials[p].expiration <= now
  /\ amount <= vault[o]
  /\ amount <= locked_supply
  /\ amount <= escrows[o].partial_unstaking_amount
  /\ vault' = [vault EXCEPT ![o] = @ - amount]
  /\ circulating' = circulating + amount
  /\ locked_supply' = SupplyWithout(amount)
  /\ escrows' = [escrows EXCEPT ![o].partial_unstaking_amount = @ - amount]
  /\ partials' = [partials EXCEPT ![p] = ClosedPartial]
  /\ UNCHANGED <<params, total_escrow>>

SetVoteDelegate(o, new_delegate) ==
  /\ escrows[o].open
  /\ escrows' = [escrows EXCEPT ![o].vote_delegate = new_delegate]
  /\ UNCHANGED <<params, locked_supply, total_escrow, partials, vault, circulating>>

\* Signed by the governor's smart wallet, which checks nothing about the values.
SetLockerParams(q) ==
  /\ params' = q
  /\ UNCHANGED <<locked_supply, total_escrow, escrows, partials, vault, circulating>>

-----------------------------------------------------------------------------
LockerNext ==
  \/ \E o \in Owners :
       \/ NewEscrow(o)
       \/ \E amount \in 1..TokenSupply : IncreaseLockedAmount(o, amount)
       \/ \E duration \in 0..params.max_stake_duration : ExtendLockDuration(o, duration)
       \/ \E b \in BOOLEAN : ToggleMaxLock(o, b)
       \/ Withdraw(o)
       \/ \E p \in PartialIds :
            \/ \E amount \in 1..TokenSupply : OpenPartialUnstaking(o, p, amount)
            \/ MergePartialUnstaking(o, p)
            \/ WithdrawPartialUnstaking(o, p)
       \/ \E d \in Delegates : SetVoteDelegate(o, d)
  \/ \E q \in LockerParams : SetLockerParams(q)

LockerStart == ClockInit /\ LockerInit

LockerStep ==
  \/ LockerNext /\ UNCHANGED now
  \/ Tick /\ UNCHANGED lockerVars

LockerSpec == LockerStart /\ [][LockerStep]_lockerState

-----------------------------------------------------------------------------
(* What the program owes its users *)

\* Every account holds values of its Rust type and no amount is negative:
\* none of the subtractions of the handlers underflows.
LockerTypeOK ==
  /\ now \in Nat
  /\ params \in LockerParams
  /\ locked_supply \in Nat
  /\ total_escrow \in Nat
  /\ escrows \in [Owners -> Escrow]
  /\ partials \in [PartialIds -> PartialUnstaking]
  /\ vault \in [Owners -> Nat]
  /\ circulating \in Nat

\* Tokens of escrow e the program still holds: staked or being unstaked.
EscrowTokens(e) == e.amount + e.partial_unstaking_amount

\* What partial unstaking x holds for owner o.
UnstakingOf(x, o) == IF x.open /\ x.escrow = o THEN x.amount ELSE 0

Unstaking(o) ==
  SumFunctionOnSet([p \in PartialIds |-> UnstakingOf(partials[p], o)], PartialIds)

\* The running total Escrow::partial_unstaking_amount of every escrow is the
\* sum of its open PartialUnstaking accounts, through opens, merges,
\* withdrawals and the closing and re-creation of either account.
PartialsAccounted ==
  \A o \in Owners : escrows[o].partial_unstaking_amount = Unstaking(o)

TotalEscrowed == SumFunctionOnSet([o \in Owners |-> EscrowTokens(escrows[o])], Owners)

\* Locker::locked_supply and the escrows' token accounts agree with the
\* escrows: open_partial_unstaking and merge leave the supply alone, only the
\* two withdrawals lower it, and no token appears or is lost on the way.
SupplyAccounted ==
  /\ locked_supply = TotalEscrowed
  /\ \A o \in Owners : vault[o] = EscrowTokens(escrows[o])
  /\ circulating + locked_supply = TokenSupply

\* withdraw closes an escrow only when nothing of it is left: no partial
\* unstaking outlives the escrow it must be paid from, and a closed escrow's
\* token account is empty.
NothingOutlivesEscrow ==
  /\ \A p \in PartialIds : partials[p].open =>
       /\ partials[p].escrow \in Owners
       /\ escrows[partials[p].escrow].open
  /\ \A o \in Owners : ~ escrows[o].open => vault[o] = 0

\* The governor never changes max_stake_duration.
OneMax == \A q, r \in LockerParams : q.max_stake_duration = r.max_stake_duration

\* When the tokens of escrow e become free, if its owner starts now.
LockEnd(e) == IF e.is_max_lock THEN now + params.max_stake_duration ELSE e.escrow_ends_at

StakedUntil(o, t) ==
  IF escrows[o].open /\ LockEnd(escrows[o]) >= t THEN escrows[o].amount ELSE 0

UnstakingUntil(o, t) ==
  SumFunctionOnSet([p \in PartialIds |->
    IF partials[p].expiration >= t THEN UnstakingOf(partials[p], o) ELSE 0], PartialIds)

\* Tokens of owner o that no instruction can pay out before instant t.
HeldUntil(o, t) == StakedUntil(o, t) + UnstakingUntil(o, t)

\* A token locked until an instant still to come stays locked until then,
\* whatever the owner does: extending, toggling the maximum lock, unstaking
\* and merging it again, closing and re-creating accounts.  It needs OneMax.
LockIsKept ==
  [][\A o \in Owners : \A t \in Instants :
       t > now => HeldUntil(o, t)' >= HeldUntil(o, t)]_lockerState

\* An owner whose lock has ended can always leave: withdraw is possible at
\* once, or after withdrawing partial unstakings that have all matured, and no
\* checked subtraction stands in the way.  (A partial unstaking that matured
\* later than its escrow would keep the escrow open.)
\* (It needs OneMax.)
ExitIsNeverBlocked ==
  \A o \in Owners :
    escrows[o].open /\ ~ escrows[o].is_max_lock /\ escrows[o].escrow_ends_at <= now
    => /\ EscrowTokens(escrows[o]) <= vault[o]
       /\ EscrowTokens(escrows[o]) <= locked_supply
       /\ \A p \in PartialIds : partials[p].open /\ partials[p].escrow = o =>
            /\ partials[p].expiration <= now
            /\ partials[p].amount <= escrows[o].partial_unstaking_amount
       /\ escrows[o].partial_unstaking_amount > 0 =>
            \E p \in PartialIds : partials[p].open /\ partials[p].escrow = o
=============================================================================
