------------------------------ MODULE MetVoter ------------------------------
(***************************************************************************)
(* The met-voter program: one Locker and the Escrow of every owner.  It is *)
(* a variant of locked-voter without partial unstaking, whose locker has   *)
(* an expiration: until then (the initial phase) an escrow takes deposits, *)
(* pays nothing out and votes with its full amount; from then on (the      *)
(* token launch phase) escrows are locked and unlocked as in locked-voter. *)
(*                                                                         *)
(* Tokens move between the escrows' token accounts (vault) and those of    *)
(* everyone else (circulating).  cast_vote and the two activations, which  *)
(* only call govern, are in MetVoting.                                     *)
(***************************************************************************)
EXTENDS Integers, FiniteSets, Functions, SolanaClock

CONSTANTS
  Owners,        \* keys that may own an escrow
  Delegates,     \* keys a vote may be delegated to
  NoKey,         \* Pubkey::default(), what a closed account holds
  LockerParams,  \* the parameters the governor may choose from
  Expirations,   \* the expirations the locker may be given
  ONE_DAY,       \* the 86400 seconds an expiration must be away when set
  TokenSupply,   \* tokens of the locker's mint
  MaxEscrows,    \* bound: how often new_escrow is called
  Instants       \* the instants LockIsKept looks at

MetParams == [max_stake_vote_multiplier : Nat, min_stake_duration : Nat,
              max_stake_duration : Nat, proposal_activation_min_votes : Nat]

ASSUME MetAssumption ==
  /\ IsFiniteSet(Owners)
  /\ NoKey \notin Owners \cup Delegates
  /\ LockerParams \subseteq MetParams
  /\ Expirations \subseteq Nat
  /\ ONE_DAY \in Nat \ {0}
  /\ TokenSupply \in Nat
  /\ MaxEscrows \in Nat
  /\ Instants \subseteq Nat

VARIABLES
  params,         \* Locker::params
  expiration,     \* Locker::expiration
  locked_supply,  \* Locker::locked_supply
  total_escrow,   \* Locker::total_escrow
  escrows,        \* the Escrow account of each owner
  vault,          \* balance of each escrow's token account
  circulating     \* tokens outside the escrows

metVars == <<params, expiration, locked_supply, total_escrow, escrows, vault, circulating>>
metState == <<now, metVars>>

-----------------------------------------------------------------------------
Keys == Owners \cup Delegates \cup {NoKey}

MetEscrow == [open : BOOLEAN, amount : Nat, escrow_started_at : Nat, escrow_ends_at : Nat,
              vote_delegate : Keys, is_max_lock : BOOLEAN]

ClosedEscrow == [open |-> FALSE, amount |-> 0, escrow_started_at |-> 0, escrow_ends_at |-> 0,
                 vote_delegate |-> NoKey, is_max_lock |-> FALSE]

\* Locker::get_current_phase.
InitialPhase == expiration > now

\* Escrow::get_remaining_duration_until_expiration at the current time.
RemainingDuration(e) ==
  IF e.is_max_lock THEN params.max_stake_duration
  ELSE IF e.escrow_ends_at < now THEN 0
  ELSE e.escrow_ends_at - now

\* Locker::calculate_voter_power at t # 0 with parameters q, before the width
\* check: constant in the initial phase (and nothing from the expiration on),
\* then that of the escrow's lock.
FullPower(q, e) == e.amount * q.max_stake_vote_multiplier

\* Escrow e has a lock at t: without one, and without the maximum lock, its
\* power is 0 whatever its amount.
LockedAt(e, t) ==
  e.escrow_started_at # 0 /\ e.escrow_started_at <= t /\ t < e.escrow_ends_at

LockPower(q, e, t) ==
  IF e.is_max_lock THEN FullPower(q, e)
  ELSE IF ~ LockedAt(e, t) THEN 0
  ELSE LET left    == e.escrow_ends_at - t
           clamped == IF left < q.max_stake_duration THEN left ELSE q.max_stake_duration
       IN  (FullPower(q, e) * clamped) \div q.max_stake_duration

InitialPower(q, e, t) == IF expiration <= t THEN 0 ELSE FullPower(q, e)

\* Forgets that there is no power from the expiration on.
PowerPastExpiration(q, e, t) == IF InitialPhase THEN FullPower(q, e) ELSE LockPower(q, e, t)
VoterPower(q, e, t) == IF InitialPhase THEN InitialPower(q, e, t) ELSE LockPower(q, e, t)

-----------------------------------------------------------------------------
\* The state new_locker leaves behind.
MetInit ==
  /\ params \in LockerParams
  /\ expiration \in {t \in Expirations : t >= now + ONE_DAY}
  /\ locked_supply = 0
  /\ total_escrow = 0
  /\ escrows = [o \in Owners |-> ClosedEscrow]
  /\ vault = [o \in Owners |-> 0]
  /\ circulating = TokenSupply

\* Signed by the governor's smart wallet, in the initial phase only.  A
\* mutant takes the new expiration for an extension of the old.
ExpirationExtended(t) ==
  /\ InitialPhase
  /\ expiration' = expiration + t
  /\ UNCHANGED <<params, locked_supply, total_escrow, escrows, vault, circulating>>
ChangeLockerExpiration(t) ==
  /\ InitialPhase
  /\ t >= now + ONE_DAY
  /\ expiration' = t
  /\ UNCHANGED <<params, locked_supply, total_escrow, escrows, vault, circulating>>

\* Anyone may open an owner's escrow; `init` fails if the account exists.
NewEscrow(o) ==
  /\ ~ escrows[o].open
  /\ total_escrow < MaxEscrows
  /\ escrows' = [escrows EXCEPT ![o] = [ClosedEscrow EXCEPT !.open = TRUE,
                                                            !.vote_delegate = o]]
  /\ total_escrow' = total_escrow + 1
  /\ UNCHANGED <<params, expiration, locked_supply, vault, circulating>>

\* increase_locked_amount but for the token account of the payer: a deposit
\* that comes after the launch needs a lock.
MayDeposit(o) ==
  /\ escrows[o].open
  /\ InitialPhase \/ RemainingDuration(escrows[o]) >= params.min_stake_duration

Deposit(o, amount) ==
  /\ MayDeposit(o)
  /\ amount > 0
  /\ vault' = [vault EXCEPT ![o] = @ + amount]
  /\ escrows' = [escrows EXCEPT ![o].amount = @ + amount]
  /\ locked_supply' = locked_supply + amount
  /\ UNCHANGED <<params, expiration, total_escrow>>

\* Anyone may deposit into anyone's escrow.
IncreaseLockedAmount(o, amount) ==
  /\ amount <= circulating
  /\ circulating' = circulating - amount
  /\ Deposit(o, amount)

\* What a check that forgot RefreshCannotShorten would let through.
RefreshUnchecked(e, ends_at) == TRUE
RefreshAllowed(e, ends_at) == ends_at >= e.escrow_ends_at

ExtendLockDuration(o, duration) ==
  /\ ~ InitialPhase
  /\ escrows[o].open
  /\ ~ escrows[o].is_max_lock
  /\ duration >= params.min_stake_duration
  /\ duration <= params.max_stake_duration
  /\ RefreshAllowed(escrows[o], now + duration)
  /\ escrows' = [escrows EXCEPT ![o].escrow_started_at = now,
                                ![o].escrow_ends_at = now + duration]
  /\ UNCHANGED <<params, expiration, locked_supply, total_escrow, vault, circulating>>

\* Toggling to the current value succeeds and changes nothing (a stutter); a
\* mutant forgot the phase.
ToggleInAnyPhase(o, is_max_lock) ==
  /\ escrows[o].open /\ escrows[o].is_max_lock # is_max_lock
  /\ escrows' = [escrows EXCEPT ![o].is_max_lock = is_max_lock]
  /\ UNCHANGED <<params, expiration, locked_supply, total_escrow, vault, circulating>>
ToggleMaxLock(o, is_max_lock) ==
  /\ ~ InitialPhase
  /\ escrows[o].open
  /\ escrows[o].is_max_lock # is_max_lock
  /\ escrows' = [escrows EXCEPT
       ![o].is_max_lock = is_max_lock,
       ![o].escrow_started_at = IF is_max_lock THEN @ ELSE now,
       ![o].escrow_ends_at = IF is_max_lock THEN @ ELSE now + params.max_stake_duration]
  /\ UNCHANGED <<params, expiration, locked_supply, total_escrow, vault, circulating>>

\* Withdraw::validate: an initial phase has its expiration still to come.
\* A mutant forgot the maximum lock.
WithdrawableMaxLocked(e) == ~ InitialPhase /\ e.escrow_ends_at <= now
Withdrawable(e) ==
  IF InitialPhase THEN expiration <= now
  ELSE ~ e.is_max_lock /\ e.escrow_ends_at <= now

\* What a withdrawal leaves of the locker's supply; SupplyKept forgot it.
SupplyKept(amount) == locked_supply
SupplyWithout(amount) == locked_supply - amount

\* The escrow's token account is closed with it, which only an empty one can be.
Withdraw(o) ==
  LET amount == escrows[o].amount IN
  /\ escrows[o].open
  /\ Withdrawable(escrows[o])
  /\ amount = vault[o]
  /\ amount <= locked_supply
  /\ vault' = [vault EXCEPT ![o] = @ - amount]
  /\ circulating' = circulating + amount
  /\ locked_supply' = SupplyWithout(amount)
  /\ escrows' = [escrows EXCEPT ![o] = ClosedEscrow]
  /\ UNCHANGED <<params, expiration, total_escrow>>

SetVoteDelegate(o, new_delegate) ==
  /\ escrows[o].open
  /\ escrows' = [escrows EXCEPT ![o].vote_delegate = new_delegate]
  /\ UNCHANGED <<params, expiration, locked_supply, total_escrow, vault, circulating>>

\* Signed by the governor's smart wallet, which checks nothing about the values.
SetLockerParams(q) ==
  /\ params' = q
  /\ UNCHANGED <<expiration, locked_supply, total_escrow, escrows, vault, circulating>>

-----------------------------------------------------------------------------
\* The instructions that move no token from outside the escrows into them.
EscrowNext ==
  \/ \E o \in Owners :
       \/ NewEscrow(o)
       \/ \E duration \in 0..params.max_stake_duration : ExtendLockDuration(o, duration)
       \/ \E b \in BOOLEAN : ToggleMaxLock(o, b)
       \/ Withdraw(o)
       \/ \E d \in Delegates : SetVoteDelegate(o, d)
  \/ \E q \in LockerParams : SetLockerParams(q)
  \/ \E t \in Expirations : ChangeLockerExpiration(t)

MetNext ==
  \/ EscrowNext
  \/ \E o \in Owners, amount \in 1..TokenSupply : IncreaseLockedAmount(o, amount)

MetStart == ClockInit /\ MetInit

MetStep ==
  \/ MetNext /\ UNCHANGED now
  \/ Tick /\ UNCHANGED metVars

MetSpec == MetStart /\ [][MetStep]_metState

\* A wallet that never moves the expiration back.
SteadyStep == MetStep /\ expiration' >= expiration

SteadySpec == MetStart /\ [][SteadyStep]_metState

-----------------------------------------------------------------------------
(* What the program owes its users *)

\* Every account holds values of its Rust type and no amount is negative.
MetTypeOK ==
  /\ now \in Nat
  /\ params \in LockerParams
  /\ expiration \in Expirations
  /\ locked_supply \in Nat
  /\ total_escrow \in Nat
  /\ escrows \in [Owners -> MetEscrow]
  /\ vault \in [Owners -> Nat]
  /\ circulating \in Nat

TotalEscrowed == SumFunctionOnSet([o \in Owners |-> escrows[o].amount], Owners)

\* Locker::locked_supply and the escrows' token accounts agree with the
\* escrows, through deposits, withdrawals and the closing and re-creation of
\* an escrow, and no token appears or is lost on the way.
SupplyAccounted ==
  /\ locked_supply = TotalEscrowed
  /\ \A o \in Owners : vault[o] = escrows[o].amount
  /\ \A o \in Owners : ~ escrows[o].open => escrows[o] = ClosedEscrow
  /\ circulating + locked_supply = TokenSupply

\* "In InitalPhase: User cannot extend expiration": no escrow enters the
\* token launch phase with a lock, so whatever the wallet did to the
\* expiration, no lock holds an owner at the launch ("users able to exit when
\* phase 1 expired") unless he takes one after it.
LaunchFindsNoLocks ==
  InitialPhase =>
    \A o \in Owners : ~ escrows[o].is_max_lock /\ escrows[o].escrow_ends_at = 0

\* The governor never changes max_stake_duration.
OneMax == \A q, r \in LockerParams : q.max_stake_duration = r.max_stake_duration

\* When the tokens of escrow e become free, if its owner starts now.
LockEnd(e) ==
  IF InitialPhase THEN expiration
  ELSE IF e.is_max_lock THEN now + params.max_stake_duration
  ELSE e.escrow_ends_at

\* Tokens of owner o that no instruction can pay out before instant t.
HeldUntil(o, t) ==
  IF escrows[o].open /\ LockEnd(escrows[o]) >= t THEN escrows[o].amount ELSE 0

\* A token held until an instant still to come stays held until then, over
\* the launch and whatever its owner does.  It needs OneMax, and a wallet that
\* never moves the expiration back (SteadySpec).
LockIsKept ==
  [][\A o \in Owners : \A t \in Instants :
       t > now' => HeldUntil(o, t)' >= HeldUntil(o, t)]_metState
=============================================================================
