-------------------------- MODULE MetVoter_proofs --------------------------
(***************************************************************************)
(* Proofs about MetVoter and MetVoting, for every set of owners,           *)
(* parameters, expirations, supplies and proposals that their assumptions  *)
(* admit.  A step of the composition is a step or a stutter of met-voter   *)
(* and what a locker may do to a governor, so that the lemmas about each   *)
(* program apply: first those about met-voter, then those about both.      *)
(***************************************************************************)
EXTENDS MetVoting, MetVoterRefinement, Govern_proofs

\* The zeroes of an escrow that is not open are values of its type.
LEMMA ClosedEscrowTyped == ClosedEscrow \in MetEscrow
BY DEF ClosedEscrow, MetEscrow, Keys

\* new_locker leaves a well-typed state.
LEMMA InitTyped == MetStart => MetTypeOK
BY MetAssumption, ClosedEscrowTyped DEF MetStart, ClockInit, MetInit, MetTypeOK

\* A deposit, whoever pays it, leaves the escrow and its token account typed.
LEMMA DepositTyped ==
  ASSUME MetTypeOK, UNCHANGED now, NEW o \in Owners, NEW a \in Nat, Deposit(o, a),
         circulating' \in Nat
  PROVE  MetTypeOK'
BY MetAssumption DEF MetTypeOK, Deposit, MayDeposit, MetEscrow

\* No instruction that moves no token into an escrow leaves an account outside
\* its type.
LEMMA EscrowStepTyped ==
  ASSUME MetTypeOK, UNCHANGED now, EscrowNext
  PROVE  MetTypeOK'
<1> USE MetAssumption DEF MetTypeOK
<1>1. ASSUME NEW o \in Owners, NewEscrow(o)
      PROVE  MetTypeOK'
  <2>1. [ClosedEscrow EXCEPT !.open = TRUE, !.vote_delegate = o] \in MetEscrow
    BY DEF ClosedEscrow, MetEscrow, Keys
  <2>2. escrows' \in [Owners -> MetEscrow]
    BY <1>1, <2>1 DEF NewEscrow
  <2> QED BY <1>1, <2>2 DEF NewEscrow
<1>2. ASSUME NEW o \in Owners, NEW d \in 0..params.max_stake_duration, ExtendLockDuration(o, d)
      PROVE  MetTypeOK'
  <2>1. now + d \in Nat
    BY DEF MetParams
  <2>2. [escrows[o] EXCEPT !.escrow_started_at = now, !.escrow_ends_at = now + d] \in MetEscrow
    BY <2>1 DEF MetEscrow
  <2>3. escrows' \in [Owners -> MetEscrow]
    BY <1>2, <2>2 DEF ExtendLockDuration, RefreshAllowed
  <2> QED BY <1>2, <2>3 DEF ExtendLockDuration, RefreshAllowed
<1>3. ASSUME NEW o \in Owners, NEW b \in BOOLEAN, ToggleMaxLock(o, b)
      PROVE  MetTypeOK'
  <2>1. now + params.max_stake_duration \in Nat
    BY DEF MetParams
  <2>2. /\ [escrows[o] EXCEPT !.is_max_lock = TRUE] \in MetEscrow
        /\ [escrows[o] EXCEPT !.is_max_lock = FALSE, !.escrow_started_at = now,
                              !.escrow_ends_at = now + params.max_stake_duration] \in MetEscrow
    BY <2>1 DEF MetEscrow
  <2>3. escrows' = [escrows EXCEPT ![o] =
          IF b THEN [escrows[o] EXCEPT !.is_max_lock = TRUE]
          ELSE [escrows[o] EXCEPT !.is_max_lock = FALSE, !.escrow_started_at = now,
                                  !.escrow_ends_at = now + params.max_stake_duration]]
    BY <1>3 DEF ToggleMaxLock, MetEscrow
  <2>4. escrows' \in [Owners -> MetEscrow]
    BY <2>2, <2>3
  <2> QED BY <1>3, <2>4 DEF ToggleMaxLock
<1>4. ASSUME NEW o \in Owners, Withdraw(o)
      PROVE  MetTypeOK'
  BY <1>4, ClosedEscrowTyped DEF Withdraw, Withdrawable, SupplyWithout, MetEscrow
<1>5. ASSUME NEW o \in Owners, NEW d \in Delegates, SetVoteDelegate(o, d)
      PROVE  MetTypeOK'
  BY <1>5 DEF SetVoteDelegate, MetEscrow, Keys
<1>6. ASSUME NEW q \in LockerParams, SetLockerParams(q)
      PROVE  MetTypeOK'
  BY <1>6 DEF SetLockerParams
<1>7. ASSUME NEW t \in Expirations, ChangeLockerExpiration(t)
      PROVE  MetTypeOK'
  BY <1>7 DEF ChangeLockerExpiration
<1> QED
  BY <1>1, <1>2, <1>3, <1>4, <1>5, <1>6, <1>7 DEF EscrowNext

\* No instruction, and no passing of time, leaves an account outside its type.
LEMMA NextTyped == MetTypeOK /\ [MetStep]_metState => MetTypeOK'
<1> SUFFICES ASSUME MetTypeOK, [MetStep]_metState PROVE MetTypeOK'
  OBVIOUS
<1>1. ASSUME UNCHANGED now, NEW o \in Owners, NEW a \in 1..TokenSupply, IncreaseLockedAmount(o, a)
      PROVE  MetTypeOK'
  <2>1. circulating' \in Nat /\ a \in Nat
    BY <1>1, MetAssumption DEF IncreaseLockedAmount, MetTypeOK
  <2> QED BY <1>1, <2>1, DepositTyped DEF IncreaseLockedAmount
<1>2. ASSUME UNCHANGED now, EscrowNext PROVE MetTypeOK'
  BY <1>2, EscrowStepTyped
<1>3. ASSUME Tick, UNCHANGED metVars PROVE MetTypeOK'
  BY <1>3 DEF Tick, metVars, MetTypeOK
<1>4. CASE UNCHANGED metState
  BY <1>4 DEF metState, metVars, MetTypeOK
<1> QED BY <1>1, <1>2, <1>3, <1>4 DEF MetStep, MetNext

\* Type correctness: no amount, supply or balance ever goes below zero.
THEOREM MetTypeCorrect == MetSpec => []MetTypeOK
<1>1. MetStart => MetTypeOK
  BY InitTyped
<1>2. MetTypeOK /\ [MetStep]_metState => MetTypeOK'
  BY NextTyped
<1> QED BY <1>1, <1>2, PTL DEF MetSpec

-----------------------------------------------------------------------------
(* Accounting *)

\* When one escrow changes, the total of all escrows changes by the difference.
LEMMA EscrowedChange ==
  ASSUME MetTypeOK, MetTypeOK', NEW o \in Owners,
         \A q \in Owners \ {o} : escrows'[q] = escrows[q]
  PROVE  TotalEscrowed' = TotalEscrowed - escrows[o].amount + escrows'[o].amount
<1> DEFINE f == [q \in Owners |-> escrows[q].amount]
           g == [q \in Owners |-> escrows'[q].amount]
<1>1. \A q \in Owners : f[q] \in Int /\ g[q] \in Int
  BY DEF MetTypeOK, MetEscrow
<1>2. \A q \in Owners \ {o} : f[q] = g[q]
  OBVIOUS
<1>3. IsFiniteSet(Owners)
  BY MetAssumption
<1>4. SumFunctionOnSet(g, Owners) = SumFunctionOnSet(f, Owners) - f[o] + g[o]
  <2> HIDE DEF f, g
  <2> QED BY <1>1, <1>2, <1>3, SumUpdate
<1> QED BY <1>4 DEF TotalEscrowed

\* The total is a natural number and no escrow exceeds it, so the checked
\* subtraction of withdraw succeeds.
LEMMA TotalIsNat ==
  ASSUME MetTypeOK
  PROVE  TotalEscrowed \in Nat /\ \A o \in Owners : escrows[o].amount <= TotalEscrowed
<1> DEFINE f == [q \in Owners |-> escrows[q].amount]
<1>1. \A q \in Owners : f[q] \in Nat /\ f[q] = escrows[q].amount
  BY DEF MetTypeOK, MetEscrow
<1>2. TotalEscrowed = SumFunctionOnSet(f, Owners)
  BY DEF TotalEscrowed
<1> HIDE DEF f
<1> QED BY <1>1, <1>2, MetAssumption, SumOfNats

\* A new locker's books balance.
LEMMA InitAccounts == MetStart => SupplyAccounted
<1> SUFFICES ASSUME MetStart PROVE SupplyAccounted
  OBVIOUS
<1> USE DEF MetStart, MetInit
<1>1. TotalEscrowed = 0
  <2> DEFINE f == [q \in Owners |-> escrows[q].amount]
  <2>1. \A q \in Owners : f[q] = 0
    BY DEF ClosedEscrow
  <2> HIDE DEF f
  <2>2. SumFunctionOnSet(f, Owners) = 0
    BY <2>1, MetAssumption, SumOfZeros
  <2> QED BY <2>2 DEF f, TotalEscrowed
<1>2. TokenSupply + 0 = TokenSupply
  BY MetAssumption
<1> QED BY <1>1, <1>2 DEF SupplyAccounted, ClosedEscrow

\* What agrees with the escrows whoever pays their deposits: a distributor's
\* vault is not among the circulating tokens.
BooksBalance ==
  /\ locked_supply = TotalEscrowed
  /\ \A o \in Owners : vault[o] = escrows[o].amount
  /\ \A o \in Owners : ~ escrows[o].open => escrows[o] = ClosedEscrow

\* A deposit adds as much to the escrow, its token account and the supply.
LEMMA DepositBalances ==
  ASSUME MetTypeOK, MetTypeOK', BooksBalance, NEW o \in Owners, NEW a \in Nat, Deposit(o, a)
  PROVE  BooksBalance' /\ locked_supply' = locked_supply + a
<1>1. /\ \A q \in Owners \ {o} : escrows'[q] = escrows[q]
      /\ escrows'[o].amount = escrows[o].amount + a
      /\ escrows'[o].open
      /\ vault' = [vault EXCEPT ![o] = @ + a]
      /\ locked_supply' = locked_supply + a
  BY DEF Deposit, MayDeposit, MetTypeOK, MetEscrow
<1>2. escrows[o].amount \in Nat /\ TotalEscrowed \in Nat
  BY TotalIsNat DEF MetTypeOK, MetEscrow
<1>3. TotalEscrowed' = TotalEscrowed + a
  BY <1>1, <1>2, EscrowedChange
<1>4. \A q \in Owners : vault'[q] = escrows'[q].amount
  BY <1>1 DEF BooksBalance, MetTypeOK
<1> QED BY <1>1, <1>3, <1>4 DEF BooksBalance

\* Every other instruction keeps the books balanced, and what it takes from the
\* supply it gives to those outside.
LEMMA EscrowStepBalances ==
  ASSUME MetTypeOK, MetTypeOK', BooksBalance, EscrowNext
  PROVE  BooksBalance' /\ circulating' + locked_supply' = circulating + locked_supply
<1> DEFINE Goal == BooksBalance' /\ circulating' + locked_supply' = circulating + locked_supply
<1>0. /\ locked_supply \in Nat /\ circulating \in Nat /\ TotalEscrowed \in Nat
      /\ vault \in [Owners -> Nat]
      /\ \A o \in Owners : escrows[o].amount \in Nat
  BY TotalIsNat DEF MetTypeOK, MetEscrow
<1>1. ASSUME NEW o \in Owners, UNCHANGED <<locked_supply, vault, circulating>>,
             \A q \in Owners \ {o} : escrows'[q] = escrows[q],
             escrows'[o].amount = escrows[o].amount, escrows'[o].open
      PROVE  Goal
  <2>1. TotalEscrowed' = TotalEscrowed
    BY <1>0, <1>1, EscrowedChange
  <2> QED BY <1>1, <2>1 DEF BooksBalance
<1>2. ASSUME UNCHANGED <<locked_supply, escrows, vault, circulating>>
      PROVE  Goal
  <2>1. TotalEscrowed' = TotalEscrowed
    BY <1>2 DEF TotalEscrowed
  <2> QED BY <1>2, <2>1 DEF BooksBalance
<1>3. ASSUME NEW o \in Owners, NewEscrow(o) PROVE Goal
  <2>1. escrows'[o].amount = escrows[o].amount
    BY <1>3 DEF NewEscrow, BooksBalance, ClosedEscrow, MetTypeOK
  <2>2. escrows'[o].open /\ \A q \in Owners \ {o} : escrows'[q] = escrows[q]
    BY <1>3 DEF NewEscrow, ClosedEscrow, MetTypeOK
  <2> QED BY <1>1, <1>3, <2>1, <2>2 DEF NewEscrow
<1>4. ASSUME NEW o \in Owners, NEW d \in 0..params.max_stake_duration, ExtendLockDuration(o, d)
      PROVE  Goal
  BY <1>1, <1>4 DEF ExtendLockDuration, RefreshAllowed, MetTypeOK, MetEscrow
<1>5. ASSUME NEW o \in Owners, NEW b \in BOOLEAN, ToggleMaxLock(o, b) PROVE Goal
  BY <1>1, <1>5 DEF ToggleMaxLock, MetTypeOK, MetEscrow
<1>6. ASSUME NEW o \in Owners, Withdraw(o) PROVE Goal
  <2> DEFINE a == escrows[o].amount
  <2>1. /\ \A q \in Owners \ {o} : escrows'[q] = escrows[q]
        /\ escrows'[o] = ClosedEscrow
        /\ vault' = [vault EXCEPT ![o] = @ - a]
        /\ a = vault[o]
        /\ locked_supply' = locked_supply - a
        /\ circulating' = circulating + a
    BY <1>6 DEF Withdraw, SupplyWithout, MetTypeOK
  <2>2. escrows'[o].amount = 0
    BY <2>1 DEF ClosedEscrow
  <2>3. TotalEscrowed' = TotalEscrowed - a
    BY <1>0, <2>1, <2>2, EscrowedChange
  <2>4. \A q \in Owners : vault'[q] = escrows'[q].amount
    BY <1>0, <2>1, <2>2 DEF BooksBalance
  <2>5. locked_supply' = TotalEscrowed'
    BY <2>1, <2>3 DEF BooksBalance
  <2>6. \A q \in Owners : ~ escrows'[q].open => escrows'[q] = ClosedEscrow'
    BY <2>1 DEF BooksBalance, ClosedEscrow
  <2>7. circulating' + locked_supply' = circulating + locked_supply
    BY <1>0, <2>1
  <2> QED BY <2>4, <2>5, <2>6, <2>7 DEF BooksBalance
<1>7. ASSUME NEW o \in Owners, NEW d \in Delegates, SetVoteDelegate(o, d) PROVE Goal
  BY <1>1, <1>7 DEF SetVoteDelegate, MetTypeOK, MetEscrow
<1>8. ASSUME NEW q \in LockerParams, SetLockerParams(q) PROVE Goal
  BY <1>2, <1>8 DEF SetLockerParams
<1>9. ASSUME NEW t \in Expirations, ChangeLockerExpiration(t) PROVE Goal
  BY <1>2, <1>9 DEF ChangeLockerExpiration
<1> HIDE DEF Goal
<1>10. Goal
  BY <1>3, <1>4, <1>5, <1>6, <1>7, <1>8, <1>9 DEF EscrowNext
<1> QED BY <1>10 DEF Goal

\* Every step of met-voter keeps the books balanced and the tokens conserved.
LEMMA NextAccounts ==
  MetTypeOK /\ MetTypeOK' /\ SupplyAccounted /\ [MetStep]_metState => SupplyAccounted'
<1> SUFFICES ASSUME MetTypeOK, MetTypeOK', SupplyAccounted, [MetStep]_metState
             PROVE  SupplyAccounted'
  OBVIOUS
<1>1. BooksBalance /\ circulating + locked_supply = TokenSupply
  BY DEF SupplyAccounted, BooksBalance
<1>2. ASSUME NEW o \in Owners, NEW a \in 1..TokenSupply, IncreaseLockedAmount(o, a)
      PROVE  BooksBalance' /\ circulating' + locked_supply' = TokenSupply
  <2>1. a \in Nat
    BY MetAssumption
  <2>2. BooksBalance' /\ locked_supply' = locked_supply + a
    BY <1>1, <1>2, <2>1, DepositBalances DEF IncreaseLockedAmount
  <2>3. circulating' = circulating - a
    BY <1>2 DEF IncreaseLockedAmount
  <2>4. circulating \in Nat /\ locked_supply \in Nat
    BY DEF MetTypeOK
  <2> QED BY <1>1, <2>1, <2>2, <2>3, <2>4
<1>3. ASSUME EscrowNext
      PROVE  BooksBalance' /\ circulating' + locked_supply' = TokenSupply
  BY <1>1, <1>3, EscrowStepBalances
<1>4. ASSUME UNCHANGED metVars
      PROVE  BooksBalance' /\ circulating' + locked_supply' = TokenSupply
  BY <1>1, <1>4 DEF BooksBalance, TotalEscrowed, metVars
<1>5. BooksBalance' /\ circulating' + locked_supply' = TokenSupply
  BY <1>2, <1>3, <1>4 DEF MetStep, MetNext, metState
<1> QED BY <1>5 DEF SupplyAccounted, BooksBalance

\* locked_supply is the sum of the escrows, token accounts hold what escrows
\* record, closed escrows hold nothing, and tokens are conserved.
THEOREM MetSupplyAlwaysAccounted == MetSpec => []SupplyAccounted
<1>1. MetStart => SupplyAccounted
  BY InitAccounts
<1>2. MetTypeOK /\ MetTypeOK' /\ SupplyAccounted /\ [MetStep]_metState => SupplyAccounted'
  BY NextAccounts
<1> QED BY <1>1, <1>2, MetTypeCorrect, PTL DEF MetSpec

-----------------------------------------------------------------------------
(* The two phases *)

\* Nobody has a lock before he can, since both instructions that lock wait for
\* the launch, and no later change of the expiration undoes the launch.
LEMMA NextFindsNoLocks ==
  MetTypeOK /\ LaunchFindsNoLocks /\ [MetStep]_metState => LaunchFindsNoLocks'
<1> SUFFICES ASSUME MetTypeOK, LaunchFindsNoLocks, [MetStep]_metState, InitialPhase'
             PROVE  \A o \in Owners : ~ escrows'[o].is_max_lock /\ escrows'[o].escrow_ends_at = 0
  BY DEF LaunchFindsNoLocks
<1> DEFINE Goal == \A o \in Owners : ~ escrows'[o].is_max_lock /\ escrows'[o].escrow_ends_at = 0
<1>1. InitialPhase
  <2>1. CASE UNCHANGED <<now, expiration>>
    BY <2>1 DEF InitialPhase
  <2>2. CASE Tick /\ UNCHANGED expiration
    BY <2>2, MetAssumption DEF InitialPhase, Tick, MetTypeOK
  <2>3. CASE \E t \in Expirations : ChangeLockerExpiration(t)
    BY <2>3 DEF ChangeLockerExpiration
  <2>4. \/ UNCHANGED <<now, expiration>>
        \/ Tick /\ UNCHANGED expiration
        \/ \E t \in Expirations : ChangeLockerExpiration(t)
    BY DEF MetStep, MetNext, EscrowNext, NewEscrow, ExtendLockDuration, ToggleMaxLock, Withdraw,
           SetVoteDelegate, SetLockerParams, IncreaseLockedAmount, Deposit, metState, metVars
  <2> QED BY <2>1, <2>2, <2>3, <2>4
<1>2. \A o \in Owners : ~ escrows[o].is_max_lock /\ escrows[o].escrow_ends_at = 0
  BY <1>1 DEF LaunchFindsNoLocks
<1>3. ASSUME NEW o \in Owners, NewEscrow(o) PROVE Goal
  BY <1>2, <1>3 DEF NewEscrow, ClosedEscrow, MetTypeOK
<1>4. ASSUME NEW o \in Owners, NEW a \in 1..TokenSupply, IncreaseLockedAmount(o, a) PROVE Goal
  BY <1>2, <1>4 DEF IncreaseLockedAmount, Deposit, MetTypeOK, MetEscrow
<1>5. ASSUME NEW o \in Owners, Withdraw(o) PROVE Goal
  BY <1>2, <1>5 DEF Withdraw, ClosedEscrow, MetTypeOK
<1>6. ASSUME NEW o \in Owners, NEW d \in Delegates, SetVoteDelegate(o, d) PROVE Goal
  BY <1>2, <1>6 DEF SetVoteDelegate, MetTypeOK, MetEscrow
<1>7. CASE UNCHANGED escrows
  BY <1>2, <1>7
<1>8. ASSUME NEW q \in LockerParams, SetLockerParams(q) PROVE Goal
  BY <1>7, <1>8 DEF SetLockerParams
<1>9. ASSUME NEW t \in Expirations, ChangeLockerExpiration(t) PROVE Goal
  BY <1>7, <1>9 DEF ChangeLockerExpiration
<1>10. ASSUME UNCHANGED metVars PROVE Goal
  BY <1>7, <1>10 DEF metVars
<1>11. ASSUME NEW o \in Owners, NEW d \in 0..params.max_stake_duration, ExtendLockDuration(o, d)
       PROVE  Goal
  BY <1>1, <1>11 DEF ExtendLockDuration
<1>12. ASSUME NEW o \in Owners, NEW b \in BOOLEAN, ToggleMaxLock(o, b) PROVE Goal
  BY <1>1, <1>12 DEF ToggleMaxLock
<1> HIDE DEF Goal
<1>13. Goal
  BY <1>3, <1>4, <1>5, <1>6, <1>8, <1>9, <1>10, <1>11, <1>12
     DEF MetStep, MetNext, EscrowNext, metState
<1> QED BY <1>13 DEF Goal

\* No escrow enters the token launch phase with a lock.
THEOREM LaunchAlwaysFindsNoLocks == MetSpec => []LaunchFindsNoLocks
<1>1. MetStart => LaunchFindsNoLocks
  BY DEF MetStart, MetInit, LaunchFindsNoLocks, ClosedEscrow
<1>2. MetTypeOK /\ LaunchFindsNoLocks /\ [MetStep]_metState => LaunchFindsNoLocks'
  BY NextFindsNoLocks
<1> QED BY <1>1, <1>2, MetTypeCorrect, PTL DEF MetSpec

-----------------------------------------------------------------------------
(* Locks *)

\* No lock ends later than one taken now with the maximum duration.
LockInv == \A o \in Owners : escrows[o].escrow_ends_at <= now + params.max_stake_duration

\* Every step keeps that, as long as the maximum stays.
LEMMA NextLockInv == OneMax /\ MetTypeOK /\ LockInv /\ [MetStep]_metState => LockInv'
<1> SUFFICES ASSUME OneMax, MetTypeOK, LockInv, [MetStep]_metState PROVE LockInv'
  OBVIOUS
<1>0. /\ now \in Nat /\ params.max_stake_duration \in Nat
      /\ \A o \in Owners : escrows[o].escrow_ends_at \in Nat
  BY MetAssumption DEF MetTypeOK, MetEscrow, MetParams
<1>1. ASSUME NEW o \in Owners, NewEscrow(o), UNCHANGED now PROVE LockInv'
  BY <1>0, <1>1 DEF LockInv, NewEscrow, ClosedEscrow, MetTypeOK
<1>2. ASSUME NEW o \in Owners, NEW a \in 1..TokenSupply, IncreaseLockedAmount(o, a), UNCHANGED now
      PROVE  LockInv'
  BY <1>0, <1>2 DEF LockInv, IncreaseLockedAmount, Deposit, MetTypeOK, MetEscrow
<1>3. ASSUME NEW o \in Owners, NEW d \in 0..params.max_stake_duration, ExtendLockDuration(o, d),
             UNCHANGED now
      PROVE  LockInv'
  BY <1>0, <1>3 DEF LockInv, ExtendLockDuration, MetTypeOK, MetEscrow
<1>4. ASSUME NEW o \in Owners, NEW b \in BOOLEAN, ToggleMaxLock(o, b), UNCHANGED now PROVE LockInv'
  <2>1. \/ escrows'[o].escrow_ends_at = escrows[o].escrow_ends_at
        \/ escrows'[o].escrow_ends_at = now + params.max_stake_duration
    BY <1>4 DEF ToggleMaxLock, MetTypeOK, MetEscrow
  <2>2. /\ \A q \in Owners \ {o} : escrows'[q] = escrows[q]
        /\ params' = params /\ now' = now
    BY <1>4 DEF ToggleMaxLock, MetTypeOK
  <2> QED BY <1>0, <2>1, <2>2 DEF LockInv
<1>5. ASSUME NEW o \in Owners, Withdraw(o), UNCHANGED now PROVE LockInv'
  BY <1>0, <1>5 DEF LockInv, Withdraw, ClosedEscrow, MetTypeOK
<1>6. ASSUME NEW o \in Owners, NEW d \in Delegates, SetVoteDelegate(o, d), UNCHANGED now
      PROVE  LockInv'
  BY <1>0, <1>6 DEF LockInv, SetVoteDelegate, MetTypeOK, MetEscrow
<1>7. ASSUME UNCHANGED escrows, now' \in Nat, now' >= now,
             params'.max_stake_duration = params.max_stake_duration
      PROVE  LockInv'
  BY <1>0, <1>7 DEF LockInv
<1>8. ASSUME NEW q \in LockerParams, SetLockerParams(q), UNCHANGED now PROVE LockInv'
  BY <1>0, <1>7, <1>8 DEF SetLockerParams, OneMax, MetTypeOK
<1>9. ASSUME NEW t \in Expirations, ChangeLockerExpiration(t), UNCHANGED now PROVE LockInv'
  BY <1>0, <1>7, <1>9 DEF ChangeLockerExpiration
<1>10. ASSUME Tick, UNCHANGED metVars PROVE LockInv'
  BY <1>0, <1>7, <1>10 DEF Tick, metVars
<1>11. CASE UNCHANGED metState
  BY <1>0, <1>7, <1>11 DEF metState, metVars
<1> QED
  BY <1>1, <1>2, <1>3, <1>4, <1>5, <1>6, <1>8, <1>9, <1>10, <1>11
     DEF MetStep, MetNext, EscrowNext

\* What a step does to one escrow whose tokens are held until an instant still to come.
LEMMA StepKeepsEscrow ==
  ASSUME OneMax, MetTypeOK, MetTypeOK', LockInv, SteadyStep,
         NEW o \in Owners, NEW t \in Nat, t > now',
         escrows[o].open, LockEnd(escrows[o]) >= t
  PROVE  escrows'[o].open /\ LockEnd(escrows[o])' >= t /\ escrows'[o].amount >= escrows[o].amount
<1> DEFINE Kept == /\ escrows'[o].open
                   /\ LockEnd(escrows[o])' >= t
                   /\ escrows'[o].amount >= escrows[o].amount
<1>0. /\ now \in Nat /\ now' \in Nat /\ expiration \in Nat /\ expiration' \in Nat
      /\ params \in LockerParams /\ params' \in LockerParams
      /\ params.max_stake_duration \in Nat
      /\ params'.max_stake_duration = params.max_stake_duration
      /\ expiration' >= expiration
  BY MetAssumption DEF MetTypeOK, MetParams, OneMax, SteadyStep
<1>00. /\ escrows[o] \in MetEscrow /\ escrows'[o] \in MetEscrow
       /\ escrows[o].amount \in Nat /\ escrows[o].escrow_ends_at \in Nat
       /\ escrows[o].escrow_ends_at <= now + params.max_stake_duration
       /\ escrows[o].is_max_lock \in BOOLEAN
  BY DEF MetTypeOK, MetEscrow, LockInv
<1>1. ASSUME escrows'[o] = escrows[o], now' = now \/ now' = now + 1,
             InitialPhase \/ ~ InitialPhase'
      PROVE  Kept
  BY <1>0, <1>00, <1>1 DEF LockEnd, InitialPhase
<1>2. ASSUME UNCHANGED <<now, expiration, params>>, escrows'[o] = [escrows[o] EXCEPT !.amount = escrows'[o].amount],
             escrows'[o].amount >= escrows[o].amount
      PROVE  Kept
  <2>1. /\ escrows'[o].open = escrows[o].open
        /\ escrows'[o].is_max_lock = escrows[o].is_max_lock
        /\ escrows'[o].escrow_ends_at = escrows[o].escrow_ends_at
    BY <1>00, <1>2 DEF MetEscrow
  <2> QED BY <2>1, <1>0, <1>00, <1>2 DEF LockEnd, InitialPhase
<1>3. ASSUME NEW q \in Owners, NewEscrow(q), UNCHANGED now PROVE Kept
  <2>1. q # o
    BY <1>3 DEF NewEscrow
  <2>2. escrows'[o] = escrows[o]
    BY <1>3, <2>1 DEF NewEscrow, MetTypeOK
  <2> QED BY <1>1, <1>3, <2>2 DEF NewEscrow, InitialPhase
<1>4. ASSUME NEW q \in Owners, NEW a \in 1..TokenSupply, IncreaseLockedAmount(q, a), UNCHANGED now
      PROVE  Kept
  <2>1. a \in Nat
    BY MetAssumption
  <2>2. /\ escrows'[o] = [escrows[o] EXCEPT !.amount = escrows'[o].amount]
        /\ escrows'[o].amount >= escrows[o].amount
    <3>1. CASE q = o
      <4>1. escrows'[o] = [escrows[o] EXCEPT !.amount = escrows[o].amount + a]
        BY <1>4, <3>1 DEF IncreaseLockedAmount, Deposit, MetTypeOK
      <4> QED BY <1>00, <2>1, <4>1 DEF MetEscrow
    <3>2. CASE q # o
      <4>1. escrows'[o] = escrows[o]
        BY <1>4, <3>2 DEF IncreaseLockedAmount, Deposit, MetTypeOK
      <4> QED BY <1>00, <4>1 DEF MetEscrow
    <3> QED BY <3>1, <3>2
  <2> QED BY <1>2, <1>4, <2>2 DEF IncreaseLockedAmount, Deposit
<1>5. ASSUME NEW q \in Owners, NEW d \in 0..params.max_stake_duration, ExtendLockDuration(q, d),
             UNCHANGED now
      PROVE  Kept
  <2>1. CASE q = o
    <3>1. /\ escrows'[o] = [escrows[o] EXCEPT !.escrow_started_at = now, !.escrow_ends_at = now + d]
          /\ ~ escrows[o].is_max_lock /\ ~ InitialPhase /\ UNCHANGED expiration
          /\ now + d >= escrows[o].escrow_ends_at
      BY <1>5, <2>1 DEF ExtendLockDuration, RefreshAllowed, MetTypeOK
    <3>2. /\ escrows'[o].open = escrows[o].open
          /\ escrows'[o].is_max_lock = escrows[o].is_max_lock
          /\ escrows'[o].escrow_ends_at = now + d
          /\ escrows'[o].amount = escrows[o].amount
      BY <1>00, <3>1 DEF MetEscrow
    <3>3. d \in Nat
      BY <1>0
    <3> QED BY <1>0, <1>00, <1>5, <3>1, <3>2, <3>3 DEF LockEnd, InitialPhase
  <2>2. CASE q # o
    <3>1. escrows'[o] = escrows[o]
      BY <1>5, <2>2 DEF ExtendLockDuration, MetTypeOK
    <3> QED BY <1>1, <1>5, <3>1 DEF ExtendLockDuration, InitialPhase
  <2> QED BY <2>1, <2>2
<1>6. ASSUME NEW q \in Owners, NEW b \in BOOLEAN, ToggleMaxLock(q, b), UNCHANGED now PROVE Kept
  <2>1. CASE q = o
    <3>1. /\ ~ InitialPhase /\ UNCHANGED expiration /\ escrows[o].is_max_lock # b
          /\ escrows'[o].is_max_lock = b
          /\ escrows'[o].open = escrows[o].open
          /\ escrows'[o].amount = escrows[o].amount
          /\ ~ b => escrows'[o].escrow_ends_at = now + params.max_stake_duration
      BY <1>6, <2>1 DEF ToggleMaxLock, MetTypeOK, MetEscrow
    <3> QED BY <1>0, <1>00, <1>6, <3>1 DEF LockEnd, InitialPhase
  <2>2. CASE q # o
    <3>1. escrows'[o] = escrows[o]
      BY <1>6, <2>2 DEF ToggleMaxLock, MetTypeOK
    <3> QED BY <1>1, <1>6, <3>1 DEF ToggleMaxLock, InitialPhase
  <2> QED BY <2>1, <2>2
<1>7. ASSUME NEW q \in Owners, Withdraw(q), UNCHANGED now PROVE Kept
  <2>1. q # o
    BY <1>0, <1>00, <1>7 DEF Withdraw, Withdrawable, LockEnd, InitialPhase
  <2>2. escrows'[o] = escrows[o]
    BY <1>7, <2>1 DEF Withdraw, MetTypeOK
  <2> QED BY <1>1, <1>7, <2>2 DEF Withdraw, InitialPhase
<1>8. ASSUME NEW q \in Owners, NEW d \in Delegates, SetVoteDelegate(q, d), UNCHANGED now PROVE Kept
  <2>1. /\ escrows'[o].open = escrows[o].open
        /\ escrows'[o].is_max_lock = escrows[o].is_max_lock
        /\ escrows'[o].escrow_ends_at = escrows[o].escrow_ends_at
        /\ escrows'[o].amount = escrows[o].amount
        /\ UNCHANGED expiration
    BY <1>8 DEF SetVoteDelegate, MetTypeOK, MetEscrow
  <2> QED BY <1>0, <1>00, <1>8, <2>1 DEF LockEnd, InitialPhase
<1>9. ASSUME NEW q \in LockerParams, SetLockerParams(q), UNCHANGED now PROVE Kept
  BY <1>1, <1>9 DEF SetLockerParams, InitialPhase
<1>10. ASSUME NEW x \in Expirations, ChangeLockerExpiration(x), UNCHANGED now PROVE Kept
  BY <1>1, <1>10 DEF ChangeLockerExpiration
<1>11. ASSUME Tick, UNCHANGED metVars PROVE Kept
  BY <1>0, <1>1, <1>11 DEF Tick, metVars, InitialPhase
<1> HIDE DEF Kept
<1>12. Kept
  BY <1>3, <1>4, <1>5, <1>6, <1>7, <1>8, <1>9, <1>10, <1>11
     DEF SteadyStep, MetStep, MetNext, EscrowNext
<1> QED BY <1>12 DEF Kept

\* Held tokens are a natural number of tokens, and no more than the escrow's.
LEMMA HeldIsEscrowed ==
  ASSUME MetTypeOK, NEW o \in Owners, NEW t
  PROVE  HeldUntil(o, t) \in Nat /\ HeldUntil(o, t) <= escrows[o].amount
BY DEF MetTypeOK, MetEscrow, HeldUntil

\* So they are after a step.
LEMMA HeldIsNatNext ==
  ASSUME MetTypeOK', NEW o \in Owners, NEW t
  PROVE  HeldUntil(o, t)' \in Nat
BY DEF MetTypeOK, MetEscrow, HeldUntil

\* A step takes out nothing that is held until an instant still to come.
LEMMA HeldStaysHeld ==
  ASSUME OneMax, MetTypeOK, MetTypeOK', LockInv, SteadyStep \/ UNCHANGED metState,
         NEW o \in Owners, NEW t \in Nat, t > now'
  PROVE  HeldUntil(o, t)' >= HeldUntil(o, t)
<1>1. escrows[o].amount \in Nat /\ escrows'[o].amount \in Nat
  BY DEF MetTypeOK, MetEscrow
<1>2. CASE SteadyStep /\ escrows[o].open /\ LockEnd(escrows[o]) >= t
  <2>1. /\ escrows'[o].open /\ LockEnd(escrows[o])' >= t
        /\ escrows'[o].amount >= escrows[o].amount
    BY <1>2, StepKeepsEscrow
  <2> QED BY <1>1, <1>2, <2>1 DEF HeldUntil
<1>3. CASE ~ (escrows[o].open /\ LockEnd(escrows[o]) >= t)
  BY <1>1, <1>3 DEF HeldUntil
<1>4. CASE UNCHANGED metState
  <2>1. HeldUntil(o, t)' = HeldUntil(o, t)
    BY <1>4 DEF metState, metVars, HeldUntil, LockEnd, InitialPhase
  <2>2. HeldUntil(o, t) \in Nat
    BY HeldIsEscrowed
  <2> QED BY <2>1, <2>2
<1> QED BY <1>2, <1>3, <1>4

\* A new locker has no locks.
LEMMA InitLockInv == MetStart => LockInv
<1> SUFFICES ASSUME MetStart PROVE LockInv
  OBVIOUS
<1>1. \A o \in Owners : escrows[o].escrow_ends_at = 0
  BY DEF MetStart, MetInit, ClosedEscrow
<1>2. now \in Nat /\ params.max_stake_duration \in Nat
  BY InitTyped, MetAssumption DEF MetTypeOK, MetParams
<1> QED BY <1>1, <1>2 DEF LockInv

\* As long as the governor leaves the maximum alone and never moves the
\* expiration back, tokens held until an instant still to come stay held until
\* then, over the launch and whatever their owner does.
THEOREM LockIsAlwaysKept ==
  ASSUME OneMax
  PROVE  SteadySpec => LockIsKept
<1> DEFINE Kept == \A o \in Owners : \A t \in Instants :
                     t > now' => HeldUntil(o, t)' >= HeldUntil(o, t)
           Inv == MetTypeOK /\ LockInv
<1>1. MetStart => Inv
  BY InitTyped, InitLockInv
<1>2. Inv /\ [SteadyStep]_metState => Inv'
  BY NextTyped, NextLockInv DEF SteadyStep
<1>3. Inv /\ Inv' /\ [SteadyStep]_metState => [Kept]_metState
  <2>1. Instants \subseteq Nat
    BY MetAssumption
  <2> QED BY <2>1, HeldStaysHeld
<1>4. SteadySpec => [][Kept]_metState
  <2> HIDE DEF Inv, Kept
  <2> QED BY <1>1, <1>2, <1>3, PTL DEF SteadySpec
<1> QED BY <1>4 DEF LockIsKept

-----------------------------------------------------------------------------
(* met-voter implements locked-voter *)

\* met-voter's escrows as locked-voter keeps them.
AsEscrows == [o \in Owners |-> WithoutUnstaking(escrows[o])]

\* Two escrows of locked-voter with the same fields are the same.
LEMMA SameEscrow ==
  ASSUME NEW r \in Locked!Escrow, NEW s \in Locked!Escrow,
         r.open = s.open, r.amount = s.amount, r.escrow_started_at = s.escrow_started_at,
         r.escrow_ends_at = s.escrow_ends_at, r.vote_delegate = s.vote_delegate,
         r.is_max_lock = s.is_max_lock,
         r.partial_unstaking_amount = s.partial_unstaking_amount
  PROVE  r = s
BY DEF Locked!Escrow

\* An escrow of met-voter is one of locked-voter with no partial unstaking.
LEMMA MapsTyped ==
  ASSUME NEW e \in MetEscrow
  PROVE  WithoutUnstaking(e) \in Locked!Escrow
BY DEF WithoutUnstaking, MetEscrow, Locked!Escrow, Locked!Keys, Keys

\* A new lock leaves the escrow typed.
LEMMA RelockTyped ==
  ASSUME NEW r \in Locked!Escrow, NEW x \in Nat, NEW y \in Nat
  PROVE  [r EXCEPT !.escrow_started_at = x, !.escrow_ends_at = y] \in Locked!Escrow
<1>1. [r EXCEPT !.escrow_started_at = x] \in Locked!Escrow
  BY DEF Locked!Escrow
<1>2. PICK s \in Locked!Escrow : s = [r EXCEPT !.escrow_started_at = x]
  BY <1>1
<1>3. [s EXCEPT !.escrow_ends_at = y] \in Locked!Escrow
  BY DEF Locked!Escrow
<1> QED BY <1>2, <1>3

\* An escrow that differs from an earlier one in its lock alone was locked.
LEMMA Relocked ==
  ASSUME NEW E \in [Owners -> Locked!Escrow], NEW o \in Owners, NEW x \in Nat, NEW y \in Nat,
    NEW F \in [Owners -> Locked!Escrow],
    \A q \in Owners \ {o} : F[q] = E[q],
    F[o].open = E[o].open,
    F[o].amount = E[o].amount,
    F[o].vote_delegate = E[o].vote_delegate,
    F[o].is_max_lock = E[o].is_max_lock,
    F[o].partial_unstaking_amount = E[o].partial_unstaking_amount,
    F[o].escrow_started_at = x,
    F[o].escrow_ends_at = y
  PROVE F = [E EXCEPT ![o].escrow_started_at = x, ![o].escrow_ends_at = y]
<1> DEFINE R == [E[o] EXCEPT !.escrow_started_at = x, !.escrow_ends_at = y]
<1>0. E[o] \in Locked!Escrow
  OBVIOUS
<1>1. R \in Locked!Escrow
  BY <1>0, RelockTyped
<1>2. F[o] = R
  <2>1. /\ R.open = E[o].open /\ R.amount = E[o].amount /\ R.vote_delegate = E[o].vote_delegate
        /\ R.is_max_lock = E[o].is_max_lock
        /\ R.partial_unstaking_amount = E[o].partial_unstaking_amount
        /\ R.escrow_started_at = x /\ R.escrow_ends_at = y
    BY DEF Locked!Escrow
  <2> HIDE DEF R
  <2> QED BY <1>1, <2>1, SameEscrow
<1>3. [E EXCEPT ![o].escrow_started_at = x, ![o].escrow_ends_at = y] = [E EXCEPT ![o] = R]
  BY DEF Locked!Escrow
<1> HIDE DEF R
<1>4. F = [E EXCEPT ![o] = R]
  BY <1>2
<1> QED BY <1>3, <1>4

\* What toggle_max_lock makes of escrows E.
Toggled(E, o, b, x, y) ==
  [E EXCEPT ![o].is_max_lock = b,
            ![o].escrow_started_at = IF b THEN @ ELSE x,
            ![o].escrow_ends_at = IF b THEN @ ELSE y]

\* An escrow that differs from an earlier one as toggle_max_lock makes it was toggled.
LEMMA Retoggled ==
  ASSUME NEW E \in [Owners -> Locked!Escrow], NEW F \in [Owners -> Locked!Escrow],
         NEW o \in Owners, NEW b \in BOOLEAN, NEW x \in Nat, NEW y \in Nat,
         \A q \in Owners \ {o} : F[q] = E[q],
         F[o].open = E[o].open,
         F[o].amount = E[o].amount,
         F[o].vote_delegate = E[o].vote_delegate,
         F[o].partial_unstaking_amount = E[o].partial_unstaking_amount,
         F[o].is_max_lock = b,
         F[o].escrow_started_at = IF b THEN E[o].escrow_started_at ELSE x,
         F[o].escrow_ends_at = IF b THEN E[o].escrow_ends_at ELSE y
  PROVE  F = Toggled(E, o, b, x, y)
<1>1. [E EXCEPT ![o].is_max_lock = b] \in [Owners -> Locked!Escrow]
  BY DEF Locked!Escrow
<1>2. PICK G \in [Owners -> Locked!Escrow] : G = [E EXCEPT ![o].is_max_lock = b]
  BY <1>1
<1>3. /\ \A q \in Owners \ {o} : G[q] = E[q]
      /\ G[o].open = E[o].open
      /\ G[o].amount = E[o].amount
      /\ G[o].vote_delegate = E[o].vote_delegate
      /\ G[o].partial_unstaking_amount = E[o].partial_unstaking_amount
      /\ G[o].is_max_lock = b
      /\ G[o].escrow_started_at = E[o].escrow_started_at
      /\ G[o].escrow_ends_at = E[o].escrow_ends_at
  BY <1>2 DEF Locked!Escrow
<1> DEFINE s == IF b THEN G[o].escrow_started_at ELSE x
           t == IF b THEN G[o].escrow_ends_at ELSE y
<1>4. s \in Nat /\ t \in Nat
  BY DEF Locked!Escrow
<1>5. F[o].escrow_started_at = s /\ F[o].escrow_ends_at = t
  BY <1>3
<1> HIDE DEF s, t
<1>6. F = [G EXCEPT ![o].escrow_started_at = s, ![o].escrow_ends_at = t]
  BY <1>3, <1>4, <1>5, Relocked
<1> QED BY <1>2, <1>6 DEF s, t, Toggled

\* An escrow that differs from an earlier one in its amount alone.
LEMMA Redeposited ==
  ASSUME NEW r \in Locked!Escrow, NEW s \in Locked!Escrow, NEW x \in Nat,
         s.open = r.open, s.amount = x, s.escrow_started_at = r.escrow_started_at,
         s.escrow_ends_at = r.escrow_ends_at, s.vote_delegate = r.vote_delegate,
         s.is_max_lock = r.is_max_lock,
         s.partial_unstaking_amount = r.partial_unstaking_amount
  PROVE  s = [r EXCEPT !.amount = x]
BY DEF Locked!Escrow

\* An escrow that differs from an earlier one in its delegate alone.
LEMMA Redelegated ==
  ASSUME NEW r \in Locked!Escrow, NEW s \in Locked!Escrow, NEW x \in Delegates,
         s.open = r.open, s.amount = r.amount, s.escrow_started_at = r.escrow_started_at,
         s.escrow_ends_at = r.escrow_ends_at, s.vote_delegate = x,
         s.is_max_lock = r.is_max_lock,
         s.partial_unstaking_amount = r.partial_unstaking_amount
  PROVE  s = [r EXCEPT !.vote_delegate = x]
BY DEF Locked!Escrow

\* The escrows before and after a step, as locked-voter keeps them.
LEMMA EscrowsMap ==
  ASSUME MetTypeOK, MetTypeOK'
  PROVE  /\ AsEscrows \in [Owners -> Locked!Escrow]
         /\ AsEscrows' \in [Owners -> Locked!Escrow]
         /\ \A o \in Owners : /\ AsEscrows[o] = WithoutUnstaking(escrows[o])
                              /\ AsEscrows'[o] = WithoutUnstaking(escrows'[o])
BY MapsTyped DEF AsEscrows, MetTypeOK

\* Each instruction of met-voter is, to locked-voter, its own: opening an escrow,
LEMMA NewEscrowMaps ==
  ASSUME MetTypeOK, MetTypeOK', NEW o \in Owners, NewEscrow(o)
  PROVE  Locked!NewEscrow(o)
<1> DEFINE New == [Locked!ClosedEscrow EXCEPT !.open = TRUE, !.vote_delegate = o]
<1>1. /\ AsEscrows \in [Owners -> Locked!Escrow]
      /\ AsEscrows' \in [Owners -> Locked!Escrow]
      /\ \A q \in Owners : /\ AsEscrows[q] = WithoutUnstaking(escrows[q])
                           /\ AsEscrows'[q] = WithoutUnstaking(escrows'[q])
  BY EscrowsMap
<1>2. /\ \A q \in Owners \ {o} : escrows'[q] = escrows[q]
      /\ escrows'[o] = [ClosedEscrow EXCEPT !.open = TRUE, !.vote_delegate = o]
  BY DEF NewEscrow, MetTypeOK
<1>3. AsEscrows'[o] = New
  <2>1. PICK yes \in BOOLEAN : yes = TRUE
    OBVIOUS
  <2>2. PICK z \in Locked!Escrow : z = Locked!ClosedEscrow
    BY DEF Locked!ClosedEscrow, Locked!Escrow, Locked!Keys
  <2>3. PICK y \in MetEscrow : y = ClosedEscrow
    BY ClosedEscrowTyped
  <2>4. /\ z.amount = 0 /\ z.escrow_started_at = 0 /\ z.escrow_ends_at = 0
        /\ z.is_max_lock = FALSE /\ z.partial_unstaking_amount = 0
        /\ y.amount = 0 /\ y.escrow_started_at = 0 /\ y.escrow_ends_at = 0
        /\ y.is_max_lock = FALSE
    BY <2>2, <2>3 DEF ClosedEscrow, Locked!ClosedEscrow
  <2> DEFINE r == [y EXCEPT !.open = yes, !.vote_delegate = o]
             s == [z EXCEPT !.open = yes, !.vote_delegate = o]
  <2>5. /\ r.open = yes /\ r.vote_delegate = o /\ r.is_max_lock = y.is_max_lock
        /\ r.amount = y.amount /\ r.escrow_started_at = y.escrow_started_at
        /\ r.escrow_ends_at = y.escrow_ends_at
    BY DEF MetEscrow
  <2>6. /\ s.open = yes /\ s.vote_delegate = o /\ s.is_max_lock = z.is_max_lock
        /\ s.amount = z.amount /\ s.escrow_started_at = z.escrow_started_at
        /\ s.escrow_ends_at = z.escrow_ends_at
        /\ s.partial_unstaking_amount = z.partial_unstaking_amount
    BY DEF Locked!Escrow
  <2>7. s \in Locked!Escrow
    <3>1. [z EXCEPT !.open = yes] \in Locked!Escrow
      BY DEF Locked!Escrow
    <3>2. PICK x \in Locked!Escrow : x = [z EXCEPT !.open = yes]
      BY <3>1
    <3>3. [x EXCEPT !.vote_delegate = o] \in Locked!Escrow
      BY DEF Locked!Escrow, Locked!Keys
    <3> QED BY <3>2, <3>3
  <2>8. AsEscrows'[o] = WithoutUnstaking(r)
    BY <1>1, <1>2, <2>1, <2>3
  <2> HIDE DEF r, s
  <2>9. AsEscrows'[o] = s
    <3>1. PICK t \in Locked!Escrow : t = AsEscrows'[o]
      BY <1>1
    <3>2. /\ t.open = r.open /\ t.amount = r.amount
          /\ t.escrow_started_at = r.escrow_started_at
          /\ t.escrow_ends_at = r.escrow_ends_at /\ t.vote_delegate = r.vote_delegate
          /\ t.is_max_lock = r.is_max_lock /\ t.partial_unstaking_amount = 0
      BY <2>8, <3>1 DEF WithoutUnstaking
    <3>3. t.open = s.open /\ t.is_max_lock = s.is_max_lock
      BY <2>4, <2>5, <2>6, <3>2, Zenon
    <3>4. /\ t.amount = s.amount /\ t.escrow_started_at = s.escrow_started_at
          /\ t.escrow_ends_at = s.escrow_ends_at /\ t.vote_delegate = s.vote_delegate
          /\ t.partial_unstaking_amount = s.partial_unstaking_amount
      BY <2>4, <2>5, <2>6, <3>2
    <3>5. t = s
      BY <2>7, <3>3, <3>4, SameEscrow
    <3> QED BY <3>1, <3>5
  <2> QED BY <2>1, <2>2, <2>9 DEF s
<1>4. AsEscrows' = [AsEscrows EXCEPT ![o] = New]
  <2> HIDE DEF New
  <2> QED BY <1>1, <1>2, <1>3
<1>5. ~ AsEscrows[o].open
  <2>1. ~ escrows[o].open
    BY DEF NewEscrow
  <2> QED BY <1>1, <2>1 DEF WithoutUnstaking
<1> QED BY <1>4, <1>5 DEF AsEscrows, NewEscrow, Locked!NewEscrow

\* depositing (locked-voter's minimum stake duration being 0),
LEMMA IncreaseMaps ==
  ASSUME MetTypeOK, MetTypeOK', NEW o \in Owners, NEW a \in 1..TokenSupply, IncreaseLockedAmount(o, a)
  PROVE  Locked!IncreaseLockedAmount(o, a)
<1>1. /\ AsEscrows \in [Owners -> Locked!Escrow]
      /\ AsEscrows' \in [Owners -> Locked!Escrow]
      /\ \A q \in Owners : /\ AsEscrows[q] = WithoutUnstaking(escrows[q])
                           /\ AsEscrows'[q] = WithoutUnstaking(escrows'[q])
  BY EscrowsMap
<1>2. AsEscrows' = [AsEscrows EXCEPT ![o].amount = @ + a]
  <2>1. PICK E \in [Owners -> Locked!Escrow], F \in [Owners -> Locked!Escrow] :
          E = AsEscrows /\ F = AsEscrows'
    BY <1>1
  <2>2. /\ escrows' = [escrows EXCEPT ![o].amount = @ + a]
        /\ escrows \in [Owners -> MetEscrow]
    BY DEF IncreaseLockedAmount, Deposit, MetTypeOK
  <2>3. /\ \A q \in Owners \ {o} : escrows'[q] = escrows[q]
        /\ escrows'[o].amount = escrows[o].amount + a
        /\ escrows'[o].open = escrows[o].open
        /\ escrows'[o].escrow_started_at = escrows[o].escrow_started_at
        /\ escrows'[o].escrow_ends_at = escrows[o].escrow_ends_at
        /\ escrows'[o].vote_delegate = escrows[o].vote_delegate
        /\ escrows'[o].is_max_lock = escrows[o].is_max_lock
    BY <2>2 DEF MetEscrow
  <2>4. /\ \A q \in Owners \ {o} : F[q] = E[q]
        /\ F[o].amount = E[o].amount + a
        /\ F[o].open = E[o].open
        /\ F[o].escrow_started_at = E[o].escrow_started_at
        /\ F[o].escrow_ends_at = E[o].escrow_ends_at
        /\ F[o].vote_delegate = E[o].vote_delegate
        /\ F[o].is_max_lock = E[o].is_max_lock
        /\ F[o].partial_unstaking_amount = E[o].partial_unstaking_amount
    BY <1>1, <2>1, <2>3 DEF WithoutUnstaking
  <2>5. E[o].amount + a \in Nat
    BY DEF Locked!Escrow
  <2>6. F[o] = [E[o] EXCEPT !.amount = E[o].amount + a]
    BY <2>4, <2>5, Redeposited
  <2>7. F = [E EXCEPT ![o].amount = @ + a]
    BY <2>4, <2>6
  <2> QED BY <2>1, <2>7
<1>3. /\ AsEscrows[o].open
      /\ Locked!RemainingDuration(AsEscrows[o]) >= 0
  <2>1. escrows[o].open
    BY DEF IncreaseLockedAmount, Deposit, MayDeposit
  <2>2. /\ now \in Nat /\ params.max_stake_duration \in Nat /\ escrows[o].escrow_ends_at \in Nat
        /\ AsLocked(params).max_stake_duration = params.max_stake_duration
    BY MetAssumption DEF MetTypeOK, MetEscrow, MetParams, AsLocked
  <2>3. /\ AsEscrows[o].open = escrows[o].open
        /\ AsEscrows[o].escrow_ends_at = escrows[o].escrow_ends_at
    BY <1>1 DEF WithoutUnstaking
  <2> QED BY <2>1, <2>2, <2>3 DEF Locked!RemainingDuration
<1> QED BY <1>2, <1>3 DEF AsEscrows, IncreaseLockedAmount, Deposit, AsLocked, Locked!IncreaseLockedAmount

\* locking,
LEMMA ExtendMaps ==
  ASSUME MetTypeOK, MetTypeOK', NEW o \in Owners, NEW d \in 0..params.max_stake_duration,
         ExtendLockDuration(o, d)
  PROVE  Locked!ExtendLockDuration(o, d)
<1>1. /\ AsEscrows \in [Owners -> Locked!Escrow]
      /\ AsEscrows' \in [Owners -> Locked!Escrow]
      /\ \A q \in Owners : /\ AsEscrows[q] = WithoutUnstaking(escrows[q])
                           /\ AsEscrows'[q] = WithoutUnstaking(escrows'[q])
  BY EscrowsMap
<1>2. now \in Nat /\ now + d \in Nat
  BY MetAssumption DEF MetTypeOK, MetParams
<1>3. /\ \A q \in Owners \ {o} : escrows'[q] = escrows[q]
      /\ escrows'[o].open = escrows[o].open
      /\ escrows'[o].amount = escrows[o].amount
      /\ escrows'[o].vote_delegate = escrows[o].vote_delegate
      /\ escrows'[o].is_max_lock = escrows[o].is_max_lock
      /\ escrows'[o].escrow_started_at = now
      /\ escrows'[o].escrow_ends_at = now + d
  BY DEF MetTypeOK, ExtendLockDuration, MetEscrow
<1>4. /\ \A q \in Owners \ {o} : AsEscrows'[q] = AsEscrows[q]
      /\ AsEscrows'[o].open = AsEscrows[o].open
      /\ AsEscrows'[o].amount = AsEscrows[o].amount
      /\ AsEscrows'[o].vote_delegate = AsEscrows[o].vote_delegate
      /\ AsEscrows'[o].is_max_lock = AsEscrows[o].is_max_lock
      /\ AsEscrows'[o].partial_unstaking_amount = AsEscrows[o].partial_unstaking_amount
      /\ AsEscrows'[o].escrow_started_at = now
      /\ AsEscrows'[o].escrow_ends_at = now + d
  BY <1>1, <1>3 DEF WithoutUnstaking
<1>5. AsEscrows' = [AsEscrows EXCEPT ![o].escrow_started_at = now, ![o].escrow_ends_at = now + d]
  BY <1>1, <1>2, <1>4, Relocked
<1> QED
  BY <1>5, MetAssumption
     DEF Locked!ExtendLockDuration, Locked!RefreshAllowed, RefreshAllowed, AsLocked, MetTypeOK,
         ExtendLockDuration, AsEscrows, WithoutUnstaking, MetParams

\* toggling the maximum lock,
LEMMA ToggleMaps ==
  ASSUME MetTypeOK, MetTypeOK', NEW o \in Owners, NEW b \in BOOLEAN, ToggleMaxLock(o, b)
  PROVE  Locked!ToggleMaxLock(o, b)
<1> DEFINE y == now + params.max_stake_duration
<1>1. /\ AsEscrows \in [Owners -> Locked!Escrow]
      /\ AsEscrows' \in [Owners -> Locked!Escrow]
      /\ \A q \in Owners : /\ AsEscrows[q] = WithoutUnstaking(escrows[q])
                           /\ AsEscrows'[q] = WithoutUnstaking(escrows'[q])
  BY EscrowsMap
<1>2. now \in Nat /\ y \in Nat
  BY MetAssumption DEF MetTypeOK, MetParams
<1>3. /\ \A q \in Owners \ {o} : escrows'[q] = escrows[q]
      /\ escrows'[o].open = escrows[o].open
      /\ escrows'[o].amount = escrows[o].amount
      /\ escrows'[o].vote_delegate = escrows[o].vote_delegate
      /\ escrows'[o].is_max_lock = b
      /\ escrows'[o].escrow_started_at = IF b THEN escrows[o].escrow_started_at ELSE now
      /\ escrows'[o].escrow_ends_at = IF b THEN escrows[o].escrow_ends_at ELSE y
  BY DEF MetTypeOK, ToggleMaxLock, MetEscrow
<1> HIDE DEF y
<1>4. /\ \A q \in Owners \ {o} : AsEscrows'[q] = AsEscrows[q]
      /\ AsEscrows'[o].open = AsEscrows[o].open
      /\ AsEscrows'[o].amount = AsEscrows[o].amount
      /\ AsEscrows'[o].vote_delegate = AsEscrows[o].vote_delegate
      /\ AsEscrows'[o].is_max_lock = b
      /\ AsEscrows'[o].partial_unstaking_amount = AsEscrows[o].partial_unstaking_amount
      /\ AsEscrows'[o].escrow_started_at = IF b THEN AsEscrows[o].escrow_started_at ELSE now
      /\ AsEscrows'[o].escrow_ends_at = IF b THEN AsEscrows[o].escrow_ends_at ELSE y
  BY <1>1, <1>3 DEF WithoutUnstaking
<1>5. AsEscrows' = Toggled(AsEscrows, o, b, now, y)
  BY <1>1, <1>2, <1>4, Retoggled
<1>6. AsEscrows[o].open /\ AsEscrows[o].is_max_lock # b
  BY <1>1 DEF ToggleMaxLock, WithoutUnstaking
<1>7. AsLocked(params).max_stake_duration = params.max_stake_duration
  BY DEF AsLocked
<1> QED BY <1>5, <1>6, <1>7 DEF y, Toggled, AsEscrows, ToggleMaxLock, Locked!ToggleMaxLock

\* withdrawing (never in the initial phase, whose expiration is still to come),
LEMMA WithdrawMaps ==
  ASSUME MetTypeOK, MetTypeOK', NEW o \in Owners, Withdraw(o)
  PROVE  Locked!Withdraw(o)
<1>1. /\ AsEscrows \in [Owners -> Locked!Escrow]
      /\ AsEscrows' \in [Owners -> Locked!Escrow]
      /\ \A q \in Owners : /\ AsEscrows[q] = WithoutUnstaking(escrows[q])
                           /\ AsEscrows'[q] = WithoutUnstaking(escrows'[q])
  BY EscrowsMap
<1>2. AsEscrows' = [AsEscrows EXCEPT ![o] = Locked!ClosedEscrow]
  <2>1. WithoutUnstaking(ClosedEscrow) = Locked!ClosedEscrow
    BY DEF WithoutUnstaking, ClosedEscrow, Locked!ClosedEscrow
  <2> QED BY <1>1, <2>1 DEF Withdraw, MetTypeOK
<1>3. ~ InitialPhase /\ ~ escrows[o].is_max_lock /\ escrows[o].escrow_ends_at <= now
  BY MetAssumption DEF Withdraw, Withdrawable, InitialPhase, MetTypeOK
<1>4. /\ AsEscrows[o].open /\ Locked!Withdrawable(AsEscrows[o])
      /\ AsEscrows[o].amount = escrows[o].amount
  BY <1>1, <1>3 DEF Withdraw, WithoutUnstaking, Locked!Withdrawable
<1>5. escrows[o].amount <= vault[o]
  BY DEF Withdraw, MetTypeOK
<1> QED BY <1>2, <1>4, <1>5
        DEF AsEscrows, Withdraw, SupplyWithout, Locked!Withdraw, Locked!SupplyWithout

\* and delegating.
LEMMA DelegateMaps ==
  ASSUME MetTypeOK, MetTypeOK', NEW o \in Owners, NEW d \in Delegates, SetVoteDelegate(o, d)
  PROVE  Locked!SetVoteDelegate(o, d)
<1>1. /\ AsEscrows \in [Owners -> Locked!Escrow]
      /\ AsEscrows' \in [Owners -> Locked!Escrow]
      /\ \A q \in Owners : /\ AsEscrows[q] = WithoutUnstaking(escrows[q])
                           /\ AsEscrows'[q] = WithoutUnstaking(escrows'[q])
  BY EscrowsMap
<1>2. AsEscrows' = [AsEscrows EXCEPT ![o].vote_delegate = d]
  <2>1. PICK E \in [Owners -> Locked!Escrow], F \in [Owners -> Locked!Escrow] :
          E = AsEscrows /\ F = AsEscrows'
    BY <1>1
  <2>2. /\ escrows' = [escrows EXCEPT ![o].vote_delegate = d]
        /\ escrows \in [Owners -> MetEscrow]
    BY DEF SetVoteDelegate, MetTypeOK
  <2>3. /\ \A q \in Owners \ {o} : escrows'[q] = escrows[q]
        /\ escrows'[o].vote_delegate = d
        /\ escrows'[o].open = escrows[o].open
        /\ escrows'[o].amount = escrows[o].amount
        /\ escrows'[o].escrow_started_at = escrows[o].escrow_started_at
        /\ escrows'[o].escrow_ends_at = escrows[o].escrow_ends_at
        /\ escrows'[o].is_max_lock = escrows[o].is_max_lock
    BY <2>2 DEF MetEscrow
  <2>4. /\ \A q \in Owners \ {o} : F[q] = E[q]
        /\ F[o].vote_delegate = d
        /\ F[o].open = E[o].open
        /\ F[o].amount = E[o].amount
        /\ F[o].escrow_started_at = E[o].escrow_started_at
        /\ F[o].escrow_ends_at = E[o].escrow_ends_at
        /\ F[o].is_max_lock = E[o].is_max_lock
        /\ F[o].partial_unstaking_amount = E[o].partial_unstaking_amount
    BY <1>1, <2>1, <2>3, SMTT(30) DEF WithoutUnstaking
  <2>6. F[o] = [E[o] EXCEPT !.vote_delegate = d]
    BY <2>4, Redelegated
  <2>7. F = [E EXCEPT ![o].vote_delegate = d]
    BY <2>4, <2>6
  <2> QED BY <2>1, <2>7
<1>3. AsEscrows[o].open
  BY <1>1 DEF SetVoteDelegate, WithoutUnstaking
<1> QED BY <1>2, <1>3 DEF AsEscrows, SetVoteDelegate, Locked!SetVoteDelegate

\* A new locker of met-voter is a new locker of locked-voter.
LEMMA MetStartsAsLocked == MetStart => Locked!LockerStart
<1> SUFFICES ASSUME MetStart PROVE Locked!LockerStart
  OBVIOUS
<1> USE DEF MetStart, MetInit
<1>1. AsEscrows = [o \in Owners |-> Locked!ClosedEscrow]
  BY DEF AsEscrows, WithoutUnstaking, ClosedEscrow, Locked!ClosedEscrow
<1>2. [p \in {} |-> {}] = [p \in {} |-> Locked!ClosedPartial]
  OBVIOUS
<1> QED BY <1>1, <1>2 DEF AsEscrows, Locked!LockerStart, Locked!LockerInit, Locked!ClockInit, ClockInit

\* Every step of met-voter is one of locked-voter; changing the expiration is none.
LEMMA MetStepsAsLocked ==
  MetTypeOK /\ MetTypeOK' /\ [MetStep]_metState => [Locked!LockerStep]_(Locked!lockerState)
<1> SUFFICES ASSUME MetTypeOK, MetTypeOK', [MetStep]_metState
             PROVE  Locked!LockerStep \/ UNCHANGED Locked!lockerState
  OBVIOUS
<1> DEFINE Goal == Locked!LockerStep \/ UNCHANGED Locked!lockerState
<1>0. ASSUME Locked!LockerNext, UNCHANGED now PROVE Goal
  BY <1>0 DEF Locked!LockerStep
<1>1. ASSUME UNCHANGED now, NEW o \in Owners, NewEscrow(o) PROVE Goal
  BY <1>0, <1>1, NewEscrowMaps DEF Locked!LockerNext
<1>2. ASSUME UNCHANGED now, NEW o \in Owners, NEW a \in 1..TokenSupply, IncreaseLockedAmount(o, a)
      PROVE  Goal
  BY <1>0, <1>2, IncreaseMaps DEF Locked!LockerNext
<1>3. ASSUME UNCHANGED now, NEW o \in Owners, NEW d \in 0..params.max_stake_duration,
             ExtendLockDuration(o, d)
      PROVE  Goal
  <2>1. AsLocked(params).max_stake_duration = params.max_stake_duration
    BY DEF AsLocked
  <2> QED BY <1>0, <1>3, <2>1, ExtendMaps DEF Locked!LockerNext
<1>4. ASSUME UNCHANGED now, NEW o \in Owners, NEW b \in BOOLEAN, ToggleMaxLock(o, b) PROVE Goal
  BY <1>0, <1>4, ToggleMaps DEF Locked!LockerNext
<1>5. ASSUME UNCHANGED now, NEW o \in Owners, Withdraw(o) PROVE Goal
  BY <1>0, <1>5, WithdrawMaps DEF Locked!LockerNext
<1>6. ASSUME UNCHANGED now, NEW o \in Owners, NEW d \in Delegates, SetVoteDelegate(o, d) PROVE Goal
  BY <1>0, <1>6, DelegateMaps DEF Locked!LockerNext
<1>7. ASSUME UNCHANGED now, NEW q \in LockerParams, SetLockerParams(q) PROVE Goal
  <2>1. Locked!SetLockerParams(AsLocked(q))
    BY <1>7 DEF SetLockerParams, Locked!SetLockerParams
  <2> QED BY <1>0, <1>7, <2>1 DEF Locked!LockerNext
<1>8. ASSUME UNCHANGED now, NEW t \in Expirations, ChangeLockerExpiration(t) PROVE Goal
  BY <1>8 DEF ChangeLockerExpiration, Locked!lockerState, Locked!lockerVars
<1>9. ASSUME Tick, UNCHANGED metVars PROVE Goal
  BY <1>9 DEF Tick, Locked!Tick, metVars, Locked!lockerVars, Locked!LockerStep
<1>10. CASE UNCHANGED metState
  BY <1>10 DEF metState, metVars, Locked!lockerState, Locked!lockerVars
<1> HIDE DEF Goal
<1>11. ASSUME MetStep PROVE Goal
  BY <1>1, <1>2, <1>3, <1>4, <1>5, <1>6, <1>7, <1>8, <1>9, <1>11 DEF MetStep, MetNext, EscrowNext
<1>12. CASE MetStep
  BY <1>11, <1>12 DEF Goal
<1> QED BY <1>10, <1>12

\* Every deposit, lock and withdrawal of met-voter, in either phase, is one that
\* locked-voter would let happen.
THEOREM MetImplementsLockedVoter == MetSpec => ImplementsLockedVoter
<1>1. MetStart => Locked!LockerStart
  BY MetStartsAsLocked
<1>2. MetTypeOK /\ MetTypeOK' /\ [MetStep]_metState => [Locked!LockerStep]_(Locked!lockerState)
  BY MetStepsAsLocked
<1> QED BY <1>1, <1>2, MetTypeCorrect, PTL DEF MetSpec, ImplementsLockedVoter, Locked!LockerSpec

-----------------------------------------------------------------------------
(* Both programs *)

\* What MetVoter_proofs and Govern_proofs find invariant of either program.
PartsInv ==
  /\ MetTypeOK /\ SupplyAccounted /\ LockInv
  /\ GovernTypeOK /\ TallyInv

\* The governor's and the locker's parameters match.
ParamsMatch == OneMax /\ OneMultiplier /\ StakeOutlastsVoting

\* The programs start together.
LEMMA VotingStartsBoth == VotingInit => MetStart /\ GovernStart
BY DEF VotingInit, MetStart, GovernStart

\* For met-voter, an instruction of govern is a stutter.
LEMMA VotingStepsMet == [VotingNext]_votingState => [MetStep]_metState
BY DEF VotingNext, votingState, MetStep, metState

\* So it is with a wallet that never moves the expiration back.
LEMMA SteadyStepsMet == [SteadyNext]_votingState => SteadyStep \/ UNCHANGED metState
BY DEF SteadyNext, VotingNext, votingState, SteadyStep, MetStep, metState

\* The vote of owner o on proposal p is set to the power his escrow will have.
Casts(p, o, side) ==
  /\ escrows[o].open /\ PowerFits(escrows[o], proposals[p].voting_ends_at)
  /\ FuturePower(escrows[o], proposals[p]) > 0
  /\ SetVote(locker, p, o, side, FuturePower(escrows[o], proposals[p]))

\* The ways a step of the composition changes the governor's accounts.
LEMMA VotingStepsGovern ==
  ASSUME MetTypeOK, GovernTypeOK, [VotingNext]_votingState
  PROVE  /\ now' \in Nat /\ now' >= now
         /\ \/ UNCHANGED governVars
            \/ UNCHANGED now /\ OpenNext
            \/ UNCHANGED now /\ \E p \in Created : ActivateProposal(locker, p)
            \/ UNCHANGED <<now, metVars>>
               /\ \E p \in Created, o \in Owners, side \in Nat : Casts(p, o, side)
<1>0. now \in Nat
  BY DEF MetTypeOK
<1>1. CASE MetNext /\ UNCHANGED governVars /\ UNCHANGED now
  BY <1>0, <1>1
<1>2. CASE Tick /\ UNCHANGED <<metVars, governVars>>
  BY <1>0, <1>2 DEF Tick
<1>3. CASE UNCHANGED votingState
  BY <1>0, <1>3 DEF votingState
<1>4. CASE OpenNext /\ UNCHANGED metVars /\ UNCHANGED now
  BY <1>0, <1>4
<1>5. ASSUME NEW p \in Created, WalletActivates(p) PROVE ActivateProposal(locker, p)
  BY <1>5 DEF WalletActivates, ActivateProposal
<1>6. ASSUME NEW p \in Created, NEW o \in Owners, OwnerActivates(o, p)
      PROVE  ActivateProposal(locker, p)
  BY <1>6 DEF OwnerActivates, ActivateProposal
<1>7. ASSUME NEW p \in Created, NEW o \in Owners, NEW d \in Keys,
             NEW side \in 0..(MAX_OPTION + 1), CastVote(d, o, p, side)
      PROVE  side \in Nat /\ Casts(p, o, side)
  BY <1>7, GovernAssumption DEF CastVote, Casts, SetVote
<1>8. MetCalls => \/ \E p \in Created : ActivateProposal(locker, p)
                  \/ \E p \in Created, o \in Owners, side \in Nat : Casts(p, o, side)
  BY <1>5, <1>6, <1>7 DEF MetCalls
<1>9. CASE MetCalls /\ UNCHANGED metVars /\ UNCHANGED now
  BY <1>0, <1>8, <1>9
<1> QED BY <1>1, <1>2, <1>3, <1>4, <1>9 DEF VotingNext

\* Only an escrow that votes after the launch with a lock has a power that
\* shrinks, and it is a part of the full one.
LEMMA LockPowerIsPart ==
  ASSUME MetTypeOK, ~ InitialPhase, NEW o \in Owners, NEW t \in Nat,
         PowerFits(escrows[o], t)
  PROVE  /\ LockPower(params, escrows[o], t) \in Nat
         /\ LockPower(params, escrows[o], t) <= FullPower(params, escrows[o])
         /\ LockPower(params, escrows[o], t) > 0 /\ ~ escrows[o].is_max_lock
              => t < escrows[o].escrow_ends_at
<1> DEFINE e == escrows[o]
           w == FullPower(params, e)
           left == e.escrow_ends_at - t
           max == params.max_stake_duration
           c == IF left < max THEN left ELSE max
<1>1. /\ e.amount \in Nat /\ e.escrow_ends_at \in Nat
      /\ params.max_stake_vote_multiplier \in Nat /\ max \in Nat
  BY MetAssumption DEF MetTypeOK, MetEscrow, MetParams
<1>2. w \in Nat
  BY <1>1 DEF FullPower
<1>3. ASSUME ~ e.is_max_lock, LockedAt(e, t)
      PROVE  (w * c) \div max \in Nat /\ (w * c) \div max <= w
  <2>1. max > 0
    BY <1>3 DEF PowerFits
  <2>2. c \in Nat /\ c <= max
    BY <1>1, <1>3 DEF LockedAt
  <2> HIDE DEF w, c, max
  <2> QED BY <1>1, <1>2, <2>1, <2>2, PartOfWhole
<1>4. ASSUME ~ e.is_max_lock, ~ LockedAt(e, t) PROVE LockPower(params, e, t) = 0
  BY <1>4 DEF LockPower
<1>5. ASSUME ~ e.is_max_lock, LockedAt(e, t)
      PROVE  LockPower(params, e, t) = (w * c) \div max /\ t < e.escrow_ends_at
  BY <1>5 DEF LockPower, LockedAt
<1>6. e.is_max_lock => LockPower(params, e, t) = w
  BY DEF LockPower
<1> HIDE DEF w, c
<1> QED BY <1>1, <1>2, <1>3, <1>4, <1>5, <1>6 DEF w

\* The power an escrow votes with is a natural number, backed by what it holds
\* until then: before the launch by the whole escrow if it comes no sooner than
\* the voting ends, after it by what is locked until then.
LEMMA PowerIsBacked ==
  ASSUME MetTypeOK, NEW o \in Owners, escrows[o].open,
         NEW t \in Nat, t <= now + params.max_stake_duration, PowerFits(escrows[o], t)
  PROVE  /\ VoterPower(params, escrows[o], t) \in Nat
         /\ VoterPower(params, escrows[o], t) <= Multiplier * HeldUntil(o, t)
<1>1. /\ escrows[o].amount \in Nat /\ escrows[o].escrow_ends_at \in Nat
      /\ escrows[o].is_max_lock \in BOOLEAN /\ expiration \in Nat
      /\ Multiplier \in Nat /\ params.max_stake_duration \in Nat /\ now \in Nat
  BY MetAssumption DEF MetTypeOK, MetEscrow, MetParams, Multiplier
<1>2. /\ FullPower(params, escrows[o]) = Multiplier * escrows[o].amount
      /\ FullPower(params, escrows[o]) \in Nat
  BY <1>1 DEF FullPower, Multiplier
<1>3. HeldUntil(o, t) = 0 => Multiplier * HeldUntil(o, t) = 0
  BY <1>1
<1>4. CASE InitialPhase
  <2>1. CASE expiration <= t
    <3>1. VoterPower(params, escrows[o], t) = 0
      BY <1>4, <2>1 DEF VoterPower, InitialPower
    <3>2. HeldUntil(o, t) \in Nat
      BY HeldIsEscrowed
    <3>3. Multiplier * HeldUntil(o, t) \in Nat
      BY <1>1, <3>2
    <3> QED BY <3>1, <3>3
  <2>2. CASE ~ (expiration <= t)
    <3>1. VoterPower(params, escrows[o], t) = FullPower(params, escrows[o])
      BY <1>4, <2>2 DEF VoterPower, InitialPower
    <3>2. HeldUntil(o, t) = escrows[o].amount
      BY <1>1, <1>4, <2>2 DEF HeldUntil, LockEnd
    <3> QED BY <1>2, <3>1, <3>2
  <2> QED BY <2>1, <2>2
<1>5. CASE ~ InitialPhase
  <2>1. VoterPower(params, escrows[o], t) = LockPower(params, escrows[o], t)
    BY <1>5 DEF VoterPower
  <2>2. /\ LockPower(params, escrows[o], t) \in Nat
        /\ LockPower(params, escrows[o], t) <= FullPower(params, escrows[o])
        /\ LockPower(params, escrows[o], t) > 0 /\ ~ escrows[o].is_max_lock
             => t < escrows[o].escrow_ends_at
    BY <1>5, LockPowerIsPart
  <2>3. CASE LockPower(params, escrows[o], t) = 0
    <3>1. HeldUntil(o, t) \in Nat
      BY HeldIsEscrowed
    <3>2. Multiplier * HeldUntil(o, t) \in Nat
      BY <1>1, <3>1
    <3> QED BY <2>1, <2>3, <3>2
  <2>4. CASE LockPower(params, escrows[o], t) # 0
    <3>1. LockEnd(escrows[o]) >= t
      BY <1>1, <1>5, <2>2, <2>4 DEF LockEnd
    <3>2. HeldUntil(o, t) = escrows[o].amount
      BY <3>1 DEF HeldUntil
    <3> QED BY <1>2, <2>1, <2>2, <3>2
  <2> QED BY <2>3, <2>4
<1> QED BY <1>4, <1>5

\* No vote outlasts a lock taken now: what locks the maximum now is locked
\* until every voting that has begun is over.
EndsWithinLock ==
  \A p \in Created : proposals[p].activated_at # 0 =>
    proposals[p].voting_ends_at <= now + params.max_stake_duration

\* A vote is cast with a natural number, backed by what is held until the end.
LEMMA CastPower ==
  ASSUME PartsInv, EndsWithinLock, NEW p \in Created, NEW o \in Owners, NEW side,
         Casts(p, o, side), NEW t \in Nat, t = proposals[p].voting_ends_at
  PROVE  /\ FuturePower(escrows[o], proposals[p]) \in Nat
         /\ FuturePower(escrows[o], proposals[p]) <= Multiplier * HeldUntil(o, t)
<1>1. proposals[p].activated_at # 0
  BY DEF Casts, SetVote, State
<1>2. t <= now + params.max_stake_duration
  BY <1>1 DEF EndsWithinLock
<1> QED BY <1>2, PowerIsBacked DEF PartsInv, Casts, FuturePower

\* A power is a natural number, whatever the parameters are.
LEMMA PowerIsNat ==
  ASSUME MetTypeOK, NEW o \in Owners, NEW t \in Nat, PowerFits(escrows[o], t)
  PROVE  VoterPower(params, escrows[o], t) \in Nat
<1>1. FullPower(params, escrows[o]) \in Nat
  BY MetAssumption DEF MetTypeOK, MetEscrow, MetParams, FullPower
<1>2. CASE InitialPhase
  BY <1>1, <1>2 DEF VoterPower, InitialPower
<1>3. CASE ~ InitialPhase
  BY <1>3, LockPowerIsPart DEF VoterPower
<1> QED BY <1>2, <1>3

\* What the composition does with the governor is what a locker may do.
LEMMA VotingCallsGovern ==
  ASSUME MetTypeOK, GovernTypeOK, [VotingNext]_votingState
  PROVE  Called
<1>1. ASSUME NEW p \in Created, NEW o \in Owners, NEW side \in Nat, Casts(p, o, side)
      PROVE  \E power \in Nat : o \in Voters /\ SetVote(locker, p, o, side, power)
  <2> DEFINE power == FuturePower(escrows[o], proposals[p])
  <2>1. proposals[p].voting_ends_at \in Nat
    BY CreatedAreIds DEF Proposal
  <2>2. power \in Nat
    BY <1>1, <2>1, PowerIsNat DEF Casts, FuturePower
  <2>3. SetVote(locker, p, o, side, power)
    BY <1>1 DEF Casts
  <2> HIDE DEF power
  <2> QED BY <2>2, <2>3, VotingAssumption
<1>2. (\E p \in Created, o \in Owners, side \in Nat : Casts(p, o, side)) =>
        \E p \in Created, v \in Voters, side \in Nat, power \in Nat :
          SetVote(locker, p, v, side, power)
  BY <1>1
<1> QED BY <1>2, VotingStepsGovern DEF Called

\* met-voter is a locker of the governor's open world, whatever the parameters
\* of the two programs are and wherever the wallet moves the expiration.
LEMMA VotingIsOfOpenWorld == VotingSpec => OpenWorldSpec
<1> DEFINE Inv == MetTypeOK /\ GovernTypeOK /\ TallyInv
<1>1. VotingInit => Inv /\ GovernStart
  BY VotingStartsBoth, InitTyped, GovernInitTyped, GovernInitTally
<1>2. Inv /\ [VotingNext]_votingState => Inv'
  BY VotingStepsMet, NextTyped, VotingCallsGovern, CalledKeeps
<1>3. Inv /\ [VotingNext]_votingState => [OpenWorldStep]_governState
  <2> SUFFICES ASSUME Inv, [VotingNext]_votingState PROVE [OpenWorldStep]_governState
    OBVIOUS
  <2>1. UNCHANGED now \/ (Tick /\ UNCHANGED governVars)
    BY DEF VotingNext, votingState
  <2> QED BY <2>1, VotingCallsGovern, CalledIsOpenWorldStep
<1> QED BY <1>1, <1>2, <1>3, PTL DEF VotingSpec, OpenWorldSpec

\* So a governor whose locker is met-voter keeps everything it promises its
\* voters, be the vote before, at or after the launch: even where moving the
\* expiration lets a token vote twice, the votes are counted as they were cast.
THEOREM MetVotingKeepsPromises ==
  VotingSpec => /\ [](TallyAccounted /\ QueuedProposalsPassed /\ RewardsAccounted)
                /\ OutcomeIsFinal
                /\ ImplementsBallot
BY VotingIsOfOpenWorld, TallyAlwaysAccounted, QueuedProposalsAlwaysPassed,
   RewardsAlwaysAccounted, OutcomeIsAlwaysFinal, GovernImplementsBallot, PTL

\* What met-voter does in the composition it does alone.
LEMMA VotingIsOfMet == VotingSpec => MetSpec
<1>1. VotingInit => MetStart
  BY VotingStartsBoth
<1> QED BY <1>1, VotingStepsMet, PTL DEF VotingSpec, MetSpec

\* So voting moves no tokens and unlocks none: met-voter's books stay right
\* while its escrows are voted with, and it still is a locked-voter.
THEOREM VotingKeepsBooks ==
  VotingSpec => [](SupplyAccounted /\ LaunchFindsNoLocks) /\ ImplementsLockedVoter
BY VotingIsOfMet, MetSupplyAlwaysAccounted, LaunchAlwaysFindsNoLocks,
   MetImplementsLockedVoter, PTL

\* And a vote shortens no lock, if the governor leaves the maximum alone and
\* never moves the expiration back.
THEOREM VotingKeepsLocks ==
  ASSUME OneMax
  PROVE  SteadyVotingSpec => LockIsKept
<1>1. VotingInit => MetStart
  BY VotingStartsBoth
<1>2. [SteadyNext]_votingState => [SteadyStep]_metState
  BY SteadyStepsMet DEF votingState, metState
<1>3. SteadyVotingSpec => SteadySpec
  BY <1>1, <1>2, PTL DEF SteadyVotingSpec, SteadySpec
<1> QED BY <1>3, LockIsAlwaysKept, PTL

\* Each program keeps in the composition what it keeps alone.
LEMMA NextParts ==
  ASSUME OneMax, PartsInv, EndsWithinLock, [VotingNext]_votingState
  PROVE  PartsInv'
<1>1. [MetStep]_metState
  BY VotingStepsMet
<1>2. MetTypeOK'
  BY <1>1, NextTyped DEF PartsInv
<1>3. SupplyAccounted'
  BY <1>1, <1>2, NextAccounts DEF PartsInv
<1>4. LockInv'
  BY <1>1, NextLockInv DEF PartsInv
<1>5. GovernTypeOK' /\ TallyInv'
  BY VotingCallsGovern, CalledKeeps DEF PartsInv
<1> QED BY <1>2, <1>3, <1>4, <1>5 DEF PartsInv

-----------------------------------------------------------------------------
(* One token, one vote *)

BackedInv == PartsInv /\ EndsWithinLock /\ VotesAreBacked

\* The constants the parameters agree on do not change.
LEMMA MatchedParams ==
  ASSUME ParamsMatch, MetTypeOK, MetTypeOK'
  PROVE  /\ params'.max_stake_duration = params.max_stake_duration
         /\ Multiplier' = Multiplier
         /\ params.max_stake_duration \in Nat /\ Multiplier \in Nat
BY MetAssumption DEF ParamsMatch, OneMax, OneMultiplier, MetTypeOK, MetParams, Multiplier

\* Every step keeps each voting within a lock taken now.
LEMMA NextEnds ==
  ASSUME ParamsMatch, PartsInv, PartsInv', EndsWithinLock, [VotingNext]_votingState
  PROVE  EndsWithinLock'
<1> USE DEF PartsInv
<1>1. PICK most \in Nat : most = params.max_stake_duration
  BY MatchedParams
<1>2. params'.max_stake_duration = most
  BY <1>1, MatchedParams
<1>3. \A g \in GovernanceParams : g.voting_period <= most
  BY <1>1, MetAssumption, GovernAssumption
     DEF ParamsMatch, StakeOutlastsVoting, MetTypeOK, MetParams, GovernanceParameters
<1>4. \A p \in Created : proposals[p].activated_at # 0 =>
                            proposals[p].voting_ends_at <= now + most
  BY <1>1 DEF EndsWithinLock
<1>5. \A p \in Created' : proposals'[p].activated_at # 0 =>
                             proposals'[p].voting_ends_at <= now' + most
  BY <1>3, <1>4, VotingCallsGovern, EndsKept
<1> QED BY <1>2, <1>5 DEF EndsWithinLock

\* The instant a voting ends is a number, in the next state as well.
LEMMA HeldAtEnd ==
  ASSUME NEW o, NEW p, NEW t, proposals'[p].voting_ends_at = t
  PROVE  HeldUntil(o, proposals[p].voting_ends_at)' = HeldUntil(o, t)'
BY DEF HeldUntil

\* A vote that a step leaves alone stays backed.
LEMMA BackingKept ==
  ASSUME ParamsMatch, PartsInv, PartsInv', VotesAreBacked, [SteadyNext]_votingState,
         NEW p \in Created', State(proposals[p])' = "Active", NEW o \in Owners, VoteKept(p, o)
  PROVE  votes'[p][o].voting_power
           <= Multiplier' * HeldUntil(o, proposals[p].voting_ends_at)'
<1> USE DEF PartsInv
<1> DEFINE w == votes[p][o].voting_power
<1>1. /\ p \in Created /\ votes'[p][o].voting_power = w
      /\ proposals'[p].voting_ends_at = proposals[p].voting_ends_at
  BY DEF VoteKept
<1>2. proposals[p].voting_ends_at \in Nat /\ w \in Nat
  BY <1>1, CreatedAreIds, VotingAssumption DEF GovernTypeOK, Proposal, Vote
<1>3. PICK t \in Nat : t = proposals[p].voting_ends_at
  BY <1>2
<1>4. t > now'
  BY <1>1, <1>3 DEF State, MetTypeOK
<1>5. Multiplier' = Multiplier /\ Multiplier \in Nat
  BY MatchedParams
<1>6. w <= Multiplier * HeldUntil(o, t)
  BY <1>1, <1>3 DEF VotesAreBacked, VoteKept
<1>7. HeldUntil(o, t)' >= HeldUntil(o, t)
  BY <1>4, SteadyStepsMet, HeldStaysHeld DEF ParamsMatch
<1>8. HeldUntil(o, t) \in Nat /\ HeldUntil(o, t)' \in Nat
  BY HeldIsEscrowed, HeldIsNatNext
<1>9. /\ Multiplier * HeldUntil(o, t) \in Nat /\ Multiplier * HeldUntil(o, t)' \in Nat
      /\ Multiplier * HeldUntil(o, t) <= Multiplier * HeldUntil(o, t)'
  BY <1>5, <1>7, <1>8, ProductGrows
<1>10. HeldUntil(o, proposals[p].voting_ends_at)' = HeldUntil(o, t)'
  BY <1>1, <1>3, HeldAtEnd
<1> HIDE DEF w
<1> QED BY <1>1, <1>2, <1>5, <1>6, <1>9, <1>10

\* Every step keeps the votes backed, whichever phase they were cast in.
LEMMA NextBacked ==
  ASSUME ParamsMatch, PartsInv, PartsInv', EndsWithinLock, VotesAreBacked,
         [SteadyNext]_votingState
  PROVE  VotesAreBacked'
<1> SUFFICES ASSUME NEW p \in Created', State(proposals[p])' = "Active", NEW o \in Owners
             PROVE  votes'[p][o].voting_power
                      <= Multiplier' * HeldUntil(o, proposals[p].voting_ends_at)'
  BY DEF VotesAreBacked
<1> DEFINE Goal == votes'[p][o].voting_power
                     <= Multiplier' * HeldUntil(o, proposals[p].voting_ends_at)'
<1> USE DEF PartsInv
<1>1. votes'[p][o].voting_power = 0 => Goal
  <2>1. PICK t \in Nat : t = proposals'[p].voting_ends_at
    BY DEF GovernTypeOK, Proposal
  <2>2. HeldUntil(o, proposals[p].voting_ends_at)' \in Nat
    BY <2>1, HeldIsNatNext, HeldAtEnd
  <2>3. Multiplier' \in Nat
    BY MatchedParams
  <2> QED BY <2>2, <2>3
<1>2. VoteKept(p, o) => Goal
  BY BackingKept
<1>3. o \in Voters /\ [VotingNext]_votingState
  BY VotingAssumption DEF SteadyNext
<1>4. ASSUME \/ UNCHANGED governVars
             \/ UNCHANGED now /\ OpenNext
             \/ UNCHANGED now /\ \E r \in Created : ActivateProposal(locker, r)
      PROVE  Goal
  <2>1. votes'[p][o].voting_power = 0 \/ VoteKept(p, o)
    BY <1>3, <1>4, VotingCallsGovern, VotesStand
  <2> QED BY <1>1, <1>2, <2>1
<1>5. ASSUME UNCHANGED <<now, metVars>>, NEW r \in Created, NEW u \in Owners,
             NEW side \in Nat, Casts(r, u, side)
      PROVE  Goal
  <2>1. PICK t \in Nat : t = proposals[r].voting_ends_at
    BY CreatedAreIds DEF Proposal
  <2>2. PICK power \in Nat : power = FuturePower(escrows[u], proposals[r])
    BY <1>5, <2>1, CastPower
  <2>3. power <= Multiplier * HeldUntil(u, t)
    BY <1>5, <2>1, <2>2, CastPower
  <2>4. SetVote(locker, r, u, side, power) /\ u \in Voters
    BY <1>5, <2>2, VotingAssumption DEF Casts
  <2>5. \/ VoteKept(p, o)
        \/ /\ p = r /\ o = u
           /\ proposals'[p].activated_at = proposals[p].activated_at
           /\ proposals'[p].voting_ends_at = proposals[p].voting_ends_at
           /\ votes'[p][o].voting_power = power
    BY <1>3, <1>5, <2>4, OneVoteReported
  <2>6. HeldUntil(u, t)' = HeldUntil(u, t)
    BY <1>5 DEF metVars, HeldUntil, LockEnd, InitialPhase
  <2>7. Multiplier' = Multiplier
    BY MatchedParams
  <2>8. ASSUME p = r, o = u,
               proposals'[r].voting_ends_at = proposals[r].voting_ends_at,
               votes'[p][o].voting_power = power
        PROVE  Goal
    <3>1. HeldUntil(o, proposals[p].voting_ends_at)' = HeldUntil(u, t)'
      BY <2>1, <2>8, HeldAtEnd
    <3> QED BY <2>3, <2>6, <2>7, <2>8, <3>1
  <2> HIDE DEF Goal
  <2> QED BY <1>2, <2>5, <2>8
<1> HIDE DEF Goal
<1>6. Goal
  BY <1>3, <1>4, <1>5, VotingStepsGovern
<1> QED BY <1>6 DEF Goal

\* All votes of a voting together are at most the multiplier times the supply:
\* they are backed by different tokens.
LEMMA BackedVotesFit ==
  ASSUME PartsInv, VotesAreBacked, Multiplier \in Nat,
         NEW p \in Created, State(proposals[p]) = "Active"
  PROVE  TotalVotes(proposals[p]) <= Multiplier * TokenSupply
<1> USE DEF PartsInv
<1> DEFINE t == proposals[p].voting_ends_at
           g == [o \in Owners |-> escrows[o].amount]
<1>1. Voters = Owners
  BY VotingAssumption
<1>2. ASSUME NEW o \in Owners
      PROVE  g[o] \in Nat /\ votes[p][o].voting_power <= Multiplier * g[o]
  <2>1. votes[p][o].voting_power \in Nat
    BY <1>1, CreatedAreIds DEF GovernTypeOK, Vote
  <2>2. escrows[o].amount \in Nat
    BY DEF MetTypeOK, MetEscrow
  <2>3. HeldUntil(o, t) \in Nat /\ HeldUntil(o, t) <= escrows[o].amount
    BY HeldIsEscrowed
  <2>4. votes[p][o].voting_power <= Multiplier * HeldUntil(o, t)
    BY DEF VotesAreBacked
  <2>5. /\ Multiplier * HeldUntil(o, t) \in Nat
        /\ Multiplier * escrows[o].amount \in Nat
        /\ Multiplier * HeldUntil(o, t) <= Multiplier * escrows[o].amount
    BY <2>2, <2>3, ProductGrows
  <2> HIDE DEF t
  <2> QED BY <2>1, <2>2, <2>4, <2>5
<1>3. SumFunctionOnSet(g, Owners) = locked_supply
  BY DEF SupplyAccounted, TotalEscrowed
<1>4. /\ TotalVotes(proposals[p]) \in Nat
      /\ TotalVotes(proposals[p]) <= Multiplier * SumFunctionOnSet(g, Owners)
  <2> HIDE DEF g
  <2> QED BY <1>1, <1>2, VotesWithin
<1>5. locked_supply \in Nat /\ TokenSupply \in Nat /\ locked_supply <= TokenSupply
  BY MetAssumption DEF MetTypeOK, SupplyAccounted
<1>6. /\ Multiplier * locked_supply \in Nat /\ Multiplier * TokenSupply \in Nat
      /\ Multiplier * locked_supply <= Multiplier * TokenSupply
  BY <1>5, ProductGrows
<1> HIDE DEF g
<1> QED BY <1>3, <1>4, <1>6

\* The bound of NoTokenVotesTwice while the voting lasts.
ActiveVotesFit ==
  \A p \in Created : State(proposals[p]) = "Active" =>
    TotalVotes(proposals[p]) <= Multiplier * TokenSupply

\* The bound outlasts the voting.
LEMMA NextTotals ==
  ASSUME ParamsMatch, PartsInv, PartsInv', EndsWithinLock, ActiveVotesFit', NoTokenVotesTwice,
         [VotingNext]_votingState
  PROVE  NoTokenVotesTwice'
<1> USE DEF PartsInv
<1>1. Multiplier' = Multiplier /\ Multiplier * TokenSupply \in Nat
  BY MatchedParams, MetAssumption
<1>2. PICK most \in Nat : most = Multiplier * TokenSupply
  BY <1>1
<1>3. \A p \in Created : TotalVotes(proposals[p]) <= most
  BY <1>2 DEF NoTokenVotesTwice
<1>4. \A p \in Created' : State(proposals[p])' = "Active" => TotalVotes(proposals'[p]) <= most
  BY <1>1, <1>2 DEF ActiveVotesFit, TotalVotes
<1>5. \A p \in Created' : TotalVotes(proposals'[p]) <= most
  BY <1>3, <1>4, VotingCallsGovern, TotalsKept
<1> QED BY <1>1, <1>2, <1>5 DEF NoTokenVotesTwice, TotalVotes

\* The invariant holds of a new locker and a new governor.
LEMMA InitBacked == VotingInit => BackedInv /\ NoTokenVotesTwice
<1> SUFFICES ASSUME VotingInit PROVE BackedInv /\ NoTokenVotesTwice
  OBVIOUS
<1>1. MetStart /\ GovernStart
  BY VotingStartsBoth
<1>2. PartsInv
  BY <1>1, InitTyped, InitAccounts, InitLockInv, GovernInitTyped, GovernInitTally DEF PartsInv
<1>3. Created = {}
  BY <1>1 DEF GovernStart, GovernInit, Created
<1> QED BY <1>2, <1>3 DEF BackedInv, EndsWithinLock, VotesAreBacked, NoTokenVotesTwice

\* BackedInv is inductive, if the parameters match and the expiration is never
\* moved back.
LEMMA BackedAlways ==
  ASSUME ParamsMatch
  PROVE  SteadyVotingSpec => []BackedInv
<1>1. VotingInit => BackedInv
  BY InitBacked
<1>2. BackedInv /\ [SteadyNext]_votingState => BackedInv'
  <2> SUFFICES ASSUME BackedInv, [SteadyNext]_votingState PROVE BackedInv'
    OBVIOUS
  <2> USE DEF BackedInv
  <2>1. OneMax /\ [VotingNext]_votingState
    BY DEF ParamsMatch, SteadyNext
  <2>2. PartsInv'
    BY <2>1, NextParts
  <2>3. EndsWithinLock'
    BY <2>1, <2>2, NextEnds
  <2>4. VotesAreBacked'
    BY <2>2, NextBacked
  <2> QED BY <2>2, <2>3, <2>4
<1> QED BY <1>1, <1>2, PTL DEF SteadyVotingSpec

\* Every vote on a proposal that is still voted on is backed by tokens that
\* nobody can take out until its voting ends, whichever phase it was cast in,
\* if the governor keeps the maximum lock and the multiplier, the maximum lock
\* is no shorter than a voting, and the expiration is never moved back.
THEOREM VotesAlwaysBacked ==
  ASSUME ParamsMatch
  PROVE  SteadyVotingSpec => []VotesAreBacked
<1>1. BackedInv => VotesAreBacked
  BY DEF BackedInv
<1> QED BY <1>1, BackedAlways, PTL

\* One token, one vote: under the same conditions all votes on a proposal,
\* before and after the launch, weigh at most the multiplier times the tokens
\* of the mint, whichever escrows the tokens pass through.
THEOREM NoTokenEverVotesTwice ==
  ASSUME ParamsMatch
  PROVE  SteadyVotingSpec => []NoTokenVotesTwice
<1>1. BackedInv => PartsInv /\ EndsWithinLock /\ ActiveVotesFit
  <2> SUFFICES ASSUME BackedInv PROVE PartsInv /\ EndsWithinLock /\ ActiveVotesFit
    OBVIOUS
  <2>1. Multiplier \in Nat
    BY MetAssumption DEF BackedInv, PartsInv, MetTypeOK, MetParams, Multiplier
  <2> QED BY <2>1, BackedVotesFit DEF BackedInv, ActiveVotesFit
<1>2. PartsInv /\ PartsInv' /\ EndsWithinLock /\ ActiveVotesFit' /\ NoTokenVotesTwice
        /\ [SteadyNext]_votingState => NoTokenVotesTwice'
  BY NextTotals DEF SteadyNext
<1>3. VotingInit => NoTokenVotesTwice
  BY InitBacked
<1> QED BY <1>1, <1>2, <1>3, BackedAlways, PTL DEF SteadyVotingSpec

=============================================================================
