------------------------- MODULE LockedVoter_proofs -------------------------
(***************************************************************************)
(* Proofs about LockedVoter and LockedVoting, for every set of owners,     *)
(* parameters, supply, proposals and bounds that their assumptions admit.  *)
(* A step of the composition is a step or a stutter of locked-voter, and   *)
(* one of the instructions of govern, so that the lemmas about each        *)
(* program apply: first those about locked-voter, then those about both.   *)
(***************************************************************************)
EXTENDS LockedVoting, Govern_proofs


\* get_remaining_duration_until_expiration never underflows: what is left of a
\* lock is a natural number.
LEMMA RemainingDurationIsNat ==
  ASSUME LockerTypeOK, NEW e \in Escrow
  PROVE  RemainingDuration(e) \in Nat
BY LockerAssumption DEF LockerTypeOK, RemainingDuration, Escrow, ParamsType

\* The zeroes of an account that is not open are values of its type.
LEMMA ClosedAccountsAreTyped == ClosedEscrow \in Escrow /\ ClosedPartial \in PartialUnstaking
BY DEF ClosedEscrow, ClosedPartial, Escrow, PartialUnstaking, Keys

\* new_locker leaves a well-typed state.
LEMMA InitTyped == LockerStart => LockerTypeOK
BY LockerAssumption, ClosedAccountsAreTyped DEF LockerStart, ClockInit, LockerInit, LockerTypeOK

\* No instruction, and no passing of time, leaves an account outside its type.
LEMMA NextTyped == LockerTypeOK /\ [LockerStep]_lockerState => LockerTypeOK'
<1> SUFFICES ASSUME LockerTypeOK, [LockerStep]_lockerState PROVE LockerTypeOK'
  OBVIOUS
<1> USE LockerAssumption DEF LockerTypeOK
<1>1. ASSUME UNCHANGED now, NEW o \in Owners, NewEscrow(o)
      PROVE  LockerTypeOK'
  <2>1. [ClosedEscrow EXCEPT !.open = TRUE, !.vote_delegate = o] \in Escrow
    BY DEF ClosedEscrow, Escrow, Keys
  <2>2. escrows' \in [Owners -> Escrow]
    BY <1>1, <2>1 DEF NewEscrow
  <2> QED BY <1>1, <2>2 DEF NewEscrow
<1>2. ASSUME UNCHANGED now, NEW o \in Owners, NEW a \in 1..TokenSupply, IncreaseLockedAmount(o, a)
      PROVE  LockerTypeOK'
  BY <1>2 DEF IncreaseLockedAmount, Escrow
<1>3. ASSUME UNCHANGED now, NEW o \in Owners, NEW d \in 0..params.max_stake_duration, ExtendLockDuration(o, d)
      PROVE  LockerTypeOK'
  <2>1. now + d \in Nat
    BY DEF ParamsType
  <2>2. [escrows[o] EXCEPT !.escrow_started_at = now, !.escrow_ends_at = now + d] \in Escrow
    BY <2>1 DEF Escrow
  <2>3. escrows' \in [Owners -> Escrow]
    BY <1>3, <2>2 DEF ExtendLockDuration, RefreshAllowed
  <2> QED BY <1>3, <2>3 DEF ExtendLockDuration, RefreshAllowed
<1>4. ASSUME UNCHANGED now, NEW o \in Owners, NEW b \in BOOLEAN, ToggleMaxLock(o, b)
      PROVE  LockerTypeOK'
  <2>1. now + params.max_stake_duration \in Nat
    BY DEF ParamsType
  <2>2. /\ [escrows[o] EXCEPT !.is_max_lock = TRUE] \in Escrow
        /\ [escrows[o] EXCEPT !.is_max_lock = FALSE, !.escrow_started_at = now,
                              !.escrow_ends_at = now + params.max_stake_duration] \in Escrow
    BY <2>1 DEF Escrow
  <2>3. escrows' = [escrows EXCEPT ![o] =
          IF b THEN [escrows[o] EXCEPT !.is_max_lock = TRUE]
          ELSE [escrows[o] EXCEPT !.is_max_lock = FALSE, !.escrow_started_at = now,
                                  !.escrow_ends_at = now + params.max_stake_duration]]
    BY <1>4 DEF ToggleMaxLock, Escrow
  <2>4. escrows' \in [Owners -> Escrow]
    BY <2>2, <2>3
  <2> QED BY <1>4, <2>4 DEF ToggleMaxLock
<1>5. ASSUME UNCHANGED now, NEW o \in Owners, Withdraw(o)
      PROVE  LockerTypeOK'
  BY <1>5, ClosedAccountsAreTyped DEF Withdraw, Withdrawable, SupplyWithout, Escrow
<1>6. ASSUME UNCHANGED now, NEW o \in Owners, NEW p \in PartialIds, NEW a \in 1..TokenSupply,
             OpenPartialUnstaking(o, p, a)
      PROVE  LockerTypeOK'
  <2>1. now + RemainingDuration(escrows[o]) \in Nat
    BY RemainingDurationIsNat
  <2> QED BY <1>6, <2>1 DEF OpenPartialUnstaking, Unstakable, PartialExpiration, Escrow, PartialUnstaking
<1>7. ASSUME UNCHANGED now, NEW o \in Owners, NEW p \in PartialIds, MergePartialUnstaking(o, p)
      PROVE  LockerTypeOK'
  <2>1. /\ partials[p].amount \in Nat
        /\ escrows[o].amount + partials[p].amount \in Nat
        /\ escrows[o].partial_unstaking_amount - partials[p].amount \in Nat
    BY <1>7 DEF MergePartialUnstaking, Escrow, PartialUnstaking
  <2>2. [escrows[o] EXCEPT !.amount = @ + partials[p].amount,
                           !.partial_unstaking_amount = @ - partials[p].amount] \in Escrow
    BY <2>1 DEF Escrow
  <2>3. escrows' \in [Owners -> Escrow]
    BY <1>7, <2>2 DEF MergePartialUnstaking
  <2> QED BY <1>7, <2>3, ClosedAccountsAreTyped DEF MergePartialUnstaking
<1>8. ASSUME UNCHANGED now, NEW o \in Owners, NEW p \in PartialIds, WithdrawPartialUnstaking(o, p)
      PROVE  LockerTypeOK'
  BY <1>8, ClosedAccountsAreTyped DEF WithdrawPartialUnstaking, SupplyWithout, Escrow, PartialUnstaking
<1>9. ASSUME UNCHANGED now, NEW o \in Owners, NEW d \in Delegates, SetVoteDelegate(o, d)
      PROVE  LockerTypeOK'
  BY <1>9 DEF SetVoteDelegate, Escrow, Keys
<1>10. ASSUME UNCHANGED now, NEW q \in LockerParams, SetLockerParams(q)
       PROVE  LockerTypeOK'
  BY <1>10 DEF SetLockerParams
<1>11. ASSUME Tick, UNCHANGED lockerVars
       PROVE  LockerTypeOK'
  BY <1>11 DEF Tick, lockerVars
<1>12. CASE UNCHANGED lockerState
  BY <1>12 DEF lockerState, lockerVars
<1> QED
  BY <1>1, <1>2, <1>3, <1>4, <1>5, <1>6, <1>7, <1>8, <1>9, <1>10, <1>11, <1>12
     DEF LockerStep, LockerNext

\* Type correctness: no amount, supply or balance ever goes below zero.
THEOREM LockerTypeCorrect == LockerSpec => []LockerTypeOK
<1>1. LockerStart => LockerTypeOK
  BY InitTyped
<1>2. LockerTypeOK /\ [LockerStep]_lockerState => LockerTypeOK'
  BY NextTyped
<1> QED BY <1>1, <1>2, PTL DEF LockerSpec

-----------------------------------------------------------------------------
(* Accounting *)

\* A closed escrow has nothing left, an open partial unstaking has something.
AccountsInUse ==
  /\ \A o \in Owners : ~ escrows[o].open => EscrowTokens(escrows[o]) = 0
  /\ \A p \in PartialIds : partials[p].open =>
       partials[p].escrow \in Owners /\ partials[p].amount > 0

AccountsInv == PartialsAccounted /\ SupplyAccounted /\ AccountsInUse

\* When one escrow changes, the total of all escrows changes by the difference.
LEMMA EscrowedChange ==
  ASSUME LockerTypeOK, LockerTypeOK', NEW o \in Owners,
         \A q \in Owners \ {o} : escrows'[q] = escrows[q]
  PROVE  TotalEscrowed' = TotalEscrowed - EscrowTokens(escrows[o]) + EscrowTokens(escrows'[o])
<1> DEFINE f == [q \in Owners |-> EscrowTokens(escrows[q])]
           g == [q \in Owners |-> EscrowTokens(escrows'[q])]
<1>1. \A q \in Owners : f[q] \in Int /\ g[q] \in Int
  BY DEF LockerTypeOK, Escrow, EscrowTokens
<1>2. \A q \in Owners \ {o} : f[q] = g[q]
  OBVIOUS
<1>3. IsFiniteSet(Owners)
  BY LockerAssumption
<1>4. SumFunctionOnSet(g, Owners) = SumFunctionOnSet(f, Owners) - f[o] + g[o]
  <2> HIDE DEF f, g
  <2> QED BY <1>1, <1>2, <1>3, SumUpdate
<1> QED BY <1>4 DEF TotalEscrowed

\* When one partial unstaking changes, what owner o is unstaking changes by the
\* difference.
LEMMA UnstakingChange ==
  ASSUME LockerTypeOK, LockerTypeOK', NEW p \in PartialIds,
         \A r \in PartialIds \ {p} : partials'[r] = partials[r],
         NEW o \in Owners
  PROVE  Unstaking(o)' = Unstaking(o) - UnstakingOf(partials[p], o) + UnstakingOf(partials'[p], o)
<1> DEFINE f == [r \in PartialIds |-> UnstakingOf(partials[r], o)]
           g == [r \in PartialIds |-> UnstakingOf(partials'[r], o)]
<1>1. \A r \in PartialIds : f[r] \in Int /\ g[r] \in Int
  BY DEF LockerTypeOK, PartialUnstaking, UnstakingOf
<1>2. \A r \in PartialIds \ {p} : f[r] = g[r]
  OBVIOUS
<1>3. IsFiniteSet(PartialIds)
  BY LockerAssumption
<1>4. SumFunctionOnSet(g, PartialIds) = SumFunctionOnSet(f, PartialIds) - f[p] + g[p]
  <2> HIDE DEF f, g
  <2> QED BY <1>1, <1>2, <1>3, SumUpdate
<1> QED BY <1>4 DEF Unstaking

\* The totals are natural numbers and none of their terms exceeds them, so a
\* checked subtraction of a term from its total succeeds.
LEMMA SumsAreNat ==
  ASSUME LockerTypeOK
  PROVE  /\ TotalEscrowed \in Nat
         /\ \A o \in Owners : EscrowTokens(escrows[o]) <= TotalEscrowed
         /\ \A o \in Owners : Unstaking(o) \in Nat
         /\ \A o \in Owners, p \in PartialIds : UnstakingOf(partials[p], o) <= Unstaking(o)
<1>1. /\ TotalEscrowed \in Nat
      /\ \A o \in Owners : EscrowTokens(escrows[o]) <= TotalEscrowed
  <2> DEFINE f == [q \in Owners |-> EscrowTokens(escrows[q])]
  <2>1. \A q \in Owners : f[q] \in Nat /\ f[q] = EscrowTokens(escrows[q])
    BY DEF LockerTypeOK, Escrow, EscrowTokens
  <2>2. TotalEscrowed = SumFunctionOnSet(f, Owners)
    BY DEF TotalEscrowed
  <2> HIDE DEF f
  <2> QED BY <2>1, <2>2, LockerAssumption, SumOfNats
<1>2. ASSUME NEW o \in Owners
      PROVE  /\ Unstaking(o) \in Nat
             /\ \A p \in PartialIds : UnstakingOf(partials[p], o) <= Unstaking(o)
  <2> DEFINE f == [r \in PartialIds |-> UnstakingOf(partials[r], o)]
  <2>1. \A r \in PartialIds : f[r] \in Nat /\ f[r] = UnstakingOf(partials[r], o)
    BY DEF LockerTypeOK, PartialUnstaking, UnstakingOf
  <2>2. Unstaking(o) = SumFunctionOnSet(f, PartialIds)
    BY DEF Unstaking
  <2> HIDE DEF f
  <2> QED BY <2>1, <2>2, LockerAssumption, SumOfNats
<1> QED BY <1>1, <1>2

\* An instruction that leaves the partial unstakings alone leaves their sums
\* alone.
LEMMA UnstakingKept ==
  ASSUME UNCHANGED partials
  PROVE  \A o \in Owners : Unstaking(o)' = Unstaking(o)
BY DEF Unstaking

\* A new locker's books balance.
LEMMA InitAccounts == LockerStart => AccountsInv
<1> SUFFICES ASSUME LockerStart PROVE AccountsInv
  OBVIOUS
<1> USE DEF LockerStart, LockerInit
<1>1. \A o \in Owners : EscrowTokens(escrows[o]) = 0
  BY DEF EscrowTokens, ClosedEscrow
<1>2. TotalEscrowed = 0
  <2> DEFINE f == [q \in Owners |-> EscrowTokens(escrows[q])]
  <2>1. \A q \in Owners : f[q] = 0
    BY <1>1
  <2> HIDE DEF f
  <2>2. SumFunctionOnSet(f, Owners) = 0
    BY <2>1, LockerAssumption, SumOfZeros
  <2> QED BY <2>2 DEF f, TotalEscrowed
<1>3. ASSUME NEW o \in Owners PROVE Unstaking(o) = 0
  <2> DEFINE f == [r \in PartialIds |-> UnstakingOf(partials[r], o)]
  <2>1. \A r \in PartialIds : f[r] = 0
    BY DEF UnstakingOf, ClosedPartial
  <2> HIDE DEF f
  <2>2. SumFunctionOnSet(f, PartialIds) = 0
    BY <2>1, LockerAssumption, SumOfZeros
  <2> QED BY <2>2 DEF f, Unstaking
<1>4. TokenSupply + 0 = TokenSupply
  BY LockerAssumption
<1> QED
  BY <1>1, <1>2, <1>3, <1>4
     DEF AccountsInv, PartialsAccounted, SupplyAccounted, AccountsInUse,
         ClosedEscrow, ClosedPartial

\* Every instruction of locked-voter keeps the books balanced: the two running
\* totals, the token accounts and the conservation of tokens.
LEMMA NextAccounts == LockerTypeOK /\ LockerTypeOK' /\ AccountsInv /\ [LockerStep]_lockerState => AccountsInv'
<1> SUFFICES ASSUME LockerTypeOK, LockerTypeOK', AccountsInv, [LockerStep]_lockerState PROVE AccountsInv'
  OBVIOUS
<1> USE DEF AccountsInv, PartialsAccounted, SupplyAccounted, AccountsInUse
<1>0. /\ locked_supply \in Nat /\ circulating \in Nat /\ TokenSupply \in Nat
      /\ locked_supply' \in Nat /\ circulating' \in Nat
      /\ TotalEscrowed \in Nat
      /\ vault \in [Owners -> Nat]
      /\ \A o \in Owners : /\ escrows[o].amount \in Nat
                           /\ escrows[o].partial_unstaking_amount \in Nat
                           /\ escrows[o].open \in BOOLEAN
                           /\ Unstaking(o) \in Nat
      /\ \A p \in PartialIds : partials[p].amount \in Nat /\ partials[p].open \in BOOLEAN
  BY SumsAreNat, LockerAssumption DEF LockerTypeOK, Escrow, PartialUnstaking
<1>1. ASSUME NEW o \in Owners, NewEscrow(o)
      PROVE  AccountsInv'
  <2>1. /\ \A q \in Owners \ {o} : escrows'[q] = escrows[q]
        /\ EscrowTokens(escrows'[o]) = 0 /\ EscrowTokens(escrows[o]) = 0
        /\ escrows'[o].partial_unstaking_amount = 0
        /\ escrows[o].partial_unstaking_amount = 0
    BY <1>1, <1>0 DEF NewEscrow, LockerTypeOK, ClosedEscrow, EscrowTokens
  <2>2. TotalEscrowed' = TotalEscrowed
    BY <2>1, <1>0, EscrowedChange
  <2>3. \A q \in Owners : Unstaking(q)' = Unstaking(q)
    BY <1>1, UnstakingKept DEF NewEscrow
  <2>4. PartialsAccounted'
    BY <2>1, <2>3
  <2>5. SupplyAccounted'
    BY <1>1, <2>1, <2>2 DEF NewEscrow
  <2>6. AccountsInUse'
    BY <1>1, <2>1 DEF NewEscrow
  <2> QED BY <2>4, <2>5, <2>6
<1>2. ASSUME NEW o \in Owners, NEW a \in 1..TokenSupply, IncreaseLockedAmount(o, a)
      PROVE  AccountsInv'
  <2>1. /\ \A q \in Owners \ {o} : escrows'[q] = escrows[q]
        /\ escrows'[o].amount = escrows[o].amount + a
        /\ escrows'[o].partial_unstaking_amount = escrows[o].partial_unstaking_amount
        /\ escrows'[o].open
        /\ vault' = [vault EXCEPT ![o] = @ + a]
    BY <1>2 DEF IncreaseLockedAmount, LockerTypeOK, Escrow
  <2>2. EscrowTokens(escrows'[o]) = EscrowTokens(escrows[o]) + a
    BY <2>1, <1>0 DEF EscrowTokens
  <2>3. TotalEscrowed' = TotalEscrowed + a
    BY <2>1, <2>2, <1>0, EscrowedChange DEF EscrowTokens
  <2>4. \A q \in Owners : Unstaking(q)' = Unstaking(q)
    BY <1>2, UnstakingKept DEF IncreaseLockedAmount
  <2>5. PartialsAccounted'
    BY <2>1, <2>4
  <2>6. SupplyAccounted'
    BY <1>0, <1>2, <2>1, <2>2, <2>3 DEF IncreaseLockedAmount
  <2>7. AccountsInUse'
    BY <1>2, <2>1 DEF IncreaseLockedAmount
  <2> QED BY <2>5, <2>6, <2>7
<1>3. ASSUME NEW o \in Owners, UNCHANGED <<locked_supply, partials, vault, circulating>>,
             \A q \in Owners \ {o} : escrows'[q] = escrows[q],
             escrows'[o].amount = escrows[o].amount,
             escrows'[o].partial_unstaking_amount = escrows[o].partial_unstaking_amount,
             escrows[o].open, escrows'[o].open
      PROVE  AccountsInv'
  <2>1. EscrowTokens(escrows'[o]) = EscrowTokens(escrows[o])
    BY <1>3 DEF EscrowTokens
  <2>2. TotalEscrowed' = TotalEscrowed
    BY <1>0, <1>3, <2>1, EscrowedChange DEF EscrowTokens
  <2>3. \A q \in Owners : Unstaking(q)' = Unstaking(q)
    BY <1>3, UnstakingKept
  <2>4. PartialsAccounted'
    BY <1>3, <2>3
  <2>5. SupplyAccounted'
    BY <1>3, <2>1, <2>2
  <2>6. AccountsInUse'
    BY <1>3
  <2> QED BY <2>4, <2>5, <2>6
<1>4. ASSUME NEW o \in Owners, Withdraw(o)
      PROVE  AccountsInv'
  <2> DEFINE a == escrows[o].amount
  <2>1. /\ \A q \in Owners \ {o} : escrows'[q] = escrows[q]
        /\ escrows[o].partial_unstaking_amount = 0
        /\ escrows'[o].partial_unstaking_amount = 0
        /\ EscrowTokens(escrows'[o]) = 0
        /\ vault' = [vault EXCEPT ![o] = @ - a]
    BY <1>4 DEF Withdraw, Withdrawable, SupplyWithout, LockerTypeOK, ClosedEscrow, EscrowTokens
  <2>2. EscrowTokens(escrows[o]) = a
    BY <1>0, <2>1 DEF EscrowTokens
  <2>3. TotalEscrowed' = TotalEscrowed - a
    BY <1>0, <2>1, <2>2, EscrowedChange
  <2>4. \A q \in Owners : Unstaking(q)' = Unstaking(q)
    BY <1>4, UnstakingKept DEF Withdraw, Withdrawable, SupplyWithout
  <2>5. PartialsAccounted'
    BY <2>1, <2>4
  <2>6. SupplyAccounted'
    BY <1>0, <1>4, <2>1, <2>2, <2>3 DEF Withdraw, Withdrawable, SupplyWithout
  <2>7. AccountsInUse'
    BY <1>4, <2>1 DEF Withdraw, Withdrawable, SupplyWithout
  <2> QED BY <2>5, <2>6, <2>7
<1>5. ASSUME NEW o \in Owners, NEW p \in PartialIds, NEW a \in 1..TokenSupply,
             OpenPartialUnstaking(o, p, a)
      PROVE  AccountsInv'
  <2>1. /\ \A q \in Owners \ {o} : escrows'[q] = escrows[q]
        /\ escrows'[o].amount = escrows[o].amount - a
        /\ escrows'[o].partial_unstaking_amount = escrows[o].partial_unstaking_amount + a
        /\ escrows[o].open /\ escrows'[o].open
    BY <1>5 DEF OpenPartialUnstaking, Unstakable, PartialExpiration, LockerTypeOK, Escrow
  <2>2. /\ \A r \in PartialIds \ {p} : partials'[r] = partials[r]
        /\ ~ partials[p].open
        /\ partials'[p].open /\ partials'[p].escrow = o /\ partials'[p].amount = a
    BY <1>5 DEF OpenPartialUnstaking, Unstakable, PartialExpiration, LockerTypeOK
  <2>3. EscrowTokens(escrows'[o]) = EscrowTokens(escrows[o])
    BY <1>0, <2>1 DEF EscrowTokens
  <2>4. TotalEscrowed' = TotalEscrowed
    BY <1>0, <2>1, <2>3, EscrowedChange DEF EscrowTokens
  <2>5. \A q \in Owners : Unstaking(q)' = Unstaking(q) + (IF q = o THEN a ELSE 0)
    BY <1>0, <2>2, UnstakingChange DEF UnstakingOf
  <2>6. PartialsAccounted'
    BY <1>0, <2>1, <2>5
  <2>7. SupplyAccounted'
    BY <1>5, <2>1, <2>3, <2>4 DEF OpenPartialUnstaking, Unstakable, PartialExpiration
  <2>8. AccountsInUse'
    <3>1. \A q \in Owners : ~ escrows'[q].open => EscrowTokens(escrows'[q]) = 0
      BY <2>1
    <3>2. \A r \in PartialIds : partials'[r].open =>
             partials'[r].escrow \in Owners /\ partials'[r].amount > 0
      BY <2>2
    <3> QED BY <3>1, <3>2
  <2> QED BY <2>6, <2>7, <2>8
<1>6. ASSUME NEW o \in Owners, NEW p \in PartialIds, MergePartialUnstaking(o, p)
      PROVE  AccountsInv'
  <2> DEFINE a == partials[p].amount
  <2>1. /\ \A q \in Owners \ {o} : escrows'[q] = escrows[q]
        /\ escrows'[o].amount = escrows[o].amount + a
        /\ escrows'[o].partial_unstaking_amount = escrows[o].partial_unstaking_amount - a
        /\ escrows[o].open /\ escrows'[o].open
    BY <1>6 DEF MergePartialUnstaking, LockerTypeOK, Escrow
  <2>2. /\ \A r \in PartialIds \ {p} : partials'[r] = partials[r]
        /\ partials[p].open /\ partials[p].escrow = o
        /\ ~ partials'[p].open
    BY <1>6 DEF MergePartialUnstaking, LockerTypeOK, ClosedPartial
  <2>3. EscrowTokens(escrows'[o]) = EscrowTokens(escrows[o])
    BY <1>0, <2>1 DEF EscrowTokens
  <2>4. TotalEscrowed' = TotalEscrowed
    BY <1>0, <2>1, <2>3, EscrowedChange DEF EscrowTokens
  <2>5. \A q \in Owners : Unstaking(q)' = Unstaking(q) - (IF q = o THEN a ELSE 0)
    BY <1>0, <2>2, UnstakingChange DEF UnstakingOf
  <2>6. PartialsAccounted'
    BY <1>0, <2>1, <2>5
  <2>7. SupplyAccounted'
    BY <1>6, <2>1, <2>3, <2>4 DEF MergePartialUnstaking
  <2>8. AccountsInUse'
    <3>1. \A q \in Owners : ~ escrows'[q].open => EscrowTokens(escrows'[q]) = 0
      BY <2>1
    <3>2. \A r \in PartialIds : partials'[r].open =>
             partials'[r].escrow \in Owners /\ partials'[r].amount > 0
      BY <2>2
    <3> QED BY <3>1, <3>2
  <2> QED BY <2>6, <2>7, <2>8
<1>7. ASSUME NEW o \in Owners, NEW p \in PartialIds, WithdrawPartialUnstaking(o, p)
      PROVE  AccountsInv'
  <2> DEFINE a == partials[p].amount
  <2>1. /\ \A q \in Owners \ {o} : escrows'[q] = escrows[q]
        /\ escrows'[o].amount = escrows[o].amount
        /\ escrows'[o].partial_unstaking_amount = escrows[o].partial_unstaking_amount - a
        /\ escrows[o].open /\ escrows'[o].open
        /\ vault' = [vault EXCEPT ![o] = @ - a]
    BY <1>7 DEF WithdrawPartialUnstaking, SupplyWithout, LockerTypeOK, Escrow
  <2>2. /\ \A r \in PartialIds \ {p} : partials'[r] = partials[r]
        /\ partials[p].open /\ partials[p].escrow = o
        /\ ~ partials'[p].open
    BY <1>7 DEF WithdrawPartialUnstaking, SupplyWithout, LockerTypeOK, ClosedPartial
  <2>3. EscrowTokens(escrows'[o]) = EscrowTokens(escrows[o]) - a
    BY <1>0, <2>1 DEF EscrowTokens
  <2>4. TotalEscrowed' = TotalEscrowed - a
    BY <1>0, <2>1, <2>3, EscrowedChange DEF EscrowTokens
  <2>5. \A q \in Owners : Unstaking(q)' = Unstaking(q) - (IF q = o THEN a ELSE 0)
    BY <1>0, <2>2, UnstakingChange DEF UnstakingOf
  <2>6. PartialsAccounted'
    BY <1>0, <2>1, <2>5
  <2>7. SupplyAccounted'
    BY <1>0, <1>7, <2>1, <2>3, <2>4 DEF WithdrawPartialUnstaking, SupplyWithout
  <2>8. AccountsInUse'
    BY <1>7, <2>1, <2>2 DEF WithdrawPartialUnstaking, SupplyWithout
  <2> QED BY <2>6, <2>7, <2>8
<1>8. ASSUME UNCHANGED <<locked_supply, escrows, partials, vault, circulating>>
      PROVE  AccountsInv'
  <2>1. TotalEscrowed' = TotalEscrowed
    BY <1>8 DEF TotalEscrowed
  <2>2. \A q \in Owners : Unstaking(q)' = Unstaking(q)
    BY <1>8, UnstakingKept
  <2> QED BY <1>8, <2>1, <2>2
<1>9. ASSUME NEW o \in Owners, NEW d \in 0..params.max_stake_duration, ExtendLockDuration(o, d)
      PROVE  AccountsInv'
  BY <1>3, <1>9 DEF ExtendLockDuration, RefreshAllowed, LockerTypeOK, Escrow
<1>10. ASSUME NEW o \in Owners, NEW b \in BOOLEAN, ToggleMaxLock(o, b)
       PROVE  AccountsInv'
  BY <1>3, <1>10 DEF ToggleMaxLock, LockerTypeOK, Escrow
<1>11. ASSUME NEW o \in Owners, NEW d \in Delegates, SetVoteDelegate(o, d)
       PROVE  AccountsInv'
  BY <1>3, <1>11 DEF SetVoteDelegate, LockerTypeOK, Escrow
<1>12. ASSUME NEW q \in LockerParams, SetLockerParams(q)
       PROVE  AccountsInv'
  BY <1>8, <1>12 DEF SetLockerParams
<1>13. CASE UNCHANGED lockerVars
  BY <1>8, <1>13 DEF lockerVars
<1> HIDE DEF AccountsInv, PartialsAccounted, SupplyAccounted, AccountsInUse
<1> QED
  BY <1>1, <1>2, <1>4, <1>5, <1>6, <1>7, <1>9, <1>10, <1>11, <1>12, <1>13
     DEF LockerStep, LockerNext, lockerState

\* The books balance in every reachable state.
LEMMA AccountsAlways == LockerSpec => [](LockerTypeOK /\ AccountsInv)
<1>1. LockerStart => LockerTypeOK /\ AccountsInv
  BY InitTyped, InitAccounts
<1>2. (LockerTypeOK /\ AccountsInv) /\ [LockerStep]_lockerState => (LockerTypeOK /\ AccountsInv)'
  BY NextTyped, NextAccounts
<1> QED BY <1>1, <1>2, PTL DEF LockerSpec

\* Every escrow's running total is the sum of its partial unstakings.
THEOREM PartialsAlwaysAccounted == LockerSpec => []PartialsAccounted
<1>1. LockerTypeOK /\ AccountsInv => PartialsAccounted
  BY DEF AccountsInv
<1> QED BY <1>1, AccountsAlways, PTL

\* The locker's supply and the escrows' token accounts balance.
THEOREM SupplyAlwaysAccounted == LockerSpec => []SupplyAccounted
<1>1. LockerTypeOK /\ AccountsInv => SupplyAccounted
  BY DEF AccountsInv
<1> QED BY <1>1, AccountsAlways, PTL

\* With balanced books a closed escrow has left nothing behind: the sum of
\* positive amounts is 0 only if there are none.
LEMMA BooksOutliveNothing == LockerTypeOK /\ AccountsInv => NothingOutlivesEscrow
<1> SUFFICES ASSUME LockerTypeOK, AccountsInv PROVE NothingOutlivesEscrow
  OBVIOUS
<1> USE DEF AccountsInv, PartialsAccounted, SupplyAccounted, AccountsInUse
<1>1. ASSUME NEW p \in PartialIds, partials[p].open
      PROVE  partials[p].escrow \in Owners /\ escrows[partials[p].escrow].open
  <2> DEFINE o == partials[p].escrow
  <2>1. o \in Owners /\ partials[p].amount > 0
    BY <1>1
  <2>2. UnstakingOf(partials[p], o) = partials[p].amount
    BY <1>1 DEF UnstakingOf
  <2>3. partials[p].amount <= escrows[o].partial_unstaking_amount
    BY <2>1, <2>2, SumsAreNat
  <2>4. /\ escrows[o].amount \in Nat /\ escrows[o].partial_unstaking_amount \in Nat
        /\ partials[p].amount \in Nat
    BY <2>1 DEF LockerTypeOK, Escrow, PartialUnstaking
  <2>5. EscrowTokens(escrows[o]) # 0
    BY <2>1, <2>3, <2>4 DEF EscrowTokens
  <2> QED BY <2>1, <2>5
<1>2. \A o \in Owners : ~ escrows[o].open => vault[o] = 0
  OBVIOUS
<1> QED BY <1>1, <1>2 DEF NothingOutlivesEscrow

\* No partial unstaking and no token is left behind by a closed escrow.
THEOREM NothingEverOutlivesEscrow == LockerSpec => []NothingOutlivesEscrow
BY BooksOutliveNothing, AccountsAlways, PTL

-----------------------------------------------------------------------------
(* Locks *)

\* No escrow can end later than a lock taken now would, and no partial
\* unstaking of an escrow matures later than the escrow itself.
LockInv ==
  \A o \in Owners : escrows[o].open =>
    /\ escrows[o].escrow_ends_at <= now + params.max_stake_duration
    /\ \A p \in PartialIds : partials[p].open /\ partials[p].escrow = o =>
         partials[p].expiration <= LockEnd(escrows[o])

\* The facts about types, and about the maximum duration that does not change,
\* which the steps of the next proofs use.
LEMMA OneMaxStep ==
  ASSUME OneMax, LockerTypeOK, LockerTypeOK'
  PROVE  /\ params'.max_stake_duration = params.max_stake_duration
         /\ params.max_stake_duration \in Nat
         /\ now \in Nat /\ now' \in Nat
         /\ \A o \in Owners : LockEnd(escrows[o]) \in Nat
         /\ \A o \in Owners : /\ escrows[o].open \in BOOLEAN
                              /\ escrows[o].is_max_lock \in BOOLEAN
                              /\ escrows[o].escrow_ends_at \in Nat
                              /\ escrows[o].amount \in Nat
         /\ \A p \in PartialIds : /\ partials[p].open \in BOOLEAN
                                  /\ partials[p].expiration \in Nat
                                  /\ partials[p].amount \in Nat
BY LockerAssumption DEF OneMax, LockerTypeOK, ParamsType, LockEnd, Escrow, PartialUnstaking

\* In a new locker no lock is longer than the maximum and no partial unstaking
\* matures after its escrow.
LEMMA InitLock == LockerStart => LockInv
BY DEF LockerStart, LockerInit, LockInv, ClosedEscrow

\* Every instruction keeps that: extending, toggling the maximum lock, opening
\* and merging partial unstakings, and re-creating accounts.
LEMMA NextLock ==
  ASSUME OneMax
  PROVE  LockerTypeOK /\ LockerTypeOK' /\ AccountsInv /\ NothingOutlivesEscrow /\ LockInv /\ [LockerStep]_lockerState => LockInv'
<1> SUFFICES ASSUME LockerTypeOK, LockerTypeOK', NothingOutlivesEscrow, LockInv, [LockerStep]_lockerState
             PROVE  LockInv'
  OBVIOUS
<1> USE DEF LockInv
<1>0. /\ params'.max_stake_duration = params.max_stake_duration
      /\ params.max_stake_duration \in Nat
      /\ now \in Nat /\ now' \in Nat
      /\ \A o \in Owners : LockEnd(escrows[o]) \in Nat
      /\ \A o \in Owners : escrows[o].escrow_ends_at \in Nat /\ escrows[o].is_max_lock \in BOOLEAN
      /\ \A p \in PartialIds : partials[p].expiration \in Nat
  BY OneMaxStep
\* Any step that leaves the partial unstakings and never pulls in a lock.
<1>1. ASSUME NEW o \in Owners, UNCHANGED <<now, partials>>,
             \A q \in Owners \ {o} : escrows'[q] = escrows[q],
             escrows[o].open,
             escrows'[o].escrow_ends_at <= now + params.max_stake_duration,
             LockEnd(escrows[o])' >= LockEnd(escrows[o])
      PROVE  LockInv'
  <2>1. \A q \in Owners \ {o} : LockEnd(escrows[q])' = LockEnd(escrows[q])
    BY <1>0, <1>1 DEF LockEnd
  <2>2. LockEnd(escrows[o])' \in Nat
    BY <1>0, <1>1, OneMaxStep, LockerAssumption DEF LockerTypeOK, LockEnd, Escrow
  <2> QED BY <1>0, <1>1, <2>1, <2>2
<1>2. ASSUME NEW o \in Owners, NewEscrow(o), UNCHANGED now
      PROVE  LockInv'
  <2>1. /\ \A q \in Owners \ {o} : escrows'[q] = escrows[q]
        /\ escrows'[o].escrow_ends_at = 0
        /\ UNCHANGED <<partials, params>>
    BY <1>2 DEF NewEscrow, LockerTypeOK, ClosedEscrow
  <2>2. \A p \in PartialIds : ~ (partials[p].open /\ partials[p].escrow = o)
    BY <1>2 DEF NewEscrow, NothingOutlivesEscrow
  <2>3. \A q \in Owners \ {o} : LockEnd(escrows[q])' = LockEnd(escrows[q])
    BY <1>0, <1>2, <2>1 DEF LockEnd
  <2> QED BY <1>0, <1>2, <2>1, <2>2, <2>3
<1>3. ASSUME NEW o \in Owners, NEW a \in 1..TokenSupply, IncreaseLockedAmount(o, a), UNCHANGED now
      PROVE  LockInv'
  <2>1. LockEnd(escrows[o])' = LockEnd(escrows[o])
    BY <1>3 DEF IncreaseLockedAmount, LockerTypeOK, Escrow, LockEnd
  <2> QED BY <1>0, <1>1, <1>3, <2>1, SMTT(30) DEF IncreaseLockedAmount, LockerTypeOK, Escrow
<1>4. ASSUME NEW o \in Owners, NEW d \in 0..params.max_stake_duration, ExtendLockDuration(o, d), UNCHANGED now
      PROVE  LockInv'
  <2>1. /\ escrows'[o].escrow_ends_at = now + d /\ ~ escrows'[o].is_max_lock
        /\ now + d >= escrows[o].escrow_ends_at
    BY <1>4 DEF ExtendLockDuration, RefreshAllowed, LockerTypeOK, Escrow
  <2>2. LockEnd(escrows[o])' >= LockEnd(escrows[o])
    BY <1>4, <2>1 DEF ExtendLockDuration, RefreshAllowed, LockEnd
  <2> QED BY <1>0, <1>1, <1>4, <2>1, <2>2 DEF ExtendLockDuration, RefreshAllowed, LockerTypeOK, Escrow
<1>5. ASSUME NEW o \in Owners, NEW b \in BOOLEAN, ToggleMaxLock(o, b), UNCHANGED now
      PROVE  LockInv'
  <2>1. /\ escrows'[o].is_max_lock = b
        /\ escrows'[o].escrow_ends_at = IF b THEN escrows[o].escrow_ends_at
                                        ELSE now + params.max_stake_duration
        /\ escrows[o].is_max_lock = ~ b
    BY <1>5 DEF ToggleMaxLock, LockerTypeOK, Escrow
  <2>2. LockEnd(escrows[o])' >= LockEnd(escrows[o])
    BY <1>0, <1>5, <2>1 DEF ToggleMaxLock, LockEnd
  <2>3. /\ UNCHANGED <<now, partials>> /\ escrows[o].open
        /\ \A q \in Owners \ {o} : escrows'[q] = escrows[q]
    BY <1>5 DEF ToggleMaxLock, LockerTypeOK
  <2>4. escrows'[o].escrow_ends_at <= now + params.max_stake_duration
    BY <1>0, <2>1, <2>3
  <2> QED BY <1>1, <2>2, <2>3, <2>4
<1>6. ASSUME NEW o \in Owners, Withdraw(o), UNCHANGED now
      PROVE  LockInv'
  <2>1. /\ \A q \in Owners \ {o} : escrows'[q] = escrows[q]
        /\ ~ escrows'[o].open
        /\ UNCHANGED <<partials, params>>
    BY <1>6 DEF Withdraw, Withdrawable, SupplyWithout, LockerTypeOK, ClosedEscrow
  <2>2. \A q \in Owners \ {o} : LockEnd(escrows[q])' = LockEnd(escrows[q])
    BY <1>0, <1>6, <2>1 DEF LockEnd
  <2> QED BY <1>0, <1>6, <2>1, <2>2
<1>7. ASSUME NEW o \in Owners, NEW p \in PartialIds, UNCHANGED <<now, params>>,
             \A q \in Owners : /\ escrows'[q].open = escrows[q].open
                               /\ escrows'[q].escrow_ends_at = escrows[q].escrow_ends_at
                               /\ escrows'[q].is_max_lock = escrows[q].is_max_lock,
             \A r \in PartialIds \ {p} : partials'[r] = partials[r],
             partials'[p].open => /\ partials'[p].escrow = o
                                  /\ partials'[p].expiration <= LockEnd(escrows[o])
      PROVE  LockInv'
  <2>1. \A q \in Owners : LockEnd(escrows[q])' = LockEnd(escrows[q])
    BY <1>7 DEF LockEnd
  <2> QED BY <1>7, <2>1
<1>8. ASSUME NEW o \in Owners, NEW p \in PartialIds, NEW a \in 1..TokenSupply,
             OpenPartialUnstaking(o, p, a), UNCHANGED now
      PROVE  LockInv'
  <2>1. now + RemainingDuration(escrows[o]) = LockEnd(escrows[o])
    BY <1>0, <1>8 DEF OpenPartialUnstaking, Unstakable, PartialExpiration, RemainingDuration, LockEnd
  <2> QED BY <1>0, <1>7, <1>8, <2>1 DEF OpenPartialUnstaking, Unstakable, PartialExpiration, LockerTypeOK, Escrow
<1>9. ASSUME NEW o \in Owners, NEW p \in PartialIds, UNCHANGED now,
             MergePartialUnstaking(o, p) \/ WithdrawPartialUnstaking(o, p)
      PROVE  LockInv'
  <2>1. /\ \A q \in Owners : /\ escrows'[q].open = escrows[q].open
                            /\ escrows'[q].escrow_ends_at = escrows[q].escrow_ends_at
                            /\ escrows'[q].is_max_lock = escrows[q].is_max_lock
        /\ UNCHANGED <<now, params>>
    BY <1>9 DEF MergePartialUnstaking, WithdrawPartialUnstaking, SupplyWithout, LockerTypeOK, Escrow
  <2>2. /\ \A r \in PartialIds \ {p} : partials'[r] = partials[r]
        /\ ~ partials'[p].open
    BY <1>9 DEF MergePartialUnstaking, WithdrawPartialUnstaking, SupplyWithout, ClosedPartial, LockerTypeOK
  <2> HIDE DEF LockInv
  <2> QED BY <1>7, <2>1, <2>2
<1>10. ASSUME NEW o \in Owners, NEW d \in Delegates, SetVoteDelegate(o, d), UNCHANGED now
       PROVE  LockInv'
  <2>1. LockEnd(escrows[o])' = LockEnd(escrows[o])
    BY <1>10 DEF SetVoteDelegate, LockerTypeOK, Escrow, LockEnd
  <2> QED BY <1>0, <1>1, <1>10, <2>1, SMTT(30) DEF SetVoteDelegate, LockerTypeOK, Escrow
<1>11. ASSUME UNCHANGED <<escrows, partials>>, now' >= now
       PROVE  LockInv'
  <2>1. \A o \in Owners : LockEnd(escrows[o])' >= LockEnd(escrows[o]) /\ LockEnd(escrows[o])' \in Nat
    BY <1>0, <1>11 DEF LockEnd
  <2> QED BY <1>0, <1>11, <2>1
<1>12. CASE LockerNext /\ UNCHANGED now
  <2>1. ASSUME NEW q \in LockerParams, SetLockerParams(q) PROVE LockInv'
    BY <1>0, <1>11, <1>12, <2>1 DEF SetLockerParams
  <2> HIDE DEF LockInv
  <2> QED
    BY <1>2, <1>3, <1>4, <1>5, <1>6, <1>8, <1>9, <1>10, <1>12, <2>1 DEF LockerNext
<1>13. CASE Tick /\ UNCHANGED lockerVars
  BY <1>0, <1>11, <1>13 DEF Tick, lockerVars
<1>14. CASE UNCHANGED lockerState
  BY <1>0, <1>11, <1>14 DEF lockerState, lockerVars
<1> HIDE DEF LockInv
<1> QED BY <1>12, <1>13, <1>14 DEF LockerStep

\* While the maximum duration does not change, no lock is ever longer than it
\* and no partial unstaking matures after its escrow.
LEMMA LockAlways ==
  ASSUME OneMax
  PROVE  LockerSpec => [](LockerTypeOK /\ AccountsInv /\ NothingOutlivesEscrow /\ LockInv)
<1>1. LockerStart => LockInv
  BY InitLock
<1>2. LockerTypeOK /\ LockerTypeOK' /\ AccountsInv /\ NothingOutlivesEscrow /\ LockInv /\ [LockerStep]_lockerState => LockInv'
  BY NextLock
<1> QED BY <1>1, <1>2, AccountsAlways, NothingEverOutlivesEscrow, PTL DEF LockerSpec

\* An owner whose lock has ended can always leave.
THEOREM ExitIsNeverEverBlocked ==
  ASSUME OneMax
  PROVE  LockerSpec => []ExitIsNeverBlocked
<1>1. LockerTypeOK /\ AccountsInv /\ NothingOutlivesEscrow /\ LockInv => ExitIsNeverBlocked
  <2> SUFFICES ASSUME LockerTypeOK, AccountsInv, LockInv,
                      NEW o \in Owners, escrows[o].open, ~ escrows[o].is_max_lock,
                      escrows[o].escrow_ends_at <= now
               PROVE  /\ EscrowTokens(escrows[o]) <= vault[o]
                      /\ EscrowTokens(escrows[o]) <= locked_supply
                      /\ \A p \in PartialIds : partials[p].open /\ partials[p].escrow = o =>
                           /\ partials[p].expiration <= now
                           /\ partials[p].amount <= escrows[o].partial_unstaking_amount
                      /\ escrows[o].partial_unstaking_amount > 0 =>
                           \E p \in PartialIds : partials[p].open /\ partials[p].escrow = o
    BY DEF ExitIsNeverBlocked
  <2> USE DEF AccountsInv, PartialsAccounted, SupplyAccounted, AccountsInUse
  <2>1. EscrowTokens(escrows[o]) <= vault[o] /\ EscrowTokens(escrows[o]) <= locked_supply
    BY SumsAreNat DEF LockerTypeOK
  <2>2. ASSUME NEW p \in PartialIds, partials[p].open, partials[p].escrow = o
        PROVE  /\ partials[p].expiration <= now
               /\ partials[p].amount <= escrows[o].partial_unstaking_amount
    <3>1. partials[p].expiration <= escrows[o].escrow_ends_at
      BY <2>2 DEF LockInv, LockEnd
    <3>2. partials[p].expiration \in Nat /\ escrows[o].escrow_ends_at \in Nat /\ now \in Nat
      BY DEF LockerTypeOK, Escrow, PartialUnstaking
    <3>3. UnstakingOf(partials[p], o) <= Unstaking(o)
      BY SumsAreNat
    <3> QED BY <2>2, <3>1, <3>2, <3>3 DEF UnstakingOf
  <2>3. ASSUME \A p \in PartialIds : ~ (partials[p].open /\ partials[p].escrow = o)
        PROVE  ~ (escrows[o].partial_unstaking_amount > 0)
    <3> DEFINE f == [r \in PartialIds |-> UnstakingOf(partials[r], o)]
    <3>1. \A r \in PartialIds : f[r] = 0
      BY <2>3 DEF UnstakingOf
    <3> HIDE DEF f
    <3>2. SumFunctionOnSet(f, PartialIds) = 0
      BY <3>1, LockerAssumption, SumOfZeros
    <3> QED BY <3>2 DEF f, Unstaking
  <2> QED BY <2>1, <2>2, <2>3
<1> QED BY <1>1, LockAlways, PTL

\* When one partial unstaking changes, what owner o is unstaking until t or
\* later changes by the difference.
LEMMA UnstakingUntilChange ==
  ASSUME LockerTypeOK, LockerTypeOK', NEW p \in PartialIds,
         \A r \in PartialIds \ {p} : partials'[r] = partials[r],
         NEW o \in Owners, NEW t \in Nat
  PROVE  /\ UnstakingUntil(o, t)' =
              UnstakingUntil(o, t)
              - (IF partials[p].expiration >= t THEN UnstakingOf(partials[p], o) ELSE 0)
              + (IF partials'[p].expiration >= t THEN UnstakingOf(partials'[p], o) ELSE 0)
<1> DEFINE f == [r \in PartialIds |->
                   IF partials[r].expiration >= t THEN UnstakingOf(partials[r], o) ELSE 0]
           g == [r \in PartialIds |->
                   IF partials'[r].expiration >= t THEN UnstakingOf(partials'[r], o) ELSE 0]
<1>1. \A r \in PartialIds : f[r] \in Int /\ g[r] \in Int
  BY DEF LockerTypeOK, PartialUnstaking, UnstakingOf
<1>2. \A r \in PartialIds \ {p} : f[r] = g[r]
  OBVIOUS
<1>3. IsFiniteSet(PartialIds)
  BY LockerAssumption
<1>4. SumFunctionOnSet(g, PartialIds) = SumFunctionOnSet(f, PartialIds) - f[p] + g[p]
  <2> HIDE DEF f, g
  <2> QED BY <1>1, <1>2, <1>3, SumUpdate
<1> QED BY <1>4 DEF UnstakingUntil

\* What an owner is unstaking until t or later is a natural number.
LEMMA UnstakingUntilIsNat ==
  ASSUME LockerTypeOK, NEW o \in Owners, NEW t \in Nat
  PROVE  UnstakingUntil(o, t) \in Nat
<1> DEFINE f == [r \in PartialIds |->
                   IF partials[r].expiration >= t THEN UnstakingOf(partials[r], o) ELSE 0]
<1>1. \A r \in PartialIds : f[r] \in Nat
  BY DEF LockerTypeOK, PartialUnstaking, UnstakingOf
<1>2. UnstakingUntil(o, t) = SumFunctionOnSet(f, PartialIds)
  BY DEF UnstakingUntil
<1> HIDE DEF f
<1> QED BY <1>1, <1>2, LockerAssumption, SumOfNats

\* One step from a state with balanced books never frees a token of owner w
\* before the instant t it was locked until: one case per instruction.
LEMMA StepKeepsLock ==
  ASSUME OneMax, LockerTypeOK, LockerTypeOK', NothingOutlivesEscrow, AccountsInv, LockInv, [LockerStep]_lockerState,
         NEW w \in Owners, NEW t \in Nat, t > now
  PROVE  HeldUntil(w, t)' >= HeldUntil(w, t)
<1> DEFINE Goal == HeldUntil(w, t)' >= HeldUntil(w, t)
<1>0. /\ params'.max_stake_duration = params.max_stake_duration
      /\ params.max_stake_duration \in Nat
      /\ now \in Nat /\ now' \in Nat
      /\ \A o \in Owners : LockEnd(escrows[o]) \in Nat
      /\ \A o \in Owners : /\ escrows[o].escrow_ends_at \in Nat
                           /\ escrows[o].is_max_lock \in BOOLEAN
                           /\ escrows[o].open \in BOOLEAN
                           /\ escrows[o].amount \in Nat
      /\ \A p \in PartialIds : partials[p].expiration \in Nat /\ partials[p].amount \in Nat
  BY OneMaxStep
<1>a. UnstakingUntil(w, t) \in Nat /\ StakedUntil(w, t) \in Nat
  BY <1>0, UnstakingUntilIsNat DEF StakedUntil
<1>b. ASSUME UNCHANGED partials
      PROVE  UnstakingUntil(w, t)' = UnstakingUntil(w, t)
  BY <1>b DEF UnstakingUntil
\* A step that leaves the partial unstakings and never lowers what is staked.
<1>1. ASSUME UNCHANGED partials,
             StakedUntil(w, t)' \in Nat, StakedUntil(w, t)' >= StakedUntil(w, t)
      PROVE  Goal
  <2>1. UnstakingUntil(w, t)' = UnstakingUntil(w, t)
    BY <1>b, <1>1
  <2> QED BY <1>a, <1>1, <2>1 DEF HeldUntil
<1>2. ASSUME UNCHANGED <<now, params, partials>>, escrows'[w] = escrows[w]
      PROVE  Goal
  <2>1. StakedUntil(w, t)' = StakedUntil(w, t)
    BY <1>2 DEF StakedUntil, LockEnd
  <2> QED BY <1>1, <1>2, <1>a, <2>1
\* A step on owner w's own escrow whose lock does not get shorter.
<1>3. ASSUME UNCHANGED partials, escrows[w].open, escrows'[w].open,
             escrows'[w].amount \in Nat, escrows'[w].amount >= escrows[w].amount,
             LockEnd(escrows[w])' \in Nat, LockEnd(escrows[w])' >= LockEnd(escrows[w])
      PROVE  Goal
  <2>1. StakedUntil(w, t)' \in Nat /\ StakedUntil(w, t)' >= StakedUntil(w, t)
    BY <1>0, <1>3 DEF StakedUntil
  <2> QED BY <1>1, <1>3, <2>1
<1>4. ASSUME NEW o \in Owners, NewEscrow(o), UNCHANGED now
      PROVE  Goal
  <2>1. CASE o = w
    <3>1. StakedUntil(w, t) = 0 /\ StakedUntil(w, t)' = 0
      BY <1>4, <2>1 DEF NewEscrow, ClosedEscrow, LockerTypeOK, StakedUntil
    <3> QED BY <1>1, <1>4, <3>1 DEF NewEscrow
  <2>2. CASE o # w
    BY <1>2, <1>4, <2>2 DEF NewEscrow
  <2> QED BY <2>1, <2>2
<1>5. ASSUME NEW o \in Owners, NEW a \in 1..TokenSupply, IncreaseLockedAmount(o, a), UNCHANGED now
      PROVE  Goal
  <2>1. CASE o = w
    <3>1. /\ escrows'[w].amount = escrows[w].amount + a
          /\ escrows[w].open /\ escrows'[w].open
          /\ LockEnd(escrows[w])' = LockEnd(escrows[w])
      BY <1>5, <2>1 DEF IncreaseLockedAmount, LockerTypeOK, Escrow, LockEnd
    <3> QED BY <1>0, <1>3, <1>5, <3>1 DEF IncreaseLockedAmount
  <2>2. CASE o # w
    BY <1>2, <1>5, <2>2 DEF IncreaseLockedAmount
  <2> QED BY <2>1, <2>2
<1>6. ASSUME NEW o \in Owners, NEW d \in 0..params.max_stake_duration, ExtendLockDuration(o, d), UNCHANGED now
      PROVE  Goal
  <2>1. CASE o = w
    <3>1. /\ escrows'[w].amount = escrows[w].amount
          /\ escrows[w].open /\ escrows'[w].open /\ ~ escrows[w].is_max_lock
          /\ ~ escrows'[w].is_max_lock
          /\ escrows'[w].escrow_ends_at = now + d
          /\ now + d >= escrows[w].escrow_ends_at
      BY <1>6, <2>1 DEF ExtendLockDuration, RefreshAllowed, LockerTypeOK, Escrow
    <3>2. LockEnd(escrows[w])' \in Nat /\ LockEnd(escrows[w])' >= LockEnd(escrows[w])
      BY <1>0, <3>1 DEF LockEnd
    <3> QED BY <1>0, <1>3, <1>6, <3>1, <3>2 DEF ExtendLockDuration, RefreshAllowed
  <2>2. CASE o # w
    <3>1. escrows'[w] = escrows[w] /\ UNCHANGED <<params, partials>>
      BY <1>6, <2>2 DEF ExtendLockDuration, RefreshAllowed, LockerTypeOK
    <3> QED BY <1>2, <1>6, <3>1
  <2> QED BY <2>1, <2>2
<1>7. ASSUME NEW o \in Owners, NEW b \in BOOLEAN, ToggleMaxLock(o, b), UNCHANGED now
      PROVE  Goal
  <2>1. CASE o = w
    <3>1. /\ escrows'[w].amount = escrows[w].amount
          /\ escrows[w].open /\ escrows'[w].open
          /\ escrows'[w].is_max_lock = b /\ escrows[w].is_max_lock = ~ b
          /\ escrows'[w].escrow_ends_at = IF b THEN escrows[w].escrow_ends_at
                                          ELSE now + params.max_stake_duration
      BY <1>7, <2>1 DEF ToggleMaxLock, LockerTypeOK, Escrow
    <3>2. escrows[w].escrow_ends_at <= now + params.max_stake_duration
      BY <3>1 DEF LockInv
    <3>3. LockEnd(escrows[w])' \in Nat /\ LockEnd(escrows[w])' >= LockEnd(escrows[w])
      BY <1>0, <1>7, <3>1, <3>2 DEF LockEnd
    <3> QED BY <1>0, <1>3, <1>7, <3>1, <3>3 DEF ToggleMaxLock
  <2>2. CASE o # w
    <3>1. escrows'[w] = escrows[w] /\ UNCHANGED <<params, partials>>
      BY <1>7, <2>2 DEF ToggleMaxLock, LockerTypeOK
    <3> QED BY <1>2, <1>7, <3>1
  <2> QED BY <2>1, <2>2
<1>8. ASSUME NEW o \in Owners, Withdraw(o), UNCHANGED now
      PROVE  Goal
  <2>1. CASE o = w
    <3>1. StakedUntil(w, t) = 0
      BY <1>0, <1>8, <2>1 DEF Withdraw, Withdrawable, SupplyWithout, StakedUntil, LockEnd
    <3>2. StakedUntil(w, t)' = 0
      BY <1>8, <2>1 DEF Withdraw, Withdrawable, SupplyWithout, ClosedEscrow, LockerTypeOK, StakedUntil
    <3> QED BY <1>1, <1>8, <3>1, <3>2 DEF Withdraw, Withdrawable, SupplyWithout
  <2>2. CASE o # w
    BY <1>2, <1>8, <2>2 DEF Withdraw, Withdrawable, SupplyWithout
  <2> QED BY <2>1, <2>2
<1>9. ASSUME NEW o \in Owners, NEW p \in PartialIds, NEW a \in 1..TokenSupply,
             OpenPartialUnstaking(o, p, a), UNCHANGED now
      PROVE  Goal
  <2>0. /\ \A r \in PartialIds \ {p} : partials'[r] = partials[r]
        /\ ~ partials[p].open
        /\ partials'[p].open /\ partials'[p].escrow = o /\ partials'[p].amount = a
        /\ partials'[p].expiration = now + RemainingDuration(escrows[o])
    BY <1>9 DEF OpenPartialUnstaking, Unstakable, PartialExpiration, LockerTypeOK
  <2>1. CASE o = w
    <3>1. /\ escrows'[w].amount = escrows[w].amount - a /\ a <= escrows[w].amount
          /\ escrows[w].open /\ escrows'[w].open
          /\ LockEnd(escrows[w])' = LockEnd(escrows[w])
      BY <1>9, <2>1 DEF OpenPartialUnstaking, Unstakable, PartialExpiration, LockerTypeOK, Escrow, LockEnd
    <3>2. partials'[p].expiration = LockEnd(escrows[w])
      BY <1>0, <1>9, <2>0, <2>1 DEF OpenPartialUnstaking, Unstakable, PartialExpiration, RemainingDuration, LockEnd
    <3> DEFINE moved == IF LockEnd(escrows[w]) >= t THEN a ELSE 0
    <3>3. StakedUntil(w, t)' = StakedUntil(w, t) - moved
      BY <1>0, <3>1 DEF StakedUntil
    <3>4. UnstakingUntil(w, t)' = UnstakingUntil(w, t) + moved
      BY <1>a, <2>0, <2>1, <3>2, UnstakingUntilChange DEF UnstakingOf
    <3>5. moved \in Int
      OBVIOUS
    <3> HIDE DEF moved
    <3> QED BY <1>a, <3>3, <3>4, <3>5 DEF HeldUntil
  <2>2. CASE o # w
    <3>0. escrows'[w] = escrows[w] /\ UNCHANGED params
      BY <1>9, <2>2 DEF OpenPartialUnstaking, Unstakable, PartialExpiration, LockerTypeOK
    <3>1. StakedUntil(w, t)' = StakedUntil(w, t)
      BY <1>9, <3>0 DEF StakedUntil, LockEnd
    <3>2. UnstakingUntil(w, t)' = UnstakingUntil(w, t)
      BY <1>a, <2>0, <2>2, UnstakingUntilChange DEF UnstakingOf
    <3> QED BY <1>a, <3>1, <3>2 DEF HeldUntil
  <2> QED BY <2>1, <2>2
<1>10. ASSUME NEW o \in Owners, NEW p \in PartialIds, MergePartialUnstaking(o, p), UNCHANGED now
       PROVE  Goal
  <2> DEFINE a == partials[p].amount
  <2>0. /\ \A r \in PartialIds \ {p} : partials'[r] = partials[r]
        /\ ~ partials'[p].open
        /\ partials[p].open /\ partials[p].escrow = o
    BY <1>10 DEF MergePartialUnstaking, ClosedPartial, LockerTypeOK
  <2>1. CASE o = w
    <3>1. /\ escrows'[w].amount = escrows[w].amount + a
          /\ escrows[w].open /\ escrows'[w].open
          /\ LockEnd(escrows[w])' = LockEnd(escrows[w])
      BY <1>10, <2>1 DEF MergePartialUnstaking, LockerTypeOK, Escrow, LockEnd
    <3>2. partials[p].expiration <= LockEnd(escrows[w])
      BY <2>0, <2>1, <3>1 DEF LockInv
    <3>3. StakedUntil(w, t)' = StakedUntil(w, t) + (IF LockEnd(escrows[w]) >= t THEN a ELSE 0)
      BY <1>0, <3>1 DEF StakedUntil
    <3>4. UnstakingUntil(w, t)' = UnstakingUntil(w, t) - (IF partials[p].expiration >= t THEN a ELSE 0)
      BY <1>0, <1>a, <2>0, <2>1, UnstakingUntilChange DEF UnstakingOf
    <3> QED BY <1>0, <1>a, <3>2, <3>3, <3>4 DEF HeldUntil
  <2>2. CASE o # w
    <3>0. escrows'[w] = escrows[w] /\ UNCHANGED params
      BY <1>10, <2>2 DEF MergePartialUnstaking, LockerTypeOK
    <3>1. StakedUntil(w, t)' = StakedUntil(w, t)
      BY <1>10, <3>0 DEF StakedUntil, LockEnd
    <3>2. UnstakingUntil(w, t)' = UnstakingUntil(w, t)
      BY <1>a, <2>0, <2>2, UnstakingUntilChange DEF UnstakingOf
    <3> QED BY <1>a, <3>1, <3>2 DEF HeldUntil
  <2> QED BY <2>1, <2>2
<1>11. ASSUME NEW o \in Owners, NEW p \in PartialIds, WithdrawPartialUnstaking(o, p), UNCHANGED now
       PROVE  Goal
  <2>0. /\ \A r \in PartialIds \ {p} : partials'[r] = partials[r]
        /\ ~ partials'[p].open
        /\ ~ (partials[p].expiration >= t)
    BY <1>0, <1>11 DEF WithdrawPartialUnstaking, SupplyWithout, ClosedPartial, LockerTypeOK
  <2>1. UnstakingUntil(w, t)' = UnstakingUntil(w, t)
    BY <1>a, <2>0, UnstakingUntilChange DEF UnstakingOf
  <2>2. StakedUntil(w, t)' = StakedUntil(w, t)
    BY <1>11 DEF WithdrawPartialUnstaking, SupplyWithout, LockerTypeOK, Escrow, StakedUntil, LockEnd
  <2> QED BY <1>a, <2>1, <2>2 DEF HeldUntil
<1>12. ASSUME NEW o \in Owners, NEW d \in Delegates, SetVoteDelegate(o, d), UNCHANGED now
       PROVE  Goal
  <2>1. StakedUntil(w, t)' = StakedUntil(w, t)
    BY <1>12 DEF SetVoteDelegate, LockerTypeOK, Escrow, StakedUntil, LockEnd
  <2> QED BY <1>1, <1>12, <1>a, <2>1 DEF SetVoteDelegate
<1>13. ASSUME UNCHANGED <<escrows, partials>>, now' >= now
       PROVE  Goal
  <2>1. LockEnd(escrows[w])' \in Nat /\ LockEnd(escrows[w])' >= LockEnd(escrows[w])
    BY <1>0, <1>13 DEF LockEnd
  <2>2. StakedUntil(w, t)' \in Nat /\ StakedUntil(w, t)' >= StakedUntil(w, t)
    BY <1>0, <1>13, <2>1 DEF StakedUntil
  <2> QED BY <1>1, <1>13, <2>2
<1>14. CASE LockerNext /\ UNCHANGED now
  <2>1. ASSUME NEW q \in LockerParams, SetLockerParams(q) PROVE Goal
    BY <1>0, <1>13, <1>14, <2>1 DEF SetLockerParams
  <2> QED
    BY <1>4, <1>5, <1>6, <1>7, <1>8, <1>9, <1>10, <1>11, <1>12, <1>14, <2>1 DEF LockerNext
<1>15. CASE Tick /\ UNCHANGED lockerVars
  BY <1>0, <1>13, <1>15 DEF Tick, lockerVars
<1>16. CASE UNCHANGED lockerState
  BY <1>0, <1>13, <1>16 DEF lockerState, lockerVars
<1> HIDE DEF Goal
<1> QED BY <1>14, <1>15, <1>16 DEF LockerStep, Goal

\* A token locked until an instant still to come stays locked until then.
THEOREM LockIsAlwaysKept ==
  ASSUME OneMax
  PROVE  LockerSpec => LockIsKept
<1> DEFINE Inv == LockerTypeOK /\ AccountsInv /\ NothingOutlivesEscrow /\ LockInv
           Kept == \A o \in Owners : \A t \in Instants :
                     t > now => HeldUntil(o, t)' >= HeldUntil(o, t)
<1>1. Inv /\ Inv' /\ [LockerStep]_lockerState => [Kept]_lockerState
  BY StepKeepsLock, LockerAssumption
<1>2. LockerSpec => []Inv
  BY LockAlways
<1>3. LockerSpec => [][Kept]_lockerState
  <2> HIDE DEF Inv, Kept
  <2> QED BY <1>1, <1>2, PTL DEF LockerSpec
<1> QED BY <1>3 DEF LockIsKept


-----------------------------------------------------------------------------
(* Both programs *)

\* What was found invariant of either program, together.
PartsInv ==
  /\ LockerTypeOK /\ AccountsInv /\ LockInv
  /\ GovernTypeOK /\ TallyInv

\* The governor's and the locker's parameters match.
ParamsMatch == OneMax /\ OneMultiplier /\ StakeOutlastsVoting

\* The programs start together.
LEMMA VotingStartsBoth == VotingInit => LockerStart /\ GovernStart
BY DEF VotingInit, LockerStart, GovernStart

\* For locked-voter, an instruction of govern is a stutter.
LEMMA VotingStepsLocker == [VotingNext]_votingState => [LockerStep]_lockerState
BY DEF VotingNext, votingState, LockerStep, lockerState

\* The vote of owner o on proposal p is set to the power his escrow will have.
Casts(p, o, side) ==
  /\ escrows[o].open /\ PowerFits(escrows[o], proposals[p].voting_ends_at)
  /\ FuturePower(escrows[o], proposals[p]) > 0
  /\ SetVote(locker, p, o, side, FuturePower(escrows[o], proposals[p]))

\* The ways a step of the composition changes the governor's accounts.
LEMMA VotingStepsGovern ==
  ASSUME LockerTypeOK, GovernTypeOK, [VotingNext]_votingState
  PROVE  /\ now' \in Nat /\ now' >= now
         /\ \/ UNCHANGED governVars
            \/ UNCHANGED now /\ OpenNext
            \/ UNCHANGED now /\ \E p \in Created : ActivateProposal(locker, p)
            \/ UNCHANGED <<now, lockerVars>>
               /\ \E p \in Created, o \in Owners, side \in Nat : Casts(p, o, side)
<1>0. now \in Nat
  BY DEF LockerTypeOK
<1>1. CASE LockerNext /\ UNCHANGED governVars /\ UNCHANGED now
  BY <1>0, <1>1
<1>2. CASE Tick /\ UNCHANGED <<lockerVars, governVars>>
  BY <1>0, <1>2 DEF Tick
<1>3. CASE UNCHANGED votingState
  BY <1>0, <1>3 DEF votingState
<1>4. CASE OpenNext /\ UNCHANGED lockerVars /\ UNCHANGED now
  BY <1>0, <1>4
<1>5. ASSUME NEW p \in Created, LockerActivates(p), UNCHANGED now
      PROVE  ActivateProposal(locker, p)
  BY <1>5 DEF LockerActivates, ActivateProposal
<1>6. ASSUME NEW p \in Created, NEW o \in Owners, NEW d \in Keys,
             NEW side \in 0..(MAX_OPTION + 1), CastVote(d, o, p, side)
      PROVE  side \in Nat /\ Casts(p, o, side)
  BY <1>6, GovernAssumption DEF CastVote, Casts, SetVote
<1> QED BY <1>0, <1>1, <1>2, <1>3, <1>4, <1>5, <1>6 DEF VotingNext

\* The power an escrow votes with is backed by what it holds until then: it is
\* at most the multiplier times the stake, and it is 0 if the lock ends before
\* the voting does.
LEMMA PowerIsBacked ==
  ASSUME LockerTypeOK, NEW o \in Owners, escrows[o].open, NEW t \in Nat,
         t <= now + params.max_stake_duration, PowerFits(escrows[o], t),
         VoterPower(params, escrows[o], t) > 0
  PROVE  /\ VoterPower(params, escrows[o], t) \in Nat
         /\ Multiplier \in Nat /\ StakedUntil(o, t) \in Nat
         /\ VoterPower(params, escrows[o], t) <= Multiplier * StakedUntil(o, t)
<1> DEFINE e == escrows[o]
           w == FullPower(params, e)
           left == e.escrow_ends_at - t
           max == params.max_stake_duration
           c == IF left < max THEN left ELSE max
<1>1. /\ e \in Escrow /\ e.amount \in Nat /\ e.escrow_ends_at \in Nat
      /\ e.is_max_lock \in BOOLEAN
      /\ Multiplier \in Nat /\ max \in Nat
  BY LockerAssumption DEF LockerTypeOK, Escrow, ParamsType, Multiplier
<1>2. w \in Nat /\ w = Multiplier * e.amount
  BY <1>1 DEF FullPower, Multiplier
<1>3. CASE e.is_max_lock
  <2>1. VoterPower(params, e, t) = w
    BY <1>3 DEF VoterPower
  <2>2. StakedUntil(o, t) = e.amount
    BY <1>3 DEF StakedUntil, LockEnd
  <2> QED BY <1>1, <1>2, <2>1, <2>2
<1>4. CASE ~ e.is_max_lock
  <2>1. /\ LockedAt(e, t) /\ t < e.escrow_ends_at
        /\ VoterPower(params, e, t) = (w * c) \div max
    BY <1>4 DEF VoterPower, LockedAt
  <2>2. max > 0
    BY <1>4, <2>1 DEF PowerFits
  <2>3. c \in Nat /\ c <= max
    BY <1>1, <2>1
  <2>4. StakedUntil(o, t) = e.amount
    BY <1>1, <1>4, <2>1 DEF StakedUntil, LockEnd
  <2>5. (w * c) \div max \in Nat /\ (w * c) \div max <= w
    <3> HIDE DEF w, c, max
    <3> QED BY <1>1, <1>2, <2>2, <2>3, PartOfWhole
  <2> QED BY <1>1, <1>2, <2>1, <2>4, <2>5
<1> QED BY <1>1, <1>3, <1>4

\* A power is a natural number.
LEMMA PowerIsNat ==
  ASSUME LockerTypeOK, NEW o \in Owners, NEW t \in Nat, PowerFits(escrows[o], t)
  PROVE  VoterPower(params, escrows[o], t) \in Nat
<1> DEFINE e == escrows[o]
           w == FullPower(params, e)
           left == e.escrow_ends_at - t
           max == params.max_stake_duration
           c == IF left < max THEN left ELSE max
<1>1. /\ e \in Escrow /\ e.amount \in Nat /\ e.escrow_ends_at \in Nat
      /\ params.max_stake_vote_multiplier \in Nat /\ max \in Nat
  BY LockerAssumption DEF LockerTypeOK, Escrow, ParamsType
<1>2. w \in Nat
  BY <1>1 DEF FullPower
<1>3. ASSUME ~ e.is_max_lock, LockedAt(e, t)
      PROVE  (w * c) \div max \in Nat
  <2>1. max > 0
    BY <1>3 DEF PowerFits
  <2>2. c \in Nat /\ c <= max
    BY <1>1, <1>3 DEF LockedAt
  <2> HIDE DEF w, c, max
  <2> QED BY <1>1, <1>2, <2>1, <2>2, PartOfWhole
<1> QED BY <1>2, <1>3 DEF VoterPower

\* What the composition does with the governor is what a locker may do.
LEMMA VotingCallsGovern ==
  ASSUME LockerTypeOK, GovernTypeOK, [VotingNext]_votingState
  PROVE  Called
<1>1. ASSUME NEW p \in Created, NEW o \in Owners, NEW side \in Nat, Casts(p, o, side)
      PROVE  \E power \in Nat : o \in Voters /\ SetVote(locker, p, o, side, power)
  <2> DEFINE power == FuturePower(escrows[o], proposals[p])
  <2>1. proposals[p].voting_ends_at \in Nat
    BY CreatedAreIds DEF Proposal
  <2>2. power \in Nat
    BY <1>1, <2>1, PowerIsNat DEF Casts, FuturePower
  <2>3. SetVote(locker, p, o, side, power)
    BY <1>1 DEF Casts
  <2> HIDE DEF power
  <2> QED BY <2>2, <2>3, VotingAssumption
<1>2. (\E p \in Created, o \in Owners, side \in Nat : Casts(p, o, side)) =>
        \E p \in Created, v \in Voters, side \in Nat, power \in Nat :
          SetVote(locker, p, v, side, power)
  BY <1>1
<1> QED BY <1>2, VotingStepsGovern DEF Called

\* locked-voter is a locker of the governor's open world, whatever the
\* parameters of the two programs are.
LEMMA VotingIsOfOpenWorld == VotingSpec => OpenWorldSpec
<1> DEFINE Inv == LockerTypeOK /\ GovernTypeOK /\ TallyInv
<1>1. VotingInit => Inv /\ GovernStart
  BY VotingStartsBoth, InitTyped, GovernInitTyped, GovernInitTally
<1>2. Inv /\ [VotingNext]_votingState => Inv'
  BY VotingStepsLocker, NextTyped, VotingCallsGovern, CalledKeeps
<1>3. Inv /\ [VotingNext]_votingState => [OpenWorldStep]_governState
  <2> SUFFICES ASSUME Inv, [VotingNext]_votingState PROVE [OpenWorldStep]_governState
    OBVIOUS
  <2>1. UNCHANGED now \/ (Tick /\ UNCHANGED governVars)
    BY DEF VotingNext, votingState
  <2> QED BY <2>1, VotingCallsGovern, CalledIsOpenWorldStep
<1> QED BY <1>1, <1>2, <1>3, PTL DEF VotingSpec, OpenWorldSpec

\* So a governor whose locker is locked-voter keeps everything it promises its
\* voters: the powers that escrows have, and lose while a proposal is voted on,
\* are counted once, every proposal goes the way of a ballot, and its rewards
\* are paid by the final tally.
THEOREM LockedVotingKeepsPromises ==
  VotingSpec => /\ [](TallyAccounted /\ QueuedProposalsPassed /\ RewardsAccounted)
                /\ OutcomeIsFinal
                /\ ImplementsBallot
BY VotingIsOfOpenWorld, TallyAlwaysAccounted, QueuedProposalsAlwaysPassed,
   RewardsAlwaysAccounted, OutcomeIsAlwaysFinal, GovernImplementsBallot, PTL

\* What locked-voter does in the composition it does alone.
LEMMA VotingIsOfLocker == VotingSpec => LockerSpec
<1>1. VotingInit => LockerStart
  BY VotingStartsBoth
<1> QED BY <1>1, VotingStepsLocker, PTL DEF VotingSpec, LockerSpec

\* So voting moves no tokens: locked-voter's books stay right while its escrows
\* are voted with.
THEOREM VotingKeepsBooks ==
  VotingSpec => [](PartialsAccounted /\ SupplyAccounted /\ NothingOutlivesEscrow)
BY VotingIsOfLocker, PartialsAlwaysAccounted, SupplyAlwaysAccounted,
   NothingEverOutlivesEscrow, PTL

\* And a vote, whenever it is cast, neither shortens a lock nor delays an exit.
THEOREM VotingKeepsLocks ==
  ASSUME OneMax
  PROVE  VotingSpec => []ExitIsNeverBlocked /\ LockIsKept
BY VotingIsOfLocker, ExitIsNeverEverBlocked, LockIsAlwaysKept, PTL

\* Each program keeps in the composition what it keeps alone.
LEMMA NextParts ==
  ASSUME OneMax, PartsInv, [VotingNext]_votingState
  PROVE  PartsInv'
<1> USE DEF PartsInv
<1>1. [LockerStep]_lockerState
  BY VotingStepsLocker
<1>2. LockerTypeOK'
  BY <1>1, NextTyped
<1>3. AccountsInv'
  BY <1>1, <1>2, NextAccounts
<1>4. NothingOutlivesEscrow
  BY BooksOutliveNothing
<1>5. LockInv'
  BY <1>1, <1>2, <1>4, NextLock
<1>6. Called
  BY VotingCallsGovern
<1>7. GovernTypeOK' /\ TallyInv'
  BY <1>6, CalledKeeps
<1> QED BY <1>2, <1>3, <1>5, <1>7

-----------------------------------------------------------------------------
(* One token, one vote *)

\* No vote outlasts a lock taken now: what locks the maximum now is locked
\* until every voting that has begun is over.
EndsWithinLock ==
  \A p \in Created : proposals[p].activated_at # 0 =>
    proposals[p].voting_ends_at <= now + params.max_stake_duration

BackedInv == PartsInv /\ EndsWithinLock /\ VotesAreBacked

\* What holds an amount of tokens until t is a natural number of tokens, and
\* no more than the escrow's.
LEMMA HeldIsEscrowed ==
  ASSUME LockerTypeOK, AccountsInv, NEW o \in Owners, NEW t \in Nat
  PROVE  /\ StakedUntil(o, t) \in Nat /\ UnstakingUntil(o, t) \in Nat
         /\ HeldUntil(o, t) \in Nat
         /\ HeldUntil(o, t) <= EscrowTokens(escrows[o])
<1>1. escrows[o].amount \in Nat /\ escrows[o].partial_unstaking_amount \in Nat
  BY DEF LockerTypeOK, Escrow
<1>2. StakedUntil(o, t) \in Nat /\ StakedUntil(o, t) <= escrows[o].amount
  BY <1>1 DEF StakedUntil
<1>3. UnstakingUntil(o, t) \in Nat
  BY UnstakingUntilIsNat
<1>4. UnstakingUntil(o, t) <= Unstaking(o)
  <2> DEFINE f == [p \in PartialIds |->
                     IF partials[p].expiration >= t THEN UnstakingOf(partials[p], o) ELSE 0]
             g == [p \in PartialIds |-> UnstakingOf(partials[p], o)]
  <2>1. \A p \in PartialIds : f[p] \in Int /\ g[p] \in Int /\ f[p] <= g[p]
    BY DEF LockerTypeOK, PartialUnstaking, UnstakingOf
  <2>2. IsFiniteSet(PartialIds)
    BY LockerAssumption
  <2>3. SumFunctionOnSet(f, PartialIds) <= SumFunctionOnSet(g, PartialIds)
    <3> HIDE DEF f, g
    <3> QED BY <2>1, <2>2, SumMonotone
  <2> QED BY <2>3 DEF UnstakingUntil, Unstaking
<1>5. Unstaking(o) = escrows[o].partial_unstaking_amount
  BY DEF AccountsInv, PartialsAccounted
<1> QED BY <1>1, <1>2, <1>3, <1>4, <1>5 DEF HeldUntil, EscrowTokens

\* The constants the parameters agree on do not change.
LEMMA MatchedParams ==
  ASSUME ParamsMatch, LockerTypeOK, LockerTypeOK'
  PROVE  /\ params'.max_stake_duration = params.max_stake_duration
         /\ Multiplier' = Multiplier
         /\ params.max_stake_duration \in Nat /\ Multiplier \in Nat
BY LockerAssumption
   DEF ParamsMatch, OneMax, OneMultiplier, LockerTypeOK, ParamsType, Multiplier

\* Every step keeps each voting within a lock taken now.
LEMMA NextEnds ==
  ASSUME ParamsMatch, PartsInv, PartsInv', EndsWithinLock, [VotingNext]_votingState
  PROVE  EndsWithinLock'
<1> USE DEF PartsInv
<1>1. PICK most \in Nat : most = params.max_stake_duration
  BY MatchedParams
<1>2. params'.max_stake_duration = most
  BY <1>1, MatchedParams
<1>3. \A g \in GovernanceParams : g.voting_period <= most
  BY <1>1, LockerAssumption, GovernAssumption
     DEF ParamsMatch, StakeOutlastsVoting, LockerTypeOK, ParamsType, GovernanceParameters
<1>4. \A p \in Created : proposals[p].activated_at # 0 =>
                            proposals[p].voting_ends_at <= now + most
  BY <1>1 DEF EndsWithinLock
<1>5. \A p \in Created' : proposals'[p].activated_at # 0 =>
                             proposals'[p].voting_ends_at <= now' + most
  BY <1>3, <1>4, VotingCallsGovern, EndsKept
<1> QED BY <1>2, <1>5 DEF EndsWithinLock

\* What is held until then in the next state is a natural number, too.
LEMMA HeldIsNatNext ==
  ASSUME LockerTypeOK', NEW o \in Owners, NEW t \in Nat
  PROVE  HeldUntil(o, t)' \in Nat
<1>1. StakedUntil(o, t)' \in Nat
  BY DEF LockerTypeOK, Escrow, StakedUntil
<1>2. UnstakingUntil(o, t)' \in Nat
  <2> DEFINE f == [p \in PartialIds |->
                     IF partials'[p].expiration >= t THEN UnstakingOf(partials'[p], o) ELSE 0]
  <2>1. \A p \in PartialIds : f[p] \in Nat
    BY DEF LockerTypeOK, PartialUnstaking, UnstakingOf
  <2>2. UnstakingUntil(o, t)' = SumFunctionOnSet(f, PartialIds)
    BY DEF UnstakingUntil
  <2> HIDE DEF f
  <2> QED BY <2>1, <2>2, LockerAssumption, SumOfNats
<1> QED BY <1>1, <1>2 DEF HeldUntil

\* The instant a voting ends is a number, in the next state as well.
LEMMA HeldAtEnd ==
  ASSUME NEW o, NEW p, NEW t, proposals'[p].voting_ends_at = t
  PROVE  HeldUntil(o, proposals[p].voting_ends_at)' = HeldUntil(o, t)'
BY DEF HeldUntil, StakedUntil, UnstakingUntil

\* A vote that a step leaves alone stays backed.
LEMMA BackingKept ==
  ASSUME ParamsMatch, PartsInv, PartsInv', VotesAreBacked, [VotingNext]_votingState,
         NEW p \in Created', State(proposals[p])' = "Active", NEW o \in Owners, VoteKept(p, o)
  PROVE  votes'[p][o].voting_power
           <= Multiplier' * HeldUntil(o, proposals[p].voting_ends_at)'
<1> USE DEF PartsInv
<1> DEFINE w == votes[p][o].voting_power
<1>1. /\ p \in Created /\ votes'[p][o].voting_power = w
      /\ proposals'[p].voting_ends_at = proposals[p].voting_ends_at
  BY DEF VoteKept
<1>2. proposals[p].voting_ends_at \in Nat /\ w \in Nat /\ now \in Nat
  BY <1>1, CreatedAreIds, VotingAssumption DEF GovernTypeOK, Proposal, Vote
<1>3. PICK t \in Nat : t = proposals[p].voting_ends_at
  BY <1>2
<1>4. now < t
  BY <1>2, <1>3 DEF VoteKept, State
<1>5. Multiplier' = Multiplier /\ Multiplier \in Nat
  BY MatchedParams
<1>6. w <= Multiplier * HeldUntil(o, t)
  BY <1>1, <1>3 DEF VotesAreBacked, VoteKept
<1>7. HeldUntil(o, t)' >= HeldUntil(o, t)
  <2>1. NothingOutlivesEscrow /\ [LockerStep]_lockerState /\ OneMax /\ t > now
    BY <1>2, <1>4, BooksOutliveNothing, VotingStepsLocker DEF ParamsMatch
  <2> QED BY <2>1, StepKeepsLock
<1>8. HeldUntil(o, t) \in Nat /\ HeldUntil(o, t)' \in Nat
  BY HeldIsEscrowed, HeldIsNatNext
<1>9. /\ Multiplier * HeldUntil(o, t) \in Nat /\ Multiplier * HeldUntil(o, t)' \in Nat
      /\ Multiplier * HeldUntil(o, t) <= Multiplier * HeldUntil(o, t)'
  BY <1>5, <1>7, <1>8, ProductGrows
<1>10. HeldUntil(o, proposals[p].voting_ends_at)' = HeldUntil(o, t)'
  BY <1>1, <1>3, HeldAtEnd
<1> HIDE DEF w
<1> QED BY <1>1, <1>2, <1>5, <1>6, <1>9, <1>10

\* A vote that is cast is backed.
LEMMA CastIsBacked ==
  ASSUME ParamsMatch, PartsInv, PartsInv', EndsWithinLock, UNCHANGED <<now, lockerVars>>,
         NEW p \in Created, NEW o \in Owners, NEW side, Casts(p, o, side),
         proposals'[p].activated_at = proposals[p].activated_at,
         proposals'[p].voting_ends_at = proposals[p].voting_ends_at
  PROVE  FuturePower(escrows[o], proposals[p])
           <= Multiplier' * HeldUntil(o, proposals[p].voting_ends_at)'
<1> USE DEF PartsInv
<1> DEFINE power == FuturePower(escrows[o], proposals[p])
<1>1. PICK t \in Nat : t = proposals[p].voting_ends_at
  BY CreatedAreIds DEF Proposal
<1>2. proposals[p].activated_at # 0
  BY DEF Casts, SetVote, State
<1>3. t <= now + params.max_stake_duration
  BY <1>1, <1>2 DEF EndsWithinLock
<1>4. power = VoterPower(params, escrows[o], t) /\ power > 0
  BY <1>1 DEF Casts, FuturePower
<1>5. /\ power \in Nat /\ StakedUntil(o, t) \in Nat
      /\ power <= Multiplier * StakedUntil(o, t)
  <2> HIDE DEF power
  <2> QED BY <1>1, <1>3, <1>4, PowerIsBacked DEF Casts
<1>6. HeldUntil(o, t) \in Nat /\ UnstakingUntil(o, t) \in Nat
  BY HeldIsEscrowed
<1>7. StakedUntil(o, t) <= HeldUntil(o, t)
  BY <1>5, <1>6 DEF HeldUntil
<1>8. Multiplier' = Multiplier /\ Multiplier \in Nat
  BY MatchedParams
<1>9. /\ Multiplier * StakedUntil(o, t) \in Nat /\ Multiplier * HeldUntil(o, t) \in Nat
      /\ Multiplier * StakedUntil(o, t) <= Multiplier * HeldUntil(o, t)
  BY <1>5, <1>6, <1>7, <1>8, ProductGrows
<1>10. HeldUntil(o, t)' = HeldUntil(o, t)
  BY DEF lockerVars, HeldUntil, StakedUntil, UnstakingUntil, LockEnd
<1>11. HeldUntil(o, proposals[p].voting_ends_at)' = HeldUntil(o, t)'
  BY <1>1, HeldAtEnd
<1> HIDE DEF power
<1>12. power <= Multiplier' * HeldUntil(o, proposals[p].voting_ends_at)'
  BY <1>5, <1>8, <1>9, <1>10, <1>11
<1> QED BY <1>12 DEF power

\* Every step keeps the votes backed: voting weighs what is held until the
\* end, and nothing held until then can be taken out.
LEMMA NextBacked ==
  ASSUME ParamsMatch, PartsInv, PartsInv', EndsWithinLock, VotesAreBacked,
         [VotingNext]_votingState
  PROVE  VotesAreBacked'
<1> SUFFICES ASSUME NEW p \in Created', State(proposals[p])' = "Active", NEW o \in Owners
             PROVE  votes'[p][o].voting_power
                      <= Multiplier' * HeldUntil(o, proposals[p].voting_ends_at)'
  BY DEF VotesAreBacked
<1> DEFINE Goal == votes'[p][o].voting_power
                     <= Multiplier' * HeldUntil(o, proposals[p].voting_ends_at)'
<1> USE DEF PartsInv
<1>1. votes'[p][o].voting_power = 0 => Goal
  <2>1. PICK t \in Nat : t = proposals'[p].voting_ends_at
    BY DEF GovernTypeOK, Proposal
  <2>2. HeldUntil(o, proposals[p].voting_ends_at)' \in Nat
    BY <2>1, HeldIsNatNext, HeldAtEnd
  <2>3. Multiplier' \in Nat
    BY MatchedParams
  <2> QED BY <2>2, <2>3
<1>2. VoteKept(p, o) => Goal
  BY BackingKept
<1>3. o \in Voters
  BY VotingAssumption
<1>4. ASSUME \/ UNCHANGED governVars
             \/ UNCHANGED now /\ OpenNext
             \/ UNCHANGED now /\ \E r \in Created : ActivateProposal(locker, r)
      PROVE  Goal
  <2>1. votes'[p][o].voting_power = 0 \/ VoteKept(p, o)
    BY <1>3, <1>4, VotingCallsGovern, VotesStand
  <2> QED BY <1>1, <1>2, <2>1
<1>5. ASSUME UNCHANGED <<now, lockerVars>>, NEW r \in Created, NEW u \in Owners,
             NEW side \in Nat, Casts(r, u, side)
      PROVE  Goal
  <2>1. PICK power \in Nat : power = FuturePower(escrows[u], proposals[r])
    <3>1. proposals[r].voting_ends_at \in Nat
      BY CreatedAreIds DEF Proposal
    <3> QED BY <1>5, <3>1, PowerIsNat DEF Casts, FuturePower
  <2>2. SetVote(locker, r, u, side, power) /\ u \in Voters
    BY <1>5, <2>1, VotingAssumption DEF Casts
  <2>3. \/ VoteKept(p, o)
        \/ /\ p = r /\ o = u
           /\ proposals'[p].activated_at = proposals[p].activated_at
           /\ proposals'[p].voting_ends_at = proposals[p].voting_ends_at
           /\ votes'[p][o].voting_power = power
    BY <1>3, <1>5, <2>2, OneVoteReported
  <2>4. ASSUME p = r, o = u,
               proposals'[r].activated_at = proposals[r].activated_at,
               proposals'[r].voting_ends_at = proposals[r].voting_ends_at,
               votes'[p][o].voting_power = power
        PROVE  Goal
    <3>1. power <= Multiplier' * HeldUntil(u, proposals[r].voting_ends_at)'
      BY <1>5, <2>1, <2>4, CastIsBacked
    <3> QED BY <2>4, <3>1
  <2> HIDE DEF Goal
  <2> QED BY <1>2, <2>3, <2>4
<1> HIDE DEF Goal
<1>6. Goal
  BY <1>4, <1>5, VotingStepsGovern
<1> QED BY <1>6 DEF Goal

\* All votes of a voting together are at most the multiplier times the supply:
\* they are backed by different tokens.
LEMMA BackedVotesFit ==
  ASSUME PartsInv, VotesAreBacked, Multiplier \in Nat,
         NEW p \in Created, State(proposals[p]) = "Active"
  PROVE  TotalVotes(proposals[p]) <= Multiplier * TokenSupply
<1> USE DEF PartsInv
<1> DEFINE t == proposals[p].voting_ends_at
           g == [o \in Owners |-> EscrowTokens(escrows[o])]
<1>1. t \in Nat /\ Voters = Owners
  BY CreatedAreIds, VotingAssumption DEF Proposal
<1>2. ASSUME NEW o \in Owners
      PROVE  g[o] \in Nat /\ votes[p][o].voting_power <= Multiplier * g[o]
  <2>1. votes[p][o].voting_power \in Nat
    BY <1>1, CreatedAreIds DEF GovernTypeOK, Vote
  <2>2. EscrowTokens(escrows[o]) \in Nat
    BY DEF LockerTypeOK, Escrow, EscrowTokens
  <2>3. HeldUntil(o, t) \in Nat /\ HeldUntil(o, t) <= EscrowTokens(escrows[o])
    BY <1>1, HeldIsEscrowed
  <2>4. votes[p][o].voting_power <= Multiplier * HeldUntil(o, t)
    BY DEF VotesAreBacked
  <2>5. /\ Multiplier * HeldUntil(o, t) \in Nat
        /\ Multiplier * EscrowTokens(escrows[o]) \in Nat
        /\ Multiplier * HeldUntil(o, t) <= Multiplier * EscrowTokens(escrows[o])
    BY <2>2, <2>3, ProductGrows
  <2> HIDE DEF t
  <2> QED BY <2>1, <2>2, <2>4, <2>5
<1>3. SumFunctionOnSet(g, Owners) = locked_supply
  BY DEF AccountsInv, SupplyAccounted, TotalEscrowed
<1>4. /\ TotalVotes(proposals[p]) \in Nat
      /\ TotalVotes(proposals[p]) <= Multiplier * SumFunctionOnSet(g, Owners)
  <2> HIDE DEF g
  <2> QED BY <1>1, <1>2, VotesWithin
<1>5. locked_supply \in Nat /\ TokenSupply \in Nat /\ locked_supply <= TokenSupply
  BY LockerAssumption DEF LockerTypeOK, AccountsInv, SupplyAccounted
<1>6. /\ Multiplier * locked_supply \in Nat /\ Multiplier * TokenSupply \in Nat
      /\ Multiplier * locked_supply <= Multiplier * TokenSupply
  BY <1>5, ProductGrows
<1> HIDE DEF g
<1> QED BY <1>3, <1>4, <1>6

\* The bound of NoTokenVotesTwice while the voting lasts.
ActiveVotesFit ==
  \A p \in Created : State(proposals[p]) = "Active" =>
    TotalVotes(proposals[p]) <= Multiplier * TokenSupply

\* The bound outlasts the voting.
LEMMA NextTotals ==
  ASSUME ParamsMatch, PartsInv, PartsInv', ActiveVotesFit', NoTokenVotesTwice,
         [VotingNext]_votingState
  PROVE  NoTokenVotesTwice'
<1> USE DEF PartsInv
<1>1. Multiplier' = Multiplier /\ Multiplier * TokenSupply \in Nat
  BY MatchedParams, LockerAssumption
<1>2. PICK most \in Nat : most = Multiplier * TokenSupply
  BY <1>1
<1>3. \A p \in Created : TotalVotes(proposals[p]) <= most
  BY <1>2 DEF NoTokenVotesTwice
<1>4. \A p \in Created' : State(proposals[p])' = "Active" => TotalVotes(proposals'[p]) <= most
  BY <1>1, <1>2 DEF ActiveVotesFit, TotalVotes
<1>5. \A p \in Created' : TotalVotes(proposals'[p]) <= most
  BY <1>3, <1>4, VotingCallsGovern, TotalsKept
<1> QED BY <1>1, <1>2, <1>5 DEF NoTokenVotesTwice, TotalVotes

\* The invariant holds of a new locker and a new governor.
LEMMA InitBacked == VotingInit => BackedInv /\ NoTokenVotesTwice
<1> SUFFICES ASSUME VotingInit PROVE BackedInv /\ NoTokenVotesTwice
  OBVIOUS
<1>1. LockerStart /\ GovernStart
  BY VotingStartsBoth
<1>2. PartsInv
  BY <1>1, InitTyped, InitAccounts, InitLock, GovernInitTyped, GovernInitTally DEF PartsInv
<1>3. Created = {}
  BY <1>1 DEF GovernStart, GovernInit, Created
<1> QED BY <1>2, <1>3 DEF BackedInv, EndsWithinLock, VotesAreBacked, NoTokenVotesTwice

\* BackedInv is inductive, if the parameters match.
LEMMA BackedAlways ==
  ASSUME ParamsMatch
  PROVE  VotingSpec => []BackedInv
<1>1. VotingInit => BackedInv
  BY InitBacked
<1>2. BackedInv /\ [VotingNext]_votingState => BackedInv'
  <2> SUFFICES ASSUME BackedInv, [VotingNext]_votingState PROVE BackedInv'
    OBVIOUS
  <2> USE DEF BackedInv
  <2>1. OneMax
    BY DEF ParamsMatch
  <2>2. PartsInv'
    BY <2>1, NextParts
  <2>3. EndsWithinLock'
    BY <2>2, NextEnds
  <2>4. VotesAreBacked'
    BY <2>2, NextBacked
  <2> QED BY <2>2, <2>3, <2>4
<1> QED BY <1>1, <1>2, PTL DEF VotingSpec

\* Every vote on a proposal that is still voted on is backed by tokens that
\* stay locked until its voting ends, if the governor keeps the maximum lock
\* and the multiplier, and the maximum lock is no shorter than a voting.
THEOREM VotesAlwaysBacked ==
  ASSUME ParamsMatch
  PROVE  VotingSpec => []VotesAreBacked
<1>1. BackedInv => VotesAreBacked
  BY DEF BackedInv
<1> QED BY <1>1, BackedAlways, PTL

\* One token, one vote: with matching parameters all votes on a proposal,
\* during its voting and after it, weigh at most the multiplier times the
\* tokens of the mint, whichever escrows the tokens pass through.
THEOREM NoTokenEverVotesTwice ==
  ASSUME ParamsMatch
  PROVE  VotingSpec => []NoTokenVotesTwice
<1>1. BackedInv => PartsInv /\ ActiveVotesFit
  <2> SUFFICES ASSUME BackedInv PROVE PartsInv /\ ActiveVotesFit
    OBVIOUS
  <2>1. Multiplier \in Nat
    BY LockerAssumption DEF BackedInv, PartsInv, LockerTypeOK, ParamsType, Multiplier
  <2> QED BY <2>1, BackedVotesFit DEF BackedInv, ActiveVotesFit
<1>2. PartsInv /\ PartsInv' /\ ActiveVotesFit' /\ NoTokenVotesTwice /\ [VotingNext]_votingState
        => NoTokenVotesTwice'
  BY NextTotals
<1>3. VotingInit => NoTokenVotesTwice
  BY InitBacked
<1> QED BY <1>1, <1>2, <1>3, BackedAlways, PTL DEF VotingSpec

=============================================================================
