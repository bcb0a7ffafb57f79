SPECIFICATION LockerSpec
CONSTANTS
  Alice = Alice
  Bob = Bob
  Unstake1 = Unstake1
  Unstake2 = Unstake2
  NoKey = NoKey
  Owners = {Alice, Bob}
  Delegates = {Dave}
  Dave = Dave
  PartialIds = {Unstake1, Unstake2}
  LockerParams <- MCFixedMax2
  TokenSupply = 2
  MaxEscrows = 3
  MaxTime = 4
  Instants <- MCInstants
SYMMETRY MCSymmetry
CHECK_DEADLOCK FALSE
INVARIANTS
  LockerTypeOK
  PartialsAccounted
  SupplyAccounted
  NothingOutlivesEscrow
  ExitIsNeverBlocked
PROPERTIES
  LockIsKept
