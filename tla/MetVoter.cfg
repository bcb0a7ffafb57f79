SPECIFICATION MetSpec
CONSTANTS
  Alice = Alice
  Bob = Bob
  NoKey = NoKey
  Owners = {Alice, Bob}
  Delegates = {Bob}
  LockerParams <- MCDurations
  Expirations = {2, 3, 4}
  ONE_DAY = 1
  TokenSupply = 2
  MaxEscrows = 3
  MaxTime = 6
  Instants = {}
CHECK_DEADLOCK FALSE
INVARIANTS
  MetTypeOK
  SupplyAccounted
  LaunchFindsNoLocks
PROPERTIES
  ImplementsLockedVoter
