SPECIFICATION DistributorSpec
CONSTANTS
  Admin1 = Admin1
  Admin2 = Admin2
  Account1 = Account1
  Vault = Vault
  Alice = Alice
  Bob = Bob
  NoKey = NoKey
  Owners = {Alice, Bob}
  Delegates = {}
  LockerParams <- MCLockerParams
  Expirations = {2}
  ONE_DAY = 1
  TokenSupply = 3
  MaxEscrows = 2
  MaxTime = 3
  Instants = {}
  Leaves <- MCLeaves
  MaxTotalClaims = {2, 3}
  MaxNumNodes = {1, 2}
  ClawbackStarts = {3}
  Admins = {Admin1, Admin2}
  Receivers = {Account1, Vault}
  TokenVault = Vault
CHECK_DEADLOCK FALSE
INVARIANTS
  ClaimsAccounted
  TokensAccounted
  NobodyIsShutOut
PROPERTIES
  ImplementsMetVoter
