SPECIFICATION SubaccountSpec
CONSTANTS
  Alice = Alice
  Bob = Bob
  NoKey = NoKey
  WalletKeys <- MCKeys
  InitialOwners <- MCOwners
  Thresholds = {2}
  MinimumDelays = {0}
  Instructions <- MCInstructions
  Etas = {}
  MaxOwners = 2
  MaxTransactions = 2
  DEFAULT_GRACE_PERIOD = 0
  MAX_DELAY_SECONDS = 2
  MaxTime = 2
  SubaccountIndices = {0}
  Bumps = {0, 1}
  CanonicalBump = 0
CHECK_DEADLOCK FALSE
INVARIANTS
  InfoTellsWhoSigns
PROPERTIES
  ActsAreAuthorized
  ImplementsSmartWallet
