SPECIFICATION WalletSpec
CONSTANTS
  Alice = Alice
  Bob = Bob
  Governor = Governor
  NoKey = NoKey
  WalletKeys <- MCKeys
  InitialOwners <- MCOwners
  Thresholds = {2}
  MinimumDelays = {0, 1}
  Instructions <- MCInstructions
  Etas = {1}
  MaxOwners = 3
  MaxTransactions = 2
  DEFAULT_GRACE_PERIOD = 0
  MAX_DELAY_SECONDS = 2
  MaxTime = 2
CHECK_DEADLOCK FALSE
INVARIANTS
  WalletTypeOK
  SignersAreApprovers
PROPERTIES
  ExecutionIsAuthorized
  ExecutedOnce
  ThresholdStaysBelowOwners
  ImplementsMultisig
