SPECIFICATION WalletSpec
CONSTANTS
  Alice = Alice
  Bob = Bob
  Governor = Governor
  NoKey = NoKey
  WalletKeys <- MCKeys
  InitialOwners <- MCOneList
  Thresholds = {2}
  MinimumDelays = {1}
  Instructions <- MCInstructions
  Etas = {2}
  MaxOwners = 3
  MaxTransactions = 2
  DEFAULT_GRACE_PERIOD = 1
  MAX_DELAY_SECONDS = 2
  MaxTime = 4
CHECK_DEADLOCK FALSE
PROPERTIES
  DelayFollowsApproval
