SPECIFICATION GovernedSpec
CONSTANTS
  Alice = Alice
  Bob = Bob
  Dao = Dao
  Locker1 = Locker1
  Locker2 = Locker2
  Jup = Jup
  NoMint = NoMint
  NoKey = NoKey
  NoTransaction = NoTransaction
  Governor = Dao
  WalletKeys <- MCKeys
  Proposers <- MCProposers
  InitialOwners <- MCOwners
  Thresholds = {1}
  MinimumDelays = {0, 1}
  Instructions <- MCInstructions
  Etas = {2}
  MaxOwners = 2
  MaxTransactions = 2
  DEFAULT_GRACE_PERIOD = 0
  MAX_DELAY_SECONDS = 2
  Lockers = {Locker1, Locker2}
  Voters = {Alice}
  Mints = {Jup}
  Transactions <- MCIndices
  MaxProposals = 1
  MAX_OPTION = 2
  GovernanceParams <- MCGovernances
  Rewards = {1}
  RewardSupply = 0
  Powers = {1}
  U64Max = 4
  MaxTime = 3
CHECK_DEADLOCK FALSE
INVARIANTS
  QueuedHasTransaction
  PassedCanBeQueued
PROPERTIES
  ActsAsVoted
