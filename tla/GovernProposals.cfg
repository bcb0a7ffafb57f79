SPECIFICATION GovernSpec
CONSTANTS
  Alice = Alice
  Carol = Carol
  Bob = Bob
  Locker1 = Locker1
  Locker2 = Locker2
  Jup = Jup
  Tx1 = Tx1
  Tx2 = Tx2
  NoMint = NoMint
  NoTransaction = NoTransaction
  Lockers = {Locker1}
  Proposers = {Carol}
  Voters = {Alice, Bob}
  Mints = {Jup}
  Transactions = {Tx1}
  MaxProposals = 2
  MAX_OPTION = 2
  GovernanceParams <- MCQuickGovernance
  Rewards = {3}
  RewardSupply = 3
  Powers = {1}
  U64Max = 4
  MaxTime = 2
SYMMETRY MCSymmetry
CHECK_DEADLOCK FALSE
INVARIANTS
  RewardsAccounted
