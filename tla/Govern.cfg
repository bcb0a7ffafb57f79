SPECIFICATION GovernFairSpec
CONSTANTS
  Alice = Alice
  Carol = Carol
  Bob = Bob
  Locker1 = Locker1
  Locker2 = Locker2
  Jup = Jup
  Tx1 = Tx1
  Tx2 = Tx2
  NoMint = NoMint
  NoTransaction = NoTransaction
  Lockers = {Locker1, Locker2}
  Proposers = {Carol}
  Voters = {Alice, Bob}
  Mints = {}
  Transactions = {Tx1, Tx2}
  MaxProposals = 1
  MAX_OPTION = 2
  GovernanceParams <- MCGovernances
  Rewards = {}
  RewardSupply = 0
  Powers = {0, 1, 2}
  U64Max = 3
  MaxTime = 4
CHECK_DEADLOCK FALSE
INVARIANTS
  GovernTypeOK
  TallyAccounted
  QueuedProposalsPassed
PROPERTIES
  OutcomeIsFinal
  VotingEnds
  ImplementsBallot
