SPECIFICATION VotingSpec
CONSTANTS
  Alice = Alice
  Bob = Bob
  Carol = Carol
  Unstake1 = Unstake1
  NoKey = NoKey
  Owners = {Alice, Bob}
  Delegates = {}
  PartialIds = {Unstake1}
  LockerParams <- MCLockerParams
  TokenSupply = 1
  MaxEscrows = 3
  MaxTime = 3
  Instants = {}
  ThisLocker = ThisLocker
  Lockers = {ThisLocker}
  Voters = {Alice, Bob}
  Powers = {}
  Proposers = {Carol}
  Mints = {}
  NoMint = NoMint
  Transactions = {}
  NoTransaction = NoTransaction
  MaxProposals = 1
  MAX_OPTION = 2
  GovernanceParams <- MCGovernance
  Rewards = {}
  RewardSupply = 0
  U64Max = 4
SYMMETRY MCSymmetry
CHECK_DEADLOCK FALSE
INVARIANTS
  VotesAreBacked
  NoTokenVotesTwice
