SPECIFICATION SteadyVotingSpec
CONSTANTS
  Alice = Alice
  Bob = Bob
  Carol = Carol
  NoKey = NoKey
  Owners = {Alice, Bob}
  Delegates = {}
  LockerParams <- MCLockerParams
  Expirations = {2, 4}
  ONE_DAY = 1
  TokenSupply = 1
  MaxEscrows = 3
  MaxTime = 4
  Instants <- MCInstants
  ThisLocker = ThisLocker
  Lockers = {ThisLocker}
  Voters = {Alice, Bob}
  Powers = {}
  Proposers = {Carol}
  Mints = {}
  NoMint = NoMint
  Transactions = {}
  NoTransaction = NoTransaction
  MaxProposals = 1
  MAX_OPTION = 2
  GovernanceParams <- MCGovernance
  Rewards = {}
  RewardSupply = 0
  U64Max = 4
SYMMETRY MCSymmetry
CHECK_DEADLOCK FALSE
INVARIANTS
  VotesAreBacked
  NoTokenVotesTwice
PROPERTIES
  LockIsKept
