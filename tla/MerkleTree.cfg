\* Snapshots of one to six allocations, in every order their hashes can have.
SPECIFICATION TreeSpec
CONSTANTS
  K1 = K1
  K2 = K2
  K3 = K3
  K4 = K4
  K5 = K5
  K6 = K6
  Claimants <- MCClaimants
  Snapshots <- MCSnapshots
  Amounts = {1, 2}
INVARIANTS
  EveryClaimVerifies
  OnlyClaimsVerify
CHECK_DEADLOCK FALSE
