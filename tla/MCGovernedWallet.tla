-------------------------- MODULE MCGovernedWallet --------------------------
(* Instances of GovernedWallet for TLC. *)
EXTENDS GovernedWallet, TLC

CONSTANTS Alice, Bob, Dao, Locker1, Locker2, Jup

MCGovernance(timelock) ==
  [voting_delay |-> 0, voting_period |-> 1, quorum_votes |-> 1,
   timelock_delay_seconds |-> timelock]

\* create_governor refuses the negative one, which can only be set later.
MCGovernances == {MCGovernance(0), MCGovernance(1), MCGovernance(-1)}

MCKeys == {Alice, Bob, Dao}
MCProposers == {Alice, Bob}

\* Bob is an owner only if the owners are changed.
MCOwners == {<<Dao, Alice>>}

\* One transaction changes two of the governor's settings and the owner set.
MCInstructions ==
  {<<SetParamsTo(MCGovernance(-1))>>,
   <<SetLockerTo(Locker2), SetRewardTo([reward_mint |-> Jup, reward_per_proposal |-> 1]),
     [op |-> "set_owners", owners |-> <<Bob, Dao>>]>>}

MCIndices == 0..(MaxTransactions - 1)
=============================================================================
