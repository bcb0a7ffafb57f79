# WAGMI in TLA+

TLA+ modules, TLC runs and TLAPS proofs about the on-chain programs of the WAGMI protocol
(`src/programs/`): staking with locks (`locked-voter`, `met-voter`), proposals and votes
(`govern`), the council's multisig (`smart-wallet`) and the distribution of tokens to a
snapshot (`merkle-distributor`, with the client that makes its trees).

## 1. The system

A DAO of this protocol is a set of accounts owned by Solana programs. A program is a set of
instructions; a transaction runs instructions one after the other, and an instruction that
returns an error undoes everything. There is no concurrency inside an instruction: the hard
part is the *order* of instructions sent by many people, over long stretches of time, on
accounts that store totals, flags and instants computed earlier. In the modules an action is
one successful instruction, including the instructions it calls in other programs; its guard
is the conjunction of the checks in `validate`, in the account constraints and in the
handler. All programs are built with `overflow-checks = true`: an arithmetic overflow aborts
the instruction, so it is a guard too.

| component | state | operations | depends on |
|---|---|---|---|
| `locked-voter` | `Locker` (parameters, `locked_supply`, `total_escrow`), an `Escrow` per owner, `PartialUnstaking` accounts, the escrows' token accounts | `new_locker`, `new_escrow`, `increase_locked_amount`, `extend_lock_duration`, `toggle_max_lock`, `withdraw`, `open_/merge_/withdraw_partial_unstaking`, `set_vote_delegate`, `set_locker_params`, `cast_vote`, `activate_proposal` | clock; token program; calls `govern::set_vote` and `govern::activate_proposal` as the locker |
| `met-voter` | as `locked-voter`, without partial unstaking, with a `Locker::expiration` that ends its initial phase | as `locked-voter`, and `activate_proposal_initial_phase`, `change_locker_expiration` | clock; token program; `govern` |
| `govern` | `Governor` (parameters, locker, voting reward), `Proposal`s, `Vote`s, reward vaults | `create_governor`, `create_proposal`, `activate_proposal`, `cancel_proposal`, `new_vote`, `set_vote`, `queue_proposal`, `claim_reward`, `set_governance_params`, `set_locker`, `set_voting_reward`, two metadata instructions | clock; token program; calls `smart_wallet::create_transaction[_with_timelock]` as the governor |
| `smart-wallet` | `SmartWallet` (owners, threshold, delay, `owner_set_seqno`), `Transaction`s, `SubaccountInfo`s | `create_smart_wallet`, `create_transaction[_with_timelock]`, `approve`, `unapprove`, `execute_transaction[_derived]`, `remove_transaction`, `set_owners`, `change_threshold`, `owner_invoke_instruction[_v2]`, `create_subaccount_info` | clock; executes instructions of any program, itself included, and signs for `set_locker_params`, `change_locker_expiration`, `set_governance_params`, `set_locker`, `set_voting_reward` and the voters' activations |
| `merkle-distributor` | `MerkleDistributor` (root, limits, totals, clawback), a `ClaimStatus` per index, its vault | `new_distributor`, `claim`, `clawback`, `set_admin`, `set_clawback_receiver` | clock; token program; a claim calls `met-voter::increase_locked_amount` |
| snapshot trees (`cli/merkle_distributor`) | a snapshot, the layers of its tree | building the tree, finding a proof | the program verifies the proof |
| other `cli/*`, `libs/vipers` | none | one transaction per command; assertion macros | the programs |

What is hard in it, and what makes each part correct:

- **locked-voter, met-voter.** One token is recorded in up to four places (`Escrow::amount` or
  `partial_unstaking_amount`, a `PartialUnstaking`, `locked_supply`, the token account), and
  accounts are closed and re-created at the same address. The books must balance, nothing may
  be left behind by a closed account, tokens must not leave before the instant they were
  locked until, and must be able to leave after it. met-voter changes its rules when the
  initial phase ends, at an instant the wallet may move.
- **voting.** The power of a vote is computed once, for the instant the voting ends; the
  escrow, and with met-voter the phase, goes on changing. A vote must stay backed by tokens
  and a token must not vote twice.
- **govern.** The tally is a running total over votes that change; the state of a proposal is
  recomputed from stored numbers and the clock by every instruction. The tally must be the
  sum of the votes, an outcome must be final, only what was voted through may be queued, once,
  and rounded rewards must never add up to more than the reward.
- **smart-wallet.** Approvals are flags by position in a list of owners that executed
  transactions replace. What is executed must have enough approvals of different present
  owners, after its delay, once; and the addresses the wallet signs for must be told apart.
- **the governed wallet.** A proposal that passed becomes a transaction of a wallet with
  owners, delays and an owner set of its own, whose execution changes the governor. Nothing may
  be carried out in the governor's name that was not voted through, or be lost on the way.
- **merkle-distributor.** Claims race for limits, for the vault and with the clawback, and
  deposit into accounts of another program that may refuse.
- **snapshot trees.** Client and program must agree for every shape of tree.

`PROJECT.json` lists the hazards line by line ("hazards") with the properties that cover them.

## 2. Modules

| module | what it is |
|---|---|
| `SolanaClock` | `now` and `Tick`: the clock every program reads (external). |
| `LockedVoter` | the `locked-voter` program: locker, escrows, partial unstakings, token accounts. |
| `Govern` | the `govern` program; the locker's signature is an input. |
| `LockedVoting` | `LockedVoter` and `Govern` composed by `cast_vote` and `activate_proposal`. It extends both (they share only `now`), so that the theorems about each apply to the composition. |
| `MetVoter` | the `met-voter` program, in both phases. |
| `MetVoting` | `MetVoter` and `Govern` composed by `cast_vote`, `activate_proposal` and `activate_proposal_initial_phase`. |
| `MerkleDistributor` | `merkle-distributor` composed with `MetVoter`: `Claim` contains the `Deposit` of `increase_locked_amount`, so that a claim the deposit refuses does not happen. |
| `SmartWallet` | the `smart-wallet` program: the wallet, its transactions, and what it runs on itself. |
| `Subaccounts` | the addresses the wallet can sign for: `execute_transaction_derived`, `owner_invoke_instruction[_v2]` and `create_subaccount_info`, on top of `SmartWallet`. |
| `GovernedWallet` | `Govern` and `SmartWallet` composed by `queue_proposal` and by the execution of the governor's own instructions. It extends both, so that the theorems about each apply: `queued_transactions` has what the governor knows of its wallet's transactions, `transactions` the wallet's accounts themselves. |
| `MerkleTree` | the client's tree and proof, the program's verification. |
| `Ballot`, `GovernRefinement` | what a vote is to the voters, with no time, tally or timestamp; how `Govern`'s accounts are read as ballots. |
| `Multisig`, `SmartWalletRefinement` | what a multisig is to its members, with sets instead of lists, flags and sequence numbers; how the wallet's accounts are read as one. |
| `MetVoterRefinement` | how met-voter's accounts are read as locked-voter's. |
| `SumTheorems` | proofs about finite sums (`SumFunctionOnSet`), with which the books are stated. |
| `*_proofs` | the theorems about the module of that name and about the refinement it takes part in; `LockedVoter_proofs` also has those about `LockedVoting`, `MetVoter_proofs` those about `MetVoting`, `SmartWallet_proofs` those about `Subaccounts`. |
| `MC*` | the constants of the TLC runs. |

State and actions keep the names of the source: the field `Escrow::escrow_ends_at` is
`escrows[o].escrow_ends_at`, the handler `toggle_max_lock` is `ToggleMaxLock`. An account
that does not exist has `open = FALSE` and zeroes; `init` is the guard `~ open`, and `close`
resets to that value. "map" in `PROJECT.json` names the lines of each definition.

Abstractions:

- Keys are model values. Addresses derived from an owner or an index are the domain of a
  function (one escrow per owner, one vote per proposal and voter, one claim status per index),
  so that a closed account is re-created at the same place, as in the programs.
- Signatures are parameters of the actions where the program compares keys (`CastVote(d, ..)`
  requires `d = vote_delegate`); where anyone may sign there is none.
- Tokens are whole numbers. Whose wallet a circulating token is in does not matter to the
  voters; in `Govern` what each voter received is kept, in `MerkleDistributor` what each
  clawback receiver got; the vault itself may be named as one (`TokenVault`), and a clawback
  then moves nothing.
- Transfers that go past the programs straight into an escrow's token account are left out. In
  `locked-voter` they would be without effect: `withdraw` pays out the recorded amount and leaves
  the rest where it is. In `met-voter` they would not: `withdraw` closes the token account
  (`met-voter/src/instructions/withdraw.rs:54`), which fails unless the recorded amount is all
  there is in it. `MetVoter!Withdraw` has that guard (`amount = vault[o]`), but in the module
  nothing makes the two differ (`SupplyAccounted`). So nothing here says that the owner of a
  met-voter escrow can always leave: `LaunchFindsNoLocks` says that no *lock* holds him, and
  `ExitIsNeverBlocked` is about `locked-voter` only.
- The width of `u64` is kept where a limit can be reached by the sums the programs compute
  (`Govern`'s tally, the power of an escrow); it is the constant `U64Max`. Amounts of one mint
  never exceed its supply, which fits in a `u64`.
- `toggle_max_lock` to the present value and a vote without power succeed and change nothing:
  they are stuttering steps.
- `State` of `Govern` returns `"Overflow"` where `Proposal::state` aborts; no instruction
  accepts it, as none succeeds.
- An instruction of a smart-wallet transaction is kept if it changes the wallet
  (`set_owners`, `change_threshold`), the governor (`set_governance_params`, `set_locker`,
  `set_voting_reward`, in `GovernedWallet`) or asks for a derived signature (`Subaccounts`); a
  sequence of them is executed as a whole or not at all. An instruction that executes another
  transaction of the same wallet (a nested `execute_transaction`) is left out: every execution
  of the modules is one of its own. The wallet's calls to the voters
  (`set_locker_params`, `change_locker_expiration`) are inputs of those modules.
- In `MerkleTree` a hash is the term it is computed from: different inputs have different
  hashes. The order of two hashes, which decides the order of the leaves, is arbitrary. In
  `MerkleDistributor` the tree is its set of leaves: `RootCommitsToLeaves` proves that exactly
  the allocations of a snapshot have a proof against the root the client makes of it.
- Mutated definitions (`SupplyKept`, `TieWins`, `FlagEverywhere`, ...) stand beside the
  definition they vary, with a comment that says what they forget. No action uses them: they
  show that the properties can fail.

## 3. Runs

All counts are of distinct states. `CHECK_DEADLOCK FALSE` everywhere: a bounded clock and
bounded numbers of accounts stop every instance, and the programs themselves may be idle
forever.

| run | checks | instance and why it is enough | result |
|---|---|---|---|
| `locker` | `LockerTypeOK`, `PartialsAccounted`, `SupplyAccounted`, `NothingOutlivesEscrow`, `ExitIsNeverBlocked`, `LockIsKept` | two owners and a delegate who owns nothing, two partial unstakings, two tokens, three escrow creations, maximum lock 2, time 4: both partial unstakings belong to one escrow or to different ones, an escrow is closed and re-created while another is in use, a lock is extended, toggled, split, merged and runs out twice; 568,408 states | holds, with a constant maximum |
| `govern` | `GovernTypeOK`, `TallyAccounted`, `QueuedProposalsPassed`, `OutcomeIsFinal`, `VotingEnds`, `ImplementsBallot` | two voters with power 0 to 2, a `u64` of 3 (the tally overflows), two transactions, two lockers, voting periods 0 and 2, quorums 0 and 2 (reached by votes of every side), time 4; 27,872 states | holds, `VotingEnds` under `GovernFairSpec` |
| `govern_proposals` | `RewardsAccounted` | two proposals with overlapping votings and one reward vault with tokens for one of them, time 2; 372,014 states | holds |
| `voting_backed` | `VotesAreBacked`, `NoTokenVotesTwice` | one token, two owners, three escrow creations, a partial unstaking, a voting period as long as the maximum lock (the shortest lock the assumption allows); 712,072 states | holds |
| `wallet` | `WalletTypeOK`, `SignersAreApprovers`, `ExecutionIsAuthorized`, `ExecutedOnce`, `ThresholdStaysBelowOwners`, `ImplementsMultisig` | three keys and two transactions, owner lists in different orders and with a key listed twice, a transaction that changes only the threshold and one of two instructions, an eta, a transaction that expires, time 2; 365,556 states | holds |
| `wallet_delay` | `DelayFollowsApproval` | minimum delay 1 | violated: see *Findings* |
| `subaccounts` | `InfoTellsWhoSigns`, `ActsAreAuthorized`, `ImplementsSmartWallet` | two owners, two transactions, two address types with two bumps, of which one is canonical; instructions that no single execution can sign for; the owners change between; 578,176 states | holds |
| `governed_wallet` | `QueuedHasTransaction`, `PassedCanBeQueued`, `ActsAsVoted` | the governor and a council owner, one proposal and two transactions that set a negative timelock, the locker, the reward and the owners, time 3; 1,109,276 states | holds |
| `met_locker` | `MetTypeOK`, `SupplyAccounted`, `LaunchFindsNoLocks`, `ImplementsLockedVoter` | two owners, two tokens, three escrow creations, three expirations, two sets of durations, time 6: the launch is put off, comes, and locks are taken and run out after it; 220,788 states | holds |
| `met_voting_backed` | `VotesAreBacked`, `NoTokenVotesTwice`, `LockIsKept` | one token, two owners, three escrow creations, a voting that begins before, at and after the launch and lasts as long as the maximum lock, time 4; 491,688 states | holds under `SteadyVotingSpec` |
| `distributor` | `ClaimsAccounted`, `TokensAccounted`, `NobodyIsShutOut`, `ImplementsMetVoter` | a tree with two leaves of one index and two indices of one claimant, three tokens, limits that cover the tree and limits that do not, two admins, two receivers of which one is the vault itself, a launch before the clawback, time 3; 338,016 states | holds |
| `merkle_tree` | `EveryClaimVerifies`, `OnlyClaimsVerify` | one to six allocations in every order of their hashes: every shape of layers up to three levels, with odd layers at each; 3,455 states | holds |

**Refinements.** Three abstract specifications say what a part promises, and the detailed
module is shown to implement them. `Ballot`: every proposal opens once and from the end of its
voting on has the outcome that the votes as they stand give it, by the program's own count: a
quorum of all votes cast and, for a Yes/No proposal, more for than against. `Multisig`: every decision is
made once, with the agreement of enough different members of the membership it was proposed
under. `LockedVoter` itself is the abstract specification of `MetVoter` (no partial unstaking,
no minimum duration: the initial phase takes deposits without a lock), so that nothing leaves
met-voter that locked-voter would still hold. In the same way `Subaccounts` implements
`SmartWallet`, and `MerkleDistributor` implements `MetVoter`: a claim gets around none of its
checks.

**Fairness.** Only the passing of time is fair (`GovernFairSpec`: weak fairness of
`Tick`). No program makes anyone call it, so no instruction is fair, and nothing but the end
of a voting must happen. What owners *can* do is stated as safety: `ExitIsNeverBlocked`,
`NobodyIsShutOut`, `PassedCanBeQueued`.

**A steady wallet.** `SteadyVotingSpec` and `SteadySpec` restrict the wallet's
`change_locker_expiration` to later instants. Without that `VotesAreBacked` and `LockIsKept`
fail, as the code intends: a wallet that ends the initial phase early frees tokens, those that
have voted included. Nothing in the repository promises otherwise, so it is an assumption and
not a finding.

**Bounds.** `MaxTime`, `MaxEscrows`, `MaxProposals`, `MaxTransactions` and `MaxOwners` are the
only bounds in guards; the others are sizes of constant sets. The properties relate an account
to its totals or to another account, so that two of each kind (and a third creation, for an
address used again) show the interactions; time must exceed the longest duration by one for a
lock or a vote to begin, end and begin again.

**Findings.** `wallet_delay` shows a disagreement between the code and what the repository
says of it: `minimum_delay` ("Minimum delay between approval and execution") runs from the
creation of a transaction, and a late approval is followed by an immediate execution.

Other disagreements met while modelling, which the modules reproduce and no run is about:

- `toggle_max_lock(false)` sets the end of a lock from the present `max_stake_duration`
  without the check of `extend_lock_duration`, so that after the governor lowered the maximum
  it shortens a lock that `RefreshCannotShorten` (`locked-voter/src/lib.rs:131`) says a refresh
  cannot. `LockIsKept` assumes a constant maximum for this reason.
- `total_escrow`, "Total number of escrow" (`locked-voter/src/state.rs:18`), is never lowered:
  it counts creations.
- `quorum_votes` is "the number of votes *in support of a proposal* required in order for a
  quorum to be reached and for a vote to succeed" (`govern/src/state.rs:63` and `:117`, and so
  say the command-line client and the tests' constants). `meets_quorum`
  (`govern/src/proposal.rs:83`) counts all votes, "enough votes were made on the proposal", and
  `ProposalState` has it so too (`proposal.rs:26`). With a quorum of 2, one vote for and one
  abstention pass a proposal that one vote supports; with a quorum of 3, two votes for pass
  only if somebody votes against or abstains. `MeetsQuorum`, `Passed` and `Ballot!Outcome` count as the
  code does, so `QueuedProposalsPassed`, `ImplementsBallot`, and what is shown of the governed
  wallet, say that a proposal passed by the program's quorum and not by the documented one.
- A proposal is defeated if "more or equal votes are Against than For" (`proposal.rs:25`). The
  code weighs the two sides on Yes/No proposals only (`proposal.rs:102`): an Option proposal,
  whose sides 1 and 2 are options, succeeds whenever it meets its quorum. The modules do so too.
- `InvalidThreshold` reads "Threshold must be less than or equal to the number of owners"
  (`smart-wallet/src/lib.rs:235`). `set_owners` and `change_threshold` ask for more: the
  threshold must be *below* the number of owners, since "one owner is governor"
  (`smart-wallet/src/instructions/auth.rs:14`), which is what `ThresholdStaysBelowOwners`
  states. `create_smart_wallet` asks for nothing: it accepts a threshold above the number of
  owners, which both exclude.
- `set_governance_params` accepts the negative timelock that `create_governor`
  (`govern/src/instructions/create_governor.rs:38`) refuses; proposals that pass under it
  cannot be queued (the condition `TimelockFits` of `PassedCanBeQueued`).
- `create_proposal` "may be called by anyone" (`govern/src/lib.rs:41`); the code asks for an
  owner of the smart wallet.

## 4. Proofs

Each theorem holds for every set of owners, voters, partial unstakings, parameters,
instructions, trees, supplies and bounds that the modules' assumptions admit. The lemmas are
about one instruction at a time, so that the theorems about a composition use those about its
parts. The properties are those of section 3.

**Worlds larger than the modules.** A component that other programs call is proved about in a
world of callers larger than the one its own specification has, so that its theorems can be
used wherever it is composed. `OpenWorldSpec` (`Govern_proofs`) is a governor whose locker
reports any power for any side, and whose wallet runs several of its instructions in one step;
`AnyEtaSpec` (`SmartWallet_proofs`) is a wallet whose owners create transactions with any eta.
Each is shown to contain the component's specification, and each composition is shown to lie
in it (`VotingIsOfOpenWorld`, `GovernedIsOfOpenWorld`, `GovernedIsOfWallet`, under the type
invariants of the parts), so that what is proved there holds in `Govern`, in `LockedVoting`, in
`MetVoting` and in `GovernedWallet` alike.

| theorem | argument |
|---|---|
| *`LockedVoter_proofs`* | |
| `LockerTypeCorrect` | `LockerTypeOK` is inductive; the checked subtractions are guards. |
| `PartialsAlwaysAccounted`, `SupplyAlwaysAccounted`, `NothingEverOutlivesEscrow` | from the inductive `AccountsInv`: the two accounting properties and `AccountsInUse` (a closed escrow holds nothing; an open partial unstaking names an owner and has a positive amount). The last part is what makes `withdraw`'s test of a running total against 0 exclude an open partial unstaking: the sum of positive amounts is 0 only if there are none (`BooksOutliveNothing`). |
| `ExitIsNeverEverBlocked` | assumes `OneMax`; from `LockInv`: no lock ends later than `now + max_stake_duration`, and no partial unstaking matures after its escrow. `LockInv` is what a partial unstaking opened under the maximum lock, followed by toggling it off, would break if the toggle reset the end to anything less. |
| `LockIsAlwaysKept` | assumes `OneMax`; every step is shown to leave `HeldUntil(o, t)` at least as large, one case per instruction (`StepKeepsLock`), from `AccountsInv` and `LockInv`. |
| `LockedVoting`: `VotesAlwaysBacked` | assumes `ParamsMatch`; from the inductive `BackedInv`: the invariants of both programs, `EndsWithinLock` (no voting ends later than a lock taken now) and the property itself. A step of `locked-voter` keeps it by `StepKeepsLock` at the instant the voting ends; `cast_vote` establishes it since the power, rounded down, is at most the multiplier times a stake that is locked until then (`PowerIsBacked`). |
| `LockedVoting`: `NoTokenEverVotesTwice` | assumes `ParamsMatch`; the votes are backed by tokens of different escrows, whose sum is at most the supply; after the voting the tally no longer changes. |
| `LockedVoting`: `LockedVotingKeepsPromises` | `TallyAccounted`, `QueuedProposalsPassed`, `RewardsAccounted`, `OutcomeIsFinal` and `ImplementsBallot`, from `VotingIsOfOpenWorld`: a power that an escrow has is a natural number (`PowerIsNat`), and `cast_vote` hands it to the governor's own locker. No assumption on the parameters. |
| `LockedVoting`: `VotingKeepsBooks`, `VotingKeepsLocks` | for `locked-voter` an instruction of `govern` is a stutter (`VotingStepsLocker`), so that its accounting, and with `OneMax` its locks and exits, are what they are without voters. |
| *`Govern_proofs`* | all for `OpenWorldSpec` |
| `GovernTypeCorrect` | `GovernTypeOK` is inductive, for any power a locker reports: `set_vote` subtracts only what the tally has, a claim pays only what the vault has. |
| `TallyAlwaysAccounted` | from the inductive `TallyInv`: the tally by side and in total, no votes on a proposal that is a draft or not created, no weight at an address without a vote (or `new_vote`, which resets the account, would lose it). |
| `OutcomeIsAlwaysFinal` | `State` depends on seven fields of a proposal; only `queue_proposal` changes one of them on a final proposal, and then by a non-zero time. |
| `QueuedProposalsAlwaysPassed` | for any number of proposals and transactions; from the inductive `QueueInv`: the proposal of each transaction names that transaction and is `CarriedThrough`, which its own fields tell: queued after its voting, with a countable tally that meets its quorum and was not outvoted. Nothing changes those fields later, since a proposal carried through is `Queued` and so neither voted on nor queued again (`CarriedThroughIsQueued`). It also needs `ClockRuns`, that the clock is past 0: `queued_at = 0` is how the program says "never". |
| `RewardsAlwaysAccounted` | from `RewardsInv`: claims are made on decided proposals only (`ClaimsDecided`), so that the tally they divide by stays; the totals are the sums of what each claim was due (`ClaimsCounted`), and so is what each voter received in each mint (`PaymentsCounted`). A share is at most in proportion to the voting power (`RewardInProportion`); the proportions of all voters add up to the reward (`ClaimsWithinReward`), whatever the rounding. |
| `GovernImplementsBallot` | step simulation under `BallotInv` (a vote not opened has no side, a proposal not created has no votes, what has `queued_at` was carried through): one case per instruction for the accounts (`ProposalStep`), then the step of the ballots it makes (`BallotMoves`). `Tick` closes the ballots whose voting is over, as the votes stand (`TimeCloses`), or is a stutter. |
| `GovernKeepsItsPromises` | all of these for `GovernSpec`, which lies in the open world (`LockerIsOfOpenWorld`). |
| *`MetVoter_proofs`* | |
| `MetTypeCorrect`, `MetSupplyAlwaysAccounted` | inductive, in both phases, with the wallet's changes of parameters and expiration. |
| `LaunchAlwaysFindsNoLocks` | inductive: in the initial phase locks are refused (`extend_lock_duration`, `toggle_max_lock`), and the phase never comes back. |
| `LockIsAlwaysKept` | assumes `OneMax`, for `SteadySpec`; from `LockInv` (no lock ends later than `now + max_stake_duration`), with the launch as a case of its own: what was held until the expiration is free from then on. |
| `MetImplementsLockedVoter` | step simulation, with no partial unstaking and a minimum duration of 0: the initial phase takes deposits without a lock, as a locker without a minimum does, and else only refuses what locked-voter allows. |
| `MetVoting`: `VotesAlwaysBacked` | assumes `ParamsMatch`, for `SteadyVotingSpec`; from `BackedInv`, as in `LockedVoting`, with the initial phase as a case of its own: a vote cast in it weighs the whole stake if the expiration, until which the stake is held, lies after the end of the voting, and nothing otherwise (`PowerIsBacked`). |
| `MetVoting`: `NoTokenEverVotesTwice` | assumes `ParamsMatch`, for `SteadyVotingSpec`; as in `LockedVoting`. |
| `MetVoting`: `MetVotingKeepsPromises`, `VotingKeepsBooks`, `VotingKeepsLocks` | as in `LockedVoting`; the first two for every wallet, however it moves the expiration, the last for `SteadyVotingSpec` and with `OneMax`. |
| *`SmartWallet_proofs`* | those about the wallet for `AnyEtaSpec` |
| `WalletTypeCorrect`, `SignersAreAlwaysApprovers`, `ExecutionAlwaysAuthorized`, `AlwaysExecutedOnce` | from the inductive `WalletInv`: types; `AccountsInv` (addresses not yet used are empty, no transaction is of a later owner set than the present one, an eta honours the minimum delay); `FlagsInv` (a flag of a transaction of the present owner set is at the *first* position of a key that approved, and every approval has its flag). The first position is what keeps a key that is listed twice from counting twice: the flags raised are as many as the keys that approved. A change of the owners keeps `FlagsInv` because it raises `owner_set_seqno`, also in the middle of an execution (`InvokeAllFollows`). |
| `ThresholdAlwaysBelowOwners` | every instruction of an execution keeps it, hence the execution. |
| `WalletImplementsMultisig` | step simulation: what the flags by position say is what the set of approvers says (`FlagsDecide`), and an execution that replaces the owners leaves the approvals of the old membership without force. |
| `WalletKeepsItsPromises` | all of these for `WalletSpec` (`WalletStepsWithAnyEta`). |
| `SubaccountsImplementWallet` | step simulation: every step is a step of `SmartWallet` or leaves the wallet alone; `WalletInv` is thereby inherited. |
| `InfoAlwaysTellsWhoSigns`, `ActsAlwaysAuthorized` | from `SubaccountInv`: a record has the type its address was derived with, and only transactions sign for `Derived` addresses. |
| *`GovernedWallet_proofs`* | |
| `QueuedAlwaysHasTransaction` | from the invariants of both programs and the inductive `LinkInv`: the transactions in the governor's name are exactly those it queued; each is open, carries the instructions of its proposal, was created when that was queued and has the governor's approval, which nobody takes back; and every queued proposal has one. Settings that an execution writes into the governor keep their type, by the fold over its instructions (`CallAllTyped`). |
| `AlwaysActsAsVoted` | an action property, from the same: an execution of a governor's transaction is one of a proposal carried through, so that only the wallet's delay and threshold remain to be read from its guard; no other step changes the governor's settings. |
| `SucceededPassesChecks` | what `PassedCanBeQueued` says without `ENABLED`: `queue_proposal`, with the `create_transaction` it calls, is a conjunction of guards and one value for every variable (`QueueIsGuarded`), and the guards hold for a proposal that has succeeded. The wallet's next address is free since no transaction at or past `num_transactions` is open, and the governor's record of it too, by `LinkInv`. |
| `ProgramsKeepTheirBooks` | `TallyAccounted` and `QueuedProposalsPassed` of `Govern`, `SignersAreApprovers` of `SmartWallet`, from the same invariants: they survive executions that change the governor, and transactions that the governor creates. |
| `OutcomeFinalWhenGoverned` | `OutcomeIsFinal` and `ImplementsBallot` of `Govern`, from `GovernedIsOfOpenWorld`: an execution changes the governor's settings to values of their types and nothing else (`ExecuteIsOfOpenWorld`), every other step is one of `Govern`. |
| `GovernedWalletIsMultisig` | `ExecutionIsAuthorized`, `ExecutedOnce`, `ThresholdStaysBelowOwners` and `ImplementsMultisig` of `SmartWallet`, from `GovernedIsOfWallet`: what `queue_proposal` does in the wallet is a `create_transaction` with an eta of the governor's (`QueueIsWalletStep`). |
| *`MerkleDistributor_proofs`* | |
| `TokensAlwaysAccounted` | from `TokensInv`: with the books of the escrows, which claims also change; a clawback pays out the vault, or nothing if it is its own receiver. |
| `ClaimsAlwaysAccounted` | from `ClaimsInv`: the totals are the sums over the indices claimed, and nothing is clawed back before `clawback_start_ts`. |
| `NobodyIsEverShutOut` | if the limits cover the tree, the claims made and one more leaf of an index not yet claimed are a part of the tree, so that they fit; and the vault, if funded for the tree, has what is not yet claimed. |
| `DistributorImplementsMetVoter` | step simulation with the refinement mapping `circulating + token_vault`: a claim is a deposit paid by somebody else. |
| *`MerkleTree_proofs`* | |
| `TreeIsLayered` | `TreeInv` is inductive: the first layer is the hashes of the allocations, each once; every other layer is `NextLayer` of the one below, half as long, rounded up. |
| `EveryClaimAlwaysVerifies` | from `TreeInv`, along the layers: after `i` turns of `find_proof`'s loop the index is that of the claimant's ancestor in layer `i + 1`, and the hash computed from the pairs found so far is that ancestor (`ClimbOne`, `PathClimbs`), which in the last layer is the root. An element without a pair adds none, and goes up unchanged; this is the case of layers of odd length. |
| `NothingElseEverVerifies` | for any proof whatsoever: a hash is the term it is computed from, so a root explains its leaves (`HashesExplained`): going backwards from the root, every hash `verify` passes through is in the tree, or below a leaf, and a leaf is not a pair. |
| `OnlyClaimsEverVerify` | the same for the proofs the run looks at: what the client found, and its parts. |
| `RootCommitsToLeaves` | both together: exactly the allocations have a proof. It is what `MerkleDistributor` takes a root to be. |

Assumptions: those named in the modules (`LockerAssumption`, `GovernAssumption`,
`VotingAssumption`, `MetAssumption`, `WalletAssumption`, `SubaccountAssumption`,
`GovernedAssumption`, `DistributorAssumption`, `SnapshotAssumption`, `ClockAssumption`: types and finiteness of the
constants, evaluated by TLC; `GovernedAssumption` also that the governor is a key of the wallet
that proposes only by `queue_proposal`) and, where stated, `OneMax` (the governor's parameter
sets all have the same `max_stake_duration`; without it the first disagreement above is a
counterexample) or
`ParamsMatch`: `OneMax`, one `max_stake_vote_multiplier`, and `StakeOutlastsVoting`, what
`cast_vote`'s comment asks of the administrator: no voting period is longer than the maximum
stake.

Recursions of the libraries are reasoned about in three places. Sums are `SumFunctionOnSet`, a
fold by a recursive function picked by `CHOOSE`: `SumTheorems` proves that the function exists
and how a sum changes with one term, by induction over the subsets of a finite set, stated with
a set and not with a predicate. The instructions of a transaction are folded over their
sequence in the same way: `FoldExists` says that such a fold exists, `StaysWithin` that it stays
where every instruction keeps it (`InvokeAllWithin` for the wallet, `CallAllWithin` for the
governor). In `MerkleTree` the loops of `find_proof` and `verify` are folds over a sequence:
`RunExists` gives such a loop as a function of the number of turns it has taken, `LastTurn` what
one more turn does to it. So each theorem about the tree is an induction over a number of turns.

Only model-checked:

- `VotingEnds`, a liveness property under fairness, and `PassedCanBeQueued`, which is about
  `ENABLED`: both are out of the prover's reach. `SucceededPassesChecks` with `QueueIsGuarded` is
  what the second comes to.
- `DelayFollowsApproval`, which does not hold.

## 5. Not modelled

- `create_proposal_meta`, `create_option_proposal_meta`: titles and links in accounts that no
  instruction reads.
- The command-line clients other than the distributor's tree: each command builds and sends one
  transaction and keeps nothing.
- `libs/vipers`: assertion macros, modelled as the guards they become where they are used.
- Token transfers past the programs into an escrow's token account, and nested executions of a
  wallet's transactions (section 2).
- Instructions a wallet's transaction may carry for programs outside the repository: to the
  wallet they are opaque.
- Rent, account sizes and compute limits of the runtime.

## 6. Status

Every program is modelled, with the compositions `LockedVoting`, `MetVoting`, `GovernedWallet`
and `MerkleDistributor` with `MetVoter`, and the abstract specifications `Ballot` and `Multisig`.
Every invariant, action property and refinement that a run finds true is a theorem, except
`PassedCanBeQueued` (`ENABLED`) and `VotingEnds` (liveness).

What could be added is one module of the whole DAO: `LockedVoting` or `MetVoting` with the
governor's wallet, in which an execution also calls `set_locker_params` and
`change_locker_expiration`. The worlds of section 4 already contain its steps.
