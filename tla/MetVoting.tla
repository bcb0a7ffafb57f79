----------------------------- MODULE MetVoting -----------------------------
(***************************************************************************)
(* The met-voter program as the voting body of a governor: MetVoter        *)
(* composed with Govern through the three instructions of met-voter that   *)
(* call govern.  The governor keeps this locker.                           *)
(*                                                                         *)
(* A vote weighs what the escrow is expected to be worth when voting ends. *)
(* In the initial phase that depends on the expiration, which the wallet   *)
(* may change after the votes were cast.                                   *)
(***************************************************************************)
EXTENDS MetVoter, Govern

CONSTANT ThisLocker  \* the Locker account MetVoter models

\* The voters of this governor are the owners of this locker's escrows.  (The
\* constant Powers is not used: the powers are those of the escrows.)
ASSUME VotingAssumption ==
  /\ Voters = Owners
  /\ Lockers = {ThisLocker}

votingState == <<now, metVars, governVars>>

-----------------------------------------------------------------------------
\* Escrow::voting_power_at_time returns a u64 or fails: on a product past a
\* u64, and on a division by a max_stake_duration of 0.  A power of 0 is
\* returned before either is computed.
PowerFits(e, t) ==
  IF InitialPhase THEN t < expiration => FullPower(params, e) <= U64Max
  ELSE e.is_max_lock \/ LockedAt(e, t) =>
         /\ FullPower(params, e) <= U64Max
         /\ e.is_max_lock \/ params.max_stake_duration > 0

\* The power escrow e will have when the voting on q ends.
FuturePower(e, q) == VoterPower(params, e, q.voting_ends_at)

\* The vote delegate d of owner o's escrow votes.  Without power the
\* instruction succeeds and changes nothing: a stutter.
CastVote(d, o, p, side) ==
  LET q     == proposals[p]
      power == FuturePower(escrows[o], q)
  IN
  /\ escrows[o].open
  /\ d = escrows[o].vote_delegate
  /\ State(q) = "Active"
  /\ PowerFits(escrows[o], q.voting_ends_at)
  /\ power > 0
  /\ SetVote(ThisLocker, p, o, side, power)

\* activate_proposal: after the launch, signed by an owner with enough power.
OwnerActivates(o, p) ==
  /\ ~ InitialPhase
  /\ escrows[o].open
  /\ PowerFits(escrows[o], now)
  /\ VoterPower(params, escrows[o], now) >= params.proposal_activation_min_votes
  /\ ActivateProposal(ThisLocker, p)

\* activate_proposal_initial_phase: signed by the governor's smart wallet.
WalletActivates(p) ==
  /\ InitialPhase
  /\ ActivateProposal(ThisLocker, p)

VotingInit == ClockInit /\ MetInit /\ GovernInit

MetCalls ==
  \E p \in Created :
    \/ WalletActivates(p)
    \/ \E o \in Owners :
         \/ OwnerActivates(o, p)
         \/ \E d \in Keys, side \in 0..(MAX_OPTION + 1) : CastVote(d, o, p, side)

VotingNext ==
  \/ /\ \/ MetNext /\ UNCHANGED governVars
        \/ (OpenNext \/ MetCalls) /\ UNCHANGED metVars
     /\ UNCHANGED now
  \/ Tick /\ UNCHANGED <<metVars, governVars>>

VotingSpec == VotingInit /\ [][VotingNext]_votingState

\* A wallet that never moves the expiration back.
SteadyNext == VotingNext /\ expiration' >= expiration

SteadyVotingSpec == VotingInit /\ [][SteadyNext]_votingState

-----------------------------------------------------------------------------
(* One token, one vote *)

\* The power a token can have: the multiplier never changes.
OneMultiplier ==
  \A q, r \in LockerParams : q.max_stake_vote_multiplier = r.max_stake_vote_multiplier

Multiplier == params.max_stake_vote_multiplier

\* What cast_vote's comment asks of the admin, who "should pick
\* max_stake_duration >> voting_period": at least as long.
StakeOutlastsVoting ==
  \A q \in LockerParams, g \in GovernanceParams : q.max_stake_duration >= g.voting_period

\* While a proposal is voted on, the power of every vote is backed by tokens
\* that its owner cannot take out before voting ends, whichever phase it was
\* cast in and whatever the owner does next.  It needs OneMax, OneMultiplier,
\* StakeOutlastsVoting and a wallet that never moves the expiration back: one
\* that ends the initial phase during a vote frees tokens that have voted.
VotesAreBacked ==
  \A p \in Created : State(proposals[p]) = "Active" =>
    \A o \in Owners :
      votes[p][o].voting_power <= Multiplier * HeldUntil(o, proposals[p].voting_ends_at)

\* No token votes twice on a proposal, whichever escrows it passes through,
\* be it before or after the launch: all votes together never exceed the
\* tokens of the mint times the multiplier.
NoTokenVotesTwice ==
  \A p \in Created : TotalVotes(proposals[p]) <= Multiplier * TokenSupply
=============================================================================
