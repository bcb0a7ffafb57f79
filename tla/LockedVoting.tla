---------------------------- MODULE LockedVoting ----------------------------
(***************************************************************************)
(* The locked-voter program as the voting body of a governor: LockedVoter  *)
(* composed with Govern through the two instructions of locked-voter that  *)
(* call govern, cast_vote and activate_proposal.  The programs keep their  *)
(* state in accounts of their own, so an instruction of one leaves the     *)
(* other's alone, except for these two calls.                              *)
(*                                                                         *)
(* The governor keeps this locker: set_locker to another one hands the     *)
(* votes to a program this module knows nothing of.                        *)
(***************************************************************************)
EXTENDS LockedVoter, Govern

CONSTANT ThisLocker  \* the Locker account LockedVoter models

\* The voters of this governor are the owners of this locker's escrows.  (The
\* constant Powers is not used: the powers are those of the escrows.)
ASSUME VotingAssumption ==
  /\ Voters = Owners
  /\ Lockers = {ThisLocker}

votingState == <<now, lockerVars, governVars>>

-----------------------------------------------------------------------------
\* Escrow::voting_power_at_time returns a u64 or fails: on a product past a
\* u64, and on a division by a max_stake_duration of 0.  A power of 0 is
\* returned before either is computed.
PowerFits(e, t) ==
  e.is_max_lock \/ LockedAt(e, t) =>
    /\ FullPower(params, e) <= U64Max
    /\ e.is_max_lock \/ params.max_stake_duration > 0

\* The power escrow e will have when the voting on q ends; PresentPower is
\* the power it has now.
PresentPower(e, q) == VoterPower(params, e, now)
FuturePower(e, q) == VoterPower(params, e, q.voting_ends_at)

\* The vote delegate d of owner o's escrow votes with the power the escrow
\* will have when voting ends.  Without power the instruction succeeds and
\* changes nothing (an earlier vote stays as it is): a stutter.
CastVote(d, o, p, side) ==
  LET q     == proposals[p]
      power == FuturePower(escrows[o], q)
  IN
  /\ escrows[o].open
  /\ d = escrows[o].vote_delegate
  /\ State(q) = "Active"
  /\ PowerFits(escrows[o], q.voting_ends_at)
  /\ power > 0
  /\ SetVote(ThisLocker, p, o, side, power)

\* locked-voter's activate_proposal, signed by the governor's smart wallet.
LockerActivates(p) == ActivateProposal(ThisLocker, p)

VotingInit == ClockInit /\ LockerInit /\ GovernInit

VotingNext ==
  \/ /\ \/ LockerNext /\ UNCHANGED governVars
        \/ /\ \/ OpenNext
              \/ \E p \in Created :
                   \/ LockerActivates(p)
                   \/ \E o \in Owners, d \in Keys, side \in 0..(MAX_OPTION + 1) :
                        CastVote(d, o, p, side)
           /\ UNCHANGED lockerVars
     /\ UNCHANGED now
  \/ Tick /\ UNCHANGED <<lockerVars, governVars>>

VotingSpec == VotingInit /\ [][VotingNext]_votingState

-----------------------------------------------------------------------------
(* One token, one vote *)

\* The power a token can have: the multiplier never changes.
OneMultiplier ==
  \A q, r \in LockerParams : q.max_stake_vote_multiplier = r.max_stake_vote_multiplier

Multiplier == params.max_stake_vote_multiplier

\* What cast_vote's comment asks of the admin, who "should pick
\* max_stake_duration >> voting_period": at least as long.
StakeOutlastsVoting ==
  \A q \in LockerParams, g \in GovernanceParams : q.max_stake_duration >= g.voting_period

\* While a proposal is voted on, the power of every vote is backed by tokens
\* that its owner cannot take out before voting ends: whoever unstakes,
\* toggles the maximum lock or delegates after voting still holds what he
\* voted with.  It needs OneMax, OneMultiplier and StakeOutlastsVoting.
VotesAreBacked ==
  \A p \in Created : State(proposals[p]) = "Active" =>
    \A o \in Owners :
      votes[p][o].voting_power <= Multiplier * HeldUntil(o, proposals[p].voting_ends_at)

\* No token votes twice on a proposal, whichever escrows it passes through:
\* all votes together never exceed the tokens of the mint times the
\* multiplier.  (So with a supply whose full power fits in a u64 the tally
\* always does too, and no proposal is stuck on the overflow.)
NoTokenVotesTwice ==
  \A p \in Created : TotalVotes(proposals[p]) <= Multiplier * TokenSupply
=============================================================================
