------------------------------- MODULE Ballot -------------------------------
(***************************************************************************)
(* What a vote is to the voters: ballots, each with the choice and weight  *)
(* of every voter, that open at most once, take votes only while open, and *)
(* then have the outcome of the votes as they stand, for good.  There is   *)
(* no time here, no running tally, and no timestamp that says how far a    *)
(* ballot got.                                                             *)
(***************************************************************************)
EXTENDS Integers, FiniteSets, Functions

CONSTANTS
  BallotIds,
  BallotVoters,
  Against, For,  \* the sides that decide a question of yes or no
  Limit          \* weights beyond it cannot be counted

VARIABLE ballots

\* The weight of the votes cast, and of those cast for side s.
Cast(b) == SumFunctionOnSet([v \in BallotVoters |-> b.votes[v].weight], BallotVoters)

CastFor(b, s) ==
  SumFunctionOnSet([v \in BallotVoters |->
    IF b.votes[v].side = s THEN b.votes[v].weight ELSE 0], BallotVoters)

\* The outcome of the votes as they stand: a quorum of votes cast for whatever
\* side (abstentions and votes against help to reach it) and, to a question of
\* yes or no, more for than against.  Options are not weighed against each
\* other: a ballot on them passes with the quorum.
Outcome(b) ==
  IF Cast(b) > Limit THEN "uncountable"
  ELSE IF Cast(b) >= b.quorum /\ (b.yes_no => CastFor(b, For) > CastFor(b, Against))
  THEN "passed" ELSE "rejected"

NoVotes == [v \in BallotVoters |-> [side |-> 0, weight |-> 0]]

\* How one ballot may change.
Drafts(b, c) ==
  /\ b.status = "none"
  /\ c.status = "draft" /\ c.votes = NoVotes

Withdraws(b, c) ==
  /\ b.status = "draft"
  /\ c = [b EXCEPT !.status = "withdrawn"]

\* It may be open for no time at all.
Opens(b, c) ==
  /\ b.status = "draft"
  /\ \/ c = [b EXCEPT !.status = "open"]
     \/ c = [b EXCEPT !.status = Outcome(b)]

Votes(b, c) ==
  /\ b.status = "open"
  /\ \E v \in BallotVoters : c = [b EXCEPT !.votes[v] = c.votes[v]]

Closes(b, c) ==
  /\ b.status = "open"
  /\ c = [b EXCEPT !.status = Outcome(b)]

CarriesOut(b, c) ==
  /\ b.status = "passed"
  /\ c = [b EXCEPT !.status = "carried out"]

Moves(b, c) ==
  \/ Drafts(b, c) \/ Withdraws(b, c) \/ Opens(b, c)
  \/ Votes(b, c) \/ Closes(b, c) \/ CarriesOut(b, c)

BallotInit == \A i \in BallotIds : ballots[i].status = "none"

\* Several ballots may close at once.
BallotNext ==
  \A i \in BallotIds :
    LET b == ballots[i]
        c == ballots'[i]
    IN  c = b \/ Moves(b, c)

BallotSpec == BallotInit /\ [][BallotNext]_ballots
=============================================================================
