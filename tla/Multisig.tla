------------------------------ MODULE Multisig ------------------------------
(***************************************************************************)
(* What a multisig wallet is to its members, with no account, position,    *)
(* flag or sequence number: a set of members, how many of them must agree, *)
(* and decisions, each made at most once, by members who all agreed while  *)
(* the membership was the one it was proposed under.  A decision may       *)
(* change the membership, and then every agreement to the others lapses.   *)
(***************************************************************************)
EXTENDS Naturals, FiniteSets

CONSTANTS Keys, DecisionIds

VARIABLES
  members,    \* who may agree
  quorum,     \* how many must
  decisions   \* for each id, how far it got, whether it was proposed under the
              \* present membership, and who agrees to it

multisigVars == <<members, quorum, decisions>>

Decision == [status : {"unused", "proposed", "made", "dropped"}, live : BOOLEAN,
             agree : SUBSET Keys]

Unused == [status |-> "unused", live |-> FALSE, agree |-> {}]

Lapsed(d) == [Unused EXCEPT !.status = d.status]

MultisigInit ==
  /\ members \in SUBSET Keys
  /\ quorum \in Nat
  /\ decisions = [i \in DecisionIds |-> Unused]

Suggest(i, k) ==
  /\ decisions[i].status = "unused"
  /\ k \in members
  /\ decisions' = [decisions EXCEPT ![i] =
       [status |-> "proposed", live |-> TRUE, agree |-> {k}]]
  /\ UNCHANGED <<members, quorum>>

\* A member agrees or takes it back, which he may also do when it is too late.
Agree(i, k) ==
  /\ decisions[i].live /\ k \in members
  /\ \/ decisions' = [decisions EXCEPT ![i].agree = @ \cup {k}]
     \/ decisions' = [decisions EXCEPT ![i].agree = @ \ {k}]
  /\ UNCHANGED <<members, quorum>>

\* The decision is made; it may set the quorum, or the membership and both.
Decide(i) ==
  LET made == [decisions EXCEPT ![i].status = "made"] IN
  /\ decisions[i].status = "proposed"
  /\ decisions[i].live
  /\ Cardinality(decisions[i].agree) >= quorum
  /\ quorum' \in Nat
  /\ \/ decisions' = made /\ members' = members
     \/ decisions' = [j \in DecisionIds |-> Lapsed(made[j])] /\ members' \in SUBSET Keys

\* What nobody agrees to may be dropped.
Drop(i) ==
  /\ decisions[i].status \in {"proposed", "made"}
  /\ decisions[i].agree = {}
  /\ decisions' = [decisions EXCEPT ![i] = [Unused EXCEPT !.status = "dropped"]]
  /\ UNCHANGED <<members, quorum>>

MultisigNext ==
  \E i \in DecisionIds :
    \/ \E k \in Keys : Suggest(i, k) \/ Agree(i, k)
    \/ Decide(i)
    \/ Drop(i)

MultisigSpec == MultisigInit /\ [][MultisigNext]_multisigVars
=============================================================================
