--------------------------- MODULE MCSubaccounts ---------------------------
(* Instances of Subaccounts for TLC. *)
EXTENDS Subaccounts

CONSTANTS Alice, Bob

MCKeys == {Alice, Bob}

MCOwners == {<<Alice, Bob>>}

\* A change of the owners, one instruction signed by either derived address,
\* and two that no single execution can sign.
MCInstructions ==
  {<<SetOwnersTo(<<Bob>>)>>,
   <<SignedAs(Address("Derived", 0, 0))>>,
   <<SignedAs(Address("Derived", 0, 0)), SetOwnersTo(<<Bob>>)>>,
   <<SignedAs(Address("Derived", 0, 0)), SignedAs(Address("Derived", 0, 1))>>}
=============================================================================
