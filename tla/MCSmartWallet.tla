--------------------------- MODULE MCSmartWallet ---------------------------
(* Instances of SmartWallet for TLC. *)
EXTENDS SmartWalletRefinement

CONSTANTS Alice, Bob, Governor

MCKeys == {Alice, Bob, Governor}

\* One list of owners names a key twice: nothing checks that.
MCOwners == {<<Governor, Alice, Bob>>, <<Governor, Alice, Alice>>}

MCOneList == {<<Governor, Alice, Bob>>}

\* Fewer owners in another order; one owner listed twice; a lower threshold,
\* which leaves the owner set alone; and a lower threshold for the same owners
\* in another order.
MCInstructions ==
  {<<SetOwnersTo(<<Bob, Governor>>)>>,
   <<SetOwnersTo(<<Alice, Alice>>)>>,
   <<ChangeThresholdTo(1)>>,
   <<ChangeThresholdTo(1), SetOwnersTo(<<Alice, Governor, Bob>>)>>}
=============================================================================
