---------------------------- MODULE MCPermits -----------------------------
(***************************************************************************)
(* Instances of Permits for TLC.  AUM is at most 2 dollars and a rule      *)
(* allocates one percent of it: an allocation is two hundredths at most,   *)
(* and one when a loss has been reported.                                  *)
(***************************************************************************)
EXTENDS Permits, TLC

CONSTANTS a1, a2

\* A rule, and contents with the given rules.
Rule(pct, tier, cap) ==
  [allocation_pct |-> pct, tier_limit_usd |-> tier, concurrent_permit_cap |-> cap]

Content(drawdown, concurrent, rules) ==
  [treasury_rules |-> [max_drawdown_pct |-> drawdown,
                       max_concurrent_permits |-> concurrent],
   agent_wallet_rules |-> rules]

OneWallet == <<a1, 1>> :> Rule(1, 1, 1)

\* One agent, one wallet, and a treasury cap that does not bind.
SingleAgentContents == {Content(50, 3, OneWallet)}

\* The same without a tier limit that binds.
LargeTierContents == {Content(50, 3, <<a1, 1>> :> Rule(1, 3, 1))}

\* Two agents, and a tighter content that no longer names the first.
TwoAgentContents ==
  {Content(50, 2, (<<a1, 1>> :> Rule(1, 3, 2)) @@ (<<a2, 1>> :> Rule(1, 1, 1))),
   Content(50, 1, <<a2, 1>> :> Rule(1, 1, 1))}

Losses == {-1}

\* A negative leg makes room for one of three hundredths, more than the
\* allocation.
SignedAmounts == {-1, 3}

Symmetry == Permutations(Permits) \cup Permutations(Workers)
===========================================================================
