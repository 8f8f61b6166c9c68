---------------------------- MODULE MCIntents -----------------------------
(* An instance of Intents for TLC. *)
EXTENDS Intents, TLC

CONSTANT a1

\* One agent with one permit at a time on one wallet, and two for the treasury.
OneAgentContents ==
  {[treasury_rules |-> [max_drawdown_pct |-> 50, max_concurrent_permits |-> 2],
    agent_wallet_rules |-> (<<a1, 1>> :>
      [allocation_pct |-> 1, tier_limit_usd |-> 1, concurrent_permit_cap |-> 1])]}

Losses == {-1}

Symmetry == Permutations(Permits) \cup Permutations(Workers)
===========================================================================
