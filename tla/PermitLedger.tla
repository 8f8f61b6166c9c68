--------------------------- MODULE PermitLedger ---------------------------
(***************************************************************************)
(* What admission control promises a treasury's owner, without handlers    *)
(* and without a database: a ledger of active grants.  A grant enters it   *)
(* only while the treasury runs, and only if every limit of the            *)
(* constitution in force holds with the grant in it.  Grants leave at any  *)
(* time, and a halt empties the ledger in the step that halts.             *)
(* A grant may be negative.  It makes room for others in the allocation of *)
(* its agent, and they keep that room when it ends: so the ledger does not *)
(* promise that what is held is within the allocation, but that it is      *)
(* within the allocation and all that negative grants have ever made room  *)
(* for.                                                                    *)
(***************************************************************************)
EXTENDS Integers, FiniteSets

CONSTANTS Ids, NoGrant, IsConstitution(_)

VARIABLES
  health,         \* of the treasury
  aum,            \* its AUM, current and peak
  constitution,   \* in force
  grant,          \* per id NoGrant, or the agent, wallet and amount granted
  negative        \* the same of the negative grants there ever were

vars == <<health, aum, constitution, grant, negative>>

Held == {i \in Ids : grant[i] # NoGrant}
HeldBy(a, l) == {i \in Held : grant[i].agent = a /\ grant[i].wallet = l}
Total(S) == Cardinality(UNION {{i} \X (1..grant[i].amount) : i \in S})

\* The room that negative grants have made for an agent on a wallet.
MadeBy(a, l) ==
  {i \in Ids : negative[i] # NoGrant /\ negative[i].agent = a /\ negative[i].wallet = l}
Room(a, l) == Cardinality(UNION {{i} \X (1..(-negative[i].amount)) : i \in MadeBy(a, l)})

Drawdown(rules) ==
  aum.peak > 0 /\ (aum.peak - aum.current) * 100 >= rules.max_drawdown_pct * aum.peak

\* Grant i is within every limit that applies to it.
WithinLimits(i) ==
  LET pair == <<grant[i].agent, grant[i].wallet>>
      rule == constitution.agent_wallet_rules[pair]
      held == HeldBy(pair[1], pair[2])
  IN  /\ pair \in DOMAIN constitution.agent_wallet_rules
      /\ grant[i].amount <= rule.tier_limit_usd
      /\ Cardinality(held) <= rule.concurrent_permit_cap
      /\ Total(held) <= rule.allocation_pct * aum.current + Room(pair[1], pair[2])
      /\ Cardinality(Held) <= constitution.treasury_rules.max_concurrent_permits
-----------------------------------------------------------------------------
Init ==
  /\ health = "PENDING_WALLET"
  /\ aum.peak = aum.current
  /\ IsConstitution(constitution)
  /\ grant = [i \in Ids |-> NoGrant]
  /\ negative = [i \in Ids |-> NoGrant]

\* The ids whose grant the step ends.
Ends == {i \in Held : grant'[i] = NoGrant}
NothingAdmitted == \A i \in Ids : grant'[i] \in {grant[i], NoGrant}

\* New grants, all of them within their limits once all of them are in.
Admit ==
  /\ health # "HALTED"
  /\ ~Drawdown(constitution.treasury_rules)
  /\ \A i \in Held : grant'[i] = grant[i]
  /\ \A i \in Ids \ Held : grant'[i] # NoGrant => WithinLimits(i)'
  /\ negative' = [i \in Ids |->
       IF i \notin Held /\ grant'[i] # NoGrant /\ grant'[i].amount < 0
       THEN grant'[i] ELSE negative[i]]
  /\ UNCHANGED <<health, aum, constitution>>

\* Grants end; the AUM moves by what they made or lost.
Settle ==
  /\ NothingAdmitted
  /\ UNCHANGED <<health, constitution, aum.peak, negative>>

Halt ==
  /\ health' = "HALTED"
  /\ Held' = {}
  /\ UNCHANGED <<constitution, aum.peak, negative>>

\* The owner resumes, or the first wallet is verified.  Resuming starts the
\* drawdown afresh.
Open ==
  /\ health' = "HEALTHY"
  /\ aum' \in {aum, [aum EXCEPT !.peak = aum.current]}
  /\ UNCHANGED <<constitution, grant, negative>>

\* Another constitution; an agent it no longer serves may lose its grants.
Amend ==
  /\ NothingAdmitted
  /\ \A i \in Ends : \A l \in {x[2] : x \in DOMAIN constitution'.agent_wallet_rules} :
       <<grant[i].agent, l>> \notin DOMAIN constitution'.agent_wallet_rules
  /\ IsConstitution(constitution')
  /\ UNCHANGED <<health, aum, negative>>

Next == Admit \/ Settle \/ Halt \/ Open \/ Amend

Spec == Init /\ [][Next]_vars
===========================================================================
