-------------------------- MODULE PolicyReference --------------------------
(***************************************************************************)
(* What the policy engine is to decide, stated without the order in which  *)
(* it tries its rules, for whatever it is asked about.  It is asked about  *)
(* all situations of one requested amount in one step: the engine keeps no *)
(* state, so they need no states of their own.  TLC asks about small sets  *)
(* of inputs; ServicesProofs holds for any sets of integers.               *)
(***************************************************************************)
EXTENDS PolicyEngine, FiniteSetsExt

CONSTANTS
  Amounts,       \* requested amounts and tier limits, in hundredths
  Aums,          \* current and peak AUM, in dollars
  Percents,      \* allocation and drawdown percentages
  Counts         \* active permits and caps

ASSUME InputsAssumption ==
  /\ Amounts \subseteq Int
  /\ Aums \subseteq Int
  /\ Percents \subseteq Int
  /\ Counts \subseteq Int

VARIABLE asked   \* the inputs that the engine is asked about

Rules(d) == [max_drawdown_pct |-> d, max_concurrent_permits |-> 2]

Access(x) ==
  [can_execute |-> x.can_execute, wallet_address |-> "w",
   allocation_pct |-> x.pct, tier_limit_usd |-> x.tier,
   concurrent_permit_cap |-> x.cap]

\* The verdict on x when extra more permits of its agent, of one hundredth each,
\* are active.
Verdict(x, extra) ==
  run_policy_engine([wallet_address |-> x.wallet, requested_amount |-> x.amount],
                    [health |-> x.health, peak_aum |-> x.peak,
                     current_aum |-> x.current],
                    Access(x), Rules(x.drawdown), x.reserved + extra,
                    x.count + extra, x.count + extra + x.others)

Situations(amounts) ==
  [amount : amounts, wallet : {"w", "v"}, health : {"HEALTHY", "HALTED"},
   peak : Aums, current : Aums, can_execute : BOOLEAN, pct : Percents,
   tier : {m \in Amounts : m > 0}, cap : Counts \ {0}, drawdown : Percents,
   reserved : {m \in Amounts : m >= 0}, count : Counts, others : {0, 1}]

Inputs == Situations(Amounts)

PolicyInit == asked = {}

PolicyNext == \E m \in Amounts : asked' = Situations({m})

PolicySpec == PolicyInit /\ [][PolicyNext]_asked
-----------------------------------------------------------------------------

\* The violated rules as a set.
Violated(x) ==
  {n \in 1..8 :
     \/ n = 1 /\ x.health = "HALTED"
     \/ n = 2 /\ ~x.can_execute
     \/ n = 3 /\ x.wallet # "w"
     \/ n = 4 /\ x.pct * x.current <= x.reserved
     \/ n = 6 /\ x.cap <= x.count
     \/ n = 7 /\ 2 <= x.count + x.others
     \/ n = 8 /\ x.peak > 0
              /\ 100 * x.current <= (100 - x.drawdown) * x.peak}

\* A leg is approved exactly when it violates no rule, a denial names the
\* lowest-numbered rule it violates, and an approval grants the least of the
\* request, the tier limit and the headroom (policy/mod.rs:16-83).
MatchesReference ==
  \A x \in asked :
    Verdict(x, 0) = IF Violated(x) = {}
                    THEN approve(Min({x.amount, x.tier,
                                      x.pct * x.current - x.reserved}))
                    ELSE deny(Min(Violated(x)))

\* More usage never turns a denial into an approval and never raises a grant:
\* the engine gives an agent no advantage for holding more permits.
TighterNeverBetter ==
  \A x \in asked : Verdict(x, 1).approved =>
    /\ Verdict(x, 0).approved
    /\ Verdict(x, 1).approved_amount <= Verdict(x, 0).approved_amount
===========================================================================
