--------------------------- MODULE PolicyEngine ---------------------------
(***************************************************************************)
(* The policy engine of the coordinator (policy/mod.rs, policy/rules.rs):  *)
(* a pure function from one permit leg, the treasury, the agent's rule for *)
(* the wallet and three usage figures to an approval or a denial.          *)
(*                                                                         *)
(* Units.  The code works with exact decimals.  Amounts are integers in    *)
(* hundredths of a dollar and AUM in dollars, so that the allocation       *)
(* limit, allocation_pct / 100 * AUM dollars, is allocation_pct * AUM      *)
(* hundredths and every comparison of the code is one between integers.    *)
(* Percentages are integers.  Amounts may be zero or negative: neither the *)
(* engine nor its callers reject them.                                     *)
(*                                                                         *)
(* A definition named X_Y, right before the definition X, is a variant of  *)
(* X that a plausible mistake would give; nothing uses it.                 *)
(***************************************************************************)
EXTENDS Integers

\* The engine's verdict: PolicyResult without its wording.  "check" is
\* policy_check_number, 0 when the leg is approved.
Verdicts == [approved : BOOLEAN, approved_amount : Int, check : 0..8]

deny(check_num) ==
  [approved |-> FALSE, approved_amount |-> 0, check |-> check_num]

approve(amount) ==
  [approved |-> TRUE, approved_amount |-> amount, check |-> 0]

-----------------------------------------------------------------------------
(* Each rule as the condition under which it stops or limits the leg.      *)

\* Rule 1.  Only HALTED stops a request: PENDING_WALLET is read as healthy.
check_treasury_halted_Never(health) == FALSE
check_treasury_halted(health) == health = "HALTED"

\* Rule 2.  can_execute is "the slot's status is ACTIVE".
check_agent_suspended(access) == ~access.can_execute

\* Rule 3.
check_wallet_access(wallet_address, access) ==
  wallet_address # access.wallet_address

max_allowed_usd(access, aum) == access.allocation_pct * aum

\* Rule 4 denies once the active reservations reach the allocation ...
allocation_exhausted(access, reserved, aum) ==
  reserved >= max_allowed_usd(access, aum)

\* ... and otherwise limits the leg to the headroom that is left.
check_agent_allocation_Swapped(amount, access, reserved, aum) ==
  LET headroom == reserved - max_allowed_usd(access, aum)
  IN  IF amount > headroom THEN headroom ELSE amount
check_agent_allocation_TakesLarger(amount, access, reserved, aum) ==
  LET headroom == max_allowed_usd(access, aum) - reserved
  IN  IF amount > headroom THEN amount ELSE headroom
check_agent_allocation(amount, access, reserved, aum) ==
  LET headroom == max_allowed_usd(access, aum) - reserved
  IN  IF amount > headroom THEN headroom ELSE amount

\* Rule 5 limits the leg as it was requested, not as rule 4 left it.
check_tier_limit(amount, access) ==
  IF amount > access.tier_limit_usd THEN access.tier_limit_usd ELSE amount

\* Rules 6 and 7.
check_concurrent_limit_OffByOne(active_count, access) ==
  active_count > access.concurrent_permit_cap
check_concurrent_limit(active_count, access) ==
  active_count >= access.concurrent_permit_cap

check_treasury_concurrent_limit_OffByOne(treasury_active_count, rules) ==
  treasury_active_count > rules.max_concurrent_permits
check_treasury_concurrent_limit(treasury_active_count, rules) ==
  treasury_active_count >= rules.max_concurrent_permits

\* Rule 8, cleared of its division: a treasury whose peak is not positive
\* has no drawdown.
check_drawdown_limit(peak, current, rules) ==
  /\ peak > 0
  /\ (peak - current) * 100 >= rules.max_drawdown_pct * peak

-----------------------------------------------------------------------------
\* The amount left after the two rules that grant in part: each replaces the
\* running amount only when its own limit is smaller.
approved_amount_TierWins(amount, access, reserved, aum) ==
  LET limit4  == check_agent_allocation(amount, access, reserved, aum)
      limit5  == check_tier_limit(amount, access)
      current == IF limit4 < amount THEN limit4 ELSE amount
  IN  IF limit5 < amount THEN limit5 ELSE current
approved_amount(amount, access, reserved, aum) ==
  LET limit4  == check_agent_allocation(amount, access, reserved, aum)
      limit5  == check_tier_limit(amount, access)
      current == IF limit4 < amount THEN limit4 ELSE amount
  IN  IF limit5 < current THEN limit5 ELSE current

\* run_policy_engine: the rules in order, the first that denies wins.
\*   leg      [wallet_address, requested_amount]
\*   treasury [health, peak_aum, current_aum]
\*   access   [can_execute, wallet_address, allocation_pct, tier_limit_usd,
\*             concurrent_permit_cap]
\*   rules    [max_drawdown_pct, max_concurrent_permits]
run_policy_engine(leg, treasury, access, rules, reserved, active_count, treasury_active_count) ==
  LET amount == leg.requested_amount
      aum    == treasury.current_aum
  IN  IF check_treasury_halted(treasury.health)                  THEN deny(1)
      ELSE IF check_agent_suspended(access)                      THEN deny(2)
      ELSE IF check_wallet_access(leg.wallet_address, access)    THEN deny(3)
      ELSE IF allocation_exhausted(access, reserved, aum)        THEN deny(4)
      ELSE IF check_concurrent_limit(active_count, access)       THEN deny(6)
      ELSE IF check_treasury_concurrent_limit(treasury_active_count, rules)
                                                                 THEN deny(7)
      ELSE IF check_drawdown_limit(treasury.peak_aum, aum, rules) THEN deny(8)
      ELSE approve(approved_amount(amount, access, reserved, aum))
===========================================================================
