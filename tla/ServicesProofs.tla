--------------------------- MODULE ServicesProofs ---------------------------
(***************************************************************************)
(* First the policy engine: it decides as PolicyReference says, for any    *)
(* sets of integers as inputs.  The products of the allocation and of the  *)
(* drawdown are handled once (DrawdownRule); what is left is linear.       *)
(*                                                                         *)
(* Then the parts of MCServices side by side.  A behaviour of all of them  *)
(* is one of each (PartsCorrect), so that what is proved of a part holds   *)
(* of it there.                                                            *)
(***************************************************************************)
EXTENDS MCServices, EventBusProofs, HorizonWatcherProofs, OneTimeTokensProofs

-----------------------------------------------------------------------------
(* The policy engine.                                                      *)

LEMMA LeastIsMin ==
  ASSUME NEW S, NEW m \in S,
         S \subseteq Int,
         \A y \in S : m <= y
  PROVE  Min(S) = m
PROOF
<1> DEFINE Least(z) == z \in S /\ \A y \in S : z <= y
<1>1. Least(m)
  OBVIOUS
<1>2. \A z : Least(z) => z = m
  OBVIOUS
<1>3. (CHOOSE z \in S : \A y \in S : z <= y) = m
  BY <1>1, <1>2
<1> QED
  BY <1>3 DEF Min

LEMMA InputFacts ==
  ASSUME NEW x \in Inputs
  PROVE  /\ x.amount \in Int /\ x.tier \in Int /\ x.peak \in Int /\ x.current \in Int
         /\ x.pct \in Int /\ x.drawdown \in Int /\ x.cap \in Int /\ x.count \in Int
         /\ x.reserved \in Int /\ x.others \in Int
         /\ x.pct * x.current \in Int
         /\ x.can_execute \in BOOLEAN
PROOF
<1>1. /\ x.amount \in Amounts /\ x.tier \in Amounts /\ x.reserved \in Amounts
      /\ x.peak \in Aums /\ x.current \in Aums
      /\ x.pct \in Percents /\ x.drawdown \in Percents
      /\ x.cap \in Counts /\ x.count \in Counts
      /\ x.others \in {0, 1}
      /\ x.health \in {"HEALTHY", "HALTED"}
      /\ x.can_execute \in BOOLEAN
  BY DEF Inputs, Situations
<1>2. /\ x.amount \in Int /\ x.tier \in Int /\ x.peak \in Int /\ x.current \in Int
      /\ x.pct \in Int /\ x.drawdown \in Int /\ x.cap \in Int /\ x.count \in Int
      /\ x.reserved \in Int
  BY <1>1, InputsAssumption, Zenon
<1>3. x.others \in Int
  BY <1>1
<1>4. \A a, b \in Int : a * b \in Int
  OBVIOUS
<1>5. x.pct * x.current \in Int
  BY <1>2, <1>4, Zenon
<1> QED
  BY <1>1, <1>2, <1>3, <1>5, Zenon

\* The code's drawdown and the one of the reference are the same inequality.
LEMMA DrawdownRule ==
  ASSUME NEW p \in Int, NEW c \in Int, NEW d \in Int
  PROVE  (p - c) * 100 >= d * p <=> 100 * c <= (100 - d) * p
PROOF
<1>1. (100 - d) * p = 100 * p - d * p
  OBVIOUS
<1>2. d * p \in Int
  OBVIOUS
<1> QED
  BY <1>1, <1>2

\* What the engine grants is the least of the three limits.
LEMMA GrantIsMin ==
  ASSUME NEW amount \in Int, NEW tier \in Int, NEW headroom \in Int,
         NEW grant,
         grant = LET limit4  == IF amount > headroom THEN headroom ELSE amount
                     limit5  == IF amount > tier THEN tier ELSE amount
                     current == IF limit4 < amount THEN limit4 ELSE amount
                 IN  IF limit5 < current THEN limit5 ELSE current
  PROVE  /\ grant \in {amount, tier, headroom}
         /\ grant \in Int
         /\ grant <= amount /\ grant <= tier /\ grant <= headroom
         /\ grant = Min({amount, tier, headroom})
PROOF
<1>1. /\ grant \in {amount, tier, headroom}
      /\ grant \in Int
      /\ grant <= amount /\ grant <= tier /\ grant <= headroom
  OBVIOUS
<1>2. \A y \in {amount, tier, headroom} : grant <= y
  BY <1>1
<1>3. {amount, tier, headroom} \subseteq Int
  OBVIOUS
<1> QED
  BY <1>1, <1>2, <1>3, LeastIsMin

\* The rules as Verdict applies them.
Halted(x) == x.health = "HALTED"
Exhausted(x, e) == x.reserved + e >= x.pct * x.current
Busy(x, e) == x.count + e >= x.cap
TreasuryBusy(x, e) == x.count + e + x.others >= 2
DrawnDown(x) == x.peak > 0 /\ (x.peak - x.current) * 100 >= x.drawdown * x.peak
Grant(x, e) == approved_amount(x.amount, Access(x), x.reserved + e, x.current)

LEMMA VerdictUnfolds ==
  ASSUME NEW x \in Inputs, NEW e \in Int
  PROVE  Verdict(x, e) =
           IF Halted(x) THEN deny(1)
           ELSE IF ~x.can_execute THEN deny(2)
           ELSE IF x.wallet # "w" THEN deny(3)
           ELSE IF Exhausted(x, e) THEN deny(4)
           ELSE IF Busy(x, e) THEN deny(6)
           ELSE IF TreasuryBusy(x, e) THEN deny(7)
           ELSE IF DrawnDown(x) THEN deny(8)
           ELSE approve(Grant(x, e))
PROOF
<1> DEFINE leg == [wallet_address |-> x.wallet, requested_amount |-> x.amount]
           treasury == [health |-> x.health, peak_aum |-> x.peak, current_aum |-> x.current]
           rules == Rules(x.drawdown)
<1>1. /\ leg.wallet_address = x.wallet /\ leg.requested_amount = x.amount
      /\ treasury.health = x.health /\ treasury.peak_aum = x.peak
      /\ treasury.current_aum = x.current
      /\ rules.max_drawdown_pct = x.drawdown /\ rules.max_concurrent_permits = 2
  BY DEF Rules
<1>2. /\ Access(x).can_execute = x.can_execute
      /\ Access(x).wallet_address = "w"
      /\ Access(x).allocation_pct = x.pct
      /\ Access(x).concurrent_permit_cap = x.cap
  BY DEF Access
<1>3. /\ check_treasury_halted(treasury.health) = Halted(x)
      /\ check_agent_suspended(Access(x)) = (~x.can_execute)
      /\ check_wallet_access(leg.wallet_address, Access(x)) = (x.wallet # "w")
  BY <1>1, <1>2 DEF check_treasury_halted, check_agent_suspended, check_wallet_access, Halted
<1>4. /\ allocation_exhausted(Access(x), x.reserved + e, treasury.current_aum) = Exhausted(x, e)
      /\ check_concurrent_limit(x.count + e, Access(x)) = Busy(x, e)
  BY <1>1, <1>2 DEF allocation_exhausted, max_allowed_usd, check_concurrent_limit, Exhausted, Busy
<1>5. /\ check_treasury_concurrent_limit(x.count + e + x.others, rules) = TreasuryBusy(x, e)
      /\ check_drawdown_limit(treasury.peak_aum, treasury.current_aum, rules) = DrawnDown(x)
  BY <1>1 DEF check_treasury_concurrent_limit, check_drawdown_limit, TreasuryBusy, DrawnDown
<1>6. approved_amount(leg.requested_amount, Access(x), x.reserved + e, treasury.current_aum)
        = Grant(x, e)
  BY <1>1 DEF Grant
<1>7. Verdict(x, e) = run_policy_engine(leg, treasury, Access(x), rules,
                        x.reserved + e, x.count + e, x.count + e + x.others)
  BY DEF Verdict
<1> HIDE DEF leg, treasury, rules
<1> QED
  BY <1>3, <1>4, <1>5, <1>6, <1>7, Zenon DEF run_policy_engine

LEMMA GrantUnfolds ==
  ASSUME NEW x \in Inputs, NEW e \in Int
  PROVE  LET headroom == x.pct * x.current - (x.reserved + e)
         IN  /\ Grant(x, e) \in {x.amount, x.tier, headroom}
             /\ Grant(x, e) \in Int
             /\ Grant(x, e) <= x.amount /\ Grant(x, e) <= x.tier
             /\ Grant(x, e) <= headroom
             /\ Grant(x, e) = Min({x.amount, x.tier, headroom})
PROOF
<1> DEFINE headroom == x.pct * x.current - (x.reserved + e)
<1>1. headroom \in Int /\ x.amount \in Int /\ x.tier \in Int
  BY InputFacts
<1>2. Access(x).allocation_pct = x.pct /\ Access(x).tier_limit_usd = x.tier
  BY DEF Access
<1>3. Grant(x, e) =
        LET limit4  == IF x.amount > headroom THEN headroom ELSE x.amount
            limit5  == IF x.amount > x.tier THEN x.tier ELSE x.amount
            current == IF limit4 < x.amount THEN limit4 ELSE x.amount
        IN  IF limit5 < current THEN limit5 ELSE current
  BY <1>2 DEF Grant, approved_amount, check_agent_allocation, check_tier_limit, max_allowed_usd
<1> DEFINE amount == x.amount
           tier == x.tier
           grant == Grant(x, e)
<1>4. amount \in Int /\ tier \in Int /\ headroom \in Int
  BY <1>1
<1>5. grant = LET limit4  == IF amount > headroom THEN headroom ELSE amount
                  limit5  == IF amount > tier THEN tier ELSE amount
                  current == IF limit4 < amount THEN limit4 ELSE amount
              IN  IF limit5 < current THEN limit5 ELSE current
  BY <1>3
<1> HIDE DEF headroom, amount, tier, grant
<1>6. /\ grant \in {amount, tier, headroom}
      /\ grant \in Int
      /\ grant <= amount /\ grant <= tier /\ grant <= headroom
      /\ grant = Min({amount, tier, headroom})
  BY <1>4, <1>5, GrantIsMin
<1> QED
  BY <1>6 DEF headroom, amount, tier, grant

\* Which numbers are in the reference's set of violated rules.
LEMMA ViolatedRules ==
  ASSUME NEW x \in Inputs
  PROVE  /\ Violated(x) \subseteq {1, 2, 3, 4, 6, 7, 8}
         /\ 1 \in Violated(x) <=> Halted(x)
         /\ 2 \in Violated(x) <=> ~x.can_execute
         /\ 3 \in Violated(x) <=> x.wallet # "w"
         /\ 4 \in Violated(x) <=> Exhausted(x, 0)
         /\ 6 \in Violated(x) <=> Busy(x, 0)
         /\ 7 \in Violated(x) <=> TreasuryBusy(x, 0)
         /\ 8 \in Violated(x) <=> DrawnDown(x)
PROOF
<1> USE InputFacts
<1>1. /\ Violated(x) \subseteq {1, 2, 3, 4, 6, 7, 8}
      /\ 1 \in Violated(x) <=> Halted(x)
      /\ 2 \in Violated(x) <=> ~x.can_execute
      /\ 3 \in Violated(x) <=> x.wallet # "w"
  BY DEF Violated, Halted
<1>2. 4 \in Violated(x) <=> Exhausted(x, 0)
  <2> DEFINE allowed == x.pct * x.current
  <2>1. allowed \in Int /\ x.reserved \in Int
    OBVIOUS
  <2>2. 4 \in Violated(x) <=> allowed <= x.reserved
    BY DEF Violated
  <2>3. Exhausted(x, 0) <=> x.reserved + 0 >= allowed
    BY DEF Exhausted
  <2> HIDE DEF allowed
  <2> QED
    BY <2>1, <2>2, <2>3
<1>3. /\ 6 \in Violated(x) <=> Busy(x, 0)
      /\ 7 \in Violated(x) <=> TreasuryBusy(x, 0)
  BY DEF Violated, Busy, TreasuryBusy
<1>4. 8 \in Violated(x) <=> DrawnDown(x)
  <2>1. 8 \in Violated(x) <=>
          x.peak > 0 /\ 100 * x.current <= (100 - x.drawdown) * x.peak
    BY DEF Violated
  <2> QED
    BY <2>1, DrawdownRule DEF DrawnDown
<1> QED
  BY <1>1, <1>2, <1>3, <1>4

\* The engine's chain of tests finds the least violated rule.
LEMMA FirstViolated ==
  ASSUME NEW x \in Inputs, NEW n \in Violated(x),
         \A m \in Violated(x) : n <= m
  PROVE  Verdict(x, 0) = deny(n)
PROOF
<1>1. /\ Violated(x) \subseteq {1, 2, 3, 4, 6, 7, 8}
      /\ \A m \in 1..8 : m < n => m \notin Violated(x)
  BY ViolatedRules
<1>2. n \in {1, 2, 3, 4, 6, 7, 8}
  BY <1>1
<1>3. CASE n = 1
  BY <1>1, <1>3, VerdictUnfolds, ViolatedRules
<1>4. CASE n = 2
  BY <1>1, <1>4, VerdictUnfolds, ViolatedRules
<1>5. CASE n = 3
  BY <1>1, <1>5, VerdictUnfolds, ViolatedRules
<1>6. CASE n = 4
  BY <1>1, <1>6, VerdictUnfolds, ViolatedRules
<1>7. CASE n = 6
  BY <1>1, <1>7, VerdictUnfolds, ViolatedRules
<1>8. CASE n = 7
  BY <1>1, <1>8, VerdictUnfolds, ViolatedRules
<1>9. CASE n = 8
  BY <1>1, <1>9, VerdictUnfolds, ViolatedRules
<1> QED
  BY <1>2, <1>3, <1>4, <1>5, <1>6, <1>7, <1>8, <1>9

\* The engine is only asked about inputs.
AskedInv == asked \subseteq Inputs

LEMMA AskedInputs == PolicySpec => []AskedInv
PROOF
<1>1. PolicyInit => AskedInv
  BY DEF PolicyInit, AskedInv
<1>2. AskedInv /\ [PolicyNext]_asked => AskedInv'
  <2> SUFFICES ASSUME AskedInv, [PolicyNext]_asked
               PROVE  asked' \subseteq Inputs
    BY DEF AskedInv
  <2>1. CASE PolicyNext
    <3>1. PICK m \in Amounts : asked' = Situations({m})
      BY <2>1 DEF PolicyNext
    <3>2. Situations({m}) \subseteq Situations(Amounts)
      BY DEF Situations
    <3> QED
      BY <3>1, <3>2 DEF Inputs
  <2>2. CASE asked' = asked
    BY <2>2 DEF AskedInv
  <2> QED
    BY <2>1, <2>2
<1> QED
  BY <1>1, <1>2, PTL DEF PolicySpec

LEMMA VerdictOfReference ==
  ASSUME NEW x \in Inputs
  PROVE  Verdict(x, 0) = IF Violated(x) = {}
                         THEN approve(Min({x.amount, x.tier,
                                           x.pct * x.current - x.reserved}))
                         ELSE deny(Min(Violated(x)))
PROOF
<1>1. CASE Violated(x) = {}
  <2>1. Verdict(x, 0) = approve(Grant(x, 0))
    BY <1>1, VerdictUnfolds, ViolatedRules
  <2>2. x.pct * x.current - (x.reserved + 0) = x.pct * x.current - x.reserved
    BY InputFacts
  <2>3. Grant(x, 0) = Min({x.amount, x.tier, x.pct * x.current - (x.reserved + 0)})
    BY GrantUnfolds
  <2> QED
    BY <1>1, <2>1, <2>2, <2>3
<1>2. CASE Violated(x) # {}
  <2>1. PICK n \in Violated(x) : \A m \in Violated(x) : n <= m
    <3> DEFINE In(m) == m \in Violated(x)
    <3>1. \A m : In(m) => m \in {1, 2, 3, 4, 6, 7, 8}
      BY ViolatedRules
    <3>2. \E m : In(m)
      BY <1>2
    <3> HIDE DEF In
    <3>3. \E m : In(m) /\ \A k : In(k) => m <= k
      BY <3>1, <3>2
    <3> QED
      BY <3>3 DEF In
  <2>2. Violated(x) \subseteq Int
    BY ViolatedRules
  <2>3. Min(Violated(x)) = n
    BY <2>1, <2>2, LeastIsMin
  <2>4. Verdict(x, 0) = deny(n)
    BY <2>1, FirstViolated
  <2> QED
    BY <1>2, <2>3, <2>4
<1> QED
  BY <1>1, <1>2

\* A leg is approved exactly when it violates no rule, with the least of its
\* limits, and a denial names the lowest-numbered rule it violates
\* (policy/mod.rs:16-83).
THEOREM ReferenceCorrect == PolicySpec => []MatchesReference
PROOF
<1>1. AskedInv => MatchesReference
  BY VerdictOfReference DEF MatchesReference, AskedInv
<1> QED
  BY <1>1, AskedInputs, PTL

LEMMA VerdictOfOneMore ==
  ASSUME NEW x \in Inputs, Verdict(x, 1).approved
  PROVE  /\ Verdict(x, 0).approved
         /\ Verdict(x, 1).approved_amount <= Verdict(x, 0).approved_amount
PROOF
<1>1. \A n : deny(n).approved = FALSE
  BY DEF deny
<1>2. /\ ~Halted(x) /\ x.can_execute /\ x.wallet = "w" /\ ~DrawnDown(x)
      /\ ~Exhausted(x, 1) /\ ~Busy(x, 1) /\ ~TreasuryBusy(x, 1)
  BY <1>1, VerdictUnfolds
<1>3. ~Exhausted(x, 0) /\ ~Busy(x, 0) /\ ~TreasuryBusy(x, 0)
  <2> DEFINE allowed == x.pct * x.current
  <2>1. /\ allowed \in Int /\ x.reserved \in Int /\ x.cap \in Int
        /\ x.count \in Int /\ x.others \in Int
    BY InputFacts
  <2>2. ~(x.reserved + 1 >= allowed) /\ ~(x.count + 1 >= x.cap) /\ ~(x.count + 1 + x.others >= 2)
    BY <1>2 DEF Exhausted, Busy, TreasuryBusy
  <2>3. ~(x.reserved + 0 >= allowed) /\ ~(x.count + 0 >= x.cap) /\ ~(x.count + 0 + x.others >= 2)
    <3> HIDE DEF allowed
    <3> QED
      BY <2>1, <2>2
  <2> QED
    BY <2>3 DEF Exhausted, Busy, TreasuryBusy
<1>4. Verdict(x, 1) = approve(Grant(x, 1)) /\ Verdict(x, 0) = approve(Grant(x, 0))
  BY <1>2, <1>3, VerdictUnfolds
<1>5. Grant(x, 1) <= Grant(x, 0)
  <2> DEFINE allowed == x.pct * x.current
  <2>1. allowed \in Int /\ x.reserved \in Int /\ x.amount \in Int /\ x.tier \in Int
    BY InputFacts
  <2>2. /\ Grant(x, 1) \in Int /\ Grant(x, 1) <= x.amount /\ Grant(x, 1) <= x.tier
        /\ Grant(x, 1) <= allowed - (x.reserved + 1)
    <3>1. 1 \in Int
      OBVIOUS
    <3> QED
      BY <3>1, GrantUnfolds, Zenon
  <2>3. Grant(x, 0) \in {x.amount, x.tier, allowed - (x.reserved + 0)}
    <3>1. 0 \in Int
      OBVIOUS
    <3> QED
      BY <3>1, GrantUnfolds, Zenon
  <2> HIDE DEF allowed
  <2> QED
    BY <2>1, <2>2, <2>3
<1> QED
  BY <1>4, <1>5 DEF approve

\* One more active permit neither turns a denial into an approval nor raises a
\* grant (policy/rules.rs:38-101).
THEOREM TighterCorrect == PolicySpec => []TighterNeverBetter
PROOF
<1>1. AskedInv => TighterNeverBetter
  BY VerdictOfOneMore DEF TighterNeverBetter, AskedInv
<1> QED
  BY <1>1, AskedInputs, PTL

-----------------------------------------------------------------------------
(* The parts side by side.                                                 *)

\* Each part takes steps of its own and rests while another moves.
LEMMA PartsStep ==
  [Next]_allVars => /\ [BusNext]_busVars
                    /\ [WatcherNext]_watcherVars
                    /\ [TokensNext]_tokenVars
                    /\ [PolicyNext]_asked
<1>1. CASE BusPart
  BY <1>1 DEF BusPart
<1>2. CASE WatcherPart
  BY <1>2 DEF WatcherPart
<1>3. CASE TokensPart
  BY <1>3 DEF TokensPart, TokensNext
<1>4. CASE PolicyPart
  BY <1>4 DEF PolicyPart
<1>5. CASE UNCHANGED allVars
  BY <1>5 DEF allVars
<1> QED BY <1>1, <1>2, <1>3, <1>4, <1>5 DEF Next

\* A behaviour of the parts side by side is a behaviour of each of them.
THEOREM PartsCorrect == Spec => BusSpec /\ WatcherSpec /\ TokensSpec /\ PolicySpec
<1>1. Init => BusInit /\ WatcherInit /\ TokensInit /\ PolicyInit
  BY DEF Init
<1> QED
  BY <1>1, PartsStep, PTL DEF Spec, BusSpec, WatcherSpec, TokensSpec, PolicySpec

\* The state of every part is well typed in every reachable state.
THEOREM ServicesTypeCorrect == Spec => []TypeOK
<1>1. BusTypeOK /\ WatcherTypeOK /\ TokensTypeOK => TypeOK
  BY DEF TypeOK
<1> QED
  BY <1>1, PartsCorrect, BusTypeCorrect, WatcherTypeCorrect, TokensTypeCorrect, PTL

\* What is proved of each part, of all of them (main.rs:136-172,
\* horizon.rs:144-246, auth.rs:308-398, policy/mod.rs:16-83).
THEOREM ServicesCorrect ==
  Spec => [](/\ LogFollowsBus /\ SocketsInOrder
             /\ InflowsAnnouncedOnce
             /\ UsedOnce /\ AttemptsBounded
             /\ MatchesReference /\ TighterNeverBetter)
BY PartsCorrect, LogCorrect, SocketsCorrect, InflowsCorrect, UsedOnceCorrect, AttemptsCorrect,
   ReferenceCorrect, TighterCorrect, PTL

\* The event log is a journal whatever the watchers, the handlers and the
\* engine do beside it (main.rs:136-172).
COROLLARY JournalWithServices == Spec => ImplementsJournal
BY PartsCorrect, JournalCorrect, PTL
=============================================================================
