--------------------------- MODULE PermitsProofs ---------------------------
(***************************************************************************)
(* Proofs about Permits, for every number of handlers, permits, agents and *)
(* wallets, every constitution and every amount.                           *)
(*                                                                         *)
(* The argument.  Whatever a handler has read is old when it acts on it.   *)
(* So no bound is inductive by itself: each invariant also counts the      *)
(* handlers that may still act on what they have read (SeatsBounded and    *)
(* ClaimsBounded for the limits, HaltBounded and RevocationBounded for     *)
(* what is revoked).  With one handler what it has read is so (SerialInv), *)
(* and Permits implements the ledger.                                      *)
(***************************************************************************)
EXTENDS Permits, FiniteSetTheorems, TLAPS

-----------------------------------------------------------------------------
(* The policy engine.                                                      *)

\* Whatever the engine answers, it grants a whole number of hundredths to a leg
\* that asks for one.
LEMMA EngineGrantsInt ==
  ASSUME NEW leg, NEW access, NEW rules, NEW state,
         leg.requested_amount \in Int, access.tier_limit_usd \in Int,
         access.allocation_pct \in Int, state.current_aum \in Int,
         NEW reserved \in Int, NEW active_count, NEW treasury_active_count
  PROVE  LET verdict == run_policy_engine(leg, state, access, rules, reserved,
                                          active_count, treasury_active_count)
         IN  verdict.approved \in BOOLEAN /\ verdict.approved_amount \in Int
<1> DEFINE aum == state.current_aum
           headroom == max_allowed_usd(access, aum) - reserved
           grant == approved_amount(leg.requested_amount, access, reserved, aum)
<1>1. max_allowed_usd(access, aum) \in Int
  BY DEF max_allowed_usd
<1>2. grant \in Int
  <2>1. headroom \in Int
    BY <1>1
  <2>2. check_agent_allocation(leg.requested_amount, access, reserved, aum) \in Int
    BY <1>1, <2>1 DEF check_agent_allocation
  <2>3. check_tier_limit(leg.requested_amount, access) \in Int
    BY DEF check_tier_limit
  <2> QED
    BY <2>2, <2>3 DEF approved_amount
<1> QED
  BY <1>2 DEF run_policy_engine, deny, approve

\* An approved leg had violated none of the rules that the properties are about.
LEMMA EngineApproves ==
  ASSUME NEW leg, NEW access, NEW rules, NEW state, NEW reserved,
         NEW active_count, NEW treasury_active_count,
         run_policy_engine(leg, state, access, rules, reserved,
                           active_count, treasury_active_count).approved
  PROVE  /\ state.health # "HALTED"
         /\ access.can_execute
         /\ ~(active_count >= access.concurrent_permit_cap)
         /\ ~(treasury_active_count >= rules.max_concurrent_permits)
BY DEF run_policy_engine, deny, approve, check_treasury_halted,
       check_agent_suspended, check_concurrent_limit, check_treasury_concurrent_limit

\* An approved leg is granted no more than the tier's limit, to an agent with
\* something left of its allocation, by a treasury that has not drawn down too
\* far; a leg that is denied is granted nothing.
LEMMA EngineGrants ==
  ASSUME NEW leg, NEW access, NEW rules, NEW state,
         leg.requested_amount \in Int, access.tier_limit_usd \in Int,
         access.allocation_pct \in Int, state.current_aum \in Int,
         NEW reserved \in Int, NEW active_count, NEW treasury_active_count,
         run_policy_engine(leg, state, access, rules, reserved,
                           active_count, treasury_active_count).approved
  PROVE  /\ run_policy_engine(leg, state, access, rules, reserved,
                              active_count, treasury_active_count).approved_amount
              <= access.tier_limit_usd
         /\ reserved < access.allocation_pct * state.current_aum
         /\ ~check_drawdown_limit(state.peak_aum, state.current_aum, rules)
<1> DEFINE amount == leg.requested_amount
           limit == access.allocation_pct * state.current_aum
           aum == state.current_aum
<1>1. limit \in Int
  OBVIOUS
<1>2. /\ run_policy_engine(leg, state, access, rules, reserved, active_count,
                           treasury_active_count)
           = approve(approved_amount(amount, access, reserved, aum))
      /\ max_allowed_usd(access, aum) = limit
      /\ ~allocation_exhausted(access, reserved, aum)
      /\ ~check_drawdown_limit(state.peak_aum, aum, rules)
  BY DEF run_policy_engine, deny, max_allowed_usd
<1>3. ~(reserved >= limit)
  BY <1>2 DEF allocation_exhausted
<1>4. check_agent_allocation(amount, access, reserved, aum)
        = IF amount > limit - reserved THEN limit - reserved ELSE amount
  BY <1>2 DEF check_agent_allocation
<1>5. check_tier_limit(amount, access)
        = IF amount > access.tier_limit_usd THEN access.tier_limit_usd ELSE amount
  BY DEF check_tier_limit
<1> HIDE DEF limit
<1>6. approved_amount(amount, access, reserved, aum) <= access.tier_limit_usd
  BY <1>1, <1>3, <1>4, <1>5 DEF approved_amount
<1>7. reserved < limit
  BY <1>1, <1>3
<1> QED BY <1>2, <1>6, <1>7 DEF approve, limit

LEMMA EngineDenies ==
  ASSUME NEW leg, NEW access, NEW rules, NEW state, NEW reserved,
         NEW active_count, NEW treasury_active_count,
         ~run_policy_engine(leg, state, access, rules, reserved,
                            active_count, treasury_active_count).approved
  PROVE  run_policy_engine(leg, state, access, rules, reserved,
                           active_count, treasury_active_count).approved_amount = 0
BY DEF run_policy_engine, deny, approve

\* An approved leg is granted no more than is left of the allocation.
LEMMA EngineAllocates ==
  ASSUME NEW leg, NEW access, NEW rules, NEW state,
         leg.requested_amount \in Int, access.tier_limit_usd \in Int,
         access.allocation_pct \in Int, state.current_aum \in Int,
         NEW reserved \in Int, NEW active_count, NEW treasury_active_count,
         run_policy_engine(leg, state, access, rules, reserved,
                           active_count, treasury_active_count).approved
  PROVE  run_policy_engine(leg, state, access, rules, reserved,
                           active_count, treasury_active_count).approved_amount
           <= access.allocation_pct * state.current_aum - reserved
<1> DEFINE amount == leg.requested_amount
           limit == access.allocation_pct * state.current_aum
           aum == state.current_aum
<1>1. limit \in Int
  OBVIOUS
<1>2. /\ run_policy_engine(leg, state, access, rules, reserved, active_count,
                           treasury_active_count)
           = approve(approved_amount(amount, access, reserved, aum))
      /\ max_allowed_usd(access, aum) = limit
  BY DEF run_policy_engine, deny, max_allowed_usd
<1>3. check_agent_allocation(amount, access, reserved, aum)
        = IF amount > limit - reserved THEN limit - reserved ELSE amount
  BY <1>2 DEF check_agent_allocation
<1>4. check_tier_limit(amount, access) \in Int
  BY DEF check_tier_limit
<1> HIDE DEF limit
<1>5. approved_amount(amount, access, reserved, aum) <= limit - reserved
  BY <1>1, <1>3, <1>4 DEF approved_amount
<1> QED BY <1>2, <1>5 DEF approve, limit

-----------------------------------------------------------------------------
(* Type correctness.                                                       *)

\* What a handler has read is there when it is used.
HandlersOK ==
  \A w \in Workers :
    /\ pc[w] \in {"reserved", "count", "decide"} => snap[w].view \in Views
    /\ pc[w] \in {"outcome", "written"} =>
         outcome[w] \in Outcomes /\ NewAum(outcome[w]) <= MaxAum
    /\ pc[w] = "revoke" => revocation[w].agent \in Agents

\* The row of an open request has all its columns.
RowsOK ==
  \A p \in Permits : tx[p] # None =>
    row[p].leg \in 1..MaxLegs /\ row[p].agent \in Agents /\ row[p].wallet \in Wallets

TypeInv == TypeOK /\ HandlersOK /\ RowsOK

\* Finitely many units are counted for finitely many permits.
LEMMA ColumnsFinite ==
  ASSUME NEW P \in SUBSET Permits, NEW n, \A p \in P : n[p] \in Int
  PROVE  IsFiniteSet(UNION {{p} \X (1..n[p]) : p \in P})
<1> DEFINE Column(p) == {p} \X (1..n[p])
           T == {Column(p) : p \in P}
           f == [p \in P |-> Column(p)]
<1>1. IsFiniteSet(P)
  BY PermitsAssumption, FS_Subset
<1>2. f \in Surjection(P, T)
  BY DEF Surjection
<1>3. IsFiniteSet(T)
  <2> HIDE DEF f, T
  <2> QED BY <1>1, <1>2, FS_Surjection
<1>4. \A C \in T : IsFiniteSet(C)
  <2> SUFFICES ASSUME NEW p \in P PROVE IsFiniteSet(Column(p))
    OBVIOUS
  <2>1. n[p] \in Int
    OBVIOUS
  <2>2. IsFiniteSet({p})
    BY FS_Singleton
  <2>3. IsFiniteSet(1..n[p])
    BY <2>1, FS_Interval
  <2> QED BY <2>2, <2>3, FS_Product
<1>5. IsFiniteSet(UNION T)
  <2> HIDE DEF T
  <2> QED BY <1>3, <1>4, FS_UNION
<1> QED
  BY <1>5

\* What the SUM of process_single_permit counts is finite.
LEMMA UnitsFinite ==
  ASSUME row \in [Permits -> PermitRows], NEW P \in SUBSET Permits
  PROVE  /\ IsFiniteSet(Units(P)) /\ Cardinality(Units(P)) \in Nat
         /\ IsFiniteSet(Credits(P)) /\ Cardinality(Credits(P)) \in Nat
         /\ SumApproved(P) \in Int
<1> DEFINE n == [p \in P |-> row[p].amount]
           m == [p \in P |-> -row[p].amount]
<1>1. \A p \in P : n[p] \in Int /\ m[p] \in Int
  BY DEF PermitRows
<1>2. Units(P) = UNION {{p} \X (1..n[p]) : p \in P}
  BY DEF Units
<1>3. Credits(P) = UNION {{p} \X (1..m[p]) : p \in P}
  BY DEF Credits
<1> HIDE DEF n, m
<1>4. IsFiniteSet(UNION {{p} \X (1..n[p]) : p \in P})
  BY <1>1, ColumnsFinite
<1>5. IsFiniteSet(UNION {{p} \X (1..m[p]) : p \in P})
  BY <1>1, ColumnsFinite
<1> QED
  BY <1>2, <1>3, <1>4, <1>5, FS_CardinalityType DEF SumApproved

\* A set of permits has a cardinality.
LEMMA PermitsFinite ==
  ASSUME NEW P \in SUBSET Permits
  PROVE  IsFiniteSet(P) /\ Cardinality(P) \in Nat
BY PermitsAssumption, FS_Subset, FS_CardinalityType

\* Both kinds of request open a transaction for legs of fresh rows.
LEMMA RequestAccepts ==
  ASSUME NEW w \in Workers, RequestPermit(w) \/ RequestPermitGroup(w)
  PROVE  \E P \in SUBSET Permits, require_all \in BOOLEAN :
           \E r \in [P -> Legs] : Accept(w, require_all, r)
<1>1. CASE RequestPermit(w)
  <2>1. PICK p \in Permits, l \in Legs : Accept(w, FALSE, [q \in {p} |-> l])
    BY <1>1 DEF RequestPermit
  <2>2. [q \in {p} |-> l] \in [{p} -> Legs] /\ {p} \in SUBSET Permits
    OBVIOUS
  <2> QED BY <2>1, <2>2
<1>2. CASE RequestPermitGroup(w)
  BY <1>2 DEF RequestPermitGroup
<1> QED BY <1>1, <1>2

\* A handler that returns an error leaves everything well typed.
LEMMA RollbackTyped ==
  ASSUME TypeInv, NEW w \in Workers, Rollback(w)
  PROVE  /\ status' \in [Permits -> PermitStatus]
         /\ tx' \in [Permits -> Workers \cup {None}]
         /\ row' \in [Permits -> PermitRows]
         /\ pc' \in [Workers -> PC]
         /\ request' \in [Workers -> Requests]
         /\ snap' \in [Workers -> Snaps]
         /\ RowsOK'
         /\ pc'[w] = "idle"
         /\ \A v \in Workers \ {w} : pc'[v] = pc[v] /\ snap'[v] = snap[v]
<1> USE NumbersAssumption DEF TypeInv, TypeOK, Rollback
<1>1. status' \in [Permits -> PermitStatus]
  BY DEF PermitStatus
<1>2. tx' \in [Permits -> Workers \cup {None}]
  OBVIOUS
<1>3. row' \in [Permits -> PermitRows]
  BY DEF PermitRows, NoRow
<1>4. pc' \in [Workers -> PC]
  BY DEF PC
<1>5. request' \in [Workers -> Requests]
  BY DEF NoRequest, Requests
<1>6. snap' \in [Workers -> Snaps]
  BY DEF NoSnap, Snaps
<1>7. RowsOK'
  BY DEF RowsOK
<1>8. pc'[w] = "idle" /\ \A v \in Workers \ {w} : pc'[v] = pc[v] /\ snap'[v] = snap[v]
  OBVIOUS
<1> QED BY <1>1, <1>2, <1>3, <1>4, <1>5, <1>6, <1>7, <1>8

\* A leg is a row, and a row stays one when its amount or its leg changes.
LEMMA RowUpdates ==
  /\ Legs \subseteq PermitRows
  /\ \A r \in PermitRows, n \in Int : [r EXCEPT !.amount = n] \in PermitRows
  /\ \A r \in PermitRows : [r EXCEPT !.leg = 0] \in PermitRows
BY NumbersAssumption DEF Legs, PermitRows

\* The same for what a handler has read.
LEMMA SnapUpdates ==
  ASSUME NEW s \in Snaps
  PROVE  /\ \A b \in BOOLEAN : [s EXCEPT !.can_execute = b] \in Snaps
         /\ \A v \in Views : [s EXCEPT !.view = v] \in Snaps
         /\ \A n \in Int : [s EXCEPT !.reserved = n] \in Snaps
         /\ \A n \in Nat : [s EXCEPT !.active_count = n] \in Snaps
BY DEF Snaps

LEMMA TypeInit == Init => TypeInv
<1> SUFFICES ASSUME Init PROVE TypeInv
  OBVIOUS
<1> USE NumbersAssumption DEF Init
<1>1. treasury \in TreasuryRows /\ treasury.current_aum <= MaxAum
  BY DEF TreasuryRows, Health
<1>2. IsContent(content)
  BY ContentsAssumption
<1>3. slot \in [Agents -> SlotStatus] /\ status \in [Permits -> PermitStatus]
  BY DEF SlotStatus, PermitStatus
<1>4. tx \in [Permits -> Workers \cup {None}] /\ row \in [Permits -> PermitRows]
  BY DEF PermitRows, NoRow
<1>5. pc \in [Workers -> PC]
  BY DEF PC
<1>6. request \in [Workers -> Requests]
  BY DEF NoRequest, Requests
<1>7. snap \in [Workers -> Snaps]
  BY DEF NoSnap, Snaps
<1>8. outcome \in [Workers -> Outcomes \cup {None}]
  OBVIOUS
<1>9. /\ revocation \in [Workers -> Revocations]
      /\ outlived \in [halt : SUBSET Permits, revoke : SUBSET Permits]
  BY DEF Revocations, NoRevocation
<1>10. HandlersOK /\ RowsOK
  BY DEF HandlersOK, RowsOK
<1> QED
  BY <1>1, <1>2, <1>3, <1>4, <1>5, <1>6, <1>7, <1>8, <1>9, <1>10 DEF TypeInv, TypeOK

LEMMA TypeStep == TypeInv /\ [Next]_vars => TypeInv'
<1> SUFFICES ASSUME TypeInv, [Next]_vars PROVE TypeInv'
  OBVIOUS
<1> USE NumbersAssumption DEF TypeInv, permitVars, treasuryVars, handlerVars
<1>1. CASE UNCHANGED vars
  BY <1>1 DEF vars, TypeOK, HandlersOK, RowsOK, IsContent, NewAum
<1>2. ASSUME NEW w \in Workers, RequestPermit(w) \/ RequestPermitGroup(w)
      PROVE  TypeInv'
  <2>1. PICK P \in SUBSET Permits, require_all \in BOOLEAN :
          \E r \in [P -> Legs] : Accept(w, require_all, r)
    BY <1>2, RequestAccepts
  <2>2. PICK r \in [P -> Legs] : Accept(w, require_all, r)
    BY <2>1
  <2>3. \A p \in P : r[p] \in PermitRows
    BY RowUpdates
  <2>4. TypeOK'
    <3>1. row' \in [Permits -> PermitRows] /\ tx' \in [Permits -> Workers \cup {None}]
      BY <2>2, <2>3 DEF Accept, TypeOK
    <3>2. /\ request' \in [Workers -> Requests]
          /\ pc' \in [Workers -> PC]
      BY <2>2 DEF Accept, TypeOK, PC, Requests
    <3> QED BY <2>2, <3>1, <3>2 DEF Accept, TypeOK, IsContent
  <2>5. HandlersOK'
    BY <2>2 DEF Accept, TypeOK, HandlersOK, NewAum
  <2>6. RowsOK'
    BY <2>2 DEF Accept, TypeOK, RowsOK, Legs
  <2> QED BY <2>4, <2>5, <2>6
<1>3. ASSUME NEW w \in Workers, NEW p \in Permits, ReadSlot(w, p)
      PROVE  TypeInv'
  <2>1. TypeOK'
    <3>1. snap' \in [Workers -> Snaps]
      BY <1>3, SnapUpdates DEF ReadSlot, TypeOK
    <3>2. pc' \in [Workers -> PC]
      BY <1>3 DEF ReadSlot, TypeOK, PC
    <3> QED BY <1>3, <3>1, <3>2 DEF ReadSlot, TypeOK, IsContent
  <2>2. HandlersOK' /\ RowsOK'
    BY <1>3 DEF ReadSlot, TypeOK, HandlersOK, RowsOK, NewAum
  <2> QED BY <2>1, <2>2
<1>4. ASSUME NEW w \in Workers, NEW p \in Permits, ReadTreasury(w, p)
      PROVE  TypeInv'
  <2> DEFINE pair == <<row[p].agent, row[p].wallet>>
  <2>1. CASE pair \in DOMAIN content.agent_wallet_rules
    <3> DEFINE view == [treasury |-> treasury, rules |-> content.treasury_rules,
                        rule |-> content.agent_wallet_rules[pair]]
    <3>1. view \in Views
      BY <2>1 DEF TypeOK, IsContent, Views
    <3>2. /\ snap' = [snap EXCEPT ![w].view = view]
          /\ pc' = [pc EXCEPT ![w] = "reserved"]
          /\ UNCHANGED <<status, tx, row, request>>
          /\ UNCHANGED <<treasury, content, slot, outcome, revocation, outlived>>
      BY <1>4, <2>1 DEF ReadTreasury
    <3> HIDE DEF view
    <3>3. TypeOK'
      <4>1. snap' \in [Workers -> Snaps]
        BY <3>1, <3>2, SnapUpdates DEF TypeOK
      <4>2. pc' \in [Workers -> PC]
        BY <3>2 DEF TypeOK, PC
      <4> QED BY <3>2, <4>1, <4>2 DEF TypeOK, IsContent
    <3>4. HandlersOK' /\ RowsOK'
      BY <3>1, <3>2 DEF TypeOK, HandlersOK, RowsOK, NewAum
    <3> QED BY <3>3, <3>4
  <2>2. CASE pair \notin DOMAIN content.agent_wallet_rules
    <3>1. /\ Rollback(w)
          /\ UNCHANGED <<treasury, content, slot, outcome, revocation, outlived>>
      BY <1>4, <2>2 DEF ReadTreasury
    <3>2. TypeOK' /\ RowsOK'
      BY <3>1, RollbackTyped DEF TypeOK, IsContent
    <3>3. HandlersOK'
      BY <3>1, RollbackTyped DEF HandlersOK, NewAum
    <3> QED BY <3>2, <3>3
  <2> QED BY <2>1, <2>2
<1>5. ASSUME NEW w \in Workers, NEW p \in Permits, ReadReserved(w, p)
      PROVE  TypeInv'
  <2>1. SumApproved(ActiveFor(row[p].agent, row[p].wallet) \cap VisibleTo(w)) \in Int
    BY UnitsFinite DEF TypeOK, ActiveFor, Active
  <2>2. TypeOK'
    <3>1. snap' \in [Workers -> Snaps]
      BY <1>5, <2>1, SnapUpdates DEF ReadReserved, TypeOK
    <3>2. pc' \in [Workers -> PC]
      BY <1>5, <2>1 DEF ReadReserved, TypeOK, PC
    <3> QED BY <1>5, <2>1, <3>1, <3>2 DEF ReadReserved, TypeOK, IsContent
  <2>3. HandlersOK' /\ RowsOK'
    BY <1>5 DEF ReadReserved, TypeOK, HandlersOK, RowsOK, NewAum
  <2> QED BY <2>2, <2>3
<1>6. ASSUME NEW w \in Workers, NEW p \in Permits, ReadActiveCount(w, p)
      PROVE  TypeInv'
  <2>1. Cardinality(ActiveFor(row[p].agent, row[p].wallet) \cap VisibleTo(w)) \in Nat
    BY PermitsFinite DEF ActiveFor, Active
  <2>2. TypeOK'
    <3>1. snap' \in [Workers -> Snaps]
      BY <1>6, <2>1, SnapUpdates DEF ReadActiveCount, TypeOK
    <3>2. pc' \in [Workers -> PC]
      BY <1>6, <2>1 DEF ReadActiveCount, TypeOK, PC
    <3> QED BY <1>6, <2>1, <3>1, <3>2 DEF ReadActiveCount, TypeOK, IsContent
  <2>3. HandlersOK' /\ RowsOK'
    BY <1>6 DEF ReadActiveCount, TypeOK, HandlersOK, RowsOK, NewAum
  <2> QED BY <2>2, <2>3
<1>7. ASSUME NEW w \in Workers, NEW p \in Permits, Decide(w, p)
      PROVE  TypeInv'
  <2> DEFINE verdict == Decision(w, p, Cardinality(Active \cap VisibleTo(w)))
             last == LastLeg(w)
  <2>1. pc[w] = "decide" /\ snap[w].view \in Views /\ tx[p] = w
    BY <1>7 DEF Decide, AtLeg, HandlersOK
  <2>2. verdict.approved \in BOOLEAN /\ verdict.approved_amount \in Int
    <3>1. row[p].amount \in Int /\ snap[w].reserved \in Int
      BY DEF TypeOK, PermitRows, Snaps
    <3>2. /\ snap[w].view.rule.tier_limit_usd \in Int
          /\ snap[w].view.rule.allocation_pct \in Int
          /\ snap[w].view.treasury.current_aum \in Int
      BY <2>1 DEF Views, WalletRules, TreasuryRows
    <3> QED BY <3>1, <3>2, EngineGrantsInt DEF Decision
  <2>3. last \in BOOLEAN
    BY DEF LastLeg
  <2>4. ~last => request[w].leg + 1 \in 0..MaxLegs
    <3>1. SUFFICES ASSUME NEW q \in Owned(w), ~(row[q].leg <= request[w].leg)
                   PROVE  request[w].leg + 1 \in 0..MaxLegs
      BY DEF LastLeg
    <3>2. row[q].leg \in 0..MaxLegs /\ request[w].leg \in 0..MaxLegs
      BY DEF TypeOK, PermitRows, Requests, Owned
    <3> QED BY <3>1, <3>2
  <2> HIDE DEF verdict, last
  <2>5. /\ status' = [status EXCEPT ![p] = IF verdict.approved THEN "ACTIVE" ELSE "DENIED"]
        /\ row' = [row EXCEPT ![p].amount = verdict.approved_amount]
        /\ snap' = [snap EXCEPT ![w] = NoSnap]
        /\ request' = [request EXCEPT ![w].leg = IF last THEN 0 ELSE @ + 1]
        /\ pc' = [pc EXCEPT ![w] = IF last THEN "commit" ELSE "slot"]
        /\ UNCHANGED <<treasury, content, slot, tx, outcome, revocation, outlived>>
    BY <1>7 DEF Decide, verdict, last
  <2>6. row' \in [Permits -> PermitRows]
    BY <2>2, <2>5, RowUpdates DEF TypeOK
  <2>7. request' \in [Workers -> Requests]
    BY <2>3, <2>4, <2>5 DEF TypeOK, Requests
  <2>8. status' \in [Permits -> PermitStatus] /\ pc' \in [Workers -> PC]
    BY <2>5 DEF TypeOK, PermitStatus, PC
  <2>9. snap' \in [Workers -> Snaps]
    BY <2>5 DEF TypeOK, NoSnap, Snaps
  <2>10. TypeOK'
    BY <2>5, <2>6, <2>7, <2>8, <2>9 DEF TypeOK, IsContent
  <2>11. HandlersOK'
    BY <2>5 DEF TypeOK, HandlersOK, NewAum
  <2>12. RowsOK'
    BY <2>2, <2>5 DEF TypeOK, RowsOK, PermitRows
  <2> QED BY <2>10, <2>11, <2>12
<1>8. ASSUME NEW w \in Workers, Commit(w)
      PROVE  TypeInv'
  <2>1. CASE GroupFails(w)
    <3>1. /\ Rollback(w)
          /\ UNCHANGED <<treasury, content, slot, outcome, revocation, outlived>>
      BY <1>8, <2>1 DEF Commit
    <3>2. TypeOK' /\ RowsOK'
      BY <3>1, RollbackTyped DEF TypeOK, IsContent
    <3>3. HandlersOK'
      BY <3>1, RollbackTyped DEF HandlersOK, NewAum
    <3> QED BY <3>2, <3>3
  <2>2. CASE ~GroupFails(w)
    <3>1. row' \in [Permits -> PermitRows]
      BY <1>8, <2>2, RowUpdates DEF Commit, TypeOK
    <3>2. TypeOK'
      <4>1. NoRequest \in Requests
        BY DEF NoRequest, Requests
      <4>2. request' \in [Workers -> Requests]
        BY <1>8, <2>2, <4>1 DEF Commit, TypeOK
      <4>3. pc' \in [Workers -> PC]
        BY <1>8, <2>2 DEF Commit, TypeOK, PC
      <4> QED BY <1>8, <2>2, <3>1, <4>2, <4>3 DEF Commit, TypeOK, IsContent
    <3>3. HandlersOK'
      BY <1>8, <2>2 DEF Commit, TypeOK, HandlersOK, NewAum
    <3>4. RowsOK'
      BY <1>8, <2>2 DEF Commit, TypeOK, RowsOK, PermitRows
    <3> QED BY <3>2, <3>3, <3>4
  <2> QED BY <2>1, <2>2
<1>9. ASSUME NEW w \in Workers, NEW p \in Permits, NEW pnl \in Pnls,
             ReadOutcome(w, p, pnl)
      PROVE  TypeInv'
  <2> DEFINE o == [permit |-> p, pnl |-> pnl, peak_aum |-> treasury.peak_aum,
                   current_aum |-> treasury.current_aum,
                   max_drawdown_pct |-> content.treasury_rules.max_drawdown_pct]
  <2>1. o \in Outcomes /\ NewAum(o) <= MaxAum
    BY <1>9 DEF ReadOutcome, TypeOK, IsContent, TreasuryRules, TreasuryRows, Outcomes, NewAum
  <2>2. /\ outcome' = [outcome EXCEPT ![w] = o]
        /\ pc' = [pc EXCEPT ![w] = "outcome"]
        /\ UNCHANGED <<treasury, content, slot, permitVars, request, snap, revocation, outlived>>
    BY <1>9 DEF ReadOutcome
  <2> HIDE DEF o
  <2>3. TypeOK'
    BY <2>1, <2>2 DEF TypeOK, IsContent, PC
  <2>4. HandlersOK' /\ RowsOK'
    BY <2>1, <2>2 DEF TypeOK, HandlersOK, RowsOK, NewAum
  <2> QED BY <2>3, <2>4
<1>10. ASSUME NEW w \in Workers, WriteOutcome(w)
       PROVE  TypeInv'
  <2>1. HaltRevokes \in SUBSET Permits /\ ActiveCommitted \in SUBSET Permits
    BY DEF HaltRevokes, ActiveCommitted, Active
  <2>2. revocation' \in [Workers -> Revocations]
    BY <1>10, <2>1 DEF WriteOutcome, TypeOK, Revocations, NoRevocation
  <2>3. TypeOK'
    BY <1>10, <2>2 DEF WriteOutcome, TypeOK, IsContent, PC
  <2>4. HandlersOK' /\ RowsOK'
    BY <1>10 DEF WriteOutcome, TypeOK, HandlersOK, RowsOK, NewAum
  <2> QED BY <2>3, <2>4
<1>11. ASSUME NEW w \in Workers, CommitOutcome(w)
       PROVE  TypeInv'
  <2>1. outcome[w] \in Outcomes /\ NewAum(outcome[w]) <= MaxAum
    BY <1>11 DEF CommitOutcome, HandlersOK
  <2>2. NewAum(outcome[w]) \in Int /\ outcome[w].permit \in Permits
    BY <2>1 DEF Outcomes, NewAum
  <2>3. treasury' \in TreasuryRows /\ treasury'.current_aum <= MaxAum
    BY <1>11, <2>1, <2>2 DEF CommitOutcome, TypeOK, TreasuryRows, Health
  <2>4. status' \in [Permits -> PermitStatus]
    BY <1>11, <2>2 DEF CommitOutcome, TypeOK, StatusAfterRevoking, PermitStatus
  <2>5. ActiveCommitted' \in SUBSET Permits
    BY DEF ActiveCommitted, Active
  <2>6. outlived' \in [halt : SUBSET Permits, revoke : SUBSET Permits]
    BY <1>11, <2>5 DEF CommitOutcome, TypeOK
  <2>7. revocation' \in [Workers -> Revocations]
    BY <1>11 DEF CommitOutcome, TypeOK, Revocations, NoRevocation
  <2>8. TypeOK'
    BY <1>11, <2>3, <2>4, <2>6, <2>7 DEF CommitOutcome, TypeOK, IsContent, PC
  <2>9. HandlersOK' /\ RowsOK'
    BY <1>11 DEF CommitOutcome, TypeOK, HandlersOK, RowsOK, NewAum
  <2> QED BY <2>8, <2>9
<1>12. ASSUME NEW w \in Workers, VerifyWallet(w) \/ ResumeTreasury(w)
       PROVE  TypeInv'
  <2>1. TypeOK'
    BY <1>12 DEF VerifyWallet, ResumeTreasury, TypeOK, IsContent, TreasuryRows, Health
  <2>2. HandlersOK' /\ RowsOK'
    BY <1>12 DEF VerifyWallet, ResumeTreasury, HandlersOK, RowsOK, NewAum
  <2> QED BY <2>1, <2>2
<1>13. ASSUME NEW w \in Workers, NEW c \in Contents, UpdateConstitution(w, c)
       PROVE  TypeInv'
  <2>1. IsContent(content')
    BY <1>13, ContentsAssumption DEF UpdateConstitution
  <2>2. TypeOK'
    BY <1>13, <2>1 DEF UpdateConstitution, TypeOK
  <2>3. HandlersOK' /\ RowsOK'
    BY <1>13 DEF UpdateConstitution, HandlersOK, RowsOK, NewAum
  <2> QED BY <2>2, <2>3
<1>14. ASSUME NEW w \in Workers, NEW a \in Agents, RevokePermits(w, a)
       PROVE  TypeInv'
  <2>1. RevokedWith(a) \in SUBSET Permits /\ ActiveCommitted \in SUBSET Permits
    BY DEF RevokedWith, ActiveCommitted, Active
  <2>2. revocation' \in [Workers -> Revocations]
    BY <1>14, <2>1 DEF RevokePermits, TypeOK, Revocations
  <2>3. TypeOK'
    BY <1>14, <2>2 DEF RevokePermits, TypeOK, IsContent, PC
  <2>4. HandlersOK' /\ RowsOK'
    BY <1>14 DEF RevokePermits, TypeOK, HandlersOK, RowsOK, NewAum
  <2> QED BY <2>3, <2>4
<1>15. ASSUME NEW w \in Workers, CommitRevocation(w)
       PROVE  TypeInv'
  <2>1. revocation[w].agent \in Agents
    BY <1>15 DEF CommitRevocation, HandlersOK
  <2>2. IsContent(content')
    BY <1>15 DEF CommitRevocation, TypeOK, IsContent
  <2>3. slot' \in [Agents -> SlotStatus]
    BY <1>15, <2>1 DEF CommitRevocation, TypeOK, SlotStatus
  <2>4. status' \in [Permits -> PermitStatus]
    BY <1>15 DEF CommitRevocation, TypeOK, StatusAfterRevoking, PermitStatus
  <2>5. outlived' \in [halt : SUBSET Permits, revoke : SUBSET Permits]
    BY <1>15 DEF CommitRevocation, TypeOK
  <2>6. revocation' \in [Workers -> Revocations]
    BY <1>15 DEF CommitRevocation, TypeOK, Revocations, NoRevocation
  <2>7. TypeOK'
    BY <1>15, <2>2, <2>3, <2>4, <2>5, <2>6 DEF CommitRevocation, TypeOK, PC
  <2>8. HandlersOK' /\ RowsOK'
    BY <1>15 DEF CommitRevocation, TypeOK, HandlersOK, RowsOK, NewAum
  <2> QED BY <2>7, <2>8
<1>16. ASSUME NEW w \in Workers, Fail(w)
       PROVE  TypeInv'
  <2>1. Rollback(w) /\ UNCHANGED <<treasury, content, slot, outlived>>
    BY <1>16 DEF Fail
  <2>2. /\ outcome' \in [Workers -> Outcomes \cup {None}]
        /\ revocation' \in [Workers -> Revocations]
    BY <1>16 DEF Fail, TypeOK, Revocations, NoRevocation
  <2>3. TypeOK' /\ RowsOK'
    BY <2>1, <2>2, RollbackTyped DEF TypeOK, IsContent
  <2>4. HandlersOK'
    BY <1>16, <2>1, RollbackTyped DEF Fail, TypeOK, HandlersOK, NewAum
  <2> QED BY <2>3, <2>4
<1>17. ASSUME NEW P \in SUBSET Permits, ExpirePermits(P)
       PROVE  TypeInv'
  <2>1. TypeOK'
    BY <1>17 DEF ExpirePermits, TypeOK, IsContent, PermitStatus
  <2>2. HandlersOK' /\ RowsOK'
    BY <1>17 DEF ExpirePermits, HandlersOK, RowsOK, NewAum
  <2> QED BY <2>1, <2>2
<1>18. ASSUME NEW total \in ResyncTotals, Resync(total)
       PROVE  TypeInv'
  <2>1. total \in Int /\ total <= MaxAum
    OBVIOUS
  <2>2. TypeOK'
    BY <1>18, <2>1 DEF Resync, TypeOK, IsContent, TreasuryRows
  <2>3. HandlersOK' /\ RowsOK'
    BY <1>18 DEF Resync, HandlersOK, RowsOK, NewAum
  <2> QED BY <2>2, <2>3
<1>19. ASSUME NEW a \in Agents, NEW s \in SlotWrites, WriteSlotStatus(a, s)
       PROVE  TypeInv'
  <2>1. TypeOK'
    BY <1>19 DEF WriteSlotStatus, TypeOK, IsContent, SlotStatus
  <2>2. HandlersOK' /\ RowsOK'
    BY <1>19 DEF WriteSlotStatus, HandlersOK, RowsOK, NewAum
  <2> QED BY <2>1, <2>2
<1>20. ASSUME NEW p \in Permits, NEW s \in Settlements, SettleIntent(p, s)
       PROVE  TypeInv'
  <2>1. TypeOK'
    BY <1>20 DEF SettleIntent, TypeOK, IsContent, PermitStatus
  <2>2. HandlersOK' /\ RowsOK'
    BY <1>20 DEF SettleIntent, HandlersOK, RowsOK, NewAum
  <2> QED BY <2>1, <2>2
<1> QED
  BY <1>1, <1>2, <1>3, <1>4, <1>5, <1>6, <1>7, <1>8, <1>9, <1>10, <1>11, <1>12,
     <1>13, <1>14, <1>15, <1>16, <1>17, <1>18, <1>19, <1>20
     DEF Next, Begin, Proceed, Dashboard, Background, IntentEnds

\* Every variable keeps its type, and the AUM its bound.
THEOREM TypeCorrect == Spec => []TypeOK
<1>1. TypeInv => TypeOK
  BY DEF TypeInv
<1> QED BY <1>1, TypeInit, TypeStep, PTL DEF Spec

-----------------------------------------------------------------------------
(* What a step can do to the rows, to a handler, and to the two states that *)
(* end a request.  The invariants below need no more of Next than this.     *)

\* A permit becomes active when a handler decides for it, and the rest of its
\* row does not change then or later.
LEMMA Activation ==
  ASSUME TypeInv, [Next]_vars, NEW p \in Permits, p \in Active'
  PROVE  /\ row'[p].agent = row[p].agent /\ row'[p].wallet = row[p].wallet
         /\ \/ p \in Active
            \/ \E w \in Workers :
                 Decide(w, p) /\ Decision(w, p, Cardinality(Active \cap VisibleTo(w))).approved
<1> USE DEF Active, permitVars, treasuryVars, handlerVars
<1>0. /\ status \in [Permits -> PermitStatus] /\ row \in [Permits -> PermitRows]
      /\ tx \in [Permits -> Workers \cup {None}]
  BY DEF TypeInv, TypeOK
<1>1. CASE UNCHANGED vars
  BY <1>1 DEF vars
<1>2. ASSUME NEW w \in Workers, RequestPermit(w) \/ RequestPermitGroup(w)
      PROVE  row'[p] = row[p] /\ p \in Active
  <2>1. PICK P \in SUBSET Permits, require_all \in BOOLEAN :
          \E r \in [P -> Legs] : Accept(w, require_all, r)
    BY <1>2, RequestAccepts
  <2> QED BY <2>1, <1>0 DEF Accept
<1>3. ASSUME NEW w \in Workers, Rollback(w)
      PROVE  row'[p] = row[p] /\ p \in Active
  BY <1>0, <1>3 DEF Rollback
<1>4. ASSUME NEW w \in Workers, NEW q \in Permits,
             ReadSlot(w, q) \/ ReadTreasury(w, q) \/ ReadReserved(w, q) \/ ReadActiveCount(w, q)
      PROVE  row'[p] = row[p] /\ p \in Active
  BY <1>0, <1>3, <1>4 DEF ReadSlot, ReadTreasury, ReadReserved, ReadActiveCount
<1>5. ASSUME NEW w \in Workers, NEW q \in Permits, Decide(w, q)
      PROVE  /\ row'[p].agent = row[p].agent /\ row'[p].wallet = row[p].wallet
             /\ \/ p \in Active
                \/ p = q /\ Decision(w, p, Cardinality(Active \cap VisibleTo(w))).approved
  <2> DEFINE verdict == Decision(w, q, Cardinality(Active \cap VisibleTo(w)))
  <2>1. /\ status' = [status EXCEPT ![q] = IF verdict.approved THEN "ACTIVE" ELSE "DENIED"]
        /\ row' = [row EXCEPT ![q].amount = verdict.approved_amount]
    BY <1>5 DEF Decide
  <2> HIDE DEF verdict
  <2>2. p \in Active \/ (p = q /\ verdict.approved)
    BY <1>0, <2>1
  <2>3. row'[p].agent = row[p].agent /\ row'[p].wallet = row[p].wallet
    <3>1. CASE p = q
      <4>1. row'[p] = [row[p] EXCEPT !.amount = verdict.approved_amount]
        BY <1>0, <2>1, <3>1
      <4>2. row[p] \in PermitRows
        BY <1>0
      <4> QED BY <4>1, <4>2 DEF PermitRows
    <3>2. CASE p # q
      BY <1>0, <2>1, <3>2
    <3> QED BY <3>1, <3>2
  <2>4. p = q => verdict = Decision(w, p, Cardinality(Active \cap VisibleTo(w)))
    BY DEF verdict
  <2>5. CASE p \in Active
    BY <2>3, <2>5
  <2>6. CASE p = q /\ verdict.approved
    BY <2>3, <2>4, <2>6
  <2> QED BY <2>2, <2>5, <2>6
<1>6. ASSUME NEW w \in Workers, Commit(w)
      PROVE  row'[p].agent = row[p].agent /\ row'[p].wallet = row[p].wallet /\ p \in Active
  BY <1>0, <1>3, <1>6 DEF Commit, PermitRows
<1>7. ASSUME NEW w \in Workers, NEW q \in Permits, NEW pnl \in Pnls, ReadOutcome(w, q, pnl)
      PROVE  row'[p] = row[p] /\ p \in Active
  BY <1>7 DEF ReadOutcome
<1>8. ASSUME NEW w \in Workers, WriteOutcome(w) \/ CommitOutcome(w) \/ CommitRevocation(w)
      PROVE  row'[p] = row[p] /\ p \in Active
  BY <1>0, <1>8 DEF WriteOutcome, CommitOutcome, CommitRevocation, StatusAfterRevoking
<1>9. ASSUME NEW w \in Workers, Dashboard(w)
      PROVE  row'[p] = row[p] /\ p \in Active
  BY <1>9 DEF Dashboard, VerifyWallet, ResumeTreasury, UpdateConstitution, RevokePermits
<1>10. ASSUME Background \/ IntentEnds
       PROVE  row'[p] = row[p] /\ p \in Active
  <2>1. CASE Background
    BY <1>0, <2>1 DEF Background, ExpirePermits, Resync, WriteSlotStatus
  <2>2. CASE IntentEnds
    <3>1. PICK q \in Permits, s \in Settlements : SettleIntent(q, s)
      BY <2>2 DEF IntentEnds
    <3> QED BY <1>0, <3>1, NumbersAssumption DEF SettleIntent
  <2> QED BY <1>10, <2>1, <2>2
<1>11. ASSUME NEW w \in Workers, Fail(w)
       PROVE  row'[p] = row[p] /\ p \in Active
  BY <1>3, <1>11 DEF Fail
<1> QED
  BY <1>1, <1>2, <1>4, <1>5, <1>6, <1>7, <1>8, <1>9, <1>10, <1>11 DEF Next, Begin, Proceed

\* A committed row stays committed, and what its leg gave it does not change.
Settled == {p \in Permits : tx[p] = None /\ status[p] # "NONE"}

LEMMA SettledStays ==
  ASSUME TypeInv, [Next]_vars, NEW p \in Settled
  PROVE  p \in Settled' /\ row'[p] = row[p]
<1> USE WorkersAssumption DEF Settled, permitVars, treasuryVars, handlerVars
<1>0. /\ status \in [Permits -> PermitStatus] /\ row \in [Permits -> PermitRows]
      /\ tx \in [Permits -> Workers \cup {None}]
  BY DEF TypeInv, TypeOK
<1>1. CASE UNCHANGED vars
  BY <1>1 DEF vars
<1>2. ASSUME NEW w \in Workers, RequestPermit(w) \/ RequestPermitGroup(w)
      PROVE  p \in Settled' /\ row'[p] = row[p]
  <2>1. PICK P \in SUBSET Permits, require_all \in BOOLEAN :
          \E r \in [P -> Legs] : Accept(w, require_all, r)
    BY <1>2, RequestAccepts
  <2> QED BY <2>1, <1>0 DEF Accept
<1>3. ASSUME NEW w \in Workers, Rollback(w)
      PROVE  p \in Settled' /\ row'[p] = row[p]
  BY <1>0, <1>3 DEF Rollback
<1>4. ASSUME NEW w \in Workers, NEW q \in Permits,
             ReadSlot(w, q) \/ ReadTreasury(w, q) \/ ReadReserved(w, q) \/ ReadActiveCount(w, q)
      PROVE  p \in Settled' /\ row'[p] = row[p]
  BY <1>0, <1>3, <1>4 DEF ReadSlot, ReadTreasury, ReadReserved, ReadActiveCount
<1>5. ASSUME NEW w \in Workers, NEW q \in Permits, Decide(w, q)
      PROVE  p \in Settled' /\ row'[p] = row[p]
  BY <1>0, <1>5 DEF Decide, AtLeg
<1>6. ASSUME NEW w \in Workers, Commit(w)
      PROVE  p \in Settled' /\ row'[p] = row[p]
  BY <1>0, <1>3, <1>6 DEF Commit
<1>7. ASSUME NEW w \in Workers, NEW q \in Permits, NEW pnl \in Pnls, ReadOutcome(w, q, pnl)
      PROVE  p \in Settled' /\ row'[p] = row[p]
  BY <1>7 DEF ReadOutcome
<1>8. ASSUME NEW w \in Workers, WriteOutcome(w) \/ CommitOutcome(w) \/ CommitRevocation(w)
      PROVE  p \in Settled' /\ row'[p] = row[p]
  BY <1>0, <1>8 DEF WriteOutcome, CommitOutcome, CommitRevocation, StatusAfterRevoking
<1>9. ASSUME NEW w \in Workers, Dashboard(w)
      PROVE  p \in Settled' /\ row'[p] = row[p]
  BY <1>9 DEF Dashboard, VerifyWallet, ResumeTreasury, UpdateConstitution, RevokePermits
<1>10. ASSUME Background \/ IntentEnds
       PROVE  p \in Settled' /\ row'[p] = row[p]
  <2>1. CASE Background
    BY <1>0, <2>1 DEF Background, ExpirePermits, Resync, WriteSlotStatus
  <2>2. CASE IntentEnds
    <3>1. PICK q \in Permits, s \in Settlements : SettleIntent(q, s)
      BY <2>2 DEF IntentEnds
    <3> QED BY <1>0, <3>1, NumbersAssumption DEF SettleIntent
  <2> QED BY <1>10, <2>1, <2>2
<1>11. ASSUME NEW w \in Workers, Fail(w)
       PROVE  p \in Settled' /\ row'[p] = row[p]
  BY <1>3, <1>11 DEF Fail
<1> QED
  BY <1>1, <1>2, <1>4, <1>5, <1>6, <1>7, <1>8, <1>9, <1>10, <1>11 DEF Next, Begin, Proceed

\* Between two steps of its own, a handler and the rows it owns stay as they
\* are.  Of the steps that leave it before its decision on a leg, each of the
\* four reads belongs to one leg.
Rests(w) ==
  /\ pc'[w] = pc[w] /\ snap'[w] = snap[w] /\ request'[w] = request[w]
  /\ \A p \in Permits : /\ tx'[p] = w <=> tx[p] = w
                        /\ tx[p] = w => row'[p] = row[p]

LEMMA HandlerStep ==
  ASSUME TypeInv, [Next]_vars, NEW w \in Workers
  PROVE  \/ Rests(w)
         \/ pc'[w] \notin {"treasury", "reserved", "count", "decide"}
         \/ \E p \in Permits :
              \/ ReadSlot(w, p)
              \/ ReadTreasury(w, p) /\ pc'[w] = "reserved"
              \/ ReadReserved(w, p)
              \/ ReadActiveCount(w, p)
<1> USE WorkersAssumption DEF Rests, permitVars, treasuryVars, handlerVars
<1>0. /\ tx \in [Permits -> Workers \cup {None}]
      /\ pc \in [Workers -> PC] /\ snap \in [Workers -> Snaps]
      /\ request \in [Workers -> Requests] /\ row \in [Permits -> PermitRows]
  BY DEF TypeInv, TypeOK
<1> DEFINE Leaves(v) == pc'[v] \notin {"treasury", "reserved", "count", "decide"}
<1>1. CASE UNCHANGED vars
  BY <1>1 DEF vars
<1>2. ASSUME NEW v \in Workers, RequestPermit(v) \/ RequestPermitGroup(v)
      PROVE  Rests(w) \/ Leaves(w)
  <2>1. PICK P \in SUBSET Permits, require_all \in BOOLEAN :
          \E r \in [P -> Legs] : Accept(v, require_all, r)
    BY <1>2, RequestAccepts
  <2> QED BY <2>1, <1>0 DEF Accept
<1>3. ASSUME NEW v \in Workers, Rollback(v)
      PROVE  Rests(w) \/ Leaves(w)
  BY <1>0, <1>3 DEF Rollback
<1>4. ASSUME NEW v \in Workers, NEW q \in Permits, v # w,
             ReadSlot(v, q) \/ ReadReserved(v, q) \/ ReadActiveCount(v, q)
      PROVE  Rests(w)
  BY <1>0, <1>4 DEF ReadSlot, ReadReserved, ReadActiveCount
<1>5. ASSUME NEW v \in Workers, NEW q \in Permits, ReadTreasury(v, q)
      PROVE  Rests(w) \/ Leaves(w) \/ (v = w /\ pc'[w] = "reserved")
  BY <1>0, <1>3, <1>5 DEF ReadTreasury
<1>6. ASSUME NEW v \in Workers, NEW q \in Permits, Decide(v, q)
      PROVE  Rests(w) \/ Leaves(w)
  <2>1. tx[q] = v
    BY <1>6 DEF Decide, AtLeg
  <2> QED BY <1>0, <1>6, <2>1 DEF Decide
<1>7. ASSUME NEW v \in Workers, Commit(v)
      PROVE  Rests(w) \/ Leaves(w)
  BY <1>0, <1>3, <1>7 DEF Commit
<1>8. ASSUME NEW v \in Workers, NEW q \in Permits, NEW pnl \in Pnls, ReadOutcome(v, q, pnl)
      PROVE  Rests(w) \/ Leaves(w)
  BY <1>0, <1>8 DEF ReadOutcome
<1>9. ASSUME NEW v \in Workers, WriteOutcome(v) \/ CommitOutcome(v) \/ CommitRevocation(v)
      PROVE  Rests(w) \/ Leaves(w)
  BY <1>0, <1>9 DEF WriteOutcome, CommitOutcome, CommitRevocation
<1>10. ASSUME NEW v \in Workers, Dashboard(v)
       PROVE  Rests(w) \/ Leaves(w)
  BY <1>0, <1>10 DEF Dashboard, VerifyWallet, ResumeTreasury, UpdateConstitution, RevokePermits
<1>11. ASSUME Background \/ IntentEnds
       PROVE  Rests(w)
  BY <1>11 DEF Background, ExpirePermits, Resync, WriteSlotStatus,
         IntentEnds, SettleIntent
<1>12. ASSUME NEW v \in Workers, Fail(v)
       PROVE  Rests(w) \/ Leaves(w)
  BY <1>3, <1>12 DEF Fail
<1> QED
  BY <1>1, <1>2, <1>4, <1>5, <1>6, <1>7, <1>8, <1>9, <1>10, <1>11, <1>12 DEF Next, Begin, Proceed

\* A treasury is halted by the commit of an outcome, and by nothing else.
LEMMA HaltStep ==
  ASSUME TypeInv, [Next]_vars, treasury'.health = "HALTED"
  PROVE  \/ treasury.health = "HALTED" /\ outlived'.halt = outlived.halt
         \/ \E w \in Workers : CommitOutcome(w) /\ TriggersHalt(outcome[w])
<1> USE DEF permitVars, treasuryVars, handlerVars
<1>0. /\ treasury \in TreasuryRows
      /\ outlived \in [halt : SUBSET Permits, revoke : SUBSET Permits]
  BY DEF TypeInv, TypeOK
<1> DEFINE Goal == treasury.health = "HALTED" /\ outlived'.halt = outlived.halt
<1>1. CASE UNCHANGED vars
  BY <1>1 DEF vars
<1>2. ASSUME NEW w \in Workers, RequestPermit(w) \/ RequestPermitGroup(w)
      PROVE  Goal
  BY <1>2, RequestAccepts DEF Accept
<1>3. ASSUME NEW w \in Workers, NEW p \in Permits,
             \/ ReadSlot(w, p) \/ ReadTreasury(w, p) \/ ReadReserved(w, p)
             \/ ReadActiveCount(w, p) \/ Decide(w, p)
      PROVE  Goal
  BY <1>3 DEF ReadSlot, ReadTreasury, ReadReserved, ReadActiveCount, Decide
<1>4. ASSUME NEW w \in Workers, Commit(w) \/ WriteOutcome(w) \/ CommitRevocation(w) \/ Fail(w)
      PROVE  Goal
  BY <1>0, <1>4 DEF Commit, WriteOutcome, CommitRevocation, Fail
<1>5. ASSUME NEW w \in Workers, NEW p \in Permits, NEW pnl \in Pnls, ReadOutcome(w, p, pnl)
      PROVE  Goal
  BY <1>5 DEF ReadOutcome
<1>6. ASSUME NEW w \in Workers, CommitOutcome(w)
      PROVE  Goal \/ TriggersHalt(outcome[w])
  BY <1>0, <1>6 DEF CommitOutcome, TreasuryRows
<1>7. ASSUME NEW w \in Workers, Dashboard(w)
      PROVE  Goal
  BY <1>0, <1>7 DEF Dashboard, VerifyWallet, ResumeTreasury, UpdateConstitution,
                    RevokePermits, TreasuryRows
<1>8. ASSUME Background \/ IntentEnds
      PROVE  Goal
  BY <1>0, <1>8 DEF Background, ExpirePermits, Resync, WriteSlotStatus,
         IntentEnds, SettleIntent, TreasuryRows
<1> QED
  BY <1>1, <1>2, <1>3, <1>4, <1>5, <1>6, <1>7, <1>8 DEF Next, Begin, Proceed

\* A slot is revoked by the commit of a revocation, and by nothing else.
LEMMA RevocationStep ==
  ASSUME TypeInv, [Next]_vars, NEW a \in Agents, slot'[a] = "REVOKED"
  PROVE  \/ /\ slot[a] = "REVOKED"
            /\ \A p \in Permits : row[p].agent = a =>
                 (p \in outlived'.revoke <=> p \in outlived.revoke)
         \/ \E w \in Workers : CommitRevocation(w) /\ revocation[w].agent = a
<1> USE DEF permitVars, treasuryVars, handlerVars
<1>0. /\ slot \in [Agents -> SlotStatus]
      /\ outlived \in [halt : SUBSET Permits, revoke : SUBSET Permits]
  BY DEF TypeInv, TypeOK
<1> DEFINE Goal == slot[a] = "REVOKED" /\ outlived'.revoke = outlived.revoke
<1>1. CASE UNCHANGED vars
  BY <1>1 DEF vars
<1>2. ASSUME NEW w \in Workers, RequestPermit(w) \/ RequestPermitGroup(w)
      PROVE  Goal
  BY <1>2, RequestAccepts DEF Accept
<1>3. ASSUME NEW w \in Workers, NEW p \in Permits,
             \/ ReadSlot(w, p) \/ ReadTreasury(w, p) \/ ReadReserved(w, p)
             \/ ReadActiveCount(w, p) \/ Decide(w, p)
      PROVE  Goal
  BY <1>3 DEF ReadSlot, ReadTreasury, ReadReserved, ReadActiveCount, Decide
<1>4. ASSUME NEW w \in Workers, Commit(w) \/ WriteOutcome(w) \/ CommitOutcome(w) \/ Fail(w)
      PROVE  Goal
  BY <1>0, <1>4 DEF Commit, WriteOutcome, CommitOutcome, Fail
<1>5. ASSUME NEW w \in Workers, NEW p \in Permits, NEW pnl \in Pnls, ReadOutcome(w, p, pnl)
      PROVE  Goal
  BY <1>5 DEF ReadOutcome
<1>6. ASSUME NEW w \in Workers, CommitRevocation(w), revocation[w].agent # a
      PROVE  /\ slot[a] = "REVOKED"
             /\ \A p \in Permits : row[p].agent = a =>
                  (p \in outlived'.revoke <=> p \in outlived.revoke)
  BY <1>0, <1>6 DEF CommitRevocation
<1>7. ASSUME NEW w \in Workers, Dashboard(w)
      PROVE  Goal
  BY <1>0, <1>7 DEF Dashboard, VerifyWallet, ResumeTreasury, UpdateConstitution, RevokePermits
<1>8. ASSUME Background \/ IntentEnds
      PROVE  Goal
  BY <1>0, <1>8, NumbersAssumption DEF Background, ExpirePermits, Resync, WriteSlotStatus,
         IntentEnds, SettleIntent
<1> QED
  BY <1>1, <1>2, <1>3, <1>4, <1>5, <1>6, <1>7, <1>8 DEF Next, Begin, Proceed

-----------------------------------------------------------------------------
(* The legs in flight.                                                     *)

RequestPC == {"slot", "treasury", "reserved", "count", "decide", "commit"}

\* Only requests own rows, and a request owns one row per leg.
OpenInv ==
  /\ \A p \in Permits : tx[p] # None => pc[tx[p]] \in RequestPC
  /\ \A p, q \in Permits : tx[p] # None /\ tx[p] = tx[q] /\ row[p].leg = row[q].leg => p = q

\* The numbering of Accept gives every row a leg of its own.
LEMMA DistinctLegs ==
  ASSUME NEW P \in SUBSET Permits, NEW r \in [P -> Legs],
         {r[p].leg : p \in P} = 1..Cardinality(P),
         NEW p \in P, NEW q \in P, r[p].leg = r[q].leg
  PROVE  p = q
<1> DEFINE T == 1..Cardinality(P)
           f == [x \in P |-> r[x].leg]
<1>1. IsFiniteSet(P) /\ Cardinality(P) \in Nat
  BY PermitsFinite
<1>2. Cardinality(T) = Cardinality(P)
  BY <1>1, FS_Interval
<1>3. f \in Surjection(P, T)
  BY DEF Surjection
<1>4. f[p] = f[q]
  OBVIOUS
<1> HIDE DEF f, T
<1>5. f \in Injection(P, T)
  BY <1>1, <1>2, <1>3, FS_SurjSameCardinalityImpliesInj
<1> QED BY <1>4, <1>5 DEF Injection, IsInjective

LEMMA OpenInit == Init => OpenInv
BY DEF Init, OpenInv

\* The rows that the other handlers own are at most their legs.
LEMMA OthersBounded ==
  ASSUME TypeInv, OpenInv, NEW w \in Workers
  PROVE  LET Others == {p \in Permits : tx[p] \in Workers \ {w}}
         IN  IsFiniteSet(Others) /\ Cardinality(Others) <= InFlight
<1> DEFINE Others == {p \in Permits : tx[p] \in Workers \ {w}}
           V == Workers \ {w}
           L == 1..MaxLegs
           f == [p \in Others |-> <<tx[p], row[p].leg>>]
<1>1. IsFiniteSet(V) /\ Cardinality(V) = Cardinality(Workers) - 1
  BY WorkersAssumption, FS_RemoveElement
<1>2. IsFiniteSet(L) /\ Cardinality(L) = MaxLegs
  BY NumbersAssumption, FS_Interval
<1>3. IsFiniteSet(V \X L) /\ Cardinality(V \X L) = Cardinality(V) * Cardinality(L)
  BY <1>1, <1>2, FS_Product
<1>4. f \in Injection(Others, V \X L)
  <2>1. f \in [Others -> V \X L]
    BY WorkersAssumption DEF TypeInv, RowsOK
  <2>2. \A p, q \in Others : f[p] = f[q] => p = q
    BY WorkersAssumption DEF OpenInv
  <2> QED BY <2>1, <2>2 DEF Injection, IsInjective
<1> HIDE DEF f, V, L
<1>5. IsFiniteSet(Others) /\ Cardinality(Others) <= Cardinality(V \X L)
  BY <1>3, <1>4, FS_Injection
<1> QED BY <1>1, <1>2, <1>3, <1>5 DEF InFlight

LEMMA OpenStep == TypeInv /\ OpenInv /\ [Next]_vars => OpenInv'
<1> SUFFICES ASSUME TypeInv, OpenInv, [Next]_vars PROVE OpenInv'
  OBVIOUS
<1> USE WorkersAssumption DEF OpenInv, RequestPC, permitVars, treasuryVars, handlerVars
<1>0. /\ tx \in [Permits -> Workers \cup {None}] /\ pc \in [Workers -> PC]
      /\ row \in [Permits -> PermitRows]
  BY DEF TypeInv, TypeOK
<1>1. CASE UNCHANGED vars
  BY <1>1 DEF vars
<1>2. ASSUME NEW w \in Workers, RequestPermit(w) \/ RequestPermitGroup(w)
      PROVE  OpenInv'
  <2>1. PICK P \in SUBSET Permits, require_all \in BOOLEAN :
          \E r \in [P -> Legs] : Accept(w, require_all, r)
    BY <1>2, RequestAccepts
  <2>2. PICK r \in [P -> Legs] : Accept(w, require_all, r)
    BY <2>1
  <2>3. \A p, q \in P : r[p].leg = r[q].leg => p = q
    BY <2>2, DistinctLegs DEF Accept
  <2>4. \A p \in Permits : tx[p] # w
    BY <2>2 DEF Accept
  <2>5. \A p \in Permits : tx'[p] # None => pc'[tx'[p]] \in RequestPC
    BY <1>0, <2>2 DEF Accept
  <2>6. \A p, q \in Permits :
          tx'[p] # None /\ tx'[p] = tx'[q] /\ row'[p].leg = row'[q].leg => p = q
    BY <1>0, <2>2, <2>3, <2>4 DEF Accept
  <2> QED BY <2>5, <2>6
<1>3. ASSUME NEW w \in Workers, Rollback(w)
      PROVE  OpenInv'
  BY <1>0, <1>3 DEF Rollback
<1>4. ASSUME NEW w \in Workers, NEW p \in Permits,
             ReadSlot(w, p) \/ ReadReserved(w, p) \/ ReadActiveCount(w, p)
      PROVE  OpenInv'
  BY <1>0, <1>4 DEF ReadSlot, ReadReserved, ReadActiveCount
<1>5. ASSUME NEW w \in Workers, NEW p \in Permits, ReadTreasury(w, p)
      PROVE  OpenInv'
  BY <1>0, <1>3, <1>5 DEF ReadTreasury
<1>6. ASSUME NEW w \in Workers, NEW p \in Permits, Decide(w, p)
      PROVE  OpenInv'
  <2> DEFINE verdict == Decision(w, p, Cardinality(Active \cap VisibleTo(w)))
             last == LastLeg(w)
  <2>1. /\ row' = [row EXCEPT ![p].amount = verdict.approved_amount]
        /\ pc' = [pc EXCEPT ![w] = IF last THEN "commit" ELSE "slot"]
        /\ tx' = tx
    BY <1>6 DEF Decide
  <2> HIDE DEF verdict, last
  <2>2. \A q \in Permits : row'[q].leg = row[q].leg
    BY <1>0, <2>1 DEF PermitRows
  <2> QED BY <1>0, <2>1, <2>2
<1>7. ASSUME NEW w \in Workers, Commit(w)
      PROVE  OpenInv'
  BY <1>0, <1>3, <1>7 DEF Commit
<1>8. ASSUME NEW w \in Workers, NEW p \in Permits, NEW pnl \in Pnls, ReadOutcome(w, p, pnl)
      PROVE  OpenInv'
  BY <1>0, <1>8 DEF ReadOutcome
<1>9. ASSUME NEW w \in Workers, WriteOutcome(w) \/ CommitOutcome(w) \/ CommitRevocation(w)
      PROVE  OpenInv'
  BY <1>0, <1>9 DEF WriteOutcome, CommitOutcome, CommitRevocation
<1>10. ASSUME NEW w \in Workers, Dashboard(w)
       PROVE  OpenInv'
  BY <1>0, <1>10 DEF Dashboard, VerifyWallet, ResumeTreasury, UpdateConstitution, RevokePermits
<1>11. ASSUME Background \/ IntentEnds
       PROVE  OpenInv'
  <2>1. UNCHANGED <<tx, row, pc>>
    BY <1>11 DEF Background, ExpirePermits, Resync, WriteSlotStatus, IntentEnds, SettleIntent
  <2> QED BY <2>1 DEF OpenInv
<1>12. ASSUME NEW w \in Workers, Fail(w)
       PROVE  OpenInv'
  BY <1>3, <1>12 DEF Fail
<1> QED
  BY <1>1, <1>2, <1>4, <1>5, <1>6, <1>7, <1>8, <1>9, <1>10, <1>11, <1>12 DEF Next, Begin, Proceed

\* A bound on the permits that a handler sees, on one more, and on what the
\* others have in flight.
LEMMA SeenPlusOthers ==
  ASSUME TypeInv, OpenInv, NEW w \in Workers,
         NEW Seen \in SUBSET Permits, NEW p \in Permits, NEW cap \in Nat,
         Cardinality(Seen) < cap,
         NEW S \in SUBSET Permits,
         \A q \in S : q \in Seen \/ q = p \/ tx[q] \in Workers \ {w}
  PROVE  Cardinality(S) <= cap + InFlight
<1> DEFINE Others == {q \in Permits : tx[q] \in Workers \ {w}}
           Plus == Seen \cup {p}
           All == Plus \cup Others
<1>1. IsFiniteSet(Others) /\ Cardinality(Others) <= InFlight
  BY OthersBounded
<1>2. IsFiniteSet(Seen) /\ Cardinality(Seen) \in Nat
  BY PermitsFinite
<1>3. IsFiniteSet(Plus) /\ Cardinality(Plus) \in Nat /\ Cardinality(Plus) <= cap
  <2>1. /\ IsFiniteSet(Plus)
        /\ Cardinality(Plus) = IF p \in Seen THEN Cardinality(Seen) ELSE Cardinality(Seen) + 1
    BY <1>2, FS_AddElement
  <2> QED BY <1>2, <2>1
<1>4. Cardinality(Others) \in Nat
  BY <1>1, FS_CardinalityType
<1>5. InFlight \in Int
  BY NumbersAssumption, WorkersAssumption, FS_CardinalityType DEF InFlight
<1>6. IsFiniteSet(All) /\ Cardinality(All) <= cap + InFlight
  <2> HIDE DEF Others, Plus
  <2>1. /\ IsFiniteSet(All)
        /\ Cardinality(All) = Cardinality(Plus) + Cardinality(Others) - Cardinality(Plus \cap Others)
    BY <1>1, <1>3, FS_Union
  <2>2. Cardinality(Plus \cap Others) \in Nat
    BY <1>3, FS_Intersection, FS_CardinalityType
  <2> QED BY <1>1, <1>3, <1>4, <1>5, <2>1, <2>2
<1>7. S \in SUBSET All
  OBVIOUS
<1>8. Cardinality(S) <= Cardinality(All) /\ Cardinality(All) \in Nat
  <2> HIDE DEF All
  <2> QED BY <1>6, <1>7, FS_Subset, FS_CardinalityType
<1>9. Cardinality(S) \in Nat
  BY PermitsFinite
<1> HIDE DEF All
<1> QED BY <1>5, <1>6, <1>8, <1>9

\* A smaller set of permits keeps a bound.
LEMMA Shrinks ==
  ASSUME NEW S \in SUBSET Permits, NEW T \in SUBSET Permits, S \subseteq T,
         NEW n \in Int, Cardinality(T) <= n
  PROVE  Cardinality(S) <= n
<1>1. IsFiniteSet(T) /\ Cardinality(T) \in Nat /\ Cardinality(S) \in Nat
  BY PermitsFinite
<1>2. Cardinality(S) <= Cardinality(T)
  BY <1>1, FS_Subset
<1> QED BY <1>1, <1>2

LEMMA InFlightNat == InFlight \in Nat
<1>1. Cardinality(Workers) \in Nat /\ Cardinality(Workers) # 0
  BY WorkersAssumption, FS_CardinalityType, FS_EmptySet
<1>2. \A m, n \in Nat : m * n \in Nat
  OBVIOUS
<1> QED BY <1>1, <1>2, NumbersAssumption DEF InFlight

-----------------------------------------------------------------------------
(* What a handler has read is within the bounds of the constitutions.      *)

BoundsInv ==
  /\ WithinBounds(content)
  /\ \A w \in Workers : pc[w] \in {"reserved", "count", "decide"} =>
       /\ snap[w].view.rule.concurrent_permit_cap <= AgentCap
       /\ snap[w].view.rules.max_concurrent_permits <= TreasuryCap
       /\ snap[w].view.rule.allocation_pct * MaxAum <= Allocation
       /\ snap[w].view.treasury.current_aum <= MaxAum

LEMMA BoundsInit == Init => BoundsInv
BY ContentsAssumption DEF Init, BoundsInv

LEMMA BoundsStep == TypeInv /\ BoundsInv /\ [Next]_vars => BoundsInv'
<1> SUFFICES ASSUME TypeInv, BoundsInv, [Next]_vars PROVE BoundsInv'
  OBVIOUS
<1> USE DEF permitVars, treasuryVars, handlerVars
<1>0. snap \in [Workers -> Snaps] /\ pc \in [Workers -> PC]
  BY DEF TypeInv, TypeOK
<1>1. ASSUME content' # content
      PROVE  \/ \E w \in Workers, c \in Contents : UpdateConstitution(w, c)
             \/ \E w \in Workers : CommitRevocation(w)
  <2>1. ASSUME NEW w \in Workers, RequestPermit(w) \/ RequestPermitGroup(w)
        PROVE  FALSE
    BY <1>1, <2>1, RequestAccepts DEF Accept
  <2>2. ASSUME NEW w \in Workers, NEW p \in Permits,
               \/ ReadSlot(w, p) \/ ReadTreasury(w, p) \/ ReadReserved(w, p)
               \/ ReadActiveCount(w, p) \/ Decide(w, p)
        PROVE  FALSE
    BY <1>1, <2>2 DEF ReadSlot, ReadTreasury, ReadReserved, ReadActiveCount, Decide
  <2>3. ASSUME NEW w \in Workers, Commit(w) \/ WriteOutcome(w) \/ CommitOutcome(w) \/ Fail(w)
        PROVE  FALSE
    BY <1>1, <2>3 DEF Commit, WriteOutcome, CommitOutcome, Fail
  <2>4. ASSUME NEW w \in Workers, NEW p \in Permits, NEW pnl \in Pnls, ReadOutcome(w, p, pnl)
        PROVE  FALSE
    BY <1>1, <2>4 DEF ReadOutcome
  <2>5. ASSUME NEW w \in Workers,
               \/ VerifyWallet(w) \/ ResumeTreasury(w)
               \/ \E a \in Agents : RevokePermits(w, a)
        PROVE  FALSE
    BY <1>1, <2>5 DEF VerifyWallet, ResumeTreasury, RevokePermits
  <2>6. ASSUME Background \/ IntentEnds PROVE FALSE
    BY <1>1, <2>6 DEF Background, ExpirePermits, Resync, WriteSlotStatus,
         IntentEnds, SettleIntent
  <2> QED
    BY <1>1, <2>1, <2>2, <2>3, <2>4, <2>5, <2>6 DEF Next, Begin, Proceed, Dashboard, vars
<1>2. WithinBounds(content')
  <2>1. CASE content' = content
    BY <2>1 DEF BoundsInv
  <2>2. ASSUME NEW w \in Workers, NEW c \in Contents, UpdateConstitution(w, c)
        PROVE  WithinBounds(content')
    BY <2>2, ContentsAssumption DEF UpdateConstitution
  <2>3. ASSUME NEW w \in Workers, CommitRevocation(w)
        PROVE  WithinBounds(content')
    BY <2>3 DEF CommitRevocation, BoundsInv, WithinBounds, TypeInv, TypeOK, IsContent
  <2> QED BY <1>1, <2>1, <2>2, <2>3
<1>3. ASSUME NEW w \in Workers, pc'[w] \in {"reserved", "count", "decide"}
      PROVE  /\ snap'[w].view.rule.concurrent_permit_cap <= AgentCap
             /\ snap'[w].view.rules.max_concurrent_permits <= TreasuryCap
             /\ snap'[w].view.rule.allocation_pct * MaxAum <= Allocation
             /\ snap'[w].view.treasury.current_aum <= MaxAum
  <2>1. CASE Rests(w)
    BY <1>3, <2>1 DEF Rests, BoundsInv
  <2>2. ASSUME NEW p \in Permits, ReadTreasury(w, p), pc'[w] = "reserved"
        PROVE  /\ snap'[w].view.rule.concurrent_permit_cap <= AgentCap
               /\ snap'[w].view.rules.max_concurrent_permits <= TreasuryCap
               /\ snap'[w].view.rule.allocation_pct * MaxAum <= Allocation
               /\ snap'[w].view.treasury.current_aum <= MaxAum
    <3> DEFINE pair == <<row[p].agent, row[p].wallet>>
               view == [treasury |-> treasury, rules |-> content.treasury_rules,
                        rule |-> content.agent_wallet_rules[pair]]
    <3>1. pair \in DOMAIN content.agent_wallet_rules /\ snap'[w].view = view
      BY <1>0, <2>2 DEF ReadTreasury, Rollback, Snaps
    <3> QED BY <3>1 DEF BoundsInv, WithinBounds, TypeInv, TypeOK
  <2>3. ASSUME NEW p \in Permits, ReadReserved(w, p) \/ ReadActiveCount(w, p)
        PROVE  snap'[w].view = snap[w].view /\ pc[w] \in {"reserved", "count"}
    BY <1>0, <2>3 DEF ReadReserved, ReadActiveCount, Snaps
  <2>4. ASSUME NEW p \in Permits, ReadSlot(w, p) PROVE pc'[w] = "treasury"
    BY <1>0, <2>4 DEF ReadSlot
  <2> QED BY <1>3, <2>1, <2>2, <2>3, <2>4, HandlerStep DEF BoundsInv
<1> QED BY <1>2, <1>3 DEF BoundsInv

-----------------------------------------------------------------------------
(* The rows of an open transaction.                                        *)

\* Until its transaction commits, a row has only what its own handler has given
\* it: nothing before the handler has come to its leg, then a grant or a denial.
LegInv(p) ==
  tx[p] # None =>
    \/ status[p] = "NONE"
    \/ /\ status[p] = "ACTIVE" \/ (status[p] = "DENIED" /\ row[p].amount = 0)
       /\ pc[tx[p]] = "commit" \/ row[p].leg < request[tx[p]].leg

\* What others end is committed.
TargetInv(w) ==
  /\ pc[w] \in {"outcome", "written"} => outcome[w].permit \in Settled
  /\ revocation[w].permits \subseteq Settled

LegsInv == (\A p \in Permits : LegInv(p)) /\ (\A w \in Workers : TargetInv(w))

LEMMA LegsInit == Init => LegsInv
BY WorkersAssumption DEF Init, LegsInv, LegInv, TargetInv, NoRevocation

LEMMA TargetStep ==
  ASSUME TypeInv, LegsInv, [Next]_vars, NEW w \in Workers
  PROVE  TargetInv(w)'
<1> USE DEF permitVars, treasuryVars, handlerVars
<1>0. /\ pc \in [Workers -> PC] /\ outcome \in [Workers -> Outcomes \cup {None}]
      /\ revocation \in [Workers -> Revocations] /\ TargetInv(w)
  BY DEF TypeInv, TypeOK, LegsInv
<1>1. Settled \subseteq Settled'
  BY SettledStays
<1> DEFINE Keeps == /\ pc'[w] \in {"outcome", "written"} =>
                         pc[w] \in {"outcome", "written"} /\ outcome'[w] = outcome[w]
                    /\ revocation'[w].permits \in {{}, revocation[w].permits}
<1>2. CASE UNCHANGED vars
  BY <1>0, <1>1, <1>2 DEF vars, TargetInv
<1>3. ASSUME NEW v \in Workers, RequestPermit(v) \/ RequestPermitGroup(v)
      PROVE  Keeps
  BY <1>0, <1>3, RequestAccepts DEF Accept
<1>4. ASSUME NEW v \in Workers, Rollback(v), UNCHANGED <<outcome, revocation>>
      PROVE  Keeps
  BY <1>0, <1>4 DEF Rollback
<1>5. ASSUME NEW v \in Workers, NEW q \in Permits,
             \/ ReadSlot(v, q) \/ ReadTreasury(v, q) \/ ReadReserved(v, q)
             \/ ReadActiveCount(v, q) \/ Decide(v, q)
      PROVE  Keeps
  BY <1>0, <1>4, <1>5
     DEF ReadSlot, ReadTreasury, ReadReserved, ReadActiveCount, Decide
<1>6. ASSUME NEW v \in Workers, Commit(v)
      PROVE  Keeps
  BY <1>0, <1>4, <1>6 DEF Commit
<1>7. ASSUME NEW v \in Workers, CommitOutcome(v) \/ CommitRevocation(v) \/ Fail(v)
      PROVE  Keeps
  BY <1>0, <1>7 DEF CommitOutcome, CommitRevocation, Fail, Rollback, NoRevocation
<1>8. ASSUME NEW v \in Workers,
             VerifyWallet(v) \/ ResumeTreasury(v) \/ \E c \in Contents : UpdateConstitution(v, c)
      PROVE  Keeps
  BY <1>8 DEF VerifyWallet, ResumeTreasury, UpdateConstitution
<1>9. ASSUME Background \/ IntentEnds
      PROVE  Keeps
  <2>1. CASE Background
    <3>1. ASSUME NEW P \in SUBSET Permits, ExpirePermits(P)
          PROVE  Keeps
      BY <3>1 DEF ExpirePermits
    <3>2. ASSUME NEW total \in ResyncTotals, Resync(total)
          PROVE  Keeps
      BY <3>2 DEF Resync
    <3>3. ASSUME NEW a \in Agents, NEW s \in SlotWrites, WriteSlotStatus(a, s)
          PROVE  Keeps
      BY <3>3 DEF WriteSlotStatus
    <3> QED BY <2>1, <3>1, <3>2, <3>3 DEF Background
  <2>2. CASE IntentEnds
    <3>1. PICK q \in Permits, s \in Settlements : SettleIntent(q, s)
      BY <2>2 DEF IntentEnds
    <3> QED BY <3>1 DEF SettleIntent
  <2> QED BY <1>9, <2>1, <2>2
<1>10. ASSUME NEW v \in Workers, NEW q \in Permits, NEW pnl \in Pnls, ReadOutcome(v, q, pnl)
       PROVE  TargetInv(w)'
  <2>1. q \in Settled
    BY <1>10 DEF ReadOutcome, Settled
  <2>2. CASE v = w
    <3>1. outcome'[w].permit = q /\ revocation'[w] = revocation[w]
      BY <1>0, <1>10, <2>2 DEF ReadOutcome
    <3> QED BY <1>0, <1>1, <2>1, <3>1 DEF TargetInv
  <2>3. CASE v # w
    <3>1. Keeps
      BY <1>0, <1>10, <2>3 DEF ReadOutcome
    <3> QED BY <1>0, <1>1, <3>1 DEF TargetInv
  <2> QED BY <2>2, <2>3
<1>11. ASSUME NEW v \in Workers, WriteOutcome(v) \/ \E a \in Agents : RevokePermits(v, a)
       PROVE  TargetInv(w)'
  <2>1. ActiveCommitted \subseteq Settled
    BY DEF ActiveCommitted, Active, Settled
  <2>2. /\ pc'[w] \in {"outcome", "written"} =>
             pc[w] \in {"outcome", "written"} /\ outcome'[w] = outcome[w]
        /\ revocation'[w].permits \subseteq ActiveCommitted
             \/ revocation'[w].permits = revocation[w].permits
    BY <1>0, <1>11 DEF WriteOutcome, RevokePermits, HaltRevokes, RevokedWith, NoRevocation
  <2> QED BY <1>0, <1>1, <2>1, <2>2 DEF TargetInv
<1>12. ASSUME Keeps
       PROVE  TargetInv(w)'
  BY <1>0, <1>1, <1>12 DEF TargetInv
<1> QED
  BY <1>2, <1>3, <1>5, <1>6, <1>7, <1>8, <1>9, <1>10, <1>11, <1>12
     DEF Next, Begin, Proceed, Dashboard

LEMMA OpenLegsStep == TypeInv /\ OpenInv /\ LegsInv /\ [Next]_vars => LegsInv'
<1> SUFFICES ASSUME TypeInv, OpenInv, LegsInv, [Next]_vars, NEW p \in Permits
             PROVE  LegInv(p)'
  BY TargetStep DEF LegsInv
<1> USE WorkersAssumption DEF permitVars, treasuryVars, handlerVars
<1>0. /\ tx \in [Permits -> Workers \cup {None}] /\ pc \in [Workers -> PC]
      /\ row \in [Permits -> PermitRows] /\ request \in [Workers -> Requests]
      /\ status \in [Permits -> PermitStatus] /\ LegInv(p)
      /\ tx[p] # None => tx[p] \in Workers /\ pc[tx[p]] \in RequestPC
  BY DEF TypeInv, TypeOK, LegsInv, OpenInv
<1>1. CASE UNCHANGED vars
  BY <1>0, <1>1 DEF vars, LegInv
<1>2. ASSUME NEW w \in Workers, RequestPermit(w) \/ RequestPermitGroup(w)
      PROVE  LegInv(p)'
  <2>1. PICK P \in SUBSET Permits, require_all \in BOOLEAN :
          \E r \in [P -> Legs] : Accept(w, require_all, r)
    BY <1>2, RequestAccepts
  <2>2. PICK r \in [P -> Legs] : Accept(w, require_all, r)
    BY <2>1
  <2>3. CASE p \in P
    BY <2>2, <2>3 DEF Accept, LegInv
  <2>4. CASE p \notin P
    BY <1>0, <2>2, <2>4 DEF Accept, LegInv, RequestPC
  <2> QED BY <2>3, <2>4
<1>3. ASSUME NEW w \in Workers, Rollback(w)
      PROVE  LegInv(p)'
  BY <1>0, <1>3 DEF Rollback, LegInv
<1>4. ASSUME NEW w \in Workers, NEW q \in Permits,
             ReadSlot(w, q) \/ ReadTreasury(w, q) \/ ReadReserved(w, q) \/ ReadActiveCount(w, q)
      PROVE  LegInv(p)'
  BY <1>0, <1>3, <1>4 DEF ReadSlot, ReadTreasury, ReadReserved, ReadActiveCount, LegInv
<1>5. ASSUME NEW w \in Workers, NEW q \in Permits, Decide(w, q)
      PROVE  LegInv(p)'
  <2> DEFINE verdict == Decision(w, q, Cardinality(Active \cap VisibleTo(w)))
             last == LastLeg(w)
  <2>1. ~verdict.approved => verdict.approved_amount = 0
    BY EngineDenies DEF Decision
  <2>2. /\ status' = [status EXCEPT ![q] = IF verdict.approved THEN "ACTIVE" ELSE "DENIED"]
        /\ row' = [row EXCEPT ![q].amount = verdict.approved_amount]
        /\ request' = [request EXCEPT ![w].leg = IF last THEN 0 ELSE @ + 1]
        /\ pc' = [pc EXCEPT ![w] = IF last THEN "commit" ELSE "slot"]
        /\ tx' = tx /\ tx[q] = w /\ row[q].leg = request[w].leg /\ pc[w] = "decide"
    BY <1>5 DEF Decide, AtLeg
  <2> HIDE DEF verdict, last
  <2>3. row'[p].leg = row[p].leg /\ row[p].leg \in Nat /\ request[w].leg \in Nat
        /\ (p # q => row'[p] = row[p]) /\ row'[q].amount = verdict.approved_amount
    BY <1>0, <2>2, NumbersAssumption DEF PermitRows, Requests
  <2>4. CASE tx[p] = w
    <3>1. pc'[w] = "commit" \/ request'[w].leg = request[w].leg + 1
      BY <1>0, <2>2 DEF Requests
    <3>2. CASE p = q
      BY <1>0, <2>1, <2>2, <2>3, <3>1, <3>2 DEF LegInv
    <3>3. CASE p # q
      BY <1>0, <2>2, <2>3, <2>4, <3>1, <3>3 DEF LegInv
    <3> QED BY <3>2, <3>3
  <2>5. CASE tx[p] # w
    BY <1>0, <2>2, <2>3, <2>5 DEF LegInv
  <2> QED BY <2>4, <2>5
<1>6. ASSUME NEW w \in Workers, Commit(w)
      PROVE  LegInv(p)'
  BY <1>0, <1>3, <1>6 DEF Commit, LegInv
<1>7. ASSUME UNCHANGED <<tx, row, request>>, tx[p] # None => status'[p] = status[p],
             \A w \in Workers : pc[w] \in RequestPC => pc'[w] = pc[w]
      PROVE  LegInv(p)'
  BY <1>0, <1>7 DEF LegInv
<1>8. ASSUME NEW w \in Workers, NEW q \in Permits, NEW pnl \in Pnls, ReadOutcome(w, q, pnl)
      PROVE  LegInv(p)'
  BY <1>0, <1>7, <1>8 DEF ReadOutcome, RequestPC
<1>9. ASSUME NEW w \in Workers, WriteOutcome(w) \/ CommitOutcome(w) \/ CommitRevocation(w)
      PROVE  LegInv(p)'
  <2>1. TargetInv(w)
    BY DEF LegsInv
  <2>2. tx[p] # None => p \notin revocation[w].permits
    BY <2>1 DEF TargetInv, Settled
  <2>3. tx[p] # None /\ CommitOutcome(w) => p # outcome[w].permit
    BY <2>1 DEF TargetInv, Settled, CommitOutcome
  <2> QED BY <1>0, <1>7, <1>9, <2>2, <2>3
          DEF WriteOutcome, CommitOutcome, CommitRevocation, StatusAfterRevoking, RequestPC
<1>10. ASSUME NEW w \in Workers, Dashboard(w)
       PROVE  LegInv(p)'
  BY <1>0, <1>7, <1>10
     DEF Dashboard, VerifyWallet, ResumeTreasury, UpdateConstitution, RevokePermits, RequestPC
<1>11. ASSUME Background \/ IntentEnds
       PROVE  LegInv(p)'
  <2>1. UNCHANGED <<tx, row, request, pc>> /\ (tx[p] # None => status'[p] = status[p])
    <3>1. CASE Background
      <4>1. ASSUME NEW P \in SUBSET Permits, ExpirePermits(P)
            PROVE  /\ UNCHANGED <<tx, row, request, pc>>
                   /\ tx[p] # None => status'[p] = status[p]
        BY <1>0, <4>1 DEF ExpirePermits, Expirable, ActiveCommitted, Active
      <4>2. ASSUME NEW total \in ResyncTotals, Resync(total)
            PROVE  UNCHANGED <<tx, row, request, pc, status>>
        BY <4>2 DEF Resync
      <4>3. ASSUME NEW a \in Agents, NEW s \in SlotWrites, WriteSlotStatus(a, s)
            PROVE  UNCHANGED <<tx, row, request, pc, status>>
        BY <4>3 DEF WriteSlotStatus
      <4> QED BY <3>1, <4>1, <4>2, <4>3 DEF Background
    <3>2. CASE IntentEnds
      <4>1. PICK q \in Permits, s \in Settlements : SettleIntent(q, s)
        BY <3>2 DEF IntentEnds
      <4> QED BY <1>0, <4>1 DEF SettleIntent
    <3> QED BY <1>11, <3>1, <3>2
  <2> QED BY <1>7, <2>1
<1>12. ASSUME NEW w \in Workers, Fail(w)
       PROVE  LegInv(p)'
  BY <1>3, <1>12 DEF Fail
<1> QED
  BY <1>1, <1>2, <1>4, <1>5, <1>6, <1>8, <1>9, <1>10, <1>11, <1>12 DEF Next, Begin, Proceed

-----------------------------------------------------------------------------
(* The caps.                                                               *)

\* What every invariant below rests on.
Base == TypeInv /\ OpenInv /\ BoundsInv /\ LegsInv

LEMMA BaseInit == Init => Base
BY TypeInit, OpenInit, BoundsInit, LegsInit DEF Base

LEMMA BaseStep == Base /\ [Next]_vars => Base'
BY TypeStep, OpenStep, BoundsStep, OpenLegsStep DEF Base

\* What handler w had found when it decides to approve.
LEMMA Approved ==
  ASSUME Base, NEW w \in Workers, NEW p \in Permits, Decide(w, p),
         Decision(w, p, Cardinality(Active \cap VisibleTo(w))).approved
  PROVE  /\ AtLeg(w, p) /\ pc[w] = "decide" /\ tx' = tx
         /\ snap[w].can_execute
         /\ snap[w].view.treasury.health # "HALTED"
         /\ ~(snap[w].active_count >= snap[w].view.rule.concurrent_permit_cap)
         /\ Cardinality(Active \cap VisibleTo(w)) < TreasuryCap
<1>1. AtLeg(w, p) /\ pc[w] = "decide" /\ tx' = tx
  BY DEF Decide
<1>2. /\ snap[w].view.treasury.health # "HALTED"
      /\ snap[w].can_execute
      /\ ~(snap[w].active_count >= snap[w].view.rule.concurrent_permit_cap)
      /\ ~(Cardinality(Active \cap VisibleTo(w)) >= snap[w].view.rules.max_concurrent_permits)
  BY EngineApproves DEF Decision
<1>3. /\ snap[w].view.rules.max_concurrent_permits <= TreasuryCap
      /\ snap[w].view.rules.max_concurrent_permits \in Nat
  BY <1>1 DEF Base, BoundsInv, TypeInv, HandlersOK, Views, TreasuryRules
<1>4. Cardinality(Active \cap VisibleTo(w)) \in Nat
  BY PermitsFinite DEF Active
<1> QED BY <1>1, <1>2, <1>3, <1>4, NumbersAssumption

\* The treasury's cap is inductive given that: its count is read at the decision.
LEMMA TreasuryCapStep ==
  Base /\ TreasuryCapHolds /\ [Next]_vars => TreasuryCapHolds'
<1> SUFFICES ASSUME Base, TreasuryCapHolds, [Next]_vars PROVE TreasuryCapHolds'
  OBVIOUS
<1>0. TypeInv /\ OpenInv
  BY DEF Base
<1>1. CASE Active' \subseteq Active
  <2>1. Active \in SUBSET Permits /\ Active' \in SUBSET Permits
    BY DEF Active
  <2>2. TreasuryCap + InFlight \in Int
    BY InFlightNat, NumbersAssumption
  <2>3. Cardinality(Active') <= TreasuryCap + InFlight
    BY <1>1, <2>1, <2>2, Shrinks DEF TreasuryCapHolds
  <2> QED BY <2>3 DEF TreasuryCapHolds, InFlight
<1>2. ASSUME NEW p \in Active', p \notin Active
      PROVE  TreasuryCapHolds'
  <2>1. PICK w \in Workers :
          Decide(w, p) /\ Decision(w, p, Cardinality(Active \cap VisibleTo(w))).approved
    BY <1>0, <1>2, Activation DEF Active
  <2> DEFINE Seen == Active \cap VisibleTo(w)
  <2>2. Cardinality(Seen) < TreasuryCap
    BY <2>1, <1>2, Approved DEF Active
  <2>3. \A q \in Active' : q \in Active \/ q = p
    BY <2>1, <1>2 DEF Decide, Active, TypeInv, TypeOK
  <2>4. \A q \in Active' : q \in Seen \/ q = p \/ tx[q] \in Workers \ {w}
    BY <2>3, <1>0 DEF VisibleTo, Active, TypeInv, TypeOK
  <2>5. Seen \in SUBSET Permits /\ Active' \in SUBSET Permits /\ p \in Permits
    BY DEF Active
  <2> HIDE DEF Seen
  <2>6. Cardinality(Active') <= TreasuryCap + InFlight
    BY <1>0, <2>2, <2>4, <2>5, SeenPlusOthers, NumbersAssumption
  <2> QED BY <2>6 DEF TreasuryCapHolds, InFlight
<1> QED BY <1>1, <1>2

\* The treasury never has more active permits than its cap and the legs that
\* the other handlers have in flight.
THEOREM TreasuryCapCorrect == Spec => []TreasuryCapHolds
<1>1. Init => TreasuryCapHolds
  <2> SUFFICES ASSUME Init PROVE Cardinality(Active) <= TreasuryCap + InFlight
    BY DEF TreasuryCapHolds
  <2>1. Active = {}
    BY DEF Init, Active
  <2> QED BY <2>1, FS_EmptySet, InFlightNat, NumbersAssumption
<1> QED BY <1>1, BaseInit, BaseStep, TreasuryCapStep, PTL DEF Spec

\* A permit that has ended is never active again.
THEOREM NoReactivationCorrect == Spec => NoReactivation
<1>1. ASSUME TypeInv, [Next]_vars
      PROVE  [\A p \in Permits : status[p] # "NONE" /\ tx[p] = None /\ status[p] # "ACTIVE"
                                   => status'[p] # "ACTIVE"]_vars
  <2> SUFFICES ASSUME NEW p \in Permits, tx[p] = None, status[p] # "ACTIVE", status'[p] = "ACTIVE"
               PROVE  FALSE
    OBVIOUS
  <2>1. PICK w \in Workers : Decide(w, p)
    BY <1>1, Activation DEF Active
  <2> QED BY <2>1, WorkersAssumption DEF Decide, AtLeg
<1> QED BY <1>1, TypeInit, TypeStep, PTL DEF Spec, NoReactivation

\* The permits of agent a on wallet l, and the legs that have been counted and
\* will be approved.
Counted(w, p) ==
  /\ AtLeg(w, p) /\ pc[w] = "decide"
  /\ ~(snap[w].active_count >= snap[w].view.rule.concurrent_permit_cap)

Seats(a, l) ==
  {p \in Permits : /\ row[p].agent = a /\ row[p].wallet = l
                   /\ p \in Active \/ \E w \in Workers : Counted(w, p)}

SeatsBounded ==
  \A a \in Agents, l \in Wallets : Cardinality(Seats(a, l)) <= AgentCap + InFlight

\* A step leaves the seats as they are or fewer, or counts one leg.
LEMMA SeatsStep ==
  ASSUME Base, [Next]_vars, NEW a, NEW l, NEW p \in Seats(a, l)', p \notin Seats(a, l)
  PROVE  \E w \in Workers : ReadActiveCount(w, p) /\ Counted(w, p)'
<1>0. TypeInv /\ OpenInv /\ p \in Permits
  BY DEF Base, Seats
<1>1. CASE p \in Active'
  <2>1. row'[p].agent = row[p].agent /\ row'[p].wallet = row[p].wallet
    BY <1>0, <1>1, Activation
  <2>2. p \notin Active /\ \A w \in Workers : ~Counted(w, p)
    BY <1>0, <2>1 DEF Seats
  <2>3. PICK w \in Workers :
          Decide(w, p) /\ Decision(w, p, Cardinality(Active \cap VisibleTo(w))).approved
    BY <1>0, <1>1, <2>2, Activation
  <2> QED BY <1>0, <2>2, <2>3, Approved DEF Counted
<1>2. CASE p \notin Active'
  <2>1. PICK w \in Workers : Counted(w, p)'
    BY <1>2 DEF Seats
  <2>2. CASE Rests(w)
    <3>1. Counted(w, p) /\ row'[p] = row[p]
      BY <1>0, <2>1, <2>2 DEF Counted, AtLeg, Rests
    <3> QED BY <1>0, <3>1 DEF Seats
  <2>3. ASSUME NEW q \in Permits, ReadActiveCount(w, q)
        PROVE  p = q
    <3>1. AtLeg(w, q) /\ AtLeg(w, p)
      BY <2>1, <2>3 DEF ReadActiveCount, Counted, AtLeg, permitVars
    <3> QED BY <1>0, <3>1, WorkersAssumption DEF AtLeg, OpenInv
  <2>4. ASSUME NEW q \in Permits,
               ReadSlot(w, q) \/ ReadTreasury(w, q) \/ ReadReserved(w, q)
        PROVE  pc'[w] # "decide"
    BY <1>0, <2>4 DEF ReadSlot, ReadTreasury, ReadReserved, Rollback, TypeInv, TypeOK
  <2>5. pc'[w] = "decide"
    BY <2>1 DEF Counted
  <2> QED BY <1>0, <2>1, <2>2, <2>3, <2>4, <2>5, HandlerStep
<1> QED BY <1>1, <1>2

LEMMA SeatsBoundedStep == Base /\ SeatsBounded /\ [Next]_vars => SeatsBounded'
<1> SUFFICES ASSUME Base, SeatsBounded, [Next]_vars, NEW a \in Agents, NEW l \in Wallets
             PROVE  Cardinality(Seats(a, l)') <= AgentCap + InFlight
  BY DEF SeatsBounded, InFlight
<1>0. /\ TypeInv /\ OpenInv
      /\ Seats(a, l) \in SUBSET Permits /\ Seats(a, l)' \in SUBSET Permits
      /\ AgentCap + InFlight \in Int
  BY InFlightNat, NumbersAssumption DEF Base, Seats
<1>1. CASE Seats(a, l)' \subseteq Seats(a, l)
  BY <1>0, <1>1, Shrinks DEF SeatsBounded
<1>2. ASSUME NEW p \in Seats(a, l)', p \notin Seats(a, l)
      PROVE  Cardinality(Seats(a, l)') <= AgentCap + InFlight
  <2>1. PICK w \in Workers : ReadActiveCount(w, p) /\ Counted(w, p)'
    BY <1>2, SeatsStep
  <2>2. p \in Permits /\ row[p].agent = a /\ row[p].wallet = l /\ tx[p] = w
    BY <1>2, <2>1 DEF Seats, ReadActiveCount, AtLeg, permitVars
  <2> DEFINE Seen == ActiveFor(a, l) \cap VisibleTo(w)
  <2>3. Cardinality(Seen) < AgentCap
    <3>1. /\ snap'[w].active_count = Cardinality(Seen)
          /\ snap'[w].view = snap[w].view /\ pc[w] = "count"
      BY <1>0, <2>1, <2>2 DEF ReadActiveCount, TypeInv, TypeOK, Snaps
    <3>2. /\ snap[w].view.rule.concurrent_permit_cap \in Nat
          /\ snap[w].view.rule.concurrent_permit_cap <= AgentCap
      BY <1>0, <3>1 DEF Base, BoundsInv, TypeInv, HandlersOK, Views, WalletRules
    <3>3. Cardinality(Seen) \in Nat
      BY PermitsFinite DEF ActiveFor, Active
    <3>4. ~(snap'[w].active_count >= snap'[w].view.rule.concurrent_permit_cap)
      BY <2>1 DEF Counted
    <3> HIDE DEF Seen
    <3> QED BY <3>1, <3>2, <3>3, <3>4, NumbersAssumption
  <2>4. ASSUME NEW q \in Seats(a, l)'
        PROVE  q \in Seen \/ q = p \/ tx[q] \in Workers \ {w}
    <3>1. q \in Permits /\ row[q].agent = a /\ row[q].wallet = l
      BY <2>1, <2>4 DEF Seats, ReadActiveCount, permitVars
    <3>2. CASE q \in Active'
      BY <1>0, <2>1, <3>1, <3>2
         DEF ReadActiveCount, permitVars, Active, ActiveFor, VisibleTo, TypeInv, TypeOK
    <3>3. ASSUME NEW v \in Workers, Counted(v, q)'
          PROVE  q = p \/ tx[q] \in Workers \ {w}
      <4>1. AtLeg(v, q) /\ AtLeg(w, p)
        BY <2>1, <3>3 DEF ReadActiveCount, Counted, AtLeg, permitVars
      <4>2. CASE v = w
        BY <1>0, <2>2, <3>1, <4>1, <4>2, WorkersAssumption DEF AtLeg, OpenInv
      <4>3. CASE v # w
        BY <4>1, <4>3 DEF AtLeg
      <4> QED BY <4>2, <4>3
    <3> QED BY <2>4, <3>2, <3>3 DEF Seats
  <2>5. Seen \in SUBSET Permits
    BY DEF ActiveFor, Active
  <2> HIDE DEF Seen
  <2> QED BY <1>0, <2>2, <2>3, <2>4, <2>5, SeenPlusOthers, NumbersAssumption
<1> QED BY <1>1, <1>2

\* An agent never has more active permits on a wallet than its cap and the legs
\* that the other handlers have in flight.
THEOREM AgentCapCorrect == Spec => []AgentCapHolds
<1>1. Init => SeatsBounded
  <2> SUFFICES ASSUME Init, NEW a \in Agents, NEW l \in Wallets
               PROVE  Cardinality(Seats(a, l)) <= AgentCap + InFlight
    BY DEF SeatsBounded
  <2>1. Seats(a, l) = {}
    BY WorkersAssumption DEF Init, Seats, Active, Counted
  <2> QED BY <2>1, FS_EmptySet, InFlightNat, NumbersAssumption
<1>2. Base /\ SeatsBounded => AgentCapHolds
  <2> SUFFICES ASSUME SeatsBounded, NEW a \in Agents, NEW l \in Wallets
               PROVE  Cardinality(ActiveFor(a, l)) <= AgentCap + InFlight
    BY DEF AgentCapHolds
  <2>1. ActiveFor(a, l) \subseteq Seats(a, l)
    BY DEF ActiveFor, Active, Seats
  <2>2. ActiveFor(a, l) \in SUBSET Permits /\ Seats(a, l) \in SUBSET Permits
    BY DEF ActiveFor, Active, Seats
  <2>3. AgentCap + InFlight \in Int /\ Cardinality(Seats(a, l)) <= AgentCap + InFlight
    BY InFlightNat, NumbersAssumption DEF SeatsBounded
  <2> QED BY <2>1, <2>2, <2>3, Shrinks
<1> QED BY <1>1, <1>2, BaseInit, BaseStep, SeatsBoundedStep, PTL DEF Spec

-----------------------------------------------------------------------------
(* The allocation.                                                         *)

\* The leg for which handler w knows what is reserved; it may be granted what
\* is left.
Reserving(w, p) == AtLeg(w, p) /\ pc[w] \in {"count", "decide"}

\* The i-th hundredth of permit p is granted, or may be by the handler.
Claimed(p, i) ==
  \/ p \in Active /\ i \in 1..row[p].amount
  \/ \E w \in Workers : Reserving(w, p) /\ i \in 1..(Allocation - snap[w].reserved)

Claims(a, l) ==
  {x \in Permits \X Nat : /\ row[x[1]].agent = a /\ row[x[1]].wallet = l
                          /\ Claimed(x[1], x[2])}

OwnClaims(w, a, l) == {x \in Claims(a, l) : tx[x[1]] = w}

\* What is committed or belongs to a handler of S.
Of(S) == {p \in Permits : tx[p] \in S \cup {None}}
ClaimsOf(S, a, l) == {x \in Claims(a, l) : x[1] \in Of(S)}

\* The allocation, and the room that the negative amounts among them have made.
Bound(S, a, l) == Allocation + Cardinality(Credits(Decided(a, l) \cap Of(S)))

\* Each handler claims no more than the allocation with the room that was made
\* in what it can see.  Together with what is committed, any handlers claim no
\* more than that of their own, once per handler: the others may yet roll back.
ClaimsBounded ==
  \A a \in Agents, l \in Wallets :
    /\ IsFiniteSet(Claims(a, l))
    /\ \A S \in SUBSET Workers :
         Cardinality(ClaimsOf(S, a, l)) <= Cardinality(Workers) * Bound(S, a, l)
    /\ \A w \in Workers : Cardinality(OwnClaims(w, a, l)) <= Bound({w}, a, l)

\* A smaller set keeps a bound.
LEMMA SmallerSet ==
  ASSUME NEW T, IsFiniteSet(T), NEW S \in SUBSET T, NEW n \in Int, Cardinality(T) <= n
  PROVE  IsFiniteSet(S) /\ Cardinality(S) <= n
<1>1. IsFiniteSet(S) /\ Cardinality(S) <= Cardinality(T)
  BY FS_Subset
<1>2. Cardinality(S) \in Nat /\ Cardinality(T) \in Nat
  BY <1>1, FS_CardinalityType
<1> QED BY <1>1, <1>2

\* One part of at most n elements for each element of V.
LEMMA PartsBounded ==
  ASSUME NEW V, IsFiniteSet(V), NEW n \in Nat, NEW part,
         \A v \in V : IsFiniteSet(part[v]) /\ Cardinality(part[v]) <= n
  PROVE  /\ IsFiniteSet(UNION {part[v] : v \in V})
         /\ Cardinality(UNION {part[v] : v \in V}) <= Cardinality(V) * n
<1> DEFINE All == UNION {part[v] : v \in V}
           size(v) == Cardinality(part[v])
           Numbering(v) == Surjection(1..size(v), part[v])
           g == [v \in V |-> CHOOSE h \in Numbering(v) : TRUE]
           D == {d \in V \X (1..n) : d[2] \in 1..size(d[1])}
           f == [d \in D |-> g[d[1]][d[2]]]
<1>1. ASSUME NEW v \in V
      PROVE  /\ g[v] \in [1..size(v) -> part[v]] /\ size(v) \in Nat /\ size(v) <= n
             /\ \A x \in part[v] : \E i \in 1..size(v) : g[v][i] = x
  <2>1. size(v) \in Nat /\ size(v) <= n
    BY FS_CardinalityType
  <2>2. \E h : h \in Bijection(1..size(v), part[v])
    BY FS_CountingElements, FS_NatBijection DEF ExistsBijection
  <2>3. \E h \in Numbering(v) : TRUE
    BY <2>2 DEF Bijection
  <2>4. (CHOOSE h \in Numbering(v) : TRUE) \in Numbering(v)
    BY <2>3
  <2>5. g[v] \in Surjection(1..size(v), part[v])
    BY <2>4
  <2> HIDE DEF g, size, Numbering
  <2> QED BY <2>1, <2>5 DEF Surjection
<1> HIDE DEF g, Numbering
<1>2. f \in Surjection(D, All)
  <2>1. ASSUME NEW d \in D
        PROVE  f[d] \in All
    <3>1. d[1] \in V /\ d[2] \in 1..size(d[1])
      OBVIOUS
    <3>2. PICK v : v = d[1]
      OBVIOUS
    <3>3. g[v] \in [1..size(v) -> part[v]]
      BY <1>1, <3>1, <3>2
    <3>4. g[d[1]][d[2]] \in part[d[1]]
      BY <3>1, <3>2, <3>3
    <3> QED BY <3>1, <3>4
  <2>2. ASSUME NEW x \in All
        PROVE  \E d \in D : f[d] = x
    <3>1. PICK v \in V : x \in part[v]
      OBVIOUS
    <3>2. PICK i \in 1..size(v) : g[v][i] = x
      BY <1>1, <3>1
    <3>3. i \in 1..n
      <4>1. size(v) \in Nat /\ size(v) <= n
        BY <1>1
      <4> HIDE DEF size
      <4> QED BY <3>2, <4>1
    <3>4. <<v, i>> \in D
      BY <3>2, <3>3
    <3>5. f[<<v, i>>] = x
      BY <3>2, <3>4
    <3> QED BY <3>4, <3>5
  <2> HIDE DEF All, D
  <2> QED BY <2>1, <2>2 DEF Surjection
<1> HIDE DEF f
<1>3. IsFiniteSet(1..n) /\ Cardinality(1..n) = n
  BY FS_Interval
<1>4. IsFiniteSet(V \X (1..n)) /\ Cardinality(V \X (1..n)) = Cardinality(V) * n
  BY <1>3, FS_Product
<1>5. D \in SUBSET (V \X (1..n))
  OBVIOUS
<1> HIDE DEF D, All
<1>6. IsFiniteSet(D) /\ Cardinality(D) <= Cardinality(V) * n
  <2>1. Cardinality(V) * n \in Int
    BY FS_CardinalityType
  <2> QED BY <1>4, <1>5, <2>1, SmallerSet
<1>7. IsFiniteSet(All) /\ Cardinality(All) <= Cardinality(D)
  BY <1>2, <1>6, FS_Surjection
<1>8. Cardinality(V) \in Nat /\ Cardinality(D) \in Nat /\ Cardinality(All) \in Nat
  BY <1>6, <1>7, FS_CardinalityType
<1>9. Cardinality(V) * n \in Int
  BY <1>8
<1>10. Cardinality(All) <= Cardinality(V) * n
  BY <1>6, <1>7, <1>8, <1>9
<1> QED BY <1>7, <1>10 DEF All

\* The amount of an active permit is the one its handler has decided on, and
\* an active permit changes hands only by the commit.
LEMMA AmountStep ==
  ASSUME TypeInv, [Next]_vars, NEW p \in Permits, p \in Active'
  PROVE  \/ /\ p \in Active /\ row'[p].amount = row[p].amount
            /\ tx'[p] \in {tx[p], None}
         \/ \E w \in Workers :
              LET verdict == Decision(w, p, Cardinality(Active \cap VisibleTo(w)))
              IN  /\ Decide(w, p) /\ verdict.approved
                  /\ row'[p].amount = verdict.approved_amount
<1> USE DEF Active, permitVars, treasuryVars, handlerVars
<1>0. /\ status \in [Permits -> PermitStatus] /\ row \in [Permits -> PermitRows]
      /\ tx \in [Permits -> Workers \cup {None}]
  BY DEF TypeInv, TypeOK
<1> DEFINE Keeps == /\ p \in Active /\ row'[p].amount = row[p].amount
                    /\ tx'[p] \in {tx[p], None}
<1>1. CASE UNCHANGED vars
  BY <1>1 DEF vars
<1>2. ASSUME NEW w \in Workers, RequestPermit(w) \/ RequestPermitGroup(w)
      PROVE  Keeps
  <2>1. PICK P \in SUBSET Permits, require_all \in BOOLEAN :
          \E r \in [P -> Legs] : Accept(w, require_all, r)
    BY <1>2, RequestAccepts
  <2> QED BY <2>1, <1>0 DEF Accept
<1>3. ASSUME NEW w \in Workers, Rollback(w)
      PROVE  Keeps
  BY <1>0, <1>3 DEF Rollback
<1>4. ASSUME NEW w \in Workers, NEW q \in Permits,
             ReadSlot(w, q) \/ ReadTreasury(w, q) \/ ReadReserved(w, q) \/ ReadActiveCount(w, q)
      PROVE  Keeps
  BY <1>0, <1>3, <1>4 DEF ReadSlot, ReadTreasury, ReadReserved, ReadActiveCount
<1>5. ASSUME NEW w \in Workers, NEW q \in Permits, Decide(w, q), p # q
      PROVE  Keeps
  BY <1>0, <1>5 DEF Decide
<1>6. ASSUME NEW w \in Workers, Decide(w, p)
      PROVE  LET verdict == Decision(w, p, Cardinality(Active \cap VisibleTo(w)))
             IN  verdict.approved /\ row'[p].amount = verdict.approved_amount
  <2> DEFINE verdict == Decision(w, p, Cardinality(Active \cap VisibleTo(w)))
  <2>1. /\ status' = [status EXCEPT ![p] = IF verdict.approved THEN "ACTIVE" ELSE "DENIED"]
        /\ row' = [row EXCEPT ![p].amount = verdict.approved_amount]
    BY <1>6 DEF Decide
  <2> HIDE DEF verdict
  <2>2. row[p] \in PermitRows
    BY <1>0
  <2>3. verdict.approved /\ row'[p].amount = verdict.approved_amount
    BY <1>0, <2>1, <2>2 DEF PermitRows
  <2> QED BY <2>3 DEF verdict
<1>7. ASSUME NEW w \in Workers, Commit(w)
      PROVE  Keeps
  BY <1>0, <1>3, <1>7 DEF Commit, PermitRows
<1>8. ASSUME NEW w \in Workers, NEW q \in Permits, NEW pnl \in Pnls, ReadOutcome(w, q, pnl)
      PROVE  Keeps
  BY <1>8 DEF ReadOutcome
<1>9. ASSUME NEW w \in Workers, WriteOutcome(w) \/ CommitOutcome(w) \/ CommitRevocation(w)
      PROVE  Keeps
  BY <1>0, <1>9 DEF WriteOutcome, CommitOutcome, CommitRevocation, StatusAfterRevoking
<1>10. ASSUME NEW w \in Workers, Dashboard(w)
       PROVE  Keeps
  BY <1>10 DEF Dashboard, VerifyWallet, ResumeTreasury, UpdateConstitution, RevokePermits
<1>11. ASSUME Background \/ IntentEnds
       PROVE  Keeps
  <2>1. CASE Background
    BY <1>0, <2>1 DEF Background, ExpirePermits, Resync, WriteSlotStatus
  <2>2. CASE IntentEnds
    <3>1. PICK q \in Permits, s \in Settlements : SettleIntent(q, s)
      BY <2>2 DEF IntentEnds
    <3> QED BY <1>0, <3>1, NumbersAssumption DEF SettleIntent
  <2> QED BY <1>11, <2>1, <2>2
<1>12. ASSUME NEW w \in Workers, Fail(w)
       PROVE  Keeps
  BY <1>3, <1>12 DEF Fail
<1> QED
  BY <1>1, <1>2, <1>4, <1>5, <1>6, <1>7, <1>8, <1>9, <1>10, <1>11, <1>12
     DEF Next, Begin, Proceed

\* What is approved was claimed.
LEMMA GrantWithin ==
  ASSUME Base, NEW w \in Workers, NEW p \in Permits, Decide(w, p),
         Decision(w, p, Cardinality(Active \cap VisibleTo(w))).approved
  PROVE  LET verdict == Decision(w, p, Cardinality(Active \cap VisibleTo(w)))
         IN  verdict.approved_amount <= Allocation - snap[w].reserved
<1> DEFINE view == snap[w].view
           pct == view.rule.allocation_pct
           aum == view.treasury.current_aum
<1>0. snap \in [Workers -> Snaps] /\ row \in [Permits -> PermitRows]
  BY DEF Base, TypeInv, TypeOK
<1>1. /\ pc[w] = "decide" /\ view \in Views /\ snap[w].reserved \in Int
      /\ row[p].amount \in Int
  BY <1>0 DEF Decide, Base, TypeInv, HandlersOK, Snaps, PermitRows
<1>2. /\ pct \in Nat /\ aum \in Int /\ view.rule.tier_limit_usd \in Nat
      /\ pct * MaxAum <= Allocation /\ aum <= MaxAum
  BY <1>1 DEF Views, WalletRules, TreasuryRows, Base, BoundsInv
<1>3. pct * aum <= pct * MaxAum /\ pct * aum \in Int /\ pct * MaxAum \in Int
  BY <1>2, NumbersAssumption
<1>4. Decision(w, p, Cardinality(Active \cap VisibleTo(w))).approved_amount
        <= pct * aum - snap[w].reserved
  BY <1>1, <1>2, EngineAllocates DEF Decision
<1>5. Decision(w, p, Cardinality(Active \cap VisibleTo(w))).approved_amount \in Int
  BY <1>1, <1>2, EngineGrantsInt DEF Decision
<1> QED BY <1>1, <1>2, <1>3, <1>4, <1>5, NumbersAssumption

\* A step leaves the claims as they are or fewer, and with their owners, but
\* for the one that reads what is reserved.
LEMMA ClaimsStep ==
  ASSUME Base, [Next]_vars, NEW a, NEW l, NEW x \in Claims(a, l)'
  PROVE  \/ x \in Claims(a, l) /\ tx'[x[1]] \in {tx[x[1]], None}
         \/ \E w \in Workers : ReadReserved(w, x[1]) /\ AtLeg(w, x[1])'
<1>0. TypeInv /\ OpenInv /\ x \in Permits \X Nat
  BY DEF Base, Claims
<1>1. PICK p \in Permits, i \in Nat : x = <<p, i>>
  BY <1>0
<1>2. /\ x[1] = p /\ x[2] = i /\ row'[p].agent = a /\ row'[p].wallet = l
      /\ Claimed(p, i)'
  BY <1>1 DEF Claims
<1>3. CASE p \in Active' /\ i \in 1..row'[p].amount
  <2>1. row[p].agent = a /\ row[p].wallet = l
    BY <1>0, <1>2, <1>3, Activation
  <2>2. CASE p \in Active /\ row'[p].amount = row[p].amount /\ tx'[p] \in {tx[p], None}
    BY <1>1, <1>2, <1>3, <2>1, <2>2 DEF Claims, Claimed
  <2>3. ASSUME NEW w \in Workers, Decide(w, p),
               Decision(w, p, Cardinality(Active \cap VisibleTo(w))).approved,
               row'[p].amount =
                 Decision(w, p, Cardinality(Active \cap VisibleTo(w))).approved_amount
        PROVE  x \in Claims(a, l) /\ tx'[p] \in {tx[p], None}
    <3>1. row'[p].amount <= Allocation - snap[w].reserved
      BY <2>3, GrantWithin
    <3>2. row'[p].amount \in Int /\ snap[w].reserved \in Int
      BY <1>0, <1>3, TypeStep DEF TypeInv, TypeOK, PermitRows, Snaps
    <3>3. i \in 1..(Allocation - snap[w].reserved)
      BY <1>3, <3>1, <3>2, NumbersAssumption
    <3>4. Reserving(w, p) /\ tx' = tx
      BY <2>3 DEF Decide, Reserving
    <3> QED BY <1>1, <1>2, <2>1, <3>3, <3>4 DEF Claims, Claimed
  <2> QED BY <1>0, <1>2, <1>3, <2>2, <2>3, AmountStep
<1>4. ASSUME NEW w \in Workers, Reserving(w, p)', i \in 1..(Allocation - snap'[w].reserved)
      PROVE  \/ x \in Claims(a, l) /\ tx'[p] \in {tx[p], None}
             \/ ReadReserved(w, p) /\ AtLeg(w, p)'
  <2>0. pc'[w] \in {"count", "decide"} /\ AtLeg(w, p)'
    BY <1>4 DEF Reserving
  <2>1. CASE Rests(w)
    <3>1. Reserving(w, p) /\ row'[p] = row[p] /\ snap'[w] = snap[w] /\ tx'[p] = tx[p]
      BY <1>4, <2>1 DEF Rests, Reserving, AtLeg
    <3> QED BY <1>1, <1>2, <1>4, <3>1 DEF Claims, Claimed
  <2>2. ASSUME NEW q \in Permits, ReadReserved(w, q) \/ ReadActiveCount(w, q)
        PROVE  p = q /\ UNCHANGED <<tx, row, request>>
    <3>1. AtLeg(w, q) /\ UNCHANGED <<tx, row, request>>
      BY <2>2 DEF ReadReserved, ReadActiveCount, permitVars
    <3> QED BY <1>0, <2>0, <3>1, WorkersAssumption DEF AtLeg, OpenInv
  <2>3. CASE ReadActiveCount(w, p)
    <3>1. pc[w] = "count" /\ AtLeg(w, p) /\ snap'[w].reserved = snap[w].reserved
      BY <1>0, <2>3 DEF ReadActiveCount, TypeInv, TypeOK, Snaps
    <3> QED BY <1>1, <1>2, <1>4, <2>2, <2>3, <3>1 DEF Claims, Claimed, Reserving
  <2>4. ASSUME NEW q \in Permits, ReadSlot(w, q) \/ ReadTreasury(w, q)
        PROVE  pc'[w] \notin {"count", "decide"}
    BY <1>0, <2>4 DEF ReadSlot, ReadTreasury, Rollback, TypeInv, TypeOK
  <2> QED BY <1>0, <2>0, <2>1, <2>2, <2>3, <2>4, HandlerStep
<1> QED BY <1>2, <1>3, <1>4 DEF Claimed

\* What a handler was granted or denied keeps its columns.
Remains(p) ==
  status'[p] # "NONE" /\ row'[p].agent = row[p].agent /\ row'[p].wallet = row[p].wallet
    /\ row'[p].amount = row[p].amount

\* Rows change hands in three ways: a handler takes fresh ones, it publishes
\* those it has, or they are gone with it.
Retains ==
  \A p \in Permits : /\ tx[p] # None => tx'[p] = tx[p]
                     /\ status[p] # "NONE" => Remains(p) /\ tx'[p] = tx[p]
Releases(w) == tx' = [p \in Permits |-> IF tx[p] = w THEN None ELSE tx[p]]
Publishes(w) == Releases(w) /\ \A p \in Permits : status[p] # "NONE" => Remains(p)
RollsBack(w) ==
  /\ Releases(w)
  /\ \A p \in Permits : IF tx[p] = w THEN status'[p] = "NONE"
                        ELSE status[p] # "NONE" => Remains(p)

LEMMA OwnershipStep ==
  ASSUME Base, [Next]_vars
  PROVE  Retains \/ \E w \in Workers : Publishes(w) \/ RollsBack(w)
<1> USE DEF permitVars, treasuryVars, handlerVars
<1>0. /\ status \in [Permits -> PermitStatus] /\ row \in [Permits -> PermitRows]
      /\ tx \in [Permits -> Workers \cup {None}] /\ None \notin Workers
  BY WorkersAssumption DEF Base, TypeInv, TypeOK
<1>1. CASE UNCHANGED vars
  BY <1>1 DEF vars, Retains, Remains
<1>2. ASSUME NEW w \in Workers, RequestPermit(w) \/ RequestPermitGroup(w)
      PROVE  Retains
  <2>1. PICK P \in SUBSET Permits, require_all \in BOOLEAN :
          \E r \in [P -> Legs] : Accept(w, require_all, r)
    BY <1>2, RequestAccepts
  <2> QED BY <1>0, <2>1 DEF Accept, Retains, Remains
<1>3. ASSUME NEW w \in Workers, Rollback(w)
      PROVE  RollsBack(w)
  BY <1>0, <1>3 DEF Rollback, RollsBack, Releases, Remains
<1>4. ASSUME NEW w \in Workers, NEW q \in Permits,
             ReadSlot(w, q) \/ ReadReserved(w, q) \/ ReadActiveCount(w, q)
      PROVE  Retains
  BY <1>4 DEF ReadSlot, ReadReserved, ReadActiveCount, Retains, Remains
<1>5. ASSUME NEW w \in Workers, NEW q \in Permits, ReadTreasury(w, q)
      PROVE  Retains \/ RollsBack(w)
  BY <1>3, <1>5 DEF ReadTreasury, Retains, Remains
<1>6. ASSUME NEW w \in Workers, NEW q \in Permits, Decide(w, q)
      PROVE  Retains
  <2>1. status[q] = "NONE"
    <3>1. /\ LegInv(q) /\ tx[q] = w /\ pc[w] = "decide" /\ row[q].leg = request[w].leg
          /\ row[q].leg \in Int
      BY <1>0, <1>6, NumbersAssumption DEF Base, LegsInv, Decide, AtLeg, PermitRows
    <3> QED BY <1>0, <3>1 DEF LegInv
  <2> QED BY <1>0, <1>6, <2>1 DEF Decide, Retains, Remains
<1>7. ASSUME NEW w \in Workers, Commit(w)
      PROVE  Publishes(w) \/ RollsBack(w)
  <2>1. \A p \in Permits : row[p] \in PermitRows
    BY <1>0
  <2> QED BY <1>0, <1>3, <1>7, <2>1 DEF Commit, Publishes, Releases, Remains, PermitRows
<1>8. ASSUME UNCHANGED <<tx, row>>, \A p \in Permits : status[p] # "NONE" => status'[p] # "NONE"
      PROVE  Retains
  BY <1>8 DEF Retains, Remains
<1>9. ASSUME NEW w \in Workers,
             \/ WriteOutcome(w) \/ CommitOutcome(w) \/ CommitRevocation(w) \/ Dashboard(w)
             \/ \E q \in Permits, pnl \in Pnls : ReadOutcome(w, q, pnl)
      PROVE  Retains
  <2>1. CASE WriteOutcome(w) \/ CommitOutcome(w) \/ CommitRevocation(w)
    BY <1>0, <1>8, <2>1 DEF WriteOutcome, CommitOutcome, CommitRevocation, StatusAfterRevoking
  <2>2. CASE Dashboard(w) \/ \E q \in Permits, pnl \in Pnls : ReadOutcome(w, q, pnl)
    BY <1>8, <2>2 DEF Dashboard, VerifyWallet, ResumeTreasury, UpdateConstitution,
                      RevokePermits, ReadOutcome
  <2> QED BY <1>9, <2>1, <2>2
<1>10. ASSUME Background \/ IntentEnds
       PROVE  Retains
  <2>1. CASE Background
    <3>1. ASSUME NEW P \in SUBSET Permits, ExpirePermits(P)
          PROVE  Retains
      BY <1>0, <1>8, <3>1 DEF ExpirePermits
    <3>2. ASSUME NEW total \in ResyncTotals, Resync(total)
          PROVE  Retains
      BY <1>8, <3>2 DEF Resync
    <3>3. ASSUME NEW a \in Agents, NEW s \in SlotWrites, WriteSlotStatus(a, s)
          PROVE  Retains
      BY <1>8, <3>3 DEF WriteSlotStatus
    <3> QED BY <2>1, <3>1, <3>2, <3>3 DEF Background
  <2>2. CASE IntentEnds
    <3>1. PICK q \in Permits, s \in Settlements : SettleIntent(q, s)
      BY <2>2 DEF IntentEnds
    <3> QED BY <1>0, <1>8, <3>1, NumbersAssumption DEF SettleIntent
  <2> QED BY <1>10, <2>1, <2>2
<1>11. ASSUME NEW w \in Workers, Fail(w)
       PROVE  RollsBack(w)
  BY <1>3, <1>11 DEF Fail
<1> QED
  BY <1>1, <1>2, <1>4, <1>5, <1>6, <1>7, <1>9, <1>10, <1>11 DEF Next, Begin, Proceed

\* What counts for a bound is finite.
LEMMA CreditsFinite ==
  ASSUME TypeInv, NEW S, NEW a, NEW l
  PROVE  /\ Decided(a, l) \cap Of(S) \in SUBSET Permits
         /\ IsFiniteSet(Credits(Decided(a, l) \cap Of(S)))
         /\ Cardinality(Credits(Decided(a, l) \cap Of(S))) \in Nat
         /\ Bound(S, a, l) \in Nat /\ Bound(S, a, l) >= Allocation
<1> DEFINE P == Decided(a, l) \cap Of(S)
<1>1. P \in SUBSET Permits
  BY DEF Decided
<1> HIDE DEF P
<1>2. IsFiniteSet(Credits(P)) /\ Cardinality(Credits(P)) \in Nat
  BY <1>1, UnitsFinite DEF TypeInv, TypeOK
<1> QED BY <1>1, <1>2, NumbersAssumption DEF P, Bound

LEMMA CreditsNext ==
  ASSUME TypeInv', NEW S, NEW a, NEW l
  PROVE  /\ IsFiniteSet(Credits(Decided(a, l) \cap Of(S))')
         /\ Cardinality(Credits(Decided(a, l) \cap Of(S))') \in Nat
         /\ Bound(S, a, l)' \in Nat
<1> DEFINE Q == (Decided(a, l) \cap Of(S))'
           n == [p \in Q |-> -row'[p].amount]
<1>1. Q \in SUBSET Permits
  BY DEF Decided
<1>2. \A p \in Q : n[p] \in Int
  BY <1>1 DEF TypeInv, TypeOK, PermitRows
<1>3. Credits(Decided(a, l) \cap Of(S))' = UNION {{p} \X (1..n[p]) : p \in Q}
  BY DEF Credits
<1> HIDE DEF n, Q
<1>4. IsFiniteSet(UNION {{p} \X (1..n[p]) : p \in Q})
  BY <1>1, <1>2, ColumnsFinite
<1>5. Cardinality(Credits(Decided(a, l) \cap Of(S))') \in Nat
  BY <1>3, <1>4, FS_CardinalityType
<1>6. Bound(S, a, l)' = Allocation + Cardinality(Credits(Decided(a, l) \cap Of(S))')
  BY DEF Bound
<1>7. IsFiniteSet(Credits(Decided(a, l) \cap Of(S))')
  BY <1>3, <1>4
<1>8. Bound(S, a, l)' \in Nat
  BY <1>5, <1>6, NumbersAssumption
<1> QED BY <1>5, <1>7, <1>8

\* Rows that keep their columns keep the room they have made.
LEMMA CreditsGrow ==
  ASSUME TypeInv, TypeInv', NEW S, NEW T, NEW a, NEW l,
         \A p \in Permits : status[p] # "NONE" /\ p \in Of(S) => Remains(p) /\ p \in Of(T)'
  PROVE  Bound(S, a, l) <= Bound(T, a, l)' /\ Bound(T, a, l)' \in Nat
<1>1. ASSUME NEW x \in Credits(Decided(a, l) \cap Of(S))
      PROVE  x \in Credits(Decided(a, l) \cap Of(T))'
  <2>1. PICK p \in Decided(a, l) \cap Of(S) : x \in {p} \X (1..(-row[p].amount))
    BY DEF Credits
  <2>2. p \in (Decided(a, l) \cap Of(T))' /\ row'[p].amount = row[p].amount
    BY <2>1 DEF Decided, Remains, Of
  <2> QED BY <2>1, <2>2 DEF Credits
<1>2. /\ Cardinality(Credits(Decided(a, l) \cap Of(S)))
           <= Cardinality(Credits(Decided(a, l) \cap Of(T))')
  BY <1>1, CreditsNext, FS_Subset
<1> QED BY <1>2, CreditsNext, CreditsFinite, NumbersAssumption DEF Bound

\* What a handler that has just read what is reserved knows of, and its claim,
\* are what it is allowed; the other claims belong to the other handlers.
LEMMA ReadClaims ==
  ASSUME Base, [Next]_vars, NEW w \in Workers, NEW p \in Permits,
         ReadReserved(w, p), NEW a, a = row[p].agent, NEW l, l = row[p].wallet,
         snap'[w].reserved < Allocation
  PROVE  \E Mine : /\ IsFiniteSet(Mine) /\ Cardinality(Mine) <= Bound({w}, a, l)
                   /\ \A x \in Claims(a, l)' :
                        x \in Mine \/ \E u \in Workers \ {w} : x \in OwnClaims(u, a, l)
                   /\ OwnClaims(w, a, l)' \subseteq Mine
<1> DEFINE Seen == ActiveFor(a, l) \cap VisibleTo(w)
           n == Allocation - snap'[w].reserved
           New == {p} \X (1..n)
           Mine == Units(Seen) \cup New
<1>0. /\ TypeInv /\ OpenInv /\ row \in [Permits -> PermitRows]
      /\ tx \in [Permits -> Workers \cup {None}]
      /\ snap \in [Workers -> Snaps]
  BY DEF Base, TypeInv, TypeOK
<1>1. /\ snap'[w].reserved = SumApproved(Seen) /\ pc[w] = "reserved" /\ pc'[w] = "count"
      /\ UNCHANGED <<tx, row, status, request>> /\ AtLeg(w, p)
      /\ \A v \in Workers \ {w} : pc'[v] = pc[v] /\ snap'[v] = snap[v]
  BY <1>0 DEF ReadReserved, permitVars, TypeInv, TypeOK, Snaps
<1>2. /\ IsFiniteSet(Units(Seen)) /\ Cardinality(Units(Seen)) \in Nat
      /\ Cardinality(Credits(Seen)) \in Nat
      /\ n \in Nat
      /\ n = Allocation + Cardinality(Credits(Seen)) - Cardinality(Units(Seen))
      /\ Cardinality(Credits(Seen)) <= Cardinality(Credits(Decided(a, l) \cap Of({w})))
  <2>1. Seen \in SUBSET Permits
    BY DEF ActiveFor, Active
  <2>2. Seen \subseteq Decided(a, l) \cap Of({w})
    BY DEF ActiveFor, Active, Decided, VisibleTo, Of
  <2> HIDE DEF Seen
  <2>3. Credits(Seen) \subseteq Credits(Decided(a, l) \cap Of({w}))
    BY <2>2 DEF Credits
  <2>4. Cardinality(Credits(Seen)) <= Cardinality(Credits(Decided(a, l) \cap Of({w})))
    BY <1>0, <2>3, CreditsFinite, FS_Subset
  <2>5. /\ IsFiniteSet(Units(Seen)) /\ Cardinality(Units(Seen)) \in Nat
        /\ Cardinality(Credits(Seen)) \in Nat
    BY <1>0, <2>1, UnitsFinite
  <2> QED BY <1>1, <2>4, <2>5, NumbersAssumption DEF SumApproved
<1>3. IsFiniteSet(New) /\ Cardinality(New) = n
  <2> HIDE DEF n
  <2>1. IsFiniteSet({p}) /\ Cardinality({p}) = 1
    BY FS_Singleton
  <2>2. IsFiniteSet(1..n) /\ Cardinality(1..n) = n
    <3>1. n \in Nat
      BY <1>2
    <3> QED BY <3>1, FS_Interval
  <2>3. /\ IsFiniteSet({p} \X (1..n))
        /\ Cardinality({p} \X (1..n)) = Cardinality({p}) * Cardinality(1..n)
    BY <2>1, <2>2, FS_Product
  <2> QED BY <1>2, <2>1, <2>2, <2>3
<1>4. IsFiniteSet(Mine) /\ Cardinality(Mine) <= Bound({w}, a, l)
  <2>0. Bound({w}, a, l) >= Allocation + Cardinality(Credits(Seen))
    <3>1. Cardinality(Credits(Decided(a, l) \cap Of({w}))) \in Nat
      BY <1>0, CreditsFinite
    <3> HIDE DEF Seen
    <3> QED BY <1>2, <3>1, NumbersAssumption DEF Bound
  <2>1. /\ IsFiniteSet(Mine)
        /\ Cardinality(Mine)
             = Cardinality(Units(Seen)) + Cardinality(New) - Cardinality(Units(Seen) \cap New)
    <3> HIDE DEF Seen, New
    <3> QED BY <1>2, <1>3, FS_Union
  <2>2. Cardinality(Units(Seen) \cap New) \in Nat
    <3> HIDE DEF Seen, New
    <3> QED BY <1>2, FS_Intersection, FS_CardinalityType
  <2>3. Bound({w}, a, l) \in Nat
    BY <1>0, CreditsFinite
  <2> HIDE DEF Seen, New, n, Mine
  <2> QED BY <1>2, <1>3, <2>0, <2>1, <2>2, <2>3, NumbersAssumption
<1>5. ASSUME NEW x \in Claims(a, l)'
      PROVE  /\ x \in Mine \/ \E u \in Workers \ {w} : x \in OwnClaims(u, a, l)
             /\ tx[x[1]] = w => x \in Mine
  <2>1. PICK q \in Permits, i \in Nat : x = <<q, i>>
    BY DEF Claims
  <2>2. /\ x[1] = q /\ x[2] = i /\ row[q].agent = a /\ row[q].wallet = l
        /\ Claimed(q, i)'
    BY <1>1, <2>1 DEF Claims
  <2>3. CASE q \in Active' /\ i \in 1..row'[q].amount
    <3>1. q \in Active /\ i \in 1..row[q].amount
      BY <1>1, <2>3 DEF Active
    <3>2. CASE q \in VisibleTo(w)
      <4>1. q \in Seen
        BY <2>2, <3>1, <3>2 DEF ActiveFor
      <4>2. x \in Units(Seen)
        BY <2>1, <3>1, <4>1 DEF Units
      <4> QED BY <4>2
    <3>3. CASE q \notin VisibleTo(w)
      <4>1. tx[q] \in Workers \ {w}
        BY <1>0, <3>3 DEF VisibleTo
      <4>2. x \in OwnClaims(tx[q], a, l)
        BY <2>1, <2>2, <3>1 DEF OwnClaims, Claims, Claimed
      <4> QED BY <2>2, <4>1, <4>2
    <3> QED BY <3>2, <3>3
  <2>4. ASSUME NEW v \in Workers, Reserving(v, q)', i \in 1..(Allocation - snap'[v].reserved)
        PROVE  /\ x \in Mine \/ \E u \in Workers \ {w} : x \in OwnClaims(u, a, l)
               /\ tx[x[1]] = w => x \in Mine
    <3>1. AtLeg(v, q)
      BY <1>1, <2>4 DEF Reserving, AtLeg
    <3>2. CASE v = w
      <4>1. q = p
        BY <1>0, <1>1, <3>1, <3>2, WorkersAssumption DEF AtLeg, OpenInv
      <4> QED BY <2>1, <2>4, <3>2, <4>1
    <3>3. CASE v # w
      <4>1. Reserving(v, q) /\ snap'[v] = snap[v] /\ tx[q] = v
        BY <1>1, <2>4, <3>1, <3>3 DEF Reserving, AtLeg
      <4>2. x \in OwnClaims(v, a, l)
        BY <2>1, <2>2, <2>4, <4>1 DEF OwnClaims, Claims, Claimed
      <4> QED BY <2>2, <3>3, <4>1, <4>2
    <3> QED BY <3>2, <3>3
  <2> QED BY <2>2, <2>3, <2>4 DEF Claimed
<1>6. OwnClaims(w, a, l)' \subseteq Mine
  BY <1>1, <1>5 DEF OwnClaims
<1> HIDE DEF Mine
<1> QED BY <1>4, <1>5, <1>6

\* A step that reads nothing new leaves every bound: claims go where the rows
\* go, and with them the room those rows have made.
LEMMA ClaimsKept ==
  ASSUME Base, ClaimsBounded, [Next]_vars, NEW a \in Agents, NEW l \in Wallets,
         NEW S \in SUBSET Workers,
         \A x \in ClaimsOf(S, a, l)' : x \in Claims(a, l) /\ tx'[x[1]] \in {tx[x[1]], None}
  PROVE  /\ IsFiniteSet(ClaimsOf(S, a, l)')
         /\ Cardinality(ClaimsOf(S, a, l)') <= Cardinality(Workers) * Bound(S, a, l)'
<1>0. /\ TypeInv /\ TypeInv' /\ tx \in [Permits -> Workers \cup {None}]
      /\ tx' \in [Permits -> Workers \cup {None}] /\ None \notin Workers
      /\ Cardinality(Workers) \in Nat
  BY TypeStep, WorkersAssumption, FS_CardinalityType DEF Base, TypeInv, TypeOK
<1>1. \E T \in SUBSET Workers :
        /\ \A x \in ClaimsOf(S, a, l)' : x[1] \in Of(T)
        /\ \A p \in Permits : status[p] # "NONE" /\ p \in Of(T) => Remains(p) /\ p \in Of(S)'
  <2>0. \A x \in ClaimsOf(S, a, l)' :
          /\ x[1] \in Permits /\ tx'[x[1]] \in S \cup {None} /\ Claimed(x[1], x[2])'
          /\ tx'[x[1]] \in {tx[x[1]], None}
    BY DEF ClaimsOf, Claims, Of
  <2>1. CASE Retains
    <3>1. \A x \in ClaimsOf(S, a, l)' : x[1] \in Of(S)
      BY <1>0, <2>0, <2>1 DEF Retains, Of
    <3>2. \A p \in Permits : status[p] # "NONE" /\ p \in Of(S) => Remains(p) /\ p \in Of(S)'
      BY <2>1 DEF Retains, Of
    <3> QED BY <3>1, <3>2
  <2>2. ASSUME NEW w \in Workers, Publishes(w)
        PROVE  \E T \in SUBSET Workers :
                 /\ \A x \in ClaimsOf(S, a, l)' : x[1] \in Of(T)
                 /\ \A p \in Permits : status[p] # "NONE" /\ p \in Of(T)
                                         => Remains(p) /\ p \in Of(S)'
    <3>1. S \cup {w} \in SUBSET Workers
      OBVIOUS
    <3>2. \A x \in ClaimsOf(S, a, l)' : x[1] \in Of(S \cup {w})
      BY <1>0, <2>0, <2>2 DEF Publishes, Releases, Of
    <3>3. \A p \in Permits : status[p] # "NONE" /\ p \in Of(S \cup {w})
                               => Remains(p) /\ p \in Of(S)'
      BY <2>2 DEF Publishes, Releases, Of
    <3> QED BY <3>1, <3>2, <3>3
  <2>3. ASSUME NEW w \in Workers, RollsBack(w)
        PROVE  \E T \in SUBSET Workers :
                 /\ \A x \in ClaimsOf(S, a, l)' : x[1] \in Of(T)
                 /\ \A p \in Permits : status[p] # "NONE" /\ p \in Of(T)
                                         => Remains(p) /\ p \in Of(S)'
    <3>1. S \ {w} \in SUBSET Workers
      OBVIOUS
    <3>2. ASSUME NEW x \in ClaimsOf(S, a, l)'
          PROVE  x[1] \in Of(S \ {w})
      <4>1. tx[x[1]] # w
        <5> SUFFICES ASSUME tx[x[1]] = w PROVE FALSE
          OBVIOUS
        <5>1. tx'[x[1]] = None /\ status'[x[1]] = "NONE"
          BY <2>0, <2>3 DEF RollsBack, Releases
        <5> QED BY <1>0, <2>0, <5>1 DEF Claimed, Active, Reserving, AtLeg
      <4> QED BY <1>0, <2>0, <2>3, <4>1 DEF RollsBack, Releases, Of
    <3>3. \A p \in Permits : status[p] # "NONE" /\ p \in Of(S \ {w})
                               => Remains(p) /\ p \in Of(S)'
      BY <1>0, <2>3 DEF RollsBack, Releases, Of
    <3> QED BY <3>1, <3>2, <3>3
  <2> QED BY <2>1, <2>2, <2>3, OwnershipStep
<1>2. PICK T \in SUBSET Workers :
        /\ \A x \in ClaimsOf(S, a, l)' : x[1] \in Of(T)
        /\ \A p \in Permits : status[p] # "NONE" /\ p \in Of(T) => Remains(p) /\ p \in Of(S)'
  BY <1>1
<1>3. Bound(T, a, l) <= Bound(S, a, l)' /\ Bound(S, a, l)' \in Nat /\ Bound(T, a, l) \in Nat
  BY <1>0, <1>2, CreditsGrow, CreditsFinite
<1>4. ClaimsOf(S, a, l)' \in SUBSET ClaimsOf(T, a, l)
  BY <1>2 DEF ClaimsOf
<1>5. IsFiniteSet(ClaimsOf(T, a, l))
  <2>1. IsFiniteSet(Claims(a, l)) /\ ClaimsOf(T, a, l) \in SUBSET Claims(a, l)
    BY DEF ClaimsBounded, ClaimsOf
  <2> QED BY <2>1, FS_Subset
<1>6. Cardinality(Workers) * Bound(T, a, l) <= Cardinality(Workers) * Bound(S, a, l)'
  BY <1>0, <1>3
<1>7. Cardinality(ClaimsOf(T, a, l)) <= Cardinality(Workers) * Bound(S, a, l)'
  <2>1. Cardinality(ClaimsOf(T, a, l)) <= Cardinality(Workers) * Bound(T, a, l)
    BY DEF ClaimsBounded
  <2>2. Cardinality(ClaimsOf(T, a, l)) \in Nat
    BY <1>5, FS_CardinalityType
  <2>3. Cardinality(Workers) * Bound(T, a, l) \in Int
        /\ Cardinality(Workers) * Bound(S, a, l)' \in Int
    BY <1>0, <1>3
  <2> QED BY <1>6, <2>1, <2>2, <2>3
<1>8. Cardinality(Workers) * Bound(S, a, l)' \in Int
  BY <1>0, <1>3
<1> QED BY <1>4, <1>5, <1>7, <1>8, SmallerSet

\* The same for what one handler claims.
LEMMA OwnClaimsKept ==
  ASSUME Base, ClaimsBounded, [Next]_vars, NEW a \in Agents, NEW l \in Wallets,
         NEW u \in Workers,
         \A x \in OwnClaims(u, a, l)' : x \in OwnClaims(u, a, l)
  PROVE  Cardinality(OwnClaims(u, a, l)') <= Bound({u}, a, l)'
<1>0. /\ TypeInv /\ TypeInv' /\ tx \in [Permits -> Workers \cup {None}] /\ None \notin Workers
  BY TypeStep, WorkersAssumption DEF Base, TypeInv, TypeOK
<1>1. \/ \A p \in Permits : tx'[p] # u
      \/ \A p \in Permits : status[p] # "NONE" /\ p \in Of({u}) => Remains(p) /\ p \in Of({u})'
  <2>1. CASE Retains
    BY <2>1 DEF Retains, Of
  <2>2. ASSUME NEW w \in Workers, Publishes(w)
        PROVE  \A p \in Permits : status[p] # "NONE" /\ p \in Of({u}) => Remains(p) /\ p \in Of({u})'
    BY <2>2 DEF Publishes, Releases, Of
  <2>3. ASSUME NEW w \in Workers, RollsBack(w), w # u
        PROVE  \A p \in Permits : status[p] # "NONE" /\ p \in Of({u}) => Remains(p) /\ p \in Of({u})'
    BY <1>0, <2>3 DEF RollsBack, Releases, Of
  <2>4. ASSUME RollsBack(u)
        PROVE  \A p \in Permits : tx'[p] # u
    BY <1>0, <2>4 DEF RollsBack, Releases
  <2> QED BY <2>1, <2>2, <2>3, <2>4, OwnershipStep
<1>2. CASE \A p \in Permits : tx'[p] # u
  <2>1. OwnClaims(u, a, l)' = {}
    BY <1>2 DEF OwnClaims, Claims
  <2>2. Bound({u}, a, l)' \in Nat
    BY <1>0, CreditsNext
  <2> QED BY <2>1, <2>2, FS_EmptySet
<1>3. CASE \A p \in Permits : status[p] # "NONE" /\ p \in Of({u}) => Remains(p) /\ p \in Of({u})'
  <2>1. Bound({u}, a, l) <= Bound({u}, a, l)' /\ Bound({u}, a, l)' \in Nat
        /\ Bound({u}, a, l) \in Nat
    BY <1>0, <1>3, CreditsGrow, CreditsFinite
  <2>2. OwnClaims(u, a, l)' \in SUBSET OwnClaims(u, a, l)
    OBVIOUS
  <2>3. IsFiniteSet(OwnClaims(u, a, l)) /\ Cardinality(OwnClaims(u, a, l)) \in Nat
    <3>1. IsFiniteSet(Claims(a, l)) /\ OwnClaims(u, a, l) \in SUBSET Claims(a, l)
      BY DEF ClaimsBounded, OwnClaims
    <3> QED BY <3>1, FS_Subset, FS_CardinalityType
  <2>4. Cardinality(OwnClaims(u, a, l)) <= Bound({u}, a, l)'
    <3>1. Cardinality(OwnClaims(u, a, l)) <= Bound({u}, a, l)
      BY DEF ClaimsBounded
    <3> QED BY <2>1, <2>3, <3>1
  <2> QED BY <2>1, <2>2, <2>3, <2>4, SmallerSet
<1> QED BY <1>1, <1>2, <1>3

\* More handlers are allowed more.
LEMMA BoundMonotone ==
  ASSUME TypeInv, NEW S, NEW T \in SUBSET S, NEW a, NEW l
  PROVE  Bound(T, a, l) <= Bound(S, a, l)
<1>1. Credits(Decided(a, l) \cap Of(T)) \subseteq Credits(Decided(a, l) \cap Of(S))
  BY DEF Credits, Of
<1>2. /\ Cardinality(Credits(Decided(a, l) \cap Of(T)))
           <= Cardinality(Credits(Decided(a, l) \cap Of(S)))
      /\ Cardinality(Credits(Decided(a, l) \cap Of(T))) \in Nat
      /\ Cardinality(Credits(Decided(a, l) \cap Of(S))) \in Nat
  BY <1>1, CreditsFinite, FS_Subset
<1> QED BY <1>2, NumbersAssumption DEF Bound

LEMMA MoreTimes ==
  ASSUME NEW m \in Nat, NEW n \in Nat, m <= n, NEW k \in Nat
  PROVE  m * k <= n * k /\ m * k \in Nat /\ n * k \in Nat /\ (n - 1) * k = n * k - k
OBVIOUS

LEMMA ClaimsBoundedStep == Base /\ ClaimsBounded /\ [Next]_vars => ClaimsBounded'
<1> SUFFICES ASSUME Base, ClaimsBounded, [Next]_vars, NEW a \in Agents, NEW l \in Wallets
             PROVE  /\ \A S \in SUBSET Workers :
                         /\ IsFiniteSet(ClaimsOf(S, a, l)')
                         /\ Cardinality(ClaimsOf(S, a, l)')
                              <= Cardinality(Workers) * Bound(S, a, l)'
                    /\ \A w \in Workers :
                         Cardinality(OwnClaims(w, a, l)') <= Bound({w}, a, l)'
  <2>1. Base /\ [Next]_vars => tx' \in [Permits -> Workers \cup {None}]
    BY TypeStep DEF Base, TypeInv, TypeOK
  <2>2. Base /\ [Next]_vars =>
          \A a \in Agents, l \in Wallets : ClaimsOf(Workers, a, l)' = Claims(a, l)'
    BY <2>1 DEF ClaimsOf, Claims, Of
  <2> QED BY <2>2 DEF ClaimsBounded
<1> DEFINE Keeps(x) == x \in Claims(a, l) /\ tx'[x[1]] \in {tx[x[1]], None}
           Holds(S) == /\ IsFiniteSet(ClaimsOf(S, a, l)')
                       /\ Cardinality(ClaimsOf(S, a, l)')
                            <= Cardinality(Workers) * Bound(S, a, l)'
           OwnHolds(w) == Cardinality(OwnClaims(w, a, l)') <= Bound({w}, a, l)'
<1>0. /\ TypeInv /\ OpenInv /\ Allocation \in Nat /\ Cardinality(Workers) \in Nat
      /\ tx \in [Permits -> Workers \cup {None}] /\ None \notin Workers
      /\ IsFiniteSet(Claims(a, l))
      /\ \A w \in Workers : /\ IsFiniteSet(OwnClaims(w, a, l))
                            /\ Cardinality(OwnClaims(w, a, l)) <= Bound({w}, a, l)
  <2>1. Cardinality(Workers) \in Nat
    BY WorkersAssumption, FS_CardinalityType
  <2>2. IsFiniteSet(Claims(a, l))
    BY DEF ClaimsBounded
  <2>3. \A w \in Workers : OwnClaims(w, a, l) \in SUBSET Claims(a, l)
    BY DEF OwnClaims
  <2>4. \A w \in Workers : IsFiniteSet(OwnClaims(w, a, l))
    BY <2>2, <2>3, FS_Subset
  <2> QED BY <2>1, <2>2, <2>4, NumbersAssumption, WorkersAssumption
          DEF ClaimsBounded, Base, TypeInv, TypeOK
<1>1. ASSUME NEW w \in Workers, \A x \in OwnClaims(w, a, l)' : Keeps(x)
      PROVE  OwnHolds(w)
  <2>1. \A x \in OwnClaims(w, a, l)' : x \in OwnClaims(w, a, l)
    BY <1>0, <1>1 DEF OwnClaims
  <2> QED BY <2>1, OwnClaimsKept
<1>2. ASSUME NEW S \in SUBSET Workers, \A x \in ClaimsOf(S, a, l)' : Keeps(x)
      PROVE  Holds(S)
  BY <1>2, ClaimsKept
<1>3. CASE \A x \in Claims(a, l)' : Keeps(x)
  <2>1. \A w \in Workers : OwnHolds(w)
    BY <1>1, <1>3 DEF OwnClaims
  <2>2. \A S \in SUBSET Workers : Holds(S)
    BY <1>2, <1>3 DEF ClaimsOf
  <2> QED BY <2>1, <2>2
<1>4. ASSUME NEW y \in Claims(a, l)', ~Keeps(y)
      PROVE  (\A S \in SUBSET Workers : Holds(S)) /\ (\A w \in Workers : OwnHolds(w))
  <2>1. PICK w \in Workers, p \in Permits : ReadReserved(w, p) /\ p = y[1]
    BY <1>4, ClaimsStep DEF Claims
  <2>2. /\ a = row[p].agent /\ l = row[p].wallet /\ tx' = tx /\ row' = row /\ status' = status
        /\ AtLeg(w, p)
        /\ \A v \in Workers \ {w} : pc'[v] = pc[v] /\ snap'[v] = snap[v]
        /\ request' = request
    BY <1>0, <1>4, <2>1 DEF Claims, ReadReserved, permitVars, TypeInv, TypeOK
  <2>3. snap'[w].reserved < Allocation
    <3>1. PICK i \in Nat : y = <<p, i>>
      BY <1>4, <2>1 DEF Claims
    <3>2. Claimed(p, i)' /\ ~Claimed(p, i)
      BY <1>4, <2>2, <3>1 DEF Claims
    <3>3. PICK v \in Workers : Reserving(v, p)' /\ i \in 1..(Allocation - snap'[v].reserved)
                               /\ ~(Reserving(v, p) /\ i \in 1..(Allocation - snap[v].reserved))
      BY <2>2, <3>2 DEF Claimed, Active
    <3>4. v = w
      BY <2>2, <3>3 DEF Reserving, AtLeg
    <3>5. snap'[w].reserved \in Int
      BY <1>0, TypeStep DEF TypeInv, TypeOK, Snaps
    <3> QED BY <1>0, <3>3, <3>4, <3>5
  <2>4. PICK Mine :
          /\ IsFiniteSet(Mine) /\ Cardinality(Mine) <= Bound({w}, a, l)
          /\ \A x \in Claims(a, l)' :
               x \in Mine \/ \E u \in Workers \ {w} : x \in OwnClaims(u, a, l)
          /\ OwnClaims(w, a, l)' \subseteq Mine
    BY <2>1, <2>2, <2>3, ReadClaims
  <2>5. \A S : Bound(S, a, l)' = Bound(S, a, l) /\ Bound(S, a, l) \in Nat
    <3>1. \A S : (Decided(a, l) \cap Of(S))' = Decided(a, l) \cap Of(S)
      BY <2>2 DEF Decided, Of
    <3>2. \A S : Credits(Decided(a, l) \cap Of(S))' = Credits(Decided(a, l) \cap Of(S))
      BY <2>2, <3>1 DEF Credits
    <3> QED BY <1>0, <3>2, CreditsFinite DEF Bound
  <2>6. ASSUME NEW x \in Claims(a, l)', tx[x[1]] # w
        PROVE  Keeps(x)
    <3>1. x[1] \in Permits
      BY DEF Claims
    <3>2. ASSUME NEW u \in Workers, ReadReserved(u, x[1])
          PROVE  u = w
      <4>1. pc'[u] # pc[u]
        BY <1>0, <3>2 DEF ReadReserved, TypeInv, TypeOK
      <4> QED BY <2>2, <4>1
    <3>3. ~ReadReserved(w, x[1])
      BY <2>6 DEF ReadReserved, AtLeg
    <3> QED BY <3>1, <3>2, <3>3, ClaimsStep
  <2>7. ASSUME NEW v \in Workers
        PROVE  OwnHolds(v)
    <3>1. CASE v = w
      BY <2>4, <2>5, <3>1, SmallerSet
    <3>2. CASE v # w
      BY <1>1, <2>2, <2>6, <3>2 DEF OwnClaims
    <3> QED BY <3>1, <3>2
  <2>8. ASSUME NEW S \in SUBSET Workers, w \notin S
        PROVE  Holds(S)
    <3>1. \A x \in ClaimsOf(S, a, l)' : Keeps(x)
      BY <1>0, <2>2, <2>6, <2>8 DEF ClaimsOf, Of
    <3> QED BY <1>2, <3>1
  <2>9. ASSUME NEW S \in SUBSET Workers, w \in S
        PROVE  Holds(S)
    <3> DEFINE V == S \ {w}
               K == Bound(S, a, l)
               part == [u \in V |-> OwnClaims(u, a, l)]
               Others == UNION {part[u] : u \in V}
               All == Mine \cup Others
    <3>1. IsFiniteSet(V) /\ Cardinality(V) \in Nat /\ Cardinality(V) <= Cardinality(Workers) - 1
      <4>1. /\ IsFiniteSet(Workers \ {w})
            /\ Cardinality(Workers \ {w}) = Cardinality(Workers) - 1
        BY WorkersAssumption, FS_RemoveElement
      <4>2. IsFiniteSet(V) /\ Cardinality(V) <= Cardinality(Workers \ {w})
        BY <4>1, FS_Subset
      <4> QED BY <4>1, <4>2, FS_CardinalityType
    <3>2. K \in Nat /\ \A u \in S : Bound({u}, a, l) <= K /\ Bound({u}, a, l) \in Nat
      BY <1>0, <2>5, BoundMonotone
    <3>3. IsFiniteSet(Others) /\ Cardinality(Others) <= Cardinality(V) * K
      <4>1. \A u \in V : IsFiniteSet(part[u]) /\ Cardinality(part[u]) <= K
        <5> SUFFICES ASSUME NEW u \in V
                     PROVE  IsFiniteSet(OwnClaims(u, a, l)) /\ Cardinality(OwnClaims(u, a, l)) <= K
          OBVIOUS
        <5>1. /\ IsFiniteSet(OwnClaims(u, a, l))
              /\ Cardinality(OwnClaims(u, a, l)) <= Bound({u}, a, l)
          BY <1>0
        <5>2. Cardinality(OwnClaims(u, a, l)) \in Nat
          BY <5>1, FS_CardinalityType
        <5> HIDE DEF K
        <5> QED BY <3>2, <5>1, <5>2
      <4> HIDE DEF V, part, K
      <4> QED BY <3>1, <3>2, <4>1, PartsBounded
    <3>4. Cardinality(Mine) \in Nat /\ Cardinality(Mine) <= K
      <4>1. Cardinality(Mine) \in Nat
        BY <2>4, FS_CardinalityType
      <4> QED BY <2>4, <2>9, <3>2, <4>1
    <3>5. IsFiniteSet(All) /\ Cardinality(All) <= Cardinality(Workers) * K
      <4> HIDE DEF V, Others, K
      <4>1. /\ IsFiniteSet(All)
            /\ Cardinality(All)
                 = Cardinality(Mine) + Cardinality(Others) - Cardinality(Mine \cap Others)
        BY <2>4, <3>3, FS_Union
      <4>2. /\ Cardinality(Mine \cap Others) \in Nat
            /\ Cardinality(Others) \in Nat /\ Cardinality(All) \in Nat
        BY <2>4, <3>3, <4>1, FS_Intersection, FS_CardinalityType
      <4>3. Cardinality(Workers) - 1 \in Nat
        BY <1>0, <3>1
      <4>4. /\ Cardinality(V) * K <= (Cardinality(Workers) - 1) * K
            /\ Cardinality(V) * K \in Nat
        BY <3>1, <3>2, <4>3, MoreTimes
      <4>5. /\ (Cardinality(Workers) - 1) * K = Cardinality(Workers) * K - K
            /\ Cardinality(Workers) * K \in Nat
        BY <1>0, <3>2, MoreTimes
      <4> HIDE DEF All
      <4> QED BY <3>2, <3>3, <3>4, <4>1, <4>2, <4>4, <4>5
    <3>6. ClaimsOf(S, a, l)' \in SUBSET All
      <4> SUFFICES ASSUME NEW x \in ClaimsOf(S, a, l)' PROVE x \in All
        OBVIOUS
      <4>1. x \in Claims(a, l)' /\ tx[x[1]] \in S \cup {None}
        BY <2>2 DEF ClaimsOf, Of
      <4>2. CASE x \in Mine
        BY <4>2
      <4>3. ASSUME NEW u \in Workers \ {w}, x \in OwnClaims(u, a, l)
            PROVE  x \in Others
        <5>1. u \in V
          BY <1>0, <4>1, <4>3 DEF OwnClaims
        <5> QED BY <4>3, <5>1
      <4> QED BY <2>4, <4>1, <4>2, <4>3
    <3>7. Cardinality(Workers) * K \in Int
      <4> HIDE DEF K
      <4> QED BY <1>0, <3>2, MoreTimes
    <3> HIDE DEF All
    <3>8. IsFiniteSet(ClaimsOf(S, a, l)')
          /\ Cardinality(ClaimsOf(S, a, l)') <= Cardinality(Workers) * K
      <4> HIDE DEF K
      <4> QED BY <3>5, <3>6, <3>7, SmallerSet
    <3> QED BY <2>5, <3>8
  <2> QED BY <2>7, <2>8, <2>9
<1> QED BY <1>3, <1>4

\* The positive amounts an agent has reserved on a wallet never exceed, once per
\* handler, its allocation and the negative amounts it was ever granted there
\* (rules.rs:31-53, permit.rs:564-573).
THEOREM AllocationCorrect == Spec => []AllocationHolds
<1>1. Init => ClaimsBounded
  <2> SUFFICES ASSUME Init, NEW a \in Agents, NEW l \in Wallets
               PROVE  /\ IsFiniteSet(Claims(a, l))
                      /\ \A S \in SUBSET Workers :
                           Cardinality(ClaimsOf(S, a, l)) <= Cardinality(Workers) * Bound(S, a, l)
                      /\ \A w \in Workers :
                           Cardinality(OwnClaims(w, a, l)) <= Bound({w}, a, l)
    BY DEF ClaimsBounded
  <2>1. Claims(a, l) = {}
    BY WorkersAssumption DEF Init, Claims, Claimed, Active, Reserving
  <2>2. (\A S : ClaimsOf(S, a, l) = {}) /\ (\A w : OwnClaims(w, a, l) = {})
    BY <2>1 DEF OwnClaims, ClaimsOf
  <2>3. IsFiniteSet({}) /\ Cardinality({}) = 0
    BY FS_EmptySet
  <2>4. \A S : Bound(S, a, l) \in Nat
    BY TypeInit, CreditsFinite
  <2>5. Cardinality(Workers) \in Nat
    BY WorkersAssumption, FS_CardinalityType
  <2>6. \A S : Cardinality(Workers) * Bound(S, a, l) \in Nat
    BY <2>4, <2>5, MoreTimes
  <2>7. \A S : Cardinality(ClaimsOf(S, a, l)) <= Cardinality(Workers) * Bound(S, a, l)
    BY <2>2, <2>3, <2>6
  <2>8. \A w : Cardinality(OwnClaims(w, a, l)) <= Bound({w}, a, l)
    BY <2>2, <2>3, <2>4
  <2> QED BY <2>1, <2>3, <2>7, <2>8
<1>2. Base /\ ClaimsBounded => AllocationHolds
  <2> SUFFICES ASSUME Base, ClaimsBounded, NEW a \in Agents, NEW l \in Wallets
               PROVE  Cardinality(Units(ActiveFor(a, l)))
                        <= Cardinality(Workers)
                             * (Allocation + Cardinality(Credits(Decided(a, l))))
    BY DEF AllocationHolds
  <2>1. Units(ActiveFor(a, l)) \in SUBSET Claims(a, l)
    BY DEF Units, ActiveFor, Active, Claims, Claimed, Base, TypeInv, TypeOK, PermitRows
  <2>2. /\ Of(Workers) = Permits /\ Decided(a, l) \subseteq Permits
        /\ ClaimsOf(Workers, a, l) = Claims(a, l)
    BY DEF Of, Decided, ClaimsOf, Claims, Base, TypeInv, TypeOK
  <2>3. Decided(a, l) \cap Of(Workers) = Decided(a, l)
    BY <2>2
  <2>4. /\ IsFiniteSet(Claims(a, l))
        /\ Cardinality(Claims(a, l)) <= Cardinality(Workers) * Bound(Workers, a, l)
    BY <2>2 DEF ClaimsBounded
  <2>5. Cardinality(Workers) * Bound(Workers, a, l) \in Int
    <3>1. Bound(Workers, a, l) \in Nat /\ Cardinality(Workers) \in Nat
      BY CreditsFinite, WorkersAssumption, FS_CardinalityType DEF Base
    <3> QED BY <3>1
  <2>6. Cardinality(Units(ActiveFor(a, l))) <= Cardinality(Workers) * Bound(Workers, a, l)
    BY <2>1, <2>4, <2>5, SmallerSet
  <2> QED BY <2>3, <2>6 DEF Bound
<1> QED BY <1>1, <1>2, BaseInit, BaseStep, ClaimsBoundedStep, PTL DEF Spec

-----------------------------------------------------------------------------
(* Halts and revocations.                                                  *)

\* A transaction that revokes has taken every active permit that it should:
\* all of them for a halt, the agent's for the revocation of an agent.
RevocationsInv ==
  \A w \in Workers :
    /\ revocation[w].active \subseteq Settled
    /\ pc[w] = "written" /\ TriggersHalt(outcome[w]) =>
         revocation[w].permits = revocation[w].active
    /\ pc[w] = "revoke" =>
         \A p \in revocation[w].active :
           row[p].agent = revocation[w].agent => p \in revocation[w].permits

LEMMA RevocationsInit == Init => RevocationsInv
BY DEF Init, RevocationsInv, NoRevocation

\* A handler takes permits with one of two steps, and keeps what it has taken.
LEMMA TakeStep ==
  ASSUME TypeInv, [Next]_vars, NEW w \in Workers
  PROVE  \/ pc'[w] = pc[w] /\ revocation'[w] = revocation[w] /\ outcome'[w] = outcome[w]
         \/ /\ pc'[w] \notin {"written", "revoke"}
            /\ revocation'[w] \in {revocation[w], NoRevocation}
         \/ WriteOutcome(w)
         \/ \E a \in Agents : RevokePermits(w, a)
<1> USE DEF permitVars, treasuryVars, handlerVars
<1>0. /\ pc \in [Workers -> PC] /\ revocation \in [Workers -> Revocations]
      /\ outcome \in [Workers -> Outcomes \cup {None}]
  BY DEF TypeInv, TypeOK
<1> DEFINE Keeps == /\ pc'[w] = pc[w] /\ revocation'[w] = revocation[w]
                    /\ outcome'[w] = outcome[w]
           Leaves == /\ pc'[w] \notin {"written", "revoke"}
                     /\ revocation'[w] \in {revocation[w], NoRevocation}
<1>1. CASE UNCHANGED vars
  BY <1>1 DEF vars
<1>2. ASSUME NEW v \in Workers, RequestPermit(v) \/ RequestPermitGroup(v)
      PROVE  Keeps \/ Leaves
  BY <1>0, <1>2, RequestAccepts DEF Accept
<1>3. ASSUME NEW v \in Workers, Rollback(v)
      PROVE  pc'[v] = "idle" /\ \A u \in Workers \ {v} : pc'[u] = pc[u]
  BY <1>0, <1>3 DEF Rollback
<1>4. ASSUME NEW v \in Workers, NEW p \in Permits,
             ReadSlot(v, p) \/ ReadReserved(v, p) \/ ReadActiveCount(v, p) \/ Decide(v, p)
      PROVE  Keeps \/ Leaves
  BY <1>0, <1>4 DEF ReadSlot, ReadReserved, ReadActiveCount, Decide
<1>5. ASSUME NEW v \in Workers, NEW p \in Permits, ReadTreasury(v, p)
      PROVE  Keeps \/ Leaves
  BY <1>0, <1>3, <1>5 DEF ReadTreasury
<1>6. ASSUME NEW v \in Workers, Commit(v)
      PROVE  Keeps \/ Leaves
  BY <1>0, <1>3, <1>6 DEF Commit
<1>7. ASSUME NEW v \in Workers, NEW p \in Permits, NEW pnl \in Pnls, ReadOutcome(v, p, pnl)
      PROVE  Keeps \/ Leaves
  BY <1>0, <1>7 DEF ReadOutcome
<1>8. ASSUME NEW v \in Workers, WriteOutcome(v), v # w
      PROVE  Keeps
  BY <1>0, <1>8 DEF WriteOutcome
<1>9. ASSUME NEW v \in Workers, CommitOutcome(v) \/ CommitRevocation(v)
      PROVE  Keeps \/ Leaves
  BY <1>0, <1>9 DEF CommitOutcome, CommitRevocation
<1>10. ASSUME NEW v \in Workers, NEW a \in Agents, RevokePermits(v, a), v # w
       PROVE  Keeps
  BY <1>0, <1>10 DEF RevokePermits
<1>11. ASSUME NEW v \in Workers,
              VerifyWallet(v) \/ ResumeTreasury(v) \/ \E c \in Contents : UpdateConstitution(v, c)
       PROVE  Keeps
  BY <1>11 DEF VerifyWallet, ResumeTreasury, UpdateConstitution
<1>12. ASSUME Background \/ IntentEnds
       PROVE  Keeps
  BY <1>12 DEF Background, ExpirePermits, Resync, WriteSlotStatus,
         IntentEnds, SettleIntent
<1>13. ASSUME NEW v \in Workers, Fail(v)
       PROVE  Keeps \/ Leaves
  BY <1>0, <1>3, <1>13 DEF Fail
<1> QED
  BY <1>1, <1>2, <1>4, <1>5, <1>6, <1>7, <1>8, <1>9, <1>10, <1>11, <1>12, <1>13
     DEF Next, Begin, Proceed, Dashboard

LEMMA RevocationsStep == TypeInv /\ RevocationsInv /\ [Next]_vars => RevocationsInv'
<1> SUFFICES ASSUME TypeInv, RevocationsInv, [Next]_vars, NEW w \in Workers
             PROVE  /\ revocation'[w].active \subseteq Settled'
                    /\ pc'[w] = "written" /\ TriggersHalt(outcome'[w]) =>
                         revocation'[w].permits = revocation'[w].active
                    /\ pc'[w] = "revoke" =>
                         \A p \in revocation'[w].active :
                           row'[p].agent = revocation'[w].agent => p \in revocation'[w].permits
  BY DEF RevocationsInv, TriggersHalt, NewAum, check_drawdown_limit
<1>0. /\ revocation \in [Workers -> Revocations] /\ pc \in [Workers -> PC]
      /\ \A p \in Settled : p \in Settled' /\ row'[p] = row[p]
  BY SettledStays DEF TypeInv, TypeOK
<1>1. CASE pc'[w] = pc[w] /\ revocation'[w] = revocation[w] /\ outcome'[w] = outcome[w]
  BY <1>0, <1>1 DEF RevocationsInv
<1>2. CASE /\ pc'[w] \notin {"written", "revoke"}
           /\ revocation'[w] \in {revocation[w], NoRevocation}
  BY <1>0, <1>2 DEF RevocationsInv, NoRevocation
<1>3. ActiveCommitted \subseteq Settled
  BY DEF ActiveCommitted, Active, Settled
<1>4. CASE WriteOutcome(w)
  <2>1. /\ revocation'[w] = IF TriggersHalt(outcome[w])
                            THEN [agent |-> None, permits |-> ActiveCommitted,
                                  active |-> ActiveCommitted]
                            ELSE NoRevocation
        /\ pc'[w] = "written" /\ outcome' = outcome
    BY <1>0, <1>4 DEF WriteOutcome, HaltRevokes
  <2> QED BY <1>0, <1>3, <2>1 DEF NoRevocation
<1>5. ASSUME NEW a \in Agents, RevokePermits(w, a)
      PROVE  /\ revocation'[w].active \subseteq Settled'
             /\ pc'[w] = "revoke"
             /\ \A p \in revocation'[w].active :
                  row'[p].agent = revocation'[w].agent => p \in revocation'[w].permits
  <2>1. /\ revocation'[w] = [agent |-> a, permits |-> RevokedWith(a), active |-> ActiveCommitted]
        /\ pc'[w] = "revoke"
    BY <1>0, <1>5 DEF RevokePermits
  <2> QED BY <1>0, <1>3, <2>1 DEF RevokedWith
<1> QED BY <1>1, <1>2, <1>4, <1>5, TakeStep

\* The permits that are active in spite of a halt, and the legs that may still
\* become so: their handler has read a treasury that was not halted.
Unhalted(w, p) ==
  /\ AtLeg(w, p) /\ pc[w] \in {"reserved", "count", "decide"}
  /\ snap[w].view.treasury.health # "HALTED"

PastHalt ==
  {p \in Permits : \/ p \in Active \ outlived.halt
                   \/ \E w \in Workers : Unhalted(w, p)}

HaltBounded == treasury.health = "HALTED" => Cardinality(PastHalt) <= InFlight

\* While the treasury is halted no handler starts to see one that is not.
LEMMA UnhaltedStays ==
  ASSUME Base, [Next]_vars, treasury.health = "HALTED",
         NEW w \in Workers, NEW p \in Permits, Unhalted(w, p)'
  PROVE  Unhalted(w, p)
<1>0. /\ TypeInv /\ OpenInv
      /\ pc'[w] \in {"reserved", "count", "decide"} /\ AtLeg(w, p)'
      /\ snap'[w].view.treasury.health # "HALTED"
  BY DEF Base, Unhalted
<1>1. CASE Rests(w)
  BY <1>0, <1>1 DEF Unhalted, AtLeg, Rests
<1>2. ASSUME NEW q \in Permits, ReadTreasury(w, q), pc'[w] = "reserved"
      PROVE  FALSE
  <2>1. snap'[w].view.treasury = treasury
    BY <1>0, <1>2 DEF ReadTreasury, Rollback, Snaps, TypeInv, TypeOK
  <2> QED BY <1>0, <2>1
<1>3. ASSUME NEW q \in Permits, ReadReserved(w, q) \/ ReadActiveCount(w, q)
      PROVE  Unhalted(w, p)
  <2>1. /\ snap'[w].view = snap[w].view /\ pc[w] \in {"reserved", "count"}
        /\ UNCHANGED <<tx, row, request>>
    BY <1>0, <1>3 DEF ReadReserved, ReadActiveCount, Snaps, TypeInv, TypeOK, permitVars
  <2> QED BY <1>0, <2>1 DEF Unhalted, AtLeg
<1>4. ASSUME NEW q \in Permits, ReadSlot(w, q)
      PROVE  pc'[w] = "treasury"
  BY <1>0, <1>4 DEF ReadSlot, TypeInv, TypeOK
<1> QED BY <1>0, <1>1, <1>2, <1>3, <1>4, HandlerStep

\* So no permit joins them.
LEMMA PastHaltShrinks ==
  ASSUME Base, [Next]_vars, treasury.health = "HALTED", outlived'.halt = outlived.halt
  PROVE  PastHalt' \subseteq PastHalt
<1> SUFFICES ASSUME NEW p \in PastHalt' PROVE p \in PastHalt
  OBVIOUS
<1>0. TypeInv /\ OpenInv /\ p \in Permits
  BY DEF Base, PastHalt
<1>1. CASE p \in Active' \ outlived'.halt
  <2>1. ASSUME NEW w \in Workers, Decide(w, p),
               Decision(w, p, Cardinality(Active \cap VisibleTo(w))).approved
        PROVE  Unhalted(w, p)
    BY <1>0, <2>1, Approved DEF Unhalted
  <2> QED BY <1>0, <1>1, <2>1, Activation DEF PastHalt
<1>2. \A w \in Workers : Unhalted(w, p)' => Unhalted(w, p)
  BY <1>0, UnhaltedStays
<1> QED BY <1>1, <1>2 DEF PastHalt

\* The step that halts leaves only the legs of the other handlers.
LEMMA PastHaltOthers ==
  ASSUME Base, RevocationsInv, NEW w \in Workers, CommitOutcome(w), TriggersHalt(outcome[w])
  PROVE  \A p \in PastHalt' : tx[p] \in Workers \ {w}
<1> USE DEF permitVars, treasuryVars
<1>0. /\ TypeInv /\ OpenInv /\ tx \in [Permits -> Workers \cup {None}]
      /\ outlived \in [halt : SUBSET Permits, revoke : SUBSET Permits]
      /\ status \in [Permits -> PermitStatus]
  BY DEF Base, TypeInv, TypeOK
<1>1. pc[w] = "written" /\ revocation[w].permits = revocation[w].active
  BY DEF CommitOutcome, RevocationsInv
<1>2. \A p \in Permits : tx[p] # w
  BY <1>0, <1>1, WorkersAssumption DEF OpenInv, RequestPC
<1>3. ASSUME NEW p \in Permits, p \in Active' \ outlived'.halt
      PROVE  tx[p] # None
  <2>1. outlived'.halt = ActiveCommitted' \ revocation[w].active /\ tx' = tx
    BY <1>0 DEF CommitOutcome
  <2>2. p \in revocation[w].active => p \notin Active'
    BY <1>0, <1>1 DEF CommitOutcome, StatusAfterRevoking, Active
  <2> QED BY <1>3, <2>1, <2>2 DEF ActiveCommitted, Active
<1>4. ASSUME NEW p \in Permits, NEW v \in Workers, Unhalted(v, p)'
      PROVE  tx[p] # None
  BY <1>4, WorkersAssumption DEF Unhalted, AtLeg, CommitOutcome
<1> QED BY <1>0, <1>2, <1>3, <1>4 DEF PastHalt

LEMMA HaltBoundedStep ==
  Base /\ RevocationsInv /\ HaltBounded /\ [Next]_vars => HaltBounded'
<1> SUFFICES ASSUME Base, RevocationsInv, HaltBounded, [Next]_vars,
                    treasury'.health = "HALTED"
             PROVE  Cardinality(PastHalt') <= InFlight
  BY DEF HaltBounded, InFlight
<1>0. /\ TypeInv /\ OpenInv /\ InFlight \in Int
      /\ PastHalt \in SUBSET Permits /\ PastHalt' \in SUBSET Permits
  BY InFlightNat DEF Base, PastHalt
<1>1. CASE treasury.health = "HALTED" /\ outlived'.halt = outlived.halt
  BY <1>0, <1>1, PastHaltShrinks, Shrinks DEF HaltBounded
<1>2. ASSUME NEW w \in Workers, CommitOutcome(w), TriggersHalt(outcome[w])
      PROVE  Cardinality(PastHalt') <= InFlight
  <2> DEFINE Others == {p \in Permits : tx[p] \in Workers \ {w}}
  <2>1. PastHalt' \subseteq Others /\ Others \in SUBSET Permits
    BY <1>0, <1>2, PastHaltOthers
  <2>2. Cardinality(Others) <= InFlight
    BY <1>0, OthersBounded
  <2> HIDE DEF Others
  <2> QED BY <1>0, <2>1, <2>2, Shrinks
<1> QED BY <1>0, <1>1, <1>2, HaltStep

\* A halt revokes what was active when it ran, and lets in only permits of
\* requests that were in flight.
THEOREM HaltCorrect == Spec => []HaltContained
<1>1. Init => HaltBounded
  BY DEF Init, HaltBounded
<1>2. Base /\ HaltBounded => HaltContained
  <2> SUFFICES ASSUME HaltBounded, treasury.health = "HALTED"
               PROVE  Cardinality(Active \ outlived.halt) <= InFlight
    BY DEF HaltContained
  <2>1. /\ Active \ outlived.halt \in SUBSET Permits /\ PastHalt \in SUBSET Permits
        /\ Active \ outlived.halt \subseteq PastHalt
    BY DEF Active, PastHalt
  <2> QED BY <2>1, InFlightNat, Shrinks DEF HaltBounded
<1>3. Base => TypeInv
  BY DEF Base
<1> QED
  BY <1>1, <1>2, <1>3, BaseInit, BaseStep, RevocationsInit, RevocationsStep,
     HaltBoundedStep, PTL DEF Spec

\* The permits of an agent that are active in spite of its revocation, and the
\* legs that may still become so: their handler has read a slot that was ACTIVE.
Unrevoked(w, p) ==
  /\ AtLeg(w, p) /\ pc[w] \in {"treasury", "reserved", "count", "decide"}
  /\ snap[w].can_execute

PastRevocation(a) ==
  {p \in Permits : /\ row[p].agent = a
                   /\ \/ p \in Active \ outlived.revoke
                      \/ \E w \in Workers : Unrevoked(w, p)}

RevocationBounded ==
  \A a \in Agents : slot[a] = "REVOKED" => Cardinality(PastRevocation(a)) <= InFlight

\* While the agent is revoked no permit joins them.
LEMMA PastRevocationShrinks ==
  ASSUME Base, [Next]_vars, NEW a \in Agents, slot[a] = "REVOKED",
         \A p \in Permits : row[p].agent = a =>
           (p \in outlived'.revoke <=> p \in outlived.revoke)
  PROVE  PastRevocation(a)' \subseteq PastRevocation(a)
<1> SUFFICES ASSUME NEW p \in PastRevocation(a)' PROVE p \in PastRevocation(a)
  OBVIOUS
<1>0. TypeInv /\ OpenInv /\ p \in Permits /\ row'[p].agent = a
  BY DEF Base, PastRevocation
<1>1. CASE p \in Active' \ outlived'.revoke
  <2>1. ASSUME NEW w \in Workers, Decide(w, p),
               Decision(w, p, Cardinality(Active \cap VisibleTo(w))).approved
        PROVE  Unrevoked(w, p)
    BY <1>0, <2>1, Approved DEF Unrevoked
  <2>2. row[p].agent = a /\ p \notin outlived.revoke
    BY <1>0, <1>1, Activation
  <2> QED BY <1>0, <1>1, <2>1, <2>2, Activation DEF PastRevocation
<1>2. ASSUME NEW w \in Workers, Unrevoked(w, p)'
      PROVE  Unrevoked(w, p) /\ row[p].agent = a
  <2>0. /\ pc'[w] \in {"treasury", "reserved", "count", "decide"} /\ AtLeg(w, p)'
        /\ snap'[w].can_execute
    BY <1>2 DEF Unrevoked
  <2>1. CASE Rests(w)
    BY <1>0, <1>2, <2>1 DEF Unrevoked, AtLeg, Rests
  <2>2. ASSUME NEW q \in Permits, ReadSlot(w, q)
        PROVE  FALSE
    <3>1. UNCHANGED <<tx, row, request>> /\ AtLeg(w, q)
      BY <2>2 DEF ReadSlot, permitVars
    <3>2. p = q
      BY <1>0, <2>0, <3>1, WorkersAssumption DEF AtLeg, OpenInv
    <3>3. snap'[w].can_execute = (slot[row[q].agent] = "ACTIVE")
      BY <2>2 DEF ReadSlot, TypeInv, TypeOK, Snaps, Base
    <3> QED BY <1>0, <2>0, <3>1, <3>2, <3>3
  <2>3. ASSUME NEW q \in Permits,
               \/ ReadTreasury(w, q) /\ pc'[w] = "reserved"
               \/ ReadReserved(w, q) \/ ReadActiveCount(w, q)
        PROVE  Unrevoked(w, p) /\ row[p].agent = a
    <3>1. /\ snap'[w].can_execute = snap[w].can_execute
          /\ pc[w] \in {"treasury", "reserved", "count"}
          /\ UNCHANGED <<tx, row, request>>
      BY <1>0, <2>3 DEF ReadTreasury, ReadReserved, ReadActiveCount, Rollback, Snaps, TypeInv,
                        TypeOK, permitVars
    <3> QED BY <1>0, <2>0, <3>1 DEF Unrevoked, AtLeg
  <2> QED BY <1>0, <2>0, <2>1, <2>2, <2>3, HandlerStep
<1> QED BY <1>0, <1>1, <1>2 DEF PastRevocation

\* The commit that revokes leaves only the legs of the other handlers.
LEMMA PastRevocationOthers ==
  ASSUME Base, RevocationsInv, NEW w \in Workers, CommitRevocation(w),
         NEW a, a = revocation[w].agent
  PROVE  \A p \in PastRevocation(a)' : tx[p] \in Workers \ {w}
<1> USE DEF permitVars, treasuryVars
<1>0. /\ TypeInv /\ OpenInv /\ tx \in [Permits -> Workers \cup {None}]
      /\ outlived \in [halt : SUBSET Permits, revoke : SUBSET Permits]
      /\ status \in [Permits -> PermitStatus]
  BY DEF Base, TypeInv, TypeOK
<1>2. /\ pc[w] = "revoke" /\ tx' = tx /\ row' = row /\ request' = request
      /\ \A p \in revocation[w].active : row[p].agent = a => p \in revocation[w].permits
  BY DEF CommitRevocation, RevocationsInv
<1>3. \A p \in Permits : tx[p] # w
  BY <1>0, <1>2, WorkersAssumption DEF OpenInv, RequestPC
<1>4. ASSUME NEW p \in Permits, p \in Active' \ outlived'.revoke, row[p].agent = a
      PROVE  tx[p] # None
  <2>1. p \in outlived'.revoke <=> p \in ActiveCommitted' \ revocation[w].active
    BY <1>0, <1>4 DEF CommitRevocation
  <2>2. p \in revocation[w].active => p \notin Active'
    BY <1>0, <1>2, <1>4 DEF CommitRevocation, StatusAfterRevoking, Active
  <2> QED BY <1>2, <1>4, <2>1, <2>2 DEF ActiveCommitted, Active
<1>5. ASSUME NEW p \in Permits, NEW v \in Workers, Unrevoked(v, p)'
      PROVE  tx[p] # None
  BY <1>2, <1>5, WorkersAssumption DEF Unrevoked, AtLeg
<1> QED BY <1>0, <1>2, <1>3, <1>4, <1>5 DEF PastRevocation

LEMMA RevocationBoundedStep ==
  Base /\ RevocationsInv /\ RevocationBounded /\ [Next]_vars => RevocationBounded'
<1> SUFFICES ASSUME Base, RevocationsInv, RevocationBounded, [Next]_vars,
                    NEW a \in Agents, slot'[a] = "REVOKED"
             PROVE  Cardinality(PastRevocation(a)') <= InFlight
  BY DEF RevocationBounded, InFlight
<1>0. /\ TypeInv /\ OpenInv /\ InFlight \in Int
      /\ PastRevocation(a) \in SUBSET Permits /\ PastRevocation(a)' \in SUBSET Permits
  BY InFlightNat DEF Base, PastRevocation
<1>1. CASE /\ slot[a] = "REVOKED"
           /\ \A p \in Permits : row[p].agent = a =>
                (p \in outlived'.revoke <=> p \in outlived.revoke)
  BY <1>0, <1>1, PastRevocationShrinks, Shrinks DEF RevocationBounded
<1>2. ASSUME NEW w \in Workers, CommitRevocation(w), revocation[w].agent = a
      PROVE  Cardinality(PastRevocation(a)') <= InFlight
  <2> DEFINE Others == {p \in Permits : tx[p] \in Workers \ {w}}
  <2>1. PastRevocation(a)' \subseteq Others /\ Others \in SUBSET Permits
    BY <1>0, <1>2, PastRevocationOthers
  <2>2. Cardinality(Others) <= InFlight
    BY <1>0, OthersBounded
  <2> HIDE DEF Others
  <2> QED BY <1>0, <2>1, <2>2, Shrinks
<1> QED BY <1>0, <1>1, <1>2, RevocationStep

\* Revoking an agent takes the permits that were active when it ran, and lets
\* in only those of requests that were in flight (agent.rs:1136-1246).
THEOREM RevocationContainedCorrect == Spec => []RevocationContained
<1>1. Init => RevocationBounded
  BY DEF Init, RevocationBounded
<1>2. Base /\ RevocationBounded => RevocationContained
  <2> SUFFICES ASSUME RevocationBounded, NEW a \in Agents, slot[a] = "REVOKED"
               PROVE  Cardinality({p \in Active \ outlived.revoke : row[p].agent = a})
                        <= InFlight
    BY DEF RevocationContained
  <2> DEFINE S == {p \in Active \ outlived.revoke : row[p].agent = a}
  <2>1. /\ S \in SUBSET Permits /\ PastRevocation(a) \in SUBSET Permits
        /\ S \subseteq PastRevocation(a)
    BY DEF Active, PastRevocation
  <2> HIDE DEF S
  <2>2. Cardinality(S) <= InFlight
    BY <2>1, InFlightNat, Shrinks DEF RevocationBounded
  <2> QED BY <2>2 DEF S
<1>3. Base => TypeInv
  BY DEF Base
<1> QED
  BY <1>1, <1>2, <1>3, BaseInit, BaseStep, RevocationsInit, RevocationsStep,
     RevocationBoundedStep, PTL DEF Spec

-----------------------------------------------------------------------------
(* What a group commits, and what an outcome does.                         *)

\* A handler comes to hold the outcome of a permit by reading it.
LEMMA OutcomeStep ==
  ASSUME TypeInv, [Next]_vars, NEW w \in Workers, pc'[w] = "outcome"
  PROVE  \/ pc[w] = "outcome" /\ outcome'[w] = outcome[w]
         \/ \E p \in Permits, pnl \in Pnls : ReadOutcome(w, p, pnl)
<1> USE DEF permitVars, treasuryVars, handlerVars
<1>0. pc \in [Workers -> PC] /\ outcome \in [Workers -> Outcomes \cup {None}]
  BY DEF TypeInv, TypeOK
<1> DEFINE Goal == pc[w] = "outcome" /\ outcome'[w] = outcome[w]
<1>1. CASE UNCHANGED vars
  BY <1>1 DEF vars
<1>2. ASSUME NEW v \in Workers, RequestPermit(v) \/ RequestPermitGroup(v)
      PROVE  Goal
  BY <1>0, <1>2, RequestAccepts DEF Accept
<1>3. ASSUME NEW v \in Workers, NEW q \in Permits,
             \/ ReadSlot(v, q) \/ ReadTreasury(v, q) \/ ReadReserved(v, q)
             \/ ReadActiveCount(v, q) \/ Decide(v, q)
      PROVE  Goal
  BY <1>0, <1>3 DEF ReadSlot, ReadTreasury, Rollback, ReadReserved, ReadActiveCount, Decide
<1>4. ASSUME NEW v \in Workers,
             \/ Commit(v) \/ WriteOutcome(v) \/ CommitOutcome(v) \/ CommitRevocation(v)
             \/ Dashboard(v) \/ Fail(v)
      PROVE  Goal
  BY <1>0, <1>4 DEF Commit, WriteOutcome, CommitOutcome, CommitRevocation, Dashboard,
         VerifyWallet, ResumeTreasury, UpdateConstitution, RevokePermits, Fail, Rollback
<1>5. ASSUME NEW v \in Workers, NEW q \in Permits, NEW pnl \in Pnls, ReadOutcome(v, q, pnl),
             v # w
      PROVE  Goal
  BY <1>0, <1>5 DEF ReadOutcome
<1>6. CASE Background \/ IntentEnds
  BY <1>6 DEF Background, ExpirePermits, Resync, WriteSlotStatus, IntentEnds, SettleIntent
<1> QED
  BY <1>1, <1>2, <1>3, <1>4, <1>5, <1>6 DEF Next, Begin, Proceed

\* What a handler is to consume or revoke is committed.
TakenInv ==
  \A w \in Workers :
    /\ revocation[w].permits \subseteq Settled
    /\ pc[w] \in {"outcome", "written"} => outcome[w].permit \in Settled

LEMMA TakenInit == Init => TakenInv
BY DEF Init, TakenInv, NoRevocation

LEMMA TakenStep == TypeInv /\ TakenInv /\ [Next]_vars => TakenInv'
<1> SUFFICES ASSUME TypeInv, TakenInv, [Next]_vars, NEW w \in Workers
             PROVE  /\ revocation'[w].permits \subseteq Settled'
                    /\ pc'[w] \in {"outcome", "written"} => outcome'[w].permit \in Settled'
  BY DEF TakenInv
<1>0. /\ revocation \in [Workers -> Revocations] /\ outcome \in [Workers -> Outcomes \cup {None}]
      /\ \A p \in Settled : p \in Settled'
      /\ ActiveCommitted \subseteq Settled
  BY SettledStays DEF TypeInv, TypeOK, ActiveCommitted, Active, Settled
<1>1. revocation'[w].permits \subseteq Settled'
  <2>1. CASE revocation'[w] \in {revocation[w], NoRevocation}
    BY <1>0, <2>1 DEF TakenInv, NoRevocation
  <2>2. CASE WriteOutcome(w)
    <3>1. revocation'[w].permits \in {ActiveCommitted, {}}
      BY <1>0, <2>2 DEF WriteOutcome, HaltRevokes, NoRevocation
    <3> QED BY <1>0, <3>1
  <2>3. ASSUME NEW a \in Agents, RevokePermits(w, a)
        PROVE  revocation'[w].permits \subseteq ActiveCommitted
    BY <1>0, <2>3 DEF RevokePermits, RevokedWith
  <2> QED BY <1>0, <2>1, <2>2, <2>3, TakeStep
<1>2. pc'[w] \in {"outcome", "written"} => outcome'[w].permit \in Settled'
  <2>1. CASE pc[w] \in {"outcome", "written"} /\ outcome'[w] = outcome[w]
    BY <1>0, <2>1 DEF TakenInv
  <2>2. ASSUME NEW p \in Permits, NEW pnl \in Pnls, ReadOutcome(w, p, pnl)
        PROVE  outcome'[w].permit \in Settled
    BY <1>0, <2>2 DEF ReadOutcome, Settled
  <2>3. CASE pc'[w] = "outcome"
    BY <1>0, <2>1, <2>2, <2>3, OutcomeStep
  <2>4. CASE pc'[w] = "written"
    <3>1. WriteOutcome(w) => pc[w] = "outcome" /\ outcome'[w] = outcome[w]
      BY DEF WriteOutcome
    <3>2. \A a \in Agents : ~RevokePermits(w, a)
      BY <1>0, <2>4 DEF RevokePermits, TypeInv, TypeOK
    <3> QED BY <2>1, <2>4, <3>1, <3>2, TakeStep
  <2> QED BY <2>3, <2>4
<1> QED BY <1>1, <1>2

\* The legs before the one a handler is at are decided.
DecidedInv ==
  \A p \in Permits, w \in Workers :
    /\ tx[p] = w
    /\ pc[w] = "commit" \/ row[p].leg < request[w].leg
    => status[p] \in {"ACTIVE", "DENIED"}

LEMMA DecidedInit == Init => DecidedInv
BY WorkersAssumption DEF Init, DecidedInv

\* What a step leaves to the legs of an open request.
KeepsLegs(w) ==
  /\ pc'[w] = "commit" => pc[w] = "commit"
  /\ request'[w] = request[w]
  /\ \A p \in Permits : tx'[p] = w =>
       tx[p] = w /\ row'[p].leg = row[p].leg /\ status'[p] = status[p]

LEMMA LegsStep ==
  ASSUME TypeInv, OpenInv, TakenInv, [Next]_vars, NEW w \in Workers
  PROVE  \/ KeepsLegs(w)
         \/ \A p \in Permits : tx'[p] # w
         \/ \E p \in Permits : Decide(w, p)
         \/ /\ pc'[w] = "slot" /\ request'[w].leg = 1
            /\ \A p \in Permits : tx'[p] = w => row'[p].leg \in Nat \ {0}
<1> USE WorkersAssumption DEF KeepsLegs, permitVars, treasuryVars, handlerVars
<1>0. /\ tx \in [Permits -> Workers \cup {None}] /\ pc \in [Workers -> PC]
      /\ row \in [Permits -> PermitRows] /\ status \in [Permits -> PermitStatus]
      /\ request \in [Workers -> Requests]
  BY DEF TypeInv, TypeOK
<1> DEFINE Gone == \A p \in Permits : tx'[p] # w
<1>1. CASE UNCHANGED vars
  BY <1>1 DEF vars
<1>2. ASSUME NEW v \in Workers, RequestPermit(v) \/ RequestPermitGroup(v)
      PROVE  \/ KeepsLegs(w)
             \/ /\ pc'[w] = "slot" /\ request'[w].leg = 1
                /\ \A p \in Permits : tx'[p] = w => row'[p].leg \in Nat \ {0}
  <2>1. PICK P \in SUBSET Permits, require_all \in BOOLEAN :
          \E r \in [P -> Legs] : Accept(v, require_all, r)
    BY <1>2, RequestAccepts
  <2>2. PICK r \in [P -> Legs] : Accept(v, require_all, r)
    BY <2>1
  <2>3. CASE v = w
    <3>1. \A p \in Permits : tx[p] # w
      BY <2>2, <2>3 DEF Accept, OpenInv, RequestPC
    <3> QED BY <1>0, <2>2, <2>3, <3>1, NumbersAssumption DEF Accept, Legs
  <2>4. CASE v # w
    BY <1>0, <2>2, <2>4 DEF Accept
  <2> QED BY <2>3, <2>4
<1>3. ASSUME NEW v \in Workers, Rollback(v)
      PROVE  KeepsLegs(w) \/ Gone
  BY <1>0, <1>3 DEF Rollback
<1>4. ASSUME NEW v \in Workers, NEW q \in Permits,
             ReadSlot(v, q) \/ ReadReserved(v, q) \/ ReadActiveCount(v, q)
      PROVE  KeepsLegs(w)
  BY <1>0, <1>4 DEF ReadSlot, ReadReserved, ReadActiveCount
<1>5. ASSUME NEW v \in Workers, NEW q \in Permits, ReadTreasury(v, q)
      PROVE  KeepsLegs(w) \/ Gone
  BY <1>0, <1>3, <1>5 DEF ReadTreasury
<1>6. ASSUME NEW v \in Workers, NEW q \in Permits, Decide(v, q), v # w
      PROVE  KeepsLegs(w)
  <2>1. tx[q] = v
    BY <1>6 DEF Decide, AtLeg
  <2> QED BY <1>0, <1>6, <2>1 DEF Decide
<1>7. ASSUME NEW v \in Workers, Commit(v)
      PROVE  KeepsLegs(w) \/ Gone
  BY <1>0, <1>3, <1>7 DEF Commit
<1>8. ASSUME NEW v \in Workers, NEW q \in Permits, NEW pnl \in Pnls, ReadOutcome(v, q, pnl)
      PROVE  KeepsLegs(w)
  BY <1>0, <1>8 DEF ReadOutcome
<1>9. ASSUME NEW v \in Workers, WriteOutcome(v) \/ CommitRevocation(v)
      PROVE  KeepsLegs(w)
  <2>1. \A p \in revocation[v].permits : tx[p] = None
    BY DEF TakenInv, Settled
  <2> QED BY <1>0, <1>9, <2>1 DEF WriteOutcome, CommitRevocation, StatusAfterRevoking
<1>10. ASSUME NEW v \in Workers, CommitOutcome(v)
       PROVE  KeepsLegs(w)
  <2>1. \A p \in revocation[v].permits : tx[p] = None
    BY DEF TakenInv, Settled
  <2>2. outcome[v] \in Outcomes
    BY <1>10 DEF CommitOutcome, TypeInv, HandlersOK
  <2>3. tx[outcome[v].permit] = None
    BY <1>10, <2>2 DEF TakenInv, Settled, CommitOutcome, TypeInv, HandlersOK, Outcomes
  <2> QED BY <1>0, <1>10, <2>1, <2>3 DEF CommitOutcome, StatusAfterRevoking
<1>11. ASSUME NEW v \in Workers, Dashboard(v)
       PROVE  KeepsLegs(w)
  BY <1>0, <1>11 DEF Dashboard, VerifyWallet, ResumeTreasury, UpdateConstitution, RevokePermits
<1>12. CASE Background \/ IntentEnds
  BY <1>0, <1>12 DEF Background, ExpirePermits, Expirable, ActiveCommitted, Resync,
         WriteSlotStatus, IntentEnds, SettleIntent
<1>13. ASSUME NEW v \in Workers, Fail(v)
       PROVE  KeepsLegs(w) \/ Gone
  BY <1>3, <1>13 DEF Fail
<1> QED
  BY <1>1, <1>2, <1>4, <1>5, <1>6, <1>7, <1>8, <1>9, <1>10, <1>11, <1>12, <1>13
     DEF Next, Begin, Proceed

LEMMA DecidedStep ==
  TypeInv /\ OpenInv /\ TakenInv /\ DecidedInv /\ [Next]_vars => DecidedInv'
<1> SUFFICES ASSUME TypeInv, OpenInv, TakenInv, DecidedInv, [Next]_vars,
                    NEW p \in Permits, NEW w \in Workers, tx'[p] = w,
                    pc'[w] = "commit" \/ row'[p].leg < request'[w].leg
             PROVE  status'[p] \in {"ACTIVE", "DENIED"}
  BY DEF DecidedInv
<1>1. CASE KeepsLegs(w)
  BY <1>1 DEF KeepsLegs, DecidedInv
<1>2. ASSUME NEW q \in Permits, Decide(w, q)
      PROVE  status'[p] \in {"ACTIVE", "DENIED"}
  <2> DEFINE verdict == Decision(w, q, Cardinality(Active \cap VisibleTo(w)))
             last == LastLeg(w)
  <2>1. /\ status' = [status EXCEPT ![q] = IF verdict.approved THEN "ACTIVE" ELSE "DENIED"]
        /\ row' = [row EXCEPT ![q].amount = verdict.approved_amount]
        /\ request' = [request EXCEPT ![w].leg = IF last THEN 0 ELSE @ + 1]
        /\ pc' = [pc EXCEPT ![w] = IF last THEN "commit" ELSE "slot"]
        /\ tx' = tx
        /\ AtLeg(w, q)
    BY <1>2 DEF Decide
  <2> HIDE DEF verdict
  <2>2. CASE p = q
    BY <2>1, <2>2 DEF TypeInv, TypeOK
  <2>3. CASE p # q
    <3>1. status'[p] = status[p] /\ row'[p] = row[p] /\ tx[p] = w
      BY <2>1, <2>3 DEF TypeInv, TypeOK
    <3>2. row[p].leg # row[q].leg /\ row[q].leg = request[w].leg
      BY <2>1, <2>3, <3>1, WorkersAssumption DEF OpenInv, AtLeg
    <3>3. row[p].leg \in Nat /\ request[w].leg \in Nat
      BY NumbersAssumption DEF TypeInv, TypeOK, PermitRows, Requests
    <3>4. CASE last
      <4>1. row[p].leg <= request[w].leg
        BY <3>1, <3>4 DEF LastLeg, Owned
      <4> QED BY <3>1, <3>2, <3>3, <4>1 DEF DecidedInv
    <3>5. CASE ~last
      <4>1. pc'[w] = "slot" /\ request'[w].leg = request[w].leg + 1
        BY <2>1, <3>5 DEF TypeInv, TypeOK, Requests
      <4>2. row[p].leg < request[w].leg + 1
        BY <3>1, <4>1
      <4>3. row[p].leg < request[w].leg
        BY <3>2, <3>3, <4>2
      <4> QED BY <3>1, <4>3 DEF DecidedInv
    <3> QED BY <3>4, <3>5
  <2> QED BY <2>2, <2>3
<1>3. CASE /\ pc'[w] = "slot" /\ request'[w].leg = 1
           /\ \A q \in Permits : tx'[q] = w => row'[q].leg \in Nat \ {0}
  <2>1. row'[p].leg \in Nat \ {0} /\ row'[p].leg < 1
    BY <1>3
  <2> QED BY <2>1
<1> QED BY <1>1, <1>2, <1>3, LegsStep

\* How a handler returns.
LEMMA ReturnStep ==
  ASSUME TypeInv, [Next]_vars, NEW w \in Workers, pc[w] # "idle", pc'[w] = "idle"
  PROVE  \/ Rollback(w) /\ UNCHANGED treasury
         \/ Commit(w) /\ ~GroupFails(w)
         \/ CommitOutcome(w)
         \/ CommitRevocation(w)
<1> USE DEF permitVars, treasuryVars, handlerVars
<1>0. pc \in [Workers -> PC]
  BY DEF TypeInv, TypeOK
<1>1. CASE UNCHANGED vars
  BY <1>1 DEF vars
<1>2. ASSUME NEW v \in Workers, RequestPermit(v) \/ RequestPermitGroup(v)
      PROVE  FALSE
  BY <1>0, <1>2, RequestAccepts DEF Accept
<1>3. ASSUME NEW v \in Workers, Rollback(v)
      PROVE  v = w
  BY <1>0, <1>3 DEF Rollback
<1>4. ASSUME NEW v \in Workers, NEW q \in Permits,
             ReadSlot(v, q) \/ ReadReserved(v, q) \/ ReadActiveCount(v, q) \/ Decide(v, q)
      PROVE  FALSE
  BY <1>0, <1>4 DEF ReadSlot, ReadReserved, ReadActiveCount, Decide
<1>5. ASSUME NEW v \in Workers, NEW q \in Permits, ReadTreasury(v, q)
      PROVE  Rollback(w) /\ UNCHANGED treasury
  BY <1>0, <1>3, <1>5 DEF ReadTreasury
<1>6. ASSUME NEW v \in Workers, Commit(v)
      PROVE  v = w /\ UNCHANGED treasury
  BY <1>0, <1>3, <1>6 DEF Commit
<1>7. ASSUME NEW v \in Workers,
             \/ WriteOutcome(v) \/ Dashboard(v)
             \/ \E q \in Permits, pnl \in Pnls : ReadOutcome(v, q, pnl)
      PROVE  FALSE
  BY <1>0, <1>7 DEF WriteOutcome, ReadOutcome, Dashboard, VerifyWallet, ResumeTreasury,
         UpdateConstitution, RevokePermits
<1>8. ASSUME NEW v \in Workers, CommitOutcome(v) \/ CommitRevocation(v)
      PROVE  v = w
  BY <1>0, <1>8 DEF CommitOutcome, CommitRevocation
<1>9. ASSUME Background \/ IntentEnds
      PROVE  FALSE
  BY <1>9 DEF Background, ExpirePermits, Resync, WriteSlotStatus, IntentEnds, SettleIntent
<1>10. ASSUME NEW v \in Workers, Fail(v)
       PROVE  Rollback(w) /\ UNCHANGED treasury
  BY <1>3, <1>10 DEF Fail
<1>11. ASSUME Commit(w)
       PROVE  (Rollback(w) /\ UNCHANGED treasury) \/ (Commit(w) /\ ~GroupFails(w))
  BY <1>6, <1>11 DEF Commit
<1> QED
  BY <1>1, <1>2, <1>4, <1>5, <1>6, <1>7, <1>8, <1>9, <1>10, <1>11 DEF Next, Begin, Proceed

\* The legs of a require_all group become active together or not at all
\* (permit.rs:195-203).
THEOREM AllOrNothingCorrect == Spec => AllOrNothing
<1>1. TypeInv /\ OpenInv /\ DecidedInv /\ [Next]_vars =>
        [\A w \in Workers :
           request[w].require_all /\ pc[w] # "idle" /\ pc'[w] = "idle" =>
             \/ \A p \in Owned(w) : p \in ActiveCommitted'
             \/ \A p \in Owned(w) : status'[p] = "NONE"]_vars
  <2> SUFFICES ASSUME TypeInv, OpenInv, DecidedInv, [Next]_vars, NEW w \in Workers,
                      request[w].require_all, pc[w] # "idle", pc'[w] = "idle"
               PROVE  \/ \A p \in Owned(w) : p \in ActiveCommitted'
                      \/ \A p \in Owned(w) : status'[p] = "NONE"
    OBVIOUS
  <2>1. CASE Rollback(w)
    BY <2>1 DEF Rollback, Owned
  <2>2. CASE Commit(w) /\ ~GroupFails(w)
    <3>1. \A p \in Owned(w) : status[p] = "ACTIVE"
      BY <2>2 DEF Commit, GroupFails, Owned, DecidedInv
    <3>2. \A p \in Owned(w) : status'[p] = status[p] /\ tx'[p] = None
      BY <2>2 DEF Commit, Owned
    <3> QED BY <3>1, <3>2 DEF Owned, ActiveCommitted, Active
  <2>3. CASE CommitOutcome(w) \/ CommitRevocation(w)
    BY <2>3, WorkersAssumption DEF CommitOutcome, CommitRevocation, Owned, OpenInv, RequestPC
  <2> QED BY <2>1, <2>2, <2>3, ReturnStep
<1>2. Base => TypeInv /\ OpenInv
  BY DEF Base
<1> QED
  BY <1>1, <1>2, BaseInit, BaseStep, TakenInit, TakenStep, DecidedInit, DecidedStep,
     PTL DEF Spec, AllOrNothing

\* A handler holds an outcome exactly while it reports one.
Reporting == {"outcome", "written"}

LEMMA ReportStep ==
  ASSUME TypeInv, [Next]_vars, NEW w \in Workers
  PROVE  \/ outcome'[w] = outcome[w] /\ (pc'[w] \in Reporting <=> pc[w] \in Reporting)
         \/ outcome'[w] = None /\ pc'[w] = "idle"
         \/ \E p \in Permits, pnl \in Pnls : ReadOutcome(w, p, pnl)
<1> USE DEF Reporting, permitVars, treasuryVars, handlerVars
<1>0. pc \in [Workers -> PC] /\ outcome \in [Workers -> Outcomes \cup {None}]
  BY DEF TypeInv, TypeOK
<1> DEFINE Keeps == outcome'[w] = outcome[w] /\ (pc'[w] \in Reporting <=> pc[w] \in Reporting)
           Ends == outcome'[w] = None /\ pc'[w] = "idle"
<1>1. CASE UNCHANGED vars
  BY <1>1 DEF vars
<1>2. ASSUME NEW v \in Workers, RequestPermit(v) \/ RequestPermitGroup(v)
      PROVE  Keeps
  BY <1>0, <1>2, RequestAccepts DEF Accept
<1>3. ASSUME NEW v \in Workers, NEW q \in Permits,
             \/ ReadSlot(v, q) \/ ReadTreasury(v, q) \/ ReadReserved(v, q)
             \/ ReadActiveCount(v, q) \/ Decide(v, q)
      PROVE  Keeps
  BY <1>0, <1>3 DEF ReadSlot, ReadTreasury, Rollback, ReadReserved, ReadActiveCount, Decide
<1>4. ASSUME NEW v \in Workers, Commit(v) \/ WriteOutcome(v) \/ CommitRevocation(v) \/ Dashboard(v)
      PROVE  Keeps
  BY <1>0, <1>4 DEF Commit, Rollback, WriteOutcome, CommitRevocation, Dashboard, VerifyWallet,
         ResumeTreasury, UpdateConstitution, RevokePermits
<1>5. ASSUME NEW v \in Workers, CommitOutcome(v) \/ Fail(v)
      PROVE  Keeps \/ Ends
  BY <1>0, <1>5 DEF CommitOutcome, Fail, Rollback
<1>6. ASSUME NEW v \in Workers, NEW q \in Permits, NEW pnl \in Pnls, ReadOutcome(v, q, pnl),
             v # w
      PROVE  Keeps
  BY <1>0, <1>6 DEF ReadOutcome
<1>7. CASE Background \/ IntentEnds
  BY <1>7 DEF Background, ExpirePermits, Resync, WriteSlotStatus, IntentEnds, SettleIntent
<1> QED
  BY <1>1, <1>2, <1>3, <1>4, <1>5, <1>6, <1>7 DEF Next, Begin, Proceed

\* Without a resync only the commit of an outcome moves the AUM.
LEMMA AumStep ==
  ASSUME TypeInv, [Next]_vars, ResyncTotals = {}
  PROVE  \/ treasury'.current_aum = treasury.current_aum
         \/ \E w \in Workers : CommitOutcome(w)
<1> USE DEF permitVars, treasuryVars, handlerVars
<1>0. treasury \in TreasuryRows
  BY DEF TypeInv, TypeOK
<1> DEFINE Goal == treasury'.current_aum = treasury.current_aum
<1>1. CASE UNCHANGED vars
  BY <1>1 DEF vars
<1>2. ASSUME NEW v \in Workers, RequestPermit(v) \/ RequestPermitGroup(v)
      PROVE  Goal
  BY <1>2, RequestAccepts DEF Accept
<1>3. ASSUME NEW v \in Workers, NEW q \in Permits,
             \/ ReadSlot(v, q) \/ ReadTreasury(v, q) \/ ReadReserved(v, q)
             \/ ReadActiveCount(v, q) \/ Decide(v, q)
      PROVE  Goal
  BY <1>3 DEF ReadSlot, ReadTreasury, ReadReserved, ReadActiveCount, Decide
<1>4. ASSUME NEW v \in Workers,
             \/ Commit(v) \/ WriteOutcome(v) \/ CommitRevocation(v) \/ Fail(v)
             \/ \E q \in Permits, pnl \in Pnls : ReadOutcome(v, q, pnl)
      PROVE  Goal
  BY <1>4 DEF Commit, WriteOutcome, CommitRevocation, Fail, ReadOutcome
<1>5. ASSUME NEW v \in Workers, Dashboard(v)
      PROVE  Goal
  BY <1>0, <1>5 DEF Dashboard, VerifyWallet, ResumeTreasury, UpdateConstitution,
         RevokePermits, TreasuryRows
<1>6. CASE Background \/ IntentEnds
  BY <1>6 DEF Background, ExpirePermits, WriteSlotStatus, IntentEnds, SettleIntent
<1> QED
  BY <1>1, <1>2, <1>3, <1>4, <1>5, <1>6 DEF Next, Begin, Proceed

\* What a report adds to is the AUM of now.
FreshInv ==
  \A w \in Workers :
    IF pc[w] \in Reporting
    THEN outcome[w].current_aum = treasury.current_aum
    ELSE outcome[w] = None

LEMMA FreshStep ==
  ASSUME \A v, w \in Workers : v = w, ResyncTotals = {}
  PROVE  TypeInv /\ FreshInv /\ [Next]_vars => FreshInv'
<1> SUFFICES ASSUME TypeInv, FreshInv, [Next]_vars, NEW w \in Workers
             PROVE  IF pc'[w] \in Reporting
                    THEN outcome'[w].current_aum = treasury'.current_aum
                    ELSE outcome'[w] = None
  BY DEF FreshInv, Reporting
<1>0. pc \in [Workers -> PC] /\ outcome \in [Workers -> Outcomes \cup {None}]
  BY DEF TypeInv, TypeOK
<1>1. CASE CommitOutcome(w)
  BY <1>0, <1>1 DEF CommitOutcome, Reporting
<1>2. CASE ~CommitOutcome(w)
  <2>1. treasury'.current_aum = treasury.current_aum
    BY <1>2, AumStep
  <2>2. CASE outcome'[w] = outcome[w] /\ (pc'[w] \in Reporting <=> pc[w] \in Reporting)
    BY <2>1, <2>2 DEF FreshInv
  <2>3. CASE outcome'[w] = None /\ pc'[w] = "idle"
    BY <2>3 DEF Reporting
  <2>4. ASSUME NEW p \in Permits, NEW pnl \in Pnls, ReadOutcome(w, p, pnl)
        PROVE  pc'[w] \in Reporting /\ outcome'[w].current_aum = treasury.current_aum
    BY <1>0, <2>4 DEF ReadOutcome, Reporting
  <2> QED BY <2>1, <2>2, <2>3, <2>4, ReportStep
<1> QED BY <1>1, <1>2

\* With one handler at a time and no resync, a report that ends has moved the
\* AUM by its profit or loss and consumed its permit, or done neither
\* (permit.rs:385-438).
THEOREM OutcomeCorrect ==
  ASSUME \A v, w \in Workers : v = w, ResyncTotals = {}
  PROVE  Spec => OutcomeMovesAum
<1>1. Init => FreshInv
  BY DEF Init, FreshInv, Reporting
<1>2. TypeInv /\ OpenInv /\ FreshInv /\ [Next]_vars =>
        [\A w \in Workers :
           outcome[w] # None /\ outcome'[w] = None =>
             \/ UNCHANGED <<treasury, status>>
             \/ /\ treasury'.current_aum = treasury.current_aum + outcome[w].pnl
                /\ status'[outcome[w].permit] = "CONSUMED"]_vars
  <2> SUFFICES ASSUME TypeInv, OpenInv, FreshInv, [Next]_vars, NEW w \in Workers,
                      outcome[w] # None, outcome'[w] = None
               PROVE  \/ UNCHANGED <<treasury, status>>
                      \/ /\ treasury'.current_aum = treasury.current_aum + outcome[w].pnl
                         /\ status'[outcome[w].permit] = "CONSUMED"
    OBVIOUS
  <2>1. pc[w] \in Reporting /\ outcome[w].current_aum = treasury.current_aum
    BY DEF FreshInv
  <2>2. pc'[w] = "idle"
    BY <2>1, ReportStep DEF ReadOutcome, Reporting
  <2>3. CASE Rollback(w) /\ UNCHANGED treasury
    <3>1. \A p \in Permits : tx[p] # w
      BY <2>1, WorkersAssumption DEF OpenInv, RequestPC, Reporting
    <3>2. status' = status
      BY <2>3, <3>1 DEF Rollback, TypeInv, TypeOK
    <3> QED BY <2>3, <3>2
  <2>4. CASE CommitOutcome(w)
    <3>1. outcome[w] \in Outcomes
      BY <2>1 DEF TypeInv, HandlersOK, Reporting
    <3>2. outcome[w].permit \in Permits
      BY <3>1 DEF Outcomes
    <3>3. treasury'.current_aum = NewAum(outcome[w])
      BY <2>4 DEF CommitOutcome, TypeInv, TypeOK, TreasuryRows
    <3>4. status'[outcome[w].permit] = "CONSUMED"
      BY <2>4, <3>2 DEF CommitOutcome, StatusAfterRevoking
    <3> QED BY <2>1, <3>3, <3>4 DEF NewAum
  <2>5. pc[w] # "commit" /\ pc[w] # "revoke"
    BY <2>1 DEF Reporting
  <2> QED BY <2>1, <2>2, <2>3, <2>4, <2>5, ReturnStep DEF Commit, CommitRevocation, Reporting
<1>3. Base => TypeInv /\ OpenInv
  BY DEF Base
<1> QED
  BY <1>1, <1>2, <1>3, BaseInit, BaseStep, FreshStep, PTL DEF Spec, OutcomeMovesAum
-----------------------------------------------------------------------------
(* The ledger.                                                             *)

\* A grant leaves a treasury that runs ...
Running ==
  /\ treasury.health # "HALTED"
  /\ ~check_drawdown_limit(treasury.peak_aum, treasury.current_aum, content.treasury_rules)

\* What an agent has reserved on a wallet, without the room that its negative
\* permits have made there since.
Net(a, l) == Cardinality(Units(ActiveFor(a, l))) - Cardinality(Credits(Decided(a, l)))

\* ... and an agent on a wallet within its rule ...
PairWithin(a, l) ==
  /\ <<a, l>> \in DOMAIN content.agent_wallet_rules
  /\ Cardinality(ActiveFor(a, l)) <= content.agent_wallet_rules[<<a, l>>].concurrent_permit_cap
  /\ Net(a, l) <= content.agent_wallet_rules[<<a, l>>].allocation_pct * treasury.current_aum

\* ... as the whole treasury is within its own.
Admissible(p) ==
  /\ Running
  /\ PairWithin(row[p].agent, row[p].wallet)
  /\ row[p].amount
       <= content.agent_wallet_rules[<<row[p].agent, row[p].wallet>>].tier_limit_usd
  /\ Cardinality(Active) <= content.treasury_rules.max_concurrent_permits

\* Without concurrency what a handler has read is so until it is done: ...
Knows(w, p) ==
  LET pair == <<row[p].agent, row[p].wallet>>
  IN  /\ snap[w].view.treasury = treasury /\ snap[w].view.rules = content.treasury_rules
      /\ pair \in DOMAIN content.agent_wallet_rules
      /\ snap[w].view.rule = content.agent_wallet_rules[pair]
      /\ pc[w] \in {"count", "decide"} =>
           Net(pair[1], pair[2]) <= snap[w].reserved
      /\ pc[w] = "decide" =>
           Cardinality(ActiveFor(pair[1], pair[2])) <= snap[w].active_count

\* ... each leg it has approved is admissible, and a revocation has taken what it
\* should.
SerialFor(w) ==
  /\ \A p \in Permits : tx[p] = w /\ p \in Active => Admissible(p)
  /\ \A p \in Permits : AtLeg(w, p) /\ pc[w] \in {"reserved", "count", "decide"} => Knows(w, p)
  /\ pc[w] = "written" /\ TriggersHalt(outcome[w]) =>
       ActiveCommitted \subseteq revocation[w].permits
  /\ pc[w] = "revoke" =>
       \A p \in revocation[w].permits : row[p].agent = revocation[w].agent

SerialInv == \A w \in Workers : SerialFor(w)

\* What others do to a handler when nobody else has one.
Dwindles(w) ==
  /\ pc'[w] = pc[w] /\ snap'[w] = snap[w] /\ request'[w] = request[w]
  /\ outcome'[w] = outcome[w] /\ revocation'[w] = revocation[w]
  /\ UNCHANGED <<treasury, content, tx, row>>
  /\ Active' \subseteq Active
  /\ \A p \in Permits : status[p] # "NONE" => status'[p] # "NONE"

LEMMA SerialCases ==
  ASSUME TypeInv, [Next]_vars, \A u, v \in Workers : u = v, ResyncTotals = {},
         NEW w \in Workers
  PROVE  \/ pc'[w] \in {"idle", "outcome"}
         \/ Dwindles(w)
         \/ \E P \in SUBSET Permits, require_all \in BOOLEAN :
              \E r \in [P -> Legs] : Accept(w, require_all, r)
         \/ \E p \in Permits : \/ ReadSlot(w, p) \/ ReadTreasury(w, p) \/ ReadReserved(w, p)
                               \/ ReadActiveCount(w, p) \/ Decide(w, p)
         \/ WriteOutcome(w)
         \/ \E a \in Agents : RevokePermits(w, a)
<1> USE DEF permitVars, treasuryVars, handlerVars
<1>0. /\ pc \in [Workers -> PC] /\ status \in [Permits -> PermitStatus]
  BY DEF TypeInv, TypeOK
<1>1. CASE UNCHANGED vars
  BY <1>1 DEF vars, Dwindles, Active
<1>2. ASSUME NEW v \in Workers, Begin(v) \/ Proceed(v) \/ Fail(v)
      PROVE  Begin(w) \/ Proceed(w) \/ Fail(w)
  BY <1>2
<1>3. CASE RequestPermit(w) \/ RequestPermitGroup(w)
  BY <1>3, RequestAccepts
<1>4. CASE Fail(w) \/ Commit(w) \/ CommitOutcome(w) \/ CommitRevocation(w)
  BY <1>0, <1>4 DEF Fail, Rollback, Commit, CommitOutcome, CommitRevocation
<1>5. ASSUME NEW p \in Permits, NEW pnl \in Pnls, ReadOutcome(w, p, pnl)
      PROVE  pc'[w] = "outcome"
  BY <1>0, <1>5 DEF ReadOutcome
<1>6. CASE VerifyWallet(w) \/ ResumeTreasury(w) \/ \E c \in Contents : UpdateConstitution(w, c)
  BY <1>0, <1>6 DEF VerifyWallet, ResumeTreasury, UpdateConstitution
<1>7. CASE Background
  BY <1>0, <1>7 DEF Background, ExpirePermits, Resync, WriteSlotStatus, Dwindles, Active
<1>8. CASE IntentEnds
  <2>1. PICK q \in Permits, s \in Settlements : SettleIntent(q, s)
    BY <1>8 DEF IntentEnds
  <2> QED BY <1>0, <2>1, NumbersAssumption DEF SettleIntent, Dwindles, Active
<1> QED
  BY <1>1, <1>2, <1>3, <1>4, <1>5, <1>6, <1>7, <1>8 DEF Next, Begin, Proceed, Dashboard

\* Every row is visible to the only handler.
LEMMA AllVisible ==
  ASSUME TypeInv, \A u, v \in Workers : u = v, NEW w \in Workers
  PROVE  VisibleTo(w) = Permits
BY DEF VisibleTo, TypeInv, TypeOK

\* What is counted is finite.
Countable ==
  \A a, l : /\ IsFiniteSet(Units(ActiveFor(a, l))) /\ IsFiniteSet(Credits(Decided(a, l)))
            /\ Cardinality(Units(ActiveFor(a, l))) \in Nat
            /\ Cardinality(Credits(Decided(a, l))) \in Nat
            /\ Cardinality(ActiveFor(a, l)) \in Nat /\ Cardinality(Active) \in Nat
            /\ Net(a, l) \in Int

LEMMA NetFinite == TypeInv => Countable
<1> SUFFICES ASSUME TypeInv, NEW a, NEW l
             PROVE  /\ IsFiniteSet(Units(ActiveFor(a, l)))
                    /\ IsFiniteSet(Credits(Decided(a, l)))
                    /\ Cardinality(Units(ActiveFor(a, l))) \in Nat
                    /\ Cardinality(Credits(Decided(a, l))) \in Nat
                    /\ Cardinality(ActiveFor(a, l)) \in Nat /\ Cardinality(Active) \in Nat
                    /\ Net(a, l) \in Int
  BY DEF Countable
<1>1. /\ ActiveFor(a, l) \in SUBSET Permits /\ Decided(a, l) \in SUBSET Permits
      /\ Active \in SUBSET Permits
  BY DEF ActiveFor, Active, Decided
<1>2. row \in [Permits -> PermitRows]
  BY DEF TypeInv, TypeOK
<1>3. /\ IsFiniteSet(Units(ActiveFor(a, l))) /\ IsFiniteSet(Credits(Decided(a, l)))
      /\ Cardinality(Units(ActiveFor(a, l))) \in Nat
      /\ Cardinality(Credits(Decided(a, l))) \in Nat
  BY <1>1, <1>2, UnitsFinite
<1> QED BY <1>1, <1>3, PermitsFinite DEF Net

LEMMA NetFiniteNext == TypeInv' => Countable'
BY NetFinite, PTL

\* Fewer active permits keep an agent within its rule, as long as no row that
\* was decided on is gone.
LEMMA PairStays ==
  ASSUME TypeInv, TypeInv', UNCHANGED <<treasury, content>>, Active' \subseteq Active,
         \A p \in Permits : status[p] # "NONE" => Remains(p),
         NEW a, NEW l
  PROVE  /\ Cardinality(ActiveFor(a, l)') <= Cardinality(ActiveFor(a, l))
         /\ Net(a, l)' <= Net(a, l)
         /\ Cardinality(Active') <= Cardinality(Active)
         /\ Cardinality(ActiveFor(a, l)) \in Nat /\ Cardinality(ActiveFor(a, l)') \in Nat
         /\ Net(a, l) \in Int /\ Net(a, l)' \in Int
         /\ Cardinality(Active) \in Nat /\ Cardinality(Active') \in Nat
<1>0. /\ IsFiniteSet(Units(ActiveFor(a, l)))
      /\ Cardinality(Units(ActiveFor(a, l))) \in Nat
      /\ Cardinality(Credits(Decided(a, l))) \in Nat
      /\ Net(a, l) \in Int
  BY NetFinite DEF Countable
<1>1. /\ IsFiniteSet(Credits(Decided(a, l))')
      /\ Cardinality(Units(ActiveFor(a, l))') \in Nat
      /\ Cardinality(Credits(Decided(a, l))') \in Nat
      /\ Net(a, l)' \in Int
  BY NetFiniteNext DEF Countable
<1>2. ActiveFor(a, l)' \subseteq ActiveFor(a, l) /\ ActiveFor(a, l) \in SUBSET Permits
  BY DEF ActiveFor, Active, Remains
<1>3. Units(ActiveFor(a, l))' \subseteq Units(ActiveFor(a, l))
  BY <1>2 DEF ActiveFor, Active, Units, Remains
<1>4. Credits(Decided(a, l)) \subseteq Credits(Decided(a, l))'
  <2> SUFFICES ASSUME NEW x \in Credits(Decided(a, l)) PROVE x \in Credits(Decided(a, l))'
    OBVIOUS
  <2>1. PICK p \in Decided(a, l) : x \in {p} \X (1..(-row[p].amount))
    BY DEF Credits
  <2>2. p \in Decided(a, l)' /\ row'[p].amount = row[p].amount
    BY <2>1 DEF Decided, Remains
  <2> QED BY <2>1, <2>2 DEF Credits
<1>5. Cardinality(Units(ActiveFor(a, l))') <= Cardinality(Units(ActiveFor(a, l)))
  BY <1>0, <1>3, FS_Subset
<1>6. Cardinality(Credits(Decided(a, l))) <= Cardinality(Credits(Decided(a, l))')
  BY <1>1, <1>4, FS_Subset
<1>7. Net(a, l)' <= Net(a, l)
  BY <1>0, <1>1, <1>5, <1>6 DEF Net
<1>8. Active \in SUBSET Permits /\ Active' \in SUBSET Permits
  BY DEF Active
<1> QED BY <1>0, <1>1, <1>2, <1>7, <1>8, PermitsFinite, FS_Subset

\* What an approval adds, and what it finds.
LEMMA SerialDecision ==
  ASSUME Base, SerialInv, \A u, v \in Workers : u = v,
         NEW w \in Workers, NEW p \in Permits, Decide(w, p),
         Decision(w, p, Cardinality(Active \cap VisibleTo(w))).approved,
         NEW a, a = row[p].agent, NEW l, l = row[p].wallet,
         NEW amount, amount = Decision(w, p, Cardinality(Active \cap VisibleTo(w))).approved_amount
  PROVE  LET rule == content.agent_wallet_rules[<<a, l>>]
         IN  /\ Running /\ <<a, l>> \in DOMAIN content.agent_wallet_rules
             /\ rule \in WalletRules /\ content.treasury_rules \in TreasuryRules
             /\ treasury.current_aum \in Int
             /\ amount \in Int /\ amount <= rule.tier_limit_usd
             /\ Cardinality(ActiveFor(a, l)) + 1 <= rule.concurrent_permit_cap
             /\ Net(a, l) <= rule.allocation_pct * treasury.current_aum
             /\ Net(a, l) + amount <= rule.allocation_pct * treasury.current_aum
             /\ Cardinality(Active) + 1 <= content.treasury_rules.max_concurrent_permits
<1> DEFINE rule == content.agent_wallet_rules[<<a, l>>]
           n == Cardinality(Active \cap VisibleTo(w))
           verdict == Decision(w, p, n)
           leg == [wallet_address |-> l, requested_amount |-> row[p].amount]
           access == [can_execute |-> snap[w].can_execute, wallet_address |-> l,
                      allocation_pct |-> rule.allocation_pct,
                      tier_limit_usd |-> rule.tier_limit_usd,
                      concurrent_permit_cap |-> rule.concurrent_permit_cap]
           engine == run_policy_engine(leg, treasury, access, content.treasury_rules,
                                       snap[w].reserved, snap[w].active_count, n)
<1>0. /\ TypeInv /\ snap \in [Workers -> Snaps] /\ row \in [Permits -> PermitRows]
      /\ treasury \in TreasuryRows /\ request \in [Workers -> Requests]
  BY DEF Base, TypeInv, TypeOK
<1>1. AtLeg(w, p) /\ pc[w] = "decide"
  BY DEF Decide
<1>2. Knows(w, p)
  BY <1>1 DEF SerialInv, SerialFor
<1>3. /\ <<a, l>> \in DOMAIN content.agent_wallet_rules
      /\ rule \in WalletRules /\ content.treasury_rules \in TreasuryRules
      /\ snap[w].view.treasury = treasury /\ snap[w].view.rules = content.treasury_rules
      /\ snap[w].view.rule = rule
      /\ Net(a, l) <= snap[w].reserved
      /\ Cardinality(ActiveFor(a, l)) <= snap[w].active_count
  BY <1>0, <1>1, <1>2 DEF Knows, TypeInv, TypeOK, IsContent
<1>4. n = Cardinality(Active)
  <2>1. Active \cap VisibleTo(w) = Active
    BY <1>0, AllVisible DEF Active
  <2> QED BY <2>1
<1> HIDE DEF n
<1>5. verdict = engine
  BY <1>3 DEF Decision
<1>6. verdict.approved /\ amount = verdict.approved_amount
  BY DEF n
<1>7. /\ leg.requested_amount \in Int /\ access.tier_limit_usd \in Nat \ {0}
      /\ access.allocation_pct \in Int /\ treasury.current_aum \in Int
      /\ access.tier_limit_usd = rule.tier_limit_usd
      /\ access.concurrent_permit_cap = rule.concurrent_permit_cap
      /\ access.allocation_pct = rule.allocation_pct
      /\ snap[w].reserved \in Int /\ snap[w].active_count \in Nat
      /\ rule.concurrent_permit_cap \in Nat
      /\ content.treasury_rules.max_concurrent_permits \in Nat
  BY <1>0, <1>3 DEF PermitRows, WalletRules, TreasuryRows, TreasuryRules, Snaps
<1> HIDE DEF rule, leg, access, verdict
<1>8. /\ treasury.health # "HALTED"
      /\ ~(snap[w].active_count >= access.concurrent_permit_cap)
      /\ ~(n >= content.treasury_rules.max_concurrent_permits)
  BY <1>5, <1>6, EngineApproves
<1>9. /\ engine.approved_amount <= access.tier_limit_usd
      /\ snap[w].reserved < access.allocation_pct * treasury.current_aum
      /\ ~check_drawdown_limit(treasury.peak_aum, treasury.current_aum, content.treasury_rules)
  BY <1>5, <1>6, <1>7, EngineGrants
<1>10. engine.approved_amount <= access.allocation_pct * treasury.current_aum - snap[w].reserved
  BY <1>5, <1>6, <1>7, EngineAllocates
<1> HIDE DEF engine
<1>11. /\ Cardinality(ActiveFor(a, l)) \in Nat /\ Cardinality(Active) \in Nat
       /\ Net(a, l) \in Int
  BY <1>0, NetFinite DEF Countable
<1>12. Cardinality(ActiveFor(a, l)) + 1 <= rule.concurrent_permit_cap
  BY <1>3, <1>7, <1>8, <1>11
<1>13. Cardinality(Active) + 1 <= content.treasury_rules.max_concurrent_permits
  BY <1>4, <1>7, <1>8, <1>11
<1>14. amount \in Int /\ amount <= rule.tier_limit_usd
  <2>1. engine.approved_amount \in Int
    BY <1>7, EngineGrantsInt DEF engine
  <2> QED BY <1>5, <1>6, <1>7, <1>9, <2>1
<1>15. /\ Net(a, l) <= rule.allocation_pct * treasury.current_aum
       /\ Net(a, l) + amount <= rule.allocation_pct * treasury.current_aum
  <2> DEFINE limit == rule.allocation_pct * treasury.current_aum
  <2>1. limit \in Int
    BY <1>7
  <2>2. amount <= limit - snap[w].reserved /\ snap[w].reserved < limit
    BY <1>5, <1>6, <1>7, <1>9, <1>10
  <2> HIDE DEF limit
  <2>3. Net(a, l) <= limit /\ Net(a, l) + amount <= limit
    BY <1>3, <1>7, <1>11, <1>14, <2>1, <2>2
  <2> QED BY <2>3 DEF limit
<1> QED
  BY <1>3, <1>7, <1>8, <1>9, <1>12, <1>13, <1>14, <1>15 DEF Running, rule

\* One more active permit, of the given amount, and all that were decided on.
LEMMA OneMore ==
  ASSUME TypeInv, TypeInv', NEW p \in Permits, NEW amount \in Int, NEW m \in Nat,
         amount <= m, NEW a, NEW l,
         Active' \subseteq Active \cup {p},
         \A q \in Permits : row'[q].agent = row[q].agent /\ row'[q].wallet = row[q].wallet,
         \A q \in Permits \ {p} : row'[q].amount = row[q].amount,
         row'[p].amount = amount,
         \A q \in Permits : status[q] # "NONE" => Remains(q)
  PROVE  /\ Cardinality(Active') <= Cardinality(Active) + 1
         /\ Cardinality(ActiveFor(a, l)') <= Cardinality(ActiveFor(a, l)) + 1
         /\ Net(a, l)' <= Net(a, l) + m
         /\ Cardinality(ActiveFor(a, l)') \in Nat /\ Cardinality(ActiveFor(a, l)) \in Nat
         /\ Net(a, l)' \in Int /\ Net(a, l) \in Int
<1> DEFINE New == {p} \X (1..m)
<1>0. Active \in SUBSET Permits /\ ActiveFor(a, l) \in SUBSET Permits
  BY DEF Active, ActiveFor
<1>1. ASSUME NEW S \in SUBSET Permits, NEW T \in SUBSET (S \cup {p})
      PROVE  Cardinality(T) <= Cardinality(S) + 1
  <2>1. IsFiniteSet(S) /\ Cardinality(S) \in Nat
    BY PermitsFinite
  <2>2. /\ IsFiniteSet(S \cup {p})
        /\ Cardinality(S \cup {p}) = IF p \in S THEN Cardinality(S) ELSE Cardinality(S) + 1
    BY <2>1, FS_AddElement
  <2>3. Cardinality(S \cup {p}) <= Cardinality(S) + 1 /\ Cardinality(S) + 1 \in Int
    BY <2>1, <2>2
  <2> QED BY <2>2, <2>3, SmallerSet
<1>2. ActiveFor(a, l)' \in SUBSET (ActiveFor(a, l) \cup {p})
  BY DEF ActiveFor, Active
<1>3. Units(ActiveFor(a, l))' \in SUBSET (Units(ActiveFor(a, l)) \cup New)
  <2> SUFFICES ASSUME NEW x \in Units(ActiveFor(a, l))'
               PROVE  x \in Units(ActiveFor(a, l)) \cup New
    OBVIOUS
  <2>1. PICK q \in ActiveFor(a, l)' : x \in {q} \X (1..row'[q].amount)
    BY DEF Units
  <2>2. CASE q = p
    <3>1. 1..amount \subseteq 1..m
      OBVIOUS
    <3> QED BY <2>1, <2>2, <3>1
  <2>3. CASE q # p
    <3>1. q \in ActiveFor(a, l) /\ row'[q].amount = row[q].amount
      BY <1>0, <1>2, <2>1, <2>3
    <3> QED BY <2>1, <3>1 DEF Units
  <2> QED BY <2>2, <2>3
<1>4. IsFiniteSet(Units(ActiveFor(a, l))) /\ Cardinality(Units(ActiveFor(a, l))) \in Nat
  BY NetFinite DEF Countable
<1>5. IsFiniteSet(New) /\ Cardinality(New) = m
  <2>1. IsFiniteSet({p}) /\ Cardinality({p}) = 1
    BY FS_Singleton
  <2>2. IsFiniteSet(1..m) /\ Cardinality(1..m) = m
    BY FS_Interval
  <2>3. /\ IsFiniteSet({p} \X (1..m))
        /\ Cardinality({p} \X (1..m)) = Cardinality({p}) * Cardinality(1..m)
    BY <2>1, <2>2, FS_Product
  <2> QED BY <2>1, <2>2, <2>3
<1> HIDE DEF New
<1>6. /\ IsFiniteSet(Units(ActiveFor(a, l)) \cup New)
      /\ Cardinality(Units(ActiveFor(a, l)) \cup New)
           <= Cardinality(Units(ActiveFor(a, l))) + m
  <2>1. /\ IsFiniteSet(Units(ActiveFor(a, l)) \cup New)
        /\ Cardinality(Units(ActiveFor(a, l)) \cup New)
             = Cardinality(Units(ActiveFor(a, l))) + Cardinality(New)
                 - Cardinality(Units(ActiveFor(a, l)) \cap New)
    BY <1>4, <1>5, FS_Union
  <2>2. Cardinality(Units(ActiveFor(a, l)) \cap New) \in Nat
    BY <1>4, FS_Intersection, FS_CardinalityType
  <2> QED BY <1>4, <1>5, <2>1, <2>2
<1>7. Cardinality(Units(ActiveFor(a, l))) + m \in Int
  BY <1>4
<1>8. Cardinality(Units(ActiveFor(a, l))') <= Cardinality(Units(ActiveFor(a, l))) + m
  BY <1>3, <1>6, <1>7, SmallerSet
<1>9. Cardinality(Active') <= Cardinality(Active) + 1
  BY <1>0, <1>1
<1>10. Cardinality(ActiveFor(a, l)') <= Cardinality(ActiveFor(a, l)) + 1
  BY <1>0, <1>1, <1>2
<1>11. Cardinality(ActiveFor(a, l)') \in Nat /\ Cardinality(ActiveFor(a, l)) \in Nat
  BY <1>0, PermitsFinite DEF ActiveFor, Active
<1>12. Cardinality(Credits(Decided(a, l))) <= Cardinality(Credits(Decided(a, l))')
  <2>1. Credits(Decided(a, l)) \subseteq Credits(Decided(a, l))'
    <3> SUFFICES ASSUME NEW x \in Credits(Decided(a, l)) PROVE x \in Credits(Decided(a, l))'
      OBVIOUS
    <3>1. PICK q \in Decided(a, l) : x \in {q} \X (1..(-row[q].amount))
      BY DEF Credits
    <3>2. q \in Decided(a, l)' /\ row'[q].amount = row[q].amount
      BY <3>1 DEF Decided, Remains
    <3> QED BY <3>1, <3>2 DEF Credits
  <2>2. IsFiniteSet(Credits(Decided(a, l))')
    BY NetFiniteNext DEF Countable
  <2> QED BY <2>1, <2>2, FS_Subset
<1>13. /\ Cardinality(Credits(Decided(a, l))) \in Nat
       /\ Net(a, l) \in Int
  BY NetFinite DEF Countable
<1>14. /\ Cardinality(Credits(Decided(a, l))') \in Nat
       /\ Cardinality(Units(ActiveFor(a, l))') \in Nat
       /\ Net(a, l)' \in Int
  BY NetFiniteNext DEF Countable
<1>15. Net(a, l)' <= Net(a, l) + m
  BY <1>4, <1>8, <1>12, <1>13, <1>14 DEF Net
<1> QED BY <1>9, <1>10, <1>11, <1>13, <1>14, <1>15

\* What an agent is within now it is within after a step that adds nothing.
LEMMA AdmissibleStays ==
  ASSUME TypeInv, TypeInv', UNCHANGED <<treasury, content>>, Active' \subseteq Active,
         \A p \in Permits : status[p] # "NONE" => Remains(p),
         NEW p \in Active', Admissible(p)
  PROVE  Admissible(p)'
<1> DEFINE a == row[p].agent
           l == row[p].wallet
           rule == content.agent_wallet_rules[<<a, l>>]
<1>0. /\ IsContent(content) /\ treasury \in TreasuryRows /\ row \in [Permits -> PermitRows]
  BY DEF TypeInv, TypeOK
<1>1. PICK b : b = a
  OBVIOUS
<1>2. PICK m : m = l
  OBVIOUS
<1>3. /\ Cardinality(ActiveFor(b, m)') <= Cardinality(ActiveFor(b, m))
      /\ Net(b, m)' <= Net(b, m)
      /\ Cardinality(Active') <= Cardinality(Active)
      /\ Cardinality(Active) \in Nat /\ Cardinality(Active') \in Nat
      /\ Cardinality(ActiveFor(b, m)) \in Nat /\ Cardinality(ActiveFor(b, m)') \in Nat
      /\ Net(b, m) \in Int /\ Net(b, m)' \in Int
  BY PairStays
<1>4. /\ Running /\ <<b, m>> \in DOMAIN content.agent_wallet_rules
      /\ Cardinality(ActiveFor(b, m)) <= rule.concurrent_permit_cap
      /\ Net(b, m) <= rule.allocation_pct * treasury.current_aum
      /\ row[p].amount <= rule.tier_limit_usd
      /\ Cardinality(Active) <= content.treasury_rules.max_concurrent_permits
  BY <1>1, <1>2 DEF Admissible, PairWithin
<1>5. /\ rule \in WalletRules /\ content.treasury_rules \in TreasuryRules
      /\ rule.allocation_pct * treasury.current_aum \in Int
  BY <1>0, <1>1, <1>2, <1>4 DEF IsContent, WalletRules, TreasuryRows
<1>6. /\ Cardinality(ActiveFor(b, m)') <= rule.concurrent_permit_cap
      /\ Cardinality(Active') <= content.treasury_rules.max_concurrent_permits
  BY <1>3, <1>4, <1>5 DEF WalletRules, TreasuryRules
<1>7. Net(b, m)' <= rule.allocation_pct * treasury.current_aum
  <2> DEFINE limit == rule.allocation_pct * treasury.current_aum
  <2>1. limit \in Int /\ Net(b, m) <= limit
    BY <1>4, <1>5
  <2> HIDE DEF limit
  <2>2. Net(b, m)' <= limit
    BY <1>3, <2>1
  <2> QED BY <2>2 DEF limit
<1>8. row'[p].agent = b /\ row'[p].wallet = m /\ row'[p].amount = row[p].amount
  BY <1>1, <1>2 DEF Active, Remains
<1>9. PairWithin(b, m)'
  BY <1>1, <1>2, <1>4, <1>6, <1>7 DEF PairWithin
<1> QED BY <1>1, <1>2, <1>4, <1>6, <1>8, <1>9 DEF Admissible, Running

LEMMA SerialInit == Init => SerialInv
BY WorkersAssumption DEF Init, SerialInv, SerialFor, AtLeg

\* A handler that owns no row has nothing of a request to know.
LEMMA SerialRests ==
  ASSUME OpenInv', NEW w \in Workers, pc'[w] \in {"idle", "outcome"}
  PROVE  SerialFor(w)'
BY WorkersAssumption DEF OpenInv, RequestPC, SerialFor, AtLeg

LEMMA SerialDwindles ==
  ASSUME TypeInv, TypeInv', NEW w \in Workers, SerialFor(w), Dwindles(w)
  PROVE  SerialFor(w)'
<1> USE DEF Dwindles, Remains
<1>0. pc \in [Workers -> PC]
  BY DEF TypeInv, TypeOK
<1>1. ASSUME NEW p \in Permits, tx'[p] = w, p \in Active'
      PROVE  Admissible(p)'
  <2>1. Admissible(p)
    BY <1>1 DEF SerialFor
  <2> QED BY <1>1, <2>1, AdmissibleStays
<1>2. ASSUME NEW p \in Permits, AtLeg(w, p)', pc'[w] \in {"reserved", "count", "decide"}
      PROVE  Knows(w, p)'
  <2>0. PICK b, m : b = row[p].agent /\ m = row[p].wallet
    OBVIOUS
  <2>1. AtLeg(w, p) /\ pc[w] \in {"reserved", "count", "decide"}
    BY <1>2 DEF AtLeg
  <2>2. Knows(w, p)
    BY <2>1 DEF SerialFor
  <2>3. /\ Cardinality(ActiveFor(b, m)') <= Cardinality(ActiveFor(b, m))
        /\ Net(b, m)' <= Net(b, m)
        /\ Cardinality(ActiveFor(b, m)) \in Nat /\ Cardinality(ActiveFor(b, m)') \in Nat
        /\ Net(b, m) \in Int /\ Net(b, m)' \in Int
    BY PairStays
  <2>4. snap[w].reserved \in Int /\ snap[w].active_count \in Nat
    BY DEF TypeInv, TypeOK, Snaps
  <2>5. /\ pc'[w] \in {"count", "decide"} => Net(b, m)' <= snap'[w].reserved
        /\ pc'[w] = "decide" => Cardinality(ActiveFor(b, m)') <= snap'[w].active_count
    BY <2>0, <2>2, <2>3, <2>4 DEF Knows
  <2> QED BY <2>0, <2>2, <2>5 DEF Knows
<1>3. ASSUME pc'[w] = "written", TriggersHalt(outcome[w])'
      PROVE  ActiveCommitted' \subseteq revocation'[w].permits
  <2>1. TriggersHalt(outcome[w])
    BY <1>3 DEF TriggersHalt, NewAum
  <2> QED BY <1>3, <2>1 DEF SerialFor, ActiveCommitted
<1>4. ASSUME pc'[w] = "revoke", NEW p \in revocation'[w].permits
      PROVE  row'[p].agent = revocation'[w].agent
  BY <1>4 DEF SerialFor
<1> QED BY <1>1, <1>2, <1>3, <1>4 DEF SerialFor

LEMMA SerialAccept ==
  ASSUME TypeInv, OpenInv, NEW w \in Workers, NEW P \in SUBSET Permits,
         NEW require_all \in BOOLEAN, NEW r \in [P -> Legs], Accept(w, require_all, r)
  PROVE  SerialFor(w)'
<1> USE DEF treasuryVars
<1>0. /\ row \in [Permits -> PermitRows] /\ pc \in [Workers -> PC]
      /\ pc'[w] = "slot" /\ DOMAIN r = P
  BY DEF TypeInv, TypeOK, Accept
<1>1. ASSUME NEW p \in Permits, tx'[p] = w
      PROVE  p \in P /\ row'[p] = r[p] /\ status'[p] = "NONE"
  <2>1. tx[p] # w
    BY WorkersAssumption DEF OpenInv, RequestPC, Accept
  <2> QED BY <1>0, <1>1, <2>1 DEF Accept
<1> QED BY <1>0, <1>1 DEF SerialFor, Active

LEMMA SerialRead ==
  ASSUME TypeInv, TypeInv', OpenInv, OpenInv', \A u, v \in Workers : u = v,
         NEW w \in Workers, SerialFor(w), NEW p \in Permits,
         ReadSlot(w, p) \/ ReadTreasury(w, p) \/ ReadReserved(w, p) \/ ReadActiveCount(w, p)
  PROVE  SerialFor(w)'
<1> USE DEF treasuryVars, permitVars
<1> DEFINE a == row[p].agent
           l == row[p].wallet
<1>0. /\ pc \in [Workers -> PC] /\ snap \in [Workers -> Snaps]
      /\ row \in [Permits -> PermitRows]
  BY DEF TypeInv, TypeOK
<1>1. CASE pc'[w] = "idle"
  BY <1>1, SerialRests
<1>2. ASSUME pc'[w] # "idle"
      PROVE  /\ UNCHANGED <<treasury, content, status, tx, row, request>> /\ AtLeg(w, p)
             /\ pc[w] # "commit" /\ pc'[w] \in {"treasury", "reserved", "count", "decide"}
             /\ UNCHANGED Active /\ UNCHANGED ActiveFor(a, l)
  <2>1. ~Rollback(w)
    BY <1>0, <1>2 DEF Rollback
  <2>2. /\ UNCHANGED <<treasury, content, status, tx, row, request>> /\ AtLeg(w, p)
        /\ pc[w] # "commit" /\ pc'[w] \in {"treasury", "reserved", "count", "decide"}
    BY <1>0, <2>1 DEF ReadSlot, ReadTreasury, ReadReserved, ReadActiveCount
  <2> QED BY <2>2 DEF Active, ActiveFor
<1> SUFFICES ASSUME pc'[w] # "idle" PROVE SerialFor(w)'
  BY <1>1
<1>3. ASSUME NEW q \in Permits, tx'[q] = w, q \in Active'
      PROVE  Admissible(q)'
  <2>1. Admissible(q)
    BY <1>2, <1>3 DEF SerialFor
  <2> QED BY <1>2, <1>3, <2>1, AdmissibleStays DEF Remains
<1>4. ASSUME NEW q \in Permits, AtLeg(w, q)', pc'[w] \in {"reserved", "count", "decide"}
      PROVE  Knows(w, q)'
  <2>1. q = p
    BY <1>2, <1>4, WorkersAssumption DEF AtLeg, OpenInv
  <2>2. PICK b, m : b = a /\ m = l
    OBVIOUS
  <2>3. pc[w] \in {"reserved", "count"} => Knows(w, p)
    BY <1>2 DEF SerialFor
  <2>4. UNCHANGED <<Cardinality(ActiveFor(b, m)), Net(b, m)>>
    BY <1>2 DEF Net, Units, Credits, Decided, ActiveFor
  <2>5. ActiveFor(b, m) \cap VisibleTo(w) = ActiveFor(b, m)
    BY AllVisible DEF ActiveFor, Active
  <2>6. /\ Cardinality(ActiveFor(b, m)) \in Nat /\ Net(b, m) \in Int
        /\ Net(b, m) <= SumApproved(ActiveFor(b, m))
    <3>1. Credits(ActiveFor(b, m)) \subseteq Credits(Decided(b, m))
      BY DEF Credits, ActiveFor, Active, Decided
    <3>2. /\ Cardinality(ActiveFor(b, m)) \in Nat /\ Net(b, m) \in Int
          /\ IsFiniteSet(Credits(Decided(b, m)))
          /\ Cardinality(Credits(Decided(b, m))) \in Nat
          /\ Cardinality(Units(ActiveFor(b, m))) \in Nat
      BY NetFinite DEF Countable
    <3>3. /\ Cardinality(Credits(ActiveFor(b, m))) <= Cardinality(Credits(Decided(b, m)))
          /\ Cardinality(Credits(ActiveFor(b, m))) \in Nat
      BY <3>1, <3>2, FS_Subset, FS_CardinalityType
    <3> QED BY <3>2, <3>3 DEF Net, SumApproved
  <2>7. CASE ReadSlot(w, p)
    BY <1>0, <1>4, <2>7 DEF ReadSlot
  <2>8. CASE ReadTreasury(w, p)
    <3>1. ~Rollback(w)
      BY <1>0 DEF Rollback
    <3>2. /\ <<b, m>> \in DOMAIN content.agent_wallet_rules /\ pc'[w] = "reserved"
          /\ snap'[w].view = [treasury |-> treasury, rules |-> content.treasury_rules,
                              rule |-> content.agent_wallet_rules[<<b, m>>]]
      BY <1>0, <2>2, <2>8, <3>1 DEF ReadTreasury, Snaps
    <3> QED BY <1>2, <2>1, <2>2, <3>2 DEF Knows
  <2>9. CASE ReadReserved(w, p)
    <3>1. /\ pc[w] = "reserved" /\ pc'[w] = "count" /\ snap'[w].view = snap[w].view
          /\ snap'[w].reserved = SumApproved(ActiveFor(b, m))
      BY <1>0, <2>2, <2>5, <2>9 DEF ReadReserved, Snaps
    <3> QED BY <1>2, <2>1, <2>2, <2>3, <2>4, <2>6, <3>1 DEF Knows
  <2>10. CASE ReadActiveCount(w, p)
    <3>1. /\ pc[w] = "count" /\ pc'[w] = "decide" /\ snap'[w].view = snap[w].view
          /\ snap'[w].reserved = snap[w].reserved
          /\ snap'[w].active_count = Cardinality(ActiveFor(b, m))
      <4>1. /\ pc[w] = "count" /\ pc' = [pc EXCEPT ![w] = "decide"]
            /\ snap' = [snap EXCEPT ![w].active_count =
                          Cardinality(ActiveFor(b, m) \cap VisibleTo(w))]
        BY <2>2, <2>10 DEF ReadActiveCount
      <4>2. snap'[w] = [snap[w] EXCEPT !.active_count = Cardinality(ActiveFor(b, m))]
        BY <1>0, <2>5, <4>1
      <4>3. snap[w] \in Snaps
        BY <1>0
      <4> QED BY <1>0, <4>1, <4>2, <4>3 DEF Snaps
    <3> QED BY <1>2, <2>1, <2>2, <2>3, <2>4, <2>6, <3>1 DEF Knows
  <2> QED BY <2>7, <2>8, <2>9, <2>10
<1> QED BY <1>2, <1>3, <1>4 DEF SerialFor

\* An approval leaves its row within the limits, and every other approved row.
LEMMA SerialDecide ==
  ASSUME Base, TypeInv', OpenInv', SerialInv, \A u, v \in Workers : u = v,
         NEW w \in Workers, NEW p \in Permits, Decide(w, p)
  PROVE  SerialFor(w)'
<1> USE DEF treasuryVars
<1> DEFINE a == row[p].agent
           l == row[p].wallet
           verdict == Decision(w, p, Cardinality(Active \cap VisibleTo(w)))
<1>0. /\ TypeInv /\ OpenInv /\ SerialFor(w) /\ LegInv(p)
      /\ pc \in [Workers -> PC] /\ status \in [Permits -> PermitStatus]
      /\ row \in [Permits -> PermitRows] /\ request \in [Workers -> Requests]
      /\ IsContent(content) /\ treasury \in TreasuryRows
  BY DEF Base, LegsInv, SerialInv, TypeInv, TypeOK
<1>1. /\ UNCHANGED <<treasury, content, tx>> /\ AtLeg(w, p) /\ pc[w] = "decide"
      /\ pc'[w] \in {"slot", "commit"}
      /\ status'[p] = IF verdict.approved THEN "ACTIVE" ELSE "DENIED"
      /\ \A q \in Permits \ {p} : status'[q] = status[q] /\ row'[q] = row[q]
      /\ row'[p] = [row[p] EXCEPT !.amount = verdict.approved_amount]
      /\ pc'[w] = "slot" => request'[w].leg = request[w].leg + 1
  BY <1>0 DEF Decide, Requests
<1>2. /\ row'[p].agent = a /\ row'[p].wallet = l /\ row'[p].leg = row[p].leg
      /\ row'[p].amount = verdict.approved_amount
  BY <1>0, <1>1 DEF PermitRows
<1>3. \A q \in Permits : status[q] # "NONE" => Remains(q)
  <2>1. status[p] = "NONE"
    <3>1. row[p].leg \in Int /\ row[p].leg = request[w].leg /\ tx[p] = w
      BY <1>0, <1>1, NumbersAssumption DEF AtLeg, PermitRows
    <3> QED BY <1>0, <1>1, <3>1, WorkersAssumption DEF LegInv
  <2> QED BY <1>0, <1>1, <2>1 DEF Remains
<1>4. ASSUME NEW q \in Permits, tx'[q] = w, q \in Active'
      PROVE  Admissible(q)'
  <2>1. CASE ~verdict.approved
    <3>1. p \notin Active' /\ Active' \subseteq Active
      BY <1>1, <2>1 DEF Active
    <3>3. q \in Permits /\ tx[q] = w /\ q \in Active
      BY <1>1, <1>4, <3>1
    <3>4. Admissible(q)
      BY <1>0, <3>3 DEF SerialFor
    <3> QED BY <1>0, <1>1, <1>3, <1>4, <3>1, <3>4, AdmissibleStays
  <2>2. CASE verdict.approved
    <3>0. PICK b, m, amount : b = a /\ m = l /\ amount = verdict.approved_amount
      OBVIOUS
    <3> DEFINE rule == content.agent_wallet_rules[<<b, m>>]
    <3>1. /\ Running /\ <<b, m>> \in DOMAIN content.agent_wallet_rules
          /\ rule \in WalletRules /\ content.treasury_rules \in TreasuryRules
          /\ treasury.current_aum \in Int
          /\ amount \in Int /\ amount <= rule.tier_limit_usd
          /\ Cardinality(ActiveFor(b, m)) + 1 <= rule.concurrent_permit_cap
          /\ Net(b, m) <= rule.allocation_pct * treasury.current_aum
          /\ Net(b, m) + amount <= rule.allocation_pct * treasury.current_aum
          /\ Cardinality(Active) + 1 <= content.treasury_rules.max_concurrent_permits
      BY <2>2, <3>0, SerialDecision
    <3> HIDE DEF verdict
    <3>2. Active' \subseteq Active \cup {p}
      BY <1>1 DEF Active
    <3>3. PICK more \in Nat : amount <= more /\ more \in {0, amount}
      BY <3>1
    <3>4. /\ \A x \in Permits : row'[x].agent = row[x].agent /\ row'[x].wallet = row[x].wallet
          /\ \A x \in Permits \ {p} : row'[x].amount = row[x].amount
          /\ row'[p].amount = amount
      BY <1>1, <1>2, <3>0
    <3>5. Running'
      BY <1>1, <3>1 DEF Running
    <3>6. Cardinality(Active') <= content.treasury_rules.max_concurrent_permits
      <4>1. Cardinality(Active') <= Cardinality(Active) + 1
        BY <1>0, <1>3, <3>1, <3>2, <3>4, <3>3, OneMore
      <4>2. Cardinality(Active') \in Nat /\ Cardinality(Active) \in Nat
        BY PermitsFinite DEF Active
      <4> QED BY <3>1, <4>1, <4>2 DEF TreasuryRules
    <3>7. PairWithin(b, m)'
      <4> DEFINE limit == rule.allocation_pct * treasury.current_aum
      <4>1. /\ Cardinality(ActiveFor(b, m)') <= Cardinality(ActiveFor(b, m)) + 1
            /\ Net(b, m)' <= Net(b, m) + more
            /\ Cardinality(ActiveFor(b, m)') \in Nat /\ Cardinality(ActiveFor(b, m)) \in Nat
            /\ Net(b, m)' \in Int /\ Net(b, m) \in Int
        BY <1>0, <1>3, <3>1, <3>2, <3>4, <3>3, OneMore
      <4>2. Cardinality(ActiveFor(b, m)') <= rule.concurrent_permit_cap
        BY <3>1, <4>1 DEF WalletRules
      <4>3. limit \in Int /\ Net(b, m) <= limit /\ Net(b, m) + amount <= limit
        BY <3>1 DEF WalletRules
      <4> HIDE DEF limit
      <4>4. Net(b, m)' <= limit
        BY <3>3, <4>1, <4>3
      <4> QED BY <1>1, <3>1, <4>2, <4>4 DEF PairWithin, limit
    <3>8. row'[q].agent = row[q].agent /\ row'[q].wallet = row[q].wallet
      BY <3>4
    <3>9. CASE q = p
      BY <1>1, <1>2, <3>0, <3>1, <3>5, <3>6, <3>7, <3>9 DEF Admissible
    <3>10. CASE q # p
      <4>1. q \in Active /\ tx[q] = w
        BY <1>1, <1>4, <3>10 DEF Active
      <4>2. Admissible(q)
        BY <1>0, <4>1 DEF SerialFor
      <4>3. PICK c, k : c = row[q].agent /\ k = row[q].wallet
        OBVIOUS
      <4>4. CASE c = b /\ k = m
        BY <1>1, <3>1, <3>4, <3>5, <3>6, <3>7, <3>10, <4>2, <4>3, <4>4, ZenonT(40) DEF Admissible
      <4>5. CASE ~(c = b /\ k = m)
        <5>1. p \notin ActiveFor(c, k)' /\ p \notin ActiveFor(c, k)
          BY <1>2, <3>0, <4>5 DEF ActiveFor
        <5>2. /\ ActiveFor(c, k)' = ActiveFor(c, k)
              /\ \A x \in ActiveFor(c, k) : row'[x] = row[x]
          BY <1>1, <5>1 DEF ActiveFor, Active
        <5>3. UNCHANGED <<Cardinality(ActiveFor(c, k)), Net(c, k)>>
          <6>1. p \notin Decided(c, k)' /\ p \notin Decided(c, k)
            BY <1>2, <3>0, <4>5 DEF Decided
          <6>2. /\ Decided(c, k)' = Decided(c, k)
                /\ \A x \in Decided(c, k) : row'[x] = row[x]
            BY <1>1, <6>1 DEF Decided
          <6>3. Units(ActiveFor(c, k))' = Units(ActiveFor(c, k))
            BY <5>2 DEF Units
          <6>4. Credits(Decided(c, k))' = Credits(Decided(c, k))
            BY <6>2 DEF Credits
          <6> QED BY <5>2, <6>3, <6>4 DEF Net
        <5>4. PairWithin(c, k)'
          BY <1>1, <4>2, <4>3, <5>3 DEF Admissible, PairWithin
        <5> QED BY <1>1, <3>4, <3>5, <3>6, <3>10, <4>2, <4>3, <5>4 DEF Admissible
      <4> QED BY <4>4, <4>5
    <3> QED BY <3>9, <3>10
  <2> QED BY <2>1, <2>2
<1> QED BY <1>1, <1>4 DEF SerialFor

LEMMA SerialTake ==
  ASSUME TypeInv, OpenInv, NEW w \in Workers,
         WriteOutcome(w) \/ \E a \in Agents : RevokePermits(w, a)
  PROVE  SerialFor(w)'
<1> USE DEF treasuryVars, permitVars
<1>0. /\ pc \in [Workers -> PC] /\ revocation \in [Workers -> Revocations]
  BY DEF TypeInv, TypeOK
<1>1. \A p \in Permits : tx'[p] # w
  BY WorkersAssumption DEF OpenInv, RequestPC, WriteOutcome, RevokePermits
<1>2. CASE WriteOutcome(w)
  <2>1. pc'[w] = "written" /\ outcome' = outcome /\ ActiveCommitted' = ActiveCommitted
    BY <1>0, <1>2 DEF WriteOutcome, ActiveCommitted, Active
  <2>2. TriggersHalt(outcome[w])' => TriggersHalt(outcome[w])
    BY <2>1 DEF TriggersHalt, NewAum
  <2>3. TriggersHalt(outcome[w]) => revocation'[w].permits = ActiveCommitted
    BY <1>0, <1>2 DEF WriteOutcome, HaltRevokes
  <2> QED BY <1>1, <2>1, <2>2, <2>3 DEF SerialFor, AtLeg
<1>3. ASSUME NEW a \in Agents, RevokePermits(w, a)
      PROVE  SerialFor(w)'
  BY <1>0, <1>1, <1>3 DEF RevokePermits, RevokedWith, SerialFor, AtLeg
<1> QED BY <1>2, <1>3

LEMMA SerialStep ==
  ASSUME \A u, v \in Workers : u = v, ResyncTotals = {}
  PROVE  Base /\ SerialInv /\ [Next]_vars => SerialInv'
<1> SUFFICES ASSUME Base, SerialInv, [Next]_vars, NEW w \in Workers
             PROVE  SerialFor(w)'
  BY DEF SerialInv
<1>1. TypeInv /\ TypeInv' /\ OpenInv /\ OpenInv' /\ SerialFor(w)
  BY BaseStep DEF Base, SerialInv
<1>2. CASE pc'[w] \in {"idle", "outcome"}
  BY <1>1, <1>2, SerialRests
<1>3. CASE Dwindles(w)
  BY <1>1, <1>3, SerialDwindles
<1>4. ASSUME NEW P \in SUBSET Permits, NEW require_all \in BOOLEAN, NEW r \in [P -> Legs],
             Accept(w, require_all, r)
      PROVE  SerialFor(w)'
  BY <1>1, <1>4, SerialAccept
<1>5. ASSUME NEW p \in Permits,
             \/ ReadSlot(w, p) \/ ReadTreasury(w, p) \/ ReadReserved(w, p)
             \/ ReadActiveCount(w, p)
      PROVE  SerialFor(w)'
  BY <1>1, <1>5, SerialRead
<1>6. ASSUME NEW p \in Permits, Decide(w, p)
      PROVE  SerialFor(w)'
  BY <1>1, <1>6, SerialDecide
<1>7. CASE WriteOutcome(w) \/ \E a \in Agents : RevokePermits(w, a)
  BY <1>1, <1>7, SerialTake
<1> QED BY <1>1, <1>2, <1>3, <1>4, <1>5, <1>6, <1>7, SerialCases

\* The ledger counts as Permits does.
LEMMA LedgerCardinality == \A S : Ledger!Cardinality(S) = Cardinality(S)
BY DEF Ledger!Cardinality, Cardinality

\* The grants of the ledger are the committed active rows ...
LEMMA LedgerHeld ==
  ASSUME TypeInv
  PROVE  Ledger!Held = ActiveCommitted
<1>1. \A p \in Permits :
        [agent |-> row[p].agent, wallet |-> row[p].wallet, amount |-> row[p].amount] # None
  BY NoneAssumption DEF TypeInv, TypeOK, PermitRows
<1> QED BY <1>1 DEF Ledger!Held, ActiveCommitted, Active

LEMMA LedgerHeldNext == TypeInv' => Ledger!Held' = ActiveCommitted'
<1>1. TypeInv => Ledger!Held = ActiveCommitted
  BY LedgerHeld
<1>2. TypeInv' => (Ledger!Held = ActiveCommitted)'
  BY <1>1, PTL
<1> QED BY <1>2

LEMMA LedgerInit == Init => Ledger!Init
BY ContentsAssumption DEF Init, Ledger!Init, ActiveCommitted, Active, NegativeCommitted

\* What a row says of its grant stays.
Kept(P) ==
  \A p \in P : row'[p].agent = row[p].agent /\ row'[p].wallet = row[p].wallet
               /\ row'[p].amount = row[p].amount

\* ... and its negative grants are among what was ever committed, ...
Negatives ==
  [p \in Permits |->
     IF p \in NegativeCommitted
     THEN [agent |-> row[p].agent, wallet |-> row[p].wallet, amount |-> row[p].amount]
     ELSE None]

LEMMA NegativesKept ==
  ASSUME Settled' = Settled, Kept(Settled)
  PROVE  UNCHANGED Negatives
<1>1. NegativeCommitted' = NegativeCommitted
  BY DEF Settled, Kept, NegativeCommitted
<1>2. Kept(NegativeCommitted)
  BY DEF Settled, Kept, NegativeCommitted
<1> QED BY <1>1, <1>2 DEF Negatives, Kept

\* ... so a step that leaves these alone is none of the ledger's, ...
LEMMA LedgerStutters ==
  ASSUME UNCHANGED <<treasury, content, ActiveCommitted>>, Kept(ActiveCommitted),
         Settled' = Settled, Kept(Settled)
  PROVE  UNCHANGED Ledger!vars
<1>1. UNCHANGED Negatives
  BY NegativesKept
<1> QED BY <1>1 DEF Ledger!vars, Kept, Negatives

\* ... and one that only ends some of them admits nothing.
LEMMA LedgerShrinks ==
  ASSUME ActiveCommitted' \subseteq ActiveCommitted, UNCHANGED row
  PROVE  Ledger!NothingAdmitted
BY DEF Ledger!NothingAdmitted

LEMMA LedgerRollback ==
  ASSUME TypeInv, NEW w \in Workers, Rollback(w), UNCHANGED <<treasury, content>>
  PROVE  UNCHANGED Ledger!vars
<1> USE WorkersAssumption DEF Rollback, TypeInv, TypeOK
<1>1. UNCHANGED ActiveCommitted
  BY DEF ActiveCommitted, Active
<1>2. Kept(ActiveCommitted)
  BY DEF ActiveCommitted, Active, Kept
<1>3. Settled' = Settled /\ Kept(Settled)
  BY DEF Settled, Kept
<1> QED BY <1>1, <1>2, <1>3, LedgerStutters

\* A commit admits the legs that were approved.
LEMMA LedgerAdmits ==
  ASSUME Base, TypeInv', SerialInv, \A u, v \in Workers : u = v,
         NEW w \in Workers, Commit(w), ~Rollback(w)
  PROVE  Ledger!Admit \/ UNCHANGED Ledger!vars
<1> USE WorkersAssumption DEF treasuryVars
<1>0. /\ row \in [Permits -> PermitRows] /\ tx \in [Permits -> Workers \cup {None}]
      /\ TypeInv /\ OpenInv
  BY DEF Base, TypeInv, TypeOK
<1>1. /\ UNCHANGED <<treasury, content, status>>
      /\ tx' = [p \in Permits |-> IF tx[p] = w THEN None ELSE tx[p]]
      /\ row' = [p \in Permits |-> IF tx[p] = w THEN [row[p] EXCEPT !.leg = 0] ELSE row[p]]
  BY DEF Commit
<1>2. \A p \in Permits : /\ row'[p].agent = row[p].agent /\ row'[p].wallet = row[p].wallet
                         /\ row'[p].amount = row[p].amount
  BY <1>0, <1>1 DEF PermitRows
<1>3. Active' = Active /\ ActiveCommitted' = Active /\ ActiveCommitted \subseteq Active
  BY <1>0, <1>1 DEF Active, ActiveCommitted
<1>4. NegativeCommitted' = {p \in Permits : status[p] # "NONE" /\ row[p].amount < 0}
  BY <1>0, <1>1, <1>2 DEF NegativeCommitted
<1>5. ASSUME NEW p \in NegativeCommitted', p \notin NegativeCommitted
      PROVE  p \in Active /\ p \notin ActiveCommitted
  <2>1. tx[p] = w /\ status[p] # "NONE" /\ row[p].amount < 0 /\ LegInv(p)
    BY <1>0, <1>4, <1>5 DEF NegativeCommitted, Base, LegsInv
  <2> QED BY <1>4, <2>1 DEF LegInv, Active, ActiveCommitted
<1>6. ASSUME NEW p \in NegativeCommitted
      PROVE  p \in NegativeCommitted' /\ (p \in Active => p \in ActiveCommitted)
  BY <1>4 DEF NegativeCommitted, Active, ActiveCommitted
<1>7. CASE ActiveCommitted = Active
  <2>1. NegativeCommitted' = NegativeCommitted
    BY <1>7, <1>5, <1>6
  <2>2. \A p \in Permits : /\ row'[p].agent = row[p].agent /\ row'[p].wallet = row[p].wallet
                           /\ row'[p].amount = row[p].amount
    BY <1>2
  <2>3. UNCHANGED Negatives
    BY <2>1, <2>2 DEF Negatives
  <2>4. UNCHANGED ActiveCommitted
    BY <1>3, <1>7
  <2> QED BY <1>1, <2>2, <2>3, <2>4 DEF Ledger!vars, Negatives
<1>8. ASSUME NEW p \in Active, p \notin ActiveCommitted
      PROVE  Admissible(p)
  BY <1>0, <1>8 DEF SerialInv, SerialFor, ActiveCommitted, Active
<1>9. CASE ActiveCommitted # Active
  <2> DEFINE Grants ==
        [p \in Permits |->
           IF p \in ActiveCommitted
           THEN [agent |-> row[p].agent, wallet |-> row[p].wallet, amount |-> row[p].amount]
           ELSE None]
  <2>0. Negatives' = [p \in Permits |->
          IF p \notin ActiveCommitted /\ Grants'[p] # None /\ Grants'[p].amount < 0
          THEN Grants'[p] ELSE Negatives[p]]
    <3> SUFFICES ASSUME NEW p \in Permits
                 PROVE  Negatives'[p] =
                          IF p \notin ActiveCommitted /\ Grants'[p] # None /\ Grants'[p].amount < 0
                          THEN Grants'[p] ELSE Negatives[p]
      BY DEF Negatives
    <3> DEFINE G == [agent |-> row[p].agent, wallet |-> row[p].wallet, amount |-> row[p].amount]
    <3>1. /\ Grants'[p] = IF p \in Active THEN G ELSE None
          /\ Negatives'[p] = IF p \in NegativeCommitted' THEN G ELSE None
          /\ Negatives[p] = IF p \in NegativeCommitted THEN G ELSE None
      BY <1>2, <1>3 DEF Negatives
    <3>2. G # None /\ G.amount = row[p].amount
      BY <1>0, NoneAssumption DEF PermitRows
    <3>3. p \in Active /\ row[p].amount < 0 => p \in NegativeCommitted'
      BY <1>4 DEF Active
    <3>4. p \in NegativeCommitted' => row[p].amount < 0
      BY <1>4
    <3>5. p \in NegativeCommitted => p \in NegativeCommitted' /\ (p \in Active => p \in ActiveCommitted)
      BY <1>6
    <3>6. p \in NegativeCommitted' /\ p \notin NegativeCommitted
            => p \in Active /\ p \notin ActiveCommitted
      BY <1>5
    <3> HIDE DEF G, Grants
    <3> QED BY <3>1, <3>2, <3>3, <3>4, <3>5, <3>6
  <2>1. Running
    BY <1>3, <1>8, <1>9 DEF Admissible
  <2>2. Ledger!Held = ActiveCommitted /\ Ledger!Held' = Active
    BY <1>0, <1>3, LedgerHeld, LedgerHeldNext
  <2>3. treasury.health # "HALTED" /\ ~Ledger!Drawdown(content.treasury_rules)
    BY <2>1 DEF Running, Ledger!Drawdown, check_drawdown_limit
  <2>4. ASSUME NEW p \in ActiveCommitted
        PROVE  p \in ActiveCommitted'
    BY <1>3
  <2>5. ASSUME NEW p \in Permits, p \notin ActiveCommitted, p \in ActiveCommitted'
        PROVE  Ledger!WithinLimits(p)'
    <3>1. Admissible(p)
      BY <1>3, <1>8, <2>5
    <3>2. PICK a, l : a = row[p].agent /\ l = row[p].wallet
      OBVIOUS
    <3>3. PICK S : S = ActiveFor(a, l)
      OBVIOUS
    <3>4. Ledger!HeldBy(a, l)' = S
      BY <1>2, <1>3, <2>2, <3>3 DEF Ledger!HeldBy, ActiveFor, Active
    <3>5. Ledger!Total(S)' = Cardinality(Units(S))
      <4>1. \A q \in S : Grants'[q].amount = row[q].amount
        BY <1>2, <1>3, <3>3 DEF ActiveFor, Active
      <4>2. UNION {{q} \X (1..Grants'[q].amount) : q \in S} = Units(S)
        BY <4>1 DEF Units
      <4> QED BY <4>2, LedgerCardinality DEF Ledger!Total
    <3>6. Ledger!Room(a, l)' = Cardinality(Credits(Decided(a, l)))
      <4> DEFINE made == {i \in Permits : /\ Negatives'[i] # None
                                          /\ Negatives'[i].agent = a /\ Negatives'[i].wallet = l}
      <4>1. \A i \in Permits :
              /\ Negatives'[i] # None <=> i \in NegativeCommitted'
              /\ i \in NegativeCommitted' => /\ Negatives'[i].agent = row[i].agent
                                             /\ Negatives'[i].wallet = row[i].wallet
                                             /\ Negatives'[i].amount = row[i].amount
        <5> SUFFICES ASSUME NEW i \in Permits
                     PROVE  /\ Negatives'[i] # None <=> i \in NegativeCommitted'
                            /\ i \in NegativeCommitted' =>
                                 /\ Negatives'[i].agent = row[i].agent
                                 /\ Negatives'[i].wallet = row[i].wallet
                                 /\ Negatives'[i].amount = row[i].amount
          OBVIOUS
        <5> DEFINE G == [agent |-> row[i].agent, wallet |-> row[i].wallet, amount |-> row[i].amount]
        <5>1. Negatives'[i] = IF i \in NegativeCommitted' THEN G ELSE None
          BY <1>2 DEF Negatives
        <5>2. G # None
          BY <1>0, NoneAssumption DEF PermitRows
        <5>3. G.agent = row[i].agent /\ G.wallet = row[i].wallet /\ G.amount = row[i].amount
          OBVIOUS
        <5> HIDE DEF G
        <5> QED BY <5>1, <5>2, <5>3
      <4>2. made = {i \in Decided(a, l) : row[i].amount < 0}
        BY <1>4, <4>1 DEF Decided
      <4>3. UNION {{i} \X (1..(-Negatives'[i].amount)) : i \in made} = Credits(Decided(a, l))
        <5>1. \A i \in made : Negatives'[i].amount = row[i].amount
          BY <1>4, <4>1, <4>2 DEF Decided
        <5>2. \A i \in Decided(a, l) : i \notin made => 1..(-row[i].amount) = {}
          BY <1>0, <4>2 DEF Decided, PermitRows
        <5>3. made \subseteq Decided(a, l)
          BY <4>2
        <5> HIDE DEF made
        <5> QED BY <5>1, <5>2, <5>3 DEF Credits
      <4> QED BY <4>3, LedgerCardinality DEF Ledger!Room, Ledger!MadeBy, Negatives
    <3>7. Grants'[p].agent = a /\ Grants'[p].wallet = l /\ Grants'[p].amount = row[p].amount
      BY <1>2, <2>5, <3>2
    <3>8. PairWithin(a, l)
      BY <3>1, <3>2 DEF Admissible
    <3>9. /\ <<a, l>> \in DOMAIN content'.agent_wallet_rules
          /\ Cardinality(S) <= content'.agent_wallet_rules[<<a, l>>].concurrent_permit_cap
          /\ Ledger!Total(S)'
               <= content'.agent_wallet_rules[<<a, l>>].allocation_pct * treasury'.current_aum
                    + Ledger!Room(a, l)'
      <4> DEFINE limit == content.agent_wallet_rules[<<a, l>>].allocation_pct * treasury.current_aum
      <4>1. /\ Cardinality(Units(S)) - Cardinality(Credits(Decided(a, l))) <= limit
            /\ limit \in Int
        <5>1. /\ content.agent_wallet_rules[<<a, l>>].allocation_pct \in Int
              /\ treasury.current_aum \in Int
          <6>1. content.agent_wallet_rules[<<a, l>>] \in WalletRules
            BY <1>0, <3>8 DEF PairWithin, TypeInv, TypeOK, IsContent
          <6>2. treasury \in TreasuryRows
            BY <1>0 DEF TypeInv, TypeOK
          <6> QED BY <6>1, <6>2 DEF WalletRules, TreasuryRows
        <5> QED BY <3>3, <3>8, <5>1 DEF PairWithin, Net
      <4>2. Cardinality(Units(S)) \in Nat /\ Cardinality(Credits(Decided(a, l))) \in Nat
        BY <1>0, <3>3, NetFinite DEF Countable
      <4> HIDE DEF limit
      <4>3. Cardinality(Units(S)) <= limit + Cardinality(Credits(Decided(a, l)))
        BY <4>1, <4>2
      <4>4. /\ <<a, l>> \in DOMAIN content'.agent_wallet_rules
            /\ Cardinality(S) <= content'.agent_wallet_rules[<<a, l>>].concurrent_permit_cap
            /\ limit = content'.agent_wallet_rules[<<a, l>>].allocation_pct * treasury'.current_aum
        BY <1>1, <3>3, <3>8 DEF PairWithin, limit
      <4> QED BY <3>5, <3>6, <4>3, <4>4
    <3>10. /\ Grants'[p].amount <= content'.agent_wallet_rules[<<a, l>>].tier_limit_usd
          /\ Cardinality(Ledger!Held') <= content'.treasury_rules.max_concurrent_permits
      BY <1>1, <2>2, <3>1, <3>2, <3>7 DEF Admissible
    <3> QED BY <3>4, <3>7, <3>9, <3>10, LedgerCardinality DEF Ledger!WithinLimits
  <2>6. \A p \in ActiveCommitted : <<row'[p].agent, row'[p].wallet, row'[p].amount>>
                                    = <<row[p].agent, row[p].wallet, row[p].amount>>
    BY <1>2 DEF ActiveCommitted, Active
  <2> QED BY <1>1, <1>2, <1>3, <2>0, <2>2, <2>3, <2>4, <2>5, <2>6
          DEF Ledger!Admit, ActiveCommitted, Active, Negatives
<1> QED BY <1>7, <1>9

\* The end of a report settles its permit, or halts.
LEMMA LedgerOutcome ==
  ASSUME TypeInv, TypeInv', LegsInv, SerialInv, NEW w \in Workers, CommitOutcome(w)
  PROVE  Ledger!Settle \/ Ledger!Halt
<1>0. /\ status \in [Permits -> PermitStatus] /\ treasury \in TreasuryRows
      /\ UNCHANGED <<content, tx, row>> /\ pc[w] = "written"
  BY DEF TypeInv, TypeOK, CommitOutcome
<1>1. \A p \in ActiveCommitted' : p \in ActiveCommitted /\ p \notin revocation[w].permits
  BY <1>0 DEF CommitOutcome, StatusAfterRevoking, ActiveCommitted, Active
<1>2. treasury'.peak_aum = treasury.peak_aum
  BY <1>0 DEF CommitOutcome, TreasuryRows
<1>3. UNCHANGED Negatives
  <2>1. outcome[w].permit \in Settled
    BY <1>0 DEF LegsInv, TargetInv
  <2>2. Settled' = Settled /\ Kept(Settled)
    BY <1>0, <2>1 DEF CommitOutcome, StatusAfterRevoking, Settled, Active, Kept
  <2> QED BY <2>2, NegativesKept
<1>4. CASE TriggersHalt(outcome[w])
  <2>1. ActiveCommitted' = {}
    BY <1>0, <1>1, <1>4 DEF SerialInv, SerialFor
  <2>2. treasury'.health = "HALTED"
    BY <1>0, <1>4 DEF CommitOutcome, TreasuryRows
  <2> QED BY <1>0, <1>2, <1>3, <2>1, <2>2, LedgerHeldNext DEF Ledger!Halt, Negatives
<1>5. CASE ~TriggersHalt(outcome[w])
  <2>1. treasury'.health = treasury.health
    BY <1>0, <1>5 DEF CommitOutcome, TreasuryRows
  <2>2. Ledger!NothingAdmitted
    BY <1>0, <1>1, LedgerShrinks
  <2> QED BY <1>0, <1>2, <1>3, <2>1, <2>2 DEF Ledger!Settle, Negatives
<1> QED BY <1>4, <1>5

\* An agent that is revoked loses its rules, and nobody else a grant.
LEMMA LedgerRevocation ==
  ASSUME TypeInv, TypeInv', SerialInv, NEW w \in Workers, CommitRevocation(w)
  PROVE  Ledger!Amend
<1> DEFINE a == revocation[w].agent
           kept == {x \in DOMAIN content.agent_wallet_rules : x[1] # a}
<1>0. /\ status \in [Permits -> PermitStatus] /\ IsContent(content) /\ IsContent(content')
      /\ UNCHANGED <<treasury, tx, row>> /\ pc[w] = "revoke"
  BY DEF TypeInv, TypeOK, CommitRevocation
<1>1. ActiveCommitted' \subseteq ActiveCommitted
  BY <1>0 DEF CommitRevocation, StatusAfterRevoking, ActiveCommitted, Active
<1>2. \A p \in ActiveCommitted \ ActiveCommitted' : row[p].agent = a
  <2>1. \A p \in ActiveCommitted \ ActiveCommitted' : p \in revocation[w].permits
    BY <1>0 DEF CommitRevocation, StatusAfterRevoking, ActiveCommitted, Active
  <2> QED BY <1>0, <2>1 DEF SerialInv, SerialFor
<1>3. DOMAIN content'.agent_wallet_rules = kept
  BY <1>0 DEF CommitRevocation, IsContent
<1>4. \A p \in Ledger!Ends : p \in ActiveCommitted \ ActiveCommitted'
  BY LedgerHeld, LedgerHeldNext DEF Ledger!Ends, Ledger!Held
<1>5. Ledger!NothingAdmitted
  BY <1>0, <1>1, LedgerShrinks
<1>6. ASSUME NEW p \in Ledger!Ends, NEW l
      PROVE  <<row[p].agent, l>> \notin DOMAIN content'.agent_wallet_rules
  BY <1>2, <1>3, <1>4
<1> DEFINE Grants ==
      [p \in Permits |->
         IF p \in ActiveCommitted
         THEN [agent |-> row[p].agent, wallet |-> row[p].wallet, amount |-> row[p].amount]
         ELSE None]
<1>7. ASSUME NEW p \in Ledger!Ends, NEW l
      PROVE  <<Grants[p].agent, l>> \notin DOMAIN content'.agent_wallet_rules
  <2>1. p \in ActiveCommitted /\ p \in Permits
    BY <1>4 DEF ActiveCommitted, Active
  <2>2. Grants[p].agent = row[p].agent
    BY <2>1
  <2> QED BY <1>6, <2>2
<1>8. UNCHANGED Negatives
  <2>1. Settled' = Settled /\ Kept(Settled)
    BY <1>0 DEF CommitRevocation, StatusAfterRevoking, Settled, Active, Kept
  <2> QED BY <2>1, NegativesKept
<1> QED
  BY <1>0, <1>5, <1>7, <1>8 DEF Ledger!Amend, Negatives

LEMMA LedgerStep ==
  ASSUME \A u, v \in Workers : u = v, ResyncTotals = {}
  PROVE  Base /\ SerialInv /\ [Next]_vars => [Ledger!Next]_(Ledger!vars)
<1> SUFFICES ASSUME Base, SerialInv, [Next]_vars
             PROVE  Ledger!Next \/ UNCHANGED Ledger!vars
  OBVIOUS
<1> USE DEF permitVars, treasuryVars, handlerVars, Ledger!Next
<1>0. /\ TypeInv /\ TypeInv' /\ OpenInv /\ LegsInv
      /\ status \in [Permits -> PermitStatus] /\ row \in [Permits -> PermitRows]
      /\ treasury \in TreasuryRows
  BY BaseStep DEF Base, TypeInv, TypeOK
<1>1. ASSUME UNCHANGED <<treasury, content, status, tx, row>>
      PROVE  UNCHANGED Ledger!vars
  BY <1>1, LedgerStutters DEF ActiveCommitted, Active, Kept, Settled
<1>2. CASE UNCHANGED vars
  BY <1>1, <1>2 DEF vars
<1>3. ASSUME NEW w \in Workers, RequestPermit(w) \/ RequestPermitGroup(w)
      PROVE  UNCHANGED Ledger!vars
  <2>1. PICK P \in SUBSET Permits, require_all \in BOOLEAN :
               \E r \in [P -> Legs] : Accept(w, require_all, r)
    BY <1>3, RequestAccepts
  <2>2. PICK r \in [P -> Legs] : Accept(w, require_all, r)
    BY <2>1
  <2>3. UNCHANGED <<treasury, content, status>> /\ \A p \in P : status[p] = "NONE"
    BY <2>2 DEF Accept
  <2>4. \A p \in Permits \ P : tx'[p] = tx[p] /\ row'[p] = row[p]
    BY <2>2 DEF Accept
  <2>5. UNCHANGED ActiveCommitted /\ Kept(ActiveCommitted)
    BY <2>3, <2>4 DEF ActiveCommitted, Active, Kept
  <2>6. Settled' = Settled /\ Kept(Settled)
    BY <2>2, <2>3, <2>4 DEF Accept, Settled, Kept
  <2> QED BY <2>3, <2>5, <2>6, LedgerStutters
<1>4. ASSUME NEW w \in Workers, Fail(w)
      PROVE  UNCHANGED Ledger!vars
  BY <1>0, <1>4, LedgerRollback DEF Fail
<1>5. ASSUME NEW w \in Workers, NEW p \in Permits,
             ReadSlot(w, p) \/ ReadTreasury(w, p) \/ ReadReserved(w, p) \/ ReadActiveCount(w, p)
      PROVE  UNCHANGED Ledger!vars
  <2>1. CASE Rollback(w)
    <3>1. UNCHANGED <<treasury, content>>
      BY <1>5 DEF ReadSlot, ReadTreasury, ReadReserved, ReadActiveCount
    <3> QED BY <1>0, <2>1, <3>1, LedgerRollback
  <2>2. CASE ~Rollback(w)
    BY <1>1, <1>5, <2>2 DEF ReadSlot, ReadTreasury, ReadReserved, ReadActiveCount
  <2> QED BY <2>1, <2>2
<1>6. ASSUME NEW w \in Workers, NEW p \in Permits, Decide(w, p)
      PROVE  UNCHANGED Ledger!vars
  <2>1. tx[p] # None /\ UNCHANGED <<treasury, content, tx>>
    BY <1>6, WorkersAssumption DEF Decide, AtLeg
  <2>2. \A q \in Permits \ {p} : status'[q] = status[q] /\ row'[q] = row[q]
    BY <1>0, <1>6 DEF Decide
  <2>3. UNCHANGED ActiveCommitted /\ Kept(ActiveCommitted)
    BY <2>1, <2>2 DEF ActiveCommitted, Active, Kept
  <2>4. Settled' = Settled /\ Kept(Settled)
    BY <2>1, <2>2 DEF Settled, Kept
  <2> QED BY <2>1, <2>3, <2>4, LedgerStutters
<1>7. ASSUME NEW w \in Workers, Commit(w)
      PROVE  Ledger!Next \/ UNCHANGED Ledger!vars
  <2>1. CASE Rollback(w)
    <3>1. UNCHANGED <<treasury, content>>
      BY <1>7 DEF Commit
    <3> QED BY <1>0, <2>1, <3>1, LedgerRollback
  <2>2. CASE ~Rollback(w)
    BY <1>0, <1>7, <2>2, LedgerAdmits
  <2> QED BY <2>1, <2>2
<1>8. ASSUME NEW w \in Workers, \/ \E p \in Permits, pnl \in Pnls : ReadOutcome(w, p, pnl)
                                \/ WriteOutcome(w)
                                \/ \E a \in Agents : RevokePermits(w, a)
      PROVE  UNCHANGED Ledger!vars
  BY <1>1, <1>8 DEF ReadOutcome, WriteOutcome, RevokePermits
<1>9. ASSUME NEW w \in Workers, CommitOutcome(w)
      PROVE  Ledger!Next
  BY <1>0, <1>9, LedgerOutcome
<1>10. ASSUME NEW w \in Workers, CommitRevocation(w)
       PROVE  Ledger!Next
  BY <1>0, <1>10, LedgerRevocation
<1>11. ASSUME NEW w \in Workers, VerifyWallet(w) \/ ResumeTreasury(w)
       PROVE  Ledger!Next
  <2>1. UNCHANGED <<content, status, tx, row>>
    BY <1>11 DEF VerifyWallet, ResumeTreasury
  <2>2. /\ treasury'.health = "HEALTHY" /\ treasury'.current_aum = treasury.current_aum
        /\ treasury'.peak_aum \in {treasury.peak_aum, treasury.current_aum}
    <3>1. CASE VerifyWallet(w)
      BY <1>0, <3>1 DEF VerifyWallet, TreasuryRows
    <3>2. CASE ResumeTreasury(w)
      BY <1>0, <3>2 DEF ResumeTreasury, TreasuryRows
    <3> QED BY <1>11, <3>1, <3>2
  <2>3. UNCHANGED ActiveCommitted
    BY <2>1 DEF ActiveCommitted, Active
  <2>4. UNCHANGED Negatives
    BY <2>1, NegativesKept DEF Settled, Kept
  <2> QED BY <2>1, <2>2, <2>3, <2>4 DEF Ledger!Open, Negatives
<1>12. ASSUME NEW w \in Workers, NEW c \in Contents, UpdateConstitution(w, c)
       PROVE  Ledger!Next
  <2>1. IsContent(content') /\ UNCHANGED <<treasury, status, tx, row>>
    BY <1>12, ContentsAssumption DEF UpdateConstitution
  <2>2. UNCHANGED ActiveCommitted
    BY <2>1 DEF ActiveCommitted, Active
  <2>3. Ledger!NothingAdmitted
    BY <2>1, <2>2, LedgerShrinks
  <2>4. Ledger!Ends = {}
    BY <1>0, <2>2, LedgerHeld, LedgerHeldNext DEF Ledger!Ends, Ledger!Held
  <2>5. UNCHANGED Negatives
    BY <2>1, NegativesKept DEF Settled, Kept
  <2> QED BY <2>1, <2>3, <2>4, <2>5 DEF Ledger!Amend, Negatives
<1>13. ASSUME UNCHANGED <<treasury, content, tx, row, Settled>>,
              ActiveCommitted' \subseteq ActiveCommitted
       PROVE  Ledger!Next
  <2>1. Ledger!NothingAdmitted
    BY <1>13, LedgerShrinks
  <2>2. UNCHANGED Negatives
    BY <1>13, NegativesKept DEF Kept
  <2> QED BY <1>13, <2>1, <2>2 DEF Ledger!Settle, Negatives
<1>14. CASE Background
  <2>1. ASSUME NEW P \in SUBSET Permits, ExpirePermits(P)
        PROVE  Ledger!Next
    BY <1>0, <1>13, <2>1 DEF ExpirePermits, Expirable, ActiveCommitted, Active, Settled
  <2>2. ASSUME NEW a \in Agents, NEW s \in SlotWrites, WriteSlotStatus(a, s)
        PROVE  UNCHANGED Ledger!vars
    BY <1>1, <2>2 DEF WriteSlotStatus
  <2> QED BY <1>14, <2>1, <2>2 DEF Background
<1>15. CASE IntentEnds
  <2>1. PICK p \in Permits, s \in Settlements : SettleIntent(p, s)
    BY <1>15 DEF IntentEnds
  <2>2. ActiveCommitted' \subseteq ActiveCommitted /\ UNCHANGED <<treasury, content, tx, row, Settled>>
    BY <1>0, <2>1, NumbersAssumption DEF SettleIntent, ActiveCommitted, Active, Settled
  <2> QED BY <1>13, <2>2
<1> QED
  BY <1>2, <1>3, <1>4, <1>5, <1>6, <1>7, <1>8, <1>9, <1>10, <1>11, <1>12, <1>14, <1>15
  DEF Next, Begin, Proceed, Dashboard

\* A serial API, with no resync from Horizon, implements the ledger: each grant
\* is within the limits in force when it is committed, a halt leaves no grant
\* behind, and only an agent that loses its rules loses its grants with them
\* (permit.rs:505-652, treasury.rs:119-152, agent.rs:1136-1246).
THEOREM LedgerCorrect ==
  ASSUME \A u, v \in Workers : u = v, ResyncTotals = {}
  PROVE  Spec => ImplementsLedger
<1>1. Base /\ SerialInv /\ [Next]_vars => SerialInv'
  BY SerialStep
<1>2. Base /\ SerialInv /\ [Next]_vars => [Ledger!Next]_(Ledger!vars)
  BY LedgerStep
<1> QED
  BY <1>1, <1>2, BaseInit, BaseStep, SerialInit, LedgerInit, PTL
  DEF Spec, ImplementsLedger, Ledger!Spec
============================================================================
