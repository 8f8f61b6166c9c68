----------------------------- MODULE Permits ------------------------------
(***************************************************************************)
(* The life of a spending permit in one treasury: the request handlers     *)
(* that admit it (permit.rs), the outcome report that consumes it and may  *)
(* halt the treasury (permit.rs, treasury.rs), the watcher that expires it *)
(* (main.rs), and the dashboard operations that change what the policy     *)
(* engine reads or that revoke permits (treasury.rs, constitution.rs,      *)
(* agent.rs, resync.rs).                                                   *)
(*                                                                         *)
(* Concurrency.  Every HTTP handler runs in its own task and talks to      *)
(* PostgreSQL at its default isolation level, READ COMMITTED: a statement  *)
(* sees what is committed when it starts and what its own transaction has  *)
(* written.  A request is therefore one step per statement of              *)
(* process_single_permit; a row it has inserted is visible to its own      *)
(* transaction only, until the commit.  An UPDATE that revokes permits     *)
(* takes the rows that are active when it starts, and takes effect at its  *)
(* commit, on those that are still active.  Workers are the handlers that  *)
(* can be in flight at once: with one worker the API is serial, and only   *)
(* the background tasks interleave with it.                                *)
(*                                                                         *)
(* Locks.  An UPDATE locks its rows until its transaction commits.  The    *)
(* lock on the treasuries row is modelled: every writer of that row waits  *)
(* for it.  The locks on permit rows are not: a statement that would wait  *)
(* for one is taken as having run before the other's.  A deadlock that     *)
(* PostgreSQL breaks is one of the reasons for a handler to fail.          *)
(*                                                                         *)
(* A definition named X_Y, before the definition X, is a variant of X that *)
(* a plausible mistake would give; nothing uses it.  The properties are    *)
(* checked to notice each variant when it replaces its original.           *)
(*                                                                         *)
(* Amounts.  Nothing in the code compares an amount with zero, so a leg    *)
(* may ask for any integer.  A negative permit that is granted lowers the  *)
(* sum of the others' reservations for as long as it is active, and what   *)
(* is granted meanwhile stays when it ends.                                *)
(*                                                                         *)
(* Not here: the rows of permit_groups (no decision reads them), cosign    *)
(* (it changes no state), and the events after a commit.  Of an MCP intent *)
(* this module has the permit only; Intents has the rest.                  *)
(* The session check of the extractor is one step with the first statement *)
(* of an outcome report.                                                   *)
(***************************************************************************)
EXTENDS PolicyEngine, FiniteSets

CONSTANTS
  Workers,        \* handlers that can be in flight at once
  Permits,        \* permit ids
  Agents,         \* agent slots of the treasury
  Wallets,        \* wallets, as their positions in alphabetical order
  MaxLegs,        \* bound: legs of one group request
  Amounts,        \* amounts a leg may request, in hundredths of a dollar
  Pnls,           \* profits and losses an outcome may report, in dollars
  ResyncTotals,   \* AUM totals a resync may find, in dollars
  SlotWrites,     \* slot statuses the heartbeat and suspend paths may write
  Settlements,    \* permit statuses the end of an intent may write
  Contents,       \* constitution contents the dashboard may install
  InitialAum,     \* AUM, current and peak, in the initial state
  MaxAum,         \* bound: AUM that outcomes are not explored beyond
  AgentCap,       \* no content has a larger concurrent_permit_cap ...
  TreasuryCap,    \* ... a larger max_concurrent_permits ...
  Allocation,     \* ... or allocates more, in hundredths, to a rule
  None            \* no transaction, no agent, nothing read

SlotStatus ==
  {"PENDING_PUBKEY", "PENDING_CONFIGURATION", "PENDING_SIGNER",
   "ACTIVE", "INACTIVE", "SUSPENDED", "REVOKED"}

ASSUME WorkersAssumption == IsFiniteSet(Workers) /\ Workers # {} /\ None \notin Workers
ASSUME PermitsAssumption == IsFiniteSet(Permits)
ASSUME NoneAssumption ==
  None \notin [agent : Agents \cup {None}, wallet : Wallets \cup {None}, amount : Int]
ASSUME NumbersAssumption ==
  /\ MaxLegs \in Nat \ {0}
  /\ Wallets \subseteq Nat
  /\ Amounts \subseteq Int
  /\ Pnls \subseteq Int
  /\ MaxAum \in Nat
  /\ InitialAum \in 0..MaxAum
  /\ ResyncTotals \subseteq 0..MaxAum
  /\ SlotWrites \subseteq SlotStatus \ {"REVOKED"}
  /\ Settlements \subseteq {"CONSUMED", "FAILED"}
  /\ AgentCap \in Nat /\ TreasuryCap \in Nat /\ Allocation \in Nat

\* One agent_wallet_rule and one content, as validate_constitution lets them
\* through; the rules are a function from the (agent, wallet) pairs it names.
WalletRules ==
  [allocation_pct : 1..100, tier_limit_usd : Nat \ {0},
   concurrent_permit_cap : Nat \ {0}]

TreasuryRules ==
  [max_drawdown_pct : Nat \ {0}, max_concurrent_permits : Nat \ {0}]

Assignments == Agents \X Wallets

IsContent(c) ==
  /\ c = [treasury_rules |-> c.treasury_rules,
          agent_wallet_rules |-> c.agent_wallet_rules]
  /\ c.treasury_rules \in TreasuryRules
  /\ DOMAIN c.agent_wallet_rules \subseteq Assignments
  /\ c.agent_wallet_rules \in [DOMAIN c.agent_wallet_rules -> WalletRules]

WithinBounds(c) ==
  /\ c.treasury_rules.max_concurrent_permits <= TreasuryCap
  /\ \A x \in DOMAIN c.agent_wallet_rules :
       /\ c.agent_wallet_rules[x].concurrent_permit_cap <= AgentCap
       /\ c.agent_wallet_rules[x].allocation_pct * MaxAum <= Allocation

ASSUME ContentsAssumption ==
  Contents # {} /\ \A c \in Contents : IsContent(c) /\ WithinBounds(c)

VARIABLES
  treasury,       \* the treasuries row
  content,        \* the constitution its version pointer selects
  slot,           \* agent_slots.status
  status,         \* permits.status, "NONE" before the insert
  tx,             \* the open transaction that owns a permit row
  row,            \* the columns a permit gets from its leg
  pc,             \* where each handler is
  request,        \* require_all, and the leg the handler is at
  snap,           \* what it has read for that leg
  outcome,        \* what a handler of an outcome report has read
  revocation,     \* the agent and the permits its transaction has revoked,
                  \* and, as history, what was active when it did so
  outlived        \* history: the permits that became active between that
                  \* UPDATE of the last halt, or revocation of their agent,
                  \* and its commit

treasuryVars == <<treasury, content, slot>>
permitVars == <<status, tx, row>>
handlerVars == <<pc, request, snap, outcome, revocation>>
vars == <<treasuryVars, permitVars, handlerVars, outlived>>

-----------------------------------------------------------------------------
Health == {"PENDING_WALLET", "HEALTHY", "HALTED"}
PermitStatus ==
  {"NONE", "ACTIVE", "DENIED", "CONSUMED", "EXPIRED", "REVOKED", "FAILED"}
PC == {"idle", "slot", "treasury", "reserved", "count", "decide", "commit",
       "outcome", "written", "revoke"}

TreasuryRows == [health : Health, peak_aum : Int, current_aum : Int]

PermitRows ==
  [leg : 0..MaxLegs, agent : Agents \cup {None}, wallet : Wallets \cup {None}, amount : Int]
NoRow == [leg |-> 0, agent |-> None, wallet |-> None, amount |-> 0]

NoRequest == [require_all |-> FALSE, leg |-> 0]
NoSnap == [can_execute |-> FALSE, view |-> None, reserved |-> 0, active_count |-> 0]

\* The one row process_single_permit reads with its second statement.
Views == [treasury : TreasuryRows, rules : TreasuryRules, rule : WalletRules]

Snaps ==
  [can_execute : BOOLEAN, view : Views \cup {None}, reserved : Int, active_count : Nat]

Requests == [require_all : BOOLEAN, leg : 0..MaxLegs]

Outcomes ==
  [permit : Permits, pnl : Int, peak_aum : Int, current_aum : Int, max_drawdown_pct : Nat]

Revocations ==
  [agent : Agents \cup {None}, permits : SUBSET Permits, active : SUBSET Permits]
NoRevocation == [agent |-> None, permits |-> {}, active |-> {}]

\* ACTIVE rows, and the rows a statement of transaction w sees.
Active == {p \in Permits : status[p] = "ACTIVE"}
VisibleTo_CommittedOnly(w) == {p \in Permits : tx[p] = None}
VisibleTo(w) == {p \in Permits : tx[p] \in {w, None}}
ActiveFor(a, l) == {p \in Active : row[p].agent = a /\ row[p].wallet = l}
ActiveCommitted == {p \in Active : tx[p] = None}

\* The rows an agent has been granted or denied on a wallet, ended or not.
Decided(a, l) ==
  {p \in Permits : status[p] # "NONE" /\ row[p].agent = a /\ row[p].wallet = l}

\* SUM(approved_amount) over a set of rows, counted unit by unit: the positive
\* amounts less the negative ones.
Units(P) == UNION {{p} \X (1..row[p].amount) : p \in P}
Credits(P) == UNION {{p} \X (1..(-row[p].amount)) : p \in P}
SumApproved(P) == Cardinality(Units(P)) - Cardinality(Credits(P))

\* Row p is the leg that handler w is at.
AtLeg(w, p) == tx[p] = w /\ row[p].leg = request[w].leg
Owned(w) == {p \in Permits : tx[p] = w}

\* No transaction holds the lock on the treasuries row.
TreasuryFree == \A w \in Workers : pc[w] # "written"

-----------------------------------------------------------------------------
\* A treasury that has been created and funded, its wallet not yet verified.
Init ==
  /\ treasury = [health |-> "PENDING_WALLET", peak_aum |-> InitialAum,
                 current_aum |-> InitialAum]
  /\ content \in Contents
  /\ slot = [a \in Agents |-> "ACTIVE"]
  /\ status = [p \in Permits |-> "NONE"]
  /\ tx = [p \in Permits |-> None]
  /\ row = [p \in Permits |-> NoRow]
  /\ pc = [w \in Workers |-> "idle"]
  /\ request = [w \in Workers |-> NoRequest]
  /\ snap = [w \in Workers |-> NoSnap]
  /\ outcome = [w \in Workers |-> None]
  /\ revocation = [w \in Workers |-> NoRevocation]
  /\ outlived = [halt |-> {}, revoke |-> {}]

(***************************************************************************)
(* Requests.                                                               *)
(***************************************************************************)

\* The AgentAuth extractor turns a suspended or revoked slot away.
Authenticated(a) == slot[a] \notin {"SUSPENDED", "REVOKED"}

\* Handler w opens a transaction for the legs r, a function from fresh row
\* ids.  The legs are numbered in the order of their wallets.
Accept(w, require_all, r) ==
  /\ pc[w] = "idle"
  /\ \A p \in DOMAIN r : status[p] = "NONE" /\ tx[p] = None
  /\ {r[p].leg : p \in DOMAIN r} = 1..Cardinality(DOMAIN r)
  /\ \A p, q \in DOMAIN r : r[p].leg < r[q].leg => r[p].wallet <= r[q].wallet
  /\ tx' = [p \in Permits |-> IF p \in DOMAIN r THEN w ELSE tx[p]]
  /\ row' = [p \in Permits |-> IF p \in DOMAIN r THEN r[p] ELSE row[p]]
  /\ request' = [request EXCEPT ![w] = [require_all |-> require_all, leg |-> 1]]
  /\ pc' = [pc EXCEPT ![w] = "slot"]
  /\ UNCHANGED <<treasuryVars, status, snap, outcome, revocation, outlived>>

Legs == [leg : 1..MaxLegs, agent : Agents, wallet : Wallets, amount : Amounts]

\* request_permit: one leg, for the agent of the session.
RequestPermit(w) ==
  \E p \in Permits, l \in Legs :
    Authenticated(l.agent) /\ Accept(w, FALSE, [q \in {p} |-> l])

\* request_permit_group: the group's agent and treasury are compared with the
\* session's; each leg is then processed for the agent and the treasury it names
\* itself.  So the session's agent may be any, of this treasury or another, and
\* P are the legs in this one: a leg elsewhere may fail the group, as Fail does.
RequestPermitGroup(w) ==
  \E require_all \in BOOLEAN, P \in SUBSET Permits \ {{}} :
    /\ Cardinality(P) <= MaxLegs
    /\ \E r \in [P -> Legs] : Accept(w, require_all, r)

\* process_single_permit, statement a: the agent's slot.
ReadSlot(w, p) ==
  /\ pc[w] = "slot"
  /\ AtLeg(w, p)
  /\ snap' = [snap EXCEPT ![w].can_execute = (slot[row[p].agent] = "ACTIVE")]
  /\ pc' = [pc EXCEPT ![w] = "treasury"]
  /\ UNCHANGED <<treasuryVars, permitVars, request, outcome, revocation, outlived>>

\* The handler returns; what its transaction has inserted is gone.
Rollback(w) ==
  /\ status' = [p \in Permits |-> IF tx[p] = w THEN "NONE" ELSE status[p]]
  /\ row' = [p \in Permits |-> IF tx[p] = w THEN NoRow ELSE row[p]]
  /\ tx' = [p \in Permits |-> IF tx[p] = w THEN None ELSE tx[p]]
  /\ request' = [request EXCEPT ![w] = NoRequest]
  /\ snap' = [snap EXCEPT ![w] = NoSnap]
  /\ pc' = [pc EXCEPT ![w] = "idle"]

\* Statement b: the treasury joined with its constitution.  An agent without a
\* rule for the wallet ends the whole request with an error.
ReadTreasury(w, p) ==
  LET pair == <<row[p].agent, row[p].wallet>>
  IN  /\ pc[w] = "treasury"
      /\ AtLeg(w, p)
      /\ \/ /\ pair \in DOMAIN content.agent_wallet_rules
            /\ snap' = [snap EXCEPT ![w].view =
                 [treasury |-> treasury, rules |-> content.treasury_rules,
                  rule |-> content.agent_wallet_rules[pair]]]
            /\ pc' = [pc EXCEPT ![w] = "reserved"]
            /\ UNCHANGED <<status, tx, row, request>>
         \/ /\ pair \notin DOMAIN content.agent_wallet_rules
            /\ Rollback(w)
      /\ UNCHANGED <<treasuryVars, outcome, revocation, outlived>>

\* Statements d: what the agent has reserved on the wallet ...
ReadReserved(w, p) ==
  /\ pc[w] = "reserved"
  /\ AtLeg(w, p)
  /\ snap' = [snap EXCEPT ![w].reserved =
       SumApproved(ActiveFor(row[p].agent, row[p].wallet) \cap VisibleTo(w))]
  /\ pc' = [pc EXCEPT ![w] = "count"]
  /\ UNCHANGED <<treasuryVars, permitVars, request, outcome, revocation, outlived>>

\* ... and how many active permits it has there.
ReadActiveCount(w, p) ==
  /\ pc[w] = "count"
  /\ AtLeg(w, p)
  /\ snap' = [snap EXCEPT ![w].active_count =
       Cardinality(ActiveFor(row[p].agent, row[p].wallet) \cap VisibleTo(w))]
  /\ pc' = [pc EXCEPT ![w] = "decide"]
  /\ UNCHANGED <<treasuryVars, permitVars, request, outcome, revocation, outlived>>

\* The engine on what handler w has read for row p, given the count it reads
\* last.  The rule was looked up for the leg's own agent and wallet.
Decision(w, p, treasury_active_count) ==
  LET view == snap[w].view
      rule == view.rule
  IN  run_policy_engine(
        [wallet_address |-> row[p].wallet, requested_amount |-> row[p].amount],
        view.treasury,
        [can_execute |-> snap[w].can_execute, wallet_address |-> row[p].wallet,
         allocation_pct |-> rule.allocation_pct, tier_limit_usd |-> rule.tier_limit_usd,
         concurrent_permit_cap |-> rule.concurrent_permit_cap],
        view.rules, snap[w].reserved, snap[w].active_count, treasury_active_count)

LastLeg_OffByOne(w) == \A p \in Owned(w) : row[p].leg < request[w].leg
LastLeg(w) == \A p \in Owned(w) : row[p].leg <= request[w].leg

\* The treasury-wide count, the engine and the insert.  The insert is visible
\* to this transaction only, so it needs no step of its own.
Decide(w, p) ==
  LET verdict == Decision(w, p, Cardinality(Active \cap VisibleTo(w)))
  IN  /\ pc[w] = "decide"
      /\ AtLeg(w, p)
      /\ status' = [status EXCEPT ![p] = IF verdict.approved THEN "ACTIVE" ELSE "DENIED"]
      /\ row' = [row EXCEPT ![p].amount = verdict.approved_amount]
      /\ snap' = [snap EXCEPT ![w] = NoSnap]
      /\ request' = [request EXCEPT ![w].leg = IF LastLeg(w) THEN 0 ELSE @ + 1]
      /\ pc' = [pc EXCEPT ![w] = IF LastLeg(w) THEN "commit" ELSE "slot"]
      /\ UNCHANGED <<treasuryVars, tx, outcome, revocation, outlived>>

\* A require_all group with a denied leg ...
GroupFails_Never(w) == FALSE
GroupFails(w) == request[w].require_all /\ \E p \in Owned(w) : status[p] = "DENIED"

\* ... is rolled back; otherwise every leg becomes visible at once.
Commit(w) ==
  /\ pc[w] = "commit"
  /\ \/ GroupFails(w) /\ Rollback(w)
     \/ /\ ~GroupFails(w)
        /\ row' = [p \in Permits |->
             IF tx[p] = w THEN [row[p] EXCEPT !.leg = 0] ELSE row[p]]
        /\ tx' = [p \in Permits |-> IF tx[p] = w THEN None ELSE tx[p]]
        /\ request' = [request EXCEPT ![w] = NoRequest]
        /\ pc' = [pc EXCEPT ![w] = "idle"]
        /\ UNCHANGED <<status, snap>>
  /\ UNCHANGED <<treasuryVars, outcome, revocation, outlived>>

(***************************************************************************)
(* Outcomes.                                                               *)
(***************************************************************************)

\* report_outcome up to its first write: one statement reads the permit's
\* agent, the treasury and its constitution.  The permit's status is not read.
ReadOutcome(w, p, pnl) ==
  /\ pc[w] = "idle"
  /\ status[p] # "NONE" /\ tx[p] = None
  /\ Authenticated(row[p].agent)
  /\ treasury.current_aum + pnl \in 0..MaxAum
  /\ outcome' = [outcome EXCEPT ![w] =
       [permit |-> p, pnl |-> pnl, peak_aum |-> treasury.peak_aum,
        current_aum |-> treasury.current_aum,
        max_drawdown_pct |-> content.treasury_rules.max_drawdown_pct]]
  /\ pc' = [pc EXCEPT ![w] = "outcome"]
  /\ UNCHANGED <<treasuryVars, permitVars, request, snap, revocation, outlived>>

\* new_aum, from what the handler has read.
NewAum_FromPeak(o) == o.peak_aum + o.pnl
NewAum(o) == o.current_aum + o.pnl

TriggersHalt(o) ==
  check_drawdown_limit(o.peak_aum, NewAum(o), [max_drawdown_pct |-> o.max_drawdown_pct])

\* apply_halt revokes the permits that are active when it runs.
HaltRevokes_Nothing == {}
HaltRevokes == ActiveCommitted

\* The writes.  They lock the treasuries row: nobody else sees them yet, and
\* nobody else writes that row.
WriteOutcome(w) ==
  /\ pc[w] = "outcome"
  /\ TreasuryFree
  /\ revocation' = [revocation EXCEPT ![w] =
       IF TriggersHalt(outcome[w])
       THEN [agent |-> None, permits |-> HaltRevokes, active |-> ActiveCommitted]
       ELSE NoRevocation]
  /\ pc' = [pc EXCEPT ![w] = "written"]
  /\ UNCHANGED <<treasuryVars, permitVars, request, snap, outcome, outlived>>

\* Permits P, when the transaction that has revoked them commits.
StatusAfterRevoking(P) ==
  [p \in Permits |-> IF p \in P \cap Active THEN "REVOKED" ELSE status[p]]

\* Their commit: the permit is consumed whatever its status, the AUM is the
\* one computed from the earlier read, and a drawdown halts.
CommitOutcome(w) ==
  LET o    == outcome[w]
      halt == TriggersHalt(o)
  IN  /\ pc[w] = "written"
      /\ treasury' = [treasury EXCEPT !.current_aum = NewAum(o),
                                      !.health = IF halt THEN "HALTED" ELSE @]
      /\ status' = [StatusAfterRevoking(revocation[w].permits)
                       EXCEPT ![o.permit] = "CONSUMED"]
      /\ outcome' = [outcome EXCEPT ![w] = None]
      /\ revocation' = [revocation EXCEPT ![w] = NoRevocation]
      /\ pc' = [pc EXCEPT ![w] = "idle"]
      /\ UNCHANGED <<content, slot, tx, row, request, snap>>
      /\ outlived' = IF halt
           THEN [outlived EXCEPT !.halt = ActiveCommitted' \ revocation[w].active]
           ELSE outlived

(***************************************************************************)
(* The dashboard's handlers.  But for the revocation of an agent, each has *)
(* one write that the others can see: it takes a free worker for the       *)
(* length of a step.                                                       *)
(***************************************************************************)

\* verify_ownership of the first wallet.
VerifyWallet(w) ==
  /\ pc[w] = "idle" /\ TreasuryFree
  /\ treasury.health = "PENDING_WALLET"
  /\ treasury' = [treasury EXCEPT !.health = "HEALTHY"]
  /\ UNCHANGED <<content, slot, permitVars, handlerVars, outlived>>

ResumeTreasury_Reinstates(w) ==
  /\ pc[w] = "idle" /\ TreasuryFree
  /\ treasury' = [treasury EXCEPT !.health = "HEALTHY"]
  /\ status' = [p \in Permits |-> IF status[p] = "REVOKED" THEN "ACTIVE" ELSE status[p]]
  /\ UNCHANGED <<content, slot, tx, row, handlerVars, outlived>>

\* resume_treasury, whatever the health is.
ResumeTreasury(w) ==
  /\ pc[w] = "idle" /\ TreasuryFree
  /\ treasury' = [treasury EXCEPT !.health = "HEALTHY", !.peak_aum = treasury.current_aum]
  /\ UNCHANGED <<content, slot, permitVars, handlerVars, outlived>>

\* create_or_update_constitution, rollback_constitution, or the proposal that
\* reaches its majority: the pointer selects another content.
UpdateConstitution(w, c) ==
  /\ pc[w] = "idle" /\ TreasuryFree
  /\ content' = c
  /\ UNCHANGED <<treasury, slot, permitVars, handlerVars, outlived>>

RevokedWith_Nothing(a) == {}
RevokedWith(a) == {p \in ActiveCommitted : row[p].agent = a}

\* revoke_agent: its first write takes the agent's active permits ...
RevokePermits(w, a) ==
  /\ pc[w] = "idle"
  /\ revocation' = [revocation EXCEPT ![w] =
       [agent |-> a, permits |-> RevokedWith(a), active |-> ActiveCommitted]]
  /\ pc' = [pc EXCEPT ![w] = "revoke"]
  /\ UNCHANGED <<treasuryVars, permitVars, request, snap, outcome, outlived>>

\* ... the others its rules, with a new version if it has any, and its slot.
CommitRevocation(w) ==
  LET a     == revocation[w].agent
      rules == content.agent_wallet_rules
      kept  == {x \in DOMAIN rules : x[1] # a}
  IN  /\ pc[w] = "revoke"
      /\ kept # DOMAIN rules => TreasuryFree
      /\ status' = StatusAfterRevoking(revocation[w].permits)
      /\ content' = [content EXCEPT !.agent_wallet_rules = [x \in kept |-> rules[x]]]
      /\ slot' = [slot EXCEPT ![a] = "REVOKED"]
      /\ revocation' = [revocation EXCEPT ![w] = NoRevocation]
      /\ pc' = [pc EXCEPT ![w] = "idle"]
      /\ UNCHANGED <<treasury, tx, row, request, snap, outcome>>
      /\ outlived' = [outlived EXCEPT !.revoke =
           {p \in Permits : IF row[p].agent = a
                            THEN p \in ActiveCommitted' \ revocation[w].active
                            ELSE p \in @}]

(***************************************************************************)
(* Failures.                                                               *)
(***************************************************************************)

\* A statement fails, or the client hangs up and its handler is dropped: the
\* open transaction is rolled back.
Fail(w) ==
  /\ pc[w] # "idle"
  /\ Rollback(w)
  /\ outcome' = [outcome EXCEPT ![w] = None]
  /\ revocation' = [revocation EXCEPT ![w] = NoRevocation]
  /\ UNCHANGED <<treasuryVars, outlived>>

(***************************************************************************)
(* What runs beside the handlers.                                          *)
(***************************************************************************)

\* The watcher's WHERE, but for the time.
Expirable_WhileRunning == IF treasury.health = "HALTED" THEN {} ELSE ActiveCommitted
Expirable == ActiveCommitted

\* One round of the TTL watcher: its UPDATE takes the active permits whose
\* hour is over.  Time is not modelled: P is any set of them.
ExpirePermits(P) ==
  /\ P # {} /\ P \subseteq Expirable
  /\ status' = [p \in Permits |-> IF p \in P THEN "EXPIRED" ELSE status[p]]
  /\ UNCHANGED <<treasuryVars, tx, row, handlerVars, outlived>>

\* The UPDATE that ends resync_treasury.  It may come from the scheduled
\* reconciliation, and the total and the choice to resync may be old.
Resync(total) ==
  /\ TreasuryFree
  /\ treasury' = [treasury EXCEPT !.current_aum = total,
                    !.peak_aum = IF total > @ THEN total ELSE @]
  /\ UNCHANGED <<content, slot, permitVars, handlerVars, outlived>>

\* Every other statement that writes a slot's status: suspend_agent, the
\* heartbeat monitor, and the connect and heartbeat handlers, whose decision
\* to write may be old.  Any of these values, at any time.
WriteSlotStatus(a, s) ==
  /\ slot[a] # s
  /\ slot' = [slot EXCEPT ![a] = s]
  /\ UNCHANGED <<treasury, content, permitVars, handlerVars, outlived>>

\* The end of an MCP intent, whose permit was granted at some time before: a
\* payment that went through consumes it whatever it has become meanwhile, a
\* failure gives up the reservation if there is one left.  Intents has the
\* handler that does so.
SettleIntent(p, s) ==
  /\ tx[p] = None /\ status[p] \notin {"NONE", "DENIED"}
  /\ s = "FAILED" => status[p] = "ACTIVE"
  /\ status' = [status EXCEPT ![p] = s]
  /\ UNCHANGED <<treasuryVars, tx, row, handlerVars, outlived>>

-----------------------------------------------------------------------------
\* The steps of the handlers that are under way.
Proceed(w) ==
  \/ \E p \in Permits : \/ ReadSlot(w, p)
                        \/ ReadTreasury(w, p)
                        \/ ReadReserved(w, p)
                        \/ ReadActiveCount(w, p)
                        \/ Decide(w, p)
  \/ Commit(w)
  \/ WriteOutcome(w)
  \/ CommitOutcome(w)
  \/ CommitRevocation(w)

Dashboard(w) ==
  \/ VerifyWallet(w)
  \/ ResumeTreasury(w)
  \/ \E c \in Contents : UpdateConstitution(w, c)
  \/ \E a \in Agents : RevokePermits(w, a)

Background ==
  \/ \E P \in SUBSET Permits : ExpirePermits(P)
  \/ \E total \in ResyncTotals : Resync(total)
  \/ \E a \in Agents, s \in SlotWrites : WriteSlotStatus(a, s)

IntentEnds == \E p \in Permits, s \in Settlements : SettleIntent(p, s)

\* The steps that begin a handler, or are all of it.
Begin(w) ==
  \/ RequestPermit(w)
  \/ RequestPermitGroup(w)
  \/ \E p \in Permits, pnl \in Pnls : ReadOutcome(w, p, pnl)
  \/ Dashboard(w)

Next ==
  \/ \E w \in Workers : Begin(w) \/ Proceed(w) \/ Fail(w)
  \/ IntentEnds
  \/ Background

\* A handler that has begun runs on, and PostgreSQL grants a lock in the order
\* of the requests for it, so no handler waits for ever while others take
\* turns; the hour of a permit passes, and the watcher ticks every minute.
\* Nobody has to ask for anything.
Fairness ==
  /\ \A w \in Workers : SF_vars(Proceed(w))
  /\ \A p \in Permits : WF_vars(\E P \in SUBSET Permits : p \in P /\ ExpirePermits(P))

Spec == Init /\ [][Next]_vars
FairSpec == Spec /\ Fairness
-----------------------------------------------------------------------------
TypeOK ==
  /\ treasury \in TreasuryRows /\ treasury.current_aum <= MaxAum
  /\ IsContent(content)
  /\ slot \in [Agents -> SlotStatus]
  /\ status \in [Permits -> PermitStatus]
  /\ tx \in [Permits -> Workers \cup {None}]
  /\ row \in [Permits -> PermitRows]
  /\ pc \in [Workers -> PC]
  /\ request \in [Workers -> Requests]
  /\ snap \in [Workers -> Snaps]
  /\ outcome \in [Workers -> Outcomes \cup {None}]
  /\ revocation \in [Workers -> Revocations]
  /\ outlived \in [halt : SUBSET Permits, revoke : SUBSET Permits]

(***************************************************************************)
(* What concurrency costs.  The engine decides on counts that other open   *)
(* transactions are not part of, so a limit can be exceeded; but only by   *)
(* the legs that the other handlers have in flight.  With one worker each  *)
(* of these is the limit itself.                                           *)
(***************************************************************************)
InFlight == (Cardinality(Workers) - 1) * MaxLegs

\* An agent never holds more active permits on a wallet than its cap and the
\* legs in flight beside the one that was admitted last (rules.rs:65-74,
\* permit.rs:575-580).
AgentCapHolds ==
  \A a \in Agents, l \in Wallets : Cardinality(ActiveFor(a, l)) <= AgentCap + InFlight

\* The same for the permits of the whole treasury (rules.rs:76-84).
TreasuryCapHolds == Cardinality(Active) <= TreasuryCap + InFlight

\* The positive amounts an agent has reserved on a wallet never exceed, once per
\* handler, its allocation and the negative amounts it was ever granted there:
\* those stay in the sum no longer than they are active, but what was granted
\* beside them stays on (rules.rs:31-53, permit.rs:564-573).
AllocationHolds ==
  \A a \in Agents, l \in Wallets :
    Cardinality(Units(ActiveFor(a, l)))
      <= Cardinality(Workers) * (Allocation + Cardinality(Credits(Decided(a, l))))

\* A halt that is committed has revoked what was active when it ran, and lets
\* in only the permits of requests that are in flight (treasury.rs:119-152).
HaltContained ==
  treasury.health = "HALTED" => Cardinality(Active \ outlived.halt) <= InFlight

\* The same for the agent whose slot is revoked (agent.rs:1136-1246).
RevocationContained ==
  \A a \in Agents : slot[a] = "REVOKED" =>
    Cardinality({p \in Active \ outlived.revoke : row[p].agent = a}) <= InFlight

\* The promise of apply_halt without the exception: every active permit of a
\* halted treasury is revoked.
HaltedHasNoActive == treasury.health = "HALTED" => ActiveCommitted = {}

\* A permit becomes active only when the transaction that inserted it commits:
\* no watcher, resume or late outcome brings an ended permit back.
NoReactivation ==
  [][\A p \in Permits : status[p] # "NONE" /\ tx[p] = None /\ status[p] # "ACTIVE"
                          => status'[p] # "ACTIVE"]_vars

\* The legs of a require_all group all become active together or leave no row
\* (permit.rs:195-203).
AllOrNothing ==
  [][\A w \in Workers :
       request[w].require_all /\ pc[w] # "idle" /\ pc'[w] = "idle" =>
         \/ \A p \in Owned(w) : p \in ActiveCommitted'
         \/ \A p \in Owned(w) : status'[p] = "NONE"]_vars

\* An outcome report that ends has consumed its permit and moved the AUM by
\* the profit or loss it reports, or has done neither.  Only a serial API keeps
\* this: the handler adds to an AUM it has read before (permit.rs:385-438).
OutcomeMovesAum ==
  [][\A w \in Workers :
       outcome[w] # None /\ outcome'[w] = None =>
         \/ UNCHANGED <<treasury, status>>
         \/ /\ treasury'.current_aum = treasury.current_aum + outcome[w].pnl
            /\ status'[outcome[w].permit] = "CONSUMED"]_vars

\* Every active permit ends: the agent's silence, a halt and a resume in any
\* order do not keep a reservation alive (main.rs:156-172).
PermitsDrain ==
  \A p \in Permits : p \in ActiveCommitted ~> p \notin ActiveCommitted

\* Every handler that has begun returns, whatever the others do meanwhile.
HandlersFinish == \A w \in Workers : pc[w] # "idle" ~> pc[w] = "idle"

(***************************************************************************)
(* The abstract ledger: the grants are the committed active rows, and a    *)
(* negative row that was ever committed was a grant.                       *)
(***************************************************************************)
NegativeCommitted ==
  {p \in Permits : tx[p] = None /\ status[p] # "NONE" /\ row[p].amount < 0}

Ledger == INSTANCE PermitLedger WITH
  Ids <- Permits,
  NoGrant <- None,
  IsConstitution <- IsContent,
  health <- treasury.health,
  aum <- [peak |-> treasury.peak_aum, current |-> treasury.current_aum],
  constitution <- content,
  grant <- [p \in Permits |->
              IF p \in ActiveCommitted
              THEN [agent |-> row[p].agent, wallet |-> row[p].wallet, amount |-> row[p].amount]
              ELSE None],
  negative <- [p \in Permits |->
                 IF p \in NegativeCommitted
                 THEN [agent |-> row[p].agent, wallet |-> row[p].wallet, amount |-> row[p].amount]
                 ELSE None]

\* A serial API keeps the ledger's promise: each grant is within the limits in
\* force when it is committed, and a halt leaves no grant behind.
ImplementsLedger == Ledger!Spec
===========================================================================
