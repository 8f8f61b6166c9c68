# Synod coordinator: specification and proofs

Synod lets software agents spend from the wallets of a treasury on the Stellar
network. The owner writes a *constitution* (which agent may use which wallet, how
much, how often); the *coordinator* (Rust, axum, PostgreSQL, Redis) grants an agent
a *permit* for each payment, cosigns the transaction, watches the ledger and halts
the treasury when it loses too much. This directory holds TLA+ models of the
coordinator, the TLC instances that check them, and proofs checked by TLAPS.

Line numbers are those of the repository at the commit the models were written from;
`PROJECT.json` maps every definition to the lines it stands for. Paths without a
directory are files of `src/synod-coordinator/src/`.

1. [The system](#1-the-system)
2. [The modules](#2-the-modules)
3. [What is checked](#3-what-is-checked)
4. [What is proved](#4-what-is-proved)
5. [Where the code and its documentation disagree](#5-where-the-code-and-its-documentation-disagree)
6. [What is not modelled, and the plan](#6-what-is-not-modelled-and-the-plan)

## 1. The system

### Components

| component | source | state it keeps | operations |
|---|---|---|---|
| policy engine | `policy/` | none | `run_policy_engine`: seven checks in order, the approved amount, the deny reason |
| permits and outcomes | `permit.rs` | rows of `permits`, `permit_groups` | `request_permit`, `request_permit_group`, `cosign_permit`, `report_outcome` |
| treasury | `treasury.rs`, `wallet.rs` | row of `treasuries`: health, AUM, peak AUM, version pointer; `treasury_wallets` | create, register, remove and verify a wallet, `apply_halt`, `resume_treasury` |
| constitution | `constitution.rs` | `constitution_history` | edit, rollback; `agent.rs` also removes the rules of a revoked agent |
| governance | `proposal.rs` | `proposals`, `proposal_signatures` | `create_proposal`, `sign_proposal` (which executes on a majority) |
| agent slots | `agent.rs` | `agent_slots`: status, key, last contact; challenges and sessions in Redis | create, enroll, connect, heartbeat, suspend, revoke |
| MCP gateway | `mcp.rs` | a nonce and an intent record in Redis | `connect_init`, `connect_complete`, heartbeats, `submit_intent` |
| background tasks | `main.rs`, `resync.rs` | none of their own | TTL watcher (60 s), heartbeat monitor (120 s), reconciliation of the AUM, event persistence |
| Horizon watcher | `horizon.rs` | cursor and seen operations in Redis | streams the operations of a wallet |
| event bus and log | `lib.rs`, `main.rs` | `broadcast` channel of 100, rows of `events` | send, persist with a number, forward to sockets |
| authentication | `auth.rs` | accounts, sessions, replay keys in Redis | register, log in, `AgentAuth` and user extractors, `verify_signed_request` |
| multisig setup | `multisig.rs` | none | builds and checks set-up transactions |
| dashboard | `dashboard.rs` | none | reads, and a socket |
| Stellar primitives | `stellar.rs` | none | keys, addresses, hashes, signatures |
| Python SDK | `src/synod-sdk-python/` | phase, policy and halted flag of an agent | `connect`, `execute`, socket and heartbeat tasks |

### How they interact

- All handlers share PostgreSQL at its default isolation, READ COMMITTED, and no
  handler but `apply_halt` and the event log takes a lock on purpose. A decision read
  by one statement is written by a later one; some handlers (`permit.rs`, `mcp.rs`,
  `treasury.rs`) do so in a transaction, others (`proposal.rs`, most of `agent.rs`)
  commit each statement by itself.
- The policy engine reads the health and the AUM (treasury), the constitution the
  pointer selects (governance), the slot's status (agents) and the sums and counts of
  active permits (permits). All of these have other writers.
- An outcome report moves the AUM and may halt the treasury, which revokes permits.
  A revocation of an agent revokes permits, edits the constitution and frees the
  slot's key in one transaction.
- `submit_intent` goes through the admission of permits, then asks Horizon to apply
  the transaction, then settles the permit.
- Background tasks expire permits, mark silent agents INACTIVE and overwrite the AUM.
- A request future is dropped when its client hangs up: a handler may stop before any
  of its awaits.

### What is hard, and what makes each part correct

`PROJECT.json` lists the hazards one by one, at the line where each bites. In short:

| part | hard because | correct means |
|---|---|---|
| admission | counts are read by three statements and do not see other open transactions; a group is all or nothing; a partial approval changes the amount on the way; an amount may be negative | limits are exceeded by no more than what is in flight, and kept by a serial API, the allocation up to the room that negative grants make; a `require_all` group is granted whole or leaves nothing |
| halts and revocations | the UPDATE that revokes takes its snapshot before it commits; the AUM it judges was read before | what was active is revoked, and only what was in flight slips in; nothing that has ended becomes active again |
| expiry | an agent may be silent, suspended, or its treasury halted | every reservation ends |
| governance | autocommitted statements, a handler that stops in between, two pointers to "the" version (the row and `MAX(version)`), proposals that are looked up without their treasury | no version is lost or rewritten; the pointer always selects one; a proposal is executed once, with as many signatures as a majority of the treasury's wallets |
| agent slots | many writers of one status, most of which decide on an old read, across awaits on Horizon | a bar holds except for what was under way; a session speaks for its slot's key; silence is noticed |
| event log | two processes number events side by side during a deploy; a bounded channel that skips; failed transactions are not retried | numbers without gap or duplicate, in the order of each process; every event is logged, given up for a named cause, or still ahead of its worker; the worker catches up |
| sockets | a lagging receiver, a database that does not answer | in order, once, and for a dashboard without a gap |
| watchers | several tasks share one cursor and one set; a task stops at any await; every Redis error is ignored; the set is trimmed at random | no inflow is skipped and none is announced twice, but for what the order of marking, saving and sending leaves |
| one-time tokens | look-up and write are two commands | used once, or twice only by handlers that raced; failed logins bounded |
| intents | a payment outside the database between two transactions, an answer that may be lost, a client that hangs up | what is paid was admitted; what the agent is told is so; a halt stops what is not under way |

## 2. The modules

| module | extends | models |
|---|---|---|
| `PolicyEngine` | | `policy/mod.rs`, `policy/rules.rs` as operators |
| `Permits` | `PolicyEngine` | `permit.rs`, `apply_halt`, `resume_treasury`, the TTL watcher, what resync and revocation do to permits |
| `PermitLedger` | | the abstract ledger of grants that `Permits` promises; `Permits` instantiates it with a refinement mapping |
| `Intents` | `Permits` | `submit_intent`, `execute_signed_intent`, composed with `Permits`; Horizon is external |
| `Remittance` | | the abstract life of a payment that `Intents` promises, without handlers, a database and lost answers |
| `Governance` | | `constitution.rs`, `proposal.rs`, the rule removal of `agent.rs` |
| `Charter` | | the abstract charter that `Governance` promises: versions, one in force, votes, mandates, without handlers |
| `AgentSlots` | | every writer of `agent_slots.status`: `agent.rs`, `mcp.rs`, heartbeat monitor |
| `EventBus` | | the broadcast channel, the persistence worker of `main.rs`, `persist_treasury_event` of `lib.rs`, the sockets of `dashboard.rs`, `agent.rs` and `mcp.rs` |
| `Journal` | | the abstract event log that `EventBus` promises: what is sent, logged and still owed, without channels and locks |
| `HorizonWatcher` | | `horizon.rs`, and the table of watcher tasks in `wallet.rs` |
| `OneTimeTokens` | | `verify_signed_request`, passkeys and the limit on failed logins of `auth.rs`, wallet nonces, connect challenges as tokens |
| `PolicyReference` | `PolicyEngine` | what the engine should decide, as one set of conditions, and a caller that asks it about every situation |
| `MC*` | each of the above | contents, symmetry sets and small inputs for TLC; `MCServices` puts `EventBus`, `HorizonWatcher`, `OneTimeTokens` and `PolicyReference` side by side |
| `*Proofs` | the module named, TLAPS | invariants and theorems; `ServicesProofs` has those of `PolicyReference` and of `MCServices` |

Naming is the code's: handlers are actions with the handler's name, or one action per
statement (`ReadSlot`, `ReadTreasury`, `ReadReserved`, `ReadActiveCount`, `Decide`,
`Commit` are the statements of `process_single_permit` and the commit). In every
module `Workers` are the handlers in flight at once, `pc` says where each of them is,
and a handler may `Fail` at any step. With one worker the API is serial and only the
background interleaves with it; with two, every interleaving of two handlers is there.

A definition `X_Y` before the definition `X` is a variant of `X` that a plausible
mistake would give (`LastLeg_OffByOne`, `HaltRevokes_Nothing`). Nothing uses them; they
document what each property notices, and `PROJECT.json` pairs each property with one.

**PolicyEngine.** Amounts are hundredths of a dollar, AUM is in dollars and limits are
compared in hundredths, so `allocation_pct * current_aum` needs no division. Any of them
may be zero or negative where the code takes it so. Checks
return a verdict as the code's do; `approve` and `deny` carry the amount, the reason
and the number of the check.

**Permits.** Variables are the columns other steps read: `treasury` (health, AUM,
peak), `content` (what the pointer selects), `slot` (status), per permit `status`,
`row` and `tx`, the open transaction it belongs to. `VisibleTo(w)` is READ COMMITTED:
committed rows and one's own. A rollback undoes the rows of one transaction. A
revoking UPDATE takes its rows in one step (`WriteOutcome`, `RevokePermits`) and takes
effect at its commit (`CommitOutcome`, `CommitRevocation`) on those that are still
active. The lock on the treasury's row is modelled (`TreasuryFree`), those on permit
rows are not: a statement that would wait is taken as having run before the other's.
`outlived` is history: the permits that became active between a revoking UPDATE and
its commit. The clock is a choice of the permits that expire. One treasury is modelled.
A group's legs are processed for the agent and treasury each of them names, which are not
compared with the session's (`permit.rs:141`, `permit.rs:179-181`): so a group may come from an
agent of another treasury, and `RequestPermitGroup` asks nothing of the session. Its legs
in other treasuries touch no row of this one; one that is denied fails the group, as `Fail`
does. Every other statement selects by the treasury, by one of its agents or by one of its
permits.
No handler, rule or column refuses an amount of zero or below (`permit.rs:84-105`,
`mcp.rs:830-836`), so a leg asks for any integer. `SumApproved` is the code's `SUM`, in
which a negative row counts against the others; `Units` and `Credits` are its positive
and its negative part.

**Intents.** A handler with an intent takes its steps in `Permits` (`SubmitIntent` is
`Accept` there, `AdmitStep` its statements, `Admitted` its commit); then the transaction
is sent (`SendTransaction`), Horizon applies it or not (`ApplyTransaction`, external, at
most once per signed transaction), and `Consume` or `FailIntent` settles the permit.
The answer may be lost, the client may hang up (`Abandon`), the agent may submit the
same transaction again. An error instead of an answer, because the failure
(`mcp.rs:484`) or the intent's record (419, 461, 499) cannot be stored, tells the agent
nothing of its intent and is no answer in the model. `SettleIntent` of `Permits` is the effect on the permit alone, for the runs
of that module. The comparison of the transaction with the intent is a step that may
fail; the wallet an intent resolves to is any, because `load_agent_rules` reads the
newest version and not the one in force. For `Remittance`, what is offered, granted and
awaited are the permits of the handlers at `admit`, `execute` and `wait` (`HeldAt`); a
reservation is a committed, active permit with a payment, and a charge a consumed one. A
handler that stops before its commit (`NotAdmitted`) withdraws the offer, one that stops after
it (`Abandon`) forgets the payment.

**Governance.** `history` is `constitution_history`, `pointer` is
`treasuries.constitution_version`; a content is the set of agents it has rules for.
`sign_proposal` takes up to ten steps, each of them committed by itself. The 72 hours of a
proposal are a step that may come at any time (`RunOut`). `applied` is history: the
versions each proposal has been written as, `electors` the wallets that have ever been
active. The treasury that is modelled is `Home`. `sign_proposal` selects the proposal by
its id alone (`proposal.rs:178`) and never compares its treasury with the path's, which it
uses for the wallet check, the count of wallets, the history and the pointer. So a proposal
carries the treasury it was created under, a handler the one of its path (`BeginSign`
takes any of `Treasuries`), and the signatures are one set, whatever path they came by.
Under another treasury's path a handler reads and writes the same proposals and
signatures; what it finds of that treasury's wallets and open proposals is a choice, and
the history and pointer it writes are not the ones modelled. For `Charter`, the ballot is
the contents of all proposals, one of `Home`'s handlers holds a mandate from its count of the wallets until its version is
inserted (`pc` is `execute`, `max` or `append`), and an adoption
from there until the pointer moves (`point`). A handler that stops lets it lapse. A
handler may also end in the panic of the last `unwrap` (`proposal.rs:338`), which the
proposal of another treasury leads to: by then everything is committed, and the model
has it as the end of the handler.

**AgentSlots.** A slot is status, key and last contact (never, recent, old). The
answers of the rules and of Horizon are any, since both may change between any two
statements. `revived` is history: slots that have left SUSPENDED or REVOKED.

**EventBus.** An event is the number of its send; `sender` says which process sent it.
`bus[p]` is the channel of process `p`, `worker[p].next` the position its receiver is at:
what tokio keeps is the newest `Capacity` positions (`Oldest`). The worker's steps are
`Receive`, `TakeLock`, `ReadSequence`, `InsertEvent`; a failed statement (`PersistFails`)
rolls back and goes on to the next event, as the code does. Two processes run at once
while a deploy replaces one by the other. `dropped` is history: events given up because
the worker lagged, its transaction failed, or its process stopped. A socket is where its
receiver is and what it has forwarded; one that lags ends for a dashboard (`while let
Ok`) and goes on for an agent. For `Journal`, what is owed is what was sent and is
neither logged nor dropped.

**HorizonWatcher.** One wallet. `ledger` is what Horizon has, `cursor` and `seen` are the
two keys in Redis, a task is at one of the awaits of `process_operation` (`mark`, `save`,
`send`) or between them. `handle` is the wallet's entry in the table of tasks and
`verifying` the task a verification has started and not yet put there; tasks of a boot
are in no table. Redis commands may fail, which the code ignores, and the keys run out.
History: `announced` counts, `cut` are operations a task had marked when it was stopped,
`passed` those that a connection at "now" left out, `doubted` those of which the set
could not tell, because it had been trimmed or had run out, a command failed, or another
task was between its question and its mark.

**OneTimeTokens.** Handlers look a token up and write it in two steps. `Skew` and
`Lifetime` are the 300 and 600 seconds of `verify_signed_request` in units of `Skew`;
challenges are one subject's, of any of the four kinds, which all GET, compare, DEL.

**PolicyReference.** `asked` is what the engine is asked about: in one step, every
situation with one requested amount. The engine keeps no state, so this is only a way to
let its inputs range over sets.

## 3. What is checked

Deadlock is checked in all runs. State counts are distinct states; times are for two workers on a small machine.

| run | instance | checks | states |
|---|---|---|---|
| `services` | the four parts below side by side, one moving per behaviour, fairness | see below | 518 376, 170 s |
| - engine | health, access, amounts -1 to 5 hundredths, AUMs, percentages, caps and counts around each limit | the engine equals a reference written as one set of conditions; more active permits never get an agent more | |
| - bus | 2 processes, 3 events, a channel of 1, 1 socket | the log follows the bus and catches up, `EventBus` implements `Journal`, sockets forward in order | |
| - watchers | 2 tasks, 2 operations, a set of 1 | inflows are announced, and once | |
| - tokens | 2 handlers, 1 request over 4 seconds, 2 challenges, a limit of 2 | used once, attempts bounded | |
| `permits_serial` | 1 handler, 3 permits, 2 agents, groups of 2 legs of -1 or 3 hundredths, 2 constitutions | the treasury's cap exactly, groups atomic, outcomes move the AUM they report, `Permits` implements `PermitLedger` | 589 509, 110 s |
| `permits_concurrent` | 2 handlers, 3 permits of -1 or 3 hundredths, 1 agent | types, agent cap, allocation, halts and revocations contained, no reactivation | 1 320 508, 140 s |
| `permits_live` | 2 handlers, 2 permits, suspensions, fairness, no symmetry | every active permit ends, every handler returns | 114 712, 120 s |
| `permits_halt` | 2 handlers, 3 permits, 1 agent | violated: a halted treasury has no active permit (section 5) | 18-state trace |
| `governance_serial` | 1 handler, 2 treasuries, 2 proposals, 2 wallets, 2 further versions | one execution per proposal, one open proposal, fate is final, decided by a majority's number of signatures | 625 773, 30 s |
| `governance_concurrent` | 2 handlers, 2 treasuries, 1 proposal, 1 wallet, 2 agents, 2 further versions | types, sound history, revocations lose nothing, `Governance` implements `Charter` | 1 133 186, 100 s |
| `governance_applied` | 1 handler, 1 proposal | violated: an executed proposal is in the history (section 5) | 12-state trace |
| `agents_concurrent` | 2 handlers, 1 slot, 1 key, fairness, no symmetry | types, a bar is left only late, silence is noticed | 827 929, 55 s |
| `agents_serial` | 1 handler, 2 slots, 2 keys | sessions match keys | 2 961 063, 85 s |
| `agents_suspended` | 1 handler, 1 slot | violated: a suspension holds (section 5) | 9-state trace |
| `intents` | 2 handlers, 2 permits, 1 signed transaction, a treasury that may halt, resyncs | admitted before paid, truthful answers, halts stop payments, `Intents` implements `Permits` and `Remittance` | 256 166, 80 s |

What they say, for the ones that are not plain from the table:

- *Caps under concurrency* (`AgentCapHolds`, `TreasuryCapHolds`). The engine decides on
  counts that do not include other open transactions. The bound is the cap plus
  `InFlight`, the legs of the other handlers. It is reached, as are those of halts,
  revocations and payments below: each is violated when it is smaller by one. With one handler
  `InFlight` is 0 and the same formula is the limit itself.
- *Halts* (`HaltContained`). In a halted treasury the active permits, apart from those
  that became active while the halt was committing, are at most the legs that were in
  flight. `HaltStopsPayments` carries this to money: at most one transaction per other
  handler leaves after a halt.
- *The allocation* (`AllocationHolds`). A negative permit that is granted lowers the sum
  the next decision reads (`permit.rs:564`), and what is granted beside it stays when it
  ends. So no bound by the allocation alone holds, not even with one handler. What holds
  is that the positive amounts an agent has active on a wallet are within the allocation
  and all the negative amounts it has been granted there, ended or not, once for each
  handler.
- *The ledger* (`ImplementsLedger`). `PermitLedger` has no handlers and no database: a
  grant enters only when every limit holds with it, and a halt empties the ledger. The
  allocation is one of the limits, with the room that negative grants have made for it
  (`Room`), which never gets less. A serial API implements the ledger; a concurrent one
  cannot, which is why the bounds above exist.
- *Answers* (`AnswersTruthful`). `executed` means on the ledger and charged, for ever;
  `rejected` means never sent; neither it nor `failed` leaves a reservation. `failed`
  does not mean unpaid: an answer of Horizon that is lost reads as a failure, and the
  model contains the second submission that may follow.
- *Payments* (`ImplementsRemittance`). `AnswersTruthful` speaks of each state, the
  remittance of the steps. A payment is sent at most once under a permit, and only on a
  grant; it is charged when the ledger has it, or when its agent reports an outcome
  (`ConsumedWasPaid`, a theorem of its own); an answer is never replaced by another; and a
  reservation that a halt, the watcher or a failure has ended does not come back, whatever
  Horizon answers afterwards. It allows what the code does allow: a payment is sent although its
  reservation has ended since the grant, and is made after it was given up.
- *Bars* (`BarredComesBackLate`). A suspended or revoked slot leaves its bar only by an
  enrollment that was under way or by a handler that had read the slot before.
- *The charter* (`ImplementsCharter`). `Charter` has no handlers and no statements: a
  version is added on top of the others, either by an edit, a rollback or a revocation,
  which puts it in force in the same step, or under a mandate for exactly this content,
  which serves once. A mandate has as many signatures as a majority of the treasury's
  active wallets, and one of them is by a wallet that is or was active in the treasury. It
  allows what the code does allow: the proposal may be another treasury's, the other
  signatures may be of wallets that were removed or never were the treasury's, and an
  adopted version may come into force after a newer one, or never. An insert that does not
  notice that its version is taken (`Taken_Never`) would put an edit in force that was not
  added.
- *Decisions* (`DecidedByMajority`). The same fact at the step that decides, with two
  wallets that sign, join and leave between the two counts. A threshold of one half
  (`Threshold_Half`) would decide without a majority.
- *Races left to the proofs.* `ExecutionsBounded`, `OpenProposalsBounded`, `FateIsFinal`
  and `OutcomeMovesAum` are checked with one handler, which may stop at any statement:
  two signers, two creators, or two outcomes do not interleave in these runs.
  `ExecutionsCorrect` and `OpenProposalsCorrect` hold for any number of handlers, with
  their number as the bound; the other two are not true of two handlers (section 5).
- *The journal* (`ImplementsJournal`). `LogFollowsBus` speaks of each state, the journal of
  the steps: rows are only added, each is the oldest its process is owed, what is given
  up is given up from the oldest on, and never turns up later. A worker that resumes
  one event too late after a lag (`SkipLagged_OffByOne`) would lose an event silently.
- *The log* (`LogFollowsBus`). Four facts that hold or fail together: no gap, no
  duplicate, the order of each process, and a complete account of every event. Without
  the lock (`Receive_Unlocked`) two workers read the same number and an event is neither
  logged nor given up knowingly. `LogCatchesUp` says that the account settles: again and
  again everything sent is logged or dropped.
- *Inflows* (`InflowsAnnouncedOnce`). The code marks, saves, then sends. So a task that is
  stopped in between loses what it had in hand, and only that; and an inflow is announced
  twice only if the set could not tell. Saving the cursor first
  (`TakeOperation_SavesFirst`) would lose operations that were never marked.
- *Tokens* (`UsedOnce`). Two uses of one request need both handlers past EXISTS before
  either SETEX, or a look-up in the last second of the window: a key that is stored at
  the first second of the window runs out with its last. A lifetime of one `Skew` lets
  the same request in twice without a race.

**Bounds.** Two handlers suffice for every race the code has between two requests: each
one is between a read and a write of one handler and a write of another. Three permits
let one be active, one slip in and one be requested; two would hide the excess. One
wallet suffices, since rules are per pair of agent and wallet and no check compares
wallets; the order of wallets in a group is covered by legs on the same wallet with
either numbering. AUM is at most two dollars, with outcomes of -1, and a drawdown limit of
50 percent: the first report halts, and reports on earlier permits go on after it. A leg
of 3 hundredths is more than the allocation, which is 2, or 1 after a loss: it is granted
in part, or in full beside a grant of -1; a tier limit of 1 cuts it further. `MaxVersion`
2 lets an execution, an edit and the version they compete for exist together. One other
treasury suffices, since all there is of one is the proposals and signatures it shares.
With one wallet and two handlers the wallet may sign under either path, and leave; with
two wallets and one handler a single signature is no majority of both, and a removed
wallet's may complete one. One signed transaction that may be submitted under two permits
is the interesting case of `Intents`: with two transactions nothing new relates them; the
resync lets a halted treasury look healthy to every check but that of its halt.
In `services` the channel holds one event so that with three events a worker and a socket
lag, also after they have forwarded something; two processes are a deploy; two
tasks are one in the table and one that is not; a set that keeps one of two operations
is trimmed. One operation is an inflow and one does not parse: an operation that is
neither an inflow nor broken goes through the same steps, and the proofs have it. The parts
of `services` share no state that the models keep, so a behaviour moves only one of them.
Symmetry is used for permits, handlers,
proposals, wallets and keys in runs without liveness, none of which are told apart.

**Fairness.** `Permits`: strong fairness of each handler's steps, because PostgreSQL
grants a row lock in the order of the requests, so a handler is not overtaken for ever;
and weak fairness of the TTL watcher for each permit, which ticks every minute while the
hour of a permit passes. Under these `PermitsDrain` and `HandlersFinish` hold.
`EventBus`: strong fairness of each worker's steps, because its loop is never cancelled,
and PostgreSQL grants the advisory lock in turn; processes may stop, and nothing obliges
a socket to keep up. `AgentSlots`: weak fairness of `MonitorHeartbeats`, which ticks every two minutes. No
one is obliged to ask for anything, to sign, to report or to come back. `Governance`
has no liveness property: its handlers may stop anywhere, and nothing retries them.
`Intents` has none because the HTTP client to Horizon has no timeout: a handler may
wait for ever, and its permit ends by the watcher, which `permits_live` checks.

## 4. What is proved

TLC checks the instances above; the theorems hold for any number of handlers, permits,
agents, wallets, legs, proposals, versions, keys and payments. The assumptions are the named
ASSUMEs of the modules: finite sets of handlers, permits and wallets, `None` outside the sets it
is distinguished from (in `Permits` also no record of a grant, `NoneAssumption`, since the
ledger has it for "no grant"), constants in their ranges, and contents that are valid and
within the caps the theorems speak of. TLC evaluates them in every run. Three theorems
speak of a serial API and assume it: one handler, and for the two about the AUM no resync.
Amounts are any integers, and the treasury a proposal or a handler's path names is any of a
set that contains `Home` (`HomeAssumption`).
Four abstract specifications are implemented, each by a step simulation: `PermitLedger` by
`Permits` (for a serial API), `Charter` by `Governance`, `Journal` by `EventBus` and
`Remittance` by `Intents` (for any concurrency); and `Intents` implements `Permits`.

**Permits** (`PermitsProofs`).
`TypeInv` is the type invariant with what a handler knows at each step (`HandlersOK`: a
view once it has read one, an outcome once it has one) and that a row in an open
transaction has all its columns. `OpenInv` says that a row with an open transaction
belongs to a handler that is processing a request, and that a handler's legs have
numbers of their own. `BoundsInv` says that what a handler has read was within the caps.
- `TypeCorrect`, `NoReactivationCorrect` from `TypeInv`.
- `AgentCapCorrect`, `TreasuryCapCorrect`. The cap is not inductive by itself: at a
  decision the handler's count is old, so the proof shows that every active permit is
  one the handler counted, its own new one, or a row of another open transaction; those
  are at most `InFlight` by `OpenInv` (`OthersBounded`, `SeenPlusOthers`). What the
  handler counted cannot be more than what is active and committed now or is its own.
- `AllocationCorrect`. What is reserved is not bounded by a sum a handler has read, which
  is old when it decides. `ClaimsBounded` gives each handler one allocation, and the
  negative amounts granted so far, for what it has approved itself and for what it has
  read and may still grant against; the reserved amount is split by the handlers that
  approved it (`PartsBounded`).
- `HaltCorrect`. The inductive invariant counts not only the permits that are active but
  the handlers that may still approve one because they read the treasury before the halt
  (`PastHalt`, `HaltBounded`): no step in a halted treasury makes that set larger. It
  needs that a halt's UPDATE has taken everything active (`RevocationsInv`).
  `RevocationContainedCorrect` is the same argument for the slot of an agent
  (`PastRevocation`, `RevocationBounded`).
- `AllOrNothingCorrect` from `DecidedInv` (the legs before the one a handler is at are
  decided) and `TakenInv` (what a handler is to consume or revoke is committed, so none of
  it is a leg of an open request). `OutcomeCorrect`, for a serial API, from `FreshInv`:
  the AUM a report adds to is still the AUM.
- `LedgerCorrect`, for a serial API: the step simulation of `PermitLedger`. `SerialInv`
  carries the promise from the reads to the commit: what a handler has read of treasury
  and constitution is so, the sums it has read are not below those of now, and each leg it
  has approved is within every limit with all the others that are active (`Admissible`),
  where negative rows, ended or not, make room in the allocation.
  Rounds of the watcher and ends of intents only take permits away, which keeps all of this
  (`PairStays`). A commit is then an `Admit` of the ledger, the end of a report its
  `Settle` or `Halt`, a revocation its `Amend`; everything before a commit is a stutter.

**Governance** (`GovernanceProofs`).
- `TypeCorrect`, `HistoryCorrect` and `EditsCorrect` from `VersionsInv`: history has no gap and a
  handler about to insert a version has read its predecessor.
- `ExecutionsCorrect` from `ExecutionsInv`: the versions a proposal has been written as,
  and the handlers that found it PENDING and may still write it, are together at most
  the handlers. The bound alone is not inductive, since nothing in it limits who may
  still write.
- `RevocationCorrect` from `RevocationInv`: the content a revocation is about to insert
  is its predecessor less the agent.
- `OpenProposalsCorrect` from `OpenInv`: the open proposals and the creators that have
  found none open are together at most the handlers. `MajorityCorrect` from `CountInv`:
  the signatures a handler has counted are still there when it counts the wallets, and
  others may only have come; and from `ElectorsInv`: the handler's own wallet has signed,
  and it was active when it was checked. That the other signers are wallets of the
  treasury is not true, nor is it claimed. `FateCorrect`, for a serial API, from `PendingInv`: the
  proposal a handler decides on is still PENDING.
- `CharterCorrect`: the step simulation of `Charter`. An insert that succeeds takes the
  next number, so it is an `Enact` or an `Adopt` (`CharterAppends`; that the number is the
  newest plus one is `VersionsInv`); the count of the wallets that reaches the threshold
  is a `Carry` (`MajorityStep`, the same fact `MajorityCorrect` rests on), and only a
  handler under the treasury's own path gets to its history (`HomeInv`); the pointer's
  UPDATE is an `Enforce`; a handler that stops, or meets a used version, is a `Lapse`.
  `TabledInv` is what the mapping itself needs: the proposal a handler votes on is on the
  ballot, and no step takes it off again (`TabledMoves`).

**AgentSlots** (`AgentSlotsProofs`).
- `TypeCorrect`, and `ContactCorrect` and `BarCorrect` from `ControlInv`, which says
  what a handler that is about to write has read, and that a handler that read a bar
  writes a bar.
- `SessionsCorrect` from `KeyInv`: whatever claims a key for a slot (a session, a
  challenge of either kind, a handler in flight) claims the slot's own key, or the slot
  has no key because it is barred, or it once came back from a bar. Sessions alone are
  not inductive: they are issued from challenges and handlers.

**Intents** (`IntentsProofs`).
- `PermitsImplemented`: every step of `Intents` is a step of `Permits` or leaves its state
  alone. So what is proved of `Permits` holds with intents: `TreasuryCapWithIntents`,
  `LimitsWithIntents` (types, agent cap, allocation, halts, revocations) and
  `EndingsWithIntents` (no reactivation, groups all or nothing) are its corollaries.
- `IntentsTypeCorrect`, `AdmissionCorrect`, `ConsumptionCorrect`, `AnswersCorrect`. From
  `ControlInv`: a handler with an intent owns exactly its permit's row until the commit,
  and goes on only with a row that is committed and granted; no two handlers have the
  same permit; an answer is the last act of the permit's only handler. `GrantedStays` is
  the fact about `Permits` behind it: no step takes a granted row back, and one that has
  ended stays ended.
- `RemittanceCorrect`: the step simulation of `Remittance`, from `RemitInv`, which adds
  to `ControlInv` that a permit with a payment is committed or belongs to the handler that
  examines it, that what a handler is about to send has not been sent (`PlacesInv`), that no
  permit ends in an open transaction (`OpenStatus`), and `TakenInv` of `Permits`. A step of a handler at its
  intent moves its permit and no other from one stage to the next (`HeldAtMoves`); all
  other steps leave the stages alone (`HeldAtStays`). Those of `Permits` (`RemitBeside`)
  are then an `End` of some reservations, or the commit of an outcome, which consumes one permit
  (`ReportConsumes`) and is a `Report`.
- `HaltPaymentsCorrect` from `PaymentsBounded`: the transactions that have left since the
  halt and the handlers that may still send one (`Underway`: their permit is approved, or
  they read the treasury for it before) are together at most the handlers less the one
  that halted. `CanSendStays` says that in a halted treasury nobody joins them.

**EventBus** (`EventBusProofs`).
- `LogCorrect`. None of its four facts is inductive alone. The invariant adds who holds
  the lock (`LockHeld`: exactly the worker between its lock and its commit), that the
  number it has read is still the next (`NumberFree`), that what is ahead of a worker is
  neither logged nor dropped (`Fates`) and newer than what it has settled (`Behind`), and
  that a channel has its process' events in order (`BusOrder`).
- `SocketsCorrect` from `SocketInv`: what a dashboard's socket has forwarded ends just
  before its position, an agent's somewhere before it. `BusTypeCorrect` from both.
- `JournalCorrect`: the step simulation of `Journal`, from the invariant of `LogCorrect`.
  What a process is owed is what is ahead of its worker (`OwedIsAhead`), in the order of its
  sends. A committed insert is an `Enter` of the oldest of it (`JournalEnters`); a lag,
  a failed transaction and the end of a process are one `GiveUp` of a beginning of it, or
  nothing when there is none (`JournalGivesUp`); the lock, the numbering and the sockets are stutters.

**HorizonWatcher** (`HorizonWatcherProofs`).
- `CursorCorrect` from `CoverInv`: every inflow that the cursor, a task's position or the
  set has got past is accounted for, where an operation in hand counts only from its
  marking on. The property counts it from its taking on, which is not inductive: a task
  that stops before it marks leaves no trace. `StepKeeps` shows that what is accounted
  for stays so.
- `OnceCorrect` from `OnceInv`: of an operation the set can tell of, at most one task has
  it in hand, it has not been announced meanwhile, and from its marking on it is in the
  set. `InflowsCorrect` is both; `WatcherTypeCorrect` the types.

**OneTimeTokens** (`OneTimeTokensProofs`). `UsedOnceCorrect` from `RequestInv`,
`ChallengeInv` and `AcceptedInv`: the key of an accepted request outlives its window, a
challenge that was accepted is not stored any more, and of a token that nothing excuses
at most one handler is about to write, and only before it has been accepted. `AttemptsCorrect` from `LoginsInv`: failures and the handlers past the check,
together, are within the bound. `TokensTypeCorrect`: types.

**PolicyReference** (`ServicesProofs`). `ReferenceCorrect` and `TighterCorrect`:
whatever sets of integers the engine is asked about. The invariant is that what is asked
are situations; each check is then compared with the condition that stands for it.

**The services side by side** (`ServicesProofs`). `PartsCorrect`: a behaviour of
`MCServices` is one of each of its four parts, because a step of one leaves the others
alone. `ServicesTypeCorrect`, `ServicesCorrect` and `JournalWithServices` carry every
invariant and the refinement of the `services` run over to it.

**Only model-checked.** Liveness (`PermitsDrain`, `HandlersFinish`, `SilenceIsNoticed`,
`LogCatchesUp`), which is out of the prover's reach. Every invariant, action property and
refinement of the runs that TLC confirms is proved.

## 5. Where the code and its documentation disagree

Each is a run that TLC is expected to refute.

- `permits_halt`: `apply_halt` takes an advisory lock "to prevent race conditions during
  halt" (`treasury.rs:123`) and revokes "all active permits" (`treasury.rs:143`).
  Permit requests never take the lock, so a permit whose insert commits while the halt is
  in flight stays active in the halted treasury, until its hour is over.
- `governance_applied`: the governance test asserts that a proposal that reports
  EXECUTED is in the history (`tests/constitution.rs:343`). `sign_proposal`
  commits the status first (`proposal.rs:280`); a handler that stops, or meets a used
  version number, leaves a proposal that is EXECUTED, was never applied and cannot be
  signed again.
- `agents_suspended`: a suspended agent is refused (`tests/agents.rs:184`), but an
  enrollment challenge stored before the suspension still moves its slot to
  PENDING_SIGNER (`agent.rs:773`).

Other facts met on the way, for which no source promises otherwise: a permit for a
negative amount is granted and lowers the sum of the agent's reservations
(`permit.rs:564`), so that more than the allocation can be granted beside it and stays
when it ends; a proposal can be signed and executed under the path of another treasury
than the one it was created in (`proposal.rs:178`), whose constitution it then becomes,
and signatures of wallets of the first treasury, or of wallets removed since, count in
the second (`proposal.rs:259`); the response to such a request is a panic after its last
write (`proposal.rs:338`); a leg of a group need not name the session's agent and
treasury (`permit.rs:179`); an outcome is accepted for a permit that was denied or has ended; with two handlers one of two outcomes can be
lost from the AUM; a late signature can mark an executed proposal EXPIRED; a partly
approved intent is paid in full (`mcp.rs:1077`); the reason of a failed intent may not
fit its column (`mcp.rs:1225`, `deny_reason VARCHAR(100)`), and then the permit stays
active for its hour; an event whose transaction fails is logged as an error and never
tried again; the set of seen operations is one wallet's and not one treasury's, so of two
treasuries with the same wallet only one hears of an inflow; inflows by
`path_payment_strict_send` and `create_account` (whose operation has no "to") are
discarded; a watcher that was started at boot survives `disconnect_wallet`, and one that
has met a 404 is gone until a restart or a verification; `2u64.pow` overflows at 64
failures in a row (`horizon.rs:273`); one key holds the passkey challenge of an address
for a registration as well as for a login (`auth.rs:558`).

## 6. What is not modelled, and the plan

Not modelled because there is no state in it to go wrong: `stellar.rs`, `multisig.rs`,
`config.rs`, error mapping, read-only endpoints, layout of events and responses.
`permit_groups` rows are left out because no decision reads them; the Redis copies of
the constitution and of intents because nothing reads them back.

The Python SDK (`src/synod-sdk-python/`) is not modelled: it is a client, its phases and
caches are its own, and what it may send is what the models allow any agent to send. The
accounts, `wallet_connections` and the time a watcher sleeps between two connections are
not modelled because nothing else depends on them. Of the hazards, four have no
property: what an SDK has missed while it was reconnecting (`ws.py:58`), the AUM after a
wallet whose balances could not be read (`resync.rs:180`), the overflow above, and the comparison of a transaction with the requested and not the
approved amount (`mcp.rs:1077`): the models have the steps, and no source says what would
be right.

What is done, in its order: `PolicyEngine`, `Permits` and `PermitLedger`; `Governance`;
`AgentSlots`; `Intents`, composed with `Permits`; `EventBus`, `HorizonWatcher`,
`OneTimeTokens`; each with proofs; `Charter`, `Journal` and `Remittance`. What is left:

1. An abstract roster of keys and sessions that `AgentSlots` implements.
2. `SdkAgent`: phases, the halted flag, reconnection without resynchronisation, with the
   sockets of `EventBus` as its source.
