--------------------------- MODULE HorizonWatcher ---------------------------
(***************************************************************************)
(* The watchers of one wallet (horizon.rs): tasks that stream the          *)
(* operations of the wallet's account from Horizon and announce the        *)
(* inflows on the event bus.  What they have got through is in Redis, in   *)
(* two keys that all tasks of the wallet share: a cursor, where the next   *)
(* connection starts, and the set of operations that have been seen.       *)
(*                                                                         *)
(* Several tasks may run for one wallet.  A process starts one at boot for *)
(* every treasury that has the wallet, which no table remembers; a         *)
(* verification starts another and aborts the one that the table of        *)
(* handles holds (wallet.rs); in a deploy the old process' tasks are still *)
(* running.  A task stops at any await: aborted, or with its process.      *)
(*                                                                         *)
(* Horizon is external: it has the account's operations in order, and      *)
(* streams those after the cursor, or with the cursor "now" those to come. *)
(* The connection ends at any time, with any of the reasons the code has.  *)
(* Redis is external: a command may fail, which the code ignores, and a    *)
(* key runs out when it has not been written for long.                     *)
(*                                                                         *)
(* Not here: how long a task sleeps before it connects again, the amount   *)
(* of an inflow and the staggered start.  SADD and the trimming of the set *)
(* are one step.                                                           *)
(*                                                                         *)
(* A definition named X_Y, before the definition X, is a variant of X that *)
(* a plausible mistake would give; nothing uses it.                        *)
(***************************************************************************)
EXTENDS Integers, Sequences, FiniteSets

CONSTANTS
  Tasks,        \* watcher tasks
  Operations,   \* what an operation may look like
  Wallet,       \* the wallet's address
  Monitored,    \* codes of the assets that are monitored
  SeenMax,      \* operations the set of seen ones keeps (2000)
  MaxOps,       \* bound: operations of the account
  NoTask        \* no task

ASSUME WatcherAssumption ==
  /\ NoTask \notin Tasks
  /\ SeenMax \in Nat
  /\ MaxOps \in Nat

VARIABLES
  ledger,       \* the account's operations, by paging token
  cursor,       \* the cursor in Redis, Now without one
  seen,         \* the set of seen operations in Redis
  task,         \* the watcher tasks
  handle,       \* the wallet's task in the table of handles
  verifying,    \* the task a verification has started and not yet put there
  announced,    \* history: how often each operation has been announced, up to 2
  passed,       \* history: operations that a connection at "now" left out
  cut,          \* history: operations a task had marked and then stopped
  doubted       \* history: operations of which the set could not tell

watcherRedis == <<cursor, seen>>
handles == <<handle, verifying>>
histories == <<announced, passed, cut, doubted>>
watcherVars == <<ledger, watcherRedis, task, handles, histories>>

Now == 0
PagingTokens == 1..MaxOps
Off == [at |-> "off", next |-> 1]

WatcherInit ==
  /\ ledger = <<>>
  /\ cursor = Now
  /\ seen = {}
  /\ task = [t \in Tasks |-> Off]
  /\ handle = NoTask
  /\ verifying = NoTask
  /\ announced = [n \in PagingTokens |-> 0]
  /\ passed = {}
  /\ cut = {}
  /\ doubted = {}

(***************************************************************************)
(* classify_inflow.                                                        *)
(***************************************************************************)

\* An operation of type op_type whose "to" and "asset_code" may be missing.
Inflow(op) ==
  /\ op.parses
  /\ op.op_type \in {"payment", "path_payment_strict_receive", "create_account"}
  /\ op.to = Wallet
  /\ (IF op.asset_code = "" THEN "XLM" ELSE op.asset_code) \in Monitored

IsInflow(n) == Inflow(ledger[n])

\* The account takes part in an operation.
OperationLands(op) ==
  /\ Len(ledger) < MaxOps
  /\ ledger' = Append(ledger, op)
  /\ UNCHANGED <<watcherRedis, task, handles, histories>>

(***************************************************************************)
(* Connecting.                                                             *)
(***************************************************************************)

TaskAt(t, label) == task[t].at = label

Goes(t, label, next) == task' = [task EXCEPT ![t] = [at |-> label, next |-> next]]

\* get_cursor, where an error is "now" as well, and the request.  A stream at
\* "now" leaves out what has happened until it opens.
Connect(t) ==
  /\ TaskAt(t, "connect")
  /\ \/ /\ cursor # Now
        /\ Goes(t, "stream", cursor + 1)
        /\ UNCHANGED passed
     \/ /\ Goes(t, "stream", Len(ledger) + 1)
        /\ passed' = passed \cup 1..Len(ledger)
  /\ UNCHANGED <<ledger, watcherRedis, handles, announced, cut, doubted>>

\* A clean end, 30 silent seconds, 429, 503, or an error: the task sleeps,
\* or not, and connects again.
StreamEnds(t) ==
  /\ TaskAt(t, "stream")
  /\ Goes(t, "connect", 1)
  /\ UNCHANGED <<ledger, watcherRedis, handles, histories>>

\* 404: the task ends by itself.
AccountGone(t) ==
  /\ TaskAt(t, "stream")
  /\ Goes(t, "off", 1)
  /\ UNCHANGED <<ledger, watcherRedis, handles, histories>>

(***************************************************************************)
(* process_operation.                                                      *)
(***************************************************************************)

HasOperation(t) == TaskAt(t, "stream") /\ task[t].next <= Len(ledger)

\* The operation does not parse: a warning.
SkipUnparsed(t) ==
  /\ HasOperation(t)
  /\ ~ledger[task[t].next].parses
  /\ Goes(t, "stream", task[t].next + 1)
  /\ UNCHANGED <<ledger, watcherRedis, handles, histories>>

\* is_duplicate: SISMEMBER says so; the cursor stays where it is.
SkipDuplicate(t) ==
  /\ HasOperation(t)
  /\ ledger[task[t].next].parses
  /\ task[t].next \in seen
  /\ Goes(t, "stream", task[t].next + 1)
  /\ UNCHANGED <<ledger, watcherRedis, handles, histories>>

HasInHand(t, n) == task[t].at \in {"mark", "save", "send"} /\ task[t].next = n

\* Another task has asked about the operation and not marked it yet.
Raced(t, n) == \E u \in Tasks \ {t} : TaskAt(u, "mark") /\ task[u].next = n

Doubt(N) == doubted' = doubted \cup N

\* is_duplicate: SISMEMBER says no, or fails, which counts as no.
TakeOperation_SavesFirst(t) ==
  LET n == task[t].next
  IN  /\ HasOperation(t)
      /\ ledger[n].parses
      /\ cursor' = n
      /\ Doubt({m \in {n} : m \in seen \/ Raced(t, m)})
      /\ Goes(t, "mark", n)
      /\ UNCHANGED <<ledger, seen, handles, announced, passed, cut>>
TakeOperation(t) ==
  LET n == task[t].next
  IN  /\ HasOperation(t)
      /\ ledger[n].parses
      /\ Doubt({m \in {n} : m \in seen \/ Raced(t, m)})
      /\ Goes(t, "mark", n)
      /\ UNCHANGED <<ledger, watcherRedis, handles, announced, passed, cut>>

\* What SPOP may leave of the set S: it removes random members.
Trimmed(S) ==
  {R \in SUBSET S : Cardinality(R) = IF Cardinality(S) > SeenMax THEN SeenMax
                                     ELSE Cardinality(S)}

\* mark_seen: SADD, which may fail, and the trimming.
MarkSeen(t) ==
  LET n == task[t].next
  IN  /\ TaskAt(t, "mark")
      /\ seen' \in {seen} \cup Trimmed(seen \cup {n})
      /\ Doubt((seen \cup {n}) \ seen')
      /\ Goes(t, "save", n)
      /\ UNCHANGED <<ledger, cursor, handles, announced, passed, cut>>

\* save_cursor: the token of the operation in hand, whatever the cursor is; the
\* command may fail.
SaveCursor(t) ==
  /\ TaskAt(t, "save")
  /\ cursor' \in {cursor, task[t].next}
  /\ Goes(t, "send", task[t].next)
  /\ UNCHANGED <<ledger, seen, handles, histories>>

\* An inflow is sent on the bus, everything else is discarded.
Announce(t) ==
  LET n == task[t].next
  IN  /\ TaskAt(t, "send")
      /\ announced' = IF IsInflow(n) THEN [announced EXCEPT ![n] = IF @ < 2 THEN @ + 1 ELSE @]
                      ELSE announced
      /\ Goes(t, "stream", n + 1)
      /\ UNCHANGED <<ledger, watcherRedis, handles, passed, cut, doubted>>

\* A key runs out: the cursor after 7 days, the set after 48 hours without a
\* write.
CursorRunsOut ==
  /\ cursor # Now
  /\ cursor' = Now
  /\ UNCHANGED <<ledger, seen, task, handles, histories>>

SeenRunsOut ==
  /\ seen # {}
  /\ seen' = {}
  /\ Doubt(seen)
  /\ UNCHANGED <<ledger, cursor, task, handles, announced, passed, cut>>

(***************************************************************************)
(* The life of a task.                                                     *)
(***************************************************************************)

\* A name for a new task.
Unused(t) == TaskAt(t, "off") /\ t # handle /\ t # verifying

\* spawn_watchers at a start of a process, for a treasury with the wallet.
Boot(t) ==
  /\ Unused(t)
  /\ Goes(t, "connect", 1)
  /\ UNCHANGED <<ledger, watcherRedis, handles, histories>>

\* The tasks of T are stopped.  What they have marked and not sent is cut off.
Stopping(T) ==
  /\ task' = [t \in Tasks |-> IF t \in T THEN Off ELSE task[t]]
  /\ cut' = cut \cup {task[t].next : t \in {u \in T : task[u].at \in {"save", "send"}}}

\* verify_ownership starts the new task before it locks the table.
SpawnVerified(t) ==
  /\ verifying = NoTask
  /\ Unused(t)
  /\ Goes(t, "connect", 1)
  /\ verifying' = t
  /\ UNCHANGED <<ledger, watcherRedis, handle, histories>>

\* The old task is aborted once the new one is in the table.
RegisterVerified ==
  /\ verifying # NoTask
  /\ handle' = verifying
  /\ verifying' = NoTask
  /\ Stopping({handle} \ {NoTask})
  /\ UNCHANGED <<ledger, watcherRedis, announced, passed, doubted>>

\* The request is dropped while it waits for the lock: the task runs on.
VerificationDropped ==
  /\ verifying # NoTask
  /\ verifying' = NoTask
  /\ UNCHANGED <<ledger, watcherRedis, task, handle, histories>>

\* disconnect_wallet.
DisconnectWallet ==
  /\ handle # NoTask
  /\ handle' = NoTask
  /\ Stopping({handle})
  /\ UNCHANGED <<ledger, watcherRedis, verifying, announced, passed, doubted>>

\* The process of T stops.
ProcessStops(T) ==
  /\ T # {}
  /\ Stopping(T)
  /\ handle' = IF handle \in T THEN NoTask ELSE handle
  /\ verifying' = IF verifying \in T THEN NoTask ELSE verifying
  /\ UNCHANGED <<ledger, watcherRedis, announced, passed, doubted>>

TaskNext(t) ==
  \/ Connect(t)
  \/ SkipUnparsed(t)
  \/ SkipDuplicate(t)
  \/ TakeOperation(t)
  \/ MarkSeen(t)
  \/ SaveCursor(t)
  \/ Announce(t)

WatcherNext ==
  \/ \E op \in Operations : OperationLands(op)
  \/ \E t \in Tasks : TaskNext(t) \/ StreamEnds(t) \/ AccountGone(t)
  \/ CursorRunsOut
  \/ SeenRunsOut
  \/ \E t \in Tasks : Boot(t) \/ SpawnVerified(t)
  \/ RegisterVerified
  \/ VerificationDropped
  \/ DisconnectWallet
  \/ \E T \in SUBSET Tasks : ProcessStops(T)

WatcherSpec == WatcherInit /\ [][WatcherNext]_watcherVars
-----------------------------------------------------------------------------
TaskLabels == {"off", "connect", "stream", "mark", "save", "send"}

\* Types, and: a task has the operation it has in hand from the ledger.
WatcherTypeOK ==
  /\ ledger \in Seq(Operations) /\ Len(ledger) <= MaxOps
  /\ cursor \in {Now} \cup 1..Len(ledger)
  /\ seen \subseteq 1..Len(ledger)
  /\ task \in [Tasks -> [at : TaskLabels, next : 1..MaxOps + 1]]
  /\ \A t \in Tasks : task[t].at \in {"mark", "save", "send"} => task[t].next <= Len(ledger)
  /\ handle \in Tasks \cup {NoTask}
  /\ verifying \in Tasks \cup {NoTask}
  /\ announced \in [PagingTokens -> 0..2]
  /\ passed \subseteq PagingTokens /\ cut \subseteq PagingTokens /\ doubted \subseteq PagingTokens

\* No inflow is skipped.  The cursor, and with it the next connection of every
\* task, passes an inflow only when it has been announced, a task is about to
\* announce it, a task that had marked it was stopped before it could, or a
\* connection without a cursor left it out (horizon.rs:188-205).
CursorCovers ==
  \A n \in 1..cursor : IsInflow(n) =>
    \/ announced[n] > 0
    \/ n \in cut \cup passed
    \/ \E t \in Tasks : HasInHand(t, n)

\* No inflow is announced twice, whatever is streamed again and however many
\* tasks watch the wallet, while the set of seen operations can tell: the
\* command that asks it and the one that adds to it succeed, the operation is
\* still in it, and no other task is between the two (horizon.rs:191-197).
AnnouncedOnce == \A n \in PagingTokens : announced[n] > 1 => n \in doubted

\* Both: every inflow is announced, and once, but for the losses and the doubts
\* that the code's order of marking, saving and sending leaves.
InflowsAnnouncedOnce == CursorCovers /\ AnnouncedOnce

=============================================================================
