------------------------- MODULE HorizonWatcherProofs -------------------------
(***************************************************************************)
(* Proofs about HorizonWatcher, for every set of tasks, any number of      *)
(* operations and every size of the set of seen ones.                      *)
(***************************************************************************)
EXTENDS HorizonWatcher, TLAPS, SequenceTheorems

TaskStates == [at : TaskLabels, next : 1..MaxOps + 1]

\* A stream is at most one past the end of what the account has done.
StreamPlace == \A t \in Tasks : task[t].at = "stream" => task[t].next <= Len(ledger) + 1

TypeInv == WatcherTypeOK /\ StreamPlace

LEMMA OffType == Off \in TaskStates /\ Off.at = "off"
BY WatcherAssumption DEF Off, TaskStates, TaskLabels

LEMMA TypeFacts ==
  ASSUME TypeInv
  PROVE  /\ Len(ledger) \in Nat /\ MaxOps \in Nat
         /\ task \in [Tasks -> TaskStates]
         /\ \A t \in Tasks : task[t].at \in TaskLabels /\ task[t].next \in 1..MaxOps + 1
         /\ cursor \in Nat /\ cursor <= Len(ledger)
         /\ 1..Len(ledger) \subseteq PagingTokens
BY WatcherAssumption, LenProperties
   DEF TypeInv, WatcherTypeOK, TaskStates, Now, PagingTokens

\* One task goes on.
LEMMA GoesType ==
  ASSUME task \in [Tasks -> TaskStates], NEW t \in Tasks, NEW label \in TaskLabels,
         NEW next \in 1..MaxOps + 1, Goes(t, label, next)
  PROVE  /\ task' \in [Tasks -> TaskStates]
         /\ task'[t].at = label /\ task'[t].next = next
         /\ \A u \in Tasks \ {t} : task'[u] = task[u]
<1>1. [at |-> label, next |-> next] \in TaskStates
  BY DEF TaskStates
<1>2. task' = [task EXCEPT ![t] = [at |-> label, next |-> next]]
  BY DEF Goes
<1> QED
  BY <1>1, <1>2

\* Some tasks are stopped.
LEMMA StoppingType ==
  ASSUME task \in [Tasks -> TaskStates], NEW T, Stopping(T)
  PROVE  /\ task' \in [Tasks -> TaskStates]
         /\ \A t \in Tasks : task'[t] = IF t \in T THEN Off ELSE task[t]
BY OffType DEF Stopping

\* What a step that leaves the ledger alone has to show of the tasks.
LEMMA TaskTypeInv ==
  ASSUME TypeInv, UNCHANGED ledger, task' \in [Tasks -> TaskStates],
         \A t \in Tasks :
           /\ task'[t].at \in {"mark", "save", "send"} => task'[t].next <= Len(ledger)
           /\ task'[t].at = "stream" => task'[t].next <= Len(ledger) + 1,
         cursor' \in {Now} \cup 1..Len(ledger),
         seen' \subseteq 1..Len(ledger),
         handle' \in Tasks \cup {NoTask}, verifying' \in Tasks \cup {NoTask},
         announced' \in [PagingTokens -> 0..2],
         passed' \subseteq PagingTokens, cut' \subseteq PagingTokens,
         doubted' \subseteq PagingTokens
  PROVE  TypeInv'
BY DEF TypeInv, WatcherTypeOK, StreamPlace, TaskStates

\* The same for a step of one task.
LEMMA OneTaskType ==
  ASSUME TypeInv, UNCHANGED <<ledger, handles>>, NEW t \in Tasks, NEW label \in TaskLabels,
         NEW next \in 1..MaxOps + 1, Goes(t, label, next),
         label \in {"mark", "save", "send"} => next <= Len(ledger),
         label = "stream" => next <= Len(ledger) + 1,
         cursor' \in {Now} \cup 1..Len(ledger),
         seen' \subseteq 1..Len(ledger),
         announced' \in [PagingTokens -> 0..2],
         passed' \subseteq PagingTokens, cut' \subseteq PagingTokens,
         doubted' \subseteq PagingTokens
  PROVE  TypeInv'
<1>1. /\ task' \in [Tasks -> TaskStates]
      /\ task'[t].at = label /\ task'[t].next = next
      /\ \A u \in Tasks \ {t} : task'[u] = task[u]
  BY GoesType, TypeFacts
<1>2. \A u \in Tasks :
        /\ task'[u].at \in {"mark", "save", "send"} => task'[u].next <= Len(ledger)
        /\ task'[u].at = "stream" => task'[u].next <= Len(ledger) + 1
  BY <1>1 DEF TypeInv, WatcherTypeOK, StreamPlace
<1>3. handle' \in Tasks \cup {NoTask} /\ verifying' \in Tasks \cup {NoTask}
  BY DEF TypeInv, WatcherTypeOK, handles
<1> QED
  BY <1>1, <1>2, <1>3, TaskTypeInv

\* The same for a step that stops tasks.
LEMMA StopType ==
  ASSUME TypeInv, UNCHANGED <<ledger, watcherRedis, announced, passed, doubted>>,
         NEW T, T \subseteq Tasks, Stopping(T),
         handle' \in Tasks \cup {NoTask}, verifying' \in Tasks \cup {NoTask}
  PROVE  TypeInv'
<1>1. /\ task' \in [Tasks -> TaskStates]
      /\ \A t \in Tasks : task'[t] = IF t \in T THEN Off ELSE task[t]
  BY StoppingType, TypeFacts
<1>2. \A u \in Tasks :
        /\ task'[u].at \in {"mark", "save", "send"} => task'[u].next <= Len(ledger)
        /\ task'[u].at = "stream" => task'[u].next <= Len(ledger) + 1
  BY <1>1, OffType DEF TypeInv, WatcherTypeOK, StreamPlace
<1>3. \A t \in T : task[t].at \in {"save", "send"} => task[t].next \in PagingTokens
  BY TypeFacts DEF TypeInv, WatcherTypeOK, PagingTokens
<1>4. cut' \subseteq PagingTokens
  BY <1>3 DEF Stopping, TypeInv, WatcherTypeOK
<1>5. /\ cursor' \in {Now} \cup 1..Len(ledger) /\ seen' \subseteq 1..Len(ledger)
      /\ announced' \in [PagingTokens -> 0..2]
      /\ passed' \subseteq PagingTokens /\ doubted' \subseteq PagingTokens
      /\ ledger' = ledger
  BY DEF TypeInv, WatcherTypeOK, watcherRedis
<1> QED
  BY <1>1, <1>2, <1>4, <1>5, TaskTypeInv

\* What the trimming leaves was in the set or has just been added.
LEMMA TrimmedPart ==
  ASSUME NEW S, NEW R \in Trimmed(S)
  PROVE  R \subseteq S
BY DEF Trimmed

\* Every step keeps what the account has done.
LEMMA LedgerKeeps ==
  ASSUME TypeInv, [WatcherNext]_watcherVars
  PROVE  /\ Len(ledger)' \in Nat /\ Len(ledger) <= Len(ledger)'
         /\ \A n \in 1..Len(ledger) : ledger'[n] = ledger[n]
<1>1. ASSUME NEW op \in Operations, OperationLands(op)
      PROVE  /\ Len(ledger') = Len(ledger) + 1
             /\ \A n \in 1..Len(ledger) : ledger'[n] = ledger[n]
  BY <1>1, AppendProperties DEF OperationLands, TypeInv, WatcherTypeOK
<1>2. CASE UNCHANGED ledger
  BY <1>2, TypeFacts
<1>3. CASE \E op \in Operations : OperationLands(op)
  BY <1>1, <1>3, TypeFacts
<1> QED
  BY <1>2, <1>3 DEF WatcherNext, watcherVars, TaskNext, Connect, SkipUnparsed, SkipDuplicate,
     TakeOperation, MarkSeen, SaveCursor, Announce, StreamEnds, AccountGone, CursorRunsOut,
     SeenRunsOut, Boot, SpawnVerified, RegisterVerified, VerificationDropped,
     DisconnectWallet, ProcessStops

LEMMA TypeInit == WatcherInit => TypeInv
<1> SUFFICES ASSUME WatcherInit PROVE TypeInv
  OBVIOUS
<1>1. /\ ledger \in Seq(Operations) /\ Len(ledger) = 0 /\ MaxOps \in Nat
  BY WatcherAssumption, EmptySeq DEF WatcherInit
<1>2. task \in [Tasks -> TaskStates] /\ \A t \in Tasks : task[t].at = "off"
  BY OffType DEF WatcherInit
<1>3. announced \in [PagingTokens -> 0..2]
  BY DEF WatcherInit
<1> QED
  BY <1>1, <1>2, <1>3 DEF WatcherInit, TypeInv, WatcherTypeOK, StreamPlace, TaskStates, Now

\* The steps of one task.
LEMMA TypeTask ==
  ASSUME TypeInv, NEW t \in Tasks, TaskNext(t) \/ StreamEnds(t) \/ AccountGone(t)
  PROVE  TypeInv'
<1> DEFINE n == task[t].next
<1>1. /\ Len(ledger) \in Nat /\ MaxOps \in Nat /\ Len(ledger) <= MaxOps
      /\ n \in 1..MaxOps + 1
      /\ cursor \in {Now} \cup 1..Len(ledger) /\ cursor \in Nat
      /\ seen \subseteq 1..Len(ledger)
      /\ announced \in [PagingTokens -> 0..2]
      /\ passed \subseteq PagingTokens /\ cut \subseteq PagingTokens
      /\ doubted \subseteq PagingTokens /\ PagingTokens = 1..MaxOps
      /\ task[t].at \in {"mark", "save", "send"} => n \in 1..Len(ledger)
  BY TypeFacts DEF TypeInv, WatcherTypeOK, PagingTokens
<1>2. {"connect", "stream", "off", "mark", "save", "send"} \subseteq TaskLabels
  BY DEF TaskLabels
<1>3. CASE Connect(t)
  <2>1. CASE cursor # Now /\ Goes(t, "stream", cursor + 1) /\ UNCHANGED passed
    <3>1. cursor + 1 \in 1..MaxOps + 1 /\ cursor + 1 <= Len(ledger) + 1
      BY <1>1 DEF Now
    <3> QED
      BY <1>1, <1>2, <1>3, <2>1, <3>1, OneTaskType DEF Connect, watcherRedis
  <2>2. CASE Goes(t, "stream", Len(ledger) + 1) /\ passed' = passed \cup 1..Len(ledger)
    <3>1. Len(ledger) + 1 \in 1..MaxOps + 1 /\ 1..Len(ledger) \subseteq PagingTokens
      BY <1>1
    <3>2. passed' \subseteq PagingTokens
      BY <1>1, <2>2, <3>1
    <3> QED
      BY <1>1, <1>2, <1>3, <2>2, <3>1, <3>2, OneTaskType DEF Connect, watcherRedis
  <2> QED
    BY <1>3, <2>1, <2>2 DEF Connect
<1>4. CASE StreamEnds(t)
  BY <1>1, <1>2, <1>4, OneTaskType DEF StreamEnds, watcherRedis, histories
<1>5. CASE AccountGone(t)
  BY <1>1, <1>2, <1>5, OneTaskType DEF AccountGone, watcherRedis, histories
<1>6. CASE SkipUnparsed(t) \/ SkipDuplicate(t)
  <2>1. n \in 1..Len(ledger)
    BY <1>1, <1>6 DEF SkipUnparsed, SkipDuplicate, HasOperation
  <2>2. n + 1 \in 1..MaxOps + 1 /\ n + 1 <= Len(ledger) + 1
    BY <1>1, <2>1
  <2> QED
    BY <1>1, <1>2, <1>6, <2>2, OneTaskType DEF SkipUnparsed, SkipDuplicate, watcherRedis, histories
<1>7. CASE TakeOperation(t)
  <2>1. n \in 1..Len(ledger)
    BY <1>1, <1>7 DEF TakeOperation, HasOperation
  <2>2. doubted' \subseteq doubted \cup {n}
    BY <1>7 DEF TakeOperation, Doubt
  <2>3. doubted' \subseteq PagingTokens
    BY <1>1, <2>1, <2>2
  <2> QED
    BY <1>1, <1>2, <1>7, <2>1, <2>3, OneTaskType DEF TakeOperation, watcherRedis
<1>8. CASE MarkSeen(t)
  <2>1. n \in 1..Len(ledger)
    BY <1>1, <1>8 DEF MarkSeen, TaskAt
  <2>2. seen' \subseteq 1..Len(ledger)
    BY <1>1, <1>8, <2>1, TrimmedPart DEF MarkSeen
  <2>3. doubted' \subseteq doubted \cup (seen \cup {n})
    BY <1>8 DEF MarkSeen, Doubt
  <2>4. doubted' \subseteq PagingTokens
    BY <1>1, <2>1, <2>3
  <2> QED
    BY <1>1, <1>2, <1>8, <2>1, <2>2, <2>4, OneTaskType DEF MarkSeen
<1>9. CASE SaveCursor(t)
  <2>1. n \in 1..Len(ledger)
    BY <1>1, <1>9 DEF SaveCursor, TaskAt
  <2> QED
    BY <1>1, <1>2, <1>9, <2>1, OneTaskType DEF SaveCursor, histories
<1>10. CASE Announce(t)
  <2>1. n \in 1..Len(ledger)
    BY <1>1, <1>10 DEF Announce, TaskAt
  <2>2. n + 1 \in 1..MaxOps + 1 /\ n + 1 <= Len(ledger) + 1
    BY <1>1, <2>1
  <2>3. announced' \in [PagingTokens -> 0..2]
    BY <1>1, <1>10, <2>1 DEF Announce
  <2> QED
    BY <1>1, <1>2, <1>10, <2>2, <2>3, OneTaskType DEF Announce, watcherRedis
<1> QED
  BY <1>3, <1>4, <1>5, <1>6, <1>7, <1>8, <1>9, <1>10 DEF TaskNext

LEMMA TypeStep ==
  ASSUME TypeInv, [WatcherNext]_watcherVars
  PROVE  TypeInv'
<1>1. /\ Len(ledger) \in Nat /\ MaxOps \in Nat /\ Len(ledger) <= MaxOps
      /\ cursor \in {Now} \cup 1..Len(ledger)
      /\ seen \subseteq 1..Len(ledger)
      /\ announced \in [PagingTokens -> 0..2]
      /\ passed \subseteq PagingTokens /\ cut \subseteq PagingTokens
      /\ doubted \subseteq PagingTokens /\ PagingTokens = 1..MaxOps
      /\ task \in [Tasks -> TaskStates]
      /\ handle \in Tasks \cup {NoTask} /\ verifying \in Tasks \cup {NoTask}
  BY TypeFacts DEF TypeInv, WatcherTypeOK, PagingTokens
<1>2. ASSUME NEW op \in Operations, OperationLands(op)
      PROVE  TypeInv'
  <2>1. ledger' \in Seq(Operations) /\ Len(ledger') = Len(ledger) + 1 /\ Len(ledger') <= MaxOps
    BY <1>1, <1>2, AppendProperties DEF OperationLands, TypeInv, WatcherTypeOK
  <2>2. task' = task /\ task \in [Tasks -> TaskStates]
    BY <1>1, <1>2 DEF OperationLands
  <2>3. \A t \in Tasks :
          /\ task[t].at \in {"mark", "save", "send"} => task[t].next <= Len(ledger')
          /\ task[t].at = "stream" => task[t].next <= Len(ledger') + 1
    BY <1>1, <2>1, TypeFacts DEF TypeInv, WatcherTypeOK, StreamPlace
  <2>4. cursor' \in {Now} \cup 1..Len(ledger') /\ seen' \subseteq 1..Len(ledger')
    BY <1>1, <1>2, <2>1 DEF OperationLands, watcherRedis
  <2> QED
    BY <1>1, <1>2, <2>1, <2>2, <2>3, <2>4
       DEF OperationLands, TypeInv, WatcherTypeOK, StreamPlace, TaskStates, watcherRedis, handles,
           histories
<1>3. ASSUME NEW t \in Tasks, TaskNext(t) \/ StreamEnds(t) \/ AccountGone(t)
      PROVE  TypeInv'
  BY <1>3, TypeTask
<1>4. CASE UNCHANGED <<ledger, task>> /\ (CursorRunsOut \/ SeenRunsOut \/ VerificationDropped)
  <2>1. /\ task' = task /\ ledger' = ledger
        /\ cursor' \in {Now} \cup 1..Len(ledger) /\ seen' \subseteq 1..Len(ledger)
        /\ announced' = announced /\ passed' = passed /\ cut' = cut
    BY <1>1, <1>4 DEF CursorRunsOut, SeenRunsOut, VerificationDropped, watcherRedis, histories
  <2>2. doubted' \subseteq doubted \cup seen
    BY <1>4 DEF CursorRunsOut, SeenRunsOut, VerificationDropped, Doubt, histories
  <2>4. doubted' \subseteq PagingTokens
    BY <1>1, <2>2
  <2>3. handle' \in Tasks \cup {NoTask} /\ verifying' \in Tasks \cup {NoTask}
    BY <1>1, <1>4 DEF CursorRunsOut, SeenRunsOut, VerificationDropped, handles
  <2> QED
    BY <1>1, <2>1, <2>3, <2>4 DEF TypeInv, WatcherTypeOK, StreamPlace
<1>5. ASSUME NEW t \in Tasks, Boot(t) \/ SpawnVerified(t)
      PROVE  TypeInv'
  <2>1. Goes(t, "connect", 1)
    BY <1>5 DEF Boot, SpawnVerified
  <2>2. 1 \in 1..MaxOps + 1 /\ "connect" \in TaskLabels
    BY <1>1 DEF TaskLabels
  <2>3. task' \in [Tasks -> TaskStates] /\ task'[t].at = "connect"
        /\ \A u \in Tasks \ {t} : task'[u] = task[u]
    BY <1>1, <2>1, <2>2, GoesType
  <2>4. \A u \in Tasks :
          /\ task'[u].at \in {"mark", "save", "send"} => task'[u].next <= Len(ledger)
          /\ task'[u].at = "stream" => task'[u].next <= Len(ledger) + 1
    BY <2>3 DEF TypeInv, WatcherTypeOK, StreamPlace
  <2>5. /\ ledger' = ledger /\ cursor' = cursor /\ seen' = seen
        /\ announced' = announced /\ passed' = passed /\ cut' = cut /\ doubted' = doubted
        /\ handle' \in Tasks \cup {NoTask} /\ verifying' \in Tasks \cup {NoTask}
    BY <1>1, <1>5 DEF Boot, SpawnVerified, watcherRedis, histories, handles
  <2> QED
    BY <1>1, <2>3, <2>4, <2>5, TaskTypeInv
<1>6. CASE RegisterVerified
  <2>1. handle' \in Tasks \cup {NoTask} /\ verifying' \in Tasks \cup {NoTask}
    BY <1>1, <1>6 DEF RegisterVerified
  <2>2. {handle} \ {NoTask} \subseteq Tasks /\ Stopping({handle} \ {NoTask})
    BY <1>1, <1>6 DEF RegisterVerified
  <2> QED
    BY <1>6, <2>1, <2>2, StopType DEF RegisterVerified
<1>7. CASE DisconnectWallet
  <2>1. handle' \in Tasks \cup {NoTask} /\ verifying' \in Tasks \cup {NoTask}
    BY <1>1, <1>7 DEF DisconnectWallet
  <2>2. {handle} \subseteq Tasks /\ Stopping({handle})
    BY <1>1, <1>7 DEF DisconnectWallet
  <2> QED
    BY <1>7, <2>1, <2>2, StopType DEF DisconnectWallet
<1>8. ASSUME NEW T \in SUBSET Tasks, ProcessStops(T)
      PROVE  TypeInv'
  <2>1. handle' \in Tasks \cup {NoTask} /\ verifying' \in Tasks \cup {NoTask}
    BY <1>1, <1>8 DEF ProcessStops
  <2> QED
    BY <1>8, <2>1, StopType DEF ProcessStops
<1>9. CASE UNCHANGED watcherVars
  BY <1>9 DEF watcherVars, watcherRedis, handles, histories, TypeInv, WatcherTypeOK, StreamPlace
<1>10. CursorRunsOut \/ SeenRunsOut \/ VerificationDropped => UNCHANGED <<ledger, task>>
  BY DEF CursorRunsOut, SeenRunsOut, VerificationDropped
<1> QED
  BY <1>2, <1>3, <1>4, <1>5, <1>6, <1>7, <1>8, <1>9, <1>10 DEF WatcherNext

\* What Redis and the tasks refer to are operations of the account, in every
\* reachable state.
THEOREM WatcherTypeCorrect == WatcherSpec => []WatcherTypeOK
<1>1. TypeInv /\ [WatcherNext]_watcherVars => TypeInv'
  BY TypeStep
<1>2. TypeInv => WatcherTypeOK
  BY DEF TypeInv
<1> QED
  BY <1>1, <1>2, TypeInit, PTL DEF WatcherSpec
-----------------------------------------------------------------------------
(***************************************************************************)
(* No inflow is skipped.  Whatever has been got past, by the cursor, by a  *)
(* task or into the set of seen operations, is accounted for, and what is  *)
(* accounted for stays so: only an operation that has been marked counts   *)
(* as in hand, because a task that is stopped before it marks leaves no    *)
(* trace, while one that is stopped later leaves the operation cut off.    *)
(***************************************************************************)

\* A task has marked operation n and not sent it yet.
Marked(t, n) == task[t].at \in {"save", "send"} /\ task[t].next = n

Accounted(n) == announced[n] > 0 \/ n \in cut \cup passed \/ \E t \in Tasks : Marked(t, n)

Covered(n) == IsInflow(n) => Accounted(n)

Streaming == {"stream", "mark", "save", "send"}

CoverInv ==
  /\ \A n \in 1..cursor : Covered(n)
  /\ \A n \in seen : Covered(n)
  /\ \A t \in Tasks : task[t].at \in Streaming => \A n \in 1..task[t].next - 1 : Covered(n)

\* A step that keeps what is accounted for, at least of inflows.
Keeps ==
  \A n \in 1..Len(ledger) : Covered(n) => Covered(n)'

LEMMA KeepsByParts ==
  ASSUME TypeInv, [WatcherNext]_watcherVars,
         \A n \in 1..Len(ledger) : IsInflow(n) =>
           /\ announced[n] > 0 => announced'[n] > 0
           /\ n \in cut \cup passed => n \in cut' \cup passed'
           /\ \A t \in Tasks : Marked(t, n) =>
                n \in cut' \/ announced'[n] > 0 \/ Marked(t, n)'
  PROVE  Keeps
<1> SUFFICES ASSUME NEW n \in 1..Len(ledger), Covered(n) PROVE Covered(n)'
  BY DEF Keeps
<1>1. IsInflow(n)' <=> IsInflow(n)
  BY LedgerKeeps DEF IsInflow
<1>2. ASSUME IsInflow(n) PROVE Accounted(n)'
  <2>1. CASE announced[n] > 0 \/ n \in cut \cup passed
    BY <1>2, <2>1 DEF Accounted
  <2>2. ASSUME NEW t \in Tasks, Marked(t, n) PROVE Accounted(n)'
    BY <1>2, <2>2 DEF Accounted
  <2> QED
    BY <1>2, <2>1, <2>2 DEF Covered, Accounted
<1> QED
  BY <1>1, <1>2 DEF Covered

\* Tasks that are stopped leave what they have marked cut off.
LEMMA StoppingKeeps ==
  ASSUME TypeInv, NEW T, T \subseteq Tasks, Stopping(T), NEW t \in Tasks, NEW n, Marked(t, n)
  PROVE  n \in cut' \/ Marked(t, n)'
<1>1. \A u \in Tasks : task'[u] = IF u \in T THEN Off ELSE task[u]
  BY StoppingType, TypeFacts
<1>2. CASE t \in T
  <2>1. n \in {task[u].next : u \in {v \in T : task[v].at \in {"save", "send"}}}
    BY <1>2 DEF Marked
  <2> QED
    BY <2>1 DEF Stopping
<1>3. CASE t \notin T
  BY <1>1, <1>3 DEF Marked
<1> QED
  BY <1>2, <1>3

LEMMA StepKeeps ==
  ASSUME TypeInv, [WatcherNext]_watcherVars
  PROVE  Keeps
<1>1. /\ task \in [Tasks -> TaskStates] /\ announced \in [PagingTokens -> 0..2]
      /\ 1..Len(ledger) \subseteq PagingTokens
  BY TypeFacts DEF TypeInv, WatcherTypeOK
<1>2. ASSUME UNCHANGED <<announced, passed>>, cut \subseteq cut',
             \A t \in Tasks : \A n \in 1..Len(ledger) :
               Marked(t, n) => n \in cut' \/ Marked(t, n)'
      PROVE  Keeps
  BY <1>2, KeepsByParts
<1>3. ASSUME UNCHANGED <<task, announced, passed, cut>>
      PROVE  Keeps
  BY <1>2, <1>3 DEF Marked
<1>4. CASE \E op \in Operations : OperationLands(op)
  BY <1>3, <1>4 DEF OperationLands, histories
<1>5. CASE CursorRunsOut \/ SeenRunsOut \/ VerificationDropped \/ UNCHANGED watcherVars
  BY <1>3, <1>5 DEF CursorRunsOut, SeenRunsOut, VerificationDropped, watcherVars, histories
<1>6. ASSUME NEW t \in Tasks, NEW label, NEW next, Goes(t, label, next),
             UNCHANGED <<announced, cut>>, passed \subseteq passed',
             task[t].at \in {"save", "send"} => label \in {"save", "send"} /\ next = task[t].next
      PROVE  Keeps
  <2>1. \A u \in Tasks : task'[u] = IF u = t THEN [at |-> label, next |-> next] ELSE task[u]
    BY <1>1, <1>6 DEF Goes
  <2>2. \A u \in Tasks : \A n \in 1..Len(ledger) : Marked(u, n) => Marked(u, n)'
    BY <1>6, <2>1 DEF Marked
  <2> QED
    BY <1>6, <2>2, KeepsByParts
<1>7. ASSUME NEW t \in Tasks, TaskNext(t) \/ StreamEnds(t) \/ AccountGone(t), ~Announce(t)
      PROVE  Keeps
  <2>1. CASE Connect(t)
    <3>1. UNCHANGED <<announced, cut>> /\ passed \subseteq passed' /\ task[t].at = "connect"
      BY <2>1 DEF Connect, TaskAt
    <3>2. PICK next : Goes(t, "stream", next)
      BY <2>1 DEF Connect
    <3> QED
      BY <1>6, <3>1, <3>2
  <2>2. CASE StreamEnds(t) \/ AccountGone(t)
    BY <1>6, <2>2 DEF StreamEnds, AccountGone, TaskAt, histories
  <2>3. CASE SkipUnparsed(t) \/ SkipDuplicate(t)
    <3>1. UNCHANGED <<announced, cut, passed>> /\ task[t].at = "stream"
      BY <2>3 DEF SkipUnparsed, SkipDuplicate, HasOperation, TaskAt, histories
    <3>2. PICK next : Goes(t, "stream", next)
      BY <2>3 DEF SkipUnparsed, SkipDuplicate
    <3> QED
      BY <1>6, <3>1, <3>2
  <2>4. CASE TakeOperation(t)
    BY <1>6, <2>4 DEF TakeOperation, HasOperation, TaskAt
  <2>5. CASE MarkSeen(t)
    BY <1>6, <2>5 DEF MarkSeen, TaskAt
  <2>6. CASE SaveCursor(t)
    BY <1>6, <2>6 DEF SaveCursor, TaskAt, histories
  <2> QED
    BY <1>7, <2>1, <2>2, <2>3, <2>4, <2>5, <2>6 DEF TaskNext
<1>8. ASSUME NEW t \in Tasks, Announce(t)
      PROVE  Keeps
  <2> DEFINE m == task[t].next
  <2>1. /\ m \in 1..Len(ledger) /\ m \in PagingTokens
        /\ UNCHANGED <<cut, passed>> /\ Goes(t, "stream", m + 1)
    BY <1>1, <1>8, TypeFacts DEF Announce, TaskAt, TypeInv, WatcherTypeOK
  <2>2. \A n \in 1..Len(ledger) :
          /\ announced[n] > 0 => announced'[n] > 0
          /\ n = m /\ IsInflow(n) => announced'[n] > 0
    BY <1>1, <1>8 DEF Announce
  <2>3. \A u \in Tasks \ {t} : task'[u] = task[u]
    BY <1>1, <2>1 DEF Goes
  <2>4. ASSUME NEW u \in Tasks, NEW n \in 1..Len(ledger), IsInflow(n), Marked(u, n)
        PROVE  announced'[n] > 0 \/ Marked(u, n)'
    BY <2>2, <2>3, <2>4 DEF Marked
  <2> QED
    BY <2>1, <2>2, <2>4, KeepsByParts
<1>9. ASSUME NEW t \in Tasks, Boot(t) \/ SpawnVerified(t)
      PROVE  Keeps
  <2>1. UNCHANGED <<announced, cut, passed>> /\ Goes(t, "connect", 1) /\ task[t].at = "off"
    BY <1>9 DEF Boot, SpawnVerified, Unused, TaskAt, histories
  <2> QED
    BY <1>6, <2>1
<1>10. ASSUME NEW T, T \subseteq Tasks, Stopping(T), UNCHANGED <<announced, passed>>
       PROVE  Keeps
  <2>1. cut \subseteq cut'
    BY <1>10 DEF Stopping
  <2> QED
    BY <1>2, <1>10, <2>1, StoppingKeeps
<1>11. CASE RegisterVerified
  <2>1. {handle} \ {NoTask} \subseteq Tasks
    BY DEF TypeInv, WatcherTypeOK
  <2> QED
    BY <1>10, <1>11, <2>1 DEF RegisterVerified
<1>12. CASE DisconnectWallet
  <2>1. {handle} \subseteq Tasks
    BY <1>12 DEF DisconnectWallet, TypeInv, WatcherTypeOK
  <2> QED
    BY <1>10, <1>12, <2>1 DEF DisconnectWallet
<1>13. CASE \E T \in SUBSET Tasks : ProcessStops(T)
  BY <1>10, <1>13 DEF ProcessStops
<1> QED
  BY <1>4, <1>5, <1>7, <1>8, <1>9, <1>11, <1>12, <1>13 DEF WatcherNext

\* What a step gets past has to be covered already or by the step itself.
LEMMA CoverByParts ==
  ASSUME TypeInv, CoverInv, [WatcherNext]_watcherVars,
         \A n \in 1..cursor' : n \in 1..cursor \/ Covered(n)',
         \A n \in seen' : n \in seen \/ Covered(n)',
         \A t \in Tasks : task'[t].at \in Streaming =>
           \A n \in 1..task'[t].next - 1 :
             (task[t].at \in Streaming /\ n \in 1..task[t].next - 1) \/ Covered(n)'
  PROVE  CoverInv'
<1>1. \A n \in 1..Len(ledger) : Covered(n) => Covered(n)'
  BY StepKeeps DEF Keeps
<1>2. 1..cursor \subseteq 1..Len(ledger) /\ seen \subseteq 1..Len(ledger)
  BY TypeFacts DEF TypeInv, WatcherTypeOK
<1>3. \A t \in Tasks : task[t].at \in Streaming => 1..task[t].next - 1 \subseteq 1..Len(ledger)
  BY TypeFacts DEF TypeInv, WatcherTypeOK, StreamPlace, Streaming
<1>4. \A n \in 1..cursor' : Covered(n)'
  BY <1>1, <1>2 DEF CoverInv
<1>5. \A n \in seen' : Covered(n)'
  BY <1>1, <1>2 DEF CoverInv
<1>6. ASSUME NEW t \in Tasks, task'[t].at \in Streaming, NEW n \in 1..task'[t].next - 1
      PROVE  Covered(n)'
  BY <1>1, <1>3, <1>6 DEF CoverInv
<1> QED
  BY <1>4, <1>5, <1>6 DEF CoverInv

LEMMA CoverInit == WatcherInit => CoverInv
<1> SUFFICES ASSUME WatcherInit PROVE CoverInv
  OBVIOUS
<1>1. cursor = 0 /\ seen = {} /\ \A t \in Tasks : task[t].at = "off"
  BY OffType DEF WatcherInit, Now
<1> QED
  BY <1>1 DEF CoverInv, Streaming

\* A step of one task that keeps the cursor and the set of seen operations.
LEMMA OneTaskCover ==
  ASSUME TypeInv, CoverInv, [WatcherNext]_watcherVars, UNCHANGED watcherRedis,
         NEW t \in Tasks, NEW label, NEW next, Goes(t, label, next),
         label \in Streaming => \A n \in 1..next - 1 :
           (task[t].at \in Streaming /\ n \in 1..task[t].next - 1) \/ Covered(n)'
  PROVE  CoverInv'
<1>1. \A u \in Tasks : task'[u] = IF u = t THEN [at |-> label, next |-> next] ELSE task[u]
  BY TypeFacts DEF Goes
<1>2. cursor' = cursor /\ seen' = seen
  BY DEF watcherRedis
<1> QED
  BY <1>1, <1>2, CoverByParts

LEMMA CoverStep ==
  ASSUME TypeInv, CoverInv, [WatcherNext]_watcherVars
  PROVE  CoverInv'
<1>1. /\ Len(ledger) \in Nat /\ cursor \in Nat /\ cursor <= Len(ledger)
      /\ task \in [Tasks -> TaskStates]
  BY TypeFacts
<1>2. \A n \in 1..Len(ledger) : /\ Covered(n) => Covered(n)'
                                /\ IsInflow(n)' <=> IsInflow(n)
  BY StepKeeps, LedgerKeeps DEF Keeps, IsInflow
<1>3. ASSUME cursor' \in {cursor, 0}, seen' \subseteq seen,
             \A t \in Tasks : task'[t] = task[t] \/ task'[t].at \notin Streaming
      PROVE  CoverInv'
  BY <1>1, <1>3, CoverByParts
<1>4. CASE \/ \E op \in Operations : OperationLands(op)
           \/ CursorRunsOut \/ SeenRunsOut \/ VerificationDropped \/ UNCHANGED watcherVars
  <2>1. cursor' \in {cursor, 0} /\ seen' \subseteq seen /\ task' = task
    BY <1>4 DEF OperationLands, CursorRunsOut, SeenRunsOut, VerificationDropped, watcherVars,
                watcherRedis, Now
  <2> QED
    BY <1>3, <2>1
<1>5. ASSUME NEW t \in Tasks, StreamEnds(t) \/ AccountGone(t) \/ Boot(t) \/ SpawnVerified(t)
      PROVE  CoverInv'
  <2>1. UNCHANGED watcherRedis /\ (Goes(t, "connect", 1) \/ Goes(t, "off", 1))
    BY <1>5 DEF StreamEnds, AccountGone, Boot, SpawnVerified
  <2> QED
    BY <2>1, OneTaskCover DEF Streaming
<1>6. ASSUME NEW T, T \subseteq Tasks, Stopping(T), UNCHANGED watcherRedis
      PROVE  CoverInv'
  <2>1. \A t \in Tasks : task'[t] = IF t \in T THEN Off ELSE task[t]
    BY <1>1, <1>6, StoppingType
  <2>2. cursor' = cursor /\ seen' = seen
    BY <1>6 DEF watcherRedis
  <2>3. Off.at \notin Streaming
    BY OffType DEF Streaming
  <2> QED
    BY <1>3, <2>1, <2>2, <2>3
<1>7. CASE RegisterVerified
  <2>1. {handle} \ {NoTask} \subseteq Tasks
    BY DEF TypeInv, WatcherTypeOK
  <2> QED
    BY <1>6, <1>7, <2>1 DEF RegisterVerified
<1>8. CASE DisconnectWallet
  <2>1. {handle} \subseteq Tasks
    BY <1>8 DEF DisconnectWallet, TypeInv, WatcherTypeOK
  <2> QED
    BY <1>6, <1>8, <2>1 DEF DisconnectWallet
<1>9. CASE \E T \in SUBSET Tasks : ProcessStops(T)
  BY <1>6, <1>9 DEF ProcessStops
<1>10. ASSUME NEW t \in Tasks, TaskNext(t)
       PROVE  CoverInv'
  <2>0. PICK m : m = task[t].next
    OBVIOUS
  <2>1. task[t].at \in {"mark", "save", "send"} => m \in 1..Len(ledger)
    BY <2>0, TypeFacts DEF TypeInv, WatcherTypeOK
  <2>2. CASE Connect(t)
    <3>1. UNCHANGED watcherRedis
      BY <2>2 DEF Connect
    <3>2. CASE Goes(t, "stream", cursor + 1)
      <4>1. \A n \in 1..(cursor + 1) - 1 : Covered(n)'
        BY <1>1, <1>2 DEF CoverInv
      <4> QED
        BY <3>1, <3>2, <4>1, OneTaskCover
    <3>3. CASE Goes(t, "stream", Len(ledger) + 1) /\ passed' = passed \cup 1..Len(ledger)
      <4>1. \A n \in 1..(Len(ledger) + 1) - 1 : Covered(n)'
        BY <1>1, <3>3 DEF Covered, Accounted
      <4> QED
        BY <3>1, <3>3, <4>1, OneTaskCover
    <3> QED
      BY <2>2, <3>2, <3>3 DEF Connect
  <2>3. ASSUME UNCHANGED watcherRedis, Goes(t, "stream", m + 1), task[t].at \in Streaming,
               m \in 1..Len(ledger), Covered(m)'
        PROVE  CoverInv'
    <3>1. \A n \in 1..(m + 1) - 1 : n \in 1..m - 1 \/ Covered(n)'
      BY <1>1, <2>3
    <3> QED
      BY <2>0, <2>3, <3>1, OneTaskCover
  <2>4. CASE SkipUnparsed(t)
    <3>1. m \in 1..Len(ledger) /\ UNCHANGED watcherRedis /\ task[t].at \in Streaming
      BY <1>1, <2>0, <2>4, TypeFacts DEF SkipUnparsed, HasOperation, TaskAt, Streaming
    <3>2. ~IsInflow(m)
      BY <2>0, <2>4 DEF SkipUnparsed, IsInflow, Inflow
    <3>3. Covered(m)'
      BY <1>2, <3>1, <3>2 DEF Covered
    <3> QED
      BY <2>0, <2>3, <2>4, <3>1, <3>3 DEF SkipUnparsed
  <2>5. CASE SkipDuplicate(t)
    <3>1. m \in 1..Len(ledger) /\ UNCHANGED watcherRedis /\ task[t].at \in Streaming
      BY <1>1, <2>0, <2>5, TypeFacts DEF SkipDuplicate, HasOperation, TaskAt, Streaming
    <3>2. m \in seen
      BY <2>0, <2>5 DEF SkipDuplicate
    <3>3. Covered(m)'
      BY <1>2, <3>1, <3>2 DEF CoverInv
    <3> QED
      BY <2>0, <2>3, <2>5, <3>1, <3>3 DEF SkipDuplicate
  <2>6. CASE TakeOperation(t)
    <3>1. UNCHANGED watcherRedis /\ task[t].at \in Streaming /\ Goes(t, "mark", m)
      BY <2>0, <2>6 DEF TakeOperation, HasOperation, TaskAt, Streaming
    <3> QED
      BY <2>0, <3>1, OneTaskCover
  <2>7. CASE MarkSeen(t)
    <3>1. /\ cursor' = cursor /\ seen' \subseteq seen \cup {m} /\ Goes(t, "save", m)
          /\ task[t].at \in Streaming
      BY <2>0, <2>7, TrimmedPart DEF MarkSeen, TaskAt, Streaming
    <3>2. \A u \in Tasks : task'[u] = IF u = t THEN [at |-> "save", next |-> m] ELSE task[u]
      BY <1>1, <3>1 DEF Goes
    <3>3. Covered(m)'
      BY <3>2 DEF Covered, Accounted, Marked
    <3> QED
      BY <2>0, <3>1, <3>2, <3>3, CoverByParts
  <2>8. CASE SaveCursor(t)
    <3>1. /\ cursor' \in {cursor, m} /\ seen' = seen /\ Goes(t, "send", m)
          /\ task[t].at \in Streaming /\ m \in 1..Len(ledger)
      BY <2>0, <2>1, <2>8 DEF SaveCursor, TaskAt, Streaming
    <3>2. \A u \in Tasks : task'[u] = IF u = t THEN [at |-> "send", next |-> m] ELSE task[u]
      BY <1>1, <3>1 DEF Goes
    <3>3. Covered(m)'
      BY <3>2 DEF Covered, Accounted, Marked
    <3>4. \A n \in 1..m - 1 : Covered(n)'
      BY <1>1, <1>2, <2>0, <3>1 DEF CoverInv
    <3>5. \A n \in 1..cursor' : n \in 1..cursor \/ Covered(n)'
      BY <1>1, <3>1, <3>3, <3>4
    <3> QED
      BY <2>0, <3>1, <3>2, <3>5, CoverByParts
  <2>9. CASE Announce(t)
    <3>1. m \in 1..Len(ledger) /\ UNCHANGED watcherRedis /\ task[t].at \in Streaming
      BY <2>0, <2>1, <2>9 DEF Announce, TaskAt, Streaming
    <3>2. m \in PagingTokens /\ announced \in [PagingTokens -> 0..2]
      BY <3>1, TypeFacts DEF TypeInv, WatcherTypeOK
    <3>3. IsInflow(m) => announced'[m] > 0
      BY <2>0, <2>9, <3>2 DEF Announce
    <3>4. Covered(m)'
      BY <1>2, <3>1, <3>3 DEF Covered, Accounted
    <3> QED
      BY <2>0, <2>3, <2>9, <3>1, <3>4 DEF Announce
  <2> QED
    BY <1>10, <2>2, <2>4, <2>5, <2>6, <2>7, <2>8, <2>9 DEF TaskNext
<1> QED
  BY <1>4, <1>5, <1>7, <1>8, <1>9, <1>10 DEF WatcherNext

\* No inflow is skipped, however many tasks watch the wallet, whenever they are
\* stopped and whatever Redis loses.
THEOREM CursorCorrect == WatcherSpec => []CursorCovers
<1>1. WatcherInit => TypeInv /\ CoverInv
  BY TypeInit, CoverInit
<1>2. TypeInv /\ CoverInv /\ [WatcherNext]_watcherVars => (TypeInv /\ CoverInv)'
  BY TypeStep, CoverStep
<1>3. TypeInv /\ CoverInv => CursorCovers
  BY DEF CoverInv, Covered, Accounted, Marked, CursorCovers, HasInHand
<1> QED
  BY <1>1, <1>2, <1>3, PTL DEF WatcherSpec
-----------------------------------------------------------------------------
(***************************************************************************)
(* No inflow is announced twice.  As long as the set of seen operations    *)
(* can tell of an operation, at most one task has it in hand; while it is  *)
(* in hand it has not been announced, and from its marking on it is in the *)
(* set, so that no other task takes it.                                    *)
(***************************************************************************)

Once(n) ==
  /\ announced[n] <= 1
  /\ announced[n] > 0 => n \in seen
  /\ \A t \in Tasks : HasInHand(t, n) => announced[n] = 0
  /\ \A t \in Tasks : Marked(t, n) => n \in seen
  /\ \A t, u \in Tasks : HasInHand(t, n) /\ HasInHand(u, n) => t = u

OnceInv == \A n \in PagingTokens : n \in doubted \/ Once(n)

\* A step after which the tasks have no more in hand than before.
LEMMA QuietOnce ==
  ASSUME NEW n, Once(n), n \in seen => n \in seen', announced'[n] = announced[n],
         \A t \in Tasks : HasInHand(t, n)' => HasInHand(t, n),
         \A t \in Tasks : Marked(t, n)' => Marked(t, n) \/ n \in seen'
  PROVE  Once(n)'
BY DEF Once

LEMMA OnceInit == WatcherInit => OnceInv
<1> SUFFICES ASSUME WatcherInit PROVE OnceInv
  OBVIOUS
<1>1. \A t \in Tasks : task[t].at = "off"
  BY OffType DEF WatcherInit
<1>2. \A n \in PagingTokens : announced[n] = 0
  BY DEF WatcherInit
<1> QED
  BY <1>1, <1>2 DEF OnceInv, Once, HasInHand, Marked

\* The steps of a task that take or send an operation, or mark it.
LEMMA TakeOnce ==
  ASSUME TypeInv, OnceInv, NEW t \in Tasks, TakeOperation(t),
         NEW n \in PagingTokens, n \notin doubted'
  PROVE  Once(n)'
<1>0. PICK m : m = task[t].next
  OBVIOUS
<1>1. /\ task[t].at = "stream" /\ seen' = seen /\ announced' = announced
      /\ doubted' = doubted \cup {k \in {m} : k \in seen \/ Raced(t, k)}
      /\ Goes(t, "mark", m)
  BY <1>0 DEF TakeOperation, HasOperation, TaskAt, watcherRedis, Doubt
<1>2. \A u \in Tasks : task'[u] = IF u = t THEN [at |-> "mark", next |-> m] ELSE task[u]
  BY <1>1, TypeFacts DEF Goes
<1>3. Once(n)
  BY <1>1 DEF OnceInv
<1>4. CASE n # m
  <2>1. \A u \in Tasks : HasInHand(u, n)' => HasInHand(u, n)
    BY <1>2, <1>4 DEF HasInHand
  <2>2. \A u \in Tasks : Marked(u, n)' => Marked(u, n)
    BY <1>2, <1>4 DEF Marked
  <2> QED
    BY <1>1, <1>3, <2>1, <2>2, QuietOnce
<1>5. CASE n = m
  <2>1. n \notin seen /\ ~Raced(t, n)
    BY <1>1, <1>5
  <2>2. \A u \in Tasks : ~HasInHand(u, n)
    BY <1>1, <1>3, <2>1 DEF Once, HasInHand, Marked, Raced, TaskAt
  <2>3. \A u \in Tasks : HasInHand(u, n)' => u = t
    BY <1>2, <2>2 DEF HasInHand
  <2>4. \A u \in Tasks : ~Marked(u, n)'
    BY <1>2, <2>2 DEF HasInHand, Marked
  <2>5. announced[n] <= 1 /\ ~(announced[n] > 0) /\ announced \in [PagingTokens -> 0..2]
    BY <1>3, <2>1 DEF Once, TypeInv, WatcherTypeOK
  <2>6. announced'[n] = 0
    BY <1>1, <2>5
  <2> QED
    BY <2>3, <2>4, <2>6 DEF Once
<1> QED
  BY <1>4, <1>5

LEMMA MarkOnce ==
  ASSUME TypeInv, OnceInv, NEW t \in Tasks, MarkSeen(t),
         NEW n \in PagingTokens, n \notin doubted'
  PROVE  Once(n)'
<1>0. PICK m : m = task[t].next
  OBVIOUS
<1>1. /\ task[t].at = "mark" /\ announced' = announced
      /\ doubted' = doubted \cup ((seen \cup {m}) \ seen')
      /\ Goes(t, "save", m)
  BY <1>0 DEF MarkSeen, TaskAt, Doubt
<1>2. \A u \in Tasks : task'[u] = IF u = t THEN [at |-> "save", next |-> m] ELSE task[u]
  BY <1>1, TypeFacts DEF Goes
<1>3. Once(n) /\ (n \in seen \/ n = m => n \in seen')
  BY <1>1 DEF OnceInv
<1>4. \A u \in Tasks : HasInHand(u, n)' => HasInHand(u, n)
  BY <1>0, <1>1, <1>2 DEF HasInHand
<1>5. \A u \in Tasks : Marked(u, n)' => Marked(u, n) \/ n \in seen'
  BY <1>2, <1>3 DEF Marked
<1> QED
  BY <1>1, <1>3, <1>4, <1>5, QuietOnce

LEMMA AnnounceOnce ==
  ASSUME TypeInv, OnceInv, NEW t \in Tasks, Announce(t),
         NEW n \in PagingTokens, n \notin doubted'
  PROVE  Once(n)'
<1>0. PICK m : m = task[t].next
  OBVIOUS
<1>1. /\ task[t].at = "send" /\ seen' = seen /\ doubted' = doubted /\ Goes(t, "stream", m + 1)
      /\ announced \in [PagingTokens -> 0..2]
  BY <1>0 DEF Announce, TaskAt, watcherRedis, TypeInv, WatcherTypeOK
<1>2. \A u \in Tasks : task'[u] = IF u = t THEN [at |-> "stream", next |-> m + 1] ELSE task[u]
  BY <1>1, TypeFacts DEF Goes
<1>3. Once(n)
  BY <1>1 DEF OnceInv
<1>4. \A u \in Tasks : /\ HasInHand(u, n)' => HasInHand(u, n) /\ u # t
                       /\ Marked(u, n)' => Marked(u, n)
  BY <1>2 DEF HasInHand, Marked
<1>5. CASE n # m
  <2>1. announced'[n] = announced[n]
    BY <1>0, <1>1, <1>5 DEF Announce
  <2> QED
    BY <1>1, <1>3, <1>4, <2>1, QuietOnce
<1>6. CASE n = m
  <2>1. HasInHand(t, n) /\ Marked(t, n)
    BY <1>0, <1>1, <1>6 DEF HasInHand, Marked
  <2>2. announced[n] = 0 /\ n \in seen'
    BY <1>1, <1>3, <2>1 DEF Once
  <2>3. announced'[n] \in {0, 1}
    BY <1>0, <1>1, <1>6, <2>2 DEF Announce
  <2>4. \A u \in Tasks : ~HasInHand(u, n)'
    BY <1>3, <1>4, <2>1 DEF Once
  <2>5. \A u \in Tasks : Marked(u, n)' => HasInHand(u, n)'
    BY DEF Marked, HasInHand
  <2> QED
    BY <2>2, <2>3, <2>4, <2>5 DEF Once
<1> QED
  BY <1>5, <1>6

LEMMA OnceStep ==
  ASSUME TypeInv, OnceInv, [WatcherNext]_watcherVars
  PROVE  OnceInv'
<1> SUFFICES ASSUME NEW n \in PagingTokens, n \notin doubted' PROVE Once(n)'
  BY DEF OnceInv
<1>1. task \in [Tasks -> TaskStates]
  BY TypeFacts
<1>2. ASSUME doubted \subseteq doubted', announced' = announced, n \in seen => n \in seen',
             \A t \in Tasks : /\ HasInHand(t, n)' => HasInHand(t, n)
                              /\ Marked(t, n)' => Marked(t, n)
      PROVE  Once(n)'
  <2>1. Once(n)
    BY <1>2 DEF OnceInv
  <2> QED
    BY <1>2, <2>1, QuietOnce
<1>3. ASSUME doubted \subseteq doubted', announced' = announced, seen' = seen,
             \A t \in Tasks : task'[t] = task[t] \/ task'[t].at \in {"off", "connect", "stream"}
      PROVE  Once(n)'
  BY <1>2, <1>3 DEF HasInHand, Marked
<1>4. CASE \/ \E op \in Operations : OperationLands(op)
           \/ CursorRunsOut \/ VerificationDropped \/ UNCHANGED watcherVars
  <2>1. doubted' = doubted /\ announced' = announced /\ seen' = seen /\ task' = task
    BY <1>4 DEF OperationLands, CursorRunsOut, VerificationDropped, watcherVars, watcherRedis,
                histories
  <2> QED
    BY <1>3, <2>1
<1>5. CASE SeenRunsOut
  <2>1. /\ doubted' = doubted \cup seen /\ announced' = announced /\ task' = task
    BY <1>5 DEF SeenRunsOut, Doubt
  <2>2. n \notin seen
    BY <2>1
  <2> QED
    BY <1>2, <2>1, <2>2 DEF HasInHand, Marked
<1>6. ASSUME NEW t \in Tasks, NEW label \in {"off", "connect", "stream"}, NEW next,
             Goes(t, label, next), doubted' = doubted, announced' = announced, seen' = seen
      PROVE  Once(n)'
  <2>1. \A u \in Tasks : task'[u] = IF u = t THEN [at |-> label, next |-> next] ELSE task[u]
    BY <1>1, <1>6 DEF Goes
  <2> QED
    BY <1>3, <1>6, <2>1
<1>7. ASSUME NEW t \in Tasks, TaskNext(t)
      PROVE  Once(n)'
  <2>1. CASE Connect(t)
    <3>1. doubted' = doubted /\ announced' = announced /\ seen' = seen
      BY <2>1 DEF Connect, watcherRedis
    <3>2. PICK next : Goes(t, "stream", next)
      BY <2>1 DEF Connect
    <3> QED
      BY <1>6, <3>1, <3>2
  <2>2. CASE SkipUnparsed(t) \/ SkipDuplicate(t)
    <3>1. doubted' = doubted /\ announced' = announced /\ seen' = seen
      BY <2>2 DEF SkipUnparsed, SkipDuplicate, watcherRedis, histories
    <3>2. PICK next : Goes(t, "stream", next)
      BY <2>2 DEF SkipUnparsed, SkipDuplicate
    <3> QED
      BY <1>6, <3>1, <3>2
  <2>3. CASE SaveCursor(t)
    <3>1. /\ doubted' = doubted /\ announced' = announced /\ seen' = seen
          /\ task[t].at = "save" /\ Goes(t, "send", task[t].next)
      BY <2>3 DEF SaveCursor, TaskAt, histories
    <3>2. \A u \in Tasks : task'[u] = IF u = t THEN [at |-> "send", next |-> task[t].next]
                                      ELSE task[u]
      BY <1>1, <3>1 DEF Goes
    <3>3. \A u \in Tasks : /\ HasInHand(u, n)' => HasInHand(u, n)
                           /\ Marked(u, n)' => Marked(u, n)
      BY <3>1, <3>2 DEF HasInHand, Marked
    <3> QED
      BY <1>2, <3>1, <3>3
  <2> QED
    BY <1>7, <2>1, <2>2, <2>3, TakeOnce, MarkOnce, AnnounceOnce DEF TaskNext
<1>8. ASSUME NEW t \in Tasks, StreamEnds(t) \/ AccountGone(t) \/ Boot(t) \/ SpawnVerified(t)
      PROVE  Once(n)'
  <2>1. doubted' = doubted /\ announced' = announced /\ seen' = seen
    BY <1>8 DEF StreamEnds, AccountGone, Boot, SpawnVerified, watcherRedis, histories
  <2>2. Goes(t, "connect", 1) \/ Goes(t, "off", 1)
    BY <1>8 DEF StreamEnds, AccountGone, Boot, SpawnVerified
  <2> QED
    BY <1>6, <2>1, <2>2
<1>9. ASSUME NEW T, Stopping(T), doubted' = doubted, announced' = announced, seen' = seen
      PROVE  Once(n)'
  <2>1. \A t \in Tasks : task'[t] = IF t \in T THEN Off ELSE task[t]
    BY <1>1, <1>9, StoppingType
  <2> QED
    BY <1>3, <1>9, <2>1, OffType
<1>10. CASE RegisterVerified \/ DisconnectWallet \/ \E T \in SUBSET Tasks : ProcessStops(T)
  <2>1. doubted' = doubted /\ announced' = announced /\ seen' = seen /\ \E T : Stopping(T)
    BY <1>10 DEF RegisterVerified, DisconnectWallet, ProcessStops, watcherRedis
  <2> QED
    BY <1>9, <2>1
<1> QED
  BY <1>4, <1>5, <1>7, <1>8, <1>10 DEF WatcherNext

\* No inflow is announced twice while the set of seen operations can tell,
\* however many tasks watch the wallet and however often it is streamed.
THEOREM OnceCorrect == WatcherSpec => []AnnouncedOnce
<1>1. WatcherInit => TypeInv /\ OnceInv
  BY TypeInit, OnceInit
<1>2. TypeInv /\ OnceInv /\ [WatcherNext]_watcherVars => (TypeInv /\ OnceInv)'
  BY TypeStep, OnceStep
<1>3. TypeInv /\ OnceInv => AnnouncedOnce
  BY DEF TypeInv, WatcherTypeOK, OnceInv, Once, AnnouncedOnce
<1> QED
  BY <1>1, <1>2, <1>3, PTL DEF WatcherSpec

\* Both of what a watcher owes to the bus: each inflow, and each only once.
THEOREM InflowsCorrect == WatcherSpec => []InflowsAnnouncedOnce
<1>1. CursorCovers /\ AnnouncedOnce => InflowsAnnouncedOnce
  BY DEF InflowsAnnouncedOnce
<1> QED
  BY <1>1, CursorCorrect, OnceCorrect, PTL
=============================================================================
