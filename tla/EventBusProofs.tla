--------------------------- MODULE EventBusProofs ---------------------------
(***************************************************************************)
(* Proofs about EventBus, for every set of processes and sockets, every    *)
(* capacity of a channel, and any number of events.                        *)
(***************************************************************************)
EXTENDS EventBus, TLAPS, SequenceTheorems

LogTypes ==
  /\ sender \in Seq(Procs)
  /\ up \subseteq Procs
  /\ bus \in [Procs -> Seq(Nat \ {0})]
  /\ worker \in [Procs -> WorkerStates]
  /\ lock \in Procs \cup {Nobody}
  /\ events \in Seq(Nat \ {0})
  /\ dropped \subseteq Nat

SocketTypes == socket \in [Sockets -> SocketStates]

\* A channel holds events that its process has sent, in the order of the sends.
BusOrder ==
  \A p \in Procs : \A i \in 1..Len(bus[p]) :
    /\ bus[p][i] \in Sent
    /\ sender[bus[p][i]] = p
    /\ \A j \in 1..Len(bus[p]) : i < j => bus[p][i] < bus[p][j]

\* A worker is at most one past the end of its channel, and not past it while it
\* has an event in hand.
WorkerPlace ==
  \A p \in Procs :
    /\ worker[p].next <= Len(bus[p]) + 1
    /\ worker[p].at # "recv" => worker[p].next <= Len(bus[p])

\* The lock is held by the worker that reads or writes the numbers.
LockHeld ==
  \A p \in Procs : lock = p <=> p \in up /\ worker[p].at \in {"number", "insert"}

\* The number a worker has read is still the next one.
NumberFree ==
  \A p \in up : worker[p].at = "insert" => worker[p].sequence = Len(events) + 1

\* What the worker of p has not got to.
Ahead(p) == {bus[p][i] : i \in worker[p].next .. Len(bus[p])}

\* The events whose fate is settled.
Settled == Logged \cup dropped

\* Every event is logged, dropped or ahead of its worker, and only one of these.
Fates ==
  /\ Settled \subseteq Sent
  /\ Logged \cap dropped = {}
  /\ \A p \in up : Ahead(p) \cap Settled = {}
  /\ \A e \in Sent : e \in Settled \/ (sender[e] \in up /\ e \in Ahead(sender[e]))

\* What a worker has not got to is newer than what it has.
Behind ==
  \A p \in up : \A e \in Settled, f \in Ahead(p) : sender[e] = p => e < f

LogOrder ==
  \A m, n \in DOMAIN events : m < n =>
    /\ events[m] # events[n]
    /\ sender[events[m]] = sender[events[n]] => events[m] < events[n]

Places == BusOrder /\ WorkerPlace
LogInv == LogTypes /\ Places /\ LockHeld /\ NumberFree /\ Fates /\ Behind /\ LogOrder

logVars == <<sender, up, bus, worker, lock, events, dropped>>

(***************************************************************************)
(* Facts about one state.                                                  *)
(***************************************************************************)

LEMMA LogFacts ==
  ASSUME LogTypes
  PROVE  /\ Len(sender) \in Nat /\ sender \in [1..Len(sender) -> Procs]
         /\ Len(events) \in Nat /\ DOMAIN events = 1..Len(events)
         /\ events \in [1..Len(events) -> Nat \ {0}]
         /\ Capacity \in Nat \ {0}
         /\ Sent = 1..Len(sender)
BY BusAssumption, LenProperties DEF LogTypes, Sent

LEMMA ProcFacts ==
  ASSUME LogTypes, NEW p \in Procs
  PROVE  /\ bus[p] \in Seq(Nat \ {0}) /\ Len(bus[p]) \in Nat
         /\ bus[p] \in [1..Len(bus[p]) -> Nat \ {0}]
         /\ worker[p] \in WorkerStates
         /\ worker[p].at \in {"recv", "lock", "number", "insert"}
         /\ worker[p].next \in Nat \ {0}
         /\ worker[p].sequence \in Nat
         /\ Oldest(p) \in Nat \ {0}
         /\ Oldest(p) <= Len(bus[p]) \/ Oldest(p) = 1
<1>1. bus[p] \in Seq(Nat \ {0}) /\ worker[p] \in WorkerStates
  BY DEF LogTypes
<1>2. /\ Len(bus[p]) \in Nat
      /\ bus[p] \in [1..Len(bus[p]) -> Nat \ {0}]
  BY <1>1, LenProperties
<1>3. /\ worker[p].at \in {"recv", "lock", "number", "insert"}
      /\ worker[p].next \in Nat \ {0}
      /\ worker[p].sequence \in Nat
  BY <1>1 DEF WorkerStates
<1>4. Oldest(p) \in Nat \ {0} /\ (Oldest(p) <= Len(bus[p]) \/ Oldest(p) = 1)
  BY <1>2, BusAssumption DEF Oldest
<1> QED
  BY <1>1, <1>2, <1>3, <1>4

\* What is ahead of a worker has been sent by its process.
LEMMA AheadFacts ==
  ASSUME LogTypes, Places, NEW p \in Procs, NEW f \in Ahead(p)
  PROVE  f \in Sent /\ f \in Nat /\ sender[f] = p
<1>1. PICK i \in worker[p].next .. Len(bus[p]) : f = bus[p][i]
  BY DEF Ahead
<1>2. i \in 1..Len(bus[p])
  BY <1>1, ProcFacts
<1>3. f \in Sent /\ sender[f] = p
  BY <1>1, <1>2 DEF Places, BusOrder
<1> QED
  BY <1>3, LogFacts

\* The numbers are 1, 2, ...: the next one is one more than there are.
LEMMA NextIsLast ==
  ASSUME LogTypes
  PROVE  NextSequence = Len(events) + 1
<1> DEFINE n == Len(events)
<1>1. Numbers = 0..n /\ n \in Nat
  BY LogFacts DEF Numbers
<1>2. n \in Numbers /\ \A m \in Numbers : m <= n
  BY <1>1
<1>3. \A k \in Numbers : (\A m \in Numbers : m <= k) => k = n
  BY <1>1
<1>4. (CHOOSE k \in Numbers : \A m \in Numbers : m <= k) = n
  BY <1>2, <1>3
<1> QED
  BY <1>1, <1>4 DEF NextSequence

(***************************************************************************)
(* Moving a worker on.                                                     *)
(***************************************************************************)

\* What a worker leaves behind when it goes on to position n.
Moved(p, n) == {bus[p][i] : i \in worker[p].next .. n - 1}
Rest(p, n) == {bus[p][i] : i \in n .. Len(bus[p])}

LEMMA AheadSplits ==
  ASSUME LogTypes, Places, NEW p \in Procs,
         NEW n \in Nat, n >= worker[p].next, n <= Len(bus[p]) + 1
  PROVE  /\ Ahead(p) = Moved(p, n) \cup Rest(p, n)
         /\ \A e \in Moved(p, n), f \in Rest(p, n) : e < f /\ e # f
<1>1. /\ worker[p].next \in Nat \ {0} /\ Len(bus[p]) \in Nat
      /\ bus[p] \in [1..Len(bus[p]) -> Nat \ {0}]
  BY ProcFacts
<1>2. worker[p].next .. Len(bus[p]) = (worker[p].next .. n - 1) \cup (n .. Len(bus[p]))
  BY <1>1
<1>3. Ahead(p) = Moved(p, n) \cup Rest(p, n)
  BY <1>2 DEF Ahead, Moved, Rest
<1>4. ASSUME NEW e \in Moved(p, n), NEW f \in Rest(p, n)
      PROVE  e < f /\ e # f
  <2>1. PICK i \in worker[p].next .. n - 1 : e = bus[p][i]
    BY DEF Moved
  <2>2. PICK j \in n .. Len(bus[p]) : f = bus[p][j]
    BY DEF Rest
  <2>3. i \in 1..Len(bus[p]) /\ j \in 1..Len(bus[p]) /\ i < j
    BY <1>1, <2>1, <2>2
  <2>4. bus[p][i] < bus[p][j] /\ bus[p][i] \in Nat /\ bus[p][j] \in Nat
    BY <1>1, <2>3 DEF Places, BusOrder
  <2> QED
    BY <2>1, <2>2, <2>4
<1> QED
  BY <1>3, <1>4

\* The worker of p goes on to n, and what it leaves behind is settled.
LEMMA MoveOn ==
  ASSUME LogInv, NEW p \in up, NEW n \in Nat, n >= worker[p].next, n <= Len(bus[p]) + 1,
         UNCHANGED <<sender, up, bus>>,
         worker'[p].next = n,
         \A q \in Procs \ {p} : worker'[q].next = worker[q].next,
         Settled' = Settled \cup Moved(p, n), (Logged \cap dropped = {})'
  PROVE  Fates' /\ Behind'
<1>1. p \in Procs /\ up \subseteq Procs /\ LogTypes /\ Places /\ Fates /\ Behind
  BY DEF LogInv, LogTypes
<1>2. /\ Ahead(p) = Moved(p, n) \cup Rest(p, n)
      /\ \A e \in Moved(p, n), f \in Rest(p, n) : e < f /\ e # f
  BY <1>1, AheadSplits
<1>3. Ahead(p)' = Rest(p, n)
  BY DEF Ahead, Rest
<1>4. \A q \in Procs \ {p} : Ahead(q)' = Ahead(q)
  BY DEF Ahead
<1>5. Sent' = Sent
  BY DEF Sent
<1>6. \A q \in Procs : \A f \in Ahead(q) : f \in Sent /\ f \in Nat /\ sender[f] = q
  BY <1>1, AheadFacts
<1>7. Settled' \subseteq Sent'
  BY <1>1, <1>2, <1>5, <1>6 DEF Fates
<1>8. ASSUME NEW q \in up PROVE Ahead(q)' \cap Settled' = {}
  <2>1. Ahead(q) \cap Settled = {} /\ q \in Procs
    BY <1>1 DEF Fates
  <2>2. CASE q = p
    BY <1>2, <1>3, <2>1, <2>2
  <2>3. CASE q # p
    <3>1. Ahead(q) \cap Moved(p, n) = {}
      BY <1>1, <1>2, <1>6, <2>1, <2>3
    <3> QED
      BY <1>4, <2>1, <2>3, <3>1
  <2> QED
    BY <2>2, <2>3
<1>9. ASSUME NEW e \in Sent
      PROVE  e \in Settled' \/ (sender[e] \in up /\ e \in Ahead(sender[e])')
  <2>1. e \in Settled \/ (sender[e] \in up /\ e \in Ahead(sender[e]))
    BY <1>1 DEF Fates
  <2>2. CASE sender[e] \in up /\ e \in Ahead(sender[e])
    <3>1. CASE sender[e] = p
      BY <1>2, <1>3, <2>2, <3>1
    <3>2. CASE sender[e] # p
      <4>1. PICK q \in Procs : q = sender[e]
        BY <1>1, <2>2
      <4> QED
        BY <1>4, <2>2, <3>2, <4>1
    <3> QED
      BY <3>1, <3>2
  <2> QED
    BY <2>1, <2>2
<1>10. Fates'
  <2>1. \A q \in up' : Ahead(q)' \cap Settled' = {}
    BY <1>8
  <2>2. \A e \in Sent' : e \in Settled' \/ (sender'[e] \in up' /\ e \in Ahead(sender[e])')
    BY <1>5, <1>9
  <2> QED
    BY <1>7, <2>1, <2>2 DEF Fates
<1>11. Behind'
  <2> SUFFICES ASSUME NEW q \in up, NEW e \in Settled', NEW f \in Ahead(q)', sender[e] = q
               PROVE  e < f
    BY DEF Behind
  <2>1. q \in Procs
    BY <1>1
  <2>2. CASE q = p
    <3>1. f \in Rest(p, n) /\ f \in Ahead(p)
      BY <1>2, <1>3, <2>2
    <3> QED
      BY <1>1, <1>2, <2>2, <3>1 DEF Behind
  <2>3. CASE q # p
    <3>1. e \in Settled /\ f \in Ahead(q)
      BY <1>1, <1>2, <1>4, <1>6, <2>1, <2>3
    <3> QED
      BY <1>1, <3>1 DEF Behind
  <2> QED
    BY <2>2, <2>3
<1> QED
  BY <1>10, <1>11

(***************************************************************************)
(* The steps.                                                              *)
(***************************************************************************)

LEMMA LogInitInv == BusInit => LogInv
<1> SUFFICES ASSUME BusInit PROVE LogInv
  OBVIOUS
<1>1. NewWorker \in WorkerStates
  BY DEF NewWorker, WorkerStates
<1>2. LogTypes
  BY <1>1 DEF BusInit, LogTypes
<1>3. /\ Sent = {} /\ Settled = {} /\ Logged = {} /\ dropped = {}
      /\ \A p \in Procs : Ahead(p) = {} /\ Len(bus[p]) = 0 /\ worker[p] = NewWorker
  BY DEF BusInit, Sent, Settled, Logged, Ahead, NewWorker
<1>4. Places
  BY <1>3 DEF Places, BusOrder, WorkerPlace, NewWorker
<1>5. LockHeld /\ NumberFree
  BY <1>2, <1>3, BusAssumption DEF LockHeld, NumberFree, NewWorker, BusInit, LogTypes
<1>6. Fates /\ Behind
  BY <1>3 DEF Fates, Behind
<1>7. LogOrder
  BY DEF LogOrder, BusInit
<1> QED
  BY <1>2, <1>4, <1>5, <1>6, <1>7 DEF LogInv

LEMMA LogUnchanged ==
  ASSUME LogInv, UNCHANGED logVars
  PROVE  LogInv'
<1> USE DEF logVars
<1>1. Sent' = Sent /\ Settled' = Settled /\ Logged' = Logged /\ \A p \in Procs : Ahead(p)' = Ahead(p)
  BY DEF Settled, Logged, Sent, Ahead
<1>2. LogTypes' /\ LockHeld' /\ NumberFree' /\ LogOrder'
  BY DEF LogInv, LogTypes, LockHeld, NumberFree, LogOrder
<1>3. Places'
  BY <1>1 DEF LogInv, Places, BusOrder, WorkerPlace
<1>4. up \subseteq Procs
  BY DEF LogInv, LogTypes
<1>5. Fates'
  <2>1. \A e \in Sent : e \in Settled \/ (sender[e] \in up /\ e \in Ahead(sender[e])')
    BY <1>1, <1>4 DEF LogInv, Fates
  <2> QED
    BY <1>1, <1>4, <2>1 DEF LogInv, Fates
<1>6. Behind'
  BY <1>1, <1>4 DEF LogInv, Behind
<1> QED
  BY <1>2, <1>3, <1>5, <1>6 DEF LogInv

\* A send: a new event, ahead of the worker of its process.
LEMMA SendStep ==
  ASSUME LogInv, NEW p \in Procs, SendEvent(p)
  PROVE  LogInv'
<1> DEFINE e == Len(sender) + 1
<1>1. /\ p \in up
      /\ sender' = Append(sender, p)
      /\ bus' = [bus EXCEPT ![p] = Append(@, e)]
      /\ UNCHANGED <<up, worker, lock, events, dropped>>
  BY DEF SendEvent
<1>2. LogTypes /\ Places /\ LockHeld /\ NumberFree /\ Fates /\ Behind /\ LogOrder
  BY DEF LogInv
<1>3. /\ Len(sender) \in Nat /\ sender \in [1..Len(sender) -> Procs] /\ sender \in Seq(Procs)
      /\ Sent = 1..Len(sender) /\ up \subseteq Procs
  BY <1>2, LogFacts DEF LogTypes
<1>4. /\ sender' \in Seq(Procs) /\ Len(sender') = e
      /\ \A d \in Sent : sender'[d] = sender[d]
      /\ sender'[e] = p
  BY <1>1, <1>3, AppendProperties
<1>5. Sent' = Sent \cup {e} /\ e \in Nat \ {0} /\ \A d \in Sent : d < e /\ d # e
  BY <1>3, <1>4 DEF Sent
<1>6. /\ bus[p] \in Seq(Nat \ {0}) /\ Len(bus[p]) \in Nat
      /\ bus'[p] = Append(bus[p], e)
      /\ \A q \in Procs \ {p} : bus'[q] = bus[q]
  BY <1>1, <1>2, ProcFacts DEF LogTypes
<1> HIDE DEF e
<1>7. /\ bus'[p] \in Seq(Nat \ {0}) /\ Len(bus'[p]) = Len(bus[p]) + 1
      /\ \A i \in 1..Len(bus[p]) : bus'[p][i] = bus[p][i]
      /\ bus'[p][Len(bus[p]) + 1] = e
  BY <1>5, <1>6, AppendProperties
<1>8. LogTypes'
  BY <1>1, <1>2, <1>4, <1>5, <1>6, <1>7 DEF LogTypes
<1>9. BusOrder'
  <2> SUFFICES ASSUME NEW q \in Procs, NEW i \in 1..Len(bus'[q])
               PROVE  /\ bus'[q][i] \in Sent'
                      /\ sender'[bus'[q][i]] = q
                      /\ \A j \in 1..Len(bus'[q]) : i < j => bus'[q][i] < bus'[q][j]
    BY DEF BusOrder
  <2>1. \A k \in 1..Len(bus[q]) :
          /\ bus[q][k] \in Sent
          /\ sender[bus[q][k]] = q
          /\ \A j \in 1..Len(bus[q]) : k < j => bus[q][k] < bus[q][j]
    BY <1>2 DEF Places, BusOrder
  <2>2. CASE q # p
    BY <1>4, <1>5, <1>6, <2>1, <2>2
  <2>3. CASE q = p
    <3>1. CASE i = Len(bus[p]) + 1
      BY <1>4, <1>5, <1>6, <1>7, <2>3, <3>1
    <3>2. CASE i \in 1..Len(bus[p])
      <4>1. bus'[p][i] = bus[p][i] /\ bus[p][i] \in Sent /\ sender[bus[p][i]] = p
        BY <1>7, <2>1, <2>3, <3>2
      <4>2. ASSUME NEW j \in 1..Len(bus'[p]), i < j PROVE bus'[p][i] < bus'[p][j]
        <5>1. CASE j = Len(bus[p]) + 1
          BY <1>5, <1>7, <4>1, <5>1
        <5>2. CASE j \in 1..Len(bus[p])
          BY <1>7, <2>1, <2>3, <3>2, <4>2, <5>2
        <5>3. \A k, m \in Nat : k \in 1..m + 1 => k = m + 1 \/ k \in 1..m
          OBVIOUS
        <5>4. j \in 1..Len(bus[p]) + 1 /\ j \in Nat /\ Len(bus[p]) \in Nat
          BY <1>6, <1>7
        <5> QED
          BY <5>1, <5>2, <5>3, <5>4, Zenon
      <4> QED
        BY <1>4, <1>5, <2>3, <4>1, <4>2
    <3> QED
      BY <1>6, <1>7, <2>3, <3>1, <3>2
  <2> QED
    BY <2>2, <2>3
<1>10. WorkerPlace'
  BY <1>1, <1>2, <1>6, <1>7, ProcFacts DEF Places, WorkerPlace
<1>11. LockHeld' /\ NumberFree'
  BY <1>1, <1>2 DEF LockHeld, NumberFree
<1>12. Ahead(p)' = Ahead(p) \cup {e} /\ \A q \in Procs \ {p} : Ahead(q)' = Ahead(q)
  <2>1. /\ worker[p].next \in Nat \ {0} /\ worker[p].next <= Len(bus[p]) + 1
    BY <1>2, ProcFacts DEF Places, WorkerPlace
  <2>2. worker[p].next .. Len(bus[p]) + 1 = (worker[p].next .. Len(bus[p])) \cup {Len(bus[p]) + 1}
    BY <1>6, <2>1
  <2>3. \A i \in worker[p].next .. Len(bus[p]) : i \in 1..Len(bus[p])
    BY <1>6, <2>1
  <2>4. Ahead(p)' = {bus'[p][i] : i \in worker[p].next .. Len(bus[p]) + 1}
    BY <1>1, <1>7 DEF Ahead
  <2>5. Ahead(p)' = {bus'[p][i] : i \in worker[p].next .. Len(bus[p])} \cup {bus'[p][Len(bus[p]) + 1]}
    BY <2>2, <2>4
  <2>6. {bus'[p][i] : i \in worker[p].next .. Len(bus[p])} = Ahead(p)
    BY <1>7, <2>3 DEF Ahead
  <2>7. Ahead(p)' = Ahead(p) \cup {e}
    BY <1>7, <2>5, <2>6
  <2>8. \A q \in Procs \ {p} : Ahead(q)' = Ahead(q)
    BY <1>1, <1>6 DEF Ahead
  <2> QED
    BY <2>7, <2>8
<1>13. Settled' = Settled /\ Logged' = Logged
  BY <1>1 DEF Settled, Logged
<1>14. \A q \in Procs : \A f \in Ahead(q) : f \in Sent /\ f \in Nat /\ sender[f] = q
  BY <1>2, AheadFacts
<1>15. Fates'
  <2>2. ASSUME NEW d \in Sent', d \notin Settled'
        PROVE  sender'[d] \in up' /\ d \in Ahead(sender[d])'
    <3>1. CASE d = e
      <4>1. d \in Ahead(p)' /\ sender'[d] = p
        BY <1>4, <1>12, <3>1
      <4>2. Ahead(sender[d])' = Ahead(p)'
        BY <4>1 DEF Ahead
      <4> QED
        BY <1>1, <4>1, <4>2
    <3>2. CASE d # e
      <4>1. /\ d \in Sent /\ sender'[d] = sender[d]
            /\ sender[d] \in up /\ d \in Ahead(sender[d])
        BY <1>2, <1>4, <1>5, <1>13, <2>2, <3>2 DEF Fates
      <4>2. PICK q \in Procs : q = sender[d] /\ q = sender'[d]
        BY <1>3, <4>1
      <4>3. d \in Ahead(q)'
        BY <1>12, <4>1, <4>2
      <4>4. Ahead(sender[d])' = Ahead(q)'
        BY <4>2 DEF Ahead
      <4> QED
        BY <1>1, <4>1, <4>2, <4>3, <4>4
    <3> QED
      BY <3>1, <3>2
  <2>3. Settled' \subseteq Sent' /\ (Logged \cap dropped = {})'
    BY <1>1, <1>2, <1>5, <1>13 DEF Fates
  <2>4. ASSUME NEW q \in up PROVE Ahead(q)' \cap Settled' = {}
    <3>1. Ahead(q) \cap Settled = {} /\ q \in Procs /\ e \notin Settled
      BY <1>2, <1>3, <1>5 DEF Fates
    <3> QED
      BY <1>12, <1>13, <3>1
  <2> QED
    BY <1>1, <2>2, <2>3, <2>4 DEF Fates
<1>16. Behind'
  <2> SUFFICES ASSUME NEW q \in up, NEW d \in Settled, NEW f \in Ahead(q)', sender'[d] = q
               PROVE  d < f
    BY <1>1, <1>13 DEF Behind
  <2>1. d \in Sent /\ sender[d] = q /\ q \in Procs
    BY <1>2, <1>3, <1>4 DEF Fates
  <2>2. CASE f = e
    BY <1>5, <2>1, <2>2
  <2>3. CASE f # e
    BY <1>2, <1>12, <2>1, <2>3 DEF Behind
  <2> QED
    BY <2>2, <2>3
<1>17. LogOrder'
  <2>1. \A n \in DOMAIN events : events[n] \in Sent
    BY <1>2 DEF Fates, Settled, Logged
  <2>2. \A m, n \in DOMAIN events : m < n =>
          /\ events[m] # events[n]
          /\ sender'[events[m]] = sender'[events[n]] => events[m] < events[n]
    BY <1>2, <1>4, <2>1 DEF LogOrder
  <2> QED
    BY <1>1, <2>2 DEF LogOrder
<1> QED
  BY <1>8, <1>9, <1>10, <1>11, <1>15, <1>16, <1>17 DEF LogInv, Places

\* A start: nothing is ahead of the new worker.
LEMMA StartStep ==
  ASSUME LogInv, NEW p \in Procs, StartProcess(p)
  PROVE  LogInv'
<1>1. /\ p \notin up /\ up' = up \cup {p}
      /\ bus' = [bus EXCEPT ![p] = <<>>]
      /\ worker' = [worker EXCEPT ![p] = NewWorker]
      /\ UNCHANGED <<sender, lock, events, dropped>>
  BY DEF StartProcess
<1>2. LogTypes /\ Places /\ LockHeld /\ NumberFree /\ Fates /\ Behind /\ LogOrder
  BY DEF LogInv
<1>3. NewWorker \in WorkerStates
  BY DEF NewWorker, WorkerStates
<1>4. /\ bus'[p] = <<>> /\ worker'[p] = NewWorker
      /\ \A q \in Procs \ {p} : bus'[q] = bus[q] /\ worker'[q] = worker[q]
      /\ Len(bus'[p]) = 0
  BY <1>1, <1>2 DEF LogTypes
<1>5. LogTypes'
  BY <1>1, <1>2, <1>3 DEF LogTypes
<1>6. Sent' = Sent /\ Settled' = Settled /\ Logged' = Logged
  BY <1>1 DEF Sent, Settled, Logged
<1>7. Places'
  <2>1. BusOrder'
    BY <1>1, <1>2, <1>4, <1>6 DEF Places, BusOrder
  <2>2. WorkerPlace'
    BY <1>2, <1>4 DEF Places, WorkerPlace, NewWorker
  <2> QED
    BY <2>1, <2>2 DEF Places
<1>8. LockHeld' /\ NumberFree'
  BY <1>1, <1>2, <1>4 DEF LockHeld, NumberFree, NewWorker
<1>9. Ahead(p)' = {} /\ \A q \in Procs \ {p} : Ahead(q)' = Ahead(q)
  BY <1>4 DEF Ahead, NewWorker
<1>10. Fates'
  <2>1. ASSUME NEW e \in Sent, e \notin Settled
        PROVE  sender[e] \in up' /\ e \in Ahead(sender[e])'
    <3>1. sender[e] \in up /\ e \in Ahead(sender[e])
      BY <1>2, <2>1 DEF Fates
    <3>2. PICK q \in Procs \ {p} : q = sender[e]
      BY <1>1, <1>2, <3>1 DEF LogTypes
    <3>3. e \in Ahead(q)'
      BY <1>9, <3>1, <3>2
    <3> QED
      BY <1>1, <3>1, <3>2, <3>3 DEF Ahead
  <2>2. \A q \in up' : Ahead(q)' \cap Settled' = {}
    BY <1>1, <1>2, <1>6, <1>9 DEF Fates, LogTypes
  <2> QED
    BY <1>1, <1>2, <1>6, <2>1, <2>2 DEF Fates
<1>11. Behind'
  BY <1>1, <1>2, <1>6, <1>9 DEF Behind, LogTypes
<1>12. LogOrder'
  BY <1>1, <1>2 DEF LogOrder
<1> QED
  BY <1>5, <1>7, <1>8, <1>10, <1>11, <1>12 DEF LogInv

\* A stop: what was ahead of the worker is given up.
LEMMA StopStep ==
  ASSUME LogInv, NEW p \in Procs, StopProcess(p)
  PROVE  LogInv'
<1>1. /\ p \in up /\ up' = up \ {p}
      /\ Unlock(p)
      /\ dropped' = dropped \cup Ahead(p)
      /\ UNCHANGED <<sender, bus, worker, events>>
  BY DEF StopProcess, Ahead
<1>2. LogTypes /\ Places /\ LockHeld /\ NumberFree /\ Fates /\ Behind /\ LogOrder
  BY DEF LogInv
<1>3. \A q \in Procs : Ahead(q)' = Ahead(q)
  BY <1>1 DEF Ahead
<1>4. \A q \in Procs : \A f \in Ahead(q) : f \in Sent /\ f \in Nat /\ sender[f] = q
  BY <1>2, AheadFacts
<1>5. Sent' = Sent /\ Settled' = Settled \cup Ahead(p) /\ Logged' = Logged
  BY <1>1 DEF Sent, Settled, Logged
<1>6. LogTypes'
  BY <1>1, <1>2, <1>4 DEF LogTypes, Unlock
<1>7. Places'
  BY <1>1, <1>2, <1>5 DEF Places, BusOrder, WorkerPlace
<1>8. LockHeld'
  BY <1>1, <1>2, BusAssumption DEF LockHeld, Unlock
<1>9. NumberFree'
  BY <1>1, <1>2 DEF NumberFree
<1>10. Fates'
  <2>1. Settled' \subseteq Sent' /\ (Logged \cap dropped = {})'
    BY <1>1, <1>2, <1>4, <1>5 DEF Fates, Settled
  <2>2. ASSUME NEW q \in up \ {p} PROVE Ahead(q)' \cap Settled' = {}
    <3>1. q \in Procs /\ Ahead(q) \cap Settled = {}
      BY <1>2 DEF Fates, LogTypes
    <3>2. Ahead(q) \cap Ahead(p) = {}
      BY <1>4, <3>1
    <3> QED
      BY <1>3, <1>5, <3>1, <3>2
  <2>3. ASSUME NEW e \in Sent, e \notin Settled'
        PROVE  sender[e] \in up' /\ e \in Ahead(sender[e])'
    <3>1. e \notin Settled /\ e \notin Ahead(p)
      BY <1>5, <2>3
    <3>2. sender[e] \in up /\ e \in Ahead(sender[e])
      BY <1>2, <3>1 DEF Fates
    <3>3. PICK q \in Procs : q = sender[e]
      BY <1>2, <3>2 DEF LogTypes
    <3>4. q # p
      BY <3>1, <3>2, <3>3
    <3>5. e \in Ahead(q)'
      BY <1>3, <3>2, <3>3
    <3> QED
      BY <1>1, <3>2, <3>3, <3>4, <3>5 DEF Ahead
  <2> QED
    BY <1>1, <1>5, <2>1, <2>2, <2>3 DEF Fates
<1>11. Behind'
  <2> SUFFICES ASSUME NEW q \in up \ {p}, NEW e \in Settled', NEW f \in Ahead(q)', sender[e] = q
               PROVE  e < f
    BY <1>1 DEF Behind
  <2>1. q \in Procs /\ f \in Ahead(q) /\ e \in Settled
    BY <1>2, <1>3, <1>4, <1>5 DEF LogTypes
  <2> QED
    BY <1>2, <2>1 DEF Behind
<1>12. LogOrder'
  BY <1>1, <1>2 DEF LogOrder
<1> QED
  BY <1>6, <1>7, <1>8, <1>9, <1>10, <1>11, <1>12 DEF LogInv

\* The steps of a worker that keep its event in hand.
LEMMA InHandStep ==
  ASSUME LogInv, NEW p \in Procs, Receive(p) \/ TakeLock(p) \/ ReadSequence(p)
  PROVE  LogInv'
<1>1. LogTypes /\ Places /\ LockHeld /\ NumberFree /\ Fates /\ Behind /\ LogOrder
  BY DEF LogInv
<1>2. /\ UNCHANGED <<sender, up, bus, events, dropped>>
      /\ p \in up /\ lock' \in Procs \cup {Nobody}
      /\ worker' = [worker EXCEPT ![p] = worker'[p]]
      /\ worker'[p] \in WorkerStates
      /\ worker'[p].next = worker[p].next
      /\ worker[p].next <= Len(bus[p])
  <2>1. CASE Receive(p)
    <3>1. worker[p].next \in Nat \ {0} /\ Oldest(p) \in Nat \ {0} /\ Len(bus[p]) \in Nat
      BY <1>1, ProcFacts
    <3>2. worker[p].next <= Len(bus[p])
      BY <2>1, <3>1 DEF Receive, Ready
    <3> QED
      BY <1>1, <2>1, <3>2 DEF Receive, WorkerAt, LogTypes, WorkerStates
  <2>2. CASE TakeLock(p)
    BY <1>1, <2>2 DEF TakeLock, WorkerAt, LogTypes, WorkerStates, Places, WorkerPlace
  <2>3. CASE ReadSequence(p)
    <3>1. NextSequence \in Nat
      BY <1>1, NextIsLast, LogFacts
    <3> QED
      BY <1>1, <2>3, <3>1 DEF ReadSequence, WorkerAt, LogTypes, WorkerStates, Places, WorkerPlace
  <2> QED
    BY <2>1, <2>2, <2>3
<1>3. \A q \in Procs \ {p} : worker'[q] = worker[q]
  BY <1>1, <1>2 DEF LogTypes
<1>4. LogTypes'
  BY <1>1, <1>2 DEF LogTypes
<1>5. Sent' = Sent /\ Settled' = Settled /\ Logged' = Logged
  BY <1>2 DEF Sent, Settled, Logged
<1>6. Places'
  BY <1>1, <1>2, <1>3, <1>5 DEF Places, BusOrder, WorkerPlace
<1>7. LockHeld'
  <2>1. CASE Receive(p)
    BY <1>1, <2>1 DEF Receive, WorkerAt, LockHeld, LogTypes
  <2>2. CASE TakeLock(p)
    BY <1>1, <2>2, BusAssumption DEF TakeLock, WorkerAt, LockHeld, LogTypes
  <2>3. CASE ReadSequence(p)
    BY <1>1, <2>3 DEF ReadSequence, WorkerAt, LockHeld, LogTypes
  <2> QED
    BY <2>1, <2>2, <2>3
<1>8. NumberFree'
  <2>1. worker'[p].at = "insert" => worker'[p].sequence = Len(events) + 1
    <3>1. CASE Receive(p)
      BY <1>1, <3>1 DEF Receive, LogTypes
    <3>2. CASE TakeLock(p)
      BY <1>1, <3>2 DEF TakeLock, LogTypes
    <3>3. CASE ReadSequence(p)
      BY <1>1, <3>3, NextIsLast DEF ReadSequence, LogTypes, WorkerStates
    <3> QED
      BY <3>1, <3>2, <3>3
  <2> QED
    BY <1>1, <1>2, <1>3, <2>1 DEF NumberFree, LogTypes
<1>9. Fates' /\ Behind'
  <2>1. Moved(p, worker[p].next) = {}
    BY <1>1, ProcFacts DEF Moved
  <2>2. worker[p].next \in Nat /\ Len(bus[p]) \in Nat
    BY <1>1, ProcFacts
  <2>3. (Logged \cap dropped = {})'
    BY <1>1, <1>2, <1>5 DEF Fates
  <2> QED
    BY <1>2, <1>3, <1>5, <2>1, <2>2, <2>3, MoveOn
<1>10. LogOrder'
  BY <1>1, <1>2 DEF LogOrder
<1> QED
  BY <1>4, <1>6, <1>7, <1>8, <1>9, <1>10 DEF LogInv

LEMMA SkipLaggedStep ==
  ASSUME LogInv, NEW p \in Procs, SkipLagged(p)
  PROVE  LogInv'
<1> DEFINE n == Oldest(p)
<1>1. LogTypes /\ Places /\ LockHeld /\ NumberFree /\ Fates /\ Behind /\ LogOrder
  BY DEF LogInv
<1>2. /\ n \in Nat \ {0} /\ n <= Len(bus[p]) /\ worker[p].next < n
      /\ worker[p].next \in Nat \ {0} /\ Len(bus[p]) \in Nat
  <2>1. /\ n \in Nat \ {0} /\ worker[p].next \in Nat \ {0} /\ Len(bus[p]) \in Nat
        /\ n <= Len(bus[p]) \/ n = 1
    BY <1>1, ProcFacts
  <2> QED
    BY <2>1 DEF SkipLagged, Lagged
<1>3. /\ p \in up /\ worker[p].at = "recv"
      /\ worker' = [worker EXCEPT ![p].next = n]
      /\ dropped' = dropped \cup Moved(p, n)
      /\ UNCHANGED <<sender, up, bus, lock, events>>
  BY DEF SkipLagged, WorkerAt, Moved
<1> HIDE DEF n
<1>4. /\ worker'[p].next = n /\ worker'[p].at = "recv" /\ worker'[p] \in WorkerStates
      /\ \A q \in Procs \ {p} : worker'[q] = worker[q]
  BY <1>1, <1>2, <1>3 DEF LogTypes, WorkerStates
<1>5. Moved(p, n) \subseteq Ahead(p) /\ Moved(p, n) \subseteq Nat
  BY <1>1, <1>2, AheadSplits, AheadFacts
<1>6. LogTypes'
  BY <1>1, <1>3, <1>4, <1>5 DEF LogTypes
<1>7. Sent' = Sent /\ Logged' = Logged /\ Settled' = Settled \cup Moved(p, n)
  BY <1>3 DEF Sent, Settled, Logged
<1>8. Places'
  BY <1>1, <1>2, <1>3, <1>4, <1>7 DEF Places, BusOrder, WorkerPlace
<1>9. LockHeld' /\ NumberFree'
  BY <1>1, <1>3, <1>4 DEF LockHeld, NumberFree, LogTypes
<1>10. Fates' /\ Behind'
  <2>1. (Logged \cap dropped = {})'
    BY <1>1, <1>3, <1>5, <1>7 DEF Fates, Settled
  <2> QED
    BY <1>2, <1>3, <1>4, <1>7, <2>1, MoveOn
<1>11. LogOrder'
  BY <1>1, <1>3 DEF LogOrder
<1> QED
  BY <1>6, <1>8, <1>9, <1>10, <1>11 DEF LogInv

\* A worker that goes back to recv for the next event.
LEMMA NextEventFacts ==
  ASSUME LogInv, NEW p \in up, NextEvent(p), worker[p].at # "recv",
         UNCHANGED <<sender, up, bus>>
  PROVE  /\ worker' \in [Procs -> WorkerStates]
         /\ worker'[p].next = worker[p].next + 1 /\ worker'[p].at = "recv"
         /\ \A q \in Procs \ {p} : worker'[q] = worker[q]
         /\ Places'
         /\ worker[p].next + 1 \in Nat /\ worker[p].next + 1 <= Len(bus[p]) + 1
         /\ Moved(p, worker[p].next + 1) = {InHand(p)}
         /\ InHand(p) \in Ahead(p) /\ InHand(p) \in Sent /\ InHand(p) \in Nat \ {0}
         /\ sender[InHand(p)] = p
         /\ InHand(p) \notin Settled
         /\ \A e \in Settled : sender[e] = p => e < InHand(p)
<1>1. LogTypes /\ Places /\ Fates /\ Behind /\ p \in Procs
  BY DEF LogInv, LogTypes
<1>2. worker[p].next \in Nat \ {0} /\ Len(bus[p]) \in Nat /\ worker[p].next <= Len(bus[p])
  BY <1>1, ProcFacts DEF Places, WorkerPlace
<1>3. [NewWorker EXCEPT !.next = worker[p].next + 1]
        = [at |-> "recv", next |-> worker[p].next + 1, sequence |-> 0]
  BY DEF NewWorker
<1>4. /\ worker' \in [Procs -> WorkerStates]
      /\ worker'[p].next = worker[p].next + 1 /\ worker'[p].at = "recv"
      /\ \A q \in Procs \ {p} : worker'[q] = worker[q]
  BY <1>1, <1>2, <1>3 DEF NextEvent, WorkerStates, LogTypes
<1>5. Sent' = Sent
  BY DEF Sent
<1>6. Places'
  <2>1. BusOrder'
    BY <1>1, <1>5 DEF Places, BusOrder
  <2>2. ASSUME NEW q \in Procs
        PROVE  /\ worker'[q].next <= Len(bus[q]) + 1
               /\ worker'[q].at # "recv" => worker'[q].next <= Len(bus[q])
    <3>1. CASE q = p
      BY <1>2, <1>4, <3>1
    <3>2. CASE q # p
      BY <1>1, <1>4, <3>2 DEF Places, WorkerPlace
    <3> QED
      BY <3>1, <3>2
  <2> QED
    BY <2>1, <2>2 DEF Places, WorkerPlace
<1>7. Moved(p, worker[p].next + 1) = {InHand(p)}
  <2>1. worker[p].next .. (worker[p].next + 1) - 1 = {worker[p].next}
    BY <1>2
  <2> QED
    BY <2>1 DEF Moved, InHand
<1>8. InHand(p) \in Ahead(p)
  BY <1>2 DEF InHand, Ahead
<1>9. InHand(p) \in Sent /\ sender[InHand(p)] = p /\ InHand(p) \in Nat \ {0}
  BY <1>1, <1>8, AheadFacts, LogFacts
<1>10. InHand(p) \notin Settled /\ \A e \in Settled : sender[e] = p => e < InHand(p)
  BY <1>1, <1>8 DEF Fates, Behind
<1> QED
  BY <1>2, <1>4, <1>6, <1>7, <1>8, <1>9, <1>10

LEMMA PersistFailsStep ==
  ASSUME LogInv, NEW p \in Procs, PersistFails(p)
  PROVE  LogInv'
<1>1. LogTypes /\ Places /\ LockHeld /\ NumberFree /\ Fates /\ Behind /\ LogOrder
  BY DEF LogInv
<1>2. /\ p \in up /\ worker[p].at # "recv"
      /\ Unlock(p) /\ NextEvent(p)
      /\ dropped' = dropped \cup {InHand(p)}
      /\ UNCHANGED <<sender, up, bus, events>>
  BY DEF PersistFails
<1>3. /\ worker' \in [Procs -> WorkerStates]
      /\ worker'[p].next = worker[p].next + 1 /\ worker'[p].at = "recv"
      /\ \A q \in Procs \ {p} : worker'[q] = worker[q]
      /\ Places'
      /\ worker[p].next + 1 \in Nat /\ worker[p].next + 1 <= Len(bus[p]) + 1
      /\ Moved(p, worker[p].next + 1) = {InHand(p)}
      /\ InHand(p) \in Nat \ {0} /\ InHand(p) \notin Settled
  BY <1>2, NextEventFacts
<1>4. LogTypes'
  BY <1>1, <1>2, <1>3 DEF LogTypes, Unlock
<1>5. Logged' = Logged /\ Settled' = Settled \cup Moved(p, worker[p].next + 1)
  BY <1>2, <1>3 DEF Settled, Logged
<1>6. LockHeld'
  BY <1>1, <1>2, <1>3, BusAssumption DEF LockHeld, Unlock
<1>7. NumberFree'
  BY <1>1, <1>2, <1>3 DEF NumberFree, LogTypes
<1>8. (Logged \cap dropped = {})'
  BY <1>1, <1>2, <1>3, <1>5 DEF Fates, Settled
<1>9. worker[p].next + 1 >= worker[p].next
  BY <1>1, ProcFacts
<1>10. Fates' /\ Behind'
  BY <1>2, <1>3, <1>5, <1>8, <1>9, MoveOn
<1>11. LogOrder'
  BY <1>1, <1>2 DEF LogOrder
<1> QED
  BY <1>3, <1>4, <1>6, <1>7, <1>10, <1>11 DEF LogInv

\* The row takes the next number: the table grows like a sequence.
LEMMA InsertAppends ==
  ASSUME LogInv, NEW p \in up, InsertEvent(p)
  PROVE  LET n == Len(events) + 1
         IN  /\ events' \in Seq(Nat \ {0}) /\ Len(events') = n
             /\ \A m \in 1..Len(events) : events'[m] = events[m]
             /\ events'[n] = InHand(p)
<1> DEFINE n == Len(events) + 1
           row(m) == IF m = n THEN InHand(p) ELSE events[m]
<1>1. LogTypes /\ NumberFree /\ p \in Procs
  BY DEF LogInv, LogTypes
<1>2. /\ Len(events) \in Nat /\ DOMAIN events = 1..Len(events)
      /\ events \in [1..Len(events) -> Nat \ {0}]
  BY <1>1, LogFacts
<1>3. worker[p].at = "insert" /\ worker[p].sequence = n
  BY <1>1 DEF NumberFree, InsertEvent, WorkerAt
<1>4. events' = [m \in (1..Len(events)) \cup {n} |-> row(m)]
  BY <1>2, <1>3 DEF InsertEvent
<1>5. (1..Len(events)) \cup {n} = 1..n /\ n \in Nat
  BY <1>2
<1>6. InHand(p) \in Nat \ {0}
  BY <1>3, NextEventFacts DEF InsertEvent
<1>7. \A m \in 1..n : row(m) \in Nat \ {0}
  BY <1>2, <1>5, <1>6
<1>8. events' \in [1..n -> Nat \ {0}]
  BY <1>4, <1>5, <1>7
<1>9. events' \in Seq(Nat \ {0}) /\ Len(events') = n
  BY <1>5, <1>8, SeqDef
<1>10. /\ \A m \in 1..Len(events) : events'[m] = events[m]
       /\ events'[n] = InHand(p)
  BY <1>2, <1>4
<1> QED
  BY <1>9, <1>10

LEMMA InsertStep ==
  ASSUME LogInv, NEW p \in Procs, InsertEvent(p)
  PROVE  LogInv'
<1> DEFINE n == Len(events) + 1
<1>1. LogTypes /\ Places /\ LockHeld /\ NumberFree /\ Fates /\ Behind /\ LogOrder
  BY DEF LogInv
<1>2. /\ p \in up /\ worker[p].at = "insert"
      /\ Unlock(p) /\ NextEvent(p)
      /\ UNCHANGED <<sender, up, bus, dropped>>
  BY DEF InsertEvent, WorkerAt
<1>3. /\ worker' \in [Procs -> WorkerStates]
      /\ worker'[p].next = worker[p].next + 1 /\ worker'[p].at = "recv"
      /\ \A q \in Procs \ {p} : worker'[q] = worker[q]
      /\ Places'
      /\ worker[p].next + 1 \in Nat /\ worker[p].next + 1 <= Len(bus[p]) + 1
      /\ Moved(p, worker[p].next + 1) = {InHand(p)}
      /\ InHand(p) \in Nat \ {0} /\ InHand(p) \notin Settled
      /\ sender[InHand(p)] = p
      /\ \A e \in Settled : sender[e] = p => e < InHand(p)
  BY <1>2, NextEventFacts
<1>4. /\ events' \in Seq(Nat \ {0}) /\ Len(events') = n
      /\ \A m \in 1..Len(events) : events'[m] = events[m]
      /\ events'[n] = InHand(p)
  BY <1>2, InsertAppends
<1>5. Len(events) \in Nat /\ DOMAIN events = 1..Len(events) /\ DOMAIN events' = 1..n
  BY <1>1, <1>4, LogFacts, LenProperties
<1>6. LogTypes'
  BY <1>1, <1>2, <1>3, <1>4 DEF LogTypes, Unlock
<1>7. Logged' = Logged \cup {InHand(p)}
  <2>1. 1..n = (1..Len(events)) \cup {n}
    BY <1>5
  <2> QED
    BY <1>4, <1>5, <2>1 DEF Logged
<1>8. Settled' = Settled \cup Moved(p, worker[p].next + 1)
  BY <1>2, <1>3, <1>7 DEF Settled
<1>9. LockHeld'
  BY <1>1, <1>2, <1>3, BusAssumption DEF LockHeld, Unlock
<1>10. NumberFree'
  \* Nobody else holds the lock, so nobody else has a number.
  <2>1. lock = p
    BY <1>1, <1>2 DEF LockHeld
  <2>2. \A q \in up \ {p} : worker[q].at # "insert"
    BY <1>1, <2>1 DEF LockHeld, LogTypes
  <2> QED
    BY <1>1, <1>2, <1>3, <2>2 DEF NumberFree, LogTypes
<1>11. (Logged \cap dropped = {})'
  BY <1>1, <1>2, <1>3, <1>7 DEF Fates, Settled
<1>12. worker[p].next + 1 >= worker[p].next
  BY <1>1, ProcFacts
<1>13. Fates' /\ Behind'
  BY <1>2, <1>3, <1>8, <1>11, <1>12, MoveOn
<1>14. LogOrder'
  <2> SUFFICES ASSUME NEW k \in 1..n, NEW m \in 1..n, k < m
               PROVE  /\ events'[k] # events'[m]
                      /\ sender[events'[k]] = sender[events'[m]] => events'[k] < events'[m]
    BY <1>2, <1>5 DEF LogOrder
  <2>1. k \in 1..Len(events) /\ events'[k] = events[k] /\ events[k] \in Settled
    <3>1. k \in 1..Len(events)
      BY <1>5
    <3> QED
      BY <1>4, <1>5, <3>1 DEF Settled, Logged
  <2>2. CASE m = n
    BY <1>3, <1>4, <2>1, <2>2
  <2>3. CASE m \in 1..Len(events)
    BY <1>1, <1>4, <1>5, <2>1, <2>3 DEF LogOrder
  <2> QED
    BY <1>5, <2>2, <2>3
<1> QED
  BY <1>3, <1>6, <1>9, <1>10, <1>13, <1>14 DEF LogInv

LEMMA LogStep ==
  ASSUME LogInv, [BusNext]_busVars
  PROVE  LogInv'
<1>1. ASSUME NEW p \in Procs, SendEvent(p) \/ StartProcess(p) \/ StopProcess(p)
      PROVE  LogInv'
  BY <1>1, SendStep, StartStep, StopStep
<1>2. ASSUME NEW p \in Procs, WorkerWorks(p) \/ PersistFails(p)
      PROVE  LogInv'
  BY <1>2, InHandStep, SkipLaggedStep, InsertStep, PersistFailsStep DEF WorkerWorks
<1>3. ASSUME NEW s \in Sockets, SocketNext(s)
      PROVE  LogInv'
  <2>1. UNCHANGED logVars
    BY <1>3 DEF SocketNext, OpenSocket, Forward, PassOver, SocketLags, CloseSocket, logVars
  <2> QED
    BY <2>1, LogUnchanged
<1>4. CASE UNCHANGED busVars
  <2>1. UNCHANGED logVars
    BY <1>4 DEF busVars, logVars
  <2> QED
    BY <2>1, LogUnchanged
<1> QED
  BY <1>1, <1>2, <1>3, <1>4 DEF BusNext

\* The invariant says what LogFollowsBus does.
LEMMA LogInvSuffices == LogInv => LogFollowsBus
<1> SUFFICES ASSUME LogInv PROVE LogFollowsBus
  OBVIOUS
<1>1. LogTypes /\ NumberFree /\ Fates /\ LogOrder
  BY DEF LogInv
<1>2. DOMAIN events = 1..Len(events) /\ Len(events) \in Nat
  BY <1>1, LogFacts
<1>3. \A p \in Procs : WorkerAt(p, "insert") => worker[p].sequence \notin DOMAIN events
  BY <1>1, <1>2 DEF WorkerAt, NumberFree
<1>4. ASSUME NEW e \in Sent
      PROVE  \/ e \in Logged /\ e \notin dropped
             \/ e \in dropped /\ e \notin Logged
             \/ /\ e \notin Logged \cup dropped
                /\ sender[e] \in up
                /\ \E i \in worker[sender[e]].next .. Len(bus[sender[e]]) :
                     bus[sender[e]][i] = e
  BY <1>1 DEF Fates, Settled, Ahead
<1> QED
  BY <1>1, <1>2, <1>3, <1>4 DEF LogFollowsBus, LogOrder

\* The events table is the record of the channels: its numbers have no gap, no
\* event is there twice or lost without a cause, and the events of one process
\* keep their order (lib.rs:292-326, main.rs:131-154).
THEOREM LogCorrect == BusSpec => []LogFollowsBus
BY LogInitInv, LogStep, LogInvSuffices, PTL DEF BusSpec

(***************************************************************************)
(* The journal.                                                            *)
(***************************************************************************)

\* What the journal is owed by a process that runs is ahead of its worker.
LEMMA OwedIsAhead ==
  ASSUME LogInv, NEW p \in up
  PROVE  TheJournal!OwedTo(p) = Ahead(p) /\ Ahead(p) \subseteq Nat
<1>1. LogTypes /\ Places /\ Fates /\ p \in Procs
  BY DEF LogInv, LogTypes
<1>2. \A f \in Ahead(p) : f \in Sent /\ f \in Nat /\ sender[f] = p /\ f \notin Settled
  BY <1>1, AheadFacts DEF Fates
<1>3. \A e \in Owed : sender[e] = p => e \in Ahead(p)
  BY <1>1 DEF Fates, Owed, Settled
<1> QED BY <1>2, <1>3 DEF TheJournal!OwedTo, Owed, Settled

\* A worker that goes on to position n without a row gives up what is before n.
LEMMA JournalGivesUp ==
  ASSUME LogInv, NEW p \in up, NEW n \in Nat, n >= worker[p].next, n <= Len(bus[p]) + 1,
         UNCHANGED <<sender, events>>,
         dropped' = dropped \cup Moved(p, n)
  PROVE  TheJournal!Next \/ UNCHANGED TheJournal!vars
<1>1. LogTypes /\ Places /\ p \in Procs
  BY DEF LogInv, LogTypes
<1>2. /\ Ahead(p) = Moved(p, n) \cup Rest(p, n)
      /\ \A e \in Moved(p, n), f \in Rest(p, n) : e < f /\ e # f
  BY <1>1, AheadSplits
<1>3. Owed' = Owed \ Moved(p, n)
  BY DEF Owed, Sent, Logged
<1>4. CASE Moved(p, n) = {}
  BY <1>3, <1>4 DEF TheJournal!vars
<1>5. CASE Moved(p, n) # {}
  <2> DEFINE last == bus[p][n - 1]
  <2>1. /\ worker[p].next \in Nat \ {0} /\ Len(bus[p]) \in Nat
        /\ bus[p] \in [1..Len(bus[p]) -> Nat \ {0}]
    BY <1>1, ProcFacts
  <2>2. n - 1 \in worker[p].next .. n - 1 /\ n - 1 \in 1..Len(bus[p])
    BY <1>5, <2>1 DEF Moved
  <2>3. last \in Moved(p, n) /\ last \in Nat
    BY <2>1, <2>2 DEF Moved
  <2>4. \A f \in Moved(p, n) : f <= last
    <3> SUFFICES ASSUME NEW i \in worker[p].next .. n - 1 PROVE bus[p][i] <= last
      BY DEF Moved
    <3>1. i \in 1..Len(bus[p]) /\ (i = n - 1 \/ i < n - 1) /\ bus[p][i] \in Nat
      BY <2>1, <2>2
    <3>2. i < n - 1 => bus[p][i] < last
      BY <1>1, <2>2, <3>1 DEF Places, BusOrder
    <3> QED BY <2>3, <3>1, <3>2
  <2>5. last \in Ahead(p) /\ TheJournal!OwedTo(p) = Ahead(p) /\ Ahead(p) \subseteq Nat
    BY <1>2, <2>3, OwedIsAhead
  <2>6. last \in Owed /\ sender[last] = p
    BY <2>5 DEF TheJournal!OwedTo
  <2> HIDE DEF last
  <2>7. {f \in TheJournal!OwedTo(p) : f <= last} = Moved(p, n)
    <3>1. \A f \in Rest(p, n) : ~(f <= last)
      BY <1>2, <2>3, <2>5
    <3> QED BY <1>2, <2>4, <2>5, <3>1
  <2>8. TheJournal!GiveUp(last)
    BY <1>3, <2>6, <2>7 DEF TheJournal!GiveUp
  <2> QED BY <2>6, <2>8 DEF TheJournal!Next
<1> QED BY <1>4, <1>5

\* A row is the oldest event that its process is owed.
LEMMA JournalEnters ==
  ASSUME LogInv, NEW p \in Procs, InsertEvent(p)
  PROVE  TheJournal!Next
<1> DEFINE e == InHand(p)
           n == worker[p].next + 1
<1>1. LogTypes /\ Places
  BY DEF LogInv
<1>2. /\ p \in up /\ worker[p].at # "recv" /\ NextEvent(p)
      /\ UNCHANGED <<sender, up, bus, dropped>>
  BY DEF InsertEvent, WorkerAt
<1>3. /\ n \in Nat /\ n <= Len(bus[p]) + 1 /\ Moved(p, n) = {e}
      /\ e \in Ahead(p) /\ e \in Nat /\ sender[e] = p
  BY <1>2, NextEventFacts
<1>4. TheJournal!OwedTo(p) = Ahead(p) /\ Ahead(p) \subseteq Nat
  BY <1>2, OwedIsAhead
<1>5. \A f \in TheJournal!OwedTo(p) : e <= f
  <2>1. n >= worker[p].next
    BY <1>1, ProcFacts
  <2>2. /\ Ahead(p) = Moved(p, n) \cup Rest(p, n)
        /\ \A d \in Moved(p, n), f \in Rest(p, n) : d < f /\ d # f
    BY <1>1, <1>3, <2>1, AheadSplits
  <2> QED BY <1>3, <1>4, <2>2
<1>6. /\ events' \in Seq(Nat \ {0}) /\ Len(events') = Len(events) + 1
      /\ \A m \in 1..Len(events) : events'[m] = events[m]
      /\ events'[Len(events) + 1] = e
  BY <1>2, InsertAppends
<1> HIDE DEF e, n
<1>7. events' = Append(events, e)
  <2>1. events \in Seq(Nat \ {0}) /\ e \in Nat \ {0}
    BY <1>2, <1>3, NextEventFacts DEF LogInv, LogTypes, e
  <2>2. /\ Append(events, e) \in Seq(Nat \ {0}) /\ Len(Append(events, e)) = Len(events) + 1
        /\ \A m \in 1..Len(events) : Append(events, e)[m] = events[m]
        /\ Append(events, e)[Len(events) + 1] = e
    BY <2>1, AppendProperties
  <2>3. \A m \in 1..Len(events) + 1 : events'[m] = Append(events, e)[m]
    <3>1. \A m \in 1..Len(events) + 1 : m \in 1..Len(events) \/ m = Len(events) + 1
      BY <1>1, LogFacts
    <3> QED BY <1>6, <2>2, <3>1
  <2> QED BY <1>6, <2>2, <2>3, SeqEqual
<1>8. Owed' = Owed \ {e}
  <2>1. Logged' = Logged \cup {e}
    <3>1. /\ DOMAIN events = 1..Len(events) /\ Len(events) \in Nat
          /\ DOMAIN events' = 1..Len(events) + 1
      BY <1>1, <1>6, LogFacts, LenProperties
    <3>2. 1..Len(events) + 1 = (1..Len(events)) \cup {Len(events) + 1}
      BY <3>1
    <3> QED BY <1>6, <3>1, <3>2 DEF Logged
  <2>2. Sent' = Sent
    BY <1>2 DEF Sent
  <2> QED BY <1>2, <2>1, <2>2 DEF Owed
<1>9. e \in Owed
  BY <1>3, <1>4 DEF TheJournal!OwedTo
<1>10. TheJournal!Enter(e)
  BY <1>2, <1>3, <1>5, <1>7, <1>8 DEF TheJournal!Enter
<1> QED BY <1>9, <1>10 DEF TheJournal!Next

LEMMA JournalStep ==
  LogInv /\ [BusNext]_busVars => [TheJournal!Next]_(TheJournal!vars)
<1> SUFFICES ASSUME LogInv, [BusNext]_busVars
             PROVE  TheJournal!Next \/ UNCHANGED TheJournal!vars
  OBVIOUS
<1>1. LogTypes /\ Places /\ Fates
  BY DEF LogInv
<1>2. ASSUME UNCHANGED <<sender, events, dropped>> PROVE UNCHANGED TheJournal!vars
  BY <1>2 DEF TheJournal!vars, Owed, Sent, Logged
<1>3. ASSUME NEW p \in Procs, SendEvent(p) PROVE TheJournal!Next
  <2>1. sender' = Append(sender, p) /\ UNCHANGED <<events, dropped>>
    BY <1>3 DEF SendEvent
  <2>2. Len(sender) \in Nat /\ Sent = 1..Len(sender) /\ sender \in Seq(Procs)
    BY <1>1, LogFacts DEF LogTypes
  <2>3. Sent' = Sent \cup {Len(sender) + 1}
    <3>1. Len(sender') = Len(sender) + 1
      BY <2>1, <2>2, AppendProperties
    <3> QED BY <2>2, <3>1 DEF Sent
  <2>4. Len(sender) + 1 \notin Settled
    BY <1>1, <2>2 DEF Fates
  <2>5. Owed' = Owed \cup {Len(sender) + 1}
    BY <2>1, <2>3, <2>4 DEF Owed, Settled, Logged
  <2>6. TheJournal!Send(p)
    BY <2>1, <2>5 DEF TheJournal!Send
  <2> QED BY <2>6 DEF TheJournal!Next
<1>4. ASSUME NEW p \in Procs, StopProcess(p) PROVE TheJournal!Next \/ UNCHANGED TheJournal!vars
  <2> DEFINE n == Len(bus[p]) + 1
  <2>1. n \in Nat /\ worker[p].next <= n /\ worker[p].next \in Nat /\ n - 1 = Len(bus[p])
    BY <1>1, ProcFacts DEF Places, WorkerPlace
  <2>2. p \in up /\ UNCHANGED <<sender, events>> /\ dropped' = dropped \cup Moved(p, n)
    BY <1>4, <2>1 DEF StopProcess, Moved
  <2> QED BY <2>1, <2>2, JournalGivesUp
<1>5. ASSUME NEW p \in Procs, SkipLagged(p) PROVE TheJournal!Next \/ UNCHANGED TheJournal!vars
  <2> DEFINE n == Oldest(p)
  <2>1. n \in Nat /\ worker[p].next < n /\ n <= Len(bus[p]) + 1 /\ worker[p].next \in Nat
    <3>1. /\ n \in Nat \ {0} /\ worker[p].next \in Nat \ {0} /\ Len(bus[p]) \in Nat
          /\ n <= Len(bus[p]) \/ n = 1
      BY <1>1, ProcFacts
    <3> QED BY <1>5, <3>1 DEF SkipLagged, Lagged
  <2>2. p \in up /\ UNCHANGED <<sender, events>> /\ dropped' = dropped \cup Moved(p, n)
    BY <1>5 DEF SkipLagged, WorkerAt, Moved
  <2> HIDE DEF n
  <2> QED BY <2>1, <2>2, JournalGivesUp
<1>6. ASSUME NEW p \in Procs, PersistFails(p) PROVE TheJournal!Next \/ UNCHANGED TheJournal!vars
  <2>1. /\ p \in up /\ worker[p].at # "recv" /\ NextEvent(p)
        /\ dropped' = dropped \cup {InHand(p)}
        /\ UNCHANGED <<sender, up, bus, events>>
    BY <1>6 DEF PersistFails
  <2>2. /\ worker[p].next + 1 \in Nat /\ worker[p].next + 1 <= Len(bus[p]) + 1
        /\ Moved(p, worker[p].next + 1) = {InHand(p)}
    BY <2>1, NextEventFacts
  <2>3. worker[p].next + 1 >= worker[p].next
    BY <1>1, <2>1, ProcFacts
  <2> QED BY <2>1, <2>2, <2>3, JournalGivesUp
<1>7. ASSUME NEW p \in Procs, StartProcess(p) \/ Receive(p) \/ TakeLock(p) \/ ReadSequence(p)
      PROVE  UNCHANGED TheJournal!vars
  BY <1>2, <1>7 DEF StartProcess, Receive, TakeLock, ReadSequence
<1>8. ASSUME NEW s \in Sockets, SocketNext(s) PROVE UNCHANGED TheJournal!vars
  BY <1>2, <1>8 DEF SocketNext, OpenSocket, Forward, PassOver, SocketLags, CloseSocket
<1>9. CASE UNCHANGED busVars
  BY <1>2, <1>9 DEF busVars
<1> QED
  BY <1>3, <1>4, <1>5, <1>6, <1>7, <1>8, <1>9, JournalEnters DEF BusNext, WorkerWorks

\* The events table is a journal, for any number of processes and any capacity
\* of their channels: rows are only added, each process' in the order of its
\* sends, and what is lost is lost from the oldest on and does not turn up
\* later (main.rs:135-151, lib.rs:292-326).
THEOREM JournalCorrect == BusSpec => ImplementsJournal
<1>1. BusInit => TheJournal!Init
  BY DEF BusInit, TheJournal!Init, Owed, Sent
<1> QED
  BY <1>1, LogInitInv, LogStep, JournalStep, PTL
  DEF BusSpec, ImplementsJournal, TheJournal!Spec

(***************************************************************************)
(* Sockets.                                                                *)
(***************************************************************************)

\* What a socket has forwarded lies behind its position; a dashboard's socket
\* that has forwarded something knows the treasury and has not passed over
\* anything since.
SocketPlace ==
  \A s \in Sockets :
    /\ \A i \in 1..Len(socket[s].got) : socket[s].got[i] < socket[s].next
    /\ socket[s].of = "dashboard" /\ socket[s].got # <<>> =>
         /\ socket[s].owned
         /\ socket[s].got[Len(socket[s].got)] = socket[s].next - 1

SocketInv == SocketTypes /\ SocketPlace /\ SocketsInOrder

\* What the three say of one socket.
Good(sock) ==
  /\ sock \in SocketStates
  /\ \A i \in 1..Len(sock.got) : sock.got[i] < sock.next
  /\ sock.of = "dashboard" /\ sock.got # <<>> =>
       sock.owned /\ sock.got[Len(sock.got)] = sock.next - 1
  /\ \A i \in 1..Len(sock.got) - 1 :
       IF sock.of = "agent" THEN sock.got[i + 1] > sock.got[i]
                            ELSE sock.got[i + 1] = sock.got[i] + 1

LEMMA SocketInvByParts ==
  SocketInv <=> /\ socket = [s \in Sockets |-> socket[s]]
                /\ \A s \in Sockets : Good(socket[s])
BY DEF SocketInv, SocketTypes, SocketPlace, SocketsInOrder, OfAgent, Good

LEMMA ClosedGood == Good(Closed)
BY DEF Good, Closed, SocketStates, Ends

\* A step that changes one socket.
LEMMA OneSocket ==
  ASSUME SocketInv, NEW s \in Sockets, NEW new, Good(new),
         socket' = [socket EXCEPT ![s] = new]
  PROVE  SocketInv'
<1>1. socket \in [Sockets -> SocketStates] /\ \A r \in Sockets : Good(socket[r])
  BY SocketInvByParts DEF SocketInv, SocketTypes
<1>2. \A r \in Sockets : socket'[r] = IF r = s THEN new ELSE socket[r]
  BY <1>1
<1>3. \A r \in Sockets : Good(socket'[r])
  BY <1>1, <1>2
<1>4. SocketTypes'
  BY <1>1, <1>2, <1>3 DEF SocketTypes, Good
<1> QED
  BY <1>3, <1>4 DEF SocketInv, SocketPlace, SocketsInOrder, OfAgent, Good

\* A socket that has gone on.
Advanced(sock, n, o, g) == [sock EXCEPT !.next = n, !.owned = o, !.got = g]

\* Going on to a later position without forwarding anything.
LEMMA PassGood ==
  ASSUME NEW sock, Good(sock), NEW n \in Nat \ {0}, n >= sock.next,
         sock.of = "agent" \/ ~sock.owned
  PROVE  Good([sock EXCEPT !.next = n, !.owned = sock.owned, !.got = sock.got])
<1> DEFINE new == [sock EXCEPT !.next = n, !.owned = sock.owned, !.got = sock.got]
<1>1. /\ sock \in SocketStates /\ sock.got \in Seq(Nat \ {0}) /\ sock.next \in Nat \ {0}
      /\ Len(sock.got) \in Nat /\ sock.got \in [1..Len(sock.got) -> Nat \ {0}]
  BY LenProperties DEF Good, SocketStates
<1>2. /\ new \in SocketStates
      /\ new.got = sock.got /\ new.of = sock.of /\ new.next = n /\ new.owned = sock.owned
  BY <1>1 DEF SocketStates
<1>3. sock.of \in {"dashboard", "agent"}
  BY <1>1 DEF SocketStates, Ends
<1> HIDE DEF new
<1>4. new.of = "dashboard" => new.got = <<>>
  BY <1>2, <1>3 DEF Good
<1>5. \A i \in 1..Len(new.got) : new.got[i] < new.next
  BY <1>1, <1>2 DEF Good
<1>6. Good(new)
  BY <1>2, <1>4, <1>5 DEF Good
<1> QED
  BY <1>6 DEF new

\* Forwarding the event at the position.
LEMMA ForwardGood ==
  ASSUME NEW sock, Good(sock), NEW longer, longer = Append(sock.got, sock.next),
         NEW next, next = sock.next + 1
  PROVE  Good(Advanced(sock, next, TRUE, longer))
<1> DEFINE new == Advanced(sock, next, TRUE, longer)
           n == Len(sock.got)
<1>1. /\ sock \in SocketStates /\ sock.got \in Seq(Nat \ {0}) /\ sock.next \in Nat \ {0}
      /\ n \in Nat /\ sock.got \in [1..n -> Nat \ {0}]
      /\ sock.of \in {"dashboard", "agent"}
  BY LenProperties DEF Good, SocketStates, Ends
<1>2. /\ longer \in Seq(Nat \ {0}) /\ Len(longer) = n + 1
      /\ \A i \in 1..n : longer[i] = sock.got[i]
      /\ longer[n + 1] = sock.next
  BY <1>1, AppendProperties
<1>3. /\ new \in SocketStates
      /\ new.got = longer /\ new.of = sock.of /\ new.next = next /\ new.owned
  <2>1. /\ sock \in SocketStates /\ next \in Nat \ {0}
        /\ longer \in Seq(Nat \ {0})
    BY <1>1, <1>2
  <2> QED
    BY <2>1 DEF SocketStates, Advanced
<1> HIDE DEF new
<1>4. \A i \in 1..n : sock.got[i] < sock.next /\ sock.got[i] \in Nat
  BY <1>1 DEF Good
<1>5. ASSUME NEW i \in 1..Len(longer) PROVE longer[i] < new.next
  <2>1. i \in 1..n \/ i = n + 1
    BY <1>1, <1>2
  <2> QED
    BY <1>1, <1>2, <1>3, <1>4, <2>1
<1>6. longer[Len(longer)] = new.next - 1
  BY <1>1, <1>2, <1>3
<1>7. ASSUME NEW i \in 1..Len(longer) - 1
      PROVE  IF sock.of = "agent" THEN longer[i + 1] > longer[i] ELSE longer[i + 1] = longer[i] + 1
  <2>1. i \in 1..n /\ i \in Nat
    BY <1>1, <1>2
  <2>2. CASE i = n
    <3>1. longer[i + 1] = sock.next /\ longer[i] = sock.got[n] /\ n # 0
      BY <1>2, <2>1, <2>2
    <3>2. sock.got[n] < sock.next /\ sock.got[n] \in Nat
      BY <1>4, <2>1, <2>2
    <3>3. sock.of # "agent" => sock.got[n] = sock.next - 1
      <4>1. sock.got # <<>>
        BY <3>1, EmptySeq
      <4> QED
        BY <1>1, <4>1 DEF Good
    <3>4. CASE sock.of = "agent"
      BY <1>1, <3>1, <3>2, <3>4
    <3>5. CASE sock.of # "agent"
      <4>1. longer[i] = sock.next - 1
        BY <3>1, <3>3, <3>5
      <4>2. longer[i + 1] = longer[i] + 1
        BY <1>1, <3>1, <4>1
      <4> QED
        BY <3>5, <4>2
    <3> QED
      BY <3>4, <3>5
  <2>3. CASE i \in 1..n - 1
    <3>1. longer[i + 1] = sock.got[i + 1] /\ longer[i] = sock.got[i]
      BY <1>1, <1>2, <2>3
    <3> QED
      BY <2>3, <3>1 DEF Good
  <2> QED
    BY <1>1, <2>1, <2>2, <2>3
<1>8. Good(new)
  BY <1>3, <1>5, <1>6, <1>7 DEF Good
<1> QED
  BY <1>8 DEF new

LEMMA SocketInitInv == BusInit => SocketInv
<1> SUFFICES ASSUME BusInit PROVE SocketInv
  OBVIOUS
<1>1. socket = [s \in Sockets |-> Closed]
  BY DEF BusInit
<1> QED
  BY <1>1, ClosedGood, SocketInvByParts

LEMMA SocketStep ==
  ASSUME SocketInv, LogTypes, [BusNext]_busVars
  PROVE  SocketInv'
<1>1. socket \in [Sockets -> SocketStates] /\ \A s \in Sockets : Good(socket[s])
  BY SocketInvByParts DEF SocketInv, SocketTypes
<1>2. ASSUME NEW s \in Sockets, NEW p \in Procs, NEW of \in Ends, NEW owned \in BOOLEAN,
             OpenSocket(s, p, of, owned)
      PROVE  SocketInv'
  <2> DEFINE new == [proc |-> p, of |-> of, next |-> Len(bus[p]) + 1, owned |-> owned,
                     got |-> <<>>]
  <2>1. Len(bus[p]) + 1 \in Nat \ {0}
    BY ProcFacts
  <2>2. Good(new)
    BY <2>1 DEF Good, SocketStates
  <2>3. socket' = [socket EXCEPT ![s] = new]
    BY <1>2 DEF OpenSocket
  <2> HIDE DEF new
  <2> QED
    BY <2>2, <2>3, OneSocket
<1>3. ASSUME NEW s \in Sockets, Forward(s)
      PROVE  SocketInv'
  <2>1. PICK next, longer : next = socket[s].next + 1 /\ longer = Append(socket[s].got, socket[s].next)
    OBVIOUS
  <2>2. socket' = [socket EXCEPT ![s] = Advanced(@, next, TRUE, longer)]
    BY <1>3, <2>1 DEF Forward, Advance, Advanced
  <2>3. Good(Advanced(socket[s], next, TRUE, longer))
    BY <1>1, <2>1, ForwardGood
  <2> QED
    BY <2>2, <2>3, OneSocket
<1>4. ASSUME NEW s \in Sockets, PassOver(s)
      PROVE  SocketInv'
  <2>1. /\ socket[s].next + 1 \in Nat \ {0}
        /\ socket[s].next + 1 >= socket[s].next
        /\ socket[s].of = "agent" \/ ~socket[s].owned
    BY <1>1, <1>4 DEF SocketStates, PassOver, OfAgent
  <2> QED
    BY <1>1, <1>4, <2>1, PassGood, OneSocket DEF PassOver, Advance
<1>5. ASSUME NEW s \in Sockets, SocketLags(s)
      PROVE  SocketInv'
  <2>1. CASE OfAgent(s)
    <3> DEFINE n == Oldest(socket[s].proc)
    <3>1. socket[s].proc \in Procs /\ socket[s].next \in Nat \ {0} /\ socket[s].next < n
      BY <1>1, <1>5 DEF SocketLags, Open, Lagged, SocketStates
    <3>2. n \in Nat \ {0}
      BY <3>1, ProcFacts
    <3> HIDE DEF n
    <3>3. n >= socket[s].next /\ socket[s].of = "agent"
      BY <2>1, <3>1, <3>2 DEF OfAgent
    <3>4. socket' = [socket EXCEPT ![s] = [@ EXCEPT !.next = n, !.owned = socket[s].owned,
                                                   !.got = socket[s].got]]
      BY <1>5, <2>1 DEF SocketLags, Advance, n
    <3> QED
      BY <1>1, <3>2, <3>3, <3>4, PassGood, OneSocket
  <2>2. CASE ~OfAgent(s)
    BY <1>5, <2>2, ClosedGood, OneSocket DEF SocketLags
  <2> QED
    BY <2>1, <2>2
<1>6. ASSUME NEW s \in Sockets, CloseSocket(s)
      PROVE  SocketInv'
  BY <1>6, ClosedGood, OneSocket DEF CloseSocket
<1>7. ASSUME NEW p \in Procs, StopProcess(p)
      PROVE  SocketInv'
  <2>1. socket' = [s \in Sockets |-> IF socket[s].proc = p THEN Closed ELSE socket[s]]
    BY <1>7 DEF StopProcess
  <2>2. \A s \in Sockets : Good(socket'[s])
    BY <1>1, <2>1, ClosedGood
  <2>3. SocketTypes'
    BY <2>1, <2>2 DEF SocketTypes, Good
  <2> QED
    BY <2>2, <2>3 DEF SocketInv, SocketPlace, SocketsInOrder, OfAgent, Good
<1>8. CASE UNCHANGED socket
  BY <1>8 DEF SocketInv, SocketTypes, SocketPlace, SocketsInOrder, OfAgent
<1>9. ASSUME NEW p \in Procs,
             SendEvent(p) \/ StartProcess(p) \/ WorkerWorks(p) \/ PersistFails(p)
      PROVE  UNCHANGED socket
  BY <1>9 DEF SendEvent, StartProcess, WorkerWorks, Receive, SkipLagged, TakeLock, ReadSequence,
              InsertEvent, PersistFails
<1> QED
  BY <1>2, <1>3, <1>4, <1>5, <1>6, <1>7, <1>8, <1>9 DEF BusNext, SocketNext, busVars

\* Types, and the order of what a channel holds.
THEOREM BusTypeCorrect == BusSpec => []BusTypeOK
<1>1. LogInv => LogTypes
  BY DEF LogInv
<1>2. LogTypes /\ SocketInv => BusTypeOK
  BY DEF LogTypes, SocketInv, SocketTypes, BusTypeOK
<1> QED
  BY LogInitInv, LogStep, SocketInitInv, SocketStep, <1>1, <1>2, PTL DEF BusSpec

\* A socket forwards what it forwards once and in order, and a dashboard's leaves
\* nothing out (dashboard.rs:271-303, agent.rs:1248-1393).
THEOREM SocketsCorrect == BusSpec => []SocketsInOrder
<1>1. LogInv => LogTypes
  BY DEF LogInv
<1>2. SocketInv => SocketsInOrder
  BY DEF SocketInv
<1> QED
  BY LogInitInv, LogStep, SocketInitInv, SocketStep, <1>1, <1>2, PTL DEF BusSpec
=============================================================================
