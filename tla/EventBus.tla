------------------------------ MODULE EventBus ------------------------------
(***************************************************************************)
(* The events of one treasury: every process of the coordinator has a      *)
(* broadcast channel (tokio::sync::broadcast, main.rs), a worker in the    *)
(* process copies what is sent on it into the events table (main.rs,       *)
(* lib.rs), and the sockets of dashboards and agents forward it to their   *)
(* clients (dashboard.rs, agent.rs, mcp.rs).  While a deploy replaces a    *)
(* process by another the two run side by side and share the table.        *)
(*                                                                         *)
(* The channel keeps the newest Capacity events.  A receiver that has      *)
(* fallen further behind is told so once, and goes on with the oldest      *)
(* event that is left.  tokio's channel is external, and so is Postgres'   *)
(* advisory lock, which is free again when its transaction ends.           *)
(*                                                                         *)
(* Faults: a process stops at any point and takes its channel with it, any *)
(* statement of the worker's transaction fails, a client leaves.           *)
(*                                                                         *)
(* Not here: what an event says (an event is the number of its send), the  *)
(* events of other treasuries, and which of the events an agent's socket   *)
(* has an arm for (any).                                                   *)
(*                                                                         *)
(* A definition named X_Y, before the definition X, is a variant of X that *)
(* a plausible mistake would give; nothing uses it.                        *)
(***************************************************************************)
EXTENDS Integers, Sequences

CONSTANTS
  Procs,        \* processes of the coordinator
  Sockets,      \* sockets that are open at once
  Capacity,     \* events a channel keeps
  MaxEvents,    \* bound: events that are sent
  Nobody        \* no process

ASSUME BusAssumption ==
  /\ Capacity \in Nat \ {0}
  /\ MaxEvents \in Nat
  /\ Nobody \notin Procs

VARIABLES
  sender,       \* history: which process has sent each event
  up,           \* processes that run
  bus,          \* per process, the events it has sent since it started
  worker,       \* the persistence worker of each process
  lock,         \* the holder of the treasury's advisory lock
  events,       \* the events table: the event that each sequence number has
  dropped,      \* history: events that have been given up
  socket        \* the sockets, with the positions they have forwarded

busVars == <<sender, up, bus, worker, lock, events, dropped, socket>>

Sent == 1..Len(sender)
Logged == {events[n] : n \in DOMAIN events}

\* Who a socket is for: a dashboard of the owner, or an agent.
Ends == {"dashboard", "agent"}

NewWorker == [at |-> "recv", next |-> 1, sequence |-> 0]
Closed == [proc |-> Nobody, of |-> "agent", next |-> 1, owned |-> FALSE, got |-> <<>>]

BusInit ==
  /\ sender = <<>>
  /\ up \in {{p} : p \in Procs}
  /\ bus = [p \in Procs |-> <<>>]
  /\ worker = [p \in Procs |-> NewWorker]
  /\ lock = Nobody
  /\ events = <<>>
  /\ dropped = {}
  /\ socket = [s \in Sockets |-> Closed]

(***************************************************************************)
(* The channel.                                                            *)
(***************************************************************************)

\* The oldest position the channel of p still has.
Oldest(p) == IF Len(bus[p]) <= Capacity THEN 1 ELSE Len(bus[p]) - Capacity + 1

Lagged(p, next) == next < Oldest(p)
Ready(p, next) == next \in Oldest(p)..Len(bus[p])

\* tx_events.send, by whichever handler or task of p.
SendEvent(p) ==
  /\ p \in up
  /\ Len(sender) < MaxEvents
  /\ sender' = Append(sender, p)
  /\ bus' = [bus EXCEPT ![p] = Append(@, Len(sender) + 1)]
  /\ UNCHANGED <<up, worker, lock, events, dropped, socket>>

(***************************************************************************)
(* The worker and persist_treasury_event.                                  *)
(***************************************************************************)

WorkerAt(p, label) == p \in up /\ worker[p].at = label

\* The event in hand; its position is passed once the call is over.
InHand(p) == bus[p][worker[p].next]

Unlock(p) == lock' = IF lock = p THEN Nobody ELSE lock

Receive_Unlocked(p) ==
  /\ WorkerAt(p, "recv")
  /\ Ready(p, worker[p].next)
  /\ worker' = [worker EXCEPT ![p].at = "number"]
  /\ UNCHANGED <<sender, up, bus, lock, events, dropped, socket>>
Receive(p) ==
  /\ WorkerAt(p, "recv")
  /\ Ready(p, worker[p].next)
  /\ worker' = [worker EXCEPT ![p].at = "lock"]
  /\ UNCHANGED <<sender, up, bus, lock, events, dropped, socket>>

\* RecvError::Lagged: a warning, and the loop goes on.
SkipLagged_OffByOne(p) ==
  /\ WorkerAt(p, "recv")
  /\ Lagged(p, worker[p].next)
  /\ worker' = [worker EXCEPT ![p].next = Oldest(p) + 1]
  /\ dropped' = dropped \cup {bus[p][i] : i \in worker[p].next .. Oldest(p) - 1}
  /\ UNCHANGED <<sender, up, bus, lock, events, socket>>
SkipLagged_Breaks(p) ==
  /\ WorkerAt(p, "recv")
  /\ Lagged(p, worker[p].next)
  /\ worker' = [worker EXCEPT ![p].at = "ended"]
  /\ UNCHANGED <<sender, up, bus, lock, events, dropped, socket>>
SkipLagged(p) ==
  /\ WorkerAt(p, "recv")
  /\ Lagged(p, worker[p].next)
  /\ worker' = [worker EXCEPT ![p].next = Oldest(p)]
  /\ dropped' = dropped \cup {bus[p][i] : i \in worker[p].next .. Oldest(p) - 1}
  /\ UNCHANGED <<sender, up, bus, lock, events, socket>>

TakeLock(p) ==
  /\ WorkerAt(p, "lock")
  /\ lock = Nobody
  /\ lock' = p
  /\ worker' = [worker EXCEPT ![p].at = "number"]
  /\ UNCHANGED <<sender, up, bus, events, dropped, socket>>

\* COALESCE(MAX(sequence), 0) + 1 over the rows that are committed.
Numbers == {0} \cup DOMAIN events
NextSequence == 1 + CHOOSE n \in Numbers : \A m \in Numbers : m <= n

ReadSequence(p) ==
  /\ WorkerAt(p, "number")
  /\ worker' = [worker EXCEPT ![p].at = "insert", ![p].sequence = NextSequence]
  /\ UNCHANGED <<sender, up, bus, lock, events, dropped, socket>>

\* The worker goes back to recv for the event after the one in hand.
NextEvent(p) ==
  worker' = [worker EXCEPT ![p] = [NewWorker EXCEPT !.next = worker[p].next + 1]]

\* INSERT and commit, unless UNIQUE (treasury_id, sequence) refuses the row.
InsertEvent(p) ==
  /\ WorkerAt(p, "insert")
  /\ worker[p].sequence \notin DOMAIN events
  /\ events' = [n \in DOMAIN events \cup {worker[p].sequence} |->
                  IF n = worker[p].sequence THEN InHand(p) ELSE events[n]]
  /\ Unlock(p)
  /\ NextEvent(p)
  /\ UNCHANGED <<sender, up, bus, dropped, socket>>

\* A statement fails: the transaction is rolled back, the error is logged and
\* the event is not tried again.
PersistFails(p) ==
  /\ p \in up /\ worker[p].at \in {"lock", "number", "insert"}
  /\ Unlock(p)
  /\ NextEvent(p)
  /\ dropped' = dropped \cup {InHand(p)}
  /\ UNCHANGED <<sender, up, bus, events, socket>>

(***************************************************************************)
(* Sockets.                                                                *)
(***************************************************************************)

Open(s) == socket[s].proc # Nobody
OfAgent(s) == socket[s].of = "agent"

\* The upgrade subscribes first and then reads which treasuries the user
\* owns: an error there gives none.  An agent's session names its treasury.
OpenSocket(s, p, of, owned) ==
  /\ ~Open(s) /\ p \in up
  /\ owned \/ of = "dashboard"
  /\ socket' = [socket EXCEPT ![s] =
       [proc |-> p, of |-> of, next |-> Len(bus[p]) + 1, owned |-> owned, got |-> <<>>]]
  /\ UNCHANGED <<sender, up, bus, worker, lock, events, dropped>>

Advance(s, next, owned, got) ==
  socket' = [socket EXCEPT ![s] = [@ EXCEPT !.next = next, !.owned = owned, !.got = got]]

HasNext(s) == Open(s) /\ Ready(socket[s].proc, socket[s].next)

\* socket.send of the event.  A dashboard's socket that does not know the
\* treasury yet asks the database first.
Forward(s) ==
  /\ HasNext(s)
  /\ Advance(s, socket[s].next + 1, TRUE, Append(socket[s].got, socket[s].next))
  /\ UNCHANGED <<sender, up, bus, worker, lock, events, dropped>>

\* The database does not answer, or an agent's socket has no arm for the event
\* or cannot send it.
PassOver(s) ==
  /\ HasNext(s)
  /\ OfAgent(s) \/ ~socket[s].owned
  /\ Advance(s, socket[s].next + 1, socket[s].owned, socket[s].got)
  /\ UNCHANGED <<sender, up, bus, worker, lock, events, dropped>>

\* A lagging socket: the dashboard's loop is a `while let Ok`, so it ends; the
\* agents' go on.
SocketLags_GoesOn(s) ==
  /\ Open(s) /\ Lagged(socket[s].proc, socket[s].next)
  /\ Advance(s, Oldest(socket[s].proc), socket[s].owned, socket[s].got)
  /\ UNCHANGED <<sender, up, bus, worker, lock, events, dropped>>
SocketLags(s) ==
  /\ Open(s) /\ Lagged(socket[s].proc, socket[s].next)
  /\ IF OfAgent(s)
     THEN Advance(s, Oldest(socket[s].proc), socket[s].owned, socket[s].got)
     ELSE socket' = [socket EXCEPT ![s] = Closed]
  /\ UNCHANGED <<sender, up, bus, worker, lock, events, dropped>>

\* The client leaves, or a send to it fails.
CloseSocket(s) ==
  /\ Open(s)
  /\ socket' = [socket EXCEPT ![s] = Closed]
  /\ UNCHANGED <<sender, up, bus, worker, lock, events, dropped>>

(***************************************************************************)
(* Processes.                                                              *)
(***************************************************************************)

StartProcess(p) ==
  /\ p \notin up
  /\ up' = up \cup {p}
  /\ bus' = [bus EXCEPT ![p] = <<>>]
  /\ worker' = [worker EXCEPT ![p] = NewWorker]
  /\ UNCHANGED <<sender, lock, events, dropped, socket>>

\* What the worker has not persisted is gone, the database ends its
\* transaction, and the sockets close.
StopProcess(p) ==
  /\ p \in up
  /\ up' = up \ {p}
  /\ Unlock(p)
  /\ dropped' = dropped \cup {bus[p][i] : i \in worker[p].next .. Len(bus[p])}
  /\ socket' = [s \in Sockets |-> IF socket[s].proc = p THEN Closed ELSE socket[s]]
  /\ UNCHANGED <<sender, bus, worker, events>>

WorkerWorks(p) ==
  \/ Receive(p)
  \/ SkipLagged(p)
  \/ TakeLock(p)
  \/ ReadSequence(p)
  \/ InsertEvent(p)

SocketNext(s) ==
  \/ \E p \in Procs, of \in Ends, owned \in BOOLEAN : OpenSocket(s, p, of, owned)
  \/ Forward(s)
  \/ PassOver(s)
  \/ SocketLags(s)
  \/ CloseSocket(s)

BusNext ==
  \/ \E p \in Procs : SendEvent(p) \/ StartProcess(p) \/ StopProcess(p)
  \/ \E p \in Procs : WorkerWorks(p) \/ PersistFails(p)
  \/ \E s \in Sockets : SocketNext(s)

BusSpec == BusInit /\ [][BusNext]_busVars
-----------------------------------------------------------------------------
WorkerStates ==
  [at : {"recv", "lock", "number", "insert"}, next : Nat \ {0}, sequence : Nat]

SocketStates ==
  [proc : Procs \cup {Nobody}, of : Ends, next : Nat \ {0}, owned : BOOLEAN,
   got : Seq(Nat \ {0})]

\* Types; a process' channel holds events it has sent itself, in the order of
\* their sends.
BusTypeOK ==
  /\ sender \in Seq(Procs)
  /\ up \subseteq Procs
  /\ bus \in [Procs -> Seq(Nat \ {0})]
  /\ worker \in [Procs -> WorkerStates]
  /\ lock \in Procs \cup {Nobody}
  /\ events \in Seq(Nat \ {0})
  /\ dropped \subseteq Nat
  /\ socket \in [Sockets -> SocketStates]

\* The table is the channels' record.  Its numbers are 1, 2, ... without a gap
\* and no event has two, the events of one process appear in the order in which
\* they were sent, the number a worker is about to insert is free, so that no
\* event is lost to UNIQUE (lib.rs:297-319), and every event is exactly one of
\* logged, given up for a cause that is known, or still ahead of its worker
\* (main.rs:135-151).
LogFollowsBus ==
  /\ DOMAIN events = 1..Len(events)
  /\ \A m, n \in DOMAIN events : m < n =>
       /\ events[m] # events[n]
       /\ sender[events[m]] = sender[events[n]] => events[m] < events[n]
  /\ \A p \in Procs : WorkerAt(p, "insert") => worker[p].sequence \notin DOMAIN events
  /\ \A e \in Sent :
       \/ e \in Logged /\ e \notin dropped
       \/ e \in dropped /\ e \notin Logged
       \/ /\ e \notin Logged \cup dropped
          /\ sender[e] \in up
          /\ \E i \in worker[sender[e]].next .. Len(bus[sender[e]]) :
               bus[sender[e]][i] = e

\* What a socket forwards it forwards once and in order, and from the first
\* event on a dashboard's socket leaves out none while it lives
\* (dashboard.rs:278-303, agent.rs:1289-1390, mcp.rs:521-556).
SocketsInOrder ==
  \A s \in Sockets : \A i \in 1 .. Len(socket[s].got) - 1 :
    IF OfAgent(s)
    THEN socket[s].got[i + 1] > socket[s].got[i]
    ELSE socket[s].got[i + 1] = socket[s].got[i] + 1

\* The workers catch up: again and again everything that has been sent is
\* logged or given up, because a worker that lags goes on (main.rs:145-150) and
\* a transaction that ends frees the lock (lib.rs:297-321).
LogCatchesUp == []<>(Sent \subseteq Logged \cup dropped)

\* The journal sees the table and what the workers still have to do for it.
Owed == Sent \ (Logged \cup dropped)

TheJournal == INSTANCE Journal WITH log <- events, owed <- Owed

\* However many processes write to it and wherever they stop, the table is a
\* journal: rows are only added, each process' in the order of its sends, and
\* what is lost is lost from the oldest on and does not turn up later
\* (main.rs:135-151, lib.rs:292-326).
ImplementsJournal == TheJournal!Spec
=============================================================================
