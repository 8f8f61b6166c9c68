------------------------------ MODULE Journal ------------------------------
(***************************************************************************)
(* What the event log promises its readers, without channels, workers and  *)
(* a lock.  An event that is sent is owed to the log.  The log only grows, *)
(* by the oldest event its process is owed; an event may be given up, with *)
(* all the older ones its process is owed, and what is not owed any more   *)
(* never enters the log.                                                   *)
(***************************************************************************)
EXTENDS Naturals, Sequences

CONSTANT Procs

VARIABLES
  sender,   \* which process has sent each event
  log,      \* the events in the order of their numbers
  owed      \* events that are neither in the log nor given up

vars == <<sender, log, owed>>

OwedTo(p) == {e \in owed : sender[e] = p}
-----------------------------------------------------------------------------
Init ==
  /\ sender = <<>>
  /\ log = <<>>
  /\ owed = {}

Send(p) ==
  /\ sender' = Append(sender, p)
  /\ owed' = owed \cup {Len(sender) + 1}
  /\ UNCHANGED log

Enter(e) ==
  /\ \A f \in OwedTo(sender[e]) : e <= f
  /\ log' = Append(log, e)
  /\ owed' = owed \ {e}
  /\ UNCHANGED sender

GiveUp(e) ==
  /\ owed' = owed \ {f \in OwedTo(sender[e]) : f <= e}
  /\ UNCHANGED <<sender, log>>

Next ==
  \/ \E p \in Procs : Send(p)
  \/ \E e \in owed : Enter(e) \/ GiveUp(e)

Spec == Init /\ [][Next]_vars
===========================================================================
