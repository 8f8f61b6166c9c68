---------------------------- MODULE Remittance ----------------------------
(***************************************************************************)
(* What an agent and the owner of a treasury may rely on when a signed     *)
(* payment is submitted, without handlers, a database or lost answers.  A  *)
(* payment is offered, granted and with that holds a reservation, sent     *)
(* once, and settled by what the ledger says; the agent has one answer or  *)
(* none.  Reservations end at any time, and none comes back.               *)
(***************************************************************************)
CONSTANTS Permits, Payments, None

VARIABLES
  payment,   \* of each permit, the payment offered under it
  offered,   \* permits whose payment is being examined
  granted,   \* ... has been approved and not been sent
  awaited,   \* ... has been sent, and its settlement is awaited
  sent,      \* permits whose payment has been sent, settled or not
  ledger,    \* payments that have been made
  held,      \* permits that hold a reservation for their payment
  charged,   \* permits that have been consumed
  told       \* the answer to the payment of each permit

vars == <<payment, offered, granted, awaited, sent, ledger, held, charged, told>>

\* The agent is told, or its answer is lost.
Answers(p, answer) ==
  /\ told[p] = "nothing"
  /\ told' \in {told, [told EXCEPT ![p] = answer]}

Init ==
  /\ payment = [p \in Permits |-> None]
  /\ offered = {} /\ granted = {} /\ awaited = {} /\ sent = {}
  /\ ledger = {}
  /\ held = {} /\ charged = {}
  /\ told = [p \in Permits |-> "nothing"]

Offer(p, m) ==
  /\ payment[p] = None
  /\ payment' = [payment EXCEPT ![p] = m]
  /\ offered' = offered \cup {p}
  /\ UNCHANGED <<granted, awaited, sent, ledger, held, charged, told>>

\* An offer that cannot be examined leaves no trace.
Withdraw(p) ==
  /\ p \in offered
  /\ payment' = [payment EXCEPT ![p] = None]
  /\ offered' = offered \ {p}
  /\ UNCHANGED <<granted, awaited, sent, ledger, held, charged, told>>

Grant(p) ==
  /\ p \in offered
  /\ offered' = offered \ {p}
  /\ granted' = granted \cup {p}
  /\ held' = held \cup {p}
  /\ UNCHANGED <<payment, awaited, sent, ledger, charged, told>>

Reject(p) ==
  /\ p \in offered
  /\ offered' = offered \ {p}
  /\ Answers(p, "rejected")
  /\ UNCHANGED <<payment, granted, awaited, sent, ledger, held, charged>>

\* Whether its reservation has ended in the meantime or not.
Send(p) ==
  /\ p \in granted /\ p \notin sent
  /\ granted' = granted \ {p}
  /\ awaited' = awaited \cup {p}
  /\ sent' = sent \cup {p}
  /\ UNCHANGED <<payment, offered, ledger, held, charged, told>>

\* A payment is made once, however often it was sent.
Make(p) ==
  /\ p \in sent /\ payment[p] \notin ledger
  /\ ledger' = ledger \cup {payment[p]}
  /\ UNCHANGED <<payment, offered, granted, awaited, sent, held, charged, told>>

Charge(p) ==
  /\ p \in awaited /\ payment[p] \in ledger
  /\ awaited' = awaited \ {p}
  /\ held' = held \ {p}
  /\ charged' = charged \cup {p}
  /\ Answers(p, "executed")
  /\ UNCHANGED <<payment, offered, granted, sent, ledger>>

\* Given up, without knowing whether it has been or will be made.
GiveUp(p) ==
  /\ p \in granted \cup awaited
  /\ granted' = granted \ {p}
  /\ awaited' = awaited \ {p}
  /\ held' = held \ {p}
  /\ Answers(p, "failed")
  /\ UNCHANGED <<payment, offered, sent, ledger, charged>>

\* Nobody is left to settle it.  Its reservation stays until it ends by itself.
Forget(p) ==
  /\ p \in granted \cup awaited
  /\ granted' = granted \ {p}
  /\ awaited' = awaited \ {p}
  /\ UNCHANGED <<payment, offered, sent, ledger, held, charged, told>>

\* Reservations P end: their time is over, or they are revoked.
End(P) ==
  /\ held' = held \ P
  /\ UNCHANGED <<payment, offered, granted, awaited, sent, ledger, charged, told>>

\* The agent reports what has become of permit p, which may end others.
Report(p, P) ==
  /\ payment[p] # None /\ p \notin offered
  /\ held' = held \ (P \cup {p})
  /\ charged' = charged \cup {p}
  /\ UNCHANGED <<payment, offered, granted, awaited, sent, ledger, told>>

Next ==
  \/ \E p \in Permits :
       \/ \E m \in Payments : Offer(p, m)
       \/ Withdraw(p) \/ Grant(p) \/ Reject(p)
       \/ Send(p) \/ Make(p)
       \/ Charge(p) \/ GiveUp(p) \/ Forget(p)
       \/ \E P \in SUBSET held : Report(p, P)
  \/ \E P \in SUBSET held : End(P)

Spec == Init /\ [][Next]_vars
===========================================================================
