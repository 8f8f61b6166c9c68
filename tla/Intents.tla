------------------------------ MODULE Intents ------------------------------
(***************************************************************************)
(* MCP intents: an agent signs a payment and submits it; the coordinator   *)
(* admits it like any permit request (Permits), cosigns it, sends it to    *)
(* Horizon, and settles the permit by what Horizon answers (mcp.rs).       *)
(*                                                                         *)
(* This module is composed with Permits: an intent takes a handler of      *)
(* Permits, goes through its admission steps there, and keeps the handler  *)
(* until the agent has its answer.  Everything else in Permits goes on     *)
(* meanwhile: halts, revocations, the TTL watcher, outcome reports.        *)
(*                                                                         *)
(* Horizon is external.  It applies a signed transaction at most once (its *)
(* sequence number is used up), refuses it, or says again that it has been *)
(* applied; its answer may be lost.                                        *)
(*                                                                         *)
(* Not here: which fields of the transaction are compared with the intent  *)
(* (the comparison may fail), the wallet the intent resolves to (any, the  *)
(* admission looks its rule up again), the group's row, the intent record  *)
(* in Redis (written, never read), and an intent that is dropped before it *)
(* writes anything.                                                        *)
(*                                                                         *)
(* A definition named X_Y, before the definition X, is a variant of X that *)
(* a plausible mistake would give; nothing uses it.                        *)
(***************************************************************************)
EXTENDS Permits

CONSTANT Payments     \* transactions an agent has signed

ASSUME IntentsAssumption ==
  None \notin Permits \cup Payments /\ Settlements = {"CONSUMED", "FAILED"}

VARIABLES
  intent,       \* where each handler is with its intent, and the permit
  payment,      \* the transaction submitted under a permit
  sent,         \* permits whose transaction has been sent to Horizon
  ledger,       \* transactions that Horizon has applied
  told,         \* what the agent has been told about the intent of a permit
  late          \* history: permits whose transaction was sent in this halt

intentVars == <<intent, payment, sent, ledger, told, late>>
allVars == <<vars, intentVars>>

NoIntent == [at |-> "none", permit |-> None]

IntentsInit ==
  /\ Init
  /\ intent = [w \in Workers |-> NoIntent]
  /\ payment = [p \in Permits |-> None]
  /\ sent = {}
  /\ ledger = {}
  /\ told = [p \in Permits |-> "nothing"]
  /\ late = {}

At(w, stage) == intent[w].at = stage
PermitOf(w) == intent[w].permit

\* The step sends the transactions of P; the history of a halt ends with it.
Sends(P) ==
  /\ sent' = sent \cup P
  /\ late' = IF treasury.health = "HALTED" /\ treasury'.health = "HALTED"
             THEN late \cup P ELSE {}

\* The handler returns; its answer may get lost on the way.  An error because
\* the intent's record cannot be stored says nothing of the intent: the agent
\* has no answer then.
Returns(w, answer) ==
  /\ intent' = [intent EXCEPT ![w] = NoIntent]
  /\ told' \in {told, [told EXCEPT ![PermitOf(w)] = answer]}

(***************************************************************************)
(* Admission.                                                              *)
(***************************************************************************)

\* ensure_connect_allowed, on the slot that has the key.
ConnectAllowed(a) == slot[a] \notin {"SUSPENDED", "REVOKED"}

\* What parse_and_resolve_intent may return: any wallet, since the rules it
\* reads are the newest, not those in force.
ResolvedIntents == Legs

\* submit_intent up to its transaction.  The permit's one leg is the intent.
SubmitIntent(w) ==
  \E p \in Permits, l \in ResolvedIntents, m \in Payments :
    /\ At(w, "none")
    /\ ConnectAllowed(l.agent)
    /\ Accept(w, FALSE, [q \in {p} |-> l])
    /\ intent' = [intent EXCEPT ![w] = [at |-> "admit", permit |-> p]]
    /\ payment' = [payment EXCEPT ![p] = m]
    /\ UNCHANGED <<ledger, told>>
    /\ Sends({})

\* A statement of process_single_permit.
AdmitStep(w) ==
  /\ At(w, "admit")
  /\ Proceed(w) /\ pc'[w] # "idle"
  /\ UNCHANGED <<intent, payment, ledger, told>>
  /\ Sends({})

\* The agent has no rule for the wallet, a statement fails, or the handler is
\* dropped: the transaction is rolled back.
NotAdmitted(w) ==
  /\ At(w, "admit")
  /\ Fail(w) \/ (Proceed(w) /\ pc[w] = "treasury" /\ pc'[w] = "idle")
  /\ intent' = [intent EXCEPT ![w] = NoIntent]
  /\ payment' = [payment EXCEPT ![PermitOf(w)] = None]
  /\ UNCHANGED <<ledger, told>>
  /\ Sends({})

PolicyApproved_Always(w) == TRUE
PolicyApproved(w) == status[PermitOf(w)] = "ACTIVE"

\* What a denied intent is answered; its group's status is "DENIED".
Rejection_OfGroup == "DENIED"
Rejection == "rejected"

\* The commit: an approved intent goes on, a denied one is answered.
Admitted(w) ==
  /\ At(w, "admit")
  /\ Commit(w)
  /\ \/ /\ PolicyApproved(w)
        /\ intent' = [intent EXCEPT ![w].at = "execute"]
        /\ UNCHANGED told
     \/ ~PolicyApproved(w) /\ Returns(w, Rejection)
  /\ UNCHANGED <<payment, ledger>>
  /\ Sends({})

(***************************************************************************)
(* Execution and settlement.                                               *)
(***************************************************************************)

\* execute_signed_intent: the transaction is the one the intent describes and
\* has the agent's signature.  It is cosigned and sent, with no further look at
\* the permit or the treasury.
SendTransaction(w) ==
  /\ At(w, "execute")
  /\ intent' = [intent EXCEPT ![w].at = "wait"]
  /\ UNCHANGED <<vars, payment, ledger, told>>
  /\ Sends({PermitOf(w)})

\* Horizon, for a transaction that has been sent, once or more.  One that it
\* refuses is never applied.
ApplyTransaction(p) ==
  /\ p \in sent /\ payment[p] \notin ledger
  /\ ledger' = ledger \cup {payment[p]}
  /\ UNCHANGED <<vars, intent, payment, told>>
  /\ Sends({})

WritePermit(p, s) ==
  /\ status' = [status EXCEPT ![p] = s]
  /\ UNCHANGED <<treasuryVars, tx, row, handlerVars, outlived>>

\* Horizon's answer is a success.
Succeeded_Any(w) == TRUE
Succeeded(w) == payment[PermitOf(w)] \in ledger

\* The answer is read, and the permit consumed whatever it has become.
Consume(w) ==
  /\ At(w, "wait")
  /\ Succeeded(w)
  /\ WritePermit(PermitOf(w), "CONSUMED")
  /\ Returns(w, "executed")
  /\ UNCHANGED <<payment, ledger>>
  /\ Sends({})

\* mark_intent_execution_failed spares a permit that has ended.
StatusIfFailed_Unguarded(p) == "FAILED"
StatusIfFailed(p) == IF status[p] = "ACTIVE" THEN "FAILED" ELSE status[p]

\* The transaction is not the intent's; or Horizon refuses it, its answer is
\* lost or cannot be read, whatever it has done; or the permit's update fails.
FailIntent(w) ==
  /\ intent[w].at \in {"execute", "wait"}
  /\ WritePermit(PermitOf(w), StatusIfFailed(PermitOf(w)))
  /\ Returns(w, "failed")
  /\ UNCHANGED <<payment, ledger>>
  /\ Sends({})

\* The failure cannot be written either, say because the reason is longer than
\* its column, or the client hangs up: the handler is gone, and the agent has
\* an error that says nothing of its intent, or no response.
Abandon(w) ==
  /\ intent[w].at \in {"execute", "wait"}
  /\ intent' = [intent EXCEPT ![w] = NoIntent]
  /\ UNCHANGED <<vars, payment, ledger, told>>
  /\ Sends({})

-----------------------------------------------------------------------------
\* The steps of a handler with an intent.
WithIntent(w) ==
  \/ AdmitStep(w) \/ NotAdmitted(w) \/ Admitted(w)
  \/ SendTransaction(w) \/ Consume(w) \/ FailIntent(w) \/ Abandon(w)

\* The other handlers, and the background of Permits.
Beside == UNCHANGED <<intent, payment, ledger, told>> /\ Sends({})

WithoutIntent(w) == At(w, "none") /\ (Begin(w) \/ Proceed(w) \/ Fail(w)) /\ Beside

IntentsNext ==
  \/ \E w \in Workers :
       SubmitIntent(w) \/ WithIntent(w) \/ WithoutIntent(w)
  \/ \E p \in Permits : ApplyTransaction(p)
  \/ Background /\ Beside

IntentsSpec == IntentsInit /\ [][IntentsNext]_allVars
-----------------------------------------------------------------------------
IntentsTypeOK ==
  /\ intent \in [Workers -> [at : {"none", "admit", "execute", "wait"},
                            permit : Permits \cup {None}]]
  /\ payment \in [Permits -> Payments \cup {None}]
  /\ sent \subseteq Permits
  /\ ledger \subseteq Payments
  /\ told \in [Permits -> {"nothing", "executed", "failed", "rejected"}]
  /\ late \subseteq Permits

\* No transaction is sent under a permit that was denied or is not committed,
\* and every transaction Horizon has applied was sent under some permit.
PaidWasAdmitted ==
  /\ \A p \in sent : tx[p] = None /\ status[p] \notin {"NONE", "DENIED"}
  /\ \A m \in ledger : \E p \in sent : payment[p] = m

\* A permit is consumed only for a transaction that Horizon has applied, or by
\* an outcome report of its agent (mcp.rs:1199-1213, permit.rs:420-428).
ConsumedWasPaid ==
  [][\A p \in Permits :
       status[p] # "CONSUMED" /\ status'[p] = "CONSUMED" =>
         \/ payment[p] \in ledger
         \/ \E w \in Workers : pc[w] = "written" /\ outcome[w].permit = p]_allVars

\* What the agent is told is so, and stays so: an executed intent is on the
\* ledger and charged to its permit, a rejected one was never sent, and neither
\* it nor one that failed (which may have been paid) holds a reservation
\* (mcp.rs:397-508).
AnswersTruthful ==
  \A p \in Permits :
    /\ told[p] = "executed" => payment[p] \in ledger /\ status[p] = "CONSUMED"
    /\ told[p] = "rejected" => p \notin sent
    /\ told[p] \in {"rejected", "failed"} => status[p] # "ACTIVE"

\* While a treasury is halted, no more transactions leave than there were
\* other handlers at the halt: a halt stops every intent that is not under way
\* (treasury.rs:119-152, mcp.rs:1166-1173).
HaltStopsPayments ==
  treasury.health = "HALTED" => Cardinality(late) <= Cardinality(Workers) - 1

\* The permits of intents live as Permits says: each step here is one there, or
\* none (an intent's settlement is SettleIntent).
ImplementsPermits == Spec

\* Where the payments are, instead of where the handlers are.
HeldAt(stage) == {PermitOf(w) : w \in {v \in Workers : At(v, stage)}}
WithPayment == {p \in Permits : payment[p] # None}
Reserved == WithPayment \cap ActiveCommitted
Charged == {p \in WithPayment : status[p] = "CONSUMED"}

TheRemittance ==
  INSTANCE Remittance WITH
    offered <- HeldAt("admit"), granted <- HeldAt("execute"), awaited <- HeldAt("wait"),
    held <- Reserved, charged <- Charged

\* Whatever races with it, a payment goes one way: it is sent once, on a grant;
\* it is charged only when it is on the ledger or reported by its agent; its
\* agent has one answer at most, and the right one; and a reservation that has
\* ended, by a halt, the watcher or a failure, does not come back
\* (mcp.rs:315-510, 1159-1240).
ImplementsRemittance == TheRemittance!Spec
===========================================================================
