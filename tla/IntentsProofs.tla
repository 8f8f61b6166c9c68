--------------------------- MODULE IntentsProofs ---------------------------
(***************************************************************************)
(* Proofs about Intents, for every number of handlers, permits, agents and *)
(* signed transactions.                                                    *)
(*                                                                         *)
(* The argument.  A handler with an intent owns its permit's row until the *)
(* commit; from then on it goes on only with a row that is committed and   *)
(* granted, and no two handlers have the same permit (HoldersInv).  No     *)
(* step takes a granted row back to DENIED or to nothing (GrantedStays),   *)
(* so what is sent is granted for good (SentInv).  An answer comes from    *)
(* the last step of the permit's only handler (AnswersInv), and a permit   *)
(* that has ended never becomes active again.                              *)
(***************************************************************************)
EXTENDS Intents, PermitsProofs

\* The committed rows of approved permits.
Granted == {p \in Settled : status[p] # "DENIED"}

\* What no step takes back from a committed row.
LEMMA GrantedStays ==
  ASSUME TypeInv, [Next]_vars, NEW p \in Settled
  PROVE  /\ p \in Settled'
         /\ status[p] # "DENIED" => status'[p] # "DENIED"
         /\ status[p] # "ACTIVE" => status'[p] # "ACTIVE"
         /\ status[p] = "CONSUMED" => status'[p] = "CONSUMED"
<1> USE WorkersAssumption DEF Settled, permitVars, treasuryVars, handlerVars
<1> DEFINE Keeps == \/ status'[p] = status[p]
                    \/ status'[p] = "CONSUMED"
                    \/ status[p] = "ACTIVE" /\ status'[p] \in {"REVOKED", "EXPIRED", "FAILED"}
<1>0. /\ status \in [Permits -> PermitStatus] /\ row \in [Permits -> PermitRows]
      /\ tx \in [Permits -> Workers \cup {None}]
  BY DEF TypeInv, TypeOK
<1>1. CASE UNCHANGED vars
  BY <1>1, SettledStays DEF vars
<1>2. ASSUME NEW w \in Workers, RequestPermit(w) \/ RequestPermitGroup(w)
      PROVE  Keeps
  <2>1. PICK P \in SUBSET Permits, require_all \in BOOLEAN :
          \E r \in [P -> Legs] : Accept(w, require_all, r)
    BY <1>2, RequestAccepts
  <2> QED BY <2>1, <1>0 DEF Accept
<1>3. ASSUME NEW w \in Workers, Rollback(w)
      PROVE  Keeps
  BY <1>0, <1>3 DEF Rollback
<1>4. ASSUME NEW w \in Workers, NEW q \in Permits,
             ReadSlot(w, q) \/ ReadTreasury(w, q) \/ ReadReserved(w, q) \/ ReadActiveCount(w, q)
      PROVE  Keeps
  BY <1>0, <1>3, <1>4 DEF ReadSlot, ReadTreasury, ReadReserved, ReadActiveCount
<1>5. ASSUME NEW w \in Workers, NEW q \in Permits, Decide(w, q)
      PROVE  Keeps
  BY <1>0, <1>5 DEF Decide, AtLeg
<1>6. ASSUME NEW w \in Workers, Commit(w)
      PROVE  Keeps
  BY <1>0, <1>3, <1>6 DEF Commit
<1>7. ASSUME NEW w \in Workers, NEW q \in Permits, NEW pnl \in Pnls, ReadOutcome(w, q, pnl)
      PROVE  Keeps
  BY <1>7 DEF ReadOutcome
<1>8. ASSUME NEW w \in Workers, WriteOutcome(w) \/ CommitOutcome(w) \/ CommitRevocation(w)
      PROVE  Keeps
  BY <1>0, <1>8 DEF WriteOutcome, CommitOutcome, CommitRevocation, StatusAfterRevoking, Active
<1>9. ASSUME NEW w \in Workers, Dashboard(w)
      PROVE  Keeps
  BY <1>9 DEF Dashboard, VerifyWallet, ResumeTreasury, UpdateConstitution, RevokePermits
<1>10. ASSUME Background \/ IntentEnds
       PROVE  Keeps
  <2>1. CASE Background
    BY <1>0, <2>1
       DEF Background, ExpirePermits, Expirable, ActiveCommitted, Active, Resync, WriteSlotStatus
  <2>2. CASE IntentEnds
    <3>1. PICK q \in Permits, s \in Settlements : SettleIntent(q, s)
      BY <2>2 DEF IntentEnds
    <3> QED BY <1>0, <3>1, NumbersAssumption DEF SettleIntent
  <2> QED BY <1>10, <2>1, <2>2
<1>11. ASSUME NEW w \in Workers, Fail(w)
       PROVE  Keeps
  BY <1>3, <1>11 DEF Fail
<1>12. Keeps
  BY <1>1, <1>2, <1>4, <1>5, <1>6, <1>7, <1>8, <1>9, <1>10, <1>11
     DEF Next, Begin, Proceed, vars
<1> QED BY <1>12, SettledStays

\* A handler's step leaves the other handlers and the rows they own alone.
LEMMA OwnersStay ==
  ASSUME TypeInv, NEW w \in Workers, NEW v \in Workers, v # w,
         Begin(w) \/ Proceed(w) \/ Fail(w)
  PROVE  /\ request'[v] = request[v] /\ pc'[v] = pc[v]
         /\ \A p \in Permits : tx'[p] = v <=> tx[p] = v
         /\ \A p \in Permits : tx[p] = v /\ status[p] # "NONE" => status'[p] # "NONE"
<1> DEFINE Stay == /\ request'[v] = request[v] /\ pc'[v] = pc[v]
                   /\ \A p \in Permits : tx'[p] = v <=> tx[p] = v
                   /\ \A p \in Permits :
                        tx[p] = v /\ status[p] # "NONE" => status'[p] # "NONE"
<1> USE WorkersAssumption DEF permitVars, treasuryVars, handlerVars
<1>0. /\ request \in [Workers -> Requests] /\ pc \in [Workers -> PC]
      /\ tx \in [Permits -> Workers \cup {None}]
      /\ status \in [Permits -> PermitStatus]
  BY DEF TypeInv, TypeOK
<1>2. CASE RequestPermit(w) \/ RequestPermitGroup(w)
  <2>1. PICK P \in SUBSET Permits, require_all \in BOOLEAN :
          \E r \in [P -> Legs] : Accept(w, require_all, r)
    BY <1>2, RequestAccepts
  <2> QED BY <2>1, <1>0 DEF Accept
<1>3. ASSUME Rollback(w)
      PROVE  Stay
  BY <1>0, <1>3 DEF Rollback
<1>4. ASSUME NEW q \in Permits,
             ReadSlot(w, q) \/ ReadTreasury(w, q) \/ ReadReserved(w, q) \/ ReadActiveCount(w, q)
      PROVE  Stay
  BY <1>0, <1>3, <1>4 DEF ReadSlot, ReadTreasury, ReadReserved, ReadActiveCount
<1>5. ASSUME NEW q \in Permits, Decide(w, q)
      PROVE  Stay
  BY <1>0, <1>5 DEF Decide
<1>6. CASE Commit(w)
  BY <1>0, <1>3, <1>6 DEF Commit
<1>7. ASSUME NEW q \in Permits, NEW pnl \in Pnls, ReadOutcome(w, q, pnl)
      PROVE  Stay
  BY <1>0, <1>7 DEF ReadOutcome
<1>8. CASE WriteOutcome(w) \/ CommitOutcome(w) \/ CommitRevocation(w)
  BY <1>0, <1>8 DEF WriteOutcome, CommitOutcome, CommitRevocation, StatusAfterRevoking
<1>9. CASE Dashboard(w)
  BY <1>0, <1>9 DEF Dashboard, VerifyWallet, ResumeTreasury, UpdateConstitution, RevokePermits
<1>10. CASE Fail(w)
  BY <1>3, <1>10 DEF Fail
<1> QED BY <1>2, <1>4, <1>5, <1>6, <1>7, <1>8, <1>9, <1>10 DEF Begin, Proceed

\* A request that goes on keeps its rows and its kind, and has decided one of
\* them when it is about to commit.
LEMMA OwnerGoesOn ==
  ASSUME TypeInv, OpenInv, NEW w \in Workers, Proceed(w), pc'[w] # "idle",
         \E p \in Permits : tx[p] = w
  PROVE  /\ tx' = tx /\ request'[w].require_all = request[w].require_all
         /\ pc'[w] = "commit" => \E p \in Permits : tx[p] = w /\ status'[p] # "NONE"
<1> USE WorkersAssumption DEF permitVars, treasuryVars, handlerVars
<1>0. /\ request \in [Workers -> Requests] /\ pc \in [Workers -> PC]
      /\ status \in [Permits -> PermitStatus]
      /\ tx \in [Permits -> Workers \cup {None}] /\ pc[w] \in RequestPC
  BY DEF TypeInv, TypeOK, OpenInv
<1>1. Rollback(w) => pc'[w] = "idle"
  BY <1>0 DEF Rollback
<1>2. ASSUME NEW q \in Permits,
             \/ ReadSlot(w, q) \/ ReadTreasury(w, q) \/ ReadReserved(w, q)
             \/ ReadActiveCount(w, q)
      PROVE  tx' = tx /\ request' = request /\ pc'[w] # "commit"
  BY <1>0, <1>1, <1>2 DEF ReadSlot, ReadTreasury, ReadReserved, ReadActiveCount
<1>3. ASSUME NEW q \in Permits, Decide(w, q)
      PROVE  /\ tx' = tx /\ request'[w].require_all = request[w].require_all
             /\ tx[q] = w /\ status'[q] # "NONE"
  BY <1>0, <1>3 DEF Decide, AtLeg, Requests
<1>4. ~Commit(w)
  BY <1>0, <1>1 DEF Commit
<1>5. ~WriteOutcome(w) /\ ~CommitOutcome(w) /\ ~CommitRevocation(w)
  BY <1>0 DEF WriteOutcome, CommitOutcome, CommitRevocation, RequestPC
<1> QED BY <1>2, <1>3, <1>4, <1>5 DEF Proceed

\* So does the background.
LEMMA BackgroundStays ==
  ASSUME TypeInv, Background
  PROVE  /\ request' = request /\ pc' = pc /\ tx' = tx
         /\ \A p \in Permits : status[p] # "NONE" => status'[p] # "NONE"
BY DEF TypeInv, TypeOK, Background, ExpirePermits, Resync, WriteSlotStatus,
       permitVars, treasuryVars, handlerVars

-----------------------------------------------------------------------------
(* Control: which handler has which permit, and how far it has come.        *)

HolderOK(w) ==
  /\ ~At(w, "none") => PermitOf(w) \in Permits /\ payment[PermitOf(w)] \in Payments
  /\ At(w, "admit") =>
       /\ Owned(w) = {PermitOf(w)} /\ ~request[w].require_all
       /\ pc[w] = "commit" => status[PermitOf(w)] # "NONE"
  /\ intent[w].at \in {"execute", "wait"} => PermitOf(w) \in Granted
  /\ At(w, "wait") => PermitOf(w) \in sent

HoldersInv ==
  /\ \A w \in Workers : HolderOK(w)
  /\ \A v, w \in Workers :
       v # w /\ ~At(v, "none") /\ ~At(w, "none") => PermitOf(v) # PermitOf(w)

\* What has been sent is granted; what has been applied has been sent.
SentInv ==
  /\ sent \subseteq Granted /\ \A p \in sent : payment[p] \in Payments
  /\ \A m \in ledger : \E p \in sent : payment[p] = m

\* An answer is the last word on a committed permit, whose handler is gone.
AnswersInv ==
  \A p \in Permits : told[p] # "nothing" =>
    /\ p \in Settled
    /\ \A w \in Workers : At(w, "none") \/ PermitOf(w) # p

ControlInv == IntentsTypeOK /\ HoldersInv /\ SentInv /\ AnswersInv
IntentsInv == TypeInv /\ OpenInv /\ ControlInv

LEMMA IntentsStart == IntentsInit => IntentsInv /\ AnswersTruthful
<1> SUFFICES ASSUME IntentsInit PROVE IntentsInv /\ AnswersTruthful
  OBVIOUS
<1>1. TypeInv /\ OpenInv
  BY TypeInit, OpenInit DEF IntentsInit
<1>2. ControlInv /\ AnswersTruthful
  BY DEF IntentsInit, ControlInv, IntentsTypeOK, HoldersInv, HolderOK, SentInv,
         AnswersInv, AnswersTruthful, NoIntent, At, PermitOf
<1> QED BY <1>1, <1>2 DEF IntentsInv

\* What an intent does when it is submitted.
Submits(w, p, l, m) ==
  /\ At(w, "none") /\ ConnectAllowed(l.agent)
  /\ Accept(w, FALSE, [q \in {p} |-> l])
  /\ intent' = [intent EXCEPT ![w] = [at |-> "admit", permit |-> p]]
  /\ payment' = [payment EXCEPT ![p] = m]
  /\ UNCHANGED <<ledger, told>> /\ Sends({})

LEMMA IntentSubmits ==
  ASSUME NEW w, SubmitIntent(w)
  PROVE  \E p \in Permits, l \in Legs, m \in Payments : Submits(w, p, l, m)
<1>1. PICK p \in Permits, l \in Legs, m \in Payments :
        /\ At(w, "none") /\ ConnectAllowed(l.agent)
        /\ Accept(w, FALSE, [q \in {p} |-> l])
        /\ intent' = [intent EXCEPT ![w] = [at |-> "admit", permit |-> p]]
        /\ payment' = [payment EXCEPT ![p] = m]
        /\ UNCHANGED <<ledger, told>> /\ Sends({})
  BY Zenon DEF SubmitIntent, ResolvedIntents
<1>2. Submits(w, p, l, m)
  BY <1>1, Zenon DEF Submits
<1> QED BY <1>2

\* Every step of an intent is a step of Permits, or leaves it alone.
LEMMA Simulation ==
  ASSUME IntentsInv, [IntentsNext]_allVars
  PROVE  [Next]_vars
<1> USE IntentsAssumption DEF At, PermitOf, HolderOK
<1>0. status \in [Permits -> PermitStatus] /\ HoldersInv
  BY DEF IntentsInv, ControlInv, TypeInv, TypeOK
<1>1. CASE UNCHANGED allVars
  BY <1>1 DEF allVars
<1>2. ASSUME NEW w \in Workers, SubmitIntent(w)
      PROVE  Next
  <2>1. PICK p \in Permits, l \in Legs, m \in Payments : Submits(w, p, l, m)
    BY <1>2, IntentSubmits
  <2> QED BY <2>1 DEF Submits, ConnectAllowed, Authenticated, RequestPermit, Begin, Next
<1>3. ASSUME NEW w \in Workers, AdmitStep(w) \/ NotAdmitted(w) \/ Admitted(w)
      PROVE  Next
  BY <1>3 DEF AdmitStep, NotAdmitted, Admitted, Proceed, Next
<1>4. ASSUME NEW w \in Workers, SendTransaction(w) \/ Abandon(w)
      PROVE  UNCHANGED vars
  BY <1>4 DEF SendTransaction, Abandon
<1>5. ASSUME NEW w \in Workers, Consume(w)
      PROVE  Next
  <2>1. SettleIntent(PermitOf(w), "CONSUMED")
    BY <1>0, <1>5 DEF Consume, WritePermit, SettleIntent, HoldersInv, Granted, Settled
  <2>2. PermitOf(w) \in Permits
    BY <1>0, <1>5 DEF Consume, HoldersInv
  <2> QED BY <2>1, <2>2 DEF IntentEnds, Next
<1>6. ASSUME NEW w \in Workers, FailIntent(w)
      PROVE  Next \/ UNCHANGED vars
  <2>1. PermitOf(w) \in Granted
    BY <1>0, <1>6 DEF FailIntent, HoldersInv
  <2>2. CASE status[PermitOf(w)] = "ACTIVE"
    <3>1. SettleIntent(PermitOf(w), "FAILED")
      BY <1>6, <2>1, <2>2 DEF FailIntent, WritePermit, StatusIfFailed, SettleIntent,
                              Granted, Settled
    <3> QED BY <2>1, <3>1 DEF IntentEnds, Next, Granted, Settled
  <2>3. CASE status[PermitOf(w)] # "ACTIVE"
    BY <1>0, <1>6, <2>3 DEF FailIntent, WritePermit, StatusIfFailed, vars, permitVars
  <2> QED BY <2>2, <2>3
<1>7. ASSUME NEW w \in Workers, WithoutIntent(w)
      PROVE  Next
  BY <1>7 DEF WithoutIntent, Next
<1>8. ASSUME NEW p \in Permits, ApplyTransaction(p)
      PROVE  UNCHANGED vars
  BY <1>8 DEF ApplyTransaction
<1>9. CASE Background /\ Beside
  BY <1>9 DEF Next
<1> QED BY <1>1, <1>2, <1>3, <1>4, <1>5, <1>6, <1>7, <1>8, <1>9 DEF IntentsNext, WithIntent

-----------------------------------------------------------------------------
(* The invariant is kept.                                                   *)

\* What nobody does to handler v and to the rows it owns.
Undisturbed(v) ==
  /\ request'[v] = request[v] /\ pc'[v] = pc[v]
  /\ \A p \in Permits : tx'[p] = v <=> tx[p] = v
  /\ \A p \in Permits : tx[p] = v /\ status[p] # "NONE" => status'[p] # "NONE"

LEMMA GrantsStay ==
  ASSUME TypeInv, [Next]_vars
  PROVE  Granted \subseteq Granted' /\ Settled \subseteq Settled'
BY GrantedStays DEF Granted, Settled

LEMMA HolderStays ==
  ASSUME IntentsInv, [Next]_vars, NEW v \in Workers, intent'[v] = intent[v],
         sent \subseteq sent', At(v, "admit") => Undisturbed(v),
         ~At(v, "none") => payment'[PermitOf(v)] = payment[PermitOf(v)]
  PROVE  HolderOK(v)'
<1>1. HolderOK(v) /\ TypeInv
  BY DEF IntentsInv, ControlInv, HoldersInv
<1>2. Granted \subseteq Granted'
  BY <1>1, GrantsStay
<1>3. CASE At(v, "admit")
  BY <1>1, <1>3 DEF HolderOK, Undisturbed, At, PermitOf, Owned
<1>4. CASE ~At(v, "admit")
  BY <1>1, <1>2, <1>4 DEF HolderOK, At, PermitOf
<1> QED BY <1>3, <1>4

\* One handler w has moved on: it is enough to look at w.
LEMMA HoldersStay ==
  ASSUME IntentsInv, [Next]_vars, NEW w \in Workers, ~At(w, "none"),
         \A v \in Workers \ {w} : intent'[v] = intent[v],
         \A v \in Workers \ {w} : At(v, "admit") => Undisturbed(v),
         \A p \in Permits : p # PermitOf(w) => payment'[p] = payment[p],
         sent \subseteq sent', HolderOK(w)',
         At(w, "none")' \/ PermitOf(w)' = PermitOf(w)
  PROVE  HoldersInv'
<1>1. HoldersInv
  BY DEF IntentsInv, ControlInv
<1>2. \A v \in Workers : HolderOK(v)'
  <2>1. ASSUME NEW v \in Workers \ {w}, ~At(v, "none")
        PROVE  payment'[PermitOf(v)] = payment[PermitOf(v)]
    BY <1>1, <2>1 DEF HoldersInv, HolderOK
  <2> QED BY <2>1, HolderStays
<1>3. ASSUME NEW u \in Workers, NEW v \in Workers, u # v, ~At(u, "none")', ~At(v, "none")'
      PROVE  PermitOf(u)' # PermitOf(v)'
  <2>1. /\ ~At(u, "none") /\ PermitOf(u)' = PermitOf(u)
        /\ ~At(v, "none") /\ PermitOf(v)' = PermitOf(v)
    BY <1>3 DEF At, PermitOf
  <2> QED BY <1>1, <1>3, <2>1 DEF HoldersInv
<1> QED BY <1>2, <1>3 DEF HoldersInv

\* What has been sent or answered stays so while payments are left alone.
LEMMA RecordsStay ==
  ASSUME IntentsInv, [Next]_vars,
         \A p \in Settled : payment'[p] = payment[p],
         ledger' = ledger, sent \subseteq sent',
         \A p \in sent' \ sent : p \in Granted /\ payment[p] \in Payments
  PROVE  SentInv'
<1>1. Granted \subseteq Granted' /\ SentInv
  BY GrantsStay DEF IntentsInv, ControlInv
<1>2. \A p \in sent : payment'[p] = payment[p]
  BY <1>1 DEF SentInv, Granted
<1>3. ASSUME NEW p \in sent' \ sent
      PROVE  payment'[p] = payment[p]
  BY DEF Granted
<1>4. \A p \in sent' : p \in Granted' /\ payment'[p] \in Payments
  BY <1>1, <1>2, <1>3 DEF SentInv
<1>5. ASSUME NEW m \in ledger'
      PROVE  \E p \in sent' : payment'[p] = m
  BY <1>1, <1>2 DEF SentInv
<1> QED BY <1>4, <1>5 DEF SentInv

LEMMA AnswersStay ==
  ASSUME IntentsInv, [Next]_vars, told' = told,
         \A w \in Workers :
           \/ At(w, "none")'
           \/ ~At(w, "none") /\ PermitOf(w)' = PermitOf(w)
           \/ PermitOf(w)' \notin Settled
  PROVE  AnswersInv'
<1>1. Settled \subseteq Settled' /\ AnswersInv
  BY GrantsStay DEF IntentsInv, ControlInv
<1> QED BY <1>1 DEF AnswersInv

\* The answer to an intent, when its permit is committed.
LEMMA AnswersReturn ==
  ASSUME IntentsInv, [Next]_vars, NEW w \in Workers, ~At(w, "none"),
         NEW answer, Returns(w, answer), PermitOf(w) \in Settled'
  PROVE  AnswersInv'
<1>1. Settled \subseteq Settled' /\ AnswersInv /\ HoldersInv /\ IntentsTypeOK
  BY GrantsStay DEF IntentsInv, ControlInv
<1>2. /\ intent' = [intent EXCEPT ![w] = NoIntent]
      /\ \A p \in Permits : told'[p] # told[p] => p = PermitOf(w)
  BY <1>1 DEF Returns, IntentsTypeOK
<1>3. At(w, "none")' /\ \A v \in Workers \ {w} : intent'[v] = intent[v]
  BY <1>1, <1>2 DEF At, IntentsTypeOK, NoIntent
<1>4. ASSUME NEW p \in Permits, told'[p] # "nothing"
      PROVE  p \in Settled' /\ \A v \in Workers : At(v, "none")' \/ PermitOf(v)' # p
  <2>1. CASE told'[p] = told[p]
    BY <1>1, <1>3, <1>4, <2>1 DEF AnswersInv, At, PermitOf
  <2>2. CASE p = PermitOf(w)
    BY <1>1, <1>3, <2>2 DEF HoldersInv, At, PermitOf
  <2> QED BY <1>2, <2>1, <2>2
<1> QED BY <1>4 DEF AnswersInv

LEMMA ControlStep ==
  ASSUME IntentsInv, [IntentsNext]_allVars
  PROVE  ControlInv'
<1> USE IntentsAssumption, WorkersAssumption
<1>1. [Next]_vars
  BY Simulation
<1>2. TypeInv /\ OpenInv /\ IntentsTypeOK /\ HoldersInv /\ SentInv /\ AnswersInv
  BY DEF IntentsInv, ControlInv
<1>3. \A w \in Workers : HolderOK(w)
  BY <1>2 DEF HoldersInv
<1>4. Granted \subseteq Granted' /\ Settled \subseteq Settled'
  BY <1>1, <1>2, GrantsStay
<1>5. /\ intent \in [Workers -> [at : {"none", "admit", "execute", "wait"},
                                 permit : Permits \cup {None}]]
      /\ payment \in [Permits -> Payments \cup {None}]
      /\ status \in [Permits -> PermitStatus] /\ tx \in [Permits -> Workers \cup {None}]
      /\ request \in [Workers -> Requests] /\ pc \in [Workers -> PC]
  BY <1>2 DEF IntentsTypeOK, TypeInv, TypeOK
<1>6. CASE UNCHANGED allVars
  BY <1>2, <1>6 DEF allVars, intentVars, vars, permitVars, handlerVars, ControlInv, IntentsTypeOK,
     HoldersInv, HolderOK, SentInv, AnswersInv, Granted, Settled, At, PermitOf, Owned
<1>7. ASSUME NEW w \in Workers, SubmitIntent(w)
      PROVE  ControlInv'
  <2>0. PICK p \in Permits, l \in Legs, m \in Payments : Submits(w, p, l, m)
    BY <1>7, IntentSubmits
  <2>1. /\ At(w, "none") /\ Accept(w, FALSE, [q \in {p} |-> l])
        /\ intent' = [intent EXCEPT ![w] = [at |-> "admit", permit |-> p]]
        /\ payment' = [payment EXCEPT ![p] = m]
        /\ UNCHANGED <<ledger, told>> /\ Sends({})
    BY <2>0 DEF Submits
  <2>2. status[p] = "NONE" /\ tx[p] = None /\ pc[w] = "idle"
    BY <2>1 DEF Accept
  <2>3. /\ \A q \in Permits : tx'[q] = IF q = p THEN w ELSE tx[q]
        /\ request'[w].require_all = FALSE /\ pc'[w] = "slot"
        /\ \A v \in Workers \ {w} : request'[v] = request[v] /\ pc'[v] = pc[v]
        /\ status' = status
    BY <1>5, <2>1 DEF Accept
  <2>4. IntentsTypeOK'
    BY <1>2, <2>1 DEF IntentsTypeOK, Sends
  <2>5. \A v \in Workers \ {w} : intent'[v] = intent[v] /\ (At(v, "admit") => Undisturbed(v))
    BY <1>5, <2>1, <2>2, <2>3 DEF Undisturbed
  <2>6. Owned(w) = {}
    BY <1>2, <2>2 DEF Owned, OpenInv, RequestPC
  <2>7. intent'[w] = [at |-> "admit", permit |-> p] /\ sent' = sent
    BY <1>5, <2>1 DEF Sends
  <2>8. \A v \in Workers \ {w} : ~At(v, "none") => PermitOf(v) # p
    <3>1. ASSUME NEW v \in Workers \ {w}, At(v, "admit")
          PROVE  tx[PermitOf(v)] # None
      BY <1>3, <3>1 DEF HolderOK, Owned
    <3>2. ASSUME NEW v \in Workers, intent[v].at \in {"execute", "wait"}
          PROVE  status[PermitOf(v)] # "NONE"
      BY <1>3, <3>2 DEF HolderOK, Granted, Settled
    <3> QED BY <1>5, <2>2, <3>1, <3>2 DEF At
  <2>9. \A v \in Workers : HolderOK(v)'
    <3>1. \A v \in Workers \ {w} : HolderOK(v)'
      <4>1. ASSUME NEW v \in Workers \ {w}, ~At(v, "none")
            PROVE  payment'[PermitOf(v)] = payment[PermitOf(v)]
        BY <1>3, <1>5, <2>1, <2>8, <4>1 DEF HolderOK
      <4> QED BY <1>1, <2>5, <2>7, <4>1, HolderStays
    <3>2. HolderOK(w)'
      BY <1>5, <2>1, <2>3, <2>6, <2>7 DEF HolderOK, At, PermitOf, Owned
    <3> QED BY <3>1, <3>2
  <2>10. HoldersInv'
    BY <1>2, <2>5, <2>7, <2>8, <2>9 DEF HoldersInv, At, PermitOf
  <2>11. SentInv'
    BY <1>1, <1>5, <2>1, <2>2, <2>7, RecordsStay DEF Settled
  <2>12. AnswersInv'
    BY <1>1, <2>1, <2>2, <2>5, <2>7, AnswersStay DEF Settled, At, PermitOf
  <2> QED BY <2>4, <2>10, <2>11, <2>12 DEF ControlInv
<1>8. ASSUME NEW w \in Workers, NEW v \in Workers \ {w}, Begin(w) \/ Proceed(w) \/ Fail(w)
      PROVE  Undisturbed(v)
  BY <1>2, <1>8, OwnersStay DEF Undisturbed
<1>9. ASSUME NEW w \in Workers, AdmitStep(w)
      PROVE  ControlInv'
  <2>1. /\ At(w, "admit") /\ Proceed(w) /\ pc'[w] # "idle" /\ intent' = intent
        /\ payment' = payment /\ ledger' = ledger /\ told' = told /\ sent' = sent
        /\ late' \in {late, {}}
    BY <1>9 DEF AdmitStep, Sends
  <2>2. /\ Owned(w) = {PermitOf(w)} /\ PermitOf(w) \in Permits /\ ~request[w].require_all
        /\ payment[PermitOf(w)] \in Payments
    BY <1>3, <2>1 DEF HolderOK, At
  <2>3. /\ tx' = tx /\ request'[w].require_all = request[w].require_all
        /\ pc'[w] = "commit" => \E p \in Permits : tx[p] = w /\ status'[p] # "NONE"
    <3>1. \E p \in Permits : tx[p] = w
      BY <2>2 DEF Owned
    <3> QED BY <1>2, <2>1, <3>1, OwnerGoesOn
  <2>4. HolderOK(w)'
    BY <2>1, <2>2, <2>3 DEF HolderOK, At, PermitOf, Owned
  <2>5. HoldersInv'
    BY <1>1, <1>8, <2>1, <2>4, HoldersStay DEF At, PermitOf
  <2>6. SentInv' /\ AnswersInv'
    BY <1>1, <2>1, RecordsStay, AnswersStay DEF At, PermitOf
  <2> QED BY <1>2, <2>1, <2>5, <2>6 DEF ControlInv, IntentsTypeOK
<1>10. ASSUME NEW w \in Workers, NotAdmitted(w)
       PROVE  ControlInv'
  <2>1. /\ At(w, "admit") /\ (Proceed(w) \/ Fail(w))
        /\ intent' = [intent EXCEPT ![w] = NoIntent]
        /\ payment' = [payment EXCEPT ![PermitOf(w)] = None]
        /\ ledger' = ledger /\ told' = told /\ sent' = sent /\ late' \in {late, {}}
    BY <1>10 DEF NotAdmitted, Sends
  <2>2. tx[PermitOf(w)] = w
    BY <1>3, <2>1 DEF HolderOK, Owned
  <2>3. intent'[w] = NoIntent /\ \A v \in Workers \ {w} : intent'[v] = intent[v]
    BY <1>5, <2>1
  <2>4. HolderOK(w)' /\ At(w, "none")'
    BY <2>3 DEF HolderOK, At, NoIntent
  <2>5. HoldersInv'
    BY <1>1, <1>5, <1>8, <2>1, <2>3, <2>4, HoldersStay DEF At
  <2>6. \A p \in Settled : payment'[p] = payment[p]
    BY <1>5, <2>1, <2>2 DEF Settled
  <2>7. SentInv' /\ AnswersInv'
    BY <1>1, <2>1, <2>3, <2>4, <2>6, RecordsStay, AnswersStay DEF At, PermitOf
  <2>8. IntentsTypeOK'
    BY <1>2, <2>1 DEF IntentsTypeOK, NoIntent
  <2> QED BY <2>5, <2>7, <2>8 DEF ControlInv
<1>11. ASSUME NEW w \in Workers, Admitted(w)
       PROVE  ControlInv'
  <2> DEFINE p == PermitOf(w)
  <2>1. /\ At(w, "admit") /\ Commit(w) /\ payment' = payment /\ ledger' = ledger
        /\ sent' = sent /\ late' \in {late, {}}
    BY <1>11 DEF Admitted, Sends
  <2>2. /\ Owned(w) = {p} /\ p \in Permits /\ ~request[w].require_all
        /\ pc[w] = "commit" /\ status[p] # "NONE" /\ payment[p] \in Payments
    BY <1>3, <2>1 DEF HolderOK, At, Commit
  <2>3. status' = status /\ tx'[p] = None
    BY <1>5, <2>1, <2>2 DEF Commit, GroupFails, Owned
  <2>4. p \in Settled'
    BY <2>2, <2>3 DEF Settled
  <2>5. \A v \in Workers \ {w} : Undisturbed(v)
    BY <1>8, <2>1 DEF Proceed
  <2>6. CASE PolicyApproved(w)
    <3>1. intent' = [intent EXCEPT ![w].at = "execute"] /\ told' = told
      BY <1>11, <2>6 DEF Admitted
    <3>2. /\ intent'[w] = [at |-> "execute", permit |-> p]
          /\ \A v \in Workers \ {w} : intent'[v] = intent[v]
      BY <1>5, <3>1 DEF PermitOf
    <3>3. HolderOK(w)'
      BY <2>1, <2>2, <2>3, <2>4, <2>6, <3>2
         DEF HolderOK, At, PermitOf, Granted, Settled, PolicyApproved
    <3>4. HoldersInv'
      BY <1>1, <2>1, <2>5, <3>2, <3>3, HoldersStay DEF At, PermitOf
    <3>5. SentInv' /\ AnswersInv'
      BY <1>1, <2>1, <3>1, <3>2, RecordsStay, AnswersStay DEF At, PermitOf
    <3>6. IntentsTypeOK'
      BY <1>2, <2>1, <2>2, <3>1 DEF IntentsTypeOK
    <3> QED BY <3>4, <3>5, <3>6 DEF ControlInv
  <2>7. CASE ~PolicyApproved(w)
    <3>1. Returns(w, "rejected")
      BY <1>11, <2>7 DEF Admitted, Rejection
    <3>2. intent'[w] = NoIntent /\ \A v \in Workers \ {w} : intent'[v] = intent[v]
      BY <1>5, <3>1 DEF Returns
    <3>3. HoldersInv'
      BY <1>1, <2>1, <2>5, <3>2, HoldersStay DEF At, NoIntent, HolderOK
    <3>4. SentInv' /\ AnswersInv'
      BY <1>1, <2>1, <2>4, <3>1, RecordsStay, AnswersReturn DEF At
    <3>5. IntentsTypeOK'
      BY <1>2, <2>1, <2>2, <3>1 DEF IntentsTypeOK, Returns, NoIntent
    <3> QED BY <3>3, <3>4, <3>5 DEF ControlInv
  <2> QED BY <2>6, <2>7
<1>12. ASSUME NEW w \in Workers, SendTransaction(w)
       PROVE  ControlInv'
  <2>1. /\ At(w, "execute") /\ intent' = [intent EXCEPT ![w].at = "wait"]
        /\ UNCHANGED <<vars, payment, ledger, told>>
        /\ sent' = sent \cup {PermitOf(w)} /\ late' \subseteq late \cup {PermitOf(w)}
    BY <1>12 DEF SendTransaction, Sends
  <2>2. PermitOf(w) \in Granted /\ payment[PermitOf(w)] \in Payments
    BY <1>3, <2>1 DEF HolderOK, At
  <2>3. /\ intent'[w] = [at |-> "wait", permit |-> PermitOf(w)]
        /\ \A v \in Workers \ {w} : intent'[v] = intent[v]
    BY <1>5, <2>1 DEF PermitOf
  <2>4. HolderOK(w)'
    BY <1>4, <2>1, <2>2, <2>3 DEF HolderOK, At, PermitOf, Granted, Settled
  <2>5. \A v \in Workers : Undisturbed(v)
    BY <2>1 DEF Undisturbed, vars, permitVars, handlerVars
  <2>6. HoldersInv'
    BY <1>1, <2>1, <2>3, <2>4, <2>5, HoldersStay DEF At, PermitOf
  <2>7. SentInv' /\ AnswersInv'
    BY <1>1, <2>1, <2>2, <2>3, RecordsStay, AnswersStay DEF At, PermitOf
  <2>8. IntentsTypeOK'
    BY <1>2, <2>1, <2>2 DEF IntentsTypeOK, Granted, Settled
  <2> QED BY <2>6, <2>7, <2>8 DEF ControlInv
<1>13. ASSUME NEW w \in Workers, NEW answer \in {"executed", "failed"},
              intent[w].at \in {"execute", "wait"}, Returns(w, answer),
              UNCHANGED <<payment, ledger>>, Sends({}),
              \A v \in Workers \ {w} : Undisturbed(v)
       PROVE  ControlInv'
  <2>1. sent' = sent /\ late' \in {late, {}} /\ ~At(w, "none") /\ PermitOf(w) \in Settled
    BY <1>3, <1>13 DEF Sends, HolderOK, At, Granted
  <2>2. intent'[w] = NoIntent /\ \A v \in Workers \ {w} : intent'[v] = intent[v]
    BY <1>5, <1>13 DEF Returns
  <2>3. HoldersInv'
    BY <1>1, <1>13, <2>1, <2>2, HoldersStay DEF At, NoIntent, HolderOK
  <2>4. SentInv'
    BY <1>1, <1>13, <2>1, RecordsStay
  <2>5. AnswersInv'
    BY <1>1, <1>4, <1>13, <2>1, AnswersReturn
  <2>6. IntentsTypeOK'
    BY <1>2, <1>13, <2>1 DEF IntentsTypeOK, Returns, NoIntent, Settled
  <2> QED BY <2>3, <2>4, <2>5, <2>6 DEF ControlInv
<1>14. ASSUME NEW w \in Workers, Consume(w) \/ FailIntent(w)
       PROVE  ControlInv'
  <2>1. intent[w].at \in {"execute", "wait"} /\ status[PermitOf(w)] # "NONE"
    BY <1>3, <1>14 DEF Consume, FailIntent, HolderOK, At, Granted, Settled
  <2>2. ASSUME NEW v \in Workers \ {w}
        PROVE  Undisturbed(v)
    BY <1>5, <1>14, <2>1
       DEF Consume, FailIntent, WritePermit, StatusIfFailed, Undisturbed, handlerVars
  <2> QED BY <1>13, <1>14, <2>1, <2>2 DEF Consume, FailIntent
<1>15. ASSUME NEW w \in Workers, Abandon(w)
       PROVE  ControlInv'
  <2>1. /\ intent' = [intent EXCEPT ![w] = NoIntent] /\ UNCHANGED <<vars, payment, ledger, told>>
        /\ ~At(w, "none") /\ sent' = sent /\ late' \in {late, {}}
    BY <1>15 DEF Abandon, Sends, At
  <2>2. intent'[w] = NoIntent /\ \A v \in Workers \ {w} : intent'[v] = intent[v]
    BY <1>5, <2>1
  <2>3. \A v \in Workers : Undisturbed(v)
    BY <2>1 DEF Undisturbed, vars, permitVars, handlerVars
  <2>4. HoldersInv'
    BY <1>1, <2>1, <2>2, <2>3, HoldersStay DEF At, NoIntent, HolderOK
  <2>5. SentInv' /\ AnswersInv'
    BY <1>1, <2>1, <2>2, RecordsStay, AnswersStay DEF At, NoIntent, PermitOf
  <2> QED BY <1>2, <2>1, <2>4, <2>5 DEF ControlInv, IntentsTypeOK, NoIntent
<1>16. ASSUME Beside,
              \A v \in Workers : At(v, "admit") => Undisturbed(v)
       PROVE  ControlInv'
  <2>1. UNCHANGED <<intent, payment, ledger, told, sent>> /\ late' \in {late, {}}
    BY <1>16 DEF Beside, Sends
  <2>2. \A v \in Workers : HolderOK(v)'
    BY <1>1, <1>16, <2>1, HolderStays
  <2>3. HoldersInv'
    BY <1>2, <2>1, <2>2 DEF HoldersInv, At, PermitOf
  <2>4. SentInv' /\ AnswersInv'
    BY <1>1, <2>1, RecordsStay, AnswersStay DEF At, PermitOf
  <2> QED BY <1>2, <2>1, <2>3, <2>4 DEF ControlInv, IntentsTypeOK
<1>17. ASSUME NEW w \in Workers, WithoutIntent(w)
       PROVE  ControlInv'
  BY <1>8, <1>16, <1>17 DEF WithoutIntent, At
<1>18. ASSUME NEW p \in Permits, ApplyTransaction(p)
       PROVE  ControlInv'
  <2>1. /\ p \in sent /\ ledger' = ledger \cup {payment[p]} /\ sent' = sent
        /\ UNCHANGED <<vars, intent, payment, told>> /\ late' \in {late, {}}
    BY <1>18 DEF ApplyTransaction, Sends
  <2>2. \A v \in Workers : Undisturbed(v)
    BY <2>1 DEF Undisturbed, vars, permitVars, handlerVars
  <2>3. HoldersInv'
    <3>1. \A v \in Workers : HolderOK(v)'
      BY <1>1, <2>1, <2>2, HolderStays
    <3> QED BY <1>2, <2>1, <3>1 DEF HoldersInv, At, PermitOf
  <2>4. SentInv'
    <3>1. ASSUME NEW m \in ledger'
          PROVE  \E q \in sent : payment[q] = m
      BY <1>2, <2>1 DEF SentInv
    <3>2. /\ sent' = sent /\ payment' = payment /\ sent \subseteq Granted'
          /\ \A q \in sent : payment[q] \in Payments
      BY <1>2, <1>4, <2>1 DEF SentInv
    <3>3. ASSUME NEW m \in ledger' PROVE \E q \in sent' : payment'[q] = m
      BY <2>1, <3>1, <3>2
    <3> QED BY <3>2, <3>3 DEF SentInv
  <2>5. AnswersInv'
    BY <1>1, <2>1, AnswersStay DEF At, PermitOf
  <2>6. IntentsTypeOK'
    BY <1>2, <2>1 DEF IntentsTypeOK, SentInv
  <2> QED BY <2>3, <2>4, <2>5, <2>6 DEF ControlInv
<1>19. CASE Background /\ Beside
  BY <1>2, <1>16, <1>19, BackgroundStays DEF Undisturbed
<1> QED
  BY <1>6, <1>7, <1>9, <1>10, <1>11, <1>12, <1>14, <1>15, <1>17, <1>18, <1>19
     DEF IntentsNext, WithIntent

LEMMA IntentsStep == IntentsInv /\ [IntentsNext]_allVars => IntentsInv'
<1> SUFFICES ASSUME IntentsInv, [IntentsNext]_allVars PROVE IntentsInv'
  OBVIOUS
<1>1. [Next]_vars
  BY Simulation
<1>2. TypeInv' /\ OpenInv'
  BY <1>1, TypeStep, OpenStep DEF IntentsInv
<1> QED BY <1>2, ControlStep DEF IntentsInv

\* The permits of intents live and die as Permits says: every step of an intent
\* is one of Permits, or leaves the permits alone (mcp.rs:315-510).
THEOREM PermitsImplemented == IntentsSpec => ImplementsPermits
<1>1. IntentsInit => IntentsInv /\ Init
  BY IntentsStart DEF IntentsInit
<1>2. IntentsInv /\ [IntentsNext]_allVars => [Next]_vars
  BY Simulation
<1> QED BY <1>1, <1>2, IntentsStep, PTL DEF IntentsSpec, ImplementsPermits, Spec

\* The variables of the intents keep their types.
THEOREM IntentsTypeCorrect == IntentsSpec => []IntentsTypeOK
<1>1. IntentsInv => IntentsTypeOK
  BY DEF IntentsInv, ControlInv
<1>2. IntentsInit => IntentsInv
  BY IntentsStart
<1> QED BY <1>1, <1>2, IntentsStep, PTL DEF IntentsSpec

\* No transaction is sent under a permit that was denied or rolled back, and
\* every transaction on the ledger was sent under one (mcp.rs:397-440).
THEOREM AdmissionCorrect == IntentsSpec => []PaidWasAdmitted
<1>1. IntentsInv => PaidWasAdmitted
  BY DEF IntentsInv, ControlInv, SentInv, Granted, Settled, PaidWasAdmitted
<1>2. IntentsInit => IntentsInv
  BY IntentsStart
<1> QED BY <1>1, <1>2, IntentsStep, PTL DEF IntentsSpec

\* Of the steps of Permits that are not the end of an intent, only the commit of
\* an outcome report consumes a permit, and only its own.
LEMMA ReportConsumes ==
  ASSUME TypeInv, NEW p \in Permits, status[p] # "CONSUMED", status'[p] = "CONSUMED"
  PROVE  /\ \A w \in Workers : Begin(w) \/ Proceed(w) \/ Fail(w) =>
              pc[w] = "written" /\ outcome[w].permit = p
         /\ ~Background
<1> USE DEF permitVars, treasuryVars, handlerVars
<1>0. /\ status \in [Permits -> PermitStatus] /\ tx \in [Permits -> Workers \cup {None}]
  BY DEF TypeInv, TypeOK
<1>1. ASSUME NEW w \in Workers, RequestPermit(w) \/ RequestPermitGroup(w)
      PROVE  status' = status
  <2>1. PICK P \in SUBSET Permits, require_all \in BOOLEAN :
          \E r \in [P -> Legs] : Accept(w, require_all, r)
    BY <1>1, RequestAccepts
  <2> QED BY <2>1 DEF Accept
<1>2. ASSUME NEW w \in Workers, Proceed(w)
      PROVE  pc[w] = "written" /\ outcome[w].permit = p
  <2>1. ~Rollback(w)
    BY <1>0 DEF Rollback
  <2>2. CASE CommitOutcome(w)
    BY <1>0, <2>2 DEF CommitOutcome, StatusAfterRevoking
  <2>3. ~CommitRevocation(w)
    BY <1>0 DEF CommitRevocation, StatusAfterRevoking
  <2>4. ~WriteOutcome(w) /\ ~Commit(w)
    BY <2>1 DEF WriteOutcome, Commit
  <2>5. \A q \in Permits : ~Decide(w, q)
    BY <1>0 DEF Decide
  <2>6. \A q \in Permits : /\ ~ReadSlot(w, q) /\ ~ReadTreasury(w, q)
                           /\ ~ReadReserved(w, q) /\ ~ReadActiveCount(w, q)
    BY <2>1 DEF ReadSlot, ReadTreasury, ReadReserved, ReadActiveCount
  <2> QED BY <1>2, <2>2, <2>3, <2>4, <2>5, <2>6 DEF Proceed
<1>3. ASSUME NEW w \in Workers, Begin(w)
      PROVE  status' = status
  BY <1>1, <1>3 DEF Begin, ReadOutcome, Dashboard, VerifyWallet, ResumeTreasury,
                    UpdateConstitution, RevokePermits
<1>4. \A w \in Workers : ~Fail(w)
  BY <1>0 DEF Fail, Rollback
<1>5. ~Background
  BY <1>0 DEF Background, ExpirePermits, Resync, WriteSlotStatus
<1> QED BY <1>2, <1>3, <1>4, <1>5

\* A permit is consumed only for a transaction on the ledger, or by an outcome
\* report of its agent (mcp.rs:1199-1213, permit.rs:420-428).
THEOREM ConsumptionCorrect == IntentsSpec => ConsumedWasPaid
<1>1. ASSUME IntentsInv, [IntentsNext]_allVars, NEW p \in Permits,
             status[p] # "CONSUMED", status'[p] = "CONSUMED"
      PROVE  \/ payment[p] \in ledger
             \/ \E w \in Workers : pc[w] = "written" /\ outcome[w].permit = p
  <2> DEFINE Goal == \/ payment[p] \in ledger
                     \/ \E w \in Workers : pc[w] = "written" /\ outcome[w].permit = p
  <2>0. TypeInv /\ status \in [Permits -> PermitStatus]
    BY <1>1 DEF IntentsInv, TypeInv, TypeOK
  <2>1. /\ ~Background
        /\ \A w \in Workers : Begin(w) \/ Proceed(w) \/ Fail(w) => Goal
    BY <1>1, <2>0, ReportConsumes
  <2>2. ASSUME NEW w \in Workers, SubmitIntent(w)
        PROVE  FALSE
    BY <1>1, <2>2 DEF SubmitIntent, Accept
  <2>3. ASSUME NEW w \in Workers, WithIntent(w)
        PROVE  Goal
    <3>1. CASE Consume(w)
      BY <1>1, <2>0, <3>1 DEF Consume, Succeeded, WritePermit
    <3>2. ~FailIntent(w)
      BY <1>1, <2>0 DEF FailIntent, WritePermit, StatusIfFailed
    <3>3. ~SendTransaction(w) /\ ~Abandon(w)
      BY <1>1 DEF SendTransaction, Abandon, vars, permitVars
    <3>4. CASE AdmitStep(w) \/ NotAdmitted(w) \/ Admitted(w)
      BY <2>1, <3>4 DEF AdmitStep, NotAdmitted, Admitted, Proceed
    <3> QED BY <2>3, <3>1, <3>2, <3>3, <3>4 DEF WithIntent
  <2>4. \A q \in Permits : ~ApplyTransaction(q)
    BY <1>1 DEF ApplyTransaction, vars, permitVars
  <2>5. ~UNCHANGED allVars
    BY <1>1 DEF allVars, vars, permitVars
  <2> QED BY <1>1, <2>1, <2>2, <2>3, <2>4, <2>5 DEF IntentsNext, WithoutIntent
<1>2. IntentsInv /\ [IntentsNext]_allVars =>
        [\A p \in Permits :
           status[p] # "CONSUMED" /\ status'[p] = "CONSUMED" =>
             \/ payment[p] \in ledger
             \/ \E w \in Workers : pc[w] = "written" /\ outcome[w].permit = p]_allVars
  BY <1>1
<1>3. IntentsInit => IntentsInv
  BY IntentsStart
<1> QED BY <1>2, <1>3, IntentsStep, PTL DEF IntentsSpec, ConsumedWasPaid

-----------------------------------------------------------------------------
(* Answers.                                                                 *)

\* What a step can do to the records of the permits that are committed, and to
\* the answers.
LEMMA RecordsStep ==
  ASSUME IntentsInv, [IntentsNext]_allVars, NEW p \in Settled
  PROVE  /\ payment'[p] = payment[p] /\ ledger \subseteq ledger'
         /\ p \in sent' => \/ p \in sent
                           \/ \E w \in Workers : ~At(w, "none") /\ PermitOf(w) = p
<1> USE IntentsAssumption DEF Settled
<1>1. /\ payment \in [Permits -> Payments \cup {None}]
      /\ \A w \in Workers : HolderOK(w)
  BY DEF IntentsInv, ControlInv, HoldersInv, IntentsTypeOK
<1>2. ASSUME NEW w \in Workers, SubmitIntent(w)
      PROVE  /\ payment'[p] = payment[p] /\ ledger \subseteq ledger' /\ sent' = sent
  BY <1>1, <1>2 DEF SubmitIntent, Accept, Sends
<1>3. ASSUME NEW w \in Workers, NotAdmitted(w)
      PROVE  /\ payment'[p] = payment[p] /\ ledger \subseteq ledger' /\ sent' = sent
  <2>1. tx[PermitOf(w)] = w
    BY <1>1, <1>3 DEF NotAdmitted, HolderOK, Owned
  <2> QED BY <1>1, <1>3, <2>1, WorkersAssumption DEF NotAdmitted, Sends
<1>4. ASSUME NEW w \in Workers, SendTransaction(w)
      PROVE  /\ payment' = payment /\ ledger' = ledger /\ sent' = sent \cup {PermitOf(w)}
             /\ ~At(w, "none")
  BY <1>4 DEF SendTransaction, Sends, At
<1>5. ASSUME NEW w \in Workers, AdmitStep(w) \/ Admitted(w) \/ Consume(w) \/ FailIntent(w)
                                \/ Abandon(w) \/ WithoutIntent(w)
      PROVE  /\ payment' = payment /\ ledger' = ledger /\ sent' = sent
  BY <1>5 DEF AdmitStep, Admitted, Consume, FailIntent, Abandon, WithoutIntent, Beside, Sends
<1>6. ASSUME NEW q \in Permits, ApplyTransaction(q)
      PROVE  /\ payment' = payment /\ ledger \subseteq ledger' /\ sent' = sent
  BY <1>6 DEF ApplyTransaction, Sends
<1>7. CASE Beside \/ UNCHANGED allVars
  BY <1>7 DEF Beside, Sends, allVars, intentVars
<1> QED BY <1>2, <1>3, <1>4, <1>5, <1>6, <1>7 DEF IntentsNext, WithIntent

\* Only a handler that returns tells its agent anything, and what it tells is
\* so when it does.
LEMMA AnswerStep ==
  ASSUME IntentsInv, [IntentsNext]_allVars, NEW p \in Permits, told'[p] # told[p]
  PROVE  \/ told'[p] = "executed" /\ payment'[p] \in ledger' /\ status'[p] = "CONSUMED"
         \/ told'[p] = "failed" /\ status'[p] # "ACTIVE"
         \/ told'[p] = "rejected" /\ p \notin sent' /\ status'[p] # "ACTIVE"
<1>1. /\ status \in [Permits -> PermitStatus] /\ tx \in [Permits -> Workers \cup {None}]
      /\ IntentsTypeOK /\ SentInv /\ \A w \in Workers : HolderOK(w)
  BY DEF IntentsInv, ControlInv, HoldersInv, TypeInv, TypeOK
<1>2. PICK w \in Workers :
          (Admitted(w) /\ ~PolicyApproved(w)) \/ Consume(w) \/ FailIntent(w)
  BY DEF IntentsNext, WithIntent, SubmitIntent, AdmitStep, NotAdmitted, Admitted,
         SendTransaction, Abandon, WithoutIntent, ApplyTransaction, Beside, allVars, intentVars
<1>3. \A answer : Returns(w, answer) => p = PermitOf(w) /\ told'[p] = answer
  BY <1>1 DEF Returns, IntentsTypeOK
<1>4. CASE Admitted(w) /\ ~PolicyApproved(w)
  <2>1. /\ Commit(w) /\ ~request[w].require_all /\ tx[PermitOf(w)] = w
        /\ Returns(w, "rejected") /\ sent' = sent
    BY <1>1, <1>4 DEF Admitted, Rejection, HolderOK, Owned, Sends
  <2>2. status' = status
    BY <2>1 DEF Commit, GroupFails
  <2>3. p \notin sent
    BY <1>1, <1>3, <2>1, WorkersAssumption DEF SentInv, Granted, Settled
  <2> QED BY <1>3, <1>4, <2>1, <2>2, <2>3 DEF PolicyApproved
<1>5. CASE Consume(w)
  BY <1>1, <1>3, <1>5 DEF Consume, Succeeded, WritePermit
<1>6. CASE FailIntent(w)
  BY <1>1, <1>3, <1>6 DEF FailIntent, WritePermit, StatusIfFailed
<1> QED BY <1>2, <1>4, <1>5, <1>6

LEMMA TruthStep ==
  IntentsInv /\ AnswersTruthful /\ [IntentsNext]_allVars => AnswersTruthful'
<1> SUFFICES ASSUME IntentsInv, AnswersTruthful, [IntentsNext]_allVars, NEW p \in Permits
             PROVE  /\ told'[p] = "executed" => payment'[p] \in ledger' /\ status'[p] = "CONSUMED"
                    /\ told'[p] = "rejected" => p \notin sent'
                    /\ told'[p] \in {"rejected", "failed"} => status'[p] # "ACTIVE"
  BY DEF AnswersTruthful
<1>1. CASE told'[p] # told[p]
  BY <1>1, AnswerStep
<1>2. CASE told'[p] = told[p] /\ told[p] # "nothing"
  <2>1. p \in Settled /\ \A w \in Workers : At(w, "none") \/ PermitOf(w) # p
    BY <1>2 DEF IntentsInv, ControlInv, AnswersInv
  <2>2. /\ payment'[p] = payment[p] /\ ledger \subseteq ledger'
        /\ p \in sent' => p \in sent
    BY <2>1, RecordsStep
  <2>3. /\ status[p] # "ACTIVE" => status'[p] # "ACTIVE"
        /\ status[p] = "CONSUMED" => status'[p] = "CONSUMED"
    BY <2>1, Simulation, GrantedStays DEF IntentsInv
  <2> QED BY <1>2, <2>2, <2>3 DEF AnswersTruthful
<1> QED BY <1>1, <1>2

\* What an agent is told about its intent is so and stays so: executed is paid
\* and charged, rejected was never sent, and neither it nor a failed one holds a
\* reservation (mcp.rs:397-508).
THEOREM AnswersCorrect == IntentsSpec => []AnswersTruthful
<1>1. IntentsInit => IntentsInv /\ AnswersTruthful
  BY IntentsStart
<1> QED BY <1>1, IntentsStep, TruthStep, PTL DEF IntentsSpec

\* Intents included, a treasury never has more active permits than its limit
\* and the legs in flight (rules.rs:76-84, mcp.rs:380-395).
COROLLARY TreasuryCapWithIntents == IntentsSpec => []TreasuryCapHolds
BY PermitsImplemented, TreasuryCapCorrect, PTL DEF ImplementsPermits

\* What Permits promises of caps, halts and revocations, intents included: an
\* intent is one more request in flight and nothing else (mcp.rs:380-395).
COROLLARY LimitsWithIntents ==
  IntentsSpec => [](/\ TypeOK /\ AgentCapHolds /\ AllocationHolds
                    /\ HaltContained /\ RevocationContained)
BY PermitsImplemented, TypeCorrect, AgentCapCorrect, AllocationCorrect, HaltCorrect,
   RevocationContainedCorrect, PTL DEF ImplementsPermits

\* No settlement of an intent brings an ended permit back, nor does anything
\* else while there are intents; a group beside them is still all or nothing
\* (mcp.rs:1199-1225, permit.rs:195-221).
COROLLARY EndingsWithIntents == IntentsSpec => NoReactivation /\ AllOrNothing
BY PermitsImplemented, NoReactivationCorrect, AllOrNothingCorrect, PTL DEF ImplementsPermits

-----------------------------------------------------------------------------
(* What a halt still lets out.                                              *)

\* The handler sends its transaction next, or has yet to be approved and does
\* not know of the halt.
CanSend(w) ==
  \/ At(w, "execute")
  \/ At(w, "admit") /\ (status[PermitOf(w)] = "ACTIVE" \/ Unhalted(w, PermitOf(w)))

Underway == {PermitOf(w) : w \in {v \in Workers : CanSend(v)}}

PaymentsBounded ==
  treasury.health = "HALTED" => Cardinality(late \cup Underway) <= Cardinality(Workers) - 1

HaltInv == Base /\ IntentsInv

\* While the treasury is halted no handler joins those that can send.
LEMMA CanSendStays ==
  ASSUME HaltInv, [IntentsNext]_allVars, treasury.health = "HALTED",
         NEW w \in Workers, CanSend(w)'
  PROVE  CanSend(w) /\ PermitOf(w)' = PermitOf(w)
<1> USE IntentsAssumption DEF NoIntent
<1>0. /\ Base /\ TypeInv /\ [Next]_vars /\ IntentsInv /\ HolderOK(w)
      /\ intent \in [Workers -> [at : {"none", "admit", "execute", "wait"},
                                 permit : Permits \cup {None}]]
      /\ pc \in [Workers -> PC]
  BY Simulation DEF HaltInv, IntentsInv, ControlInv, HoldersInv, IntentsTypeOK, TypeInv, TypeOK
<1>1. CASE intent'[w] = intent[w]
  <2>1. CASE At(w, "execute")
    BY <1>1, <2>1 DEF CanSend, PermitOf
  <2>2. CASE At(w, "admit")
    <3>0. PICK p \in Permits : p = PermitOf(w) /\ tx[p] = w
      BY <1>0, <2>2 DEF HolderOK, Owned, At, PermitOf
    <3>3. status'[p] = "ACTIVE" \/ Unhalted(w, p)'
      BY <1>1, <2>2, <3>0 DEF CanSend, At, PermitOf
    <3>1. CASE status'[p] = "ACTIVE"
      <4>1. ASSUME NEW v \in Workers, Decide(v, p),
                   Decision(v, p, Cardinality(Active \cap VisibleTo(v))).approved
            PROVE  Unhalted(w, p)
        <5>1. v = w
          BY <3>0, <4>1 DEF Decide, AtLeg
        <5> QED BY <1>0, <3>0, <4>1, <5>1, Approved DEF Unhalted
      <4>2. p \in Active'
        BY <3>0, <3>1 DEF Active
      <4>3. p \in Active => status[p] = "ACTIVE"
        BY DEF Active
      <4>4. status[p] = "ACTIVE" \/ Unhalted(w, p)
        BY <1>0, <4>1, <4>2, <4>3, Activation
      <4> QED BY <1>1, <2>2, <3>0, <4>4 DEF CanSend, PermitOf
    <3>2. CASE Unhalted(w, p)'
      <4>1. Unhalted(w, p)
        BY <1>0, <3>2, UnhaltedStays
      <4> QED BY <1>1, <2>2, <3>0, <4>1 DEF CanSend, PermitOf
    <3> QED BY <3>1, <3>2, <3>3
  <2> QED BY <1>1, <2>1, <2>2 DEF CanSend, At
<1>2. CASE Admitted(w) /\ PolicyApproved(w)
  BY <1>0, <1>2 DEF Admitted, PolicyApproved, CanSend, At, PermitOf, Returns
<1>3. CASE SubmitIntent(w)
  <2>1. PICK p \in Permits, l \in ResolvedIntents :
          /\ Accept(w, FALSE, [q \in {p} |-> l])
          /\ intent' = [intent EXCEPT ![w] = [at |-> "admit", permit |-> p]]
    BY <1>3 DEF SubmitIntent
  <2>2. status' = status /\ status[p] = "NONE" /\ pc'[w] = "slot"
    BY <1>0, <2>1 DEF Accept
  <2>3. At(w, "admit")' /\ PermitOf(w)' = p
    BY <1>0, <2>1 DEF At, PermitOf
  <2> QED BY <2>2, <2>3 DEF CanSend, At, Unhalted
<1>4. CASE SendTransaction(w) \/ NotAdmitted(w) \/ (Admitted(w) /\ ~PolicyApproved(w))
           \/ Consume(w) \/ FailIntent(w) \/ Abandon(w)
  <2>1. intent'[w].at \in {"wait", "none"}
    BY <1>0, <1>4 DEF SendTransaction, NotAdmitted, Admitted, Consume, FailIntent, Abandon, Returns
  <2> QED BY <2>1 DEF CanSend, At
<1>5. ASSUME NEW v \in Workers \ {w}, SubmitIntent(v) \/ WithIntent(v)
      PROVE  intent'[w] = intent[w]
  BY <1>0, <1>5 DEF SubmitIntent, WithIntent, AdmitStep, NotAdmitted, Admitted,
         SendTransaction, Consume, FailIntent, Abandon, Returns
<1>6. CASE AdmitStep(w)
  BY <1>1, <1>6 DEF AdmitStep
<1>7. ASSUME NEW v \in Workers, WithoutIntent(v)
      PROVE  intent'[w] = intent[w]
  BY <1>7 DEF WithoutIntent, Beside
<1>8. ASSUME NEW q \in Permits, ApplyTransaction(q)
      PROVE  intent'[w] = intent[w]
  BY <1>8 DEF ApplyTransaction
<1>9. CASE UNCHANGED allVars \/ Beside
  BY <1>1, <1>9 DEF allVars, intentVars, Beside
<1> QED
  BY <1>1, <1>2, <1>3, <1>4, <1>5, <1>6, <1>7, <1>8, <1>9 DEF IntentsNext, WithIntent

\* What is sent during a halt was under way before.
LEMMA LateStep ==
  ASSUME HaltInv, [IntentsNext]_allVars, treasury.health = "HALTED"
  PROVE  late' \subseteq late \cup Underway
<1>1. ASSUME NEW w \in Workers, SendTransaction(w)
      PROVE  late' \subseteq late \cup Underway
  <2>1. PermitOf(w) \in Underway
    BY <1>1 DEF SendTransaction, Underway, CanSend
  <2> QED BY <1>1, <2>1 DEF SendTransaction, Sends
<1>2. CASE Sends({}) \/ UNCHANGED late
  BY <1>2 DEF Sends
<1> QED
  BY <1>1, <1>2 DEF IntentsNext, SubmitIntent, WithIntent, AdmitStep, NotAdmitted, Admitted,
     Consume, FailIntent, Abandon, WithoutIntent, ApplyTransaction, Beside, allVars, intentVars

\* A handler that halts the treasury has no intent.
LEMMA HaltingHandler ==
  ASSUME HaltInv, [IntentsNext]_allVars, treasury.health # "HALTED",
         treasury'.health = "HALTED"
  PROVE  \E w \in Workers : ~CanSend(w)'
<1> USE DEF permitVars, treasuryVars, handlerVars
<1>0. /\ TypeInv /\ OpenInv /\ treasury \in TreasuryRows
      /\ \A w \in Workers : HolderOK(w)
  BY DEF HaltInv, Base, IntentsInv, ControlInv, HoldersInv, TypeInv, TypeOK
<1>1. ASSUME NEW w \in Workers, SubmitIntent(w)
      PROVE  treasury' = treasury
  BY <1>1 DEF SubmitIntent, Accept
<1>2. ASSUME NEW w \in Workers, AdmitStep(w) \/ NotAdmitted(w) \/ Admitted(w)
      PROVE  treasury' = treasury
  <2>1. pc[w] \in RequestPC
    BY <1>0, <1>2, WorkersAssumption
       DEF AdmitStep, NotAdmitted, Admitted, HolderOK, Owned, OpenInv
  <2>2. Proceed(w) => treasury' = treasury
    BY <2>1 DEF Proceed, ReadSlot, ReadTreasury, ReadReserved, ReadActiveCount, Decide, Commit,
                WriteOutcome, CommitOutcome, CommitRevocation, RequestPC
  <2> QED BY <1>2, <2>2 DEF AdmitStep, NotAdmitted, Admitted, Commit, Fail
<1>3. ASSUME NEW w \in Workers,
             SendTransaction(w) \/ Consume(w) \/ FailIntent(w) \/ Abandon(w)
      PROVE  treasury' = treasury
  BY <1>3 DEF SendTransaction, Consume, FailIntent, Abandon, WritePermit, vars
<1>4. ASSUME NEW w \in Workers, WithoutIntent(w)
      PROVE  ~CanSend(w)'
  BY <1>4 DEF WithoutIntent, Beside, CanSend, At
<1>5. ASSUME NEW p \in Permits, ApplyTransaction(p)
      PROVE  treasury' = treasury
  BY <1>5 DEF ApplyTransaction, vars
<1>6. CASE Background
  BY <1>0, <1>6 DEF Background, ExpirePermits, Resync, WriteSlotStatus, TreasuryRows
<1>7. CASE UNCHANGED allVars
  BY <1>7 DEF allVars, vars
<1> QED BY <1>1, <1>2, <1>3, <1>4, <1>5, <1>6, <1>7 DEF IntentsNext, WithIntent

\* Handlers W, one of them not among them, have fewer permits than there are
\* handlers.
LEMMA FewerThanWorkers ==
  ASSUME NEW W \in SUBSET Workers, NEW w \in Workers \ W, NEW permit
  PROVE  Cardinality({permit[v] : v \in W}) <= Cardinality(Workers) - 1
<1> DEFINE P == {permit[v] : v \in W}
           f == [v \in W |-> permit[v]]
<1>1. IsFiniteSet(Workers \ {w}) /\ Cardinality(Workers \ {w}) = Cardinality(Workers) - 1
  BY WorkersAssumption, FS_RemoveElement
<1>2. W \in SUBSET (Workers \ {w})
  OBVIOUS
<1>3. f \in Surjection(W, P)
  BY DEF Surjection
<1> HIDE DEF P, f
<1>4. IsFiniteSet(W) /\ Cardinality(W) <= Cardinality(Workers \ {w})
  BY <1>1, <1>2, FS_Subset
<1>5. IsFiniteSet(P) /\ Cardinality(P) <= Cardinality(W)
  BY <1>3, <1>4, FS_Surjection
<1>6. Cardinality(P) \in Nat /\ Cardinality(W) \in Nat /\ Cardinality(Workers) \in Nat
  BY <1>4, <1>5, WorkersAssumption, FS_CardinalityType
<1> QED BY <1>1, <1>4, <1>5, <1>6 DEF P

LEMMA PaymentsBoundedStep ==
  HaltInv /\ PaymentsBounded /\ [IntentsNext]_allVars => HaltInv' /\ PaymentsBounded'
<1> SUFFICES ASSUME HaltInv, PaymentsBounded, [IntentsNext]_allVars
             PROVE  HaltInv' /\ PaymentsBounded'
  OBVIOUS
<1>1. HaltInv'
  BY Simulation, BaseStep, IntentsStep DEF HaltInv
<1>2. /\ late \subseteq Permits /\ Underway \subseteq Permits
      /\ Cardinality(Workers) - 1 \in Int
  BY WorkersAssumption, FS_CardinalityType
     DEF HaltInv, IntentsInv, ControlInv, IntentsTypeOK, HoldersInv, HolderOK, Underway, CanSend, At
<1>3. ASSUME treasury.health = "HALTED"
      PROVE  PaymentsBounded'
  <2>1. late' \subseteq late \cup Underway
    BY <1>3, LateStep
  <2>2. Underway' \subseteq Underway
    BY <1>3, CanSendStays DEF Underway
  <2>3. Cardinality(late' \cup Underway') <= Cardinality(Workers) - 1
    BY <1>2, <1>3, <2>1, <2>2, Shrinks DEF PaymentsBounded
  <2> QED BY <2>3 DEF PaymentsBounded
<1>4. ASSUME treasury.health # "HALTED", treasury'.health = "HALTED"
      PROVE  PaymentsBounded'
  <2>1. late' = {}
    <3>1. \A P : Sends(P) => late' = {}
      BY <1>4 DEF Sends
    <3>2. treasury' # treasury
      BY <1>4
    <3> QED
      BY <3>1, <3>2 DEF IntentsNext, SubmitIntent, WithIntent, AdmitStep, NotAdmitted, Admitted,
         SendTransaction, Consume, FailIntent, Abandon, WithoutIntent, ApplyTransaction, Beside,
         allVars, vars, treasuryVars
  <2>2. PICK w \in Workers : ~CanSend(w)'
    BY <1>4, HaltingHandler
  <2> DEFINE W == {v \in Workers : CanSend(v)'}
             permit == [v \in Workers |-> PermitOf(v)']
  <2>3. Underway' = {permit[v] : v \in W}
    BY DEF Underway
  <2>4. W \in SUBSET Workers /\ w \in Workers \ W
    BY <2>2
  <2> HIDE DEF W, permit
  <2>5. Cardinality(Underway') <= Cardinality(Workers) - 1
    BY <2>3, <2>4, FewerThanWorkers
  <2>6. late' \cup Underway' = Underway'
    BY <2>1
  <2> QED BY <2>5, <2>6 DEF PaymentsBounded
<1> QED BY <1>1, <1>3, <1>4 DEF PaymentsBounded

\* While a treasury is halted, no more transactions leave than there were other
\* handlers at the halt (treasury.rs:119-152, mcp.rs:1166-1173).
THEOREM HaltPaymentsCorrect == IntentsSpec => []HaltStopsPayments
<1>1. IntentsInit => HaltInv /\ PaymentsBounded
  BY BaseInit, IntentsStart DEF IntentsInit, Init, HaltInv, PaymentsBounded
<1>2. HaltInv /\ PaymentsBounded => HaltStopsPayments
  <2> SUFFICES ASSUME HaltInv, PaymentsBounded, treasury.health = "HALTED"
               PROVE  Cardinality(late) <= Cardinality(Workers) - 1
    BY DEF HaltStopsPayments
  <2>1. /\ late \subseteq Permits /\ Underway \subseteq Permits
        /\ Cardinality(Workers) - 1 \in Int
    BY WorkersAssumption, FS_CardinalityType
       DEF HaltInv, IntentsInv, ControlInv, IntentsTypeOK, HoldersInv, HolderOK, Underway, CanSend, At
  <2> QED BY <2>1, Shrinks DEF PaymentsBounded
<1> QED BY <1>1, <1>2, PaymentsBoundedStep, PTL DEF IntentsSpec
-----------------------------------------------------------------------------
(* The refinement of Remittance.                                            *)

\* The row of an open request is undecided, granted or denied.
OpenStatus == \A p \in Permits : tx[p] # None => status[p] \in {"NONE", "ACTIVE", "DENIED"}

\* A permit with a payment is committed or belongs to the handler that examines
\* it, and what a handler is about to send has not been sent.
PlacesInv ==
  /\ \A p \in WithPayment : p \in Settled \/ p \in HeldAt("admit")
  /\ \A w \in Workers : At(w, "execute") => PermitOf(w) \notin sent

RemitInv == IntentsInv /\ TakenInv /\ OpenStatus /\ PlacesInv

LEMMA OpenStatusStep ==
  ASSUME TypeInv, TakenInv, OpenStatus, [Next]_vars
  PROVE  OpenStatus'
<1> DEFINE Open(p) == tx'[p] # None => status'[p] \in {"NONE", "ACTIVE", "DENIED"}
<1> USE WorkersAssumption DEF permitVars, treasuryVars, handlerVars, OpenStatus
<1>0. /\ status \in [Permits -> PermitStatus] /\ tx \in [Permits -> Workers \cup {None}]
  BY DEF TypeInv, TypeOK
<1> SUFFICES ASSUME NEW p \in Permits PROVE Open(p)
  OBVIOUS
<1>1. CASE UNCHANGED vars
  BY <1>1 DEF vars
<1>2. ASSUME NEW w \in Workers, RequestPermit(w) \/ RequestPermitGroup(w)
      PROVE  Open(p)
  <2>1. PICK P \in SUBSET Permits, require_all \in BOOLEAN :
          \E r \in [P -> Legs] : Accept(w, require_all, r)
    BY <1>2, RequestAccepts
  <2> QED BY <1>0, <2>1 DEF Accept
<1>3. ASSUME NEW w \in Workers, Rollback(w)
      PROVE  Open(p)
  BY <1>0, <1>3 DEF Rollback
<1>4. ASSUME NEW w \in Workers, NEW q \in Permits,
             ReadSlot(w, q) \/ ReadTreasury(w, q) \/ ReadReserved(w, q) \/ ReadActiveCount(w, q)
      PROVE  Open(p)
  BY <1>3, <1>4 DEF ReadSlot, ReadTreasury, ReadReserved, ReadActiveCount
<1>5. ASSUME NEW w \in Workers, NEW q \in Permits, Decide(w, q)
      PROVE  Open(p)
  BY <1>0, <1>5 DEF Decide
<1>6. ASSUME NEW w \in Workers, Commit(w)
      PROVE  Open(p)
  BY <1>0, <1>3, <1>6 DEF Commit
<1>7. ASSUME NEW w \in Workers, WriteOutcome(w) \/ CommitOutcome(w) \/ CommitRevocation(w)
      PROVE  Open(p)
  <2>1. revocation[w].permits \subseteq Settled
    BY DEF TakenInv
  <2>2. CASE WriteOutcome(w)
    BY <2>2 DEF WriteOutcome
  <2>3. CASE CommitOutcome(w)
    <3>1. outcome[w].permit \in Settled
      BY <2>3 DEF CommitOutcome, TakenInv
    <3> QED BY <1>0, <2>1, <2>3, <3>1 DEF CommitOutcome, StatusAfterRevoking, Settled
  <2>4. CASE CommitRevocation(w)
    BY <1>0, <2>1, <2>4 DEF CommitRevocation, StatusAfterRevoking, Settled
  <2> QED BY <1>7, <2>2, <2>3, <2>4
<1>8. ASSUME NEW w \in Workers, Begin(w)
      PROVE  Open(p)
  BY <1>2, <1>8 DEF Begin, ReadOutcome, Dashboard, VerifyWallet, ResumeTreasury,
                    UpdateConstitution, RevokePermits
<1>9. ASSUME NEW w \in Workers, Fail(w)
      PROVE  Open(p)
  BY <1>3, <1>9 DEF Fail
<1>10. CASE Background
  BY <1>0, <1>10 DEF Background, ExpirePermits, Expirable, ActiveCommitted, Resync, WriteSlotStatus
<1>11. CASE IntentEnds
  BY <1>0, <1>11 DEF IntentEnds, SettleIntent
<1>12. ASSUME NEW w \in Workers, Proceed(w)
       PROVE  Open(p)
  BY <1>4, <1>5, <1>6, <1>7, <1>12 DEF Proceed
<1> QED BY <1>1, <1>8, <1>9, <1>10, <1>11, <1>12 DEF Next

\* What a move of handler w does to the permits whose handler is at a stage.
LEMMA HeldAtMoves ==
  ASSUME HoldersInv, NEW w \in Workers, NEW stage, stage # "none",
         \A v \in Workers \ {w} : intent'[v] = intent[v]
  PROVE  /\ ~At(w, stage) /\ ~At(w, stage)' => HeldAt(stage)' = HeldAt(stage)
         /\ At(w, stage) /\ ~At(w, stage)' => HeldAt(stage)' = HeldAt(stage) \ {PermitOf(w)}
         /\ ~At(w, stage) /\ At(w, stage)' =>
              HeldAt(stage)' = HeldAt(stage) \cup {PermitOf(w)'}
<1>1. \A v \in Workers \ {w} :
        /\ At(v, stage)' <=> At(v, stage)
        /\ PermitOf(v)' = PermitOf(v)
        /\ At(v, stage) /\ At(w, stage) => PermitOf(v) # PermitOf(w)
  BY DEF At, PermitOf, HoldersInv
<1>2. CASE ~At(w, stage)
  BY <1>1, <1>2 DEF HeldAt
<1>3. CASE At(w, stage)
  BY <1>1, <1>3 DEF HeldAt
<1> QED BY <1>2, <1>3

\* The same when no handler moves.
LEMMA HeldAtStays ==
  ASSUME intent' = intent, NEW stage
  PROVE  HeldAt(stage)' = HeldAt(stage)
BY DEF HeldAt, At, PermitOf

\* The facts about a handler that has a permit that the steps below use.
LEMMA HolderFacts ==
  ASSUME RemitInv, NEW w \in Workers, ~At(w, "none")
  PROVE  /\ PermitOf(w) \in WithPayment /\ payment[PermitOf(w)] \in Payments
         /\ told[PermitOf(w)] = "nothing"
         /\ At(w, "admit") => Owned(w) = {PermitOf(w)} /\ tx[PermitOf(w)] = w
         /\ ~At(w, "admit") => PermitOf(w) \in Granted /\ tx[PermitOf(w)] = None
         /\ At(w, "wait") => PermitOf(w) \in sent
<1>1. HolderOK(w) /\ AnswersInv /\ IntentsTypeOK
  BY DEF RemitInv, IntentsInv, ControlInv, HoldersInv
<1>2. PermitOf(w) \in Permits /\ payment[PermitOf(w)] \in Payments
  BY <1>1 DEF HolderOK
<1>3. told[PermitOf(w)] = "nothing"
  BY <1>1, <1>2 DEF AnswersInv
<1>4. intent[w].at \in {"admit", "execute", "wait"}
  BY <1>1 DEF IntentsTypeOK, At
<1>5. PermitOf(w) \in WithPayment
  BY <1>2, IntentsAssumption DEF WithPayment
<1> QED BY <1>1, <1>2, <1>3, <1>4, <1>5 DEF HolderOK, At, Granted, Settled, Owned

\* What every lemma on a step starts from.
LEMMA RemitFacts ==
  ASSUME RemitInv, [Next]_vars
  PROVE  /\ HoldersInv /\ SentInv /\ AnswersInv /\ TypeInv /\ PlacesInv
         /\ intent \in [Workers -> [at : {"none", "admit", "execute", "wait"},
                                    permit : Permits \cup {None}]]
         /\ payment \in [Permits -> Payments \cup {None}]
         /\ sent \subseteq Granted
         /\ status \in [Permits -> PermitStatus] /\ tx \in [Permits -> Workers \cup {None}]
         /\ Granted \subseteq Granted' /\ Settled \subseteq Settled'
         /\ \A p \in HeldAt("admit") : p \in Permits /\ tx[p] # None
         /\ HeldAt("execute") \cup HeldAt("wait") \subseteq Granted
<1>1. /\ HoldersInv /\ SentInv /\ AnswersInv /\ TypeInv /\ PlacesInv
      /\ intent \in [Workers -> [at : {"none", "admit", "execute", "wait"},
                                 permit : Permits \cup {None}]]
      /\ payment \in [Permits -> Payments \cup {None}]
      /\ sent \subseteq Granted
      /\ status \in [Permits -> PermitStatus] /\ tx \in [Permits -> Workers \cup {None}]
  BY DEF RemitInv, IntentsInv, ControlInv, SentInv, IntentsTypeOK, TypeInv, TypeOK
<1>2. Granted \subseteq Granted' /\ Settled \subseteq Settled'
  BY <1>1, GrantsStay
<1>3. /\ \A p \in HeldAt("admit") : p \in Permits /\ tx[p] # None
      /\ HeldAt("execute") \cup HeldAt("wait") \subseteq Granted
  <2>1. ASSUME NEW w \in Workers, At(w, "admit")
        PROVE  PermitOf(w) \in Permits /\ tx[PermitOf(w)] # None
    BY <2>1, HolderFacts, WorkersAssumption DEF At, WithPayment
  <2>2. ASSUME NEW w \in Workers, At(w, "execute") \/ At(w, "wait")
        PROVE  PermitOf(w) \in Granted
    BY <2>2, HolderFacts DEF At
  <2> QED BY <2>1, <2>2 DEF HeldAt
<1> QED BY <1>1, <1>2, <1>3

LEMMA RemitOffer ==
  ASSUME RemitInv, [Next]_vars, NEW w \in Workers, SubmitIntent(w)
  PROVE  TheRemittance!Next /\ PlacesInv'
<1>1. PICK p \in Permits, l \in Legs, m \in Payments : Submits(w, p, l, m)
  BY IntentSubmits
<1>2. /\ At(w, "none") /\ Accept(w, FALSE, [q \in {p} |-> l])
      /\ intent' = [intent EXCEPT ![w] = [at |-> "admit", permit |-> p]]
      /\ payment' = [payment EXCEPT ![p] = m]
      /\ ledger' = ledger /\ told' = told /\ sent' = sent
  BY <1>1 DEF Submits, Sends
<1>3. /\ status' = status /\ status[p] = "NONE" /\ tx[p] = None
      /\ \A q \in Permits : tx'[q] = IF q = p THEN w ELSE tx[q]
  BY <1>2, RemitFacts DEF Accept
<1>4. payment[p] = None
  BY <1>3, RemitFacts DEF PlacesInv, WithPayment, Settled
<1>5. /\ intent'[w] = [at |-> "admit", permit |-> p]
      /\ \A v \in Workers \ {w} : intent'[v] = intent[v]
  BY <1>2, RemitFacts
<1>6. /\ HeldAt("admit")' = HeldAt("admit") \cup {p}
      /\ HeldAt("execute")' = HeldAt("execute") /\ HeldAt("wait")' = HeldAt("wait")
  <2>1. /\ ~At(w, "admit") /\ ~At(w, "execute") /\ ~At(w, "wait")
        /\ At(w, "admit")' /\ ~At(w, "execute")' /\ ~At(w, "wait")' /\ PermitOf(w)' = p
    BY <1>2, <1>5 DEF At, PermitOf
  <2> QED BY <1>5, <2>1, HeldAtMoves, RemitFacts
<1>7. WithPayment' = WithPayment \cup {p}
  BY <1>2, RemitFacts, IntentsAssumption DEF WithPayment
<1>8. Reserved' = Reserved /\ Charged' = Charged
  <2>1. p \notin Active /\ Active' = Active /\ ActiveCommitted' = ActiveCommitted
    BY <1>3 DEF Active, ActiveCommitted
  <2> QED BY <1>3, <1>7, <2>1 DEF Reserved, Charged, ActiveCommitted
<1>9. TheRemittance!Offer(p, m)
  BY <1>2, <1>4, <1>6, <1>8 DEF TheRemittance!Offer
<1>10. PlacesInv'
  <2>1. \A q \in WithPayment' : q \in Settled' \/ q \in HeldAt("admit")'
    BY <1>6, <1>7, RemitFacts DEF PlacesInv
  <2>2. \A v \in Workers : At(v, "execute")' => PermitOf(v)' \notin sent'
    BY <1>2, <1>5, RemitFacts DEF PlacesInv, At, PermitOf
  <2> QED BY <2>1, <2>2 DEF PlacesInv
<1> QED BY <1>9, <1>10 DEF TheRemittance!Next

LEMMA RemitWithdraw ==
  ASSUME RemitInv, [Next]_vars, NEW w \in Workers, NotAdmitted(w)
  PROVE  TheRemittance!Next /\ PlacesInv'
<1> DEFINE p == PermitOf(w)
<1>1. /\ At(w, "admit") /\ intent' = [intent EXCEPT ![w] = NoIntent]
      /\ payment' = [payment EXCEPT ![p] = None]
      /\ ledger' = ledger /\ told' = told /\ sent' = sent
  BY DEF NotAdmitted, Sends
<1>2. p \in WithPayment /\ Owned(w) = {p} /\ ~At(w, "none")
  BY <1>1, HolderFacts DEF At
<1>3. Rollback(w)
  <2>1. CASE Fail(w)
    BY <2>1 DEF Fail
  <2>2. CASE Proceed(w) /\ pc[w] = "treasury" /\ pc'[w] = "idle"
    <3>1. \E q \in Permits : ReadTreasury(w, q)
      BY <2>2 DEF Proceed, ReadSlot, ReadReserved, ReadActiveCount, Decide, Commit,
                  WriteOutcome, CommitOutcome, CommitRevocation
    <3>2. pc \in [Workers -> PC]
      BY RemitFacts DEF TypeInv, TypeOK
    <3> QED BY <2>2, <3>1, <3>2 DEF ReadTreasury
  <2> QED BY <2>1, <2>2 DEF NotAdmitted
<1>4. \A q \in Permits : q # p => status'[q] = status[q] /\ tx'[q] = tx[q]
  BY <1>2, <1>3, RemitFacts DEF Rollback, Owned
<1>5. WithPayment' = WithPayment \ {p}
  BY <1>1, RemitFacts DEF WithPayment
<1>6. Reserved' = Reserved /\ Charged' = Charged
  <2>1. tx[p] # None /\ status[p] # "CONSUMED" /\ p \in Permits
    <3>1. p \in Permits /\ tx[p] = w
      BY <1>2 DEF WithPayment, Owned
    <3> QED BY <3>1, WorkersAssumption DEF RemitInv, OpenStatus
  <2>2. \A q \in WithPayment \ {p} : q \in ActiveCommitted' <=> q \in ActiveCommitted
    BY <1>4 DEF ActiveCommitted, Active, WithPayment
  <2>3. \A q \in WithPayment \ {p} : status'[q] = status[q]
    BY <1>4 DEF WithPayment
  <2>4. p \notin ActiveCommitted
    BY <2>1 DEF ActiveCommitted
  <2> QED BY <1>5, <2>1, <2>2, <2>3, <2>4 DEF Reserved, Charged
<1>7. intent'[w] = NoIntent /\ \A v \in Workers \ {w} : intent'[v] = intent[v]
  BY <1>1, RemitFacts
<1>8. /\ HeldAt("admit")' = HeldAt("admit") \ {p} /\ p \in HeldAt("admit")
      /\ HeldAt("execute")' = HeldAt("execute") /\ HeldAt("wait")' = HeldAt("wait")
  <2>1. /\ At(w, "admit") /\ ~At(w, "execute") /\ ~At(w, "wait")
        /\ ~At(w, "admit")' /\ ~At(w, "execute")' /\ ~At(w, "wait")'
    BY <1>1, <1>7 DEF At, NoIntent
  <2>2. p \in HeldAt("admit")
    BY <1>1 DEF HeldAt
  <2> QED BY <1>7, <2>1, <2>2, HeldAtMoves, RemitFacts
<1>9. TheRemittance!Withdraw(p) /\ p \in Permits
  BY <1>1, <1>2, <1>6, <1>8 DEF TheRemittance!Withdraw, WithPayment
<1>10. PlacesInv'
  <2>1. \A q \in WithPayment' : q \in Settled' \/ q \in HeldAt("admit")'
    BY <1>5, <1>8, RemitFacts DEF PlacesInv
  <2>2. \A v \in Workers : At(v, "execute")' => PermitOf(v)' \notin sent'
    BY <1>1, <1>7, RemitFacts DEF PlacesInv, At, PermitOf, NoIntent
  <2> QED BY <2>1, <2>2 DEF PlacesInv
<1> QED BY <1>9, <1>10 DEF TheRemittance!Next

\* A step that offers and sends nothing leaves the payments in their places.
LEMMA PlacesStay ==
  ASSUME RemitInv, [Next]_vars, payment' = payment, sent' = sent,
         HeldAt("admit")' = HeldAt("admit"),
         \A v \in Workers : At(v, "execute")' => intent'[v] = intent[v]
  PROVE  PlacesInv'
<1>1. WithPayment' = WithPayment /\ Settled \subseteq Settled'
  BY RemitFacts DEF WithPayment
<1>2. \A v \in Workers : At(v, "execute")' => PermitOf(v)' \notin sent'
  BY RemitFacts DEF PlacesInv, At, PermitOf
<1> QED BY <1>1, <1>2, RemitFacts DEF PlacesInv

LEMMA RemitAnswer ==
  ASSUME RemitInv, [Next]_vars, NEW w \in Workers, Admitted(w)
  PROVE  TheRemittance!Next /\ PlacesInv'
<1> DEFINE p == PermitOf(w)
<1>1. /\ At(w, "admit") /\ Commit(w)
      /\ payment' = payment /\ ledger' = ledger /\ sent' = sent
  BY DEF Admitted, Sends
<1>2. /\ p \in WithPayment /\ p \in Permits /\ told[p] = "nothing"
      /\ Owned(w) = {p} /\ tx[p] = w /\ tx[p] # None
  BY <1>1, HolderFacts, WorkersAssumption DEF At, WithPayment
<1>3. ~request[w].require_all /\ status[p] # "NONE"
  BY <1>1, RemitFacts DEF HoldersInv, HolderOK, Commit
<1>4. /\ status' = status
      /\ \A q \in Permits : tx'[q] = IF q = p THEN None ELSE tx[q]
  BY <1>1, <1>2, <1>3, RemitFacts DEF Commit, GroupFails, Owned
<1>5. WithPayment' = WithPayment
  BY <1>1 DEF WithPayment
<1>6. Charged' = Charged
  BY <1>4, <1>5 DEF Charged
<1>7. p \in HeldAt("admit") /\ p \notin sent
  BY <1>1, <1>2, RemitFacts DEF HeldAt, Granted, Settled
<1>8. \A q \in WithPayment' : q \in Settled' \/ q \in HeldAt("admit") \ {p}
  <2>1. p \in Settled'
    BY <1>2, <1>3, <1>4 DEF Settled
  <2> QED BY <1>5, <2>1, RemitFacts DEF PlacesInv
<1>9. /\ At(w, "admit") /\ ~At(w, "execute") /\ ~At(w, "wait")
  BY <1>1 DEF At
<1>10. CASE PolicyApproved(w)
  <2>1. intent' = [intent EXCEPT ![w].at = "execute"] /\ told' = told
    BY <1>10 DEF Admitted
  <2>2. /\ intent'[w] = [at |-> "execute", permit |-> p]
        /\ \A v \in Workers \ {w} : intent'[v] = intent[v]
    BY <2>1, RemitFacts DEF PermitOf
  <2>3. /\ HeldAt("admit")' = HeldAt("admit") \ {p}
        /\ HeldAt("execute")' = HeldAt("execute") \cup {p}
        /\ HeldAt("wait")' = HeldAt("wait")
    <3>1. /\ ~At(w, "admit")' /\ At(w, "execute")' /\ ~At(w, "wait")' /\ PermitOf(w)' = p
      BY <2>2 DEF At, PermitOf
    <3> QED BY <1>9, <2>2, <3>1, HeldAtMoves, RemitFacts
  <2>4. Reserved' = Reserved \cup {p}
    <3>1. ActiveCommitted' = ActiveCommitted \cup {p}
      BY <1>2, <1>4, <1>10 DEF ActiveCommitted, Active, PolicyApproved
    <3> QED BY <1>2, <1>5, <3>1 DEF Reserved
  <2>5. TheRemittance!Grant(p)
    BY <1>1, <1>6, <1>7, <2>1, <2>3, <2>4 DEF TheRemittance!Grant
  <2>6. \A v \in Workers : At(v, "execute")' => PermitOf(v)' \notin sent'
    BY <1>1, <1>7, <2>2, RemitFacts DEF PlacesInv, At, PermitOf
  <2> QED BY <1>2, <1>8, <2>3, <2>5, <2>6 DEF TheRemittance!Next, PlacesInv
<1>11. CASE ~PolicyApproved(w)
  <2>1. /\ intent' = [intent EXCEPT ![w] = NoIntent]
        /\ told' \in {told, [told EXCEPT ![p] = "rejected"]}
    BY <1>11 DEF Admitted, Returns, Rejection
  <2>2. intent'[w] = NoIntent /\ \A v \in Workers \ {w} : intent'[v] = intent[v]
    BY <2>1, RemitFacts
  <2>3. /\ HeldAt("admit")' = HeldAt("admit") \ {p}
        /\ HeldAt("execute")' = HeldAt("execute")
        /\ HeldAt("wait")' = HeldAt("wait")
    <3>1. ~At(w, "admit")' /\ ~At(w, "execute")' /\ ~At(w, "wait")'
      BY <2>2 DEF At, NoIntent
    <3> QED BY <1>9, <2>2, <3>1, HeldAtMoves, RemitFacts
  <2>4. Reserved' = Reserved
    <3>1. ActiveCommitted' = ActiveCommitted
      BY <1>2, <1>4, <1>11 DEF ActiveCommitted, Active, PolicyApproved
    <3> QED BY <1>5, <3>1 DEF Reserved
  <2>5. TheRemittance!Reject(p)
    BY <1>1, <1>2, <1>6, <1>7, <2>1, <2>3, <2>4
       DEF TheRemittance!Reject, TheRemittance!Answers
  <2>6. \A v \in Workers : At(v, "execute")' => PermitOf(v)' \notin sent'
    BY <1>1, <2>2, RemitFacts DEF PlacesInv, At, PermitOf, NoIntent
  <2> QED BY <1>2, <1>8, <2>3, <2>5, <2>6 DEF TheRemittance!Next, PlacesInv
<1> QED BY <1>10, <1>11

LEMMA RemitSend ==
  ASSUME RemitInv, [Next]_vars, NEW w \in Workers, SendTransaction(w)
  PROVE  TheRemittance!Next /\ PlacesInv'
<1> DEFINE p == PermitOf(w)
<1>1. /\ At(w, "execute") /\ intent' = [intent EXCEPT ![w].at = "wait"]
      /\ payment' = payment /\ ledger' = ledger /\ told' = told
      /\ sent' = sent \cup {p} /\ status' = status /\ tx' = tx
  BY DEF SendTransaction, Sends, vars, permitVars
<1>2. p \in Permits /\ p \in HeldAt("execute") /\ p \notin sent
  BY <1>1, HolderFacts, RemitFacts DEF At, WithPayment, HeldAt, PlacesInv
<1>3. /\ intent'[w] = [at |-> "wait", permit |-> p]
      /\ \A v \in Workers \ {w} : intent'[v] = intent[v]
  BY <1>1, RemitFacts DEF PermitOf
<1>4. /\ HeldAt("admit")' = HeldAt("admit")
      /\ HeldAt("execute")' = HeldAt("execute") \ {p}
      /\ HeldAt("wait")' = HeldAt("wait") \cup {p}
  <2>1. /\ ~At(w, "admit") /\ At(w, "execute") /\ ~At(w, "wait")
        /\ ~At(w, "admit")' /\ ~At(w, "execute")' /\ At(w, "wait")' /\ PermitOf(w)' = p
    BY <1>1, <1>3 DEF At, PermitOf
  <2> QED BY <1>3, <2>1, HeldAtMoves, RemitFacts
<1>5. WithPayment' = WithPayment /\ Reserved' = Reserved /\ Charged' = Charged
  BY <1>1 DEF WithPayment, Reserved, Charged, ActiveCommitted, Active
<1>6. TheRemittance!Send(p)
  BY <1>1, <1>2, <1>4, <1>5 DEF TheRemittance!Send
<1>7. \A v \in Workers : At(v, "execute")' => PermitOf(v)' \notin sent'
  <2>1. ASSUME NEW v \in Workers \ {w}, At(v, "execute")'
        PROVE  PermitOf(v)' \notin sent'
    <3>1. At(v, "execute") /\ PermitOf(v)' = PermitOf(v)
      BY <1>3, <2>1 DEF At, PermitOf
    <3>2. PermitOf(v) # p
      BY <1>1, <3>1, RemitFacts DEF HoldersInv, At
    <3> QED BY <1>1, <3>1, <3>2, RemitFacts DEF PlacesInv
  <2> QED BY <1>3, <2>1 DEF At
<1>8. PlacesInv'
  BY <1>4, <1>5, <1>7, RemitFacts DEF PlacesInv
<1> QED BY <1>2, <1>6, <1>8 DEF TheRemittance!Next

LEMMA RemitMake ==
  ASSUME RemitInv, [Next]_vars, NEW p \in Permits, ApplyTransaction(p)
  PROVE  TheRemittance!Next /\ PlacesInv'
<1>1. /\ p \in sent /\ payment[p] \notin ledger /\ ledger' = ledger \cup {payment[p]}
      /\ intent' = intent /\ payment' = payment /\ told' = told /\ sent' = sent
      /\ status' = status /\ tx' = tx
  BY DEF ApplyTransaction, Sends, vars, permitVars
<1>2. /\ HeldAt("admit")' = HeldAt("admit") /\ HeldAt("execute")' = HeldAt("execute")
      /\ HeldAt("wait")' = HeldAt("wait")
  BY <1>1, HeldAtStays
<1>3. Reserved' = Reserved /\ Charged' = Charged
  BY <1>1 DEF WithPayment, Reserved, Charged, ActiveCommitted, Active
<1>4. TheRemittance!Make(p)
  BY <1>1, <1>2, <1>3 DEF TheRemittance!Make
<1> QED BY <1>1, <1>2, <1>4, PlacesStay DEF TheRemittance!Next

\* A handler that has its answer, or stops, leaves its permit to itself.
LEMMA HandlerLeaves ==
  ASSUME RemitInv, [Next]_vars, NEW w \in Workers, At(w, "execute") \/ At(w, "wait"),
         intent' = [intent EXCEPT ![w] = NoIntent], payment' = payment, sent' = sent
  PROVE  /\ HeldAt("admit")' = HeldAt("admit")
         /\ HeldAt("execute")' = HeldAt("execute") \ {PermitOf(w)}
         /\ HeldAt("wait")' = HeldAt("wait") \ {PermitOf(w)}
         /\ PermitOf(w) \in HeldAt("execute") \cup HeldAt("wait")
         /\ At(w, "wait") => /\ HeldAt("execute")' = HeldAt("execute")
                             /\ PermitOf(w) \in HeldAt("wait")
         /\ PermitOf(w) \in WithPayment /\ tx[PermitOf(w)] = None
         /\ told[PermitOf(w)] = "nothing" /\ PermitOf(w) \in Permits
         /\ PlacesInv'
<1>1. intent'[w] = NoIntent /\ \A v \in Workers \ {w} : intent'[v] = intent[v]
  BY RemitFacts
<1>2. ~At(w, "admit") /\ ~At(w, "none") /\ ~(At(w, "execute") /\ At(w, "wait"))
  BY DEF At
<1>3. ~At(w, "admit")' /\ ~At(w, "execute")' /\ ~At(w, "wait")'
  BY <1>1 DEF At, NoIntent
<1>4. ASSUME NEW stage \in {"execute", "wait"}, ~At(w, stage)
      PROVE  PermitOf(w) \notin HeldAt(stage)
  BY <1>2, <1>4, RemitFacts DEF HeldAt, HoldersInv, At
<1>5. /\ HeldAt("admit")' = HeldAt("admit")
      /\ HeldAt("execute")' = HeldAt("execute") \ {PermitOf(w)}
      /\ HeldAt("wait")' = HeldAt("wait") \ {PermitOf(w)}
      /\ At(w, "wait") => HeldAt("execute")' = HeldAt("execute")
  <2>1. HeldAt("admit")' = HeldAt("admit")
    BY <1>1, <1>2, <1>3, HeldAtMoves, RemitFacts
  <2>2. /\ At(w, "execute") => HeldAt("execute")' = HeldAt("execute") \ {PermitOf(w)}
        /\ ~At(w, "execute") => HeldAt("execute")' = HeldAt("execute")
    BY <1>1, <1>3, HeldAtMoves, RemitFacts
  <2>3. /\ At(w, "wait") => HeldAt("wait")' = HeldAt("wait") \ {PermitOf(w)}
        /\ ~At(w, "wait") => HeldAt("wait")' = HeldAt("wait")
    BY <1>1, <1>3, HeldAtMoves, RemitFacts
  <2> QED BY <1>2, <1>4, <2>1, <2>2, <2>3
<1>6. /\ PermitOf(w) \in HeldAt("execute") \cup HeldAt("wait")
      /\ At(w, "wait") => PermitOf(w) \in HeldAt("wait")
  BY DEF HeldAt
<1>7. /\ PermitOf(w) \in WithPayment /\ PermitOf(w) \in Permits
      /\ tx[PermitOf(w)] = None /\ told[PermitOf(w)] = "nothing"
  BY <1>2, HolderFacts DEF WithPayment
<1>8. PlacesInv'
  BY <1>1, <1>3, <1>5, PlacesStay
<1> QED BY <1>5, <1>6, <1>7, <1>8

LEMMA RemitSettle ==
  ASSUME RemitInv, [Next]_vars, NEW w \in Workers, Consume(w) \/ FailIntent(w)
  PROVE  TheRemittance!Next /\ PlacesInv'
<1> DEFINE p == PermitOf(w)
<1>1. /\ At(w, "execute") \/ At(w, "wait")
      /\ intent' = [intent EXCEPT ![w] = NoIntent]
      /\ payment' = payment /\ ledger' = ledger /\ sent' = sent /\ tx' = tx
  BY DEF Consume, FailIntent, Returns, Sends, WritePermit, At
<1>2. /\ HeldAt("admit")' = HeldAt("admit")
      /\ HeldAt("execute")' = HeldAt("execute") \ {p}
      /\ HeldAt("wait")' = HeldAt("wait") \ {p}
      /\ p \in HeldAt("execute") \cup HeldAt("wait")
      /\ At(w, "wait") => HeldAt("execute")' = HeldAt("execute") /\ p \in HeldAt("wait")
      /\ p \in WithPayment /\ tx[p] = None /\ told[p] = "nothing" /\ p \in Permits
      /\ PlacesInv'
  BY <1>1, HandlerLeaves
<1>3. WithPayment' = WithPayment
  BY <1>1 DEF WithPayment
<1>4. CASE Consume(w)
  <2>1. /\ At(w, "wait") /\ payment[p] \in ledger
        /\ told' \in {told, [told EXCEPT ![p] = "executed"]}
        /\ status' = [status EXCEPT ![p] = "CONSUMED"]
    BY <1>4 DEF Consume, Succeeded, Returns, WritePermit
  <2>2. \A q \in Permits : status'[q] = IF q = p THEN "CONSUMED" ELSE status[q]
    BY <2>1, RemitFacts
  <2>3. Reserved' = Reserved \ {p} /\ Charged' = Charged \cup {p}
    <3>1. ActiveCommitted' = ActiveCommitted \ {p}
      BY <1>1, <2>2 DEF ActiveCommitted, Active
    <3>2. \A q \in WithPayment : q \in Permits
      BY DEF WithPayment
    <3> QED BY <1>2, <1>3, <2>2, <3>1, <3>2 DEF Reserved, Charged
  <2>4. TheRemittance!Charge(p)
    BY <1>1, <1>2, <2>1, <2>3 DEF TheRemittance!Charge, TheRemittance!Answers
  <2> QED BY <1>2, <2>4 DEF TheRemittance!Next
<1>5. CASE FailIntent(w)
  <2>1. /\ told' \in {told, [told EXCEPT ![p] = "failed"]}
        /\ status' = [status EXCEPT ![p] = StatusIfFailed(p)]
    BY <1>5 DEF FailIntent, Returns, WritePermit
  <2>2. \A q \in Permits :
          status'[q] = IF q = p /\ status[q] = "ACTIVE" THEN "FAILED" ELSE status[q]
    BY <2>1, RemitFacts DEF StatusIfFailed
  <2>3. Reserved' = Reserved \ {p} /\ Charged' = Charged
    <3>1. ActiveCommitted' = ActiveCommitted \ {p}
      BY <1>1, <1>2, <2>2 DEF ActiveCommitted, Active
    <3>2. \A q \in WithPayment : q \in Permits
      BY DEF WithPayment
    <3> QED BY <1>3, <2>2, <3>1, <3>2 DEF Reserved, Charged
  <2>4. TheRemittance!GiveUp(p)
    BY <1>1, <1>2, <2>1, <2>3 DEF TheRemittance!GiveUp, TheRemittance!Answers
  <2> QED BY <1>2, <2>4 DEF TheRemittance!Next
<1> QED BY <1>4, <1>5

LEMMA RemitForget ==
  ASSUME RemitInv, [Next]_vars, NEW w \in Workers, Abandon(w)
  PROVE  TheRemittance!Next /\ PlacesInv'
<1> DEFINE p == PermitOf(w)
<1>1. /\ At(w, "execute") \/ At(w, "wait")
      /\ intent' = [intent EXCEPT ![w] = NoIntent]
      /\ payment' = payment /\ ledger' = ledger /\ told' = told /\ sent' = sent
      /\ status' = status /\ tx' = tx
  BY DEF Abandon, Sends, At, vars, permitVars
<1>2. /\ HeldAt("admit")' = HeldAt("admit")
      /\ HeldAt("execute")' = HeldAt("execute") \ {p}
      /\ HeldAt("wait")' = HeldAt("wait") \ {p}
      /\ p \in HeldAt("execute") \cup HeldAt("wait")
      /\ p \in Permits /\ PlacesInv'
  BY <1>1, HandlerLeaves
<1>3. Reserved' = Reserved /\ Charged' = Charged
  BY <1>1 DEF WithPayment, Reserved, Charged, ActiveCommitted, Active
<1>4. TheRemittance!Forget(p)
  BY <1>1, <1>2, <1>3 DEF TheRemittance!Forget
<1> QED BY <1>2, <1>4 DEF TheRemittance!Next

\* What happens beside the intents only ends reservations, and consumes one permit
\* at most, that of an outcome report.
LEMMA RemitBeside ==
  ASSUME RemitInv, [Next]_vars, UNCHANGED <<intent, payment, ledger, told, sent>>,
         \A p \in HeldAt("admit") : tx'[p] # None,
         \/ \A p \in Permits : status'[p] = "CONSUMED" => status[p] = "CONSUMED"
         \/ \E o \in Settled : /\ status'[o] = "CONSUMED"
                               /\ \A p \in Permits \ {o} :
                                    status'[p] = "CONSUMED" => status[p] = "CONSUMED"
  PROVE  TheRemittance!Next /\ PlacesInv'
<1>1. /\ HeldAt("admit")' = HeldAt("admit") /\ HeldAt("execute")' = HeldAt("execute")
      /\ HeldAt("wait")' = HeldAt("wait") /\ WithPayment' = WithPayment
  BY HeldAtStays DEF WithPayment
<1>2. PlacesInv'
  BY <1>1, PlacesStay
<1>3. ASSUME NEW p \in Settled
      PROVE  /\ status[p] # "ACTIVE" => status'[p] # "ACTIVE"
             /\ status[p] = "CONSUMED" => status'[p] = "CONSUMED"
  BY GrantedStays, RemitFacts
<1>4. Reserved' \subseteq Reserved
  <2> SUFFICES ASSUME NEW p \in Reserved' PROVE p \in Reserved
    OBVIOUS
  <2>1. p \in WithPayment /\ p \in Permits /\ status'[p] = "ACTIVE" /\ tx'[p] = None
    BY <1>1 DEF Reserved, ActiveCommitted, Active
  <2>2. p \in Settled
    BY <2>1, RemitFacts DEF PlacesInv
  <2> QED BY <1>3, <2>1, <2>2 DEF Reserved, ActiveCommitted, Active, Settled
<1>5. Charged \subseteq Charged'
  <2> SUFFICES ASSUME NEW p \in Charged PROVE p \in Charged'
    OBVIOUS
  <2>1. p \in WithPayment /\ p \in Permits /\ status[p] = "CONSUMED"
    BY DEF Charged, WithPayment
  <2>2. p \in Settled
    BY <2>1 DEF RemitInv, OpenStatus, Settled
  <2> QED BY <1>1, <1>3, <2>1, <2>2 DEF Charged
<1>6. /\ Reserved' = Reserved \ (Reserved \ Reserved')
      /\ Reserved \ Reserved' \in SUBSET Reserved
  BY <1>4
<1>7. CASE Charged' = Charged
  <2>1. TheRemittance!End(Reserved \ Reserved')
    BY <1>1, <1>6, <1>7 DEF TheRemittance!End
  <2> QED BY <1>2, <1>6, <2>1 DEF TheRemittance!Next
<1>8. CASE Charged' # Charged
  <2>1. PICK o \in Settled :
          /\ status'[o] = "CONSUMED"
          /\ \A p \in Permits \ {o} : status'[p] = "CONSUMED" => status[p] = "CONSUMED"
    BY <1>1, <1>5, <1>8 DEF Charged, WithPayment
  <2>2. o \in WithPayment /\ Charged' = Charged \cup {o}
    BY <1>1, <1>5, <1>8, <2>1 DEF Charged, WithPayment
  <2>3. o \notin Reserved' /\ o \notin HeldAt("admit")
    <3>1. o \notin Reserved'
      BY <2>1 DEF Reserved, ActiveCommitted, Active
    <3> QED BY <3>1, RemitFacts DEF Settled
  <2>4. o \in Permits /\ payment[o] # None
    BY <2>2 DEF WithPayment
  <2>5. TheRemittance!Report(o, Reserved \ Reserved')
    BY <1>1, <1>6, <2>2, <2>3, <2>4 DEF TheRemittance!Report
  <2> QED BY <1>2, <1>6, <2>4, <2>5 DEF TheRemittance!Next
<1> QED BY <1>7, <1>8

\* The permits a handler's step consumes: none, or that of its outcome report.
LEMMA ConsumesOne ==
  ASSUME RemitInv, NEW w \in Workers, Begin(w) \/ Proceed(w) \/ Fail(w)
  PROVE  \/ \A p \in Permits : status'[p] = "CONSUMED" => status[p] = "CONSUMED"
         \/ \E o \in Settled : /\ status'[o] = "CONSUMED"
                               /\ \A p \in Permits \ {o} :
                                    status'[p] = "CONSUMED" => status[p] = "CONSUMED"
<1>1. TypeInv /\ TakenInv
  BY DEF RemitInv, IntentsInv
<1>2. ASSUME NEW p \in Permits, status[p] # "CONSUMED", status'[p] = "CONSUMED"
      PROVE  pc[w] = "written" /\ outcome[w].permit = p
  BY <1>1, <1>2, ReportConsumes
<1>3. ASSUME NEW o \in Permits, status[o] # "CONSUMED", status'[o] = "CONSUMED"
      PROVE  /\ o \in Settled
             /\ \A p \in Permits \ {o} : status'[p] = "CONSUMED" => status[p] = "CONSUMED"
  BY <1>1, <1>2, <1>3 DEF TakenInv
<1> QED BY <1>3

LEMMA RemitStep ==
  ASSUME RemitInv, [IntentsNext]_allVars
  PROVE  TheRemittance!Next /\ PlacesInv'
<1>1. [Next]_vars
  BY Simulation DEF RemitInv
<1>2. TypeInv /\ OpenInv /\ \A w \in Workers : HolderOK(w)
  BY DEF RemitInv, IntentsInv, ControlInv, HoldersInv
<1>3. CASE UNCHANGED allVars
  <2>1. UNCHANGED <<intent, payment, ledger, told, sent, status, tx>>
    BY <1>3 DEF allVars, intentVars, vars, permitVars
  <2>2. \A p \in HeldAt("admit") : tx'[p] # None
    BY <1>1, <2>1, RemitFacts
  <2> QED BY <1>1, <2>1, <2>2, RemitBeside
<1>4. ASSUME NEW w \in Workers, NEW v \in Workers \ {w}, At(v, "admit"),
             Begin(w) \/ Proceed(w) \/ Fail(w)
      PROVE  tx'[PermitOf(v)] # None
  <2>1. tx[PermitOf(v)] = v /\ PermitOf(v) \in Permits
    BY <1>4, HolderFacts DEF At, WithPayment
  <2>2. tx'[PermitOf(v)] = v
    BY <1>2, <1>4, <2>1, OwnersStay
  <2> QED BY <2>2, WorkersAssumption
<1>5. ASSUME NEW w \in Workers, AdmitStep(w)
      PROVE  TheRemittance!Next /\ PlacesInv'
  <2>1. /\ At(w, "admit") /\ Proceed(w) /\ pc'[w] # "idle"
        /\ UNCHANGED <<intent, payment, ledger, told, sent>>
    BY <1>5 DEF AdmitStep, Sends
  <2>2. tx[PermitOf(w)] = w /\ PermitOf(w) \in Permits
    BY <2>1, HolderFacts DEF At, WithPayment
  <2>3. tx' = tx
    BY <1>2, <2>1, <2>2, OwnerGoesOn
  <2>4. \A p \in HeldAt("admit") : tx'[p] # None
    BY <1>1, <2>3, RemitFacts
  <2> QED BY <1>1, <2>1, <2>4, ConsumesOne, RemitBeside
<1>6. ASSUME NEW w \in Workers, WithoutIntent(w)
      PROVE  TheRemittance!Next /\ PlacesInv'
  <2>1. /\ At(w, "none") /\ (Begin(w) \/ Proceed(w) \/ Fail(w))
        /\ UNCHANGED <<intent, payment, ledger, told, sent>>
    BY <1>6 DEF WithoutIntent, Beside, Sends
  <2>2. \A p \in HeldAt("admit") : tx'[p] # None
    BY <1>4, <2>1 DEF HeldAt, At
  <2> QED BY <1>1, <2>1, <2>2, ConsumesOne, RemitBeside
<1>7. CASE Background /\ Beside
  <2>1. UNCHANGED <<intent, payment, ledger, told, sent>> /\ tx' = tx
    BY <1>2, <1>7, BackgroundStays DEF Beside, Sends
  <2>2. \A p \in Permits : status'[p] = "CONSUMED" => status[p] = "CONSUMED"
    BY <1>2, <1>7, ReportConsumes
  <2>3. \A p \in HeldAt("admit") : tx'[p] # None
    BY <1>1, <2>1, RemitFacts
  <2> QED BY <1>1, <2>1, <2>2, <2>3, RemitBeside
<1> QED
  BY <1>1, <1>3, <1>5, <1>6, <1>7, RemitOffer, RemitWithdraw, RemitAnswer, RemitSend,
     RemitMake, RemitSettle, RemitForget
     DEF IntentsNext, WithIntent

LEMMA RemitKept == RemitInv /\ [IntentsNext]_allVars => RemitInv'
<1> SUFFICES ASSUME RemitInv, [IntentsNext]_allVars PROVE RemitInv'
  OBVIOUS
<1>1. [Next]_vars /\ TypeInv /\ IntentsInv
  BY Simulation DEF RemitInv, IntentsInv
<1>2. IntentsInv' /\ TakenInv' /\ OpenStatus' /\ PlacesInv'
  BY <1>1, IntentsStep, TakenStep, OpenStatusStep, RemitStep DEF RemitInv
<1> QED BY <1>2 DEF RemitInv

LEMMA RemitStart == IntentsInit => RemitInv /\ TheRemittance!Init
<1> SUFFICES ASSUME IntentsInit PROVE RemitInv /\ TheRemittance!Init
  OBVIOUS
<1>1. IntentsInv /\ TakenInv /\ OpenStatus
  BY IntentsStart, TakenInit, WorkersAssumption DEF IntentsInit, Init, OpenStatus
<1>2. /\ HeldAt("admit") = {} /\ HeldAt("execute") = {} /\ HeldAt("wait") = {}
      /\ WithPayment = {}
  BY DEF IntentsInit, HeldAt, At, NoIntent, WithPayment
<1>3. PlacesInv
  BY <1>2 DEF PlacesInv, IntentsInit
<1>4. Reserved = {} /\ Charged = {}
  BY <1>2 DEF Reserved, Charged
<1> QED BY <1>1, <1>2, <1>3, <1>4 DEF RemitInv, TheRemittance!Init, IntentsInit

\* A payment goes one way, with any number of handlers, stopped anywhere: granted
\* before it is sent, sent once, charged only when it is made or reported, with
\* one true answer, and no reservation comes back (mcp.rs:315-510, 1159-1240).
THEOREM RemittanceCorrect == IntentsSpec => ImplementsRemittance
<1>1. RemitInv /\ [IntentsNext]_allVars => [TheRemittance!Next]_(TheRemittance!vars)
  BY RemitStep
<1> QED BY <1>1, RemitStart, RemitKept, PTL
        DEF IntentsSpec, ImplementsRemittance, TheRemittance!Spec
===========================================================================
