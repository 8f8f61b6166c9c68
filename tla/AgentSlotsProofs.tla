------------------------- MODULE AgentSlotsProofs -------------------------
(***************************************************************************)
(* Proofs about AgentSlots, for every set of handlers, agents and keys.    *)
(***************************************************************************)
EXTENDS AgentSlots, TLAPS

\* What a handler holds at each of its steps: whom it works for, and, once it
\* has read the slot, a status it may write.
ControlInv ==
  \A w \in Workers :
    /\ pc[w] \in {"start", "enroll", "bind", "connect", "complete", "read", "session",
                  "init", "mcp", "load"} => local[w].key \in Keys
    /\ pc[w] \in {"start", "enroll", "bind", "reread", "connect", "complete", "read", "session",
                  "beat", "status", "write", "revoke", "clean"} => local[w].agent \in Agents
    /\ pc[w] \in {"session", "status", "write"} =>
         /\ local[w].next # "NONE"
         /\ local[w].seen \in Barred => local[w].next \in Barred
    /\ pc[w] = "status" => local[w].next # "ACTIVE"

TypeInv == TypeOK /\ ControlInv

LEMMA InitInv == Init => TypeInv
BY DEF Init, TypeInv, TypeOK, ControlInv, Slots, NoSlot, Locals, NoLocal, Status, Pending,
       Barred, PC

(***************************************************************************)
(* The operators the handlers are built from.                              *)
(***************************************************************************)

\* An UPDATE with a row of the right type.
LEMMA SetSlotType ==
  ASSUME TypeOK, NEW a \in Agents, NEW row \in Slots, SetSlot(a, row)
  PROVE  /\ slot' \in [Agents -> Slots]
         /\ slot'[a] = row
         /\ \A b \in Agents : b # a => slot'[b] = slot[b]
         /\ revived \subseteq revived' /\ revived' \subseteq Agents
         /\ IsBarred(a) /\ row.status \notin Barred => a \in revived'
BY DEF TypeOK, SetSlot

\* Any column of a row may be given any value of its type.
LEMMA RowWith ==
  ASSUME NEW row \in Slots, NEW s \in Status, NEW k \in Keys \cup {None}
  PROVE  /\ [row EXCEPT !.status = s] \in Slots
         /\ [row EXCEPT !.status = s, !.last = "recent"] \in Slots
         /\ [row EXCEPT !.pubkey = k, !.status = s] \in Slots
         /\ [status |-> s, pubkey |-> k, last |-> "never"] \in Slots
BY DEF Slots

\* What a handler may write after it has read a row: a status, never "NONE";
\* a barred row stays as it is; an enrollment never activates.
LEMMA Resolvable ==
  ASSUME NEW row \in Slots
  PROVE  /\ StatusAfterContact(row) \subseteq Status \ {"NONE"}
         /\ StatusAfterEnrollment(row) \subseteq Status \ {"NONE", "ACTIVE"}
         /\ resolve_mcp_slot_status(row.status) \subseteq Status \ {"NONE"}
         /\ row.status \in Barred =>
              /\ StatusAfterContact(row) = {row.status}
              /\ StatusAfterEnrollment(row) = {row.status}
<1>1. compute_connection_status(row) \subseteq (Status \ {"NONE", "ACTIVE"}) \cup {"COMPLETE"}
  BY DEF compute_connection_status, Slots, Status, Pending, Barred
<1>2. row.status \in Barred => compute_connection_status(row) = {row.status}
  BY DEF compute_connection_status
<1>3. "COMPLETE" \notin Barred
  BY DEF Barred
<1> QED
  BY <1>1, <1>2, <1>3
  DEF StatusAfterContact, StatusAfterEnrollment, resolve_mcp_slot_status, Slots, Status,
      Pending, Barred

\* The handler that has resolved a row holds it.
LEMMA ResolveType ==
  ASSUME TypeOK, NEW w \in Workers, NEW a \in Agents, NEW S \in SUBSET Status, NEW label,
         Resolve(w, a, S, label)
  PROVE  /\ pc' = [pc EXCEPT ![w] = label]
         /\ local' \in [Workers -> Locals]
         /\ \E s \in S : local'[w] = [agent |-> a, key |-> local[w].key,
                                     seen |-> slot[a].status, next |-> s]
         /\ \A u \in Workers : u # w => local'[u] = local[u]
<1>1. PICK s \in S : local' = [local EXCEPT ![w].agent = a, ![w].seen = slot[a].status,
                                          ![w].next = s]
  BY DEF Resolve
<1>2. local[w] \in Locals /\ slot[a].status \in Status
  BY DEF TypeOK, Slots
<1>3. local'[w] = [agent |-> a, key |-> local[w].key, seen |-> slot[a].status, next |-> s]
  BY <1>1, <1>2 DEF TypeOK, Locals
<1>4. local'[w] \in Locals
  BY <1>2, <1>3 DEF Locals
<1>5. local' = [local EXCEPT ![w] = local'[w]]
  BY <1>1, <1>2 DEF TypeOK, Locals
<1>6. local' \in [Workers -> Locals] /\ \A u \in Workers : u # w => local'[u] = local[u]
  BY <1>4, <1>5 DEF TypeOK
<1> QED BY <1>3, <1>6 DEF Resolve, Goto

LEMMA TypedStep == TypeInv /\ [Next]_vars => TypeInv'
<1> SUFFICES ASSUME TypeInv, [Next]_vars PROVE TypeInv'
  OBVIOUS
<1> USE DEF TypeInv, TypeOK, ControlInv, Slots, Locals, Status, Pending, Barred, PC

<1>1. ASSUME NEW w \in Workers, Enroll(w) PROVE TypeInv'
  <2>1. ASSUME NEW a \in Agents, NEW k \in Keys, CreateSlot(w, a, k) PROVE TypeInv'
    BY <2>1 DEF CreateSlot, SetSlot, redis
  <2>2. ASSUME NEW a \in Agents, NEW k \in Keys, BeginEnrollment(w, a, k) PROVE TypeInv'
    BY <2>2 DEF BeginEnrollment, Goto, Begin, Enrollable, redis, NoLocal
  <2>3. ASSUME NEW a \in Agents, PresentEnrollment(w, a) PROVE TypeInv'
    BY <2>3 DEF PresentEnrollment, Goto, Begin, redis, NoLocal
  <2>4. CASE StoreEnrollment(w)
    BY <2>4 DEF StoreEnrollment, Goto, Return, redis, NoLocal
  <2>5. CASE DeleteEnrollment(w)
    BY <2>5 DEF DeleteEnrollment, Goto, redis
  <2>6. CASE BindKey(w)
    <3> DEFINE a == local[w].agent
               k == local[w].key
               new == [slot[a] EXCEPT !.pubkey = k, !.status = "PENDING_SIGNER"]
    <3>1. pc[w] = "bind" /\ a \in Agents /\ k \in Keys
      BY <2>6 DEF BindKey
    <3>2. CASE Bound(k) \subseteq {a}
      <4>1. SetSlot(a, new) /\ pc' = [pc EXCEPT ![w] = "reread"] /\ UNCHANGED <<redis, local>>
        BY <2>6, <3>2 DEF BindKey, Goto
      <4>2. slot[a] \in Slots /\ "PENDING_SIGNER" \in Status
        BY <3>1
      <4>3. new \in Slots
        BY <3>1, <4>2, RowWith
      <4>4. slot' \in [Agents -> Slots] /\ revived' \subseteq Agents
        BY <3>1, <4>1, <4>3, SetSlotType
      <4> QED BY <3>1, <4>1, <4>4 DEF redis
    <3>3. CASE ~(Bound(k) \subseteq {a})
      <4>1. Return(w) /\ UNCHANGED <<slot, revived, redis>>
        BY <2>6, <3>3 DEF BindKey
      <4> QED BY <4>1 DEF Return, Goto, NoLocal, redis
    <3> QED BY <3>2, <3>3
  <2>7. CASE RereadSlot(w)
    <3> DEFINE a == local[w].agent
               S == StatusAfterEnrollment(slot[a])
    <3>1. a \in Agents /\ slot[a] \in Slots
      BY <2>7 DEF RereadSlot
    <3>2. S \in SUBSET Status /\ \A s \in S :
            /\ s # "NONE"
            /\ slot[a].status \in Barred => s \in Barred
            /\ s # "ACTIVE"
      BY <3>1, Resolvable
    <3>3. Resolve(w, a, S, "status")
      BY <2>7 DEF RereadSlot
    <3> HIDE DEF S
    <3>4. /\ pc' = [pc EXCEPT ![w] = "status"]
          /\ local' \in [Workers -> Locals]
          /\ \E s \in S : local'[w] = [agent |-> a, key |-> local[w].key,
                                      seen |-> slot[a].status, next |-> s]
          /\ \A u \in Workers : u # w => local'[u] = local[u]
      BY <3>1, <3>2, <3>3, ResolveType
    <3> QED BY <2>7, <3>1, <3>2, <3>4 DEF RereadSlot, redis
  <2>8. CASE WriteStatus(w)
    <3> DEFINE a == local[w].agent
               new == [slot[a] EXCEPT !.status = local[w].next]
    <3>1. pc[w] = "status" /\ a \in Agents /\ slot[a] \in Slots /\ local[w].next \in Status
      BY <2>8 DEF WriteStatus
    <3>2. new \in Slots
      BY <3>1, RowWith
    <3>3. SetSlot(a, new)
      BY <2>8 DEF WriteStatus
    <3>4. slot' \in [Agents -> Slots] /\ revived' \subseteq Agents
      BY <3>1, <3>2, <3>3, SetSlotType
    <3> QED BY <2>8, <3>4 DEF WriteStatus, Return, Goto, NoLocal, redis
  <2> QED BY <1>1, <2>1, <2>2, <2>3, <2>4, <2>5, <2>6, <2>7, <2>8 DEF Enroll
<1>2. ASSUME NEW w \in Workers, Connect(w) PROVE TypeInv'
  <2>1. ASSUME NEW a \in Agents, BeginChallenge(w, a) PROVE TypeInv'
    BY <2>1 DEF BeginChallenge, Goto, Begin, redis, NoLocal
  <2>2. ASSUME NEW k \in Keys, PresentChallenge(w, k) PROVE TypeInv'
    BY <2>2 DEF PresentChallenge, Goto, Begin, redis, NoLocal
  <2>3. ASSUME NEW a \in Agents, NEW k \in Keys, BeginHeartbeat(w, a, k) PROVE TypeInv'
    BY <2>3 DEF BeginHeartbeat, Goto, Begin, redis, NoLocal
  <2>4. CASE StoreChallenge(w)
    BY <2>4 DEF StoreChallenge, Goto, Return, redis, NoLocal
  <2>5. CASE CompleteConnect(w)
    <3> DEFINE a == local[w].agent
               S == StatusAfterContact(slot[a])
    <3>1. a \in Agents /\ slot[a] \in Slots
      BY <2>5 DEF CompleteConnect
    <3>2. S \in SUBSET Status /\ \A s \in S :
            /\ s # "NONE"
            /\ slot[a].status \in Barred => s \in Barred
      BY <3>1, Resolvable
    <3>3. Resolve(w, a, S, "session")
      BY <2>5 DEF CompleteConnect
    <3> HIDE DEF S
    <3>4. /\ pc' = [pc EXCEPT ![w] = "session"]
          /\ local' \in [Workers -> Locals]
          /\ \E s \in S : local'[w] = [agent |-> a, key |-> local[w].key,
                                      seen |-> slot[a].status, next |-> s]
          /\ \A u \in Workers : u # w => local'[u] = local[u]
      BY <3>1, <3>2, <3>3, ResolveType
    <3> QED BY <2>5, <3>1, <3>2, <3>4 DEF CompleteConnect, redis
  <2>6. CASE ReadHeartbeat(w)
    <3> DEFINE a == local[w].agent
               S == StatusAfterContact(slot[a])
    <3>1. a \in Agents /\ slot[a] \in Slots
      BY <2>6 DEF ReadHeartbeat
    <3>2. S \in SUBSET Status /\ \A s \in S :
            /\ s # "NONE"
            /\ slot[a].status \in Barred => s \in Barred
      BY <3>1, Resolvable
    <3>3. Resolve(w, a, S, "write")
      BY <2>6 DEF ReadHeartbeat
    <3> HIDE DEF S
    <3>4. /\ pc' = [pc EXCEPT ![w] = "write"]
          /\ local' \in [Workers -> Locals]
          /\ \E s \in S : local'[w] = [agent |-> a, key |-> local[w].key,
                                      seen |-> slot[a].status, next |-> s]
          /\ \A u \in Workers : u # w => local'[u] = local[u]
      BY <3>1, <3>2, <3>3, ResolveType
    <3> QED BY <2>6, <3>1, <3>2, <3>4 DEF ReadHeartbeat, redis
  <2>7. CASE IssueSession(w)
    BY <2>7 DEF IssueSession, Goto, redis
  <2>8. CASE WriteContact(w)
    <3> DEFINE a == local[w].agent
               new == [slot[a] EXCEPT !.status = local[w].next, !.last = "recent"]
    <3>1. pc[w] = "write" /\ a \in Agents /\ slot[a] \in Slots /\ local[w].next \in Status
      BY <2>8 DEF WriteContact
    <3>2. new \in Slots
      BY <3>1, RowWith
    <3>3. SetSlot(a, new)
      BY <2>8 DEF WriteContact
    <3>4. slot' \in [Agents -> Slots] /\ revived' \subseteq Agents
      BY <3>1, <3>2, <3>3, SetSlotType
    <3> QED BY <2>8, <3>4 DEF WriteContact, Return, Goto, NoLocal, redis
  <2>9. CASE DeleteConnectChallenge(w)
    BY <2>9 DEF DeleteConnectChallenge, Goto, redis
  <2> QED BY <1>2, <2>1, <2>2, <2>3, <2>4, <2>5, <2>6, <2>7, <2>8, <2>9 DEF Connect
<1>3. ASSUME NEW w \in Workers, ConnectMcp(w) PROVE TypeInv'
  <2>1. ASSUME NEW a \in Agents, BeginInit(w, a) PROVE TypeInv'
    BY <2>1 DEF BeginInit, Goto, Begin, redis, NoLocal
  <2>2. ASSUME NEW k \in Keys, PresentNonce(w, k) PROVE TypeInv'
    BY <2>2 DEF PresentNonce, Goto, Begin, redis, NoLocal
  <2>3. ASSUME NEW a \in Agents, NEW k \in Keys, Ping(w, a, k) PROVE TypeInv'
    <3> DEFINE S == resolve_mcp_slot_status(slot[a].status)
    <3>1. slot[a] \in Slots /\ slot[a].status \notin Barred
      BY <2>3 DEF Ping, IsBarred
    <3>2. S \in SUBSET Status /\ "NONE" \notin S
      BY <3>1, Resolvable
    <3>3. Resolve(w, a, S, "write")
      BY <2>3 DEF Ping
    <3> HIDE DEF S
    <3>4. /\ pc' = [pc EXCEPT ![w] = "write"]
          /\ local' \in [Workers -> Locals]
          /\ \E s \in S : local'[w] = [agent |-> a, key |-> local[w].key,
                                      seen |-> slot[a].status, next |-> s]
          /\ \A u \in Workers : u # w => local'[u] = local[u]
      BY <3>2, <3>3, ResolveType
    <3> QED BY <2>3, <3>1, <3>2, <3>4 DEF Ping, redis
  <2>4. CASE StoreNonce(w)
    BY <2>4 DEF StoreNonce, Goto, Return, redis, NoLocal
  <2>5. CASE DeleteNonce(w)
    BY <2>5 DEF DeleteNonce, Goto, redis
  <2>6. CASE LoadAgent(w)
    <3>1. CASE Return(w)
      BY <2>6, <3>1 DEF LoadAgent, Return, Goto, NoLocal, redis
    <3>2. ASSUME NEW a \in Agents, a \in Bound(local[w].key), ~IsBarred(a),
                 Resolve(w, a, resolve_mcp_slot_status(slot[a].status), "session")
          PROVE  TypeInv'
      <4> DEFINE S == resolve_mcp_slot_status(slot[a].status)
      <4>1. slot[a] \in Slots /\ slot[a].status \notin Barred
        BY <3>2 DEF IsBarred
      <4>2. S \in SUBSET Status /\ "NONE" \notin S
        BY <4>1, Resolvable
      <4>3. Resolve(w, a, S, "session")
        BY <3>2
      <4> HIDE DEF S
      <4>4. /\ pc' = [pc EXCEPT ![w] = "session"]
            /\ local' \in [Workers -> Locals]
            /\ \E s \in S : local'[w] = [agent |-> a, key |-> local[w].key,
                                        seen |-> slot[a].status, next |-> s]
            /\ \A u \in Workers : u # w => local'[u] = local[u]
        BY <4>2, <4>3, ResolveType
      <4> QED BY <2>6, <4>1, <4>2, <4>4 DEF LoadAgent, redis
    <3> QED BY <2>6, <3>1, <3>2 DEF LoadAgent, Bound
  <2> QED BY <1>3, <2>1, <2>2, <2>3, <2>4, <2>5, <2>6 DEF ConnectMcp
<1>4. ASSUME NEW w \in Workers, Bar(w) PROVE TypeInv'
  <2>1. ASSUME NEW a \in Agents, SuspendAgent(w, a) PROVE TypeInv'
    <3>1. [slot[a] EXCEPT !.status = "SUSPENDED"] \in Slots
      OBVIOUS
    <3> QED BY <2>1, <3>1, SetSlotType DEF SuspendAgent, redis
  <2>2. ASSUME NEW a \in Agents, BeginRevocation(w, a) PROVE TypeInv'
    BY <2>2 DEF BeginRevocation, Goto, Begin, redis, NoLocal
  <2>3. CASE CommitRevocation(w)
    BY <2>3 DEF CommitRevocation, Goto, SetSlot, RevokedRow, redis
  <2>4. CASE DeleteChallenges(w)
    BY <2>4 DEF DeleteChallenges, Goto, Return, redis, NoLocal
  <2> QED BY <1>4, <2>1, <2>2, <2>3, <2>4 DEF Bar
<1>5. ASSUME NEW w \in Workers, Fail(w) PROVE TypeInv'
  BY <1>5 DEF Fail, Return, Goto, NoLocal, redis
<1>6. ASSUME NEW a \in Agents, Silence(a) PROVE TypeInv'
  BY <1>6 DEF Silence, redis
<1>7. CASE MonitorHeartbeats
  BY <1>7 DEF MonitorHeartbeats, Stale, redis
<1>8. CASE ForgetChallenge
  BY <1>8 DEF ForgetChallenge
<1>9. CASE UNCHANGED vars
  BY <1>9 DEF vars, redis
<1> QED BY <1>1, <1>2, <1>3, <1>4, <1>5, <1>6, <1>7, <1>8, <1>9 DEF Next

\* Every reachable state of AgentSlots is well typed.
THEOREM TypeCorrect == Spec => []TypeOK
<1>1. TypeInv => TypeOK
  BY DEF TypeInv
<1> QED BY <1>1, InitInv, TypedStep, PTL DEF Spec

(***************************************************************************)
(* What one step does to a row.                                            *)
(***************************************************************************)
Changed(a) ==
  \/ slot'[a] = slot[a]
  \/ /\ slot[a].status = "NONE"
     /\ slot'[a].status = "PENDING_CONFIGURATION"
     /\ slot'[a].pubkey \in Keys
  \/ \E w \in Workers :
       /\ pc[w] = "bind" /\ local[w].agent = a
       /\ slot'[a] = [slot[a] EXCEPT !.pubkey = local[w].key, !.status = "PENDING_SIGNER"]
  \/ \E w \in Workers :
       /\ pc[w] = "status" /\ local[w].agent = a
       /\ slot'[a] = [slot[a] EXCEPT !.status = local[w].next]
  \/ \E w \in Workers :
       /\ pc[w] = "write" /\ local[w].agent = a
       /\ slot'[a] = [slot[a] EXCEPT !.status = local[w].next, !.last = "recent"]
  \/ slot'[a] = [slot[a] EXCEPT !.status = "SUSPENDED"]
  \/ slot'[a] = RevokedRow
  \/ slot[a].last = "recent" /\ slot'[a] = [slot[a] EXCEPT !.last = "old"]
  \/ Stale(a) /\ slot'[a] = [slot[a] EXCEPT !.status = "INACTIVE"]

\* A row that leaves its bar is recorded.
Recorded(a) ==
  /\ revived \subseteq revived'
  /\ IsBarred(a) /\ slot'[a].status \notin Barred => a \in revived'

LEMMA SetSlotChanges ==
  ASSUME TypeOK, NEW b \in Agents, NEW row \in Slots, SetSlot(b, row), NEW a \in Agents
  PROVE  /\ Recorded(a)
         /\ slot'[a] = IF a = b THEN row ELSE slot[a]
BY SetSlotType DEF Recorded, IsBarred

LEMMA SlotStep ==
  ASSUME TypeInv, [Next]_vars, NEW a \in Agents
  PROVE  Changed(a) /\ Recorded(a)
<1>1. CASE UNCHANGED <<slot, revived>>
  BY <1>1 DEF Changed, Recorded, IsBarred
<1>2. ASSUME NEW w \in Workers, NEW b \in Agents, NEW k \in Keys, CreateSlot(w, b, k)
      PROVE  Changed(a) /\ Recorded(a)
  <2> DEFINE new == [status |-> "PENDING_CONFIGURATION", pubkey |-> k, last |-> "never"]
  <2>1. new \in Slots
    BY DEF Slots, Status, Pending
  <2>2. Recorded(a) /\ slot'[a] = IF a = b THEN new ELSE slot[a]
    BY <1>2, <2>1, SetSlotChanges DEF CreateSlot, TypeInv
  <2>3. CASE a = b
    <3>1. slot'[a] = new /\ slot[a].status = "NONE"
      BY <1>2, <2>2, <2>3 DEF CreateSlot
    <3>2. slot'[a].status = "PENDING_CONFIGURATION" /\ slot'[a].pubkey = k
      BY <3>1
    <3> QED BY <2>2, <3>1, <3>2 DEF Changed
  <2>4. CASE a # b
    BY <2>2, <2>4 DEF Changed
  <2> QED BY <2>3, <2>4
<1>3. ASSUME NEW w \in Workers, BindKey(w)
      PROVE  Changed(a) /\ Recorded(a)
  <2> DEFINE b == local[w].agent
             k == local[w].key
             new == [slot[b] EXCEPT !.pubkey = k, !.status = "PENDING_SIGNER"]
  <2>1. pc[w] = "bind" /\ b \in Agents /\ k \in Keys
    BY <1>3 DEF BindKey, TypeInv, ControlInv
  <2>2. CASE Bound(k) \subseteq {b}
    <3>1. SetSlot(b, new)
      BY <1>3, <2>2 DEF BindKey
    <3>2. slot[b] \in Slots /\ "PENDING_SIGNER" \in Status
      BY <2>1 DEF TypeInv, TypeOK, Status, Pending
    <3>3. new \in Slots
      BY <2>1, <3>2, RowWith
    <3>4. Recorded(a) /\ slot'[a] = IF a = b THEN new ELSE slot[a]
      BY <2>1, <3>1, <3>3, SetSlotChanges DEF TypeInv
    <3> QED BY <2>1, <3>4 DEF Changed
  <2>3. CASE ~(Bound(k) \subseteq {b})
    BY <1>1, <1>3, <2>3 DEF BindKey
  <2> QED BY <2>2, <2>3
<1>4. ASSUME NEW w \in Workers, WriteStatus(w)
      PROVE  Changed(a) /\ Recorded(a)
  <2> DEFINE b == local[w].agent
             new == [slot[b] EXCEPT !.status = local[w].next]
  <2>1. /\ pc[w] = "status" /\ b \in Agents
        /\ slot[b] \in Slots /\ local[w].next \in Status
    BY <1>4 DEF WriteStatus, TypeInv, TypeOK, ControlInv, Locals
  <2>2. new \in Slots
    BY <2>1, RowWith
  <2>3. Recorded(a) /\ slot'[a] = IF a = b THEN new ELSE slot[a]
    BY <1>4, <2>1, <2>2, SetSlotChanges DEF WriteStatus, TypeInv
  <2> QED BY <2>1, <2>3 DEF Changed
<1>5. ASSUME NEW w \in Workers, WriteContact(w)
      PROVE  Changed(a) /\ Recorded(a)
  <2> DEFINE b == local[w].agent
             new == [slot[b] EXCEPT !.status = local[w].next, !.last = "recent"]
  <2>1. /\ pc[w] = "write" /\ b \in Agents
        /\ slot[b] \in Slots /\ local[w].next \in Status
    BY <1>5 DEF WriteContact, TypeInv, TypeOK, ControlInv, Locals
  <2>2. new \in Slots
    BY <2>1, RowWith
  <2>3. Recorded(a) /\ slot'[a] = IF a = b THEN new ELSE slot[a]
    BY <1>5, <2>1, <2>2, SetSlotChanges DEF WriteContact, TypeInv
  <2> QED BY <2>1, <2>3 DEF Changed
<1>6. ASSUME NEW w \in Workers, NEW b \in Agents, SuspendAgent(w, b)
      PROVE  Changed(a) /\ Recorded(a)
  <2>1. [slot[b] EXCEPT !.status = "SUSPENDED"] \in Slots
    BY DEF TypeInv, TypeOK, Slots, Status, Barred
  <2>2. Recorded(a) /\ slot'[a] = IF a = b THEN [slot[b] EXCEPT !.status = "SUSPENDED"] ELSE slot[a]
    BY <1>6, <2>1, SetSlotChanges DEF SuspendAgent, TypeInv
  <2> QED BY <2>2 DEF Changed
<1>7. ASSUME NEW w \in Workers, CommitRevocation(w)
      PROVE  Changed(a) /\ Recorded(a)
  <2>1. local[w].agent \in Agents
    BY <1>7 DEF CommitRevocation, TypeInv, ControlInv
  <2>2. RevokedRow \in Slots
    BY DEF RevokedRow, Slots, Status, Barred
  <2>3. Recorded(a) /\ slot'[a] = IF a = local[w].agent THEN RevokedRow ELSE slot[a]
    BY <1>7, <2>1, <2>2, SetSlotChanges DEF CommitRevocation, TypeInv
  <2> QED BY <2>3 DEF Changed
<1>8. ASSUME NEW b \in Agents, Silence(b)
      PROVE  Changed(a) /\ Recorded(a)
  <2>1. slot'[a] = slot[a] \/ (slot[a].last = "recent" /\ slot'[a] = [slot[a] EXCEPT !.last = "old"])
    BY <1>8 DEF Silence, TypeInv, TypeOK
  <2>2. slot[a] \in Slots /\ revived' = revived
    BY <1>8 DEF Silence, TypeInv, TypeOK
  <2>3. slot'[a].status = slot[a].status
    BY <2>1, <2>2 DEF Slots
  <2> QED BY <2>1, <2>2, <2>3 DEF Changed, Recorded, IsBarred
<1>9. CASE MonitorHeartbeats
  <2>1. slot'[a] = slot[a] \/ (Stale(a) /\ slot'[a] = [slot[a] EXCEPT !.status = "INACTIVE"])
    BY <1>9 DEF MonitorHeartbeats
  <2>2. slot[a].status \in Barred => slot'[a] = slot[a]
    BY <2>1 DEF Stale, Barred
  <2>3. Recorded(a)
    BY <1>9, <2>2 DEF MonitorHeartbeats, Recorded, IsBarred
  <2> QED BY <2>1, <2>3 DEF Changed
<1> QED
  <2>1. ASSUME NEW w \in Workers, Enroll(w) PROVE Changed(a) /\ Recorded(a)
    BY <1>1, <1>2, <1>3, <1>4, <2>1
    DEF Enroll, BeginEnrollment, PresentEnrollment, StoreEnrollment, DeleteEnrollment, RereadSlot
  <2>2. ASSUME NEW w \in Workers, Connect(w) PROVE Changed(a) /\ Recorded(a)
    BY <1>1, <1>5, <2>2
    DEF Connect, BeginChallenge, PresentChallenge, BeginHeartbeat, StoreChallenge,
        DeleteConnectChallenge, CompleteConnect, ReadHeartbeat, IssueSession
  <2>3. ASSUME NEW w \in Workers, ConnectMcp(w) PROVE Changed(a) /\ Recorded(a)
    BY <1>1, <2>3
    DEF ConnectMcp, BeginInit, PresentNonce, Ping, StoreNonce, DeleteNonce, LoadAgent
  <2>4. ASSUME NEW w \in Workers, Bar(w) PROVE Changed(a) /\ Recorded(a)
    BY <1>1, <1>6, <1>7, <2>4 DEF Bar, BeginRevocation, DeleteChallenges
  <2>5. ASSUME NEW w \in Workers, Fail(w) PROVE Changed(a) /\ Recorded(a)
    BY <1>1, <2>5 DEF Fail
  <2>6. CASE ForgetChallenge
    BY <1>1, <2>6 DEF ForgetChallenge
  <2>7. CASE UNCHANGED vars
    BY <1>1, <2>7 DEF vars
  <2> QED BY <1>8, <1>9, <2>1, <2>2, <2>3, <2>4, <2>5, <2>6, <2>7 DEF Next


\* An UPDATE sets the columns it names and leaves the others.
LEMMA Columns ==
  ASSUME NEW row \in Slots, NEW s, NEW k
  PROVE  /\ [row EXCEPT !.status = s].status = s
         /\ [row EXCEPT !.status = s].pubkey = row.pubkey
         /\ [row EXCEPT !.status = s].last = row.last
         /\ [row EXCEPT !.status = s, !.last = "recent"].status = s
         /\ [row EXCEPT !.status = s, !.last = "recent"].pubkey = row.pubkey
         /\ [row EXCEPT !.status = s, !.last = "recent"].last = "recent"
         /\ [row EXCEPT !.pubkey = k, !.status = s].status = s
         /\ [row EXCEPT !.pubkey = k, !.status = s].pubkey = k
         /\ [row EXCEPT !.pubkey = k, !.status = s].last = row.last
         /\ [row EXCEPT !.last = "old"].status = row.status
         /\ [row EXCEPT !.last = "old"].pubkey = row.pubkey
         /\ [row EXCEPT !.last = "old"].last = "old"
BY DEF Slots

\* The same step, column by column.
Became(a, s, k, l) == slot'[a].status = s /\ slot'[a].pubkey = k /\ slot'[a].last = l

LEMMA ColumnStep ==
  ASSUME TypeInv, [Next]_vars, NEW a \in Agents
  PROVE  \/ slot'[a] = slot[a]
         \/ /\ slot[a].status = "NONE"
            /\ slot'[a].status = "PENDING_CONFIGURATION"
            /\ slot'[a].pubkey \in Keys
         \/ \E w \in Workers :
              /\ pc[w] = "bind" /\ local[w].agent = a
              /\ Became(a, "PENDING_SIGNER", local[w].key, slot[a].last)
         \/ \E w \in Workers :
              /\ pc[w] = "status" /\ local[w].agent = a
              /\ Became(a, local[w].next, slot[a].pubkey, slot[a].last)
         \/ \E w \in Workers :
              /\ pc[w] = "write" /\ local[w].agent = a
              /\ Became(a, local[w].next, slot[a].pubkey, "recent")
         \/ Became(a, "SUSPENDED", slot[a].pubkey, slot[a].last)
         \/ Became(a, "REVOKED", None, "never")
         \/ Became(a, slot[a].status, slot[a].pubkey, "old") /\ slot[a].last = "recent"
         \/ Became(a, "INACTIVE", slot[a].pubkey, slot[a].last) /\ Stale(a)
<1>1. slot[a] \in Slots
  BY DEF TypeInv, TypeOK
<1>2. Changed(a)
  BY SlotStep
<1>3. ASSUME NEW s, slot'[a] = [slot[a] EXCEPT !.status = s]
      PROVE  Became(a, s, slot[a].pubkey, slot[a].last)
  BY <1>1, <1>3, Columns DEF Became
<1>4. ASSUME NEW s, slot'[a] = [slot[a] EXCEPT !.status = s, !.last = "recent"]
      PROVE  Became(a, s, slot[a].pubkey, "recent")
  BY <1>1, <1>4, Columns DEF Became
<1>5. ASSUME NEW k, slot'[a] = [slot[a] EXCEPT !.pubkey = k, !.status = "PENDING_SIGNER"]
      PROVE  Became(a, "PENDING_SIGNER", k, slot[a].last)
  BY <1>1, <1>5, Columns DEF Became
<1>6. slot'[a] = [slot[a] EXCEPT !.last = "old"] => Became(a, slot[a].status, slot[a].pubkey, "old")
  BY <1>1, Columns DEF Became
<1>7. slot'[a] = RevokedRow => Became(a, "REVOKED", None, "never")
  BY DEF Became, RevokedRow
<1> QED BY <1>2, <1>3, <1>4, <1>5, <1>6, <1>7 DEF Changed

\* A slot that is active has a last contact, in every reachable state: the only
\* UPDATE that makes it active also writes last_connected.
THEOREM ContactCorrect == Spec => []ActiveHasContact
<1>1. Init => ActiveHasContact
  BY DEF Init, NoSlot, ActiveHasContact
<1>2. TypeInv /\ ActiveHasContact /\ [Next]_vars => ActiveHasContact'
  <2> SUFFICES ASSUME TypeInv, ActiveHasContact, [Next]_vars, NEW a \in Agents,
                      slot'[a].status = "ACTIVE"
               PROVE  slot'[a].last # "never"
    BY DEF ActiveHasContact
  <2>1. ASSUME NEW w \in Workers, pc[w] = "status" PROVE local[w].next # "ACTIVE"
    BY <2>1 DEF TypeInv, ControlInv
  <2>2. slot[a].status = "ACTIVE" => slot[a].last # "never"
    BY DEF ActiveHasContact
  <2> QED BY <2>1, <2>2, ColumnStep DEF Became
<1> QED BY <1>1, <1>2, InitInv, TypedStep, PTL DEF Spec

\* A barred slot comes back only by an enrollment challenge from before, or by
\* a write that was computed before.
THEOREM BarCorrect == Spec => BarredComesBackLate
<1>1. ASSUME TypeInv, [Next]_vars, NEW a \in Agents,
             slot[a].status \in Barred, slot'[a].status \notin Barred
      PROVE  \E w \in Workers :
               /\ local[w].agent = a
               /\ \/ pc[w] = "bind"
                  \/ pc[w] \in {"status", "write"} /\ local[w].seen \notin Barred
  <2>1. ASSUME NEW w \in Workers, pc[w] \in {"status", "write"}, local[w].seen \in Barred
        PROVE  local[w].next \in Barred
    BY <1>1, <2>1 DEF TypeInv, ControlInv
  <2>2. slot[a].status # "NONE" /\ ~Stale(a)
    BY <1>1 DEF Stale, Barred
  <2>3. "SUSPENDED" \in Barred /\ "REVOKED" \in Barred
    BY DEF Barred
  <2>4. PICK w \in Workers :
          /\ local[w].agent = a
          /\ \/ pc[w] = "bind"
             \/ pc[w] \in {"status", "write"} /\ slot'[a].status = local[w].next
    BY <1>1, <2>2, <2>3, ColumnStep DEF Became
  <2> QED BY <1>1, <2>1, <2>4
<1>2. TypeInv /\ [Next]_vars =>
        [\A a \in Agents : slot[a].status \in Barred /\ slot'[a].status \notin Barred =>
           \E w \in Workers :
             /\ local[w].agent = a
             /\ \/ pc[w] = "bind"
                \/ pc[w] \in {"status", "write"} /\ local[w].seen \notin Barred]_vars
  BY <1>1
<1> QED BY <1>2, InitInv, TypedStep, PTL DEF Spec, BarredComesBackLate


(***************************************************************************)
(* Who works for which key.                                                *)
(***************************************************************************)

\* An idle handler holds no key.
IdleInv == \A w \in Workers : pc[w] = "idle" => local[w].key = None

\* Something in flight takes k for the key of a: a session, a challenge or a
\* handler.
Claimed(a, k) ==
  \/ <<a, k>> \in sessions
  \/ challenge[k] = a
  \/ enrollment[a] = k
  \/ \E w \in Workers : local[w].agent = a /\ local[w].key = k

\* How handler w comes to hold an agent and a key it did not hold before.
Takes(w, a, k) ==
  /\ pc'[w] # "idle"
  /\ UNCHANGED <<slot, revived>>
  /\ \/ Enrollable(a, k)
     \/ slot[a].status # "NONE" /\ k \in {slot[a].pubkey, None}
     \/ slot[a].pubkey = k /\ k # None
     \/ enrollment[a] = k /\ k # None
     \/ challenge[k] = a /\ k # None
     \/ <<a, k>> \in sessions
     \/ k = None /\ \E x \in Keys : <<a, x>> \in sessions

HandlerStep(w) ==
  \/ /\ local'[w].agent = local[w].agent /\ local'[w].key = local[w].key
     /\ pc'[w] = pc[w] \/ pc'[w] # "idle"
  \/ local'[w].agent = None /\ (pc'[w] = "idle" => local'[w].key = None)
  \/ local'[w].agent \in Agents /\ Takes(w, local'[w].agent, local'[w].key)

LEMMA BeginStep ==
  ASSUME TypeOK, NEW w \in Workers, NEW label \in PC \ {"idle"}, NEW a, NEW k,
         Begin(w, label, a, k), NEW u \in Workers
  PROVE  IF u = w THEN local'[u].agent = a /\ local'[u].key = k /\ pc'[u] # "idle"
                  ELSE local'[u] = local[u] /\ pc'[u] = pc[u]
BY DEF TypeOK, Begin, Goto, NoLocal

LEMMA ReturnStep ==
  ASSUME TypeOK, NEW w \in Workers, Return(w), NEW u \in Workers
  PROVE  HandlerStep(u)
BY DEF TypeOK, Return, Goto, NoLocal, HandlerStep

LEMMA GotoStep ==
  ASSUME TypeOK, NEW w \in Workers, NEW label \in PC \ {"idle"}, Goto(w, label),
         UNCHANGED local, NEW u \in Workers
  PROVE  HandlerStep(u)
BY DEF TypeOK, Goto, HandlerStep

LEMMA ResolveStep ==
  ASSUME TypeOK, NEW w \in Workers, NEW a \in Agents, NEW S \in SUBSET Status,
         NEW label \in PC \ {"idle"}, Resolve(w, a, S, label), NEW u \in Workers
  PROVE  IF u = w THEN local'[u].agent = a /\ local'[u].key = local[u].key /\ pc'[u] # "idle"
                  ELSE local'[u] = local[u] /\ pc'[u] = pc[u]
<1>1. PICK s \in S : local' = [local EXCEPT ![w].agent = a, ![w].seen = slot[a].status,
                                          ![w].next = s]
  BY DEF Resolve
<1>2. local \in [Workers -> Locals] /\ local[w] \in Locals /\ pc \in [Workers -> PC]
  BY DEF TypeOK
<1>3. local'[w].agent = a /\ local'[w].key = local[w].key
  BY <1>1, <1>2 DEF Locals
<1>4. u # w => local'[u] = local[u]
  BY <1>1, <1>2
<1> QED BY <1>2, <1>3, <1>4 DEF Resolve, Goto

LEMMA HandlersStep ==
  ASSUME TypeInv, IdleInv, [Next]_vars, NEW u \in Workers
  PROVE  HandlerStep(u)
<1> USE DEF TypeInv
<1>0. PC \ {"idle"} = {"start", "enroll", "bind", "reread", "connect", "complete", "read", "session",
                       "init", "mcp", "load", "beat", "status", "write", "revoke", "clean"}
  BY DEF PC
<1>1. CASE UNCHANGED <<pc, local>>
  BY <1>1 DEF HandlerStep
<1>2. ASSUME NEW w \in Workers, Enroll(w) PROVE HandlerStep(u)
  <2>1. ASSUME NEW a \in Agents, NEW k \in Keys, BeginEnrollment(w, a, k) PROVE HandlerStep(u)
    BY <1>0, <2>1, BeginStep DEF BeginEnrollment, HandlerStep, Takes
  <2>2. ASSUME NEW a \in Agents, PresentEnrollment(w, a) PROVE HandlerStep(u)
    BY <1>0, <2>2, BeginStep DEF PresentEnrollment, HandlerStep, Takes
  <2>3. CASE BindKey(w)
    BY <1>0, <2>3, GotoStep, ReturnStep DEF BindKey
  <2>4. CASE RereadSlot(w)
    <3>1. local[w].agent \in Agents /\ slot[local[w].agent] \in Slots
      BY <2>4 DEF RereadSlot, ControlInv, TypeOK
    <3>2. StatusAfterEnrollment(slot[local[w].agent]) \in SUBSET Status
      BY <3>1, Resolvable
    <3>3. Resolve(w, local[w].agent, StatusAfterEnrollment(slot[local[w].agent]), "status")
      BY <2>4 DEF RereadSlot
    <3> QED BY <1>0, <3>1, <3>2, <3>3, ResolveStep DEF HandlerStep
  <2> QED BY <1>0, <1>1, <1>2, <2>1, <2>2, <2>3, <2>4, ReturnStep, GotoStep
          DEF Enroll, CreateSlot, StoreEnrollment, DeleteEnrollment, WriteStatus
<1>3. ASSUME NEW w \in Workers, Connect(w) PROVE HandlerStep(u)
  <2>1. ASSUME NEW a \in Agents, BeginChallenge(w, a) PROVE HandlerStep(u)
    BY <1>0, <2>1, BeginStep DEF BeginChallenge, HandlerStep, Takes
  <2>2. ASSUME NEW k \in Keys, PresentChallenge(w, k) PROVE HandlerStep(u)
    <3>1. challenge[k] \in Agents /\ k # None
      BY <2>2, NoneAssumption DEF PresentChallenge, TypeOK
    <3> QED BY <1>0, <2>2, <3>1, BeginStep DEF PresentChallenge, HandlerStep, Takes
  <2>3. ASSUME NEW a \in Agents, NEW k \in Keys, BeginHeartbeat(w, a, k) PROVE HandlerStep(u)
    BY <1>0, <2>3, BeginStep DEF BeginHeartbeat, HandlerStep, Takes
  <2>4. CASE CompleteConnect(w) \/ ReadHeartbeat(w)
    <3>1. local[w].agent \in Agents /\ slot[local[w].agent] \in Slots
      BY <2>4 DEF CompleteConnect, ReadHeartbeat, ControlInv, TypeOK
    <3>2. StatusAfterContact(slot[local[w].agent]) \in SUBSET Status
      BY <3>1, Resolvable
    <3>3. \E label \in {"session", "write"} :
            Resolve(w, local[w].agent, StatusAfterContact(slot[local[w].agent]), label)
      BY <2>4 DEF CompleteConnect, ReadHeartbeat
    <3> QED BY <1>0, <3>1, <3>2, <3>3, ResolveStep DEF HandlerStep
  <2> QED BY <1>0, <1>3, <2>1, <2>2, <2>3, <2>4, ReturnStep, GotoStep
          DEF Connect, StoreChallenge, DeleteConnectChallenge, IssueSession, WriteContact
<1>4. ASSUME NEW w \in Workers, ConnectMcp(w) PROVE HandlerStep(u)
  <2>1. ASSUME NEW a \in Agents, BeginInit(w, a) PROVE HandlerStep(u)
    BY <1>0, <2>1, BeginStep DEF BeginInit, HandlerStep, Takes
  <2>2. ASSUME NEW k \in Keys, PresentNonce(w, k) PROVE HandlerStep(u)
    BY <1>0, <2>2, BeginStep DEF PresentNonce, HandlerStep
  <2>3. ASSUME NEW a \in Agents, NEW k \in Keys, Ping(w, a, k) PROVE HandlerStep(u)
    <3>1. resolve_mcp_slot_status(slot[a].status) \in SUBSET Status
      BY Resolvable DEF TypeOK
    <3>2. local[w].key = None /\ UNCHANGED <<slot, revived>> /\ <<a, k>> \in sessions
      BY <2>3 DEF Ping, IdleInv
    <3>3. Resolve(w, a, resolve_mcp_slot_status(slot[a].status), "write")
      BY <2>3 DEF Ping
    <3> QED BY <1>0, <3>1, <3>2, <3>3, ResolveStep DEF HandlerStep, Takes
  <2>4. CASE LoadAgent(w)
    <3>1. ASSUME NEW a \in Bound(local[w].key),
                 Resolve(w, a, resolve_mcp_slot_status(slot[a].status), "session")
          PROVE  HandlerStep(u)
      <4>1. a \in Agents /\ slot[a].pubkey = local[w].key
        BY DEF Bound
      <4>2. local[w].key # None /\ UNCHANGED <<slot, revived>>
        BY <2>4, NoneAssumption DEF LoadAgent, ControlInv
      <4>3. resolve_mcp_slot_status(slot[a].status) \in SUBSET Status
        BY <4>1, Resolvable DEF TypeOK
      <4> QED BY <1>0, <3>1, <4>1, <4>2, <4>3, ResolveStep DEF HandlerStep, Takes
    <3> QED BY <2>4, <3>1, ReturnStep DEF LoadAgent
  <2> QED BY <1>0, <1>4, <2>1, <2>2, <2>3, <2>4, ReturnStep, GotoStep
          DEF ConnectMcp, StoreNonce, DeleteNonce
<1>5. ASSUME NEW w \in Workers, Bar(w) PROVE HandlerStep(u)
  <2>1. ASSUME NEW a \in Agents, BeginRevocation(w, a) PROVE HandlerStep(u)
    BY <1>0, <2>1, BeginStep DEF BeginRevocation, HandlerStep, Takes
  <2> QED BY <1>0, <1>1, <1>5, <2>1, ReturnStep, GotoStep
          DEF Bar, SuspendAgent, CommitRevocation, DeleteChallenges
<1>6. ASSUME NEW w \in Workers, Fail(w) PROVE HandlerStep(u)
  BY <1>6, ReturnStep DEF Fail
<1> QED BY <1>1, <1>2, <1>3, <1>4, <1>5, <1>6
        DEF Next, Silence, MonitorHeartbeats, ForgetChallenge, vars


\* A key gets into Redis only from the handler that holds it.
LEMMA RedisStep ==
  ASSUME TypeInv, [Next]_vars, NEW a \in Agents, NEW k \in Keys,
         \/ enrollment'[a] = k
         \/ challenge'[k] = a
         \/ <<a, k>> \in sessions'
  PROVE  Claimed(a, k)
<1> USE NoneAssumption DEF TypeInv, TypeOK, Claimed
<1>1. CASE UNCHANGED redis
  BY <1>1 DEF redis
<1>2. ASSUME NEW w \in Workers, Enroll(w) PROVE Claimed(a, k)
  <2>1. CASE StoreEnrollment(w)
    BY <2>1 DEF StoreEnrollment
  <2>2. CASE DeleteEnrollment(w)
    BY <2>2 DEF DeleteEnrollment
  <2> QED BY <1>1, <1>2, <2>1, <2>2
          DEF Enroll, CreateSlot, BeginEnrollment, PresentEnrollment, BindKey, RereadSlot, WriteStatus
<1>3. ASSUME NEW w \in Workers, Connect(w) PROVE Claimed(a, k)
  <2>1. CASE StoreChallenge(w)
    BY <2>1 DEF StoreChallenge
  <2>2. CASE DeleteConnectChallenge(w)
    BY <2>2 DEF DeleteConnectChallenge
  <2>3. CASE IssueSession(w)
    BY <2>3 DEF IssueSession
  <2> QED BY <1>1, <1>3, <2>1, <2>2, <2>3
          DEF Connect, BeginChallenge, PresentChallenge, BeginHeartbeat, CompleteConnect,
              ReadHeartbeat, WriteContact
<1>4. ASSUME NEW w \in Workers, ConnectMcp(w) PROVE Claimed(a, k)
  <2>1. CASE StoreNonce(w) \/ DeleteNonce(w)
    BY <2>1 DEF StoreNonce, DeleteNonce
  <2> QED BY <1>1, <1>4, <2>1 DEF ConnectMcp, BeginInit, PresentNonce, Ping, LoadAgent
<1>5. ASSUME NEW w \in Workers, Bar(w) PROVE Claimed(a, k)
  <2>1. CASE DeleteChallenges(w)
    BY <2>1 DEF DeleteChallenges
  <2> QED BY <1>1, <1>5, <2>1 DEF Bar, SuspendAgent, BeginRevocation, CommitRevocation
<1>6. CASE ForgetChallenge
  BY <1>6 DEF ForgetChallenge
<1> QED BY <1>1, <1>2, <1>3, <1>4, <1>5, <1>6 DEF Next, Fail, Silence, MonitorHeartbeats, vars

(***************************************************************************)
(* SessionsMatchKeys.                                                      *)
(***************************************************************************)

\* A slot without a key that never came back from a bar is barred, or does not
\* exist; whatever claims a key for a slot knows one that exists, ...
SlotInv ==
  \A a \in Agents :
    /\ slot[a].status = "NONE" => slot[a].pubkey = None
    /\ a \notin revived /\ slot[a].pubkey = None => slot[a].status \in Barred \cup {"NONE"}

HolderInv == \A w \in Workers : \A a \in Agents :
  local[w].agent = a => slot[a].status # "NONE"

\* ... and the slot has no other key, unless it came back from a bar.
Honest(a, k) ==
  /\ slot[a].status # "NONE"
  /\ a \notin revived => slot[a].pubkey \in {k, None}

ClaimInv == \A a \in Agents, k \in Keys : Claimed(a, k) => Honest(a, k)

KeyInv == IdleInv /\ SlotInv /\ HolderInv /\ ClaimInv

LEMMA KeyInit == Init => KeyInv
BY NoneAssumption
DEF Init, NoSlot, NoLocal, KeyInv, IdleInv, SlotInv, HolderInv, ClaimInv, Claimed

\* A handler takes only a key that is the slot's own, or claimed already.
LEMMA TakesHonest ==
  ASSUME TypeInv, KeyInv, NEW w \in Workers, NEW a \in Agents, NEW k \in Keys \cup {None},
         Takes(w, a, k)
  PROVE  slot[a].status # "NONE" /\ (k \in Keys => Honest(a, k))
<1>1. ASSUME NEW x \in Keys, <<a, x>> \in sessions PROVE Honest(a, x)
  BY <1>1 DEF KeyInv, ClaimInv, Claimed
<1>2. k \in Keys /\ (challenge[k] = a \/ enrollment[a] = k) => Honest(a, k)
  BY DEF KeyInv, ClaimInv, Claimed
<1>3. slot[a].pubkey # None => slot[a].status # "NONE"
  BY DEF KeyInv, SlotInv
<1>4. sessions \subseteq Agents \X Keys
  BY DEF TypeInv, TypeOK
<1> QED BY <1>1, <1>2, <1>3, <1>4, NoneAssumption DEF Takes, Enrollable, Honest

\* A step does not make a claim dishonest: the only step that changes the key
\* of a slot in use is the binding of a key that is claimed too.
LEMMA HonestStep ==
  ASSUME TypeInv, KeyInv, [Next]_vars, NEW a \in Agents, NEW k \in Keys, Honest(a, k)
  PROVE  Honest(a, k)'
<1>1. Recorded(a)
  BY SlotStep
<1>2. ASSUME NEW w \in Workers, pc[w] = "bind", local[w].agent = a
      PROVE  local[w].key \in Keys /\ Honest(a, local[w].key)
  BY <1>2 DEF TypeInv, ControlInv, KeyInv, ClaimInv, Claimed
<1>3. a \notin revived /\ slot[a].pubkey = None => slot[a].status \in Barred
  BY DEF KeyInv, SlotInv, Honest
<1>4. ASSUME NEW w \in Workers, pc[w] \in {"status", "write"} PROVE local[w].next # "NONE"
  BY <1>4 DEF TypeInv, ControlInv
<1>5. CASE \E w \in Workers :
             /\ pc[w] = "bind" /\ local[w].agent = a
             /\ Became(a, "PENDING_SIGNER", local[w].key, slot[a].last)
  <2>1. PICK w \in Workers :
             /\ pc[w] = "bind" /\ local[w].agent = a
             /\ Became(a, "PENDING_SIGNER", local[w].key, slot[a].last)
    BY <1>5
  <2>2. Honest(a, local[w].key) /\ local[w].key \in Keys
    BY <1>2, <2>1
  <2>3. a \notin revived' => ~IsBarred(a) /\ a \notin revived
    BY <1>1, <2>1 DEF Recorded, Became, Barred
  <2>4. a \notin revived' => slot[a].pubkey # None
    BY <1>3, <2>3 DEF IsBarred
  <2>5. a \notin revived' => local[w].key = k
    BY <2>2, <2>3, <2>4 DEF Honest
  <2> QED BY <2>1, <2>5 DEF Honest, Became
<1>6. slot[a].status # "NONE"
  BY DEF Honest
<1> QED BY <1>1, <1>4, <1>5, <1>6, ColumnStep DEF Honest, Became, Recorded

LEMMA KeyStep == TypeInv /\ KeyInv /\ [Next]_vars => KeyInv'
<1> SUFFICES ASSUME TypeInv, KeyInv, [Next]_vars PROVE KeyInv'
  OBVIOUS
<1>1. TypeInv'
  BY TypedStep
<1>2. IdleInv'
  BY HandlersStep DEF IdleInv, KeyInv, HandlerStep, Takes
<1>3. SlotInv'
  <2> SUFFICES ASSUME NEW a \in Agents
               PROVE  /\ slot'[a].status = "NONE" => slot'[a].pubkey = None
                      /\ a \notin revived' /\ slot'[a].pubkey = None
                           => slot'[a].status \in Barred \cup {"NONE"}
    BY DEF SlotInv
  <2>1. Recorded(a)
    BY SlotStep
  <2>2. ASSUME NEW w \in Workers, local[w].agent = a PROVE slot[a].status # "NONE"
    BY <2>2 DEF KeyInv, HolderInv
  <2>3. ASSUME NEW w \in Workers
        PROVE  /\ pc[w] \in {"status", "write"} => local[w].next # "NONE"
               /\ pc[w] = "bind" => local[w].key \in Keys
    BY DEF TypeInv, ControlInv
  <2>4. /\ slot[a].status = "NONE" => slot[a].pubkey = None
        /\ a \notin revived /\ slot[a].pubkey = None => slot[a].status \in Barred \cup {"NONE"}
    BY DEF KeyInv, SlotInv
  <2>5. IsBarred(a) /\ a \notin revived' => slot'[a].status \in Barred
    BY <2>1 DEF Recorded
  <2>6. a \notin revived' => a \notin revived
    BY <2>1 DEF Recorded
  <2>7. slot'[a].status = "NONE" => slot'[a].pubkey = None
    BY <2>3, <2>4, ColumnStep DEF Became
  <2>8. ASSUME a \notin revived', slot'[a].pubkey = None
        PROVE  slot'[a].status \in Barred \cup {"NONE"}
    <3>1. slot[a].pubkey # None => slot'[a].status = "REVOKED"
      BY <2>3, <2>8, ColumnStep, NoneAssumption DEF Became
    <3>2. slot[a].pubkey = None => slot[a].status \in Barred \cup {"NONE"}
      BY <2>4, <2>6, <2>8
    <3>3. slot[a].status = "NONE" => slot'[a].status \in Barred \cup {"NONE"}
      BY <2>2, <2>8, ColumnStep, NoneAssumption DEF Became, Stale, Barred
    <3> QED BY <2>5, <2>8, <3>1, <3>2, <3>3 DEF IsBarred, Barred
  <2> QED BY <2>7, <2>8
<1>4. HolderInv'
  <2> SUFFICES ASSUME NEW w \in Workers, NEW a \in Agents, local'[w].agent = a
               PROVE  slot'[a].status # "NONE"
    BY DEF HolderInv
  <2>1. slot[a].status # "NONE" => slot'[a].status # "NONE"
    <3>1. ASSUME NEW v \in Workers, pc[v] \in {"status", "write"} PROVE local[v].next # "NONE"
      BY <3>1 DEF TypeInv, ControlInv
    <3> QED BY <3>1, ColumnStep DEF Became
  <2>2. local'[w].key \in Keys \cup {None}
    BY <1>1 DEF TypeInv, TypeOK, Locals
  <2>3. Takes(w, a, local'[w].key) => slot[a].status # "NONE"
    BY <2>2, TakesHonest
  <2>4. local[w].agent = a => slot[a].status # "NONE"
    BY DEF KeyInv, HolderInv
  <2>5. a # None
    BY NoneAssumption
  <2>6. HandlerStep(w)
    BY HandlersStep DEF KeyInv
  <2> QED BY <2>1, <2>3, <2>4, <2>5, <2>6 DEF HandlerStep
<1>5. ClaimInv'
  <2> SUFFICES ASSUME NEW a \in Agents, NEW k \in Keys, Claimed(a, k)'
               PROVE  Honest(a, k)'
    BY DEF ClaimInv
  <2>1. Claimed(a, k) => Honest(a, k)
    BY DEF KeyInv, ClaimInv
  <2>2. CASE enrollment'[a] = k \/ challenge'[k] = a \/ <<a, k>> \in sessions'
    BY <2>1, <2>2, RedisStep, HonestStep
  <2>3. ASSUME NEW w \in Workers, local'[w].agent = a, local'[w].key = k
        PROVE  Honest(a, k)'
    <3>1. HandlerStep(w) /\ a # None
      BY HandlersStep, NoneAssumption DEF KeyInv
    <3>2. Claimed(a, k) \/ Takes(w, a, k)
      BY <2>3, <3>1 DEF HandlerStep, Claimed
    <3>3. Honest(a, k)
      BY <2>1, <3>2, TakesHonest
    <3> QED BY <3>3, HonestStep
  <2> QED BY <2>2, <2>3 DEF Claimed
<1> QED BY <1>2, <1>3, <1>4, <1>5 DEF KeyInv

\* In every reachable state a session speaks for the key its slot is bound to,
\* unless the slot came back from a bar.
THEOREM SessionsCorrect == Spec => []SessionsMatchKeys
<1>1. KeyInv => SessionsMatchKeys
  BY DEF KeyInv, ClaimInv, Claimed, Honest, SessionsMatchKeys
<1> QED BY <1>1, InitInv, TypedStep, KeyInit, KeyStep, PTL DEF Spec

===========================================================================
