---------------------------- MODULE AgentSlots ----------------------------
(***************************************************************************)
(* The agent slots of a treasury: which key a slot is bound to, and its    *)
(* status, which decides whether the agent may act.  The writers are the   *)
(* enrollment and connection protocols (agent.rs), the MCP protocol        *)
(* (mcp.rs), the heartbeats of both, the dashboard's suspension and        *)
(* revocation (agent.rs), and the heartbeat monitor (main.rs).             *)
(*                                                                         *)
(* Concurrency.  Most writers read the row, ask PostgreSQL for the rules   *)
(* and Horizon for the signers of each wallet, and then write a status     *)
(* without looking at the row again.  Each statement, and each command to  *)
(* Redis, is a step of its own, and a handler may stop before any of them. *)
(* What the rules and the signers are when a handler asks is not modelled: *)
(* any answer may come, an error of Horizon counts as "not a signer".      *)
(*                                                                         *)
(* A definition named X_Y, before the definition X, is a variant of X that *)
(* a plausible mistake would give; nothing uses it.                        *)
(*                                                                         *)
(* Not here: signatures (who presents a challenge is its agent), the other *)
(* columns of the row, the events after a write, and the end of a session: *)
(* it may be refreshed for ever (refresh_ws_ticket), and its socket        *)
(* outlives it.                                                            *)
(***************************************************************************)
EXTENDS Naturals

CONSTANTS
  Workers,      \* handlers that can be in flight at once
  Agents,       \* agent ids
  Keys,         \* agent public keys
  None          \* no agent, no key

ASSUME NoneAssumption == None \notin Agents \cup Keys

VARIABLES
  slot,         \* agent_slots: status, agent_pubkey and last_connected
  enrollment,   \* Redis: per agent the key its enrollment challenge is for
  challenge,    \* Redis: per key the agent its connect challenge is for
  nonce,        \* Redis: the keys that have an MCP connect nonce
  sessions,     \* Redis: the agent and the key of every session
  pc,           \* where each handler is
  local,        \* what it has read
  revived       \* history: agents whose slot has left REVOKED or SUSPENDED

redis == <<enrollment, challenge, nonce, sessions>>
vars == <<slot, redis, pc, local, revived>>

Pending == {"PENDING_PUBKEY", "PENDING_CONFIGURATION", "PENDING_SIGNER"}
Barred == {"SUSPENDED", "REVOKED"}
Status == Pending \cup Barred \cup {"NONE", "ACTIVE", "INACTIVE"}

PC == {"idle", "start", "enroll", "bind", "reread", "connect", "complete", "read",
       "session", "init", "mcp", "load", "beat", "status", "write", "revoke", "clean"}

\* last_connected: NULL, within the monitor's ten minutes, or before them.
Slots == [status : Status, pubkey : Keys \cup {None}, last : {"never", "recent", "old"}]
NoSlot == [status |-> "NONE", pubkey |-> None, last |-> "never"]

\* The agent and the key a handler works for, the status it has read and the
\* one it is going to write.
Locals == [agent : Agents \cup {None}, key : Keys \cup {None}, seen : Status, next : Status]
NoLocal == [agent |-> None, key |-> None, seen |-> "NONE", next |-> "NONE"]

Bound(k) == {a \in Agents : slot[a].pubkey = k}
IsBarred(a) == slot[a].status \in Barred

-----------------------------------------------------------------------------
Init ==
  /\ slot = [a \in Agents |-> NoSlot]
  /\ enrollment = [a \in Agents |-> None]
  /\ challenge = [k \in Keys |-> None]
  /\ nonce = {}
  /\ sessions = {}
  /\ pc = [w \in Workers |-> "idle"]
  /\ local = [w \in Workers |-> NoLocal]
  /\ revived = {}

Goto(w, label) == pc' = [pc EXCEPT ![w] = label]

Begin(w, label, a, k) ==
  /\ pc[w] = "idle"
  /\ Goto(w, label)
  /\ local' = [local EXCEPT ![w] = [NoLocal EXCEPT !.agent = a, !.key = k]]

Return(w) ==
  /\ Goto(w, "idle")
  /\ local' = [local EXCEPT ![w] = NoLocal]

\* One UPDATE of a's row.
SetSlot(a, row) ==
  /\ slot' = [slot EXCEPT ![a] = row]
  /\ revived' = IF IsBarred(a) /\ row.status \notin Barred THEN revived \cup {a} ELSE revived

(***************************************************************************)
(* What the handlers compute from a row they have read.                    *)
(***************************************************************************)

\* compute_connection_status: the phase and reason, as one value; which of the
\* last three it is depends on the rules and on Horizon.
compute_connection_status_Unchecked(row) ==
  IF row.pubkey = None THEN {"PENDING_PUBKEY"}
  ELSE {"PENDING_CONFIGURATION", "PENDING_SIGNER", "COMPLETE"}
compute_connection_status(row) ==
  IF row.status \in Barred THEN {row.status}
  ELSE IF row.pubkey = None THEN {"PENDING_PUBKEY"}
  ELSE {"PENDING_CONFIGURATION", "PENDING_SIGNER", "COMPLETE"}

\* What connect_complete and agent_heartbeat write ...
StatusAfterContact_Phase(row) == compute_connection_status(row)
StatusAfterContact(row) ==
  {IF c = "COMPLETE" THEN "ACTIVE" ELSE c : c \in compute_connection_status(row)}

\* ... what enroll_pubkey writes: pending_status_from_reason has no reason for
\* COMPLETE ...
StatusAfterEnrollment_Active(row) == StatusAfterContact(row)
StatusAfterEnrollment(row) ==
  {IF c = "COMPLETE" THEN "INACTIVE" ELSE c : c \in compute_connection_status(row)}

\* ... and resolve_mcp_slot_status, which asks for the rules only.
resolve_mcp_slot_status(status) ==
  IF status \in Barred THEN {status} ELSE {"PENDING_CONFIGURATION", "ACTIVE"}

\* The handler has read a's row: it is going to write one of these.
Resolve(w, a, statuses, label) ==
  /\ Goto(w, label)
  /\ \E s \in statuses :
       local' = [local EXCEPT ![w].agent = a, ![w].seen = slot[a].status, ![w].next = s]

(***************************************************************************)
(* Slots and enrollment.                                                   *)
(***************************************************************************)

\* create_agent_slot.  The check for the key and the unique index refuse the
\* same ones, but for a key that is released in between.
CreateSlot(w, a, k) ==
  /\ pc[w] = "idle"
  /\ slot[a].status = "NONE"
  /\ Bound(k) = {}
  /\ SetSlot(a, [status |-> "PENDING_CONFIGURATION", pubkey |-> k, last |-> "never"])
  /\ UNCHANGED <<redis, pc, local>>

\* start_pubkey_enrollment: the slot is open to this key ...
Enrollable_AnyKey(a, k) == slot[a].status \notin Barred \cup {"NONE"}
Enrollable(a, k) ==
  /\ slot[a].status \notin Barred \cup {"NONE"}
  /\ slot[a].pubkey \in {k, None}

BeginEnrollment(w, a, k) ==
  /\ Enrollable(a, k)
  /\ Begin(w, "start", a, k)
  /\ UNCHANGED <<slot, redis, revived>>

\* ... then the challenge is stored.
StoreEnrollment(w) ==
  /\ pc[w] = "start"
  /\ enrollment' = [enrollment EXCEPT ![local[w].agent] = local[w].key]
  /\ Return(w)
  /\ UNCHANGED <<slot, challenge, nonce, sessions, revived>>

\* enroll_pubkey: the challenge is read and its signature checked ...
PresentEnrollment(w, a) ==
  /\ enrollment[a] # None
  /\ Begin(w, "enroll", a, enrollment[a])
  /\ UNCHANGED <<slot, redis, revived>>

\* ... deleted, if Redis answers ...
DeleteEnrollment(w) ==
  /\ pc[w] = "enroll"
  /\ enrollment' \in {enrollment, [enrollment EXCEPT ![local[w].agent] = None]}
  /\ Goto(w, "bind")
  /\ UNCHANGED <<slot, challenge, nonce, sessions, local, revived>>

\* ... the key is bound, whatever the slot is by now; the unique index refuses
\* a key that is bound elsewhere ...
BindKey(w) ==
  LET a == local[w].agent
      k == local[w].key
  IN  /\ pc[w] = "bind"
      /\ IF Bound(k) \subseteq {a}
         THEN /\ SetSlot(a, [slot[a] EXCEPT !.pubkey = k, !.status = "PENDING_SIGNER"])
              /\ Goto(w, "reread")
              /\ UNCHANGED local
         ELSE Return(w) /\ UNCHANGED <<slot, revived>>
      /\ UNCHANGED redis

\* ... the row is read again, and a second UPDATE follows.
RereadSlot(w) ==
  LET a == local[w].agent
  IN  /\ pc[w] = "reread"
      /\ Resolve(w, a, StatusAfterEnrollment(slot[a]), "status")
      /\ UNCHANGED <<slot, redis, revived>>

WriteStatus(w) ==
  LET a == local[w].agent
  IN  /\ pc[w] = "status"
      /\ SetSlot(a, [slot[a] EXCEPT !.status = local[w].next])
      /\ Return(w)
      /\ UNCHANGED redis

(***************************************************************************)
(* Synod Connect.                                                          *)
(***************************************************************************)

\* connect_challenge: the slot that the key is bound to ...
BeginChallenge(w, a) ==
  /\ slot[a].pubkey # None /\ ~IsBarred(a)
  /\ Begin(w, "connect", a, slot[a].pubkey)
  /\ UNCHANGED <<slot, redis, revived>>

StoreChallenge(w) ==
  /\ pc[w] = "connect"
  /\ challenge' = [challenge EXCEPT ![local[w].key] = local[w].agent]
  /\ Return(w)
  /\ UNCHANGED <<slot, enrollment, nonce, sessions, revived>>

\* connect_complete: the challenge is read ...
PresentChallenge(w, k) ==
  /\ challenge[k] # None
  /\ Begin(w, "complete", challenge[k], k)
  /\ UNCHANGED <<slot, redis, revived>>

\* ... deleted, if Redis answers ...
DeleteConnectChallenge(w) ==
  /\ pc[w] = "complete"
  /\ challenge' \in {challenge, [challenge EXCEPT ![local[w].key] = None]}
  /\ Goto(w, "read")
  /\ UNCHANGED <<slot, enrollment, nonce, sessions, local, revived>>

\* ... the slot it names is read, whatever its status ...
CompleteConnect(w) ==
  LET a == local[w].agent
  IN  /\ pc[w] = "read"
      /\ Resolve(w, a, StatusAfterContact(slot[a]), "session")
      /\ UNCHANGED <<slot, redis, revived>>

\* ... a session is issued ...
IssueSession(w) ==
  /\ pc[w] = "session"
  /\ sessions' = sessions \cup {<<local[w].agent, local[w].key>>}
  /\ Goto(w, "write")
  /\ UNCHANGED <<slot, enrollment, challenge, nonce, local, revived>>

\* ... and the status is written over whatever is there.
WriteContact(w) ==
  LET a == local[w].agent
  IN  /\ pc[w] = "write"
      /\ SetSlot(a, [slot[a] EXCEPT !.status = local[w].next, !.last = "recent"])
      /\ Return(w)
      /\ UNCHANGED redis

\* agent_heartbeat: the extractor reads the status of the session's slot ...
BeginHeartbeat(w, a, k) ==
  /\ <<a, k>> \in sessions /\ ~IsBarred(a)
  /\ Begin(w, "beat", a, k)
  /\ UNCHANGED <<slot, redis, revived>>

\* ... the handler reads the row.
ReadHeartbeat(w) ==
  LET a == local[w].agent
  IN  /\ pc[w] = "beat"
      /\ Resolve(w, a, StatusAfterContact(slot[a]), "write")
      /\ UNCHANGED <<slot, redis, revived>>

(***************************************************************************)
(* MCP.                                                                    *)
(***************************************************************************)

\* connect_init, for the slot that the key is bound to ...
BeginInit(w, a) ==
  /\ slot[a].pubkey # None /\ ~IsBarred(a)
  /\ Begin(w, "init", a, slot[a].pubkey)
  /\ UNCHANGED <<slot, redis, revived>>

StoreNonce(w) ==
  /\ pc[w] = "init"
  /\ nonce' = nonce \cup {local[w].key}
  /\ Return(w)
  /\ UNCHANGED <<slot, enrollment, challenge, sessions, revived>>

\* connect_complete of mcp.rs: the nonce is read ...
PresentNonce(w, k) ==
  /\ k \in nonce
  /\ Begin(w, "mcp", None, k)
  /\ UNCHANGED <<slot, redis, revived>>

\* ... deleted, if Redis answers ...
DeleteNonce(w) ==
  /\ pc[w] = "mcp"
  /\ nonce' \in {nonce, nonce \ {local[w].key}}
  /\ Goto(w, "load")
  /\ UNCHANGED <<slot, enrollment, challenge, sessions, local, revived>>

\* ... the slot that the key is bound to now is loaded and may not be barred;
\* the ticket and the write are as above.
LoadAgent(w) ==
  /\ pc[w] = "load"
  /\ \/ \E a \in Bound(local[w].key) :
          /\ ~IsBarred(a)
          /\ Resolve(w, a, resolve_mcp_slot_status(slot[a].status), "session")
     \/ /\ \A a \in Bound(local[w].key) : IsBarred(a)
        /\ Return(w)
  /\ UNCHANGED <<slot, redis, revived>>

\* refresh_mcp_liveness, for a ping on the socket of a session: it does not
\* write to a barred slot, and ends in a panic on one without a key.
Ping(w, a, k) ==
  /\ <<a, k>> \in sessions
  /\ ~IsBarred(a) /\ slot[a].pubkey # None
  /\ pc[w] = "idle"
  /\ Resolve(w, a, resolve_mcp_slot_status(slot[a].status), "write")
  /\ UNCHANGED <<slot, redis, revived>>

(***************************************************************************)
(* Suspension and revocation.                                              *)
(***************************************************************************)

SuspendAgent(w, a) ==
  /\ pc[w] = "idle"
  /\ slot[a].status # "NONE"
  /\ SetSlot(a, [slot[a] EXCEPT !.status = "SUSPENDED"])
  /\ UNCHANGED <<redis, pc, local>>

\* revoke_agent: the key is read ...
BeginRevocation(w, a) ==
  /\ slot[a].status # "NONE"
  /\ Begin(w, "revoke", a, slot[a].pubkey)
  /\ UNCHANGED <<slot, redis, revived>>

\* ... the transaction commits ...
RevokedRow == [status |-> "REVOKED", pubkey |-> None, last |-> "never"]

CommitRevocation(w) ==
  LET a == local[w].agent
  IN  /\ pc[w] = "revoke"
      /\ SetSlot(a, RevokedRow)
      /\ Goto(w, "clean")
      /\ UNCHANGED <<redis, local>>

\* ... and the challenges of the slot and of its key are deleted, as far as
\* Redis answers.
DeleteChallenges(w) ==
  LET a == local[w].agent
      k == local[w].key
  IN  /\ pc[w] = "clean"
      /\ enrollment' \in {enrollment, [enrollment EXCEPT ![a] = None]}
      /\ challenge' \in {challenge, [x \in Keys |-> IF x = k THEN None ELSE challenge[x]]}
      /\ Return(w)
      /\ UNCHANGED <<slot, nonce, sessions, revived>>

(***************************************************************************)
(* Time and failures.                                                      *)
(***************************************************************************)

\* Ten minutes without a contact.
Silence(a) ==
  /\ slot[a].last = "recent"
  /\ slot' = [slot EXCEPT ![a].last = "old"]
  /\ UNCHANGED <<redis, pc, local, revived>>

\* The heartbeat monitor's UPDATE.  A NULL is not older than anything.
Stale(a) == slot[a].status = "ACTIVE" /\ slot[a].last = "old"

MonitorHeartbeats ==
  /\ \E a \in Agents : Stale(a)
  /\ slot' = [a \in Agents |->
       IF Stale(a) THEN [slot[a] EXCEPT !.status = "INACTIVE"] ELSE slot[a]]
  /\ UNCHANGED <<redis, pc, local, revived>>

\* The time to live of a challenge ends.
ForgetChallenge ==
  /\ \/ \E a \in Agents : enrollment[a] # None
          /\ enrollment' = [enrollment EXCEPT ![a] = None] /\ UNCHANGED <<challenge, nonce>>
     \/ \E k \in Keys : challenge[k] # None
          /\ challenge' = [challenge EXCEPT ![k] = None] /\ UNCHANGED <<enrollment, nonce>>
     \/ \E k \in nonce :
          nonce' = nonce \ {k} /\ UNCHANGED <<enrollment, challenge>>
  /\ UNCHANGED <<slot, sessions, pc, local, revived>>

Fail(w) ==
  /\ pc[w] # "idle"
  /\ Return(w)
  /\ UNCHANGED <<slot, redis, revived>>
-----------------------------------------------------------------------------
Enroll(w) ==
  \/ \E a \in Agents, k \in Keys : CreateSlot(w, a, k) \/ BeginEnrollment(w, a, k)
  \/ \E a \in Agents : PresentEnrollment(w, a)
  \/ StoreEnrollment(w) \/ DeleteEnrollment(w) \/ BindKey(w) \/ RereadSlot(w) \/ WriteStatus(w)

Connect(w) ==
  \/ \E a \in Agents : BeginChallenge(w, a)
  \/ \E k \in Keys : PresentChallenge(w, k)
  \/ \E a \in Agents, k \in Keys : BeginHeartbeat(w, a, k)
  \/ StoreChallenge(w) \/ DeleteConnectChallenge(w) \/ CompleteConnect(w) \/ ReadHeartbeat(w)
  \/ IssueSession(w) \/ WriteContact(w)

ConnectMcp(w) ==
  \/ \E a \in Agents : BeginInit(w, a)
  \/ \E k \in Keys : PresentNonce(w, k)
  \/ \E a \in Agents, k \in Keys : Ping(w, a, k)
  \/ StoreNonce(w) \/ DeleteNonce(w) \/ LoadAgent(w)

Bar(w) ==
  \/ \E a \in Agents : SuspendAgent(w, a) \/ BeginRevocation(w, a)
  \/ CommitRevocation(w) \/ DeleteChallenges(w)

Next ==
  \/ \E w \in Workers : Enroll(w) \/ Connect(w) \/ ConnectMcp(w) \/ Bar(w) \/ Fail(w)
  \/ \E a \in Agents : Silence(a)
  \/ MonitorHeartbeats
  \/ ForgetChallenge

\* The monitor ticks every two minutes.  Nobody has to ask for anything.
Fairness == WF_vars(MonitorHeartbeats)

Spec == Init /\ [][Next]_vars
FairSpec == Spec /\ Fairness
-----------------------------------------------------------------------------
TypeOK ==
  /\ slot \in [Agents -> Slots]
  /\ enrollment \in [Agents -> Keys \cup {None}]
  /\ challenge \in [Keys -> Agents \cup {None}]
  /\ nonce \subseteq Keys
  /\ sessions \subseteq Agents \X Keys
  /\ pc \in [Workers -> PC]
  /\ local \in [Workers -> Locals]
  /\ revived \subseteq Agents

\* A slot that is active has a last contact, so the monitor, whose condition a
\* NULL does not meet, will notice its silence (main.rs:183-187).
ActiveHasContact == \A a \in Agents : slot[a].status = "ACTIVE" => slot[a].last # "never"

\* A session speaks for the key its slot is bound to, if the slot is bound and
\* never came back from a bar: a new key does not inherit the old sessions.
SessionsMatchKeys ==
  \A a \in Agents, k \in Keys :
    <<a, k>> \in sessions /\ a \notin revived => slot[a].pubkey \in {k, None}

\* A suspended or revoked slot comes back in two ways only: an enrollment
\* challenge from before is presented, or a handler that had read the slot
\* before writes what it computed then.
BarredComesBackLate ==
  [][\A a \in Agents : slot[a].status \in Barred /\ slot'[a].status \notin Barred =>
       \E w \in Workers :
         /\ local[w].agent = a
         /\ \/ pc[w] = "bind"
            \/ pc[w] \in {"status", "write"} /\ local[w].seen \notin Barred]_vars

\* What the tests and the checks of the other handlers say of a suspension:
\* the agent cannot connect (tests/agents.rs:184-221).
SuspensionHolds ==
  [][\A a \in Agents : slot[a].status = "SUSPENDED" => slot'[a].status \in Barred]_vars

\* The monitor notices every agent that is silent.
SilenceIsNoticed ==
  \A a \in Agents :
    slot[a].status = "ACTIVE" /\ slot[a].last # "recent"
      ~> slot[a].status # "ACTIVE" \/ slot[a].last = "recent"
===========================================================================
