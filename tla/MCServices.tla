----------------------------- MODULE MCServices -----------------------------
(***************************************************************************)
(* The parts of the coordinator that stand beside the permits: the event   *)
(* bus, the Horizon watchers of a wallet, the tokens that are used once,   *)
(* and the policy engine.  They share no state that the models keep, so    *)
(* their product would say nothing their sum does not: a behaviour is one  *)
(* of "part", which is chosen at the start.                                *)
(***************************************************************************)
EXTENDS EventBus, HorizonWatcher, OneTimeTokens, PolicyReference

VARIABLE part   \* the part that moves

allVars == <<busVars, watcherVars, tokenVars, asked, part>>

\* A configuration file cannot write a negative number.
MCAmounts == {-1, 0, 1, 3, 5}

Operation(parses, type, to, code) ==
  [parses |-> parses, op_type |-> type, to |-> to, asset_code |-> code]

\* An inflow of XLM, and an operation without a paging token.
MCOperations ==
  {Operation(TRUE, "payment", "w", ""), Operation(FALSE, "payment", "w", "")}

\* What a part does not look at starts in one way.
Init ==
  /\ BusInit /\ WatcherInit /\ TokensInit /\ PolicyInit
  /\ part \in {"bus", "watchers", "requests", "challenges", "policy"}
  /\ part # "bus" => up = {CHOOSE p \in Procs : TRUE}
  /\ part # "requests" => stamp = [r \in Requests |-> Skew]

BusPart ==
  /\ part = "bus"
  /\ BusNext
  /\ UNCHANGED <<watcherVars, tokenVars, asked, part>>

WatcherPart ==
  /\ part = "watchers"
  /\ WatcherNext
  /\ UNCHANGED <<busVars, tokenVars, asked, part>>

\* The logins share the handlers of both.
TokensPart ==
  /\ \/ part = "requests" /\ RequestsNext
     \/ part = "challenges" /\ ChallengesNext
     \/ /\ part \in {"requests", "challenges"}
        /\ LoginsNext \/ \E h \in Handlers : HandlerFails(h)
  /\ UNCHANGED <<busVars, watcherVars, asked, part>>

PolicyPart ==
  /\ part = "policy"
  /\ PolicyNext
  /\ UNCHANGED <<busVars, watcherVars, tokenVars, part>>

Next ==
  \/ BusPart
  \/ WatcherPart
  \/ TokensPart
  \/ PolicyPart

\* A worker that can work again and again does: the lock it waits for is free
\* again and again, and Postgres grants it in turn.
Spec ==
  /\ Init
  /\ [][Next]_allVars
  /\ \A p \in Procs : SF_allVars(BusPart /\ WorkerWorks(p))

\* Types of all parts (each module says what else its TypeOK holds).
TypeOK == BusTypeOK /\ WatcherTypeOK /\ TokensTypeOK
=============================================================================
