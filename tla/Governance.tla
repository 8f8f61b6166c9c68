---------------------------- MODULE Governance ----------------------------
(***************************************************************************)
(* How one treasury's constitution changes: the versions of                *)
(* constitution_history and the pointer in treasuries.constitution_version *)
(* that selects the one the policy engine enforces; the owner's direct     *)
(* edits and rollbacks (constitution.rs); the removal of a revoked agent's *)
(* rules (agent.rs); and the proposals that execute once they have as many *)
(* signatures as a majority of the treasury's wallets (proposal.rs).       *)
(*                                                                         *)
(* The treasury is Home.  Its versions, pointer and wallets are modelled,  *)
(* of the other treasuries only what they share with it: sign_proposal     *)
(* looks a proposal up by its id alone, so one that was created under one  *)
(* treasury's path can be signed, executed and expired under another's,    *)
(* and all its signatures count wherever they were given.  What a handler  *)
(* reads of another treasury, its open proposals and its wallets, may be   *)
(* anything.                                                               *)
(*                                                                         *)
(* Concurrency.  A handler is one step per statement that can see or show  *)
(* a change.  An edit and a revocation write in a transaction, and their   *)
(* writes are one step; create_proposal and sign_proposal do not, and each *)
(* of their statements commits by itself.  A handler may stop before any   *)
(* statement: the server dies, the connection to the database is lost, or  *)
(* the client hangs up.  What it has committed stays.                      *)
(*                                                                         *)
(* A definition named X_Y, before the definition X, is a variant of X that *)
(* a plausible mistake would give; nothing uses it.                        *)
(*                                                                         *)
(* Not here: the Redis copy of the constitution (written, never read), the *)
(* event after a change, the validation of a content (it reads no state),  *)
(* and the rest of a revocation (Permits).                                 *)
(***************************************************************************)
EXTENDS Integers, FiniteSets

CONSTANTS
  Workers,      \* handlers that can be in flight at once
  Treasuries,   \* treasury ids
  Home,         \* the treasury that is modelled
  Proposals,    \* proposal ids, of all treasuries
  Wallets,      \* wallet addresses, each of any number of treasuries
  Agents,       \* a content is abstracted to the agents it has rules for
  MaxVersion,   \* bound: versions that are explored
  None          \* no proposal, no wallet, no agent

ASSUME WorkersAssumption == IsFiniteSet(Workers)
ASSUME WalletsAssumption == IsFiniteSet(Wallets)
ASSUME HomeAssumption == Home \in Treasuries
ASSUME MaxVersionAssumption == MaxVersion \in Nat
ASSUME NoneAssumption == None \notin Proposals \cup Wallets \cup Agents

VARIABLES
  history,      \* constitution_history: the content of each version
  pointer,      \* treasuries.constitution_version
  wallet,       \* treasury_wallets.status, "ABSENT" without a row
  electors,     \* history: the wallets that have ever been ACTIVE
  proposal,     \* per id the status, the proposed content and the treasury
  overdue,      \* proposals whose 72 hours are over
  signatures,   \* proposal_signatures: pairs of a proposal and a wallet
  pc,           \* where each handler is
  local,        \* what it has read or been given
  applied       \* history: the versions each proposal has been written as

rows == <<history, pointer, applied>>
franchise == <<wallet, electors>>
votes == <<proposal, overdue, signatures>>
vars == <<rows, franchise, votes, pc, local>>

Contents == SUBSET Agents
Versions == 0..MaxVersion

\* COALESCE(MAX(version), 0), and the row that the readers of MAX see.
NewestVersion == CHOOSE v \in DOMAIN history : \A u \in DOMAIN history : u <= v

PC == {"idle", "propose", "expire", "wallet", "signature", "tally", "electorate",
       "execute", "max", "append", "point", "edit"}

NoLocal == [proposal |-> None, wallet |-> None, count |-> 0, version |-> 0,
            content |-> {}, agent |-> None, treasury |-> Home]

ActiveWallets == {x \in Wallets : wallet[x] = "ACTIVE"}
Signers(p) == {x \in Wallets : <<p, x>> \in signatures}

\* The treasury's PENDING proposals that have not run out.
OpenProposals ==
  {p \in Proposals : /\ proposal[p].treasury = Home
                     /\ proposal[p].status = "PENDING"
                     /\ p \notin overdue}

ActiveProposalExists_Never == FALSE
ActiveProposalExists == OpenProposals # {}

-----------------------------------------------------------------------------
\* create_treasury: version 0, in which no agent has a rule.
Init ==
  /\ history = [v \in {0} |-> {}]
  /\ pointer = 0
  /\ wallet = [x \in Wallets |-> "ABSENT"]
  /\ electors = {}
  /\ proposal = [p \in Proposals |-> [status |-> "NONE", content |-> {}, treasury |-> Home]]
  /\ overdue = {}
  /\ signatures = {}
  /\ pc = [w \in Workers |-> "idle"]
  /\ local = [w \in Workers |-> NoLocal]
  /\ applied = [p \in Proposals |-> {}]

Goto(w, label) == pc' = [pc EXCEPT ![w] = label]

Return(w) ==
  /\ Goto(w, "idle")
  /\ local' = [local EXCEPT ![w] = NoLocal]

(***************************************************************************)
(* Direct edits: create_or_update_constitution, rollback_constitution and  *)
(* remove_agent_rules_from_constitution.                                   *)
(***************************************************************************)

\* The row an edit writes: the one after the newest it has read.
Draft(content, agent) ==
  [NoLocal EXCEPT !.version = NewestVersion + 1, !.content = content, !.agent = agent]

BeginEdit(w, content, agent) ==
  /\ pc[w] = "idle"
  /\ NewestVersion < MaxVersion
  /\ local' = [local EXCEPT ![w] = Draft(content, agent)]
  /\ Goto(w, "edit")
  /\ UNCHANGED <<rows, franchise, votes>>

\* The owner sends a whole content.
UpdateConstitution(w, content) == BeginEdit(w, content, None)

\* A rollback sends the content of an old version, which never changes.
RollbackConstitution(w, target) == target \in DOMAIN history /\ BeginEdit(w, history[target], None)

\* A revocation reads the newest version, not the one in force.  When that has
\* neither a rule nor a note for the agent it writes nothing: no step here.
RevokedContent_InForce(a) == history[pointer] \ {a}
RevokedContent(a) == history[NewestVersion] \ {a}

RemoveAgentRules(w, a) == BeginEdit(w, RevokedContent(a), a)

\* The primary key of constitution_history refuses a version that is used.
Taken_Never(version) == FALSE
Taken(version) == version \in DOMAIN history

\* The history with a row for version v.
With(v, content) ==
  [u \in DOMAIN history \cup {v} |-> IF u = v THEN content ELSE history[u]]

\* The transaction: the version row and the pointer, or neither.
CommitEdit(w) ==
  LET v == local[w].version
  IN  /\ pc[w] = "edit"
      /\ IF Taken(v)
         THEN UNCHANGED <<history, pointer>>
         ELSE /\ history' = With(v, local[w].content)
              /\ pointer' = v
      /\ Return(w)
      /\ UNCHANGED <<applied, franchise, votes>>

(***************************************************************************)
(* Proposals.                                                              *)
(***************************************************************************)

\* create_proposal: count the treasury's open ones ...
BeginProposal(w, content, treasury) ==
  /\ pc[w] = "idle"
  /\ treasury = Home => ~ActiveProposalExists
  /\ local' = [local EXCEPT ![w].content = content, ![w].treasury = treasury]
  /\ Goto(w, "propose")
  /\ UNCHANGED <<rows, franchise, votes>>

\* ... then insert.
InsertProposal(w, p) ==
  /\ pc[w] = "propose"
  /\ proposal[p].status = "NONE"
  /\ proposal' = [proposal EXCEPT ![p] = [status |-> "PENDING", content |-> local[w].content,
                                          treasury |-> local[w].treasury]]
  /\ Return(w)
  /\ UNCHANGED <<rows, franchise, overdue, signatures>>

Signable_InAnyState(p) == proposal[p].status # "NONE"
Signable(p) == proposal[p].status = "PENDING"

\* sign_proposal: the proposal's status and expiry decide how it goes on, and
\* nothing compares its treasury with the path's.
BeginSign(w, p, x, treasury) ==
  /\ pc[w] = "idle"
  /\ Signable(p)
  /\ local' = [local EXCEPT ![w].proposal = p, ![w].wallet = x, ![w].treasury = treasury]
  /\ Goto(w, IF p \in overdue THEN "expire" ELSE "wallet")
  /\ UNCHANGED <<rows, franchise, votes>>

\* A status the proposal may have left meanwhile is overwritten.
ExpireProposal(w) ==
  /\ pc[w] = "expire"
  /\ proposal' = [proposal EXCEPT ![local[w].proposal].status = "EXPIRED"]
  /\ Return(w)
  /\ UNCHANGED <<rows, franchise, overdue, signatures>>

\* For another treasury the wallet may be an active one; when it is none, and
\* below when its wallets are too many, the handler returns as in Fail.
CheckWallet(w) ==
  /\ pc[w] = "wallet"
  /\ IF local[w].treasury = Home => local[w].wallet \in ActiveWallets
     THEN Goto(w, "signature") /\ UNCHANGED local
     ELSE Return(w)
  /\ UNCHANGED <<rows, franchise, votes>>

\* The check for a duplicate and the insert: signatures are never removed, so
\* the check and the unique constraint refuse the same ones.
InsertSignature(w) ==
  LET signature == <<local[w].proposal, local[w].wallet>>
  IN  /\ pc[w] = "signature"
      /\ signatures' = signatures \cup {signature}
      /\ IF signature \in signatures
         THEN Return(w)
         ELSE Goto(w, "tally") /\ UNCHANGED local
      /\ UNCHANGED <<rows, franchise, proposal, overdue>>

\* All of the proposal's, whatever treasury they were given for.
CountSignatures(w) ==
  /\ pc[w] = "tally"
  /\ local' = [local EXCEPT ![w].count = Cardinality(Signers(local[w].proposal))]
  /\ Goto(w, "electorate")
  /\ UNCHANGED <<rows, franchise, votes>>

Threshold_Half(n) == n \div 2
Threshold(n) == (n \div 2) + 1

\* The treasury's wallets are counted after the signatures.
CountWallets(w) ==
  /\ pc[w] = "electorate"
  /\ IF local[w].treasury = Home => local[w].count >= Threshold(Cardinality(ActiveWallets))
     THEN Goto(w, "execute") /\ UNCHANGED local
     ELSE Return(w)
  /\ UNCHANGED <<rows, franchise, votes>>

ExecutedStatus_Pending == "PENDING"
ExecutedStatus_Executing == "EXECUTING"
ExecutedStatus == "EXECUTED"

\* The four statements that execute a proposal: its status, and for another
\* treasury nothing else that is modelled ...
MarkExecuted(w) ==
  /\ pc[w] = "execute"
  /\ proposal' = [proposal EXCEPT ![local[w].proposal].status = ExecutedStatus]
  /\ IF local[w].treasury = Home
     THEN Goto(w, "max") /\ UNCHANGED local
     ELSE Return(w)
  /\ UNCHANGED <<rows, franchise, overdue, signatures>>

\* ... the newest version ...
ReadMaxVersion_PointsFirst(w) ==
  /\ pc[w] = "max"
  /\ NewestVersion < MaxVersion
  /\ pointer' = NewestVersion + 1
  /\ local' = [local EXCEPT ![w].version = NewestVersion + 1]
  /\ Goto(w, "append")
  /\ UNCHANGED <<history, applied, franchise, votes>>
ReadMaxVersion(w) ==
  /\ pc[w] = "max"
  /\ NewestVersion < MaxVersion
  /\ local' = [local EXCEPT ![w].version = NewestVersion + 1]
  /\ Goto(w, "append")
  /\ UNCHANGED <<rows, franchise, votes>>

\* ... the next one, unless another handler has taken it ...
AppendVersion(w) ==
  LET p == local[w].proposal
      v == local[w].version
  IN  /\ pc[w] = "append"
      /\ IF Taken(v)
         THEN Return(w) /\ UNCHANGED <<history, applied>>
         ELSE /\ history' = With(v, proposal[p].content)
              /\ applied' = [applied EXCEPT ![p] = @ \cup {v}]
              /\ Goto(w, "point")
              /\ UNCHANGED local
      /\ UNCHANGED <<pointer, franchise, votes>>

\* ... and the pointer, wherever it is by now.
MovePointer(w) ==
  /\ pc[w] = "point"
  /\ pointer' = local[w].version
  /\ Return(w)
  /\ UNCHANGED <<history, applied, franchise, votes>>

(***************************************************************************)
(* Wallets, time and failures.                                             *)
(***************************************************************************)
SetWallet(x, status) ==
  /\ wallet' = [wallet EXCEPT ![x] = status]
  /\ electors' = IF status = "ACTIVE" THEN electors \cup {x} ELSE electors
  /\ UNCHANGED <<rows, votes, pc, local>>

RegisterWallet(x) == wallet[x] = "ABSENT" /\ SetWallet(x, "PENDING")
VerifyOwnership(x) == wallet[x] # "ABSENT" /\ SetWallet(x, "ACTIVE")
RemoveWallet(x) == SetWallet(x, "ABSENT")

\* A proposal's 72 hours end.
RunOut(p) ==
  /\ proposal[p].status # "NONE" /\ p \notin overdue
  /\ overdue' = overdue \cup {p}
  /\ UNCHANGED <<rows, franchise, proposal, signatures, pc, local>>

Fail(w) ==
  /\ pc[w] # "idle"
  /\ Return(w)
  /\ UNCHANGED <<rows, franchise, votes>>
-----------------------------------------------------------------------------
Edit(w) ==
  \/ \E c \in Contents : UpdateConstitution(w, c)
  \/ \E v \in Versions : RollbackConstitution(w, v)
  \/ \E a \in Agents : RemoveAgentRules(w, a)
  \/ CommitEdit(w)

Vote(w) ==
  \/ \E c \in Contents, t \in Treasuries : BeginProposal(w, c, t)
  \/ \E p \in Proposals : InsertProposal(w, p)
  \/ \E p \in Proposals, x \in Wallets, t \in Treasuries : BeginSign(w, p, x, t)
  \/ ExpireProposal(w)
  \/ CheckWallet(w)
  \/ InsertSignature(w)
  \/ CountSignatures(w)
  \/ CountWallets(w)

Execute(w) ==
  \/ MarkExecuted(w)
  \/ ReadMaxVersion(w)
  \/ AppendVersion(w)
  \/ MovePointer(w)

Environment ==
  \/ \E x \in Wallets : RegisterWallet(x) \/ VerifyOwnership(x) \/ RemoveWallet(x)
  \/ \E p \in Proposals : RunOut(p)

Next ==
  \/ \E w \in Workers : Edit(w) \/ Vote(w) \/ Execute(w) \/ Fail(w)
  \/ Environment

Spec == Init /\ [][Next]_vars
-----------------------------------------------------------------------------
Locals ==
  [proposal : Proposals \cup {None}, wallet : Wallets \cup {None}, count : Nat,
   version : Versions, content : Contents, agent : Agents \cup {None},
   treasury : Treasuries]

TypeOK ==
  /\ DOMAIN history \subseteq Versions /\ history \in [DOMAIN history -> Contents]
  /\ pointer \in Versions
  /\ wallet \in [Wallets -> {"ABSENT", "PENDING", "ACTIVE"}]
  /\ electors \subseteq Wallets
  /\ proposal \in [Proposals -> [status : {"NONE", "PENDING", "EXECUTED", "EXPIRED"},
                                 content : Contents, treasury : Treasuries]]
  /\ overdue \subseteq Proposals
  /\ signatures \subseteq Proposals \X Wallets
  /\ pc \in [Workers -> PC]
  /\ local \in [Workers -> Locals]
  /\ applied \in [Proposals -> SUBSET Versions]

\* The versions have no gap and the pointer selects one of them, although a
\* handler computes its version in one statement and writes it in another,
\* and may stop in between (constitution.rs:321-351, proposal.rs:286-312).
\* The policy engine's join of treasuries with constitution_history always
\* finds a row.
HistorySound ==
  /\ DOMAIN history = 0..NewestVersion
  /\ pointer \in DOMAIN history

\* No version is ever rewritten, and a direct edit that succeeds puts the
\* newest version in force, whatever an interrupted execution has left behind.
EditsTakeTheTop ==
  [][/\ \A v \in DOMAIN history : history'[v] = history[v]
     /\ \A w \in Workers :
          pc[w] = "edit" /\ pc'[w] = "idle" /\ history' # history =>
            pointer' = NewestVersion']_vars

\* Revoking an agent changes nothing but its rules: no version that anybody
\* has added in the meantime is lost (agent.rs:270-327).
RevocationDropsOnlyAgent ==
  [][\A w \in Workers :
       LET a == local[w].agent
           v == local[w].version
       IN  pc[w] = "edit" /\ pc'[w] = "idle" /\ a # None /\ history' # history =>
             history'[v] = history[v - 1] \ {a}]_vars

\* A proposal, of any treasury, is written to the history at most once per
\* handler: once it is marked, under any treasury's path, only the handlers
\* that had found it PENDING before can still execute it (proposal.rs:188,
\* 280-304).  With one handler: at most once.
ExecutionsBounded ==
  \A p \in Proposals : Cardinality(applied[p]) <= Cardinality(Workers)

\* The same for "an active proposal already exists": two creators may both
\* find none (proposal.rs:124-155).
OpenProposalsBounded == Cardinality(OpenProposals) <= Cardinality(Workers)

\* The decision to execute for the treasury: whoever signs, joins or leaves
\* between the two counts, the proposal has more signatures than half of the
\* wallets that are active at the second, and the handler's own wallet, which
\* was active when it was checked, is one of the signers.  The other signatures
\* may be of wallets that were removed since, or of other treasuries' wallets
\* (proposal.rs:203-216, 259-276).
DecidedByMajority ==
  [][\A w \in Workers :
       LET signers == Signers(local[w].proposal)
       IN  pc[w] = "electorate" /\ pc'[w] = "execute" /\ local[w].treasury = Home =>
             /\ 2 * Cardinality(signers) > Cardinality(ActiveWallets)
             /\ local[w].wallet \in signers \cap electors]_vars

\* With one handler a proposal's fate is final.  (With two, a late
\* ExpireProposal overwrites EXECUTED.)
FateIsFinal ==
  [][\A p \in Proposals : proposal[p].status \in {"EXECUTED", "EXPIRED"} =>
       proposal'[p] = proposal[p]]_vars

\* What the governance test asserts of a proposal that reports EXECUTED: it is
\* in the history (tests/constitution.rs:344-363).  The test, and the run, take
\* one treasury's path only; a proposal that is executed under another one's is
\* in that treasury's history.
ExecutedIsApplied ==
  \A p \in Proposals :
    proposal[p].status = "EXECUTED" /\ (\A w \in Workers : pc[w] = "idle") => applied[p] # {}

\* Of the treasury's handlers, the charter sees those that hold a decision: to
\* execute a proposal, and to put in force the version it was written as.
Tabled == [p \in {q \in Proposals : proposal[q].status # "NONE"} |-> proposal[p].content]
Mandated(w) == pc[w] \in {"execute", "max", "append"} /\ local[w].treasury = Home
Mandates == [w \in {u \in Workers : Mandated(u)} |-> local[w].proposal]
Adoptions == [w \in {u \in Workers : pc[u] = "point"} |-> local[w].version]

TheCharter ==
  INSTANCE Charter WITH
    Holders <- Workers, versions <- history, force <- pointer, ballot <- Tabled,
    signed <- signatures, voters <- ActiveWallets, mandate <- Mandates, adopted <- Adoptions

\* With any number of handlers, of this treasury and of others, stopped
\* anywhere, governance keeps its charter: versions are only added, each by an
\* edit that is in force at once or by one mandate for exactly this content,
\* with as many signatures as a majority of the treasury's wallets and one of
\* them by a wallet of the treasury, and nothing else moves the pointer.  The
\* charter does not say that the proposal was this treasury's, nor that the
\* other signers have a vote in it: the code checks neither
\* (constitution.rs:321-351, proposal.rs:178-312).
ImplementsCharter == TheCharter!Spec
===========================================================================
