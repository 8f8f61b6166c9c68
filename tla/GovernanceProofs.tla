------------------------- MODULE GovernanceProofs -------------------------
(***************************************************************************)
(* Proofs about Governance, for every number of handlers, treasuries,      *)
(* proposals, wallets and versions.                                        *)
(*                                                                         *)
(* The argument.  A handler that is about to write version v has read that *)
(* v - 1 is in the history (VersionsInv), and versions never leave it; so  *)
(* when v is free at the write, it is the next one.  A proposal that has   *)
(* left PENDING can only be written by the handlers that are past the      *)
(* check of its status (Late), and each of them writes it once and is then *)
(* no longer one of them (ExecutionsInv).  Open proposals are bounded in   *)
(* the same way, with the creators that have found none (OpenInv).  That a *)
(* mandate has a signature by a wallet of the treasury needs that a        *)
(* handler past its check of the wallet has one that is or was active      *)
(* (ElectorsInv), and that only the treasury's own handlers get as far as  *)
(* its history (HomeInv).                                                  *)
(***************************************************************************)
EXTENDS Governance, FiniteSetTheorems, TLAPS

-----------------------------------------------------------------------------
(* The history is an interval of versions.                                 *)

Contiguous == \E n \in Versions : DOMAIN history = 0..n

LEMMA GreatestOfInterval ==
  ASSUME NEW n \in Nat
  PROVE  (CHOOSE v \in 0..n : \A u \in 0..n : u <= v) = n
<1>1. n \in 0..n /\ \A u \in 0..n : u <= n
  OBVIOUS
<1>2. \A v \in 0..n : (\A u \in 0..n : u <= v) => v = n
  OBVIOUS
<1> QED BY <1>1, <1>2

\* What the transactions of an edit and an execution rely on.
VersionsInv ==
  /\ Contiguous
  /\ pointer \in DOMAIN history
  /\ \A w \in Workers :
       /\ pc[w] \in {"edit", "append"} => local[w].version - 1 \in DOMAIN history
       /\ pc[w] = "point" => local[w].version \in DOMAIN history

\* Handlers that vote or execute have a proposal, and the voters a wallet.
Voting == {"expire", "wallet", "signature", "tally", "electorate", "execute", "max",
           "append", "point"}

TypeInv ==
  /\ TypeOK
  /\ \A w \in Workers : pc[w] \in Voting =>
       local[w].proposal \in Proposals /\ local[w].wallet \in Wallets

LEMMA InitInv == Init => TypeInv /\ VersionsInv
<1> SUFFICES ASSUME Init PROVE TypeInv /\ VersionsInv
  OBVIOUS
<1> USE DEF Init
<1>1. 0 \in Versions /\ 0..0 = {0}
  BY MaxVersionAssumption DEF Versions
<1>2. TypeOK
  BY <1>1, HomeAssumption DEF TypeOK, Contents, PC, Locals, NoLocal
<1>3. DOMAIN history = 0..0
  BY <1>1
<1>4. Contiguous
  BY <1>1, <1>3 DEF Contiguous
<1> QED BY <1>1, <1>2, <1>3, <1>4 DEF TypeInv, Voting, VersionsInv

\* The version that a handler reads as the next one can be written.
LEMMA NextVersion ==
  ASSUME TypeInv, VersionsInv
  PROVE  /\ NewestVersion \in DOMAIN history
         /\ NewestVersion < MaxVersion => NewestVersion + 1 \in Versions
<1>1. PICK n \in Versions : DOMAIN history = 0..n
  BY DEF VersionsInv, Contiguous
<1>2. n \in Nat /\ NewestVersion = n
  BY <1>1, GreatestOfInterval, MaxVersionAssumption DEF Versions, NewestVersion
<1> QED BY <1>1, <1>2, MaxVersionAssumption DEF Versions

\* A free version that has its predecessor is the next one.
LEMMA FreeIsNext ==
  ASSUME VersionsInv, NEW v \in Versions, v - 1 \in DOMAIN history, ~Taken(v),
         NEW c, history' = With(v, c)
  PROVE  /\ DOMAIN history' = 0..v
         /\ NewestVersion' = v
         /\ history'[v] = c
         /\ \A u \in DOMAIN history : u # v /\ history'[u] = history[u]
<1>1. PICK n \in Versions : DOMAIN history = 0..n
  BY DEF VersionsInv, Contiguous
<1>2. n \in Nat /\ v \in Nat
  BY MaxVersionAssumption DEF Versions
<1>3. v = n + 1
  BY <1>1, <1>2 DEF Taken
<1>4. DOMAIN history' = 0..n \cup {v}
  BY <1>1 DEF With
<1>5. DOMAIN history' = 0..v
  <2>1. 0..(n + 1) = 0..n \cup {n + 1}
    BY <1>2
  <2> QED BY <1>3, <1>4, <2>1
<1>6. NewestVersion' = v
  BY <1>2, <1>5, GreatestOfInterval DEF NewestVersion
<1> QED BY <1>5, <1>6 DEF With, Taken

-----------------------------------------------------------------------------
(* Types, and the versions that handlers hold.                             *)

\* The steps that touch neither the history nor the pointer.
LEMMA VersionsKept ==
  ASSUME VersionsInv, UNCHANGED <<history, pointer>>,
         \A w \in Workers : local'[w].version = local[w].version \/
                            local'[w].version - 1 \in DOMAIN history,
         \A w \in Workers : pc'[w] # pc[w] \/ local'[w].version # local[w].version =>
           /\ pc'[w] \in {"edit", "append"} => local'[w].version - 1 \in DOMAIN history
           /\ pc'[w] # "point"
  PROVE  VersionsInv'
BY DEF VersionsInv, Contiguous

LEMMA EditTyped ==
  ASSUME TypeInv, VersionsInv, NEW w \in Workers, Edit(w)
  PROVE  TypeInv' /\ VersionsInv'
<1>1. \A v \in DOMAIN history : history[v] \in Contents
  BY DEF TypeInv, TypeOK
<1>2. ASSUME NEW content \in Contents, NEW a \in Agents \cup {None}, BeginEdit(w, content, a)
      PROVE  TypeInv' /\ VersionsInv'
  <2>1. /\ NewestVersion \in DOMAIN history
        /\ NewestVersion + 1 \in Versions
        /\ (NewestVersion + 1) - 1 = NewestVersion
    BY <1>2, NextVersion, MaxVersionAssumption DEF BeginEdit, TypeInv, TypeOK, Versions
  <2>2. Draft(content, a) \in Locals
    BY <1>2, <2>1, HomeAssumption DEF Draft, NoLocal, Locals
  <2>3. /\ local' = [local EXCEPT ![w] = Draft(content, a)]
        /\ pc' = [pc EXCEPT ![w] = "edit"]
        /\ Draft(content, a).version = NewestVersion + 1
    BY <1>2 DEF BeginEdit, Goto, Draft, NoLocal
  <2>4. TypeOK'
    BY <1>2, <2>2, <2>3 DEF TypeInv, TypeOK, BeginEdit, rows, votes, franchise, PC
  <2>5. \A u \in Workers \ {w} : local'[u] = local[u] /\ pc'[u] = pc[u]
    BY <2>3 DEF TypeInv, TypeOK
  <2>6. local'[w].version - 1 = NewestVersion /\ pc'[w] = "edit"
    BY <2>1, <2>3 DEF TypeInv, TypeOK
  <2>7. VersionsInv'
    BY <1>2, <2>1, <2>5, <2>6, VersionsKept DEF BeginEdit, rows
  <2> QED BY <2>4, <2>5, <2>6, <2>7 DEF TypeInv, Voting
<1>3. CASE \E c \in Contents : UpdateConstitution(w, c)
  BY <1>2, <1>3 DEF UpdateConstitution
<1>4. CASE \E v \in Versions : RollbackConstitution(w, v)
  BY <1>1, <1>2, <1>4 DEF RollbackConstitution
<1>5. CASE \E a \in Agents : RemoveAgentRules(w, a)
  <2>1. PICK a \in Agents : BeginEdit(w, RevokedContent(a), a)
    BY <1>5 DEF RemoveAgentRules
  <2>2. RevokedContent(a) \in Contents
    BY <1>1, NextVersion DEF RevokedContent, Contents
  <2> QED BY <1>2, <2>1, <2>2
<1>6. CASE CommitEdit(w)
  <2> DEFINE v == local[w].version
  <2>1. /\ v \in Versions /\ v - 1 \in DOMAIN history
        /\ local[w].content \in Contents
    BY <1>6 DEF TypeInv, TypeOK, Locals, CommitEdit, VersionsInv
  <2>2. /\ pc' = [pc EXCEPT ![w] = "idle"]
        /\ local' = [local EXCEPT ![w] = NoLocal]
        /\ UNCHANGED <<applied, franchise, votes>>
    BY <1>6 DEF CommitEdit, Return, Goto
  <2>3. NoLocal \in Locals
    BY MaxVersionAssumption, HomeAssumption DEF NoLocal, Locals, Versions, Contents
  <2>4. CASE Taken(v)
    <3>1. UNCHANGED <<history, pointer>>
      BY <1>6, <2>4 DEF CommitEdit
    <3>2. TypeInv'
      BY <2>2, <2>3, <3>1 DEF TypeInv, TypeOK, votes, franchise, PC, Voting
    <3>3. VersionsInv'
      BY <2>2, <3>1 DEF VersionsInv, Contiguous, TypeInv, TypeOK
    <3> QED BY <3>2, <3>3
  <2>5. CASE ~Taken(v)
    <3>1. history' = With(v, local[w].content) /\ pointer' = v
      BY <1>6, <2>5 DEF CommitEdit
    <3> HIDE DEF v
    <3>2. /\ DOMAIN history' = 0..v
          /\ history'[v] = local[w].content
          /\ \A u \in DOMAIN history : u # v /\ history'[u] = history[u]
          /\ DOMAIN history' = DOMAIN history \cup {v}
      BY <2>1, <2>5, <3>1, FreeIsNext DEF With
    <3>3. DOMAIN history' \subseteq Versions /\ history' \in [DOMAIN history' -> Contents]
      <4>1. \A u \in DOMAIN history' : history'[u] \in Contents
        BY <1>1, <2>1, <3>2
      <4>2. history' = [u \in DOMAIN history' |-> history'[u]]
        BY <3>1 DEF With
      <4> QED BY <2>1, <3>2, <4>1, <4>2 DEF TypeInv, TypeOK
    <3>4. TypeInv'
      BY <2>1, <2>2, <2>3, <3>1, <3>3 DEF TypeInv, TypeOK, votes, franchise, PC, Voting
    <3>5. VersionsInv'
      BY <2>1, <2>2, <3>1, <3>2 DEF VersionsInv, Contiguous, TypeInv, TypeOK
    <3> QED BY <3>4, <3>5
  <2> QED BY <2>4, <2>5
<1> QED BY <1>3, <1>4, <1>5, <1>6 DEF Edit

LEMMA VoteTyped ==
  ASSUME TypeInv, VersionsInv, NEW w \in Workers, Vote(w)
  PROVE  TypeInv' /\ VersionsInv'
<1>1. UNCHANGED rows
  BY DEF Vote, BeginProposal, InsertProposal, BeginSign, ExpireProposal, CheckWallet,
         InsertSignature, CountSignatures, CountWallets
<1>2. NoLocal \in Locals /\ NoLocal.version = 0
  BY MaxVersionAssumption, HomeAssumption DEF NoLocal, Locals, Versions, Contents
<1>3. CASE \E c \in Contents, t \in Treasuries : BeginProposal(w, c, t)
  <2>1. PICK c \in Contents, t \in Treasuries : BeginProposal(w, c, t)
    BY <1>3
  <2>2. [local[w] EXCEPT !.content = c, !.treasury = t] \in Locals
    BY DEF TypeInv, TypeOK, Locals
  <2>3. TypeInv'
    BY <1>1, <2>1, <2>2 DEF BeginProposal, TypeInv, TypeOK, votes, franchise, rows, PC, Goto, Voting
  <2>4. VersionsInv'
    BY <1>1, <2>1 DEF BeginProposal, VersionsInv, Contiguous, TypeInv, TypeOK, rows, Goto, Locals
  <2> QED BY <2>3, <2>4
<1>4. CASE \E p \in Proposals : InsertProposal(w, p)
  <2>1. PICK p \in Proposals : InsertProposal(w, p)
    BY <1>4
  <2>2. local[w].content \in Contents /\ local[w].treasury \in Treasuries
    BY DEF TypeInv, TypeOK, Locals
  <2>3. TypeInv'
    BY <1>1, <1>2, <2>1, <2>2
    DEF InsertProposal, TypeInv, TypeOK, votes, franchise, rows, PC, Goto, Return, Voting
  <2>4. VersionsInv'
    BY <1>1, <2>1 DEF InsertProposal, VersionsInv, Contiguous, TypeInv, TypeOK, rows, Goto, Return
  <2> QED BY <2>3, <2>4
<1>5. CASE \E p \in Proposals, x \in Wallets, t \in Treasuries : BeginSign(w, p, x, t)
  <2>1. PICK p \in Proposals, x \in Wallets, t \in Treasuries :
             BeginSign(w, p, x, t)
    BY <1>5
  <2>2. /\ [local[w] EXCEPT !.proposal = p, !.wallet = x, !.treasury = t] \in Locals
        /\ [local[w] EXCEPT !.proposal = p, !.wallet = x, !.treasury = t].proposal = p
        /\ [local[w] EXCEPT !.proposal = p, !.wallet = x, !.treasury = t].wallet = x
    BY DEF TypeInv, TypeOK, Locals
  <2>3. local' = [local EXCEPT ![w] = [local[w] EXCEPT !.proposal = p, !.wallet = x, !.treasury = t]]
    BY <2>1 DEF BeginSign
  <2>4. TypeInv'
    BY <1>1, <2>1, <2>2, <2>3 DEF BeginSign, TypeInv, TypeOK, votes, franchise, rows, PC, Goto, Voting
  <2>5. VersionsInv'
    BY <1>1, <2>1 DEF BeginSign, VersionsInv, Contiguous, TypeInv, TypeOK, rows, Goto, Locals
  <2> QED BY <2>4, <2>5
<1>6. CASE ExpireProposal(w)
  <2>1. TypeInv'
    BY <1>1, <1>2, <1>6
    DEF ExpireProposal, TypeInv, TypeOK, votes, franchise, rows, PC, Goto, Return, Voting
  <2>2. VersionsInv'
    BY <1>1, <1>6 DEF ExpireProposal, VersionsInv, Contiguous, TypeInv, TypeOK, rows, Goto, Return
  <2> QED BY <2>1, <2>2
<1>7. CASE CheckWallet(w) \/ CountWallets(w)
  <2>1. TypeInv'
    BY <1>1, <1>2, <1>7
    DEF CheckWallet, CountWallets, TypeInv, TypeOK, votes, franchise, rows, PC, Goto, Return, Voting
  <2>2. VersionsInv'
    BY <1>1, <1>7
    DEF CheckWallet, CountWallets, VersionsInv, Contiguous, TypeInv, TypeOK, rows, Goto, Return
  <2> QED BY <2>1, <2>2
<1>8. CASE InsertSignature(w)
  <2>1. TypeInv'
    BY <1>1, <1>2, <1>8
    DEF InsertSignature, TypeInv, TypeOK, votes, franchise, rows, PC, Goto, Return, Voting
  <2>2. VersionsInv'
    BY <1>1, <1>8 DEF InsertSignature, VersionsInv, Contiguous, TypeInv, TypeOK, rows, Goto, Return
  <2> QED BY <2>1, <2>2
<1>9. CASE CountSignatures(w)
  <2>1. Cardinality(Signers(local[w].proposal)) \in Nat
    BY WalletsAssumption, FS_Subset, FS_CardinalityType DEF Signers
  <2>2. [local[w] EXCEPT !.count = Cardinality(Signers(local[w].proposal))] \in Locals
    BY <2>1 DEF TypeInv, TypeOK, Locals
  <2>3. TypeInv'
    BY <1>1, <1>9, <2>2
    DEF CountSignatures, TypeInv, TypeOK, votes, franchise, rows, PC, Goto, Voting, Locals
  <2>4. VersionsInv'
    BY <1>1, <1>9
    DEF CountSignatures, VersionsInv, Contiguous, TypeInv, TypeOK, rows, Goto, Locals
  <2> QED BY <2>3, <2>4
<1> QED BY <1>3, <1>4, <1>5, <1>6, <1>7, <1>8, <1>9 DEF Vote

LEMMA ExecuteTyped ==
  ASSUME TypeInv, VersionsInv, NEW w \in Workers, Execute(w)
  PROVE  TypeInv' /\ VersionsInv'
<1>1. NoLocal \in Locals
  BY MaxVersionAssumption, HomeAssumption DEF NoLocal, Locals, Versions, Contents
<1>2. CASE MarkExecuted(w)
  <2>1. TypeInv'
    BY <1>1, <1>2 DEF MarkExecuted, ExecutedStatus, TypeInv, TypeOK, rows, franchise, PC, Goto,
                      Return, Voting
  <2>2. VersionsInv'
    BY <1>2 DEF MarkExecuted, VersionsInv, Contiguous, TypeInv, TypeOK, rows, Goto, Return
  <2> QED BY <2>1, <2>2
<1>3. CASE ReadMaxVersion(w)
  <2> DEFINE l == [local[w] EXCEPT !.version = NewestVersion + 1]
  <2>1. /\ NewestVersion \in DOMAIN history
        /\ NewestVersion + 1 \in Versions
        /\ (NewestVersion + 1) - 1 = NewestVersion
    BY <1>3, NextVersion, MaxVersionAssumption DEF ReadMaxVersion, TypeInv, TypeOK, Versions
  <2>2. /\ l \in Locals /\ l.version - 1 \in DOMAIN history
        /\ l.proposal = local[w].proposal /\ l.wallet = local[w].wallet
    BY <2>1 DEF TypeInv, TypeOK, Locals
  <2>3. local' = [local EXCEPT ![w] = l]
    BY <1>3 DEF ReadMaxVersion
  <2> HIDE DEF l
  <2>4. TypeInv'
    BY <1>3, <2>2, <2>3 DEF ReadMaxVersion, TypeInv, TypeOK, rows, votes, franchise, PC, Goto, Voting
  <2>5. VersionsInv'
    BY <1>3, <2>2, <2>3 DEF ReadMaxVersion, VersionsInv, Contiguous, TypeInv, TypeOK, rows, Goto
  <2> QED BY <2>4, <2>5
<1>4. CASE AppendVersion(w)
  <2> DEFINE v == local[w].version
             p == local[w].proposal
  <2>1. /\ v \in Versions /\ v - 1 \in DOMAIN history
        /\ p \in Proposals /\ proposal[p].content \in Contents
    BY <1>4 DEF TypeInv, TypeOK, Locals, AppendVersion, VersionsInv, Voting
  <2>2. UNCHANGED <<pointer, franchise, votes>>
    BY <1>4 DEF AppendVersion
  <2>3. CASE Taken(v)
    <3>1. Return(w) /\ UNCHANGED <<history, applied>>
      BY <1>4, <2>3 DEF AppendVersion
    <3>2. TypeInv'
      BY <1>1, <2>2, <3>1 DEF TypeInv, TypeOK, votes, franchise, PC, Voting, Return, Goto
    <3>3. VersionsInv'
      BY <2>2, <3>1 DEF VersionsInv, Contiguous, TypeInv, TypeOK, Return, Goto
    <3> QED BY <3>2, <3>3
  <2>4. CASE ~Taken(v)
    <3>1. /\ history' = With(v, proposal[p].content)
          /\ applied' = [applied EXCEPT ![p] = @ \cup {v}]
          /\ pc' = [pc EXCEPT ![w] = "point"]
          /\ local' = local
      BY <1>4, <2>4 DEF AppendVersion, Goto
    <3> HIDE DEF v, p
    <3>2. /\ DOMAIN history' = 0..v
          /\ history'[v] = proposal[p].content
          /\ \A u \in DOMAIN history : u # v /\ history'[u] = history[u]
          /\ DOMAIN history' = DOMAIN history \cup {v}
      BY <2>1, <2>4, <3>1, FreeIsNext DEF With
    <3>3. DOMAIN history' \subseteq Versions /\ history' \in [DOMAIN history' -> Contents]
      <4>1. \A u \in DOMAIN history' : history'[u] \in Contents
        BY <2>1, <3>2 DEF TypeInv, TypeOK
      <4>2. history' = [u \in DOMAIN history' |-> history'[u]]
        BY <3>1 DEF With
      <4> QED BY <2>1, <3>2, <4>1, <4>2 DEF TypeInv, TypeOK
    <3>4. TypeInv'
      BY <1>4, <2>1, <2>2, <3>1, <3>3 DEF AppendVersion, TypeInv, TypeOK, votes, franchise, PC, Voting
    <3>5. VersionsInv'
      BY <2>1, <2>2, <3>1, <3>2 DEF VersionsInv, Contiguous, TypeInv, TypeOK, v
    <3> QED BY <3>4, <3>5
  <2> QED BY <2>3, <2>4
<1>5. CASE MovePointer(w)
  <2>1. local[w].version \in DOMAIN history
    BY <1>5 DEF MovePointer, VersionsInv
  <2>2. TypeInv'
    BY <1>1, <1>5, <2>1 DEF MovePointer, TypeInv, TypeOK, votes, franchise, PC, Voting, Return, Goto
  <2>3. VersionsInv'
    BY <1>5, <2>1 DEF MovePointer, VersionsInv, Contiguous, TypeInv, TypeOK, Return, Goto
  <2> QED BY <2>2, <2>3
<1> QED BY <1>2, <1>3, <1>4, <1>5 DEF Execute

LEMMA TypedStep == TypeInv /\ VersionsInv /\ [Next]_vars => TypeInv' /\ VersionsInv'
<1> SUFFICES ASSUME TypeInv, VersionsInv, [Next]_vars
             PROVE  TypeInv' /\ VersionsInv'
  OBVIOUS
<1>1. NoLocal \in Locals
  BY MaxVersionAssumption, HomeAssumption DEF NoLocal, Locals, Versions, Contents
<1>2. CASE \E w \in Workers : Edit(w)
  BY <1>2, EditTyped
<1>3. CASE \E w \in Workers : Vote(w)
  BY <1>3, VoteTyped
<1>4. CASE \E w \in Workers : Execute(w)
  BY <1>4, ExecuteTyped
<1>5. CASE \E w \in Workers : Fail(w)
  <2>1. TypeInv'
    BY <1>1, <1>5 DEF Fail, TypeInv, TypeOK, rows, votes, franchise, PC, Voting, Return, Goto
  <2>2. VersionsInv'
    BY <1>5 DEF Fail, VersionsInv, Contiguous, TypeInv, TypeOK, rows, Return, Goto
  <2> QED BY <2>1, <2>2
<1>6. CASE Environment
  <2>1. UNCHANGED <<rows, pc, local>>
    BY <1>6 DEF Environment, RegisterWallet, VerifyOwnership, RemoveWallet, SetWallet, RunOut
  <2>2. TypeInv'
    BY <1>6, <2>1 DEF Environment, RegisterWallet, VerifyOwnership, RemoveWallet, SetWallet,
                      RunOut, TypeInv, TypeOK, rows, votes, franchise, Voting
  <2>3. VersionsInv'
    BY <2>1 DEF VersionsInv, Contiguous, rows
  <2> QED BY <2>2, <2>3
<1>7. CASE UNCHANGED vars
  BY <1>7 DEF TypeInv, TypeOK, Voting, VersionsInv, Contiguous, vars, rows, votes, franchise
<1> QED BY <1>2, <1>3, <1>4, <1>5, <1>6, <1>7 DEF Next

\* Every reachable state is well typed.
THEOREM TypeCorrect == Spec => []TypeOK
<1>1. TypeInv => TypeOK
  BY DEF TypeInv
<1> QED BY <1>1, InitInv, TypedStep, PTL DEF Spec

\* The history has no gap, and the policy engine's join finds its version.
THEOREM HistoryCorrect == Spec => []HistorySound
<1>1. TypeInv /\ VersionsInv => HistorySound
  <2> SUFFICES ASSUME TypeInv, VersionsInv PROVE HistorySound
    OBVIOUS
  <2>1. PICK n \in Versions : DOMAIN history = 0..n
    BY DEF VersionsInv, Contiguous
  <2>2. NewestVersion = n
    BY <2>1, GreatestOfInterval, MaxVersionAssumption DEF Versions, NewestVersion
  <2> QED BY <2>1, <2>2 DEF HistorySound, VersionsInv
<1> QED BY <1>1, InitInv, TypedStep, PTL DEF Spec

-----------------------------------------------------------------------------
(* How often a proposal is executed.                                       *)

Unsettled(p) == proposal[p].status \in {"NONE", "PENDING"}

\* The handlers that are past the check of p's status and may still write it.
Late(p) ==
  {w \in Workers : local[w].proposal = p /\
     pc[w] \in {"wallet", "signature", "tally", "electorate", "execute", "max", "append"}}

Writing(w, p) == local[w].proposal = p /\ pc[w] \in {"max", "append"}

ExecutionsInv ==
  \A p \in Proposals :
    /\ Unsettled(p) => applied[p] = {} /\ \A w \in Workers : ~Writing(w, p)
    /\ ~Unsettled(p) => Cardinality(applied[p]) + Cardinality(Late(p)) <= Cardinality(Workers)

\* The only step that writes p to the history.
Writes(w, p) ==
  /\ w \in Late(p)
  /\ w \notin Late(p)'
  /\ applied'[p] = applied[p] \cup {local[w].version}
  /\ proposal' = proposal

LEMMA AppendMoves ==
  ASSUME TypeInv, NEW w \in Workers, AppendVersion(w), NEW p \in Proposals
  PROVE  /\ Late(p)' \subseteq Late(p)
         /\ proposal' = proposal
         /\ applied'[p] = applied[p] \/ Writes(w, p)
         /\ \A u \in Workers : Writing(u, p)' => Writing(u, p)
<1>1. /\ proposal' = proposal
      /\ \A u \in Workers \ {w} : pc'[u] = pc[u] /\ local'[u] = local[u]
      /\ pc[w] = "append" /\ pc'[w] \in {"idle", "point"}
  BY DEF AppendVersion, TypeInv, TypeOK, votes, franchise, Return, Goto
<1>2. applied'[p] = applied[p] \/
        (local[w].proposal = p /\ applied'[p] = applied[p] \cup {local[w].version})
  BY DEF AppendVersion, TypeInv, TypeOK
<1> QED BY <1>1, <1>2 DEF Late, Writes, Writing

LEMMA OtherMoves ==
  ASSUME TypeInv, [Next]_vars, ~(\E w \in Workers : AppendVersion(w)),
         NEW p \in Proposals
  PROVE  /\ applied'[p] = applied[p]
         /\ ~Unsettled(p) => ~Unsettled(p)' /\ Late(p)' \subseteq Late(p)
         /\ Unsettled(p)' => \A u \in Workers : Writing(u, p)' => Writing(u, p)
<1> USE DEF TypeInv, TypeOK, Late, Writing, Unsettled
<1>1. ASSUME NEW w \in Workers, Edit(w)
      PROVE  /\ UNCHANGED <<applied, proposal>>
             /\ \A u \in Workers \ {w} : pc'[u] = pc[u] /\ local'[u] = local[u]
             /\ pc'[w] \in {"idle", "edit"}
  BY <1>1 DEF Edit, UpdateConstitution, RollbackConstitution, RemoveAgentRules, BeginEdit,
              CommitEdit, rows, votes, franchise, Return, Goto
<1>2. ASSUME NEW w \in Workers, Fail(w)
      PROVE  /\ UNCHANGED <<applied, proposal>>
             /\ \A u \in Workers \ {w} : pc'[u] = pc[u] /\ local'[u] = local[u]
             /\ pc'[w] = "idle"
  BY <1>2 DEF Fail, rows, votes, franchise, Return, Goto
<1>3. CASE \E w \in Workers : Edit(w) \/ Fail(w)
  BY <1>1, <1>2, <1>3
<1>4. ASSUME NEW w \in Workers, Vote(w) \/ Execute(w)
      PROVE  /\ applied' = applied
             /\ \A u \in Workers \ {w} : pc'[u] = pc[u] /\ local'[u] = local[u]
  BY <1>4 DEF Vote, BeginProposal, InsertProposal, BeginSign, ExpireProposal, CheckWallet,
              InsertSignature, CountSignatures, CountWallets, Execute, MarkExecuted,
              ReadMaxVersion, AppendVersion, MovePointer, rows, Return, Goto
<1>5. ASSUME NEW w \in Workers, Vote(w)
      PROVE  /\ ~Unsettled(p) => ~Unsettled(p)' /\ (w \in Late(p)' => w \in Late(p))
             /\ ~Writing(w, p)'
  <2>1. CASE \E c \in Contents, t \in Treasuries : BeginProposal(w, c, t)
    BY <2>1 DEF BeginProposal, votes, franchise, Goto
  <2>2. CASE \E q \in Proposals : InsertProposal(w, q)
    BY <2>2 DEF InsertProposal, Return, Goto
  <2>3. CASE \E q \in Proposals, x \in Wallets, t \in Treasuries : BeginSign(w, q, x, t)
    <3>1. PICK q \in Proposals, x \in Wallets, t \in Treasuries :
             BeginSign(w, q, x, t)
      BY <2>3
    <3>2. local'[w].proposal = q
      BY <3>1 DEF BeginSign, Locals
    <3> QED BY <3>1, <3>2 DEF BeginSign, Signable, votes, franchise, Goto
  <2>4. CASE ExpireProposal(w)
    BY <2>4 DEF ExpireProposal, Return, Goto
  <2>5. CASE CheckWallet(w) \/ CountWallets(w)
    BY <2>5 DEF CheckWallet, CountWallets, votes, franchise, Return, Goto
  <2>6. CASE InsertSignature(w)
    BY <2>6 DEF InsertSignature, Return, Goto
  <2>7. CASE CountSignatures(w)
    <3>1. local'[w].proposal = local[w].proposal
      BY <2>7 DEF CountSignatures, Locals
    <3> QED BY <2>7, <3>1 DEF CountSignatures, votes, franchise, Goto
  <2> QED BY <1>5, <2>1, <2>2, <2>3, <2>4, <2>5, <2>6, <2>7 DEF Vote
<1>6. ASSUME NEW w \in Workers, Execute(w)
      PROVE  /\ ~Unsettled(p) => ~Unsettled(p)' /\ (w \in Late(p)' => w \in Late(p))
             /\ Unsettled(p)' => (Writing(w, p)' => Writing(w, p))
  <2>1. CASE MarkExecuted(w)
    BY <2>1 DEF MarkExecuted, ExecutedStatus, Goto, Return
  <2>2. CASE ReadMaxVersion(w)
    <3>1. local'[w].proposal = local[w].proposal
      BY <2>2 DEF ReadMaxVersion, Locals
    <3> QED BY <2>2, <3>1 DEF ReadMaxVersion, votes, franchise, Goto
  <2>3. CASE MovePointer(w)
    BY <2>3 DEF MovePointer, votes, franchise, Return, Goto
  <2> QED BY <1>6, <2>1, <2>2, <2>3 DEF Execute
<1>7. CASE \E w \in Workers : Vote(w)
  BY <1>4, <1>5, <1>7
<1>8. CASE \E w \in Workers : Execute(w)
  BY <1>4, <1>6, <1>8
<1>9. CASE Environment \/ UNCHANGED vars
  <2>1. UNCHANGED <<applied, proposal, pc, local>>
    BY <1>9 DEF Environment, RegisterWallet, VerifyOwnership, RemoveWallet, SetWallet, RunOut,
                rows, votes, franchise, vars
  <2> QED BY <2>1
<1> QED BY <1>3, <1>7, <1>8, <1>9 DEF Next

LEMMA WorkersFinite ==
  ASSUME NEW S, S \subseteq Workers
  PROVE  IsFiniteSet(S) /\ Cardinality(S) \in Nat /\ Cardinality(S) <= Cardinality(Workers)
BY WorkersAssumption, FS_Subset, FS_CardinalityType

LEMMA VersionsFinite ==
  ASSUME NEW S, S \subseteq Versions
  PROVE  IsFiniteSet(S) /\ Cardinality(S) \in Nat
<1>1. IsFiniteSet(Versions)
  BY MaxVersionAssumption, FS_Interval DEF Versions
<1> QED BY <1>1, FS_Subset, FS_CardinalityType

LEMMA ExecutionsStep ==
  TypeInv /\ ExecutionsInv /\ [Next]_vars => ExecutionsInv'
<1> SUFFICES ASSUME TypeInv, ExecutionsInv, [Next]_vars, NEW p \in Proposals
             PROVE  /\ Unsettled(p)' => applied'[p] = {} /\ \A w \in Workers : ~Writing(w, p)'
                    /\ ~Unsettled(p)' =>
                         Cardinality(applied'[p]) + Cardinality(Late(p)')
                           <= Cardinality(Workers)
  BY DEF ExecutionsInv
<1>1. Late(p) \subseteq Workers /\ Late(p)' \subseteq Workers /\ applied[p] \subseteq Versions
  BY DEF Late, TypeInv, TypeOK
<1>2. Cardinality(Late(p)) \in Nat /\ Cardinality(Late(p)') \in Nat
      /\ IsFiniteSet(Late(p))
      /\ Cardinality(Late(p)') <= Cardinality(Workers) /\ Cardinality(Workers) \in Nat
      /\ Cardinality(applied[p]) \in Nat /\ IsFiniteSet(applied[p])
  BY <1>1, WorkersFinite, VersionsFinite
<1>3. CASE \E w \in Workers : AppendVersion(w)
  <2>1. PICK w \in Workers : AppendVersion(w)
    BY <1>3
  <2>2. /\ Late(p)' \subseteq Late(p)
        /\ proposal' = proposal
        /\ applied'[p] = applied[p] \/ Writes(w, p)
        /\ \A u \in Workers : Writing(u, p)' => Writing(u, p)
    BY <2>1, AppendMoves
  <2>3. Unsettled(p)' <=> Unsettled(p)
    BY <2>2 DEF Unsettled
  <2>4. CASE Unsettled(p)
    <3>1. \A u \in Workers : ~Writing(u, p)
      BY <2>4 DEF ExecutionsInv
    <3>2. applied'[p] = applied[p]
      BY <2>1, <2>2, <3>1 DEF AppendVersion, TypeInv, TypeOK, Writing, Writes, Late
    <3> QED BY <2>2, <2>3, <2>4, <3>1, <3>2 DEF ExecutionsInv
  <2>5. CASE ~Unsettled(p) /\ applied'[p] = applied[p]
    <3>1. Cardinality(Late(p)') <= Cardinality(Late(p))
      BY <1>2, <2>2, FS_Subset
    <3> QED BY <1>2, <2>3, <2>5, <3>1 DEF ExecutionsInv
  <2>6. CASE ~Unsettled(p) /\ Writes(w, p)
    <3>1. Late(p)' \subseteq Late(p) \ {w} /\ w \in Late(p)
      BY <2>2, <2>6 DEF Writes
    <3>2. /\ IsFiniteSet(Late(p) \ {w})
          /\ Cardinality(Late(p) \ {w}) = Cardinality(Late(p)) - 1
      BY <1>2, <3>1, FS_RemoveElement
    <3>3. Cardinality(Late(p)') <= Cardinality(Late(p)) - 1
      BY <1>2, <3>1, <3>2, FS_Subset
    <3>4. /\ Cardinality(applied'[p]) \in Nat
          /\ Cardinality(applied'[p]) <= Cardinality(applied[p]) + 1
      <4>1. Cardinality(applied[p] \cup {local[w].version})
              \in {Cardinality(applied[p]), Cardinality(applied[p]) + 1}
        BY <1>2, FS_AddElement
      <4> QED BY <1>2, <2>6, <4>1 DEF Writes
    <3> QED BY <1>2, <2>3, <2>6, <3>3, <3>4 DEF ExecutionsInv
  <2> QED BY <2>2, <2>4, <2>5, <2>6
<1>4. CASE ~(\E w \in Workers : AppendVersion(w))
  <2>1. /\ applied'[p] = applied[p]
        /\ ~Unsettled(p) => ~Unsettled(p)' /\ Late(p)' \subseteq Late(p)
        /\ Unsettled(p)' => \A u \in Workers : Writing(u, p)' => Writing(u, p)
    BY <1>4, OtherMoves
  <2>2. CASE Unsettled(p)
    <3>1. applied'[p] = {} /\ Cardinality(applied'[p]) = 0
      BY <2>1, <2>2, FS_EmptySet DEF ExecutionsInv
    <3> QED BY <1>2, <2>1, <2>2, <3>1 DEF ExecutionsInv
  <2>3. CASE ~Unsettled(p)
    <3>1. Cardinality(Late(p)') <= Cardinality(Late(p))
      BY <1>2, <2>1, <2>3, FS_Subset
    <3> QED BY <1>2, <2>1, <2>3, <3>1 DEF ExecutionsInv
  <2> QED BY <2>2, <2>3
<1> QED BY <1>3, <1>4

\* No proposal is written to the history more often than there are handlers.
THEOREM ExecutionsCorrect == Spec => []ExecutionsBounded
<1>1. Init => ExecutionsInv
  BY DEF Init, ExecutionsInv, Unsettled, Writing
<1>2. TypeInv /\ ExecutionsInv => ExecutionsBounded
  <2> SUFFICES ASSUME TypeInv, ExecutionsInv, NEW p \in Proposals
               PROVE  Cardinality(applied[p]) <= Cardinality(Workers)
    BY DEF ExecutionsBounded
  <2>1. Late(p) \subseteq Workers /\ applied[p] \subseteq Versions
    BY DEF Late, TypeInv, TypeOK
  <2>2. /\ Cardinality(Late(p)) \in Nat /\ Cardinality(applied[p]) \in Nat
        /\ Cardinality(Workers) \in Nat
    BY <2>1, WorkersFinite, VersionsFinite
  <2>3. Cardinality({}) = 0
    BY FS_EmptySet
  <2> QED BY <2>2, <2>3 DEF ExecutionsInv
<1> QED BY <1>1, <1>2, InitInv, TypedStep, ExecutionsStep, PTL DEF Spec

-----------------------------------------------------------------------------
(* What an edit and a revocation write.                                    *)

\* A step leaves the history alone, or a handler adds the next version.
Adds(w, v, c) ==
  /\ pc[w] \in {"edit", "append"}
  /\ v = local[w].version
  /\ NewestVersion' = v
  /\ history'[v] = c
  /\ \A u \in DOMAIN history : history'[u] = history[u]
  /\ \A u \in Workers \ {w} : pc'[u] = pc[u] /\ local'[u] = local[u]
  /\ pc[w] = "edit" => c = local[w].content /\ pointer' = v

LEMMA HistoryStep ==
  ASSUME TypeInv, VersionsInv, [Next]_vars
  PROVE  history' = history \/ \E w \in Workers : \E v, c : Adds(w, v, c)
<1>1. ASSUME NEW w \in Workers, Edit(w)
      PROVE  history' = history \/ \E v, c : Adds(w, v, c)
  <2>1. CASE ~CommitEdit(w)
    BY <1>1, <2>1 DEF Edit, UpdateConstitution, RollbackConstitution, RemoveAgentRules,
                      BeginEdit, rows
  <2>2. CASE CommitEdit(w) /\ Taken(local[w].version)
    BY <2>2 DEF CommitEdit
  <2>3. CASE CommitEdit(w) /\ ~Taken(local[w].version)
    <3> DEFINE v == local[w].version
               c == local[w].content
    <3>1. /\ v \in Versions /\ v - 1 \in DOMAIN history
          /\ history' = With(v, c) /\ pointer' = v
      BY <2>3 DEF CommitEdit, TypeInv, TypeOK, Locals, VersionsInv
    <3>2. /\ pc[w] = "edit"
          /\ \A u \in Workers \ {w} : pc'[u] = pc[u] /\ local'[u] = local[u]
      BY <2>3 DEF CommitEdit, Return, Goto, TypeInv, TypeOK
    <3> HIDE DEF v, c
    <3>3. /\ NewestVersion' = v
          /\ history'[v] = c
          /\ \A u \in DOMAIN history : history'[u] = history[u]
      BY <2>3, <3>1, FreeIsNext DEF v
    <3>4. Adds(w, v, c)
      BY <3>1, <3>2, <3>3 DEF Adds, v, c
    <3> QED BY <3>4
  <2> QED BY <2>1, <2>2, <2>3
<1>2. ASSUME NEW w \in Workers, Execute(w)
      PROVE  history' = history \/ \E v, c : Adds(w, v, c)
  <2>1. CASE ~AppendVersion(w)
    BY <1>2, <2>1 DEF Execute, MarkExecuted, ReadMaxVersion, MovePointer, rows
  <2>2. CASE AppendVersion(w) /\ Taken(local[w].version)
    BY <2>2 DEF AppendVersion
  <2>3. CASE AppendVersion(w) /\ ~Taken(local[w].version)
    <3> DEFINE v == local[w].version
               c == proposal[local[w].proposal].content
    <3>1. /\ v \in Versions /\ v - 1 \in DOMAIN history
          /\ history' = With(v, c)
      BY <2>3 DEF AppendVersion, TypeInv, TypeOK, Locals, VersionsInv
    <3>2. /\ pc[w] = "append"
          /\ \A u \in Workers \ {w} : pc'[u] = pc[u] /\ local'[u] = local[u]
      BY <2>3 DEF AppendVersion, Goto, TypeInv, TypeOK
    <3> HIDE DEF v, c
    <3>3. /\ NewestVersion' = v
          /\ history'[v] = c
          /\ \A u \in DOMAIN history : history'[u] = history[u]
      BY <2>3, <3>1, FreeIsNext DEF v
    <3>4. Adds(w, v, c)
      BY <3>1, <3>2, <3>3 DEF Adds, v, c
    <3> QED BY <3>4
  <2> QED BY <2>1, <2>2, <2>3
<1>3. CASE \E w \in Workers : Vote(w) \/ Fail(w)
  BY <1>3, ZenonT(40) DEF Fail, Vote, BeginProposal, InsertProposal, BeginSign, ExpireProposal, CheckWallet,
              InsertSignature, CountSignatures, CountWallets, rows
<1>4. CASE Environment \/ UNCHANGED vars
  BY <1>4 DEF Environment, RegisterWallet, VerifyOwnership, RemoveWallet, SetWallet, RunOut,
              rows, vars
<1> QED BY <1>1, <1>2, <1>3, <1>4 DEF Next

\* No version is rewritten, and an edit that succeeds is in force and newest.
THEOREM EditsCorrect == Spec => EditsTakeTheTop
<1>1. TypeInv /\ VersionsInv /\ [Next]_vars =>
        [/\ \A v \in DOMAIN history : history'[v] = history[v]
         /\ \A w \in Workers :
              pc[w] = "edit" /\ pc'[w] = "idle" /\ history' # history =>
                pointer' = NewestVersion']_vars
  <2> SUFFICES ASSUME TypeInv, VersionsInv, [Next]_vars
               PROVE  /\ \A v \in DOMAIN history : history'[v] = history[v]
                      /\ \A w \in Workers :
                           pc[w] = "edit" /\ pc'[w] = "idle" /\ history' # history =>
                             pointer' = NewestVersion'
    OBVIOUS
  <2> QED BY HistoryStep DEF Adds
<1> QED BY <1>1, InitInv, TypedStep, PTL DEF Spec, EditsTakeTheTop

\* What a revocation is about to write is the newest version it has read, less
\* the agent's rules.
RevocationInv ==
  \A w \in Workers : pc[w] = "edit" /\ local[w].agent # None =>
    local[w].content = history[local[w].version - 1] \ {local[w].agent}

LEMMA RevocationStep ==
  TypeInv /\ VersionsInv /\ RevocationInv /\ [Next]_vars => RevocationInv'
<1> SUFFICES ASSUME TypeInv, VersionsInv, RevocationInv, [Next]_vars, NEW w \in Workers,
                    pc'[w] = "edit", local'[w].agent # None
             PROVE  local'[w].content = history'[local'[w].version - 1] \ {local'[w].agent}
  BY DEF RevocationInv
<1>1. \A v \in DOMAIN history : history'[v] = history[v]
  BY HistoryStep DEF Adds
<1>2. CASE pc[w] = "edit" /\ local'[w] = local[w]
  BY <1>1, <1>2 DEF RevocationInv, VersionsInv
<1>3. ASSUME NEW c, NEW a, BeginEdit(w, c, a), a # None => c = history[NewestVersion] \ {a}
      PROVE  local'[w].content = history'[local'[w].version - 1] \ {local'[w].agent}
  <2>1. local'[w] = Draft(c, a)
    BY <1>3 DEF BeginEdit, TypeInv, TypeOK
  <2>2. /\ local'[w].content = c /\ local'[w].agent = a
        /\ local'[w].version = NewestVersion + 1
    BY <2>1 DEF Draft, NoLocal
  <2>3. NewestVersion \in DOMAIN history /\ (NewestVersion + 1) - 1 = NewestVersion
    BY NextVersion, MaxVersionAssumption DEF TypeInv, TypeOK, Versions
  <2> QED BY <1>1, <1>3, <2>2, <2>3
<1>4. CASE \E v \in Workers : Edit(v)
  <2>1. PICK v \in Workers : Edit(v)
    BY <1>4
  <2>2. CASE CommitEdit(v)
    BY <1>2, <2>2 DEF CommitEdit, Return, Goto, TypeInv, TypeOK
  <2>3. CASE v # w
    <3>1. pc'[w] = pc[w] /\ local'[w] = local[w]
      BY <2>1, <2>3 DEF Edit, UpdateConstitution, RollbackConstitution, RemoveAgentRules,
                        BeginEdit, CommitEdit, Return, Goto, TypeInv, TypeOK
    <3> QED BY <1>2, <3>1
  <2>4. CASE v = w /\ \E c \in Contents : UpdateConstitution(w, c)
    BY <1>3, <2>4 DEF UpdateConstitution
  <2>5. CASE v = w /\ \E u \in Versions : RollbackConstitution(w, u)
    BY <1>3, <2>5 DEF RollbackConstitution
  <2>6. CASE v = w /\ \E a \in Agents : RemoveAgentRules(w, a)
    BY <1>3, <2>6 DEF RemoveAgentRules, RevokedContent
  <2> QED BY <2>1, <2>2, <2>3, <2>4, <2>5, <2>6 DEF Edit
<1>5. CASE \E v \in Workers : Vote(v) \/ Execute(v) \/ Fail(v)
  <2>1. PICK v \in Workers : Vote(v) \/ Execute(v) \/ Fail(v)
    BY <1>5
  <2>2. /\ \A u \in Workers \ {v} : pc'[u] = pc[u] /\ local'[u] = local[u]
        /\ pc'[v] # "edit"
    BY <2>1 DEF Vote, BeginProposal, InsertProposal, BeginSign, ExpireProposal, CheckWallet,
                InsertSignature, CountSignatures, CountWallets, Execute, MarkExecuted,
                ReadMaxVersion, AppendVersion, MovePointer, Fail, Return, Goto, TypeInv, TypeOK
  <2> QED BY <1>2, <2>2
<1>6. CASE Environment \/ UNCHANGED vars
  BY <1>2, <1>6 DEF Environment, RegisterWallet, VerifyOwnership, RemoveWallet, SetWallet,
                    RunOut, vars
<1> QED BY <1>4, <1>5, <1>6 DEF Next

\* A revocation loses nobody's version.
THEOREM RevocationCorrect == Spec => RevocationDropsOnlyAgent
<1>1. Init => RevocationInv
  BY DEF Init, RevocationInv
<1>2. TypeInv /\ VersionsInv /\ RevocationInv /\ [Next]_vars =>
        [\A w \in Workers :
           LET a == local[w].agent
               v == local[w].version
           IN  pc[w] = "edit" /\ pc'[w] = "idle" /\ a # None /\ history' # history =>
                 history'[v] = history[v - 1] \ {a}]_vars
  <2> SUFFICES ASSUME TypeInv, VersionsInv, RevocationInv, [Next]_vars, NEW w \in Workers,
                      pc[w] = "edit", pc'[w] = "idle", local[w].agent # None,
                      history' # history
               PROVE  history'[local[w].version] =
                        history[local[w].version - 1] \ {local[w].agent}
    OBVIOUS
  <2>1. PICK u \in Workers : \E v, c : Adds(u, v, c)
    BY HistoryStep
  <2>2. PICK v, c : Adds(u, v, c)
    BY <2>1
  <2>3. u = w
    BY <2>2 DEF Adds
  <2> QED BY <2>2, <2>3 DEF Adds, RevocationInv
<1> QED BY <1>1, <1>2, InitInv, TypedStep, RevocationStep, PTL DEF Spec, RevocationDropsOnlyAgent
-----------------------------------------------------------------------------
(* How many proposals are open, who decides them, and their fate.          *)

\* The handlers that have found no open proposal and not inserted theirs.
Creators == {w \in Workers : pc[w] = "propose" /\ local[w].treasury = Home}

OpenInv ==
  /\ IsFiniteSet(OpenProposals)
  /\ Cardinality(OpenProposals) + Cardinality(Creators) <= Cardinality(Workers)

\* A creator starts only while nothing is open, and leaves when it inserts.
LEMMA OpenMoves ==
  ASSUME TypeInv, [Next]_vars
  PROVE  \/ OpenProposals' = {}
         \/ OpenProposals' \subseteq OpenProposals /\ Creators' \subseteq Creators
         \/ \E w \in Creators, p \in Proposals :
              /\ OpenProposals' \subseteq OpenProposals \cup {p}
              /\ Creators' \subseteq Creators \ {w}
<1> USE DEF TypeInv, TypeOK
<1>1. ASSUME NEW w \in Workers, Edit(w) \/ Fail(w)
      PROVE  OpenProposals' \subseteq OpenProposals /\ Creators' \subseteq Creators
  BY <1>1 DEF Edit, UpdateConstitution, RollbackConstitution, RemoveAgentRules, BeginEdit,
              CommitEdit, Fail, votes, franchise, Return, Goto, OpenProposals, Creators
<1>2. ASSUME NEW w \in Workers, Execute(w)
      PROVE  OpenProposals' \subseteq OpenProposals /\ Creators' \subseteq Creators
  <2>1. Creators' \subseteq Creators
    BY <1>2 DEF Execute, MarkExecuted, ReadMaxVersion, AppendVersion, MovePointer, Return,
                Goto, Creators
  <2>2. CASE MarkExecuted(w)
    BY <2>1, <2>2 DEF MarkExecuted, ExecutedStatus, OpenProposals
  <2>3. CASE ~MarkExecuted(w)
    BY <1>2, <2>1, <2>3 DEF Execute, ReadMaxVersion, AppendVersion, MovePointer, votes, franchise,
                            OpenProposals
  <2> QED BY <2>2, <2>3
<1>3. ASSUME NEW w \in Workers, NEW c, NEW t, BeginProposal(w, c, t)
      PROVE  \/ OpenProposals' = {}
             \/ OpenProposals' \subseteq OpenProposals /\ Creators' \subseteq Creators
  <2>1. UNCHANGED OpenProposals
    BY <1>3 DEF BeginProposal, OpenProposals, votes
  <2>2. CASE t = Home
    BY <1>3, <2>1, <2>2 DEF BeginProposal, ActiveProposalExists
  <2>3. CASE t # Home
    <3>1. /\ \A u \in Workers \ {w} : pc'[u] = pc[u] /\ local'[u] = local[u]
          /\ local'[w].treasury = t
      BY <1>3 DEF BeginProposal, Goto, Locals
    <3> QED BY <2>1, <2>3, <3>1 DEF Creators
  <2> QED BY <2>2, <2>3
<1>4. ASSUME NEW w \in Workers, NEW p \in Proposals, InsertProposal(w, p)
      PROVE  \/ OpenProposals' \subseteq OpenProposals /\ Creators' \subseteq Creators
             \/ /\ w \in Creators
                /\ OpenProposals' \subseteq OpenProposals \cup {p}
                /\ Creators' \subseteq Creators \ {w}
  <2>1. Creators' \subseteq Creators \ {w}
    BY <1>4 DEF InsertProposal, Return, Goto, Creators
  <2>2. /\ \A q \in Proposals \ {p} : proposal'[q] = proposal[q]
        /\ proposal'[p].treasury = local[w].treasury
        /\ UNCHANGED overdue /\ pc[w] = "propose"
    BY <1>4 DEF InsertProposal
  <2>3. OpenProposals' \subseteq OpenProposals \cup {p}
    BY <2>2 DEF OpenProposals
  <2>4. CASE local[w].treasury = Home
    BY <2>1, <2>2, <2>3, <2>4 DEF Creators
  <2>5. CASE local[w].treasury # Home
    BY <2>1, <2>2, <2>5 DEF OpenProposals
  <2> QED BY <2>4, <2>5
<1>5. ASSUME NEW w \in Workers,
             \/ \E p \in Proposals, x \in Wallets, t \in Treasuries : BeginSign(w, p, x, t)
             \/ ExpireProposal(w) \/ CheckWallet(w) \/ InsertSignature(w)
             \/ CountSignatures(w) \/ CountWallets(w)
      PROVE  OpenProposals' \subseteq OpenProposals /\ Creators' \subseteq Creators
  <2>1. Creators' \subseteq Creators
    BY <1>5 DEF BeginSign, ExpireProposal, CheckWallet, InsertSignature, CountSignatures,
                CountWallets, Return, Goto, Creators
  <2>2. CASE ExpireProposal(w)
    BY <2>1, <2>2 DEF ExpireProposal, OpenProposals
  <2>3. CASE ~ExpireProposal(w)
    BY <1>5, <2>1, <2>3 DEF BeginSign, CheckWallet, InsertSignature, CountSignatures,
                            CountWallets, votes, franchise, OpenProposals
  <2> QED BY <2>2, <2>3
<1>6. CASE Environment \/ UNCHANGED vars
  BY <1>6 DEF Environment, RegisterWallet, VerifyOwnership, RemoveWallet, SetWallet, RunOut,
              votes, franchise, vars, OpenProposals, Creators
<1> QED BY <1>1, <1>2, <1>3, <1>4, <1>5, <1>6, SMTT(30) DEF Next, Vote

LEMMA OpenStep == TypeInv /\ OpenInv /\ [Next]_vars => OpenInv'
<1> SUFFICES ASSUME TypeInv, OpenInv, [Next]_vars
             PROVE  OpenInv'
  OBVIOUS
<1> DEFINE open == OpenProposals
           left == OpenProposals'
           before == Creators
           after == Creators'
<1>1. before \subseteq Workers /\ after \subseteq Workers
  BY DEF Creators
<1>2. /\ IsFiniteSet(before) /\ IsFiniteSet(after)
      /\ Cardinality(before) \in Nat /\ Cardinality(after) \in Nat
      /\ Cardinality(after) <= Cardinality(Workers)
      /\ Cardinality(Workers) \in Nat
  BY <1>1, WorkersFinite
<1>3. IsFiniteSet(open) /\ Cardinality(open) + Cardinality(before) <= Cardinality(Workers)
  BY DEF OpenInv
<1>4. Cardinality(open) \in Nat
  BY <1>3, FS_CardinalityType
<1>5. \/ left = {}
      \/ left \subseteq open /\ after \subseteq before
      \/ \E w \in before, p \in Proposals :
           left \subseteq open \cup {p} /\ after \subseteq before \ {w}
  BY OpenMoves
<1>6. IsFiniteSet(left) /\ Cardinality(left) + Cardinality(after) <= Cardinality(Workers)
        => OpenInv'
  BY DEF OpenInv
<1> HIDE DEF open, left, before, after
<1>7. CASE left = {}
  BY <1>2, <1>6, <1>7, FS_EmptySet
<1>8. CASE left \subseteq open /\ after \subseteq before
  <2>1. IsFiniteSet(left) /\ Cardinality(left) <= Cardinality(open)
    BY <1>3, <1>8, FS_Subset
  <2>2. Cardinality(after) <= Cardinality(before) /\ Cardinality(left) \in Nat
    BY <1>2, <1>8, <2>1, FS_Subset, FS_CardinalityType
  <2> QED BY <1>2, <1>3, <1>4, <1>6, <2>1, <2>2
<1>9. CASE \E w \in before, p \in Proposals :
             left \subseteq open \cup {p} /\ after \subseteq before \ {w}
  <2>1. PICK w \in before, p \in Proposals :
               left \subseteq open \cup {p} /\ after \subseteq before \ {w}
    BY <1>9
  <2>2. /\ IsFiniteSet(open \cup {p})
        /\ Cardinality(open \cup {p}) \in {Cardinality(open), Cardinality(open) + 1}
    BY <1>3, FS_AddElement
  <2>3. /\ IsFiniteSet(before \ {w})
        /\ Cardinality(before \ {w}) = Cardinality(before) - 1
    BY <1>2, FS_RemoveElement
  <2>4. /\ IsFiniteSet(left) /\ Cardinality(left) <= Cardinality(open \cup {p})
        /\ Cardinality(after) <= Cardinality(before \ {w})
    BY <2>1, <2>2, <2>3, FS_Subset
  <2>5. Cardinality(left) \in Nat
    BY <2>4, FS_CardinalityType
  <2> QED BY <1>2, <1>3, <1>4, <1>6, <2>2, <2>3, <2>4, <2>5
<1> QED BY <1>5, <1>7, <1>8, <1>9

\* However many creators find no open proposal at once, no more are ever open
\* than there are handlers (proposal.rs:124-155).
THEOREM OpenProposalsCorrect == Spec => []OpenProposalsBounded
<1>1. Init => OpenInv
  <2> SUFFICES ASSUME Init PROVE OpenInv
    OBVIOUS
  <2>1. OpenProposals = {} /\ Creators = {}
    BY DEF Init, OpenProposals, Creators
  <2>2. Cardinality(Workers) \in Nat
    BY WorkersFinite
  <2> QED BY <2>1, <2>2, FS_EmptySet DEF OpenInv
<1>2. OpenInv => OpenProposalsBounded
  <2>1. Cardinality(Creators) \in Nat /\ Cardinality(Workers) \in Nat
    BY WorkersFinite DEF Creators
  <2>2. IsFiniteSet(OpenProposals) => Cardinality(OpenProposals) \in Nat
    BY FS_CardinalityType
  <2> QED BY <2>1, <2>2 DEF OpenInv, OpenProposalsBounded
<1> QED BY <1>1, <1>2, InitInv, TypedStep, OpenStep, PTL DEF Spec

\* What a handler has counted are signatures that are still there.
CountInv ==
  \A w \in Workers : pc[w] = "electorate" =>
    local[w].count <= Cardinality(Signers(local[w].proposal))

LEMMA SignersFinite ==
  ASSUME NEW S, S \subseteq Wallets
  PROVE  IsFiniteSet(S) /\ Cardinality(S) \in Nat
BY WalletsAssumption, FS_Subset, FS_CardinalityType

LEMMA SignaturesGrow == [Next]_vars => signatures \subseteq signatures'
<1> SUFFICES ASSUME [Next]_vars PROVE signatures \subseteq signatures'
  OBVIOUS
<1>1. CASE \E w \in Workers : Vote(w)
  BY <1>1, ZenonT(40) DEF Vote, BeginProposal, InsertProposal, BeginSign, ExpireProposal, CheckWallet,
              InsertSignature, CountSignatures, CountWallets, votes
<1>2. CASE \E w \in Workers : Execute(w)
  BY <1>2 DEF Execute, MarkExecuted, ReadMaxVersion, AppendVersion, MovePointer, votes
<1>3. CASE \E w \in Workers : Edit(w) \/ Fail(w)
  BY <1>3 DEF Edit, UpdateConstitution, RollbackConstitution, RemoveAgentRules, BeginEdit,
              CommitEdit, Fail, votes
<1>4. CASE Environment \/ UNCHANGED vars
  BY <1>4 DEF Environment, RegisterWallet, VerifyOwnership, RemoveWallet, SetWallet, RunOut,
              votes, vars
<1> QED BY <1>1, <1>2, <1>3, <1>4 DEF Next

LEMMA SignersGrow ==
  ASSUME [Next]_vars, NEW p
  PROVE  Cardinality(Signers(p)) <= Cardinality(Signers(p)')
<1>1. signatures \subseteq signatures'
  BY SignaturesGrow
<1>2. Signers(p) \subseteq Signers(p)' /\ Signers(p)' \subseteq Wallets
  BY <1>1 DEF Signers
<1> DEFINE S == Signers(p)
           T == Signers(p)'
<1>3. S \subseteq T /\ T \subseteq Wallets
  BY <1>2
<1> HIDE DEF S, T
<1>4. Cardinality(S) <= Cardinality(T)
  BY <1>3, SignersFinite, FS_Subset
<1> QED BY <1>4 DEF S, T

\* Only CountSignatures and CountWallets move a handler to or from the count.
LEMMA CountMoves ==
  ASSUME TypeInv, [Next]_vars, NEW w \in Workers
  PROVE  /\ pc[w] = "electorate" /\ pc'[w] = "execute" => CountWallets(w)
         /\ pc'[w] = "electorate" =>
              CountSignatures(w) \/ (pc[w] = "electorate" /\ local'[w] = local[w])
<1> USE DEF TypeInv, TypeOK
<1>1. ASSUME NEW v \in Workers, v # w, Edit(v) \/ Vote(v) \/ Execute(v) \/ Fail(v)
      PROVE  pc'[w] = pc[w] /\ local'[w] = local[w]
  BY <1>1 DEF Edit, UpdateConstitution, RollbackConstitution, RemoveAgentRules, BeginEdit,
         CommitEdit, Vote, BeginProposal, InsertProposal, BeginSign, ExpireProposal,
         CheckWallet, InsertSignature, CountSignatures, CountWallets, Execute, MarkExecuted,
         ReadMaxVersion, AppendVersion, MovePointer, Fail, Return, Goto
<1>2. CASE Edit(w) \/ Execute(w) \/ Fail(w)
  BY <1>2 DEF Edit, UpdateConstitution, RollbackConstitution, RemoveAgentRules, BeginEdit,
         CommitEdit, Execute, MarkExecuted, ReadMaxVersion, AppendVersion, MovePointer, Fail,
         Return, Goto
<1>3. CASE Vote(w)
  BY <1>3 DEF Vote, BeginProposal, InsertProposal, BeginSign, ExpireProposal, CheckWallet,
         InsertSignature, CountSignatures, CountWallets, Return, Goto
<1>4. CASE Environment \/ UNCHANGED vars
  BY <1>4 DEF Environment, RegisterWallet, VerifyOwnership, RemoveWallet, SetWallet, RunOut,
         vars
<1> QED BY <1>1, <1>2, <1>3, <1>4 DEF Next

LEMMA CountStep == TypeInv /\ CountInv /\ [Next]_vars => CountInv'
<1> SUFFICES ASSUME TypeInv, CountInv, [Next]_vars,
                    NEW w \in Workers, pc'[w] = "electorate"
             PROVE  local'[w].count <= Cardinality(Signers(local[w].proposal)')
  BY DEF CountInv
<1>1. PICK p : p = local[w].proposal
  OBVIOUS
<1>2. Cardinality(Signers(p)) <= Cardinality(Signers(p)')
  BY SignersGrow
<1>3. /\ Cardinality(Signers(p)) \in Nat /\ Cardinality(Signers(p)') \in Nat
  BY SignersFinite DEF Signers
<1>4. local'[w].proposal = p /\ local'[w].count \in Nat
      /\ local'[w].count <= Cardinality(Signers(p))
  <2>1. CASE CountSignatures(w)
    BY <1>1, <1>3, <2>1 DEF CountSignatures, TypeInv, TypeOK, Locals
  <2>2. CASE pc[w] = "electorate" /\ local'[w] = local[w]
    BY <1>1, <2>2 DEF CountInv, TypeInv, TypeOK, Locals
  <2> QED BY <2>1, <2>2, CountMoves
<1>5. Signers(local[w].proposal)' = Signers(p)'
  BY <1>4 DEF Signers
<1> QED BY <1>2, <1>3, <1>4, <1>5

\* The signatures counted suffice for the wallets counted after them.
LEMMA MajorityStep ==
  ASSUME TypeInv, CountInv, [Next]_vars, NEW w \in Workers,
         pc[w] = "electorate", pc'[w] = "execute", local[w].treasury = Home
  PROVE  2 * Cardinality(Signers(local[w].proposal)) > Cardinality(ActiveWallets)
<1> DEFINE k == Cardinality(Signers(local[w].proposal))
           n == Cardinality(ActiveWallets)
<1>1. local[w].count >= (n \div 2) + 1
  BY CountMoves DEF CountWallets, Threshold, Return, Goto, TypeInv, TypeOK
<1>2. local[w].count <= k /\ local[w].count \in Nat
  BY DEF CountInv, TypeInv, TypeOK, Locals
<1>3. k \in Nat /\ n \in Nat
  BY SignersFinite DEF Signers, ActiveWallets
<1> HIDE DEF k, n
<1>4. 2 * k > n
  BY <1>1, <1>2, <1>3
<1> QED BY <1>4 DEF k, n

\* A handler that counts has inserted its wallet's signature, and the wallet
\* it has checked was active.
ElectorsInv ==
  /\ ActiveWallets \subseteq electors
  /\ \A w \in Workers :
       /\ pc[w] \in {"tally", "electorate"} =>
            <<local[w].proposal, local[w].wallet>> \in signatures
       /\ pc[w] \in {"signature", "tally", "electorate"} /\ local[w].treasury = Home =>
            local[w].wallet \in electors

\* No wallet is struck off the electors, and the active ones are on it.
LEMMA ElectorsGrow ==
  ASSUME TypeInv, ElectorsInv, [Next]_vars
  PROVE  /\ electors \subseteq electors' /\ ActiveWallets' \subseteq electors'
         /\ UNCHANGED <<pc, local, signatures>> \/ UNCHANGED franchise
<1>1. CASE UNCHANGED franchise
  BY <1>1 DEF franchise, ActiveWallets, ElectorsInv
<1>2. CASE \E w \in Workers : Edit(w) \/ Fail(w)
  BY <1>1, <1>2 DEF Edit, UpdateConstitution, RollbackConstitution, RemoveAgentRules, BeginEdit,
                    CommitEdit, Fail
<1>3. CASE \E w \in Workers : Vote(w)
  BY <1>1, <1>3, ZenonT(40) DEF Vote, BeginProposal, InsertProposal, BeginSign, ExpireProposal, CheckWallet,
                    InsertSignature, CountSignatures, CountWallets
<1>4. CASE \E w \in Workers : Execute(w)
  BY <1>1, <1>4 DEF Execute, MarkExecuted, ReadMaxVersion, AppendVersion, MovePointer
<1>5. CASE \E x \in Wallets : RegisterWallet(x) \/ VerifyOwnership(x) \/ RemoveWallet(x)
  <2>1. PICK x \in Wallets : \E s \in {"PENDING", "ACTIVE", "ABSENT"} : SetWallet(x, s)
    BY <1>5 DEF RegisterWallet, VerifyOwnership, RemoveWallet
  <2> QED BY <2>1 DEF SetWallet, ActiveWallets, ElectorsInv, TypeInv, TypeOK, votes
<1>6. CASE (\E p \in Proposals : RunOut(p)) \/ UNCHANGED vars
  BY <1>1, <1>6 DEF RunOut, vars
<1> QED BY <1>2, <1>3, <1>4, <1>5, <1>6 DEF Next, Environment

\* How a handler comes to its signature and to the counts.
LEMMA SignatureMoves ==
  ASSUME TypeInv, [Next]_vars, NEW w \in Workers
  PROVE  /\ pc'[w] = "signature" =>
              \/ CheckWallet(w) /\ local'[w] = local[w]
              \/ pc[w] = "signature" /\ local'[w] = local[w]
         /\ pc'[w] \in {"tally", "electorate"} =>
              \/ InsertSignature(w) /\ local'[w] = local[w]
              \/ /\ pc[w] \in {"tally", "electorate"}
                 /\ local'[w].wallet = local[w].wallet
                 /\ local'[w].proposal = local[w].proposal
                 /\ local'[w].treasury = local[w].treasury
<1> USE DEF TypeInv, TypeOK
<1>1. ASSUME NEW v \in Workers, v # w, Edit(v) \/ Vote(v) \/ Execute(v) \/ Fail(v)
      PROVE  pc'[w] = pc[w] /\ local'[w] = local[w]
  BY <1>1 DEF Edit, UpdateConstitution, RollbackConstitution, RemoveAgentRules, BeginEdit,
         CommitEdit, Vote, BeginProposal, InsertProposal, BeginSign, ExpireProposal,
         CheckWallet, InsertSignature, CountSignatures, CountWallets, Execute, MarkExecuted,
         ReadMaxVersion, AppendVersion, MovePointer, Fail, Return, Goto
<1>2. CASE Edit(w) \/ Execute(w) \/ Fail(w)
  BY <1>2 DEF Edit, UpdateConstitution, RollbackConstitution, RemoveAgentRules, BeginEdit,
         CommitEdit, Execute, MarkExecuted, ReadMaxVersion, AppendVersion, MovePointer, Fail,
         Return, Goto
<1>3. CASE Vote(w)
  <2>1. CASE CountSignatures(w)
    <3>1. /\ local'[w].wallet = local[w].wallet
          /\ local'[w].proposal = local[w].proposal
          /\ local'[w].treasury = local[w].treasury
      BY <2>1 DEF CountSignatures, Locals
    <3> QED BY <2>1, <3>1 DEF CountSignatures, Goto
  <2>2. CASE ~CountSignatures(w)
    BY <1>3, <2>2 DEF Vote, BeginProposal, InsertProposal, BeginSign, ExpireProposal,
           CheckWallet, InsertSignature, CountWallets, Return, Goto
  <2> QED BY <2>1, <2>2
<1>4. CASE Environment \/ UNCHANGED vars
  BY <1>4 DEF Environment, RegisterWallet, VerifyOwnership, RemoveWallet, SetWallet, RunOut,
         vars
<1> QED BY <1>1, <1>2, <1>3, <1>4 DEF Next

LEMMA ElectorsStep == TypeInv /\ ElectorsInv /\ [Next]_vars => ElectorsInv'
<1> SUFFICES ASSUME TypeInv, ElectorsInv, [Next]_vars, NEW w \in Workers
             PROVE  /\ pc'[w] \in {"tally", "electorate"} =>
                         <<local'[w].proposal, local'[w].wallet>> \in signatures'
                    /\ pc'[w] \in {"signature", "tally", "electorate"}
                         /\ local'[w].treasury = Home => local'[w].wallet \in electors'
  BY ElectorsGrow DEF ElectorsInv
<1>1. signatures \subseteq signatures' /\ electors \subseteq electors'
  BY SignaturesGrow, ElectorsGrow
<1>2. CASE pc'[w] = "signature"
  <2>1. CASE CheckWallet(w) /\ local'[w] = local[w]
    BY <1>1, <1>2, <2>1 DEF CheckWallet, ElectorsInv, Return, Goto, TypeInv, TypeOK
  <2>2. CASE pc[w] = "signature" /\ local'[w] = local[w]
    BY <1>1, <1>2, <2>2 DEF ElectorsInv
  <2> QED BY <1>2, <2>1, <2>2, SignatureMoves
<1>3. CASE pc'[w] \in {"tally", "electorate"}
  <2>1. CASE InsertSignature(w) /\ local'[w] = local[w]
    BY <1>1, <2>1 DEF InsertSignature, ElectorsInv
  <2>2. CASE /\ pc[w] \in {"tally", "electorate"}
             /\ local'[w].wallet = local[w].wallet
             /\ local'[w].proposal = local[w].proposal
             /\ local'[w].treasury = local[w].treasury
    BY <1>1, <2>2 DEF ElectorsInv
  <2> QED BY <1>3, <2>1, <2>2, SignatureMoves
<1> QED BY <1>2, <1>3

\* A proposal executes for the treasury on more signatures than half of its
\* active wallets, one of them by its handler's wallet (proposal.rs:203-217,
\* 259-275).
THEOREM MajorityCorrect == Spec => DecidedByMajority
<1>1. Init => CountInv /\ ElectorsInv
  BY DEF Init, CountInv, ElectorsInv, ActiveWallets
<1>2. TypeInv /\ CountInv /\ ElectorsInv /\ [Next]_vars =>
        [\A w \in Workers :
           LET signers == Signers(local[w].proposal)
           IN  pc[w] = "electorate" /\ pc'[w] = "execute" /\ local[w].treasury = Home =>
                 /\ 2 * Cardinality(signers) > Cardinality(ActiveWallets)
                 /\ local[w].wallet \in signers \cap electors]_vars
  <2> SUFFICES ASSUME TypeInv, CountInv, ElectorsInv, [Next]_vars, NEW w \in Workers,
                      pc[w] = "electorate", pc'[w] = "execute", local[w].treasury = Home
               PROVE  /\ 2 * Cardinality(Signers(local[w].proposal)) > Cardinality(ActiveWallets)
                      /\ local[w].wallet \in Signers(local[w].proposal) \cap electors
    OBVIOUS
  <2>1. local[w].wallet \in Signers(local[w].proposal) \cap electors
    BY DEF ElectorsInv, Signers, TypeInv, Voting
  <2> QED BY <2>1, MajorityStep
<1> QED
  BY <1>1, <1>2, InitInv, TypedStep, CountStep, ElectorsStep, PTL DEF Spec, DecidedByMajority

\* What a handler that can still write a proposal's status has found holds.
Deciding == {"expire", "wallet", "signature", "tally", "electorate", "execute"}

PendingInv ==
  \A w \in Workers : pc[w] \in Deciding => proposal[local[w].proposal].status = "PENDING"

\* With one handler nobody else writes a status meanwhile.
LEMMA PendingStep ==
  ASSUME \A v, w \in Workers : v = w
  PROVE  TypeInv /\ PendingInv /\ [Next]_vars =>
           /\ PendingInv'
           /\ \A p \in Proposals : proposal[p].status \in {"EXECUTED", "EXPIRED"} =>
                proposal'[p] = proposal[p]
<1> SUFFICES ASSUME TypeInv, PendingInv, [Next]_vars
             PROVE  /\ PendingInv'
                    /\ \A p \in Proposals : proposal[p].status \in {"EXECUTED", "EXPIRED"} =>
                         proposal'[p] = proposal[p]
  OBVIOUS
<1> USE DEF TypeInv, TypeOK, PendingInv, Deciding, Voting
<1>1. CASE \E w \in Workers : Edit(w) \/ Fail(w)
  BY <1>1 DEF Edit, UpdateConstitution, RollbackConstitution, RemoveAgentRules, BeginEdit,
              CommitEdit, Fail, votes, franchise, Return, Goto
<1>2. CASE \E w \in Workers : Execute(w)
  <2>1. PICK w \in Workers : Execute(w)
    BY <1>2
  <2>2. pc'[w] \notin Deciding
    BY <2>1 DEF Execute, MarkExecuted, ReadMaxVersion, AppendVersion, MovePointer, Return, Goto
  <2>3. CASE MarkExecuted(w)
    BY <2>2, <2>3 DEF MarkExecuted
  <2>4. CASE ~MarkExecuted(w)
    BY <2>1, <2>2, <2>4 DEF Execute, ReadMaxVersion, AppendVersion, MovePointer, votes, franchise
  <2> QED BY <2>3, <2>4
<1>3. CASE \E w \in Workers : Vote(w)
  <2>1. PICK w \in Workers : Vote(w)
    BY <1>3
  <2>2. CASE \E c \in Contents, t \in Treasuries : BeginProposal(w, c, t)
    BY <2>2 DEF BeginProposal, votes, franchise, Goto
  <2>3. CASE \E p \in Proposals : InsertProposal(w, p)
    BY <2>3 DEF InsertProposal, Return, Goto
  <2>4. CASE \E p \in Proposals, x \in Wallets, t \in Treasuries : BeginSign(w, p, x, t)
    <3>1. PICK p \in Proposals, x \in Wallets, t \in Treasuries :
             BeginSign(w, p, x, t)
      BY <2>4
    <3>2. local'[w].proposal = p
      BY <3>1 DEF BeginSign, Locals
    <3> QED BY <3>1, <3>2 DEF BeginSign, Signable, votes, franchise, Goto
  <2>5. CASE ExpireProposal(w)
    BY <2>5 DEF ExpireProposal, Return, Goto
  <2>6. CASE CheckWallet(w) \/ CountWallets(w)
    BY <2>6 DEF CheckWallet, CountWallets, votes, franchise, Return, Goto
  <2>7. CASE InsertSignature(w)
    BY <2>7 DEF InsertSignature, Return, Goto
  <2>8. CASE CountSignatures(w)
    <3>1. local'[w].proposal = local[w].proposal
      BY <2>8 DEF CountSignatures, Locals
    <3> QED BY <2>8, <3>1 DEF CountSignatures, votes, franchise, Goto
  <2> QED BY <2>1, <2>2, <2>3, <2>4, <2>5, <2>6, <2>7, <2>8 DEF Vote
<1>4. CASE Environment \/ UNCHANGED vars
  BY <1>4 DEF Environment, RegisterWallet, VerifyOwnership, RemoveWallet, SetWallet, RunOut,
              votes, franchise, vars
<1> QED BY <1>1, <1>2, <1>3, <1>4 DEF Next

\* With one handler at a time a proposal that was executed or ran out stays so
\* (proposal.rs:188-204, 280-284).
THEOREM FateCorrect ==
  ASSUME \A v, w \in Workers : v = w
  PROVE  Spec => FateIsFinal
<1>1. Init => PendingInv
  BY DEF Init, PendingInv, Deciding
<1>2. TypeInv /\ PendingInv /\ [Next]_vars =>
        /\ PendingInv'
        /\ [\A p \in Proposals : proposal[p].status \in {"EXECUTED", "EXPIRED"} =>
              proposal'[p] = proposal[p]]_vars
  BY PendingStep
<1> QED BY <1>1, <1>2, InitInv, TypedStep, PTL DEF Spec, FateIsFinal
-----------------------------------------------------------------------------
(* Governance keeps its charter.                                           *)

\* What a handler votes, franchise on or executes has been put to the vote.
TabledInv ==
  \A w \in Workers : pc[w] \in Voting => proposal[local[w].proposal].status # "NONE"

\* No step takes a proposal back to NONE, and only BeginSign gives a handler one.
LEMMA TabledMoves ==
  ASSUME TypeInv, TabledInv, [Next]_vars
  PROVE  /\ \A p \in Proposals : proposal[p].status # "NONE" => proposal'[p].status # "NONE"
         /\ \A w \in Workers : pc'[w] \in Voting =>
              \/ pc[w] \in Voting /\ local'[w].proposal = local[w].proposal
              \/ \E p \in Proposals : Signable(p) /\ local'[w].proposal = p
<1> USE DEF TypeInv, TypeOK, Voting
<1>1. ASSUME NEW w \in Workers, Edit(w) \/ Fail(w)
      PROVE  /\ proposal' = proposal
             /\ \A u \in Workers \ {w} : pc'[u] = pc[u] /\ local'[u] = local[u]
             /\ pc'[w] \notin Voting
  BY <1>1 DEF Edit, UpdateConstitution, RollbackConstitution, RemoveAgentRules, BeginEdit,
              CommitEdit, Fail, votes, franchise, Return, Goto
<1>2. ASSUME NEW w \in Workers, Vote(w)
      PROVE  /\ \A p \in Proposals : proposal[p].status # "NONE" => proposal'[p].status # "NONE"
             /\ \A u \in Workers \ {w} : pc'[u] = pc[u] /\ local'[u] = local[u]
             /\ pc'[w] \in Voting =>
                  \/ pc[w] \in Voting /\ local'[w].proposal = local[w].proposal
                  \/ \E p \in Proposals : Signable(p) /\ local'[w].proposal = p
  <2>1. CASE \E c \in Contents, t \in Treasuries : BeginProposal(w, c, t)
    BY <2>1 DEF BeginProposal, votes, franchise, Goto
  <2>2. CASE \E q \in Proposals : InsertProposal(w, q)
    BY <2>2 DEF InsertProposal, Return, Goto
  <2>3. CASE \E q \in Proposals, x \in Wallets, t \in Treasuries : BeginSign(w, q, x, t)
    <3>1. PICK q \in Proposals, x \in Wallets, t \in Treasuries :
             BeginSign(w, q, x, t)
      BY <2>3
    <3>2. local'[w].proposal = q
      BY <3>1 DEF BeginSign, Locals
    <3> QED BY <3>1, <3>2 DEF BeginSign, votes, franchise, Goto
  <2>4. CASE ExpireProposal(w)
    BY <2>4 DEF ExpireProposal, Return, Goto
  <2>5. CASE CheckWallet(w) \/ CountWallets(w)
    BY <2>5 DEF CheckWallet, CountWallets, votes, franchise, Return, Goto
  <2>6. CASE InsertSignature(w)
    BY <2>6 DEF InsertSignature, Return, Goto
  <2>7. CASE CountSignatures(w)
    <3>1. local'[w].proposal = local[w].proposal
      BY <2>7 DEF CountSignatures, Locals
    <3> QED BY <2>7, <3>1 DEF CountSignatures, votes, franchise, Goto
  <2> QED BY <1>2, <2>1, <2>2, <2>3, <2>4, <2>5, <2>6, <2>7 DEF Vote
<1>3. ASSUME NEW w \in Workers, Execute(w)
      PROVE  /\ \A p \in Proposals : proposal[p].status # "NONE" => proposal'[p].status # "NONE"
             /\ \A u \in Workers \ {w} : pc'[u] = pc[u] /\ local'[u] = local[u]
             /\ pc'[w] \in Voting =>
                  pc[w] \in Voting /\ local'[w].proposal = local[w].proposal
  <2>1. CASE MarkExecuted(w)
    BY <2>1 DEF MarkExecuted, ExecutedStatus, Goto, Return
  <2>2. CASE ReadMaxVersion(w)
    <3>1. local'[w].proposal = local[w].proposal
      BY <2>2 DEF ReadMaxVersion, Locals
    <3> QED BY <2>2, <3>1 DEF ReadMaxVersion, votes, franchise, Goto
  <2>3. CASE AppendVersion(w) \/ MovePointer(w)
    BY <2>3 DEF AppendVersion, MovePointer, votes, franchise, Return, Goto
  <2> QED BY <1>3, <2>1, <2>2, <2>3 DEF Execute
<1>4. CASE \E w \in Workers : Edit(w) \/ Fail(w)
  BY <1>1, <1>4
<1>5. CASE \E w \in Workers : Vote(w)
  BY <1>2, <1>5
<1>6. CASE \E w \in Workers : Execute(w)
  BY <1>3, <1>6
<1>7. CASE Environment \/ UNCHANGED vars
  <2>1. UNCHANGED <<proposal, pc, local>>
    BY <1>7 DEF Environment, RegisterWallet, VerifyOwnership, RemoveWallet, SetWallet, RunOut,
                votes, franchise, vars
  <2> QED BY <2>1
<1> QED BY <1>4, <1>5, <1>6, <1>7 DEF Next

LEMMA TabledStep == TypeInv /\ TabledInv /\ [Next]_vars => TabledInv'
<1> SUFFICES ASSUME TypeInv, TabledInv, [Next]_vars, NEW w \in Workers, pc'[w] \in Voting
             PROVE  proposal'[local'[w].proposal].status # "NONE"
  BY DEF TabledInv, Voting
<1> QED BY TabledMoves DEF TabledInv, TypeInv, Signable

\* Only the treasury's own handlers write its versions.
HomeInv == \A w \in Workers : pc[w] \in {"max", "append", "point"} => local[w].treasury = Home

LEMMA HomeStep == TypeInv /\ HomeInv /\ [Next]_vars => HomeInv'
<1> SUFFICES ASSUME TypeInv, HomeInv, [Next]_vars, NEW w \in Workers,
                    pc'[w] \in {"max", "append", "point"}
             PROVE  local'[w].treasury = Home
  BY DEF HomeInv
<1> USE DEF TypeInv, TypeOK, HomeInv
<1>1. CASE pc'[w] = pc[w] /\ local'[w] = local[w]
  BY <1>1
<1>2. ASSUME NEW v \in Workers, Edit(v) \/ Vote(v) \/ Fail(v)
      PROVE  pc'[w] = pc[w] /\ local'[w] = local[w]
  BY <1>2, ZenonT(40) DEF Edit, UpdateConstitution, RollbackConstitution, RemoveAgentRules, BeginEdit,
         CommitEdit, Vote, BeginProposal, InsertProposal, BeginSign, ExpireProposal,
         CheckWallet, InsertSignature, CountSignatures, CountWallets, Fail, Return, Goto
<1>3. ASSUME NEW v \in Workers, Execute(v)
      PROVE  local'[w].treasury = Home
  <2>1. CASE ReadMaxVersion(v)
    <3>1. local'[w].treasury = local[w].treasury
      BY <2>1 DEF ReadMaxVersion, Locals
    <3> QED BY <2>1, <3>1 DEF ReadMaxVersion, Goto
  <2>2. CASE MarkExecuted(v)
    BY <2>2 DEF MarkExecuted, Return, Goto
  <2>3. CASE AppendVersion(v) \/ MovePointer(v)
    BY <2>3 DEF AppendVersion, MovePointer, Return, Goto
  <2> QED BY <1>3, <2>1, <2>2, <2>3 DEF Execute
<1>4. CASE Environment \/ UNCHANGED vars
  BY <1>1, <1>4 DEF Environment, RegisterWallet, VerifyOwnership, RemoveWallet, SetWallet, RunOut,
                    vars
<1> QED BY <1>1, <1>2, <1>3, <1>4 DEF Next

\* The steps of w by which the charter's mandates and adoptions stay as they are.
LEMMA DecisionsKept ==
  ASSUME NEW w \in Workers,
         \A u \in Workers \ {w} : pc'[u] = pc[u] /\ local'[u] = local[u],
         pc[w] # "point" /\ pc'[w] # "point",
         \/ ~Mandated(w) /\ ~Mandated(w)'
         \/ /\ Mandated(w) /\ Mandated(w)'
            /\ local'[w].proposal = local[w].proposal
  PROVE  UNCHANGED <<Mandates, Adoptions>>
<1>1. \A u \in Workers \ {w} : Mandated(u)' <=> Mandated(u)
  BY DEF Mandated
<1> QED BY <1>1 DEF Mandates, Adoptions

\* A handler that returns gives up the decision it may have held.
LEMMA DecisionLapses ==
  ASSUME NEW w \in Workers,
         \A u \in Workers \ {w} : pc'[u] = pc[u] /\ local'[u] = local[u],
         pc'[w] = "idle"
  PROVE  /\ Mandates' = TheCharter!Without(Mandates, w)
         /\ Adoptions' = TheCharter!Without(Adoptions, w)
BY DEF Mandates, Mandated, Adoptions, TheCharter!Without

\* A free version that has its predecessor is the charter's next one.
LEMMA CharterAppends ==
  ASSUME TypeInv, VersionsInv, NEW v \in Versions, v - 1 \in DOMAIN history, ~Taken(v),
         NEW c, history' = With(v, c)
  PROVE  /\ v = TheCharter!Newest + 1
         /\ TheCharter!Append(c)
<1>1. PICK n \in Versions : DOMAIN history = 0..n
  BY DEF VersionsInv, Contiguous
<1>2. n \in Nat /\ v \in Nat
  BY MaxVersionAssumption DEF Versions
<1>3. v = n + 1
  BY <1>1, <1>2 DEF Taken
<1>4. TheCharter!Newest = n
  BY <1>1, <1>2, GreatestOfInterval DEF TheCharter!Newest
<1> QED BY <1>3, <1>4 DEF With, TheCharter!Append, TheCharter!Extended

LEMMA CharterEdit ==
  ASSUME TypeInv, VersionsInv, NEW w \in Workers, Edit(w)
  PROVE  (\E c \in Contents : TheCharter!Enact(c)) \/ UNCHANGED TheCharter!vars
<1> USE DEF TypeInv, TypeOK
<1>1. /\ UNCHANGED <<proposal, signatures, wallet, electors>>
      /\ UNCHANGED <<Tabled, ActiveWallets>>
  BY DEF Edit, UpdateConstitution, RollbackConstitution, RemoveAgentRules, BeginEdit,
         CommitEdit, votes, franchise, Tabled, ActiveWallets
<1>2. UNCHANGED <<Mandates, Adoptions>>
  <2>1. /\ \A u \in Workers \ {w} : pc'[u] = pc[u] /\ local'[u] = local[u]
        /\ pc[w] \in {"idle", "edit"} /\ pc'[w] \in {"idle", "edit"}
    BY DEF Edit, UpdateConstitution, RollbackConstitution, RemoveAgentRules, BeginEdit,
           CommitEdit, Return, Goto
  <2> QED BY <2>1, DecisionsKept DEF Mandated
<1>3. CASE UNCHANGED <<history, pointer>>
  BY <1>1, <1>2, <1>3 DEF TheCharter!vars, TheCharter!electorate
<1>4. CASE ~UNCHANGED <<history, pointer>>
  <2> DEFINE v == local[w].version
             c == local[w].content
  <2>1. CommitEdit(w) /\ ~Taken(v)
    BY <1>4 DEF Edit, UpdateConstitution, RollbackConstitution, RemoveAgentRules, BeginEdit,
                rows, CommitEdit
  <2>2. /\ v \in Versions /\ v - 1 \in DOMAIN history /\ c \in Contents
        /\ history' = With(v, c) /\ pointer' = v
    BY <2>1 DEF CommitEdit, Locals, VersionsInv
  <2>3. v = TheCharter!Newest + 1 /\ TheCharter!Append(c)
    <3> HIDE DEF v, c
    <3> QED BY <2>1, <2>2, CharterAppends
  <2> QED BY <1>1, <1>2, <2>2, <2>3 DEF TheCharter!Enact, TheCharter!electorate
<1> QED BY <1>3, <1>4

LEMMA CharterCardinality == \A S : TheCharter!Cardinality(S) = Cardinality(S)
BY DEF TheCharter!Cardinality, Cardinality

LEMMA CharterVote ==
  ASSUME TypeInv, CountInv, ElectorsInv, TabledInv, [Next]_vars, NEW w \in Workers, Vote(w)
  PROVE  TheCharter!Next \/ UNCHANGED TheCharter!vars
<1> USE DEF TypeInv, TypeOK
<1>1. /\ UNCHANGED <<history, pointer, wallet, electors>>
      /\ UNCHANGED ActiveWallets
      /\ \A u \in Workers \ {w} : pc'[u] = pc[u] /\ local'[u] = local[u]
      /\ pc[w] \notin {"execute", "max", "append", "point"}
      /\ pc'[w] \in {"execute", "max", "append", "point"} => CountWallets(w)
  BY DEF Vote, BeginProposal, InsertProposal, BeginSign, ExpireProposal, CheckWallet,
         InsertSignature, CountSignatures, CountWallets, rows, franchise, Return, Goto, ActiveWallets
<1>2. CASE \/ \E c \in Contents, t \in Treasuries : BeginProposal(w, c, t)
           \/ \E p \in Proposals, x \in Wallets, t \in Treasuries : BeginSign(w, p, x, t)
           \/ CheckWallet(w) \/ CountSignatures(w)
  <2>1. UNCHANGED <<proposal, signatures>> /\ UNCHANGED Tabled
    <3>1. UNCHANGED <<proposal, signatures>>
      BY <1>2 DEF BeginProposal, BeginSign, CheckWallet, CountSignatures, votes, franchise
    <3> QED BY <3>1 DEF Tabled
  <2>2. pc'[w] \notin {"execute", "max", "append", "point"}
    BY <1>2 DEF BeginProposal, BeginSign, CheckWallet, CountSignatures, Return, Goto
  <2>3. UNCHANGED <<Mandates, Adoptions>>
    BY <1>1, <2>2, DecisionsKept DEF Mandated
  <2> QED BY <1>1, <2>1, <2>3 DEF TheCharter!vars, TheCharter!electorate
<1>3. CASE \E p \in Proposals : InsertProposal(w, p)
  <2>1. PICK p \in Proposals : InsertProposal(w, p)
    BY <1>3
  <2>2. pc'[w] = "idle" /\ UNCHANGED signatures /\ local[w].content \in Contents
    BY <2>1 DEF InsertProposal, Return, Goto, Locals
  <2>3. UNCHANGED <<Mandates, Adoptions>>
    BY <1>1, <2>2, DecisionsKept DEF Mandated
  <2>4. /\ p \notin DOMAIN Tabled
        /\ Tabled' = TheCharter!Extended(Tabled, p, local[w].content)
    BY <2>1 DEF InsertProposal, Tabled, TheCharter!Extended
  <2>5. TheCharter!Table(p, local[w].content)
    BY <1>1, <2>2, <2>3, <2>4 DEF TheCharter!Table, TheCharter!electorate
  <2> QED BY <2>2, <2>5 DEF TheCharter!Next
<1>4. CASE ExpireProposal(w)
  <2>1. pc'[w] = "idle" /\ UNCHANGED signatures
    BY <1>4 DEF ExpireProposal, Return, Goto
  <2>2. UNCHANGED Tabled
    BY <1>4 DEF ExpireProposal, TabledInv, Voting, Tabled
  <2>3. UNCHANGED <<Mandates, Adoptions>>
    BY <1>1, <2>1, DecisionsKept DEF Mandated
  <2> QED BY <1>1, <2>1, <2>2, <2>3 DEF TheCharter!vars, TheCharter!electorate
<1>5. CASE InsertSignature(w)
  <2> DEFINE p == local[w].proposal
             x == local[w].wallet
  <2>1. /\ p \in Proposals /\ x \in Wallets
        /\ signatures' = signatures \cup {<<p, x>>}
        /\ UNCHANGED proposal
        /\ pc'[w] \in {"idle", "tally"}
    BY <1>5 DEF InsertSignature, Voting, Return, Goto
  <2>2. p \in DOMAIN Tabled /\ UNCHANGED Tabled
    BY <1>5, <2>1 DEF InsertSignature, TabledInv, Voting, Tabled
  <2>3. UNCHANGED <<Mandates, Adoptions>>
    BY <1>1, <2>1, DecisionsKept DEF Mandated
  <2>4. TheCharter!Sign(p, x)
    BY <1>1, <2>1, <2>2, <2>3 DEF TheCharter!Sign, TheCharter!electorate
  <2> QED BY <2>1, <2>4 DEF TheCharter!Next
<1>6. CASE CountWallets(w)
  <2> DEFINE p == local[w].proposal
  <2>1. UNCHANGED <<proposal, signatures>> /\ UNCHANGED Tabled
    BY <1>6 DEF CountWallets, votes, franchise, Tabled
  <2>2. CASE ~Mandated(w)'
    <3>1. pc[w] = "electorate" /\ pc'[w] \in {"idle", "execute"}
      BY <1>6 DEF CountWallets, Return, Goto
    <3>2. UNCHANGED <<Mandates, Adoptions>>
      BY <1>1, <2>2, <3>1, DecisionsKept DEF Mandated
    <3> QED BY <1>1, <2>1, <3>2 DEF TheCharter!vars, TheCharter!electorate
  <2>3. CASE Mandated(w)'
    <3>1. /\ pc[w] = "electorate" /\ pc'[w] = "execute"
          /\ local'[w] = local[w] /\ local[w].treasury = Home /\ p \in Proposals
      BY <1>6, <2>3 DEF CountWallets, Return, Goto, Voting, Mandated
    <3>2. p \in DOMAIN Tabled
      BY <3>1 DEF TabledInv, Voting, Tabled
    <3>3. TheCharter!Majority(p) /\ TheCharter!Signers(p) \cap electors # {}
      <4>1. local[w].wallet \in Signers(p) \cap electors
        BY <3>1 DEF ElectorsInv, Signers, Voting
      <4>2. TheCharter!Signers(p) = Signers(p)
        BY DEF TheCharter!Signers, Signers
      <4> QED BY <3>1, <4>1, <4>2, MajorityStep, CharterCardinality DEF TheCharter!Majority
    <3>4. /\ w \notin DOMAIN Mandates
          /\ Mandates' = TheCharter!Extended(Mandates, w, p)
          /\ UNCHANGED Adoptions
      <4>1. \A u \in Workers \ {w} : Mandated(u)' <=> Mandated(u)
        BY <1>1 DEF Mandated
      <4> QED BY <1>1, <2>3, <3>1, <4>1 DEF Mandates, Mandated, Adoptions, TheCharter!Extended
    <3>5. TheCharter!Carry(w, p)
      BY <1>1, <2>1, <3>2, <3>3, <3>4 DEF TheCharter!Carry, TheCharter!electorate
    <3> QED BY <3>1, <3>5 DEF TheCharter!Next
  <2> QED BY <2>2, <2>3
<1> QED BY <1>2, <1>3, <1>4, <1>5, <1>6 DEF Vote

LEMMA CharterExecute ==
  ASSUME TypeInv, VersionsInv, TabledInv, HomeInv, NEW w \in Workers, Execute(w)
  PROVE  TheCharter!Next \/ UNCHANGED TheCharter!vars
<1> USE DEF TypeInv, TypeOK
<1> DEFINE p == local[w].proposal
           v == local[w].version
<1>1. /\ UNCHANGED <<signatures, wallet, electors>>
      /\ UNCHANGED ActiveWallets
      /\ \A u \in Workers \ {w} : pc'[u] = pc[u] /\ local'[u] = local[u]
  BY DEF Execute, MarkExecuted, ReadMaxVersion, AppendVersion, MovePointer, votes, franchise, Return,
         Goto, franchise, ActiveWallets
<1>2. CASE MarkExecuted(w) \/ ReadMaxVersion(w)
  <2>1. /\ UNCHANGED <<history, pointer>>
        /\ pc[w] \in {"execute", "max"}
        /\ \/ /\ pc'[w] \in {"max", "append"}
              /\ local'[w].proposal = p /\ local'[w].treasury = local[w].treasury
           \/ pc'[w] = "idle" /\ local[w].treasury # Home
    BY <1>2 DEF MarkExecuted, ReadMaxVersion, rows, Goto, Return, Locals
  <2>2. UNCHANGED Tabled
    <3>1. proposal[p].status # "NONE"
      BY <2>1 DEF TabledInv, Voting
    <3>2. \A q \in Proposals : proposal'[q].content = proposal[q].content
                               /\ (proposal'[q].status = "NONE" <=> proposal[q].status = "NONE")
      BY <1>2, <3>1 DEF MarkExecuted, ReadMaxVersion, votes, franchise, ExecutedStatus
    <3> QED BY <3>2 DEF Tabled
  <2>3. UNCHANGED <<Mandates, Adoptions>>
    BY <1>1, <2>1, DecisionsKept DEF Mandated
  <2> QED BY <1>1, <2>1, <2>2, <2>3 DEF TheCharter!vars, TheCharter!electorate
<1>3. CASE AppendVersion(w)
  <2>1. /\ pc[w] = "append" /\ UNCHANGED <<pointer, proposal>> /\ UNCHANGED Tabled
        /\ p \in Proposals /\ v \in Versions /\ v - 1 \in DOMAIN history
    BY <1>3 DEF AppendVersion, votes, franchise, Tabled, Voting, Locals, VersionsInv
  <2>2. CASE Taken(v)
    <3>1. UNCHANGED history /\ pc'[w] = "idle"
      BY <1>3, <2>2 DEF AppendVersion, Return, Goto
    <3>2. TheCharter!Lapse(w)
      BY <1>1, <2>1, <3>1, DecisionLapses DEF TheCharter!Lapse, TheCharter!electorate
    <3> QED BY <3>2 DEF TheCharter!Next
  <2>3. CASE ~Taken(v)
    <3>1. /\ history' = With(v, proposal[p].content)
          /\ pc'[w] = "point" /\ local' = local
      BY <1>3, <2>3 DEF AppendVersion, Goto
    <3>2. /\ v = TheCharter!Newest + 1
          /\ TheCharter!Append(proposal[p].content)
      <4> HIDE DEF v, p
      <4> QED BY <2>1, <2>3, <3>1, CharterAppends
    <3>3. w \in DOMAIN Mandates /\ Mandates[w] = p
      BY <2>1 DEF Mandates, Mandated, HomeInv
    <3>4. Tabled[p] = proposal[p].content
      BY <2>1 DEF TabledInv, Voting, Tabled
    <3>5. /\ Mandates' = TheCharter!Without(Mandates, w)
          /\ Adoptions' = TheCharter!Extended(Adoptions, w, v)
      <4>1. \A u \in Workers \ {w} : Mandated(u)' <=> Mandated(u)
        BY <1>1 DEF Mandated
      <4> QED BY <1>1, <2>1, <3>1, <4>1
           DEF Mandates, Mandated, Adoptions, TheCharter!Without, TheCharter!Extended
    <3>6. TheCharter!Adopt(w)
      BY <1>1, <2>1, <3>2, <3>3, <3>4, <3>5 DEF TheCharter!Adopt, TheCharter!electorate
    <3> QED BY <3>6 DEF TheCharter!Next
  <2> QED BY <2>2, <2>3
<1>4. CASE MovePointer(w)
  <2>1. /\ pc[w] = "point" /\ pc'[w] = "idle" /\ pointer' = v
        /\ UNCHANGED <<history, proposal>> /\ UNCHANGED Tabled
    BY <1>4 DEF MovePointer, votes, franchise, Return, Goto, Tabled
  <2>2. w \in DOMAIN Adoptions /\ Adoptions[w] = v
    BY <2>1 DEF Adoptions
  <2>3. /\ Adoptions' = TheCharter!Without(Adoptions, w)
        /\ UNCHANGED Mandates
    <3>1. \A u \in Workers \ {w} : Mandated(u)' <=> Mandated(u)
      BY <1>1 DEF Mandated
    <3> QED BY <1>1, <2>1, <3>1 DEF Mandates, Mandated, Adoptions, TheCharter!Without
  <2>4. TheCharter!Enforce(w)
    BY <1>1, <2>1, <2>2, <2>3 DEF TheCharter!Enforce, TheCharter!electorate
  <2> QED BY <2>4 DEF TheCharter!Next
<1> QED BY <1>2, <1>3, <1>4 DEF Execute

LEMMA CharterStep ==
  TypeInv /\ VersionsInv /\ CountInv /\ ElectorsInv /\ TabledInv /\ HomeInv /\ [Next]_vars
    => [TheCharter!Next]_(TheCharter!vars)
<1> SUFFICES ASSUME TypeInv, VersionsInv, CountInv, ElectorsInv, TabledInv, HomeInv, [Next]_vars
             PROVE  TheCharter!Next \/ UNCHANGED TheCharter!vars
  OBVIOUS
<1>1. CASE \E w \in Workers : Edit(w)
  BY <1>1, CharterEdit DEF TheCharter!Next
<1>2. CASE \E w \in Workers : Vote(w)
  BY <1>2, CharterVote
<1>3. CASE \E w \in Workers : Execute(w)
  BY <1>3, CharterExecute
<1>4. CASE \E w \in Workers : Fail(w)
  <2>1. PICK w \in Workers : Fail(w)
    BY <1>4
  <2>2. /\ \A u \in Workers \ {w} : pc'[u] = pc[u] /\ local'[u] = local[u]
        /\ pc'[w] = "idle"
        /\ UNCHANGED <<history, pointer, signatures, electors>>
        /\ UNCHANGED <<Tabled, ActiveWallets>>
    BY <2>1 DEF Fail, Return, Goto, rows, votes, franchise, Tabled, ActiveWallets, TypeInv, TypeOK
  <2>3. TheCharter!Lapse(w)
    BY <2>2, DecisionLapses DEF TheCharter!Lapse, TheCharter!electorate
  <2> QED BY <2>3 DEF TheCharter!Next
<1>5. CASE Environment
  <2>1. /\ UNCHANGED <<history, pointer, signatures, proposal, pc, local>>
        /\ UNCHANGED <<Tabled, Mandates, Adoptions>>
    BY <1>5 DEF Environment, RegisterWallet, VerifyOwnership, RemoveWallet, SetWallet, RunOut,
                rows, votes, franchise, Tabled, Mandates, Mandated, Adoptions
  <2>2. CASE \E p \in Proposals : RunOut(p)
    BY <2>1, <2>2 DEF RunOut, franchise, ActiveWallets, TheCharter!vars, TheCharter!electorate
  <2>3. CASE \E x \in Wallets : RegisterWallet(x) \/ VerifyOwnership(x) \/ RemoveWallet(x)
    <3>1. PICK x \in Wallets : \E s \in {"PENDING", "ACTIVE", "ABSENT"} : SetWallet(x, s)
      BY <2>3 DEF RegisterWallet, VerifyOwnership, RemoveWallet
    <3>2. ActiveWallets' \in {ActiveWallets \cup {x}, ActiveWallets \ {x}}
      BY <3>1 DEF SetWallet, ActiveWallets, TypeInv, TypeOK
    <3>3. electors' = electors \cup ActiveWallets'
      BY <3>1 DEF SetWallet, ActiveWallets, ElectorsInv, TypeInv, TypeOK
    <3>4. TheCharter!Seat(x)
      BY <2>1, <3>2, <3>3 DEF TheCharter!Seat, TheCharter!electorate
    <3> QED BY <3>4 DEF TheCharter!Next
  <2> QED BY <1>5, <2>2, <2>3 DEF Environment
<1>6. CASE UNCHANGED vars
  BY <1>6 DEF vars, rows, votes, franchise, Tabled, ActiveWallets, Mandates, Mandated, Adoptions,
              TheCharter!vars, TheCharter!electorate
<1> QED BY <1>1, <1>2, <1>3, <1>4, <1>5, <1>6 DEF Next

\* Whatever handlers there are and wherever they stop, a version is added only
\* by an edit, which puts it in force, or by one mandate for its content, with
\* as many signatures as a majority of the treasury's wallets and one of them
\* by a wallet of the treasury, and the pointer moves only to one of these
\* (constitution.rs:321-351, proposal.rs:178-312).
THEOREM CharterCorrect == Spec => ImplementsCharter
<1>1. Init => TabledInv /\ CountInv /\ ElectorsInv /\ HomeInv
  BY DEF Init, TabledInv, CountInv, ElectorsInv, ActiveWallets, HomeInv, Voting
<1>2. Init => TheCharter!Init
  <2> SUFFICES ASSUME Init PROVE TheCharter!Init
    OBVIOUS
  <2>1. history = [v \in {0} |-> {}] /\ {} \in Contents
    BY DEF Init, Contents
  <2>2. /\ DOMAIN Tabled = {} /\ ActiveWallets = {}
        /\ DOMAIN Mandates = {} /\ DOMAIN Adoptions = {}
    BY DEF Init, Tabled, ActiveWallets, Mandates, Mandated, Adoptions
  <2> QED BY <2>1, <2>2 DEF Init, TheCharter!Init
<1> QED
  BY <1>1, <1>2, InitInv, TypedStep, CountStep, ElectorsStep, TabledStep, HomeStep,
     CharterStep, PTL
  DEF Spec, ImplementsCharter, TheCharter!Spec
===========================================================================
