------------------------ MODULE OneTimeTokensProofs ------------------------
(***************************************************************************)
(* Proofs about OneTimeTokens, for every number of handlers, requests and  *)
(* challenges, every skew and every limit.                                 *)
(***************************************************************************)
EXTENDS OneTimeTokens, TLAPS, FiniteSetTheorems

\* A handler has looked x up and is going to write.
Writes(h, x) == handler[h].token = x /\ handler[h].at \in {"store", "delete"}

\* The key of an accepted request outlives the request's window, and a handler
\* deals with a request no earlier than its window opens.
RequestInv ==
  \A r \in Requests :
    /\ uses[r] > 0 => runsOut[r] >= stamp[r] + Skew
    /\ \A h \in Handlers : handler[h].token = r => clock + Skew >= stamp[r]

\* A challenge that is stored, used or dealt with has been issued, and one that
\* has been used is not stored any more.
ChallengeInv ==
  \A c \in Challenges :
    /\ challenge = c => c \in issued
    /\ uses[c] > 0 => c \in issued
    /\ \A h \in Handlers : handler[h].token = c => c \in issued
    /\ uses[c] > 0 /\ c \notin excused => challenge # c

\* While nothing excuses a second use, at most one handler is about to write,
\* and only as long as the token has not been accepted.
AcceptedInv ==
  \A x \in Tokens \ excused :
    /\ uses[x] <= 1
    /\ \A h \in Handlers : Writes(h, x) => uses[x] = 0 /\ ~Between(h, x)

UsesInv == TokensTypeOK /\ RequestInv /\ ChallengeInv /\ AcceptedInv

(***************************************************************************)
(* Types.                                                                  *)
(***************************************************************************)

LEMMA StateOf ==
  ASSUME handler \in [Handlers -> HandlerStates], NEW h \in Handlers
  PROVE  /\ handler[h].at \in {"idle", "verify", "exists", "store", "delete"}
         /\ handler[h].token \in Tokens \cup {NoToken}
         /\ handler[h].at \in {"exists", "store"} <=> handler[h].token \in Requests
         /\ handler[h].at = "delete" <=> handler[h].token \in Challenges
         /\ handler[h].at \in {"idle", "verify"} <=> handler[h].token = NoToken
BY TokensAssumption DEF HandlerStates, Tokens

LEMMA EnterType ==
  ASSUME handler \in [Handlers -> HandlerStates], NEW h \in Handlers, NEW label, NEW x,
         Enter(h, label, x),
         \/ label \in {"idle", "verify"} /\ x = NoToken
         \/ label \in {"exists", "store"} /\ x \in Requests
         \/ label = "delete" /\ x \in Challenges
  PROVE  /\ handler' \in [Handlers -> HandlerStates]
         /\ handler'[h] = [at |-> label, token |-> x]
         /\ \A g \in Handlers : g # h => handler'[g] = handler[g]
<1>1. [at |-> label, token |-> x] \in HandlerStates
  BY DEF HandlerStates
<1> QED
  BY <1>1 DEF Enter

LEMMA DoneType ==
  ASSUME handler \in [Handlers -> HandlerStates], NEW h \in Handlers, Done(h)
  PROVE  /\ handler' \in [Handlers -> HandlerStates]
         /\ handler'[h] = Idle
         /\ \A g \in Handlers : g # h => handler'[g] = handler[g]
<1>1. Idle \in HandlerStates
  BY DEF HandlerStates, Idle
<1> QED
  BY <1>1 DEF Done

LEMMA UseType ==
  ASSUME uses \in [Tokens -> 0..2], NEW x \in Tokens, UNCHANGED uses \/ Use(x)
  PROVE  /\ uses' \in [Tokens -> 0..2]
         /\ uses'[x] <= uses[x] + 1 /\ uses'[x] >= uses[x]
         /\ \A y \in Tokens : y # x => uses'[y] = uses[y]
BY DEF Use

LEMMA TokensInitInv == TokensInit => UsesInv
<1> SUFFICES ASSUME TokensInit PROVE UsesInv
  OBVIOUS
<1>1. handler \in [Handlers -> HandlerStates]
  BY DEF TokensInit, Idle, HandlerStates
<1>2. stamp \in [Requests -> Nat] /\ runsOut \in [Requests -> Nat] /\ uses \in [Tokens -> 0..2]
  BY TokensAssumption DEF TokensInit
<1>8. TokensTypeOK
  BY <1>1, <1>2 DEF TokensTypeOK, TokensInit
<1>3. \A h \in Handlers : handler[h].token = NoToken
  BY DEF TokensInit, Idle
<1>4. \A x \in Tokens : uses[x] = 0 /\ x # NoToken
  BY TokensAssumption DEF TokensInit, Tokens
<1>5. RequestInv
  BY <1>3, <1>4 DEF RequestInv, Tokens
<1>6. ChallengeInv
  BY <1>3, <1>4 DEF ChallengeInv, Tokens, TokensInit
<1>7. AcceptedInv
  BY <1>3, <1>4 DEF AcceptedInv, Writes
<1> QED
  BY <1>5, <1>6, <1>7, <1>8 DEF UsesInv

(***************************************************************************)
(* Steps.                                                                  *)
(***************************************************************************)

\* A step that gives no handler a token and uses none keeps what is said of
\* uses, whatever it does to the clock and the logins.
LEMMA QuietStep ==
  ASSUME UsesInv, TokensTypeOK',
         UNCHANGED <<stamp, runsOut, uses, excused, issued>>,
         clock' >= clock,
         challenge' \in {challenge, NoToken},
         \A h \in Handlers : handler'[h] = handler[h] \/ handler'[h].token = NoToken
  PROVE  UsesInv'
<1>1. /\ clock \in Nat /\ clock' \in Nat
      /\ stamp \in [Requests -> Nat]
      /\ uses \in [Tokens -> 0..2]
      /\ NoToken \notin Tokens
  BY TokensAssumption DEF UsesInv, TokensTypeOK, Tokens
<1>2. RequestInv'
  <2> SUFFICES ASSUME NEW r \in Requests
               PROVE  /\ uses'[r] > 0 => runsOut'[r] >= stamp'[r] + Skew
                      /\ \A h \in Handlers : handler'[h].token = r => clock' + Skew >= stamp'[r]
    BY DEF RequestInv
  <2>1. uses[r] > 0 => runsOut[r] >= stamp[r] + Skew
    BY DEF UsesInv, RequestInv
  <2>2. ASSUME NEW h \in Handlers, handler'[h].token = r
        PROVE  clock' + Skew >= stamp[r]
    <3>1. handler[h].token = r
      BY <1>1, <2>2 DEF Tokens
    <3>2. clock + Skew >= stamp[r] /\ stamp[r] \in Nat
      BY <1>1, <3>1 DEF UsesInv, RequestInv
    <3> QED
      BY <1>1, <3>2, TokensAssumption
  <2> QED
    BY <2>1, <2>2
<1>3. ChallengeInv'
  BY <1>1 DEF UsesInv, ChallengeInv, Tokens
<1>4. AcceptedInv'
  <2> SUFFICES ASSUME NEW x \in Tokens \ excused
               PROVE  /\ uses[x] <= 1
                      /\ \A h \in Handlers : Writes(h, x)' => uses[x] = 0 /\ ~Between(h, x)'
    BY DEF AcceptedInv
  <2>1. \A h \in Handlers : Writes(h, x)' => Writes(h, x)
    BY <1>1 DEF Writes
  <2>2. \A h \in Handlers : Between(h, x)' => Between(h, x)
    BY <1>1 DEF Between
  <2> QED
    BY <2>1, <2>2 DEF UsesInv, AcceptedInv
<1> QED
  BY <1>2, <1>3, <1>4 DEF UsesInv

\* The handlers' idle place holds no token, and every token is a request or a
\* challenge, never both.
LEMMA TokenFacts ==
  /\ Idle.token = NoToken
  /\ NoToken \notin Tokens
  /\ Requests \cap Challenges = {}
  /\ Requests \subseteq Tokens /\ Challenges \subseteq Tokens
BY TokensAssumption DEF Idle, Tokens

LEMMA QuietActions ==
  ASSUME UsesInv,
         \/ Tick \/ ChallengeRunsOut \/ WindowOver
         \/ \E h \in Handlers : CheckLimit(h) \/ LoginOver(h) \/ RecordFailure(h) \/ HandlerFails(h)
         \/ UNCHANGED tokenVars
  PROVE  UsesInv'
<1> USE TokenFacts DEF UsesInv, TokensTypeOK, requestVars, challengeVars, counters
<1>1. CASE Tick
  <2>1. TokensTypeOK'
    BY <1>1 DEF Tick
  <2> QED
    BY <1>1, <2>1, QuietStep DEF Tick
<1>2. CASE ChallengeRunsOut
  <2>1. TokensTypeOK'
    BY <1>2 DEF ChallengeRunsOut
  <2> QED
    BY <1>2, <2>1, QuietStep DEF ChallengeRunsOut
<1>3. CASE WindowOver
  <2>1. TokensTypeOK'
    BY <1>3 DEF WindowOver
  <2> QED
    BY <1>3, <2>1, QuietStep DEF WindowOver
<1>4. ASSUME NEW h \in Handlers, CheckLimit(h)
      PROVE  UsesInv'
  <2>1. Enter(h, "verify", NoToken)
    BY <1>4 DEF CheckLimit
  <2>2. /\ handler' \in [Handlers -> HandlerStates]
        /\ handler'[h].token = NoToken
        /\ \A g \in Handlers : g # h => handler'[g] = handler[g]
    <3>1. handler \in [Handlers -> HandlerStates]
      OBVIOUS
    <3>2. handler' \in [Handlers -> HandlerStates] /\ handler'[h] = [at |-> "verify", token |-> NoToken]
          /\ \A g \in Handlers : g # h => handler'[g] = handler[g]
      BY <2>1, <3>1, EnterType
    <3> QED
      BY <3>2
  <2>3. TokensTypeOK'
    BY <1>4, <2>2 DEF CheckLimit
  <2> QED
    BY <1>4, <2>2, <2>3, QuietStep DEF CheckLimit
<1>5. ASSUME NEW h \in Handlers, Done(h),
             UNCHANGED <<requestVars, challengeVars, uses, excused>>,
             failures' \in Nat, unlimited' \in BOOLEAN
      PROVE  UsesInv'
  <2>1. /\ handler' \in [Handlers -> HandlerStates]
        /\ handler'[h].token = NoToken
        /\ \A g \in Handlers : g # h => handler'[g] = handler[g]
    BY <1>5, DoneType
  <2>2. TokensTypeOK'
    BY <1>5, <2>1
  <2> QED
    BY <1>5, <2>1, <2>2, QuietStep
<1>6. ASSUME NEW h \in Handlers, LoginOver(h) \/ RecordFailure(h) \/ HandlerFails(h)
      PROVE  UsesInv'
  <2>1. Done(h) /\ UNCHANGED <<requestVars, challengeVars, uses, excused, unlimited>>
    BY <1>6 DEF LoginOver, RecordFailure, HandlerFails
  <2>2. failures' \in Nat
    BY <1>6 DEF LoginOver, RecordFailure, HandlerFails
  <2> QED
    BY <1>5, <2>1, <2>2
<1>7. CASE UNCHANGED tokenVars
  <2>1. TokensTypeOK'
    BY <1>7 DEF tokenVars
  <2> QED
    BY <1>7, <2>1, QuietStep DEF tokenVars
<1> QED
  BY <1>1, <1>2, <1>3, <1>4, <1>6, <1>7

LEMMA CheckTimestampStep ==
  ASSUME UsesInv, NEW h \in Handlers, NEW r \in Requests, CheckTimestamp(h, r)
  PROVE  UsesInv'
<1> USE TokenFacts DEF UsesInv, TokensTypeOK, requestVars, challengeVars, counters
<1>1. /\ handler' \in [Handlers -> HandlerStates]
      /\ handler'[h] = [at |-> "exists", token |-> r]
      /\ \A g \in Handlers : g # h => handler'[g] = handler[g]
      /\ InWindow(r)
      /\ UNCHANGED <<requestVars, challengeVars, counters, uses, excused>>
  BY EnterType DEF CheckTimestamp
<1>2. TokensTypeOK'
  BY <1>1
<1>3. RequestInv'
  BY <1>1, TokensAssumption DEF RequestInv, InWindow
<1>4. ChallengeInv'
  BY <1>1 DEF ChallengeInv
<1>5. AcceptedInv'
  BY <1>1 DEF AcceptedInv, Writes, Between
<1> QED
  BY <1>2, <1>3, <1>4, <1>5

LEMMA LookUpRequestStep ==
  ASSUME UsesInv, NEW h \in Handlers, LookUpRequest(h)
  PROVE  UsesInv'
<1> DEFINE r == handler[h].token
<1> USE TokenFacts DEF UsesInv, TokensTypeOK, requestVars, challengeVars, counters
<1>1. r \in Requests
  BY StateOf DEF LookUpRequest, HandlerAt
<1>2. UNCHANGED <<requestVars, challengeVars, counters, uses>>
  BY DEF LookUpRequest
<1>3. CASE clock < runsOut[r]
  <2>1. Done(h) /\ UNCHANGED excused
    BY <1>3 DEF LookUpRequest
  <2>2. /\ handler' \in [Handlers -> HandlerStates]
        /\ handler'[h].token = NoToken
        /\ \A g \in Handlers : g # h => handler'[g] = handler[g]
    BY <2>1, DoneType
  <2>3. TokensTypeOK'
    BY <1>2, <2>1, <2>2
  <2> QED
    BY <1>2, <2>1, <2>2, <2>3, QuietStep
<1>4. CASE ~(clock < runsOut[r])
  <2>1. /\ Enter(h, "store", r)
        /\ excused' = IF Between(h, r) \/ clock >= stamp[r] + Skew
                      THEN excused \cup {r} ELSE excused
    BY <1>4 DEF LookUpRequest
  <2>2. /\ handler' \in [Handlers -> HandlerStates]
        /\ handler'[h] = [at |-> "store", token |-> r]
        /\ \A g \in Handlers : g # h => handler'[g] = handler[g]
    BY <1>1, <2>1, EnterType
  <2> HIDE DEF r
  <2>3. excused' \subseteq Tokens /\ excused \subseteq excused'
    BY <1>1, <2>1
  <2>4. TokensTypeOK'
    BY <1>2, <2>2, <2>3
  <2>5. handler'[h].token = handler[h].token
    BY <2>2 DEF r
  <2>6. RequestInv'
    BY <1>2, <2>2, <2>5 DEF RequestInv
  <2>7. ChallengeInv'
    BY <1>2, <2>2, <2>3, <2>5 DEF ChallengeInv
  <2>8. ASSUME NEW x \in Tokens \ excused'
        PROVE  /\ uses[x] <= 1
               /\ \A g \in Handlers : Writes(g, x)' => uses[x] = 0 /\ ~Between(g, x)'
    <3>1. /\ uses[x] <= 1
          /\ \A g \in Handlers : Writes(g, x) => uses[x] = 0 /\ ~Between(g, x)
      BY <2>3 DEF AcceptedInv
    <3>2. CASE x # r
      <4>1. \A g \in Handlers : Writes(g, x)' => Writes(g, x)
        BY <2>2, <3>2 DEF Writes
      <4>2. \A g \in Handlers : Between(g, x)' => Between(g, x)
        BY <2>2, <3>2 DEF Between
      <4> QED
        BY <3>1, <4>1, <4>2
    <3>3. CASE x = r
      <4>1. ~Between(h, x) /\ ~(clock >= stamp[x] + Skew)
        BY <2>1, <3>3
      <4>2. uses[x] = 0
        <5>1. uses[x] \in Nat /\ clock \in Nat /\ runsOut[x] \in Nat /\ stamp[x] \in Nat
          BY <1>1, <3>3
        <5>2. uses[x] > 0 => runsOut[x] >= stamp[x] + Skew
          BY <1>1, <3>3 DEF RequestInv
        <5>3. ~(clock < runsOut[x])
          BY <1>4, <3>3
        <5> QED
          BY <4>1, <5>1, <5>2, <5>3, TokensAssumption
      <4>3. \A g \in Handlers \ {h} : ~Writes(g, x)'
        BY <2>2, <4>1 DEF Between, Writes
      <4>4. ~Between(h, x)'
        BY <2>2, <4>1 DEF Between
      <4> QED
        BY <3>1, <3>3, <4>2, <4>3, <4>4
    <3> QED
      BY <3>2, <3>3
  <2>9. AcceptedInv'
    BY <1>2, <2>8 DEF AcceptedInv
  <2> QED
    BY <2>4, <2>6, <2>7, <2>9
<1> QED
  BY <1>3, <1>4

LEMMA StoreRequestStep ==
  ASSUME UsesInv, NEW h \in Handlers, StoreRequest(h)
  PROVE  UsesInv'
<1> USE TokenFacts DEF UsesInv, TokensTypeOK, requestVars, challengeVars, counters
<1>1. PICK r \in Requests : r = handler[h].token
  BY StateOf DEF StoreRequest, HandlerAt
<1>2. /\ Writes(h, r)
      /\ runsOut' = [runsOut EXCEPT ![r] = clock + Lifetime]
      /\ UNCHANGED uses \/ Use(r)
      /\ Done(h)
      /\ UNCHANGED <<clock, stamp, challengeVars, counters, excused>>
  BY <1>1 DEF StoreRequest, HandlerAt, Writes
<1>3. /\ handler' \in [Handlers -> HandlerStates]
      /\ handler'[h].token = NoToken
      /\ \A g \in Handlers : g # h => handler'[g] = handler[g]
  BY <1>2, DoneType
<1>4. /\ uses' \in [Tokens -> 0..2]
      /\ uses'[r] <= uses[r] + 1
      /\ \A y \in Tokens : y # r => uses'[y] = uses[y]
  BY <1>1, <1>2, UseType
<1>5. /\ clock \in Nat /\ stamp[r] \in Nat /\ Lifetime \in Nat
      /\ clock + Skew >= stamp[r]
      /\ runsOut'[r] = clock + Lifetime
      /\ Lifetime = 2 * Skew
  BY <1>1, <1>2, TokensAssumption DEF RequestInv, Lifetime
<1>6. TokensTypeOK'
  BY <1>2, <1>3, <1>4, <1>5
<1>7. RequestInv'
  <2>1. runsOut'[r] >= stamp[r] + Skew
    BY <1>5, TokensAssumption
  <2>2. \A q \in Requests : q # r => runsOut'[q] = runsOut[q] /\ uses'[q] = uses[q]
    BY <1>2, <1>4
  <2>3. \A g \in Handlers, q \in Requests : handler'[g].token = q => handler[g].token = q
    BY <1>3
  <2> QED
    BY <1>2, <2>1, <2>2, <2>3 DEF RequestInv
<1>8. ChallengeInv'
  <2>1. \A c \in Challenges : c # r /\ c \in Tokens
    BY <1>1
  <2> QED
    BY <1>2, <1>3, <1>4, <2>1 DEF ChallengeInv
<1>9. AcceptedInv'
  <2> SUFFICES ASSUME NEW x \in Tokens \ excused
               PROVE  /\ uses'[x] <= 1
                      /\ \A g \in Handlers : Writes(g, x)' => uses'[x] = 0 /\ ~Between(g, x)'
    BY <1>2 DEF AcceptedInv
  <2>1. /\ uses[x] <= 1
        /\ \A g \in Handlers : Writes(g, x) => uses[x] = 0 /\ ~Between(g, x)
    BY DEF AcceptedInv
  <2>2. CASE x # r
    <3>1. \A g \in Handlers : Writes(g, x)' => Writes(g, x)
      BY <1>3 DEF Writes
    <3>2. \A g \in Handlers : Between(g, x)' => Between(g, x)
      BY <1>3 DEF Between
    <3> QED
      BY <1>4, <2>1, <2>2, <3>1, <3>2
  <2>3. CASE x = r
    <3>1. uses[x] = 0 /\ ~Between(h, x)
      BY <1>2, <2>1, <2>3
    <3>2. uses'[x] <= 1
      BY <1>4, <2>3, <3>1
    <3>3. \A g \in Handlers : ~Writes(g, x)'
      BY <1>3, <3>1 DEF Between, Writes
    <3> QED
      BY <3>2, <3>3
  <2> QED
    BY <2>2, <2>3
<1> QED
  BY <1>6, <1>7, <1>8, <1>9

LEMMA IssueChallengeStep ==
  ASSUME UsesInv, NEW c \in Challenges, IssueChallenge(c)
  PROVE  UsesInv'
<1> USE TokenFacts DEF UsesInv, TokensTypeOK, requestVars, challengeVars, counters, IssueChallenge
<1>1. TokensTypeOK'
  OBVIOUS
<1>2. RequestInv'
  BY DEF RequestInv
<1>3. ChallengeInv'
  <2>1. uses[c] = 0
    BY DEF ChallengeInv
  <2> QED
    BY <2>1 DEF ChallengeInv
<1>4. AcceptedInv'
  BY DEF AcceptedInv, Writes, Between
<1> QED
  BY <1>1, <1>2, <1>3, <1>4

LEMMA ReadChallengeStep ==
  ASSUME UsesInv, NEW h \in Handlers, NEW c \in Challenges, ReadChallenge(h, c)
  PROVE  UsesInv'
<1> USE TokenFacts DEF UsesInv, TokensTypeOK, requestVars, challengeVars, counters
<1>1. /\ challenge = c
      /\ Enter(h, "delete", c)
      /\ excused' = IF Between(h, c) THEN excused \cup {c} ELSE excused
      /\ UNCHANGED <<requestVars, challengeVars, counters, uses>>
  BY DEF ReadChallenge
<1>2. /\ handler' \in [Handlers -> HandlerStates]
      /\ handler'[h] = [at |-> "delete", token |-> c]
      /\ \A g \in Handlers : g # h => handler'[g] = handler[g]
  BY <1>1, EnterType
<1>3. excused \subseteq excused' /\ excused' \subseteq Tokens
  BY <1>1
<1>4. TokensTypeOK'
  BY <1>1, <1>2, <1>3
<1>5. RequestInv'
  <2>1. \A g \in Handlers, r \in Requests : handler'[g].token = r => handler[g].token = r
    BY <1>2
  <2> QED
    BY <1>1, <2>1 DEF RequestInv
<1>6. ChallengeInv'
  BY <1>1, <1>2, <1>3 DEF ChallengeInv
<1>7. AcceptedInv'
  <2> SUFFICES ASSUME NEW x \in Tokens \ excused'
               PROVE  /\ uses[x] <= 1
                      /\ \A g \in Handlers : Writes(g, x)' => uses[x] = 0 /\ ~Between(g, x)'
    BY <1>1 DEF AcceptedInv
  <2>1. /\ uses[x] <= 1
        /\ \A g \in Handlers : Writes(g, x) => uses[x] = 0 /\ ~Between(g, x)
    BY <1>3 DEF AcceptedInv
  <2>2. CASE x # c
    <3>1. \A g \in Handlers : Writes(g, x)' => Writes(g, x)
      BY <1>2, <2>2 DEF Writes
    <3>2. \A g \in Handlers : Between(g, x)' => Between(g, x)
      BY <1>2, <2>2 DEF Between
    <3> QED
      BY <2>1, <3>1, <3>2
  <2>3. CASE x = c
    <3>1. ~Between(h, x)
      BY <1>1, <2>3
    <3>2. uses[x] = 0
      BY <1>1, <1>3, <2>3 DEF ChallengeInv
    <3>3. \A g \in Handlers \ {h} : ~Writes(g, x)'
      BY <1>2, <3>1 DEF Between, Writes
    <3>4. ~Between(h, x)'
      BY <1>2, <3>1 DEF Between
    <3> QED
      BY <2>1, <3>2, <3>3, <3>4
  <2> QED
    BY <2>2, <2>3
<1> QED
  BY <1>4, <1>5, <1>6, <1>7

LEMMA DeleteChallengeStep ==
  ASSUME UsesInv, NEW h \in Handlers, DeleteChallenge(h)
  PROVE  UsesInv'
<1> USE TokenFacts DEF UsesInv, TokensTypeOK, requestVars, challengeVars, counters
<1>1. PICK c \in Challenges : c = handler[h].token
  BY StateOf DEF DeleteChallenge, HandlerAt
<1>2. /\ Writes(h, c)
      /\ \/ challenge' = NoToken /\ UNCHANGED excused
         \/ UNCHANGED challenge /\ excused' = excused \cup {c}
      /\ UNCHANGED uses \/ Use(c)
      /\ Done(h)
      /\ UNCHANGED <<requestVars, issued, counters>>
  BY <1>1 DEF DeleteChallenge, HandlerAt, Writes
<1>3. /\ handler' \in [Handlers -> HandlerStates]
      /\ handler'[h].token = NoToken
      /\ \A g \in Handlers : g # h => handler'[g] = handler[g]
  BY <1>2, DoneType
<1>4. /\ uses' \in [Tokens -> 0..2]
      /\ uses'[c] <= uses[c] + 1
      /\ \A y \in Tokens : y # c => uses'[y] = uses[y]
  BY <1>1, <1>2, UseType
<1>5. /\ excused \subseteq excused' /\ excused' \subseteq Tokens
      /\ challenge' \in {challenge, NoToken}
      /\ c \notin excused' => challenge' = NoToken
  BY <1>1, <1>2
<1>6. TokensTypeOK'
  BY <1>2, <1>3, <1>4, <1>5
<1>7. RequestInv'
  <2>1. \A r \in Requests : r # c /\ r \in Tokens
    BY <1>1
  <2>2. \A g \in Handlers, r \in Requests : handler'[g].token = r => handler[g].token = r
    BY <1>3
  <2> QED
    BY <1>2, <1>4, <2>1, <2>2 DEF RequestInv
<1>8. ChallengeInv'
  <2>1. c \in issued
    BY <1>1 DEF ChallengeInv
  <2>2. \A g \in Handlers, d \in Challenges : handler'[g].token = d => handler[g].token = d
    BY <1>3
  <2> SUFFICES ASSUME NEW d \in Challenges
               PROVE  /\ challenge' = d => d \in issued
                      /\ uses'[d] > 0 => d \in issued
                      /\ \A g \in Handlers : handler'[g].token = d => d \in issued
                      /\ uses'[d] > 0 /\ d \notin excused' => challenge' # d
    BY <1>2 DEF ChallengeInv
  <2>3. CASE d = c
    BY <1>5, <2>1, <2>3
  <2>4. CASE d # c
    BY <1>4, <1>5, <2>2, <2>4 DEF ChallengeInv
  <2> QED
    BY <2>3, <2>4
<1>9. AcceptedInv'
  <2> SUFFICES ASSUME NEW x \in Tokens \ excused'
               PROVE  /\ uses'[x] <= 1
                      /\ \A g \in Handlers : Writes(g, x)' => uses'[x] = 0 /\ ~Between(g, x)'
    BY DEF AcceptedInv
  <2>1. /\ uses[x] <= 1
        /\ \A g \in Handlers : Writes(g, x) => uses[x] = 0 /\ ~Between(g, x)
    BY <1>5 DEF AcceptedInv
  <2>2. CASE x # c
    <3>1. \A g \in Handlers : Writes(g, x)' => Writes(g, x)
      BY <1>3 DEF Writes
    <3>2. \A g \in Handlers : Between(g, x)' => Between(g, x)
      BY <1>3 DEF Between
    <3> QED
      BY <1>4, <2>1, <2>2, <3>1, <3>2
  <2>3. CASE x = c
    <3>1. uses[x] = 0 /\ ~Between(h, x)
      BY <1>2, <2>1, <2>3
    <3>2. uses'[x] <= 1
      BY <1>4, <2>3, <3>1
    <3>3. \A g \in Handlers : ~Writes(g, x)'
      BY <1>3, <3>1 DEF Between, Writes
    <3> QED
      BY <3>2, <3>3
  <2> QED
    BY <2>2, <2>3
<1> QED
  BY <1>6, <1>7, <1>8, <1>9

LEMMA TokensStep == UsesInv /\ [TokensNext]_tokenVars => UsesInv'
<1> SUFFICES ASSUME UsesInv, [TokensNext]_tokenVars PROVE UsesInv'
  OBVIOUS
<1>1. CASE RequestsNext
  BY <1>1, QuietActions, CheckTimestampStep, LookUpRequestStep, StoreRequestStep
  DEF RequestsNext
<1>2. CASE ChallengesNext
  BY <1>2, QuietActions, IssueChallengeStep, ReadChallengeStep, DeleteChallengeStep
  DEF ChallengesNext
<1>3. CASE LoginsNext
  BY <1>3, QuietActions DEF LoginsNext
<1>4. CASE \E h \in Handlers : HandlerFails(h)
  BY <1>4, QuietActions
<1>5. CASE UNCHANGED tokenVars
  BY <1>5, QuietActions
<1> QED
  BY <1>1, <1>2, <1>3, <1>4, <1>5 DEF TokensNext

\* The types, and what kind of token a handler holds at each of its places.
THEOREM TokensTypeCorrect == TokensSpec => []TokensTypeOK
<1>1. UsesInv => TokensTypeOK
  BY DEF UsesInv
<1> QED
  BY TokensInitInv, TokensStep, <1>1, PTL DEF TokensSpec

\* Signed requests and challenges are accepted once, but for the races that
\* UsedOnce names (auth.rs:314-360, 562-693).
THEOREM UsedOnceCorrect == TokensSpec => []UsedOnce
<1>1. UsesInv => UsedOnce
  <2> SUFFICES ASSUME UsesInv, NEW x \in Tokens, x \notin excused PROVE ~(uses[x] > 1)
    BY DEF UsedOnce
  <2> QED
    BY DEF UsesInv, AcceptedInv, TokensTypeOK
<1> QED
  BY TokensInitInv, TokensStep, <1>1, PTL DEF TokensSpec

(***************************************************************************)
(* Failed logins.                                                          *)
(***************************************************************************)

\* The handlers that have passed the check and not recorded a failure.
Verifying == {h \in Handlers : handler[h].at = "verify"}

LoginsInv ==
  /\ TokensTypeOK
  /\ unlimited \/ failures + Cardinality(Verifying) <= MaxAttempts - 1 + Cardinality(Handlers)

LEMMA VerifyingFinite ==
  /\ IsFiniteSet(Verifying)
  /\ Cardinality(Verifying) \in Nat /\ Cardinality(Handlers) \in Nat
  /\ Cardinality(Verifying) <= Cardinality(Handlers)
<1>1. Verifying \in SUBSET Handlers /\ IsFiniteSet(Handlers)
  BY TokensAssumption DEF Verifying
<1> QED
  BY <1>1, FS_Subset, FS_CardinalityType

LEMMA LoginsInitInv == TokensInit => LoginsInv
<1> SUFFICES ASSUME TokensInit PROVE LoginsInv
  OBVIOUS
<1>1. TokensTypeOK
  BY TokensInitInv DEF UsesInv
<1>2. failures = 0
  BY DEF TokensInit
<1> QED
  BY <1>1, <1>2, VerifyingFinite, TokensAssumption DEF LoginsInv

\* A step that leaves the counter alone and brings no handler to "verify".
LEMMA CounterKept ==
  ASSUME LoginsInv, TokensTypeOK', UNCHANGED counters, Verifying' \subseteq Verifying
  PROVE  LoginsInv'
<1>1. IsFiniteSet(Verifying) /\ Verifying' \in SUBSET Verifying
  BY VerifyingFinite
<1>2. Cardinality(Verifying') <= Cardinality(Verifying) /\ Cardinality(Verifying') \in Nat
  BY <1>1, FS_Subset, FS_CardinalityType
<1>3. Cardinality(Verifying) \in Nat /\ Cardinality(Handlers) \in Nat
  BY VerifyingFinite
<1> QED
  BY <1>2, <1>3, TokensAssumption DEF LoginsInv, TokensTypeOK, counters

LEMMA LoginsStep ==
  ASSUME LoginsInv, UsesInv, [TokensNext]_tokenVars
  PROVE  LoginsInv'
<1>1. TokensTypeOK' /\ handler \in [Handlers -> HandlerStates]
  BY TokensStep DEF UsesInv, TokensTypeOK
<1>2. /\ MaxAttempts \in Nat \ {0} /\ failures \in Nat /\ unlimited \in BOOLEAN
      /\ Cardinality(Verifying) \in Nat /\ Cardinality(Handlers) \in Nat
      /\ Cardinality(Verifying) <= Cardinality(Handlers)
  BY VerifyingFinite, TokensAssumption DEF LoginsInv, TokensTypeOK
<1>3. /\ Cardinality(Verifying') \in Nat
      /\ Cardinality(Verifying') <= Cardinality(Handlers)
  <2>1. Verifying' \in SUBSET Handlers /\ IsFiniteSet(Handlers)
    BY TokensAssumption DEF Verifying
  <2> QED
    BY <2>1, FS_Subset, FS_CardinalityType
<1>4. ASSUME NEW h \in Handlers, CheckLimit(h)
      PROVE  LoginsInv'
  <2>1. \/ failures < MaxAttempts
        \/ unlimited' = TRUE
    BY <1>4 DEF CheckLimit
  <2>2. failures' = failures
    BY <1>4 DEF CheckLimit
  <2> QED
    BY <1>1, <1>2, <1>3, <2>1, <2>2 DEF LoginsInv
<1>5. ASSUME NEW h \in Handlers, RecordFailure(h)
      PROVE  LoginsInv'
  <2>1. handler[h].at = "verify" /\ Done(h) /\ failures' = failures + 1 /\ unlimited' = unlimited
    BY <1>5 DEF RecordFailure, HandlerAt
  <2>2. Verifying' = Verifying \ {h}
    BY <1>1, <2>1 DEF Done, Verifying, Idle
  <2>3. h \in Verifying /\ IsFiniteSet(Verifying)
    BY <2>1, VerifyingFinite DEF Verifying
  <2>4. Cardinality(Verifying') = Cardinality(Verifying) - 1
    BY <2>2, <2>3, FS_RemoveElement
  <2> QED
    BY <1>1, <1>2, <2>1, <2>4 DEF LoginsInv
<1>6. CASE WindowOver
  BY <1>1, <1>2, <1>3, <1>6 DEF WindowOver, LoginsInv
<1>7. ASSUME NEW h \in Handlers, Done(h) \/ handler' = handler, UNCHANGED counters
      PROVE  LoginsInv'
  <2>1. Verifying' \subseteq Verifying
    BY <1>1, <1>7 DEF Done, Verifying, Idle
  <2> QED
    BY <1>1, <2>1, <1>7, CounterKept
<1>8. ASSUME NEW h \in Handlers, NEW label, NEW x,
             label # "verify", Enter(h, label, x), UNCHANGED counters
      PROVE  LoginsInv'
  <2>1. Verifying' \subseteq Verifying
    BY <1>1, <1>8 DEF Enter, Verifying
  <2> QED
    BY <1>1, <2>1, <1>8, CounterKept
<1>9. CASE Tick \/ ChallengeRunsOut \/ (\E c \in Challenges : IssueChallenge(c)) \/ UNCHANGED tokenVars
  <2>1. Verifying' \subseteq Verifying /\ UNCHANGED counters
    BY <1>9 DEF Tick, ChallengeRunsOut, IssueChallenge, tokenVars, Verifying
  <2> QED
    BY <1>1, <2>1, CounterKept
<1>10. ASSUME NEW h \in Handlers,
              \/ \E r \in Requests : CheckTimestamp(h, r)
              \/ LookUpRequest(h) \/ StoreRequest(h)
       PROVE  LoginsInv'
  <2>1. /\ UNCHANGED counters
        /\ Done(h) \/ \E x : Enter(h, "exists", x) \/ Enter(h, "store", x)
    BY <1>10 DEF CheckTimestamp, LookUpRequest, StoreRequest
  <2> QED
    BY <1>7, <1>8, <2>1
<1>11. ASSUME NEW h \in Handlers,
              \/ \E c \in Challenges : ReadChallenge(h, c)
              \/ DeleteChallenge(h) \/ LoginOver(h) \/ HandlerFails(h)
       PROVE  LoginsInv'
  <2>1. /\ UNCHANGED counters
        /\ Done(h) \/ \E x : Enter(h, "delete", x)
    BY <1>11 DEF ReadChallenge, DeleteChallenge, LoginOver, HandlerFails
  <2> QED
    BY <1>7, <1>8, <2>1
<1> QED
  BY <1>4, <1>5, <1>6, <1>9, <1>10, <1>11
  DEF TokensNext, RequestsNext, ChallengesNext, LoginsNext

\* At most as many failed logins are counted beyond the limit as handlers were
\* past its check (auth.rs:362-398, 454-507).
THEOREM AttemptsCorrect == TokensSpec => []AttemptsBounded
<1>1. LoginsInv => AttemptsBounded
  BY VerifyingFinite, TokensAssumption DEF LoginsInv, AttemptsBounded, TokensTypeOK
<1> QED
  BY TokensInitInv, TokensStep, LoginsInitInv, LoginsStep, <1>1, PTL DEF TokensSpec
=============================================================================
