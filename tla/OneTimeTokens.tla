--------------------------- MODULE OneTimeTokens ---------------------------
(***************************************************************************)
(* What the coordinator keeps in Redis so that something is used once, or  *)
(* a few times (auth.rs): the ids of signed requests, challenges, and the  *)
(* failed logins of a client.  Each is looked up by one command and        *)
(* written by another, with other handlers in between.                     *)
(*                                                                         *)
(* A signed request carries a timestamp and is good for Skew seconds       *)
(* before and after it; the key of its id lives for 600.  A challenge is   *)
(* stored under a key of its subject, read and compared, and then deleted: *)
(* passkeys (auth.rs:562-693), the nonce of a wallet (wallet.rs:43-75) and *)
(* connect challenges (agent.rs:899-940) all do so.                        *)
(*                                                                         *)
(* Redis is external.  A failed command ends the handler, except where     *)
(* the code ignores it: the DEL of a challenge, the GET and the INCR of    *)
(* the failed logins.  The clock is that of all processes and of Redis.    *)
(*                                                                         *)
(* Not here: signatures, passwords and credentials (right or wrong, the    *)
(* handler goes either way), the user's row and the token of the answer.   *)
(*                                                                         *)
(* A definition named X_Y, before the definition X, is a variant of X that *)
(* a plausible mistake would give; nothing uses it.                        *)
(***************************************************************************)
EXTENDS Integers, FiniteSets

CONSTANTS
  Handlers,     \* handlers that can be in flight at once
  Requests,     \* signed requests
  Challenges,   \* challenges that are issued for one key
  Skew,         \* seconds between timestamp and clock (300)
  MaxAttempts,  \* failed logins a client may have in a window (10)
  MaxTime,      \* bound: the clock
  NoToken       \* neither a request nor a challenge

ASSUME TokensAssumption ==
  /\ Skew \in Nat \ {0}
  /\ MaxTime \in Nat
  /\ MaxAttempts \in Nat \ {0}
  /\ IsFiniteSet(Handlers)
  /\ Requests \cap Challenges = {}
  /\ NoToken \notin Requests \cup Challenges

VARIABLES
  clock,        \* seconds
  stamp,        \* the timestamp of each signed request
  runsOut,      \* when the key of a request's id runs out, 0 without a key
  challenge,    \* the challenge that is stored under the key
  issued,       \* challenges that have been issued
  failures,     \* the counter of failed logins
  handler,      \* where each handler is, and with which token
  uses,         \* history: how often a token has been accepted, up to 2
  excused,      \* history: tokens whose second use a known race explains
  unlimited     \* history: a check of this window's failures could not be made

requestVars == <<clock, stamp, runsOut>>
challengeVars == <<challenge, issued>>
counters == <<failures, unlimited>>
tokenVars == <<requestVars, challengeVars, counters, handler, uses, excused>>

Tokens == Requests \cup Challenges
Lifetime_OneSkew == Skew
Lifetime == 2 * Skew
Idle == [at |-> "idle", token |-> NoToken]

TokensInit ==
  /\ clock = 0
  /\ stamp \in [Requests -> Skew..MaxTime]
  /\ runsOut = [r \in Requests |-> 0]
  /\ challenge = NoToken
  /\ issued = {}
  /\ failures = 0
  /\ handler = [h \in Handlers |-> Idle]
  /\ uses = [x \in Tokens |-> 0]
  /\ excused = {}
  /\ unlimited = FALSE

HandlerAt(h, label) == handler[h].at = label
Enter(h, label, x) == handler' = [handler EXCEPT ![h] = [at |-> label, token |-> x]]
Done(h) == handler' = [handler EXCEPT ![h] = Idle]

Use(x) == uses' = [uses EXCEPT ![x] = IF @ < 2 THEN @ + 1 ELSE @]

\* Another handler has looked the token up and not yet written.
Between(h, x) ==
  \E g \in Handlers \ {h} : handler[g].token = x /\ handler[g].at \in {"store", "delete"}

Tick ==
  /\ clock < MaxTime
  /\ clock' = clock + 1
  /\ UNCHANGED <<stamp, runsOut, challengeVars, counters, handler, uses, excused>>

(***************************************************************************)
(* verify_signed_request.                                                  *)
(***************************************************************************)

\* (now - timestamp).abs() > 300 is an error.
InWindow(r) == clock - stamp[r] <= Skew /\ stamp[r] - clock <= Skew

CheckTimestamp(h, r) ==
  /\ HandlerAt(h, "idle")
  /\ InWindow(r)
  /\ Enter(h, "exists", r)
  /\ UNCHANGED <<requestVars, challengeVars, counters, uses, excused>>

\* EXISTS: a request that is not known goes on to its signature and to SETEX.
\* The key lives as long as the window of a request that came at its first
\* second; in the last second of the window, and after it, it is gone.
LookUpRequest(h) ==
  LET r == handler[h].token
  IN  /\ HandlerAt(h, "exists")
      /\ IF clock < runsOut[r]
         THEN Done(h) /\ UNCHANGED excused
         ELSE /\ Enter(h, "store", r)
              /\ excused' = IF Between(h, r) \/ clock >= stamp[r] + Skew
                            THEN excused \cup {r} ELSE excused
      /\ UNCHANGED <<requestVars, challengeVars, counters, uses>>

\* SETEX, and the request is accepted, unless the answer is lost.
StoreRequest(h) ==
  LET r == handler[h].token
  IN  /\ HandlerAt(h, "store")
      /\ runsOut' = [runsOut EXCEPT ![r] = clock + Lifetime]
      /\ UNCHANGED uses \/ Use(r)
      /\ Done(h)
      /\ UNCHANGED <<clock, stamp, challengeVars, counters, excused>>

(***************************************************************************)
(* Challenges.                                                             *)
(***************************************************************************)

\* A new challenge takes the place of the one before.
IssueChallenge(c) ==
  /\ c \notin issued
  /\ issued' = issued \cup {c}
  /\ challenge' = c
  /\ UNCHANGED <<requestVars, counters, handler, uses, excused>>

ChallengeRunsOut ==
  /\ challenge # NoToken
  /\ challenge' = NoToken
  /\ UNCHANGED <<requestVars, issued, counters, handler, uses, excused>>

\* GET, and the comparison with what the client sends.
ReadChallenge(h, c) ==
  /\ HandlerAt(h, "idle")
  /\ challenge = c
  /\ Enter(h, "delete", c)
  /\ excused' = IF Between(h, c) THEN excused \cup {c} ELSE excused
  /\ UNCHANGED <<requestVars, challengeVars, counters, uses>>

\* DEL of the key, whatever is stored there by now; if it fails, the challenge
\* stays.  Then the handler goes on, with a user, a session or a wallet.
DeleteChallenge(h) ==
  LET c == handler[h].token
  IN  /\ HandlerAt(h, "delete")
      /\ \/ challenge' = NoToken /\ UNCHANGED excused
         \/ UNCHANGED challenge /\ excused' = excused \cup {c}
      /\ UNCHANGED uses \/ Use(c)
      /\ Done(h)
      /\ UNCHANGED <<requestVars, issued, counters>>

(***************************************************************************)
(* login.                                                                  *)
(***************************************************************************)

\* check_rate_limit: a GET that fails counts as no failures.
CheckLimit_OneMore(h) ==
  /\ HandlerAt(h, "idle")
  /\ \/ failures <= MaxAttempts /\ UNCHANGED unlimited
     \/ unlimited' = TRUE
  /\ Enter(h, "verify", NoToken)
  /\ UNCHANGED <<requestVars, challengeVars, failures, uses, excused>>
CheckLimit(h) ==
  /\ HandlerAt(h, "idle")
  /\ \/ failures < MaxAttempts /\ UNCHANGED unlimited
     \/ failures > 0 /\ unlimited' = TRUE
  /\ Enter(h, "verify", NoToken)
  /\ UNCHANGED <<requestVars, challengeVars, failures, uses, excused>>

\* The password is right, or the account or its hash cannot be read.
LoginOver(h) ==
  /\ HandlerAt(h, "verify")
  /\ Done(h)
  /\ UNCHANGED <<requestVars, challengeVars, counters, uses, excused>>

\* Bound: failures that are counted, one more than AttemptsBounded allows.
MaxFailures == MaxAttempts + Cardinality(Handlers)

\* record_failed_attempt: INCR and EXPIRE at once.  An error is ignored.
RecordFailure(h) ==
  /\ HandlerAt(h, "verify")
  /\ failures < MaxFailures
  /\ failures' = failures + 1
  /\ Done(h)
  /\ UNCHANGED <<requestVars, challengeVars, unlimited, uses, excused>>

\* 15 minutes without a failure.
WindowOver ==
  /\ failures > 0
  /\ failures' = 0
  /\ unlimited' = FALSE
  /\ UNCHANGED <<requestVars, challengeVars, handler, uses, excused>>

\* A command fails, the signature is wrong, or the client hangs up.
HandlerFails(h) ==
  /\ handler[h].at \in {"exists", "store", "delete"}
  /\ Done(h)
  /\ UNCHANGED <<requestVars, challengeVars, counters, uses, excused>>

RequestsNext ==
  \/ Tick
  \/ \E h \in Handlers, r \in Requests : CheckTimestamp(h, r)
  \/ \E h \in Handlers : LookUpRequest(h) \/ StoreRequest(h)

ChallengesNext ==
  \/ \E c \in Challenges : IssueChallenge(c)
  \/ \E h \in Handlers, c \in Challenges : ReadChallenge(h, c)
  \/ \E h \in Handlers : DeleteChallenge(h)
  \/ ChallengeRunsOut

LoginsNext ==
  \/ \E h \in Handlers : CheckLimit(h) \/ LoginOver(h) \/ RecordFailure(h)
  \/ WindowOver

TokensNext ==
  \/ RequestsNext
  \/ ChallengesNext
  \/ LoginsNext
  \/ \E h \in Handlers : HandlerFails(h)

TokensSpec == TokensInit /\ [][TokensNext]_tokenVars
-----------------------------------------------------------------------------
HandlerStates ==
  [at : {"idle", "verify"}, token : {NoToken}]
  \cup [at : {"exists", "store"}, token : Requests]
  \cup [at : {"delete"}, token : Challenges]

\* Types, and: a handler that is looking up or storing has a request, one that
\* deletes has a challenge.
TokensTypeOK ==
  /\ clock \in Nat
  /\ stamp \in [Requests -> Nat]
  /\ runsOut \in [Requests -> Nat]
  /\ challenge \in Challenges \cup {NoToken}
  /\ issued \subseteq Challenges
  /\ failures \in Nat
  /\ handler \in [Handlers -> HandlerStates]
  /\ uses \in [Tokens -> 0..2]
  /\ excused \subseteq Tokens
  /\ unlimited \in BOOLEAN

\* A signed request and a challenge are accepted once.  A second time needs two
\* handlers that have both looked the token up before either of them wrote, a
\* DEL that failed, or a look-up in the last second of the request's window or
\* later (auth.rs:328-359, 578-589).
UsedOnce == \A x \in Tokens : uses[x] > 1 => x \in excused

\* The limit on failed logins is overrun at most by the handlers that were
\* already past its check, unless a check could not be made (auth.rs:362-398).
AttemptsBounded ==
  unlimited \/ failures <= MaxAttempts - 1 + Cardinality(Handlers)

=============================================================================
