------------------------------ MODULE Charter ------------------------------
(***************************************************************************)
(* What governance promises a treasury's owner and the holders of its      *)
(* wallets, without handlers and without a database.  Versions of the      *)
(* constitution are added one on the other and never change.  One that the *)
(* owner adds is in force at once.  One that was put to the vote, in this  *)
(* treasury or in another, is added under a mandate: exactly that content  *)
(* has as many signatures as a majority of those who have a vote here now, *)
(* one of them by somebody who has or had a vote here, and a mandate       *)
(* serves once.  It comes into force later, or never.                      *)
(***************************************************************************)
EXTENDS Integers, FiniteSets

CONSTANTS Proposals, Wallets, Contents, Holders

VARIABLES
  versions,   \* every version there has been, from 0
  force,      \* the one in force
  ballot,     \* of each proposal that was put to the vote anywhere, the content
  signed,     \* pairs of a proposal and a wallet, of any treasury, that signed it
  voters,     \* the wallets that have a vote here now
  electors,   \* and those that have or had one
  mandate,    \* of each holder of a mandate that was not used, the proposal
  adopted     \* of each holder who used one, the version not yet in force

electorate == <<voters, electors>>
vars == <<versions, force, ballot, signed, electorate, mandate, adopted>>

Newest == CHOOSE v \in DOMAIN versions : \A u \in DOMAIN versions : u <= v

Signers(p) == {x \in Wallets : <<p, x>> \in signed}
Majority(p) == 2 * Cardinality(Signers(p)) > Cardinality(voters)

\* A function with one more argument, and with one less.
Extended(f, x, y) == [z \in DOMAIN f \cup {x} |-> IF z = x THEN y ELSE f[z]]
Without(f, x) == [z \in DOMAIN f \ {x} |-> f[z]]
-----------------------------------------------------------------------------
Init ==
  /\ \E c \in Contents : versions = [v \in {0} |-> c]
  /\ force = 0
  /\ DOMAIN ballot = {}
  /\ signed = {}
  /\ voters = {}
  /\ electors = {}
  /\ DOMAIN mandate = {}
  /\ DOMAIN adopted = {}

Append(c) == versions' = Extended(versions, Newest + 1, c)

\* The owner edits, rolls back or revokes an agent.
Enact(c) ==
  /\ force' = Newest + 1
  /\ Append(c)
  /\ UNCHANGED <<ballot, signed, electorate, mandate, adopted>>

\* What is put to the vote is fixed from then on.
Table(p, c) ==
  /\ p \notin DOMAIN ballot
  /\ ballot' = Extended(ballot, p, c)
  /\ UNCHANGED <<versions, force, signed, electorate, mandate, adopted>>

\* No signature is taken back, and not only voters sign.
Sign(p, x) ==
  /\ p \in DOMAIN ballot
  /\ signed' = signed \cup {<<p, x>>}
  /\ UNCHANGED <<versions, force, ballot, electorate, mandate, adopted>>

Seat(x) ==
  /\ voters' \in {voters \cup {x}, voters \ {x}}
  /\ electors' = electors \cup voters'
  /\ UNCHANGED <<versions, force, ballot, signed, mandate, adopted>>

Carry(h, p) ==
  /\ h \notin DOMAIN mandate
  /\ p \in DOMAIN ballot
  /\ Majority(p)
  /\ Signers(p) \cap electors # {}
  /\ mandate' = Extended(mandate, h, p)
  /\ UNCHANGED <<versions, force, ballot, signed, electorate, adopted>>

Adopt(h) ==
  /\ h \in DOMAIN mandate
  /\ Append(ballot[mandate[h]])
  /\ mandate' = Without(mandate, h)
  /\ adopted' = Extended(adopted, h, Newest + 1)
  /\ UNCHANGED <<force, ballot, signed, electorate>>

\* Whatever else has come into force in the meantime.
Enforce(h) ==
  /\ h \in DOMAIN adopted
  /\ force' = adopted[h]
  /\ adopted' = Without(adopted, h)
  /\ UNCHANGED <<versions, ballot, signed, electorate, mandate>>

\* A mandate may be lost before it is used, and an adoption before it is in force.
Lapse(h) ==
  /\ mandate' = Without(mandate, h)
  /\ adopted' = Without(adopted, h)
  /\ UNCHANGED <<versions, force, ballot, signed, electorate>>

Next ==
  \/ \E x \in Wallets : Seat(x)
  \/ \E p \in Proposals : \/ \E c \in Contents : Table(p, c)
                          \/ \E x \in Wallets : Sign(p, x)
  \/ \E c \in Contents : Enact(c)
  \/ \E h \in Holders :
       \/ \E p \in Proposals : Carry(h, p)
       \/ Adopt(h)
       \/ Enforce(h)
       \/ Lapse(h)

Spec == Init /\ [][Next]_vars
===========================================================================
