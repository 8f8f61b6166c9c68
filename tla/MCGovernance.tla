--------------------------- MODULE MCGovernance ---------------------------
(***************************************************************************)
(* Instances of Governance for TLC.                                        *)
(***************************************************************************)
EXTENDS Governance, TLC

Symmetry ==
  Permutations(Workers) \cup Permutations(Proposals) \cup Permutations(Wallets)
    \cup Permutations(Agents)
===========================================================================
