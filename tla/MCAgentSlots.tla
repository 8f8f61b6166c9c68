--------------------------- MODULE MCAgentSlots ---------------------------
(***************************************************************************)
(* Instances of AgentSlots for TLC.                                        *)
(***************************************************************************)
EXTENDS AgentSlots, TLC

Symmetry == Permutations(Workers) \cup Permutations(Agents) \cup Permutations(Keys)
===========================================================================
