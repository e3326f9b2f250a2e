---------------------------- MODULE MCMembership ---------------------------
(* Instances of Membership for TLC.                                        *)
EXTENDS Membership, TLC

CONSTANTS a1, a2

TwoAgents == {a1, a2}
OneAgent  == {a1}

(* Agents are told apart by nothing but their name.                        *)
Symmetry == Permutations(TwoAgents)
=============================================================================
