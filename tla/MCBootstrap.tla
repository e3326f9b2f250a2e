---------------------------- MODULE MCBootstrap ----------------------------
(* Instances of Bootstrap for TLC.                                         *)
EXTENDS Bootstrap, TLC

(* Excluded keys are as good as each other, and so are values.             *)
Interchangeable == Permutations(Excluded) \cup Permutations(Values)
=============================================================================
