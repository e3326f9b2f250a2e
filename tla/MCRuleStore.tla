---------------------------- MODULE MCRuleStore ----------------------------
(* Instances of RuleStore for TLC.                                         *)
EXTENDS RuleStore

CONSTANTS h1, h2

(* Two requests at a time are enough for every race between two saves; a   *)
(* single one is a client that waits for each answer.                      *)
TwoHandlers == {h1, h2}
OneHandler  == {h1}
=============================================================================
