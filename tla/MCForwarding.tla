---------------------------- MODULE MCForwarding ---------------------------
(* Instances of Forwarding for TLC.  The timeouts are 1, 2 and 3: all that *)
(* matters of 30, 145 and 180 s is their order, since one call is waited   *)
(* for at a time.  Two nodes share an os, two a skill, and one has a GPU;  *)
(* rules ask for each of these, for a node by name, and for any node.      *)
EXTENDS Forwarding, TLC

ThreeNodes == {"a", "b", "c"}

Profiles == [a |-> [name |-> "mac",   os |-> "darwin", gpu |-> FALSE, skills |-> {"go"}],
             b |-> [name |-> "linux", os |-> "linux",  gpu |-> TRUE,  skills |-> {"go"}],
             c |-> [name |-> "pi",    os |-> "linux",  gpu |-> FALSE, skills |-> {}]]

Criteria == [wild |-> FALSE, gpu |-> FALSE, os |-> "", skill |-> "", target |-> ""]

AllShapes == {[Criteria EXCEPT !.gpu = TRUE, !.target = "linux"],
              [Criteria EXCEPT !.os = "linux"],
              [Criteria EXCEPT !.skill = "go"],
              [Criteria EXCEPT !.target = "c"],
              [Criteria EXCEPT !.wild = TRUE]}
=============================================================================
