------------------------------- MODULE Routing -------------------------------
(***************************************************************************)
(* The choice of a node for a message: Router.Route in                     *)
(* internal/coordinator/router.go.  It is a function of the rules, of the  *)
(* registry's entries and of the order in which a Go map lists them.       *)
(*                                                                         *)
(* Route and the operators before it do what the code does, loop by loop;  *)
(* Admissible says which nodes may come out.                               *)
(***************************************************************************)
EXTENDS SequencesExt

CONSTANTS
    Profile,    \* of each node id: name, os, gpu, and skills with tags
    Unset,      \* a criterion or a target that is not set
    Nobody      \* no node

Rule == [wild : BOOLEAN, gpu : BOOLEAN, os : STRING, skill : STRING, target : STRING]

(* validateRule: a wildcard has no criteria and no target.  One criterion  *)
(* is always there, if only "no GPU required", which all nodes meet.       *)
ValidRule(rule) ==
    rule.wild => ~rule.gpu /\ rule.os = Unset /\ rule.skill = Unset /\ rule.target = Unset

statusPriority(status) ==
    CASE status = "online" -> 0 [] status = "busy" -> 1 [] OTHER -> 2

(* matchesCriteria, and matchNodes with it.                                *)
Matches(rule, id) ==
    /\ rule.gpu => Profile[id].gpu
    /\ rule.os \in {Unset, Profile[id].os}
    /\ rule.skill \in {Unset} \cup Profile[id].skills

Named(rule, id) == rule.target \in {id, Profile[id].name}

(* The loops of filterOnline and matchNodes: what is in S, in the order of *)
(* the list.                                                               *)
Filter(list, S) ==
    LET keep(kept, id) == IF id \in S THEN Append(kept, id) ELSE kept
    IN  FoldLeft(keep, <<>>, list)

filterOnline(list, nodes) ==
    Filter(list, {id \in DOMAIN nodes : nodes[id].status # "offline"})

(* Mutant of leastBusy: the last of the least busy, or a busier one.       *)
mostBusy(list, nodes) ==
    LET better(best, id) ==
            IF best = Nobody \/ statusPriority(nodes[id].status) >= statusPriority(nodes[best].status)
            THEN id ELSE best
    IN  FoldLeft(better, Nobody, list)

leastBusy(list, nodes) ==
    LET better(best, id) ==
            IF best = Nobody \/ statusPriority(nodes[id].status) < statusPriority(nodes[best].status)
            THEN id ELSE best
    IN  FoldLeft(better, Nobody, list)

(* One turn of the loop over the rules; Nobody: the next rule is tried.    *)
TryRule(rule, online, nodes) ==
    LET candidates == Filter(online, {id \in DOMAIN nodes : Matches(rule, id)})
        targets    == Filter(candidates, {id \in DOMAIN nodes : Named(rule, id)})
    IN  CASE rule.wild -> leastBusy(online, nodes)
          [] ~rule.wild /\ rule.target = Unset -> leastBusy(candidates, nodes)
          [] OTHER -> IF targets = <<>> THEN Nobody ELSE Head(targets)

(* Route without a target node, for a list that has nodes online.          *)
Route(rules, list, nodes) ==
    LET online == filterOnline(list, nodes)
        turn(chosen, rule) ==
            IF chosen = Nobody THEN TryRule(rule, online, nodes) ELSE chosen
        chosen == FoldLeft(turn, Nobody, rules)
    IN  IF chosen = Nobody THEN leastBusy(online, nodes) ELSE chosen

-----------------------------------------------------------------------------
(* What the rules mean: a rule admits nodes that are not offline, match    *)
(* and bear the target's name; the first rule that admits any decides, the *)
(* wildcard or no rule admits all; a named target is taken however busy it *)
(* is, and otherwise no busy node while another is idle.                   *)
Admitted(rule, nodes) ==
    {id \in DOMAIN nodes :
        /\ nodes[id].status # "offline"
        /\ rule.wild \/ (Matches(rule, id) /\ (rule.target = Unset \/ Named(rule, id)))}

Idlest(S, nodes) ==
    IF \E id \in S : nodes[id].status = "online"
    THEN {id \in S : nodes[id].status = "online"} ELSE S

Admissible(rules, nodes) ==
    LET Deciding == {i \in DOMAIN rules : Admitted(rules[i], nodes) # {}}
    IN  IF Deciding = {}
        THEN Idlest({id \in DOMAIN nodes : nodes[id].status # "offline"}, nodes)
        ELSE LET rule == rules[CHOOSE i \in Deciding : \A j \in Deciding : i <= j]
             IN  IF rule.wild \/ rule.target = Unset
                 THEN Idlest(Admitted(rule, nodes), nodes)
                 ELSE Admitted(rule, nodes)
=============================================================================
