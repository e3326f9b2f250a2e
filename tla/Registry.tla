------------------------------ MODULE Registry ------------------------------
(***************************************************************************)
(* The coordinator's set of known nodes: internal/coordinator/registry.go. *)
(* Every method runs under Registry.mu, so each one is a single step of    *)
(* the module that uses it.  The two maps of the code are two partial      *)
(* functions; a method that finds no entry is disabled here, and its       *)
(* caller says what happens then.                                          *)
(***************************************************************************)
EXTENDS Integers, Maps

VARIABLES
    nodes,      \* Registry.nodes: id |-> what the coordinator knows of it
    nodeTokens  \* Registry.nodeTokens: id |-> the token of that node

Status == {"online", "busy", "offline"}

Entry(Owner, Time) == [owner : Owner, status : Status, last : Time]

NewRegistry == nodes = EmptyMap /\ nodeTokens = EmptyMap

Exists(id) == id \in DOMAIN nodes

(* Add: an id that is taken is refused, whoever owns it.                   *)
AddNode(id, owner, now) ==
    /\ ~Exists(id)
    /\ nodes' = Put(nodes, id, [owner |-> owner, status |-> "online", last |-> now])
    /\ UNCHANGED nodeTokens

RemoveNode(id) ==
    /\ Exists(id)
    /\ nodes' = Delete(nodes, id)
    /\ nodeTokens' = Delete(nodeTokens, id)

(* SetNodeToken does not ask whether the node is (still) there.            *)
SetNodeToken(id, token) ==
    /\ nodeTokens' = Put(nodeTokens, id, token)
    /\ UNCHANGED nodes

ValidateNodeToken(token) == \E id \in DOMAIN nodeTokens : nodeTokens[id] = token

(* GetNodeToken: the zero value of a Go map for a node without a token.    *)
GetNodeToken(id, empty) ==
    IF id \in DOMAIN nodeTokens THEN nodeTokens[id] ELSE empty

UpdateStatus(id, status) ==
    /\ Exists(id)
    /\ nodes' = [nodes EXCEPT ![id].status = status]
    /\ UNCHANGED nodeTokens

RecordHeartbeat(id, status, now) ==
    /\ Exists(id)
    /\ nodes' = [nodes EXCEPT ![id].status = status, ![id].last = now]
    /\ UNCHANGED nodeTokens

(* The entries the next call of MarkOfflineIfStale would change.           *)
Stale(now, timeout) ==
    {id \in DOMAIN nodes : /\ nodes[id].status # "offline"
                           /\ now - nodes[id].last > timeout}

MarkOfflineIfStale(now, timeout) ==
    /\ nodes' = [id \in DOMAIN nodes |->
                    IF id \in Stale(now, timeout)
                    THEN [nodes[id] EXCEPT !.status = "offline"]
                    ELSE nodes[id]]
    /\ UNCHANGED nodeTokens
=============================================================================
