----------------------------- MODULE Membership -----------------------------
(***************************************************************************)
(* How a node gets into the mesh, stays in it and leaves it: the agent of  *)
(* internal/node/agent.go on one side, the handlers of                     *)
(* internal/coordinator/server.go on the other, and HTTP in between.       *)
(*                                                                         *)
(* An agent works on one exchange at a time.  It can give up on an         *)
(* exchange that the coordinator still goes on with: the request is then   *)
(* `abandoned' and its answer goes nowhere.  A coordinator that stops      *)
(* forgets every node and every token.                                     *)
(*                                                                         *)
(* Node ids are numbered in the order in which they are drawn, and the     *)
(* token drawn along with id n is n as well: both are random in the code   *)
(* (id.go), so neither is drawn twice.  Admin is the token of the mesh;    *)
(* it is the empty string when the mesh is not Secured.                    *)
(***************************************************************************)
EXTENDS Registry, FiniteSets

CONSTANTS
    Agents,     \* the node agents
    Secured,    \* the coordinator is configured with a token
    FailLimit,  \* maxFailuresBeforeReconnect (5 in the code)
    MaxIds,     \* bound on the number of registrations that are accepted
    MaxFaults   \* bound on crashes, timeouts, lost calls and operator removals

ASSUME MembershipAssumption ==
    /\ Secured \in BOOLEAN
    /\ FailLimit \in Nat \ {0}
    /\ MaxIds \in Nat
    /\ MaxFaults \in Nat

VARIABLES
    up,         \* the coordinator process is running
    calls,      \* the exchanges in progress
    pc,         \* where each agent is
    nodeID,     \* Agent.nodeID
    token,      \* Agent.token, which the agent's message handler shares
    fails,      \* consecutiveFailures
    stopping,   \* agents whose stopCh is closed
    next,       \* history: the next id to be drawn
    removed,    \* history: ids a DELETE has removed
    disturbed,  \* history: agents that crashed or gave up on an exchange
    faults      \* faults so far

coordinator == <<up, nodes, nodeTokens, next, removed>>
agent       == <<pc, nodeID, token, fails, stopping, disturbed>>
vars        == <<coordinator, agent, calls, faults>>

-----------------------------------------------------------------------------
Ids   == 1..MaxIds
NoId  == 0
Admin == 0
Token == {Admin} \cup Ids

Call == [from : Agents, kind : {"register", "heartbeat", "deregister"},
         id : {NoId} \cup Ids, token : Token,
         stage : {"sent", "added", "ok", "error"}, abandoned : BOOLEAN]

Phases == {"off", "joining", "loop", "beating", "backoff", "rejoining", "leaving", "left"}

(* Phases in which heartbeatLoop runs.                                     *)
InLoop(a) == pc[a] \in {"loop", "beating", "backoff", "rejoining"}
(* Phases in which the agent waits for an answer.                          *)
Waiting(a) == pc[a] \in {"joining", "beating", "rejoining", "leaving"}

TypeOK ==
    /\ DOMAIN nodes \subseteq Ids
    /\ \A id \in DOMAIN nodes : nodes[id] \in Entry(Agents, {0})
    /\ DOMAIN nodeTokens \subseteq Ids
    /\ \A id \in DOMAIN nodeTokens : nodeTokens[id] \in Token
    /\ up \in BOOLEAN
    /\ calls \subseteq Call
    /\ pc \in [Agents -> Phases]
    /\ nodeID \in [Agents -> {NoId} \cup Ids]
    /\ token \in [Agents -> Token]
    /\ fails \in [Agents -> 0..FailLimit]
    /\ stopping \subseteq Agents
    /\ next \in 1..(MaxIds + 1)
    /\ removed \subseteq Ids
    /\ disturbed \subseteq Agents
    /\ faults \in 0..MaxFaults

Init ==
    /\ NewRegistry
    /\ up = TRUE
    /\ calls = {}
    /\ pc = [a \in Agents |-> "off"]
    /\ nodeID = [a \in Agents |-> NoId]
    /\ token = [a \in Agents |-> Admin]
    /\ fails = [a \in Agents |-> 0]
    /\ stopping = {}
    /\ next = 1
    /\ removed = {}
    /\ disturbed = {}
    /\ faults = 0

-----------------------------------------------------------------------------
(* The coordinator: one step per critical section of a handler.            *)

(* requireAuth: the mesh token or the token of any node, whichever node.   *)
Authorized(t) == ~Secured \/ t = Admin \/ ValidateNodeToken(t)

(* The handler returns: the agent will see the outcome if it still waits.  *)
Answer(c, outcome, id) ==
    calls' = (calls \ {c}) \cup
             (IF c.abandoned THEN {} ELSE {[c EXCEPT !.stage = outcome, !.id = id]})

Handles(c, kind) == up /\ c.kind = kind /\ c.stage = "sent" /\ Authorized(c.token)

(* Mutant of SetNodeToken's caller: the answer goes out first.             *)
RegisterUnsaved(c) ==
    /\ up /\ c.kind = "register" /\ c.stage = "added"
    /\ Answer(c, "ok", c.id)
    /\ UNCHANGED <<coordinator, agent, faults>>

(* handleRegister up to registry.Add.                                      *)
RegisterAdd(c) ==
    /\ Handles(c, "register")
    /\ next <= MaxIds
    /\ AddNode(next, c.from, 0)
    /\ next' = next + 1
    /\ calls' = (calls \ {c}) \cup {[c EXCEPT !.stage = "added", !.id = next]}
    /\ UNCHANGED <<up, removed, agent, faults>>

(* handleRegister from SetNodeToken on: Registry.mu was free in between.   *)
RegisterToken(c) ==
    /\ up /\ c.kind = "register" /\ c.stage = "added"
    /\ SetNodeToken(c.id, c.id)
    /\ Answer(c, "ok", c.id)
    /\ UNCHANGED <<up, next, removed, agent, faults>>

(* Mutants of HandleHeartbeat: an unknown node is added; it is forgiven.   *)
HeartbeatAdds(c) ==
    /\ Handles(c, "heartbeat")
    /\ \/ RecordHeartbeat(c.id, "online", 0)
       \/ AddNode(c.id, c.from, 0)
    /\ Answer(c, "ok", c.id)
    /\ UNCHANGED <<up, next, removed, agent, faults>>

HeartbeatForgiving(c) ==
    /\ Handles(c, "heartbeat")
    /\ Answer(c, "ok", c.id)
    /\ \/ RecordHeartbeat(c.id, "online", 0)
       \/ ~Exists(c.id) /\ UNCHANGED <<nodes, nodeTokens>>
    /\ UNCHANGED <<up, next, removed, agent, faults>>

(* handleHeartbeat: 204, or 404 when the node is unknown.                  *)
HandleHeartbeat(c) ==
    /\ Handles(c, "heartbeat")
    /\ \/ /\ RecordHeartbeat(c.id, "online", 0)
          /\ Answer(c, "ok", c.id)
       \/ /\ ~Exists(c.id)
          /\ Answer(c, "error", c.id)
          /\ UNCHANGED <<nodes, nodeTokens>>
    /\ UNCHANGED <<up, next, removed, agent, faults>>

(* handleDeregister: 204, or 404 when the node is unknown.                 *)
HandleDeregister(c) ==
    /\ Handles(c, "deregister")
    /\ \/ /\ RemoveNode(c.id)
          /\ Answer(c, "ok", c.id)
          /\ removed' = removed \cup {c.id}
       \/ /\ ~Exists(c.id)
          /\ Answer(c, "error", c.id)
          /\ UNCHANGED <<nodes, nodeTokens, removed>>
    /\ UNCHANGED <<up, next, agent, faults>>

(* requireAuth answers 401.                                                *)
Refuse(c) ==
    /\ up /\ c.stage = "sent" /\ ~Authorized(c.token)
    /\ Answer(c, "error", c.id)
    /\ UNCHANGED <<coordinator, agent, faults>>

Serve(c) ==
    \/ RegisterAdd(c) \/ RegisterToken(c)
    \/ HandleHeartbeat(c) \/ HandleDeregister(c) \/ Refuse(c)

(* The health checker marks a node offline: it was silent for too long, or *)
(* its probes failed.  When exactly is the matter of HealthCheck.          *)
MarkOffline(id) ==
    /\ up /\ nodes[id].status # "offline"
    /\ UpdateStatus(id, "offline")
    /\ UNCHANGED <<up, next, removed, agent, calls, faults>>

(* Somebody with the mesh token sends DELETE /api/v1/nodes/{id}.           *)
OperatorRemove(id) ==
    /\ up /\ faults < MaxFaults
    /\ RemoveNode(id)
    /\ removed' = removed \cup {id}
    /\ faults' = faults + 1
    /\ UNCHANGED <<up, next, agent, calls>>

(* Mutant of CoordinatorStops: ids are counted from 1 again at each start. *)
CoordinatorStopsCounting ==
    /\ up /\ faults < MaxFaults
    /\ up' = FALSE
    /\ nodes' = EmptyMap /\ nodeTokens' = EmptyMap
    /\ calls' = {}
    /\ next' = 1
    /\ faults' = faults + 1
    /\ UNCHANGED <<removed, agent>>

(* The registry lives in memory, and so do the exchanges.                  *)
CoordinatorStops ==
    /\ up /\ faults < MaxFaults
    /\ up' = FALSE
    /\ nodes' = EmptyMap /\ nodeTokens' = EmptyMap
    /\ calls' = {}
    /\ faults' = faults + 1
    /\ UNCHANGED <<next, removed, agent>>

CoordinatorStarts ==
    /\ ~up
    /\ up' = TRUE
    /\ UNCHANGED <<nodes, nodeTokens, next, removed, agent, calls, faults>>

-----------------------------------------------------------------------------
(* The agent: one step per segment between two waits of heartbeatLoop.     *)

Send(a, kind, id, t) ==
    calls' = calls \cup {[from |-> a, kind |-> kind, id |-> id, token |-> t,
                          stage |-> "sent", abandoned |-> FALSE]}

Goto(a, phase) == pc' = [pc EXCEPT ![a] = phase]

Pending(a) == {c \in calls : c.from = a /\ ~c.abandoned}

Answered(a, outcome) == {c \in Pending(a) : c.stage = outcome}

(* newJoinCmd: StartHandler, then Register with the mesh token.            *)
Start(a) ==
    /\ pc[a] = "off"
    /\ Goto(a, "joining")
    /\ Send(a, "register", NoId, Admin)
    /\ UNCHANGED <<coordinator, nodeID, token, fails, stopping, disturbed, faults>>

(* Mutant of Registered: a repeated registration keeps the old id.         *)
RegisteredAsBefore(a) ==
    /\ pc[a] \in {"joining", "rejoining"}
    /\ \E c \in Answered(a, "ok") :
         /\ calls' = calls \ {c}
         /\ nodeID' = [nodeID EXCEPT ![a] = IF nodeID[a] = NoId THEN c.id ELSE nodeID[a]]
         /\ token' = [token EXCEPT ![a] = c.id]
    /\ fails' = [fails EXCEPT ![a] = 0]
    /\ Goto(a, "loop")
    /\ UNCHANGED <<coordinator, stopping, disturbed, faults>>

(* Register has read the answer 201.  The first time, StartHeartbeat       *)
(* follows; in the loop, the failure count starts anew.                    *)
Registered(a) ==
    /\ pc[a] \in {"joining", "rejoining"}
    /\ \E c \in Answered(a, "ok") :
         /\ calls' = calls \ {c}
         /\ nodeID' = [nodeID EXCEPT ![a] = c.id]
         /\ token' = [token EXCEPT ![a] = c.id]
    /\ fails' = [fails EXCEPT ![a] = 0]
    /\ Goto(a, "loop")
    /\ UNCHANGED <<coordinator, stopping, disturbed, faults>>

(* The ticker fires: sendHeartbeat.                                        *)
Tick(a) ==
    /\ pc[a] = "loop"
    /\ Goto(a, "beating")
    /\ Send(a, "heartbeat", nodeID[a], token[a])
    /\ UNCHANGED <<coordinator, nodeID, token, fails, stopping, disturbed, faults>>

HeartbeatDone(a) ==
    /\ pc[a] = "beating"
    /\ \E c \in Answered(a, "ok") : calls' = calls \ {c}
    /\ fails' = [fails EXCEPT ![a] = 0]
    /\ Goto(a, "loop")
    /\ UNCHANGED <<coordinator, nodeID, token, stopping, disturbed, faults>>

(* The wait for the backoff is over: reconnect gives up the token of the   *)
(* node and registers with the mesh token.                                 *)
Reconnect(a) ==
    /\ pc[a] = "backoff"
    /\ token' = [token EXCEPT ![a] = Admin]
    /\ Send(a, "register", NoId, Admin)
    /\ Goto(a, "rejoining")
    /\ UNCHANGED <<coordinator, nodeID, fails, stopping, disturbed, faults>>

(* Mutant of AfterFailure: `>' for `>=' in the test of the failure count.  *)
AfterFailureLate(a) ==
    CASE pc[a] = "beating" ->
           /\ fails' = [fails EXCEPT ![a] = @ + 1]
           /\ Goto(a, IF fails[a] + 1 > FailLimit THEN "backoff" ELSE "loop")
      [] pc[a] = "rejoining" -> Goto(a, "loop") /\ UNCHANGED fails
      [] pc[a] = "joining"   -> Goto(a, "off") /\ UNCHANGED fails
      [] pc[a] = "leaving"   -> Goto(a, "left") /\ UNCHANGED fails

(* What the agent does about an exchange that came to nothing.  A failed   *)
(* first registration ends the process; a failed deregistration is logged. *)
AfterFailure(a) ==
    LET n == IF fails[a] < FailLimit THEN fails[a] + 1 ELSE FailLimit
    IN  CASE pc[a] = "beating" ->
               /\ fails' = [fails EXCEPT ![a] = n]
               /\ Goto(a, IF n = FailLimit THEN "backoff" ELSE "loop")
          [] pc[a] = "rejoining" -> Goto(a, "loop") /\ UNCHANGED fails
          [] pc[a] = "joining"   -> Goto(a, "off") /\ UNCHANGED fails
          [] pc[a] = "leaving"   -> Goto(a, "left") /\ UNCHANGED fails

(* The coordinator answered with an error.                                 *)
CallRefused(a) ==
    /\ Waiting(a)
    /\ \E c \in Answered(a, "error") : calls' = calls \ {c}
    /\ AfterFailure(a)
    /\ UNCHANGED <<coordinator, nodeID, token, stopping, disturbed, faults>>

(* The connection is refused or reset, because the coordinator stopped.    *)
CallBroken(a) ==
    /\ Waiting(a)
    /\ ~up \/ Pending(a) = {}
    /\ calls' = calls \ Pending(a)
    /\ AfterFailure(a)
    /\ UNCHANGED <<coordinator, nodeID, token, stopping, disturbed, faults>>

(* The exchange is lost, or the client's 10 s are over: whatever the       *)
(* coordinator has not finished with it may still finish.                  *)
GiveUp(a) ==
    /\ \/ calls' = calls \ Pending(a)
       \/ /\ \E c \in Pending(a) : c.stage \in {"sent", "added"}
          /\ calls' = (calls \ Pending(a)) \cup
                      {[c EXCEPT !.abandoned = TRUE] : c \in Pending(a)}
    /\ disturbed' = disturbed \cup {a}
    /\ faults' = faults + 1

CallTimesOut(a) ==
    /\ faults < MaxFaults
    /\ Waiting(a) /\ Pending(a) # {}
    /\ GiveUp(a)
    /\ AfterFailure(a)
    /\ UNCHANGED <<coordinator, nodeID, token, stopping>>

(* Shutdown closes stopCh.                                                 *)
Stop(a) ==
    /\ InLoop(a) /\ a \notin stopping
    /\ stopping' = stopping \cup {a}
    /\ UNCHANGED <<coordinator, pc, nodeID, token, fails, disturbed, calls, faults>>

(* Mutant of Leave: the select on the ticker has no case for stopCh.       *)
LeaveFromBackoffOnly(a) ==
    /\ a \in stopping /\ pc[a] = "backoff"
    /\ Goto(a, "leaving")
    /\ Send(a, "deregister", nodeID[a], token[a])
    /\ UNCHANGED <<coordinator, nodeID, token, fails, stopping, disturbed, faults>>

(* The loop ends where it selects on stopCh, and Shutdown, which waited    *)
(* for that, deregisters.                                                  *)
Leave(a) ==
    /\ a \in stopping /\ pc[a] \in {"loop", "backoff"}
    /\ Goto(a, "leaving")
    /\ Send(a, "deregister", nodeID[a], token[a])
    /\ UNCHANGED <<coordinator, nodeID, token, fails, stopping, disturbed, faults>>

Left(a) ==
    /\ pc[a] = "leaving"
    /\ \E c \in Answered(a, "ok") : calls' = calls \ {c}
    /\ Goto(a, "left")
    /\ UNCHANGED <<coordinator, nodeID, token, fails, stopping, disturbed, faults>>

(* The process dies; a later Start is a new process with nothing of it.    *)
AgentCrash(a) ==
    /\ faults < MaxFaults
    /\ InLoop(a) \/ Waiting(a)
    /\ GiveUp(a)
    /\ Goto(a, "off")
    /\ nodeID' = [nodeID EXCEPT ![a] = NoId]
    /\ token' = [token EXCEPT ![a] = Admin]
    /\ fails' = [fails EXCEPT ![a] = 0]
    /\ stopping' = stopping \ {a}
    /\ UNCHANGED coordinator

-----------------------------------------------------------------------------
AgentStep(a) ==
    \/ Registered(a) \/ Tick(a) \/ HeartbeatDone(a) \/ Reconnect(a)
    \/ CallRefused(a) \/ CallBroken(a) \/ Left(a)

Next ==
    \/ \E c \in calls : Serve(c)
    \/ \E id \in DOMAIN nodes : MarkOffline(id) \/ OperatorRemove(id)
    \/ CoordinatorStops \/ CoordinatorStarts
    \/ \E a \in Agents :
         \/ AgentStep(a) \/ Leave(a)
         \/ Start(a) \/ Stop(a) \/ CallTimesOut(a) \/ AgentCrash(a)

(* The server works on every request it has; the agent's loop goes on;     *)
(* select chooses stopCh at some time if it is offered again and again;    *)
(* somebody restarts the coordinator.                                      *)
Fairness ==
    /\ WF_vars(\E c \in calls : c.abandoned /\ Serve(c))
    /\ WF_vars(CoordinatorStarts)
    /\ \A a \in Agents :
         /\ WF_vars(\E c \in Pending(a) : Serve(c))
         /\ WF_vars(AgentStep(a))
         /\ SF_vars(Leave(a))

Spec == Init /\ [][Next]_vars
FairSpec == Spec /\ Fairness

-----------------------------------------------------------------------------
(* An agent that holds a token of its own holds the one the coordinator    *)
(* will send it, for as long as the coordinator knows the node: whoever    *)
(* has been told an id can be forwarded to, whatever the order of the two  *)
(* locked sections of handleRegister, other agents and restarts.           *)
HolderReachable ==
    \A a \in Agents :
        token[a] # Admin /\ Exists(nodeID[a])
            => GetNodeToken(nodeID[a], Admin) = token[a]

(* A heartbeat or a deregistration only ever reaches the entry of its own  *)
(* sender, also after the coordinator has forgotten everybody and others   *)
(* have registered first.                                                  *)
NoImpersonation ==
    /\ \A a \in Agents : Exists(nodeID[a]) => nodes[nodeID[a]].owner = a
    /\ \A c \in calls : Exists(c.id) => nodes[c.id].owner = c.from

(* A node that a DELETE has removed never comes back under that id, however *)
(* late its last heartbeats and registrations are worked on.               *)
RemovedStaysRemoved == \A id \in removed : ~Exists(id)

(* Entries nobody will ever refresh come from crashes and lost or slow     *)
(* exchanges only: an agent that has had none of these owns at most the    *)
(* entry it beats for (or is being told about), and none after a graceful  *)
(* shutdown, also when the coordinator restarted or an operator removed it.*)
BeingTold(a, id) == \E c \in Pending(a) : c.kind = "register" /\ c.id = id
NoGhosts ==
    \A id \in DOMAIN nodes :
        LET a == nodes[id].owner
        IN  a \notin disturbed =>
                pc[a] # "left" /\ (nodeID[a] = id \/ BeingTold(a, id))

(* design-zh.md, section 2.7: the per-node token is what the coordinator   *)
(* forwards messages with.  So an agent whose heartbeats succeed and that  *)
(* the coordinator shows as online accepts the token the coordinator sends *)
(* (Handler.requireAuth compares it with Agent.token; an empty one is no   *)
(* check at all).                                                          *)
HandlerAccepts(a) ==
    \/ ~Secured /\ token[a] = Admin
    \/ nodeID[a] \in DOMAIN nodeTokens /\ nodeTokens[nodeID[a]] = token[a]
OnlineNodeAccepts ==
    \A a \in Agents :
        (/\ pc[a] = "loop" /\ fails[a] = 0
         /\ Exists(nodeID[a]) /\ nodes[nodeID[a]].status = "online")
            => HandlerAccepts(a)

(* An agent that has never crashed or given up on an exchange accepts what *)
(* the coordinator sends it, in every phase of its loop in which it has    *)
(* registered and the coordinator knows it: after any number of restarts,  *)
(* removals and reconnections, its own and those of others.                *)
UndisturbedAccepts ==
    \A a \in Agents \ disturbed :
        InLoop(a) /\ Exists(nodeID[a]) /\ pc[a] # "rejoining" => HandlerAccepts(a)

(* design-zh.md, section 2.5: a node in its heartbeat loop is online again *)
(* eventually, after any restart of the coordinator, removal, loss or      *)
(* false alarm of the health checker, unless it is told to stop or dies.   *)
Rejoins ==
    \A a \in Agents :
        InLoop(a) ~> \/ Exists(nodeID[a]) /\ nodes[nodeID[a]].status = "online"
                    \/ a \in stopping
                    \/ ~InLoop(a)

(* Shutdown ends: the loop gets out of whatever it waits for.              *)
ShutdownEnds == \A a \in Agents : a \in stopping ~> a \notin stopping \/ pc[a] = "left"
=============================================================================
