------------------------------ MODULE Forwarding -----------------------------
(***************************************************************************)
(* The way of one message: handleRouteAuto and handleRouteToNode in        *)
(* internal/coordinator/api.go, Route in router.go, ForwardMessage in      *)
(* forwarder.go, and handleMessage of the node in internal/node/handler.go *)
(* with the time its gateway takes.                                        *)
(*                                                                         *)
(* The handler reads rules, nodes and token one after the other, each      *)
(* under a lock of its own, and other requests change them in between.     *)
(* Messages meet nowhere else, so one is enough.  Every attempt to send it *)
(* is a call, which the node may go on with when the coordinator has given *)
(* up on it.                                                               *)
(*                                                                         *)
(* The node's gateway has a timeout for its answer, after 10 s to dial and *)
(* 15 s for the handshake when there is no connection yet; GatewayTimeout  *)
(* is all of that.                                                         *)
(***************************************************************************)
EXTENDS Registry, Routing

CONSTANTS
    Nodes,          \* node ids
    Shapes,         \* the rules clients may add
    MaxRules,       \* bound on their number
    MaxAttempts,    \* len(retryBackoffs) + 1
    ForwardTimeout, \* the forwarder's client (180 s)
    GatewayTimeout, \* the node's gateway client (10 + 15 + 120 s)
    WriteTimeout,   \* the coordinator's server, from the request on (30 s)
    MaxChanges,     \* bound on changes by others while the message is handled
    MaxFaults       \* bound on connections lost and nodes that hang

ASSUME ForwardingAssumption ==
    /\ {MaxAttempts, ForwardTimeout, GatewayTimeout, WriteTimeout} \subseteq Nat \ {0}
    /\ {MaxRules, MaxChanges, MaxFaults} \subseteq Nat
    /\ Nobody \notin Nodes
    /\ IsFiniteSet(Nodes)
    /\ Shapes \subseteq Rule /\ \A rule \in Shapes : ValidRule(rule)

VARIABLES
    up,         \* nodes whose process listens
    now,        \* the clock, from the arrival of the message
    pc,         \* where the handler is
    target,     \* Message.TargetNode, or Nobody
    rules,      \* Route's copy of the rules, until it has chosen
    node,       \* the node chosen
    token,      \* the token read for it
    calls,      \* the attempts so far, at the node
    sentAt,     \* when the last one was sent
    outcome,    \* what the client gets
    hung,       \* the node chosen hangs: it takes calls and never ends them
    settling,   \* nodes that have not got the answer to their registration
    moved,      \* history: nodes that registered or left meanwhile
    changes,    \* history: changes by others
    faults      \* history: faults

mesh    == <<nodes, nodeTokens, up, settling, moved, changes>>
handler == <<pc, target, rules, node, token, sentAt, outcome>>
vars    == <<mesh, handler, calls, now, hung, faults>>

(* A call at the node, and when its gateway began to work on it.           *)
Call == [phase : {"sent", "working", "ok", "echo", "refused", "lost", "cancelled"},
         at : 0..(MaxAttempts * ForwardTimeout)]

TypeOK ==
    /\ DOMAIN nodes \subseteq Nodes
    /\ \A n \in DOMAIN nodes : nodes[n] \in Entry(Nodes, {0})
    /\ DOMAIN nodeTokens \subseteq Nodes
    /\ \A n \in DOMAIN nodeTokens : nodeTokens[n] = n
    /\ rules \in Seq(Shapes) /\ Len(rules) <= MaxRules
    /\ up \subseteq Nodes
    /\ now \in 0..(MaxAttempts * ForwardTimeout)
    /\ pc \in {"routing", "failing", "chosen", "sending", "backoff", "done"}
    /\ target \in Nodes \cup {Nobody} /\ node \in Nodes \cup {Nobody}
    /\ token \in Nodes \cup {Nobody}
    /\ calls \in Seq(Call) /\ Len(calls) <= MaxAttempts
    /\ sentAt \in Nat
    /\ outcome \in {"none", "answered", "echoed", "failed", "left",
                    "cut", "unroutable", "notFound", "offline"}
    /\ hung \in BOOLEAN
    /\ settling \subseteq Nodes /\ moved \subseteq Nodes
    /\ changes \in 0..MaxChanges /\ faults \in 0..MaxFaults

RuleLists == UNION {[1..n -> Shapes] : n \in 0..MaxRules}

(* A message arrives in any mesh: some nodes are registered, with their    *)
(* tokens, and listen.  Rules are read once, so that others change them    *)
(* before or too late: any list.  A targeted message consults none.        *)
Init ==
    /\ \E S \in SUBSET Nodes :
          /\ \E status \in [S -> Status] :
                nodes = [n \in S |-> [owner |-> n, status |-> status[n], last |-> 0]]
          /\ nodeTokens = [n \in S |-> n]
          /\ up = S
    /\ target \in Nodes \cup {Nobody}
    /\ IF target = Nobody THEN rules \in RuleLists ELSE rules = <<>>
    /\ now = 0 /\ sentAt = 0
    /\ pc = "routing"
    /\ calls = <<>>
    /\ node = Nobody /\ token = Nobody
    /\ outcome = "none" /\ hung = FALSE
    /\ settling = {} /\ moved = {} /\ changes = 0 /\ faults = 0

-----------------------------------------------------------------------------
(* The handler.                                                            *)

(* What writeJSON is given does not leave the server any more when the     *)
(* WriteTimeout is over: work that was done is then done for nobody.       *)
Answer(o) ==
    /\ pc' = "done"
    /\ outcome' = IF now < WriteTimeout THEN o ELSE "cut"

Online == {n \in DOMAIN nodes : nodes[n].status # "offline"}

(* Route: the list of nodes, in the order of a map, and the choice.        *)
Choose ==
    /\ pc = "routing" /\ target = Nobody
    /\ rules' = <<>>
    /\ IF Online = {}
       THEN Answer("unroutable") /\ UNCHANGED node
       ELSE /\ \E list \in SetToSeqs(DOMAIN nodes) : node' = Route(rules, list, nodes)
            /\ pc' = "chosen"
            /\ UNCHANGED outcome
    /\ UNCHANGED <<mesh, target, token, sentAt, calls, now, hung, faults>>

(* Route with a target node.                                               *)
GetTarget ==
    /\ pc = "routing" /\ target # Nobody
    /\ IF target \in Online THEN node' = target /\ pc' = "chosen"
                            ELSE UNCHANGED node /\ pc' = "failing"
    /\ UNCHANGED <<mesh, target, rules, token, sentAt, outcome, calls, now, hung, faults>>

(* The handler looks again to find the status code.                        *)
Explain ==
    /\ pc = "failing"
    /\ Answer(IF ~Exists(target) THEN "notFound"
              ELSE IF target \notin Online THEN "offline" ELSE "unroutable")
    /\ UNCHANGED <<mesh, target, rules, node, token, sentAt, calls, now, hung, faults>>

SendCall ==
    /\ calls' = Append(calls, [phase |-> "sent", at |-> 0])
    /\ sentAt' = now
    /\ pc' = "sending"

(* Mutants of ReadToken: the token of the node that was asked for; or the  *)
(* handler waits for a token.                                              *)
ReadTokenOfTarget ==
    /\ pc = "chosen"
    /\ token' = GetNodeToken(target, Nobody)
    /\ SendCall
    /\ UNCHANGED <<mesh, target, rules, node, outcome, now, hung, faults>>

ReadTokenWaits ==
    /\ pc = "chosen" /\ node \in DOMAIN nodeTokens
    /\ token' = nodeTokens[node]
    /\ SendCall
    /\ UNCHANGED <<mesh, target, rules, node, outcome, now, hung, faults>>

ReadToken ==
    /\ pc = "chosen"
    /\ token' = GetNodeToken(node, Nobody)
    /\ SendCall
    /\ UNCHANGED <<mesh, target, rules, node, outcome, now, hung, faults>>

(* doForward gets a response.  Only a network error is transient here: a   *)
(* node answers neither 502 nor 503.                                       *)
CallAnswered ==
    /\ pc = "sending"
    /\ \/ Last(calls).phase = "ok" /\ Answer("answered")
       \/ Last(calls).phase = "echo" /\ Answer("echoed")
       \/ Last(calls).phase = "refused" /\ Answer("failed")
    /\ UNCHANGED <<mesh, target, rules, node, token, sentAt, calls, now, hung, faults>>

(* Mutant of Expired: the client gives up while a gateway may still answer.*)
ExpiredEarly == now - sentAt >= GatewayTimeout - 1

Expired == now - sentAt >= ForwardTimeout

(* Mutant of Retry: one attempt more.                                      *)
RetryOnceMore ==
    IF Len(calls) <= MaxAttempts
    THEN pc' = "backoff" /\ UNCHANGED outcome ELSE Answer("failed")

(* The attempt failed: backoff, or the end.                                *)
Retry ==
    IF Len(calls) < MaxAttempts
    THEN pc' = "backoff" /\ UNCHANGED outcome ELSE Answer("failed")

(* A network error: refused connection, timeout, or a connection lost      *)
(* while the node works.                                                   *)
CallFails ==
    /\ pc = "sending"
    /\ Retry
    /\ \/ (Last(calls).phase = "lost" \/ Expired) /\ UNCHANGED faults
       \/ /\ Last(calls).phase \in {"sent", "working"}
          /\ faults < MaxFaults /\ faults' = faults + 1
    /\ UNCHANGED <<mesh, target, rules, node, token, sentAt, calls, now, hung>>

(* After 100, 200 or 400 ms, which is no time on this clock.               *)
Resend ==
    /\ pc = "backoff"
    /\ SendCall
    /\ UNCHANGED <<mesh, target, rules, node, token, outcome, now, hung, faults>>

(* The request's context ends: the client has gone.                        *)
ClientLeaves ==
    /\ pc \in {"sending", "backoff"}
    /\ pc' = "done" /\ outcome' = "left"
    /\ UNCHANGED <<mesh, target, rules, node, token, sentAt, calls, now, hung, faults>>

-----------------------------------------------------------------------------
(* The node: requireAuth and handleMessage.                                *)

Phase(i, phase) ==
    calls' = [calls EXCEPT ![i] = [phase |-> phase,
                                   at |-> IF phase = "working" THEN now ELSE 0]]

(* The token of a process is its id, once it is settled.                   *)
Receive(i) ==
    /\ calls[i].phase = "sent"
    /\ Phase(i, IF node \notin up THEN "lost"
                ELSE IF token # node \/ node \in settling THEN "refused" ELSE "working")
    /\ UNCHANGED <<mesh, handler, now, hung, faults>>

(* The gateway answers, or does not: then the node echoes the message.     *)
GatewayEnds(i) ==
    /\ calls[i].phase = "working" /\ ~hung
    /\ \E phase \in {"ok", "echo"} : Phase(i, phase)
    /\ UNCHANGED <<mesh, handler, now, hung, faults>>

(* The coordinator has closed the connection: SendMessage's context ends.  *)
Cancel(i) ==
    /\ calls[i].phase = "working" /\ ~hung
    /\ i < Len(calls) \/ pc # "sending"
    /\ Phase(i, "cancelled")
    /\ UNCHANGED <<mesh, handler, now, hung, faults>>

Hang ==
    /\ pc = "sending" /\ ~hung
    /\ hung' = TRUE
    /\ faults < MaxFaults /\ faults' = faults + 1
    /\ UNCHANGED <<mesh, handler, calls, now>>

(* Time passes while the coordinator waits for a node and nothing is due.  *)
Tick ==
    /\ pc = "sending" /\ ~Expired
    /\ Last(calls).phase = "working"
    /\ hung \/ \A i \in DOMAIN calls : calls[i].phase = "working" => now - calls[i].at < GatewayTimeout
    /\ now' = now + 1
    /\ UNCHANGED <<mesh, handler, calls, hung, faults>>

-----------------------------------------------------------------------------
(* Others: registrations (see Membership), heartbeats and the health       *)
(* checker, deregistrations and removals.  Once a node is chosen, nobody    *)
(* asks for the others.                                                    *)

OthersMay(n) ==
    /\ pc # "done" /\ node \in {n, Nobody}
    /\ changes < MaxChanges /\ changes' = changes + 1
    /\ UNCHANGED <<handler, calls, now, hung, faults>>

(* Its handler listens already, but with the token of the mesh.            *)
Join(n) ==
    /\ OthersMay(n)
    /\ n \notin moved
    /\ AddNode(n, n, 0)
    /\ moved' = moved \cup {n}
    /\ up' = up \cup {n}
    /\ settling' = settling \cup {n}

SetToken(n) ==
    /\ n \in settling /\ Exists(n) /\ n \notin DOMAIN nodeTokens
    /\ SetNodeToken(n, n)
    /\ UNCHANGED <<up, settling, moved, changes, handler, calls, now, hung, faults>>

(* The node gets the answer to its registration.                           *)
Settle(n) ==
    /\ n \in settling /\ n \in DOMAIN nodeTokens
    /\ settling' = settling \ {n}
    /\ UNCHANGED <<nodes, nodeTokens, up, moved, changes, handler, calls, now, hung, faults>>

ChangeStatus(n) ==
    /\ OthersMay(n)
    /\ \E status \in Status : UpdateStatus(n, status)
    /\ UNCHANGED <<up, settling, moved>>

(* A node deregisters, or an operator removes it and its process goes on.  *)
Leave(n) ==
    /\ OthersMay(n)
    /\ RemoveNode(n)
    /\ up' \in {up, up \ {n}}
    /\ moved' = moved \cup {n}
    /\ UNCHANGED settling

Die(n) ==
    /\ OthersMay(n)
    /\ n \in up /\ up' = up \ {n}
    /\ UNCHANGED <<nodes, nodeTokens, settling, moved>>

-----------------------------------------------------------------------------
Handle ==
    \/ Choose \/ GetTarget \/ Explain
    \/ ReadToken \/ CallAnswered \/ CallFails \/ Resend

NodeWorks == \E i \in DOMAIN calls : Receive(i) \/ GatewayEnds(i) \/ Cancel(i)

Others ==
    \E n \in Nodes : Join(n) \/ SetToken(n) \/ Settle(n) \/ ChangeStatus(n) \/ Leave(n) \/ Die(n)

Next ==
    \/ Handle \/ ClientLeaves \/ NodeWorks \/ Tick \/ Others \/ Hang

Spec == Init /\ [][Next]_vars

(* The handler goes on, time passes, and a process that has not hung works.*)
FairSpec == Spec /\ WF_vars(Handle) /\ WF_vars(NodeWorks) /\ WF_vars(Tick)

-----------------------------------------------------------------------------
(* The node chosen is one the rules admit, whatever order the nodes are    *)
(* listed in; one that is offline never is.                                *)
RoutedByRules ==
    [][pc = "routing" /\ target = Nobody /\ pc' = "chosen"
            => node' \in Admissible(rules, nodes)]_vars

(* Without a fault a message is worked on at most once: the timeouts nest, *)
(* so a retry only follows a call that reached nobody.                     *)
WorkedOnOnce ==
    faults = 0 => Cardinality({i \in DOMAIN calls :
                       calls[i].phase \notin {"sent", "lost", "refused"}}) <= 1

(* A node refuses a message only if it registered while the message was on *)
(* its way, and so was chosen before it had its token, or was removed.     *)
RefusedOnlyInTransition ==
    \A i \in DOMAIN calls :
        calls[i].phase = "refused" /\ Exists(node) => node \in moved

(* The handler of every message ends, though nodes hang.                   *)
Decided == <>(pc = "done")
=============================================================================
