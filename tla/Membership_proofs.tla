-------------------------- MODULE Membership_proofs --------------------------
(***************************************************************************)
(* What holds of Membership for every number of agents, of registrations   *)
(* and of faults, whatever the failure limit, in an open mesh and in a     *)
(* secured one.                                                            *)
(***************************************************************************)
EXTENDS Membership, TLAPS

-----------------------------------------------------------------------------
(* The inductive invariant.                                                *)

(* Ids are drawn in order: whatever carries an id carries one drawn before.*)
Drawn ==
    /\ \A id \in DOMAIN nodes : id < next
    /\ \A id \in removed : id < next
    /\ \A a \in Agents : nodeID[a] < next
    /\ \A c \in calls : c.id < next

(* An agent waits for one answer at most, and for the kind it asked for.   *)
OneCall ==
    /\ \A c \in calls : ~c.abandoned =>
         \/ c.kind = "register" /\ pc[c.from] \in {"joining", "rejoining"}
         \/ c.kind = "heartbeat" /\ pc[c.from] = "beating"
         \/ c.kind = "deregister" /\ pc[c.from] = "leaving"
    /\ \A c, d \in calls : ~c.abandoned /\ ~d.abandoned /\ c.from = d.from => c = d

(* The token of a node is the one drawn with its id; whoever has been told *)
(* of it, or is about to be, finds it in the registry.                     *)
Known(id) == Exists(id) => id \in DOMAIN nodeTokens
TokenInv ==
    /\ \A id \in DOMAIN nodeTokens : nodeTokens[id] = id
    /\ \A a \in Agents : token[a] # Admin => token[a] = nodeID[a] /\ Known(nodeID[a])
    /\ \A c \in calls : c.kind = "register" /\ c.stage = "ok" =>
         c.id # NoId /\ Known(c.id)
    /\ \A c \in calls : c.stage = "added" => c.kind = "register" /\ c.id # NoId

Inv == TypeOK /\ Drawn /\ OneCall /\ TokenInv /\ NoImpersonation /\ RemovedStaysRemoved

-----------------------------------------------------------------------------
LEMMA NaturalIds ==
    /\ Ids \subseteq Nat /\ NoId \in Nat /\ NoId \notin Ids /\ Admin = NoId
    /\ Token = {NoId} \cup Ids /\ MaxIds \in Nat /\ MaxFaults \in Nat /\ FailLimit \in Nat
    /\ FailLimit > 0
  BY MembershipAssumption DEF Ids, NoId, Admin, Token

LEMMA InvInit == Init => Inv
  <1> SUFFICES ASSUME Init PROVE Inv
    OBVIOUS
  <1>1. /\ DOMAIN nodes = {} /\ DOMAIN nodeTokens = {} /\ calls = {}
    BY DEF Init, NewRegistry, EmptyMap
  <1>2. TypeOK
    BY <1>1, NaturalIds DEF Init, TypeOK, Phases
  <1>3. Drawn /\ OneCall /\ TokenInv /\ NoImpersonation /\ RemovedStaysRemoved
    BY <1>1, NaturalIds DEF Init, Drawn, OneCall, TokenInv, NoImpersonation,
       RemovedStaysRemoved, Exists, NoId, Admin
  <1>4. QED
    BY <1>2, <1>3 DEF Inv

-----------------------------------------------------------------------------
(* Steps of the coordinator.                                               *)

(* The calls after an answer: one has moved on, unless it is abandoned.    *)
LEMMA AnswerCalls ==
    ASSUME Inv, NEW c \in calls, NEW outcome \in {"ok", "error"}, NEW id \in {NoId} \cup Ids,
           Answer(c, outcome, id)
    PROVE  /\ calls' \subseteq Call
           /\ \A d \in calls' : d \notin calls =>
                /\ d.from = c.from /\ d.kind = c.kind /\ d.id = id
                /\ d.stage = outcome /\ ~d.abandoned
  <1> DEFINE e == [c EXCEPT !.stage = outcome, !.id = id]
  <1>1. c \in Call /\ calls \subseteq Call
    BY DEF Inv, TypeOK
  <1>2. /\ e \in Call /\ e.from = c.from /\ e.kind = c.kind /\ e.id = id
        /\ e.stage = outcome /\ e.abandoned = c.abandoned
    BY <1>1 DEF Call
  <1>3. calls' \subseteq calls \cup {e} /\ (e \in calls' => e \in calls \/ ~c.abandoned)
    BY DEF Answer
  <1> HIDE DEF e
  <1>4. QED
    BY <1>1, <1>2, <1>3

LEMMA AnswerOneCall ==
    ASSUME Inv, NEW c \in calls, NEW outcome \in {"ok", "error"}, NEW id \in {NoId} \cup Ids,
           Answer(c, outcome, id), UNCHANGED pc
    PROVE  OneCall'
  <1> DEFINE e == [c EXCEPT !.stage = outcome, !.id = id]
  <1>1. e.from = c.from /\ e.kind = c.kind /\ e.abandoned = c.abandoned
    BY DEF Inv, TypeOK, Call
  <1>2. calls' \subseteq (calls \ {c}) \cup {e} /\ (e \in calls' => e \in calls \ {c} \/ ~c.abandoned)
    BY DEF Answer
  <1> HIDE DEF e
  <1>3. QED
    BY <1>1, <1>2 DEF Inv, OneCall

LEMMA RegisterAddStep ==
    ASSUME Inv, NEW c \in calls, RegisterAdd(c) PROVE Inv'
  <1> DEFINE e == [c EXCEPT !.stage = "added", !.id = next]
  <1>1. /\ next \in Ids /\ next \in Nat /\ next' = next + 1 /\ next # NoId
        /\ c.kind = "register" /\ UNCHANGED <<up, removed, agent, faults, nodeTokens>>
        /\ DOMAIN nodes' = DOMAIN nodes \cup {next}
        /\ nodes'[next] = [owner |-> c.from, status |-> "online", last |-> 0]
        /\ \A id \in DOMAIN nodes : id # next /\ nodes'[id] = nodes[id]
        /\ calls' = (calls \ {c}) \cup {e}
    BY NaturalIds DEF RegisterAdd, Handles, AddNode, Put, Exists, Inv, TypeOK, Ids, Drawn
  <1>2. /\ e \in Call /\ e.from = c.from /\ e.kind = c.kind /\ e.abandoned = c.abandoned
        /\ e.id = next /\ e.stage = "added"
    BY <1>1 DEF Inv, TypeOK, Call
  <1> HIDE DEF e
  <1>3. TypeOK'
    <2>1. nodes'[next] \in Entry(Agents, {0})
      BY <1>1 DEF Inv, TypeOK, Call, Entry, Status
    <2>2. next' \in 1..(MaxIds + 1)
      BY <1>1, NaturalIds DEF Ids
    <2>3. QED
      BY <1>1, <1>2, <2>1, <2>2 DEF Inv, TypeOK, agent
  <1>4. Drawn'
    <2>1. /\ \A id \in DOMAIN nodes \cup removed : id \in Nat
          /\ \A a \in Agents : nodeID[a] \in Nat
          /\ \A d \in calls : d.id \in Nat
      BY NaturalIds DEF Inv, TypeOK, Call
    <2>2. \A n \in Nat : n < next => n < next'
      BY <1>1
    <2>3. next < next'
      BY <1>1
    <2>4. QED
      BY <1>1, <1>2, <2>1, <2>2, <2>3 DEF Inv, Drawn, agent
  <1>5. OneCall'
    BY <1>1, <1>2 DEF Inv, OneCall, agent
  <1>6. next \notin removed /\ (\A a \in Agents : nodeID[a] # next) /\ (\A d \in calls : d.id # next)
    BY <1>1 DEF Inv, Drawn
  <1>7. TokenInv'
    BY <1>1, <1>2, <1>6 DEF Inv, TokenInv, Known, Exists, agent
  <1>8. NoImpersonation'
    <2>1. nodes'[next].owner = c.from
      BY <1>1
    <2>2. QED
      BY <1>1, <1>2, <1>6, <2>1 DEF Inv, NoImpersonation, Exists, agent
  <1>9. RemovedStaysRemoved'
    BY <1>1, <1>6 DEF Inv, RemovedStaysRemoved, Exists
  <1>10. QED
    BY <1>3, <1>4, <1>5, <1>7, <1>8, <1>9 DEF Inv

LEMMA RegisterTokenStep ==
    ASSUME Inv, NEW c \in calls, RegisterToken(c) PROVE Inv'
  <1>1. /\ c.id \in Ids /\ c.kind = "register" /\ c.id < next
        /\ UNCHANGED <<up, next, removed, agent, faults, nodes>>
        /\ DOMAIN nodeTokens' = DOMAIN nodeTokens \cup {c.id}
        /\ \A id \in DOMAIN nodeTokens' : nodeTokens'[id] = id
        /\ Answer(c, "ok", c.id)
    BY DEF RegisterToken, SetNodeToken, Put, Inv, TypeOK, TokenInv, Call, Drawn
  <1>2. calls' \subseteq Call /\ OneCall'
    BY <1>1, AnswerCalls, AnswerOneCall DEF agent
  <1>3. \A d \in calls' : d \notin calls =>
             d.from = c.from /\ d.kind = "register" /\ d.id = c.id /\ d.stage = "ok"
    BY <1>1, AnswerCalls
  <1>4. TypeOK'
    BY <1>1, <1>2, NaturalIds DEF Inv, TypeOK, agent
  <1>5. Drawn'
    BY <1>1, <1>3 DEF Inv, Drawn, agent
  <1>6. TokenInv'
    BY <1>1, <1>3, NaturalIds DEF Inv, TokenInv, Known, Exists, agent
  <1>7. NoImpersonation' /\ RemovedStaysRemoved'
    BY <1>1, <1>3 DEF Inv, NoImpersonation, RemovedStaysRemoved, Exists, agent
  <1>8. QED
    BY <1>2, <1>4, <1>5, <1>6, <1>7 DEF Inv

(* A call that is no registration is answered: what the agents wait for    *)
(* stays, and so does everything that speaks of ids.                       *)
LEMMA AnswerStep ==
    ASSUME Inv, NEW c \in calls, NEW outcome \in {"ok", "error"},
           Answer(c, outcome, c.id), c.kind # "register" \/ outcome = "error",
           UNCHANGED <<agent, faults, next>>,
           DOMAIN nodes' \subseteq DOMAIN nodes,
           \A id \in DOMAIN nodes' : nodes'[id].owner = nodes[id].owner,
           DOMAIN nodeTokens' \subseteq DOMAIN nodeTokens,
           \A id \in DOMAIN nodeTokens' : nodeTokens'[id] = nodeTokens[id],
           \A id \in DOMAIN nodes' : id \in DOMAIN nodeTokens => id \in DOMAIN nodeTokens',
           \A id \in removed' : id < next /\ id \notin DOMAIN nodes'
    PROVE  Drawn' /\ OneCall' /\ TokenInv' /\ NoImpersonation' /\ RemovedStaysRemoved'
  <1>1. /\ c.id \in {NoId} \cup Ids /\ c.id < next
        /\ (Exists(c.id) => nodes[c.id].owner = c.from)
    BY DEF Inv, TypeOK, Call, Drawn, NoImpersonation
  <1>2. \A d \in calls' : d \notin calls =>
             d.from = c.from /\ d.kind = c.kind /\ d.id = c.id /\ d.stage = outcome
    BY <1>1, AnswerCalls
  <1>3. OneCall'
    BY <1>1, AnswerOneCall DEF agent
  <1>4. Drawn'
    BY <1>1, <1>2 DEF Inv, Drawn, agent
  <1>5. TokenInv'
    <2>1. \A id \in {NoId} \cup Ids : Known(id) => Known(id)'
      BY DEF Known, Exists
    <2>2. \A a \in Agents : nodeID[a] \in {NoId} \cup Ids
      BY DEF Inv, TypeOK
    <2>3. \A d \in calls : d.id \in {NoId} \cup Ids
      BY DEF Inv, TypeOK, Call
    <2>4. QED
      BY <1>2, <2>1, <2>2, <2>3 DEF Inv, TokenInv, agent, Known, Exists
  <1>6. NoImpersonation'
    BY <1>1, <1>2 DEF Inv, NoImpersonation, Exists, agent
  <1>7. RemovedStaysRemoved'
    BY DEF RemovedStaysRemoved, Exists
  <1>8. QED
    BY <1>3, <1>4, <1>5, <1>6, <1>7

LEMMA HeartbeatStep ==
    ASSUME Inv, NEW c \in calls, HandleHeartbeat(c) PROVE Inv'
  <1>1. /\ c.kind = "heartbeat" /\ c.id \in {NoId} \cup Ids
        /\ UNCHANGED <<up, next, removed, agent, faults, nodeTokens>>
    BY DEF HandleHeartbeat, Handles, RecordHeartbeat, Inv, TypeOK, Call
  <1>2. /\ DOMAIN nodes' = DOMAIN nodes
        /\ \A id \in DOMAIN nodes : /\ nodes'[id].owner = nodes[id].owner
                                    /\ nodes'[id] \in Entry(Agents, {0})
    BY DEF HandleHeartbeat, RecordHeartbeat, Inv, TypeOK, Entry, Status
  <1>3. PICK outcome \in {"ok", "error"} : Answer(c, outcome, c.id)
    BY DEF HandleHeartbeat
  <1>4. \A id \in removed' : id < next /\ id \notin DOMAIN nodes'
    BY <1>1, <1>2 DEF Inv, Drawn, RemovedStaysRemoved, Exists
  <1>5. Drawn' /\ OneCall' /\ TokenInv' /\ NoImpersonation' /\ RemovedStaysRemoved'
    BY <1>1, <1>2, <1>3, <1>4, AnswerStep
  <1>6. TypeOK'
    BY <1>1, <1>2, <1>3, AnswerCalls DEF Inv, TypeOK, agent
  <1>7. QED
    BY <1>5, <1>6 DEF Inv

(* A node is removed, along with its token.                                *)
LEMMA Removal ==
    ASSUME Inv, NEW id, RemoveNode(id)
    PROVE  /\ id \in Ids /\ id < next
           /\ DOMAIN nodes' = DOMAIN nodes \ {id}
           /\ \A i \in DOMAIN nodes' : nodes'[i] = nodes[i]
           /\ DOMAIN nodeTokens' = DOMAIN nodeTokens \ {id}
           /\ \A i \in DOMAIN nodeTokens' : nodeTokens'[i] = nodeTokens[i]
           /\ \A i \in removed \cup {id} : i < next /\ i \notin DOMAIN nodes'
  BY DEF RemoveNode, Delete, Exists, Inv, TypeOK, Drawn, RemovedStaysRemoved

LEMMA DeregisterStep ==
    ASSUME Inv, NEW c \in calls, HandleDeregister(c) PROVE Inv'
  <1>1. /\ c.kind = "deregister" /\ c.id \in {NoId} \cup Ids
        /\ UNCHANGED <<up, next, agent, faults>>
    BY DEF HandleDeregister, Handles, Inv, TypeOK, Call
  <1>2. CASE RemoveNode(c.id) /\ Answer(c, "ok", c.id) /\ removed' = removed \cup {c.id}
    <2>1. Drawn' /\ OneCall' /\ TokenInv' /\ NoImpersonation' /\ RemovedStaysRemoved'
      BY <1>1, <1>2, Removal, AnswerStep
    <2>2. calls' \subseteq Call
      BY <1>1, <1>2, AnswerCalls
    <2>3. /\ c.id \in Ids /\ DOMAIN nodes' = DOMAIN nodes \ {c.id}
          /\ \A i \in DOMAIN nodes' : nodes'[i] = nodes[i]
          /\ DOMAIN nodeTokens' = DOMAIN nodeTokens \ {c.id}
          /\ \A i \in DOMAIN nodeTokens' : nodeTokens'[i] = nodeTokens[i]
      BY <1>2, Removal
    <2>4. TypeOK'
      BY <1>1, <1>2, <2>2, <2>3 DEF Inv, TypeOK, agent
    <2>5. QED
      BY <2>1, <2>4 DEF Inv
  <1>3. CASE Answer(c, "error", c.id) /\ UNCHANGED <<nodes, nodeTokens, removed>>
    <2>1. \A id \in removed' : id < next /\ id \notin DOMAIN nodes'
      BY <1>3 DEF Inv, Drawn, RemovedStaysRemoved, Exists
    <2>2. Drawn' /\ OneCall' /\ TokenInv' /\ NoImpersonation' /\ RemovedStaysRemoved'
      BY <1>1, <1>3, <2>1, AnswerStep
    <2>3. TypeOK'
      BY <1>1, <1>3, AnswerCalls DEF Inv, TypeOK, agent
    <2>4. QED
      BY <2>2, <2>3 DEF Inv
  <1>4. QED
    BY <1>2, <1>3 DEF HandleDeregister

LEMMA RefuseStep ==
    ASSUME Inv, NEW c \in calls, Refuse(c) PROVE Inv'
  <1>1. Answer(c, "error", c.id) /\ UNCHANGED <<coordinator, agent, faults>>
        /\ c.id \in {NoId} \cup Ids
    BY DEF Refuse, Inv, TypeOK, Call
  <1>2. \A id \in removed' : id < next /\ id \notin DOMAIN nodes'
    BY <1>1 DEF Inv, Drawn, RemovedStaysRemoved, Exists, coordinator
  <1>3. Drawn' /\ OneCall' /\ TokenInv' /\ NoImpersonation' /\ RemovedStaysRemoved'
    BY <1>1, <1>2, AnswerStep DEF coordinator
  <1>4. TypeOK'
    BY <1>1, AnswerCalls DEF Inv, TypeOK, agent, coordinator
  <1>5. QED
    BY <1>3, <1>4 DEF Inv

(* Steps of the coordinator that answer nobody.                            *)
LEMMA CoordinatorStep ==
    ASSUME Inv,
           \/ \E id \in DOMAIN nodes : MarkOffline(id) \/ OperatorRemove(id)
           \/ CoordinatorStops \/ CoordinatorStarts \/ UNCHANGED vars
    PROVE  Inv'
  <1> USE DEF Inv, Drawn, OneCall, TokenInv, NoImpersonation, RemovedStaysRemoved,
              Known, Exists, agent
  <1>1. ASSUME NEW id \in DOMAIN nodes, MarkOffline(id) PROVE Inv'
    <2>1. /\ DOMAIN nodes' = DOMAIN nodes
          /\ \A i \in DOMAIN nodes : /\ nodes'[i].owner = nodes[i].owner
                                     /\ nodes'[i] \in Entry(Agents, {0})
      BY <1>1 DEF MarkOffline, UpdateStatus, TypeOK, Entry, Status
    <2>2. UNCHANGED <<up, nodeTokens, next, removed, agent, calls, faults>>
      BY <1>1 DEF MarkOffline, UpdateStatus
    <2>3. TypeOK'
      BY <2>1, <2>2 DEF TypeOK
    <2>4. QED
      BY <2>1, <2>2, <2>3
  <1>2. ASSUME NEW id \in DOMAIN nodes, OperatorRemove(id) PROVE Inv'
    <2>1. /\ RemoveNode(id) /\ removed' = removed \cup {id} /\ faults' \in 0..MaxFaults
          /\ UNCHANGED <<up, next, agent, calls>>
      BY <1>2, NaturalIds DEF OperatorRemove, TypeOK
    <2>2. /\ DOMAIN nodes' = DOMAIN nodes \ {id} /\ id \in Ids
          /\ \A i \in DOMAIN nodes' : nodes'[i] = nodes[i]
          /\ DOMAIN nodeTokens' = DOMAIN nodeTokens \ {id}
          /\ \A i \in DOMAIN nodeTokens' : nodeTokens'[i] = nodeTokens[i]
          /\ \A i \in removed \cup {id} : i < next /\ i \notin DOMAIN nodes'
      BY <2>1, Removal
    <2>3. TypeOK'
      BY <2>1, <2>2 DEF TypeOK
    <2>4. Drawn' /\ OneCall' /\ RemovedStaysRemoved'
      BY <2>1, <2>2
    <2>5. \A i : Known(i) => Known(i)'
      BY <2>2
    <2>6. TokenInv'
      <3> HIDE DEF Known
      <3>1. QED
        BY <2>1, <2>2, <2>5
    <2>7. NoImpersonation'
      BY <2>1, <2>2
    <2>8. QED
      BY <2>3, <2>4, <2>6, <2>7
  <1>3. CASE CoordinatorStops
    <2>1. /\ DOMAIN nodes' = {} /\ DOMAIN nodeTokens' = {} /\ calls' = {}
          /\ up' = FALSE /\ faults' \in 0..MaxFaults /\ UNCHANGED <<next, removed, agent>>
      BY <1>3, NaturalIds DEF CoordinatorStops, EmptyMap, TypeOK
    <2>2. QED
      BY <2>1 DEF TypeOK
  <1>4. CASE CoordinatorStarts
    BY <1>4 DEF CoordinatorStarts, TypeOK
  <1>5. CASE UNCHANGED vars
    BY <1>5 DEF vars, coordinator, TypeOK
  <1>6. QED
    BY <1>1, <1>2, <1>3, <1>4, <1>5

-----------------------------------------------------------------------------
(* Steps of an agent.                                                      *)

(* An agent that waits for nothing sends a request.                        *)
LEMMA SendStep ==
    ASSUME Inv, NEW a \in Agents, pc[a] \in {"off", "loop", "backoff"},
           NEW kind \in {"register", "heartbeat", "deregister"}, NEW phase \in Phases,
           NEW id \in {NoId} \cup Ids, NEW t \in Token, id < next,
           Exists(id) => nodes[id].owner = a,
           \/ kind = "register" /\ phase \in {"joining", "rejoining"}
           \/ kind = "heartbeat" /\ phase = "beating"
           \/ kind = "deregister" /\ phase = "leaving",
           Send(a, kind, id, t), Goto(a, phase),
           token' = token \/ token' = [token EXCEPT ![a] = Admin],
           UNCHANGED <<coordinator, nodeID, fails, stopping, disturbed, faults>>
    PROVE  Inv'
  <1> DEFINE e == [from |-> a, kind |-> kind, id |-> id, token |-> t,
                   stage |-> "sent", abandoned |-> FALSE]
  <1>1. /\ calls' = calls \cup {e} /\ e \in Call
        /\ e.from = a /\ e.kind = kind /\ e.id = id /\ e.stage = "sent" /\ ~e.abandoned
    BY DEF Send, Call
  <1> HIDE DEF e
  <1>2. /\ pc' \in [Agents -> Phases] /\ pc'[a] = phase
        /\ \A b \in Agents : b # a => pc'[b] = pc[b]
        /\ token' \in [Agents -> Token] /\ (\A b \in Agents : token'[b] \in {token[b], Admin})
    BY NaturalIds DEF Goto, Inv, TypeOK
  <1>3. \A d \in calls : d.from = a => d.abandoned
    BY DEF Inv, OneCall
  <1>4. \A d \in calls : d.from \in Agents
    BY DEF Inv, TypeOK, Call
  <1>5. TypeOK'
    BY <1>1, <1>2 DEF Inv, TypeOK, coordinator
  <1>6. Drawn'
    BY <1>1 DEF Inv, Drawn, coordinator
  <1>7. OneCall'
    BY <1>1, <1>2, <1>3, <1>4 DEF Inv, OneCall
  <1>8. TokenInv'
    BY <1>1, <1>2 DEF Inv, TokenInv, Known, Exists, coordinator
  <1>9. NoImpersonation' /\ RemovedStaysRemoved'
    BY <1>1 DEF Inv, NoImpersonation, RemovedStaysRemoved, Exists, coordinator
  <1>10. QED
    BY <1>5, <1>6, <1>7, <1>8, <1>9 DEF Inv

(* An agent has done with its exchange: nothing that is left is waited for *)
(* by it, and what is abandoned is as it was.                              *)
Settled(a) ==
    /\ \A d \in calls' : d.from = a => d.abandoned
    /\ \A d \in calls' : \/ d \in calls
                         \/ d.from = a /\ \E c \in Pending(a) :
                              d = [c EXCEPT !.abandoned = TRUE]

LEMMA SettledStep ==
    ASSUME Inv, NEW a \in Agents, Settled(a), UNCHANGED coordinator,
           pc' \in [Agents -> Phases], \A b \in Agents : b # a => pc'[b] = pc[b],
           nodeID' \in [Agents -> {NoId} \cup Ids],
           \A b \in Agents : b # a => nodeID'[b] = nodeID[b],
           token' \in [Agents -> Token], \A b \in Agents : b # a => token'[b] = token[b],
           fails' \in [Agents -> 0..FailLimit],
           stopping' \subseteq Agents, disturbed' \subseteq Agents, faults' \in 0..MaxFaults,
           nodeID'[a] < next, Exists(nodeID'[a]) => nodes[nodeID'[a]].owner = a,
           token'[a] # Admin => token'[a] = nodeID'[a] /\ Known(nodeID'[a])
    PROVE  Inv'
  <1>1. \A d \in calls' : /\ d \in Call /\ (~d.abandoned => d \in calls)
                          /\ \E c \in calls : /\ d.from = c.from /\ d.kind = c.kind
                                              /\ d.id = c.id /\ d.stage = c.stage
    <2>1. ASSUME NEW d \in calls', d \notin calls
          PROVE  /\ d \in Call /\ d.abandoned
                 /\ \E c \in calls : /\ d.from = c.from /\ d.kind = c.kind
                                     /\ d.id = c.id /\ d.stage = c.stage
      <3>1. PICK c \in Pending(a) : d = [c EXCEPT !.abandoned = TRUE]
        BY <2>1 DEF Settled
      <3>2. c \in calls /\ c \in Call
        BY DEF Pending, Inv, TypeOK
      <3>3. QED
        BY <3>1, <3>2 DEF Call
    <2>2. QED
      BY <2>1 DEF Inv, TypeOK
  <1>2. TypeOK'
    BY <1>1 DEF Inv, TypeOK, coordinator
  <1>3. Drawn'
    BY <1>1 DEF Inv, Drawn, coordinator
  <1>4. OneCall'
    <2>1. \A d \in calls' : ~d.abandoned => d \in calls /\ d.from \in Agents /\ d.from # a
      BY <1>1 DEF Settled, Call
    <2>2. QED
      BY <2>1 DEF Inv, OneCall
  <1>5. TokenInv'
    BY <1>1 DEF Inv, TokenInv, Known, Exists, coordinator
  <1>6. NoImpersonation' /\ RemovedStaysRemoved'
    BY <1>1 DEF Inv, NoImpersonation, RemovedStaysRemoved, Exists, coordinator
  <1>7. QED
    BY <1>2, <1>3, <1>4, <1>5, <1>6 DEF Inv

LEMMA ReadSettles ==
    ASSUME Inv, NEW a \in Agents, NEW c \in Pending(a), calls' = calls \ {c}
    PROVE  Settled(a)
  BY DEF Pending, Settled, Inv, OneCall

LEMMA DropSettles ==
    ASSUME NEW a \in Agents, calls' = calls \ Pending(a) PROVE Settled(a)
  BY DEF Pending, Settled

LEMMA GiveUpSettles ==
    ASSUME Inv, NEW a \in Agents, GiveUp(a) PROVE Settled(a)
  <1>1. CASE calls' = calls \ Pending(a)
    BY <1>1, DropSettles
  <1>2. CASE calls' = (calls \ Pending(a)) \cup
                      {[c EXCEPT !.abandoned = TRUE] : c \in Pending(a)}
    <2>1. \A c \in Pending(a) : LET d == [c EXCEPT !.abandoned = TRUE]
                                IN  d.from = a /\ d.abandoned
      BY DEF Pending, Inv, TypeOK, Call
    <2>2. QED
      BY <1>2, <2>1 DEF Pending, Settled
  <1>3. QED
    BY <1>1, <1>2 DEF GiveUp

LEMMA AgentTypes ==
    ASSUME Inv, NEW a \in Agents
    PROVE  /\ pc \in [Agents -> Phases] /\ nodeID \in [Agents -> {NoId} \cup Ids]
           /\ token \in [Agents -> Token] /\ fails \in [Agents -> 0..FailLimit]
           /\ stopping \subseteq Agents /\ disturbed \subseteq Agents
           /\ faults \in 0..MaxFaults /\ nodeID[a] < next
           /\ (Exists(nodeID[a]) => nodes[nodeID[a]].owner = a)
           /\ (token[a] # Admin => token[a] = nodeID[a] /\ Known(nodeID[a]))
           /\ NoId < next /\ ~Exists(NoId)
  BY NaturalIds DEF Inv, TypeOK, Drawn, NoImpersonation, TokenInv, Exists, NoId, Ids

LEMMA AfterFailureTypes ==
    ASSUME Inv, NEW a \in Agents, Waiting(a), AfterFailure(a)
    PROVE  /\ pc' \in [Agents -> Phases] /\ (\A b \in Agents : b # a => pc'[b] = pc[b])
           /\ fails' \in [Agents -> 0..FailLimit]
  <1> DEFINE n == IF fails[a] < FailLimit THEN fails[a] + 1 ELSE FailLimit
  <1>1. n \in 0..FailLimit
    BY NaturalIds, AgentTypes
  <1> HIDE DEF n
  <1>2. /\ fails' = fails \/ fails' = [fails EXCEPT ![a] = n]
        /\ \E phase \in {"off", "loop", "backoff", "left"} : pc' = [pc EXCEPT ![a] = phase]
    BY DEF AfterFailure, Waiting, Goto, n
  <1>3. QED
    BY <1>1, <1>2, AgentTypes DEF Phases

(* One agent's exchange is over, however it went.                          *)
LEMMA AgentSettles ==
    ASSUME Inv, NEW a \in Agents,
           \/ Registered(a) \/ HeartbeatDone(a) \/ CallRefused(a) \/ CallBroken(a)
           \/ CallTimesOut(a) \/ Left(a) \/ AgentCrash(a)
    PROVE  Inv'
  <1>1. CASE Registered(a)
    <2>1. PICK c \in Answered(a, "ok") :
            /\ calls' = calls \ {c}
            /\ nodeID' = [nodeID EXCEPT ![a] = c.id]
            /\ token' = [token EXCEPT ![a] = c.id]
      BY <1>1 DEF Registered
    <2>2. /\ c \in Pending(a) /\ c \in calls /\ c \in Call /\ c.from = a /\ c.stage = "ok"
          /\ c.kind = "register"
      BY <1>1 DEF Answered, Pending, Registered, Inv, TypeOK, OneCall
    <2>3. /\ c.id \in Ids /\ c.id < next /\ Known(c.id)
          /\ (Exists(c.id) => nodes[c.id].owner = a)
      BY <2>2 DEF Inv, Drawn, TokenInv, NoImpersonation, Call
    <2>4. Settled(a)
      BY <2>1, <2>2, ReadSettles
    <2>5. /\ pc' \in [Agents -> Phases] /\ (\A b \in Agents : b # a => pc'[b] = pc[b])
          /\ fails' \in [Agents -> 0..FailLimit]
          /\ UNCHANGED <<coordinator, stopping, disturbed, faults>>
      BY <1>1, AgentTypes, NaturalIds DEF Registered, Goto, Phases
    <2>6. /\ nodeID' \in [Agents -> {NoId} \cup Ids] /\ nodeID'[a] = c.id
          /\ \A b \in Agents : b # a => nodeID'[b] = nodeID[b]
          /\ token' \in [Agents -> Token] /\ token'[a] = c.id
          /\ \A b \in Agents : b # a => token'[b] = token[b]
      BY <2>1, <2>3, AgentTypes, NaturalIds
    <2>7. QED
      BY <2>3, <2>4, <2>5, <2>6, AgentTypes, SettledStep
  <1>2. ASSUME HeartbeatDone(a) \/ Left(a) PROVE Inv'
    <2>1. PICK c \in Pending(a) : calls' = calls \ {c}
      BY <1>2 DEF HeartbeatDone, Left, Answered
    <2>2. Settled(a)
      BY <2>1, ReadSettles
    <2>3. /\ pc' \in [Agents -> Phases] /\ (\A b \in Agents : b # a => pc'[b] = pc[b])
          /\ fails' \in [Agents -> 0..FailLimit]
          /\ UNCHANGED <<coordinator, nodeID, token, stopping, disturbed, faults>>
      BY <1>2, AgentTypes, NaturalIds DEF HeartbeatDone, Left, Goto, Phases
    <2>4. QED
      BY <2>2, <2>3, AgentTypes, SettledStep
  <1>3. ASSUME CallRefused(a) \/ CallBroken(a) PROVE Inv'
    <2>1. CASE CallRefused(a)
      BY <2>1, ReadSettles, AfterFailureTypes, AgentTypes, SettledStep
         DEF CallRefused, Answered
    <2>2. CASE CallBroken(a)
      BY <2>2, DropSettles, AfterFailureTypes, AgentTypes, SettledStep DEF CallBroken
    <2>3. QED
      BY <1>3, <2>1, <2>2
  <1>4. ASSUME GiveUp(a), faults < MaxFaults
        PROVE  /\ Settled(a) /\ disturbed' \subseteq Agents /\ faults' \in 0..MaxFaults
    <2>1. disturbed' = disturbed \cup {a} /\ faults' = faults + 1
      BY <1>4 DEF GiveUp
    <2>2. faults' \in 0..MaxFaults
      BY <1>4, <2>1, AgentTypes, NaturalIds
    <2>3. QED
      BY <1>4, <2>1, <2>2, GiveUpSettles, AgentTypes
  <1>5. CASE CallTimesOut(a)
    BY <1>4, <1>5, AfterFailureTypes, AgentTypes, SettledStep DEF CallTimesOut
  <1>6. CASE AgentCrash(a)
    <2>1. /\ Settled(a) /\ disturbed' \subseteq Agents /\ faults' \in 0..MaxFaults
          /\ UNCHANGED coordinator
      BY <1>4, <1>6 DEF AgentCrash
    <2>2. /\ pc' \in [Agents -> Phases] /\ (\A b \in Agents : b # a => pc'[b] = pc[b])
          /\ fails' \in [Agents -> 0..FailLimit] /\ stopping' \subseteq Agents
          /\ nodeID' \in [Agents -> {NoId} \cup Ids] /\ nodeID'[a] = NoId
          /\ \A b \in Agents : b # a => nodeID'[b] = nodeID[b]
          /\ token' \in [Agents -> Token] /\ token'[a] = Admin
          /\ \A b \in Agents : b # a => token'[b] = token[b]
      BY <1>6, AgentTypes, NaturalIds DEF AgentCrash, Goto, Phases
    <2>3. QED
      BY <2>1, <2>2, AgentTypes, SettledStep
  <1>7. QED
    BY <1>1, <1>2, <1>3, <1>5, <1>6

LEMMA AgentSends ==
    ASSUME Inv, NEW a \in Agents, Start(a) \/ Tick(a) \/ Reconnect(a) \/ Leave(a)
    PROVE  Inv'
  <1>1. CASE Start(a)
    BY <1>1, SendStep, AgentTypes, NaturalIds DEF Start, Phases
  <1>2. CASE Tick(a)
    BY <1>2, SendStep, AgentTypes DEF Tick, Phases
  <1>3. CASE Reconnect(a)
    BY <1>3, SendStep, AgentTypes, NaturalIds DEF Reconnect, Phases
  <1>4. CASE Leave(a)
    BY <1>4, SendStep, AgentTypes DEF Leave, Phases
  <1>5. QED
    BY <1>1, <1>2, <1>3, <1>4

LEMMA StopStep ==
    ASSUME Inv, NEW a \in Agents, Stop(a) PROVE Inv'
  <1>1. /\ stopping' \subseteq Agents
        /\ UNCHANGED <<coordinator, pc, nodeID, token, fails, disturbed, calls, faults>>
    BY DEF Stop, Inv, TypeOK
  <1>2. TypeOK'
    BY <1>1 DEF Inv, TypeOK, coordinator
  <1>3. QED
    BY <1>1, <1>2 DEF Inv, Drawn, OneCall, TokenInv, Known, NoImpersonation,
       RemovedStaysRemoved, Exists, coordinator

-----------------------------------------------------------------------------
LEMMA InvStep == Inv /\ [Next]_vars => Inv'
  <1> SUFFICES ASSUME Inv, [Next]_vars PROVE Inv'
    OBVIOUS
  <1>1. ASSUME NEW c \in calls, Serve(c) PROVE Inv'
    BY <1>1, RegisterAddStep, RegisterTokenStep, HeartbeatStep, DeregisterStep, RefuseStep
       DEF Serve
  <1>2. ASSUME \/ \E id \in DOMAIN nodes : MarkOffline(id) \/ OperatorRemove(id)
               \/ CoordinatorStops \/ CoordinatorStarts \/ UNCHANGED vars
        PROVE  Inv'
    BY <1>2, CoordinatorStep
  <1>3. ASSUME NEW a \in Agents,
               \/ AgentStep(a) \/ Leave(a)
               \/ Start(a) \/ Stop(a) \/ CallTimesOut(a) \/ AgentCrash(a)
        PROVE  Inv'
    BY <1>3, AgentSettles, AgentSends, StopStep DEF AgentStep
  <1>4. QED
    BY <1>1, <1>2, <1>3 DEF Next

LEMMA InvHolds == Spec => []Inv
  BY InvInit, InvStep, PTL DEF Spec

(* Every reachable state is of the types the declarations say, whatever    *)
(* the number of agents, of registrations and of faults.                   *)
THEOREM TypeCorrect == Spec => []TypeOK
  <1>1. Inv => TypeOK
    BY DEF Inv
  <1>2. QED
    BY <1>1, InvHolds, PTL

(* Whoever has been told an id and a token by Register can be forwarded    *)
(* to: as long as the registry has the node it has that very token for it, *)
(* although Add and SetNodeToken are two critical sections.                *)
THEOREM HolderIsReachable == Spec => []HolderReachable
  <1>1. Inv => HolderReachable
    BY DEF Inv, TokenInv, Known, HolderReachable, GetNodeToken
  <1>2. QED
    BY <1>1, InvHolds, PTL

(* No heartbeat and no deregistration, however late, reaches the entry of  *)
(* another agent, also when the coordinator restarted with an empty        *)
(* registry in between.                                                    *)
THEOREM NobodyImpersonated == Spec => []NoImpersonation
  <1>1. Inv => NoImpersonation
    BY DEF Inv
  <1>2. QED
    BY <1>1, InvHolds, PTL

(* What a DELETE has removed stays removed: no late request brings it back. *)
THEOREM RemovedForGood == Spec => []RemovedStaysRemoved
  <1>1. Inv => RemovedStaysRemoved
    BY DEF Inv
  <1>2. QED
    BY <1>1, InvHolds, PTL
-----------------------------------------------------------------------------
(* Agents that never crashed and never gave up on an exchange.             *)

From(a) == {c \in calls : c.from = a}
Gone(a) == ~Exists(nodeID[a])

(* Such an agent counts failures, registers anew or has been told of an    *)
(* error only when the coordinator has forgotten its id: so it never holds *)
(* the mesh token in place of one that is still asked for, and the entry   *)
(* of a registration never stands beside an older one.                     *)
Quiet(a) ==
    /\ \A c \in From(a) : ~c.abandoned
    /\ \A c \in From(a) : c.kind # "register" =>
         /\ c.id = nodeID[a] /\ c.token = token[a]
         /\ c.stage = "error" \/ (c.kind = "deregister" /\ c.stage = "ok") => Gone(a)
    /\ fails[a] > 0 \/ pc[a] \in {"off", "joining"} \/ (Waiting(a) /\ From(a) = {})
         => Gone(a)
    /\ ~Gone(a) => token[a] # Admin
    /\ \A id \in DOMAIN nodes : nodes[id].owner = a =>
         /\ pc[a] # "left"
         /\ nodeID[a] = id \/ \E c \in From(a) : c.kind = "register" /\ c.id = id

QuietInv == \A a \in Agents \ disturbed : Quiet(a)

(* A coordinator that is down knows nobody, registrations carry the mesh   *)
(* token and are not refused, and who backs off has counted failures.      *)
Plain ==
    /\ ~up => DOMAIN nodes = {}
    /\ \A c \in calls : c.kind = "register" =>
         c.token = Admin /\ c.stage # "error" /\ (c.stage = "sent" => c.id = NoId)
    /\ \A a \in Agents : pc[a] \in {"backoff", "rejoining"} => fails[a] > 0

LEMMA QuietInit == Init => Plain /\ QuietInv
  BY DEF Init, NewRegistry, EmptyMap, Plain, QuietInv, Quiet, From, Gone, Exists, Waiting

(* A step of somebody else.                                                *)
LEMMA QuietFrame ==
    ASSUME Inv, NEW b \in Agents, Quiet(b), From(b)' = From(b),
           pc'[b] = pc[b], nodeID'[b] = nodeID[b], token'[b] = token[b], fails'[b] = fails[b],
           \A id \in DOMAIN nodes' : \/ id \in DOMAIN nodes /\ nodes'[id].owner = nodes[id].owner
                                     \/ id = next /\ nodes'[id].owner # b
    PROVE  Quiet(b)'
  <1>1. nodeID[b] # next
    BY NaturalIds DEF Inv, TypeOK, Drawn
  <1>2. Gone(b) => Gone(b)'
    BY <1>1 DEF Gone, Exists
  <1>3. Waiting(b)' <=> Waiting(b)
    BY DEF Waiting
  <1>4. \A id \in DOMAIN nodes' : nodes'[id].owner = b =>
             id \in DOMAIN nodes /\ nodes[id].owner = b
    OBVIOUS
  <1> DEFINE F == From(b)
  <1>5. QED
    BY <1>2, <1>3, <1>4 DEF Quiet

(* The coordinator answers, or works on, the one call an undisturbed agent *)
(* waits for.                                                              *)
LEMMA OneFrom ==
    ASSUME Inv, NEW c \in calls, Quiet(c.from)
    PROVE  From(c.from) = {c} /\ ~c.abandoned
  BY DEF Inv, OneCall, Quiet, From

(* What a step of the coordinator about call c does to the calls.          *)
Moves(c, stage, id) ==
    \/ calls' = (calls \ {c}) \cup {[c EXCEPT !.stage = stage, !.id = id]}
    \/ c.abandoned /\ calls' = calls \ {c}

LEMMA MovesOthers ==
    ASSUME Inv, NEW c \in calls, NEW stage, NEW id, Moves(c, stage, id),
           NEW b \in Agents, b # c.from
    PROVE  From(b)' = From(b)
  <1>1. [c EXCEPT !.stage = stage, !.id = id].from = c.from
    BY DEF Inv, TypeOK, Call
  <1>2. QED
    BY <1>1 DEF Moves, From

LEMMA MovesOwn ==
    ASSUME Inv, NEW c \in calls, NEW stage, NEW id, Moves(c, stage, id), Quiet(c.from)
    PROVE  \E e : /\ From(c.from)' = {e}
                  /\ e.kind = c.kind /\ e.token = c.token /\ e.id = id /\ e.stage = stage
                  /\ ~e.abandoned
  <1> DEFINE e == [c EXCEPT !.stage = stage, !.id = id]
  <1>1. /\ e.kind = c.kind /\ e.token = c.token /\ e.id = id /\ e.stage = stage
        /\ e.abandoned = c.abandoned /\ e.from = c.from
    BY DEF Inv, TypeOK, Call
  <1>2. calls' = (calls \ {c}) \cup {e} /\ From(c.from) = {c} /\ ~c.abandoned
    BY OneFrom DEF Moves
  <1> HIDE DEF e
  <1>3. From(c.from)' = {e}
    BY <1>1, <1>2 DEF From
  <1>4. QED
    BY <1>1, <1>2, <1>3
LEMMA AnswerMoves ==
    ASSUME NEW c, NEW outcome, NEW id, Answer(c, outcome, id), c.abandoned \in BOOLEAN
    PROVE  Moves(c, outcome, id)
  BY DEF Answer, Moves

(* One step of the coordinator on the call c.                              *)
LEMMA QuietServe ==
    ASSUME Inv, Plain, QuietInv, NEW c \in calls, Serve(c)
    PROVE  Plain' /\ QuietInv'
  <1>1. /\ c \in Call /\ c.from \in Agents /\ c.id < next /\ c.abandoned \in BOOLEAN
        /\ UNCHANGED <<up, agent>> /\ up
    BY DEF Inv, TypeOK, Drawn, Call, Serve, RegisterAdd, RegisterToken, HandleHeartbeat,
           HandleDeregister, Refuse, Handles, coordinator
  <1>2. PICK stage, id :
          /\ Moves(c, stage, id)
          /\ \/ /\ c.kind = "register" /\ c.stage = "sent" /\ stage = "added" /\ id = next
                /\ AddNode(next, c.from, 0)
             \/ c.kind = "register" /\ stage = "ok" /\ id = c.id /\ UNCHANGED nodes
             \/ c.kind = "heartbeat" /\ id = c.id /\ stage = "ok" /\ RecordHeartbeat(c.id, "online", 0)
             \/ c.kind = "deregister" /\ id = c.id /\ stage = "ok" /\ RemoveNode(c.id)
             \/ c.kind # "register" /\ id = c.id /\ stage = "error" /\ ~Exists(c.id) /\ UNCHANGED nodes
             \/ id = c.id /\ stage = "error" /\ ~Authorized(c.token) /\ UNCHANGED nodes
    <2>1. CASE RegisterAdd(c)
      BY <2>1 DEF RegisterAdd, Handles, Moves
    <2>2. CASE RegisterToken(c)
      BY <1>1, <2>2, AnswerMoves DEF RegisterToken, SetNodeToken
    <2>3. CASE HandleHeartbeat(c)
      BY <1>1, <2>3, AnswerMoves DEF HandleHeartbeat, Handles
    <2>4. CASE HandleDeregister(c)
      BY <1>1, <2>4, AnswerMoves DEF HandleDeregister, Handles
    <2>5. CASE Refuse(c)
      BY <1>1, <2>5, AnswerMoves DEF Refuse, coordinator
    <2>6. QED
      BY <2>1, <2>2, <2>3, <2>4, <2>5 DEF Serve
  (* A registration is never refused: it carries the mesh token.           *)
  <1>3. c.kind = "register" => stage \in {"added", "ok"}
    BY <1>2 DEF Plain, Authorized
  <1>4. Plain'
    <2>1. \A d \in calls' : d \in calls \/ (d.kind = c.kind /\ d.token = c.token /\ d.stage = stage)
      BY <1>1, <1>2 DEF Moves, Call
    <2>2. QED
      BY <1>1, <1>3, <2>1 DEF Plain, agent
  (* Only the sender's entry changes.                                      *)
  <1>5. /\ c.kind # "register" => \A i \in DOMAIN nodes' :
             i \in DOMAIN nodes /\ nodes'[i].owner = nodes[i].owner
        /\ c.kind = "register" => \A i \in DOMAIN nodes' :
             \/ i \in DOMAIN nodes /\ nodes'[i].owner = nodes[i].owner
             \/ i = next /\ id = next /\ nodes'[i].owner = c.from
    BY <1>2 DEF AddNode, RecordHeartbeat, RemoveNode, Put, Delete, Inv, TypeOK, Entry
  <1>6. ASSUME NEW b \in Agents \ disturbed, b # c.from PROVE Quiet(b)'
    <2>1. From(b)' = From(b)
      BY <1>2, <1>6, MovesOthers
    <2>2. QED
      BY <1>1, <1>5, <1>6, <2>1, QuietFrame DEF QuietInv, agent
  <1>7. ASSUME NEW a \in Agents \ disturbed, a = c.from PROVE Quiet(a)'
    <2>1. Quiet(a) /\ a \in Agents /\ c \in From(a)
      BY <1>1, <1>7 DEF QuietInv, From
    <2>2. PICK e : /\ From(a)' = {e} /\ e.kind = c.kind /\ e.token = c.token /\ e.id = id
                   /\ e.stage = stage /\ ~e.abandoned
      BY <1>2, <1>7, <2>1, MovesOwn
    <2>3. From(a) = {c}
      BY <1>7, <2>1, OneFrom
    <2>4. UNCHANGED <<pc[a], nodeID[a], token[a], fails[a]>>
      BY <1>1 DEF agent
    <2>5. Waiting(a) /\ pc[a] # "left"
      BY <1>7, <2>1, <2>3 DEF Waiting, Inv, OneCall, Quiet, From
    <2>6. nodeID[a] < next /\ nodeID[a] # next
      BY <2>1, NaturalIds DEF Inv, TypeOK, Drawn
    <2>7. Gone(a) => Gone(a)'
      BY <1>5, <2>4, <2>6 DEF Gone, Exists
    <2>8. CASE c.kind = "register"
      <3>1. \A i \in DOMAIN nodes' : nodes'[i].owner = a => nodeID[a] = i \/ i = id
        <4>1. \A i \in DOMAIN nodes : nodes[i].owner = a => nodeID[a] = i \/ c.id = i
          BY <2>1, <2>3 DEF Quiet
        <4>2. id = c.id \/ (id = next /\ c.id \notin DOMAIN nodes)
          BY <1>2, <1>3, <2>8, AgentTypes DEF Plain, Exists
        <4>3. QED
          BY <1>5, <2>8, <4>1, <4>2
      <3>2. QED
        BY <2>1, <2>2, <2>3, <2>4, <2>5, <2>7, <2>8, <3>1 DEF Quiet, Waiting
    <2>9. CASE c.kind # "register"
      <3>1. c.id = nodeID[a] /\ c.token = token[a] /\ id = c.id
        BY <1>2, <2>1, <2>9 DEF Quiet
      (* A token that is refused belongs to an entry that is gone.         *)
      <3>2. ~Authorized(c.token) => Gone(a)
        BY <2>1, <3>1 DEF Quiet, Gone, Authorized, ValidateNodeToken, Inv, TokenInv, Known, Exists
      <3>3. /\ stage = "error" \/ (c.kind = "deregister" /\ stage = "ok") => Gone(a)'
        BY <1>2, <2>4, <2>7, <2>9, <3>1, <3>2 DEF Gone, Exists, RemoveNode, Delete
      <3>4. \A i \in DOMAIN nodes' : nodes'[i].owner = a => nodeID[a] = i
        BY <1>5, <2>1, <2>3, <2>9 DEF Quiet
      <3>5. QED
        BY <2>1, <2>2, <2>3, <2>4, <2>5, <2>7, <2>9, <3>1, <3>3, <3>4 DEF Quiet, Waiting
    <2>10. QED
      BY <2>8, <2>9
  <1>8. QED
    BY <1>1, <1>4, <1>6, <1>7 DEF QuietInv, agent

(* A step of the coordinator that answers nobody.                          *)
LEMMA QuietAlone ==
    ASSUME Inv, Plain, QuietInv,
           \/ \E id \in DOMAIN nodes : MarkOffline(id) \/ OperatorRemove(id)
           \/ CoordinatorStops \/ CoordinatorStarts \/ UNCHANGED vars
    PROVE  Plain' /\ QuietInv'
  <1>1. UNCHANGED agent
    BY DEF MarkOffline, OperatorRemove, CoordinatorStops, CoordinatorStarts, vars, agent
  <1>2. CASE CoordinatorStops
    <2>1. DOMAIN nodes' = {} /\ calls' = {}
      BY <1>2 DEF CoordinatorStops, EmptyMap
    <2>2. QED
      BY <1>1, <2>1 DEF Plain, QuietInv, Quiet, Gone, From, Exists, Waiting, agent
  <1>3. CASE ~CoordinatorStops
    <2> DEFINE Alone ==
          /\ UNCHANGED calls /\ (~up' => ~up /\ UNCHANGED nodes)
          /\ \A i \in DOMAIN nodes' : i \in DOMAIN nodes /\ nodes'[i].owner = nodes[i].owner
    <2>1. Alone
      <3>1. ASSUME NEW id \in DOMAIN nodes, MarkOffline(id) PROVE  Alone
        BY <3>1 DEF MarkOffline, UpdateStatus, Inv, TypeOK, Entry
      <3>2. ASSUME NEW id \in DOMAIN nodes, OperatorRemove(id) PROVE  Alone
        BY <3>2, Removal DEF OperatorRemove
      <3>3. CASE CoordinatorStarts \/ UNCHANGED vars
        BY <3>3 DEF CoordinatorStarts, vars, coordinator
      <3>4. QED
        BY <1>3, <3>1, <3>2, <3>3
    <2>2. Plain'
      BY <1>1, <2>1 DEF Plain, agent
    <2>3. ASSUME NEW b \in Agents \ disturbed PROVE Quiet(b)'
      <3>1. From(b)' = From(b)
        BY <2>1 DEF From
      <3>2. QED
        BY <1>1, <2>1, <2>3, <3>1, QuietFrame DEF QuietInv, agent
    <2>4. QED
      BY <1>1, <2>2, <2>3 DEF QuietInv, agent
  <1>4. QED
    BY <1>2, <1>3

-----------------------------------------------------------------------------
(* Steps of the agents.                                                    *)

(* Agent a has acted: the others are as quiet as before.                   *)
Acted(a) ==
    /\ UNCHANGED coordinator
    /\ disturbed \subseteq disturbed'
    /\ \A b \in Agents : b # a => UNCHANGED <<pc[b], nodeID[b], token[b], fails[b]>>
    /\ \A b \in Agents : b # a => From(b)' = From(b)

LEMMA QuietActed ==
    ASSUME Inv, Plain, QuietInv, NEW a \in Agents, Acted(a), a \notin disturbed' => Quiet(a)'
    PROVE  QuietInv'
  <1>1. ASSUME NEW b \in Agents \ disturbed', b # a PROVE Quiet(b)'
    <2>1. b \in Agents \ disturbed
      BY <1>1 DEF Acted
    <2>2. QED
      BY <1>1, <2>1, QuietFrame DEF Acted, QuietInv, coordinator
  <1>2. QED
    BY <1>1 DEF QuietInv

LEMMA SendActs ==
    ASSUME Inv, NEW a \in Agents, NEW kind, NEW id, NEW t, Send(a, kind, id, t)
    PROVE  /\ \A b \in Agents : b # a => From(b)' = From(b)
           /\ \E e : /\ From(a)' = From(a) \cup {e} /\ ~e.abandoned /\ e.stage = "sent"
                     /\ e.kind = kind /\ e.id = id /\ e.token = t
                     /\ calls' = calls \cup {e}
  <1> DEFINE e == [from |-> a, kind |-> kind, id |-> id, token |-> t,
                   stage |-> "sent", abandoned |-> FALSE]
  <1>1. /\ calls' = calls \cup {e} /\ ~e.abandoned /\ e.stage = "sent"
        /\ e.kind = kind /\ e.id = id /\ e.token = t /\ e.from = a
    BY DEF Send
  <1> HIDE DEF e
  <1>2. From(a)' = From(a) \cup {e} /\ \A b \in Agents : b # a => From(b)' = From(b)
    BY <1>1 DEF From
  <1>3. QED
    BY <1>1, <1>2

(* An agent that waits for nothing has no call under way.                  *)
LEMMA NoneFrom ==
    ASSUME Inv, NEW a \in Agents, Quiet(a), ~Waiting(a) PROVE From(a) = {}
  BY DEF Inv, OneCall, Quiet, From, Waiting

LEMMA QuietSend ==
    ASSUME Inv, Plain, QuietInv, NEW a \in Agents,
           Start(a) \/ Tick(a) \/ Reconnect(a) \/ Leave(a)
    PROVE  Plain' /\ QuietInv'
  <1>1. PICK kind, id, t, phase :
          /\ Send(a, kind, id, t) /\ Goto(a, phase)
          /\ \/ /\ kind = "register" /\ id = NoId /\ t = Admin /\ UNCHANGED token
                /\ pc[a] = "off" /\ phase = "joining"
             \/ /\ kind = "register" /\ id = NoId /\ t = Admin
                /\ token' = [token EXCEPT ![a] = Admin]
                /\ pc[a] = "backoff" /\ phase = "rejoining"
             \/ /\ kind \in {"heartbeat", "deregister"} /\ id = nodeID[a] /\ t = token[a]
                /\ UNCHANGED token
                /\ pc[a] \in {"loop", "backoff"} /\ phase \in {"beating", "leaving"}
    BY DEF Start, Tick, Reconnect, Leave
  <1>2. UNCHANGED <<coordinator, nodeID, fails, disturbed>>
    BY DEF Start, Tick, Reconnect, Leave
  <1>3. /\ pc'[a] = phase /\ (\A b \in Agents : b # a => pc'[b] = pc[b])
        /\ (\A b \in Agents : b # a => token'[b] = token[b])
        /\ (token'[a] # token[a] => pc[a] = "backoff" /\ kind = "register")
    BY <1>1, AgentTypes DEF Goto
  <1>4. PICK e : /\ From(a)' = From(a) \cup {e} /\ ~e.abandoned /\ e.stage = "sent"
                 /\ e.kind = kind /\ e.id = id /\ e.token = t
                 /\ calls' = calls \cup {e}
    BY <1>1, SendActs
  <1>5. Plain'
    BY <1>1, <1>2, <1>3, <1>4 DEF Plain, coordinator
  <1>6. Acted(a)
    BY <1>1, <1>2, <1>3, SendActs DEF Acted
  <1>7. ASSUME a \notin disturbed PROVE Quiet(a)'
    <2>1. Quiet(a) /\ ~Waiting(a) /\ From(a) = {} /\ pc[a] # "left"
      BY <1>1, <1>7, NoneFrom DEF QuietInv, Waiting
    <2>2. /\ Gone(a)' = Gone(a) /\ fails'[a] = fails[a]
          /\ (pc[a] \in {"off", "backoff"} => Gone(a))
      BY <1>2, <2>1 DEF Gone, Exists, Quiet, Plain, coordinator
    <2>3. From(a)' = {e} /\ UNCHANGED <<nodes, nodeID>>
      BY <1>2, <1>4, <2>1 DEF coordinator
    <2>4. pc'[a] = "joining" => pc[a] = "off"
      BY <1>1, <1>3
    <2>5. QED
      BY <1>1, <1>3, <1>4, <2>1, <2>2, <2>3, <2>4 DEF Quiet
  <1>8. QED
    BY <1>2, <1>5, <1>6, <1>7, QuietActed

(* An exchange of agent a is over; a registration that was accepted has    *)
(* been read, or there is nothing left in the registry of agent a.         *)
LEMMA QuietSettles ==
    ASSUME Inv, Plain, QuietInv, NEW a \in Agents,
           UNCHANGED coordinator, disturbed \subseteq disturbed', Settled(a),
           calls \ calls' \subseteq From(a),
           \A b \in Agents : b # a => UNCHANGED <<pc[b], nodeID[b], token[b], fails[b]>>,
           pc'[a] \in {"backoff", "rejoining"} => fails'[a] > 0,
           a \notin disturbed' =>
               /\ From(a)' = {} /\ ~Waiting(a)'
               /\ fails'[a] > 0 \/ pc'[a] = "off" => Gone(a)'
               /\ ~Gone(a)' => token'[a] # Admin
               /\ \A id \in DOMAIN nodes : nodes[id].owner = a =>
                    pc'[a] # "left" /\ nodeID'[a] = id
    PROVE  Plain' /\ QuietInv'
  <1>1. \A d \in calls' : \/ d \in calls
                          \/ /\ d.from = a
                             /\ \E c \in calls : /\ d.kind = c.kind /\ d.token = c.token
                                                 /\ d.stage = c.stage /\ d.id = c.id
    <2>1. ASSUME NEW d \in calls', d \notin calls
          PROVE  \E c \in calls : /\ d.kind = c.kind /\ d.token = c.token
                                 /\ d.stage = c.stage /\ d.id = c.id
      <3>1. PICK c \in Pending(a) : d = [c EXCEPT !.abandoned = TRUE]
        BY <2>1 DEF Settled
      <3>2. c \in calls /\ c \in Call
        BY DEF Pending, Inv, TypeOK
      <3>3. QED
        BY <3>1, <3>2 DEF Call
    <2>2. QED
      BY <2>1 DEF Settled
  <1>2. Plain'
    BY <1>1 DEF Plain, coordinator
  <1>3. Acted(a)
    BY <1>1 DEF Acted, From
  <1>4. a \notin disturbed' => Quiet(a)'
    BY DEF Quiet, Waiting, coordinator
  <1>5. QED
    BY <1>2, <1>3, <1>4, QuietActed

(* The agent reads its answer, or drops what it waited for: nothing of it  *)
(* is under way any more.                                                  *)
LEMMA NothingLeft ==
    ASSUME Inv, NEW a \in Agents, Quiet(a),
           \/ calls' = calls \ Pending(a)
           \/ \E c \in Pending(a) : calls' = calls \ {c}
    PROVE  From(a)' = {}
  BY DEF From, Pending, Quiet, Inv, OneCall

(* What an agent does after a failure.                                     *)
LEMMA AfterFailurePhases ==
    ASSUME Inv, NEW a \in Agents, Waiting(a), AfterFailure(a)
    PROVE  /\ \A b \in Agents : b # a => pc'[b] = pc[b] /\ fails'[b] = fails[b]
           /\ ~Waiting(a)'
           /\ pc'[a] \in {"backoff", "rejoining"} => fails'[a] > 0
  <1> DEFINE n == IF fails[a] < FailLimit THEN fails[a] + 1 ELSE FailLimit
  <1>1. n \in Nat /\ FailLimit > 0
    BY NaturalIds, AgentTypes
  <1> HIDE DEF n
  <1>2. /\ fails' = fails \/ fails' = [fails EXCEPT ![a] = n]
        /\ \/ \E phase \in {"off", "loop", "left"} : pc' = [pc EXCEPT ![a] = phase]
           \/ /\ pc' = [pc EXCEPT ![a] = "backoff"] /\ n = FailLimit
              /\ fails' = [fails EXCEPT ![a] = n]
    BY DEF AfterFailure, Waiting, Goto, n
  <1>3. QED
    BY <1>1, <1>2, AgentTypes DEF Waiting

(* An undisturbed agent has something in the registry only while it beats  *)
(* for it or is being told of it.                                          *)
LEMMA NothingThere ==
    ASSUME NEW a \in Agents, Quiet(a), Gone(a),
           \A c \in From(a) : c.kind # "register"
    PROVE  \A id \in DOMAIN nodes : nodes[id].owner # a
  BY DEF Quiet, Gone, Exists

LEMMA QuietAnswered ==
    ASSUME Inv, Plain, QuietInv, NEW a \in Agents,
           Registered(a) \/ HeartbeatDone(a) \/ Left(a)
    PROVE  Plain' /\ QuietInv'
  <1>1. PICK c \in Answered(a, "ok") : calls' = calls \ {c}
    BY DEF Registered, HeartbeatDone, Left
  <1>2. /\ c \in Pending(a) /\ c \in From(a) /\ c \in calls /\ c.stage = "ok" /\ c.from = a
        /\ Settled(a) /\ calls \ calls' \subseteq From(a)
    BY <1>1, ReadSettles DEF Answered, Pending, From
  <1>3. UNCHANGED <<coordinator, disturbed>>
    BY DEF Registered, HeartbeatDone, Left
  <1>4. /\ \A b \in Agents : b # a => UNCHANGED <<pc[b], nodeID[b], token[b], fails[b]>>
        /\ pc'[a] \in {"loop", "left"} /\ ~Waiting(a)'
    BY AgentTypes DEF Registered, HeartbeatDone, Left, Goto, Waiting
  <1>5. ASSUME a \notin disturbed
        PROVE  /\ From(a)' = {}
               /\ fails'[a] > 0 => Gone(a)'
               /\ ~Gone(a)' => token'[a] # Admin
               /\ \A id \in DOMAIN nodes : nodes[id].owner = a =>
                    pc'[a] # "left" /\ nodeID'[a] = id
    <2>1. Quiet(a) /\ From(a)' = {} /\ From(a) = {c} /\ UNCHANGED nodes
      BY <1>1, <1>2, <1>3, <1>5, NothingLeft, OneFrom DEF QuietInv, coordinator
    <2>2. CASE Registered(a)
      <3>1. /\ c.kind = "register" /\ c.id # NoId /\ pc[a] \in {"joining", "rejoining"}
        BY <1>2, <2>2 DEF Registered, Inv, OneCall, TokenInv, Pending
      <3>2. Gone(a)
        BY <2>1, <3>1 DEF Quiet, Plain
      <3>3. PICK d \in Answered(a, "ok") :
              /\ nodeID' = [nodeID EXCEPT ![a] = d.id]
              /\ token' = [token EXCEPT ![a] = d.id]
        BY <2>2 DEF Registered
      <3>4. d = c
        BY <2>1, <3>3 DEF Answered, Pending, From
      <3>5. nodeID'[a] = c.id /\ token'[a] = c.id /\ fails'[a] = 0 /\ pc'[a] = "loop"
        BY <2>2, <3>3, <3>4, AgentTypes DEF Registered, Goto
      <3>6. \A id \in DOMAIN nodes : nodes[id].owner = a => c.id = id
        BY <2>1, <3>2 DEF Quiet, Gone, Exists
      <3>7. QED
        BY <2>1, <3>1, <3>5, <3>6 DEF NoId, Admin
    <2>3. CASE HeartbeatDone(a)
      <3>1. c.kind = "heartbeat" /\ fails'[a] = 0 /\ pc'[a] = "loop" /\ UNCHANGED <<nodeID, token>>
        BY <1>2, <2>3, AgentTypes DEF HeartbeatDone, Goto, Inv, OneCall, Pending
      <3>2. QED
        BY <2>1, <3>1 DEF Quiet, Gone, Exists
    <2>4. CASE Left(a)
      <3>1. c.kind = "deregister" /\ UNCHANGED <<nodeID, token, fails>>
        BY <1>2, <2>4, AgentTypes DEF Left, Inv, OneCall, Pending
      <3>2. Gone(a)
        BY <1>2, <2>1, <3>1 DEF Quiet
      <3>3. \A id \in DOMAIN nodes : nodes[id].owner # a
        BY <2>1, <3>1, <3>2, NothingThere
      <3>4. QED
        BY <2>1, <3>1, <3>2, <3>3 DEF Gone, Exists
    <2>5. QED
      BY <2>2, <2>3, <2>4
  <1>6. QED
    BY <1>2, <1>3, <1>4, <1>5, QuietSettles

LEMMA QuietFailed ==
    ASSUME Inv, Plain, QuietInv, NEW a \in Agents, CallRefused(a) \/ CallBroken(a)
    PROVE  Plain' /\ QuietInv'
  <1>1. /\ calls' = calls \ Pending(a) \/ \E c \in Pending(a) : calls' = calls \ {c}
        /\ UNCHANGED <<coordinator, nodeID, token, disturbed>>
        /\ Waiting(a) /\ AfterFailure(a)
    BY DEF CallRefused, CallBroken, Answered
  <1>2. Settled(a) /\ calls \ calls' \subseteq From(a)
    BY <1>1, ReadSettles, DropSettles DEF Pending, From
  <1>3. ASSUME a \notin disturbed
        PROVE  From(a)' = {} /\ Gone(a) /\ \A id \in DOMAIN nodes : nodes[id].owner # a
    <2>1. Quiet(a) /\ From(a)' = {} /\ From(a) = Pending(a)
      BY <1>1, <1>3, NothingLeft DEF QuietInv, Quiet, From, Pending
    <2>2. CASE CallRefused(a)
      <3>1. PICK c \in Pending(a) : c.stage = "error"
        BY <2>2 DEF CallRefused, Answered
      <3>2. c.kind # "register" /\ c.from = a /\ c \in calls
        BY <3>1 DEF Plain, Pending
      <3>3. Gone(a) /\ From(a) = {c}
        BY <2>1, <3>1, <3>2, OneFrom DEF Quiet
      <3>4. QED
        BY <2>1, <3>2, <3>3, NothingThere
    <2>3. CASE CallBroken(a) /\ ~up
      BY <2>1, <2>3 DEF Plain, Gone, Exists
    <2>4. CASE CallBroken(a) /\ Pending(a) = {}
      <3>1. Gone(a)
        BY <1>1, <2>1, <2>4 DEF Quiet
      <3>2. QED
        BY <2>1, <2>4, <3>1, NothingThere
    <2>5. QED
      BY <2>2, <2>3, <2>4 DEF CallBroken
  <1>4. Gone(a)' = Gone(a)
    BY <1>1 DEF Gone, Exists, coordinator
  <1>5. QED
    BY <1>1, <1>2, <1>3, <1>4, AfterFailurePhases, QuietSettles DEF coordinator

(* Who crashes or gives up is no longer undisturbed.                       *)
LEMMA QuietDisturbed ==
    ASSUME Inv, Plain, QuietInv, NEW a \in Agents, CallTimesOut(a) \/ AgentCrash(a)
    PROVE  Plain' /\ QuietInv'
  <1>1. /\ GiveUp(a) /\ UNCHANGED coordinator
        /\ disturbed \subseteq disturbed' /\ a \in disturbed' /\ Settled(a)
    BY GiveUpSettles DEF CallTimesOut, AgentCrash, GiveUp
  <1>2. calls \ calls' \subseteq From(a)
    BY <1>1 DEF GiveUp, From, Pending
  <1>3. /\ \A b \in Agents : b # a => UNCHANGED <<pc[b], nodeID[b], token[b], fails[b]>>
        /\ pc'[a] \in {"backoff", "rejoining"} => fails'[a] > 0
    <2>1. CASE CallTimesOut(a)
      BY <2>1, AfterFailurePhases DEF CallTimesOut
    <2>2. CASE AgentCrash(a)
      BY <2>2, AgentTypes DEF AgentCrash, Goto
    <2>3. QED
      BY <2>1, <2>2
  <1>4. QED
    BY <1>1, <1>2, <1>3, QuietSettles

LEMMA QuietStep == Inv /\ Plain /\ QuietInv /\ [Next]_vars => Plain' /\ QuietInv'
  <1> SUFFICES ASSUME Inv, Plain, QuietInv, [Next]_vars PROVE Plain' /\ QuietInv'
    OBVIOUS
  <1>1. ASSUME NEW c \in calls, Serve(c) PROVE Plain' /\ QuietInv'
    BY <1>1, QuietServe
  <1>2. ASSUME \/ \E id \in DOMAIN nodes : MarkOffline(id) \/ OperatorRemove(id)
               \/ CoordinatorStops \/ CoordinatorStarts \/ UNCHANGED vars
        PROVE  Plain' /\ QuietInv'
    BY <1>2, QuietAlone
  <1>3. ASSUME NEW a \in Agents, Stop(a) PROVE Plain' /\ QuietInv'
    BY <1>3 DEF Stop, Plain, QuietInv, Quiet, From, Gone, Exists, Waiting, coordinator
  <1>4. ASSUME NEW a \in Agents,
               \/ AgentStep(a) \/ Leave(a) \/ Start(a) \/ CallTimesOut(a) \/ AgentCrash(a)
        PROVE  Plain' /\ QuietInv'
    BY <1>4, QuietSend, QuietAnswered, QuietFailed, QuietDisturbed DEF AgentStep
  <1>5. QED
    BY <1>1, <1>2, <1>3, <1>4 DEF Next

LEMMA QuietHolds == Spec => [](Inv /\ Plain /\ QuietInv)
  BY InvInit, InvStep, QuietInit, QuietStep, PTL DEF Spec

(* An agent that never crashed and never gave up on an exchange leaves no  *)
(* entry behind that nobody refreshes: not when the coordinator restarts,  *)
(* not when an operator removes it, and nothing at all after its shutdown. *)
THEOREM NoGhostsLeft == Spec => []NoGhosts
  <1>1. Inv /\ QuietInv => NoGhosts
    <2> SUFFICES ASSUME Inv, QuietInv, NEW id \in DOMAIN nodes,
                        nodes[id].owner \notin disturbed
                 PROVE  LET a == nodes[id].owner
                        IN  pc[a] # "left" /\ (nodeID[a] = id \/ BeingTold(a, id))
      BY DEF NoGhosts
    <2>1. nodes[id].owner \in Agents \ disturbed
      BY DEF Inv, TypeOK, Entry
    <2>2. QED
      BY <2>1 DEF QuietInv, Quiet, From, BeingTold, Pending
  <1>2. QED
    BY <1>1, QuietHolds, PTL

(* Such an agent accepts what the coordinator sends it whenever it is in   *)
(* its loop, not registering anew, and the coordinator knows it.           *)
THEOREM UndisturbedAgentsAccept == Spec => []UndisturbedAccepts
  <1>1. Inv /\ QuietInv => UndisturbedAccepts
    <2> SUFFICES ASSUME Inv, QuietInv, NEW a \in Agents \ disturbed, Exists(nodeID[a])
                 PROVE  HandlerAccepts(a)
      BY DEF UndisturbedAccepts
    <2>1. token[a] # Admin
      BY DEF QuietInv, Quiet, Gone
    <2>2. QED
      BY <2>1 DEF Inv, TokenInv, Known, HandlerAccepts
  <1>2. QED
    BY <1>1, QuietHolds, PTL
=============================================================================
