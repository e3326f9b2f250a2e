------------------------- MODULE Forwarding_proofs --------------------------
(***************************************************************************)
(* What holds of Forwarding for every set of nodes, rules and timeouts,    *)
(* and any number of changes by others.                                    *)
(***************************************************************************)
EXTENDS Forwarding, Routing_proofs, FiniteSetTheorems

-----------------------------------------------------------------------------
(* The inductive invariant.                                                *)

(* The type invariant, but for the choice of a node.                       *)
MeshOK ==
    /\ DOMAIN nodes \subseteq Nodes
    /\ \A n \in DOMAIN nodes : nodes[n] \in Entry(Nodes, {0})
    /\ DOMAIN nodeTokens \subseteq Nodes
    /\ \A n \in DOMAIN nodeTokens : nodeTokens[n] = n
    /\ up \subseteq Nodes
    /\ settling \subseteq Nodes /\ moved \subseteq Nodes
    /\ changes \in 0..MaxChanges
HandlerOK ==
    /\ rules \in Seq(Shapes) /\ Len(rules) <= MaxRules
    /\ pc \in {"routing", "failing", "chosen", "sending", "backoff", "done"}
    /\ target \in Nodes \cup {Nobody}
    /\ token \in Nodes \cup {Nobody}
    /\ outcome \in {"none", "answered", "echoed", "failed", "left",
                    "cut", "unroutable", "notFound", "offline"}
CallsOK ==
    /\ now \in 0..(MaxAttempts * ForwardTimeout)
    /\ sentAt \in Nat
    /\ calls \in Seq(Call) /\ Len(calls) <= MaxAttempts
    /\ hung \in BOOLEAN /\ faults \in 0..MaxFaults

(* Calls are made once the node is chosen, and one more after a backoff.   *)
FlowInv ==
    /\ pc \in {"routing", "failing", "chosen"} => calls = <<>>
    /\ pc \in {"sending", "backoff"} => calls # <<>>
    /\ pc = "backoff" => Len(calls) < MaxAttempts

(* Each attempt takes at most the timeout of the client.                   *)
ClockInv ==
    /\ sentAt <= now
    /\ calls # <<>> => sentAt <= (Len(calls) - 1) * ForwardTimeout
    /\ now <= Len(calls) * ForwardTimeout

(* A node without a token has registered lately.  One for which no token   *)
(* was found was gone, or had none: if it is there now, it registered      *)
(* since the message arrived.                                              *)
TokenInv ==
    /\ settling \subseteq moved
    /\ DOMAIN nodes \subseteq DOMAIN nodeTokens \cup moved
    /\ calls # <<>> /\ token # node /\ Exists(node) => node \in moved

Inv ==
    /\ MeshOK /\ HandlerOK /\ CallsOK /\ FlowInv /\ ClockInv
    /\ TokenInv /\ RefusedOnlyInTransition

-----------------------------------------------------------------------------
LEMMA Numbers ==
    /\ MaxAttempts \in Nat /\ MaxAttempts > 0 /\ ForwardTimeout \in Nat /\ ForwardTimeout > 0
    /\ GatewayTimeout \in Nat /\ GatewayTimeout > 0
    /\ MaxRules \in Nat /\ MaxChanges \in Nat /\ MaxFaults \in Nat /\ Nobody \notin Nodes
  BY ForwardingAssumption

LEMMA Products ==
    /\ MaxAttempts * ForwardTimeout \in Nat
    /\ \A n \in Nat : /\ n * ForwardTimeout \in Nat
                      /\ (n + 1) * ForwardTimeout = n * ForwardTimeout + ForwardTimeout
                      /\ n <= MaxAttempts => n * ForwardTimeout <= MaxAttempts * ForwardTimeout
  <1>1. \A x, y, z \in Nat : /\ x * y \in Nat /\ (x + 1) * y = x * y + y
                             /\ x <= z => x * y <= z * y
    OBVIOUS
  <1>2. QED
    BY <1>1, Numbers

LEMMA InvInit == Init => Inv
  <1> SUFFICES ASSUME Init PROVE Inv
    OBVIOUS
  <1>0. PICK S \in SUBSET Nodes :
           /\ \E status \in [S -> Status] :
                 nodes = [n \in S |-> [owner |-> n, status |-> status[n], last |-> 0]]
           /\ nodeTokens = [n \in S |-> n] /\ up = S
    BY DEF Init
  <1>1. PICK status \in [S -> Status] :
           nodes = [n \in S |-> [owner |-> n, status |-> status[n], last |-> 0]]
    BY <1>0
  <1>2. MeshOK
    <2>1. DOMAIN nodes = S /\ \A n \in S : nodes[n] \in Entry(Nodes, {0})
      BY <1>1 DEF Entry
    <2>2. QED
      BY <1>0, <2>1, Numbers DEF Init, MeshOK
  <1>3. HandlerOK
    <2>1. ASSUME NEW r \in RuleLists PROVE r \in Seq(Shapes) /\ Len(r) <= MaxRules
      <3>1. PICK n \in 0..MaxRules : r \in [1..n -> Shapes]
        BY DEF RuleLists
      <3>2. n \in Nat /\ n <= MaxRules
        BY Numbers
      <3>3. QED
        BY <3>1, <3>2, IsASeq, LenProperties
    <2>2. <<>> \in Seq(Shapes) /\ Len(<<>>) <= MaxRules
      BY Numbers
    <2>3. QED
      BY <2>1, <2>2 DEF Init, HandlerOK
  <1>4. CallsOK
    <2>1. <<>> \in Seq(Call) /\ Len(<<>>) = 0
      OBVIOUS
    <2>2. 0 \in 0..(MaxAttempts * ForwardTimeout)
      BY Products
    <2>3. 0 \in 0..MaxFaults /\ 0 <= MaxAttempts /\ 0 \in Nat
      BY Numbers
    <2>4. QED
      BY <2>1, <2>2, <2>3 DEF Init, CallsOK
  <1>5. FlowInv /\ ClockInv
    BY Numbers, Products DEF Init, FlowInv, ClockInv
  <1>6. TokenInv /\ RefusedOnlyInTransition
    BY <1>0, <1>1 DEF Init, TokenInv, RefusedOnlyInTransition
  <1>7. QED
    BY <1>2, <1>3, <1>4, <1>5, <1>6 DEF Inv

-----------------------------------------------------------------------------
(* Calls are added at the end, or one changes its phase.                   *)
LEMMA CallAdded ==
    ASSUME CallsOK, SendCall
    PROVE  /\ Len(calls') = Len(calls) + 1 /\ Len(calls) \in Nat
           /\ calls' \in Seq(Call) /\ calls' # <<>>
           /\ \A i \in DOMAIN calls' :
                 \/ i = Len(calls) + 1 /\ calls'[i].phase = "sent"
                 \/ i \in DOMAIN calls /\ i <= Len(calls) /\ calls'[i] = calls[i]
           /\ \A i \in DOMAIN calls : i \in 1..Len(calls)
  <1>1. PICK c : c = [phase |-> "sent", at |-> 0]
    OBVIOUS
  <1>2. c \in Call /\ c.phase = "sent"
    BY <1>1, Products DEF Call
  <1>3. calls \in Seq(Call) /\ calls' = Append(calls, c)
    BY <1>1 DEF CallsOK, SendCall
  <1>4. /\ Len(calls') = Len(calls) + 1 /\ Len(calls) \in Nat /\ calls' \in Seq(Call)
        /\ DOMAIN calls = 1..Len(calls) /\ DOMAIN calls' = 1..(Len(calls) + 1)
        /\ calls'[Len(calls) + 1] = c
        /\ \A i \in 1..Len(calls) : calls'[i] = calls[i]
    BY <1>2, <1>3, AppendProperties
  <1>5. QED
    BY <1>2, <1>4

LEMMA PhaseChanged ==
    ASSUME CallsOK, NEW i \in DOMAIN calls,
           NEW p \in {"sent", "working", "ok", "echo", "refused", "lost", "cancelled"}, Phase(i, p)
    PROVE  /\ calls' \in Seq(Call) /\ Len(calls') = Len(calls) /\ DOMAIN calls' = DOMAIN calls
           /\ calls'[i].phase = p /\ (p = "working" => calls'[i].at = now)
           /\ \A j \in DOMAIN calls : j # i => calls'[j] = calls[j]
           /\ DOMAIN calls = 1..Len(calls) /\ Len(calls) \in Nat
  <1>1. PICK c : c = [phase |-> p, at |-> IF p = "working" THEN now ELSE 0]
    OBVIOUS
  <1>2. now \in 0..(MaxAttempts * ForwardTimeout) /\ 0 \in 0..(MaxAttempts * ForwardTimeout)
    BY Products DEF CallsOK
  <1>3. c \in Call /\ c.phase = p /\ (p = "working" => c.at = now)
    BY <1>1, <1>2 DEF Call
  <1>4. calls \in Seq(Call) /\ calls' = [calls EXCEPT ![i] = c]
    BY <1>1 DEF CallsOK, Phase
  <1>5. DOMAIN calls = 1..Len(calls) /\ Len(calls) \in Nat
    BY <1>4, LenProperties
  <1>6. calls' \in Seq(Call) /\ Len(calls') = Len(calls) /\ DOMAIN calls' = DOMAIN calls
    BY <1>3, <1>4, <1>5, ExceptSeq
  <1>7. calls'[i] = c /\ \A j \in DOMAIN calls : j # i => calls'[j] = calls[j]
    BY <1>4
  <1>8. QED
    BY <1>3, <1>5, <1>6, <1>7

-----------------------------------------------------------------------------
(* The handler.                                                            *)

(* It moves and sends nothing.                                             *)
LEMMA HandlerMoves ==
    ASSUME Inv, UNCHANGED <<mesh, target, token, sentAt, calls, now, hung>>,
           faults' \in 0..MaxFaults,
           UNCHANGED rules \/ rules' = <<>>,
           outcome' \in {"none", "answered", "echoed", "failed", "left",
                         "cut", "unroutable", "notFound", "offline"},
           pc' \in {"failing", "chosen", "backoff", "done"},
           pc' \in {"failing", "chosen"} => pc = "routing",
           pc' = "backoff" => pc = "sending" /\ Len(calls) < MaxAttempts,
           UNCHANGED node \/ pc = "routing"
    PROVE  Inv'
  <1>1. MeshOK'
    BY DEF Inv, MeshOK, mesh
  <1>2. HandlerOK'
    <2>1. rules' \in Seq(Shapes) /\ Len(rules') <= MaxRules
      <3>1. <<>> \in Seq(Shapes) /\ Len(<<>>) = 0
        OBVIOUS
      <3>2. CASE rules' = <<>>
        <4>1. Len(rules') = 0 /\ rules' \in Seq(Shapes)
          BY <3>1, <3>2
        <4>2. QED
          BY <4>1, Numbers
      <3>3. CASE UNCHANGED rules
        BY <3>3 DEF Inv, HandlerOK
      <3>4. QED
        BY <3>2, <3>3
    <2>2. QED
      BY <2>1 DEF Inv, HandlerOK
  <1>3. CallsOK'
    BY DEF Inv, CallsOK
  <1>4. FlowInv' /\ ClockInv'
    BY DEF Inv, FlowInv, ClockInv
  <1>5. TokenInv' /\ RefusedOnlyInTransition'
    <2>1. calls = <<>> \/ UNCHANGED node
      BY DEF Inv, FlowInv
    <2>2. QED
      BY <2>1 DEF Inv, TokenInv, RefusedOnlyInTransition, mesh, Exists
  <1>6. QED
    BY <1>1, <1>2, <1>3, <1>4, <1>5 DEF Inv

(* It sends the next call.                                                 *)
LEMMA HandlerSends ==
    ASSUME Inv, SendCall, UNCHANGED <<mesh, target, rules, node, outcome, now, hung, faults>>,
           \/ pc = "chosen" /\ token' = GetNodeToken(node, Nobody)
           \/ pc = "backoff" /\ UNCHANGED token
    PROVE  Inv'
  <1>1. /\ Len(calls') = Len(calls) + 1 /\ Len(calls) \in Nat
        /\ calls' \in Seq(Call) /\ calls' # <<>>
        /\ \A i \in DOMAIN calls' :
              \/ calls'[i].phase = "sent"
              \/ i \in DOMAIN calls /\ calls'[i] = calls[i]
    BY CallAdded DEF Inv
  <1>2. sentAt' = now /\ pc' = "sending"
    BY DEF SendCall
  <1>3. MeshOK'
    BY DEF Inv, MeshOK, mesh
  <1>4. HandlerOK'
    BY <1>2 DEF Inv, HandlerOK, MeshOK, GetNodeToken
  <1>5. Len(calls) < MaxAttempts
    BY Numbers DEF Inv, FlowInv
  <1>6. CallsOK'
    <2>1. now \in Nat
      BY Products DEF Inv, CallsOK
    <2>2. Len(calls') <= MaxAttempts
      BY <1>1, <1>5, Numbers
    <2>3. QED
      BY <1>1, <1>2, <2>1, <2>2 DEF Inv, CallsOK
  <1>7. FlowInv'
    BY <1>1, <1>2 DEF FlowInv
  <1>8. ClockInv'
    <2>1. now \in Nat /\ now <= Len(calls) * ForwardTimeout
      BY Products DEF Inv, CallsOK, ClockInv
    <2>2. /\ (Len(calls) + 1) * ForwardTimeout = Len(calls) * ForwardTimeout + ForwardTimeout
          /\ Len(calls) * ForwardTimeout \in Nat
      BY <1>1, Products
    <2>3. (Len(calls') - 1) * ForwardTimeout = Len(calls) * ForwardTimeout
      BY <1>1
    <2>4. now <= (Len(calls) + 1) * ForwardTimeout
      BY <2>1, <2>2, Numbers
    <2>5. QED
      BY <1>1, <1>2, <2>1, <2>3, <2>4 DEF ClockInv
  <1>9. TokenInv'
    <2>1. UNCHANGED <<nodes, nodeTokens, moved, settling>>
      BY DEF mesh
    <2>2. CASE pc = "chosen"
      <3>1. Exists(node) => token' = node \/ node \in moved
        BY <2>2 DEF Inv, TokenInv, MeshOK, GetNodeToken, Exists
      <3>2. QED
        BY <2>1, <3>1 DEF Inv, TokenInv, Exists
    <2>3. CASE pc = "backoff"
      BY <2>1, <2>3 DEF Inv, TokenInv, FlowInv, Exists
    <2>4. QED
      BY <2>2, <2>3
  <1>10. RefusedOnlyInTransition'
    BY <1>1 DEF Inv, RefusedOnlyInTransition, mesh, Exists
  <1>11. QED
    BY <1>3, <1>4, <1>6, <1>7, <1>8, <1>9, <1>10 DEF Inv

LEMMA HandleStep == ASSUME Inv, Handle \/ ClientLeaves PROVE Inv'
  <1>0. faults \in 0..MaxFaults /\ outcome \in {"none", "answered", "echoed", "failed", "left",
                                                "cut", "unroutable", "notFound", "offline"}
    BY DEF Inv, CallsOK, HandlerOK
  <1>1. CASE Choose
    BY <1>0, <1>1, HandlerMoves DEF Choose, Answer
  <1>2. CASE GetTarget
    BY <1>0, <1>2, HandlerMoves DEF GetTarget
  <1>3. CASE Explain
    BY <1>0, <1>3, HandlerMoves DEF Explain, Answer
  <1>4. CASE ReadToken
    BY <1>4, HandlerSends DEF ReadToken
  <1>5. CASE CallAnswered
    BY <1>0, <1>5, HandlerMoves DEF CallAnswered, Answer
  <1>6. CASE CallFails
    <2>1. faults' \in 0..MaxFaults
      BY <1>0, <1>6, Numbers DEF CallFails
    <2>2. QED
      BY <1>0, <1>6, <2>1, HandlerMoves DEF CallFails, Retry, Answer
  <1>7. CASE Resend
    BY <1>7, HandlerSends DEF Resend
  <1>8. CASE ClientLeaves
    BY <1>0, <1>8, HandlerMoves DEF ClientLeaves, Answer
  <1>9. QED
    BY <1>1, <1>2, <1>3, <1>4, <1>5, <1>6, <1>7, <1>8 DEF Handle

-----------------------------------------------------------------------------
(* The node and the clock.                                                 *)

LEMMA NodeStep ==
    ASSUME Inv, NEW i \in DOMAIN calls, Receive(i) \/ GatewayEnds(i) \/ Cancel(i) PROVE Inv'
  <1>1. PICK p \in {"working", "ok", "echo", "refused", "lost", "cancelled"} :
           /\ Phase(i, p)
           /\ p = "refused" => token # node \/ node \in settling
    BY DEF Receive, GatewayEnds, Cancel
  <1>2. UNCHANGED <<mesh, handler, now, hung, faults>>
    BY DEF Receive, GatewayEnds, Cancel
  <1>3. UNCHANGED <<nodes, nodeTokens, up, settling, moved, changes,
                    pc, target, rules, node, token, sentAt, outcome, now, hung, faults>>
    BY <1>2 DEF mesh, handler
  <1>4. /\ calls' \in Seq(Call) /\ Len(calls') = Len(calls) /\ DOMAIN calls' = DOMAIN calls
        /\ calls'[i].phase = p
        /\ \A j \in DOMAIN calls : j # i => calls'[j] = calls[j]
        /\ DOMAIN calls = 1..Len(calls) /\ Len(calls) \in Nat
    BY <1>1, PhaseChanged DEF Inv
  <1>5. calls # <<>> /\ calls' # <<>>
    BY <1>4
  <1>6. MeshOK' /\ HandlerOK' /\ CallsOK'
    BY <1>3, <1>4 DEF Inv, MeshOK, HandlerOK, CallsOK
  <1>7. FlowInv' /\ ClockInv'
    BY <1>3, <1>4, <1>5 DEF Inv, FlowInv, ClockInv
  <1>8. TokenInv'
    BY <1>3, <1>5 DEF Inv, TokenInv, Exists
  <1>9. RefusedOnlyInTransition'
    <2>1. p = "refused" /\ Exists(node) => node \in moved
      BY <1>1, <1>5 DEF Inv, TokenInv
    <2>2. QED
      BY <1>3, <1>4, <2>1 DEF Inv, RefusedOnlyInTransition, Exists
  <1>10. QED
    BY <1>6, <1>7, <1>8, <1>9 DEF Inv

LEMMA TickStep == ASSUME Inv, Tick PROVE Inv'
  <1>1. /\ pc = "sending" /\ ~(now - sentAt >= ForwardTimeout) /\ now' = now + 1
        /\ UNCHANGED <<mesh, handler, calls, hung, faults>>
    BY DEF Tick, Expired
  <1>2. UNCHANGED <<nodes, nodeTokens, up, settling, moved, changes,
                    pc, target, rules, node, token, sentAt, outcome, calls, hung, faults>>
    BY <1>1 DEF mesh, handler
  <1>3. calls # <<>> /\ Len(calls) \in Nat /\ Len(calls) > 0 /\ Len(calls) <= MaxAttempts
    <2>1. calls # <<>> /\ calls \in Seq(Call) /\ Len(calls) <= MaxAttempts
      BY <1>1 DEF Inv, FlowInv, CallsOK
    <2>2. QED
      BY <2>1, EmptySeq, LenProperties
  <1>4. PICK k \in Nat : k + 1 = Len(calls)
    BY <1>3
  <1>5. /\ now \in Nat /\ sentAt \in Nat /\ sentAt <= k * ForwardTimeout
        /\ sentAt <= now
    <2>1. (Len(calls) - 1) * ForwardTimeout = k * ForwardTimeout
      BY <1>4
    <2>2. QED
      BY <1>3, <2>1, Products DEF Inv, CallsOK, ClockInv
  <1>6. now' <= Len(calls) * ForwardTimeout
    <2>1. /\ Len(calls) * ForwardTimeout = k * ForwardTimeout + ForwardTimeout
          /\ k * ForwardTimeout \in Nat
      BY <1>4, Products
    <2>2. QED
      BY <1>1, <1>5, <2>1, Numbers
  <1>7. CallsOK'
    <2>1. now' \in Nat /\ now' <= MaxAttempts * ForwardTimeout
      <3>1. /\ Len(calls) * ForwardTimeout <= MaxAttempts * ForwardTimeout
            /\ Len(calls) * ForwardTimeout \in Nat /\ MaxAttempts * ForwardTimeout \in Nat
        BY <1>3, Products
      <3>2. QED
        BY <1>1, <1>5, <1>6, <3>1
    <2>2. now' \in 0..(MaxAttempts * ForwardTimeout)
      BY <2>1, Products
    <2>3. QED
      BY <1>2, <2>2 DEF Inv, CallsOK
  <1>8. ClockInv'
    <2>1. sentAt <= now'
      BY <1>1, <1>5
    <2>2. QED
      BY <1>2, <1>6, <2>1 DEF Inv, ClockInv
  <1>9. MeshOK' /\ HandlerOK' /\ FlowInv'
    BY <1>2 DEF Inv, MeshOK, HandlerOK, FlowInv
  <1>10. TokenInv' /\ RefusedOnlyInTransition'
    BY <1>2 DEF Inv, TokenInv, RefusedOnlyInTransition, Exists
  <1>11. QED
    BY <1>7, <1>8, <1>9, <1>10 DEF Inv

LEMMA HangStep == ASSUME Inv, Hang PROVE Inv'
  <1>1. /\ UNCHANGED <<nodes, nodeTokens, up, settling, moved, changes,
                       pc, target, rules, node, token, sentAt, outcome, calls, now>>
        /\ hung' = TRUE /\ faults < MaxFaults /\ faults' = faults + 1
    BY DEF Hang, mesh, handler
  <1>2. MeshOK' /\ HandlerOK' /\ FlowInv' /\ ClockInv'
    BY <1>1 DEF Inv, MeshOK, HandlerOK, FlowInv, ClockInv
  <1>3. CallsOK'
    <2>1. faults' \in 0..MaxFaults
      BY <1>1, Numbers DEF Inv, CallsOK
    <2>2. QED
      BY <1>1, <2>1 DEF Inv, CallsOK
  <1>4. TokenInv' /\ RefusedOnlyInTransition'
    BY <1>1 DEF Inv, TokenInv, RefusedOnlyInTransition, Exists
  <1>5. QED
    BY <1>2, <1>3, <1>4 DEF Inv

-----------------------------------------------------------------------------
(* The others: whoever is new, or has lost its token, has moved.           *)
LEMMA OthersKeep ==
    ASSUME Inv, MeshOK', UNCHANGED <<handler, calls, now, hung, faults>>,
           settling' \subseteq moved', moved \subseteq moved',
           \A n \in DOMAIN nodes' :
              n \in moved' \/ (n \in DOMAIN nodes /\ (n \in DOMAIN nodeTokens => n \in DOMAIN nodeTokens'))
    PROVE  Inv'
  <1>1. UNCHANGED <<pc, target, rules, node, token, sentAt, outcome, calls, now, hung, faults>>
    BY DEF handler
  <1>2. HandlerOK' /\ CallsOK' /\ FlowInv' /\ ClockInv'
    BY <1>1 DEF Inv, HandlerOK, CallsOK, FlowInv, ClockInv
  <1>3. TokenInv'
    BY <1>1 DEF Inv, TokenInv, Exists
  <1>4. RefusedOnlyInTransition'
    BY <1>1 DEF Inv, RefusedOnlyInTransition, Exists
  <1>5. QED
    BY <1>2, <1>3, <1>4 DEF Inv

LEMMA OthersStep == ASSUME Inv, Others PROVE Inv'
  <1>0. /\ DOMAIN nodes \subseteq Nodes /\ \A n \in DOMAIN nodes : nodes[n] \in Entry(Nodes, {0})
        /\ DOMAIN nodeTokens \subseteq Nodes /\ \A n \in DOMAIN nodeTokens : nodeTokens[n] = n
        /\ up \subseteq Nodes /\ settling \subseteq Nodes /\ moved \subseteq Nodes
        /\ changes \in 0..MaxChanges /\ settling \subseteq moved
    BY DEF Inv, MeshOK, TokenInv
  <1>1. ASSUME NEW n \in Nodes, OthersMay(n)
        PROVE  changes' \in 0..MaxChanges /\ UNCHANGED <<handler, calls, now, hung, faults>>
    BY <1>0, <1>1, Numbers DEF OthersMay
  <1>2. ASSUME NEW n \in Nodes, Join(n) PROVE Inv'
    <2>1. PICK e : e = [owner |-> n, status |-> "online", last |-> 0]
      OBVIOUS
    <2>2. e \in Entry(Nodes, {0})
      BY <2>1 DEF Entry, Status
    <2>3. /\ nodes' = Put(nodes, n, e) /\ UNCHANGED nodeTokens
          /\ moved' = moved \cup {n} /\ up' = up \cup {n} /\ settling' = settling \cup {n}
      BY <1>2, <2>1 DEF Join, AddNode
    <2>4. /\ DOMAIN nodes' = DOMAIN nodes \cup {n}
          /\ \A k \in DOMAIN nodes' : nodes'[k] = e \/ (k \in DOMAIN nodes /\ nodes'[k] = nodes[k])
      BY <2>3 DEF Put
    <2>5. changes' \in 0..MaxChanges /\ UNCHANGED <<handler, calls, now, hung, faults>>
      BY <1>1, <1>2 DEF Join
    <2>6. MeshOK'
      BY <1>0, <2>2, <2>3, <2>4, <2>5 DEF MeshOK
    <2>7. QED
      BY <1>0, <2>3, <2>4, <2>5, <2>6, OthersKeep
  <1>3. ASSUME NEW n \in Nodes, SetToken(n) PROVE Inv'
    <2>1. /\ nodeTokens' = Put(nodeTokens, n, n)
          /\ UNCHANGED <<nodes, up, settling, moved, changes, handler, calls, now, hung, faults>>
      BY <1>3 DEF SetToken, SetNodeToken
    <2>2. /\ DOMAIN nodeTokens' = DOMAIN nodeTokens \cup {n}
          /\ \A k \in DOMAIN nodeTokens' : nodeTokens'[k] = k
      BY <1>0, <2>1 DEF Put
    <2>3. MeshOK'
      BY <1>0, <2>1, <2>2 DEF MeshOK
    <2>4. QED
      BY <1>0, <2>1, <2>2, <2>3, OthersKeep
  <1>4. ASSUME NEW n \in Nodes, Settle(n) PROVE Inv'
    <2>1. /\ settling' = settling \ {n}
          /\ UNCHANGED <<nodes, nodeTokens, up, moved, changes, handler, calls, now, hung, faults>>
      BY <1>4 DEF Settle
    <2>2. MeshOK'
      BY <1>0, <2>1 DEF MeshOK
    <2>3. QED
      BY <1>0, <2>1, <2>2, OthersKeep
  <1>5. ASSUME NEW n \in Nodes, ChangeStatus(n) PROVE Inv'
    <2>1. PICK status \in Status : n \in DOMAIN nodes /\ nodes' = [nodes EXCEPT ![n].status = status]
      BY <1>5 DEF ChangeStatus, UpdateStatus, Exists
    <2>2. PICK e : e = [nodes[n] EXCEPT !.status = status]
      OBVIOUS
    <2>3. e \in Entry(Nodes, {0})
      BY <1>0, <2>1, <2>2 DEF Entry
    <2>4. /\ DOMAIN nodes' = DOMAIN nodes
          /\ \A k \in DOMAIN nodes' : nodes'[k] = e \/ nodes'[k] = nodes[k]
      BY <2>1, <2>2
    <2>5. /\ changes' \in 0..MaxChanges
          /\ UNCHANGED <<nodeTokens, up, settling, moved, handler, calls, now, hung, faults>>
      BY <1>1, <1>5 DEF ChangeStatus, UpdateStatus
    <2>6. MeshOK'
      BY <1>0, <2>3, <2>4, <2>5 DEF MeshOK
    <2>7. QED
      BY <1>0, <2>4, <2>5, <2>6, OthersKeep
  <1>6. ASSUME NEW n \in Nodes, Leave(n) PROVE Inv'
    <2>1. /\ nodes' = Delete(nodes, n) /\ nodeTokens' = Delete(nodeTokens, n)
          /\ up' \in {up, up \ {n}} /\ moved' = moved \cup {n} /\ UNCHANGED settling
      BY <1>6 DEF Leave, RemoveNode
    <2>2. /\ DOMAIN nodes' = DOMAIN nodes \ {n} /\ \A k \in DOMAIN nodes' : nodes'[k] = nodes[k]
          /\ DOMAIN nodeTokens' = DOMAIN nodeTokens \ {n}
          /\ \A k \in DOMAIN nodeTokens' : nodeTokens'[k] = nodeTokens[k]
      BY <2>1 DEF Delete
    <2>3. changes' \in 0..MaxChanges /\ UNCHANGED <<handler, calls, now, hung, faults>>
      BY <1>1, <1>6 DEF Leave
    <2>4. MeshOK'
      BY <1>0, <2>1, <2>2, <2>3 DEF MeshOK
    <2>5. QED
      BY <1>0, <2>1, <2>2, <2>3, <2>4, OthersKeep
  <1>7. ASSUME NEW n \in Nodes, Die(n) PROVE Inv'
    <2>1. /\ changes' \in 0..MaxChanges /\ up' = up \ {n}
          /\ UNCHANGED <<nodes, nodeTokens, settling, moved, handler, calls, now, hung, faults>>
      BY <1>1, <1>7 DEF Die
    <2>2. MeshOK'
      BY <1>0, <2>1 DEF MeshOK
    <2>3. QED
      BY <1>0, <2>1, <2>2, OthersKeep
  <1>8. QED
    BY <1>2, <1>3, <1>4, <1>5, <1>6, <1>7 DEF Others

-----------------------------------------------------------------------------
LEMMA InvStep == Inv /\ [Next]_vars => Inv'
  <1> SUFFICES ASSUME Inv, [Next]_vars PROVE Inv'
    OBVIOUS
  <1>1. CASE UNCHANGED vars
    <2>1. UNCHANGED <<nodes, nodeTokens, up, settling, moved, changes, pc, target, rules,
                      node, token, sentAt, outcome, calls, now, hung, faults>>
      BY <1>1 DEF vars, mesh, handler
    <2>2. QED
      BY <2>1 DEF Inv, MeshOK, HandlerOK, CallsOK, FlowInv, ClockInv, TokenInv,
                  RefusedOnlyInTransition, Exists
  <1>2. CASE NodeWorks
    BY <1>2, NodeStep DEF NodeWorks
  <1>3. QED
    BY <1>1, <1>2, HandleStep, TickStep, HangStep, OthersStep DEF Next

LEMMA InvHolds == Spec => []Inv
  BY InvInit, InvStep, PTL DEF Spec

(* A node that is registered refuses the message only if it registered, or *)
(* was removed, since the message arrived.                                 *)
THEOREM RefusalsAreTransitional == Spec => []RefusedOnlyInTransition
  <1>1. Inv => RefusedOnlyInTransition
    BY DEF Inv
  <1>2. QED
    BY <1>1, InvHolds, PTL

-----------------------------------------------------------------------------
(* The choice of a node.                                                   *)
NodeOK == node \in Nodes \cup {Nobody}

(* A map is listed in some order, without repetition: that is all of it.   *)
LEMMA Listed ==
    ASSUME NEW S, IsFiniteSet(S), NEW list \in SetToSeqs(S)
    PROVE  list \in Seq(S) /\ Range(list) = S
  <1> DEFINE D == 1..Cardinality(S)
  <1>1. Cardinality(S) \in Nat
    BY FS_CardinalityType
  <1>2. list \in [D -> S] /\ \A i, j \in D : i # j => list[i] # list[j]
    BY DEF SetToSeqs
  <1>3. list \in Injection(D, S)
    BY <1>2 DEF Injection, IsInjective
  <1>4. IsFiniteSet(D) /\ Cardinality(D) = Cardinality(S)
    BY <1>1, FS_Interval
  <1>5. list \in Surjection(D, S)
    BY <1>3, <1>4, FS_Injection
  <1>6. Range(list) = S
    BY <1>2, <1>5 DEF Surjection, Range
  <1>7. list \in Seq(S)
    BY <1>1, <1>2
  <1>8. QED
    BY <1>6, <1>7

LEMMA ChooseAdmits ==
    ASSUME Inv, Choose, pc' = "chosen"
    PROVE  node' \in Admissible(rules, nodes) /\ node' \in Nodes
  <1>1. DOMAIN nodes \subseteq Nodes /\ IsFiniteSet(DOMAIN nodes) /\ Nobody \notin DOMAIN nodes
    BY ForwardingAssumption, FS_Subset DEF Inv, MeshOK
  <1>2. \E id \in DOMAIN nodes : nodes[id].status # "offline"
    BY DEF Choose, Answer, Online
  <1>3. PICK list \in SetToSeqs(DOMAIN nodes) : node' = Route(rules, list, nodes)
    BY DEF Choose, Answer
  <1>4. list \in Seq(DOMAIN nodes) /\ Range(list) = DOMAIN nodes
    BY <1>1, Listed
  <1>5. rules \in Seq(Rule)
    <2>1. rules \in Seq(Shapes) /\ Shapes \subseteq Rule
      BY ForwardingAssumption DEF Inv, HandlerOK
    <2>2. Len(rules) \in Nat /\ rules \in [1..Len(rules) -> Rule]
      BY <2>1, LenProperties
    <2>3. QED
      BY <2>2
  <1>6. Route(rules, list, nodes) \in Admissible(rules, nodes) \cap DOMAIN nodes
    BY <1>1, <1>2, <1>4, <1>5, RouteIsAdmissible
  <1>7. QED
    BY <1>1, <1>3, <1>6

(* Nothing else chooses a node but GetTarget.                              *)
LEMMA ChoiceStep ==
    ASSUME Inv, [Next]_vars
    PROVE  \/ Choose \/ GetTarget
           \/ node' = node /\ (pc' = "chosen" => pc = "chosen")
  <1>1. CASE Explain \/ CallAnswered \/ CallFails \/ ClientLeaves \/ ReadToken \/ Resend
    BY <1>1 DEF Explain, CallAnswered, CallFails, ClientLeaves, ReadToken, Resend,
                Answer, Retry, SendCall
  <1>2. CASE NodeWorks \/ Tick \/ Hang
    BY <1>2 DEF NodeWorks, Receive, GatewayEnds, Cancel, Tick, Hang, handler
  <1>3. CASE Others
    BY <1>3 DEF Others, Join, SetToken, Settle, ChangeStatus, Leave, Die, OthersMay, handler
  <1>4. CASE UNCHANGED vars
    BY <1>4 DEF vars, handler
  <1>5. QED
    BY <1>1, <1>2, <1>3, <1>4 DEF Next, Handle

(* Router.Route, for a message without a target: the node is one that the  *)
(* rules it read admit in the mesh it read, however many nodes and rules   *)
(* there are and whatever order the map of the nodes is listed in.         *)
THEOREM RoutedByTheRules == Spec => RoutedByRules
  <1>1. Inv /\ [Next]_vars
           => [pc = "routing" /\ target = Nobody /\ pc' = "chosen"
                  => node' \in Admissible(rules, nodes)]_vars
    <2> SUFFICES ASSUME Inv, [Next]_vars, pc = "routing", target = Nobody, pc' = "chosen"
                 PROVE  node' \in Admissible(rules, nodes)
      OBVIOUS
    <2>1. ~GetTarget
      BY DEF GetTarget
    <2>2. Choose
      BY <2>1, ChoiceStep
    <2>3. QED
      BY <2>2, ChooseAdmits
  <1>2. QED
    BY <1>1, InvHolds, PTL DEF Spec, RoutedByRules

(* Every variable keeps its type; that the node chosen is a node rests on  *)
(* what Route computes.                                                    *)
THEOREM TypeCorrect == Spec => []TypeOK
  <1>1. Init => NodeOK
    BY DEF Init, NodeOK
  <1>2. Inv /\ NodeOK /\ [Next]_vars => NodeOK'
    <2> SUFFICES ASSUME Inv, NodeOK, [Next]_vars PROVE NodeOK'
      OBVIOUS
    <2>1. CASE Choose
      <3>1. pc' = "chosen" \/ node' = node
        BY <2>1 DEF Choose
      <3>2. QED
        BY <2>1, <3>1, ChooseAdmits DEF NodeOK
    <2>2. CASE GetTarget
      BY <2>2 DEF GetTarget, NodeOK, Inv, HandlerOK
    <2>3. CASE node' = node
      BY <2>3 DEF NodeOK
    <2>4. QED
      BY <2>1, <2>2, <2>3, ChoiceStep
  <1>3. Inv /\ NodeOK => TypeOK
    BY DEF Inv, NodeOK, TypeOK, MeshOK, HandlerOK, CallsOK
  <1>4. QED
    BY <1>1, <1>2, <1>3, InvHolds, PTL DEF Spec

-----------------------------------------------------------------------------
(* While nothing has gone wrong, every call before the last reached        *)
(* nobody, and the last one is over before the client's timeout.           *)
NestedInv ==
    faults = 0 =>
        /\ ~hung
        /\ \A i \in DOMAIN calls : i < Len(calls) \/ pc = "backoff" => calls[i].phase = "lost"
        /\ pc = "sending" =>
              /\ now - sentAt <= GatewayTimeout
              /\ calls[Len(calls)].phase = "sent" => now = sentAt
              /\ calls[Len(calls)].phase = "working" => calls[Len(calls)].at = sentAt

LEMMA NestedInit == Init => NestedInv
  BY DEF Init, NestedInv

(* The attempt is over before the client gives up on it.                   *)
LEMMA NotExpired ==
    ASSUME Inv, NestedInv, faults = 0, pc = "sending", GatewayTimeout < ForwardTimeout
    PROVE  ~Expired
  <1>1. now \in Nat /\ sentAt \in Nat /\ now - sentAt <= GatewayTimeout
    BY Products DEF Inv, CallsOK, NestedInv
  <1>2. QED
    BY <1>1, Numbers DEF Expired

LEMMA NestedStep ==
    ASSUME Inv, NestedInv, [Next]_vars, GatewayTimeout < ForwardTimeout
    PROVE  NestedInv'
  <1> SUFFICES ASSUME faults' = 0
               PROVE  /\ ~hung'
                      /\ \A i \in DOMAIN calls' :
                            i < Len(calls') \/ pc' = "backoff" => calls'[i].phase = "lost"
                      /\ pc' = "sending" =>
                            /\ now' - sentAt' <= GatewayTimeout
                            /\ calls'[Len(calls')].phase = "sent" => now' = sentAt'
                            /\ calls'[Len(calls')].phase = "working" => calls'[Len(calls')].at = sentAt'
    BY DEF NestedInv
  <1>0. faults \in Nat /\ now \in Nat /\ sentAt \in Nat /\ calls \in Seq(Call)
        /\ Len(calls) \in Nat /\ DOMAIN calls = 1..Len(calls)
    BY Numbers, Products, LenProperties DEF Inv, CallsOK
  <1>1. faults = 0 /\ ~Hang
    <2>1. Handle \/ ClientLeaves \/ NodeWorks \/ Tick \/ Others \/ UNCHANGED vars => UNCHANGED faults \/ CallFails
      BY DEF Handle, Choose, GetTarget, Explain, ReadToken, CallAnswered, Resend, ClientLeaves,
             NodeWorks, Receive, GatewayEnds, Cancel, Tick, Others, Join, SetToken, Settle,
             ChangeStatus, Leave, Die, OthersMay, vars
    <2>2. faults' # faults + 1
      BY <1>0
    <2>3. CallFails => UNCHANGED faults
      BY <2>2 DEF CallFails
    <2>4. ~Hang
      BY <2>2 DEF Hang
    <2>5. QED
      BY <2>1, <2>3, <2>4 DEF Next
  <1>2. /\ ~hung
        /\ \A i \in DOMAIN calls : i < Len(calls) \/ pc = "backoff" => calls[i].phase = "lost"
        /\ pc = "sending" =>
              /\ now - sentAt <= GatewayTimeout
              /\ calls[Len(calls)].phase = "sent" => now = sentAt
              /\ calls[Len(calls)].phase = "working" => calls[Len(calls)].at = sentAt
    BY <1>1 DEF NestedInv
  <1>3. CASE /\ UNCHANGED <<calls, hung, now, sentAt>>
             /\ pc' \in {pc, "failing", "chosen", "done"}
    BY <1>2, <1>3
  <1>4. CASE CallFails
    <2>1. pc = "sending" /\ UNCHANGED <<calls, hung, now, sentAt, faults>> /\ Retry
      BY <1>0, <1>4 DEF CallFails
    <2>2. ~Expired
      BY <1>1, <2>1, NotExpired
    <2>3. calls[Len(calls)].phase = "lost"
      BY <1>0, <1>4, <2>1, <2>2 DEF CallFails, Last
    <2>4. pc' \in {"backoff", "done"}
      BY <2>1 DEF Retry, Answer
    <2>5. QED
      BY <1>0, <1>2, <2>1, <2>3, <2>4
  <1>5. CASE SendCall /\ UNCHANGED <<now, hung>> /\ pc \in {"chosen", "backoff"}
    <2>1. /\ Len(calls') = Len(calls) + 1
          /\ \A i \in DOMAIN calls' :
                \/ i = Len(calls) + 1 /\ calls'[i].phase = "sent"
                \/ i \in DOMAIN calls /\ i <= Len(calls) /\ calls'[i] = calls[i]
          /\ calls' \in Seq(Call)
      BY <1>5, CallAdded DEF Inv
    <2>2. DOMAIN calls' = 1..Len(calls')
      BY <2>1, LenProperties
    <2>3. calls'[Len(calls')].phase = "sent"
      BY <1>0, <2>1, <2>2
    <2>4. pc' = "sending" /\ sentAt' = now /\ now' - sentAt' = 0
      BY <1>0, <1>5 DEF SendCall
    <2>5. \A i \in DOMAIN calls' : i < Len(calls') => calls'[i].phase = "lost"
      <3>1. pc = "chosen" => Len(calls) = 0
        BY DEF Inv, FlowInv
      <3>2. QED
        BY <1>0, <1>2, <1>5, <2>1, <3>1
    <2>6. QED
      BY <1>2, <1>5, <2>3, <2>4, <2>5, Numbers
  <1>6. ASSUME NEW i \in DOMAIN calls, Receive(i) \/ GatewayEnds(i) \/ Cancel(i)
        PROVE  /\ ~hung'
               /\ \A j \in DOMAIN calls' :
                     j < Len(calls') \/ pc' = "backoff" => calls'[j].phase = "lost"
               /\ pc' = "sending" =>
                     /\ now' - sentAt' <= GatewayTimeout
                     /\ calls'[Len(calls')].phase = "sent" => now' = sentAt'
                     /\ calls'[Len(calls')].phase = "working" => calls'[Len(calls')].at = sentAt'
    <2>1. PICK p \in {"working", "ok", "echo", "refused", "lost", "cancelled"} :
             /\ Phase(i, p)
             /\ p \in {"working", "refused", "lost"} => calls[i].phase = "sent"
             /\ calls[i].phase \in {"sent", "working"}
      BY <1>6 DEF Receive, GatewayEnds, Cancel
    <2>2. UNCHANGED <<pc, sentAt, now, hung>>
      BY <1>6 DEF Receive, GatewayEnds, Cancel, handler
    <2>3. /\ Len(calls') = Len(calls) /\ DOMAIN calls' = DOMAIN calls
          /\ calls'[i].phase = p /\ (p = "working" => calls'[i].at = now)
          /\ \A j \in DOMAIN calls : j # i => calls'[j] = calls[j]
      BY <2>1, PhaseChanged DEF Inv
    <2>4. i = Len(calls) /\ pc # "backoff"
      BY <1>0, <1>2, <2>1
    <2>5. QED
      BY <1>0, <1>2, <2>1, <2>2, <2>3, <2>4
  <1>7. CASE Tick
    <2>1. /\ pc = "sending" /\ calls[Len(calls)].phase = "working" /\ now' = now + 1
          /\ hung \/ \A i \in DOMAIN calls :
                        calls[i].phase = "working" => now - calls[i].at < GatewayTimeout
          /\ UNCHANGED <<pc, sentAt, calls, hung>>
      BY <1>7 DEF Tick, Last, handler
    <2>2. Len(calls) \in DOMAIN calls
      <3>1. Len(calls) # 0
        BY <1>0, <2>1, EmptySeq DEF Inv, FlowInv
      <3>2. QED
        BY <1>0, <3>1
    <2>3. now - sentAt < GatewayTimeout
      BY <1>2, <2>1, <2>2
    <2>4. now' - sentAt' <= GatewayTimeout
      BY <1>0, <2>1, <2>3, Numbers
    <2>5. QED
      BY <1>2, <2>1, <2>4
  <1>8. QED
    <2>1. CASE Choose \/ GetTarget \/ Explain \/ CallAnswered \/ ClientLeaves
      BY <1>3, <2>1 DEF Choose, GetTarget, Explain, CallAnswered, ClientLeaves, Answer
    <2>2. CASE ReadToken \/ Resend
      BY <1>5, <2>2 DEF ReadToken, Resend
    <2>3. CASE Others
      BY <1>3, <2>3 DEF Others, Join, SetToken, Settle, ChangeStatus, Leave, Die, OthersMay, handler
    <2>4. CASE UNCHANGED vars
      BY <1>3, <2>4 DEF vars, handler
    <2>5. CASE NodeWorks
      BY <1>6, <2>5 DEF NodeWorks
    <2>6. QED
      BY <1>1, <1>4, <1>7, <2>1, <2>2, <2>3, <2>4, <2>5 DEF Next, Handle

(* Without a fault a message is worked on at most once, however long the   *)
(* gateway takes and however many attempts there are - where the node's    *)
(* timeout is the shorter one.  A node started with a longer --gateway-    *)
(* timeout than the forwarder's 180 s is outside of this theorem.          *)
THEOREM WorkedOnAtMostOnce ==
    ASSUME GatewayTimeout < ForwardTimeout PROVE Spec => []WorkedOnOnce
  <1>1. Init => Inv /\ NestedInv
    BY InvInit, NestedInit
  <1>2. Inv /\ NestedInv /\ [Next]_vars => Inv' /\ NestedInv'
    BY InvStep, NestedStep
  <1>3. Inv /\ NestedInv => WorkedOnOnce
    <2> SUFFICES ASSUME Inv, NestedInv, faults = 0
                 PROVE  Cardinality({i \in DOMAIN calls :
                                       calls[i].phase \notin {"sent", "lost", "refused"}}) <= 1
      BY DEF WorkedOnOnce
    <2> DEFINE W == {i \in DOMAIN calls : calls[i].phase \notin {"sent", "lost", "refused"}}
    <2>1. Len(calls) \in Nat /\ DOMAIN calls = 1..Len(calls)
      BY LenProperties DEF Inv, CallsOK
    <2>2. \A i \in W : i = Len(calls)
      BY <2>1 DEF NestedInv
    <2>3. W = {} \/ W = {Len(calls)}
      BY <2>2
    <2> HIDE DEF W
    <2>4. Cardinality(W) <= 1
      <3>1. CASE W = {}
        <4>1. Cardinality(W) = 0
          BY <3>1, FS_EmptySet
        <4>2. QED
          BY <4>1
      <3>2. CASE W = {Len(calls)}
        <4>1. Cardinality({Len(calls)}) = 1
          BY FS_Singleton
        <4>2. QED
          BY <3>2, <4>1
      <3>3. QED
        BY <2>3, <3>1, <3>2
    <2>5. QED
      BY <2>4 DEF W
  <1>4. QED
    BY <1>1, <1>2, <1>3, PTL DEF Spec
=============================================================================
