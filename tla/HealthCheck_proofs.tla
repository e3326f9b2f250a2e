------------------------- MODULE HealthCheck_proofs -------------------------
(***************************************************************************)
(* What holds of HealthCheck for every number of nodes and all periods,    *)
(* timeouts and thresholds.                                                *)
(***************************************************************************)
EXTENDS HealthCheck, TLAPS

-----------------------------------------------------------------------------
(* The inductive invariant.                                                *)

(* When the ticker fired last (0 before that).                             *)
LastTick == nextTick - Interval

(* The loop keeps up with its ticker: a round is over before the next one, *)
(* and all its probes went out at its beginning.                           *)
Rounds ==
    /\ LastTick <= now
    /\ loop = "select" => now <= nextTick /\ probes = {}
    /\ loop = "listing" => now = LastTick /\ probes = {}
    /\ loop = "probing" => now <= LastTick + Delay
    /\ \A p \in probes : p.at = LastTick

(* The longest time from a registration or a beat to the next beat.        *)
Spacing == BeatInterval + Delay

(* A beat is sent when it is due and arrives within Delay, and a node that *)
(* has died or left sends no more.                                         *)
BeatsInv ==
    /\ \A n \in Nodes : nextBeat[n] <= now + Spacing
    /\ \A n \in Nodes : health[n] = "up" => now <= nextBeat[n]
    /\ \A b \in beats : b.at <= now /\ now <= b.at + Delay
    /\ \A b \in beats : health[b.node] = "dead" => b.at <= since[b.node]

(* The beat of a node that is up and that is due by time t is yet to be    *)
(* sent, or under way.                                                     *)
BeatDueBy(n, t) ==
    \/ nextBeat[n] <= t
    \/ \E b \in beats : b.node = n /\ b.at <= t

(* A node is in the registry from Join to Depart.  The checker knows       *)
(* nothing of one that has not joined.                                     *)
Members ==
    /\ \A n \in Nodes : Exists(n) <=> health[n] # "absent"
    /\ \A n \in Nodes : health[n] = "absent" /\ n \notin departed =>
         /\ n \notin DOMAIN probeFailures
         /\ \A p \in probes : p.node # n
    /\ \A n \in departed : health[n] = "absent"

(* Whoever is not offline was heard of in the Timeout before the last tick *)
(* or since.                                                               *)
Heard ==
    \A n \in DOMAIN nodes :
        /\ nodes[n].last <= now
        /\ nodes[n].status # "offline" => LastTick <= nodes[n].last + Timeout

(* A node that is up beats in time for the next tick; the failures counted *)
(* against it are glitches; one beat undoes a mark.                        *)
UpInv ==
    \A n \in Nodes : health[n] = "up" =>
        /\ BeatDueBy(n, nodes[n].last + Spacing)
        /\ n \in DOMAIN probeFailures => probeFailures[n] <= glitches
        /\ glitches < FailThreshold => nodes[n].status # "offline"
        /\ nodes[n].status = "offline" => BeatDueBy(n, wentOff[n] + Spacing)

(* Each round after the last beat of a dead node has counted one failure,  *)
(* or is about to.                                                         *)
Count(n) == IF n \in DOMAIN probeFailures THEN probeFailures[n] ELSE 0
Probed(n) == loop = "listing" \/ \E p \in probes : p.node = n
DeadInv ==
    \A n \in DOMAIN nodes : health[n] = "dead" /\ nodes[n].status # "offline" =>
        LastTick <= since[n] + Delay + (Count(n) + IF Probed(n) THEN 1 ELSE 0) * Interval

Inv == TypeOK /\ Rounds /\ BeatsInv /\ Members /\ Heard /\ UpInv /\ DeadInv

-----------------------------------------------------------------------------
LEMMA Numbers ==
    /\ Timeout \in Nat /\ Interval \in Nat /\ BeatInterval \in Nat /\ FailThreshold \in Nat
    /\ Interval > 0 /\ BeatInterval > 0 /\ FailThreshold > 0 /\ Timeout > 0
    /\ Delay \in Nat /\ MaxGlitches \in Nat /\ MaxTime \in Nat
    /\ Delay < Interval /\ Spacing \in Nat /\ BeatInterval <= Spacing /\ Spacing + Delay <= Timeout
    /\ \A way \in 0..Delay : way \in Nat /\ way + BeatInterval <= Spacing
    /\ Times \subseteq Nat
    /\ \A t \in 0..MaxTime : t \in Times /\ t + Interval \in Times /\ t + BeatInterval \in Times
    /\ \A t \in 0..MaxTime, way \in 0..Delay : t + way + BeatInterval \in Times
  BY HealthAssumption, BeatAssumption DEF Times, Spacing

LEMMA InvInit == Init => Inv
  <1> SUFFICES ASSUME Init PROVE Inv
    OBVIOUS
  <1>1. /\ DOMAIN nodes = {} /\ DOMAIN probeFailures = {} /\ nodeTokens = EmptyMap
        /\ 0 \in Times /\ Interval \in Times /\ LastTick = 0
    <2>1. 0 \in 0..MaxTime
      BY Numbers
    <2>2. 0 \in Times /\ 0 + Interval \in Times
      BY <2>1, Numbers
    <2>3. QED
      BY <2>2, Numbers DEF Init, NewRegistry, EmptyMap, LastTick
  <1>2. TypeOK
    BY <1>1, Numbers DEF Init, TypeOK
  <1>3. Rounds /\ BeatsInv /\ Members /\ Heard /\ UpInv /\ DeadInv
    BY <1>1, Numbers DEF Init, Rounds, BeatsInv, Members, Heard, UpInv, DeadInv, Exists
  <1>4. QED
    BY <1>2, <1>3 DEF Inv

-----------------------------------------------------------------------------
(* What the steps do to the registry, in the terms of the invariant.       *)

LEMMA TickMarks ==
    ASSUME TypeOK, Tick
    PROVE  /\ DOMAIN nodes' = DOMAIN nodes
           /\ \A n \in DOMAIN nodes :
                /\ nodes'[n].last = nodes[n].last /\ nodes'[n].owner = nodes[n].owner
                /\ IF nodes[n].status # "offline" /\ now - nodes[n].last > Timeout
                   THEN nodes'[n].status = "offline"
                   ELSE nodes'[n].status = nodes[n].status
                /\ nodes'[n] \in Entry(Nodes, Times)
  BY DEF Tick, MarkOfflineIfStale, Stale, TypeOK, Entry, Status

LEMMA ProbeMarks ==
    ASSUME TypeOK, NEW p \in probes, ProbeFails(p)
    PROVE  /\ DOMAIN nodes' = DOMAIN nodes
           /\ \A n \in DOMAIN nodes :
                /\ nodes'[n].last = nodes[n].last /\ nodes'[n].owner = nodes[n].owner
                /\ nodes'[n].status =
                     IF n = p.node /\ 1 + Count(n) >= FailThreshold
                     THEN "offline" ELSE nodes[n].status
                /\ nodes'[n] \in Entry(Nodes, Times)
           /\ IF 1 + Count(p.node) >= FailThreshold
              THEN probeFailures' = Delete(probeFailures, p.node)
              ELSE probeFailures' = Put(probeFailures, p.node, 1 + Count(p.node))
           /\ UNCHANGED nodeTokens
  <1>1. CASE Failed(1 + Count(p.node)) /\ Exists(p.node)
    <2>1. /\ nodes' = [nodes EXCEPT ![p.node].status = "offline"] /\ UNCHANGED nodeTokens
          /\ probeFailures' = Delete(probeFailures, p.node)
      BY <1>1 DEF ProbeFails, Count, UpdateStatus
    <2>2. QED
      BY <1>1, <2>1 DEF Failed, TypeOK, Entry, Status, Exists
  <1>2. CASE ~(Failed(1 + Count(p.node)) /\ Exists(p.node))
    <2>1. /\ UNCHANGED <<nodes, nodeTokens>>
          /\ probeFailures' = IF Failed(1 + Count(p.node))
                              THEN Delete(probeFailures, p.node)
                              ELSE Put(probeFailures, p.node, 1 + Count(p.node))
      BY <1>2 DEF ProbeFails, Count
    <2>2. QED
      BY <1>2, <2>1 DEF Failed, TypeOK, Exists
  <1>3. QED
    BY <1>1, <1>2

LEMMA BeatMarks ==
    ASSUME TypeOK, NEW b \in beats, ReceiveBeat(b)
    PROVE  /\ DOMAIN nodes' = DOMAIN nodes
           /\ \A n \in DOMAIN nodes :
                /\ nodes'[n].owner = nodes[n].owner
                /\ nodes'[n].last = IF n = b.node THEN now ELSE nodes[n].last
                /\ nodes'[n].status = IF n = b.node THEN "online" ELSE nodes[n].status
                /\ nodes'[n] \in Entry(Nodes, Times)
           /\ UNCHANGED nodeTokens
  <1>1. CASE Exists(b.node)
    <2>1. /\ nodes' = [nodes EXCEPT ![b.node].status = "online", ![b.node].last = now]
          /\ UNCHANGED nodeTokens
      BY <1>1 DEF ReceiveBeat, RecordHeartbeat
    <2>2. b.node \in DOMAIN nodes /\ nodes[b.node] \in Entry(Nodes, Times) /\ now \in Times
      BY <1>1, Numbers DEF TypeOK, Exists
    <2>3. /\ DOMAIN nodes' = DOMAIN nodes
          /\ \A n \in DOMAIN nodes : n # b.node => nodes'[n] = nodes[n]
          /\ nodes'[b.node] = [owner |-> nodes[b.node].owner, status |-> "online", last |-> now]
      BY <2>1, <2>2 DEF Entry
    <2>4. QED
      BY <2>1, <2>2, <2>3 DEF TypeOK, Entry, Status
  <1>2. CASE ~Exists(b.node)
    BY <1>2 DEF ReceiveBeat, Exists, TypeOK
  <1>3. QED
    BY <1>1, <1>2

LEMMA JoinAdds ==
    ASSUME TypeOK, NEW n \in Nodes, Join(n)
    PROVE  /\ n \notin DOMAIN nodes /\ DOMAIN nodes' = DOMAIN nodes \cup {n}
           /\ nodes'[n].status = "online" /\ nodes'[n].last = now
           /\ \A m \in DOMAIN nodes : nodes'[m] = nodes[m]
           /\ \A m \in DOMAIN nodes' : nodes'[m] \in Entry(Nodes, Times)
           /\ UNCHANGED nodeTokens
  <1>1. now \in Times
    BY Numbers DEF TypeOK
  <1>2. QED
    BY <1>1 DEF Join, AddNode, Put, Exists, TypeOK, Entry, Status

LEMMA DepartRemoves ==
    ASSUME TypeOK, NEW n \in Nodes, Depart(n)
    PROVE  \/ /\ DOMAIN nodes' = DOMAIN nodes \ {n} /\ nodeTokens' = EmptyMap
              /\ \A m \in DOMAIN nodes' : nodes'[m] = nodes[m]
              /\ health' = [health EXCEPT ![n] = "absent"] /\ UNCHANGED since
              /\ departed' = departed \cup {n}
           \/ /\ health' = [health EXCEPT ![n] = "dead"]
              /\ since' = [since EXCEPT ![n] = now]
              /\ UNCHANGED <<nodes, nodeTokens, departed>>
  BY DEF Depart, RemoveNode, Delete, EmptyMap, TypeOK

-----------------------------------------------------------------------------
LEMMA TypeStep == ASSUME TypeOK, [Next]_vars PROVE TypeOK'
  <1> USE DEF TypeOK, checker, world
  <1>0. /\ now \in Times /\ now + Interval \in Times /\ now + BeatInterval \in Times
        /\ now \in Nat
    BY Numbers
  <1>1. CASE Tick
    <2>1. nextTick + Interval \in Times
      <3>1. nextTick \in Nat /\ nextTick <= now /\ now <= MaxTime
        BY <1>0, <1>1 DEF Tick, Times
      <3>2. nextTick \in 0..MaxTime
        BY <3>1, Numbers
      <3>3. QED
        BY <3>2, Numbers
    <2>2. UNCHANGED nodeTokens /\ wentOff' \in [Nodes -> Times]
      BY <1>0, <1>1 DEF Tick, MarkOfflineIfStale, Watch
    <2>3. QED
      BY <1>1, <2>1, <2>2, TickMarks DEF Tick
  <1>2. CASE ListNodes
    BY <1>0, <1>2 DEF ListNodes, NotOffline, InFlight
  <1>3. CASE ProbesDone
    BY <1>3 DEF ProbesDone
  <1>4. CASE Advance
    BY <1>4, Numbers DEF Advance
  <1>5. ASSUME NEW p \in probes, ProbeSucceeds(p) PROVE TypeOK'
    BY <1>5 DEF ProbeSucceeds, Delete
  <1>6. ASSUME NEW p \in probes, ProbeFails(p) PROVE TypeOK'
    <2>1. p.node \in Nodes /\ Count(p.node) \in 0..(FailThreshold - 1)
      BY Numbers DEF InFlight, Count
    <2>2. /\ DOMAIN probeFailures' \subseteq Nodes
          /\ \A n \in DOMAIN probeFailures' : probeFailures'[n] \in 1..(FailThreshold - 1)
      <3> DEFINE count == 1 + Count(p.node)
      <3>1. ~(count >= FailThreshold) => count \in 1..(FailThreshold - 1)
        BY <2>1, Numbers
      <3>2. \/ probeFailures' = Delete(probeFailures, p.node)
            \/ probeFailures' = Put(probeFailures, p.node, count) /\ ~(count >= FailThreshold)
        BY <1>6, ProbeMarks
      <3> HIDE DEF count
      <3>3. QED
        BY <2>1, <3>1, <3>2 DEF Put, Delete
    <2>3. wentOff' \in [Nodes -> Times] /\ glitches' \in 0..MaxGlitches
      BY <1>0, <1>6, Numbers DEF ProbeFails, Watch
    <2>4. probes' \subseteq InFlight /\ UNCHANGED <<now, loop, nextTick, world>>
      BY <1>6 DEF ProbeFails
    <2>5. QED
      BY <1>6, <2>2, <2>3, <2>4, ProbeMarks
  <1>7. ASSUME NEW b \in beats, ReceiveBeat(b) PROVE TypeOK'
    BY <1>7, BeatMarks DEF ReceiveBeat
  <1>8. ASSUME NEW n \in Nodes, Join(n) PROVE TypeOK'
    <2>1. PICK way \in 0..Delay :
             nextBeat' = [nextBeat EXCEPT ![n] = now + way + BeatInterval]
      BY <1>8 DEF Join
    <2>2. now + way + BeatInterval \in Times
      BY Numbers
    <2>3. nextBeat' \in [Nodes -> Times]
      BY <2>1, <2>2
    <2>4. /\ health' = [health EXCEPT ![n] = "up"] /\ since' = [since EXCEPT ![n] = now]
          /\ UNCHANGED <<now, checker, beats, departed, wentOff, glitches>>
      BY <1>8 DEF Join
    <2>5. health' \in [Nodes -> {"absent", "up", "mute", "leaving", "dead"}]
            /\ since' \in [Nodes -> Times]
      BY <1>0, <2>4
    <2>6. /\ DOMAIN nodes' \subseteq Nodes /\ nodeTokens' = EmptyMap
          /\ \A m \in DOMAIN nodes' : nodes'[m] \in Entry(Nodes, Times)
      BY <1>8, JoinAdds
    <2>7. UNCHANGED <<now, loop, nextTick, probes, probeFailures, beats, departed,
                      wentOff, glitches>>
      BY <2>4
    <2>8. QED
      BY <2>3, <2>5, <2>6, <2>7
  <1>9. ASSUME NEW n \in Nodes, SendBeat(n) PROVE TypeOK'
    BY <1>0, <1>9 DEF SendBeat, InFlight
  <1>10. ASSUME NEW n \in Nodes, Fail(n) PROVE TypeOK'
    BY <1>0, <1>10 DEF Fail
  <1>11. ASSUME NEW n \in Nodes, Close(n) PROVE TypeOK'
    BY <1>11 DEF Close
  <1>12. ASSUME NEW n \in Nodes, Depart(n) PROVE TypeOK'
    BY <1>0, <1>12, DepartRemoves DEF Depart
  <1>13. CASE UNCHANGED vars
    BY <1>13 DEF vars
  <1>14. QED
    BY <1>1, <1>2, <1>3, <1>4, <1>5, <1>6, <1>7, <1>8, <1>9, <1>10, <1>11, <1>12, <1>13
       DEF Next

-----------------------------------------------------------------------------
(* The rounds of the checker.                                              *)
LEMMA RoundsStep == ASSUME TypeOK, Rounds, [Next]_vars PROVE Rounds'
  <1> USE DEF Rounds, LastTick, checker, world
  <1>0. now \in Nat /\ nextTick \in Nat /\ \A p \in probes : p.at \in Nat
    BY Numbers DEF TypeOK, InFlight
  <1>1. CASE Tick
    BY <1>0, <1>1, Numbers DEF Tick
  <1>2. CASE ListNodes
    BY <1>0, <1>2, Numbers DEF ListNodes
  <1>3. CASE ProbesDone
    BY <1>0, <1>3, Numbers DEF ProbesDone
  <1>4. CASE Advance
    <2>1. /\ now' = now + 1 /\ UNCHANGED <<loop, nextTick, probes>>
          /\ \/ loop = "select" /\ now < nextTick
             \/ loop = "probing" /\ probes # {}
          /\ \A p \in probes : now < p.at + Delay
      BY <1>4 DEF Advance
    <2>2. loop = "probing" => now < nextTick - Interval + Delay
      BY <1>0, <2>1, Numbers
    <2>3. QED
      BY <1>0, <2>1, <2>2, Numbers
  <1>5. ASSUME NEW p \in probes, ProbeSucceeds(p) \/ ProbeFails(p) PROVE Rounds'
    BY <1>0, <1>5 DEF ProbeSucceeds, ProbeFails
  <1>6. ASSUME \/ \E b \in beats : ReceiveBeat(b)
               \/ \E n \in Nodes : Join(n) \/ SendBeat(n) \/ Fail(n) \/ Close(n) \/ Depart(n)
               \/ UNCHANGED vars
        PROVE  Rounds'
    <2>1. UNCHANGED <<now, checker>>
      BY <1>6 DEF ReceiveBeat, Join, SendBeat, Fail, Close, Depart, vars
    <2>2. QED
      BY <2>1
  <1>7. QED
    BY <1>1, <1>2, <1>3, <1>4, <1>5, <1>6 DEF Next

-----------------------------------------------------------------------------
(* What leaves the nodes as they are: the steps of the checker, and those  *)
(* of the clock.                                                           *)
CheckerStep ==
    \/ Tick \/ ListNodes \/ ProbesDone
    \/ \E p \in probes : ProbeSucceeds(p) \/ ProbeFails(p)

LEMMA CheckerKeeps == ASSUME CheckerStep PROVE UNCHANGED <<now, world>>
  BY DEF CheckerStep, Tick, ListNodes, ProbesDone, ProbeSucceeds, ProbeFails

LEMMA BeatsStep == ASSUME TypeOK, BeatsInv, [Next]_vars PROVE BeatsInv'
  <1> USE DEF BeatsInv, world
  <1>0. /\ now \in Nat /\ (\A n \in Nodes : nextBeat[n] \in Nat /\ since[n] \in Nat)
        /\ \A b \in beats : b.at \in Nat /\ b.node \in Nodes
    BY Numbers DEF TypeOK, InFlight
  <1>1. CASE CheckerStep \/ UNCHANGED vars
    <2>1. UNCHANGED <<now, world>>
      BY <1>1, CheckerKeeps DEF vars
    <2>2. QED
      BY <2>1
  <1>2. CASE Advance
    <2>1. /\ now' = now + 1 /\ UNCHANGED world
          /\ \A n \in Nodes : health[n] = "up" => now < nextBeat[n]
          /\ \A b \in beats : now < b.at + Delay
      BY <1>2 DEF Advance
    <2>2. QED
      BY <1>0, <2>1, Numbers
  <1>3. ASSUME NEW b \in beats, ReceiveBeat(b) PROVE BeatsInv'
    BY <1>0, <1>3 DEF ReceiveBeat
  <1>4. ASSUME NEW n \in Nodes, Join(n) PROVE BeatsInv'
    <2>1. PICK way \in 0..Delay :
             nextBeat' = [nextBeat EXCEPT ![n] = now + way + BeatInterval]
      BY <1>4 DEF Join
    <2>2. /\ health' = [health EXCEPT ![n] = "up"] /\ since' = [since EXCEPT ![n] = now]
          /\ UNCHANGED <<now, beats>>
      BY <1>4 DEF Join
    <2>3. way \in Nat /\ way + BeatInterval <= Spacing
      BY Numbers
    <2>4. QED
      BY <1>0, <2>1, <2>2, <2>3, Numbers DEF TypeOK
  <1>5. ASSUME NEW n \in Nodes, SendBeat(n) PROVE BeatsInv'
    <2>1. /\ health[n] = "up" /\ beats' = beats \cup {[node |-> n, at |-> now]}
          /\ nextBeat' = [nextBeat EXCEPT ![n] = now + BeatInterval]
          /\ UNCHANGED <<now, health, since>>
      BY <1>5 DEF SendBeat
    <2>2. QED
      BY <1>0, <2>1, Numbers DEF TypeOK
  <1>6. ASSUME NEW n \in Nodes, Fail(n) \/ Depart(n) \/ Close(n) PROVE BeatsInv'
    <2>1. /\ UNCHANGED <<now, beats, nextBeat>>
          /\ \A m \in Nodes : m # n => health'[m] = health[m] /\ since'[m] = since[m]
          /\ health'[n] # "up" /\ (health'[n] = "dead" => since'[n] = now)
      BY <1>6 DEF Fail, Depart, Close, TypeOK
    <2>2. QED
      BY <1>0, <2>1, Numbers
  <1>7. QED
    BY <1>1, <1>2, <1>3, <1>4, <1>5, <1>6 DEF Next, CheckerStep

-----------------------------------------------------------------------------
LEMMA MembersStep == ASSUME TypeOK, Members, [Next]_vars PROVE Members'
  <1> USE DEF Members, Exists, world, checker
  <1>0. \A p \in probes : p.node \in Nodes
    BY DEF TypeOK, InFlight
  <1>1. CASE Tick
    BY <1>1, TickMarks DEF Tick
  <1>2. CASE ListNodes
    BY <1>2 DEF ListNodes, NotOffline
  <1>3. CASE ProbesDone \/ Advance \/ UNCHANGED vars
    BY <1>3 DEF ProbesDone, Advance, vars
  <1>4. ASSUME NEW p \in probes, ProbeSucceeds(p) PROVE Members'
    BY <1>4 DEF ProbeSucceeds, Delete
  <1>5. ASSUME NEW p \in probes, ProbeFails(p) PROVE Members'
    <2>1. probes' \subseteq probes /\ UNCHANGED world
      BY <1>5 DEF ProbeFails
    <2>2. DOMAIN probeFailures' \subseteq DOMAIN probeFailures \cup {p.node}
      <3>1. \/ probeFailures' = Delete(probeFailures, p.node)
            \/ probeFailures' = Put(probeFailures, p.node, 1 + Count(p.node))
        BY <1>5, ProbeMarks
      <3>2. QED
        BY <3>1 DEF Put, Delete
    <2>3. DOMAIN nodes' = DOMAIN nodes
      BY <1>5, ProbeMarks
    <2>4. QED
      BY <1>0, <2>1, <2>2, <2>3
  <1>6. ASSUME NEW b \in beats, ReceiveBeat(b) PROVE Members'
    BY <1>6, BeatMarks DEF ReceiveBeat
  <1>7. ASSUME NEW n \in Nodes, Join(n) PROVE Members'
    <2>1. /\ health' = [health EXCEPT ![n] = "up"] /\ n \notin departed
          /\ UNCHANGED <<checker, departed>> /\ DOMAIN nodes' = DOMAIN nodes \cup {n}
      BY <1>7, JoinAdds DEF Join
    <2>2. QED
      BY <2>1 DEF TypeOK
  <1>8. ASSUME NEW n \in Nodes, SendBeat(n) PROVE Members'
    BY <1>8 DEF SendBeat
  <1>9. ASSUME NEW n \in Nodes, Fail(n) \/ Close(n) PROVE Members'
    <2>1. /\ UNCHANGED <<nodes, checker, departed>> /\ health[n] = "up"
          /\ health'[n] \in {"mute", "leaving", "dead"}
          /\ \A m \in Nodes : m # n => health'[m] = health[m]
      BY <1>9 DEF Fail, Close, TypeOK
    <2>2. QED
      BY <2>1 DEF TypeOK
  <1>10. ASSUME NEW n \in Nodes, Depart(n) PROVE Members'
    <2>1. /\ UNCHANGED checker /\ health[n] = "leaving"
          /\ health \in [Nodes -> {"absent", "up", "mute", "leaving", "dead"}]
      BY <1>10 DEF Depart, TypeOK
    <2>2. CASE /\ DOMAIN nodes' = DOMAIN nodes \ {n}
               /\ health' = [health EXCEPT ![n] = "absent"] /\ departed' = departed \cup {n}
      BY <2>1, <2>2
    <2>3. CASE health' = [health EXCEPT ![n] = "dead"] /\ UNCHANGED <<nodes, departed>>
      BY <2>1, <2>3
    <2>4. QED
      BY <1>10, <2>2, <2>3, DepartRemoves
  <1>11. QED
    BY <1>1, <1>2, <1>3, <1>4, <1>5, <1>6, <1>7, <1>8, <1>9, <1>10 DEF Next

-----------------------------------------------------------------------------
LEMMA HeardStep == ASSUME TypeOK, Rounds, Heard, [Next]_vars PROVE Heard'
  <1> USE DEF Heard, LastTick, world, checker
  <1>0. /\ now \in Nat /\ nextTick \in Nat /\ nextTick - Interval <= now
        /\ \A n \in DOMAIN nodes : nodes[n].last \in Nat
    BY Numbers DEF TypeOK, Rounds, Entry
  <1>1. CASE Tick
    <2>1. nextTick' = nextTick + Interval /\ now = nextTick /\ UNCHANGED now
      BY <1>0, <1>1 DEF Tick, Rounds
    <2>2. QED
      BY <1>0, <1>1, <2>1, TickMarks, Numbers
  <1>2. CASE ListNodes \/ ProbesDone \/ UNCHANGED vars \/ \E p \in probes : ProbeSucceeds(p)
    <2>1. UNCHANGED <<nodes, now, nextTick>>
      BY <1>2 DEF ListNodes, ProbesDone, ProbeSucceeds, vars
    <2>2. QED
      BY <2>1
  <1>3. CASE Advance
    <2>1. now' = now + 1 /\ UNCHANGED <<nodes, nextTick>>
      BY <1>3 DEF Advance
    <2>2. QED
      BY <1>0, <2>1
  <1>4. ASSUME NEW p \in probes, ProbeFails(p) PROVE Heard'
    BY <1>4, ProbeMarks DEF ProbeFails
  <1>5. ASSUME NEW b \in beats, ReceiveBeat(b) PROVE Heard'
    <2>1. UNCHANGED <<now, nextTick>> /\ now <= now /\ nextTick - Interval <= now + Timeout
      BY <1>0, <1>5, Numbers DEF ReceiveBeat
    <2>2. QED
      BY <1>5, <2>1, BeatMarks
  <1>6. ASSUME NEW n \in Nodes, Join(n) PROVE Heard'
    <2>1. UNCHANGED <<now, nextTick>> /\ now <= now /\ nextTick - Interval <= now + Timeout
      BY <1>0, <1>6, Numbers DEF Join
    <2>2. /\ DOMAIN nodes' = DOMAIN nodes \cup {n} /\ nodes'[n].last = now
          /\ \A m \in DOMAIN nodes : nodes'[m] = nodes[m]
      BY <1>6, JoinAdds
    <2>3. QED
      BY <2>1, <2>2
  <1>7. ASSUME NEW n \in Nodes, SendBeat(n) \/ Fail(n) \/ Close(n) PROVE Heard'
    BY <1>7 DEF SendBeat, Fail, Close
  <1>8. ASSUME NEW n \in Nodes, Depart(n) PROVE Heard'
    BY <1>8, DepartRemoves DEF Depart
  <1>9. QED
    BY <1>1, <1>2, <1>3, <1>4, <1>5, <1>6, <1>7, <1>8 DEF Next

-----------------------------------------------------------------------------
(* Nodes that are up.                                                      *)

(* A step that sends no beat of n, receives none and leaves its agent      *)
(* alone puts no beat off.                                                 *)
LEMMA DueKept ==
    ASSUME NEW n \in Nodes, NEW t, BeatDueBy(n, t), nextBeat'[n] = nextBeat[n],
           \A b \in beats : b.node = n => b \in beats'
    PROVE  \/ nextBeat'[n] <= t
           \/ \E b \in beats' : b.node = n /\ b.at <= t
  BY DEF BeatDueBy

UpNode(n) ==
    /\ BeatDueBy(n, nodes[n].last + Spacing)
    /\ n \in DOMAIN probeFailures => probeFailures[n] <= glitches
    /\ glitches < FailThreshold => nodes[n].status # "offline"
    /\ nodes[n].status = "offline" => BeatDueBy(n, wentOff[n] + Spacing)

LEMMA UpNodes == UpInv <=> \A n \in Nodes : health[n] = "up" => UpNode(n)
  BY DEF UpInv, UpNode

(* The beat of a node that is up arrives in time.                          *)
LEMMA BeatInTime ==
    ASSUME TypeOK, BeatsInv, NEW n \in Nodes, health[n] = "up", NEW t \in Nat,
           BeatDueBy(n, t)
    PROVE  now <= t + Delay
  <1>1. now \in Nat /\ nextBeat[n] \in Nat /\ now <= nextBeat[n]
    BY Numbers DEF TypeOK, BeatsInv
  <1>2. CASE nextBeat[n] <= t
    BY <1>1, <1>2, Numbers
  <1>3. ASSUME NEW b \in beats, b.at <= t PROVE now <= t + Delay
    <2>1. b.at \in Nat /\ now <= b.at + Delay
      BY Numbers DEF TypeOK, InFlight, BeatsInv
    <2>2. QED
      BY <1>1, <1>3, <2>1, Numbers
  <1>4. QED
    BY <1>2, <1>3 DEF BeatDueBy

(* Nothing is changed about n but, perhaps, the clock.                     *)
LEMMA UpKept ==
    ASSUME NEW n \in Nodes, UpNode(n),
           nodes'[n].last = nodes[n].last, nodes'[n].status = nodes[n].status,
           wentOff'[n] = wentOff[n], nextBeat'[n] = nextBeat[n],
           \A b \in beats : b.node = n => b \in beats',
           n \in DOMAIN probeFailures' => /\ n \in DOMAIN probeFailures
                                         /\ probeFailures'[n] = probeFailures[n],
           glitches' = glitches \/ (glitches' = glitches + 1 /\ glitches \in Nat
                                     /\ \A m \in DOMAIN probeFailures : probeFailures[m] \in Nat)
    PROVE  UpNode(n)'
  <1>1. BeatDueBy(n, nodes[n].last + Spacing)'
    BY DueKept DEF UpNode, BeatDueBy
  <1>2. nodes'[n].status = "offline" => BeatDueBy(n, wentOff[n] + Spacing)'
    BY DueKept DEF UpNode, BeatDueBy
  <1>3. /\ n \in DOMAIN probeFailures' => probeFailures'[n] <= glitches'
        /\ glitches' < FailThreshold => glitches < FailThreshold
    BY Numbers DEF UpNode
  <1>4. QED
    BY <1>1, <1>2, <1>3 DEF UpNode

(* A node that is up beats too soon to be stale at a tick.                 *)
LEMMA UpTick ==
    ASSUME Inv, Tick, NEW n \in Nodes, health[n] = "up" PROVE UpNode(n)'
  <1>1. UpNode(n) /\ n \in DOMAIN nodes
    BY DEF Inv, UpInv, UpNode, Members, Exists
  <1>2. now \in Nat /\ nodes[n].last \in Nat
    BY <1>1, Numbers DEF Inv, TypeOK, Entry
  <1>3. now <= nodes[n].last + Spacing + Delay
    BY <1>1, <1>2, BeatInTime, Numbers DEF Inv, UpNode
  <1>4. ~(now - nodes[n].last > Timeout)
    BY <1>2, <1>3, Numbers
  <1>5. nodes'[n].last = nodes[n].last /\ nodes'[n].status = nodes[n].status
    BY <1>1, <1>4, TickMarks DEF Inv
  <1>6. wentOff'[n] = wentOff[n]
    BY <1>5 DEF Tick, Watch, NotOffline
  <1>7. UNCHANGED <<nextBeat, beats, probeFailures, glitches>>
    BY DEF Tick, world
  <1>8. QED
    BY <1>1, <1>5, <1>6, <1>7, UpKept

(* A failed probe of a node that is up is a glitch.                        *)
LEMMA UpProbeFails ==
    ASSUME Inv, NEW p \in probes, ProbeFails(p), NEW n \in Nodes, health[n] = "up"
    PROVE  UpNode(n)'
  <1>1. UpNode(n) /\ n \in DOMAIN nodes
    BY DEF Inv, UpInv, UpNode, Members, Exists
  <1>2. /\ now \in Nat /\ nodes[n].last \in Nat /\ glitches \in Nat
        /\ \A m \in DOMAIN probeFailures : probeFailures[m] \in Nat
        /\ nextBeat[n] <= now + Spacing
    <2>1. now \in Nat /\ glitches \in Nat /\ nodes[n] \in Entry(Nodes, Times)
      BY <1>1, Numbers DEF Inv, TypeOK
    <2>2. \A m \in DOMAIN probeFailures : probeFailures[m] \in Nat
      BY Numbers DEF Inv, TypeOK
    <2>3. nodes[n].last \in Nat
      BY <2>1, Numbers DEF Entry
    <2>4. QED
      BY <2>1, <2>2, <2>3 DEF Inv, BeatsInv
  <1>3. /\ UNCHANGED <<now, nextBeat, beats>>
        /\ glitches' = glitches \/ glitches' = glitches + 1
        /\ p.node = n => glitches' = glitches + 1
        /\ wentOff'[n] = IF /\ nodes[n].status # "offline" /\ n \in DOMAIN nodes'
                            /\ nodes'[n].status = "offline"
                         THEN now ELSE wentOff[n]
    BY <1>1 DEF ProbeFails, world, Watch, NotOffline
  <1>4. /\ DOMAIN nodes' = DOMAIN nodes /\ nodes'[n].last = nodes[n].last
        /\ nodes'[n].status = IF n = p.node /\ 1 + Count(n) >= FailThreshold
                              THEN "offline" ELSE nodes[n].status
        /\ IF 1 + Count(p.node) >= FailThreshold
           THEN probeFailures' = Delete(probeFailures, p.node)
           ELSE probeFailures' = Put(probeFailures, p.node, 1 + Count(p.node))
    BY <1>1, ProbeMarks DEF Inv
  <1>5. CASE p.node # n
    <2>1. nodes'[n].status = nodes[n].status /\ wentOff'[n] = wentOff[n]
      BY <1>3, <1>4, <1>5
    <2>2. \/ probeFailures' = Delete(probeFailures, p.node)
          \/ probeFailures' = Put(probeFailures, p.node, 1 + Count(p.node))
      BY <1>4
    <2>3. n \in DOMAIN probeFailures' =>
             n \in DOMAIN probeFailures /\ probeFailures'[n] = probeFailures[n]
      BY <1>5, <2>2 DEF Put, Delete
    <2>4. QED
      BY <1>1, <1>2, <1>3, <1>4, <2>1, <2>3, UpKept
  <1>6. CASE p.node = n
    <2>1. Count(n) \in Nat /\ Count(n) <= glitches
      BY <1>1, <1>2 DEF Count, UpNode
    <2>2. 1 + Count(n) <= glitches' /\ glitches' = glitches + 1
      BY <1>2, <1>3, <1>6, <2>1
    <2>3. BeatDueBy(n, nodes[n].last + Spacing)'
      BY <1>1, <1>3, <1>4, DueKept DEF UpNode, BeatDueBy
    <2>4. nodes[n].status = "offline" => BeatDueBy(n, wentOff[n] + Spacing)'
      BY <1>1, <1>3, DueKept DEF UpNode, BeatDueBy
    <2>5. CASE 1 + Count(n) >= FailThreshold
      <3>1. nodes'[n].status = "offline" /\ probeFailures' = Delete(probeFailures, n)
        BY <1>4, <1>6, <2>5
      <3>2. ~(glitches' < FailThreshold)
        BY <1>2, <2>1, <2>2, <2>5, Numbers
      <3>3. n \notin DOMAIN probeFailures'
        BY <3>1 DEF Delete
      <3>4. nodes[n].status # "offline" => wentOff'[n] = now
        BY <1>1, <1>3, <1>4, <3>1
      <3>5. nodes[n].status # "offline" => BeatDueBy(n, wentOff[n] + Spacing)'
        BY <1>2, <1>3, <3>4 DEF BeatDueBy
      <3>6. QED
        BY <2>3, <2>4, <3>2, <3>3, <3>5 DEF UpNode
    <2>6. CASE ~(1 + Count(n) >= FailThreshold)
      <3>1. /\ nodes'[n].status = nodes[n].status
            /\ probeFailures' = Put(probeFailures, n, 1 + Count(n))
        BY <1>4, <1>6, <2>6
      <3>2. probeFailures'[n] = 1 + Count(n)
        BY <3>1 DEF Put
      <3>3. glitches' < FailThreshold => glitches < FailThreshold
        BY <1>2, <2>2, Numbers
      <3>4. QED
        BY <1>1, <2>2, <2>3, <2>4, <3>1, <3>2, <3>3 DEF UpNode
    <2>7. QED
      BY <2>5, <2>6
  <1>7. QED
    BY <1>5, <1>6

LEMMA UpStep == ASSUME Inv, [Next]_vars PROVE UpInv'
  <1> SUFFICES ASSUME NEW n \in Nodes, health'[n] = "up" PROVE UpNode(n)'
    BY DEF UpInv, UpNode
  <1>0. /\ now \in Nat /\ nextBeat[n] \in Nat /\ nextBeat[n] <= now + Spacing
        /\ health \in [Nodes -> {"absent", "up", "mute", "leaving", "dead"}]
        /\ nextBeat \in [Nodes -> Times]
    BY Numbers DEF Inv, TypeOK, BeatsInv
  <1>1. health[n] = "up" => UpNode(n) /\ n \in DOMAIN nodes /\ nodes[n].last \in Nat
    BY Numbers DEF Inv, UpInv, UpNode, Members, Exists, TypeOK, Entry
  <1>2. CASE Tick
    BY <1>2, UpTick DEF Tick, world
  <1>3. CASE ListNodes \/ ProbesDone \/ Advance \/ UNCHANGED vars
    <2>1. UNCHANGED <<nodes, health, wentOff, nextBeat, beats, probeFailures, glitches>>
      BY <1>3 DEF ListNodes, ProbesDone, Advance, vars, world, checker
    <2>2. QED
      BY <1>1, <2>1, UpKept
  <1>4. ASSUME NEW p \in probes, ProbeSucceeds(p) PROVE UpNode(n)'
    <2>1. /\ UNCHANGED <<nodes, health, wentOff, nextBeat, beats, glitches>>
          /\ probeFailures' = Delete(probeFailures, p.node)
      BY <1>4 DEF ProbeSucceeds, world
    <2>2. n \in DOMAIN probeFailures' =>
             n \in DOMAIN probeFailures /\ probeFailures'[n] = probeFailures[n]
      BY <2>1 DEF Delete
    <2>3. QED
      BY <1>1, <2>1, <2>2, UpKept
  <1>5. ASSUME NEW p \in probes, ProbeFails(p) PROVE UpNode(n)'
    BY <1>5, UpProbeFails DEF ProbeFails, world
  <1>6. ASSUME NEW b \in beats, ReceiveBeat(b) PROVE UpNode(n)'
    <2>1. /\ UNCHANGED <<now, health, wentOff, nextBeat, probeFailures, glitches>>
          /\ beats' = beats \ {b}
      BY <1>6 DEF ReceiveBeat, checker
    <2>2. CASE b.node = n
      <3>1. nodes'[n].last = now /\ nodes'[n].status = "online"
        BY <1>1, <1>6, <2>1, <2>2, BeatMarks DEF Inv
      <3>2. QED
        BY <1>0, <1>1, <2>1, <3>1 DEF UpNode, BeatDueBy
    <2>3. CASE b.node # n
      <3>1. nodes'[n].last = nodes[n].last /\ nodes'[n].status = nodes[n].status
        BY <1>1, <1>6, <2>1, <2>3, BeatMarks DEF Inv
      <3>2. QED
        BY <1>1, <2>1, <2>3, <3>1, UpKept
    <2>4. QED
      BY <2>2, <2>3
  <1>7. ASSUME NEW m \in Nodes, Join(m) PROVE UpNode(n)'
    <2>1. /\ UNCHANGED <<now, wentOff, beats, probeFailures, glitches>>
          /\ health[m] = "absent" /\ m \notin departed
          /\ health' = [health EXCEPT ![m] = "up"]
          /\ \E way \in 0..Delay :
                nextBeat' = [nextBeat EXCEPT ![m] = now + way + BeatInterval]
      BY <1>7 DEF Join, checker
    <2>2. CASE m = n
      <3>1. /\ nodes'[n].last = now /\ nodes'[n].status = "online"
            /\ n \notin DOMAIN probeFailures'
        BY <1>0, <1>7, <2>1, <2>2, JoinAdds DEF Inv, Members
      <3>2. nextBeat'[n] <= now + Spacing
        <4>1. PICK way \in 0..Delay : nextBeat'[n] = now + way + BeatInterval
          BY <1>0, <2>1, <2>2
        <4>2. way \in Nat /\ way + BeatInterval <= Spacing
          BY Numbers
        <4>3. QED
          BY <1>0, <4>1, <4>2, Numbers
      <3>3. QED
        BY <1>0, <2>1, <3>1, <3>2, Numbers DEF UpNode, BeatDueBy
    <2>3. CASE m # n
      <3>1. health[n] = "up" /\ nextBeat'[n] = nextBeat[n]
        BY <1>0, <2>1, <2>3
      <3>2. nodes'[n] = nodes[n]
        BY <1>1, <1>7, <3>1, JoinAdds DEF Inv
      <3>3. QED
        BY <1>1, <2>1, <3>1, <3>2, UpKept
    <2>4. QED
      BY <2>2, <2>3
  <1>8. ASSUME NEW m \in Nodes, SendBeat(m) PROVE UpNode(n)'
    <2>1. /\ UNCHANGED <<nodes, now, health, wentOff, probeFailures, glitches>>
          /\ health[m] = "up" /\ now >= nextBeat[m]
          /\ nextBeat' = [nextBeat EXCEPT ![m] = now + BeatInterval]
          /\ beats' = beats \cup {[node |-> m, at |-> now]}
      BY <1>8 DEF SendBeat, checker
    <2>2. CASE m = n
      <3>1. now = nextBeat[n]
        BY <1>0, <2>1, <2>2 DEF Inv, BeatsInv
      <3>2. PICK b \in beats' : b.node = n /\ b.at = now
        <4> DEFINE e == [node |-> n, at |-> now]
        <4>1. e \in beats' /\ e.node = n /\ e.at = now
          BY <2>1, <2>2
        <4> HIDE DEF e
        <4>2. QED
          BY <4>1
      <3>3. ASSUME NEW t, BeatDueBy(n, t) PROVE \E d \in beats' : d.node = n /\ d.at <= t
        BY <2>1, <3>1, <3>2, <3>3 DEF BeatDueBy
      <3>4. QED
        BY <1>1, <2>1, <3>3 DEF UpNode, BeatDueBy
    <2>3. CASE m # n
      <3>1. nextBeat'[n] = nextBeat[n]
        BY <1>0, <2>1, <2>3
      <3>2. QED
        BY <1>1, <2>1, <3>1, UpKept
    <2>4. QED
      BY <2>2, <2>3
  <1>9. ASSUME NEW m \in Nodes, Fail(m) \/ Close(m) \/ Depart(m) PROVE UpNode(n)'
    <2>1. /\ UNCHANGED <<wentOff, nextBeat, beats, probeFailures, glitches>>
          /\ health'[m] # "up" /\ (n # m => health'[n] = health[n])
      BY <1>0, <1>9 DEF Fail, Close, Depart, checker
    <2>2. n # m => nodes'[n] = nodes[n]
      BY <1>1, <1>9, <2>1, DepartRemoves DEF Fail, Close, Inv
    <2>3. QED
      BY <1>1, <2>1, <2>2, UpKept
  <1>10. QED
    BY <1>2, <1>3, <1>4, <1>5, <1>6, <1>7, <1>8, <1>9 DEF Next

-----------------------------------------------------------------------------
(* Nodes that are dead.                                                    *)

LEMMA Products ==
    ASSUME NEW c \in Nat, NEW i \in Nat
    PROVE  /\ c * i \in Nat /\ (c + 1) * i = c * i + i
           /\ \A d \in Nat : c <= d => c * i <= d * i
  OBVIOUS

DeadNode(n) ==
    LastTick <= since[n] + Delay + (Count(n) + IF Probed(n) THEN 1 ELSE 0) * Interval

LEMMA DeadTypes ==
    ASSUME TypeOK
    PROVE  /\ now \in Nat /\ nextTick \in Nat /\ LastTick \in Int
           /\ \A n \in Nodes : since[n] \in Nat /\ Count(n) \in Nat
           /\ health \in [Nodes -> {"absent", "up", "mute", "leaving", "dead"}]
           /\ \A p \in probes : p.node \in Nodes
           /\ DOMAIN nodes \subseteq Nodes
  <1>1. /\ now \in Nat /\ nextTick \in Nat /\ (\A n \in Nodes : since[n] \in Nat)
        /\ health \in [Nodes -> {"absent", "up", "mute", "leaving", "dead"}]
        /\ DOMAIN nodes \subseteq Nodes
    BY Numbers DEF TypeOK
  <1>2. \A n \in Nodes : Count(n) \in Nat
    BY Numbers DEF TypeOK, Count
  <1>3. \A p \in probes : p.node \in Nodes
    BY DEF TypeOK, InFlight
  <1>4. QED
    BY <1>1, <1>2, <1>3, Numbers DEF LastTick

(* A node that was heard of up to Delay after it died.                     *)
LEMMA DeadLately ==
    ASSUME NEW n \in Nodes, TypeOK', LastTick' <= since'[n] + Delay PROVE DeadNode(n)'
  <1> DEFINE k == (Count(n) + IF Probed(n) THEN 1 ELSE 0)'
  <1>1. /\ LastTick' \in Int /\ since'[n] \in Nat /\ Count(n)' \in Nat
    <2>1. /\ nextTick' \in Times /\ since'[n] \in Times
          /\ \A m \in DOMAIN probeFailures' : probeFailures'[m] \in 1..(FailThreshold - 1)
      BY DEF TypeOK
    <2>2. QED
      <3>1. nextTick' \in Nat /\ since'[n] \in Nat
        BY <2>1, Numbers
      <3>2. \A m \in DOMAIN probeFailures' : probeFailures'[m] \in Nat
        BY <2>1, Numbers
      <3>3. Count(n)' \in Nat
        BY <3>2 DEF Count
      <3>4. QED
        BY <3>1, <3>3, Numbers DEF LastTick
  <1>2. k \in Nat
    BY <1>1
  <1>3. DeadNode(n)' <=> LastTick' <= since'[n] + Delay + k * Interval
    BY DEF DeadNode
  <1> HIDE DEF k
  <1>4. k * Interval \in Nat
    BY <1>2, Products, Numbers
  <1>5. QED
    BY <1>1, <1>3, <1>4, Numbers

LEMMA DeadKept ==
    ASSUME NEW n \in Nodes, DeadNode(n), UNCHANGED nextTick, since'[n] = since[n],
           Count(n)' = Count(n), Probed(n)' <=> Probed(n)
    PROVE  DeadNode(n)'
  BY DEF DeadNode, LastTick

(* Each round either counts a failure or has the probe under way.          *)
LEMMA DeadTick ==
    ASSUME Inv, Tick, NEW n \in Nodes, DeadNode(n) PROVE DeadNode(n)'
  <1>1. /\ ~Probed(n) /\ Probed(n)' /\ Count(n)' = Count(n) /\ since'[n] = since[n]
        /\ nextTick' = nextTick + Interval
    BY DEF Tick, Inv, Rounds, Probed, Count, world
  <1> DEFINE c == Count(n)
  <1>2. c \in Nat /\ since[n] \in Nat /\ LastTick \in Int /\ nextTick \in Nat
    BY DeadTypes DEF Inv
  <1>3. LastTick <= since[n] + Delay + c * Interval
    <2>1. c + 0 = c
      BY <1>2
    <2>2. QED
      BY <1>1, <2>1 DEF DeadNode
  <1>4. LastTick' = LastTick + Interval
    BY <1>1, <1>2, Numbers DEF LastTick
  <1>5. c * Interval \in Nat /\ (c + 1) * Interval = c * Interval + Interval
    BY <1>2, Products, Numbers
  <1>6. DeadNode(n)' <=> LastTick' <= since[n] + Delay + (c + 1) * Interval
    BY <1>1 DEF DeadNode
  <1> HIDE DEF c
  <1>7. QED
    BY <1>2, <1>3, <1>4, <1>5, <1>6, Numbers

LEMMA DeadProbeFails ==
    ASSUME Inv, NEW p \in probes, ProbeFails(p), NEW n \in DOMAIN nodes,
           nodes'[n].status # "offline", DeadNode(n)
    PROVE  DeadNode(n)'
  <1>1. UNCHANGED <<now, loop, nextTick, since>> /\ probes' = probes \ {p}
    BY DEF ProbeFails, world
  <1>2. /\ n \in Nodes /\ Count(n) \in Nat /\ since[n] \in Nat /\ LastTick \in Int
    BY DeadTypes DEF Inv
  <1>3. CASE p.node # n
    <2>1. \/ probeFailures' = Delete(probeFailures, p.node)
          \/ probeFailures' = Put(probeFailures, p.node, 1 + Count(p.node))
      BY ProbeMarks DEF Inv
    <2>2. Count(n)' = Count(n)
      BY <1>3, <2>1 DEF Count, Put, Delete
    <2>3. Probed(n)' <=> Probed(n)
      BY <1>1, <1>3 DEF Probed
    <2>4. QED
      BY <1>1, <1>2, <2>2, <2>3, DeadKept
  <1>4. CASE p.node = n
    <2>1. /\ ~(1 + Count(n) >= FailThreshold)
          /\ probeFailures' = Put(probeFailures, n, 1 + Count(n))
      BY <1>4, ProbeMarks DEF Inv
    <2>2. Count(n)' = Count(n) + 1
      BY <1>2, <2>1 DEF Count, Put
    <2> DEFINE c == Count(n)
               k == c + 1 + (IF Probed(n)' THEN 1 ELSE 0)
    <2>3. LastTick <= since[n] + Delay + (c + 1) * Interval
      BY <1>4 DEF DeadNode, Probed
    <2>4. DeadNode(n)' <=> LastTick <= since[n] + Delay + k * Interval
      BY <1>1, <2>2 DEF DeadNode, LastTick
    <2>5. c + 1 \in Nat /\ k \in Nat /\ c + 1 <= k
      BY <1>2
    <2> HIDE DEF c, k
    <2>6. (c + 1) * Interval \in Nat /\ k * Interval \in Nat /\ (c + 1) * Interval <= k * Interval
      BY <2>5, Products, Numbers
    <2>7. QED
      BY <1>2, <2>3, <2>4, <2>6, Numbers
  <1>5. QED
    BY <1>3, <1>4

LEMMA DeadStep == ASSUME Inv, TypeOK', [Next]_vars PROVE DeadInv'
  <1> SUFFICES ASSUME NEW n \in DOMAIN nodes', health'[n] = "dead",
                      nodes'[n].status # "offline"
               PROVE  DeadNode(n)'
    BY DEF DeadInv, DeadNode
  <1>0. n \in Nodes
    BY DEF TypeOK
  <1>1. n \in DOMAIN nodes /\ health[n] = "dead" /\ nodes[n].status # "offline" => DeadNode(n)
    BY DEF Inv, DeadInv, DeadNode
  <1>2. CASE Tick
    <2>1. n \in DOMAIN nodes /\ nodes[n].status # "offline"
      BY <1>2, TickMarks DEF Inv
    <2>2. QED
      BY <1>0, <1>1, <1>2, <2>1, DeadTick DEF Tick, world
  <1>3. CASE ListNodes
    <2>1. /\ UNCHANGED <<nodes, health, since, nextTick, probeFailures>>
          /\ loop = "listing" /\ probes' = {[node |-> m, at |-> now] : m \in NotOffline}
      BY <1>3 DEF ListNodes, world
    <2>2. Probed(n) /\ Probed(n)' /\ Count(n)' = Count(n)
      <3> DEFINE e == [node |-> n, at |-> now]
      <3>1. e \in probes' /\ e.node = n
        BY <2>1 DEF NotOffline
      <3> HIDE DEF e
      <3>2. QED
        BY <2>1, <3>1 DEF Probed, Count
    <2>3. QED
      BY <1>0, <1>1, <2>1, <2>2, DeadKept
  <1>4. CASE ProbesDone \/ Advance \/ UNCHANGED vars
    <2>1. /\ UNCHANGED <<nodes, health, since, nextTick, probeFailures, probes>>
          /\ UNCHANGED loop \/ (loop = "probing" /\ loop' = "select")
      BY <1>4 DEF ProbesDone, Advance, vars, world, checker
    <2>2. (Probed(n)' <=> Probed(n)) /\ Count(n)' = Count(n)
      BY <2>1 DEF Probed, Count
    <2>3. QED
      BY <1>0, <1>1, <2>1, <2>2, DeadKept
  <1>5. ASSUME NEW p \in probes, ProbeSucceeds(p) PROVE DeadNode(n)'
    <2>1. /\ UNCHANGED <<nodes, health, since, nextTick, loop>> /\ p.node # n
          /\ probes' = probes \ {p} /\ probeFailures' = Delete(probeFailures, p.node)
      BY <1>5 DEF ProbeSucceeds, world
    <2>2. (Probed(n)' <=> Probed(n)) /\ Count(n)' = Count(n)
      BY <2>1 DEF Probed, Count, Delete
    <2>3. QED
      BY <1>0, <1>1, <2>1, <2>2, DeadKept
  <1>6. ASSUME NEW p \in probes, ProbeFails(p) PROVE DeadNode(n)'
    <2>1. n \in DOMAIN nodes /\ nodes[n].status # "offline" /\ health[n] = "dead"
      BY <1>6, ProbeMarks DEF Inv, ProbeFails, world
    <2>2. QED
      BY <1>1, <1>6, <2>1, DeadProbeFails
  <1>7. ASSUME NEW b \in beats, ReceiveBeat(b) PROVE DeadNode(n)'
    <2>1. UNCHANGED <<now, health, since, nextTick, loop, probes, probeFailures>>
      BY <1>7 DEF ReceiveBeat, checker
    <2>2. CASE b.node = n
      <3>1. now <= b.at + Delay /\ b.at <= since[n] /\ LastTick <= now /\ b.at \in Nat
        BY <1>7, <2>1, <2>2, Numbers DEF Inv, BeatsInv, Rounds, TypeOK, InFlight
      <3>2. LastTick' <= since'[n] + Delay
        BY <1>0, <2>1, <3>1, DeadTypes, Numbers DEF Inv, LastTick
      <3>3. QED
        BY <1>0, <3>2, DeadLately
    <2>3. CASE b.node # n
      <3>1. n \in DOMAIN nodes /\ nodes'[n].status = nodes[n].status
        BY <1>7, <2>3, BeatMarks DEF Inv
      <3>2. (Probed(n)' <=> Probed(n)) /\ Count(n)' = Count(n)
        BY <2>1 DEF Probed, Count
      <3>3. QED
        BY <1>0, <1>1, <2>1, <3>1, <3>2, DeadKept
    <2>4. QED
      BY <2>2, <2>3
  <1>8. ASSUME NEW m \in Nodes,
               Join(m) \/ SendBeat(m) \/ Fail(m) \/ Close(m) \/ Depart(m)
        PROVE  DeadNode(n)'
    <2>1. UNCHANGED <<now, nextTick, loop, probes, probeFailures>>
      BY <1>8 DEF Join, SendBeat, Fail, Close, Depart, checker
    <2>2. (Probed(n)' <=> Probed(n)) /\ Count(n)' = Count(n)
      BY <2>1 DEF Probed, Count
    <2>3. CASE n # m \/ SendBeat(m)
      <3>1. health[n] = "dead" /\ since'[n] = since[n]
        BY <1>0, <1>8, <2>3, DeadTypes
           DEF Join, SendBeat, Fail, Close, Depart, Inv, TypeOK
      <3>2. n \in DOMAIN nodes /\ nodes'[n] = nodes[n]
        BY <1>8, <2>3, JoinAdds, DepartRemoves DEF SendBeat, Fail, Close, Inv
      <3>3. QED
        BY <1>0, <1>1, <2>1, <2>2, <3>1, <3>2, DeadKept
    <2>4. CASE n = m /\ ~SendBeat(m)
      <3>1. Fail(m) \/ Depart(m)
        BY <1>8, <2>4, DeadTypes DEF Join, Close, Inv
      <3>2. since'[n] = now
        BY <1>0, <2>4, <3>1, DeadTypes DEF Fail, Depart, Inv, TypeOK
      <3>3. LastTick' <= since'[n] + Delay
        BY <2>1, <3>2, DeadTypes, Numbers DEF Inv, Rounds, LastTick
      <3>4. QED
        BY <1>0, <3>3, DeadLately
    <2>5. QED
      BY <2>3, <2>4
  <1>9. QED
    BY <1>2, <1>3, <1>4, <1>5, <1>6, <1>7, <1>8 DEF Next

-----------------------------------------------------------------------------
LEMMA InvHolds == Spec => []Inv
  <1>1. Inv /\ [Next]_vars => Inv'
    BY TypeStep, RoundsStep, BeatsStep, MembersStep, HeardStep, UpStep, DeadStep DEF Inv
  <1>2. QED
    BY <1>1, InvInit, PTL DEF Spec

(* Every reachable state is of the types the declarations say: in          *)
(* particular, no count of failed probes reaches the threshold and stays.  *)
THEOREM TypeCorrect == Spec => []TypeOK
  <1>1. Inv => TypeOK
    BY DEF Inv
  <1>2. QED
    BY <1>1, InvHolds, PTL

(* A node that stops beating is shown as offline one ticker period after   *)
(* the timeout, whatever its probes say.                                   *)
THEOREM SilentNodesGoOffline == Spec => []SilentIsOffline
  <1>1. Inv => SilentIsOffline
    <2> SUFFICES ASSUME Inv, NEW n \in DOMAIN nodes, nodes[n].status # "offline"
                 PROVE  ~(now - nodes[n].last > Timeout + Interval)
      BY DEF SilentIsOffline
    <2>1. /\ now \in Nat /\ nextTick \in Nat /\ nodes[n].last \in Nat
          /\ nextTick - Interval <= nodes[n].last + Timeout
      BY Numbers DEF Inv, TypeOK, Entry, Heard, LastTick
    <2>2. now <= nextTick
      BY <2>1, Numbers DEF Inv, TypeOK, Rounds, LastTick
    <2>3. QED
      BY <2>1, <2>2, Numbers
  <1>2. QED
    BY <1>1, InvHolds, PTL

(* A node whose process died is offline after FailThreshold rounds, the    *)
(* way of its last beat and the time of a probe.                           *)
THEOREM DeadNodesGoOffline == Spec => []DeadIsOffline
  <1>1. Inv => DeadIsOffline
    <2> SUFFICES ASSUME Inv, NEW n \in DOMAIN nodes, health[n] = "dead",
                        nodes[n].status # "offline"
                 PROVE  ~(now > since[n] + FailThreshold * Interval + 2 * Delay)
      BY DEF DeadIsOffline
    <2> DEFINE c == Count(n)
               k == c + (IF Probed(n) THEN 1 ELSE 0)
    <2>1. /\ n \in Nodes /\ now \in Nat /\ since[n] \in Nat /\ c \in Nat /\ LastTick \in Int
          /\ nextTick \in Nat
      BY DeadTypes DEF Inv
    <2>2. c + 1 <= FailThreshold
      BY <2>1, Numbers DEF Inv, TypeOK, Count
    <2>3. LastTick <= since[n] + Delay + k * Interval
      BY DEF Inv, DeadInv
    <2>4. k = c \/ k = c + 1
      BY <2>1
    <2>5. loop = "select" => k = c
      BY <2>1 DEF Inv, Rounds, Probed
    <2>6. /\ loop = "select" => now <= LastTick + Interval
          /\ loop = "listing" => now <= LastTick
          /\ loop = "probing" => now <= LastTick + Delay
          /\ loop \in {"select", "listing", "probing"}
      BY <2>1, Numbers DEF Inv, Rounds, LastTick, TypeOK
    <2> HIDE DEF c, k
    <2>7. /\ c * Interval \in Nat /\ (c + 1) * Interval = c * Interval + Interval
          /\ (c + 1) * Interval <= FailThreshold * Interval
          /\ FailThreshold * Interval \in Nat
      <3>1. Interval \in Nat /\ FailThreshold \in Nat
        BY Numbers
      <3>2. c + 1 \in Nat
        BY <2>1
      <3>3. c * Interval \in Nat /\ (c + 1) * Interval = c * Interval + Interval
        BY ONLY <2>1, <3>1, Products, Zenon
      <3>4. FailThreshold * Interval \in Nat
        BY ONLY <3>1, Products, Zenon
      <3>5. (c + 1) * Interval <= FailThreshold * Interval
        BY ONLY <2>2, <3>1, <3>2, Products, Zenon
      <3> QED
        BY <3>3, <3>4, <3>5
    <2>8. CASE k = c
      BY <2>1, <2>3, <2>6, <2>7, <2>8, Numbers
    <2>9. CASE k = c + 1
      BY <2>1, <2>3, <2>5, <2>6, <2>7, <2>9, Numbers
    <2>10. QED
      BY <2>4, <2>8, <2>9
  <1>2. QED
    BY <1>1, InvHolds, PTL

(* Fewer than FailThreshold failed probes in all never take a node offline *)
(* that beats.                                                             *)
THEOREM AlarmsAreTrue == Spec => []NoFalseAlarm
  <1>1. Inv => NoFalseAlarm
    BY DEF Inv, UpInv, TypeOK, NoFalseAlarm
  <1>2. QED
    BY <1>1, InvHolds, PTL

(* A node that is up and was marked offline all the same is online again   *)
(* after one beat.                                                         *)
THEOREM MarksAreBrief == Spec => []OfflineIsBrief
  <1>1. Inv => OfflineIsBrief
    <2> SUFFICES ASSUME Inv, NEW n \in DOMAIN nodes, health[n] = "up",
                        nodes[n].status = "offline"
                 PROVE  now <= wentOff[n] + Spacing + Delay
      BY Numbers DEF OfflineIsBrief, Spacing, Inv, TypeOK
    <2>1. n \in Nodes /\ wentOff[n] \in Nat
      BY Numbers DEF Inv, TypeOK
    <2>2. wentOff[n] + Spacing \in Nat
      BY <2>1, Numbers
    <2>3. QED
      BY <2>1, <2>2, BeatInTime DEF Inv, UpInv
  <1>2. QED
    BY <1>1, InvHolds, PTL

(* A node that has left stays away, whatever beats and probes come in late. *)
THEOREM DepartedForGood == Spec => []DepartedStaysDeparted
  <1>1. Inv => DepartedStaysDeparted
    BY DEF Inv, TypeOK, Members, DepartedStaysDeparted
  <1>2. QED
    BY <1>1, InvHolds, PTL
=============================================================================
