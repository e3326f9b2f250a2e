----------------------------- MODULE HealthCheck ----------------------------
(***************************************************************************)
(* When a node is shown as offline: internal/coordinator/health.go on top  *)
(* of the registry, with a clock, the heartbeats of                        *)
(* internal/node/agent.go and the answers of GET /healthz.                 *)
(*                                                                         *)
(* The loop marks silent nodes, takes a list of the nodes that are not     *)
(* offline, probes them all at once and waits for every answer.  Beats,    *)
(* registrations and deregistrations go on meanwhile, so every answer is   *)
(* about a node as it was when the list was taken.                         *)
(*                                                                         *)
(* A node is up, or mute (it answers probes, but its heartbeats do not get *)
(* through: the loop hangs, the token is refused), or dead.                *)
(***************************************************************************)
EXTENDS Registry

CONSTANTS
    Nodes,          \* node ids, each of which registers at most once
    Timeout,        \* silence after which a node is stale (30 s)
    Interval,       \* period of the checker's ticker (10 s)
    BeatInterval,   \* heartbeatInterval of the agent (15 s)
    FailThreshold,  \* failed probes that take a node offline (3)
    Delay,          \* longest time a probe or a heartbeat takes
    MaxGlitches,    \* bound on failed probes of nodes that are up
    MaxTime         \* bound on the clock

ASSUME HealthAssumption ==
    /\ {Timeout, Interval, BeatInterval, FailThreshold} \subseteq Nat \ {0}
    /\ {Delay, MaxGlitches, MaxTime} \subseteq Nat
    /\ Delay < Interval

(* A beat that is sent when it is due arrives before the node is stale,    *)
(* the first one too, whose interval begins when the registration's answer *)
(* has arrived.  Of the 30 s of the timeout, 15 s are for the interval and *)
(* so 7.5 s for either way; the HTTP client would wait for 10 s.           *)
ASSUME BeatAssumption == BeatInterval + 2 * Delay <= Timeout

VARIABLES
    now,            \* the clock
    loop,           \* where HealthChecker.loop is
    nextTick,       \* when its ticker fires next
    probes,         \* the probes under way: node and time of start
    probeFailures,  \* HealthChecker.probeFailures
    health,         \* what each node can do
    nextBeat,       \* when the agent of each node beats next
    beats,          \* heartbeats under way: node and time of sending
    since,          \* history: when each node got into its present health
    wentOff,        \* history: when each node was last marked offline
    glitches,       \* history: failed probes of nodes that were up
    departed        \* history: nodes that have deregistered

checker == <<loop, nextTick, probes, probeFailures>>
world   == <<health, nextBeat, beats, since, departed>>
vars    == <<nodes, nodeTokens, now, checker, world, wentOff, glitches>>

Times == 0..(MaxTime + Timeout + Interval + BeatInterval + Delay)
InFlight == [node : Nodes, at : Times]

TypeOK ==
    /\ DOMAIN nodes \subseteq Nodes
    /\ \A n \in DOMAIN nodes : nodes[n] \in Entry(Nodes, Times)
    /\ nodeTokens = EmptyMap
    /\ now \in 0..MaxTime
    /\ loop \in {"select", "listing", "probing"}
    /\ nextTick \in Times
    /\ probes \subseteq InFlight
    /\ DOMAIN probeFailures \subseteq Nodes
    /\ \A n \in DOMAIN probeFailures : probeFailures[n] \in 1..(FailThreshold - 1)
    /\ health \in [Nodes -> {"absent", "up", "mute", "leaving", "dead"}]
    /\ nextBeat \in [Nodes -> Times]
    /\ beats \subseteq InFlight
    /\ since \in [Nodes -> Times]
    /\ wentOff \in [Nodes -> Times]
    /\ glitches \in 0..MaxGlitches
    /\ departed \subseteq Nodes

Init ==
    /\ NewRegistry
    /\ now = 0
    /\ loop = "select"
    /\ nextTick = Interval
    /\ probes = {}
    /\ probeFailures = EmptyMap
    /\ health = [n \in Nodes |-> "absent"]
    /\ nextBeat = [n \in Nodes |-> 0]
    /\ beats = {}
    /\ since = [n \in Nodes |-> 0]
    /\ wentOff = [n \in Nodes |-> 0]
    /\ glitches = 0
    /\ departed = {}

-----------------------------------------------------------------------------
(* The checker.                                                            *)

NotOffline == {n \in DOMAIN nodes : nodes[n].status # "offline"}

(* wentOff follows the registry: the nodes this step takes offline.        *)
Watch == wentOff' = [n \in Nodes |->
            IF n \in NotOffline /\ n \in DOMAIN nodes' /\ nodes'[n].status = "offline"
            THEN now ELSE wentOff[n]]

(* Mutant of Tick: a round only probes.                                    *)
TickUnmarked ==
    /\ loop = "select" /\ now >= nextTick
    /\ loop' = "listing"
    /\ nextTick' = nextTick + Interval
    /\ UNCHANGED <<nodes, nodeTokens, now, probes, probeFailures, world, wentOff, glitches>>

(* The ticker fires: MarkOfflineIfStale.                                   *)
Tick ==
    /\ loop = "select" /\ now >= nextTick
    /\ MarkOfflineIfStale(now, Timeout)
    /\ loop' = "listing"
    /\ nextTick' = nextTick + Interval
    /\ Watch
    /\ UNCHANGED <<now, probes, probeFailures, world, glitches>>

(* probeNodes: the list of nodes and a goroutine for each one not offline. *)
ListNodes ==
    /\ loop = "listing"
    /\ probes' = {[node |-> n, at |-> now] : n \in NotOffline}
    /\ loop' = "probing"
    /\ UNCHANGED <<nodes, nodeTokens, now, nextTick, probeFailures, world, wentOff, glitches>>

(* clearProbeFailure.                                                      *)
ProbeSucceeds(p) ==
    /\ health[p.node] \in {"up", "mute"}
    /\ probes' = probes \ {p}
    /\ probeFailures' = Delete(probeFailures, p.node)
    /\ UNCHANGED <<nodes, nodeTokens, now, loop, nextTick, world, wentOff, glitches>>

(* Mutants of Failed: off by one, either way.                              *)
FailedLate(count)  == count > FailThreshold
FailedEarly(count) == count >= FailThreshold - 1

(* The failures in a row after which recordProbeFailure acts.              *)
Failed(count) == count >= FailThreshold

(* recordProbeFailure: the node may be gone by now, or already offline.    *)
ProbeFails(p) ==
    LET n == p.node
        count == 1 + IF n \in DOMAIN probeFailures THEN probeFailures[n] ELSE 0
    IN  /\ probes' = probes \ {p}
        /\ IF health[n] = "up"
           THEN glitches < MaxGlitches /\ glitches' = glitches + 1
           ELSE health[n] \in {"absent", "leaving", "dead"} /\ UNCHANGED glitches
        /\ IF Failed(count)
           THEN /\ probeFailures' = Delete(probeFailures, n)
                /\ IF Exists(n) THEN UpdateStatus(n, "offline")
                                ELSE UNCHANGED <<nodes, nodeTokens>>
           ELSE /\ probeFailures' = Put(probeFailures, n, count)
                /\ UNCHANGED <<nodes, nodeTokens>>
        /\ Watch
        /\ UNCHANGED <<now, loop, nextTick, world>>

(* wg.Wait returns.                                                        *)
ProbesDone ==
    /\ loop = "probing" /\ probes = {}
    /\ loop' = "select"
    /\ UNCHANGED <<nodes, nodeTokens, now, nextTick, probes, probeFailures,
                   world, wentOff, glitches>>

-----------------------------------------------------------------------------
(* The nodes.                                                              *)

(* A node registers; its agent's ticker starts when the answer is there.   *)
Join(n) ==
    /\ health[n] = "absent" /\ n \notin departed
    /\ AddNode(n, n, now)
    /\ health' = [health EXCEPT ![n] = "up"]
    /\ since' = [since EXCEPT ![n] = now]
    /\ \E way \in 0..Delay : nextBeat' = [nextBeat EXCEPT ![n] = now + way + BeatInterval]
    /\ UNCHANGED <<now, checker, beats, departed, wentOff, glitches>>

SendBeat(n) ==
    /\ health[n] = "up" /\ now >= nextBeat[n]
    /\ beats' = beats \cup {[node |-> n, at |-> now]}
    /\ nextBeat' = [nextBeat EXCEPT ![n] = now + BeatInterval]
    /\ UNCHANGED <<nodes, nodeTokens, now, checker, health, since, departed, wentOff, glitches>>

(* Mutants of ReceiveBeat: an offline node stays offline; an unknown one is *)
(* added.                                                                  *)
ReceiveBeatTimeOnly(b) ==
    /\ beats' = beats \ {b}
    /\ IF Exists(b.node) THEN RecordHeartbeat(b.node, nodes[b.node].status, now)
                         ELSE UNCHANGED <<nodes, nodeTokens>>
    /\ UNCHANGED <<now, checker, health, nextBeat, since, departed, wentOff, glitches>>

ReceiveBeatAdds(b) ==
    /\ beats' = beats \ {b}
    /\ RecordHeartbeat(b.node, "online", now) \/ AddNode(b.node, b.node, now)
    /\ UNCHANGED <<now, checker, health, nextBeat, since, departed, wentOff, glitches>>

(* handleHeartbeat: whatever the checker thought, the node is online.      *)
ReceiveBeat(b) ==
    /\ beats' = beats \ {b}
    /\ IF Exists(b.node) THEN RecordHeartbeat(b.node, "online", now)
                         ELSE UNCHANGED <<nodes, nodeTokens>>
    /\ UNCHANGED <<now, checker, health, nextBeat, since, departed, wentOff, glitches>>

Fail(n) ==
    /\ health[n] = "up"
    /\ \E h \in {"mute", "dead"} : health' = [health EXCEPT ![n] = h]
    /\ since' = [since EXCEPT ![n] = now]
    /\ UNCHANGED <<nodes, nodeTokens, now, checker, nextBeat, beats, departed, wentOff, glitches>>

(* Shutdown: the loop has ended, the handler is closed ...                 *)
Close(n) ==
    /\ health[n] = "up"
    /\ health' = [health EXCEPT ![n] = "leaving"]
    /\ UNCHANGED <<nodes, nodeTokens, now, checker, nextBeat, beats, since, departed,
                   wentOff, glitches>>

(* ... and the node deregisters, or fails to and looks like a dead one.    *)
Depart(n) ==
    /\ health[n] = "leaving"
    /\ \/ /\ RemoveNode(n)
          /\ health' = [health EXCEPT ![n] = "absent"]
          /\ departed' = departed \cup {n}
          /\ UNCHANGED since
       \/ /\ health' = [health EXCEPT ![n] = "dead"]
          /\ since' = [since EXCEPT ![n] = now]
          /\ UNCHANGED <<nodes, nodeTokens, departed>>
    /\ UNCHANGED <<now, checker, nextBeat, beats, wentOff, glitches>>

(* Time passes unless something is due: the loop has work it does not wait *)
(* for, a beat must go out, or something was under way for Delay already.  *)
Advance ==
    /\ now < MaxTime
    /\ \/ loop = "select" /\ now < nextTick
       \/ loop = "probing" /\ probes # {}
    /\ \A n \in Nodes : health[n] = "up" => now < nextBeat[n]
    /\ \A f \in probes \cup beats : now < f.at + Delay
    /\ now' = now + 1
    /\ UNCHANGED <<nodes, nodeTokens, checker, world, wentOff, glitches>>

Next ==
    \/ Tick \/ ListNodes \/ ProbesDone \/ Advance
    \/ \E p \in probes : ProbeSucceeds(p) \/ ProbeFails(p)
    \/ \E b \in beats : ReceiveBeat(b)
    \/ \E n \in Nodes : Join(n) \/ SendBeat(n) \/ Fail(n) \/ Close(n) \/ Depart(n)

Spec == Init /\ [][Next]_vars

-----------------------------------------------------------------------------
(* A node whose heartbeats stopped is offline one ticker period after the  *)
(* timeout, although its probes succeed, beats are late and earlier marks  *)
(* may have been undone.                                                   *)
SilentIsOffline ==
    \A n \in DOMAIN nodes :
        now - nodes[n].last > Timeout + Interval => nodes[n].status = "offline"

(* A node whose process died is offline after FailThreshold rounds of      *)
(* probes.  The rounds count from its last beat to arrive, which can undo  *)
(* a mark and find the failures forgotten: hence three periods, the way of *)
(* that beat and the time of the last probe.                               *)
DeadIsOffline ==
    \A n \in DOMAIN nodes :
        health[n] = "dead" /\ now > since[n] + FailThreshold * Interval + 2 * Delay
            => nodes[n].status = "offline"

(* Fewer than FailThreshold failed probes never take a node offline that   *)
(* beats: not a late beat, not a slow probe, not a count left over from    *)
(* before.                                                                 *)
NoFalseAlarm ==
    glitches < FailThreshold =>
        \A n \in DOMAIN nodes : health[n] = "up" => nodes[n].status # "offline"

(* A node that is up but was marked offline is back after its next beat,   *)
(* which its registration's answer may have put off.                       *)
OfflineIsBrief ==
    \A n \in DOMAIN nodes :
        health[n] = "up" /\ nodes[n].status = "offline"
            => now <= wentOff[n] + BeatInterval + 2 * Delay

(* A probe or a beat that comes in after the node has left changes no      *)
(* registry: the node does not come back.                                  *)
DepartedStaysDeparted == \A n \in departed : ~Exists(n)
=============================================================================
