------------------------------ MODULE Lifecycle ------------------------------
(***************************************************************************)
(* The life of one `claw-mesh up' process: newUpCmd and startLocalNode of  *)
(* cmd/claw-mesh/main.go, Server.Start and Server.Shutdown, the health     *)
(* checker's Start, Stop and loop, and the agent of the local machine that *)
(* runs in the same process.                                               *)
(*                                                                         *)
(* Six goroutines meet here: RunE, the one that serves, the health loop,   *)
(* the heartbeat loop of the local agent, the handlers of the coordinator  *)
(* and those of the local node.  RunE sleeps for 200 ms to let the server  *)
(* listen first; nothing makes that so, and nothing here assumes it.       *)
(*                                                                         *)
(* The first signal is kept in ctx until RunE looks at it; the later ones  *)
(* do nothing, because stop is called when RunE returns.  Whether a        *)
(* heartbeat succeeds, what a message is routed by and what its client     *)
(* gets are the matter of Membership and Forwarding: here a message is a   *)
(* handler that http.Server.Shutdown waits for.                            *)
(***************************************************************************)
EXTENDS Naturals

CONSTANTS
    Messages    \* the messages that clients send in the life of the process

VARIABLES
    port,       \* who holds the coordinator's port when the process starts
    local,      \* --no-local is not given
    main,       \* where RunE is
    exit,       \* what the process ended with
    signalled,  \* ctx is done
    server,     \* where srv.Start is
    errCh,      \* errCh holds what srv.Start returned
    health,     \* HealthChecker.loop
    healthStop, \* HealthChecker.stopCh is closed
    handler,    \* the listener of the local node
    agent,      \* localAgent is not nil
    agentStop,  \* Agent.stopCh is closed
    beats,      \* the heartbeat loop of the local agent
    entry,      \* the registry that lists the local node
    message,    \* where each message is
    slow        \* history: a call of the local agent got no answer in time

serving == <<server, errCh>>
checker == <<health, healthStop>>
node    == <<handler, agent, agentStop, beats, entry>>
vars    == <<port, local, main, exit, signalled, serving, checker, node, message, slow>>

-----------------------------------------------------------------------------
Stages == {"unsent", "accepted", "working", "over"}

TypeOK ==
    /\ port \in {"free", "taken", "coordinator"}
    /\ local \in BOOLEAN
    /\ main \in {"starting", "registering", "selecting", "stopping loop", "leaving",
                 "stopping health", "draining", "exited"}
    /\ exit \in {"none", "ok", "error"}
    /\ signalled \in BOOLEAN
    /\ server \in {"starting", "serving", "closed", "failed"}
    /\ errCh \in BOOLEAN
    /\ health \in {"off", "waiting", "probing", "done"}
    /\ healthStop \in BOOLEAN
    /\ handler \in {"off", "open", "closed"}
    /\ agent \in BOOLEAN
    /\ agentStop \in BOOLEAN
    /\ beats \in {"off", "waiting", "calling", "done"}
    /\ entry \in {"nowhere", "own", "other"}
    /\ message \in [Messages -> Stages]
    /\ slow \in BOOLEAN

(* A second coordinator on the machine, or any other program, may have     *)
(* taken the port.                                                         *)
Init ==
    /\ port \in {"free", "taken", "coordinator"}
    /\ local \in BOOLEAN
    /\ main = "starting"
    /\ exit = "none"
    /\ signalled = FALSE
    /\ server = "starting" /\ errCh = FALSE
    /\ health = "off" /\ healthStop = FALSE
    /\ handler = "off"
    /\ agent = FALSE /\ agentStop = FALSE
    /\ beats = "off"
    /\ entry = "nowhere"
    /\ message = [m \in Messages |-> "unsent"]
    /\ slow = FALSE

(* With the process everything in it stops.                                *)
Running == main # "exited"

(* The handlers of the coordinator that http.Server.Shutdown waits for.    *)
InProgress == {m \in Messages : message[m] \in {"accepted", "working"}}

-----------------------------------------------------------------------------
(* Server.Start, in its own goroutine.                                     *)

(* Mutant of Listen: Start gives up when it comes after Stop.              *)
ListenUnlessStopped ==
    /\ Running /\ server = "starting" /\ port = "free"
    /\ IF healthStop THEN server' = "closed" /\ errCh' = TRUE /\ health' = health
                     ELSE server' = "serving" /\ errCh' = errCh /\ health' = "waiting"
    /\ UNCHANGED <<port, local, main, exit, signalled, healthStop, node, message, slow>>

(* net.Listen, health.Start, and Serve.                                    *)
Listen ==
    /\ Running /\ server = "starting" /\ port = "free"
    /\ server' = "serving"
    /\ health' = "waiting"
    /\ UNCHANGED <<port, local, main, exit, signalled, errCh, healthStop, node, message, slow>>

(* Start returns before health.Start: there will never be a loop.          *)
ListenFails ==
    /\ Running /\ server = "starting" /\ port # "free"
    /\ server' = "failed" /\ errCh' = TRUE
    /\ UNCHANGED <<port, local, main, exit, signalled, checker, node, message, slow>>

(* Serve gives up on its listener.                                         *)
ServeFails ==
    /\ Running /\ server = "serving"
    /\ server' = "closed" /\ errCh' = TRUE
    /\ UNCHANGED <<port, local, main, exit, signalled, checker, node, message, slow>>

(* The health loop.  A round of probes takes 3 s at most; the select looks *)
(* at stopCh between two rounds only.                                      *)
Probe ==
    /\ Running /\ health = "waiting"
    /\ health' = "probing"
    /\ UNCHANGED <<port, local, main, exit, signalled, serving, healthStop, node, message, slow>>

ProbesDone ==
    /\ Running /\ health = "probing"
    /\ health' = "waiting"
    /\ UNCHANGED <<port, local, main, exit, signalled, serving, healthStop, node, message, slow>>

HealthLoopEnds ==
    /\ Running /\ health = "waiting" /\ healthStop
    /\ health' = "done"
    /\ UNCHANGED <<port, local, main, exit, signalled, serving, healthStop, node, message, slow>>

-----------------------------------------------------------------------------
(* RunE up to its select.                                                  *)

(* Mutant of StartLocalNode: the handler is started after the registration.*)
StartLocalNodeLate ==
    /\ main = "starting"
    /\ main' = IF local THEN "registering" ELSE "selecting"
    /\ UNCHANGED <<port, local, exit, signalled, serving, checker, node, message, slow>>

(* startLocalNode: StartHandler succeeds, or port 9121 is taken and there  *)
(* is no local node.                                                       *)
StartLocalNode ==
    /\ main = "starting"
    /\ \/ local /\ handler' = "open" /\ main' = "registering"
       \/ handler' = handler /\ main' = "selecting"
    /\ UNCHANGED <<port, local, exit, signalled, serving, checker,
                   agent, agentStop, beats, entry, message, slow>>

(* Mutant of Answering: Register does not look at the status of the answer.*)
AnsweringAnybody == IF server = "serving" THEN "own" ELSE port

(* The registry that answers on the port of the coordinator.               *)
Answering ==
    IF server = "serving" THEN "own"
    ELSE IF port = "coordinator" THEN "other" ELSE "nowhere"

(* Register is answered 201: the heartbeat loop starts.                    *)
Registered ==
    /\ main = "registering" /\ Answering # "nowhere"
    /\ entry' = Answering
    /\ agent' = TRUE
    /\ beats' = "waiting"
    /\ main' = "selecting"
    /\ UNCHANGED <<port, local, exit, signalled, serving, checker,
                   handler, agentStop, message, slow>>

(* Register fails: startLocalNode returns nil, nobody tries again, and the *)
(* handler goes on listening.                                              *)
RegisterFails ==
    /\ main = "registering" /\ Answering = "nowhere"
    /\ main' = "selecting"
    /\ UNCHANGED <<port, local, exit, signalled, serving, checker, node, message, slow>>

(* The answer is late, lost or an error; the node may be listed, but this  *)
(* process has given it up.                                                *)
RegisterTimesOut ==
    /\ main = "registering" /\ Answering # "nowhere"
    /\ entry' \in {entry, Answering}
    /\ slow' = TRUE
    /\ main' = "selecting"
    /\ UNCHANGED <<port, local, exit, signalled, serving, checker,
                   handler, agent, agentStop, beats, message>>

(* SIGINT or SIGTERM, at any time.                                         *)
Signal ==
    /\ Running /\ ~signalled
    /\ signalled' = TRUE
    /\ UNCHANGED <<port, local, main, exit, serving, checker, node, message, slow>>

-----------------------------------------------------------------------------
(* RunE from its select on.  The way out that the select chose is in       *)
(* `exit': "ok" leads through Server.Shutdown, "error" does not.           *)

AfterAgent(outcome) ==
    IF outcome = "ok"
    THEN main' = "stopping health" /\ healthStop' = TRUE
    ELSE main' = "exited" /\ healthStop' = healthStop

(* Mutant of Chosen: localAgent.Shutdown does not close stopCh.            *)
ChosenUnclosed(outcome) ==
    /\ main = "selecting"
    /\ exit' = outcome
    /\ IF agent
       THEN main' = "stopping loop" /\ healthStop' = healthStop
       ELSE AfterAgent(outcome)
    /\ UNCHANGED <<port, local, signalled, serving, health, node, message, slow>>

(* localAgent.Shutdown, if there is one, begins with closing stopCh.       *)
Chosen(outcome) ==
    /\ main = "selecting"
    /\ exit' = outcome
    /\ agentStop' = agent
    /\ IF agent
       THEN main' = "stopping loop" /\ healthStop' = healthStop
       ELSE AfterAgent(outcome)
    /\ UNCHANGED <<port, local, signalled, serving, health,
                   handler, agent, beats, entry, message, slow>>

SelectSignal == signalled /\ Chosen("ok")

(* Mutant of SelectError: the process just ends.                           *)
SelectErrorAbrupt ==
    /\ errCh /\ main = "selecting"
    /\ exit' = "error"
    /\ main' = "exited"
    /\ UNCHANGED <<port, local, signalled, serving, checker, node, message, slow>>

SelectError == errCh /\ Chosen("error")

(* The heartbeat loop: a call takes 10 s at most.                          *)
Beat ==
    /\ Running /\ beats = "waiting"
    /\ beats' = "calling"
    /\ UNCHANGED <<port, local, main, exit, signalled, serving, checker,
                   handler, agent, agentStop, entry, message, slow>>

BeatDone ==
    /\ Running /\ beats = "calling"
    /\ beats' = "waiting"
    /\ UNCHANGED <<port, local, main, exit, signalled, serving, checker,
                   handler, agent, agentStop, entry, message, slow>>

HeartbeatLoopEnds ==
    /\ Running /\ beats = "waiting" /\ agentStop
    /\ beats' = "done"
    /\ UNCHANGED <<port, local, main, exit, signalled, serving, checker,
                   handler, agent, agentStop, entry, message, slow>>

(* The loop is over: the node's listener closes.  Its own Shutdown waits   *)
(* for 5 s at most, so the node may go while it works on a message.        *)
CloseHandler ==
    /\ main = "stopping loop" /\ beats = "done"
    /\ handler' = "closed"
    /\ main' = "leaving"
    /\ UNCHANGED <<port, local, exit, signalled, serving, checker,
                   agent, agentStop, beats, entry, message, slow>>

(* deregister: a call that fails is logged.                                *)
Deregister ==
    /\ main = "leaving"
    /\ \/ entry' = (IF entry = Answering THEN "nowhere" ELSE entry) /\ slow' = slow
       \/ entry' = entry /\ slow' = TRUE
    /\ AfterAgent(exit)
    /\ UNCHANGED <<port, local, exit, signalled, serving, health,
                   handler, agent, agentStop, beats, message>>

(* health.Stop returns: http.Shutdown closes the listener, Serve returns.  *)
StopServer ==
    /\ main = "stopping health" /\ health = "done"
    /\ server' = "closed" /\ errCh' = TRUE
    /\ main' = "draining"
    /\ UNCHANGED <<port, local, exit, signalled, checker, node, message, slow>>

(* http.Shutdown returns when no handler is left: context.Background() has *)
(* no deadline.                                                            *)
Drained ==
    /\ main = "draining" /\ InProgress = {}
    /\ main' = "exited"
    /\ UNCHANGED <<port, local, exit, signalled, serving, checker, node, message, slow>>

-----------------------------------------------------------------------------
(* The messages.                                                           *)

Move(m, from, to) ==
    /\ Running /\ message[m] = from
    /\ message' = [message EXCEPT ![m] = to]
    /\ UNCHANGED <<port, local, main, exit, signalled, serving, checker, node, slow>>

Accept(m) == server = "serving" /\ Move(m, "unsent", "accepted")

(* The local node is routed to as long as the registry lists it; without   *)
(* it, or with its listener gone, the handler fails at once.               *)
(* (What other nodes are given is followed in Forwarding.)                 *)
Forward(m) ==
    IF entry = "own" /\ handler = "open"
    THEN Move(m, "accepted", "working")
    ELSE Move(m, "accepted", "over")

(* The node answers, or the forwarder's time is over: the handler returns, *)
(* whether or not its client can still be written to.                      *)
HandlerReturns(m) == Move(m, "working", "over")

-----------------------------------------------------------------------------
Start == Listen \/ ListenFails
HealthStep == Probe \/ ProbesDone
BeatStep == Beat \/ BeatDone
MainStep ==
    \/ StartLocalNode \/ Registered \/ RegisterFails \/ RegisterTimesOut
    \/ SelectSignal \/ SelectError
    \/ CloseHandler \/ Deregister \/ StopServer \/ Drained
MessageStep(m) == Forward(m) \/ HandlerReturns(m)

Next ==
    \/ Start \/ ServeFails
    \/ HealthStep \/ HealthLoopEnds
    \/ BeatStep \/ HeartbeatLoopEnds
    \/ MainStep \/ Signal
    \/ \E m \in Messages : Accept(m) \/ MessageStep(m)

(* Every goroutine that can go on does; every call has a timeout; a select *)
(* that is offered stopCh again and again takes it at some time.           *)
Fairness ==
    /\ WF_vars(Start)
    /\ WF_vars(ProbesDone)
    /\ SF_vars(HealthLoopEnds)
    /\ WF_vars(BeatDone)
    /\ SF_vars(HeartbeatLoopEnds)
    /\ WF_vars(MainStep)
    /\ \A m \in Messages : WF_vars(MessageStep(m))

Spec == Init /\ [][Next]_vars
FairSpec == Spec /\ Fairness

-----------------------------------------------------------------------------
(* The coordinator never lists a local node that nobody listens for, until *)
(* that node is on its way out: StartHandler precedes Register, also when  *)
(* the registration was given up and carried out all the same.             *)
ListedListens ==
    entry = "own" => \/ handler = "open"
                     \/ main \in {"leaving", "stopping health", "draining", "exited"}

(* Whoever RunE waits for is there and has been told to stop: the heartbeat *)
(* loop of a registered agent, and the health loop, which the goroutine of *)
(* Start may only come to start when Stop is waiting for it already.  A    *)
(* taken port is excepted: see SignalEnds.                                 *)
NoVainWait ==
    /\ main = "stopping loop" => agentStop /\ beats # "off"
    /\ main = "stopping health" /\ port = "free"
          => healthStop /\ (health # "off" \/ server = "starting")

(* A process that found another coordinator on its port has enrolled its   *)
(* node over there; when it gives up, it takes the node out again.         *)
NoStrayNode == main = "exited" /\ ~slow => entry # "other"

(* When Start has failed there is no health loop; if RunE then finds the   *)
(* error and a signal together and takes the signal, Stop waits for the    *)
(* loop for ever.                                                          *)
StopsForEver == main = "stopping health" /\ server = "failed"

(* Server.Shutdown "gracefully stops the server" and Stop "terminates the  *)
(* health check loop": a signal ends the process, however far its start    *)
(* is, whatever is being probed, beaten or answered, whoever has the port. *)
(* StopsForEver, which the code does not exclude, is the only exception.   *)
SignalEnds == signalled ~> main = "exited" \/ StopsForEver
=============================================================================
