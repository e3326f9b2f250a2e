-------------------------- MODULE Lifecycle_proofs --------------------------
(***************************************************************************)
(* What holds of a `claw-mesh up' process for every number of messages.    *)
(***************************************************************************)
EXTENDS Lifecycle, TLAPS

-----------------------------------------------------------------------------
(* The inductive invariant.                                                *)

(* TypeOK in three parts.                                                  *)
Phases ==
    /\ port \in {"free", "taken", "coordinator"}
    /\ main \in {"starting", "registering", "selecting", "stopping loop", "leaving",
                 "stopping health", "draining", "exited"}
    /\ exit \in {"none", "ok", "error"}
    /\ server \in {"starting", "serving", "closed", "failed"}
    /\ health \in {"off", "waiting", "probing", "done"}

Flags ==
    local \in BOOLEAN /\ signalled \in BOOLEAN /\ errCh \in BOOLEAN /\ healthStop \in BOOLEAN

NodeTypes ==
    /\ handler \in {"off", "open", "closed"}
    /\ agent \in BOOLEAN
    /\ agentStop \in BOOLEAN
    /\ beats \in {"off", "waiting", "calling", "done"}
    /\ entry \in {"nowhere", "own", "other"}
    /\ message \in [Messages -> Stages]
    /\ slow \in BOOLEAN

(* Phases of RunE.                                                         *)
Undecided == {"starting", "registering", "selecting"}
Gone      == {"leaving", "stopping health", "draining", "exited"}
Left      == {"stopping health", "draining", "exited"}

(* How far RunE is and what it has decided.                                *)
MainInv ==
    /\ main \in Undecided <=> exit = "none"
    /\ main = "starting" => entry = "nowhere"
    /\ main \in {"starting", "registering"} => ~agent

(* The listener of the node, from StartHandler to Shutdown.                *)
HandlerInv ==
    /\ main = "registering" \/ entry # "nowhere" => handler # "off"
    /\ handler = "closed" => main \in Gone

(* Who lists the node, and who will take it out.                           *)
EntryInv ==
    /\ server = "serving" => port = "free"
    /\ entry = "other" => port = "coordinator"
    /\ ~slow /\ entry # "nowhere" => agent
    /\ agent => main \in {"selecting", "stopping loop"} \cup Gone
    /\ ~slow /\ main \in Left => entry # "other"

(* Who is there to be waited for, and has been told.                       *)
BeatsWait ==
    /\ agent => beats # "off"
    /\ main = "stopping loop" => agent /\ agentStop

HealthWait ==
    /\ main = "stopping health" => healthStop
    /\ port = "free" => health # "off" \/ server = "starting"

Inv ==
    /\ Phases /\ Flags /\ NodeTypes
    /\ MainInv /\ HandlerInv /\ EntryInv /\ BeatsWait /\ HealthWait

LEMMA InvInit == Init => Inv
  BY DEF Init, Inv, Phases, Flags, NodeTypes, Stages, MainInv, HandlerInv, EntryInv,
         BeatsWait, HealthWait, Undecided, Gone, Left

(* One step of the process, part by part of the invariant: everything but  *)
(* the messages.                                                           *)
ProcessStep ==
    \/ Start \/ ServeFails
    \/ HealthStep \/ HealthLoopEnds
    \/ BeatStep \/ HeartbeatLoopEnds
    \/ MainStep \/ Signal

(* The types of RunE, the server and the health loop.                      *)
LEMMA PhasesStep ==
    ASSUME Phases, Flags, NodeTypes, ProcessStep
    PROVE  Phases'
  <1>1. CASE Start \/ ServeFails
    BY <1>1 DEF Start, Listen, ListenFails, ServeFails,
       Phases, serving, checker, node
  <1>2. CASE HealthStep \/ HealthLoopEnds
    BY <1>2 DEF HealthStep, Probe, ProbesDone, HealthLoopEnds,
       Phases, serving, checker, node
  <1>3. CASE BeatStep \/ HeartbeatLoopEnds \/ Signal
    BY <1>3 DEF BeatStep, Beat, BeatDone, HeartbeatLoopEnds, Signal,
       Phases, serving, checker, node
  <1>4. CASE StartLocalNode \/ RegisterFails
    BY <1>4 DEF StartLocalNode, RegisterFails,
       Phases, serving, checker, node
  <1>5. CASE Registered \/ RegisterTimesOut
    BY <1>5 DEF Registered, RegisterTimesOut, Answering,
       Phases, serving, checker, node
  <1>6. CASE SelectSignal \/ SelectError
    BY <1>6 DEF SelectSignal, SelectError, Chosen, AfterAgent,
       Phases, serving, checker, node
  <1>7. CASE CloseHandler \/ StopServer \/ Drained
    BY <1>7 DEF CloseHandler, StopServer, Drained,
       Phases, serving, checker, node
  <1>8. CASE Deregister
    BY <1>8 DEF Deregister, AfterAgent, Answering,
       Phases, serving, checker, node
  <1>9. QED
    BY <1>1, <1>2, <1>3, <1>4, <1>5, <1>6, <1>7, <1>8 DEF ProcessStep, MainStep

(* The types of their flags.                                               *)
LEMMA FlagsStep ==
    ASSUME Phases, Flags, NodeTypes, ProcessStep
    PROVE  Flags'
  <1>1. CASE Start \/ ServeFails
    BY <1>1 DEF Start, Listen, ListenFails, ServeFails,
       Flags, NodeTypes, serving, checker, node
  <1>2. CASE HealthStep \/ HealthLoopEnds
    BY <1>2 DEF HealthStep, Probe, ProbesDone, HealthLoopEnds,
       Flags, NodeTypes, serving, checker, node
  <1>3. CASE BeatStep \/ HeartbeatLoopEnds \/ Signal
    BY <1>3 DEF BeatStep, Beat, BeatDone, HeartbeatLoopEnds, Signal,
       Flags, NodeTypes, serving, checker, node
  <1>4. CASE StartLocalNode \/ RegisterFails
    BY <1>4 DEF StartLocalNode, RegisterFails,
       Flags, NodeTypes, serving, checker, node
  <1>5. CASE Registered \/ RegisterTimesOut
    BY <1>5 DEF Registered, RegisterTimesOut, Answering,
       Flags, NodeTypes, serving, checker, node
  <1>6. CASE SelectSignal \/ SelectError
    BY <1>6 DEF SelectSignal, SelectError, Chosen, AfterAgent,
       Flags, NodeTypes, serving, checker, node
  <1>7. CASE CloseHandler \/ StopServer \/ Drained
    BY <1>7 DEF CloseHandler, StopServer, Drained,
       Flags, NodeTypes, serving, checker, node
  <1>8. CASE Deregister
    BY <1>8 DEF Deregister, AfterAgent, Answering,
       Flags, NodeTypes, serving, checker, node
  <1>9. QED
    BY <1>1, <1>2, <1>3, <1>4, <1>5, <1>6, <1>7, <1>8 DEF ProcessStep, MainStep

(* The types of what belongs to the local node.                            *)
LEMMA NodeTypesStep ==
    ASSUME Phases, Flags, NodeTypes, ProcessStep
    PROVE  NodeTypes'
  <1>1. CASE Start \/ ServeFails
    BY <1>1 DEF Start, Listen, ListenFails, ServeFails,
       NodeTypes, serving, checker, node
  <1>2. CASE HealthStep \/ HealthLoopEnds
    BY <1>2 DEF HealthStep, Probe, ProbesDone, HealthLoopEnds,
       NodeTypes, serving, checker, node
  <1>3. CASE BeatStep \/ HeartbeatLoopEnds \/ Signal
    BY <1>3 DEF BeatStep, Beat, BeatDone, HeartbeatLoopEnds, Signal,
       NodeTypes, serving, checker, node
  <1>4. CASE StartLocalNode \/ RegisterFails
    BY <1>4 DEF StartLocalNode, RegisterFails,
       NodeTypes, serving, checker, node
  <1>5. CASE Registered \/ RegisterTimesOut
    BY <1>5 DEF Registered, RegisterTimesOut, Answering,
       NodeTypes, serving, checker, node
  <1>6. CASE SelectSignal \/ SelectError
    BY <1>6 DEF SelectSignal, SelectError, Chosen, AfterAgent,
       NodeTypes, serving, checker, node
  <1>7. CASE CloseHandler \/ StopServer \/ Drained
    BY <1>7 DEF CloseHandler, StopServer, Drained,
       NodeTypes, serving, checker, node
  <1>8. CASE Deregister
    BY <1>8 DEF Deregister, AfterAgent, Answering,
       NodeTypes, serving, checker, node
  <1>9. QED
    BY <1>1, <1>2, <1>3, <1>4, <1>5, <1>6, <1>7, <1>8 DEF ProcessStep, MainStep

(* RunE decides once, and joins before it does.                            *)
LEMMA MainInvStep ==
    ASSUME Phases, Flags, NodeTypes, MainInv, ProcessStep
    PROVE  MainInv'
  <1>1. CASE Start \/ ServeFails
    BY <1>1 DEF Start, Listen, ListenFails, ServeFails,
       MainInv, Undecided, serving, checker, node
  <1>2. CASE HealthStep \/ HealthLoopEnds
    BY <1>2 DEF HealthStep, Probe, ProbesDone, HealthLoopEnds,
       MainInv, Undecided, serving, checker, node
  <1>3. CASE BeatStep \/ HeartbeatLoopEnds \/ Signal
    BY <1>3 DEF BeatStep, Beat, BeatDone, HeartbeatLoopEnds, Signal,
       MainInv, Undecided, serving, checker, node
  <1>4. CASE StartLocalNode \/ RegisterFails
    BY <1>4 DEF StartLocalNode, RegisterFails,
       MainInv, Undecided, serving, checker, node
  <1>5. CASE Registered \/ RegisterTimesOut
    BY <1>5 DEF Registered, RegisterTimesOut, Answering,
       MainInv, Undecided, serving, checker, node
  <1>6. CASE SelectSignal \/ SelectError
    BY <1>6 DEF SelectSignal, SelectError, Chosen, AfterAgent,
       MainInv, Undecided, serving, checker, node
  <1>7. CASE CloseHandler \/ StopServer \/ Drained
    BY <1>7 DEF CloseHandler, StopServer, Drained,
       MainInv, Undecided, serving, checker, node
  <1>8. CASE Deregister
    BY <1>8 DEF Deregister, AfterAgent, Answering,
       MainInv, Undecided, serving, checker, node
  <1>9. QED
    BY <1>1, <1>2, <1>3, <1>4, <1>5, <1>6, <1>7, <1>8 DEF ProcessStep, MainStep

(* The handler is opened before and closed after the node is listed.       *)
LEMMA HandlerInvStep ==
    ASSUME Phases, Flags, NodeTypes, MainInv, HandlerInv, ProcessStep
    PROVE  HandlerInv'
  <1>1. CASE Start \/ ServeFails
    BY <1>1 DEF Start, Listen, ListenFails, ServeFails,
       HandlerInv, MainInv, Gone, Undecided, serving, checker, node
  <1>2. CASE HealthStep \/ HealthLoopEnds
    BY <1>2 DEF HealthStep, Probe, ProbesDone, HealthLoopEnds,
       HandlerInv, MainInv, Gone, Undecided, serving, checker, node
  <1>3. CASE BeatStep \/ HeartbeatLoopEnds \/ Signal
    BY <1>3 DEF BeatStep, Beat, BeatDone, HeartbeatLoopEnds, Signal,
       HandlerInv, MainInv, Gone, Undecided, serving, checker, node
  <1>4. CASE StartLocalNode \/ RegisterFails
    BY <1>4 DEF StartLocalNode, RegisterFails,
       HandlerInv, MainInv, Gone, Undecided, serving, checker, node
  <1>5. CASE Registered \/ RegisterTimesOut
    BY <1>5 DEF Registered, RegisterTimesOut, Answering,
       HandlerInv, MainInv, Gone, Undecided, serving, checker, node
  <1>6. CASE SelectSignal \/ SelectError
    BY <1>6 DEF SelectSignal, SelectError, Chosen, AfterAgent,
       HandlerInv, MainInv, Gone, Undecided, serving, checker, node
  <1>7. CASE CloseHandler \/ StopServer \/ Drained
    BY <1>7 DEF CloseHandler, StopServer, Drained,
       HandlerInv, MainInv, Gone, Undecided, serving, checker, node
  <1>8. CASE Deregister
    BY <1>8 DEF Deregister, AfterAgent, Answering,
       HandlerInv, MainInv, Gone, Undecided, serving, checker, node
  <1>9. QED
    BY <1>1, <1>2, <1>3, <1>4, <1>5, <1>6, <1>7, <1>8 DEF ProcessStep, MainStep

(* What the process has enrolled it takes out again.                       *)
LEMMA EntryInvStep ==
    ASSUME Phases, Flags, NodeTypes, MainInv, EntryInv, ProcessStep
    PROVE  EntryInv'
  <1>1. CASE Start \/ ServeFails
    <2>1. /\ UNCHANGED <<port, main, agent, entry, slow>>
          /\ server' = "serving" => port = "free"
      BY <1>1 DEF Start, Listen, ListenFails, ServeFails, serving, checker, node
    <2>2. QED
      BY <2>1 DEF EntryInv, Gone, Left
  <1>2. CASE HealthStep \/ HealthLoopEnds
    <2>1. UNCHANGED <<port, main, server, agent, entry, slow>>
      BY <1>2 DEF HealthStep, Probe, ProbesDone, HealthLoopEnds, serving, checker, node
    <2>2. QED
      BY <2>1 DEF EntryInv, Gone, Left
  <1>3. CASE BeatStep \/ HeartbeatLoopEnds \/ Signal
    <2>1. UNCHANGED <<port, main, server, agent, entry, slow>>
      BY <1>3 DEF BeatStep, Beat, BeatDone, HeartbeatLoopEnds, Signal, serving, checker, node
    <2>2. QED
      BY <2>1 DEF EntryInv, Gone, Left
  <1>4. CASE StartLocalNode \/ RegisterFails
    <2>1. /\ ~agent /\ main' \notin Left
          /\ UNCHANGED <<port, server, agent, entry, slow>>
      BY <1>4 DEF StartLocalNode, RegisterFails, MainInv, Left, serving, node
    <2>2. QED
      BY <2>1 DEF EntryInv
  <1>5. CASE Registered \/ RegisterTimesOut
    BY <1>5 DEF Registered, RegisterTimesOut, Answering,
       EntryInv, MainInv, Gone, Left, Undecided, serving, checker, node
  <1>6. CASE SelectSignal \/ SelectError
    BY <1>6 DEF SelectSignal, SelectError, Chosen, AfterAgent,
       EntryInv, MainInv, Gone, Left, Undecided, serving, checker, node
  <1>7. CASE CloseHandler \/ StopServer \/ Drained
    BY <1>7 DEF CloseHandler, StopServer, Drained,
       EntryInv, MainInv, Gone, Left, Undecided, serving, checker, node
  <1>8. CASE Deregister
    <2>1. main' \in Gone /\ UNCHANGED <<port, server, agent>>
      BY <1>8 DEF Deregister, AfterAgent, Gone, serving
    <2>2. entry = "other" => Answering = "other"
      BY DEF EntryInv, Answering
    <2>3. entry' \in {entry, "nowhere"} /\ (~slow' => ~slow /\ entry' # "other")
      BY <1>8, <2>2 DEF Deregister
    <2>4. QED
      BY <2>1, <2>3 DEF EntryInv
  <1>9. QED
    BY <1>1, <1>2, <1>3, <1>4, <1>5, <1>6, <1>7, <1>8 DEF ProcessStep, MainStep

(* Whoever is waited for was there before, and is told when the wait begins.*)
LEMMA BeatsWaitStep ==
    ASSUME Phases, Flags, NodeTypes, MainInv, BeatsWait, ProcessStep
    PROVE  BeatsWait'
  <1>1. CASE Start \/ ServeFails
    <2>1. UNCHANGED <<main, agent, agentStop, beats>>
      BY <1>1 DEF Start, Listen, ListenFails, ServeFails, node
    <2>2. QED
      BY <2>1 DEF BeatsWait
  <1>2. CASE HealthStep \/ HealthLoopEnds
    <2>1. UNCHANGED <<main, agent, agentStop, beats>>
      BY <1>2 DEF HealthStep, Probe, ProbesDone, HealthLoopEnds, node
    <2>2. QED
      BY <2>1 DEF BeatsWait
  <1>3. CASE BeatStep \/ HeartbeatLoopEnds \/ Signal
    <2>1. UNCHANGED <<main, agent, agentStop>> /\ (beats' = beats \/ beats' # "off")
      BY <1>3 DEF BeatStep, Beat, BeatDone, HeartbeatLoopEnds, Signal, node
    <2>2. QED
      BY <2>1 DEF BeatsWait
  <1>4. CASE StartLocalNode \/ RegisterFails
    <2>1. UNCHANGED <<agent, beats>> /\ main' # "stopping loop"
      BY <1>4 DEF StartLocalNode, RegisterFails, node
    <2>2. QED
      BY <2>1 DEF BeatsWait
  <1>5. CASE Registered \/ RegisterTimesOut
    <2>1. (agent' => beats' # "off") /\ main' # "stopping loop"
      <3>1. CASE Registered
        BY <3>1 DEF Registered
      <3>2. CASE RegisterTimesOut
        BY <3>2 DEF RegisterTimesOut, BeatsWait
      <3>3. QED
        BY <1>5, <3>1, <3>2
    <2>2. QED
      BY <2>1 DEF BeatsWait
  <1>6. CASE SelectSignal \/ SelectError
    <2>1. UNCHANGED <<agent, beats>> /\ agentStop' = agent
      BY <1>6 DEF SelectSignal, SelectError, Chosen
    <2>2. main' = "stopping loop" => agent
      BY <1>6 DEF SelectSignal, SelectError, Chosen, AfterAgent
    <2>3. QED
      BY <2>1, <2>2 DEF BeatsWait
  <1>7. CASE CloseHandler \/ StopServer \/ Drained
    <2>1. UNCHANGED <<agent, beats>> /\ main' # "stopping loop"
      BY <1>7 DEF CloseHandler, StopServer, Drained, node
    <2>2. QED
      BY <2>1 DEF BeatsWait
  <1>8. CASE Deregister
    <2>1. UNCHANGED <<agent, beats>> /\ main' # "stopping loop"
      BY <1>8 DEF Deregister, AfterAgent
    <2>2. QED
      BY <2>1 DEF BeatsWait
  <1>9. QED
    BY <1>1, <1>2, <1>3, <1>4, <1>5, <1>6, <1>7, <1>8 DEF ProcessStep, MainStep

(* The health loop is started by whoever listens, however late that is.    *)
LEMMA HealthWaitStep ==
    ASSUME Phases, Flags, NodeTypes, MainInv, HealthWait, ProcessStep
    PROVE  HealthWait'
  <1>1. CASE Start \/ ServeFails
    BY <1>1 DEF Start, Listen, ListenFails, ServeFails,
       HealthWait, MainInv, Undecided, Flags, NodeTypes, serving, checker, node
  <1>2. CASE HealthStep \/ HealthLoopEnds
    BY <1>2 DEF HealthStep, Probe, ProbesDone, HealthLoopEnds,
       HealthWait, MainInv, Undecided, Flags, NodeTypes, serving, checker, node
  <1>3. CASE BeatStep \/ HeartbeatLoopEnds \/ Signal
    BY <1>3 DEF BeatStep, Beat, BeatDone, HeartbeatLoopEnds, Signal,
       HealthWait, MainInv, Undecided, Flags, NodeTypes, serving, checker, node
  <1>4. CASE StartLocalNode \/ RegisterFails
    BY <1>4 DEF StartLocalNode, RegisterFails,
       HealthWait, MainInv, Undecided, Flags, NodeTypes, serving, checker, node
  <1>5. CASE Registered \/ RegisterTimesOut
    BY <1>5 DEF Registered, RegisterTimesOut, Answering,
       HealthWait, MainInv, Undecided, Flags, NodeTypes, serving, checker, node
  <1>6. CASE SelectSignal \/ SelectError
    BY <1>6 DEF SelectSignal, SelectError, Chosen, AfterAgent,
       HealthWait, MainInv, Undecided, Flags, NodeTypes, serving, checker, node
  <1>7. CASE CloseHandler \/ StopServer \/ Drained
    BY <1>7 DEF CloseHandler, StopServer, Drained,
       HealthWait, MainInv, Undecided, Flags, NodeTypes, serving, checker, node
  <1>8. CASE Deregister
    BY <1>8 DEF Deregister, AfterAgent, Answering,
       HealthWait, MainInv, Undecided, Flags, NodeTypes, serving, checker, node
  <1>9. QED
    BY <1>1, <1>2, <1>3, <1>4, <1>5, <1>6, <1>7, <1>8 DEF ProcessStep, MainStep

LEMMA MessagesStep ==
    ASSUME Inv, NEW m \in Messages, Accept(m) \/ MessageStep(m)
    PROVE  Inv'
  <1>1. PICK to \in Stages : message' = [message EXCEPT ![m] = to] /\ Running
    BY DEF Accept, MessageStep, Forward, HandlerReturns, Move, Stages
  <1>2. UNCHANGED <<port, local, main, exit, signalled, serving, checker, node, slow>>
    BY DEF Accept, MessageStep, Forward, HandlerReturns, Move
  <1>3. message' \in [Messages -> Stages]
    BY <1>1 DEF Inv, NodeTypes
  <1>4. Phases' /\ Flags'
    <2>1. Phases'
      BY <1>2 DEF Inv, Phases, serving, checker
    <2>2. Flags'
      BY <1>2 DEF Inv, Flags, serving, checker
    <2>3. QED
      BY <2>1, <2>2
  <1>5. NodeTypes'
    BY <1>2, <1>3 DEF Inv, NodeTypes, node
  <1>6. MainInv' /\ HandlerInv' /\ EntryInv' /\ BeatsWait' /\ HealthWait'
    BY <1>2 DEF Inv, MainInv, HandlerInv, EntryInv, BeatsWait, HealthWait, serving, checker, node
  <1>7. QED
    BY <1>4, <1>5, <1>6 DEF Inv

LEMMA InvStep == Inv /\ [Next]_vars => Inv'
  <1> SUFFICES ASSUME Inv, [Next]_vars PROVE Inv'
    OBVIOUS
  <1>1. CASE Next
    <2>1. CASE ProcessStep
      BY <2>1, PhasesStep, FlagsStep, NodeTypesStep, MainInvStep, HandlerInvStep,
         EntryInvStep, BeatsWaitStep, HealthWaitStep DEF Inv
    <2>2. QED
      BY <1>1, <2>1, MessagesStep DEF Next, ProcessStep
  <1>2. CASE UNCHANGED vars
    <2>1. Phases'
      BY <1>2 DEF vars, serving, checker, node, Inv, Phases
    <2>6. Flags'
      BY <1>2 DEF vars, serving, checker, node, Inv, Flags
    <2>2. NodeTypes'
      BY <1>2 DEF vars, serving, checker, node, Inv, NodeTypes
    <2>3. MainInv' /\ HandlerInv'
      BY <1>2 DEF vars, serving, checker, node, Inv, MainInv, HandlerInv
    <2>4. EntryInv' /\ BeatsWait' /\ HealthWait'
      BY <1>2 DEF vars, serving, checker, node, Inv, EntryInv, BeatsWait, HealthWait
    <2>5. QED
      BY <2>1, <2>2, <2>3, <2>4, <2>6 DEF Inv
  <1>3. QED
    BY <1>1, <1>2

LEMMA InvHolds == Spec => []Inv
  BY InvInit, InvStep, PTL DEF Spec

(* Every variable keeps its type.                                          *)
THEOREM TypeCorrect == Spec => []TypeOK
  <1>1. Inv => TypeOK
    BY DEF Inv, Phases, Flags, NodeTypes, TypeOK
  <1>2. QED
    BY <1>1, InvHolds, PTL

(* A local node that the coordinator lists has its listener open until it  *)
(* leaves, also when its registration was given up and came late.          *)
THEOREM ListedNodeListens == Spec => []ListedListens
  <1>1. Inv => ListedListens
    BY DEF Inv, NodeTypes, HandlerInv, ListedListens, Gone
  <1>2. QED
    BY <1>1, InvHolds, PTL

(* RunE never waits for a loop that is not there or was not told to stop,  *)
(* unless the port was taken.                                              *)
THEOREM NobodyWaitsInVain == Spec => []NoVainWait
  <1>1. Inv => NoVainWait
    BY DEF Inv, BeatsWait, HealthWait, NoVainWait
  <1>2. QED
    BY <1>1, InvHolds, PTL

(* A process that could not start leaves no node at the coordinator that   *)
(* holds its port.                                                         *)
THEOREM NoNodeAstray == Spec => []NoStrayNode
  <1>1. Inv => NoStrayNode
    BY DEF Inv, EntryInv, NoStrayNode, Left
  <1>2. QED
    BY <1>1, InvHolds, PTL
=============================================================================
