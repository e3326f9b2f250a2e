# claw-mesh in TLA+

claw-mesh connects the AI gateways of several machines. A *coordinator*
(`internal/coordinator`) knows the nodes, checks their health, keeps routing
rules and forwards messages. A *node agent* (`internal/node`) runs beside each
gateway, registers with the coordinator, beats, and hands forwarded messages to
the gateway over a WebSocket. Everything between them is HTTP.

This directory holds the specifications of that code, the TLC configurations
that check them on small instances, and proofs of what holds for all instances.

Contents: [inventory](#1-inventory) · [modules](#2-modules-and-the-code) ·
[runs](#3-runs) · [fairness](#4-fairness) · [proofs](#5-proofs) ·
[findings](#6-findings) · [not modelled](#7-not-modelled) · [plan](#8-plan)

## 1. Inventory

| Component | Code | State | Operations | Hard behaviour |
|---|---|---|---|---|
| Rule list and store | `coordinator/router.go`, `store.go`, `api.go` | `Router.rules` in memory, `rules.json` on disk, `Router.mu`, `Store.mu` | `AddRule`, `RemoveRule`, `SaveRules`, `LoadRules` | two locks taken one after the other, save after unlock, failing saves, crashes |
| Registry | `coordinator/registry.go` | `nodes`, `nodeTokens` under one mutex | `Add`, `Remove`, `SetNodeToken`, `ValidateNodeToken`, `UpdateStatus`, `RecordHeartbeat`, `MarkOfflineIfStale` | used by every handler and by the health checker |
| Coordinator handlers | `coordinator/server.go`, `api.go` | none of their own | register, deregister, heartbeat, route, rules, seed | several critical sections per request, requests abandoned by the client |
| Agent | `node/agent.go` | id, token, failure count, `stopCh`, backoff | `Register`, heartbeat loop, `reconnect`, `Shutdown` | lost and late answers, coordinator restarts, shutdown during a reconnect |
| Health checker | `coordinator/health.go` | `probeFailures`, ticker | stale marking, concurrent probes, `Start`, `Stop` | outcomes about a registry that has moved on, timing edges |
| Routing | `coordinator/router.go` | none (reads rules and nodes) | `Route`, `matchNodes`, `leastBusy` | map order, rules whose target is offline |
| Forwarding | `coordinator/forwarder.go`, `api.go` | none | `ForwardMessage` with retries | resending what may have been executed, timeouts that do not nest |
| Node handler | `node/handler.go` | shares `Agent.token` | `handleMessage`, `handleHealthz` | token read while the agent changes it, echo fallback |
| Gateway client | `node/gateway_ws_client.go` | `pending`, `runs`, `seq`, the connection | `Connect`, `call`, `SendMessage`, `readLoop` | events and answers against registrations of callers, closing |
| Start and shutdown | `cmd/claw-mesh/main.go` (`up`), `coordinator/server.go`, `health.go` | `ctx`, `errCh`, `stopCh` and `done` of the checker, `localAgent` | `Start`, `Shutdown`, `Stop`, `startLocalNode` | six goroutines, signals at any time, a taken port, two ways out |
| Joining | `cmd/claw-mesh/main.go` (`join`), `node/discovery.go`, `node/runtime.go` | binaries, the gateway process, `openclaw.json` | `DiscoverGateway`, `DetectRuntime`, `InstallRuntime`, `StartRuntime` | what was found before is not what is there after; joins that are killed |
| Seed | `coordinator/seed.go`, `node/seed.go` | `openclaw.json` on both sides | `handleSeedConfig`, `FetchSeedConfig` | read, merge, write without a lock or a rename |
| Other commands, configuration, dashboard | `cmd/claw-mesh`, `config`, `dashboard.go` | files | run once | I/O only |

How they interact:

    join: discovery --> seed (HTTP) --> runtime and gateway --> agent
    up: server, health checker and a local agent in one process

    CLI / dashboard --HTTP--> handlers --calls--> Router --calls--> Store --> rules.json
                                 |                   | reads
                                 v                   v
    agent --register, beat, delete--> handlers --> Registry <-- HealthChecker --GET /healthz--> node
                                 |
                                 +--> Forwarder --POST /api/v1/messages--> node handler --> gateway

What makes each correct, in a sentence:

* *Rule store*: the file is always whole; what a client was told is what a
  restart finds; precedence among rules never changes; every request ends.
* *Membership*: an agent that holds an id can be reached with the token the
  registry has; nobody acts on another's entry; what was removed stays removed;
  no entry is left behind without a fault; every agent that wants in gets in;
  shutdown ends.
* *Health checker*: silent and dead nodes are shown offline within a known time;
  live ones are not, or only until their next beat.
* *Routing*: the first rule with a usable node decides, in whatever order the
  nodes are listed, and no busy node is chosen while an idle one would do.
* *Gateway client*: an answer belongs to the question and is whole, the maps
  hold calls under way only, the reader never blocks, every call returns.
* *Forwarding*: without a fault a message is worked on once, a node refuses it
  only while it comes or goes, and it is decided in bounded time.
* *Start and shutdown*: a listed node listens, whoever is waited for is there
  and has been told to stop, a process that gives up leaves no node behind in
  another registry, and a signal ends it.
* *Joining and seed*: the keys that belong to one machine neither leave the
  coordinator nor arrive at a node, and a gateway that was started is used.

The hazards, one by one with the line where each bites and the properties that
cover it, are in `PROJECT.json`.

## 2. Modules and the code

Every definition's source lines are listed in `PROJECT.json` under `map`.

**`RuleStore`**: one handler is one HTTP request that changes rules, and goes
through `idle -> queued -> writing -> written -> saved -> idle` or by `failed`.
`Add` and `Remove` are the critical section of `Router.mu`: the change of the
list *and* the copy taken of it (`Change`). `OpenTmp`, `WriteTmp` and
`RenameTmp` are `SaveRules` under `Store.mu`; `SaveFails` is any of its error
returns. `Crash` can happen between any two of these; `Restart` is `NewRouter`
with `LoadRules`, including the branch that logs an unreadable file and starts
empty (`lost`). A rule is the number of its acceptance: the code draws a random
identifier, of which only freshness matters. Writing, syncing and closing the
temporary file are one step: nobody reads it before the rename, and it is lost
or removed if one of them fails. History variables (`next`, `acked`, `dropped`,
`gone`, `solo`, `lost`) say what clients were promised. There is a store: see
section 7 for a server that runs without one.

**`DurableRules`** is what the rule API promises a client that waits for each
answer: a list in force and a list in store, and requests of one change and one
copy each. `RuleStore` implements it by `Promise`: `list` is `rules`, `stored`
is the whole file behind `disk`, `drawn` the numbers below `next`, and
`Progress` reads off the handlers' `pc` how far the request is. Locks, the copy,
the temporary file and its failures map to stuttering. Two clauses are as weak
as the code: a request answered 500 has changed the list in force all the same,
and a start that cannot read the file comes up empty.

**`Registry`**: the two maps and one operator per method, each of which runs
under `Registry.mu` and so is one step of the module that uses it. `Get` and
`List` return copies and need no operator.

**`Membership`** (extends `Registry`): agents on one side, handlers on the other,
and `calls`, the set of exchanges in progress, in between. A call is `sent`,
for a registration `added` (between `Add` and `SetNodeToken`, two critical
sections), then answered `ok` or `error`. The agent's `pc` has one value per
wait of `heartbeatLoop` and `Shutdown`; `Registered`, `Tick`, `HeartbeatDone`,
`Reconnect`, `AfterFailure`, `Stop`, `Leave` and `Left` are the segments between
them. The HTTP client's 10 s and a lost connection are `CallTimesOut`: the agent
goes on while the coordinator may still work on the call (`abandoned`).
`CoordinatorStops` drops registry and exchanges. `AgentCrash` starts a new
process with a new identity. Ids are numbered as drawn, and the token drawn
with id *n* is *n*; the mesh token is `Admin`. Times are left out: the order of
timeouts and answers is free, and `MarkOffline` is enabled at any time.
The agent's requests carry its latest id and token, which it changes only when
it has no request open.

**`HealthCheck`** (extends `Registry`): the loop of the checker (`Tick`,
`ListNodes`, one `ProbeSucceeds` or `ProbeFails` per probe, `ProbesDone`), beats
that take up to `Delay`, and a clock that `Advance` moves by one unit only when
nothing is due. The first beat is due one
interval after the registration's answer, which takes up to `Delay`.
A node is `up`, `mute` (answers probes, its beats do not get
through), `leaving` (handler closed, about to deregister), `dead` or `absent`.
A dead node's probe fails, an `up` node's fails at most `MaxGlitches` times.

**`GatewayWS`**: a caller is one `SendMessage`; its `pc` goes
`idle -> (dialing -> greeting ->) numbering -> counted -> bumped -> drawn ->
registered -> waiting -> accepted -> running` and ends in `answered`, `failed`
or `panicked`. `ReadSeq` and `WriteSeq` are the two halves of the unlocked
`c.seq++`, `DrawNumber` the read of `c.seq` in the next line, whose value may be
either the one just written or another's; the reader's `sendConnect` takes the
same steps. `WritePanics` is the panic of the WebSocket library when it notices
two writers: `net/http` recovers it in a caller's goroutine, in the reader it
ends the process. `Challenge`, `Response` and `AgentEvent` are the branches of
`handleMessage`, `ReaderStops` the error branch of `readLoop`. `CallTimesOut`
and `RunTimesOut` are the `ctx.Done()` branches (the timeout, or the client
that went away). The gateway and the connection are external: requests are
answered in any order or refused, a run speaks once and then ends, two requests
with one idempotency key get one run (`docs/openclaw-gateway-integration.md`,
section 4.2), and the connection may break at any time, with frames already
sent still arriving or not. The restriction: callers arrive when no other one
dials, so there is a single connection and a single reader.

**`Routing`**: `Route` without a target node, loop by loop, as a fold over the
rules (`TryRule` is one turn), and `Admissible`, which says which nodes may come
out without following the code. A rule is a record of its criteria; `gpu` means
`requires_gpu: true`, so the rule that has only a target stands for one with
`requires_gpu: false`, which every node meets (`validateRule` asks for a
criterion). The order in which the Go map lists the nodes is an argument. There
is one strategy, so `Strategy` is left out.

**`Forwarding`** (extends `Registry` and `Routing`): one message from its arrival
to its answer. The handler's `pc` goes `routing -> chosen -> sending (-> backoff
-> sending ...) -> done`; reading the rules and nodes (`Choose`, `GetTarget`),
the second look for the status code (`Explain`) and reading the token
(`ReadToken`) are steps of their own, and others may change the registry in
between (`Join`, `SetToken`, `Settle`, `ChangeStatus`, `Leave`, `Die`). Every attempt is a
call that lives on at the node when the coordinator has given up on it.
`Receive` is the node's `requireAuth`, `GatewayEnds` the end of `SendMessage`
with an answer or an error (then the node echoes), at most `GatewayTimeout`
later (10 s to dial, 15 s for the handshake and 120 s for the answer), `Cancel`
the context that ends because the coordinator closed the connection. The mesh is secured, so
every node has a token; the gateway, a hanging node, death and time are
external. One message is enough: messages share nothing but the registry and
the rules, and both change here in every way that matters to one. The handler
reads the rules once, so they are an arbitrary list; after the choice, only
changes to the node chosen can be seen. The backoffs (100 to 400 ms) take no
time. An answer that the handler writes when `WriteTimeout` is over is `cut`:
the client does not get it. The type invariant bounds `now` by the attempts
times the forwarder's timeout.

**`Lifecycle`**: one `claw-mesh up` process. `main` is where `RunE` is, from
`starting` over `startLocalNode` (`StartLocalNode`, then `Registered`,
`RegisterFails` or `RegisterTimesOut`) to its `select` (`SelectSignal`,
`SelectError`) and through `localAgent.Shutdown` (`Chosen`, `CloseHandler`,
`Deregister`) and `Server.Shutdown` (`AfterAgent`, `StopServer`, `Drained`).
The other goroutines are `server` (`Listen`, `ListenFails`, `ServeFails`),
`health` (`Probe`, `ProbesDone`, `HealthLoopEnds`), `beats` and one `message`
each for the requests in progress. The port may be free, taken by a stranger,
or taken by another coordinator, whose registry then answers (`Answering`).
`RunE` sleeps 200 ms to let the server listen first; the model does not count
on it. Wherever a call may be late, lost or refused, `slow` records it. A
message ends with the return of its handler, which is what
`http.Server.Shutdown` waits for; what its client gets is in `Forwarding`.

**`Bootstrap`**: joins of one machine, one after the other. `step` is where
`newJoinCmd` is; `LookSettled` and `LookFails` are its first condition,
`SeedAnswered` to `WriteFails` are `FetchSeedConfig` against `handleSeedConfig`,
`DetectStarts` to `WaitTimesOut` the runtime, `NewAgent` to `Leave` the agent.
`os.WriteFile` is two steps, since it truncates what it opens (`OpenConfig`,
`WriteConfig`); between any two steps the process may be killed (`Crash`), and
other programs may start and stop the gateway and write the machine's own keys
(`GatewayStarts`, `GatewayStops`, `Configure`). A file is `missing`, `torn` (a
write of the join was cut off), `whole` with its top-level keys, or `odd`: it
has keys, and a form that `encoding/json` does not parse, with comments for
instance. `Existing` is what the merge starts from: the keys of a whole file, or
nothing, since a file that cannot be read or parsed is replaced by the seed
alone. A key is a model value, and `Excluded` is `excludedConfigKeys`.
`findOpenClawConfig` looks at the directory of the join (`here`) and at
`/etc/openclaw` (`system`) as well, and stops at the first file there is, also
one that nobody can parse. A binary is in `PATH`, in `~/.local/bin` (`local`) or
nowhere. The installers, the gateway and the coordinator's file are external: the first
may fail or put the binary in either place, the second may come up or not, the
third has any content.

**`Maps`** has the Go maps of `Registry` and `GatewayWS` as partial functions.

**`MCRuleStore`, `MCMembership`, `MCHealthCheck`, `MCGatewayWS`,
`MCForwarding`, `MCLifecycle`, `MCBootstrap`** give the constants their values
for TLC. **`RuleStore_proofs`, `Membership_proofs`, `HealthCheck_proofs`,
`GatewayWS_proofs`, `Routing_proofs`, `Forwarding_proofs`, `Lifecycle_proofs`,
`Bootstrap_proofs`** hold the proofs.

In each module the operators introduced as *Mutant of X* are deliberate
mistakes of the kind a change of the code could make. No action uses them: each
takes the place of X to show that a property notices.

## 3. Runs

| Run | Instance | Checks | Shows |
|---|---|---|---|
| `RuleStoreConcurrent` | 2 handlers, 2 rules, fair | `TypeOK`, `DiskWhole`, `SamePrecedence`, `SoloSaveSyncs`, `EveryRequestAnswered` | with racing requests, failing saves and crashes the file stays whole, precedence is kept, a save that ran alone leaves the list in force on disk, no request hangs |
| `RuleStoreSequential` | 1 handler, 4 rules | `AckedDurable`, `PromiseKept` | for a client that waits for each answer, 201 is a promise over every crash, and the store implements `DurableRules`: order, removals in the middle of a list and deletions included |
| `RuleStoreLostRule` | 2 handlers, 2 rules | `AckedDurable` (violated) | finding 1 |
| `MembershipSafety` | 2 agents, secured, limit 2, 4 registrations, 2 faults | `TypeOK`, `HolderReachable`, `NoImpersonation`, `RemovedStaysRemoved`, `NoGhosts`, `UndisturbedAccepts` | identity of nodes over loss, delay, crashes and restarts; agents that never lost an exchange accept what is forwarded to them |
| `MembershipZombie` | 1 agent, secured, limit 5, 6 faults | `OnlineNodeAccepts` (violated) | finding 2, with the limit of the code |
| `MembershipLiveness` | 1 agent, secured, limit 2, 4 registrations, 3 faults, fair | `Rejoins`, `ShutdownEnds` | every fault is recovered from; shutdown ends |
| `HealthTiming` | 1 node, 24 units of 5 s, periods of the code, 4 failed probes of a live node | `TypeOK`, `SilentIsOffline`, `DeadIsOffline`, `NoFalseAlarm`, `OfflineIsBrief`, `DepartedStaysDeparted` | bounds on when a node is shown offline and for how long |
| `GatewayCalls` | 2 callers, 2 messages, fair | `TypeOK`, `SendNeverBlocks`, `OwnAnswer`, `WholeAnswer`, `NoLeak`, `EveryCallReturns` | calls with racing counters, reordered, late and refused answers, a failed handshake and a lost connection |
| `GatewayEvents` | 1 caller | `NoEventMissed` (violated) | finding 3 |
| `ForwardingRoutes` | 3 nodes, every list of up to 2 of 5 rules, 4 attempts, 1 change by others, 1 fault, fair | `TypeOK`, `WorkedOnOnce`, `RefusedOnlyInTransition`, `RoutedByRules`, `Decided` | routing for every status of the nodes and order of listing; races of a message with registrations and removals; retries and timeouts |
| `LifecycleUp` | 1 process, the port free, taken, or another coordinator's, 2 messages, fair | `TypeOK`, `ListedListens`, `NoVainWait`, `NoStrayNode`, `SignalEnds` | every order of start, signal, failure and shutdown |
| `BootstrapJoin` | 1 machine, any number of joins, 3 keys of 2 values, 2 keys excluded | `TypeOK`, `NothingForeign`, `StartedIsFound` | the seed over failed reads, interrupted joins and a machine that is configured meanwhile; discovery against what was started |

Why the bounds are enough. A race between two saves needs two handlers and two
rules; a removal in the middle of a list needs three, which the sequential run
has. (The safety properties of the rule store are also proved for any number.) In `Membership` agents meet
only in the registry, through ids drawn and entries removed, so two agents show
every interference; two faults are a restart of the coordinator plus a lost or
late exchange, and the one-agent runs go deeper. `FailLimit` is 2 except where
the number itself matters. `MaxIds`, `MaxFaults`, `MaxRules`, `MaxTime` and
`MaxGlitches` bound counters in guards; when `MaxIds` is used up, a registration
stays unanswered until the client gives up. For liveness, `MaxIds` exceeds
`MaxFaults`, so no agent is kept out by the bound. The health checker
treats nodes independently, except that a round waits for all probes; each
probe is bounded by `Delay`, so one node shows what a round can do to it. One
unit of time is 5 s: timeout 6, checker 2, beat 3, and `Delay` 1 stands for the
probe's 3 s; a beat that takes longer than 5 s is outside that instance.

Two callers with two messages are either two questions or a question and its
retry; a clash of numbers needs two requests that draw at a time, and the
reader's connect request, which draws from the same counter, is a third.

In `Forwarding`, two rules show that the first one decides and what a rule that
admits nobody leaves to the next; a third would only be one more turn of the
same loop. The three nodes differ in every criterion and share some. One
change and one fault can fall between any two steps; all four attempts of the
code are made. The initial states already have every mixture of statuses, so
that a change by others is needed only for what the handler has read before.
The timeouts are 1, 2 and 3 for 30 s (`WriteTimeout`), 145 s and 180 s: one call
is waited for at a time, so only their order can be seen.

`LifecycleUp` needs no bound except the number of messages: one that is drained
and one that comes too late. `BootstrapJoin` needs none at all: with one shared
key and two of the machine's own, two values tell the seed's from the
machine's, and joins may follow each other forever. All nine places of the two
binaries, and all nine forms of the two other files, are initial states. The
excluded keys are interchangeable there, and so are the values, since no
definition and no property names one of them; TLC uses that symmetry.

Deadlock is checked in the rule store and in `Bootstrap`. In `Membership` all agents may have
left, in `HealthCheck` the clock ends, in `GatewayWS` the calls are finite in
number, in `Forwarding` there is one message, and the process of `Lifecycle`
ends, so there the system may stop.

## 4. Fairness

* `RuleStore`: a handler that is running goes on (weak); a handler waiting for
  `Store.mu` gets it (strong), because Go's mutex hands itself to a waiter that
  has starved for a millisecond. Nothing forces a request, a failure, a crash
  or a restart.
* `Membership`: the server works on each request it has received, abandoned or
  not (weak, per agent); the agent's loop goes on, its ticker fires and its
  backoff ends (weak); `select` with `stopCh` closed and the ticker both ready
  chooses `stopCh` eventually (strong, since Go's choice is random and the loop
  returns to it); somebody restarts a stopped coordinator (weak): without that
  nobody can rejoin. Faults are not fair and bounded by `MaxFaults`: `Rejoins`
  speaks of what follows the last of them.
* `GatewayWS`: a call that has begun goes on, and its timers fire (weak, per
  call). A write is one of these steps although `WriteMessage` has no deadline
  (`gateway_ws_client.go:271`): that it returns is assumed of the gateway, which
  reads its connection, and of the connection, which breaks or accepts. Nothing
  else is asked of the reader, the gateway or the connection: every call returns
  even if they fall silent.
* `Forwarding`: the handler goes on, time passes, and a node's process works on
  its calls unless it hangs (weak, each). Nobody else has to do anything, and
  `Decided` holds for a node that hangs as well.
* `Lifecycle`: each goroutine that can go on does, and each call has a timeout
  (weak: `Start`, `ProbesDone`, `BeatDone`, `MainStep`, one condition per
  message for its handler); the `select` of the health loop and of the heartbeat loop with a closed
  channel and a ticker both ready takes the channel at some time (strong,
  Go's choice is random). No signal, probe, beat or failure has to happen.
* `HealthCheck` and `Bootstrap` assume none; only safety is checked there.

## 5. Proofs

Every invariant and every action property that a passing run checks is proved
with TLAPS for every value of the constants, and so is the refinement of
`DurableRules`. The assumptions are named, and TLC evaluates them on the runs:

* `MaxRulesAssumption`, `MembershipAssumption`, `HealthAssumption`: bounds and
  periods are naturals, limits and periods are positive, and a probe is over
  before the next round (3 s of 10 s);
* `BeatAssumption`: a beat sent in time arrives before its node is stale, also
  the first one, whose interval begins with the registration's answer: of the
  30 s, 15 s are the interval, so the answer and the beat may take 7.5 s each.
  The agent's client gives up after 10 s only; if both take that long, 35 s pass
  and the node is shown offline until the beat is there;
* `KeysAssumption`: the excluded keys are keys;
* `GatewayAssumption`: the names of goroutines differ, and no message is one of
  the model's own words;
* `ForwardingAssumption`: bounds and timeouts are naturals, there are finitely
  many nodes, and the rules are ones that `validateRule` lets pass.

`Lifecycle` needs none. One theorem has a hypothesis of its own, because a flag
may break it: see `WorkedOnAtMostOnce`.

**`RuleStore_proofs`**: `TypeCorrect`, `AtomicWrites` (`DiskWhole`),
`PrecedenceKept` (`SamePrecedence`), `SoloSavesSync` (`SoloSaveSyncs`) and, for a
single handler, `SequentialDurable` (`AckedDurable` and `DeletedStaysDeleted`).
None of the properties is inductive. The invariant adds: what each phase of a
save means for lock and temporary file (`SaveInv`: the lock is held by whoever
writes, a written temporary file is that handler's copy), that *every* list,
also the copies on their way, is in order and below `next` (`OrderInv`), and
that a lone save's copy equals the list in force (`SoloInv`). For one client,
`SeqInv` relates the request in progress to what was promised before it.
`OneClientIsServed` proves the refinement: from the same invariant, every step
of a lone handler is a step of `DurableRules` or leaves its variables alone
(`PromiseChange` for the critical sections, `PromiseSave` for the save,
`PromiseOther` for the rest).

**`Membership_proofs`**: `TypeCorrect`, `HolderIsReachable`, `NobodyImpersonated`,
`RemovedForGood`, `NoGhostsLeft` (`NoGhosts`) and `UndisturbedAgentsAccept`
(`UndisturbedAccepts`). The invariant adds `Drawn` (whatever carries an id carries
one below `next`, so a new id is nobody's), `OneCall` (an agent waits for at most
one answer, of the kind its phase asks for, so the answer it reads is that of
its own registration) and `TokenInv` (the token of id *n* is *n*; a
registration answered `ok` has its token in the registry for as long as it has
the node). Each action has a lemma: those of the coordinator through
`AnswerStep`, those of the agent through `SendStep` and `SettledStep`.
The last two theorems are about an agent that never crashed and never gave up
on an exchange. `Quiet` says that it counts failures, registers anew or hears of
an error only when the coordinator has forgotten its id; so it has the mesh
token only while its id is gone, and no entry but that of its id or of the
registration under way. `Plain` is what this needs of calls in general;
`QuietFrame` says that nobody else's step disturbs it.

**`HealthCheck_proofs`**: `TypeCorrect`, `SilentNodesGoOffline`,
`DeadNodesGoOffline`, `AlarmsAreTrue`, `MarksAreBrief` and `DepartedForGood`, for
all periods. The invariant adds that the loop keeps up with its ticker
(`Rounds`), where the beats are (`BeatsInv`), that whoever is not offline was
heard of within the timeout before the last tick (`Heard`), that a node that is
up has a beat due or under way in time, its failures are glitches, and a beat
after a mark will undo it (`UpInv`), and, for a dead node, that each round since
its last beat has counted one failure or is about to (`DeadInv`). `UpInv`
needs a beat to arrive in time (`BeatInTime`, from `BeatAssumption`); `Spacing`
is the longest time between two that an `up` node sends.

**`GatewayWS_proofs`**: `TypeCorrect`, `LockIsReleased` (`SendNeverBlocks`),
`EntriesAreTakenBack` (`NoLeak`), `AnswersAreOwn` and `AnswersAreWhole`, for any
number of callers and messages. The core is `PendingInv`: an entry of `pending`
is under its owner's number and its channel is empty, although two callers may
have drawn the same number. `ConnInv` and `ChallengeInv` show why there is one
reader with one connect request, `OriginInv` follows a number from the request
over the wire to the answer, `EndInv` ties a result to a run that has ended, and
`RunsInv` the entries of `runs` to their callers.

**`Routing_proofs`**: `RouteIsAdmissible`: what `Route` computes in its loops is
what `Admissible` says without them, for every list of rules, every mesh and
every order of its nodes. A loop is a fold, and a fold a function defined by
recursion on sets of indices. `Recursion` proves, by least counterexample
(`Induction`), that there is such a function; then each loop is unrolled turn by
turn (`FilterTurns`, `LeastTurns`, `RuleTurns`) and what it has done after *k*
turns is again an induction (`FilterResult`, `LeastResult`, `RulesResult`).
`Routing` writes its filters as `Filter`, a fold, since `SelectSeq` has no
definition the provers can expand.

**`Forwarding_proofs`**: `TypeCorrect`, `RoutedByTheRules` (`RoutedByRules`),
`RefusalsAreTransitional` and `WorkedOnAtMostOnce`. `RoutedByTheRules` is
`RouteIsAdmissible` in the handler: the list is a permutation of a finite map
(`Listed`). The invariant adds when there are calls (`FlowInv`), that the clock
is bounded by the attempts (`ClockInv`) and that a node without a token, or
whose token was not found, has registered lately (`TokenInv`).
`WorkedOnAtMostOnce` assumes `GatewayTimeout < ForwardTimeout`, which holds for
the defaults (25 s to connect and 120 s for the answer, of 180 s) and not for
every `--gateway-timeout`: then, without a fault, all calls before the last reached nobody, and the last one is
over before the forwarder gives up (`NestedInv`).

**`Lifecycle_proofs`**: `TypeCorrect`, `ListedNodeListens`, `NobodyWaitsInVain`
(`NoVainWait`) and `NoNodeAstray`, for any number of messages. The invariant splits the
types in three (`Phases`, `Flags`, `NodeTypes`) and says what each stage of
`main` implies for the others: when the outcome is chosen and from when on there
can be an agent (`MainInv`), that the handler is open from before the
registration until the heartbeat loop has ended (`HandlerInv`), that a
registered agent has a heartbeat loop and is told to stop before it is waited
for (`BeatsWait`), that with a port of its own the health loop is there or still
to come, also when `Stop` came first (`HealthWait`), and who lists the node and
will take it out: unless a call was late, an entry has an agent, and the other
coordinator's is gone once the agent has left (`EntryInv`). Each conjunct has a
lemma, with one step per group of actions.

**`Bootstrap_proofs`**: `TypeCorrect`, `LocalKeysAreLocal` (`NothingForeign`)
and `StartedGatewayIsUsed`, for any keys and values and any number of joins.
That the file has nothing foreign (`FileOwn`) is not inductive: the invariant
adds the same of what a join is about to write (`PendingOwn`), which is a merge
of the seed with an older state of the file or with nothing, and that a gateway
which was seen and still counts is running (`StartedInv`). `FilteredIsClean` and
`MergedLocal` are the facts about the seed: an answer has no excluded key, and a
merge gives such a key only what one of its two maps gives it.

Only model-checked: liveness (`EveryRequestAnswered`, `Rejoins`,
`ShutdownEnds`, `EveryCallReturns`, `Decided`, `SignalEnds`), since liveness under
fairness and `ENABLED` are out of the prover's reach, and the three properties
that fail (`AckedDurable` for two handlers, `OnlineNodeAccepts`,
`NoEventMissed`).
No module uses a `RECURSIVE` operator.

## 6. Findings

1. **A rule that was accepted can be missing after a restart** (`router.go:49`).
   The copy is taken under `Router.mu` and saved after it is released, so an
   older copy can be the last one renamed. `RuleStoreLostRule` has the trace: two
   POSTs, both answered 201, one rule in the file.
2. **A node can be online and refuse all messages** (`agent.go:221`). A failed
   re-registration leaves the mesh token in place of the node's; when the
   coordinator was only unreachable, the next beat succeeds with it, and the
   agent sees no reason to register again. `MembershipZombie` has the trace.
3. **Events of a run can be missed** (`gateway_ws_client.go:331` against the
   comment at line 306). The run is entered after the answer has been read, so
   what the run says before that is dropped. If its end is dropped as well, the
   caller waits for its timeout; if not, as in the trace of `GatewayEvents`, it
   answers "(no response)" as a success.
`OwnAnswer` is stated for calls that drew different numbers. Without that premise
it does not hold: `c.seq++` and the read after it are not under the lock
(`gateway_ws_client.go:256`), two calls can send the same id, and the second in
`pending` gets the answer to the first. In the same way a panicked writer's
entry stays in `pending` until the connection breaks, which `NoLeak` excepts.

Met on the way and part of the models, without a run of their own:

* **A signal may not end the process** (`health.go:61`). `Stop` waits for `done`,
  which only the loop closes; if the port was taken, `Start` returned before
  there was a loop. When `RunE` then finds both the error and a signal, its
  `select` may choose the signal, and `Shutdown` ("gracefully stops the server",
  `server.go:108`) waits for ever; a second Ctrl-C does nothing, because the
  first is still being handled. `SignalEnds` names that state, `StopsForEver`,
  and shows that it is the only one a signal can be stuck in
  (`docs/plans/2026-02-13-p0-p1-bdd-design.md:177` asks for an exit within 5 s).
* **The merge of the seed can lose the machine's own keys** (`seed.go:47`), which
  the comment two lines above promises to preserve. A file that is there and
  cannot be read, or that OpenClaw reads and `encoding/json` does not parse, is
  replaced by the seed alone (`Existing`). `os.WriteFile` truncates; a join
  killed there leaves a torn file, which the next join takes for none. What
  another program writes between the join's reading and writing is undone. So
  there is no property that the own keys are kept; what does hold is
  `NothingForeign`, that such a key never has a value of the coordinator's.
* **A slow answer is lost on its last leg** (`server.go:90`). The forwarder waits
  180 s and the gateway client 120 s, since AI processing may be slow
  (`docs/openclaw-gateway-integration.md:514`), but the coordinator's
  `WriteTimeout` is 30 s: what comes later cannot be written to the client. The
  work is done and its answer gone (`cut` in `Forwarding`). A later design knows
  the limit (`docs/design-v0.2-skill-fabric.md:1060`).
* **A gateway that was started is not always found.** `main.go:271` starts the
  runtime before the agent "so that resolveGatewayEndpoint() can discover the
  just-started gateway", but `discoverFromProcess` looks for `openclaw` in
  `PATH`: a ZeroClaw, or an OpenClaw that was installed to `~/.local/bin`, is
  started and not found, and the agent echoes. This is the premise of `StartedIsFound`.
* **An `openclaw.json` counts as a gateway** (`discovery.go:38`). After the first
  join has written the seed, later joins find an endpoint in it and neither
  fetch the seed again nor start the runtime (`main.go:277`), whether or not
  anything listens.
* **The local node registers once** (`main.go:213`). If that fails, its handler
  goes on listening, and nobody tries again.
* **A gateway timeout above 155 s can repeat work** (`main.go:378`). The flag
  `--gateway-timeout` has no limit, dialling and the handshake come on top of it
  with up to 25 s, and the forwarder's client gives up after 180 s
  (`forwarder.go:25`) and sends the message again while the gateway is still at
  it. This is the hypothesis of `WorkedOnAtMostOnce`.
* A probe that fails after its node was removed leaves a failure count that is
  never deleted (`health.go:111`).

Smaller differences between documents and code:
a node is offline after three failed probes in a row (`health.go:41`), not two
(`design-zh.md:79`); beats go out every 15 s, not 10 (`design-zh.md:78`); re-registration starts after
5 failures, not 3 (`design-zh.md:87`), which with the backoff is over a minute and
not "about 30 seconds" (`usage-zh.md:228`); a gateway connection whose handshake
timed out, or that broke, is not dialled again, though
`gateway_ws_client.go:390` logs "will retry on first message" and
`openclaw-gateway-integration.md:286` describes a reconnect; "node goes down,
traffic reroutes" (`README.md:15`) is true of messages that arrive after the node
was marked offline, but all attempts of one message go to the node chosen first.

## 7. Not modelled

In `RuleStore`, the mode without a store is left out: when `NewStore` fails, the
server only warns (`server.go:45-50`), `persistRules` does nothing
(`router.go:83-85`), and a rule that is answered 201 is in memory only; nothing
the module says of the disk applies then. In `Forwarding`, an open
mesh without tokens, messages refused for their form, and a node without a
gateway, which always echoes, are left out. In `GatewayWS`, two callers
that dial at the same time (the second connection would replace the first, with
two readers on it) and `Close`, which nothing calls, are left out, and so is a
write that never returns because the gateway has stopped reading. In `Bootstrap`, the workspace files (copied without a
condition, read by nothing in the mesh), the gateway's token and endpoint
string, and the arguments and platforms of the installers are left out;
so is the signal handling of a join that serves, which is `Leave`. In `Lifecycle`, the local node is the only one
that is followed: others are `Membership` and `Forwarding`. Left out for good: the other commands
(`init`, `status`, `nodes`, `send`, `route`: one request and its layout), reading
configuration and detecting capabilities (pure I/O at start-up), the dashboard,
scripts and `cmd/wstest`, JSON and log texts, the validation of endpoints
(`validateEndpoint` is a predicate on strings), a failing random generator.
In `Membership`, a process that left by `Shutdown` is not started again (a
restart is covered by crash and `Start`).

## 8. Plan

In this order; the first eight are done.

1. `RuleStore`: done, proved.
2. `Registry`, `Membership`: done, proved.
3. `HealthCheck`: done, proved.
4. `GatewayWS`: done, proved.
5. `Routing`, `Forwarding`: done, proved.
6. `DurableRules` and its refinement by `RuleStore`: done, proved.
7. `Lifecycle`: done, proved.
8. `Bootstrap`: done, proved.
9. A membership service that `Membership` implements.
