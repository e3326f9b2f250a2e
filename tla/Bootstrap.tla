------------------------------ MODULE Bootstrap ------------------------------
(***************************************************************************)
(* How a machine gets into the mesh: `claw-mesh join' of                   *)
(* cmd/claw-mesh/main.go up to the registration, the seed it copies from   *)
(* the coordinator (coordinator/seed.go, node/seed.go), the discovery of   *)
(* a local gateway (node/discovery.go), and the runtime it detects,        *)
(* installs and starts (node/runtime.go).                                  *)
(*                                                                         *)
(* Joins of one machine follow each other, and each may be interrupted at  *)
(* any point; openclaw.json, the binaries and the gateway outlive them.    *)
(* Other programs of the machine, OpenClaw among them, start and stop the  *)
(* gateway and write openclaw.json while a join is going on.               *)
(*                                                                         *)
(* A flag that is asked once is a choice made when it is asked; the one    *)
(* that is asked several times is mode.  The workspace files, which        *)
(* nothing in the mesh reads, and the gateway's token are left out.        *)
(***************************************************************************)
EXTENDS Functions, Maps

CONSTANTS
    Keys,       \* the top-level keys of an openclaw.json
    Excluded,   \* excludedConfigKeys: the keys that belong to one machine
    Values      \* what a key may be set to

ASSUME KeysAssumption == Excluded \subseteq Keys

VARIABLES
    file,       \* ~/.openclaw/openclaw.json of this machine
    here,       \* openclaw.json in the directory of the join
    system,     \* /etc/openclaw/openclaw.json
    place,      \* where the binary of each runtime is
    running,    \* a gateway listens on port 18789
    step,       \* where the join is
    mode,       \* how it is told to find its gateway
    kind,       \* the runtime it deals with
    seed,       \* the keys the coordinator answered, or those to be written
    endpoint,   \* where its agent found its gateway
    own,        \* history: what the machine's programs wrote to excluded keys
    started     \* history: StartRuntime saw the gateway, and it still runs

machine == <<file, here, system, place, running>>
join    == <<step, mode, kind, seed, endpoint>>
history == <<own, started>>
vars    == <<machine, join, history>>

-----------------------------------------------------------------------------
Kinds == {"openclaw", "zeroclaw"}

(* What a key-value map over some of a set of keys can be.                 *)
Configs(K) == UNION {[D -> Values] : D \in SUBSET K}

(* A file is torn when a write of the join was cut off.  One that is odd   *)
(* is as OpenClaw or its user want it, and not JSON for encoding/json: it  *)
(* has comments, say.                                                      *)
Files ==
    [form : {"missing", "torn"}, keys : {EmptyMap}]
        \cup [form : {"odd", "whole"}, keys : Configs(Keys)]

Elsewhere == {"missing", "odd", "whole"}

Torn == [form |-> "torn", keys |-> EmptyMap]

Steps == {"out", "looking", "fetching", "merging", "opening", "writing", "detecting",
          "installing", "starting", "onboarding", "waiting", "resolving",
          "registering", "serving"}

(* What the coordinator answers is free of the excluded keys, and so is    *)
(* what a join may add to a file.                                          *)
TypeOK ==
    /\ file \in Files
    /\ here \in Elsewhere /\ system \in Elsewhere
    /\ place \in [Kinds -> {"nowhere", "local", "path"}]
    /\ running \in BOOLEAN
    /\ step \in Steps
    /\ mode \in {"off", "given", "discover", "no discovery"}
    /\ kind \in Kinds
    /\ seed \in Configs(Keys)
    /\ step \notin {"opening", "writing"} => DOMAIN seed \cap Excluded = {}
    /\ endpoint \in {"none", "given", "config", "process"}
    /\ own \subseteq Excluded \X Values
    /\ started \in BOOLEAN

Init ==
    /\ file = [form |-> "missing", keys |-> EmptyMap]
    /\ here \in Elsewhere /\ system \in Elsewhere
    /\ place \in [Kinds -> {"nowhere", "local", "path"}]
    /\ running = FALSE
    /\ step = "out"
    /\ mode = "off"
    /\ kind = "openclaw"
    /\ seed = EmptyMap
    /\ endpoint = "none"
    /\ own = {} /\ started = FALSE

(* The join goes on to s, with whatever it keeps in local variables.       *)
GoTo(s) ==
    /\ step' = s
    /\ UNCHANGED <<mode, endpoint>>

(* The process is gone.                                                    *)
Ends ==
    /\ step' = "out" /\ mode' = "off" /\ kind' = "openclaw"
    /\ seed' = EmptyMap /\ endpoint' = "none"
    /\ started' = FALSE

-----------------------------------------------------------------------------
(* Finding a gateway.                                                      *)

(* findOpenClawConfig: the first of three files that is there.             *)
findOpenClawConfig ==
    CASE here # "missing" -> here
      [] here = "missing" /\ file.form # "missing" -> file.form
      [] OTHER -> system

(* discoverFromConfig asks for a file it can parse, not for a gateway.     *)
discoverFromConfig == findOpenClawConfig = "whole"

(* discoverFromProcess knows one runtime, and only in PATH.                *)
discoverFromProcess == place["openclaw"] = "path" /\ running

resolveGatewayEndpoint ==
    CASE mode = "given" -> "given"
      [] mode = "discover" /\ discoverFromConfig -> "config"
      [] mode = "discover" /\ ~discoverFromConfig /\ discoverFromProcess -> "process"
      [] OTHER -> "none"

Begin ==
    /\ step = "out"
    /\ mode' \in {"off", "given", "discover", "no discovery"}
    /\ step' = "looking"
    /\ UNCHANGED <<machine, kind, seed, endpoint, history>>

LookSettled ==
    /\ step = "looking"
    /\ mode = "off" \/ resolveGatewayEndpoint # "none"
    /\ GoTo("resolving")
    /\ UNCHANGED <<machine, kind, seed, history>>

(* --no-sync-config goes straight to the runtimes.                         *)
LookFails ==
    /\ step = "looking"
    /\ mode # "off" /\ resolveGatewayEndpoint = "none"
    /\ GoTo("fetching") \/ GoTo("detecting")
    /\ UNCHANGED <<machine, kind, seed, history>>

-----------------------------------------------------------------------------
(* The seed.                                                               *)

(* Mutant of Filtered: nothing is taken out.                               *)
Unfiltered(config) == config

(* What handleSeedConfig lets out of the coordinator's openclaw.json.      *)
Filtered(config) == Restrict(config, DOMAIN config \ Excluded)

(* The coordinator's file is whatever it is at that moment.                *)
SeedAnswered ==
    /\ step = "fetching"
    /\ \E config \in Configs(Keys) : seed' = Filtered(config)
    /\ GoTo("merging")
    /\ UNCHANGED <<machine, kind, history>>

(* No coordinator, no right to ask, no file there or none it can parse; or *)
(* no directory here.  The join only warns.                                *)
SeedFails ==
    /\ step \in {"fetching", "merging"}
    /\ GoTo("detecting")
    /\ seed' = EmptyMap
    /\ UNCHANGED <<machine, kind, history>>

(* The seed wins where both have a key.                                    *)
Merged(config, existing) ==
    [k \in DOMAIN config \cup DOMAIN existing |->
        IF k \in DOMAIN config THEN config[k] ELSE existing[k]]

(* What FetchSeedConfig makes of the file that is there: nothing, if it    *)
(* cannot be read or parsed.                                               *)
Existing == {EmptyMap} \cup (IF file.form = "whole" THEN {file.keys} ELSE {})

(* A seed that has nothing to be merged with is written all the same.      *)
ReadConfig ==
    /\ step = "merging"
    /\ \E existing \in Existing : seed' = Merged(seed, existing)
    /\ GoTo("opening")
    /\ UNCHANGED <<machine, kind, history>>

(* os.WriteFile truncates the file it opens.                               *)
OpenConfig ==
    /\ step = "opening"
    /\ file' = Torn
    /\ GoTo("writing")
    /\ UNCHANGED <<here, system, place, running, kind, seed, history>>

OpenFails ==
    /\ step = "opening"
    /\ GoTo("detecting")
    /\ seed' = EmptyMap
    /\ UNCHANGED <<machine, kind, history>>

WriteConfig ==
    /\ step = "writing"
    /\ file' = [form |-> "whole", keys |-> seed]
    /\ GoTo("detecting")
    /\ seed' = EmptyMap
    /\ UNCHANGED <<here, system, place, running, kind, history>>

WriteFails ==
    /\ step = "writing"
    /\ file' = Torn
    /\ GoTo("detecting")
    /\ seed' = EmptyMap
    /\ UNCHANGED <<here, system, place, running, kind, history>>

-----------------------------------------------------------------------------
(* The runtime.                                                            *)

(* DetectRuntime looks into PATH only, for OpenClaw first.                 *)
Detected ==
    {k \in Kinds : place[k] = "path" /\ (k = "zeroclaw" => place["openclaw"] # "path")}

DetectStarts ==
    /\ step = "detecting"
    /\ kind' \in Detected
    /\ GoTo("starting")
    /\ UNCHANGED <<machine, seed, history>>

(* With --auto-install, the runtime of --runtime or RecommendRuntime.      *)
DetectInstalls ==
    /\ step = "detecting" /\ Detected = {}
    /\ kind' \in Kinds
    /\ GoTo("installing")
    /\ UNCHANGED <<machine, seed, history>>

(* Without it, a tip.                                                      *)
DetectGivesUp ==
    /\ step = "detecting" /\ Detected = {}
    /\ GoTo("resolving")
    /\ UNCHANGED <<machine, kind, seed, history>>

(* A prefix that cannot be written to sends the binary to ~/.local/bin.    *)
Installed ==
    /\ step = "installing"
    /\ \E p \in {"local", "path"} : place' = [place EXCEPT ![kind] = p]
    /\ GoTo("starting")
    /\ UNCHANGED <<file, here, system, running, kind, seed, history>>

InstallFails ==
    /\ step = "installing"
    /\ GoTo("resolving")
    /\ UNCHANGED <<machine, kind, seed, history>>

(* Whatever listens on the port counts as the gateway.                     *)
AlreadyRunning ==
    /\ step = "starting" /\ running
    /\ started' = TRUE
    /\ GoTo("resolving")
    /\ UNCHANGED <<machine, kind, seed, own>>

Onboard ==
    /\ step = "starting" /\ ~running
    /\ kind = "openclaw" /\ place[kind] # "nowhere"
    /\ GoTo("onboarding")
    /\ UNCHANGED <<machine, kind, seed, history>>

Serve ==
    /\ step = "starting" /\ ~running
    /\ kind = "zeroclaw" /\ place[kind] # "nowhere"
    /\ GoTo("waiting")
    /\ UNCHANGED <<machine, kind, seed, history>>

(* No binary, no API key, or a command that cannot be run.                 *)
StartFails ==
    /\ step = "starting" /\ ~running
    /\ GoTo("resolving")
    /\ UNCHANGED <<machine, kind, seed, history>>

Onboarded ==
    /\ step = "onboarding"
    /\ GoTo("waiting") \/ GoTo("resolving")
    /\ UNCHANGED <<machine, kind, seed, history>>

GatewayReached ==
    /\ step = "waiting" /\ running
    /\ started' = TRUE
    /\ GoTo("resolving")
    /\ UNCHANGED <<machine, kind, seed, own>>

(* waitForGateway gives up after 30 s.                                     *)
WaitTimesOut ==
    /\ step = "waiting"
    /\ GoTo("resolving")
    /\ UNCHANGED <<machine, kind, seed, history>>

-----------------------------------------------------------------------------
(* The agent.                                                              *)

(* Mutant of NewAgent: the agent is made of what was found at first.       *)
NewAgentAsLooked ==
    /\ step = "resolving"
    /\ UNCHANGED endpoint
    /\ step' = "registering"
    /\ UNCHANGED <<machine, mode, kind, seed, history>>

(* NewAgent, with what is found now.                                       *)
NewAgent ==
    /\ step = "resolving"
    /\ endpoint' = resolveGatewayEndpoint
    /\ step' = "registering"
    /\ UNCHANGED <<machine, mode, kind, seed, history>>

(* StartHandler and Register.                                              *)
Registered ==
    /\ step = "registering"
    /\ GoTo("serving")
    /\ UNCHANGED <<machine, kind, seed, history>>

(* Either ends the process with an error; so does, later, a signal.        *)
Leave ==
    /\ step \in {"registering", "serving"}
    /\ Ends
    /\ UNCHANGED <<machine, own>>

(* Before there is an agent a signal simply kills the process.             *)
Crash ==
    /\ step # "out"
    /\ Ends
    /\ UNCHANGED <<machine, own>>

-----------------------------------------------------------------------------
(* The other programs of the machine.                                      *)

GatewayStarts ==
    /\ ~running
    /\ running' = TRUE
    /\ UNCHANGED <<file, here, system, place, join, history>>

GatewayStops ==
    /\ running
    /\ running' = FALSE
    /\ started' = FALSE
    /\ UNCHANGED <<file, here, system, place, join, own>>

(* An excluded key is set, in a file that is written at once and that the  *)
(* join may or may not be able to read.  A join that has read the file     *)
(* before and not written it yet will undo this.                           *)
Configure ==
    /\ \E k \in Excluded, v \in Values, form \in {"odd", "whole"} :
         /\ file' = [form |-> form, keys |-> Put(file.keys, k, v)]
         /\ own' = own \cup {<<k, v>>}
    /\ UNCHANGED <<here, system, place, running, join, started>>

-----------------------------------------------------------------------------
Next ==
    \/ Begin \/ LookSettled \/ LookFails
    \/ SeedAnswered \/ SeedFails \/ ReadConfig
    \/ OpenConfig \/ OpenFails \/ WriteConfig \/ WriteFails
    \/ DetectStarts \/ DetectInstalls \/ DetectGivesUp \/ Installed \/ InstallFails
    \/ AlreadyRunning \/ Onboard \/ Serve \/ StartFails \/ Onboarded
    \/ GatewayReached \/ WaitTimesOut
    \/ NewAgent \/ Registered \/ Leave \/ Crash
    \/ GatewayStarts \/ GatewayStops \/ Configure

Spec == Init /\ [][Next]_vars

-----------------------------------------------------------------------------
(* Properties.                                                             *)

(* The keys of this machine's openclaw.json that belong to one machine     *)
(* (coordinator/seed.go:13) have a value that a program of this machine    *)
(* gave them, whatever the coordinator's own file holds and whatever       *)
(* becomes of the joins: a read that fails, a write that is cut off, one   *)
(* that undoes what another program has written meanwhile.                 *)
NothingForeign ==
    {<<k, file.keys[k]>> : k \in DOMAIN file.keys \cap Excluded} \subseteq own

(* A join that has started a gateway, or seen it running, gives its agent  *)
(* an endpoint (cmd/claw-mesh/main.go:271), if it may look for one and     *)
(* openclaw is in PATH.  Without that condition it fails: a ZeroClaw, or   *)
(* an OpenClaw installed to ~/.local, is started and then not found, and   *)
(* the agent echoes.                                                       *)
StartedIsFound ==
    step = "serving" /\ started /\ mode = "discover" /\ place["openclaw"] = "path"
        => endpoint # "none"
=============================================================================
