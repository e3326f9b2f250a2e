-------------------------- MODULE Bootstrap_proofs --------------------------
(***************************************************************************)
(* What holds of the joins of a machine for any keys and values of its     *)
(* openclaw.json.                                                          *)
(***************************************************************************)
EXTENDS Bootstrap, TLAPS

-----------------------------------------------------------------------------
(* Maps over some of a set of keys.                                        *)

(* What a map gives to excluded keys.                                      *)
Local(config) == {<<k, config[k]>> : k \in DOMAIN config \cap Excluded}

(* Membership in Configs, without the domain as a parameter.               *)
LEMMA ConfigsMember ==
    ASSUME NEW K, NEW f
    PROVE  f \in Configs(K) <=> f \in [DOMAIN f -> Values] /\ DOMAIN f \subseteq K
  <1>1. ASSUME f \in Configs(K) PROVE f \in [DOMAIN f -> Values] /\ DOMAIN f \subseteq K
    <2>1. PICK D \in SUBSET K : f \in [D -> Values]
      BY <1>1 DEF Configs
    <2> QED BY <2>1
  <1>2. ASSUME f \in [DOMAIN f -> Values], DOMAIN f \subseteq K PROVE f \in Configs(K)
    BY <1>2 DEF Configs
  <1> QED BY <1>1, <1>2

(* The map of a file without keys.                                         *)
LEMMA EmptyConfig ==
    ASSUME NEW K
    PROVE  EmptyMap \in Configs(K) /\ DOMAIN EmptyMap = {}
  <1>1. DOMAIN EmptyMap = {} /\ EmptyMap = [k \in DOMAIN EmptyMap |-> EmptyMap[k]]
    BY DEF EmptyMap
  <1>2. EmptyMap \in [DOMAIN EmptyMap -> Values]
    BY <1>1
  <1> QED BY <1>1, <1>2, ConfigsMember

(* A map without excluded keys gives them nothing.                         *)
LEMMA CleanLocal ==
    ASSUME NEW config, DOMAIN config \cap Excluded = {}
    PROVE  Local(config) = {}
  BY DEF Local

(* handleSeedConfig answers no excluded key.                               *)
LEMMA FilteredIsClean ==
    ASSUME NEW config \in Configs(Keys)
    PROVE  /\ Filtered(config) \in Configs(Keys)
           /\ DOMAIN Filtered(config) \cap Excluded = {}
  <1>1. config \in [DOMAIN config -> Values] /\ DOMAIN config \subseteq Keys
    BY ConfigsMember
  <1>2. DOMAIN Filtered(config) = DOMAIN config \ Excluded
    BY DEF Filtered, Restrict
  <1>3. Filtered(config) \in [DOMAIN config \ Excluded -> Values]
    BY <1>1 DEF Filtered, Restrict
  <1> QED BY <1>1, <1>2, <1>3, ConfigsMember

(* A merge gives excluded keys what one of its two maps gives them.        *)
LEMMA MergedLocal ==
    ASSUME NEW config \in Configs(Keys), NEW existing \in Configs(Keys)
    PROVE  /\ Merged(config, existing) \in Configs(Keys)
           /\ Local(Merged(config, existing)) \subseteq Local(config) \cup Local(existing)
  <1> DEFINE merged == Merged(config, existing)
  <1>1. /\ config \in [DOMAIN config -> Values] /\ DOMAIN config \subseteq Keys
        /\ existing \in [DOMAIN existing -> Values] /\ DOMAIN existing \subseteq Keys
    BY ConfigsMember
  <1>2. DOMAIN merged = DOMAIN config \cup DOMAIN existing
    BY DEF Merged
  <1>3. merged \in [DOMAIN merged -> Values]
    BY <1>1, <1>2 DEF Merged
  <1>4. merged \in Configs(Keys)
    BY <1>1, <1>2, <1>3, ConfigsMember
  <1>5. ASSUME NEW k \in DOMAIN merged \cap Excluded
        PROVE  <<k, merged[k]>> \in Local(config) \cup Local(existing)
    <2>1. CASE k \in DOMAIN config
      <3>1. merged[k] = config[k]
        BY <1>2, <2>1 DEF Merged
      <3> QED BY <2>1, <3>1 DEF Local
    <2>2. CASE k \notin DOMAIN config
      <3>1. k \in DOMAIN existing /\ merged[k] = existing[k]
        BY <1>2, <2>2 DEF Merged
      <3> QED BY <3>1 DEF Local
    <2> QED BY <2>1, <2>2
  <1>6. Local(merged) \subseteq Local(config) \cup Local(existing)
    BY <1>5 DEF Local
  <1> QED BY <1>4, <1>6

(* Setting an excluded key.                                                *)
LEMMA PutLocal ==
    ASSUME NEW f \in Configs(Keys), NEW k \in Excluded, NEW v \in Values
    PROVE  /\ Put(f, k, v) \in Configs(Keys)
           /\ Local(Put(f, k, v)) \subseteq Local(f) \cup {<<k, v>>}
  <1> DEFINE put == Put(f, k, v)
  <1>1. f \in [DOMAIN f -> Values] /\ DOMAIN f \subseteq Keys /\ k \in Keys
    BY ConfigsMember, KeysAssumption
  <1>2. DOMAIN put = DOMAIN f \cup {k}
    BY DEF Put
  <1>3. put \in [DOMAIN put -> Values]
    BY <1>1, <1>2 DEF Put
  <1>4. put \in Configs(Keys)
    BY <1>1, <1>2, <1>3, ConfigsMember
  <1>5. ASSUME NEW x \in DOMAIN put \cap Excluded
        PROVE  <<x, put[x]>> \in Local(f) \cup {<<k, v>>}
    <2>1. CASE x = k
      <3>1. put[x] = v
        BY <2>1 DEF Put
      <3> QED BY <2>1, <3>1
    <2>2. CASE x # k
      <3>1. x \in DOMAIN f /\ put[x] = f[x]
        BY <1>2, <2>2 DEF Put
      <3> QED BY <3>1 DEF Local
    <2> QED BY <2>1, <2>2
  <1>6. Local(put) \subseteq Local(f) \cup {<<k, v>>}
    BY <1>5 DEF Local
  <1> QED BY <1>4, <1>6

-----------------------------------------------------------------------------
(* The inductive invariant.                                                *)

(* What the file gives to excluded keys, and what a join is about to, is   *)
(* from a program of the machine: the coordinator's answer gives nothing.  *)
FileOwn    == Local(file.keys) \subseteq own
PendingOwn == Local(seed) \subseteq own

(* What StartRuntime has seen still runs, and is found.                    *)
StartedInv ==
    /\ started => running /\ step \in {"resolving", "registering", "serving"}
    /\ step \in {"registering", "serving"} /\ started
         /\ mode = "discover" /\ place["openclaw"] = "path" => endpoint # "none"

IInv == TypeOK /\ FileOwn /\ PendingOwn /\ StartedInv

LEMMA FileKeys == file \in Files => file.keys \in Configs(Keys)
  <1>1. ASSUME file \in [form : {"missing", "torn"}, keys : {EmptyMap}]
        PROVE file.keys \in Configs(Keys)
    <2>1. file.keys = EmptyMap BY <1>1
    <2> QED BY <2>1, EmptyConfig
  <1>2. ASSUME file \in [form : {"odd", "whole"}, keys : Configs(Keys)]
        PROVE file.keys \in Configs(Keys)
    BY <1>2
  <1> QED BY <1>1, <1>2 DEF Files

LEMMA TornFile == Torn \in Files /\ Torn.keys = EmptyMap
  BY DEF Torn, Files

LEMMA WrittenFile ==
    ASSUME NEW keys \in Configs(Keys), NEW form \in {"odd", "whole"}
    PROVE  [form |-> form, keys |-> keys] \in Files
  BY DEF Files

LEMMA InitInv == Init => IInv
  <1> SUFFICES ASSUME Init PROVE IInv
    OBVIOUS
  <1>1. file \in Files /\ file.keys = EmptyMap
    BY DEF Init, Files
  <1>2. EmptyMap \in Configs(Keys) /\ DOMAIN EmptyMap = {} /\ Local(EmptyMap) = {}
    BY EmptyConfig, CleanLocal
  <1>3. TypeOK
    BY <1>1, <1>2 DEF Init, TypeOK, Kinds, Steps
  <1>4. FileOwn /\ PendingOwn
    BY <1>1, <1>2 DEF Init, FileOwn, PendingOwn
  <1>5. StartedInv
    BY DEF Init, StartedInv
  <1> QED BY <1>3, <1>4, <1>5 DEF IInv

-----------------------------------------------------------------------------
(* Each action keeps it.                                                   *)

(* Steps that leave the machine and the histories alone.                   *)
LEMMA GoingOn ==
    ASSUME IInv, UNCHANGED <<machine, history>>,
           step' \in Steps, mode' \in {"off", "given", "discover", "no discovery"},
           kind' \in Kinds, endpoint' \in {"none", "given", "config", "process"},
           seed' \in Configs(Keys),
           step' \notin {"opening", "writing"} => DOMAIN seed' \cap Excluded = {},
           Local(seed') \subseteq own,
           started => step' \in {"resolving", "registering", "serving"},
           step' \in {"registering", "serving"} /\ started
               /\ mode' = "discover" /\ place["openclaw"] = "path" => endpoint' # "none"
    PROVE  IInv'
  <1>1. UNCHANGED <<file, here, system, place, running, own, started>>
    BY DEF machine, history
  <1>2. TypeOK'
    BY <1>1 DEF IInv, TypeOK
  <1>3. Local(file.keys)' = Local(file.keys)
    BY <1>1 DEF Local
  <1>4. FileOwn'
    BY <1>1, <1>3 DEF IInv, FileOwn
  <1>5. Local(seed)' = Local(seed')
    BY DEF Local
  <1>6. PendingOwn'
    BY <1>1, <1>5 DEF PendingOwn
  <1>7. StartedInv'
    BY <1>1 DEF IInv, StartedInv
  <1> QED BY <1>2, <1>4, <1>6, <1>7 DEF IInv

(* Those that carry nothing further either: the join only goes on.         *)
LEMMA Onwards ==
    ASSUME IInv, UNCHANGED <<machine, history, mode, endpoint>>, kind' \in Kinds,
           step' \in Steps \ {"opening", "writing", "registering", "serving"},
           \/ step \notin {"opening", "writing"} /\ seed' = seed
           \/ seed' = EmptyMap,
           started => step' = "resolving"
    PROVE  IInv'
  <1>1. EmptyMap \in Configs(Keys) /\ DOMAIN EmptyMap = {}
    BY EmptyConfig
  <1>2. step' \notin {"opening", "writing", "registering", "serving"}
    BY DEF Steps
  <1>3. seed' \in Configs(Keys) /\ DOMAIN seed' \cap Excluded = {}
    BY <1>1 DEF IInv, TypeOK
  <1>4. Local(seed') \subseteq own
    BY <1>3, CleanLocal
  <1> QED BY <1>2, <1>3, <1>4, GoingOn DEF IInv, TypeOK

LEMMA LookStep ==
    IInv /\ (Begin \/ LookSettled \/ LookFails) => IInv'
  <1> SUFFICES ASSUME IInv, Begin \/ LookSettled \/ LookFails PROVE IInv'
    OBVIOUS
  <1>1. CASE Begin
    <2>1. /\ step = "out" /\ step' = "looking" /\ ~started
          /\ mode' \in {"off", "given", "discover", "no discovery"}
      BY <1>1 DEF Begin, IInv, StartedInv
    <2>2. UNCHANGED <<machine, history, kind, seed, endpoint>>
      BY <1>1 DEF Begin
    <2>3. Local(seed') \subseteq own
      BY <2>2 DEF IInv, PendingOwn
    <2> QED BY <2>1, <2>2, <2>3, GoingOn DEF IInv, TypeOK, Steps
  <1>2. CASE LookSettled
    <2>1. /\ step = "looking" /\ step' = "resolving" /\ seed' = seed /\ kind' \in Kinds
          /\ UNCHANGED <<machine, history, mode, endpoint>>
      BY <1>2 DEF LookSettled, GoTo, IInv, TypeOK
    <2> QED BY <2>1, Onwards DEF Steps
  <1>3. CASE LookFails
    <2>1. /\ step = "looking" /\ step' \in {"fetching", "detecting"}
          /\ seed' = seed /\ kind' \in Kinds
          /\ UNCHANGED <<machine, history, mode, endpoint>>
      BY <1>3 DEF LookFails, GoTo, IInv, TypeOK
    <2>2. ~started
      BY <2>1 DEF IInv, StartedInv
    <2> QED BY <2>1, <2>2, Onwards DEF Steps
  <1> QED BY <1>1, <1>2, <1>3

LEMMA SeedStep ==
    IInv /\ (SeedAnswered \/ SeedFails \/ ReadConfig \/ OpenFails) => IInv'
  <1> SUFFICES ASSUME IInv, SeedAnswered \/ SeedFails \/ ReadConfig \/ OpenFails
               PROVE IInv'
    OBVIOUS
  <1>0. ~started
    BY DEF SeedAnswered, SeedFails, ReadConfig, OpenFails, IInv, StartedInv
  <1>1. CASE SeedAnswered
    <2>1. seed' \in Configs(Keys) /\ DOMAIN seed' \cap Excluded = {}
      BY <1>1, FilteredIsClean DEF SeedAnswered
    <2>2. step = "fetching" /\ step' = "merging" /\ UNCHANGED <<machine, history, mode, endpoint, kind>>
      BY <1>1 DEF SeedAnswered, GoTo
    <2>3. Local(seed') \subseteq own
      BY <2>1, CleanLocal
    <2> QED BY <1>0, <2>1, <2>2, <2>3, GoingOn DEF IInv, TypeOK, Steps
  <1>2. CASE SeedFails
    BY <1>0, <1>2, Onwards DEF SeedFails, GoTo, Steps, IInv, TypeOK
  <1>3. CASE ReadConfig
    <2>1. step = "merging" /\ step' = "opening" /\ UNCHANGED <<machine, history, mode, endpoint, kind>>
      BY <1>3 DEF ReadConfig, GoTo
    <2>2. PICK existing \in Existing : seed' = Merged(seed, existing)
      BY <1>3 DEF ReadConfig
    <2>3. /\ seed \in Configs(Keys) /\ Local(seed) \subseteq own
          /\ file.keys \in Configs(Keys) /\ Local(file.keys) \subseteq own
      BY FileKeys DEF IInv, TypeOK, FileOwn, PendingOwn
    <2>4. EmptyMap \in Configs(Keys) /\ Local(EmptyMap) = {}
      BY EmptyConfig, CleanLocal
    <2>5. existing \in Configs(Keys) /\ Local(existing) \subseteq own
      BY <2>2, <2>3, <2>4 DEF Existing
    <2>6. seed' \in Configs(Keys) /\ Local(seed') \subseteq own
      BY <2>2, <2>3, <2>5, MergedLocal
    <2> QED BY <1>0, <2>1, <2>6, GoingOn DEF IInv, TypeOK, Steps
  <1>4. CASE OpenFails
    BY <1>0, <1>4, Onwards DEF OpenFails, GoTo, Steps, IInv, TypeOK
  <1> QED BY <1>1, <1>2, <1>3, <1>4

(* The file is truncated, and then whole or not.                           *)
LEMMA WriteStep ==
    IInv /\ (OpenConfig \/ WriteConfig \/ WriteFails) => IInv'
  <1> SUFFICES ASSUME IInv, OpenConfig \/ WriteConfig \/ WriteFails PROVE IInv'
    OBVIOUS
  <1>0. ~started /\ UNCHANGED <<started, own, here, system, place, running, kind, mode, endpoint>>
    BY DEF OpenConfig, WriteConfig, WriteFails, GoTo, IInv, StartedInv, history
  <1>1. EmptyMap \in Configs(Keys) /\ DOMAIN EmptyMap = {} /\ Local(EmptyMap) = {}
    BY EmptyConfig, CleanLocal
  <1>2. StartedInv'
    BY <1>0 DEF StartedInv
  <1>3. CASE OpenConfig
    <2>1. step = "opening" /\ step' = "writing" /\ seed' = seed /\ file' = Torn
      BY <1>3 DEF OpenConfig, GoTo
    <2>2. TypeOK'
      BY <1>0, <2>1, TornFile DEF IInv, TypeOK, Steps
    <2>3. Local(file.keys)' = Local(EmptyMap) /\ Local(seed)' = Local(seed)
      BY <2>1, TornFile DEF Local
    <2>4. FileOwn' /\ PendingOwn'
      BY <1>0, <1>1, <2>3 DEF IInv, FileOwn, PendingOwn
    <2> QED BY <1>2, <2>2, <2>4 DEF IInv
  <1>4. CASE WriteConfig
    <2>1. /\ step = "writing" /\ step' = "detecting" /\ seed' = EmptyMap
          /\ file' = [form |-> "whole", keys |-> seed]
      BY <1>4 DEF WriteConfig, GoTo
    <2>2. file' \in Files
      BY <2>1, WrittenFile DEF IInv, TypeOK
    <2>3. TypeOK'
      BY <1>0, <1>1, <2>1, <2>2 DEF IInv, TypeOK, Steps
    <2>4. Local(file.keys)' = Local(seed) /\ Local(seed)' = Local(EmptyMap)
      BY <2>1 DEF Local
    <2>5. FileOwn' /\ PendingOwn'
      BY <1>0, <1>1, <2>4 DEF IInv, FileOwn, PendingOwn
    <2> QED BY <1>2, <2>3, <2>5 DEF IInv
  <1>5. CASE WriteFails
    <2>1. step' = "detecting" /\ seed' = EmptyMap /\ file' = Torn
      BY <1>5 DEF WriteFails, GoTo
    <2>2. TypeOK'
      BY <1>0, <1>1, <2>1, TornFile DEF IInv, TypeOK, Steps
    <2>3. Local(file.keys)' = Local(EmptyMap) /\ Local(seed)' = Local(EmptyMap)
      BY <2>1, TornFile DEF Local
    <2>4. FileOwn' /\ PendingOwn'
      BY <1>0, <1>1, <2>3 DEF IInv, FileOwn, PendingOwn
    <2> QED BY <1>2, <2>2, <2>4 DEF IInv
  <1> QED BY <1>3, <1>4, <1>5

LEMMA RuntimeStep ==
    IInv /\ (\/ DetectStarts \/ DetectInstalls \/ DetectGivesUp \/ InstallFails
             \/ Onboard \/ Serve \/ StartFails \/ Onboarded \/ WaitTimesOut) => IInv'
  <1> SUFFICES ASSUME IInv,
                      \/ DetectStarts \/ DetectInstalls \/ DetectGivesUp \/ InstallFails
                      \/ Onboard \/ Serve \/ StartFails \/ Onboarded \/ WaitTimesOut
               PROVE IInv'
    OBVIOUS
  <1>1. /\ step \in {"detecting", "installing", "starting", "onboarding", "waiting"}
        /\ step' \in {"installing", "starting", "onboarding", "waiting", "resolving"}
        /\ UNCHANGED <<machine, history, mode, endpoint, seed>>
    BY DEF DetectStarts, DetectInstalls, DetectGivesUp, InstallFails, Onboard, Serve,
           StartFails, Onboarded, WaitTimesOut, GoTo
  <1>2. kind' \in Kinds
    BY DEF IInv, TypeOK, DetectStarts, DetectInstalls, DetectGivesUp, InstallFails,
           Onboard, Serve, StartFails, Onboarded, WaitTimesOut, Detected
  <1>3. ~started
    BY <1>1 DEF IInv, StartedInv
  <1>4. UNCHANGED <<machine, history, mode, endpoint>> /\ seed' = seed
    BY <1>1
  <1>5. /\ step' \in Steps \ {"opening", "writing", "registering", "serving"}
        /\ step \notin {"opening", "writing"}
    BY <1>1 DEF Steps
  <1> QED BY <1>2, <1>3, <1>4, <1>5, Onwards

LEMMA InstalledStep == IInv /\ Installed => IInv'
  <1> SUFFICES ASSUME IInv, Installed PROVE IInv'
    OBVIOUS
  <1>1. /\ step = "installing" /\ step' = "starting"
        /\ UNCHANGED <<file, here, system, running, kind, seed, mode, endpoint, own, started>>
    BY DEF Installed, GoTo, history
  <1>2. place' \in [Kinds -> {"nowhere", "local", "path"}]
    BY DEF Installed, IInv, TypeOK
  <1>3. TypeOK'
    BY <1>1, <1>2 DEF IInv, TypeOK, Steps
  <1>4. Local(file.keys)' = Local(file.keys) /\ Local(seed)' = Local(seed)
    BY <1>1 DEF Local
  <1>5. FileOwn' /\ PendingOwn' /\ StartedInv'
    BY <1>1, <1>4 DEF IInv, FileOwn, PendingOwn, StartedInv
  <1> QED BY <1>3, <1>5 DEF IInv

(* StartRuntime has seen a gateway.                                        *)
LEMMA SeenStep == IInv /\ (AlreadyRunning \/ GatewayReached) => IInv'
  <1> SUFFICES ASSUME IInv, AlreadyRunning \/ GatewayReached PROVE IInv'
    OBVIOUS
  <1>1. /\ step \in {"starting", "waiting"} /\ step' = "resolving" /\ running
        /\ started' = TRUE /\ UNCHANGED <<machine, kind, seed, mode, endpoint, own>>
    BY DEF AlreadyRunning, GatewayReached, GoTo
  <1>2. UNCHANGED <<file, here, system, place, running>>
    BY <1>1 DEF machine
  <1>3. TypeOK'
    BY <1>1, <1>2 DEF IInv, TypeOK, Steps
  <1>4. Local(file.keys)' = Local(file.keys) /\ Local(seed)' = Local(seed)
    BY <1>1, <1>2 DEF Local
  <1>5. FileOwn' /\ PendingOwn' /\ StartedInv'
    BY <1>1, <1>2, <1>4 DEF IInv, FileOwn, PendingOwn, StartedInv
  <1> QED BY <1>3, <1>5 DEF IInv

(* NewAgent finds what runs, and keeps it.                                 *)
LEMMA AgentStep == IInv /\ (NewAgent \/ Registered) => IInv'
  <1> SUFFICES ASSUME IInv, NewAgent \/ Registered PROVE IInv'
    OBVIOUS
  <1>1. CASE NewAgent
    <2>1. /\ step = "resolving" /\ step' = "registering"
          /\ UNCHANGED <<machine, history, mode, kind, seed>>
          /\ endpoint' = resolveGatewayEndpoint
      BY <1>1 DEF NewAgent
    <2>2. endpoint' \in {"none", "given", "config", "process"}
      BY <2>1 DEF resolveGatewayEndpoint
    <2>3. started /\ mode = "discover" /\ place["openclaw"] = "path" => endpoint' # "none"
      <3>1. started => running
        BY DEF IInv, StartedInv
      <3> QED BY <2>1, <3>1 DEF resolveGatewayEndpoint, discoverFromConfig, discoverFromProcess
    <2>4. Local(seed') \subseteq own
      BY <2>1 DEF IInv, PendingOwn
    <2> QED BY <2>1, <2>2, <2>3, <2>4, GoingOn DEF IInv, TypeOK, Steps
  <1>2. CASE Registered
    <2>1. /\ step = "registering" /\ step' = "serving"
          /\ UNCHANGED <<machine, history, mode, endpoint, kind, seed>>
      BY <1>2 DEF Registered, GoTo
    <2>2. started /\ mode = "discover" /\ place["openclaw"] = "path" => endpoint # "none"
      BY <2>1 DEF IInv, StartedInv
    <2>3. Local(seed') \subseteq own
      BY <2>1 DEF IInv, PendingOwn
    <2> QED BY <2>1, <2>2, <2>3, GoingOn DEF IInv, TypeOK, Steps
  <1> QED BY <1>1, <1>2

LEMMA EndStep == IInv /\ (Leave \/ Crash) => IInv'
  <1> SUFFICES ASSUME IInv, Leave \/ Crash PROVE IInv'
    OBVIOUS
  <1>1. /\ step' = "out" /\ mode' = "off" /\ kind' = "openclaw" /\ seed' = EmptyMap
        /\ endpoint' = "none" /\ started' = FALSE
        /\ UNCHANGED <<file, here, system, place, running, own>>
    BY DEF Leave, Crash, Ends, machine
  <1>2. EmptyMap \in Configs(Keys) /\ DOMAIN EmptyMap = {} /\ Local(EmptyMap) = {}
    BY EmptyConfig, CleanLocal
  <1>3. TypeOK'
    BY <1>1, <1>2 DEF IInv, TypeOK, Steps, Kinds
  <1>4. Local(file.keys)' = Local(file.keys) /\ Local(seed)' = Local(EmptyMap)
    BY <1>1 DEF Local
  <1>5. FileOwn' /\ PendingOwn' /\ StartedInv'
    BY <1>1, <1>2, <1>4 DEF IInv, FileOwn, PendingOwn, StartedInv
  <1> QED BY <1>3, <1>5 DEF IInv

LEMMA GatewayStep == IInv /\ (GatewayStarts \/ GatewayStops) => IInv'
  <1> SUFFICES ASSUME IInv, GatewayStarts \/ GatewayStops PROVE IInv'
    OBVIOUS
  <1>0. /\ UNCHANGED <<file, here, system, place, step, mode, kind, seed, endpoint, own>>
        /\ running' \in BOOLEAN
        /\ \/ running' = FALSE /\ started' = FALSE
           \/ running' = TRUE /\ started' = started
    BY DEF GatewayStarts, GatewayStops, join, history
  <1>1. /\ UNCHANGED <<file, here, system, place, step, mode, kind, seed, endpoint, own>>
        /\ running' \in BOOLEAN /\ started' \in BOOLEAN
        /\ started' => started /\ running'
    <2>1. started \in BOOLEAN
      BY DEF IInv, TypeOK
    <2>2. CASE running' = FALSE /\ started' = FALSE
      BY <1>0, <2>2
    <2>3. CASE running' = TRUE /\ started' = started
      BY <1>0, <2>1, <2>3
    <2> QED BY <1>0, <2>2, <2>3
  <1>2. TypeOK'
    BY <1>1 DEF IInv, TypeOK
  <1>3. Local(file.keys)' = Local(file.keys) /\ Local(seed)' = Local(seed)
    BY <1>1 DEF Local
  <1>4. FileOwn' /\ PendingOwn' /\ StartedInv'
    BY <1>1, <1>3 DEF IInv, FileOwn, PendingOwn, StartedInv
  <1> QED BY <1>2, <1>4 DEF IInv

(* Another program writes the file.                                        *)
LEMMA ConfigureStep == IInv /\ Configure => IInv'
  <1> SUFFICES ASSUME IInv, Configure PROVE IInv'
    OBVIOUS
  <1>1. PICK k \in Excluded, v \in Values, form \in {"odd", "whole"} :
            /\ file' = [form |-> form, keys |-> Put(file.keys, k, v)]
            /\ own' = own \cup {<<k, v>>}
    BY DEF Configure
  <1>2. UNCHANGED <<here, system, place, running, step, mode, kind, seed, endpoint, started>>
    BY DEF Configure, join
  <1>3. file.keys \in Configs(Keys) /\ Local(file.keys) \subseteq own
    BY FileKeys DEF IInv, TypeOK, FileOwn
  <1>4. /\ Put(file.keys, k, v) \in Configs(Keys)
        /\ Local(Put(file.keys, k, v)) \subseteq Local(file.keys) \cup {<<k, v>>}
    BY <1>3, PutLocal
  <1>5. file' \in Files
    BY <1>1, <1>4, WrittenFile
  <1>6. TypeOK'
    <2>1. <<k, v>> \in Excluded \X Values
      OBVIOUS
    <2>2. own \subseteq Excluded \X Values
      BY DEF IInv, TypeOK
    <2>3. own' \subseteq Excluded \X Values
      BY <1>1, <2>1, <2>2
    <2> QED BY <1>2, <1>5, <2>3 DEF IInv, TypeOK
  <1>7. Local(file.keys)' = Local(Put(file.keys, k, v)) /\ Local(seed)' = Local(seed)
    BY <1>1, <1>2 DEF Local
  <1>8. FileOwn' /\ PendingOwn' /\ StartedInv'
    BY <1>1, <1>2, <1>3, <1>4, <1>7 DEF IInv, FileOwn, PendingOwn, StartedInv
  <1> QED BY <1>6, <1>8 DEF IInv

LEMMA StepInv == IInv /\ [Next]_vars => IInv'
  <1> SUFFICES ASSUME IInv, [Next]_vars PROVE IInv'
    OBVIOUS
  <1>1. CASE UNCHANGED vars
    <2>1. UNCHANGED <<file, here, system, place, running, step, mode, kind, seed, endpoint,
                      own, started>>
      BY <1>1 DEF vars, machine, join, history
    <2>2. Local(file.keys)' = Local(file.keys) /\ Local(seed)' = Local(seed)
      BY <2>1 DEF Local
    <2>3. TypeOK'
      BY <2>1 DEF IInv, TypeOK
    <2> QED BY <2>1, <2>2, <2>3 DEF IInv, FileOwn, PendingOwn, StartedInv
  <1>2. CASE Next
    BY <1>2, LookStep, SeedStep, WriteStep, RuntimeStep, InstalledStep, SeenStep,
       AgentStep, EndStep, GatewayStep, ConfigureStep DEF Next
  <1> QED BY <1>1, <1>2

LEMMA Invariance == Spec => []IInv
  BY InitInv, StepInv, PTL DEF Spec

-----------------------------------------------------------------------------
(* The theorems.                                                           *)

(* Every variable keeps its type; in particular no excluded key of the     *)
(* coordinator is ever answered or carried by a join.                      *)
THEOREM TypeCorrect == Spec => []TypeOK
  <1>1. IInv => TypeOK
    BY DEF IInv
  <1> QED BY <1>1, Invariance, PTL

(* However many joins there are, whatever the coordinator answers, and     *)
(* however reads, writes and other writers of the file come in between,    *)
(* no excluded key of a machine's openclaw.json has a value that its own   *)
(* programs did not give it.                                               *)
THEOREM LocalKeysAreLocal == Spec => []NothingForeign
  <1>1. IInv => NothingForeign
    BY DEF IInv, FileOwn, NothingForeign, Local
  <1> QED BY <1>1, Invariance, PTL

(* A gateway that StartRuntime has seen, and that still runs, is the       *)
(* agent's, with openclaw in PATH and discovery allowed.                   *)
THEOREM StartedGatewayIsUsed == Spec => []StartedIsFound
  <1>1. IInv => StartedIsFound
    BY DEF IInv, StartedInv, StartedIsFound
  <1> QED BY <1>1, Invariance, PTL
=============================================================================
