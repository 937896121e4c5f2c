----------------------------- MODULE ServerCore -----------------------------
(***************************************************************************)
(* ServerCore (tensorflow_serving/model_servers/server_core.{h,cc}) and    *)
(* the pipeline it builds: FileSystemStoragePathSource polls base paths,   *)
(* DynamicSourceRouter sends each model to the adapter of its platform,    *)
(* the adapters hand loaders to AspiredVersionsManager.  ReloadConfig()    *)
(* changes the parts of a running pipeline one after the other, while the  *)
(* source goes on polling, and waits for the new models with a             *)
(* ServableStateMonitor.                                                   *)
(*                                                                         *)
(* config_mu_ is held during ReloadConfig(), so there is one reload at a   *)
(* time; the variable reload says how far it is.  A call that is rejected  *)
(* before config_ is assigned changes nothing and is not a step.  The      *)
(* manager takes steps of AspiredServables.                                *)
(***************************************************************************)
EXTENDS FileSystemStoragePathSource, DynamicSourceRouter

CONSTANTS
    PlatformPort,           \* platform_to_router_port_
    ModelServerConfigs,     \* the configs that callers may ask for
    FileSystemStates,       \* [Paths -> what children[p] may be]
    NoPort,                 \* the port of a model that nothing is aspired of
    MaxReloads,             \* bound: calls of ReloadConfig()
    MaxFileSystemChanges,   \* bound: changes of the file system
    MaxDelayed              \* bound: announcements held up at a time

\* An output port for each platform, and the last one for the error adapter.
ASSUME PlatformAssumption ==
    /\ \A p \in DOMAIN PlatformPort : PlatformPort[p] \in 0 .. DefaultPort - 1
    /\ NoPort \notin 0 .. DefaultPort

VARIABLES
    config,       \* config_
    pipeline,     \* "none", "made", "connected" to the manager, "stowed"
    reload,       \* how far the running ReloadConfig() is
    new_models,   \* the models it waits for
    monitor,      \* states_ of the monitor it waits with
    answer,       \* what the monitor has notified it of
    port,         \* the port the aspired versions of a model come through
    reloads, changes,
    phase,        \* how far the manager is with each servable, as an event
    delayed,      \* announcements whose time has come but that are not made yet
    pending, wanted, managed, aspired, event     \* of the manager

Versions == {Number[c] : c \in Numeric(Children)}
Ids == Names \X Versions
Name == [i \in Ids |-> i[1]]

Manager == INSTANCE AspiredServables

managerVars == <<pending, wanted, managed, aspired, event>>
waitVars == <<new_models, monitor, answer>>
boundVars == <<reloads, changes>>
phaseVars == <<phase, delayed>>
vars == <<children, sourceVars, routes, config, pipeline, reload, waitVars,
          port, boundVars, phaseVars, managerVars>>

Events == {"none", "kStart", "kAvailable", "kUnloading", "kEnd"}
NothingHeard == [i \in Ids |-> "none"]
NotSet == [config_case |-> "not_set"]

TypeOK ==
    /\ \A p \in Paths : children[p] \in FileSystemStates[p]
    /\ DOMAIN source_config \subseteq Names
    /\ DOMAIN found \subseteq DOMAIN source_config
    /\ ValidateRoutes(routes)
    /\ config \in ModelServerConfigs \cup {NotSet}
    /\ pipeline \in {"none", "made", "connected", "stowed"}
    /\ reload \in {"idle", "connect", "union", "source", "routes", "wait"}
    /\ new_models \subseteq Names
    /\ monitor \in [Ids -> Events]
    /\ answer \in {"none", "available", "unavailable"}
    /\ port \in [Names -> 0 .. DefaultPort \cup {NoPort}]
    /\ wanted \subseteq Ids /\ aspired \subseteq managed /\ managed \subseteq Ids
    /\ event \in [Ids -> Events] /\ phase \in [Ids -> Events]
    /\ delayed \subseteq Ids \X {"kAvailable", "kEnd"}

Init ==
    /\ children \in [Paths -> UNION {FileSystemStates[p] : p \in Paths}]
    /\ \A p \in Paths : children[p] \in FileSystemStates[p]
    /\ SourceInit
    /\ routes = <<>>
    /\ config = NotSet
    /\ pipeline = "none"
    /\ reload = "idle"
    /\ new_models = {}
    /\ monitor = NothingHeard
    /\ answer = "none"
    /\ port = [n \in Names |-> NoPort]
    /\ reloads = 0 /\ changes = 0
    /\ phase = NothingHeard /\ delayed = {}
    /\ Manager!ServableInit
-----------------------------------------------------------------------------
(* The servable state monitor. *)

\* A stream reaches kAvailable by the highest version that is available or at
\* its end.
Reached(mon, n) == {i \in Ids : i[1] = n /\ mon[i] \in {"kAvailable", "kEnd"}}
Latest(S) == CHOOSE i \in S : \A j \in S : j[2] =< i[2]

ShouldSendStateReachedNotification(mon, names) ==
    IF \E n \in names : Reached(mon, n) = {} THEN "none"
    ELSE IF \A n \in names : mon[Latest(Reached(mon, n))] = "kAvailable"
         THEN "available" ELSE "unavailable"

NotifyLater ==    \* faulty: only an event to come is looked at
    answer' = "none"

\* NotifyWhenServablesReachState(): the states are looked at right away.
NotifyWhenServablesReachState ==
    answer' = ShouldSendStateReachedNotification(monitor, new_models)

\* HandleEvent(): a monitor that waits is notified once.
HandleEvent(i, s) ==
    /\ monitor' = IF reload = "idle" THEN monitor ELSE [monitor EXCEPT ![i] = s]
    /\ answer' = IF reload = "wait" /\ answer = "none"
                 THEN ShouldSendStateReachedNotification(monitor', new_models)
                 ELSE answer
-----------------------------------------------------------------------------
(* ReloadConfig() *)

SupportedPlatforms(c) ==
    \A n \in DOMAIN c.models : c.models[n].platform \in DOMAIN PlatformPort

CreateStoragePathSourceConfig(c) ==
    [n \in DOMAIN c.models |-> [base_path |-> c.models[n].base_path,
                                policy |-> c.models[n].policy]]

CreateStoragePathRoutes(c) ==
    [n \in DOMAIN c.models |-> PlatformPort[c.models[n].platform]]

\* Only from one ModelConfigList to another, once there is a config.
AcceptTransition(c) ==
    \/ config = NotSet
    \/ config.config_case = "list" /\ c.config_case = "list"

ValidateNoModelsChangePlatforms(c) ==
    config.config_case = "list" =>
        \A n \in DOMAIN config.models \cap DOMAIN c.models :
            c.models[n].platform = config.models[n].platform

ReloadConfig(c) ==
    /\ reload = "idle"
    /\ reloads < MaxReloads
    /\ AcceptTransition(c)
    /\ c.config_case = "list" => ValidateNoModelsChangePlatforms(c)
    /\ config' = c
    /\ reloads' = reloads + 1
    /\ UNCHANGED <<children, found, answer, port, changes,
                   phaseVars, managerVars>>

\* A custom loader takes over, a model has a platform that is not supported, or
\* the adapters, the router or the source of a first list cannot be made: the
\* config is kept and nothing else happens.
ReloadConfigOnly(c) ==
    /\ ReloadConfig(c)
    /\ c.config_case = "list" => ~SupportedPlatforms(c) \/ pipeline = "none"
    /\ UNCHANGED <<source_config, routes, pipeline, reload, new_models, monitor>>

\* The first list: adapters, router and source are made, and the source begins
\* to poll.  The monitor of the server has heard all events.
ReloadFirstList(c) ==
    /\ c.config_case = "list" /\ SupportedPlatforms(c)
    /\ pipeline = "none"
    /\ ReloadConfig(c)
    /\ pipeline' = "made"
    /\ source_config' = CreateStoragePathSourceConfig(c)
    /\ routes' = CreateStoragePathRoutes(c)
    /\ new_models' = DOMAIN c.models
    /\ monitor' = event
    /\ reload' = "connect"

NewModelNamesInSourceConfig(c) == DOMAIN c.models \ DOMAIN source_config

\* Another list: a fresh monitor starts to listen.
ReloadNextList(c) ==
    /\ c.config_case = "list" /\ SupportedPlatforms(c)
    /\ pipeline = "stowed"
    /\ ReloadConfig(c)
    /\ new_models' = NewModelNamesInSourceConfig(c)
    /\ monitor' = NothingHeard
    /\ reload' = "union"
    /\ UNCHANGED <<source_config, routes, pipeline>>

\* ConnectSourcesWithFastInitialLoad(): requests that were held up by the
\* adapters come through from now on.
ConnectAdaptersToManager ==
    /\ reload = "connect"
    /\ pipeline' = "connected"
    /\ reload' = "wait"
    /\ NotifyWhenServablesReachState
    /\ UNCHANGED <<children, sourceVars, routes, config, new_models, monitor,
                   port, boundVars, phaseVars, managerVars>>

NeverConflict(a, b) == FALSE    \* faulty

Conflict(a, b) == \E n \in DOMAIN a \cap DOMAIN b : a[n] # b[n]

Union(a, b) == [n \in DOMAIN a \cup DOMAIN b |-> IF n \in DOMAIN a THEN a[n] ELSE b[n]]

OnlyNewRoutes ==    \* faulty
    /\ reload = "union"
    /\ ~Conflict(routes, CreateStoragePathRoutes(config))
    /\ UpdateRoutes(CreateStoragePathRoutes(config))
    /\ reload' = "source"
    /\ UNCHANGED <<children, sourceVars, config, pipeline, waitVars, port, boundVars,
                   phaseVars, managerVars>>

AddNewRoutes ==
    /\ reload = "union"
    /\ ~Conflict(routes, CreateStoragePathRoutes(config))
    /\ UpdateRoutes(Union(routes, CreateStoragePathRoutes(config)))
    /\ reload' = "source"
    /\ UNCHANGED <<children, sourceVars, config, pipeline, waitVars, port, boundVars,
                   phaseVars, managerVars>>

\* "Old and new routes conflict."
OldAndNewRoutesConflict ==
    /\ reload = "union"
    /\ Conflict(routes, CreateStoragePathRoutes(config))
    /\ reload' = "idle"
    /\ new_models' = {} /\ monitor' = NothingHeard
    /\ UNCHANGED <<children, sourceVars, routes, config, pipeline, answer, port,
                   boundVars, phaseVars, managerVars>>

\* Models that are not in the new config are torn down.
ReloadStoragePathSourceConfig ==
    /\ reload = "source"
    /\ LET new_config == CreateStoragePathSourceConfig(config)
           deleted == GetDeletedServables(new_config)
       IN /\ UpdateConfig(new_config)
          /\ Manager!SetAspiredVersions([n \in deleted |-> {}])
          /\ port' = [n \in Names |-> IF n \in deleted THEN NoPort ELSE port[n]]
    /\ reload' = "routes"
    /\ UNCHANGED <<children, routes, config, pipeline, waitVars, boundVars, phaseVars>>

RemoveOldRoutes ==
    /\ reload = "routes"
    /\ UpdateRoutes(CreateStoragePathRoutes(config))
    /\ reload' = "wait"
    /\ NotifyWhenServablesReachState
    /\ UNCHANGED <<children, sourceVars, config, pipeline, new_models, monitor,
                   port, boundVars, phaseVars, managerVars>>

\* The pipeline of the first list is stowed if its models are available;
\* if not it is destroyed, which waits for the polling thread.
WaitReturns ==
    /\ reload = "wait"
    /\ answer # "none"
    /\ IF pipeline = "stowed" \/ answer = "available"
       THEN /\ pipeline' = "stowed"
            /\ UNCHANGED <<source_config, routes, port>>
       ELSE /\ ~Polling
            /\ pipeline' = "none"
            /\ source_config' = <<>>
            /\ routes' = <<>>
            /\ port' = [n \in Names |-> NoPort]
    /\ reload' = "idle"
    /\ new_models' = {} /\ monitor' = NothingHeard /\ answer' = "none"
    /\ UNCHANGED <<children, found, config, boundVars, phaseVars, managerVars>>
-----------------------------------------------------------------------------
(* The polling thread and the file system. *)

\* The list last sent for a model.
LastRequest(n) ==
    IF pending[n] = {} THEN {i \in aspired \cup wanted : i[1] = n}
                       ELSE UNION pending[n]

AsIds(n, kids) == {<<n, Number[c]>> : c \in kids}

\* The manager ignores a list that it was given before, so only polls and
\* callbacks with something else to say are steps.
Poll ==
    /\ UNCHANGED <<children, routes, config, pipeline, reload, waitVars, port,
                   boundVars, phaseVars, managerVars>>
    /\ LET lists == PollFileSystemForConfig(source_config)
           news == {n \in DOMAIN lists : AsIds(n, lists[n]) # LastRequest(n)}
       IN news # {} /\ BeginPoll(news)

\* One list of versions passes the router and an adapter.  The adapters wait
\* until they are connected.
SetAspiredVersions(n) ==
    /\ pipeline \in {"connected", "stowed"}
    /\ InvokeCallback(n)
    /\ Manager!SetAspiredVersions([m \in {n} |-> AsIds(n, found[n])])
    /\ port' = [port EXCEPT ![n] = IF found[n] = {} THEN NoPort ELSE Route(n)]
    /\ UNCHANGED <<children, routes, config, pipeline, reload, waitVars, boundVars,
                   phaseVars>>

FileSystemChanges(p) ==
    /\ changes < MaxFileSystemChanges
    /\ \E kids \in FileSystemStates[p] \ {children[p]} :
           children' = [children EXCEPT ![p] = kids]
    /\ changes' = changes + 1
    /\ UNCHANGED <<sourceVars, routes, config, pipeline, reload, waitVars, port,
                   reloads, phaseVars, managerVars>>
-----------------------------------------------------------------------------
(* The manager. *)

outsideVars == <<children, sourceVars, routes, config, pipeline, reload,
                 new_models, port, boundVars>>

Process(n) ==
    /\ \E versions \in pending[n] : Manager!Process(n, versions)
    /\ UNCHANGED <<outsideVars, phaseVars, monitor, answer>>

\* The error adapter has no loader; other adapters may fail to make one.
Manage(i) ==
    /\ \E ok \in BOOLEAN :
          LET s == IF ok THEN "kStart" ELSE "kEnd"
          IN /\ ok => port[i[1]] # DefaultPort
             /\ Manager!Manage(i, ok)
             /\ HandleEvent(i, s)
             /\ phase' = [phase EXCEPT ![i] = s]
    /\ UNCHANGED <<outsideVars, delayed>>

\* A servable is loaded and unloaded, or fails to load.
Comes(i, s) ==
    \/ s = "kAvailable" /\ phase[i] = "kStart" /\ i \in managed
    \/ s = "kUnloading" /\ phase[i] = "kAvailable" /\ i \in managed \ aspired
    \/ s = "kEnd" /\ phase[i] \in {"kStart", "kUnloading"}

\* It is announced right away,
Announce(i) ==
    /\ \E s \in {"kAvailable", "kUnloading", "kEnd"} :
          /\ Comes(i, s)
          /\ phase' = [phase EXCEPT ![i] = s]
          /\ Manager!Announce(i, s)
          /\ HandleEvent(i, s)
    /\ UNCHANGED <<outsideVars, delayed>>

\* or, as kAvailable and kEnd are published without a lock, the thread that is
\* to announce it is held up,
Delay(i) ==
    /\ Cardinality(delayed) < MaxDelayed
    /\ \E s \in {"kAvailable", "kEnd"} :
          /\ Comes(i, s)
          /\ phase' = [phase EXCEPT ![i] = s]
          /\ delayed' = delayed \cup {<<i, s>>}
    /\ UNCHANGED <<outsideVars, monitor, answer, managerVars>>

\* and announces it after whatever has happened to the servable meanwhile.
AnnounceLate(i) ==
    /\ \E s \in {"kAvailable", "kEnd"} :
          /\ <<i, s>> \in delayed
          /\ delayed' = delayed \ {<<i, s>>}
          /\ Manager!Announce(i, s)
          /\ HandleEvent(i, s)
    /\ UNCHANGED <<outsideVars, phase>>

Forget(i) ==
    /\ phase[i] # "kAvailable"
    /\ Manager!Forget(i)
    /\ UNCHANGED <<outsideVars, phaseVars, monitor, answer>>
-----------------------------------------------------------------------------
ReloadStep ==
    \/ ConnectAdaptersToManager
    \/ AddNewRoutes
    \/ OldAndNewRoutesConflict
    \/ ReloadStoragePathSourceConfig
    \/ RemoveOldRoutes
    \/ WaitReturns

PollStep == Poll \/ \E n \in Names : SetAspiredVersions(n)

Next ==
    \/ \E c \in ModelServerConfigs :
           ReloadConfigOnly(c) \/ ReloadFirstList(c) \/ ReloadNextList(c)
    \/ ReloadStep
    \/ PollStep
    \/ \E p \in Paths : FileSystemChanges(p)
    \/ \E n \in Names : Process(n)
    \/ \E i \in Ids : Manage(i) \/ Announce(i) \/ Delay(i) \/ AnnounceLate(i) \/ Forget(i)

Spec == Init /\ [][Next]_vars

\* What the manager does by itself, whatever its policy: requests are processed,
\* loads come to an end, what is due is announced, and a stream that nothing is
\* aspired of is unloaded.
Unaspired(n) == {i \in aspired \cup wanted : i[1] = n} = {}

ManagerStep ==
    \/ \E n \in Names : Process(n)
    \/ \E i \in Ids :
           \/ Manage(i)
           \/ phase[i] # "kAvailable" /\ (Announce(i) \/ Delay(i))
           \/ AnnounceLate(i)
           \/ Unaspired(i[1]) /\ (Announce(i) \/ Forget(i))

\* ReloadConfig() runs on, the polling thread polls again and again (it may
\* have to wait for UpdateConfig(), which needs the lock it holds most of the
\* time), and the manager does not stop while it has something to do.
Fairness ==
    /\ SF_vars(ReloadStep)
    /\ WF_vars(PollStep)
    /\ WF_vars(ManagerStep)

FairSpec == Spec /\ Fairness
-----------------------------------------------------------------------------
(* Properties *)

\* No version of a model is given to the error adapter: while a reload changes
\* routes and source one after the other, the routes cover what the source
\* hands on, whenever it polls.
NothingIsMisrouted == \A n \in Names : port[n] # DefaultPort

\* A model that stays configured stays with the adapter of one platform, even
\* across reloads that fail half way ("Illegal to change a model's platform").
PlatformIsKept ==
    [][\A n \in Names : port[n] # NoPort /\ port'[n] # NoPort => port'[n] = port[n]]_vars

\* What a version policy asks for, given the numbers found under a base path.
Wanted(policy, numbers) ==
    CASE policy.choice = "all" -> numbers
      [] policy.choice = "specific" -> numbers \cap policy.versions
      [] policy.choice = "latest" ->
            LET n == IF policy.num_versions = 0 THEN 1 ELSE policy.num_versions
            IN UNION {S \in SUBSET numbers :
                          /\ Cardinality(S) =< n
                          /\ Cardinality(S) < n => S = numbers
                          /\ \A w \in numbers \ S, x \in S : w < x}

Numbers(p) == {Number[c] : c \in Numeric(UNION children[p])}

\* When configs and file system change no more and every base path exists, the
\* manager is asked for the versions the policies want.
SourceCatchesUp ==
    <>[](\A n \in DOMAIN source_config : children[source_config[n].base_path] # {})
    => <>[](\A n \in DOMAIN source_config :
                LastRequest(n) = {n} \X Wanted(source_config[n].policy,
                                               Numbers(source_config[n].base_path)))

\* A base path is missing, or a model that is waited for has no version under
\* its base path: nothing will come of waiting for it.
NothingToWaitFor ==
    \E n \in DOMAIN source_config :
        LET s == source_config[n]
        IN \/ children[s.base_path] = {}
           \/ n \in new_models /\ Wanted(s.policy, Numbers(s.base_path)) = {}

\* The reload that sets up the pipeline returns (server_core.h:159: "waits for
\* them to be made available (or hit an error)"), also when it is tried again
\* after one that failed.
FirstReloadReturns == []<>(pipeline # "connected") \/ <>[]NothingToWaitFor

\* Every reload returns (server_core.h:169: "Like Create(), waits for all
\* statically configured servables to be made available before returning, and
\* returns an error if any such model fails to load").
ReloadsReturn == []<>(reload = "idle") \/ <>[]NothingToWaitFor

\* A model that a reload takes out of the source's config is unloaded, or
\* configured again.
RemovedModelsUnload ==
    \A n \in Names :
        (reload = "source" /\ n \in DOMAIN source_config /\ n \notin DOMAIN config.models)
        ~> (\A i \in managed : i[1] # n) \/ (config.config_case = "list" /\ n \in DOMAIN config.models)
=============================================================================
