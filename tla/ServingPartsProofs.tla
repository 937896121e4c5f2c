------------------------- MODULE ServingPartsProofs -------------------------
(***************************************************************************)
(* Proofs about three parts of a server that share no state.               *)
(*                                                                         *)
(* FastReadDynamicPtr gives an object back only when nobody reads it.      *)
(* ServerCore's routes fit its source at every step of a reload.           *)
(* ResourceTracker approves only what there is room for.                   *)
(***************************************************************************)
EXTENDS ServerCore, FastReadDynamicPtr, ResourceTracker, Sequences, WellFoundedInduction,
        TLAPS

(***************************************************************************)
(* FastReadDynamicPtr, for any readers and updaters.  It implements        *)
(* DynamicPtr as long as no object is a null pointer.                      *)
(***************************************************************************)

\* A wrapper has one owner: the pointer itself or one updater.  What the owner
\* is doing tells the state of the wrapper, and a notification is only found
\* on a wrapper that has been dropped and has no reader.
PtrInv ==
    /\ PtrTypeOK
    /\ ~NullAllowed => null = {}
    /\ object_ # None => wrapper[object_] = "counted"
    /\ \A u \in Updaters :
          /\ upc[u] = "idle" <=> local_ptr[u] = None
          /\ upc[u] # "idle" => local_ptr[u] # object_
          /\ upc[u] \in {"swap", "release"} => wrapper[local_ptr[u]] = "counted"
          /\ upc[u] = "wait" => wrapper[local_ptr[u]] = "dropped"
          /\ upc[u] = "swap" => object_ # None /\ ReadersOf(local_ptr[u]) = {}
    /\ \A u, v \in Updaters :
          upc[u] # "idle" /\ local_ptr[u] = local_ptr[v] => u = v
    /\ UniqueOnReturn
    /\ \A w \in notified \ null : wrapper[w] = "dropped" /\ ReadersOf(w) = {}

\* The constructor wraps the initial object.
LEMMA InitPtr == PtrInit => PtrInv
  BY PtrAssumption DEF PtrInit, PtrInv, PtrTypeOK, UniqueOnReturn, ReadersOf

\* get() and the release of a ReadPtr keep the invariant.
LEMMA ReadersKeepPtrInv ==
    ASSUME PtrInv, NEW r \in Readers, ReaderNext(r)
    PROVE  PtrInv'
<1>1. CASE get(r)
  BY <1>1, PtrAssumption DEF get, PtrInv, PtrTypeOK, UniqueOnReturn, ReadersOf
<1>2. CASE ReleaseReadPtr(r)
  <2> USE <1>2, PtrAssumption DEF ReleaseReadPtr, PtrInv
  <2>1. PtrTypeOK'
    BY DEF PtrTypeOK
  <2>2. \A w \in Wrappers : ReadersOf(w)' = ReadersOf(w) \ {r}
    BY DEF ReadersOf, PtrTypeOK
  <2>3. UniqueOnReturn'
    BY DEF UniqueOnReturn, PtrTypeOK
  <2>4. \A w \in (notified \ null)' : (wrapper[w] = "dropped" /\ ReadersOf(w) = {})'
    BY <2>2 DEF PtrTypeOK, UniqueOnReturn
  <2>5. \A u \in Updaters : (upc[u] = "swap" =>
                                 object_ # None /\ ReadersOf(local_ptr[u]) = {})'
    BY <2>2 DEF PtrTypeOK
  <2>6. QED
    BY <2>1, <2>3, <2>4, <2>5
<1>3. QED
  BY <1>1, <1>2 DEF ReaderNext

\* The steps of Update() and of the destructor keep the invariant.
LEMMA UpdatersKeepPtrInv ==
    ASSUME PtrInv, NEW u \in Updaters, UpdaterNext(u)
    PROVE  PtrInv'
<1> USE PtrAssumption DEF PtrInv
<1>1. ASSUME NEW w \in Wrappers, NEW isNull \in BOOLEAN, isNull => NullAllowed,
             BeginUpdate(u, w, isNull)
      PROVE  PtrInv'
  <2>1. \A x \in Wrappers : ReadersOf(x)' = ReadersOf(x)
    BY <1>1 DEF BeginUpdate, ReadersOf
  <2>2. w # object_ /\ \A v \in Updaters : local_ptr[v] # w
    BY <1>1 DEF BeginUpdate, PtrTypeOK
  <2>3. PtrTypeOK' /\ (~NullAllowed => null = {})'
    BY <1>1 DEF BeginUpdate, PtrTypeOK
  <2>4. UniqueOnReturn'
    BY <1>1 DEF BeginUpdate, PtrTypeOK, UniqueOnReturn, ReadersOf
  <2>5. QED
    BY <1>1, <2>1, <2>2, <2>3, <2>4 DEF BeginUpdate, PtrTypeOK
<1>2. CASE Swap(u)
  <2>1. \A x \in Wrappers : ReadersOf(x)' = ReadersOf(x)
    BY <1>2 DEF Swap, ReadersOf
  <2>2. QED
    BY <1>2, <2>1 DEF Swap, PtrTypeOK, UniqueOnReturn
<1>3. CASE Destroy(u)
  <2>1. \A x \in Wrappers : ReadersOf(x)' = ReadersOf(x)
    BY <1>3 DEF Destroy, ReadersOf
  <2>2. QED
    BY <1>3, <2>1 DEF Destroy, PtrTypeOK, UniqueOnReturn
<1>4. CASE DropReference(u)
  <2>1. \A x \in Wrappers : ReadersOf(x)' = ReadersOf(x)
    BY <1>4 DEF DropReference, ReadersOf
  <2>2. QED
    BY <1>4, <2>1 DEF DropReference, PtrTypeOK, UniqueOnReturn
<1>5. CASE EndUpdate(u)
  <2>1. \A x \in Wrappers : ReadersOf(x)' = ReadersOf(x)
    BY <1>5 DEF EndUpdate, ReadersOf
  <2>2. local_ptr[u] \in Wrappers /\ local_ptr[u] # object_
    BY <1>5 DEF EndUpdate, PtrTypeOK
  <2>3. UniqueOnReturn'
    BY <1>5, <2>2 DEF EndUpdate, PtrTypeOK, UniqueOnReturn, Releasable, ReadersOf
  <2>4. PtrTypeOK' /\ (object_ # None => wrapper[object_] = "counted")'
    BY <1>5, <2>2 DEF EndUpdate, PtrTypeOK
  <2>5. \A v \in Updaters \ {u} : local_ptr[v] # local_ptr[u]
    BY <1>5 DEF EndUpdate, PtrTypeOK
  <2>6. \A w \in (notified \ null)' : (wrapper[w] = "dropped" /\ ReadersOf(w) = {})'
    BY <1>5, <2>1, <2>2 DEF EndUpdate, PtrTypeOK
  <2>7. QED
    BY <1>5, <2>1, <2>2, <2>3, <2>4, <2>5, <2>6 DEF EndUpdate, PtrTypeOK
<1> HIDE DEF PtrInv
<1>6. QED
  BY <1>1, <1>2, <1>3, <1>4, <1>5 DEF UpdaterNext

\* Every step keeps the invariant.
LEMMA PtrInvStep == PtrInv /\ [PtrNext]_ptrVars => PtrInv'
<1>1. CASE UNCHANGED ptrVars
  BY <1>1 DEF ptrVars, PtrInv, PtrTypeOK, UniqueOnReturn, ReadersOf
<1>2. QED
  BY <1>1, ReadersKeepPtrInv, UpdatersKeepPtrInv DEF PtrNext

\* The invariant holds at all times.
LEMMA PtrInvHolds == PtrSpec => []PtrInv
  BY InitPtr, PtrInvStep, PTL DEF PtrSpec

\* Update() returns an object only when no ReadPtr points to it ("guaranteeing
\* that the result is truly unique upon return"), also when other objects
\* are null pointers.
THEOREM UniqueUponReturn == PtrSpec => []UniqueOnReturn
<1>1. PtrInv => UniqueOnReturn
  BY DEF PtrInv
<1>2. QED
  BY <1>1, PtrInvHolds, PTL

\* Without null pointers, a ReadPtr never outlives the wrapper whose
\* notification its deleter notifies.
THEOREM DeletersAlwaysFindTheirWrapper ==
    ASSUME ~NullAllowed
    PROVE  PtrSpec => []DeletersFindTheirWrapper
<1>1. PtrInv => DeletersFindTheirWrapper
  BY DEF PtrInv, UniqueOnReturn, DeletersFindTheirWrapper
<1>2. QED
  BY <1>1, PtrInvHolds, PTL
-----------------------------------------------------------------------------
\* Get, release, swap, destruction and the end of an update are steps of
\* DynamicPtr; preparing a wrapper and dropping its reference are not visible.
LEMMA PtrRefinementStep ==
    ASSUME ~NullAllowed, PtrInv, PtrInv', [PtrNext]_ptrVars
    PROVE  [Abstract!Next]_(Abstract!vars)
<1> USE PtrAssumption DEF PtrInv, Abstract!vars
<1>1. CASE UNCHANGED ptrVars
  BY <1>1 DEF ptrVars, Replaced
<1>2. ASSUME NEW r \in Readers, get(r)
      PROVE  Abstract!Get(r)
  BY <1>2 DEF get, Abstract!Get, Replaced
<1>3. ASSUME NEW r \in Readers, ReleaseReadPtr(r)
      PROVE  Abstract!Release(r)
  BY <1>3 DEF ReleaseReadPtr, Abstract!Release, Replaced
<1>4. ASSUME NEW u \in Updaters, NEW w \in Wrappers, NEW isNull \in BOOLEAN,
             BeginUpdate(u, w, isNull)
      PROVE  UNCHANGED Abstract!vars
  BY <1>4 DEF BeginUpdate, Replaced, PtrTypeOK
<1>5. ASSUME NEW u \in Updaters, Swap(u)
      PROVE  local_ptr[u] \in Wrappers /\ Abstract!Replace(local_ptr[u])
  <2>1. local_ptr[u] \in Wrappers /\ local_ptr[u] \notin Replaced
    BY <1>5 DEF Swap, PtrTypeOK, Replaced
  <2>2. Replaced' = Replaced \cup {object_}
    BY <1>5 DEF Swap, PtrTypeOK, Replaced
  <2>3. QED
    BY <1>5, <2>1, <2>2 DEF Swap, Abstract!Replace
<1>6. ASSUME NEW u \in Updaters, Destroy(u)
      PROVE  Abstract!Close
  <2>1. Replaced' = Replaced \cup {object_}
    BY <1>6 DEF Destroy, PtrTypeOK, Replaced
  <2>2. QED
    BY <1>6, <2>1 DEF Destroy, Abstract!Close
<1>7. ASSUME NEW u \in Updaters, DropReference(u)
      PROVE  UNCHANGED Abstract!vars
  BY <1>7 DEF DropReference, Replaced, PtrTypeOK
<1>8. ASSUME NEW u \in Updaters, EndUpdate(u)
      PROVE  local_ptr[u] \in Wrappers /\ Abstract!GiveBack(local_ptr[u])
  <2>1. local_ptr[u] \in Wrappers
    BY <1>8 DEF EndUpdate, PtrTypeOK
  <2>2. Replaced' = Replaced \ {local_ptr[u]} /\ local_ptr[u] \in Replaced
    BY <1>8 DEF EndUpdate, PtrTypeOK, Replaced
  <2>3. ReadersOf(local_ptr[u]) = {}
    BY <1>8, <2>1 DEF EndUpdate, Releasable
  <2>4. QED
    BY <1>8, <2>1, <2>2, <2>3 DEF EndUpdate, Abstract!GiveBack, ReadersOf
<1>9. QED
  BY <1>1, <1>2, <1>3, <1>4, <1>5, <1>6, <1>7, <1>8
  DEF PtrNext, ReaderNext, UpdaterNext, Abstract!Next

\* The reference counts, notifications and the blocking release implement the
\* abstract pointer: a replaced object is given back after its last reader.
THEOREM PtrImplementsDynamicPtr ==
    ASSUME ~NullAllowed
    PROVE  PtrSpec => ImplementsDynamicPtr
<1>1. PtrInit => Abstract!Init
  BY PtrAssumption DEF PtrInit, Abstract!Init, Replaced
<1>2. PtrInv /\ PtrInv' /\ [PtrNext]_ptrVars => [Abstract!Next]_(Abstract!vars)
  BY PtrRefinementStep
<1>3. QED
  BY <1>1, <1>2, PtrInvHolds, PTL DEF PtrSpec, ImplementsDynamicPtr, Abstract!Spec
-----------------------------------------------------------------------------
(***************************************************************************)
(* The routes of ServerCore's pipeline, for any models, platforms, configs *)
(* and file systems.                                                       *)
(*                                                                         *)
(* ReloadConfig() changes routes, then source, then routes again while the *)
(* source polls.  RouteInv says why no request is sent astray meanwhile:   *)
(* the routes cover the source's config at every step, and a reload        *)
(* changes the route of no model that the source has.                      *)
(***************************************************************************)

\* The routes agree with a config.
RoutesFit(c) ==
    \A n \in DOMAIN c.models : n \in DOMAIN routes /\ routes[n] = CreateStoragePathRoutes(c)[n]

RouteInv ==
    /\ ValidateRoutes(routes)
    /\ DOMAIN found \subseteq DOMAIN source_config
    /\ DOMAIN source_config \subseteq DOMAIN routes
    /\ DOMAIN port = Names
    /\ \A n \in Names : port[n] # NoPort => n \in DOMAIN source_config /\ port[n] = routes[n]
    /\ pipeline = "none" => DOMAIN source_config = {}
    /\ reload \in {"union", "source", "routes"} => pipeline # "none"
    /\ reload = "source" => RoutesFit(config)
    /\ reload = "routes" => RoutesFit(config) /\ DOMAIN source_config = DOMAIN config.models


\* What the route invariant is about.
routeVars == <<source_config, found, routes, config, pipeline, reload, port>>

LEMMA RoutesFrame == RouteInv /\ UNCHANGED routeVars => RouteInv'
BY ZenonT(30) DEF RouteInv, routeVars, ValidateRoutes, RoutesFit, CreateStoragePathRoutes

LEMMA InitRoutes == Init => RouteInv
BY DEF Init, SourceInit, RouteInv, ValidateRoutes

LEMMA ReloadKeepsRoutes ==
    ASSUME RouteInv, NEW c, ReloadConfigOnly(c) \/ ReloadFirstList(c) \/ ReloadNextList(c)
    PROVE  RouteInv'
<1>1. /\ reload = "idle" /\ config' = c /\ UNCHANGED <<found, port>>
  BY DEF ReloadConfigOnly, ReloadFirstList, ReloadNextList, ReloadConfig
<1>2. CASE ReloadConfigOnly(c) \/ ReloadNextList(c)
  <2>1. /\ UNCHANGED <<source_config, routes, pipeline>>
        /\ reload' = "idle" \/ (reload' = "union" /\ pipeline = "stowed")
    BY <1>1, <1>2 DEF ReloadConfigOnly, ReloadNextList
  <2> QED  BY <1>1, <2>1 DEF RouteInv, ValidateRoutes
<1>3. CASE ReloadFirstList(c)
  <2>1. /\ pipeline = "none" /\ pipeline' = "made" /\ reload' = "connect"
        /\ source_config' = CreateStoragePathSourceConfig(c)
        /\ routes' = CreateStoragePathRoutes(c)
        /\ SupportedPlatforms(c)
    BY <1>3 DEF ReloadFirstList
  <2>2. /\ DOMAIN routes' = DOMAIN c.models /\ DOMAIN source_config' = DOMAIN c.models
        /\ \A n \in DOMAIN c.models : routes'[n] = PlatformPort[c.models[n].platform]
    BY <2>1 DEF CreateStoragePathRoutes, CreateStoragePathSourceConfig
  <2>3. ValidateRoutes(routes')
    BY PortsAssumption, PlatformAssumption, <2>1, <2>2 DEF ValidateRoutes, SupportedPlatforms
  <2> QED  BY <1>1, <2>1, <2>2, <2>3 DEF RouteInv, ValidateRoutes
<1> QED  BY <1>2, <1>3

LEMMA ReloadStepKeepsRoutes ==
    ASSUME RouteInv, ReloadStep
    PROVE  RouteInv'
<1>1. CASE ConnectAdaptersToManager
  <2>1. /\ UNCHANGED <<source_config, found, routes, config, port>>
        /\ pipeline' = "connected" /\ reload' = "wait"
    BY <1>1 DEF ConnectAdaptersToManager, sourceVars
  <2> QED  BY <2>1 DEF RouteInv, ValidateRoutes
<1>2. CASE AddNewRoutes
  <2> DEFINE new == CreateStoragePathRoutes(config)
  <2>1. /\ reload = "union" /\ reload' = "source"
        /\ ~Conflict(routes, new)
        /\ ValidateRoutes(Union(routes, new)) /\ routes' = Union(routes, new)
        /\ UNCHANGED <<source_config, found, config, pipeline, port>>
    BY <1>2 DEF AddNewRoutes, UpdateRoutes, sourceVars
  <2>2. DOMAIN new = DOMAIN config.models
    BY DEF CreateStoragePathRoutes
  <2> HIDE DEF new
  <2>3. /\ DOMAIN routes \subseteq DOMAIN routes'
        /\ \A n \in DOMAIN routes : routes'[n] = routes[n]
        /\ \A n \in DOMAIN new : n \in DOMAIN routes' /\ routes'[n] = new[n]
    BY <2>1 DEF Union, Conflict
  <2>4. RoutesFit(config)'
    BY <2>1, <2>2, <2>3 DEF RoutesFit, new, CreateStoragePathRoutes
  <2>5. ValidateRoutes(routes)'
    BY <2>1 DEF ValidateRoutes
  <2> QED  BY <2>1, <2>3, <2>4, <2>5 DEF RouteInv
<1>3. CASE OldAndNewRoutesConflict
  <2>1. /\ UNCHANGED <<source_config, found, routes, config, port, pipeline>>
        /\ reload' = "idle"
    BY <1>3 DEF OldAndNewRoutesConflict, sourceVars
  <2> QED  BY <2>1 DEF RouteInv, ValidateRoutes
<1>4. CASE ReloadStoragePathSourceConfig
  <2> DEFINE new == CreateStoragePathSourceConfig(config)
             deleted == GetDeletedServables(new)
  <2>1. /\ reload = "source" /\ reload' = "routes"
        /\ DOMAIN found = {} /\ found' = found /\ source_config' = new
        /\ port' = [n \in Names |-> IF n \in deleted THEN NoPort ELSE port[n]]
        /\ UNCHANGED <<routes, config, pipeline>>
    BY <1>4 DEF ReloadStoragePathSourceConfig, UpdateConfig, Polling
  <2>2. DOMAIN new = DOMAIN config.models
    BY DEF CreateStoragePathSourceConfig
  <2>3. deleted = DOMAIN source_config \ DOMAIN config.models
    BY <2>2 DEF GetDeletedServables
  <2> HIDE DEF new, deleted
  <2>4. RoutesFit(config) /\ RoutesFit(config)'
    BY <2>1, ZenonT(30) DEF RouteInv, RoutesFit, CreateStoragePathRoutes
  <2>5. DOMAIN source_config' \subseteq DOMAIN routes'
    BY <2>1, <2>2, <2>4 DEF RoutesFit
  <2>6. \A n \in Names : port'[n] # NoPort => n \in DOMAIN source_config' /\ port'[n] = routes'[n]
    BY <2>1, <2>2, <2>3 DEF RouteInv
  <2> QED  BY <2>1, <2>2, <2>4, <2>5, <2>6 DEF RouteInv, ValidateRoutes
<1>5. CASE RemoveOldRoutes
  <2> DEFINE new == CreateStoragePathRoutes(config)
  <2>1. /\ reload = "routes" /\ reload' = "wait"
        /\ ValidateRoutes(new) /\ routes' = new
        /\ UNCHANGED <<source_config, found, config, pipeline, port>>
    BY <1>5 DEF RemoveOldRoutes, UpdateRoutes, sourceVars
  <2>2. DOMAIN new = DOMAIN config.models
    BY DEF CreateStoragePathRoutes
  <2>3. DOMAIN source_config = DOMAIN config.models /\ \A n \in DOMAIN config.models : routes[n] = new[n]
    BY <2>1 DEF RouteInv, RoutesFit
  <2> HIDE DEF new
  <2>4. ValidateRoutes(routes)'
    BY <2>1 DEF ValidateRoutes
  <2> QED  BY <2>1, <2>2, <2>3, <2>4 DEF RouteInv
<1>6. CASE WaitReturns
  <2>1. reload' = "idle" /\ UNCHANGED <<found, config>>
    BY <1>6 DEF WaitReturns
  <2>2. CASE pipeline = "stowed" \/ answer = "available"
    <3>1. pipeline' = "stowed" /\ UNCHANGED <<source_config, routes, port>>
      BY <1>6, <2>2 DEF WaitReturns
    <3> QED  BY <2>1, <3>1 DEF RouteInv, ValidateRoutes
  <2>3. CASE ~(pipeline = "stowed" \/ answer = "available")
    <3>1. /\ DOMAIN found = {} /\ source_config' = <<>> /\ routes' = <<>>
          /\ port' = [n \in Names |-> NoPort]
      BY <1>6, <2>3, ZenonT(30) DEF WaitReturns, Polling
    <3> QED  BY <2>1, <3>1 DEF RouteInv, ValidateRoutes
  <2> QED  BY <2>2, <2>3
<1> QED  BY <1>1, <1>2, <1>3, <1>4, <1>5, <1>6 DEF ReloadStep

LEMMA CallbackKeepsRoutes ==
    ASSUME RouteInv, NEW n \in Names, SetAspiredVersions(n)
    PROVE  /\ RouteInv'
           /\ n \in DOMAIN routes
           /\ port' = [port EXCEPT ![n] = IF found[n] = {} THEN NoPort ELSE routes[n]]
<1>1. /\ n \in DOMAIN found /\ DOMAIN found' \subseteq DOMAIN found
      /\ port' = [port EXCEPT ![n] = IF found[n] = {} THEN NoPort ELSE Route(n)]
      /\ UNCHANGED <<source_config, routes, config, pipeline, reload>>
  BY DEF SetAspiredVersions, InvokeCallback
<1>2. n \in DOMAIN source_config /\ n \in DOMAIN routes /\ Route(n) = routes[n]
  BY <1>1 DEF RouteInv, Route
<1>3. RoutesFit(config)' = RoutesFit(config)
  BY <1>1 DEF RoutesFit, CreateStoragePathRoutes
<1> QED  BY <1>1, <1>2, <1>3 DEF RouteInv, ValidateRoutes

LEMMA RoutesStep == RouteInv /\ [Next]_vars => RouteInv'
<1> SUFFICES ASSUME RouteInv, [Next]_vars PROVE RouteInv'
  OBVIOUS
<1>1. CASE Poll
  <2>1. /\ DOMAIN found' \subseteq DOMAIN source_config
        /\ UNCHANGED <<source_config, routes, config, pipeline, reload, port>>
    BY <1>1 DEF Poll, BeginPoll, PollFileSystemForConfig
  <2>2. RoutesFit(config)' = RoutesFit(config)
    BY <2>1 DEF RoutesFit, CreateStoragePathRoutes
  <2> QED  BY <2>1, <2>2 DEF RouteInv, ValidateRoutes
<1>2. CASE \/ \E p \in Paths : FileSystemChanges(p)
           \/ \E n \in Names : Process(n)
           \/ \E i \in Ids : Manage(i) \/ Announce(i) \/ Delay(i) \/ AnnounceLate(i) \/ Forget(i)
           \/ UNCHANGED vars
  <2>1. UNCHANGED routeVars
    BY <1>2 DEF FileSystemChanges, Process, Manage, Announce, Delay, AnnounceLate, Forget,
                outsideVars, sourceVars, vars, routeVars
  <2> QED  BY <2>1, RoutesFrame
<1> QED
  BY <1>1, <1>2, ReloadKeepsRoutes, ReloadStepKeepsRoutes, CallbackKeepsRoutes DEF Next, PollStep

\* The routes cover the source's config at every step of a reload.
THEOREM RouteInvariant == Spec => []RouteInv
BY InitRoutes, RoutesStep, PTL DEF Spec

\* Whatever reloads ask for and whenever the source polls, no version of a model
\* is handed to the error adapter.
THEOREM NoModelIsMisrouted == Spec => []NothingIsMisrouted
<1>1. RouteInv => NothingIsMisrouted
  <2> SUFFICES ASSUME RouteInv, NEW n \in Names PROVE port[n] # DefaultPort
    BY DEF NothingIsMisrouted
  <2>1. CASE port[n] = NoPort
    BY PortsAssumption, PlatformAssumption, <2>1 DEF DefaultPort
  <2>2. CASE port[n] # NoPort
    BY <2>2 DEF RouteInv, ValidateRoutes, DefaultPort
  <2> QED  BY <2>1, <2>2
<1> QED  BY <1>1, RouteInvariant, PTL

\* A configured model keeps its adapter, across reloads that succeed or fail.
THEOREM ModelsKeepTheirPlatform == Spec => PlatformIsKept
<1> DEFINE Kept == \A n \in Names : port[n] # NoPort /\ port'[n] # NoPort => port'[n] = port[n]
<1>1. RouteInv /\ [Next]_vars => [Kept]_vars
  <2> SUFFICES ASSUME RouteInv, Next, NEW m \in Names, port[m] # NoPort, port'[m] # NoPort
               PROVE  port'[m] = port[m]
    OBVIOUS
  <2>1. CASE \E n \in Names : SetAspiredVersions(n)
    <3>1. PICK n \in Names : SetAspiredVersions(n)
      BY <2>1
    <3>2. port' = [port EXCEPT ![n] = IF found[n] = {} THEN NoPort ELSE routes[n]]
      BY <3>1, CallbackKeepsRoutes
    <3> QED  BY <3>2 DEF RouteInv
  <2>2. CASE \E c \in ModelServerConfigs :
                 ReloadConfigOnly(c) \/ ReloadFirstList(c) \/ ReloadNextList(c)
    BY <2>2 DEF ReloadConfigOnly, ReloadFirstList, ReloadNextList, ReloadConfig
  <2>3. CASE ReloadStep
    BY <2>3 DEF ReloadStep, ConnectAdaptersToManager, AddNewRoutes, OldAndNewRoutesConflict,
                ReloadStoragePathSourceConfig, RemoveOldRoutes, WaitReturns
  <2>4. CASE \/ Poll
             \/ \E p \in Paths : FileSystemChanges(p)
             \/ \E n \in Names : Process(n)
             \/ \E i \in Ids : Manage(i) \/ Announce(i) \/ Delay(i) \/ AnnounceLate(i) \/ Forget(i)
    BY <2>4 DEF Poll, FileSystemChanges, Process, Manage, Announce, Delay, AnnounceLate, Forget,
                outsideVars
  <2> QED  BY <2>1, <2>2, <2>3, <2>4 DEF Next, PollStep
<1>2. PlatformIsKept <=> [][Kept]_vars
  BY DEF PlatformIsKept
<1> HIDE DEF Kept
<1> QED  BY <1>1, <1>2, RouteInvariant, PTL DEF Spec
-----------------------------------------------------------------------------
(***************************************************************************)
(* The reservations of ResourceTracker, for any devices, resources and     *)
(* estimates.                                                              *)
(*                                                                         *)
(* The code adds all reservations up, puts what is open of a device on each *)
(* of its instances, and compares with the total.  An approval promises    *)
(* more: there is one choice of instances for all reservations at once.    *)
(* TrackerInv says why that is kept: what is bound fits everywhere, and of *)
(* every device one instance has room for all that is open.                *)
(***************************************************************************)

\* The first-order prover does most steps; the others name theirs.
USE ZenonT(30)

\* Induction over the natural numbers, for a set of them.
LEMMA SetInduction ==
    ASSUME NEW S, 0 \in S, \A n \in Nat : n \in S => n + 1 \in S
    PROVE  \A n \in Nat : n \in S
<1> DEFINE T == Nat \ S
           Less == OpToRel(<, Nat)
<1>1. IsWellFoundedOn(Less, Nat)
  BY NatLessThanWellFounded
<1>2. \A x, y \in Nat : y < x => <<y, x>> \in Less
  BY SMTT(30) DEF OpToRel
<1> HIDE DEF Less
<1>3. SUFFICES ASSUME T # {} PROVE FALSE
  BY SMTT(30)
<1>4. T \subseteq Nat
  BY SMTT(30)
<1> HIDE DEF T
<1>5. PICK x \in T : \A y \in T : ~(<<y, x>> \in Less)
  BY <1>1, <1>3, <1>4, WFMin
<1> USE DEF T
<1>6. x \in Nat /\ x # 0 /\ x - 1 \in Nat
  BY SMTT(30)
<1>7. x - 1 \in T /\ x - 1 < x
  BY <1>6, SMTT(30)
<1> QED  BY <1>2, <1>5, <1>6, <1>7

\* The elements of S are among n values, in some order.
Listed(S, n) == \E f : \A x \in S : \E k \in 1 .. n : f[k] = x

LEMMA FiniteIsListed ==
    ASSUME NEW S, IsFiniteSet(S)
    PROVE  \E n \in Nat : Listed(S, n)
<1>1. PICK f \in Seq(S) : \A x \in S : \E k \in 1 .. Len(f) : f[k] = x
  BY SMTT(30) DEF IsFiniteSet
<1>2. Len(f) \in Nat
  BY SMTT(30)
<1> QED  BY <1>1, <1>2 DEF Listed

LEMMA ListedIsFinite ==
    ASSUME NEW S, NEW n \in Nat, Listed(S, n)
    PROVE  IsFiniteSet(S)
<1>1. PICK f : \A x \in S : \E k \in 1 .. n : f[k] = x
  BY DEF Listed
<1>2. CASE S = {}
  <2>1. <<>> \in Seq(S)
    BY SMTT(30)
  <2>2. \A x \in S : \E k \in 1 .. Len(<<>>) : (<<>>)[k] = x
    BY <1>2
  <2> QED  BY <2>1, <2>2 DEF IsFiniteSet
<1>3. CASE S # {}
  <2>1. PICK y : y \in S
    BY <1>3
  <2> DEFINE g == [k \in 1 .. n |-> IF f[k] \in S THEN f[k] ELSE y]
  <2>2. g \in Seq(S) /\ Len(g) = n
    BY <2>1, SMTT(30)
  <2>3. \A x \in S : \E k \in 1 .. n : g[k] = x
    BY <1>1
  <2> HIDE DEF g
  <2> QED  BY <2>2, <2>3, SMTT(30) DEF IsFiniteSet
<1> QED  BY <1>2, <1>3

\* A part of a set is listed by fewer values.
LEMMA ListedPart ==
    ASSUME NEW S, NEW T \in SUBSET S, T # S, NEW n \in Nat, Listed(S, n + 1)
    PROVE  Listed(T, n)
<1>1. PICK f : \A x \in S : \E k \in 1 .. n + 1 : f[k] = x
  BY DEF Listed
<1>2. PICK y \in S : y \notin T
  OBVIOUS
<1>3. PICK m \in 1 .. n + 1 : f[m] = y
  BY <1>1
<1> DEFINE g == [k \in 1 .. n |-> IF k < m THEN f[k] ELSE f[k + 1]]
<1>4. ASSUME NEW x \in T PROVE \E k \in 1 .. n : g[k] = x
  <2>1. PICK k \in 1 .. n + 1 : f[k] = x
    BY <1>1
  <2>2. k # m
    BY <1>2, <1>3, <2>1
  <2>3. CASE k < m
    <3>1. k \in 1 .. n
      BY <2>3, SMTT(30)
    <3> QED  BY <2>1, <2>3, <3>1
  <2>4. CASE ~(k < m)
    <3>1. k - 1 \in 1 .. n /\ ~(k - 1 < m) /\ (k - 1) + 1 = k
      BY <2>2, <2>4, SMTT(30)
    <3> QED  BY <2>1, <3>1
  <2> QED  BY <2>3, <2>4
<1> QED  BY <1>4 DEF Listed

\* A part of a finite set is finite.
LEMMA FinitePart ==
    ASSUME NEW S, IsFiniteSet(S), NEW T \in SUBSET S
    PROVE  IsFiniteSet(T)
<1>1. PICK n \in Nat : Listed(S, n)
  BY FiniteIsListed
<1>2. Listed(T, n)
  BY <1>1 DEF Listed
<1> QED  BY <1>2, ListedIsFinite

LEMMA EmptyIsFinite == IsFiniteSet({})
<1>1. Listed({}, 0)
  BY SMTT(30) DEF Listed
<1> QED  BY <1>1, ListedIsFinite, SMTT(30)

\* Induction over the subsets of a finite set, for a set of them.
LEMMA SubsetInduction ==
    ASSUME NEW S, IsFiniteSet(S), NEW Good,
           \A T \in SUBSET S : (\A U \in SUBSET T : U # T => U \in Good) => T \in Good
    PROVE  \A T \in SUBSET S : T \in Good
<1> DEFINE Done == {n \in Nat : \A T \in SUBSET S : Listed(T, n) => T \in Good}
<1>1. 0 \in Done
  <2> SUFFICES ASSUME NEW T \in SUBSET S, Listed(T, 0) PROVE T \in Good
    BY SMTT(30)
  <2>1. T = {}
    BY SMTT(30) DEF Listed
  <2>2. \A U \in SUBSET T : U # T => U \in Good
    BY <2>1, SMTT(30)
  <2> QED  BY <2>2
<1>2. ASSUME NEW n \in Nat, n \in Done PROVE n + 1 \in Done
  <2> SUFFICES ASSUME NEW T \in SUBSET S, Listed(T, n + 1) PROVE T \in Good
    BY SMTT(30)
  <2>1. ASSUME NEW U \in SUBSET T, U # T PROVE U \in Good
    <3>1. Listed(U, n)
      BY <2>1, ListedPart
    <3> QED  BY <1>2, <3>1
  <2> QED  BY <2>1
<1> HIDE DEF Done
<1>3. \A n \in Nat : n \in Done
  BY <1>1, <1>2, SetInduction
<1>4. PICK n \in Nat : Listed(S, n)
  BY FiniteIsListed
<1>5. \A T \in SUBSET S : Listed(T, n) => T \in Good
  BY <1>3, SMTT(30) DEF Done
<1>6. \A T \in SUBSET S : Listed(T, n)
  BY <1>4 DEF Listed
<1> QED  BY <1>5, <1>6

-----------------------------------------------------------------------------
\* Which element of a set a fold takes first.
First(T) == CHOOSE x \in T : TRUE

\* h[T] is the sum of fun over T, for every part T of S.
IsSum(fun, S, h) ==
    h = [T \in SUBSET S |-> IF T = {} THEN 0 ELSE fun[First(T)] + h[T \ {First(T)}]]

LEMMA FirstEffect ==
    ASSUME NEW T, T # {}
    PROVE  First(T) \in T /\ T \ {First(T)} \in SUBSET T /\ T \ {First(T)} # T
<1>1. First(T) \in T
  BY DEF First
<1> QED  BY <1>1

LEMMA SumIs == 
    ASSUME NEW fun, NEW S
    PROVE  SumFunctionOnSet(fun, S) = (CHOOSE h : IsSum(fun, S, h))[S]
BY DEF SumFunctionOnSet, FoldFunctionOnSet, MapThenFoldSet, IsSum, First

LEMMA SumUnique ==
    ASSUME NEW fun, NEW S, IsFiniteSet(S), NEW R, NEW g, NEW h,
           S \subseteq R, IsSum(fun, R, g), IsSum(fun, S, h)
    PROVE  g[S] = h[S]
<1> DEFINE Good == {T \in SUBSET S : g[T] = h[T]}
<1>1. ASSUME NEW T \in SUBSET S, \A U \in SUBSET T : U # T => U \in Good
      PROVE  T \in Good
  <2>1. T \in SUBSET R
    OBVIOUS
  <2>2. /\ g[T] = IF T = {} THEN 0 ELSE fun[First(T)] + g[T \ {First(T)}]
        /\ h[T] = IF T = {} THEN 0 ELSE fun[First(T)] + h[T \ {First(T)}]
    BY <2>1 DEF IsSum
  <2> QED  BY <1>1, <2>2, FirstEffect
<1> HIDE DEF Good
<1>2. \A T \in SUBSET S : T \in Good
  BY <1>1, SubsetInduction
<1> QED  BY <1>2 DEF Good

LEMMA SumExists ==
    ASSUME NEW fun, NEW S, IsFiniteSet(S)
    PROVE  \E h : IsSum(fun, S, h)
<1> DEFINE Good == {T \in SUBSET S : \E h : IsSum(fun, T, h)}
<1>1. ASSUME NEW T \in SUBSET S, \A U \in SUBSET T : U # T => U \in Good
      PROVE  T \in Good
  <2> DEFINE sum(U) == SumFunctionOnSet(fun, U)
             g == [U \in SUBSET T |-> IF U = {} THEN 0 ELSE fun[First(U)] + sum(U \ {First(U)})]
  <2>1. ASSUME NEW W \in SUBSET T, W # T
        PROVE  g[W] = sum(W)
    <3> DEFINE V == W \ {First(W)}
    <3>1. PICK h : IsSum(fun, W, h) /\ sum(W) = h[W]
      BY <1>1, <2>1, SumIs
    <3>2. h[W] = IF W = {} THEN 0 ELSE fun[First(W)] + h[V]
      BY <3>1 DEF IsSum
    <3>3. CASE W # {}
      <4>1. V \in SUBSET W /\ V \in SUBSET T /\ V # T /\ V \in SUBSET S
        BY <3>3, FirstEffect
      <4>2. PICK k : IsSum(fun, V, k) /\ sum(V) = k[V]
        BY <1>1, <4>1, SumIs
      <4>3. IsFiniteSet(V)
        BY <4>1, FinitePart
      <4> HIDE DEF V
      <4>4. h[V] = k[V]
        BY <3>1, <4>1, <4>2, <4>3, SumUnique, SMTT(30)
      <4> QED  BY <3>1, <3>2, <3>3, <4>2, <4>4 DEF V
    <3> QED  BY <3>1, <3>2, <3>3
  <2>2. ASSUME NEW U \in SUBSET T, U # {}
        PROVE  g[U \ {First(U)}] = sum(U \ {First(U)})
    <3>1. U \ {First(U)} \in SUBSET T /\ U \ {First(U)} # T
      BY <2>2, FirstEffect
    <3> HIDE DEF g
    <3> QED  BY <2>1, <3>1
  <2>3. g = [U \in SUBSET T |-> IF U = {} THEN 0 ELSE fun[First(U)] + g[U \ {First(U)}]]
    <3> DEFINE k == [U \in SUBSET T |-> IF U = {} THEN 0 ELSE fun[First(U)] + g[U \ {First(U)}]]
    <3>1. ASSUME NEW U \in SUBSET T PROVE g[U] = k[U]
      BY <2>2
    <3> QED  BY <3>1
  <2> HIDE DEF g
  <2> QED  BY <2>3 DEF IsSum
<1> HIDE DEF Good
<1>2. S \in Good
  BY <1>1, SubsetInduction
<1> QED  BY <1>2 DEF Good

\* The recursion of a sum.
LEMMA SumStep ==
    ASSUME NEW fun, NEW S, IsFiniteSet(S)
    PROVE  SumFunctionOnSet(fun, S) =
               IF S = {} THEN 0
               ELSE fun[First(S)] + SumFunctionOnSet(fun, S \ {First(S)})
<1> DEFINE R == S \ {First(S)}
<1>1. PICK h : IsSum(fun, S, h) /\ SumFunctionOnSet(fun, S) = h[S]
  BY SumExists, SumIs
<1>2. h[S] = IF S = {} THEN 0 ELSE fun[First(S)] + h[R]
  BY <1>1 DEF IsSum
<1>3. CASE S # {}
  <2>1. R \in SUBSET S /\ IsFiniteSet(R)
    BY <1>3, FirstEffect, FinitePart
  <2>2. PICK k : IsSum(fun, R, k) /\ SumFunctionOnSet(fun, R) = k[R]
    BY <2>1, SumExists, SumIs
  <2> HIDE DEF R
  <2>3. h[R] = k[R]
    BY <1>1, <2>1, <2>2, SumUnique, SMTT(30)
  <2> QED  BY <1>1, <1>2, <1>3, <2>2, <2>3 DEF R
<1> QED  BY <1>1, <1>2, <1>3

\* What the first step of an induction over sums is about.
LEMMA SumType ==
    ASSUME NEW fun, NEW S, IsFiniteSet(S), \A x \in S : fun[x] \in Nat
    PROVE  SumFunctionOnSet(fun, S) \in Nat
<1> DEFINE Good == {T \in SUBSET S : SumFunctionOnSet(fun, T) \in Nat}
<1>1. ASSUME NEW T \in SUBSET S, \A U \in SUBSET T : U # T => U \in Good
      PROVE  T \in Good
  <2>1. IsFiniteSet(T)
    BY FinitePart
  <2>2. CASE T = {}
    <3>1. SumFunctionOnSet(fun, T) = 0
      BY <2>1, <2>2, SumStep
    <3>2. 0 \in Nat
      BY SMTT(30)
    <3> QED  BY <3>1, <3>2
  <2>3. CASE T # {}
    <3> DEFINE n == SumFunctionOnSet(fun, T \ {First(T)})
    <3>1. n \in Nat /\ fun[First(T)] \in Nat
      BY <1>1, <2>3, FirstEffect
    <3>2. SumFunctionOnSet(fun, T) = fun[First(T)] + n
      BY <2>1, <2>3, SumStep
    <3> HIDE DEF n
    <3> QED  BY <3>1, <3>2, SMTT(30)
  <2> QED  BY <2>2, <2>3
<1> HIDE DEF Good
<1>2. S \in Good
  BY <1>1, SubsetInduction
<1> QED  BY <1>2 DEF Good

\* Any element may come first.
LEMMA SumRemove ==
    ASSUME NEW fun, NEW S, IsFiniteSet(S), \A y \in S : fun[y] \in Nat, NEW x \in S
    PROVE  SumFunctionOnSet(fun, S) = fun[x] + SumFunctionOnSet(fun, S \ {x})
<1> DEFINE sum(T) == SumFunctionOnSet(fun, T)
           Good == {T \in SUBSET S : \A z \in T : sum(T) = fun[z] + sum(T \ {z})}
<1>1. ASSUME NEW T \in SUBSET S, \A U \in SUBSET T : U # T => U \in Good, NEW z \in T
      PROVE  sum(T) = fun[z] + sum(T \ {z})
  <2>1. IsFiniteSet(T) /\ T # {} /\ IsFiniteSet(T \ {z})
    BY FinitePart
  <2>2. PICK c : c = First(T)
    OBVIOUS
  <2>3. c \in T /\ sum(T) = fun[c] + sum(T \ {c})
    BY <2>1, <2>2, SumStep, FirstEffect
  <2>4. CASE c # z
    <3> DEFINE rest == sum((T \ {c}) \ {z})
    <3>1. sum(T \ {c}) = fun[z] + rest
      <4>1. T \ {c} \in SUBSET T /\ T \ {c} # T /\ z \in T \ {c}
        BY <2>3, <2>4
      <4> QED  BY <1>1, <4>1
    <3>2. sum(T \ {z}) = fun[c] + rest
      <4>1. T \ {z} \in SUBSET T /\ T \ {z} # T /\ c \in T \ {z}
        BY <2>3, <2>4
      <4>2. (T \ {z}) \ {c} = (T \ {c}) \ {z}
        OBVIOUS
      <4> QED  BY <1>1, <4>1, <4>2, SMTT(30)
    <3>3. rest \in Nat
      <4>1. IsFiniteSet((T \ {c}) \ {z})
        BY <2>1, FinitePart
      <4> QED  BY <4>1, SumType
    <3>4. fun[c] \in Nat /\ fun[z] \in Nat
      BY <2>3
    <3> HIDE DEF rest, sum
    <3> QED  BY <2>3, <3>1, <3>2, <3>3, <3>4, SMTT(30)
  <2> QED  BY <2>3, <2>4
<1>2. \A T \in SUBSET S : (\A U \in SUBSET T : U # T => U \in Good) => T \in Good
  BY <1>1
<1> HIDE DEF Good
<1>3. S \in Good
  BY <1>2, SubsetInduction
<1> QED  BY <1>3 DEF Good

\* Sums of functions that are compared element by element.
LEMMA SumsCompare ==
    ASSUME NEW f, NEW g, NEW h, NEW S, IsFiniteSet(S),
           \A x \in S : f[x] \in Nat /\ g[x] \in Nat /\ h[x] \in Nat
    PROVE  /\ (\A x \in S : h[x] <= f[x] + g[x])
                  => SumFunctionOnSet(h, S) <= SumFunctionOnSet(f, S) + SumFunctionOnSet(g, S)
           /\ (\A x \in S : f[x] + g[x] <= h[x])
                  => SumFunctionOnSet(f, S) + SumFunctionOnSet(g, S) <= SumFunctionOnSet(h, S)
           /\ (\A x \in S : f[x] <= h[x])
                  => SumFunctionOnSet(f, S) <= SumFunctionOnSet(h, S)
<1> DEFINE sum(fun, T) == SumFunctionOnSet(fun, T)
           Within(T) == (\A x \in S : h[x] <= f[x] + g[x]) => sum(h, T) <= sum(f, T) + sum(g, T)
           Beyond(T) == (\A x \in S : f[x] + g[x] <= h[x]) => sum(f, T) + sum(g, T) <= sum(h, T)
           Below(T) == (\A x \in S : f[x] <= h[x]) => sum(f, T) <= sum(h, T)
           Good == {T \in SUBSET S : Within(T) /\ Beyond(T) /\ Below(T)}
<1>1. ASSUME NEW T \in SUBSET S, \A U \in SUBSET T : U # T => U \in Good
      PROVE  T \in Good
  <2>1. IsFiniteSet(T)
    BY FinitePart
  <2>2. CASE T = {}
    <3>1. sum(f, T) = 0 /\ sum(g, T) = 0 /\ sum(h, T) = 0
      BY <2>1, <2>2, SumStep
    <3> HIDE DEF sum
    <3> QED  BY <3>1, SMTT(30)
  <2>3. CASE T # {}
    <3>1. PICK c \in T : c = First(T)
      BY <2>3, FirstEffect
    <3>2. PICK R \in SUBSET T : R = T \ {c} /\ R # T
      <4>1. T \ {c} \in SUBSET T /\ T \ {c} # T
        BY <3>1
      <4> QED  BY <4>1
    <3>3. /\ sum(f, T) = f[c] + sum(f, R) /\ sum(g, T) = g[c] + sum(g, R)
          /\ sum(h, T) = h[c] + sum(h, R)
      BY <2>1, <2>3, <3>1, <3>2, SumStep
    <3>4. Within(R) /\ Beyond(R) /\ Below(R)
      BY <1>1, <3>2
    <3>5. sum(f, R) \in Nat /\ sum(g, R) \in Nat /\ sum(h, R) \in Nat
      <4>1. IsFiniteSet(R)
        BY <3>2, FinitePart
      <4> QED  BY <4>1, SumType
    <3>6. f[c] \in Nat /\ g[c] \in Nat /\ h[c] \in Nat /\ c \in S
      BY <3>1
    <3> HIDE DEF sum
    <3>7. Within(T)
      BY <3>3, <3>4, <3>5, <3>6, SMTT(30)
    <3>8. Beyond(T)
      BY <3>3, <3>4, <3>5, <3>6, SMTT(30)
    <3>9. Below(T)
      BY <3>3, <3>4, <3>5, <3>6, SMTT(30)
    <3> QED  BY <3>7, <3>8, <3>9
  <2> QED  BY <2>2, <2>3
<1> HIDE DEF Good
<1>2. S \in Good
  BY <1>1, SubsetInduction
<1> QED  BY <1>2 DEF Good

-----------------------------------------------------------------------------
(***************************************************************************)
(* Allocations.                                                            *)
(***************************************************************************)
IsAllocation(a) ==
    /\ a \in [DOMAIN a -> Nat]
    /\ \A r \in DOMAIN a : r = <<r[1], r[2]>>
    /\ VerifyValidity(a) => Normalizable(a)

Open(d) == <<d, Unbound>>

\* The resources of normalised allocations.
Places == AllInstances \cup {Open(d) : d \in {e \in Devices : NumInstances[e] # 1}}

IsNormal(a) ==
    /\ a \in [DOMAIN a -> Nat \ {0}]
    /\ DOMAIN a \subseteq Places

\* An instance is not Unbound.
LEMMA InstanceEffect ==
    ASSUME NEW b \in AllInstances
    PROVE  /\ b[1] \in Devices /\ b[2] \in InstancesOf(b[1]) /\ b = <<b[1], b[2]>>
           /\ IsBoundTo(b) /\ b \in Places /\ b # Open(b[1])
<1>1. PICK d \in Devices : b \in {d} \X InstancesOf(d)
  BY DEF AllInstances
<1>2. b[1] = d /\ b[2] \in InstancesOf(d) /\ b = <<b[1], b[2]>>
  BY <1>1, SMTT(30)
<1>3. InstancesOf(d) \subseteq Nat
  BY AllocationsAssumption, SMTT(30) DEF InstancesOf, Devices
<1>4. b[2] # Unbound
  BY <1>2, <1>3, AllocationsAssumption
<1>5. b # Open(b[1])
  BY <1>2, <1>4, SMTT(30) DEF Open
<1> QED  BY <1>2, <1>4, <1>5 DEF IsBoundTo, Places

LEMMA InstanceIs ==
    ASSUME NEW d \in Devices, NEW i \in InstancesOf(d)
    PROVE  <<d, i>> \in AllInstances /\ <<d, i>>[1] = d /\ <<d, i>>[2] = i
<1>1. <<d, i>> \in {d} \X InstancesOf(d)
  BY SMTT(30)
<1> QED  BY <1>1, SMTT(30) DEF AllInstances

LEMMA OpenEffect ==
    ASSUME NEW d
    PROVE  Open(d)[1] = d /\ Open(d)[2] = Unbound /\ ~IsBoundTo(Open(d))
BY SMTT(30) DEF Open, IsBoundTo

\* A resource of a normalised allocation is an instance or open.
LEMMA PlaceCases ==
    ASSUME NEW r \in Places
    PROVE  /\ r[1] \in Devices /\ NormalizeResource(r) = r
           /\ IsBoundTo(r) <=> r \in AllInstances
           /\ ~IsBoundTo(r) => r = Open(r[1])
<1>1. CASE r \in AllInstances
  BY <1>1, InstanceEffect DEF NormalizeResource
<1>2. CASE r \notin AllInstances
  <2>1. PICK d \in Devices : r = Open(d) /\ NumInstances[d] # 1
    BY <1>2 DEF Places
  <2> QED  BY <1>2, <2>1, OpenEffect DEF NormalizeResource
<1> QED  BY <1>1, <1>2

\* Normalize() of an allocation of normal resources drops the zeros.
LEMMA NormalizePlaces ==
    ASSUME NEW a, a \in [DOMAIN a -> Nat], DOMAIN a \subseteq Places
    PROVE  Normalize(a) = [r \in {q \in DOMAIN a : a[q] # 0} |-> a[r]]
<1> DEFINE used == {q \in DOMAIN a : a[q] # 0}
           choice(n) == CHOOSE r \in used : NormalizeResource(r) = n
<1>1. \A q \in used : NormalizeResource(q) = q
  BY PlaceCases
<1>2. {NormalizeResource(q) : q \in used} = used
  BY <1>1
<1>3. ASSUME NEW n \in used PROVE choice(n) = n
  <2>1. \E q \in used : NormalizeResource(q) = n
    BY <1>1
  <2>2. choice(n) \in used /\ NormalizeResource(choice(n)) = n
    BY <2>1
  <2> QED  BY <1>1, <2>2
<1>4. Normalize(a) = [n \in {NormalizeResource(q) : q \in used} |-> a[choice(n)]]
  BY DEF Normalize
<1> HIDE DEF used, choice
<1>5. [n \in used |-> a[choice(n)]] = [n \in used |-> a[n]]
  BY <1>3
<1> USE DEF used
<1> QED  BY <1>2, <1>4, <1>5

LEMMA NormalizeIsNormal ==
    ASSUME NEW a, IsAllocation(a), VerifyValidity(a)
    PROVE  IsNormal(Normalize(a))
<1> DEFINE used == {q \in DOMAIN a : a[q] # 0}
           choice(n) == CHOOSE r \in used : NormalizeResource(r) = n
<1>1. ASSUME NEW r \in used PROVE NormalizeResource(r) \in Places
  <2>1. /\ r[1] \in Devices /\ r = <<r[1], r[2]>>
        /\ IsBoundTo(r) => r[2] \in InstancesOf(r[1])
    BY DEF IsAllocation, VerifyValidity
  <2>2. CASE IsBoundTo(r)
    <3>1. PICK d \in Devices : \E i \in InstancesOf(d) : r = <<d, i>>
      BY <2>1, <2>2
    <3>2. r \in AllInstances
      BY <3>1, InstanceIs, SMTT(30)
    <3> QED  BY <2>2, <3>2 DEF NormalizeResource, Places
  <2>3. CASE ~IsBoundTo(r) /\ NumInstances[r[1]] = 1
    <3>1. 0 \in InstancesOf(r[1])
      BY <2>3, SMTT(30) DEF InstancesOf
    <3> QED  BY <2>1, <2>3, <3>1, InstanceIs DEF NormalizeResource, Places
  <2>4. CASE ~IsBoundTo(r) /\ NumInstances[r[1]] # 1
    <3>1. r = Open(r[1])
      BY <2>1, <2>4 DEF Open, IsBoundTo
    <3>2. NormalizeResource(r) = r
      BY <2>4 DEF NormalizeResource
    <3> QED  BY <2>1, <2>4, <3>1, <3>2 DEF Places
  <2> QED  BY <2>2, <2>3, <2>4
<1>2. ASSUME NEW n \in {NormalizeResource(r) : r \in used} PROVE a[choice(n)] \in Nat \ {0}
  <2>1. choice(n) \in used
    OBVIOUS
  <2>2. a[choice(n)] \in Nat /\ a[choice(n)] # 0
    BY <2>1 DEF IsAllocation
  <2> QED  BY <2>2, SMTT(30)
<1>3. Normalize(a) = [n \in {NormalizeResource(r) : r \in used} |-> a[choice(n)]]
  BY DEF Normalize
<1> HIDE DEF choice, used
<1> QED  BY <1>1, <1>2, <1>3 DEF IsNormal

\* Normalize() renames the resources and keeps their quantities.
LEMMA NormalizeQuantity ==
    ASSUME NEW a, IsAllocation(a), VerifyValidity(a)
    PROVE  /\ \A q \in DOMAIN a : GetQuantity(NormalizeResource(q), Normalize(a)) = a[q]
           /\ \A n : (\A q \in DOMAIN a : NormalizeResource(q) # n)
                      => GetQuantity(n, Normalize(a)) = 0
<1> DEFINE used == {q \in DOMAIN a : a[q] # 0}
           choice(n) == CHOOSE r \in used : NormalizeResource(r) = n
<1>1. Normalize(a) = [n \in {NormalizeResource(r) : r \in used} |-> a[choice(n)]]
  BY DEF Normalize
<1>2. DOMAIN Normalize(a) = {NormalizeResource(r) : r \in used}
  BY <1>1
<1>3. \A q, r \in DOMAIN a : NormalizeResource(q) = NormalizeResource(r) => q = r
  BY DEF IsAllocation, Normalizable
<1>4. ASSUME NEW q \in DOMAIN a
      PROVE  GetQuantity(NormalizeResource(q), Normalize(a)) = a[q]
  <2>1. CASE q \in used
    <3>1. choice(NormalizeResource(q)) \in used
          /\ NormalizeResource(choice(NormalizeResource(q))) = NormalizeResource(q)
      BY <2>1
    <3>2. choice(NormalizeResource(q)) = q
      BY <1>3, <3>1
    <3> HIDE DEF used, choice
    <3> QED  BY <1>1, <1>2, <2>1, <3>2 DEF GetQuantity
  <2>2. CASE q \notin used
    <3>1. NormalizeResource(q) \notin DOMAIN Normalize(a)
      BY <1>2, <1>3, <2>2
    <3> QED  BY <2>2, <3>1 DEF GetQuantity
  <2> QED  BY <2>1, <2>2
<1>5. ASSUME NEW n, \A q \in DOMAIN a : NormalizeResource(q) # n
      PROVE  GetQuantity(n, Normalize(a)) = 0
  BY <1>2, <1>5 DEF GetQuantity
<1> QED  BY <1>4, <1>5

LEMMA NormalIsNormalized ==
    ASSUME NEW a, IsNormal(a)
    PROVE  Normalize(a) = a
<1>1. a \in [DOMAIN a -> Nat] /\ DOMAIN a \subseteq Places /\ \A r \in DOMAIN a : a[r] # 0
  BY SMTT(30) DEF IsNormal
<1>2. {q \in DOMAIN a : a[q] # 0} = DOMAIN a
  BY <1>1
<1>3. Normalize(a) = [r \in DOMAIN a |-> a[r]]
  BY <1>1, <1>2, NormalizePlaces
<1> QED  BY <1>1, <1>3

LEMMA QuantityType ==
    ASSUME NEW a, a \in [DOMAIN a -> Nat], NEW r
    PROVE  GetQuantity(r, a) \in Nat
BY SMTT(30) DEF GetQuantity

LEMMA NormalQuantity ==
    ASSUME NEW a, IsNormal(a), NEW r
    PROVE  GetQuantity(r, a) \in Nat /\ (r \in DOMAIN a <=> GetQuantity(r, a) # 0)
BY SMTT(30) DEF GetQuantity, IsNormal

LEMMA AddEffect ==
    ASSUME NEW x, IsNormal(x), NEW y, IsNormal(y)
    PROVE  /\ IsNormal(AddNormalized(x, y))
           /\ \A r : GetQuantity(r, AddNormalized(x, y)) = GetQuantity(r, x) + GetQuantity(r, y)
           /\ DOMAIN AddNormalized(x, y) = DOMAIN x \cup DOMAIN y
<1> DEFINE sum == AddNormalized(x, y)
           value(r) == GetQuantity(r, x) + GetQuantity(r, y)
<1>1. sum = [r \in DOMAIN x \cup DOMAIN y |-> value(r)]
  BY DEF AddNormalized
<1>2. ASSUME NEW r PROVE /\ r \in DOMAIN x \cup DOMAIN y => value(r) \in Nat \ {0}
                         /\ r \notin DOMAIN x \cup DOMAIN y => value(r) = 0
  <2>1. /\ GetQuantity(r, x) \in Nat /\ (r \in DOMAIN x <=> GetQuantity(r, x) # 0)
        /\ GetQuantity(r, y) \in Nat /\ (r \in DOMAIN y <=> GetQuantity(r, y) # 0)
    BY NormalQuantity
  <2> QED  BY <2>1, SMTT(30)
<1> HIDE DEF sum, value
<1>3. DOMAIN sum = DOMAIN x \cup DOMAIN y /\ \A r \in DOMAIN sum : sum[r] = value(r)
  BY <1>1
<1>4. IsNormal(sum)
  BY <1>1, <1>2, <1>3 DEF IsNormal
<1>5. \A r : GetQuantity(r, sum) = value(r)
  BY <1>2, <1>3 DEF GetQuantity
<1> QED  BY <1>3, <1>4, <1>5 DEF sum, value

\* Overbind() counts the open quantity of a device on every instance of it.
LEMMA OverbindEffect ==
    ASSUME NEW a, IsNormal(a)
    PROVE  /\ IsNormal(OverbindNormalized(a))
           /\ DOMAIN OverbindNormalized(a) \subseteq AllInstances
           /\ \A b \in AllInstances : GetQuantity(b, OverbindNormalized(a)) =
                                          GetQuantity(b, a) + GetQuantity(Open(b[1]), a)
<1> DEFINE unbound == {r \in DOMAIN a : ~IsBoundTo(r)}
           everywhere == UNION {{r[1]} \X InstancesOf(r[1]) : r \in unbound}
           dom == (DOMAIN a \ unbound) \cup everywhere
           value(b) == GetQuantity(b, a) + GetQuantity(Open(b[1]), a)
           over == OverbindNormalized(a)
<1>1. over = [b \in dom |-> value(b)]
  BY DEF OverbindNormalized, Open
<1>2. DOMAIN a \subseteq Places
  BY DEF IsNormal
<1>3. ASSUME NEW b \in dom PROVE b \in AllInstances /\ (b \in DOMAIN a \/ Open(b[1]) \in DOMAIN a)
  <2>1. CASE b \in DOMAIN a \ unbound
    BY <1>2, <2>1, PlaceCases
  <2>2. CASE b \in everywhere
    <3>1. PICK r \in unbound : b \in {r[1]} \X InstancesOf(r[1])
      BY <2>2
    <3>2. r[1] \in Devices /\ r = Open(r[1])
      BY <1>2, <3>1, PlaceCases
    <3>3. b \in AllInstances
      BY <3>1, <3>2 DEF AllInstances
    <3>4. b[1] = r[1]
      BY <3>1, SMTT(30)
    <3> QED  BY <3>1, <3>2, <3>3, <3>4
  <2> QED  BY <2>1, <2>2
<1>4. ASSUME NEW b \in AllInstances, b \in DOMAIN a \/ Open(b[1]) \in DOMAIN a PROVE b \in dom
  <2>1. CASE b \in DOMAIN a
    BY <2>1, InstanceEffect
  <2>2. CASE Open(b[1]) \in DOMAIN a
    <3>1. Open(b[1]) \in unbound /\ Open(b[1])[1] = b[1]
      BY <2>2, OpenEffect
    <3>2. b \in {b[1]} \X InstancesOf(b[1])
      BY InstanceEffect, SMTT(30)
    <3> QED  BY <3>1, <3>2
  <2> QED  BY <1>4, <2>1, <2>2
<1>5. ASSUME NEW b \in AllInstances PROVE /\ value(b) \in Nat
                                          /\ b \in dom <=> value(b) # 0
  <2>1. b \in dom <=> b \in DOMAIN a \/ Open(b[1]) \in DOMAIN a
    BY <1>3, <1>4
  <2> HIDE DEF dom
  <2>2. /\ GetQuantity(b, a) \in Nat /\ (b \in DOMAIN a <=> GetQuantity(b, a) # 0)
        /\ GetQuantity(Open(b[1]), a) \in Nat
        /\ (Open(b[1]) \in DOMAIN a <=> GetQuantity(Open(b[1]), a) # 0)
    BY NormalQuantity
  <2> QED  BY <2>1, <2>2, SMTT(30)
<1> HIDE DEF dom, value, over
<1>6. DOMAIN over = dom /\ \A b \in dom : over[b] = value(b)
  BY <1>1
<1>7. dom \subseteq AllInstances /\ \A b \in dom : value(b) \in Nat \ {0}
  BY <1>3, <1>5
<1>8. IsNormal(over) /\ DOMAIN over \subseteq AllInstances
  BY <1>1, <1>6, <1>7, InstanceEffect DEF IsNormal
<1>9. \A b \in AllInstances : GetQuantity(b, over) = value(b)
  BY <1>5, <1>6 DEF GetQuantity
<1> QED  BY <1>8, <1>9 DEF value, over

\* LessThanOrEqual(): the instances have room for what is bound to them, and
\* some instance of each device has room for what is open besides.
LEMMA LessThanOrEqualEffect ==
    ASSUME NEW x, IsNormal(x), NEW t, IsNormal(t), DOMAIN t \subseteq AllInstances
    PROVE  LessThanOrEqualNormalized(x, t) <=>
           /\ \A b \in AllInstances : GetQuantity(b, x) <= GetQuantity(b, t)
           /\ \A d \in Devices : Open(d) \in DOMAIN x =>
                  \E i \in InstancesOf(d) :
                      GetQuantity(Open(d), x) + GetQuantity(<<d, i>>, x) <= GetQuantity(<<d, i>>, t)
<1> DEFINE B == {r \in DOMAIN x : IsBoundTo(r)}
           bound == Restrict(x, B)
           left == [r \in DOMAIN t |-> t[r] - GetQuantity(r, bound)]
           Room == \A b \in AllInstances : GetQuantity(b, x) <= GetQuantity(b, t)
<1>1. LessThanOrEqualNormalized(x, t) <=>
        /\ CanSubtract(bound, t)
        /\ \A r \in DOMAIN x \ DOMAIN bound : HasRoom(r, x[r], Subtract(bound, t))
  BY DEF LessThanOrEqualNormalized
<1>2. DOMAIN bound = B /\ \A r \in B : bound[r] = x[r]
  BY DEF Restrict
<1> HIDE DEF bound
<1>3. \A r \in DOMAIN x : r \in B <=> r \in AllInstances
  BY PlaceCases DEF IsNormal
<1>4. \A b \in AllInstances : GetQuantity(b, bound) = GetQuantity(b, x)
  BY <1>2, <1>3 DEF GetQuantity
<1>5. \A r : GetQuantity(r, x) \in Nat /\ GetQuantity(r, t) \in Nat
  BY NormalQuantity
<1>6. CanSubtract(bound, t) <=> Room
  <2>1. CanSubtract(bound, t) <=> \A b \in B : GetQuantity(b, x) <= GetQuantity(b, t)
    BY <1>2 DEF CanSubtract, GetQuantity
  <2>2. ASSUME NEW b \in AllInstances, b \notin B PROVE GetQuantity(b, x) <= GetQuantity(b, t)
    <3>1. GetQuantity(b, x) = 0
      BY <1>3, <2>2 DEF GetQuantity
    <3> QED  BY <1>5, <3>1, SMTT(30)
  <2> QED  BY <1>3, <2>1, <2>2
<1>7. ASSUME Room, NEW b \in AllInstances
      PROVE  GetQuantity(b, Subtract(bound, t)) = GetQuantity(b, t) - GetQuantity(b, x)
  <2>1. \A r \in DOMAIN t : t[r] - GetQuantity(r, bound) \in Nat
    <3>1. ASSUME NEW r \in DOMAIN t PROVE t[r] - GetQuantity(r, bound) \in Nat
      <4>1. GetQuantity(r, x) <= GetQuantity(r, t) /\ GetQuantity(r, t) = t[r]
            /\ GetQuantity(r, bound) = GetQuantity(r, x)
        BY <1>4, <1>7 DEF GetQuantity
      <4> QED  BY <1>5, <4>1, SMTT(30)
    <3> QED  BY <3>1
  <2>2. /\ left \in [DOMAIN left -> Nat] /\ DOMAIN left = DOMAIN t /\ DOMAIN left \subseteq Places
        /\ \A r \in DOMAIN t : left[r] = t[r] - GetQuantity(r, bound)
    BY <2>1, InstanceEffect
  <2>3. Subtract(bound, t) = Normalize(left)
    BY DEF Subtract
  <2> HIDE DEF left
  <2>4. Subtract(bound, t) = [r \in {q \in DOMAIN left : left[q] # 0} |-> left[r]]
    BY <2>2, <2>3, NormalizePlaces
  <2>5. GetQuantity(b, Subtract(bound, t)) = IF b \in DOMAIN left THEN left[b] ELSE 0
    BY <2>4 DEF GetQuantity
  <2>6. CASE b \in DOMAIN t
    BY <1>4, <2>2, <2>5, <2>6 DEF GetQuantity
  <2>7. CASE b \notin DOMAIN t
    <3>1. GetQuantity(b, t) = 0 /\ GetQuantity(b, x) <= 0
      BY <1>7, <2>7 DEF GetQuantity
    <3>2. GetQuantity(b, t) - GetQuantity(b, x) = 0
      BY <1>5, <3>1, SMTT(30)
    <3> QED  BY <2>2, <2>5, <2>7, <3>2
  <2> QED  BY <2>6, <2>7
<1>8. ASSUME Room, NEW d \in Devices, Open(d) \in DOMAIN x
      PROVE  HasRoom(Open(d), x[Open(d)], Subtract(bound, t)) <=>
             \E i \in InstancesOf(d) :
                 GetQuantity(Open(d), x) + GetQuantity(<<d, i>>, x) <= GetQuantity(<<d, i>>, t)
  <2>1. x[Open(d)] = GetQuantity(Open(d), x)
    BY <1>8 DEF GetQuantity
  <2>2. HasRoom(Open(d), x[Open(d)], Subtract(bound, t)) <=>
        \E i \in InstancesOf(d) : GetQuantity(Open(d), x) <= GetQuantity(<<d, i>>, Subtract(bound, t))
    BY <2>1, OpenEffect DEF HasRoom
  <2>3. ASSUME NEW i \in InstancesOf(d)
        PROVE  GetQuantity(Open(d), x) <= GetQuantity(<<d, i>>, Subtract(bound, t)) <=>
               GetQuantity(Open(d), x) + GetQuantity(<<d, i>>, x) <= GetQuantity(<<d, i>>, t)
    <3>1. GetQuantity(<<d, i>>, Subtract(bound, t)) = GetQuantity(<<d, i>>, t) - GetQuantity(<<d, i>>, x)
      BY <1>7, <1>8, InstanceIs
    <3> QED  BY <1>5, <3>1, SMTT(30)
  <2> QED  BY <2>2, <2>3
<1>9. \A r \in DOMAIN x \ DOMAIN bound : r[1] \in Devices /\ r = Open(r[1])
  BY <1>2, PlaceCases DEF IsNormal
<1>10. \A d \in Devices : Open(d) \in DOMAIN x => Open(d) \in DOMAIN x \ DOMAIN bound
  BY <1>2, OpenEffect
<1>11. ASSUME Room
       PROVE  (\A r \in DOMAIN x \ DOMAIN bound : HasRoom(r, x[r], Subtract(bound, t))) <=>
              \A d \in Devices : Open(d) \in DOMAIN x =>
                  HasRoom(Open(d), x[Open(d)], Subtract(bound, t))
  BY <1>9, <1>10
<1> QED  BY <1>1, <1>6, <1>8, <1>11

LEMMA NormalsEqual ==
    ASSUME NEW x, IsNormal(x), NEW y, IsNormal(y),
           \A r \in Places : GetQuantity(r, x) = GetQuantity(r, y)
    PROVE  x = y
<1>1. \A r : (r \in DOMAIN x <=> GetQuantity(r, x) # 0) /\ (r \in DOMAIN y <=> GetQuantity(r, y) # 0)
  BY NormalQuantity
<1>2. DOMAIN x \subseteq Places /\ DOMAIN y \subseteq Places
  BY DEF IsNormal
<1>3. DOMAIN x = DOMAIN y
  BY <1>1, <1>2
<1>4. ASSUME NEW r \in DOMAIN x PROVE x[r] = y[r]
  <2>1. x[r] = GetQuantity(r, x) /\ y[r] = GetQuantity(r, y)
    BY <1>3 DEF GetQuantity
  <2> QED  BY <1>2, <2>1
<1>5. x = [r \in DOMAIN x |-> x[r]] /\ y = [r \in DOMAIN y |-> y[r]]
  BY DEF IsNormal
<1> QED  BY <1>3, <1>4, <1>5

-----------------------------------------------------------------------------
(***************************************************************************)
(* What servables demand together.                                         *)
(***************************************************************************)
\* The quantity of a resource in an estimate.
Part(est, s, r) == GetQuantity(r, Normalize(est[s]))

DemandOf(est, S, r) == SumFunctionOnSet([s \in Servables |-> Part(est, s, r)], S)

AreValid(est, S) == \A s \in S : IsAllocation(est[s]) /\ VerifyValidity(est[s])

LEMMA PartEffect ==
    ASSUME NEW est, NEW S, AreValid(est, S), NEW s \in S
    PROVE  /\ IsNormal(Normalize(est[s]))
           /\ \A r : Part(est, s, r) \in Nat
           /\ \A r : r \notin Places => Part(est, s, r) = 0
<1>1. IsNormal(Normalize(est[s]))
  BY NormalizeIsNormal DEF AreValid
<1>2. DOMAIN Normalize(est[s]) \subseteq Places
  BY <1>1 DEF IsNormal
<1>3. \A r : Part(est, s, r) \in Nat
  BY <1>1, NormalQuantity DEF Part
<1>4. \A r : r \notin Places => Part(est, s, r) = 0
  BY <1>2 DEF Part, GetQuantity
<1> QED  BY <1>1, <1>3, <1>4

LEMMA DemandType ==
    ASSUME NEW est, NEW S \in SUBSET Servables, AreValid(est, S), NEW r
    PROVE  /\ IsFiniteSet(S) /\ DemandOf(est, S, r) \in Nat
           /\ DemandOf(est, {}, r) = 0
           /\ r \notin Places => DemandOf(est, S, r) = 0
<1> DEFINE fun == [s \in Servables |-> Part(est, s, r)]
<1>1. IsFiniteSet(S) /\ IsFiniteSet({})
  BY AllocationsAssumption, FinitePart, EmptyIsFinite
<1>2. \A s \in S : fun[s] \in Nat
  BY PartEffect
<1>3. DemandOf(est, S, r) \in Nat
  BY <1>1, <1>2, SumType DEF DemandOf
<1>4. DemandOf(est, {}, r) = 0
  BY <1>1, SumStep DEF DemandOf
<1>5. ASSUME r \notin Places PROVE DemandOf(est, S, r) = 0
  <2>1. \A s \in S : fun[s] = 0
    BY <1>5, PartEffect
  <2>2. DemandOf(est, S, r) = SumFunctionOnSet(fun, S)
    BY DEF DemandOf
  <2> HIDE DEF fun
  <2>3. \A s \in S : fun[s] + fun[s] <= fun[s]
    BY <2>1, SMTT(30)
  <2>4. SumFunctionOnSet(fun, S) + SumFunctionOnSet(fun, S) <= SumFunctionOnSet(fun, S)
    BY <1>1, <1>2, <2>3, SumsCompare
  <2> QED  BY <1>3, <2>2, <2>4, SMTT(30)
<1> QED  BY <1>1, <1>3, <1>4, <1>5

\* One servable and the others.
LEMMA DemandRemove ==
    ASSUME NEW est, NEW S \in SUBSET Servables, AreValid(est, S), NEW s \in S, NEW r
    PROVE  /\ DemandOf(est, S, r) = Part(est, s, r) + DemandOf(est, S \ {s}, r)
           /\ Part(est, s, r) \in Nat /\ DemandOf(est, S \ {s}, r) \in Nat
           /\ DemandOf(est, S, r) \in Nat
<1> DEFINE fun == [t \in Servables |-> Part(est, t, r)]
<1>1. IsFiniteSet(S) /\ DemandOf(est, S, r) \in Nat
  BY DemandType
<1>2. \A t \in S : fun[t] \in Nat
  BY PartEffect
<1>3. DemandOf(est, S, r) = SumFunctionOnSet(fun, S)
      /\ DemandOf(est, S \ {s}, r) = SumFunctionOnSet(fun, S \ {s})
      /\ fun[s] = Part(est, s, r)
  BY DEF DemandOf
<1> HIDE DEF fun
<1>4. SumFunctionOnSet(fun, S) = fun[s] + SumFunctionOnSet(fun, S \ {s})
  BY <1>1, <1>2, SumRemove, SMTT(30)
<1>5. S \ {s} \in SUBSET Servables /\ AreValid(est, S \ {s})
  BY DEF AreValid
<1> QED  BY <1>1, <1>3, <1>4, <1>5, DemandType, PartEffect

\* Estimates that do not grow.
LEMMA DemandShrinks ==
    ASSUME NEW est, NEW new, NEW S \in SUBSET Servables, AreValid(est, S), AreValid(new, S), NEW r,
           \A s \in S : Part(new, s, r) <= Part(est, s, r)
    PROVE  DemandOf(new, S, r) <= DemandOf(est, S, r)
<1> DEFINE f == [t \in Servables |-> Part(new, t, r)]
           h == [t \in Servables |-> Part(est, t, r)]
<1>1. \A s \in S : f[s] \in Nat /\ h[s] \in Nat /\ f[s] <= h[s]
  BY PartEffect
<1>2. IsFiniteSet(S)
  BY DemandType
<1>3. DemandOf(est, S, r) = SumFunctionOnSet(h, S) /\ DemandOf(new, S, r) = SumFunctionOnSet(f, S)
  BY DEF DemandOf
<1> HIDE DEF f, h
<1> QED  BY <1>1, <1>2, <1>3, SumsCompare

LEMMA DemandSame ==
    ASSUME NEW est, NEW new, NEW S \in SUBSET Servables, AreValid(est, S),
           \A s \in S : new[s] = est[s], NEW r
    PROVE  DemandOf(new, S, r) = DemandOf(est, S, r) /\ AreValid(new, S)
<1>1. AreValid(new, S)
  BY DEF AreValid
<1>2. \A s \in S : Part(new, s, r) = Part(est, s, r) /\ Part(new, s, r) \in Nat
  BY PartEffect DEF Part
<1>3. \A s \in S : Part(new, s, r) <= Part(est, s, r) /\ Part(est, s, r) <= Part(new, s, r)
  BY <1>2, SMTT(30)
<1>4. DemandOf(new, S, r) <= DemandOf(est, S, r) /\ DemandOf(est, S, r) <= DemandOf(new, S, r)
  BY <1>1, <1>3, DemandShrinks
<1>5. DemandOf(new, S, r) \in Nat /\ DemandOf(est, S, r) \in Nat
  BY <1>1, DemandType
<1> QED  BY <1>1, <1>4, <1>5, SMTT(30)

-----------------------------------------------------------------------------
(***************************************************************************)
(* What RecomputeUsedResources() computes.                                 *)
(***************************************************************************)
IsRecomputed(est, S, h) ==
    h = [T \in SUBSET S |-> IF T = {} THEN NoResources
                            ELSE Add(est[First(T)], h[T \ {First(T)}])]

\* The allocation of what a set of servables demands.
Combined(est, T) ==
    [r \in {q \in Places : DemandOf(est, T, q) # 0} |-> DemandOf(est, T, r)]

LEMMA CombinedEffect ==
    ASSUME NEW est, NEW T \in SUBSET Servables, AreValid(est, T)
    PROVE  /\ IsNormal(Combined(est, T))
           /\ \A r : GetQuantity(r, Combined(est, T)) = DemandOf(est, T, r)
<1> DEFINE dom == {q \in Places : DemandOf(est, T, q) # 0}
           all == Combined(est, T)
<1>1. all = [r \in dom |-> DemandOf(est, T, r)]
  BY DEF Combined
<1>2. \A r : DemandOf(est, T, r) \in Nat /\ (r \notin Places => DemandOf(est, T, r) = 0)
  BY DemandType
<1>3. \A r \in dom : DemandOf(est, T, r) \in Nat \ {0}
  BY <1>2, SMTT(30)
<1>4. DOMAIN all = dom /\ dom \subseteq Places /\ \A r \in dom : all[r] = DemandOf(est, T, r)
  BY <1>1
<1>5. \A r : r \notin dom => DemandOf(est, T, r) = 0
  BY <1>2
<1> HIDE DEF dom, all
<1>6. IsNormal(all)
  BY <1>1, <1>3, <1>4 DEF IsNormal
<1>7. \A r : GetQuantity(r, all) = DemandOf(est, T, r)
  BY <1>4, <1>5 DEF GetQuantity
<1> QED  BY <1>6, <1>7 DEF all

LEMMA CombinedStep ==
    ASSUME NEW est, NEW T \in SUBSET Servables, AreValid(est, T)
    PROVE  Combined(est, T) = IF T = {} THEN NoResources
                              ELSE Add(est[First(T)], Combined(est, T \ {First(T)}))
<1>1. CASE T = {}
  <2>1. {q \in Places : DemandOf(est, T, q) # 0} = {}
    BY <1>1, DemandType
  <2>2. Combined(est, T) = [r \in {} |-> DemandOf(est, T, r)]
    BY <2>1 DEF Combined
  <2>3. Combined(est, T) = NoResources
    BY <2>2 DEF NoResources
  <2> QED  BY <1>1, <2>3
<1>2. CASE T # {}
  <2>1. PICK c \in T : c = First(T)
    BY <1>2, FirstEffect
  <2>2. PICK R : R = T \ {c}
    OBVIOUS
  <2>3. R \in SUBSET Servables /\ AreValid(est, R)
    BY <2>2 DEF AreValid
  <2> DEFINE x == Normalize(est[c])
             y == Combined(est, R)
  <2>4. /\ IsNormal(x) /\ \A r : GetQuantity(r, x) = Part(est, c, r)
        /\ IsNormal(y) /\ \A r : GetQuantity(r, y) = DemandOf(est, R, r)
    BY <2>3, PartEffect, CombinedEffect DEF Part
  <2>5. Add(est[c], y) = AddNormalized(x, y)
    BY <2>4, NormalIsNormalized DEF Add
  <2> HIDE DEF x, y
  <2>6. /\ IsNormal(AddNormalized(x, y))
        /\ \A r : GetQuantity(r, AddNormalized(x, y)) = Part(est, c, r) + DemandOf(est, R, r)
    <3>1. /\ IsNormal(AddNormalized(x, y))
          /\ \A r : GetQuantity(r, AddNormalized(x, y)) = GetQuantity(r, x) + GetQuantity(r, y)
      BY <2>4, AddEffect
    <3> QED  BY <2>4, <3>1
  <2>7. \A r : DemandOf(est, T, r) = Part(est, c, r) + DemandOf(est, R, r)
    BY <2>2, DemandRemove, SMTT(30)
  <2>8. Combined(est, T) = AddNormalized(x, y)
    <3>1. /\ IsNormal(Combined(est, T))
          /\ \A r : GetQuantity(r, Combined(est, T)) = DemandOf(est, T, r)
      BY CombinedEffect
    <3>2. \A r : GetQuantity(r, Combined(est, T)) = GetQuantity(r, AddNormalized(x, y))
      BY <2>6, <2>7, <3>1
    <3> QED  BY <2>6, <3>1, <3>2, NormalsEqual
  <2> QED  BY <1>2, <2>1, <2>2, <2>5, <2>8 DEF y
<1> QED  BY <1>1, <1>2

LEMMA RecomputedIsCombined ==
    ASSUME NEW est, NEW S \in SUBSET Servables, AreValid(est, S)
    PROVE  FoldFunctionOnSet(Add, NoResources, est, S) = Combined(est, S)
<1>1. FoldFunctionOnSet(Add, NoResources, est, S) = (CHOOSE h : IsRecomputed(est, S, h))[S]
  BY DEF FoldFunctionOnSet, MapThenFoldSet, IsRecomputed, First
<1>2. ASSUME NEW T \in SUBSET S
      PROVE  Combined(est, T) = IF T = {} THEN NoResources
                                ELSE Add(est[First(T)], Combined(est, T \ {First(T)}))
  <2>1. T \in SUBSET Servables /\ AreValid(est, T)
    BY DEF AreValid
  <2> QED  BY <2>1, CombinedStep
<1>3. \E h : IsRecomputed(est, S, h)
  <2> DEFINE g == [T \in SUBSET S |-> Combined(est, T)]
             k == [T \in SUBSET S |-> IF T = {} THEN NoResources
                                      ELSE Add(est[First(T)], g[T \ {First(T)}])]
  <2>1. ASSUME NEW T \in SUBSET S PROVE g[T] = k[T]
    <3>1. T # {} => T \ {First(T)} \in SUBSET S
      BY FirstEffect
    <3>2. T # {} => g[T \ {First(T)}] = Combined(est, T \ {First(T)})
      BY <3>1
    <3>3. g[T] = Combined(est, T)
      OBVIOUS
    <3> HIDE DEF g
    <3> QED  BY <1>2, <3>2, <3>3
  <2>2. g = k
    BY <2>1
  <2> HIDE DEF g
  <2> QED  BY <2>2 DEF IsRecomputed
<1>4. PICK h : IsRecomputed(est, S, h) /\ FoldFunctionOnSet(Add, NoResources, est, S) = h[S]
  BY <1>1, <1>3
<1> DEFINE Good == {T \in SUBSET S : h[T] = Combined(est, T)}
<1>5. ASSUME NEW T \in SUBSET S, \A U \in SUBSET T : U # T => U \in Good
      PROVE  T \in Good
  <2>1. h[T] = IF T = {} THEN NoResources ELSE Add(est[First(T)], h[T \ {First(T)}])
    BY <1>4 DEF IsRecomputed
  <2>2. T # {} => h[T \ {First(T)}] = Combined(est, T \ {First(T)})
    BY <1>5, FirstEffect
  <2> QED  BY <1>2, <2>1, <2>2
<1> HIDE DEF Good
<1>6. IsFiniteSet(S)
  BY DemandType
<1>7. S \in Good
  BY <1>5, <1>6, SubsetInduction
<1> QED  BY <1>4, <1>7 DEF Good

-----------------------------------------------------------------------------
(***************************************************************************)
(* When a reservation is approved.                                         *)
(***************************************************************************)
\* What the tracker's state is made of.
TrackerTypes ==
    /\ IsNormal(total_resources) /\ DOMAIN total_resources \subseteq AllInstances
    /\ stage \in [Servables -> {"new", "reserved", "loaded"}]
    /\ estimate = [s \in Servables |-> estimate[s]]
    /\ \A s \in Servables :
          /\ IsAllocation(estimate[s])
          /\ stage[s] # "new" => VerifyValidity(estimate[s])
          /\ stage[s] = "loaded" => DOMAIN estimate[s] \subseteq AllInstances

LEMMA UsingValid ==
    ASSUME TrackerTypes
    PROVE  Using \in SUBSET Servables /\ AreValid(estimate, Using)
BY DEF TrackerTypes, Using, AreValid

LEMMA UsedEffect ==
    ASSUME TrackerTypes
    PROVE  /\ IsNormal(RecomputeUsedResources(Using))
           /\ \A r : GetQuantity(r, RecomputeUsedResources(Using)) = DemandOf(estimate, Using, r)
<1>1. RecomputeUsedResources(Using) = Combined(estimate, Using)
  BY UsingValid, RecomputedIsCombined DEF RecomputeUsedResources
<1> QED  BY <1>1, UsingValid, CombinedEffect

\* The test in ReserveResources(), device by device.
LEMMA FitsEffect ==
    ASSUME TrackerTypes, NEW s \in Servables, VerifyValidity(estimate[s])
    PROVE  Fits(s, RecomputeUsedResources(Using)) <=>
           /\ \A b \in AllInstances :
                  Part(estimate, s, b) + (DemandOf(estimate, Using, b) + DemandOf(estimate, Using, Open(b[1])))
                      <= GetQuantity(b, total_resources)
           /\ \A d \in Devices : Open(d) \in DOMAIN Normalize(estimate[s]) =>
                  \E i \in InstancesOf(d) :
                      Part(estimate, s, Open(d)) + (Part(estimate, s, <<d, i>>)
                          + (DemandOf(estimate, Using, <<d, i>>) + DemandOf(estimate, Using, Open(d))))
                          <= GetQuantity(<<d, i>>, total_resources)
<1> DEFINE a == Normalize(estimate[s])
           used == RecomputeUsedResources(Using)
           over == OverbindNormalized(used)
           sum == AddNormalized(a, over)
           t == total_resources
<1>1. IsNormal(a)
  BY NormalizeIsNormal DEF TrackerTypes
<1>2. IsNormal(used) /\ \A r : GetQuantity(r, used) = DemandOf(estimate, Using, r)
  BY UsedEffect
<1>3. Normalize(used) = used
  BY <1>2, NormalIsNormalized
<1> HIDE DEF used
<1>4. /\ IsNormal(over) /\ DOMAIN over \subseteq AllInstances
      /\ \A b \in AllInstances : GetQuantity(b, over) = GetQuantity(b, used) + GetQuantity(Open(b[1]), used)
  BY <1>2, OverbindEffect
<1>5. Overbind(used) = over /\ Normalize(over) = over
  BY <1>3, <1>4, NormalIsNormalized DEF Overbind
<1>6. Add(estimate[s], over) = sum
  BY <1>5 DEF Add
<1> HIDE DEF over
<1>7. /\ IsNormal(sum) /\ DOMAIN sum = DOMAIN a \cup DOMAIN over
      /\ \A r : GetQuantity(r, sum) = GetQuantity(r, a) + GetQuantity(r, over)
  BY <1>1, <1>4, AddEffect
<1>8. IsNormal(t) /\ DOMAIN t \subseteq AllInstances
  BY DEF TrackerTypes
<1>9. Fits(s, used) <=> LessThanOrEqualNormalized(sum, t)
  BY <1>5, <1>6, <1>7, <1>8, NormalIsNormalized DEF Fits, LessThanOrEqual
<1> HIDE DEF sum
<1>10. \A b \in AllInstances : GetQuantity(b, sum) =
           Part(estimate, s, b) + (DemandOf(estimate, Using, b) + DemandOf(estimate, Using, Open(b[1])))
  BY <1>2, <1>4, <1>7 DEF Part
<1>11. ASSUME NEW d \in Devices
       PROVE  /\ Open(d) \in DOMAIN sum <=> Open(d) \in DOMAIN a
              /\ GetQuantity(Open(d), sum) = Part(estimate, s, Open(d))
  <2>1. Open(d) \notin DOMAIN over
    BY <1>4, OpenEffect, InstanceEffect
  <2>2. GetQuantity(Open(d), over) = 0 /\ GetQuantity(Open(d), a) \in Nat
    BY <1>1, <2>1, NormalQuantity DEF GetQuantity
  <2>3. GetQuantity(Open(d), sum) = GetQuantity(Open(d), a) + 0
    BY <1>7, <2>2
  <2>4. GetQuantity(Open(d), sum) = GetQuantity(Open(d), a)
    BY <2>2, <2>3, SMTT(30)
  <2> QED  BY <1>7, <2>1, <2>4 DEF Part
<1>12. ASSUME NEW d \in Devices, NEW i \in InstancesOf(d)
       PROVE  GetQuantity(<<d, i>>, sum) = Part(estimate, s, <<d, i>>)
                  + (DemandOf(estimate, Using, <<d, i>>) + DemandOf(estimate, Using, Open(d)))
  <2>1. <<d, i>> \in AllInstances /\ <<d, i>>[1] = d
    BY InstanceIs
  <2> QED  BY <1>10, <2>1
<1>13. LessThanOrEqualNormalized(sum, t) <=>
           /\ \A b \in AllInstances : GetQuantity(b, sum) <= GetQuantity(b, t)
           /\ \A d \in Devices : Open(d) \in DOMAIN sum =>
                  \E i \in InstancesOf(d) :
                      GetQuantity(Open(d), sum) + GetQuantity(<<d, i>>, sum) <= GetQuantity(<<d, i>>, t)
  BY <1>7, <1>8, LessThanOrEqualEffect
<1> QED  BY <1>9, <1>10, <1>11, <1>12, <1>13 DEF used

\* The resources of an allocation for which an instance has to be chosen.
OpenOf(a) == {r \in DOMAIN a : ~IsBoundTo(r)}

LEMMA OpenOfEffect ==
    ASSUME NEW a, IsNormal(a)
    PROVE  /\ \A r \in OpenOf(a) : r[1] \in Devices /\ r = Open(r[1])
           /\ \A d \in Devices : Open(d) \in OpenOf(a) <=> Open(d) \in DOMAIN a
BY PlaceCases, OpenEffect DEF OpenOf, IsNormal

\* What a servable takes of an instance is at most what is bound to the instance
\* and what is open.
LEMMA DemandEffect ==
    ASSUME NEW a, IsNormal(a), NEW f \in Bindings(a), NEW b \in AllInstances
    PROVE  /\ Demand(a, f, b) \in Nat
           /\ GetQuantity(b, a) <= Demand(a, f, b)
           /\ Demand(a, f, b) <= GetQuantity(b, a) + GetQuantity(Open(b[1]), a)
           /\ Demand(a, f, b) = IF Open(b[1]) \in DOMAIN a /\ f[Open(b[1])] = b[2]
                                THEN GetQuantity(b, a) + GetQuantity(Open(b[1]), a)
                                ELSE GetQuantity(b, a)
<1> DEFINE o == Open(b[1])
           there == o \in DOMAIN f /\ f[o] = b[2]
<1>1. GetQuantity(b, a) \in Nat /\ GetQuantity(o, a) \in Nat
  BY NormalQuantity
<1>2. DOMAIN f = OpenOf(a)
  BY DEF Bindings, OpenOf
<1>3. b[1] \in Devices
  BY InstanceEffect
<1>4. o \in DOMAIN f <=> o \in DOMAIN a
  BY <1>2, <1>3, OpenOfEffect
<1>5. Demand(a, f, b) = GetQuantity(b, a) + (IF there THEN GetQuantity(o, a) ELSE 0)
  BY <1>4 DEF Demand, Open, GetQuantity
<1> HIDE DEF o
<1>6. CASE there
  <2>1. Demand(a, f, b) = GetQuantity(b, a) + GetQuantity(o, a)
    BY <1>5, <1>6
  <2>2. o \in DOMAIN a /\ f[o] = b[2]
    BY <1>4, <1>6
  <2> QED  BY <1>1, <2>1, <2>2, SMTT(30) DEF o
<1>7. CASE ~there
  <2>1. Demand(a, f, b) = GetQuantity(b, a) + 0
    BY <1>5, <1>7
  <2>2. ~(o \in DOMAIN a /\ f[o] = b[2])
    BY <1>4, <1>7
  <2> QED  BY <1>1, <2>1, <2>2, SMTT(30) DEF o
<1> QED  BY <1>6, <1>7

\* Bindings that choose an instance for each device.
Put(a, c) == [r \in OpenOf(a) |-> c[r[1]]]

LEMMA PutEffect ==
    ASSUME NEW a, IsNormal(a), NEW c, \A d \in Devices : c[d] \in InstancesOf(d)
    PROVE  /\ Put(a, c) \in Bindings(a)
           /\ \A d \in Devices : Open(d) \in DOMAIN a => Put(a, c)[Open(d)] = c[d]
<1> DEFINE f == Put(a, c)
           instances == UNION {InstancesOf(r[1]) : r \in OpenOf(a)}
<1>1. \A r \in OpenOf(a) : c[r[1]] \in InstancesOf(r[1])
  BY OpenOfEffect
<1>2. \A r \in OpenOf(a) : c[r[1]] \in instances
  BY <1>1
<1>3. f = [r \in OpenOf(a) |-> c[r[1]]]
  BY DEF Put
<1> HIDE DEF instances, f
<1>4. f \in [OpenOf(a) -> instances] /\ \A r \in OpenOf(a) : f[r] \in InstancesOf(r[1])
  BY <1>1, <1>2, <1>3
<1>5. f \in Bindings(a)
  BY <1>4 DEF Bindings, OpenOf, instances
<1>6. \A d \in Devices : Open(d) \in DOMAIN a => f[Open(d)] = c[d]
  BY <1>3, OpenOfEffect, OpenEffect
<1> QED  BY <1>5, <1>6 DEF f

LEMMA SomeInstance ==
    ASSUME NEW d \in Devices
    PROVE  0 \in InstancesOf(d)
BY AllocationsAssumption, SMTT(30) DEF InstancesOf

\* Servables take at most what is bound to an instance and all that is open.
LEMMA TotalAtMost ==
    ASSUME TrackerTypes, NEW p \in Placements(Using), NEW b \in AllInstances
    PROVE  /\ Total(Using, p, b) \in Nat
           /\ Total(Using, p, b) <= DemandOf(estimate, Using, b) + DemandOf(estimate, Using, Open(b[1]))
<1> DEFINE h == [s \in Using |-> Demand(Normalize(estimate[s]), p[s], b)]
           f == [s \in Servables |-> Part(estimate, s, b)]
           g == [s \in Servables |-> Part(estimate, s, Open(b[1]))]
<1>1. IsFiniteSet(Using) /\ Using \in SUBSET Servables /\ AreValid(estimate, Using)
  BY UsingValid, DemandType
<1>2. ASSUME NEW s \in Using
      PROVE  /\ f[s] \in Nat /\ g[s] \in Nat /\ h[s] \in Nat
             /\ h[s] <= f[s] + g[s]
  <2>1. IsNormal(Normalize(estimate[s])) /\ p[s] \in Bindings(Normalize(estimate[s]))
    BY <1>1, PartEffect DEF Placements
  <2>2. f[s] = Part(estimate, s, b) /\ g[s] = Part(estimate, s, Open(b[1]))
        /\ h[s] = Demand(Normalize(estimate[s]), p[s], b)
    BY <1>1
  <2> HIDE DEF f, g, h
  <2>3. h[s] \in Nat /\ h[s] <= f[s] + g[s]
    BY <2>1, <2>2, DemandEffect DEF Part
  <2> QED  BY <1>1, <2>2, <2>3, PartEffect
<1>3. /\ Total(Using, p, b) = SumFunctionOnSet(h, Using)
      /\ DemandOf(estimate, Using, b) = SumFunctionOnSet(f, Using)
      /\ DemandOf(estimate, Using, Open(b[1])) = SumFunctionOnSet(g, Using)
  BY DEF Total, DemandOf
<1> HIDE DEF f, g, h
<1>4. SumFunctionOnSet(h, Using) \in Nat
  BY <1>1, <1>2, SumType
<1>5. SumFunctionOnSet(h, Using) <= SumFunctionOnSet(f, Using) + SumFunctionOnSet(g, Using)
  BY <1>1, <1>2, SumsCompare
<1> QED  BY <1>3, <1>4, <1>5

\* All that is open may end up on one instance.
LEMMA TotalCanBe ==
    ASSUME TrackerTypes, NEW b \in AllInstances
    PROVE  \E p \in Placements(Using) :
               DemandOf(estimate, Using, b) + DemandOf(estimate, Using, Open(b[1])) <= Total(Using, p, b)
<1> DEFINE c == [d \in Devices |-> IF d = b[1] THEN b[2] ELSE 0]
           p == [s \in Using |-> Put(Normalize(estimate[s]), c)]
           h == [s \in Using |-> Demand(Normalize(estimate[s]), p[s], b)]
           f == [s \in Servables |-> Part(estimate, s, b)]
           g == [s \in Servables |-> Part(estimate, s, Open(b[1]))]
           All == UNION {Bindings(Normalize(estimate[s])) : s \in Using}
<1>1. IsFiniteSet(Using) /\ Using \in SUBSET Servables /\ AreValid(estimate, Using)
  BY UsingValid, DemandType
<1>2. b[1] \in Devices /\ b[2] \in InstancesOf(b[1])
  BY InstanceEffect
<1>3. (\A d \in Devices : c[d] \in InstancesOf(d)) /\ c[b[1]] = b[2]
  BY <1>2, SomeInstance
<1> HIDE DEF c
<1>4. ASSUME NEW s \in Using
      PROVE  /\ IsNormal(Normalize(estimate[s]))
             /\ p[s] \in Bindings(Normalize(estimate[s])) /\ p[s] \in All
             /\ Open(b[1]) \in DOMAIN Normalize(estimate[s]) => p[s][Open(b[1])] = b[2]
  <2> DEFINE a == Normalize(estimate[s])
  <2>1. IsNormal(a) /\ p[s] = Put(a, c)
    BY <1>1, PartEffect
  <2>2. p[s] \in Bindings(a) => p[s] \in All
    OBVIOUS
  <2> HIDE DEF a, p, All
  <2>3. /\ Put(a, c) \in Bindings(a)
        /\ \A d \in Devices : Open(d) \in DOMAIN a => Put(a, c)[Open(d)] = c[d]
    <3>1. \A d \in Devices : c[d] \in InstancesOf(d)
      BY <1>3
    <3> QED  BY <2>1, <3>1, PutEffect
  <2> QED  BY <1>2, <1>3, <2>1, <2>2, <2>3 DEF a
<1>5. p \in Placements(Using)
  <2> HIDE DEF All
  <2>1. p \in [Using -> All]
    BY <1>4
  <2> HIDE DEF p
  <2> QED  BY <1>4, <2>1 DEF Placements, All
<1> HIDE DEF p
<1>6. ASSUME NEW s \in Using
      PROVE  /\ f[s] \in Nat /\ g[s] \in Nat /\ h[s] \in Nat
             /\ f[s] + g[s] <= h[s]
  <2> DEFINE a == Normalize(estimate[s])
  <2>1. /\ f[s] = GetQuantity(b, a) /\ g[s] = GetQuantity(Open(b[1]), a)
        /\ h[s] = Demand(a, p[s], b)
    BY <1>1 DEF Part
  <2>2. /\ IsNormal(a) /\ p[s] \in Bindings(a)
        /\ Open(b[1]) \in DOMAIN a => p[s][Open(b[1])] = b[2]
    BY <1>4
  <2> HIDE DEF f, g, h, a
  <2>3. f[s] \in Nat /\ g[s] \in Nat /\ (Open(b[1]) \in DOMAIN a <=> g[s] # 0)
    BY <2>1, <2>2, NormalQuantity
  <2>4. h[s] \in Nat /\ f[s] <= h[s] /\ (Open(b[1]) \in DOMAIN a => h[s] = f[s] + g[s])
    <3>1. /\ Demand(a, p[s], b) \in Nat /\ GetQuantity(b, a) <= Demand(a, p[s], b)
          /\ Demand(a, p[s], b) = IF Open(b[1]) \in DOMAIN a /\ p[s][Open(b[1])] = b[2]
                                  THEN GetQuantity(b, a) + GetQuantity(Open(b[1]), a)
                                  ELSE GetQuantity(b, a)
      BY <2>2, DemandEffect
    <3> QED  BY <2>1, <2>2, <3>1
  <2> QED  BY <2>3, <2>4, SMTT(30)
<1>7. /\ Total(Using, p, b) = SumFunctionOnSet(h, Using)
      /\ DemandOf(estimate, Using, b) = SumFunctionOnSet(f, Using)
      /\ DemandOf(estimate, Using, Open(b[1])) = SumFunctionOnSet(g, Using)
  BY DEF Total, DemandOf
<1> HIDE DEF f, g, h
<1>8. SumFunctionOnSet(f, Using) + SumFunctionOnSet(g, Using) <= SumFunctionOnSet(h, Using)
  BY <1>1, <1>6, SumsCompare
<1> QED  BY <1>5, <1>7, <1>8

\* Bound and open demands together, in one number for each instance.
LEMMA FitsIsGuaranteed ==
    ASSUME TrackerTypes, NEW s \in Servables, VerifyValidity(estimate[s])
    PROVE  Fits(s, RecomputeUsedResources(Using)) <=> Guaranteed(s)
<1> DEFINE a == Normalize(estimate[s])
           taken(b) == DemandOf(estimate, Using, b) + DemandOf(estimate, Using, Open(b[1]))
           Room(b, q) == q + taken(b) <= GetQuantity(b, total_resources)
<1>1. IsNormal(a) /\ IsNormal(total_resources)
  BY NormalizeIsNormal DEF TrackerTypes
<1>2. \A b : taken(b) \in Nat /\ GetQuantity(b, a) \in Nat /\ GetQuantity(b, total_resources) \in Nat
  <2>1. \A b : DemandOf(estimate, Using, b) \in Nat
    BY UsingValid, DemandType
  <2>2. ASSUME NEW b PROVE taken(b) \in Nat
    BY <2>1, SMTT(30)
  <2> QED  BY <1>1, <2>2, NormalQuantity
<1>3. Fits(s, RecomputeUsedResources(Using)) <=>
        /\ \A b \in AllInstances : Room(b, GetQuantity(b, a))
        /\ \A d \in Devices : Open(d) \in DOMAIN a =>
               \E i \in InstancesOf(d) : Room(<<d, i>>, GetQuantity(<<d, i>>, a) + GetQuantity(Open(d), a))
  <2>1. ASSUME NEW d \in Devices, NEW i \in InstancesOf(d)
        PROVE  Room(<<d, i>>, GetQuantity(<<d, i>>, a) + GetQuantity(Open(d), a)) <=>
               Part(estimate, s, Open(d)) + (Part(estimate, s, <<d, i>>)
                   + (DemandOf(estimate, Using, <<d, i>>) + DemandOf(estimate, Using, Open(d))))
                   <= GetQuantity(<<d, i>>, total_resources)
    <3>1. taken(<<d, i>>) = DemandOf(estimate, Using, <<d, i>>) + DemandOf(estimate, Using, Open(d))
      BY InstanceIs
    <3>2. Part(estimate, s, Open(d)) = GetQuantity(Open(d), a)
          /\ Part(estimate, s, <<d, i>>) = GetQuantity(<<d, i>>, a)
      BY DEF Part
    <3> HIDE DEF a, taken
    <3>3. (GetQuantity(<<d, i>>, a) + GetQuantity(Open(d), a)) + taken(<<d, i>>) =
          GetQuantity(Open(d), a) + (GetQuantity(<<d, i>>, a) + taken(<<d, i>>))
      BY <1>2, SMTT(30)
    <3> QED  BY <3>1, <3>2, <3>3
  <2>2. \A b \in AllInstances : Room(b, GetQuantity(b, a)) <=>
            Part(estimate, s, b) + (DemandOf(estimate, Using, b) + DemandOf(estimate, Using, Open(b[1])))
                <= GetQuantity(b, total_resources)
    BY DEF Part
  <2> HIDE DEF Room
  <2> QED  BY <2>1, <2>2, FitsEffect
<1>4. Guaranteed(s) <=> \E f \in Bindings(a) : \A b \in AllInstances : Room(b, Demand(a, f, b))
  <2>1. ASSUME NEW f \in Bindings(a), NEW b \in AllInstances
        PROVE  Room(b, Demand(a, f, b)) <=>
               \A p \in Placements(Using) :
                   Demand(a, f, b) + Total(Using, p, b) <= GetQuantity(b, total_resources)
    <3>1. Demand(a, f, b) \in Nat
      BY <1>1, DemandEffect
    <3>2. ASSUME NEW p \in Placements(Using)
          PROVE  Total(Using, p, b) \in Nat /\ Total(Using, p, b) <= taken(b)
      BY TotalAtMost
    <3>3. PICK p \in Placements(Using) : taken(b) <= Total(Using, p, b)
      BY TotalCanBe
    <3> HIDE DEF a, taken
    <3>4. ASSUME Room(b, Demand(a, f, b)), NEW q \in Placements(Using)
          PROVE  Demand(a, f, b) + Total(Using, q, b) <= GetQuantity(b, total_resources)
      BY <1>2, <3>1, <3>2, <3>4, SMTT(30)
    <3>5. ASSUME Demand(a, f, b) + Total(Using, p, b) <= GetQuantity(b, total_resources)
          PROVE  Room(b, Demand(a, f, b))
      BY <1>2, <3>1, <3>2, <3>3, <3>5, SMTT(30)
    <3> QED  BY <3>4, <3>5
  <2> HIDE DEF Room
  <2> QED  BY <2>1 DEF Guaranteed
<1> HIDE DEF a, taken
<1>5. ASSUME \A b \in AllInstances : Room(b, GetQuantity(b, a)),
             \A d \in Devices : Open(d) \in DOMAIN a =>
                 \E i \in InstancesOf(d) : Room(<<d, i>>, GetQuantity(<<d, i>>, a) + GetQuantity(Open(d), a))
      PROVE  \E f \in Bindings(a) : \A b \in AllInstances : Room(b, Demand(a, f, b))
  <2> DEFINE Best(d, i) == Open(d) \in DOMAIN a =>
                               Room(<<d, i>>, GetQuantity(<<d, i>>, a) + GetQuantity(Open(d), a))
             c == [d \in Devices |-> CHOOSE i \in InstancesOf(d) : Best(d, i)]
  <2> HIDE DEF Room
  <2>1. ASSUME NEW d \in Devices PROVE c[d] \in InstancesOf(d) /\ Best(d, c[d])
    <3>1. \E i \in InstancesOf(d) : Best(d, i)
      BY <1>5, SomeInstance
    <3>2. c[d] = CHOOSE i \in InstancesOf(d) : Best(d, i)
      OBVIOUS
    <3> HIDE DEF c, Best
    <3> QED  BY <3>1, <3>2
  <2> HIDE DEF c
  <2>2. PICK f \in Bindings(a) : \A d \in Devices : Open(d) \in DOMAIN a => f[Open(d)] = c[d]
    <3>1. /\ Put(a, c) \in Bindings(a)
          /\ \A d \in Devices : Open(d) \in DOMAIN a => Put(a, c)[Open(d)] = c[d]
      BY <1>1, <2>1, PutEffect
    <3> QED  BY <3>1
  <2>3. ASSUME NEW b \in AllInstances PROVE Room(b, Demand(a, f, b))
    <3>1. b[1] \in Devices /\ b = <<b[1], b[2]>>
      BY InstanceEffect
    <3>2. CASE Open(b[1]) \in DOMAIN a /\ f[Open(b[1])] = b[2]
      <4>1. Demand(a, f, b) = GetQuantity(b, a) + GetQuantity(Open(b[1]), a)
        BY <1>1, <3>2, DemandEffect
      <4>2. c[b[1]] = b[2]
        BY <2>2, <3>1, <3>2
      <4>3. Room(<<b[1], b[2]>>, GetQuantity(<<b[1], b[2]>>, a) + GetQuantity(Open(b[1]), a))
        BY <2>1, <3>1, <3>2, <4>2
      <4> QED  BY <3>1, <4>1, <4>3
    <3>3. CASE ~(Open(b[1]) \in DOMAIN a /\ f[Open(b[1])] = b[2])
      <4>1. Demand(a, f, b) = GetQuantity(b, a)
        BY <1>1, <3>3, DemandEffect
      <4> QED  BY <1>5, <4>1
    <3> QED  BY <3>2, <3>3
  <2> QED  BY <2>3
<1>6. ASSUME NEW f \in Bindings(a), \A b \in AllInstances : Room(b, Demand(a, f, b))
      PROVE  /\ \A b \in AllInstances : Room(b, GetQuantity(b, a))
             /\ \A d \in Devices : Open(d) \in DOMAIN a =>
                    \E i \in InstancesOf(d) : Room(<<d, i>>, GetQuantity(<<d, i>>, a) + GetQuantity(Open(d), a))
  <2>1. ASSUME NEW b \in AllInstances PROVE Room(b, GetQuantity(b, a))
    <3>1. Demand(a, f, b) \in Nat /\ GetQuantity(b, a) <= Demand(a, f, b)
      BY <1>1, DemandEffect
    <3> QED  BY <1>2, <1>6, <3>1, SMTT(30)
  <2> HIDE DEF Room
  <2>2. ASSUME NEW d \in Devices, Open(d) \in DOMAIN a
        PROVE  f[Open(d)] \in InstancesOf(d)
               /\ Room(<<d, f[Open(d)]>>, GetQuantity(<<d, f[Open(d)]>>, a) + GetQuantity(Open(d), a))
    <3>1. PICK i : i = f[Open(d)]
      OBVIOUS
    <3>2. Open(d) \in OpenOf(a)
      BY <1>1, <2>2, OpenOfEffect
    <3>3. i \in InstancesOf(d)
      BY <3>1, <3>2, OpenEffect DEF Bindings, OpenOf
    <3>4. PICK b \in AllInstances : b = <<d, i>> /\ b[1] = d /\ b[2] = i
      <4>1. <<d, i>> \in AllInstances /\ <<d, i>>[1] = d /\ <<d, i>>[2] = i
        BY <3>3, InstanceIs
      <4> QED  BY <4>1
    <3>5. Demand(a, f, b) = GetQuantity(b, a) + GetQuantity(Open(d), a)
      BY <1>1, <2>2, <3>1, <3>4, DemandEffect
    <3> QED  BY <1>6, <3>1, <3>3, <3>4, <3>5
  <2> QED  BY <2>1, <2>2
<1> QED  BY <1>3, <1>4, <1>5, <1>6

-----------------------------------------------------------------------------
(***************************************************************************)
(* Reserved resources.                                                     *)
(***************************************************************************)
\* The instances have room for what is bound to them, and some instance of each
\* device has room for all that is open besides.
Roomy(est, S, t) ==
    /\ \A b \in AllInstances : DemandOf(est, S, b) <= GetQuantity(b, t)
    /\ \A d \in Devices : \E i \in InstancesOf(d) :
           DemandOf(est, S, Open(d)) + DemandOf(est, S, <<d, i>>) <= GetQuantity(<<d, i>>, t)

TrackerInv ==
    /\ TrackerTypes
    /\ Roomy(estimate, Using, total_resources)
    /\ LessThanOrEqual(used_resources, total_resources)

LEMMA RoomyIsLess ==
    ASSUME NEW est, NEW S, NEW t, IsNormal(t), DOMAIN t \subseteq AllInstances, Roomy(est, S, t),
           NEW x, IsNormal(x), \A r : GetQuantity(r, x) = DemandOf(est, S, r)
    PROVE  LessThanOrEqual(x, t)
<1>1. LessThanOrEqual(x, t) <=> LessThanOrEqualNormalized(x, t)
  BY NormalIsNormalized DEF LessThanOrEqual
<1>2. LessThanOrEqualNormalized(x, t) <=>
           /\ \A b \in AllInstances : GetQuantity(b, x) <= GetQuantity(b, t)
           /\ \A d \in Devices : Open(d) \in DOMAIN x =>
                  \E i \in InstancesOf(d) :
                      GetQuantity(Open(d), x) + GetQuantity(<<d, i>>, x) <= GetQuantity(<<d, i>>, t)
  BY LessThanOrEqualEffect
<1>3. \A b \in AllInstances : GetQuantity(b, x) <= GetQuantity(b, t)
  BY DEF Roomy
<1>4. ASSUME NEW d \in Devices
      PROVE  \E i \in InstancesOf(d) :
                 GetQuantity(Open(d), x) + GetQuantity(<<d, i>>, x) <= GetQuantity(<<d, i>>, t)
  <2>1. PICK i \in InstancesOf(d) :
            DemandOf(est, S, Open(d)) + DemandOf(est, S, <<d, i>>) <= GetQuantity(<<d, i>>, t)
    BY DEF Roomy
  <2>2. GetQuantity(Open(d), x) + GetQuantity(<<d, i>>, x) <= GetQuantity(<<d, i>>, t)
    BY <2>1, SMTT(30)
  <2> QED  BY <2>2
<1> QED  BY <1>1, <1>2, <1>3, <1>4

\* Room is kept when demands do not grow.
LEMMA RoomyStays ==
    ASSUME NEW est, NEW S, NEW new, NEW T, NEW t, IsNormal(t), Roomy(est, S, t),
           \A r : /\ DemandOf(est, S, r) \in Nat /\ DemandOf(new, T, r) \in Nat
                  /\ DemandOf(new, T, r) <= DemandOf(est, S, r)
    PROVE  Roomy(new, T, t)
<1>1. \A r : GetQuantity(r, t) \in Nat
  BY NormalQuantity
<1>2. ASSUME NEW b \in AllInstances PROVE DemandOf(new, T, b) <= GetQuantity(b, t)
  <2>1. DemandOf(est, S, b) <= GetQuantity(b, t)
    BY DEF Roomy
  <2> QED  BY <1>1, <2>1, SMTT(30)
<1>3. ASSUME NEW d \in Devices
      PROVE  \E i \in InstancesOf(d) :
                 DemandOf(new, T, Open(d)) + DemandOf(new, T, <<d, i>>) <= GetQuantity(<<d, i>>, t)
  <2>1. PICK i \in InstancesOf(d) :
            DemandOf(est, S, Open(d)) + DemandOf(est, S, <<d, i>>) <= GetQuantity(<<d, i>>, t)
    BY DEF Roomy
  <2>2. DemandOf(new, T, Open(d)) + DemandOf(new, T, <<d, i>>) <= GetQuantity(<<d, i>>, t)
    BY <1>1, <2>1, SMTT(30)
  <2> QED  BY <2>2
<1> QED  BY <1>2, <1>3 DEF Roomy

LEMMA BoundDemandIs ==
    ASSUME NEW S, NEW b
    PROVE  BoundDemand(S, b) = DemandOf(estimate, S, b)
BY DEF BoundDemand, DemandOf, Part

\* A servable with reserved resources finds room for them.
LEMMA RoomToLoad ==
    ASSUME TrackerInv, NEW s \in Using
    PROVE  RoomyBindings(s) # {}
<1> DEFINE a == Normalize(estimate[s])
           t == total_resources
           others == Using \ {s}
           Best(d, i) == DemandOf(estimate, Using, Open(d)) + DemandOf(estimate, Using, <<d, i>>)
                             <= GetQuantity(<<d, i>>, t)
           c == [d \in Devices |-> CHOOSE i \in InstancesOf(d) : Best(d, i)]
<1>1. TrackerTypes /\ Roomy(estimate, Using, t) /\ IsNormal(t)
  BY DEF TrackerInv, TrackerTypes
<1>2. Using \in SUBSET Servables /\ AreValid(estimate, Using) /\ IsNormal(a)
  BY <1>1, UsingValid, PartEffect
<1>3. \A r : /\ DemandOf(estimate, Using, r) = GetQuantity(r, a) + DemandOf(estimate, others, r)
             /\ GetQuantity(r, a) \in Nat /\ DemandOf(estimate, others, r) \in Nat
             /\ GetQuantity(r, t) \in Nat
  BY <1>1, <1>2, DemandRemove, NormalQuantity, SMTT(30) DEF Part
<1>4. ASSUME NEW d \in Devices PROVE c[d] \in InstancesOf(d) /\ Best(d, c[d])
  <2>1. \E i \in InstancesOf(d) : Best(d, i)
    BY <1>1 DEF Roomy
  <2>2. c[d] = CHOOSE i \in InstancesOf(d) : Best(d, i)
    OBVIOUS
  <2> HIDE DEF c, Best
  <2> QED  BY <2>1, <2>2
<1> HIDE DEF c, a, others, Best
<1>5. PICK f \in Bindings(a) : \A d \in Devices : Open(d) \in DOMAIN a => f[Open(d)] = c[d]
  <2>1. /\ Put(a, c) \in Bindings(a)
        /\ \A d \in Devices : Open(d) \in DOMAIN a => Put(a, c)[Open(d)] = c[d]
    BY <1>2, <1>4, PutEffect
  <2> QED  BY <2>1
<1>6. ASSUME NEW b \in AllInstances
      PROVE  Demand(a, f, b) + DemandOf(estimate, others, b) <= GetQuantity(b, t)
  <2>1. b[1] \in Devices /\ b = <<b[1], b[2]>>
    BY InstanceEffect
  <2>2. CASE Open(b[1]) \in DOMAIN a /\ f[Open(b[1])] = b[2]
    <3>1. Demand(a, f, b) = GetQuantity(b, a) + GetQuantity(Open(b[1]), a)
      BY <1>2, <2>2, DemandEffect
    <3>2. c[b[1]] = b[2]
      BY <1>5, <2>1, <2>2
    <3>3. DemandOf(estimate, Using, Open(b[1])) + DemandOf(estimate, Using, b) <= GetQuantity(b, t)
      BY <1>4, <2>1, <3>2 DEF Best
    <3> QED  BY <1>3, <3>1, <3>3, SMTT(30)
  <2>3. CASE ~(Open(b[1]) \in DOMAIN a /\ f[Open(b[1])] = b[2])
    <3>1. Demand(a, f, b) = GetQuantity(b, a)
      BY <1>2, <2>3, DemandEffect
    <3>2. DemandOf(estimate, Using, b) <= GetQuantity(b, t)
      BY <1>1 DEF Roomy
    <3> QED  BY <1>3, <3>1, <3>2
  <2> QED  BY <2>2, <2>3
<1>7. f \in RoomyBindings(s)
  BY <1>6, BoundDemandIs DEF RoomyBindings, a, others
<1> QED  BY <1>7

LEMMA InitTracker == TrackerInit => TrackerInv
<1> SUFFICES ASSUME TrackerInit PROVE TrackerInv
  OBVIOUS
<1>1. PICK a \in Totals : VerifyValidity(a) /\ IsBound(a) /\ total_resources = Normalize(a)
  BY DEF TrackerInit, Create
<1>2. IsAllocation(a)
  BY AllocationsAssumption DEF IsAllocation
<1>3. IsNormal(total_resources) /\ DOMAIN total_resources \subseteq AllInstances
  <2>1. IsNormal(total_resources)
    BY <1>1, <1>2, NormalizeIsNormal
  <2> QED  BY <1>1, <2>1, PlaceCases DEF IsBound, IsNormal
<1>4. TrackerTypes
  <2>1. estimate \in [Servables -> Estimates] /\ stage = [s \in Servables |-> "new"]
    BY DEF TrackerInit
  <2>2. \A s \in Servables : IsAllocation(estimate[s])
    BY <2>1, AllocationsAssumption DEF IsAllocation
  <2> QED  BY <1>3, <2>1, <2>2 DEF TrackerTypes
<1>5. Using = {}
  BY DEF TrackerInit, Using
<1>6. \A r : DemandOf(estimate, Using, r) = 0 /\ GetQuantity(r, total_resources) \in Nat
  BY <1>3, <1>4, <1>5, UsingValid, DemandType, NormalQuantity
<1>7. Roomy(estimate, Using, total_resources)
  <2>1. \A r : DemandOf(estimate, Using, r) <= GetQuantity(r, total_resources)
    BY <1>6, SMTT(30)
  <2>2. \A q, r : DemandOf(estimate, Using, q) + DemandOf(estimate, Using, r) <= GetQuantity(r, total_resources)
    BY <1>6, SMTT(30)
  <2> QED  BY <2>1, <2>2, SomeInstance DEF Roomy
<1>8. IsNormal(NoResources) /\ \A r : GetQuantity(r, NoResources) = 0
  BY DEF IsNormal, NoResources, GetQuantity
<1>9. LessThanOrEqual(used_resources, total_resources)
  <2>1. used_resources = NoResources
    BY DEF TrackerInit
  <2> QED  BY <1>3, <1>6, <1>7, <1>8, <2>1, RoomyIsLess
<1> QED  BY <1>4, <1>7, <1>9 DEF TrackerInv

LEMMA ReserveKeeps ==
    ASSUME TrackerInv, NEW s \in Servables, ReserveResources(s)
    PROVE  TrackerInv'
<1> DEFINE used == RecomputeUsedResources(Using)
           a == Normalize(estimate[s])
           t == total_resources
<1>1. /\ TrackerTypes /\ Roomy(estimate, Using, t)
      /\ total_resources' = t /\ estimate' = estimate /\ stage[s] = "new"
      /\ IsNormal(t) /\ DOMAIN t \subseteq AllInstances
  BY DEF TrackerInv, TrackerTypes, ReserveResources
<1>2. /\ Using \in SUBSET Servables /\ AreValid(estimate, Using) /\ IsNormal(used)
      /\ \A r : GetQuantity(r, used) = DemandOf(estimate, Using, r)
  BY <1>1, UsingValid, UsedEffect
<1>3. CASE VerifyValidity(estimate[s]) /\ Fits(s, used)
  <2>1. used_resources' = Add(estimate[s], used) /\ stage' = [stage EXCEPT ![s] = "reserved"]
    BY <1>3 DEF ReserveResources
  <2>2. TrackerTypes'
    BY <1>1, <1>3, <2>1 DEF TrackerTypes
  <2>3. PICK U : U = Using'
    OBVIOUS
  <2>4. U = Using \cup {s} /\ s \notin Using
    BY <1>1, <2>1, <2>3 DEF TrackerTypes, Using
  <2>5. IsNormal(a)
    BY <1>1, <1>3, NormalizeIsNormal DEF TrackerTypes
  <2>6. U \in SUBSET Servables /\ AreValid(estimate, U) /\ U \ {s} = Using /\ s \in U
    BY <1>1, <1>2, <1>3, <2>4 DEF AreValid, TrackerTypes
  <2>7. \A r : /\ DemandOf(estimate, U, r) = Part(estimate, s, r) + DemandOf(estimate, Using, r)
               /\ Part(estimate, s, r) \in Nat /\ DemandOf(estimate, Using, r) \in Nat
               /\ GetQuantity(r, t) \in Nat
    <3>1. ASSUME NEW r PROVE /\ DemandOf(estimate, U, r) = Part(estimate, s, r) + DemandOf(estimate, U \ {s}, r)
                             /\ Part(estimate, s, r) \in Nat /\ DemandOf(estimate, U \ {s}, r) \in Nat
      BY <2>6, DemandRemove, SMTT(30)
    <3> QED  BY <1>1, <2>6, <3>1, NormalQuantity
  <2>8. Roomy(estimate, U, t)
    <3>1. /\ \A b \in AllInstances :
                 Part(estimate, s, b) + (DemandOf(estimate, Using, b) + DemandOf(estimate, Using, Open(b[1])))
                     <= GetQuantity(b, t)
          /\ \A d \in Devices : Open(d) \in DOMAIN a =>
                 \E i \in InstancesOf(d) :
                     Part(estimate, s, Open(d)) + (Part(estimate, s, <<d, i>>)
                         + (DemandOf(estimate, Using, <<d, i>>) + DemandOf(estimate, Using, Open(d))))
                         <= GetQuantity(<<d, i>>, t)
      BY <1>1, <1>3, FitsEffect
    <3>2. ASSUME NEW b \in AllInstances PROVE DemandOf(estimate, U, b) <= GetQuantity(b, t)
      <4>1. /\ DemandOf(estimate, U, b) = Part(estimate, s, b) + DemandOf(estimate, Using, b)
            /\ Part(estimate, s, b) \in Nat /\ DemandOf(estimate, Using, b) \in Nat
            /\ GetQuantity(b, t) \in Nat /\ DemandOf(estimate, Using, Open(b[1])) \in Nat
        BY <2>7
      <4>2. Part(estimate, s, b) + (DemandOf(estimate, Using, b) + DemandOf(estimate, Using, Open(b[1])))
                <= GetQuantity(b, t)
        BY <3>1
      <4> QED  BY <4>1, <4>2, SMTT(30)
    <3>3. ASSUME NEW d \in Devices
          PROVE  \E i \in InstancesOf(d) :
                     DemandOf(estimate, U, Open(d)) + DemandOf(estimate, U, <<d, i>>)
                         <= GetQuantity(<<d, i>>, t)
      <4>1. PICK i \in InstancesOf(d) :
                Part(estimate, s, Open(d)) + (Part(estimate, s, <<d, i>>)
                    + (DemandOf(estimate, Using, <<d, i>>) + DemandOf(estimate, Using, Open(d))))
                    <= GetQuantity(<<d, i>>, t)
        <5>1. CASE Open(d) \in DOMAIN a
          BY <3>1, <5>1
        <5>2. CASE Open(d) \notin DOMAIN a
          <6>1. PICK b \in AllInstances : b = <<d, 0>> /\ b[1] = d
            BY SomeInstance, InstanceIs
          <6>2. Part(estimate, s, Open(d)) = 0
            BY <5>2 DEF Part, GetQuantity
          <6>3. Part(estimate, s, b) + (DemandOf(estimate, Using, b) + DemandOf(estimate, Using, Open(d)))
                    <= GetQuantity(b, t)
            BY <3>1, <6>1
          <6>4. Part(estimate, s, Open(d)) + (Part(estimate, s, b)
                    + (DemandOf(estimate, Using, b) + DemandOf(estimate, Using, Open(d))))
                    <= GetQuantity(b, t)
            BY <2>7, <6>2, <6>3, SMTT(30)
          <6> QED  BY <6>1, <6>4, SomeInstance
        <5> QED  BY <5>1, <5>2
      <4>2. DemandOf(estimate, U, Open(d)) + DemandOf(estimate, U, <<d, i>>) <= GetQuantity(<<d, i>>, t)
        BY <2>7, <4>1, SMTT(30)
      <4> QED  BY <4>2
    <3> QED  BY <3>2, <3>3 DEF Roomy
  <2>9. LessThanOrEqual(used_resources', t)
    <3>1. Add(estimate[s], used) = AddNormalized(a, used)
      BY <1>2, NormalIsNormalized DEF Add
    <3> HIDE DEF used, a
    <3>2. /\ IsNormal(AddNormalized(a, used))
          /\ \A r : GetQuantity(r, AddNormalized(a, used)) = GetQuantity(r, a) + GetQuantity(r, used)
      BY <1>2, <2>5, AddEffect
    <3>3. \A r : GetQuantity(r, AddNormalized(a, used)) = DemandOf(estimate, U, r)
      BY <1>2, <2>7, <3>2 DEF Part, a
    <3> QED  BY <1>1, <2>1, <2>8, <3>1, <3>2, <3>3, RoomyIsLess
  <2> QED  BY <1>1, <2>2, <2>3, <2>8, <2>9 DEF TrackerInv
<1>4. CASE ~(VerifyValidity(estimate[s]) /\ Fits(s, used))
  <2>1. used_resources' = used /\ stage' = stage
    BY <1>4 DEF ReserveResources
  <2>2. TrackerTypes' /\ Using' = Using
    BY <1>1, <2>1 DEF TrackerTypes, Using
  <2> HIDE DEF used
  <2>3. LessThanOrEqual(used_resources', t)
    BY <1>1, <1>2, <2>1, RoomyIsLess
  <2> QED  BY <1>1, <2>2, <2>3 DEF TrackerInv
<1> QED  BY <1>3, <1>4

\* A servable that changes leaves the demand of the others as it is.
LEMMA OthersDemand ==
    ASSUME TrackerTypes, NEW s \in Servables, \A u \in Servables \ {s} : estimate'[u] = estimate[u], NEW r
    PROVE  /\ DemandOf(estimate', Using \ {s}, r) = DemandOf(estimate, Using \ {s}, r)
           /\ DemandOf(estimate, Using \ {s}, r) \in Nat /\ DemandOf(estimate, Using, r) \in Nat
           /\ DemandOf(estimate, Using \ {s}, r) <= DemandOf(estimate, Using, r)
           /\ AreValid(estimate', Using \ {s})
<1>1. Using \in SUBSET Servables /\ AreValid(estimate, Using)
  BY UsingValid
<1>2. PICK T \in SUBSET Servables : T = Using \ {s}
  BY <1>1
<1>3. PICK e, f : e = estimate /\ f = estimate'
  OBVIOUS
<1>4. DemandOf(estimate', T, r) = DemandOf(estimate, T, r) /\ AreValid(estimate', T) /\ AreValid(estimate, T)
  <2>1. AreValid(e, T) /\ \A u \in T : f[u] = e[u]
    BY <1>1, <1>2, <1>3 DEF AreValid
  <2>2. DemandOf(f, T, r) = DemandOf(e, T, r) /\ AreValid(f, T)
    BY <2>1, DemandSame, SMTT(30)
  <2> QED  BY <1>3, <2>1, <2>2
<1>5. DemandOf(estimate, T, r) \in Nat /\ DemandOf(estimate, Using, r) \in Nat
  BY <1>1, <1>4, DemandType
<1>6. DemandOf(estimate, T, r) <= DemandOf(estimate, Using, r)
  <2>1. CASE s \in Using
    <3>1. DemandOf(estimate, Using, r) = Part(estimate, s, r) + DemandOf(estimate, Using \ {s}, r)
          /\ Part(estimate, s, r) \in Nat
      BY <1>1, <2>1, DemandRemove
    <3>2. DemandOf(estimate, Using, r) = Part(estimate, s, r) + DemandOf(estimate, T, r)
      BY <1>2, <3>1
    <3> QED  BY <1>5, <3>1, <3>2, SMTT(30)
  <2>2. CASE s \notin Using
    <3>1. T = Using
      BY <1>2, <2>2
    <3> QED  BY <1>5, <3>1, SMTT(30)
  <2> QED  BY <2>1, <2>2
<1> QED  BY <1>2, <1>4, <1>5, <1>6

LEMMA ReleaseKeeps ==
    ASSUME TrackerInv, NEW s \in Servables, Release(s)
    PROVE  TrackerInv'
<1>1. PICK a \in Estimates : estimate' = [estimate EXCEPT ![s] = a]
  BY DEF Release
<1>2. /\ TrackerTypes /\ Roomy(estimate, Using, total_resources) /\ IsNormal(total_resources)
      /\ stage' = [stage EXCEPT ![s] = "new"]
      /\ total_resources' = total_resources /\ used_resources' = used_resources
  BY DEF TrackerInv, TrackerTypes, Release
<1>3. IsAllocation(a)
  BY AllocationsAssumption DEF IsAllocation
<1>4. estimate'[s] = a /\ \A u \in Servables \ {s} : estimate'[u] = estimate[u]
  BY <1>1, <1>2 DEF TrackerTypes
<1>5. stage'[s] = "new" /\ \A u \in Servables \ {s} : stage'[u] = stage[u]
  BY <1>2 DEF TrackerTypes
<1>6. TrackerTypes'
  <2>1. /\ stage' \in [Servables -> {"new", "reserved", "loaded"}]
        /\ estimate' = [u \in Servables |-> estimate'[u]]
    BY <1>1, <1>2 DEF TrackerTypes
  <2>2. ASSUME NEW u \in Servables
        PROVE  /\ IsAllocation(estimate'[u])
               /\ stage'[u] # "new" => VerifyValidity(estimate'[u])
               /\ stage'[u] = "loaded" => DOMAIN estimate'[u] \subseteq AllInstances
    <3>1. CASE u = s
      BY <1>3, <1>4, <1>5, <3>1
    <3>2. CASE u # s
      BY <1>2, <1>4, <1>5, <3>2 DEF TrackerTypes
    <3> QED  BY <3>1, <3>2
  <2> QED  BY <1>2, <2>1, <2>2 DEF TrackerTypes
<1>7. Using' = Using \ {s}
  BY <1>5 DEF Using
<1>8. Roomy(estimate', Using \ {s}, total_resources)
  <2>1. PICK T : T = Using \ {s}
    OBVIOUS
  <2>2. \A r : /\ DemandOf(estimate, Using, r) \in Nat /\ DemandOf(estimate', T, r) \in Nat
               /\ DemandOf(estimate', T, r) <= DemandOf(estimate, Using, r)
    BY <1>2, <1>4, <2>1, OthersDemand
  <2> QED  BY <1>2, <2>1, <2>2, RoomyStays
<1> QED  BY <1>2, <1>6, <1>7, <1>8 DEF TrackerInv

LEMMA ShrinkKeeps ==
    ASSUME TrackerInv, NEW s \in Servables, Shrink(s)
    PROVE  TrackerInv'
<1>1. PICK b \in DOMAIN estimate[s] :
          estimate[s][b] > 0 /\ estimate' = [estimate EXCEPT ![s][b] = @ - 1]
  BY DEF Shrink
<1>2. /\ TrackerTypes /\ Roomy(estimate, Using, total_resources) /\ IsNormal(total_resources)
      /\ stage[s] # "new" /\ stage' = stage
      /\ total_resources' = total_resources /\ used_resources' = used_resources
  BY DEF TrackerInv, TrackerTypes, Shrink
<1>3. PICK a : a = estimate[s]
  OBVIOUS
<1>4. /\ IsAllocation(a) /\ VerifyValidity(a)
      /\ stage[s] = "loaded" => DOMAIN a \subseteq AllInstances
      /\ a \in [DOMAIN a -> Nat] /\ b \in DOMAIN a /\ a[b] > 0 /\ a[b] \in Nat
  <2>1. /\ IsAllocation(a) /\ VerifyValidity(a)
        /\ stage[s] = "loaded" => DOMAIN a \subseteq AllInstances
    BY <1>2, <1>3 DEF TrackerTypes
  <2> QED  BY <1>1, <1>3, <2>1 DEF IsAllocation
<1>5. PICK n : n = [a EXCEPT ![b] = @ - 1]
  OBVIOUS
<1>6. estimate'[s] = n /\ \A u \in Servables \ {s} : estimate'[u] = estimate[u]
  BY <1>1, <1>2, <1>3, <1>5 DEF TrackerTypes
<1>7. /\ n \in [DOMAIN n -> Nat] /\ DOMAIN n = DOMAIN a
      /\ \A r \in DOMAIN a : n[r] <= a[r]
  BY <1>4, <1>5, SMTT(30)
<1>8. IsAllocation(n) /\ VerifyValidity(n)
  BY <1>4, <1>7 DEF IsAllocation, VerifyValidity, Normalizable
<1>9. TrackerTypes'
  <2>1. estimate' = [u \in Servables |-> estimate'[u]]
    BY <1>1, <1>2 DEF TrackerTypes
  <2>2. ASSUME NEW u \in Servables
        PROVE  /\ IsAllocation(estimate'[u])
               /\ stage[u] # "new" => VerifyValidity(estimate'[u])
               /\ stage[u] = "loaded" => DOMAIN estimate'[u] \subseteq AllInstances
    <3>1. CASE u = s
      BY <1>4, <1>6, <1>7, <1>8, <3>1
    <3>2. CASE u # s
      BY <1>2, <1>6, <3>2 DEF TrackerTypes
    <3> QED  BY <3>1, <3>2
  <2> QED  BY <1>2, <2>1, <2>2 DEF TrackerTypes
<1>10. Using' = Using
  BY <1>2 DEF Using
<1>11. \A r : GetQuantity(r, Normalize(n)) <= GetQuantity(r, Normalize(a))
  <2>1. ASSUME NEW r, NEW q \in DOMAIN a, NormalizeResource(q) = r
        PROVE  GetQuantity(r, Normalize(n)) = n[q] /\ GetQuantity(r, Normalize(a)) = a[q]
    BY <1>4, <1>7, <1>8, <2>1, NormalizeQuantity
  <2>2. ASSUME NEW r, \A q \in DOMAIN a : NormalizeResource(q) # r
        PROVE  GetQuantity(r, Normalize(n)) = 0 /\ GetQuantity(r, Normalize(a)) = 0
    BY <1>4, <1>7, <1>8, <2>2, NormalizeQuantity
  <2>3. ASSUME NEW r PROVE GetQuantity(r, Normalize(n)) <= GetQuantity(r, Normalize(a))
    <3>1. CASE \E q \in DOMAIN a : NormalizeResource(q) = r
      BY <1>7, <2>1, <3>1
    <3>2. CASE \A q \in DOMAIN a : NormalizeResource(q) # r
      <4>1. GetQuantity(r, Normalize(n)) = 0 /\ GetQuantity(r, Normalize(a)) = 0
        BY <2>2, <3>2
      <4> QED  BY <4>1, SMTT(30)
    <3> QED  BY <3>1, <3>2
  <2> QED  BY <2>3
<1>12. Using \in SUBSET Servables /\ AreValid(estimate, Using) /\ AreValid(estimate', Using)
  <2>1. Using \in SUBSET Servables /\ AreValid(estimate, Using)
    BY <1>2, UsingValid
  <2> QED  BY <1>6, <1>8, <2>1 DEF AreValid
<1>13. \A r : /\ DemandOf(estimate, Using, r) \in Nat /\ DemandOf(estimate', Using, r) \in Nat
              /\ DemandOf(estimate', Using, r) <= DemandOf(estimate, Using, r)
  <2>1. ASSUME NEW r, NEW u \in Using PROVE Part(estimate', u, r) <= Part(estimate, u, r)
    <3>1. CASE u = s
      BY <1>3, <1>6, <1>11, <3>1 DEF Part
    <3>2. CASE u # s
      <4>1. Part(estimate', u, r) = Part(estimate, u, r) /\ Part(estimate, u, r) \in Nat
        BY <1>6, <1>12, <3>2, PartEffect DEF Part
      <4> QED  BY <4>1, SMTT(30)
    <3> QED  BY <3>1, <3>2
  <2> QED  BY <1>12, <2>1, DemandType, DemandShrinks
<1>14. Roomy(estimate', Using, total_resources)
  BY <1>2, <1>13, RoomyStays
<1> QED  BY <1>2, <1>9, <1>10, <1>14 DEF TrackerInv

LEMMA LoadKeeps ==
    ASSUME TrackerInv, NEW s \in Servables, Load(s)
    PROVE  TrackerInv'
<1> DEFINE a == Normalize(estimate[s])
           t == total_resources
<1>1. PICK f \in RoomyBindings(s) :
          estimate' = [estimate EXCEPT ![s] =
                         [b \in {c \in AllInstances : Demand(a, f, c) > 0} |-> Demand(a, f, b)]]
  BY DEF Load
<1>2. /\ TrackerTypes /\ Roomy(estimate, Using, t) /\ IsNormal(t)
      /\ stage[s] = "reserved" /\ stage' = [stage EXCEPT ![s] = "loaded"]
      /\ total_resources' = t /\ used_resources' = used_resources
  BY DEF TrackerInv, TrackerTypes, Load
<1>3. PICK T : T = Using \ {s}
  OBVIOUS
<1>4. s \in Using /\ Using \in SUBSET Servables /\ AreValid(estimate, Using) /\ T \in SUBSET Servables
  <2>1. Using \in SUBSET Servables /\ AreValid(estimate, Using)
    BY <1>2, UsingValid
  <2>2. s \in Using
    BY <1>2 DEF Using
  <2> QED  BY <1>3, <2>1, <2>2
<1>5. IsNormal(a) /\ f \in Bindings(a)
  BY <1>4, PartEffect DEF RoomyBindings
<1>6. PICK n : n = [b \in {c \in AllInstances : Demand(a, f, c) > 0} |-> Demand(a, f, b)]
  OBVIOUS
<1>7. estimate'[s] = n /\ \A u \in Servables \ {s} : estimate'[u] = estimate[u]
  BY <1>1, <1>2, <1>6 DEF TrackerTypes
<1>8. estimate' = [u \in Servables |-> estimate'[u]]
  BY <1>1, <1>2 DEF TrackerTypes
<1>9. \A b \in AllInstances : Demand(a, f, b) + DemandOf(estimate, T, b) <= GetQuantity(b, t)
  BY <1>1, <1>3, BoundDemandIs DEF RoomyBindings
<1> HIDE DEF a
<1>10. \A b \in AllInstances : Demand(a, f, b) \in Nat
  BY <1>5, DemandEffect
<1>11. IsNormal(n) /\ DOMAIN n \subseteq AllInstances
  <2>1. DOMAIN n = {c \in AllInstances : Demand(a, f, c) > 0}
    BY <1>6
  <2>2. \A b \in DOMAIN n : n[b] = Demand(a, f, b) /\ n[b] \in Nat \ {0} /\ b \in Places
    <3>1. ASSUME NEW b \in DOMAIN n PROVE n[b] = Demand(a, f, b) /\ b \in AllInstances /\ Demand(a, f, b) > 0
      BY <1>6
    <3>2. ASSUME NEW b \in DOMAIN n PROVE Demand(a, f, b) \in Nat \ {0}
      BY <1>10, <3>1, SMTT(30)
    <3> QED  BY <3>1, <3>2, InstanceEffect
  <2>3. n = [b \in DOMAIN n |-> n[b]]
    BY <1>6
  <2> QED  BY <2>1, <2>2, <2>3 DEF IsNormal
<1>12. /\ \A b \in AllInstances : GetQuantity(b, Normalize(n)) = Demand(a, f, b)
       /\ \A d \in Devices : GetQuantity(Open(d), Normalize(n)) = 0
  <2>1. Normalize(n) = n
    BY <1>11, NormalIsNormalized
  <2>2. ASSUME NEW b \in AllInstances PROVE GetQuantity(b, n) = Demand(a, f, b)
    <3>1. CASE Demand(a, f, b) > 0
      BY <1>6, <3>1 DEF GetQuantity
    <3>2. CASE ~(Demand(a, f, b) > 0)
      <4>1. Demand(a, f, b) = 0
        BY <1>10, <3>2, SMTT(30)
      <4>2. b \notin DOMAIN n
        BY <1>6, <3>2
      <4> QED  BY <4>1, <4>2 DEF GetQuantity
    <3> QED  BY <3>1, <3>2
  <2>3. ASSUME NEW d \in Devices PROVE GetQuantity(Open(d), n) = 0
    <3>1. Open(d) \notin DOMAIN n
      BY <1>11, OpenEffect, InstanceEffect
    <3> QED  BY <3>1 DEF GetQuantity
  <2> QED  BY <2>1, <2>2, <2>3
<1>13. IsAllocation(n) /\ VerifyValidity(n)
  <2>1. n \in [DOMAIN n -> Nat]
    BY <1>11, SMTT(30) DEF IsNormal
  <2>2. Normalizable(n)
    BY <1>11, PlaceCases DEF Normalizable, IsNormal
  <2> QED  BY <1>11, <2>1, <2>2, InstanceEffect DEF IsAllocation, VerifyValidity
<1>14. stage'[s] = "loaded" /\ \A u \in Servables \ {s} : stage'[u] = stage[u]
  BY <1>2 DEF TrackerTypes
<1>15. TrackerTypes'
  <2>1. stage' \in [Servables -> {"new", "reserved", "loaded"}]
    BY <1>2 DEF TrackerTypes
  <2>2. ASSUME NEW u \in Servables
        PROVE  /\ IsAllocation(estimate'[u])
               /\ stage'[u] # "new" => VerifyValidity(estimate'[u])
               /\ stage'[u] = "loaded" => DOMAIN estimate'[u] \subseteq AllInstances
    <3>1. CASE u = s
      BY <1>7, <1>11, <1>13, <3>1
    <3>2. CASE u # s
      BY <1>2, <1>7, <1>14, <3>2 DEF TrackerTypes
    <3> QED  BY <3>1, <3>2
  <2> QED  BY <1>2, <1>8, <2>1, <2>2 DEF TrackerTypes
<1>16. Using' = Using
  BY <1>2, <1>14 DEF Using
<1>17. PICK e : e = estimate'
  OBVIOUS
<1>18. \A r : /\ DemandOf(e, T, r) = DemandOf(estimate, T, r) /\ DemandOf(estimate, T, r) \in Nat
              /\ AreValid(e, T)
  BY <1>2, <1>3, <1>7, <1>17, OthersDemand
<1>19. AreValid(e, Using)
  <2>1. IsAllocation(e[s]) /\ VerifyValidity(e[s])
    BY <1>7, <1>13, <1>17
  <2> QED  BY <1>3, <1>18, <2>1 DEF AreValid
<1>20. ASSUME NEW r PROVE DemandOf(e, Using, r) = GetQuantity(r, Normalize(n)) + DemandOf(estimate, T, r)
  <2>1. DemandOf(e, Using, r) = Part(e, s, r) + DemandOf(e, Using \ {s}, r)
    BY <1>4, <1>19, DemandRemove, SMTT(30)
  <2>2. Part(e, s, r) = GetQuantity(r, Normalize(n))
    BY <1>7, <1>17 DEF Part
  <2> QED  BY <1>3, <1>18, <2>1, <2>2
<1>21. ASSUME NEW r PROVE DemandOf(estimate, Using, r) = GetQuantity(r, a) + DemandOf(estimate, T, r)
  <2>1. DemandOf(estimate, Using, r) = Part(estimate, s, r) + DemandOf(estimate, Using \ {s}, r)
    BY <1>4, DemandRemove, SMTT(30)
  <2> QED  BY <1>3, <2>1 DEF Part, a
<1>22. \A r : GetQuantity(r, a) \in Nat /\ GetQuantity(r, t) \in Nat
  BY <1>2, <1>5, NormalQuantity
<1>23. Roomy(e, Using, t)
  <2>1. \A b \in AllInstances : DemandOf(e, Using, b) <= GetQuantity(b, t)
    BY <1>9, <1>12, <1>20
  <2>2. ASSUME NEW d \in Devices
        PROVE  \E i \in InstancesOf(d) :
                   DemandOf(e, Using, Open(d)) + DemandOf(e, Using, <<d, i>>) <= GetQuantity(<<d, i>>, t)
    <3>1. PICK i \in InstancesOf(d) :
              DemandOf(estimate, Using, Open(d)) + DemandOf(estimate, Using, <<d, i>>)
                  <= GetQuantity(<<d, i>>, t)
      BY <1>2 DEF Roomy
    <3>2. PICK b \in AllInstances : b = <<d, i>> /\ b[1] = d
      <4>1. <<d, i>> \in AllInstances /\ <<d, i>>[1] = d
        BY InstanceIs
      <4> QED  BY <4>1
    <3>3. /\ Demand(a, f, b) \in Nat /\ Demand(a, f, b) <= GetQuantity(b, a) + GetQuantity(Open(d), a)
      BY <1>5, <3>2, DemandEffect
    <3>4. /\ DemandOf(e, Using, Open(d)) = 0 + DemandOf(estimate, T, Open(d))
          /\ DemandOf(e, Using, b) = Demand(a, f, b) + DemandOf(estimate, T, b)
      BY <1>12, <1>20
    <3>5. DemandOf(estimate, Using, Open(d)) + DemandOf(estimate, Using, b) <= GetQuantity(b, t)
      BY <3>1, <3>2
    <3>6. DemandOf(e, Using, Open(d)) + DemandOf(e, Using, b) <= GetQuantity(b, t)
      BY <1>18, <1>21, <1>22, <3>3, <3>4, <3>5, SMTT(30)
    <3> QED  BY <3>2, <3>6
  <2> QED  BY <2>1, <2>2 DEF Roomy
<1> QED  BY <1>2, <1>15, <1>16, <1>17, <1>23 DEF TrackerInv

-----------------------------------------------------------------------------
(***************************************************************************)
(* The theorems.                                                           *)
(***************************************************************************)
LEMMA TrackerInvariant == TrackerSpec => []TrackerInv
<1>1. TrackerInv /\ [TrackerNext]_trackerVars => TrackerInv'
  <2> SUFFICES ASSUME TrackerInv, [TrackerNext]_trackerVars PROVE TrackerInv'
    OBVIOUS
  <2>1. CASE TrackerNext
    BY <2>1, ReserveKeeps, LoadKeeps, ReleaseKeeps, ShrinkKeeps DEF TrackerNext
  <2>2. CASE UNCHANGED trackerVars
    BY <2>2 DEF trackerVars, TrackerInv, TrackerTypes, Using
  <2> QED  BY <2>1, <2>2
<1> QED  BY <1>1, InitTracker, PTL DEF TrackerSpec

\* The resources recorded as used never exceed the total, and a servable that
\* has its resources reserved always finds room for them, for any devices,
\* totals and estimates (ResourceTracker::ReserveResources()).
THEOREM ReservationsAreKept == TrackerSpec => []ReservationsFindRoom
<1>1. TrackerInv => ReservationsFindRoom
  BY RoomToLoad DEF TrackerInv, ReservationsFindRoom, Using
<1> QED  BY <1>1, TrackerInvariant, PTL

\* ReserveResources() approves exactly the servables that are guaranteed to fit
\* wherever the others end up: overbinding neither promises too much nor
\* refuses what is safe, for any devices, totals and estimates.
THEOREM ApprovalsAreGuaranteed == TrackerSpec => []ApprovalIsGuarantee
<1>1. TrackerInv => ApprovalIsGuarantee
  BY FitsIsGuaranteed DEF TrackerInv, ApprovalIsGuarantee
<1> QED  BY <1>1, TrackerInvariant, PTL
=============================================================================
