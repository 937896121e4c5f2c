------------------------ MODULE CachingManagerProofs ------------------------
(***************************************************************************)
(* Proofs about a BasicManager whose owner waits for done callbacks, and   *)
(* about CachingManager, which is such an owner, for any set of servables, *)
(* clients and threads.                                                    *)
(***************************************************************************)
EXTENDS CachingManager, BasicManagerProofs

(***************************************************************************)
(* The states that are published come in order and tell the state of the   *)
(* servable.                                                               *)
(*                                                                         *)
(* PatientInv says what has been published at each place of a request, and *)
(* about the servables without one.  It holds because a request has its    *)
(* servable for itself until it has called its done callback.              *)
(***************************************************************************)

\* What has been published about the servable of a load request, by the place
\* of the request in ExecuteLoad().
LoadTold(w, i) ==
    /\ pc[w] \in {"decide", "approve", "waiting", "reserve", "exec"} => event[i] = "kStart"
    /\ pc[w] = "loading" => event[i] = "kLoading"
    /\ pc[w] \in {"loaded", "swap", "drain", "announce"} =>
          state[i] = "kReady" /\ event[i] = "kLoading"
    /\ pc[w] = "swap" => i \in scan
    /\ pc[w] \in {"drain", "announce"} => i \in serving
    /\ pc[w] = "finish" => \/ state[i] = "kReady" /\ event[i] = "kAvailable" /\ i \in serving
                           \/ state[i] = "kError" /\ event[i] = "kEnd"

\* The same for an unload request in ExecuteUnload().
UnloadTold(w, i) ==
    /\ pc[w] \in {"decide", "approve", "exec"} => event[i] = "kAvailable"
    /\ pc[w] \in {"swap", "drain", "unload", "unloading"} => event[i] = "kUnloading"
    /\ pc[w] = "unloaded" => state[i] = "kDisabled" /\ event[i] = "kUnloading"
    /\ pc[w] = "finish" => state[i] = "kDisabled" /\ event[i] = "kEnd"

Told(w) == IF w \in UnloadThreads THEN UnloadTold(w, job[w]) ELSE LoadTold(w, job[w])

\* What has been published about a servable that no request works on.
Settled(i) ==
    /\ state[i] = "kUnmanaged" => event[i] \in {"none", "kStart", "kEnd"}
    /\ state[i] \in {"kNew", "kLoadRequested"} => event[i] = "kStart"
    /\ state[i] = "kReady" => event[i] = "kAvailable" /\ i \in serving
    /\ state[i] = "kUnloadRequested" => event[i] = "kAvailable"
    /\ state[i] \in {"kDisabled", "kError"} => event[i] = "kEnd"

\* At most one worker is busy with a servable, until its done callback; no
\* other request for it is waiting then.
OneRequest ==
    /\ \A w \in Workers : pc[w] = "idle" => job[w] = NoId
    /\ \A v, w \in Workers : job[v] \in Ids /\ job[v] = job[w] => v = w
    /\ \A i \in Ids : Busy(i) => /\ i \notin accepted
                                 /\ <<"load", i>> \notin scheduled
                                 /\ <<"unload", i>> \notin scheduled

PatientInv ==
    /\ OneRequest
    /\ \A w \in Workers : pc[w] # "idle" => Told(w)
    /\ \A i \in Ids : ~Busy(i) => Settled(i)

\* The states published by a step come in order.
Forward ==
    \A i \in Ids : \/ Rank(event[i]) =< Rank(event'[i])
                   \/ event[i] = "kEnd" /\ event'[i] = "kStart"

\* A step that is about servable i only; about the request of w only; that
\* keeps ready servables in the handles map.
Spares(i) == \A j \in Ids \ {i} : state'[j] = state[j] /\ event'[j] = event[j]

SparesOthers(w) ==
    \A v \in Workers \ {w} :
        /\ job'[v] = job[v]
        /\ pc'[v] = pc[v] \/ (pc[v] = "waiting" /\ pc'[v] = "reserve")
        /\ pc[v] = "swap" => scan' = scan

KeepsServing == \A j \in serving : state[j] = "kReady" => j \in serving'

\* The first-order prover does most steps; the others name theirs.
USE ZenonT(30)

\* A patient owner is one of the owners BasicManager allows.
LEMMA PatientIsOwner == [PatientNext]_vars => [Next]_vars
BY DEF PatientNext, Next

\* What is published for a request stays right while others move.
LEMMA ToldFrame ==
    ASSUME NEW v \in Workers, Told(v), job'[v] = job[v],
           pc'[v] = pc[v] \/ (pc[v] = "waiting" /\ pc'[v] = "reserve"),
           pc[v] = "swap" => scan' = scan,
           state'[job[v]] = state[job[v]], event'[job[v]] = event[job[v]],
           state[job[v]] = "kReady" /\ job[v] \in serving => job[v] \in serving'
    PROVE  Told(v)'
<1>1. UnloadTold(v, job[v]) => UnloadTold(v, job[v])'
  BY SMTT(30) DEF UnloadTold
<1>2. LoadTold(v, job[v]) => LoadTold(v, job[v])'
  BY SMTT(30) DEF LoadTold
<1> QED  BY <1>1, <1>2 DEF Told

\* So does what is published for a servable without a request.
LEMMA SettledFrame ==
    ASSUME NEW i, Settled(i), state'[i] = state[i], event'[i] = event[i],
           state[i] = "kReady" /\ i \in serving => i \in serving'
    PROVE  Settled(i)'
BY DEF Settled

\* A request in the middle of its work has its servable for itself.
LEMMA RequestGoesOn ==
    ASSUME SafeInv, PatientInv, NEW w \in Workers, pc[w] # "idle",
           job'[w] = job[w], pc'[w] # "idle", SparesOthers(w),
           UNCHANGED <<accepted, scheduled>>, Spares(job[w]), KeepsServing,
           Told(w)'
    PROVE  PatientInv'
<1>1. \A v \in Workers : job'[v] = job[v]
  BY DEF SparesOthers
<1> USE <1>1
<1>2. \A i \in Ids : Busy(i)' <=> Busy(i)
  BY DEF Busy
<1> USE <1>2
<1>3. \A v \in Workers : pc'[v] = "idle" => pc[v] = "idle"
  BY DEF SparesOthers
<1>4. \A v \in Workers \ {w} : pc'[v] # "idle" => pc[v] # "idle"
  BY DEF SparesOthers
<1>5. OneRequest'
  BY <1>3 DEF PatientInv, OneRequest
<1>6. ASSUME NEW v \in Workers, pc'[v] # "idle" PROVE Told(v)'
  <2>1. CASE v = w
    BY <2>1
  <2>2. CASE v # w
    <3>1. pc[v] # "idle" /\ job[v] \in Ids /\ Told(v)
      BY <1>4, <1>6, <2>2 DEF PatientInv, SafeInv, CoreInv, BaseInv, Labels
    <3> USE <3>1
    <3>2. job[v] # job[w]
      BY <2>2 DEF PatientInv, OneRequest
    <3> QED
      BY <2>2, <3>2, ToldFrame DEF Spares, SparesOthers, KeepsServing
  <2> QED  BY <2>1, <2>2
<1>7. ASSUME NEW i \in Ids, ~Busy(i)' PROVE Settled(i)'
  <2>1. ~Busy(i) /\ Settled(i) /\ i # job[w]
    BY <1>7 DEF PatientInv, Busy
  <2> QED  BY <2>1, SettledFrame DEF Spares, KeepsServing
<1> QED  BY <1>5, <1>6, <1>7 DEF PatientInv

\* A request that is over leaves a settled servable behind.
LEMMA RequestEnds ==
    ASSUME SafeInv, PatientInv, NEW w \in Workers, pc[w] # "idle", NEW k, k = job[w],
           job'[w] = NoId, pc'[w] = "idle", SparesOthers(w),
           UNCHANGED <<accepted, scheduled>>, Spares(job[w]), KeepsServing,
           Settled(k)'
    PROVE  PatientInv'
<1>1. \A v \in Workers \ {w} : job'[v] = job[v] /\ (pc'[v] = "idle" <=> pc[v] = "idle")
  BY DEF SparesOthers
<1> USE <1>1
<1>2. job[w] \in Ids /\ NoId \notin Ids
  BY EstimateAssumption DEF SafeInv, CoreInv, BaseInv, Labels
<1> USE <1>2
<1>3. \A i \in Ids : Busy(i)' => Busy(i) /\ i # job[w]
  BY DEF Busy, PatientInv, OneRequest
<1>4. \A i \in Ids : ~Busy(i)' => ~Busy(i) \/ i = job[w]
  BY DEF Busy
<1>5. OneRequest'
  <2>1. \A v \in Workers : pc'[v] = "idle" => job'[v] = NoId
    BY DEF PatientInv, OneRequest
  <2>2. \A u, v \in Workers : job'[u] \in Ids /\ job'[u] = job'[v] => u = v
    BY DEF PatientInv, OneRequest
  <2> QED  BY <1>3, <2>1, <2>2 DEF PatientInv, OneRequest
<1>6. ASSUME NEW v \in Workers, pc'[v] # "idle" PROVE Told(v)'
  <2>1. v # w
    BY <1>6
  <2> USE <2>1
  <2>2. pc[v] # "idle" /\ job[v] \in Ids /\ Told(v)
    BY <1>6 DEF PatientInv, SafeInv, CoreInv, BaseInv, Labels
  <2> USE <2>2
  <2>3. job[v] # job[w]
    BY DEF PatientInv, OneRequest
  <2> QED
    BY <2>3, ToldFrame DEF Spares, SparesOthers, KeepsServing
<1>7. ASSUME NEW i \in Ids, ~Busy(i)' PROVE Settled(i)'
  <2>1. CASE i = k
    BY <2>1
  <2>2. CASE i # k
    <3>1. Settled(i)
      BY <1>4, <1>7, <2>2 DEF PatientInv
    <3> QED  BY <2>2, <3>1, SettledFrame DEF Spares, KeepsServing
  <2> QED  BY <2>1, <2>2
<1> QED  BY <1>5, <1>6, <1>7 DEF PatientInv

\* An idle worker starts on a servable that no other one works on.
LEMMA RequestStarts ==
    ASSUME SafeInv, PatientInv, NEW w \in Workers, NEW i \in Ids,
           pc[w] = "idle", pc' = [pc EXCEPT ![w] = "decide"],
           job' = [job EXCEPT ![w] = i],
           \/ /\ i \in accepted /\ w \notin UnloadThreads
              /\ accepted' = accepted \ {i} /\ scheduled' = scheduled
           \/ /\ <<Kind(w), i>> \in scheduled
              /\ accepted' = accepted /\ scheduled' = scheduled \ {<<Kind(w), i>>},
           UNCHANGED <<state, event, serving, scan>>
    PROVE  PatientInv'
<1>1. /\ job'[w] = i /\ pc'[w] = "decide"
      /\ \A v \in Workers \ {w} : job'[v] = job[v] /\ pc'[v] = pc[v]
  BY DEF SafeInv, CoreInv, BaseInv, TypeOK
<1> USE <1>1
<1>2. Kind(w) = IF w \in UnloadThreads THEN "unload" ELSE "load"
  BY DEF Kind
<1> USE <1>2
<1>3. ~Busy(i) /\ job[w] = NoId /\ NoId \notin Ids
  <2>1. i \in accepted \/ <<"load", i>> \in scheduled \/ <<"unload", i>> \in scheduled
    OBVIOUS
  <2> QED  BY <2>1, EstimateAssumption DEF PatientInv, OneRequest
<1> USE <1>3
<1>4. /\ state[i] = IF w \in UnloadThreads THEN "kUnloadRequested" ELSE "kLoadRequested"
      /\ i \notin accepted' /\ <<"load", i>> \notin scheduled' /\ <<"unload", i>> \notin scheduled'
      /\ accepted' \subseteq accepted /\ scheduled' \subseteq scheduled
  BY DEF SafeInv, Ownership
<1> USE <1>4
<1>5. \A j \in Ids : Busy(j)' <=> Busy(j) \/ j = i
  BY DEF Busy
<1> USE <1>5
<1>6. OneRequest'
  <2>1. \A v \in Workers : pc'[v] = "idle" => job'[v] = NoId
    BY DEF PatientInv, OneRequest
  <2>2. \A v \in Workers \ {w} : job[v] # i
    BY DEF Busy
  <2>3. \A u, v \in Workers : job[u] \in Ids /\ job[u] = job[v] => u = v
    BY DEF PatientInv, OneRequest
  <2>4. \A u, v \in Workers : job'[u] \in Ids /\ job'[u] = job'[v] => u = v
    BY <2>2, <2>3, SMTT(30)
  <2> QED  BY <2>1, <2>4 DEF PatientInv, OneRequest
<1>7. Told(w)'
  <2>1. event'[i] = IF w \in UnloadThreads THEN "kAvailable" ELSE "kStart"
    BY DEF PatientInv, Settled
  <2> QED  BY <2>1, SMTT(30) DEF Told, LoadTold, UnloadTold
<1>8. ASSUME NEW v \in Workers, pc'[v] # "idle" PROVE Told(v)'
  <2>1. CASE v = w
    BY <1>7, <2>1
  <2>2. CASE v # w
    BY <1>8, <2>2, ToldFrame DEF PatientInv
  <2> QED  BY <2>1, <2>2
<1>9. ASSUME NEW j \in Ids, ~Busy(j)' PROVE Settled(j)'
  BY <1>9, SettledFrame DEF PatientInv
<1> QED  BY <1>6, <1>8, <1>9 DEF PatientInv

\* A request goes on to label l, and changes at most its own servable.
LEMMA RequestMoves ==
    ASSUME SafeInv, PatientInv, NEW w \in Workers, NEW l, pc[w] # "idle", l # "idle",
           pc' = [pc EXCEPT ![w] = l],
           state' = state \/ \E s : state' = [state EXCEPT ![job[w]] = s],
           event' = event \/ \E e : event' = [event EXCEPT ![job[w]] = e],
           UNCHANGED <<job, accepted, scheduled, serving, scan>>,
           Told(w)'
    PROVE  PatientInv'
<1>1. job[w] \in Ids
  BY DEF SafeInv, CoreInv, BaseInv, Labels
<1>2. Spares(job[w])
  BY <1>1 DEF Spares, SafeInv, CoreInv, BaseInv, TypeOK
<1>3. SparesOthers(w) /\ pc'[w] = l
  BY DEF SparesOthers, SafeInv, CoreInv, BaseInv, TypeOK
<1>4. KeepsServing
  BY DEF KeepsServing
<1> QED  BY <1>2, <1>3, <1>4, RequestGoesOn

\* Nothing is published.
LEMMA SilentForward ==
    ASSUME SafeInv, UNCHANGED event
    PROVE  Forward
<1>1. \A s \in ManagerState \cup {"none"} : Rank(s) \in Nat
  BY SMTT(30) DEF Rank, ManagerState
<1>2. \A i \in Ids : event[i] \in ManagerState \cup {"none"}
  BY DEF SafeInv, CoreInv, BaseInv, TypeOK
<1>3. \A n \in Nat : n =< n
  BY SMTT(30)
<1> QED  BY <1>1, <1>2, <1>3 DEF Forward

\* One state is published, which is not below the last one.
LEMMA PublishForward ==
    ASSUME SafeInv, NEW i \in Ids, NEW s, event' = [event EXCEPT ![i] = s],
           \/ Rank(event[i]) =< Rank(s)
           \/ event[i] = "kEnd" /\ s = "kStart"
    PROVE  Forward
<1>1. \A e \in ManagerState \cup {"none"} : Rank(e) \in Nat
  BY SMTT(30) DEF Rank, ManagerState
<1>2. \A j \in Ids : event[j] \in ManagerState \cup {"none"}
  BY DEF SafeInv, CoreInv, BaseInv, TypeOK
<1>3. \A n \in Nat : n =< n
  BY SMTT(30)
<1>4. event'[i] = s /\ \A j \in Ids \ {i} : event'[j] = event[j]
  BY DEF SafeInv, CoreInv, BaseInv, TypeOK
<1> QED  BY <1>1, <1>2, <1>3, <1>4 DEF Forward

\* kEnd is the last state.
LEMMA EndForward ==
    ASSUME SafeInv, NEW i \in Ids, event' = [event EXCEPT ![i] = "kEnd"]
    PROVE  Forward
<1>1. \A e \in ManagerState \cup {"none"} : Rank(e) =< Rank("kEnd")
  BY SMTT(30) DEF Rank, ManagerState
<1>2. event[i] \in ManagerState \cup {"none"}
  BY DEF SafeInv, CoreInv, BaseInv, TypeOK
<1> QED  BY <1>1, <1>2, PublishForward

\* The ranks of the states a request publishes.
LEMMA Ranks ==
    /\ Rank("kStart") =< Rank("kLoading") /\ Rank("kLoading") =< Rank("kAvailable")
    /\ Rank("kAvailable") =< Rank("kUnloading")
    /\ Rank("kStart") =< Rank("kStart") /\ Rank("none") =< Rank("kStart")
BY SMTT(30) DEF Rank

\* What holds for a request in its decision phase.
LEMMA DecidingHarness ==
    ASSUME SafeInv, PatientInv, NEW w \in Workers,
           pc[w] \in {"decide", "approve", "waiting", "reserve"}
    PROVE  /\ job[w] \in Ids
           /\ w \notin UnloadThreads => /\ state[job[w]] = "kLoadRequested"
                                        /\ event[job[w]] = "kStart"
           /\ w \in UnloadThreads => /\ state[job[w]] = "kUnloadRequested"
                                     /\ event[job[w]] = "kAvailable"
                                     /\ pc[w] \in {"decide", "approve"}
<1>1. job[w] \in Ids /\ Told(w) /\ (w \in UnloadThreads => pc[w] \in {"decide", "approve"})
  BY SMTT(30) DEF SafeInv, CoreInv, BaseInv, Labels, PatientInv
<1> USE <1>1
<1>2. Expected(w) # {} => state[job[w]] \in Expected(w)
  BY DEF SafeInv, Ownership, HarnessAsExpected
<1>3. /\ w \notin UnloadThreads => Expected(w) = {"kLoadRequested"}
      /\ w \in UnloadThreads => Expected(w) = {"kUnloadRequested"}
  BY DEF Expected, Deciding
<1>4. /\ w \notin UnloadThreads => event[job[w]] = "kStart"
      /\ w \in UnloadThreads => event[job[w]] = "kAvailable"
  BY DEF Told, LoadTold, UnloadTold
<1> QED  BY <1>2, <1>3, <1>4

\* The decision phase: nothing is published unless the load is rejected.
LEMMA PatientDecision ==
    ASSUME SafeInv, PatientInv, NEW w \in Workers, DecisionStep(w) \/ SpuriousWakeup(w)
    PROVE  PatientInv' /\ Forward
<1> USE DEF Goto, harnessVars, servingVars, queueVars
<1>1. CASE EnterDecisionPhase(w) \/ AwaitResources(w) \/ SpuriousWakeup(w)
  <2>1. PICK l \in {"approve", "waiting", "reserve"} :
           /\ pc[w] \in {"decide", "approve", "waiting", "reserve"}
           /\ pc' = [pc EXCEPT ![w] = l]
           /\ UNCHANGED <<state, event, job, accepted, scheduled, serving, scan>>
    BY <1>1 DEF EnterDecisionPhase, AwaitResources, SpuriousWakeup, Reserving
  <2> USE <2>1
  <2>2. pc'[w] = l
    BY DEF SafeInv, CoreInv, BaseInv, TypeOK
  <2>3. Told(w)'
    BY <2>2, DecidingHarness, SMTT(30) DEF Told, LoadTold, UnloadTold
  <2>4. pc[w] # "idle" /\ l # "idle"
    OBVIOUS
  <2> QED  BY <2>3, <2>4, RequestMoves, SilentForward
<1>2. CASE ApproveLoad(w) \/ ApproveUnload(w)
  <2>1. /\ pc[w] \in {"approve", "reserve"}
        /\ UNCHANGED <<accepted, scheduled, serving, scan>>
    BY <1>2 DEF ApproveLoad, ApproveUnload, Reserving
  <2> USE <2>1
  <2>2. /\ job[w] \in Ids
        /\ w \notin UnloadThreads => state[job[w]] = "kLoadRequested" /\ event[job[w]] = "kStart"
        /\ w \in UnloadThreads => /\ state[job[w]] = "kUnloadRequested"
                                  /\ event[job[w]] = "kAvailable"
    BY DecidingHarness
  <2> USE <2>2
  <2>3. /\ pc' = [pc EXCEPT ![w] = "exec"] /\ job' = job /\ event' = event
        /\ \E s : state' = [state EXCEPT ![job[w]] = s]
    BY <1>2
       DEF ApproveLoad, ApproveUnload, Reserving, Healthy, Approve, TransitionState
  <2> USE <2>3
  <2>4. pc'[w] = "exec"
    BY DEF SafeInv, CoreInv, BaseInv, TypeOK
  <2>5. Told(w)'
    BY <2>4, SMTT(30) DEF Told, LoadTold, UnloadTold
  <2>6. pc[w] # "idle" /\ "exec" # "idle"
    OBVIOUS
  <2> QED  BY <2>5, <2>6, RequestMoves, SilentForward
<1>3. CASE RejectLoad(w)
  <2>1. PICK k : k = job[w]
    OBVIOUS
  <2> USE <2>1
  <2>2. /\ pc[w] \in {"approve", "reserve"} /\ w \notin UnloadThreads
        /\ Reject(w)
        /\ UNCHANGED <<accepted, scheduled, serving, scan>>
    BY <1>3 DEF RejectLoad, Reserving
  <2> USE <2>2
  <2>3. k \in Ids /\ state[k] = "kLoadRequested"
    BY DecidingHarness
  <2> USE <2>3
  <2>4. state' = [state EXCEPT ![k] = "kError"] /\ event' = [event EXCEPT ![k] = "kEnd"]
    BY <1>3 DEF RejectLoad, Healthy, Error
  <2> USE <2>4
  <2>5. Settled(k)' /\ Spares(k)
    BY DEF Settled, Spares, SafeInv, CoreInv, BaseInv, TypeOK
  <2>6. pc'[w] = "idle" /\ job'[w] = NoId /\ SparesOthers(w)
    BY DEF Reject, SparesOthers, SafeInv, CoreInv, BaseInv, TypeOK
  <2>7. KeepsServing /\ pc[w] # "idle" /\ UNCHANGED <<accepted, scheduled>>
    BY DEF KeepsServing
  <2>8. PatientInv'
    BY <2>5, <2>6, <2>7, RequestEnds
  <2> QED  BY <2>8, EndForward
<1> QED  BY <1>1, <1>2, <1>3 DEF DecisionStep

\* LoaderHarness::Load(): kLoading before it, kEnd if it fails for good.
LEMMA PatientLoad ==
    ASSUME SafeInv, PatientInv, NEW w \in Workers,
           BeginLoad(w) \/ LoadSucceeds(w) \/ LoadFails(w)
    PROVE  PatientInv' /\ Forward
<1> USE DEF Goto, servingVars, queueVars
<1>1. /\ pc[w] \in {"exec", "loading"} /\ w \notin UnloadThreads
      /\ UNCHANGED <<job, accepted, scheduled, serving, scan>>
  BY ExecutingHarness DEF BeginLoad, LoadSucceeds, LoadFails, SafeInv
<1> USE <1>1
<1>2. /\ job[w] \in Ids /\ Told(w)
      /\ pc[w] = "exec" => state[job[w]] = "kLoadApproved"
      /\ pc[w] = "loading" => state[job[w]] = "kLoading"
  BY ExecutingHarness DEF SafeInv, PatientInv
<1> USE <1>2
<1>3. /\ pc[w] = "exec" => event[job[w]] = "kStart"
      /\ pc[w] = "loading" => event[job[w]] = "kLoading"
  BY DEF Told, LoadTold
<1> USE <1>3
<1>4. pc[w] # "idle" /\ \A l \in {"loading", "loaded", "finish"} : l # "idle"
  OBVIOUS
<1> USE <1>4
<1>5. ASSUME NEW l, pc' = [pc EXCEPT ![w] = l] PROVE pc'[w] = l
  BY <1>5 DEF SafeInv, CoreInv, BaseInv, TypeOK
<1>6. /\ \A s : state' = [state EXCEPT ![job[w]] = s] => state'[job[w]] = s
      /\ \A e : event' = [event EXCEPT ![job[w]] = e] => event'[job[w]] = e
  BY DEF SafeInv, CoreInv, BaseInv, TypeOK
<1> USE <1>6
<1>7. CASE BeginLoad(w)
  <2>1. /\ pc' = [pc EXCEPT ![w] = "loading"]
        /\ event' = [event EXCEPT ![job[w]] = "kLoading"]
        /\ \E s : state' = [state EXCEPT ![job[w]] = s]
    BY <1>7 DEF BeginLoad, Publish
  <2> USE <2>1
  <2>2. Told(w)'
    BY <1>5 DEF Told, LoadTold
  <2>3. event[job[w]] = "kStart"
    BY <1>7 DEF BeginLoad
  <2> QED  BY <2>2, <2>3, RequestMoves, PublishForward, Ranks
<1>8. CASE LoadSucceeds(w)
  <2>1. /\ pc' = [pc EXCEPT ![w] = "loaded"] /\ event' = event
        /\ state' = [state EXCEPT ![job[w]] = "kReady"] /\ pc[w] = "loading"
    BY <1>8 DEF LoadSucceeds, TransitionState
  <2> USE <2>1
  <2>2. Told(w)'
    BY <1>5 DEF Told, LoadTold
  <2> QED  BY <2>2, RequestMoves, SilentForward
<1>9. CASE LoadFails(w) /\ (job[w] \in cancel \/ tries[w] = MaxNumLoadRetries)
  <2>1. /\ pc' = [pc EXCEPT ![w] = "finish"]
        /\ event' = [event EXCEPT ![job[w]] = "kEnd"]
        /\ state' = [state EXCEPT ![job[w]] = "kError"]
    BY <1>9 DEF LoadFails, Error
  <2> USE <2>1
  <2>2. Told(w)'
    BY <1>5 DEF Told, LoadTold
  <2> QED  BY <2>2, RequestMoves, EndForward
<1>10. CASE LoadFails(w) /\ ~(job[w] \in cancel \/ tries[w] = MaxNumLoadRetries)
  <2>1. UNCHANGED <<state, event, pc>>
    BY <1>10 DEF LoadFails
  <2> USE <2>1
  <2>2. Told(w)'
    BY ToldFrame
  <2>3. pc' = [pc EXCEPT ![w] = pc[w]]
    BY DEF SafeInv, CoreInv, BaseInv, TypeOK
  <2> QED  BY <2>2, <2>3, RequestMoves, SilentForward
<1> QED  BY <1>7, <1>8, <1>9, <1>10

\* UpdateServingMap(): a load finds its servable in the new map; an unload has
\* published kUnloading before it.
LEMMA PatientUpdate ==
    ASSUME SafeInv, PatientInv, NEW w \in Workers,
           \/ BeginUpdateServingMap(w) \/ SwapHandlesMap(w) \/ EndUpdateServingMap(w)
    PROVE  PatientInv' /\ Forward
<1> USE DEF Goto, harnessVars, queueVars
<1>1. /\ pc[w] \in {"exec", "loaded", "swap", "drain"}
      /\ pc[w] = "exec" <=> w \in UnloadThreads /\ pc[w] \notin {"swap", "drain"}
      /\ UNCHANGED <<job, accepted, scheduled>>
  BY DEF BeginUpdateServingMap, SwapHandlesMap, EndUpdateServingMap
<1> USE <1>1
<1>2. /\ job[w] \in Ids /\ Told(w) /\ pc[w] # "idle"
      /\ w \in UnloadThreads => state[job[w]] = "kQuiescing"
  BY ExecutingHarness DEF SafeInv, PatientInv
<1> USE <1>2
<1>3. ASSUME NEW l, pc' = [pc EXCEPT ![w] = l]
      PROVE  pc'[w] = l /\ \A v \in Workers \ {w} : pc'[v] = pc[v]
  BY <1>3 DEF SafeInv, CoreInv, BaseInv, TypeOK
<1>4. \A v \in Workers \ {w} : pc[v] = "swap" => mu = v
  BY DEF SafeInv, CoreInv, BaseInv, Locks
<1> USE <1>4
<1>5. CASE BeginUpdateServingMap(w)
  <2>1. /\ pc' = [pc EXCEPT ![w] = "swap"] /\ mu = Nobody /\ scan' = Ready
        /\ pc[w] = IF w \in UnloadThreads THEN "exec" ELSE "loaded"
        /\ IF w \in UnloadThreads THEN event' = [event EXCEPT ![job[w]] = "kUnloading"]
                                  ELSE event' = event
        /\ UNCHANGED <<state, serving>>
    BY <1>5 DEF BeginUpdateServingMap, Publish
  <2> USE <2>1
  <2>2. SparesOthers(w) /\ KeepsServing
    <3>1. Nobody \notin Workers
      BY WorkersAssumption
    <3> QED  BY <1>3, <3>1 DEF SparesOthers, KeepsServing
  <2>3. /\ Spares(job[w])
        /\ w \in UnloadThreads => event'[job[w]] = "kUnloading"
    BY DEF Spares, SafeInv, CoreInv, BaseInv, TypeOK
  <2> USE <2>3
  <2>4. /\ w \in UnloadThreads => event[job[w]] = "kAvailable"
        /\ w \notin UnloadThreads => state[job[w]] = "kReady" /\ event[job[w]] = "kLoading"
    BY DEF Told, LoadTold, UnloadTold
  <2> USE <2>4
  <2>5. w \notin UnloadThreads => job[w] \in scan'
    BY DEF Ready
  <2>6. pc'[w] = "swap" /\ job'[w] = job[w] /\ state'[job[w]] = state[job[w]]
    BY <1>3
  <2> USE <2>6
  <2>7. Told(w)' /\ pc'[w] # "idle"
    <3>1. CASE w \in UnloadThreads
      BY <3>1, SMTT(30) DEF Told, UnloadTold
    <3>2. CASE w \notin UnloadThreads
      <4>1. event' = event
        BY <3>2
      <4> QED  BY <2>5, <3>2, <4>1, SMTT(30) DEF Told, LoadTold
    <3> QED  BY <3>1, <3>2
  <2>8. PatientInv'
    BY <2>2, <2>7, RequestGoesOn
  <2>9. Forward
    BY SilentForward, PublishForward, Ranks
  <2> QED  BY <2>8, <2>9
<1>6. CASE SwapHandlesMap(w)
  <2>1. /\ pc' = [pc EXCEPT ![w] = "drain"] /\ pc[w] = "swap"
        /\ scan \subseteq serving'
        /\ UNCHANGED <<state, event>>
    BY <1>6 DEF SwapHandlesMap, NewHandlesMaps
  <2> USE <2>1
  <2>2. \A v \in Workers \ {w} : pc[v] # "swap"
    BY DEF SafeInv, CoreInv, BaseInv, Locks
  <2>3. SparesOthers(w) /\ Spares(job[w])
    BY <1>3, <2>2 DEF SparesOthers, Spares
  <2>4. KeepsServing
    BY DEF KeepsServing, SafeInv, Handles
  <2>5. /\ w \in UnloadThreads => event[job[w]] = "kUnloading"
        /\ w \notin UnloadThreads => /\ state[job[w]] = "kReady" /\ event[job[w]] = "kLoading"
                                     /\ job[w] \in serving'
    BY DEF Told, LoadTold, UnloadTold
  <2>6. Told(w)'
    BY <1>3, <2>5, ZenonT(90) DEF Told, LoadTold, UnloadTold
  <2>7. pc'[w] # "idle" /\ job'[w] = job[w]
    BY <1>3
  <2> QED
    BY <2>3, <2>4, <2>6, <2>7, RequestGoesOn, SilentForward
<1>7. CASE EndUpdateServingMap(w)
  <2>1. PICK l \in {"unload", "announce"} :
        /\ pc' = [pc EXCEPT ![w] = l] /\ pc[w] = "drain"
        /\ l = IF w \in UnloadThreads THEN "unload" ELSE "announce"
        /\ state' = state \/ \E s : state' = [state EXCEPT ![job[w]] = s]
        /\ w \notin UnloadThreads => state' = state
        /\ UNCHANGED <<event, serving, scan>>
    BY <1>7 DEF EndUpdateServingMap, TransitionState
  <2> USE <2>1
  <2>2. /\ w \in UnloadThreads => event[job[w]] = "kUnloading"
        /\ w \notin UnloadThreads => /\ state[job[w]] = "kReady" /\ event[job[w]] = "kLoading"
                                     /\ job[w] \in serving
    BY DEF Told, LoadTold, UnloadTold
  <2>3. Told(w)'
    BY <1>3, <2>2, SMTT(30) DEF Told, LoadTold, UnloadTold
  <2>4. l # "idle"
    OBVIOUS
  <2> QED  BY <2>3, <2>4, RequestMoves, SilentForward
<1> QED  BY <1>5, <1>6, <1>7

\* LoaderHarness::Unload(), and what is published at the end.
LEMMA PatientEnd ==
    ASSUME SafeInv, PatientInv, NEW w \in Workers,
           AnnounceAvailable(w) \/ BeginUnload(w) \/ EndUnload(w) \/ AnnounceEnd(w)
    PROVE  PatientInv' /\ Forward
<1> USE DEF Goto, harnessVars, servingVars, queueVars
<1>1. /\ pc[w] \in {"announce", "unload", "unloading", "unloaded"}
      /\ w \in UnloadThreads <=> pc[w] # "announce"
      /\ UNCHANGED <<job, accepted, scheduled, serving, scan>>
  BY SMTT(30) DEF AnnounceAvailable, BeginUnload, EndUnload, AnnounceEnd, SafeInv, CoreInv, BaseInv,
         Labels
<1> USE <1>1
<1>2. /\ job[w] \in Ids /\ Told(w) /\ pc[w] # "idle"
      /\ pc[w] = "unload" => state[job[w]] = "kQuiesced"
      /\ pc[w] = "unloading" => state[job[w]] = "kUnloading"
  BY ExecutingHarness DEF SafeInv, PatientInv
<1> USE <1>2
<1>3. /\ pc[w] = "announce" => /\ state[job[w]] = "kReady" /\ event[job[w]] = "kLoading"
                               /\ job[w] \in serving
      /\ pc[w] \in {"unload", "unloading"} => event[job[w]] = "kUnloading"
      /\ pc[w] = "unloaded" => state[job[w]] = "kDisabled"
  BY DEF Told, LoadTold, UnloadTold
<1> USE <1>3
<1>4. ASSUME NEW l, pc' = [pc EXCEPT ![w] = l] PROVE pc'[w] = l
  BY <1>4 DEF SafeInv, CoreInv, BaseInv, TypeOK
<1>5. /\ \A s : state' = [state EXCEPT ![job[w]] = s] => state'[job[w]] = s
      /\ \A e : event' = [event EXCEPT ![job[w]] = e] => event'[job[w]] = e
  BY DEF SafeInv, CoreInv, BaseInv, TypeOK
<1> USE <1>5
<1>6. \A l \in {"finish", "unloading", "unloaded"} : l # "idle"
  OBVIOUS
<1> USE <1>6
<1>7. CASE AnnounceAvailable(w)
  <2>1. /\ pc' = [pc EXCEPT ![w] = "finish"] /\ state' = state /\ pc[w] = "announce"
        /\ event' = [event EXCEPT ![job[w]] = "kAvailable"]
    BY <1>7 DEF AnnounceAvailable, Publish
  <2> USE <2>1
  <2>2. Told(w)'
    BY <1>4 DEF Told, LoadTold
  <2> QED
    BY <2>2, RequestMoves, PublishForward, Ranks
<1>8. CASE BeginUnload(w) \/ EndUnload(w)
  <2>1. PICK l \in {"unloading", "unloaded"} :
        /\ pc' = [pc EXCEPT ![w] = l] /\ event' = event
        /\ pc[w] \in {"unload", "unloading"}
        /\ \E s : state' = [state EXCEPT ![job[w]] = s]
        /\ l = "unloaded" => state' = [state EXCEPT ![job[w]] = "kDisabled"]
    BY <1>8 DEF BeginUnload, EndUnload, TransitionState
  <2> USE <2>1
  <2>2. Told(w)'
    BY <1>4 DEF Told, UnloadTold
  <2> QED  BY <2>2, RequestMoves, SilentForward
<1>9. CASE AnnounceEnd(w)
  <2>1. /\ pc' = [pc EXCEPT ![w] = "finish"] /\ state' = state /\ pc[w] = "unloaded"
        /\ event' = [event EXCEPT ![job[w]] = "kEnd"]
    BY <1>9 DEF AnnounceEnd, Publish
  <2> USE <2>1
  <2>2. Told(w)'
    BY <1>4 DEF Told, UnloadTold
  <2> QED  BY <2>2, RequestMoves, EndForward
<1> QED  BY <1>7, <1>8, <1>9

\* A request calls its done callback when the last state it has to publish is
\* out.
LEMMA PatientFinish ==
    ASSUME SafeInv, PatientInv, NEW w \in Workers, Finish(w)
    PROVE  PatientInv' /\ Forward
<1>1. PICK k : k = job[w]
  OBVIOUS
<1> USE <1>1
<1>2. /\ pc[w] = "finish" /\ pc' = NotifyAll(w) /\ job' = [job EXCEPT ![w] = NoId]
      /\ UNCHANGED <<state, event, serving, scan, accepted, scheduled>>
  BY DEF Finish, harnessVars, servingVars, queueVars
<1> USE <1>2
<1>3. Told(w)
  BY DEF PatientInv
<1>4. Settled(k)
  BY <1>3, SMTT(30) DEF Told, LoadTold, UnloadTold, Settled
<1>5. Settled(k)' /\ Spares(job[w]) /\ KeepsServing
  BY <1>4, SettledFrame DEF Spares, KeepsServing
<1>6. /\ pc'[w] = "idle" /\ job'[w] = NoId
      /\ \A v \in Workers \ {w} : /\ job'[v] = job[v]
                                  /\ pc'[v] = IF pc[v] = "waiting" THEN "reserve" ELSE pc[v]
  BY DEF NotifyAll, SafeInv, CoreInv, BaseInv, TypeOK
<1> USE <1>6
<1>7. SparesOthers(w) /\ pc[w] # "idle" /\ UNCHANGED <<accepted, scheduled>>
  BY DEF SparesOthers
<1> QED  BY <1>5, <1>7, RequestEnds, SilentForward

\* Calls of the owner, on a servable without a request.
LEMMA PatientCall ==
    ASSUME SafeInv, PatientInv, NEW i \in Ids, ~Busy(i), OwnerCall(i)
    PROVE  PatientInv' /\ Forward
<1> USE DEF workerVars, servingVars, queueVars
<1>1. UNCHANGED <<pc, job, serving, scan>>
  BY DEF OwnerCall, ManageServable, StopManagingServable, LoadServable, UnloadServable
<1> USE <1>1
<1>2. /\ accepted' \subseteq accepted \cup {i}
      /\ scheduled' \subseteq scheduled \cup {<<"unload", i>>}
  BY DEF OwnerCall, ManageServable, StopManagingServable, LoadServable, UnloadServable
<1>3. Settled(i)
  BY DEF PatientInv
<1> USE <1>3
<1> DEFINE Answer == \/ event' = event
                     \/ event' = [event EXCEPT ![i] = "kEnd"]
                     \/ /\ event' = [event EXCEPT ![i] = "kStart"]
                        /\ state[i] = "kUnmanaged"
<1>4. (\E s : state' = [state EXCEPT ![i] = s]) /\ Answer /\ Settled(i)'
  <2>1. /\ \A s : state' = [state EXCEPT ![i] = s] => state'[i] = s
        /\ \A e : event' = [event EXCEPT ![i] = e] => event'[i] = e
    BY DEF SafeInv, CoreInv, BaseInv, TypeOK
  <2> USE <2>1
  <2>2. ASSUME NEW ok \in BOOLEAN, ManageServable(i, ok)
        PROVE  (\E s : state' = [state EXCEPT ![i] = s]) /\ Answer /\ Settled(i)'
    <3>1. CASE ok
      <4>1. /\ state' = [state EXCEPT ![i] = "kNew"] /\ event' = [event EXCEPT ![i] = "kStart"]
            /\ state[i] = "kUnmanaged"
        BY <2>2, <3>1 DEF ManageServable, Publish
      <4> QED  BY <4>1 DEF Settled
    <3>2. CASE ~ok
      <4>1. /\ state' = [state EXCEPT ![i] = "kError"] /\ event' = [event EXCEPT ![i] = "kEnd"]
        BY <2>2, <3>2 DEF ManageServable, Publish
      <4> QED  BY <4>1 DEF Settled
    <3> QED  BY <3>1, <3>2
  <2>3. CASE StopManagingServable(i)
    <3>1. /\ state' = [state EXCEPT ![i] = "kUnmanaged"] /\ event' = event
          /\ state[i] \in {"kNew", "kError", "kDisabled"}
      BY <2>3 DEF StopManagingServable, Removable
    <3> QED  BY <3>1 DEF Settled
  <2>4. CASE LoadServable(i)
    <3>1. /\ state' = [state EXCEPT ![i] = "kLoadRequested"] /\ event' = event
          /\ state[i] = "kNew"
      BY <2>4 DEF LoadServable, LoadRequested
    <3> QED  BY <3>1 DEF Settled
  <2>5. CASE UnloadServable(i)
    <3>1. /\ state' = [state EXCEPT ![i] = "kUnloadRequested"] /\ event' = event
          /\ state[i] = "kReady"
      BY <2>5 DEF UnloadServable
    <3> QED  BY <3>1 DEF Settled
  <2> QED  BY <2>2, <2>3, <2>4, <2>5 DEF OwnerCall
<1> USE <1>4
<1>5. Spares(i)
  BY DEF Spares, SafeInv, CoreInv, BaseInv, TypeOK
<1> USE <1>5
<1>6. \A j \in Ids : Busy(j)' <=> Busy(j)
  BY DEF Busy
<1> USE <1>6
<1>7. OneRequest'
  BY <1>2 DEF PatientInv, OneRequest
<1>8. ASSUME NEW v \in Workers, pc'[v] # "idle" PROVE Told(v)'
  <2>1. Told(v) /\ job[v] \in Ids /\ job[v] # i
    BY <1>8 DEF PatientInv, Busy, SafeInv, CoreInv, BaseInv, Labels
  <2> QED  BY <2>1, ToldFrame DEF Spares
<1>9. ASSUME NEW j \in Ids, ~Busy(j)' PROVE Settled(j)'
  <2>1. CASE j = i
    BY <2>1
  <2>2. CASE j # i
    BY <1>9, <2>2, SettledFrame DEF Spares, PatientInv
  <2> QED  BY <2>1, <2>2
<1>10. Forward
  <2>1. state[i] = "kUnmanaged" => event[i] \in {"none", "kStart", "kEnd"}
    BY DEF Settled
  <2> QED  BY <2>1, SilentForward, EndForward, PublishForward, Ranks
<1> QED  BY <1>7, <1>8, <1>9, <1>10 DEF PatientInv

\* Steps that touch neither requests nor harnesses.
LEMMA PatientQuiet ==
    ASSUME SafeInv, PatientInv, UNCHANGED <<state, event, pc, job, serving, scan>>,
           \A j \in Ids : Busy(j) => /\ j \notin accepted'
                                     /\ <<"load", j>> \notin scheduled'
                                     /\ <<"unload", j>> \notin scheduled'
    PROVE  PatientInv' /\ Forward
<1>1. \A j \in Ids : Busy(j)' <=> Busy(j)
  BY DEF Busy
<1> USE <1>1
<1>2. OneRequest'
  BY DEF PatientInv, OneRequest
<1>3. \A v \in Workers : pc'[v] # "idle" => Told(v)'
  BY ToldFrame DEF PatientInv
<1>4. \A j \in Ids : ~Busy(j)' => Settled(j)'
  BY SettledFrame DEF PatientInv
<1> QED  BY <1>2, <1>3, <1>4, SilentForward DEF PatientInv

\* Every step of a manager with a patient owner.
LEMMA PatientStep ==
    ASSUME SafeInv, PatientInv, [PatientNext]_vars
    PROVE  PatientInv' /\ Forward
<1> USE DEF harnessVars, servingVars, workerVars, queueVars
<1>1. ASSUME UNCHANGED <<accepted, scheduled>>
      PROVE  \A j \in Ids : Busy(j) => /\ j \notin accepted'
                                       /\ <<"load", j>> \notin scheduled'
                                       /\ <<"unload", j>> \notin scheduled'
  BY <1>1 DEF PatientInv, OneRequest
<1>2. ASSUME NEW i \in Ids, ~Busy(i), OwnerCall(i) PROVE PatientInv' /\ Forward
  BY <1>2, PatientCall
<1>3. ASSUME NEW i \in Ids, CancelLoadServableRetry(i) PROVE PatientInv' /\ Forward
  BY <1>1, <1>3, PatientQuiet DEF CancelLoadServableRetry
<1>4. ASSUME NEW pool \in LoadPools, SetNumLoadThreads(pool) PROVE PatientInv' /\ Forward
  BY <1>1, <1>4, PatientQuiet DEF SetNumLoadThreads
<1>5. ASSUME NEW i \in Ids, ScheduleLoad(i) PROVE PatientInv' /\ Forward
  <2>1. CASE load_pool = {}
    <3>1. Inline \in Workers /\ Inline \notin UnloadThreads
      BY WorkersAssumption DEF Workers
    <3> QED
      BY <1>5, <2>1, <3>1, RequestStarts, SilentForward DEF ScheduleLoad, Goto
  <2>2. CASE load_pool # {}
    <3>1. /\ i \in accepted /\ accepted' \subseteq accepted
          /\ scheduled' = scheduled \cup {<<"load", i>>}
          /\ UNCHANGED <<state, event, pc, job, serving, scan>>
      BY <1>5, <2>2 DEF ScheduleLoad
    <3> USE <3>1
    <3>2. \A j \in Ids : Busy(j) => /\ j \notin accepted'
                                    /\ <<"load", j>> \notin scheduled'
                                    /\ <<"unload", j>> \notin scheduled'
      BY DEF PatientInv, OneRequest
    <3> QED  BY <3>2, PatientQuiet
  <2> QED  BY <2>1, <2>2
<1>6. CASE LoadExecutorReset
  BY <1>1, <1>6, PatientQuiet DEF LoadExecutorReset
<1>7. ASSUME NEW c \in Clients, ClientNext(c) PROVE PatientInv' /\ Forward
  BY <1>1, <1>7, PatientQuiet
     DEF ClientNext, GetUntypedServableHandle, ReleaseHandle,
         GetAvailableUntypedServableHandles
<1>8. ASSUME NEW w \in Workers, NEW i \in Ids, Start(w, i) PROVE PatientInv' /\ Forward
  BY <1>8, RequestStarts, SilentForward DEF Start, Goto
<1>9. ASSUME NEW w \in Workers, DecisionStep(w) \/ SpuriousWakeup(w) \/ ExecutionStep(w)
      PROVE  PatientInv' /\ Forward
  BY <1>9, PatientDecision, PatientLoad, PatientUpdate, PatientEnd, PatientFinish
     DEF ExecutionStep
<1>10. CASE UNCHANGED vars
  BY <1>1, <1>10, PatientQuiet DEF vars
<1> QED
  BY <1>2, <1>3, <1>4, <1>5, <1>6, <1>7, <1>8, <1>9, <1>10
     DEF PatientNext, Internal, WorkerNext

\* Initially nothing is published and nobody works.
LEMMA InitPatient == Init => PatientInv
BY EstimateAssumption DEF Init, PatientInv, OneRequest, Busy, Settled

\* The invariant of a manager with a patient owner.
THEOREM PatientInvariant == PatientSpec => [](SafeInv /\ PatientInv)
<1>1. SafeInv /\ PatientInv /\ [PatientNext]_vars => (SafeInv /\ PatientInv)'
  BY SafeStep, PatientIsOwner, PatientStep
<1> QED  BY InitSafe, InitPatient, <1>1, PTL DEF PatientSpec

\* When nothing is under way for a servable, its last published state tells
\* the state of its harness, and an available one is in the handles map.
THEOREM EventsTellTheState == PatientSpec => []EventsTellState
<1>1. ASSUME SafeInv, PatientInv PROVE EventsTellState
  <2> SUFFICES ASSUME NEW i \in Ids, ~Busy(i)
               PROVE  /\ state[i] = "kNew" => event[i] = "kStart"
                      /\ state[i] = "kReady" => event[i] = "kAvailable" /\ i \in serving
                      /\ state[i] \in {"kDisabled", "kError"} => event[i] = "kEnd"
                      /\ event[i] = "kAvailable" => state[i] \in {"kReady", "kUnloadRequested"}
    BY DEF EventsTellState
  <2>1. Settled(i)
    BY <1>1 DEF PatientInv
  <2>2. ~ \E w \in Workers : Owns(w) /\ job[w] = i
    BY DEF Busy
  <2>3. state[i] \in InTransit => state[i] \in {"kLoadRequested", "kUnloadRequested"}
    BY <1>1, <2>2 DEF SafeInv, Ownership
  <2>4. state[i] \in HarnessState \cup {"kUnmanaged"}
    BY <1>1 DEF SafeInv, CoreInv, BaseInv, TypeOK
  <2> QED  BY <2>1, <2>3, <2>4, SMTT(30) DEF Settled, InTransit, HarnessState
<1> QED  BY <1>1, PatientInvariant, PTL

\* The states published for a servable only move forward, until it is managed
\* anew.
THEOREM EventsAlwaysMoveForward == PatientSpec => EventsMoveForward
<1>1. SafeInv /\ PatientInv /\ [PatientNext]_vars =>
         [\A i \in Ids : \/ Rank(event[i]) =< Rank(event'[i])
                         \/ event[i] = "kEnd" /\ event'[i] = "kStart"]_vars
  BY PatientStep DEF Forward
<1> QED  BY <1>1, PatientInvariant, PTL DEF PatientSpec, EventsMoveForward
-----------------------------------------------------------------------------
(***************************************************************************)
(* The calls of CachingManager.                                            *)
(*                                                                         *)
(* MutexInv is about load_mutex_map_ alone: whoever refers to the mutex of *)
(* a servable refers to the one in the map.  It gives exclusion.           *)
(***************************************************************************)

\* Places in LoadServable() with a reference to a mutex.
Referring == Critical \cup {"lock", "reset"}

CallTypes ==
    /\ at \in [Clients -> Referring \cup {"idle", "find", "erase", "get"}]
    /\ target \in [Clients -> Ids \cup {NoId}]
    /\ load_mutex_map \in [Ids -> Mutexes \cup {NoMutex}]
    /\ servable_id_mu \in [Clients -> Mutexes \cup {NoMutex}]
    /\ locked \in [Mutexes -> Clients \cup {Nobody}]

MutexInv ==
    /\ CallTypes
    /\ \A c \in Clients : at[c] # "idle" => target[c] \in Ids
    /\ \A c \in Clients : at[c] \in Referring =>
           servable_id_mu[c] \in Mutexes /\ load_mutex_map[target[c]] = servable_id_mu[c]
    /\ \A c \in Clients : at[c] \notin Referring => servable_id_mu[c] = NoMutex
    /\ \A c \in Clients : at[c] \in Critical => locked[servable_id_mu[c]] = c
    /\ \A m \in Mutexes : locked[m] # Nobody =>
           at[locked[m]] \in Critical /\ servable_id_mu[locked[m]] = m
    /\ \A i, j \in Ids : load_mutex_map[i] = load_mutex_map[j] /\ load_mutex_map[i] # NoMutex
           => i = j

USE MutexAssumption, WorkersAssumption, EstimateAssumption

LEMMA InitMutex == CachingInit => MutexInv
BY SMTT(30) DEF CachingInit, MutexInv, CallTypes, Referring, Critical

\* There is a mutex object that nothing refers to.
LEMMA NewMutexIsNew ==
    ASSUME MutexInv, NEW d \in Clients, servable_id_mu[d] = NoMutex
    PROVE  /\ NewMutex \in Mutexes
           /\ \A c \in Clients : servable_id_mu[c] # NewMutex
           /\ \A i \in Ids : load_mutex_map[i] # NewMutex
<1> DEFINE A == {load_mutex_map[i] : i \in Ids}
           B == {servable_id_mu[c] : c \in Clients}
<1>1. IsFiniteSet(A) /\ Cardinality(A) =< Cardinality(Ids)
  <2>1. load_mutex_map \in Surjection(Ids, A)
    BY SMTT(30) DEF MutexInv, CallTypes, Surjection
  <2> QED  BY <2>1, FS_Surjection
<1> USE <1>1
<1>2. IsFiniteSet(B) /\ Cardinality(B) =< Cardinality(Clients)
  <2>1. servable_id_mu \in Surjection(Clients, B)
    BY SMTT(30) DEF MutexInv, CallTypes, Surjection
  <2> QED  BY <2>1, FS_Surjection
<1> USE <1>2
<1>3. /\ IsFiniteSet(A \cup B)
      /\ Cardinality(A \cup B) = Cardinality(A) + Cardinality(B) - Cardinality(A \cap B)
  BY FS_Union
<1> USE <1>3
<1>4. /\ Cardinality(A) \in Nat /\ Cardinality(B) \in Nat
      /\ Cardinality(Ids) \in Nat /\ Cardinality(Clients) \in Nat /\ Cardinality(Mutexes) \in Nat
      /\ IsFiniteSet(A \cap B) /\ Cardinality(A \cap B) \in Nat
  BY FS_CardinalityType, FS_Intersection
<1> USE <1>4
<1>5. Cardinality(A \cup B) =< Cardinality(Mutexes)
  <2> HIDE DEF A, B
  <2> QED  BY SMTT(30)
<1>6. NoMutex \in A \cup B
  OBVIOUS
<1>7. \E m \in Mutexes : m \notin A \cup B
  <2> SUFFICES ASSUME Mutexes \subseteq A \cup B PROVE FALSE
    OBVIOUS
  <2> HIDE DEF A, B
  <2>1. /\ Cardinality(Mutexes) =< Cardinality(A \cup B)
        /\ Cardinality(A \cup B) = Cardinality(Mutexes) => A \cup B = Mutexes
    BY FS_Subset
  <2>2. Cardinality(A \cup B) \in Nat
    BY FS_CardinalityType
  <2> QED  BY <1>5, <1>6, <2>1, <2>2, SMTT(30)
<1>8. \E m \in Mutexes : References(m) = {} /\ \A i \in Ids : load_mutex_map[i] # m
  BY <1>7, SMTT(30) DEF References
<1>9. /\ NewMutex \in Mutexes
      /\ References(NewMutex) = {} /\ \A i \in Ids : load_mutex_map[i] # NewMutex
  BY <1>8 DEF NewMutex
<1> QED  BY <1>9 DEF References

LEMMA FindMutex ==
    ASSUME MutexInv, NEW c \in Clients, FindLoadMutex(c)
    PROVE  MutexInv'
<1> DEFINE i == target[c]
           m == IF load_mutex_map[i] = NoMutex THEN NewMutex ELSE load_mutex_map[i]
<1>1. /\ at[c] = "find" /\ i \in Ids /\ servable_id_mu[c] = NoMutex
      /\ at' = [at EXCEPT ![c] = "lock"]
      /\ load_mutex_map' = [load_mutex_map EXCEPT ![i] = m]
      /\ servable_id_mu' = [servable_id_mu EXCEPT ![c] = m]
      /\ target' = target /\ locked' = locked
  BY DEF FindLoadMutex, GoOn, MutexInv, Referring, Critical
<1> USE <1>1
<1>2. /\ m \in Mutexes
      /\ \A j \in Ids : load_mutex_map[j] = m => j = i
  <2>1. CASE load_mutex_map[i] = NoMutex
    BY <2>1, NewMutexIsNew
  <2>2. CASE load_mutex_map[i] # NoMutex
    BY <2>2, SMTT(30) DEF MutexInv, CallTypes
  <2> QED  BY <2>1, <2>2
<1> USE <1>2
<1>3. \A d \in Clients : at[d] \in Referring /\ target[d] = i => servable_id_mu[d] = m
  BY DEF MutexInv
<1> HIDE DEF m
<1>4. CallTypes'
  BY DEF MutexInv, CallTypes, Referring
<1> QED
  BY <1>3, <1>4, SMTT(30) DEF MutexInv, CallTypes, Referring, Critical

\* A client that holds a mutex gives it up, and with an error also its reference.
LEMMA GiveUpMutex ==
    ASSUME MutexInv, NEW c \in Clients, at[c] \in Critical,
           \/ ReturnError(c)
           \/ Unlock(c) /\ GoOn(c, "reset") /\ UNCHANGED <<target, load_mutex_map, servable_id_mu>>
    PROVE  MutexInv'
<1> DEFINE m == servable_id_mu[c]
<1>1. m \in Mutexes /\ locked[m] = c /\ c # Nobody
  BY DEF MutexInv, Referring
<1> USE <1>1
<1>2. locked' = [locked EXCEPT ![m] = Nobody] /\ load_mutex_map' = load_mutex_map
  BY DEF ReturnError, Unlock
<1> USE <1>2
<1>3. \A d \in Clients : d # c /\ at[d] \in Critical => servable_id_mu[d] # m
  BY DEF MutexInv
<1> USE <1>3
<1>4. CASE ReturnError(c)
  <2>1. /\ at' = [at EXCEPT ![c] = "idle"] /\ target' = [target EXCEPT ![c] = NoId]
        /\ servable_id_mu' = [servable_id_mu EXCEPT ![c] = NoMutex]
    BY <1>4 DEF ReturnError, Return, GoOn
  <2> QED  BY <2>1, SMTT(30) DEF MutexInv, CallTypes, Referring, Critical
<1>5. CASE /\ Unlock(c) /\ GoOn(c, "reset")
           /\ UNCHANGED <<target, load_mutex_map, servable_id_mu>>
  <2>1. at' = [at EXCEPT ![c] = "reset"]
    BY <1>5 DEF GoOn
  <2> QED  BY <1>5, <2>1, SMTT(30) DEF MutexInv, CallTypes, Referring, Critical
<1> QED  BY <1>4, <1>5

\* A step within the locked block.
LEMMA StayLocked ==
    ASSUME MutexInv, NEW c \in Clients, at[c] \in Critical,
           NEW place \in Critical, GoOnLocked(c, place)
    PROVE  MutexInv'
<1>1. /\ at' = [at EXCEPT ![c] = place]
      /\ UNCHANGED <<target, load_mutex_map, servable_id_mu, locked>>
  BY DEF GoOnLocked, GoOn
<1> QED  BY <1>1, SMTT(30) DEF MutexInv, CallTypes, Referring, Critical

LEMMA EraseMutex ==
    ASSUME MutexInv, NEW c \in Clients, MaybeEraseLoadMutexMapEntry(c)
    PROVE  MutexInv'
<1>1. /\ at[c] = "erase" /\ at' = [at EXCEPT ![c] = "get"]
      /\ UNCHANGED <<target, servable_id_mu, locked>>
      /\ target[c] \in Ids
  BY DEF MaybeEraseLoadMutexMapEntry, GoOn, MutexInv
<1> USE <1>1
<1>2. CASE load_mutex_map' = load_mutex_map
  BY <1>2, SMTT(30) DEF MutexInv, CallTypes, Referring, Critical
<1>3. CASE /\ Unique(load_mutex_map[target[c]])
           /\ load_mutex_map' = [load_mutex_map EXCEPT ![target[c]] = NoMutex]
  <2>1. \A d \in Clients : at[d] \in Referring => target[d] # target[c]
    BY <1>3 DEF MutexInv, Unique, References
  <2>2. CallTypes'
    BY <1>3 DEF MutexInv, CallTypes, Referring
  <2>3. \A d \in Clients : at'[d] \in Referring => at[d] \in Referring /\ d # c
    BY SMTT(30) DEF MutexInv, CallTypes, Referring, Critical
  <2>4. \A d \in Clients : at'[d] \in Critical => at[d] \in Critical
    BY SMTT(30) DEF MutexInv, CallTypes, Critical
  <2> QED  BY <1>3, <2>1, <2>2, <2>3, <2>4, SMTT(30) DEF MutexInv, CallTypes, Referring, Critical
<1> QED  BY <1>2, <1>3 DEF MaybeEraseLoadMutexMapEntry

LEMMA MutexStep == MutexInv /\ [CachingNext]_cachingVars => MutexInv'
<1> SUFFICES ASSUME MutexInv, [CachingNext]_cachingVars PROVE MutexInv'
  OBVIOUS
<1>1. CASE UNCHANGED callVars
  BY <1>1 DEF callVars, MutexInv, CallTypes
<1>2. ASSUME NEW c \in Clients, NEW i \in Ids, BeginLoadServable(c, i) PROVE MutexInv'
  <2>1. /\ at[c] = "idle" /\ at' = [at EXCEPT ![c] = "find"]
        /\ target' = [target EXCEPT ![c] = i]
        /\ UNCHANGED <<load_mutex_map, servable_id_mu, locked>>
    BY <1>2 DEF BeginLoadServable, GoOn
  <2> QED  BY <2>1, SMTT(30) DEF MutexInv, CallTypes, Referring, Critical
<1>3. ASSUME NEW c \in Clients, LockLoadMutex(c) PROVE MutexInv'
  <2>1. /\ at[c] = "lock" /\ at' = [at EXCEPT ![c] = "snapshot"]
        /\ locked[servable_id_mu[c]] = Nobody
        /\ locked' = [locked EXCEPT ![servable_id_mu[c]] = c]
        /\ UNCHANGED <<target, load_mutex_map, servable_id_mu>>
    BY <1>3 DEF LockLoadMutex, GoOn
  <2> USE <2>1
  <2>2. servable_id_mu[c] \in Mutexes
    BY DEF MutexInv, Referring
  <2> QED  BY <2>2, SMTT(30) DEF MutexInv, CallTypes, Referring, Critical
<1>4. ASSUME NEW c \in Clients, GetManagedServableStateSnapshot(c) PROVE MutexInv'
  <2>1. /\ at[c] \in Critical
        /\ GoOnLocked(c, "manage") \/ GoOnLocked(c, "unlock") \/ ReturnError(c)
    BY <1>4 DEF GetManagedServableStateSnapshot, Critical
  <2> QED  BY <2>1, GiveUpMutex, StayLocked DEF Critical
<1>5. ASSUME NEW c \in Clients, ManageLoader(c) PROVE MutexInv'
  BY <1>5, StayLocked DEF ManageLoader, Critical
<1>6. ASSUME NEW c \in Clients, RequestLoad(c) PROVE MutexInv'
  BY <1>6, GiveUpMutex, StayLocked DEF RequestLoad, Critical
<1>7. ASSUME NEW c \in Clients, WaitForNotification(c) PROVE MutexInv'
  BY <1>7, GiveUpMutex, StayLocked DEF WaitForNotification, Critical
<1>8. ASSUME NEW c \in Clients, UnlockLoadMutex(c) PROVE MutexInv'
  BY <1>8, GiveUpMutex DEF UnlockLoadMutex, Critical
<1>9. ASSUME NEW c \in Clients, ResetLoadMutex(c) PROVE MutexInv'
  <2>1. /\ at[c] = "reset" /\ at' = [at EXCEPT ![c] = "erase"]
        /\ servable_id_mu' = [servable_id_mu EXCEPT ![c] = NoMutex]
        /\ UNCHANGED <<target, load_mutex_map, locked>>
    BY <1>9 DEF ResetLoadMutex, GoOn
  <2> QED  BY <2>1, SMTT(30) DEF MutexInv, CallTypes, Referring, Critical
<1>10. ASSUME NEW c \in Clients, GetLoadedHandle(c) PROVE MutexInv'
  <2>1. /\ at[c] = "get" /\ at' = [at EXCEPT ![c] = "idle"]
        /\ target' = [target EXCEPT ![c] = NoId]
        /\ UNCHANGED <<load_mutex_map, servable_id_mu, locked>>
    BY <1>10 DEF GetLoadedHandle, Return, GoOn
  <2> QED  BY <2>1, SMTT(30) DEF MutexInv, CallTypes, Referring, Critical
<1>11. CASE UNCHANGED cachingVars \/ ManagerStep
            \/ \E c \in Clients, i \in Ids : GetCachedHandle(c, i)
  <2>1. UNCHANGED callVars
    BY <1>11 DEF cachingVars, ManagerStep, GetCachedHandle
  <2> QED  BY <1>1, <2>1
<1> QED
  BY <1>2, <1>3, <1>4, <1>5, <1>6, <1>7, <1>8, <1>9, <1>10, <1>11, FindMutex, EraseMutex
     DEF CachingNext, CallStep

\* Requests that refer to the mutex of one servable keep its entry in the map,
\* and at most one of them holds it.
THEOREM MutexInvariant == CachingSpec => []MutexInv
BY InitMutex, MutexStep, PTL DEF CachingSpec

\* Types, and a mutex is held by a request that refers to it.
THEOREM CachingTypeCorrect == CachingSpec => []CachingTypeOK
<1>1. MutexInv => CachingTypeOK
  BY SMTT(30) DEF MutexInv, CallTypes, CachingTypeOK, Referring, Critical
<1> QED  BY <1>1, MutexInvariant, PTL

LEMMA MutexExcludes == MutexInv => LoadsAreExclusive
BY SMTT(30) DEF MutexInv, Referring, LoadsAreExclusive

\* Requests for the same servable exclude each other from its load, whoever
\* erases the entry of load_mutex_map_ or makes a new one meanwhile.
THEOREM ExclusiveLoads == CachingSpec => []LoadsAreExclusive
BY MutexExcludes, MutexInvariant, PTL
-----------------------------------------------------------------------------
(***************************************************************************)
(* What CachingManager does to its BasicManager.                           *)
(***************************************************************************)
LEMMA CallsAreSteps == MutexInv /\ [CachingNext]_cachingVars => [Next]_vars
<1> SUFFICES ASSUME MutexInv, [CachingNext]_cachingVars PROVE [Next]_vars
  OBVIOUS
<1>1. ASSUME NEW c \in Clients, ManageLoader(c) \/ RequestLoad(c) PROVE [Next]_vars
  <2>1. target[c] \in Ids
    BY <1>1 DEF ManageLoader, RequestLoad, MutexInv
  <2> QED  BY <1>1, <2>1 DEF ManageLoader, RequestLoad, Next, OwnerCall
<1>2. ASSUME NEW c \in Clients, GetLoadedHandle(c) PROVE [Next]_vars
  <2>1. target[c] \in Ids
    BY <1>2 DEF GetLoadedHandle, MutexInv
  <2> QED  BY <1>2, <2>1 DEF GetLoadedHandle, Next, Internal, ClientNext
<1>3. ASSUME NEW c \in Clients, NEW i \in Ids, GetCachedHandle(c, i) PROVE [Next]_vars
  BY <1>3 DEF GetCachedHandle, Next, Internal, ClientNext
<1>4. CASE ManagerStep
  BY <1>4 DEF ManagerStep, Next, Internal, ClientNext
<1>5. CASE UNCHANGED vars
  BY <1>5
<1>6. ASSUME NEW c \in Clients,
             \/ FindLoadMutex(c) \/ LockLoadMutex(c) \/ GetManagedServableStateSnapshot(c)
             \/ WaitForNotification(c) \/ UnlockLoadMutex(c) \/ ResetLoadMutex(c)
             \/ MaybeEraseLoadMutexMapEntry(c)
      PROVE  UNCHANGED vars
  BY <1>6 DEF FindLoadMutex, LockLoadMutex, GetManagedServableStateSnapshot,
              WaitForNotification, UnlockLoadMutex, ResetLoadMutex, MaybeEraseLoadMutexMapEntry
<1>7. ASSUME NEW c \in Clients, NEW i \in Ids, BeginLoadServable(c, i) PROVE UNCHANGED vars
  BY <1>7 DEF BeginLoadServable
<1>8. CASE UNCHANGED cachingVars
  BY <1>8 DEF cachingVars
<1> QED
  BY <1>1, <1>2, <1>3, <1>4, <1>5, <1>6, <1>7, <1>8 DEF CachingNext, CallStep

\* The BasicManager below is the one of that module, so its invariants hold.
LEMMA ManagerInvariant == CachingSpec => []SafeInv
<1>1. CachingInit => SafeInv
  BY InitSafe DEF CachingInit
<1>2. MutexInv /\ SafeInv /\ [CachingNext]_cachingVars => SafeInv'
  BY CallsAreSteps, SafeStep
<1> QED  BY <1>1, <1>2, MutexInvariant, PTL DEF CachingSpec

\* A servable under way is one that a request waits for, and nothing is unloaded.
WaitInv ==
    /\ \A i \in Ids : <<"unload", i>> \notin scheduled
    /\ \A i \in Ids : ~LoadDone(i) => \E c \in Clients : at[c] = "wait" /\ target[c] = i

LEMMA InitWait == CachingInit => WaitInv
BY SMTT(30) DEF CachingInit, Init, WaitInv, LoadDone, Busy

\* The manager begins nothing of its own accord, and leaves alone what is done.
LEMMA DoneStaysDone ==
    ASSUME SafeInv, ManagerStep, \A i \in Ids : <<"unload", i>> \notin scheduled,
           NEW i \in Ids
    PROVE  /\ <<"unload", i>> \notin scheduled'
           /\ LoadDone(i) => LoadDone(i)'
<1>1. job \in [Workers -> Ids \cup {NoId}] /\ pc \in [Workers -> PC]
  BY DEF SafeInv, CoreInv, BaseInv, TypeOK
<1> USE <1>1
<1>2. CASE \E j \in Ids : ScheduleLoad(j)
  <2>1. PICK j \in Ids : ScheduleLoad(j)
    BY <1>2
  <2>2. /\ j \in accepted /\ accepted' = accepted \ {j}
        /\ \/ job' = [job EXCEPT ![Inline] = j] /\ scheduled' = scheduled
           \/ job' = job /\ scheduled' = scheduled \cup {<<"load", j>>}
    BY <2>1 DEF ScheduleLoad
  <2> QED  BY <2>2, SMTT(30) DEF LoadDone, Busy, Workers
<1>3. CASE \E w \in Workers, j \in Ids : Start(w, j)
  <2>1. PICK w \in Workers, j \in Ids : Start(w, j)
    BY <1>3
  <2>2. /\ <<Kind(w), j>> \in scheduled /\ scheduled' = scheduled \ {<<Kind(w), j>>}
        /\ job' = [job EXCEPT ![w] = j] /\ accepted' = accepted
    BY <2>1 DEF Start
  <2> USE <2>2
  <2>3. Kind(w) = "load"
    BY DEF Kind
  <2> QED  BY <2>3 DEF LoadDone, Busy
<1>4. CASE \E w \in Workers : DecisionStep(w) \/ SpuriousWakeup(w) \/ ExecutionStep(w)
  <2>1. PICK w \in Workers : DecisionStep(w) \/ SpuriousWakeup(w) \/ ExecutionStep(w)
    BY <1>4
  <2> USE <2>1
  <2>2. accepted' = accepted /\ scheduled' = scheduled
    BY DEF DecisionStep, EnterDecisionPhase, ApproveLoad, RejectLoad, AwaitResources,
                ApproveUnload, SpuriousWakeup, ExecutionStep, BeginLoad, LoadSucceeds,
                LoadFails, BeginUpdateServingMap, SwapHandlesMap, EndUpdateServingMap,
                AnnounceAvailable, BeginUnload, EndUnload, AnnounceEnd, Finish, queueVars
  <2>3. job' = job \/ job' = [job EXCEPT ![w] = NoId]
    <3>1. CASE DecisionStep(w) \/ SpuriousWakeup(w)
      BY <3>1 DEF DecisionStep, EnterDecisionPhase, ApproveLoad, RejectLoad, AwaitResources,
                  ApproveUnload, Approve, Reject, SpuriousWakeup
    <3>2. CASE ExecutionStep(w)
      BY <3>2 DEF ExecutionStep, BeginLoad, LoadSucceeds,
                  LoadFails, BeginUpdateServingMap, SwapHandlesMap, EndUpdateServingMap,
                  AnnounceAvailable, BeginUnload, EndUnload, AnnounceEnd, Finish
    <3> QED  BY <3>1, <3>2
  <2> QED  BY <2>2, <2>3 DEF LoadDone, Busy
<1>5. CASE \/ \E c \in Clients, j \in Ids : ReleaseHandle(c, j)
           \/ \E c \in Clients : GetAvailableUntypedServableHandles(c)
  <2>1. accepted' = accepted /\ scheduled' = scheduled /\ job' = job
    BY <1>5 DEF ReleaseHandle, GetAvailableUntypedServableHandles, workerVars, queueVars
  <2> QED  BY <2>1 DEF LoadDone, Busy
<1> QED  BY <1>2, <1>3, <1>4, <1>5 DEF ManagerStep, WorkerNext

LEMMA WaitStep ==
    MutexInv /\ SafeInv /\ WaitInv /\ [CachingNext]_cachingVars => WaitInv'
<1> SUFFICES ASSUME MutexInv, SafeInv, WaitInv, [CachingNext]_cachingVars PROVE WaitInv'
  OBVIOUS
<1>0. at \in [Clients -> Referring \cup {"idle", "find", "erase", "get"}]
      /\ target \in [Clients -> Ids \cup {NoId}]
  BY DEF MutexInv, CallTypes
<1> USE <1>0
<1>1. CASE ManagerStep
  <2>1. at' = at /\ target' = target
    BY <1>1 DEF ManagerStep, callVars
  <2> QED  BY <1>1, <2>1, DoneStaysDone DEF WaitInv
\* Steps of a client that does not wait, and changes no request of the manager.
<1>2. ASSUME NEW c \in Clients, at[c] # "wait",
             \A d \in Clients \ {c} : at'[d] = at[d] /\ target'[d] = target[d],
             UNCHANGED <<accepted, scheduled, job>>
      PROVE  WaitInv'
  BY <1>2 DEF WaitInv, LoadDone, Busy
<1>3. ASSUME NEW c \in Clients, WaitForNotification(c) PROVE WaitInv'
  <2>1. /\ at[c] = "wait" /\ LoadDone(target[c]) /\ UNCHANGED <<accepted, scheduled, job>>
    BY <1>3 DEF WaitForNotification, vars
  <2>2. \A d \in Clients \ {c} : at'[d] = at[d] /\ target'[d] = target[d]
    BY <1>3, SMTT(30) DEF WaitForNotification, GoOnLocked, ReturnError, Return, GoOn
  <2> QED  BY <2>1, <2>2, SMTT(30) DEF WaitInv, LoadDone, Busy
<1>4. ASSUME NEW c \in Clients, RequestLoad(c) PROVE WaitInv'
  <2>1. \A d \in Clients \ {c} : at'[d] = at[d] /\ target'[d] = target[d]
    BY <1>4, SMTT(30) DEF RequestLoad, GoOnLocked, ReturnError, Return, GoOn
  <2> USE <2>1
  <2>2. CASE ~Healthy(target[c])
    <3>1. at[c] # "wait" /\ UNCHANGED <<accepted, scheduled, job>>
      BY <1>4, <2>2 DEF RequestLoad, vars
    <3> QED  BY <1>2, <3>1
  <2>3. CASE Healthy(target[c])
    <3>1. /\ at'[c] = "wait" /\ target'[c] = target[c] /\ at[c] # "wait"
          /\ accepted' = accepted \cup {target[c]} /\ UNCHANGED <<scheduled, job>>
      BY <1>4, <2>3 DEF RequestLoad, LoadServable, GoOnLocked, GoOn, workerVars
    <3> QED  BY <3>1, SMTT(30) DEF WaitInv, LoadDone, Busy
  <2> QED  BY <2>2, <2>3
<1>5. ASSUME NEW c \in Clients,
             \/ FindLoadMutex(c) \/ LockLoadMutex(c) \/ GetManagedServableStateSnapshot(c)
             \/ ManageLoader(c) \/ UnlockLoadMutex(c) \/ ResetLoadMutex(c)
             \/ MaybeEraseLoadMutexMapEntry(c) \/ GetLoadedHandle(c)
      PROVE  WaitInv'
  <2>1. at[c] # "wait"
    BY <1>5 DEF FindLoadMutex, LockLoadMutex, GetManagedServableStateSnapshot, ManageLoader,
                UnlockLoadMutex, ResetLoadMutex, MaybeEraseLoadMutexMapEntry, GetLoadedHandle
  <2>2. \A d \in Clients \ {c} : at'[d] = at[d] /\ target'[d] = target[d]
    BY <1>5, SMTT(30) DEF FindLoadMutex, LockLoadMutex, GetManagedServableStateSnapshot, ManageLoader,
                UnlockLoadMutex, ResetLoadMutex, MaybeEraseLoadMutexMapEntry, GetLoadedHandle,
                GoOnLocked, ReturnError, Return, GoOn
  <2>3. UNCHANGED <<accepted, scheduled, job>>
    BY <1>5 DEF FindLoadMutex, LockLoadMutex, GetManagedServableStateSnapshot, ManageLoader,
                UnlockLoadMutex, ResetLoadMutex, MaybeEraseLoadMutexMapEntry, GetLoadedHandle,
                vars, ManageServable, workerVars, queueVars, GetUntypedServableHandle
  <2> QED  BY <1>2, <2>1, <2>2, <2>3
<1>6. ASSUME NEW c \in Clients, NEW i \in Ids, GetCachedHandle(c, i) \/ BeginLoadServable(c, i)
      PROVE  WaitInv'
  <2>1. at[c] # "wait" /\ UNCHANGED <<accepted, scheduled, job>>
    BY <1>6 DEF GetCachedHandle, BeginLoadServable, vars, GetUntypedServableHandle,
                workerVars, queueVars
  <2>2. \A d \in Clients \ {c} : at'[d] = at[d] /\ target'[d] = target[d]
    BY <1>6, SMTT(30) DEF GetCachedHandle, BeginLoadServable, GoOn, callVars
  <2> QED  BY <1>2, <2>1, <2>2
<1>7. CASE UNCHANGED cachingVars
  BY <1>7 DEF cachingVars, vars, callVars, WaitInv, LoadDone, Busy
<1> QED
  BY <1>1, <1>3, <1>4, <1>5, <1>6, <1>7 DEF CachingNext, CallStep

LEMMA WaitInvariant == CachingSpec => []WaitInv
BY InitWait, WaitStep, MutexInvariant, ManagerInvariant, PTL DEF CachingSpec

\* CachingManager waits for the manager to be done with a servable before it
\* asks for anything of that servable again, whatever the requests it serves.
THEOREM CachingManagerIsPatient == CachingSpec => ImplementsPatientOwner
<1>1. CachingInit => Init
  BY DEF CachingInit
<1>2. MutexInv /\ WaitInv /\ [CachingNext]_cachingVars => [PatientNext]_vars
  <2> SUFFICES ASSUME MutexInv, WaitInv, [CachingNext]_cachingVars PROVE [PatientNext]_vars
    OBVIOUS
  <2>1. ASSUME NEW c \in Clients, ManageLoader(c) \/ RequestLoad(c) PROVE [PatientNext]_vars
    <3>1. at[c] \in {"manage", "load"}
      BY <2>1 DEF ManageLoader, RequestLoad
    <3> USE <3>1
    <3>2. target[c] \in Ids
      BY DEF MutexInv
    <3> USE <3>2
    <3>3. ~Busy(target[c])
      <4> SUFFICES ASSUME Busy(target[c]) PROVE FALSE
        OBVIOUS
      <4>1. PICK d \in Clients : at[d] = "wait" /\ target[d] = target[c]
        BY DEF WaitInv, LoadDone
      <4> USE <4>1
      <4>2. c # d /\ at[c] \in Critical /\ at[d] \in Critical
        BY DEF Critical
      <4> QED  BY <4>2, MutexExcludes DEF LoadsAreExclusive
    <3> QED  BY <2>1, <3>3 DEF ManageLoader, RequestLoad, PatientNext, OwnerCall
  <2>2. ASSUME NEW c \in Clients, GetLoadedHandle(c) PROVE [PatientNext]_vars
    <3>1. target[c] \in Ids
      BY <2>2 DEF GetLoadedHandle, MutexInv
    <3> QED  BY <2>2, <3>1 DEF GetLoadedHandle, PatientNext, Internal, ClientNext
  <2>3. ASSUME NEW c \in Clients, NEW i \in Ids, GetCachedHandle(c, i) PROVE [PatientNext]_vars
    BY <2>3 DEF GetCachedHandle, PatientNext, Internal, ClientNext
  <2>4. CASE ManagerStep
    BY <2>4 DEF ManagerStep, PatientNext, Internal, ClientNext
  <2>5. ASSUME NEW c \in Clients,
               \/ FindLoadMutex(c) \/ LockLoadMutex(c) \/ GetManagedServableStateSnapshot(c)
               \/ WaitForNotification(c) \/ UnlockLoadMutex(c) \/ ResetLoadMutex(c)
               \/ MaybeEraseLoadMutexMapEntry(c)
        PROVE  UNCHANGED vars
    BY <2>5 DEF FindLoadMutex, LockLoadMutex, GetManagedServableStateSnapshot,
                WaitForNotification, UnlockLoadMutex, ResetLoadMutex, MaybeEraseLoadMutexMapEntry
  <2>6. ASSUME NEW c \in Clients, NEW i \in Ids, BeginLoadServable(c, i) PROVE UNCHANGED vars
    BY <2>6 DEF BeginLoadServable
  <2>7. CASE UNCHANGED cachingVars
    BY <2>7 DEF cachingVars
  <2> QED
    BY <2>1, <2>2, <2>3, <2>4, <2>5, <2>6, <2>7 DEF CachingNext, CallStep
<1> QED
  BY <1>1, <1>2, MutexInvariant, WaitInvariant, PTL
     DEF CachingSpec, ImplementsPatientOwner, PatientSpec
-----------------------------------------------------------------------------
(***************************************************************************)
(* What a request finds when the load is over.                             *)
(***************************************************************************)
\* A ready servable is in the handles map, or a worker is about to put it in: a
\* rebuild that is under way misses only what is still to be put in.
Served ==
    /\ \A i \in Ids : state[i] = "kReady" /\ i \notin serving =>
           \E w \in Workers : job[w] = i /\ pc[w] \in {"loaded", "swap"}
    /\ \A i \in Ids, v \in Workers : state[i] = "kReady" /\ pc[v] = "swap" /\ i \notin scan =>
           \E w \in Workers : job[w] = i /\ pc[w] = "loaded"

\* A step that neither makes a servable ready nor touches maps or labels.
LEMMA ServedFrame ==
    ASSUME Served, UNCHANGED <<serving, scan, pc, job>>,
           \A i \in Ids : state'[i] = "kReady" => state[i] = "kReady"
    PROVE  Served'
BY SMTT(30) DEF Served

\* A worker goes on, but not out of "loaded" or "swap", and makes nothing ready.
LEMMA ServedGoto ==
    ASSUME SafeInv, Served, NEW w \in Workers, pc[w] \notin {"loaded", "swap"},
           \A v \in Workers \ {w} : job'[v] = job[v] /\ (pc[v] \in {"loaded", "swap"} => pc'[v] = pc[v])
                                    /\ (pc'[v] = "swap" => pc[v] = "swap"),
           pc'[w] # "swap", UNCHANGED <<serving, scan>>,
           \A i \in Ids : state'[i] = "kReady" => state[i] = "kReady"
    PROVE  Served'
BY SMTT(30) DEF Served

LEMMA ServedStep ==
    ASSUME SafeInv, Served, NEW w \in Workers, WorkerNext(w)
    PROVE  Served'
<1>1. /\ job \in [Workers -> Ids \cup {NoId}] /\ pc \in [Workers -> PC]
      /\ state \in [Ids -> HarnessState \cup {"kUnmanaged"}]
      /\ \A v \in Workers : pc[v] = "swap" => mu = v
      /\ \A v \in Workers : pc[v] # "idle" => job[v] \in Ids
      /\ Nobody \notin Workers
  BY DEF SafeInv, CoreInv, BaseInv, TypeOK, Locks, Labels
<1> USE <1>1
<1>2. CASE \E i \in Ids : Start(w, i)
  <2>1. /\ pc[w] = "idle" /\ pc' = [pc EXCEPT ![w] = "decide"]
        /\ \E i \in Ids : job' = [job EXCEPT ![w] = i]
        /\ UNCHANGED <<serving, scan, state>>
    BY <1>2 DEF Start, Goto, harnessVars, servingVars
  <2> QED  BY <2>1, ServedGoto
<1>3. CASE DecisionStep(w) \/ SpuriousWakeup(w)
  <2>1. pc[w] \in {"decide", "approve", "waiting", "reserve"} /\ UNCHANGED <<serving, scan>>
    BY <1>3 DEF DecisionStep, EnterDecisionPhase, ApproveLoad, RejectLoad, Reserving,
           AwaitResources, ApproveUnload, SpuriousWakeup, servingVars
  <2>2. \E l \in PC \ {"swap"} : pc' = [pc EXCEPT ![w] = l]
    BY <1>3 DEF DecisionStep, EnterDecisionPhase, ApproveLoad, RejectLoad,
           AwaitResources, ApproveUnload, Approve, Reject, SpuriousWakeup, Goto,
           PC, Deciding, Executing
  <2>3. job' = job \/ job' = [job EXCEPT ![w] = NoId]
    BY <1>3 DEF DecisionStep, EnterDecisionPhase, ApproveLoad, RejectLoad,
           AwaitResources, ApproveUnload, Approve, Reject, SpuriousWakeup
  <2>4. /\ \A v \in Workers \ {w} : job'[v] = job[v] /\ pc'[v] = pc[v]
        /\ pc'[w] # "swap"
    BY <2>2, <2>3, ZenonT(90)
  <2>5. state' = state \/ \E s \in {"kLoadApproved", "kQuiescing", "kError"} :
                               state' = [state EXCEPT ![job[w]] = s]
    BY <1>3 DEF DecisionStep, EnterDecisionPhase, ApproveLoad, RejectLoad,
           AwaitResources, ApproveUnload, Approve, TransitionState, Error, SpuriousWakeup, harnessVars
  <2>6. \A i \in Ids : state'[i] = "kReady" => state[i] = "kReady"
    BY <2>5
  <2> QED  BY <2>1, <2>4, <2>6, ServedGoto
<1>4. CASE LoadSucceeds(w)
  <2>1. /\ pc[w] = "loading" /\ UNCHANGED <<serving, scan, job>> /\ job[w] \in Ids
    BY <1>4 DEF LoadSucceeds, servingVars
  <2>2. \/ state' = [state EXCEPT ![job[w]] = "kReady"] /\ pc' = [pc EXCEPT ![w] = "loaded"]
        \/ state' = [state EXCEPT ![job[w]] = "kError"] /\ pc' = [pc EXCEPT ![w] = "finish"]
    BY <1>4 DEF LoadSucceeds, TransitionState, Error, Goto
  <2> QED  BY <2>1, <2>2, SMTT(30) DEF Served
<1>5. CASE BeginUpdateServingMap(w)
  <2>1. /\ mu = Nobody /\ scan' = {i \in Ids : state[i] = "kReady"}
        /\ pc' = [pc EXCEPT ![w] = "swap"] /\ UNCHANGED <<serving, state, job>>
    BY <1>5 DEF BeginUpdateServingMap, Ready, Goto, harnessVars
  <2> QED  BY <2>1 DEF Served
<1>6. CASE SwapHandlesMap(w)
  <2>1. /\ pc[w] = "swap" /\ pc' = [pc EXCEPT ![w] = "drain"] /\ UNCHANGED <<state, job>>
        /\ scan \subseteq serving'
    BY <1>6 DEF SwapHandlesMap, NewHandlesMaps, Goto, harnessVars
  <2> QED  BY <2>1, SMTT(30) DEF Served
<1>7. CASE ExecutionStep(w) /\ ~LoadSucceeds(w) /\ ~BeginUpdateServingMap(w) /\ ~SwapHandlesMap(w)
  <2>1. /\ pc[w] \in {"exec", "loading", "drain", "announce", "unload", "unloading",
                      "unloaded", "finish"}
        /\ UNCHANGED <<serving, scan>>
    BY <1>7 DEF ExecutionStep, BeginLoad, LoadFails, EndUpdateServingMap,
           AnnounceAvailable, BeginUnload, EndUnload, AnnounceEnd, Finish, servingVars
  <2>2. state' = state \/ \E s \in HarnessState \ {"kReady"} : state' = [state EXCEPT ![job[w]] = s]
    BY <1>7 DEF ExecutionStep, BeginLoad, LoadFails, EndUpdateServingMap,
           AnnounceAvailable, BeginUnload, EndUnload, AnnounceEnd, Finish, harnessVars,
           TransitionState, Error, HarnessState
  <2>3. \A i \in Ids : state'[i] = "kReady" => state[i] = "kReady"
    BY <2>2
  <2>4. job' = job \/ job' = [job EXCEPT ![w] = NoId]
    BY <1>7 DEF ExecutionStep, BeginLoad, LoadFails, EndUpdateServingMap,
           AnnounceAvailable, BeginUnload, EndUnload, AnnounceEnd, Finish
  <2>5. \/ \E l \in {"loading", "unload", "announce", "unloading", "unloaded", "finish"} :
               pc' = [pc EXCEPT ![w] = l]
        \/ pc' = pc
        \/ pc' = NotifyAll(w)
    <3>1. CASE BeginLoad(w) \/ LoadFails(w)
      BY <3>1 DEF BeginLoad, LoadFails, Goto
    <3>2. CASE EndUpdateServingMap(w)
      BY <3>2 DEF EndUpdateServingMap, Goto
    <3>3. CASE BeginUnload(w) \/ EndUnload(w)
      BY <3>3 DEF BeginUnload, EndUnload, Goto
    <3>4. CASE AnnounceAvailable(w) \/ AnnounceEnd(w) \/ Finish(w)
      BY <3>4 DEF AnnounceAvailable, AnnounceEnd, Finish, Goto
    <3> QED  BY <1>7, <3>1, <3>2, <3>3, <3>4 DEF ExecutionStep
  <2>6. \A v \in Workers \ {w} : job'[v] = job[v]
    BY <2>4
  <2>7. /\ \A v \in Workers \ {w} : /\ pc[v] \in {"loaded", "swap"} => pc'[v] = pc[v]
                                    /\ pc'[v] = "swap" => pc[v] = "swap"
        /\ pc'[w] # "swap"
    <3>1. CASE \E l \in {"loading", "unload", "announce", "unloading", "unloaded", "finish"} :
                    pc' = [pc EXCEPT ![w] = l]
      BY <3>1
    <3>2. CASE pc' = pc
      BY <1>7, <3>2 DEF ExecutionStep, BeginLoad, LoadFails, EndUpdateServingMap,
           AnnounceAvailable, BeginUnload, EndUnload, AnnounceEnd, Finish
    <3>3. CASE pc' = NotifyAll(w)
      BY <3>3, SMTT(30) DEF NotifyAll
    <3> QED  BY <2>5, <3>1, <3>2, <3>3
  <2> QED  BY <2>1, <2>3, <2>6, <2>7, ServedGoto, ZenonT(90)
<1> QED  BY <1>2, <1>3, <1>4, <1>5, <1>6, <1>7 DEF WorkerNext

\* No unload is ever asked for, so a harness takes these states only.
Loading == {"kLoadRequested", "kLoadApproved", "kLoading"}

LoadSide == \A i \in Ids : state[i] \in Loading \cup {"kUnmanaged", "kNew", "kReady", "kError"}

\* What is under way is one of the states of a load.
LEMMA TransitIsUnderWay ==
    ASSUME SafeInv, WaitInv, NEW i \in Ids, state[i] \in Loading
    PROVE  ~LoadDone(i)
BY DEF SafeInv, Ownership, WaitInv, Loading, InTransit, LoadDone, Busy

\* A worker takes a load further, and ends it.
LEMMA WorkerMoves ==
    ASSUME SafeInv, WaitInv, LoadSide, NEW w \in Workers, WorkerNext(w), NEW i \in Ids
    PROVE  \/ state'[i] = state[i]
           \/ state[i] \in Loading /\ state'[i] \in Loading \cup {"kReady", "kError"}
<1>1. /\ job \in [Workers -> Ids \cup {NoId}]
      /\ state \in [Ids -> HarnessState \cup {"kUnmanaged"}]
      /\ HarnessAsExpected /\ Labels
  BY DEF SafeInv, CoreInv, BaseInv, TypeOK, Ownership
<1> USE <1>1
<1>2. w \in UnloadThreads => Expected(w) = {}
  BY DEF HarnessAsExpected, Expected, LoadSide, Loading
<1> USE <1>2
<1>3. \A S : Expected(w) = S /\ S # {} => job[w] \in Ids /\ state[job[w]] \in S
  BY SMTT(30) DEF HarnessAsExpected
<1> USE <1>3
<1>4. CASE \/ \E j \in Ids : Start(w, j)
           \/ EnterDecisionPhase(w) \/ AwaitResources(w) \/ SpuriousWakeup(w)
           \/ BeginUpdateServingMap(w) \/ SwapHandlesMap(w)
           \/ AnnounceAvailable(w) \/ AnnounceEnd(w) \/ Finish(w)
  BY <1>4 DEF Start, EnterDecisionPhase, AwaitResources, SpuriousWakeup,
         BeginUpdateServingMap, SwapHandlesMap, AnnounceAvailable, AnnounceEnd, Finish, harnessVars
<1>5. CASE ApproveLoad(w) \/ RejectLoad(w)
  <2>1. w \notin UnloadThreads /\ pc[w] \in {"approve", "reserve"}
    BY <1>5 DEF ApproveLoad, RejectLoad, Reserving
  <2>2. Expected(w) = {"kLoadRequested"}
    BY <2>1 DEF Expected, Deciding
  <2>3. state' = state \/ \E s \in {"kLoadApproved", "kError"} : state' = [state EXCEPT ![job[w]] = s]
    BY <1>5 DEF ApproveLoad, RejectLoad, Approve, TransitionState, Error
  <2> QED  BY <2>2, <2>3 DEF Loading
<1>6. CASE ApproveUnload(w) \/ BeginUnload(w) \/ EndUnload(w)
  <2>1. w \in UnloadThreads /\ pc[w] \in {"approve", "unload", "unloading"}
    BY <1>6 DEF ApproveUnload, BeginUnload, EndUnload, Labels
  <2> QED  BY <2>1 DEF Expected
<1>7. CASE BeginLoad(w)
  <2>1. Expected(w) = {"kLoadApproved"}
    BY <1>7 DEF BeginLoad, Expected, Deciding
  <2>2. \E s \in {"kLoading", "kError"} : state' = [state EXCEPT ![job[w]] = s]
    BY <1>7 DEF BeginLoad, Error
  <2> QED  BY <2>1, <2>2 DEF Loading
<1>8. CASE LoadSucceeds(w) \/ LoadFails(w)
  <2>1. w \notin UnloadThreads /\ pc[w] = "loading"
    BY <1>8 DEF LoadSucceeds, LoadFails, Labels
  <2>2. Expected(w) = {"kLoading"}
    BY <2>1 DEF Expected, Deciding
  <2>3. state' = state \/ \E s \in {"kReady", "kError"} : state' = [state EXCEPT ![job[w]] = s]
    BY <1>8 DEF LoadSucceeds, LoadFails, TransitionState, Error
  <2> QED  BY <2>2, <2>3 DEF Loading
<1>9. CASE EndUpdateServingMap(w)
  <2>1. w \notin UnloadThreads
    BY <1>9 DEF EndUpdateServingMap, Expected
  <2> QED  BY <1>9, <2>1 DEF EndUpdateServingMap
<1> QED
  BY <1>4, <1>5, <1>6, <1>7, <1>8, <1>9 DEF WorkerNext, DecisionStep, ExecutionStep

\* The requests at work, at each of their steps.
NewIsAsked ==
    \A i \in Ids : state[i] = "kNew" => \E c \in Clients : at[c] = "load" /\ target[c] = i
AskedIsManaged ==
    \A c \in Clients : at[c] \in {"load", "wait"} => state[target[c]] # "kUnmanaged"
GotIsReady ==
    \A c \in Clients : at[c] \in {"unlock", "reset", "erase", "get"} =>
        state[target[c]] = "kReady" /\ LoadDone(target[c])
EntriesAreUsed ==
    \A i \in Ids : load_mutex_map[i] # NoMutex =>
        state[i] = "kError" \/ \E c \in Clients : target[c] = i /\ at[c] \in Referring \cup {"erase"}

RequestInv == LoadSide /\ Served /\ NewIsAsked /\ AskedIsManaged /\ GotIsReady /\ EntriesAreUsed

LEMMA InitRequest == CachingInit => RequestInv
BY SMTT(30) DEF CachingInit, Init, RequestInv, NewIsAsked, AskedIsManaged, GotIsReady,
       EntriesAreUsed, LoadSide, Served, Loading

\* A load that ends without a ready servable has failed, and is not tried again.
LEMMA FailedIsError ==
    ASSUME MutexInv, SafeInv, WaitInv, RequestInv, NEW c \in Clients,
           at[c] \in {"snapshot", "wait"}, at[c] = "wait" => LoadDone(target[c]),
           state[target[c]] \notin {"kReady", "kUnmanaged"}
    PROVE  state[target[c]] = "kError"
<1>1. target[c] \in Ids /\ at[c] \in Critical /\ LoadsAreExclusive
  BY MutexExcludes DEF MutexInv, Critical
<1> USE <1>1
<1>2. state[target[c]] # "kNew"
  BY SMTT(30) DEF RequestInv, NewIsAsked, LoadsAreExclusive, Critical
<1>3. state[target[c]] \notin Loading
  <2> SUFFICES ASSUME state[target[c]] \in Loading PROVE FALSE
    OBVIOUS
  <2>1. ~LoadDone(target[c])
    BY TransitIsUnderWay
  <2> USE <2>1
  <2>2. PICK d \in Clients : at[d] = "wait" /\ target[d] = target[c]
    BY DEF WaitInv
  <2> QED  BY <2>2 DEF LoadsAreExclusive, Critical
<1> QED  BY <1>2, <1>3 DEF RequestInv, LoadSide

\* Neither the state of a harness nor a request for one changes.
LEMMA QuietServed ==
    ASSUME Served, \/ UNCHANGED vars
                   \/ UNCHANGED <<state, serving, scan, pc, job>>
    PROVE  Served'
BY ServedFrame DEF vars

LEMMA ManagerKeepsRequests ==
    ASSUME MutexInv, SafeInv, WaitInv, RequestInv, ManagerStep
    PROVE  RequestInv'
<1>1. UNCHANGED <<at, target, load_mutex_map>>
  BY DEF ManagerStep, callVars
<1> USE <1>1
<1>2. Served /\ LoadSide /\ \A i \in Ids : <<"unload", i>> \notin scheduled
  BY DEF RequestInv, WaitInv
<1> USE <1>2
<1>3. /\ Served'
      /\ \A i \in Ids : \/ state'[i] = state[i]
                        \/ state[i] \in Loading /\ state'[i] \in Loading \cup {"kReady", "kError"}
  <2>1. CASE \E w \in Workers : WorkerNext(w)
    BY <2>1, ServedStep, WorkerMoves
  <2>2. CASE \E i \in Ids : ScheduleLoad(i)
    <3>1. PICK i \in Ids : ScheduleLoad(i)
      BY <2>2
    <3>2. /\ UNCHANGED <<state, serving, scan>> /\ pc[Inline] = "idle"
          /\ \/ UNCHANGED <<pc, job>>
             \/ pc' = [pc EXCEPT ![Inline] = "decide"] /\ job' = [job EXCEPT ![Inline] = i]
      BY <3>1 DEF ScheduleLoad, Goto, harnessVars, servingVars
    <3> USE <3>2
    <3>3. /\ pc \in [Workers -> PC] /\ job \in [Workers -> Ids \cup {NoId}]
          /\ Inline \in Workers
      BY DEF SafeInv, CoreInv, BaseInv, TypeOK, Workers
    <3>4. CASE UNCHANGED <<pc, job>>
      BY <3>4, QuietServed
    <3>5. CASE pc' = [pc EXCEPT ![Inline] = "decide"] /\ job' = [job EXCEPT ![Inline] = i]
      BY <3>3, <3>5, ServedGoto
    <3> QED  BY <3>4, <3>5
  <2>3. CASE \/ \E c \in Clients, i \in Ids : ReleaseHandle(c, i)
             \/ \E c \in Clients : GetAvailableUntypedServableHandles(c)
    <3>1. UNCHANGED <<state, serving, scan, pc, job>>
      BY <2>3 DEF ReleaseHandle, GetAvailableUntypedServableHandles, harnessVars, workerVars
    <3> QED  BY <3>1, QuietServed
  <2> QED  BY <2>1, <2>2, <2>3 DEF ManagerStep
<1> USE <1>3
<1>4. \A i \in Ids : LoadDone(i) => LoadDone(i)' /\ state[i] \notin Loading
  BY DoneStaysDone, TransitIsUnderWay
<1>5. LoadSide'
  BY DEF LoadSide
<1>6. \A c \in Clients : at[c] \in {"load", "wait", "unlock", "reset", "erase", "get"}
                            => target[c] \in Ids
  BY DEF MutexInv
<1> USE <1>6
<1>7. \A c \in Clients : at[c] \in {"unlock", "reset", "erase", "get"} =>
           (state[target[c]] = "kReady" /\ LoadDone(target[c]))'
  <2> SUFFICES ASSUME NEW c \in Clients, at[c] \in {"unlock", "reset", "erase", "get"}
               PROVE  (state[target[c]] = "kReady" /\ LoadDone(target[c]))'
    OBVIOUS
  <2>1. PICK j \in Ids : j = target[c]
    OBVIOUS
  <2> USE <2>1
  <2>2. state[j] = "kReady" /\ LoadDone(j)
    BY DEF RequestInv, GotIsReady
  <2>3. state'[j] = "kReady" /\ LoadDone(j)'
    BY <1>4, <2>2
  <2> QED  BY <2>3 DEF LoadDone, Busy
<1>8. \A c \in Clients : at'[c] \in {"unlock", "reset", "erase", "get"} =>
           (state[target[c]] = "kReady" /\ LoadDone(target[c]))'
  BY <1>7
<1> QED
  <2>1. NewIsAsked' /\ AskedIsManaged'
    BY SMTT(30) DEF RequestInv, NewIsAsked, AskedIsManaged, Loading
  <2>2. EntriesAreUsed'
    BY DEF RequestInv, EntriesAreUsed, Loading
  <2> QED  BY <1>5, <1>8, <2>1, <2>2 DEF RequestInv, GotIsReady

LEMMA CallsKeepRequests ==
    ASSUME MutexInv, SafeInv, WaitInv, RequestInv, NEW c \in Clients, CallStep(c)
    PROVE  RequestInv'
<1> DEFINE i == target[c]
<1>1. /\ at \in [Clients -> Referring \cup {"idle", "find", "erase", "get"}]
      /\ target \in [Clients -> Ids \cup {NoId}]
      /\ load_mutex_map \in [Ids -> Mutexes \cup {NoMutex}]
      /\ \A d \in Clients : at[d] # "idle" => target[d] \in Ids
      /\ state \in [Ids -> HarnessState \cup {"kUnmanaged"}]
  BY DEF MutexInv, CallTypes, SafeInv, CoreInv, BaseInv, TypeOK
\* Steps that leave the manager alone.
<1> USE <1>1
<1>2. ASSUME UNCHANGED <<state, serving, scan, pc, job, accepted, scheduled>>,
             NEW place, at' = [at EXCEPT ![c] = place],
             \/ target' = target
             \/ target' = [target EXCEPT ![c] = NoId] /\ place = "idle",
             at[c] = "load" => state[i] = "kError",
             place \in {"load", "wait"} => state[i] # "kUnmanaged",
             place \in {"unlock", "reset", "erase", "get"} =>
                 at[c] \in {"unlock", "reset", "erase"} \/ (state[i] = "kReady" /\ LoadDone(i)),
             \A j \in Ids : load_mutex_map'[j] # NoMutex =>
                 \/ state[j] = "kError"
                 \/ load_mutex_map[j] # NoMutex /\ j # i
                 \/ \E d \in Clients : target'[d] = j /\ at'[d] \in Referring \cup {"erase"}
      PROVE  RequestInv'
  <2>1. Served' /\ LoadSide'
    BY <1>2, QuietServed DEF RequestInv, LoadSide
  <2>2. NewIsAsked'
    BY <1>2, SMTT(30) DEF RequestInv, NewIsAsked
  <2>3. AskedIsManaged'
    BY <1>2, SMTT(30) DEF RequestInv, AskedIsManaged
  <2>4. \A d \in Clients : at'[d] \in {"unlock", "reset", "erase", "get"} =>
            state[target'[d]] = "kReady" /\ LoadDone(target'[d])
    BY <1>2, SMTT(30) DEF RequestInv, GotIsReady
  <2>5. GotIsReady'
    BY <1>2, <2>4, SMTT(30) DEF GotIsReady, LoadDone, Busy
  <2>6. EntriesAreUsed'
    BY <1>2, SMTT(30) DEF RequestInv, EntriesAreUsed
  <2> QED  BY <2>1, <2>2, <2>3, <2>5, <2>6 DEF RequestInv
<1>3. UNCHANGED vars => UNCHANGED <<state, serving, scan, pc, job, accepted, scheduled>>
  BY DEF vars
<1> USE <1>3
<1>4. CASE FindLoadMutex(c)
  <2>1. /\ at[c] = "find" /\ at' = [at EXCEPT ![c] = "lock"] /\ target' = target
        /\ UNCHANGED vars
        /\ \A j \in Ids \ {i} : load_mutex_map'[j] = load_mutex_map[j]
    BY <1>4 DEF FindLoadMutex, GoOn
  <2> USE <2>1
  <2>2. at'[c] = "lock" /\ target'[c] = i
    OBVIOUS
  <2> QED  BY <1>2, <2>2 DEF Referring
<1>5. CASE LockLoadMutex(c)
  <2>1. /\ at[c] = "lock" /\ at' = [at EXCEPT ![c] = "snapshot"]
        /\ UNCHANGED <<target, load_mutex_map>> /\ UNCHANGED vars
    BY <1>5 DEF LockLoadMutex, GoOn
  <2> USE <2>1
  <2>2. at'[c] = "snapshot" /\ target'[c] = i
    OBVIOUS
  <2> QED  BY <1>2, <2>2 DEF Referring, Critical
\* A return with an error: the load has failed.
<1>6. ASSUME ReturnError(c), UNCHANGED vars, state[i] = "kError" PROVE RequestInv'
  <2>1. /\ at' = [at EXCEPT ![c] = "idle"] /\ target' = [target EXCEPT ![c] = NoId]
        /\ load_mutex_map' = load_mutex_map
    BY <1>6 DEF ReturnError, Return, GoOn
  <2> QED  BY <1>2, <1>6, <2>1
\* A step within the locked block.
<1>7. ASSUME NEW place \in Critical \ {"load"}, GoOnLocked(c, place), UNCHANGED vars,
             at[c] # "load",
             place = "wait" => state[i] # "kUnmanaged",
             place = "unlock" => state[i] = "kReady" /\ LoadDone(i)
      PROVE  RequestInv'
  <2>1. at' = [at EXCEPT ![c] = place] /\ UNCHANGED <<target, load_mutex_map>>
    BY <1>7 DEF GoOnLocked, GoOn
  <2> USE <2>1
  <2>2. at'[c] = place /\ target'[c] = i
    OBVIOUS
  <2> QED  BY <1>2, <1>7, <2>2 DEF Referring, Critical
<1>8. CASE GetManagedServableStateSnapshot(c)
  <2>1. at[c] = "snapshot" /\ UNCHANGED vars
    BY <1>8 DEF GetManagedServableStateSnapshot
  <2> USE <2>1
  <2>2. CASE state[i] = "kUnmanaged"
    BY <1>7, <1>8, <2>2 DEF GetManagedServableStateSnapshot, Critical
  <2>3. CASE state[i] = "kReady"
    <3>1. GoOnLocked(c, "unlock")
      BY <1>8, <2>3 DEF GetManagedServableStateSnapshot
    <3>2. LoadDone(i)
      <4> SUFFICES ASSUME ~LoadDone(i) PROVE FALSE
        OBVIOUS
      <4>1. PICK d \in Clients : at[d] = "wait" /\ target[d] = i
        BY DEF WaitInv
      <4> QED  BY <4>1, MutexExcludes DEF LoadsAreExclusive, Critical
    <3> QED  BY <1>7, <2>3, <3>1, <3>2 DEF Critical
  <2>4. CASE state[i] \notin {"kUnmanaged", "kReady"}
    <3>1. ReturnError(c)
      BY <1>8, <2>4 DEF GetManagedServableStateSnapshot
    <3> QED  BY <1>6, <2>4, <3>1, FailedIsError
  <2> QED  BY <2>2, <2>3, <2>4
<1>9. CASE ManageLoader(c)
  <2>1. /\ at[c] = "manage" /\ at' = [at EXCEPT ![c] = "load"]
        /\ UNCHANGED <<target, load_mutex_map>>
        /\ state[i] = "kUnmanaged"
        /\ \E s \in {"kNew", "kError"} : state' = [state EXCEPT ![i] = s]
        /\ UNCHANGED <<serving, scan, pc, job, accepted, scheduled>>
    BY <1>9 DEF ManageLoader, GoOnLocked, GoOn, ManageServable, servingVars, workerVars, queueVars
  <2> USE <2>1
  <2>2. i \in Ids /\ at'[c] = "load" /\ target'[c] = i
    OBVIOUS
  <2> USE <2>2
  <2>3. Served' /\ LoadSide'
    BY ServedFrame, SMTT(30) DEF RequestInv, LoadSide
  <2>4. GotIsReady'
    <3>1. \A d \in Clients : at'[d] \in {"unlock", "reset", "erase", "get"} =>
              state'[target'[d]] = "kReady" /\ LoadDone(target'[d])
      BY SMTT(30) DEF RequestInv, GotIsReady
    <3> QED  BY <3>1 DEF GotIsReady, LoadDone, Busy
  <2>5. NewIsAsked'
    BY SMTT(30) DEF RequestInv, NewIsAsked
  <2>6. AskedIsManaged'
    BY SMTT(30) DEF RequestInv, AskedIsManaged
  <2>7. EntriesAreUsed'
    BY SMTT(30) DEF RequestInv, EntriesAreUsed, Referring, Critical
  <2> QED  BY <2>3, <2>4, <2>5, <2>6, <2>7 DEF RequestInv
<1>10. CASE RequestLoad(c)
  <2>1. at[c] = "load" /\ i \in Ids /\ state[i] # "kUnmanaged"
    BY <1>10 DEF RequestLoad, RequestInv, AskedIsManaged
  <2> USE <2>1
  <2>2. CASE ~Healthy(i)
    <3>1. ReturnError(c) /\ UNCHANGED vars /\ state[i] = "kError"
      BY <1>10, <2>2 DEF RequestLoad, Healthy
    <3> QED  BY <1>6, <3>1
  <2>3. CASE Healthy(i)
    <3>1. /\ at' = [at EXCEPT ![c] = "wait"] /\ UNCHANGED <<target, load_mutex_map>>
          /\ state[i] = "kNew" /\ state' = [state EXCEPT ![i] = "kLoadRequested"]
          /\ accepted' = accepted \cup {i}
          /\ UNCHANGED <<serving, scan, pc, job, scheduled>>
      BY <1>10, <2>3 DEF RequestLoad, LoadServable, LoadRequested, GoOnLocked, GoOn,
                         servingVars, workerVars
    <3> USE <3>1
    <3>2. at'[c] = "wait" /\ target'[c] = i
      OBVIOUS
    <3> USE <3>2
    <3>3. Served' /\ LoadSide'
      BY ServedFrame, SMTT(30) DEF RequestInv, LoadSide, Loading
    <3>4. GotIsReady'
      <4>1. \A d \in Clients : at'[d] \in {"unlock", "reset", "erase", "get"} =>
                state'[target'[d]] = "kReady" /\ LoadDone(target'[d]) /\ target'[d] # i
        BY SMTT(30) DEF RequestInv, GotIsReady
      <4> QED  BY <4>1 DEF GotIsReady, LoadDone, Busy
    <3>5. NewIsAsked'
      BY SMTT(30) DEF RequestInv, NewIsAsked
    <3>6. AskedIsManaged'
      BY SMTT(30) DEF RequestInv, AskedIsManaged
    <3>7. EntriesAreUsed'
      BY SMTT(30) DEF RequestInv, EntriesAreUsed, Referring, Critical
    <3> QED  BY <3>3, <3>4, <3>5, <3>6, <3>7 DEF RequestInv
  <2> QED  BY <2>2, <2>3
<1>11. CASE WaitForNotification(c)
  <2>1. at[c] = "wait" /\ UNCHANGED vars /\ LoadDone(i) /\ state[i] # "kUnmanaged"
    BY <1>11 DEF WaitForNotification, RequestInv, AskedIsManaged
  <2> USE <2>1
  <2>2. CASE state[i] = "kReady"
    <3>1. GoOnLocked(c, "unlock")
      BY <1>11, <2>2 DEF WaitForNotification
    <3> QED  BY <1>7, <2>2, <3>1 DEF Critical
  <2>3. CASE state[i] # "kReady"
    <3>1. ReturnError(c)
      BY <1>11, <2>3 DEF WaitForNotification
    <3> QED  BY <1>6, <2>3, <3>1, FailedIsError
  <2> QED  BY <2>2, <2>3
<1>12. CASE UnlockLoadMutex(c) \/ ResetLoadMutex(c)
  <2>1. /\ UNCHANGED <<target, load_mutex_map>> /\ UNCHANGED vars
        /\ \/ at[c] = "unlock" /\ at' = [at EXCEPT ![c] = "reset"]
           \/ at[c] = "reset" /\ at' = [at EXCEPT ![c] = "erase"]
    BY <1>12 DEF UnlockLoadMutex, ResetLoadMutex, GoOn
  <2> USE <2>1
  <2>2. at'[c] \in {"reset", "erase"} /\ target'[c] = i
    OBVIOUS
  <2>3. \A j \in Ids : load_mutex_map'[j] # NoMutex =>
            \/ state[j] = "kError"
            \/ load_mutex_map[j] # NoMutex /\ j # i
            \/ \E d \in Clients : target'[d] = j /\ at'[d] \in Referring \cup {"erase"}
    BY <2>2 DEF Referring
  <2>4. UNCHANGED <<state, serving, scan, pc, job, accepted, scheduled>>
    OBVIOUS
  <2>5. PICK place \in {"reset", "erase"} : at' = [at EXCEPT ![c] = place]
    OBVIOUS
  <2> USE <2>5
  <2>6. /\ target' = target
        /\ at[c] = "load" => state[i] = "kError"
        /\ place \in {"load", "wait"} => state[i] # "kUnmanaged"
        /\ at[c] \in {"unlock", "reset", "erase"}
    OBVIOUS
  <2> HIDE DEF i
  <2> QED  BY <1>2, <2>3, <2>4, <2>6
<1>13. CASE MaybeEraseLoadMutexMapEntry(c)
  <2>1. /\ at[c] = "erase" /\ at' = [at EXCEPT ![c] = "get"] /\ target' = target
        /\ UNCHANGED vars
        /\ load_mutex_map' = IF Unique(load_mutex_map[i])
                             THEN [load_mutex_map EXCEPT ![i] = NoMutex] ELSE load_mutex_map
    BY <1>13 DEF MaybeEraseLoadMutexMapEntry, GoOn
  <2> USE <2>1
  <2>2. i \in Ids
    OBVIOUS
  <2> USE <2>2
  <2>3. ASSUME NEW j \in Ids, load_mutex_map'[j] # NoMutex
        PROVE  \/ load_mutex_map[j] # NoMutex /\ j # i
               \/ \E d \in Clients : target'[d] = j /\ at'[d] \in Referring \cup {"erase"}
    <3>1. CASE j # i
      BY <2>3, <3>1, SMTT(30)
    <3>2. CASE j = i
      <4>1. ~Unique(load_mutex_map[i]) /\ load_mutex_map[i] # NoMutex
        BY <2>3, <3>2, SMTT(30)
      <4> USE <4>1
      <4>2. PICK d \in Clients : servable_id_mu[d] = load_mutex_map[i]
        BY DEF Unique, References
      <4> USE <4>2
      <4>3. at[d] \in Referring
        BY DEF MutexInv
      <4> USE <4>3
      <4>4. target[d] \in Ids /\ load_mutex_map[target[d]] = load_mutex_map[i]
        BY DEF MutexInv, Referring, Critical
      <4>5. target[d] = i
        BY <4>4, SMTT(30) DEF MutexInv
      <4>6. d # c
        BY DEF Referring, Critical
      <4> QED  BY <3>2, <4>5, <4>6, ZenonT(90)
    <3> QED  BY <3>1, <3>2
  <2>4. \A j \in Ids : load_mutex_map'[j] # NoMutex =>
            \/ state[j] = "kError"
            \/ load_mutex_map[j] # NoMutex /\ j # i
            \/ \E d \in Clients : target'[d] = j /\ at'[d] \in Referring \cup {"erase"}
    BY <2>3
  <2>5. UNCHANGED <<state, serving, scan, pc, job, accepted, scheduled>>
    OBVIOUS
  <2>6. /\ target' = target /\ at' = [at EXCEPT ![c] = "get"]
        /\ at[c] = "load" => state[i] = "kError"
        /\ "get" \in {"load", "wait"} => state[i] # "kUnmanaged"
        /\ at[c] \in {"unlock", "reset", "erase"}
    OBVIOUS
  <2> HIDE DEF i
  <2> QED  BY <1>2, <2>4, <2>5, <2>6
<1>14. CASE GetLoadedHandle(c)
  <2>1. /\ at[c] = "get" /\ at' = [at EXCEPT ![c] = "idle"]
        /\ target' = [target EXCEPT ![c] = NoId] /\ load_mutex_map' = load_mutex_map
        /\ UNCHANGED <<state, serving, scan, pc, job, accepted, scheduled>>
    BY <1>14 DEF GetLoadedHandle, Return, GoOn, GetUntypedServableHandle, harnessVars,
                 workerVars, queueVars, vars
  <2> USE <2>1
  <2>2. \A j \in Ids : load_mutex_map'[j] # NoMutex =>
            \/ state[j] = "kError"
            \/ \E d \in Clients : target'[d] = j /\ at'[d] \in Referring \cup {"erase"}
    BY SMTT(30) DEF RequestInv, EntriesAreUsed, Referring, Critical
  <2> QED  BY <1>2, <2>2
<1> QED
  BY <1>4, <1>5, <1>8, <1>9, <1>10, <1>11, <1>12, <1>13, <1>14 DEF CallStep

LEMMA RequestStep ==
    MutexInv /\ SafeInv /\ WaitInv /\ RequestInv /\ [CachingNext]_cachingVars => RequestInv'
<1> SUFFICES ASSUME MutexInv, SafeInv, WaitInv, RequestInv, [CachingNext]_cachingVars
             PROVE  RequestInv'
  OBVIOUS
<1>1. CASE UNCHANGED cachingVars \/ \E c \in Clients, i \in Ids : GetCachedHandle(c, i)
  <2>1. UNCHANGED <<at, target, load_mutex_map, state, serving, scan, pc, job, accepted, scheduled>>
    BY <1>1 DEF cachingVars, callVars, vars, GetCachedHandle, GetUntypedServableHandle,
                harnessVars, workerVars, queueVars
  <2> USE <2>1
  <2>2. Served' /\ LoadSide'
    BY QuietServed DEF RequestInv, LoadSide
  <2>3. GotIsReady'
    <3>1. \A d \in Clients : at'[d] \in {"unlock", "reset", "erase", "get"} =>
              state'[target'[d]] = "kReady" /\ LoadDone(target'[d])
      BY DEF RequestInv, GotIsReady
    <3> QED  BY <3>1 DEF GotIsReady, LoadDone, Busy
  <2>4. NewIsAsked' /\ AskedIsManaged' /\ EntriesAreUsed'
    BY DEF RequestInv, NewIsAsked, AskedIsManaged, EntriesAreUsed
  <2> QED  BY <2>2, <2>3, <2>4 DEF RequestInv
<1>2. ASSUME NEW c \in Clients, NEW i \in Ids, BeginLoadServable(c, i) PROVE RequestInv'
  <2>1. /\ at[c] = "idle" /\ at' = [at EXCEPT ![c] = "find"]
        /\ target' = [target EXCEPT ![c] = i] /\ load_mutex_map' = load_mutex_map
        /\ UNCHANGED <<state, serving, scan, pc, job, accepted, scheduled>>
    BY <1>2 DEF BeginLoadServable, GoOn, vars
  <2> USE <2>1
  <2>2. at \in [Clients -> Referring \cup {"idle", "find", "erase", "get"}]
        /\ target \in [Clients -> Ids \cup {NoId}]
    BY DEF MutexInv, CallTypes
  <2> USE <2>2
  <2>3. \A d \in Clients : at'[d] # "find" => at'[d] = at[d] /\ target'[d] = target[d] /\ d # c
    OBVIOUS
  <2> USE <2>3
  <2>4. \A d \in Clients : at[d] # "idle" => at'[d] = at[d] /\ target'[d] = target[d]
    OBVIOUS
  <2> USE <2>4
  <2>5. Served' /\ LoadSide'
    BY QuietServed DEF RequestInv, LoadSide
  <2>6. GotIsReady'
    <3>1. \A d \in Clients : at'[d] \in {"unlock", "reset", "erase", "get"} =>
              state'[target'[d]] = "kReady" /\ LoadDone(target'[d])
      BY SMTT(30) DEF RequestInv, GotIsReady
    <3> QED  BY <3>1, SMTT(30) DEF GotIsReady, LoadDone, Busy
  <2>7. NewIsAsked' /\ AskedIsManaged'
    BY SMTT(30) DEF RequestInv, NewIsAsked, AskedIsManaged
  <2>8. EntriesAreUsed'
    BY SMTT(30) DEF RequestInv, EntriesAreUsed, Referring, Critical
  <2> QED  BY <2>5, <2>6, <2>7, <2>8 DEF RequestInv
<1> QED
  BY <1>1, <1>2, ManagerKeepsRequests, CallsKeepRequests DEF CachingNext

LEMMA RequestInvariant == CachingSpec => []RequestInv
BY InitRequest, RequestStep, MutexInvariant, ManagerInvariant, WaitInvariant, PTL DEF CachingSpec

\* A request that got past the load finds its servable in the handles map, also
\* when another request has done the load.
THEOREM LoadedServableIsServed == CachingSpec => []LoadedIsServed
<1>1. MutexInv /\ RequestInv => LoadedIsServed
  <2> SUFFICES ASSUME MutexInv, RequestInv, NEW c \in Clients, at[c] \in {"reset", "erase", "get"}
               PROVE  target[c] \in serving
    BY DEF LoadedIsServed
  <2>1. target[c] \in Ids
    BY DEF MutexInv
  <2>2. state[target[c]] = "kReady" /\ \A w \in Workers : job[w] # target[c]
    BY DEF RequestInv, GotIsReady, LoadDone, Busy
  <2> QED  BY <2>1, <2>2, SMTT(30) DEF RequestInv, Served
<1> QED  BY <1>1, MutexInvariant, RequestInvariant, PTL

\* load_mutex_map_ grows only with the requests under way and the servables that
\* failed to load.
THEOREM MutexMapGetsCollected == CachingSpec => []MutexMapIsCollected
<1>1. RequestInv => MutexMapIsCollected
  BY DEF RequestInv, EntriesAreUsed, MutexMapIsCollected, Referring, Critical
<1> QED  BY <1>1, RequestInvariant, PTL

\* What BasicManager promises its clients holds for those of CachingManager: no
\* servable is unloaded or forgotten under a handle.
THEOREM CachedHandlesAreLive == CachingSpec => []HandlesAreLive
<1>1. SafeInv => HandlesAreLive
  BY DEF SafeInv, Handles, HandlesAreLive
<1> QED  BY <1>1, ManagerInvariant, PTL
=============================================================================
