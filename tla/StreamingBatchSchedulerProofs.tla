-------------------- MODULE StreamingBatchSchedulerProofs --------------------
(***************************************************************************)
(* Proofs about StreamingBatchScheduler, for any number of tasks and       *)
(* threads and any sizes.                                                  *)
(***************************************************************************)
EXTENDS StreamingBatchScheduler, FiniteSetTheorems, TLAPS

\* The scheduler's fields fit together, whichever batch is open.
GoodPool(p) ==
    /\ p.open \in Nat /\ p.num \in Nat /\ p.inProgress \in Nat
    /\ DOMAIN p.batch \subseteq 1 .. p.num
    /\ DOMAIN p.stage = DOMAIN p.batch
    /\ IsFiniteSet(DOMAIN p.batch)
    /\ p.inProgress = Cardinality(DOMAIN p.batch)
    /\ p.inProgress =< NumBatchThreads + 1
    /\ \A n \in DOMAIN p.batch : /\ p.batch[n] \in BatchesOf(Tasks)
                                 /\ p.batch[n].size =< MaxBatchSize
                                 /\ IsEmptyBatch(p.batch[n]) => p.batch[n].size = 0
                                 /\ p.stage[n] \in {"queued", "running", "returned"}
    /\ p.open # 0 => /\ p.open = p.num
                     /\ p.open \in DOMAIN p.batch
                     /\ p.stage[p.open] # "returned"

\* One batch more than threads is the open one, and empty.
Spare(p) ==
    p.inProgress > NumBatchThreads => p.open # 0 /\ IsEmptyBatch(p.batch[p.open])

\* A closing that is still to come is that of a batch with tasks, or of a
\* batch that is closed already.
ClosingsInv ==
    /\ updatedTask \in 0 .. openBatchNum
    /\ currentTask \in 0 .. openBatchNum
    /\ invoking \in BOOLEAN
    /\ invoking => currentTask # 0
    /\ openBatch # 0 /\ openBatch \in {updatedTask, currentTask}
         => ~IsEmptyBatch(batch[openBatch])

LifeInv ==
    /\ retry \in [Tasks -> {"none", "pausing", "out of time"}]
    /\ life \in {"alive", "draining", "joining", "destroyed"}
    /\ life = "alive" => Spare(Pool) /\ (openBatch = 0 => openBatchNum = 0)
    /\ life # "alive" =>
          /\ openBatch = 0
          /\ openBatchNum \in {updatedTask, currentTask} => openBatchNum = 0
          /\ numInProgress > NumBatchThreads =>
                \E n \in DOMAIN batch : IsEmptyBatch(batch[n])
    /\ life \in {"joining", "destroyed"} => DOMAIN batch = {}

StreamingInv == GoodPool(Pool) /\ ClosingsInv /\ LifeInv /\ OpenBatchWillBeClosed

USE StreamingAssumption

\* The fields after StartNewBatch().
LEMMA NewBatchFields ==
    ASSUME NEW p, GoodPool(p)
    PROVE  LET q == StartNewBatch(p) IN
           /\ q.open = p.num + 1 /\ q.num = p.num + 1 /\ q.inProgress = p.inProgress + 1
           /\ DOMAIN q.batch = DOMAIN p.batch \cup {p.num + 1}
           /\ DOMAIN q.stage = DOMAIN p.batch \cup {p.num + 1}
           /\ p.num + 1 \notin DOMAIN p.batch
           /\ q.batch[p.num + 1] = EmptyBatch
           /\ q.stage[p.num + 1] = "queued"
           /\ \A n \in DOMAIN p.batch : q.batch[n] = p.batch[n] /\ q.stage[n] = p.stage[n]
<1> DEFINE q == StartNewBatch(p)
<1>1. /\ q.open = p.num + 1 /\ q.num = p.num + 1 /\ q.inProgress = p.inProgress + 1
      /\ q.batch = Extended(p.batch, p.num + 1, EmptyBatch)
      /\ q.stage = Extended(p.stage, p.num + 1, "queued")
  BY Zenon DEF StartNewBatch
<1> HIDE DEF q
<1>2. /\ DOMAIN q.batch = DOMAIN p.batch \cup {p.num + 1}
      /\ DOMAIN q.stage = DOMAIN p.batch \cup {p.num + 1}
      /\ p.num + 1 \notin DOMAIN p.batch
      /\ q.batch[p.num + 1] = EmptyBatch
      /\ q.stage[p.num + 1] = "queued"
      /\ \A n \in DOMAIN p.batch : q.batch[n] = p.batch[n] /\ q.stage[n] = p.stage[n]
  BY <1>1 DEF Extended, GoodPool
<1> QED  BY <1>1, <1>2, Zenon DEF q

\* StartNewBatch() keeps the fields together while a thread is left.
LEMMA StartNewBatchGood ==
    ASSUME NEW p, GoodPool(p), p.inProgress =< NumBatchThreads
    PROVE  /\ GoodPool(StartNewBatch(p))
           /\ Spare(StartNewBatch(p))
<1> DEFINE q == StartNewBatch(p)
<1>1. q.open = p.num + 1 /\ q.num = p.num + 1 /\ q.inProgress = p.inProgress + 1
  BY NewBatchFields, Zenon
<1>2. /\ DOMAIN q.batch = DOMAIN p.batch \cup {p.num + 1}
      /\ DOMAIN q.stage = DOMAIN p.batch \cup {p.num + 1}
      /\ p.num + 1 \notin DOMAIN p.batch
      /\ q.batch[p.num + 1] = EmptyBatch
      /\ q.stage[p.num + 1] = "queued"
      /\ \A n \in DOMAIN p.batch : q.batch[n] = p.batch[n] /\ q.stage[n] = p.stage[n]
  BY NewBatchFields, Zenon
<1> HIDE DEF q
<1>3. IsFiniteSet(DOMAIN q.batch) /\ Cardinality(DOMAIN q.batch) = p.inProgress + 1
  BY <1>2, FS_AddElement DEF GoodPool
<1>4. EmptyBatch \in BatchesOf(Tasks) /\ EmptyBatch.size = 0 /\ IsEmptyBatch(EmptyBatch)
  BY DEF EmptyBatch, BatchesOf, IsEmptyBatch
<1>5. GoodPool(q)
  BY <1>1, <1>2, <1>3, <1>4 DEF GoodPool
<1>6. Spare(q)
  BY <1>1, <1>2, <1>4 DEF Spare, GoodPool
<1> QED  BY <1>5, <1>6, ZenonT(30) DEF q

\* A pool is a record of the scheduler's five fields.
IsPool(p) == p = [batch |-> p.batch, stage |-> p.stage, open |-> p.open, num |-> p.num,
                  inProgress |-> p.inProgress]

LEMMA PoolsArePools == IsPool(Pool) /\ \A p : IsPool(StartNewBatch(p))
BY Zenon DEF IsPool, Pool, StartNewBatch

\* What it is to put the task into the open batch.
LEMMA AddedGood ==
    ASSUME NEW p, IsPool(p), GoodPool(p), p.open # 0,
           NEW t \in Tasks, TaskFitsInBatch(t, p.batch[p.open])
    PROVE  LET b == AddTask(p.batch[p.open], t, Size[t])
               bs == [p.batch EXCEPT ![p.open] = b]
               added == [batch |-> bs, stage |-> p.stage, open |-> p.open, num |-> p.num,
                         inProgress |-> p.inProgress]
           IN  /\ GoodPool(added)
               /\ ~IsEmptyBatch(b) /\ bs[p.open] = b
               /\ Filled(p, t) = IF b.size = MaxBatchSize THEN StartNewBatch(added) ELSE added
<1> DEFINE b == AddTask(p.batch[p.open], t, Size[t])
           bs == [p.batch EXCEPT ![p.open] = b]
           added == [batch |-> bs, stage |-> p.stage, open |-> p.open, num |-> p.num,
                     inProgress |-> p.inProgress]
<1>1. [p EXCEPT !.batch[p.open] = AddTask(@, t, Size[t])] = added
  BY DEF IsPool
<1>2. Filled(p, t) = IF b.size = MaxBatchSize THEN StartNewBatch(added) ELSE added
  <2>1. p.open \in DOMAIN p.batch
    BY ZenonT(30) DEF GoodPool
  <2>2. added.batch[p.open] = b
    BY <2>1, ZenonT(30)
  <2> HIDE DEF b, added
  <2> QED  BY <1>1, <2>2, Zenon DEF Filled
<1>3. b \in BatchesOf(Tasks) /\ b.size =< MaxBatchSize /\ ~IsEmptyBatch(b)
  <2>1. /\ p.batch[p.open].tasks \in Seq(Tasks)
        /\ p.batch[p.open].size \in Nat
    BY ZenonT(30) DEF GoodPool, BatchesOf
  <2>2. Append(p.batch[p.open].tasks, t) \in Seq(Tasks) /\ Append(p.batch[p.open].tasks, t) # <<>>
    BY <2>1, SMTT(30)
  <2>3. b = [tasks |-> Append(p.batch[p.open].tasks, t), size |-> p.batch[p.open].size + Size[t]]
    BY Zenon DEF AddTask
  <2>4. Size[t] \in Nat
    BY Zenon
  <2>5. p.batch[p.open].size + Size[t] =< MaxBatchSize
    BY ZenonT(30) DEF TaskFitsInBatch
  <2> HIDE DEF b
  <2>6. b.tasks = Append(p.batch[p.open].tasks, t) /\ b.size = p.batch[p.open].size + Size[t]
    BY <2>3, ZenonT(30)
  <2>7. b \in BatchesOf(Tasks)
    BY <2>1, <2>2, <2>3, <2>4, SMTT(30) DEF BatchesOf
  <2> QED  BY <2>2, <2>5, <2>6, <2>7, ZenonT(30) DEF IsEmptyBatch
<1>4. /\ DOMAIN bs = DOMAIN p.batch
      /\ p.open \in DOMAIN p.batch
      /\ bs[p.open] = b
      /\ \A n \in DOMAIN p.batch : n # p.open => bs[n] = p.batch[n]
  BY Zenon DEF GoodPool
<1>5. GoodPool(added)
  <2> HIDE DEF b, bs
  <2> QED  BY <1>3, <1>4, ZenonT(30) DEF GoodPool
<1> QED  BY <1>2, <1>3, <1>4, <1>5, ZenonT(30)

\* What Schedule() leaves behind when it has a batch with room for the task.
LEMMA FilledGood ==
    ASSUME NEW p, IsPool(p), GoodPool(p), p.open # 0, p.inProgress =< NumBatchThreads,
           NEW t \in Tasks, TaskFitsInBatch(t, p.batch[p.open])
    PROVE  /\ GoodPool(Filled(p, t))
           /\ Spare(Filled(p, t))
           /\ LET q == Filled(p, t) IN
              \/ /\ q.open = p.num + 1 /\ q.num = p.num + 1
                 /\ IsEmptyBatch(q.batch[q.open])
              \/ /\ q.open = p.open /\ q.num = p.num
                 /\ ~IsEmptyBatch(q.batch[q.open])
<1> DEFINE b == AddTask(p.batch[p.open], t, Size[t])
           bs == [p.batch EXCEPT ![p.open] = b]
           added == [batch |-> bs, stage |-> p.stage, open |-> p.open, num |-> p.num,
                     inProgress |-> p.inProgress]
<1>1. /\ GoodPool(added) /\ ~IsEmptyBatch(b) /\ bs[p.open] = b
      /\ Filled(p, t) = IF b.size = MaxBatchSize THEN StartNewBatch(added) ELSE added
  BY AddedGood, ZenonT(30)
<1> HIDE DEF b, bs
<1>6. CASE b.size = MaxBatchSize
  <2>1. GoodPool(StartNewBatch(added)) /\ Spare(StartNewBatch(added))
    BY <1>1, StartNewBatchGood, ZenonT(30)
  <2>2. /\ StartNewBatch(added).open = p.num + 1 /\ StartNewBatch(added).num = p.num + 1
        /\ StartNewBatch(added).batch[p.num + 1] = EmptyBatch
    BY ZenonT(30) DEF StartNewBatch, Extended
  <2> QED  BY <1>1, <1>6, <2>1, <2>2 DEF IsEmptyBatch, EmptyBatch
<1>7. CASE b.size # MaxBatchSize
  BY <1>1, <1>7 DEF Spare, GoodPool
<1> QED  BY <1>6, <1>7, ZenonT(30)

\* The open batch that Schedule() puts a task into.
LEMMA WithRoomGood ==
    ASSUME StreamingInv, life = "alive", NEW t \in Tasks, Size[t] =< MaxBatchSize
    PROVE  LET p == WithRoom(t) IN
           /\ IsPool(p) /\ GoodPool(p) /\ Spare(p)
           /\ p.open # 0 /\ TaskFitsInBatch(t, p.batch[p.open])
           /\ \/ p = Pool
              \/ /\ p.num = openBatchNum + 1 /\ p.open = openBatchNum + 1
                 /\ p.inProgress = numInProgress + 1
                 /\ IsEmptyBatch(p.batch[p.open])
<1>1. /\ Pool.open = openBatch /\ Pool.batch = batch /\ Pool.num = openBatchNum
      /\ Pool.inProgress = numInProgress
  BY Zenon DEF Pool
<1>2. GoodPool(Pool) /\ Spare(Pool)
  BY ZenonT(30) DEF StreamingInv, LifeInv
<1> DEFINE start == openBatch = 0 \/ ~TaskFitsInBatch(t, batch[openBatch])
<1>3. CASE ~start
  BY <1>1, <1>2, <1>3, PoolsArePools, ZenonT(30) DEF WithRoom
<1>4. CASE start
  <2>1. numInProgress =< NumBatchThreads
    <3> SUFFICES ASSUME numInProgress > NumBatchThreads PROVE FALSE
      BY <1>1, <1>2 DEF GoodPool
    <3>1. openBatch # 0 /\ IsEmptyBatch(batch[openBatch]) /\ openBatch \in DOMAIN batch
      BY <1>1, <1>2, ZenonT(30) DEF Spare, GoodPool
    <3>2. batch[openBatch].size = 0
      BY <1>1, <1>2, <3>1, ZenonT(30) DEF GoodPool
    <3>3. TaskFitsInBatch(t, batch[openBatch])
      BY <3>2 DEF TaskFitsInBatch
    <3> QED  BY <1>4, <3>1, <3>3, ZenonT(30)
  <2>2. WithRoom(t) = StartNewBatch(Pool)
    BY <1>4, ZenonT(30) DEF WithRoom
  <2>3. GoodPool(StartNewBatch(Pool)) /\ Spare(StartNewBatch(Pool))
    BY <1>1, <1>2, <2>1, StartNewBatchGood, ZenonT(30)
  <2>4. /\ StartNewBatch(Pool).open = openBatchNum + 1
        /\ StartNewBatch(Pool).num = openBatchNum + 1
        /\ StartNewBatch(Pool).inProgress = numInProgress + 1
        /\ StartNewBatch(Pool).batch[openBatchNum + 1] = EmptyBatch
    BY <1>1, ZenonT(30) DEF StartNewBatch, Extended
  <2>5. openBatchNum \in Nat
    BY <1>1, <1>2, ZenonT(30) DEF GoodPool
  <2>6. IsEmptyBatch(EmptyBatch) /\ TaskFitsInBatch(t, EmptyBatch)
    BY DEF IsEmptyBatch, EmptyBatch, TaskFitsInBatch
  <2> HIDE DEF start
  <2> QED  BY <2>2, <2>3, <2>4, <2>5, <2>6, PoolsArePools
<1> QED  BY <1>3, <1>4, ZenonT(30)
-----------------------------------------------------------------------------
LEMMA InitInv == Init => StreamingInv
<1> SUFFICES ASSUME Init PROVE StreamingInv
  BY ZenonT(30)
<1>1. DOMAIN batch = {} /\ DOMAIN stage = {}
  BY DEF Init
<1>2. GoodPool(Pool)
  BY <1>1, FS_EmptySet DEF Init, GoodPool, Pool
<1>3. ClosingsInv /\ OpenBatchWillBeClosed
  <2>1. updatedTask \in 0 .. openBatchNum /\ currentTask \in 0 .. openBatchNum
    BY DEF Init
  <2>2. openBatch = 0 /\ invoking = FALSE
    BY ZenonT(30) DEF Init
  <2> QED  BY <2>1, <2>2, ZenonT(30) DEF ClosingsInv, OpenBatchWillBeClosed
<1>4. LifeInv
  <2>1. Spare(Pool)
    BY DEF Init, Spare, Pool
  <2> QED  BY <2>1, ZenonT(30) DEF Init, LifeInv
<1> QED  BY <1>2, <1>3, <1>4, ZenonT(30) DEF StreamingInv

\* The fields of the pool, for the provers.
LEMMA PoolFields ==
    /\ Pool.batch = batch /\ Pool.stage = stage /\ Pool.open = openBatch
    /\ Pool.num = openBatchNum /\ Pool.inProgress = numInProgress
BY Zenon DEF Pool

LEMMA AcceptKeepsInv ==
    ASSUME StreamingInv, NEW t \in Tasks, ScheduleAccepts(t)
    PROVE  StreamingInv'
<1> DEFINE p == WithRoom(t)
           q == Filled(p, t)
<1>1. life = "alive" /\ Size[t] =< MaxBatchSize /\ p.inProgress =< NumBatchThreads
  BY Zenon DEF ScheduleAccepts, MayAttempt
<1>2. /\ IsPool(p) /\ GoodPool(p) /\ p.open # 0 /\ TaskFitsInBatch(t, p.batch[p.open])
      /\ \/ p = Pool
         \/ /\ p.num = openBatchNum + 1
            /\ IsEmptyBatch(p.batch[p.open])
  BY <1>1, WithRoomGood, ZenonT(30)
<1>3. /\ BecomePool(q) /\ updatedTask' = CloseTask(p)
      /\ currentTask' = currentTask /\ invoking' = invoking /\ life' = life
      /\ retry' = [retry EXCEPT ![t] = "none"]
  BY Zenon DEF ScheduleAccepts
<1> HIDE DEF p
<1>4. /\ GoodPool(q) /\ Spare(q)
      /\ \/ q.open = p.num + 1 /\ q.num = p.num + 1 /\ IsEmptyBatch(q.batch[q.open])
         \/ q.open = p.open /\ q.num = p.num /\ ~IsEmptyBatch(q.batch[q.open])
  BY <1>1, <1>2, FilledGood, ZenonT(30)
<1> HIDE DEF q
<1>5. /\ batch' = q.batch /\ stage' = q.stage /\ openBatch' = q.open
      /\ openBatchNum' = q.num /\ numInProgress' = q.inProgress
  BY <1>3, ZenonT(30) DEF BecomePool
<1>6. GoodPool(Pool)' /\ Spare(Pool)'
  BY <1>4, <1>5, ZenonT(30) DEF GoodPool, Spare, Pool
<1>7. /\ openBatchNum \in Nat /\ p.num \in Nat /\ p.open = p.num
      /\ openBatchNum =< p.num
      /\ updatedTask \in 0 .. openBatchNum /\ currentTask \in 0 .. openBatchNum
  BY <1>2, PoolFields DEF GoodPool, StreamingInv, ClosingsInv
<1>8. updatedTask' = IF BatchTimeout > 0 /\ IsEmptyBatch(p.batch[p.open]) THEN p.num ELSE updatedTask
  BY <1>3, ZenonT(30) DEF CloseTask
<1>9. ClosingsInv'
  BY <1>3, <1>4, <1>5, <1>7, <1>8 DEF StreamingInv, ClosingsInv
<1>10. OpenBatchWillBeClosed'
  <2>1. CASE q.open = p.open /\ IsEmptyBatch(p.batch[p.open])
    BY <1>2, <1>5, <1>7, <1>8, <2>1, ZenonT(30) DEF OpenBatchWillBeClosed
  <2>2. CASE q.open = p.open /\ ~IsEmptyBatch(p.batch[p.open])
    BY <1>2, <1>3, <1>5, <1>7, <1>8, <2>2, PoolFields,
       ZenonT(30) DEF OpenBatchWillBeClosed, StreamingInv
  <2>3. CASE q.open # p.open
    BY <1>4, <1>5, <2>3, ZenonT(30) DEF OpenBatchWillBeClosed
  <2> QED  BY <2>1, <2>2, <2>3, ZenonT(30)
<1>11. LifeInv'
  BY <1>1, <1>2, <1>3, <1>4, <1>5, <1>6, <1>7, ZenonT(30) DEF StreamingInv, LifeInv
<1> QED  BY <1>6, <1>9, <1>10, <1>11, ZenonT(30) DEF StreamingInv

LEMMA UnavailableKeepsInv ==
    ASSUME StreamingInv, NEW t \in Tasks, ScheduleUnavailable(t)
    PROVE  StreamingInv'
<1> DEFINE p == WithRoom(t)
<1>1. life = "alive" /\ Size[t] =< MaxBatchSize
  BY ZenonT(30) DEF ScheduleUnavailable, MayAttempt
<1>2. /\ GoodPool(p) /\ Spare(p) /\ p.open # 0
      /\ \/ p = Pool
         \/ /\ p.num = openBatchNum + 1 /\ p.open = openBatchNum + 1
            /\ IsEmptyBatch(p.batch[p.open])
  BY <1>1, WithRoomGood, ZenonT(30)
<1>3. /\ BecomePool(p) /\ UNCHANGED closerVars /\ life' = life
      /\ \E r \in {"none", "pausing"} : retry' = [retry EXCEPT ![t] = r]
  BY ZenonT(30) DEF ScheduleUnavailable
<1> HIDE DEF p
<1>4. /\ batch' = p.batch /\ stage' = p.stage /\ openBatch' = p.open
      /\ openBatchNum' = p.num /\ numInProgress' = p.inProgress
  BY <1>3, ZenonT(30) DEF BecomePool
<1>5. GoodPool(Pool)' /\ Spare(Pool)'
  BY <1>2, <1>4, ZenonT(30) DEF GoodPool, Spare, Pool
<1>6. ClosingsInv' /\ OpenBatchWillBeClosed'
  <2>1. openBatchNum \in Nat
    BY PoolFields, Zenon DEF GoodPool, StreamingInv
  <2> QED  BY <1>2, <1>3, <1>4, <2>1, PoolFields
           DEF StreamingInv, ClosingsInv, OpenBatchWillBeClosed, closerVars
<1>7. LifeInv'
  BY <1>1, <1>2, <1>3, <1>4, <1>5, ZenonT(30) DEF StreamingInv, LifeInv
<1> QED  BY <1>5, <1>6, <1>7, ZenonT(30) DEF StreamingInv

LEMMA CloseKeepsInv ==
    ASSUME StreamingInv, CloseBatch
    PROVE  StreamingInv'
<1> USE PoolFields
<1>1. CASE openBatchNum = currentTask
  <2>1. currentTask # 0
    BY Zenon DEF CloseBatch, StreamingInv, ClosingsInv
  <2>2. life = "alive" /\ openBatch # 0 /\ openBatch = openBatchNum
    BY <1>1, <2>1, ZenonT(30) DEF StreamingInv, LifeInv, GoodPool
  <2>3. numInProgress =< NumBatchThreads
    <3>1. ~IsEmptyBatch(batch[openBatch])
      BY <1>1, <2>2, ZenonT(30) DEF StreamingInv, ClosingsInv
    <3>2. Spare(Pool) /\ numInProgress \in Nat
      BY <2>2, Zenon DEF StreamingInv, LifeInv, GoodPool
    <3> QED  BY <3>1, <3>2 DEF Spare
  <2> DEFINE q == StartNewBatch(Pool)
  <2>4. GoodPool(q) /\ Spare(q)
    BY <2>3, StartNewBatchGood, ZenonT(30) DEF StreamingInv
  <2>5. /\ q.open = openBatchNum + 1 /\ q.num = openBatchNum + 1
        /\ q.batch[openBatchNum + 1] = EmptyBatch
    BY Zenon DEF StartNewBatch, Extended
  <2>6. /\ BecomePool(q) /\ currentTask' = 0 /\ invoking' = FALSE
        /\ UNCHANGED <<updatedTask, retry, life>>
    BY <1>1, ZenonT(30) DEF CloseBatch
  <2> HIDE DEF q
  <2>7. /\ batch' = q.batch /\ stage' = q.stage /\ openBatch' = q.open
        /\ openBatchNum' = q.num /\ numInProgress' = q.inProgress
    BY <2>6, ZenonT(30) DEF BecomePool
  <2>8. GoodPool(Pool)' /\ Spare(Pool)'
    BY <2>4, <2>7, ZenonT(30) DEF GoodPool, Spare, Pool
  <2>9. openBatchNum \in Nat /\ IsEmptyBatch(EmptyBatch)
    BY ZenonT(30) DEF StreamingInv, GoodPool, IsEmptyBatch, EmptyBatch
  <2>10. ClosingsInv' /\ OpenBatchWillBeClosed'
    <3>1. OpenBatchWillBeClosed'
      BY <2>5, <2>7, <2>9, ZenonT(30) DEF OpenBatchWillBeClosed
    <3>2. updatedTask' \in 0 .. openBatchNum /\ openBatch' = openBatchNum + 1
      BY <2>5, <2>6, <2>7, ZenonT(30) DEF StreamingInv, ClosingsInv
    <3>3. updatedTask' \in 0 .. openBatchNum' /\ currentTask' \in 0 .. openBatchNum'
      BY <2>5, <2>6, <2>7, <2>9, <3>2
    <3>4. openBatch' \notin {updatedTask', currentTask'}
      BY <2>6, <2>9, <3>2
    <3> QED  BY <2>6, <3>1, <3>3, <3>4, ZenonT(30) DEF ClosingsInv
  <2>11. LifeInv'
    BY <2>2, <2>5, <2>6, <2>7, <2>8, <2>9, ZenonT(30) DEF StreamingInv, LifeInv
  <2> QED  BY <2>8, <2>10, <2>11, ZenonT(30) DEF StreamingInv
<1>2. CASE openBatchNum # currentTask
  <2>1. /\ UNCHANGED <<batch, stage, openBatch, openBatchNum, numInProgress, updatedTask, retry, life>>
        /\ currentTask' = 0 /\ invoking' = FALSE
    BY <1>2, ZenonT(30) DEF CloseBatch, poolVars
  <2>2. GoodPool(Pool)' /\ Pool' = Pool
    BY <2>1, ZenonT(30) DEF StreamingInv, GoodPool, Pool
  <2>3. ClosingsInv' /\ OpenBatchWillBeClosed'
    <3>1. OpenBatchWillBeClosed'
      BY <1>2, <2>1, ZenonT(30) DEF StreamingInv, GoodPool, OpenBatchWillBeClosed
    <3>2. updatedTask' \in 0 .. openBatchNum' /\ currentTask' \in 0 .. openBatchNum'
      BY <2>1 DEF StreamingInv, GoodPool, ClosingsInv
    <3>3. openBatch' # 0 /\ openBatch' \in {updatedTask', currentTask'}
              => ~IsEmptyBatch(batch'[openBatch'])
      BY <2>1, Zenon DEF StreamingInv, ClosingsInv
    <3> QED  BY <2>1, <3>1, <3>2, <3>3, ZenonT(30) DEF ClosingsInv, IsEmptyBatch
  <2>4. LifeInv'
    BY <2>1, <2>2,
       ZenonT(30) DEF StreamingInv, LifeInv, Spare, GoodPool, ClosingsInv
  <2> QED  BY <2>2, <2>3, <2>4, ZenonT(30) DEF StreamingInv
<1> QED  BY <1>1, <1>2, ZenonT(30)

\* The steps of the thread pool touch the closed batches only.
LEMMA PoolStepKeepsInv ==
    ASSUME StreamingInv, NEW n \in DOMAIN batch, PoolStep(n)
    PROVE  StreamingInv'
<1> USE PoolFields
<1>1. CASE BatchStarts(n) \/ CallbackReturns(n)
  <2>1. /\ UNCHANGED <<batch, openBatch, openBatchNum, numInProgress, closerVars, retry, life>>
        /\ \/ stage' = [stage EXCEPT ![n] = "running"]
           \/ stage' = [stage EXCEPT ![n] = "returned"] /\ n # openBatch
    BY <1>1, ZenonT(30) DEF BatchStarts, CallbackReturns
  <2>2. DOMAIN stage = DOMAIN batch
    BY ZenonT(30) DEF StreamingInv, GoodPool
  <2>3. /\ DOMAIN stage' = DOMAIN batch
        /\ \A m \in DOMAIN batch : stage'[m] \in {"queued", "running", "returned"}
        /\ openBatch # 0 => stage'[openBatch] # "returned"
    BY <2>1, <2>2, ZenonT(30) DEF StreamingInv, GoodPool
  <2>4. GoodPool(Pool)'
    BY <2>1, <2>3, ZenonT(30) DEF StreamingInv, GoodPool, Pool
  <2>5. ClosingsInv' /\ OpenBatchWillBeClosed'
    BY <2>1,
       ZenonT(30) DEF StreamingInv, ClosingsInv, OpenBatchWillBeClosed, closerVars
  <2>6. LifeInv'
    BY <2>1, ZenonT(30) DEF StreamingInv, LifeInv, Spare, closerVars, Pool
  <2> QED  BY <2>4, <2>5, <2>6, ZenonT(30) DEF StreamingInv
<1>2. CASE ClosureEnds(n)
  <2>1. /\ UNCHANGED <<openBatch, openBatchNum, closerVars, retry, life>>
        /\ numInProgress' = numInProgress - 1
        /\ n # openBatch
        /\ DOMAIN stage = DOMAIN batch
    BY <1>2 DEF ClosureEnds, StreamingInv, GoodPool
  <2>2. /\ DOMAIN batch' = DOMAIN batch \ {n} /\ DOMAIN stage' = DOMAIN batch \ {n}
        /\ \A m \in DOMAIN batch \ {n} : batch'[m] = batch[m] /\ stage'[m] = stage[m]
    BY <1>2, <2>1, Zenon DEF ClosureEnds, Restrict
  <2>3. IsFiniteSet(DOMAIN batch') /\ Cardinality(DOMAIN batch') = numInProgress - 1
    <3>1. IsFiniteSet(DOMAIN batch) /\ Cardinality(DOMAIN batch) = numInProgress
      BY Zenon DEF StreamingInv, GoodPool
    <3>2. /\ IsFiniteSet(DOMAIN batch \ {n})
          /\ Cardinality(DOMAIN batch \ {n}) = Cardinality(DOMAIN batch) - 1
      BY <3>1, FS_RemoveElement, ZenonT(30)
    <3> QED  BY <2>2, <3>1, <3>2, ZenonT(30)
  <2>4. numInProgress \in Nat /\ numInProgress # 0 /\ numInProgress =< NumBatchThreads + 1
    BY FS_EmptySet, ZenonT(30) DEF StreamingInv, GoodPool
  <2>5. GoodPool(Pool)'
    BY <2>1, <2>2, <2>3, <2>4 DEF StreamingInv, GoodPool, Pool
  <2>6. openBatch # 0 => batch'[openBatch] = batch[openBatch]
    BY <2>1, <2>2, ZenonT(30) DEF StreamingInv, GoodPool
  <2>7. ClosingsInv' /\ OpenBatchWillBeClosed'
    BY <2>1, <2>6,
       ZenonT(30) DEF StreamingInv, ClosingsInv, OpenBatchWillBeClosed, closerVars, IsEmptyBatch
  <2>8. ~(numInProgress' > NumBatchThreads)
    BY <2>1, <2>4
  <2>9. LifeInv'
    BY <2>1, <2>2, <2>8,
       ZenonT(30) DEF StreamingInv, LifeInv, Spare, closerVars, Pool
  <2> QED  BY <2>5, <2>7, <2>9, Zenon DEF StreamingInv
<1> QED  BY <1>1, <1>2, ZenonT(30) DEF PoolStep

LEMMA NextKeepsInv == StreamingInv /\ [Next]_vars => StreamingInv'
<1> SUFFICES ASSUME StreamingInv, [Next]_vars PROVE StreamingInv'
  BY ZenonT(30)
<1> USE PoolFields
<1>1. CASE \E t \in Tasks : Attempt(t)
  BY <1>1, AcceptKeepsInv, UnavailableKeepsInv, ZenonT(30) DEF Attempt
<1>2. CASE \E t \in Tasks : RetryBudgetEnds(t)
  <2>1. /\ UNCHANGED <<batch, stage, openBatch, openBatchNum, numInProgress, closerVars, life>>
        /\ retry' \in [Tasks -> {"none", "pausing", "out of time"}]
    BY <1>2, ZenonT(30) DEF RetryBudgetEnds, poolVars, StreamingInv, LifeInv
  <2>2. GoodPool(Pool)' /\ Pool' = Pool
    BY <2>1, ZenonT(30) DEF StreamingInv, GoodPool, Pool
  <2>3. ClosingsInv' /\ OpenBatchWillBeClosed'
    BY <2>1,
       ZenonT(30) DEF StreamingInv, ClosingsInv, OpenBatchWillBeClosed, closerVars
  <2>4. LifeInv'
    BY <2>1, <2>2, ZenonT(30) DEF StreamingInv, LifeInv, Spare, closerVars
  <2> QED  BY <2>2, <2>3, <2>4, ZenonT(30) DEF StreamingInv
<1>3. CASE \E n \in DOMAIN batch : PoolStep(n)
  BY <1>3, PoolStepKeepsInv, ZenonT(30)
<1>4. CASE PickUpUpdatedTask \/ NoUpdatedTask
  <2>1. /\ UNCHANGED <<batch, stage, openBatch, openBatchNum, numInProgress, retry, life>>
        /\ \/ /\ updatedTask # 0 /\ currentTask' = updatedTask /\ updatedTask' = 0
              /\ invoking' = invoking
           \/ currentTask # 0 /\ invoking' = TRUE /\ UNCHANGED <<updatedTask, currentTask>>
    BY <1>4, ZenonT(30) DEF PickUpUpdatedTask, NoUpdatedTask, poolVars
  <2>2. GoodPool(Pool)' /\ Pool' = Pool
    BY <2>1, ZenonT(30) DEF StreamingInv, GoodPool, Pool
  <2>3. OpenBatchWillBeClosed'
    BY <2>1, ZenonT(30) DEF StreamingInv, OpenBatchWillBeClosed
  <2>4. /\ updatedTask' \in 0 .. openBatchNum' /\ currentTask' \in 0 .. openBatchNum'
        /\ currentTask' # 0
        /\ openBatch' # 0 /\ openBatch' \in {updatedTask', currentTask'}
              => ~IsEmptyBatch(batch'[openBatch'])
    BY <2>1 DEF StreamingInv, GoodPool, ClosingsInv
  <2>5. invoking' \in BOOLEAN
    BY <2>1, Zenon DEF StreamingInv, ClosingsInv
  <2>6. ClosingsInv'
    BY <2>4, <2>5, ZenonT(30) DEF ClosingsInv, IsEmptyBatch
  <2>7. LifeInv'
    BY <2>1, <2>2, ZenonT(30) DEF StreamingInv, LifeInv, ClosingsInv, Spare
  <2> QED  BY <2>2, <2>3, <2>6, <2>7, ZenonT(30) DEF StreamingInv
<1>5. CASE CloseBatch
  BY <1>5, CloseKeepsInv, ZenonT(30)
<1>6. CASE BeginDestructor
  <2>1. /\ UNCHANGED <<batch, stage, numInProgress, closerVars, retry>>
        /\ life = "alive" /\ life' = "draining" /\ openBatch' = 0
        /\ openBatchNum' = IF openBatch = 0 THEN openBatchNum ELSE openBatchNum + 1
    BY <1>6, ZenonT(30) DEF BeginDestructor
  <2>2. GoodPool(Pool)'
    BY <2>1 DEF StreamingInv, GoodPool, Pool
  <2>3. /\ openBatchNum \in Nat
        /\ openBatch = 0 => openBatchNum = 0
        /\ updatedTask \in 0 .. openBatchNum /\ currentTask \in 0 .. openBatchNum
    BY <2>1, Zenon DEF StreamingInv, GoodPool, LifeInv, ClosingsInv
  <2>4. /\ updatedTask' \in 0 .. openBatchNum' /\ currentTask' \in 0 .. openBatchNum'
        /\ openBatchNum' \in {updatedTask', currentTask'} => openBatchNum' = 0
    BY <2>1, <2>3 DEF closerVars
  <2>5. ClosingsInv' /\ OpenBatchWillBeClosed'
    BY <2>1, <2>4,
       ZenonT(30) DEF StreamingInv, ClosingsInv, OpenBatchWillBeClosed, closerVars
  <2>6. numInProgress > NumBatchThreads => \E n \in DOMAIN batch : IsEmptyBatch(batch[n])
    BY <2>1, ZenonT(30) DEF StreamingInv, LifeInv, Spare, GoodPool
  <2>7. LifeInv'
    BY <2>1, <2>4, <2>6, ZenonT(30) DEF StreamingInv, LifeInv
  <2> QED  BY <2>2, <2>5, <2>7, ZenonT(30) DEF StreamingInv
<1>7. CASE ThreadPoolDrained \/ BatchCloserJoined \/ UNCHANGED vars
  <2>1. /\ UNCHANGED <<batch, stage, openBatch, openBatchNum, numInProgress, closerVars, retry>>
        /\ \/ life' = life
           \/ life = "draining" /\ life' = "joining" /\ DOMAIN batch = {}
           \/ life = "joining" /\ life' = "destroyed"
    BY <1>7, ZenonT(30) DEF ThreadPoolDrained, BatchCloserJoined, vars, poolVars
  <2>2. GoodPool(Pool)' /\ Pool' = Pool
    BY <2>1, ZenonT(30) DEF StreamingInv, GoodPool, Pool
  <2>3. ClosingsInv' /\ OpenBatchWillBeClosed'
    BY <2>1,
       ZenonT(30) DEF StreamingInv, ClosingsInv, OpenBatchWillBeClosed, closerVars
  <2>4. LifeInv'
    BY <2>1, <2>2, ZenonT(30) DEF StreamingInv, LifeInv, Spare, closerVars
  <2> QED  BY <2>2, <2>3, <2>4, Zenon DEF StreamingInv
<1> QED  BY <1>1, <1>2, <1>3, <1>4, <1>5, <1>6, <1>7,
            ZenonT(30) DEF Next, CloserStep, Terminated

\* The inductive invariant holds throughout.
THEOREM StreamingInvariant == Spec => []StreamingInv
BY InitInv, NextKeepsInv, PTL DEF Spec
-----------------------------------------------------------------------------
\* Type correctness.
THEOREM StreamingTypeOK == Spec => []TypeOK
<1>1. StreamingInv => TypeOK
  <2> SUFFICES ASSUME StreamingInv PROVE TypeOK
    BY Zenon
  <2>1. openBatchNum \in Nat
    BY PoolFields, ZenonT(30) DEF StreamingInv, GoodPool
  <2>2. DOMAIN batch \in SUBSET Nat
    BY <2>1, PoolFields DEF StreamingInv, GoodPool
  <2>3. updatedTask \in Nat /\ currentTask \in Nat
    BY <2>1 DEF StreamingInv, ClosingsInv
  <2>4. invoking \in BOOLEAN
    BY Zenon DEF StreamingInv, ClosingsInv
  <2> QED  BY <2>1, <2>2, <2>3, <2>4, PoolFields,
              ZenonT(30) DEF StreamingInv, GoodPool, LifeInv, TypeOK
<1> QED  BY <1>1, StreamingInvariant, PTL

\* No batch with a task in it is left without somebody to close it: the closing
\* that SingleTaskScheduler runs next names the open batch.
THEOREM EveryOpenBatchIsClosed == Spec => []OpenBatchWillBeClosed
<1>1. StreamingInv => OpenBatchWillBeClosed
  BY ZenonT(30) DEF StreamingInv
<1> QED  BY <1>1, StreamingInvariant, PTL

\* num_batches_in_progress_ counts the closures in the thread pool, and with any
\* number of threads every task of a batch has one (no task is enqueued).
THEOREM EveryTaskHasAThread == Spec => []TasksHaveThreads
<1>1. StreamingInv => TasksHaveThreads
  <2> SUFFICES ASSUME StreamingInv PROVE TasksHaveThreads
    BY Zenon
  <2> DEFINE D == DOMAIN batch
             F == {n \in D : ~IsEmptyBatch(batch[n])}
  <2>1. /\ IsFiniteSet(D) /\ numInProgress = Cardinality(D) /\ numInProgress \in Nat
        /\ numInProgress =< NumBatchThreads + 1
    BY PoolFields, ZenonT(30) DEF StreamingInv, GoodPool
  <2>2. numInProgress > NumBatchThreads => \E n \in D : IsEmptyBatch(batch[n])
    BY PoolFields, Zenon DEF StreamingInv, GoodPool, LifeInv, Spare
  <2>3. Cardinality(F) =< NumBatchThreads
    <3>1. CASE numInProgress =< NumBatchThreads
      <4>1. Cardinality(F) =< Cardinality(D) /\ IsFiniteSet(F)
        BY <2>1, FS_Subset, ZenonT(30)
      <4>2. Cardinality(F) \in Nat
        BY <4>1, FS_CardinalityType, ZenonT(30)
      <4> QED  BY <2>1, <3>1, <4>1, <4>2
    <3>2. CASE numInProgress > NumBatchThreads
      <4>1. PICK n \in D : IsEmptyBatch(batch[n])
        BY <2>2, <3>2, ZenonT(30)
      <4>2. IsFiniteSet(D \ {n}) /\ Cardinality(D \ {n}) = Cardinality(D) - 1
        BY <2>1, FS_RemoveElement, ZenonT(30)
      <4>3. F \in SUBSET (D \ {n})
        BY <4>1, Zenon
      <4>4. Cardinality(F) =< Cardinality(D \ {n}) /\ IsFiniteSet(F)
        BY <4>2, <4>3, FS_Subset, ZenonT(30)
      <4>5. Cardinality(F) \in Nat
        BY <4>4, FS_CardinalityType, ZenonT(30)
      <4> QED  BY <2>1, <4>2, <4>4, <4>5
    <3> QED  BY <2>1, <3>1, <3>2
  <2>4. numInProgress > NumBatchThreads /\ life = "alive"
            => openBatch # 0 /\ IsEmptyBatch(batch[openBatch])
    BY PoolFields, ZenonT(30) DEF StreamingInv, LifeInv, Spare
  <2> QED  BY <2>1, <2>3, <2>4 DEF TasksHaveThreads
<1> QED  BY <1>1, StreamingInvariant, PTL

\* A closing that outlives the destructor's first step starts no batch in the
\* thread pool that is being deleted.
THEOREM NothingStartsAfterDestruction == Spec => []NoBatchAfterDestruction
<1>1. StreamingInv => NoBatchAfterDestruction
  BY Zenon DEF StreamingInv, LifeInv, NoBatchAfterDestruction
<1> QED  BY <1>1, StreamingInvariant, PTL
-----------------------------------------------------------------------------
(***************************************************************************)
(* SchedulingCapacity().                                                   *)
(***************************************************************************)
CapacityOf(p) == SchedulingCapacity(p.inProgress, p.open, p.batch)

\* To start a batch when the open one is full leaves the capacity alone.
LEMMA StartKeepsCapacity ==
    ASSUME NEW p, GoodPool(p), p.inProgress =< NumBatchThreads,
           p.open = 0 \/ p.batch[p.open].size = MaxBatchSize
    PROVE  CapacityOf(StartNewBatch(p)) = CapacityOf(p)
<1> DEFINE q == StartNewBatch(p)
           a == NumBatchThreads - p.inProgress
<1>1. /\ q.open = p.num + 1 /\ q.inProgress = p.inProgress + 1
      /\ q.batch[p.num + 1].size = 0
  BY Zenon DEF StartNewBatch, Extended, EmptyBatch
<1>2. p.num + 1 # 0 /\ a \in Nat
  BY DEF GoodPool
<1>3. CapacityOf(p) = a * MaxBatchSize
  BY <1>2 DEF CapacityOf, SchedulingCapacity, GoodPool
<1>4. CASE a = 0
  BY <1>1, <1>3, <1>4 DEF CapacityOf, SchedulingCapacity, GoodPool
<1>5. CASE a # 0
  <2>1. ~(q.inProgress > NumBatchThreads)
    BY <1>1, <1>2, <1>5 DEF GoodPool
  <2>2. CapacityOf(q) = (NumBatchThreads - q.inProgress) * MaxBatchSize + MaxBatchSize
    <3> HIDE DEF q
    <3> QED  BY <1>1, <1>2, <2>1 DEF CapacityOf, SchedulingCapacity
  <2>3. NumBatchThreads - q.inProgress = a - 1
    BY <1>1 DEF GoodPool
  <2>4. (a - 1) * MaxBatchSize + MaxBatchSize = a * MaxBatchSize
    BY <1>2
  <2>5. CapacityOf(q) = CapacityOf(p)
    <3> HIDE DEF q, a
    <3> QED  BY <1>3, <2>2, <2>3, <2>4, ZenonT(30)
  <2> QED  BY <2>5, Zenon
<1> QED  BY <1>4, <1>5, ZenonT(30)

\* A task of size 1 takes exactly 1 from the capacity.
LEMMA FilledTakesCapacity ==
    ASSUME NEW p, IsPool(p), GoodPool(p), p.open # 0, p.inProgress =< NumBatchThreads,
           NEW t \in Tasks, TaskFitsInBatch(t, p.batch[p.open]), Size[t] = 1
    PROVE  CapacityOf(Filled(p, t)) = CapacityOf(p) - 1
<1> DEFINE b == AddTask(p.batch[p.open], t, Size[t])
           bs == [p.batch EXCEPT ![p.open] = b]
           added == [batch |-> bs, stage |-> p.stage, open |-> p.open, num |-> p.num,
                     inProgress |-> p.inProgress]
           a == (NumBatchThreads - p.inProgress) * MaxBatchSize
<1>1. GoodPool(added) /\ Filled(p, t) = IF b.size = MaxBatchSize THEN StartNewBatch(added) ELSE added
  BY AddedGood, ZenonT(30)
<1>2. bs[p.open].size = p.batch[p.open].size + 1 /\ p.batch[p.open].size \in Nat
  BY Zenon DEF GoodPool, AddTask, BatchesOf
<1>3. bs[p.open] = b
  BY Zenon DEF GoodPool
<1>4. a \in Int
  BY DEF GoodPool
<1>5. /\ ~(p.inProgress > NumBatchThreads)
      /\ CapacityOf(p) = a + (MaxBatchSize - p.batch[p.open].size)
  BY DEF CapacityOf, SchedulingCapacity, GoodPool
<1>6. CapacityOf(added) = a + (MaxBatchSize - bs[p.open].size)
  <2> HIDE DEF bs
  <2> QED  BY <1>5, ZenonT(30) DEF CapacityOf, SchedulingCapacity
<1>7. CapacityOf(added) = CapacityOf(p) - 1
  <2> HIDE DEF bs, a, added
  <2> QED  BY <1>2, <1>4, <1>5, <1>6
<1>8. CASE b.size = MaxBatchSize
  <2>1. added.batch[added.open].size = MaxBatchSize /\ added.inProgress =< NumBatchThreads
    <3> HIDE DEF bs, b
    <3> QED  BY <1>3, <1>8, ZenonT(30)
  <2> HIDE DEF added, b
  <2> QED  BY <1>1, <1>7, <1>8, <2>1, StartKeepsCapacity, ZenonT(30)
<1>9. CASE b.size # MaxBatchSize
  <2> HIDE DEF added, b
  <2> QED  BY <1>1, <1>7, <1>9, ZenonT(30)
<1> QED  BY <1>8, <1>9, ZenonT(30)

\* The capacity that SchedulingCapacity() reports is a guarantee, for tasks of
\* size 1, in any state the scheduler can be in.
THEOREM CapacityIsAPromise == Spec => CapacityIsGuaranteed
<1> DEFINE Guarantee ==
        \A t \in Tasks :
            LET capacity == SchedulingCapacity(numInProgress, openBatch, batch) IN
            Attempt(t) /\ Size[t] = 1 /\ capacity > 0
                => /\ ScheduleAccepts(t)
                   /\ SchedulingCapacity(numInProgress', openBatch', batch') = capacity - 1
<1>1. StreamingInv /\ [Next]_vars => [Guarantee]_vars
  <2> SUFFICES ASSUME StreamingInv, NEW t \in Tasks, Attempt(t), Size[t] = 1,
                      CapacityOf(Pool) > 0
               PROVE  /\ ScheduleAccepts(t)
                      /\ SchedulingCapacity(numInProgress', openBatch', batch') = CapacityOf(Pool) - 1
    BY PoolFields, ZenonT(30) DEF CapacityOf
  <2> DEFINE p == WithRoom(t)
  <2>1. life = "alive" /\ Size[t] =< MaxBatchSize
    BY Zenon DEF Attempt, ScheduleAccepts, ScheduleUnavailable, MayAttempt
  <2>2. IsPool(p) /\ GoodPool(p) /\ p.open # 0 /\ TaskFitsInBatch(t, p.batch[p.open])
    BY <2>1, WithRoomGood, ZenonT(30)
  <2>3. numInProgress =< NumBatchThreads /\ GoodPool(Pool)
    BY PoolFields DEF CapacityOf, SchedulingCapacity, StreamingInv, GoodPool
  <2>4. CapacityOf(p) = CapacityOf(Pool)
    <3>1. CASE openBatch = 0 \/ ~TaskFitsInBatch(t, batch[openBatch])
      <4>1. openBatch = 0 \/ batch[openBatch].size = MaxBatchSize
        <5> SUFFICES ASSUME openBatch # 0 PROVE batch[openBatch].size = MaxBatchSize
          BY Zenon
        <5>1. batch[openBatch].size \in Nat /\ batch[openBatch].size =< MaxBatchSize
          BY <2>3, PoolFields, ZenonT(30) DEF GoodPool, BatchesOf
        <5> QED  BY <3>1, <5>1 DEF TaskFitsInBatch
      <4>2. CapacityOf(StartNewBatch(Pool)) = CapacityOf(Pool)
        BY <2>3, <4>1, PoolFields, StartKeepsCapacity, ZenonT(30)
      <4> QED  BY <3>1, <4>2, ZenonT(30) DEF WithRoom
    <3>2. CASE ~(openBatch = 0 \/ ~TaskFitsInBatch(t, batch[openBatch]))
      BY <3>2, ZenonT(30) DEF WithRoom
    <3> QED  BY <3>1, <3>2, Zenon
  <2>5. p.inProgress =< NumBatchThreads
    BY <2>2, <2>4 DEF CapacityOf, SchedulingCapacity, GoodPool
  <2>6. ScheduleAccepts(t)
    <3>1. ~(p.inProgress > NumBatchThreads)
      BY <2>2, <2>5 DEF GoodPool
    <3> QED  BY <3>1, Zenon DEF Attempt, ScheduleUnavailable
  <2>7. BecomePool(Filled(p, t))
    BY <2>6, Zenon DEF ScheduleAccepts
  <2>8. CapacityOf(Filled(p, t)) = CapacityOf(p) - 1
    <3> HIDE DEF p
    <3> QED  BY <2>2, <2>5, FilledTakesCapacity, ZenonT(30)
  <2> HIDE DEF p
  <2> QED  BY <2>4, <2>6, <2>7, <2>8, ZenonT(30) DEF BecomePool, CapacityOf
<1>2. CapacityIsGuaranteed <=> [][Guarantee]_vars
  BY Zenon DEF CapacityIsGuaranteed
<1> HIDE DEF Guarantee
<1> QED  BY <1>1, <1>2, StreamingInvariant, PTL DEF Spec
-----------------------------------------------------------------------------
(***************************************************************************)
(* The scheduler implements BatchScheduler.  Sizes says that the size of a *)
(* batch is the sum of the sizes of its tasks, Apart that no task is in    *)
(* two batches that are still to be processed.                             *)
(***************************************************************************)
\* sum[i] is the size of the first i tasks of a batch.
Sums(b) ==
    \E sum \in [0 .. Len(b.tasks) -> 0 .. MaxBatchSize] :
        /\ sum[0] = 0
        /\ \A i \in 1 .. Len(b.tasks) : sum[i] = sum[i - 1] + Size[b.tasks[i]]
        /\ sum[Len(b.tasks)] = b.size

Sizes(p) == \A n \in DOMAIN p.batch : Sums(p.batch[n])

Apart(p) ==
    \A m, n \in DOMAIN p.batch :
        m # n /\ p.stage[m] # "returned" /\ p.stage[n] # "returned"
            => \A t : ~(t \in Range(p.batch[m].tasks) /\ t \in Range(p.batch[n].tasks))

\* Held(), the open batch and the closed ones, of any values of the fields.
HeldIn(p, t) ==
    \E n \in DOMAIN p.batch : p.stage[n] # "returned" /\ t \in Range(p.batch[n].tasks)

LineOf(p) == IF p.open = 0 THEN <<>> ELSE p.batch[p.open].tasks

ClosedOf(p) ==
    {p.batch[n].tasks : n \in {m \in DOMAIN p.batch :
        m # p.open /\ p.stage[m] # "returned" /\ ~IsEmptyBatch(p.batch[m])}}

LEMMA OfThePool ==
    /\ LineOf(Pool) = OpenTasks /\ ClosedOf(Pool) = ClosedTasks
    /\ \A t : HeldIn(Pool, t) <=> Held(t)
BY PoolFields, Zenon DEF LineOf, ClosedOf, HeldIn, OpenTasks, ClosedTasks, Held

\* Sequences, as a batch grows.
LEMMA AppendFacts ==
    ASSUME NEW s \in Seq(Tasks), NEW t \in Tasks
    PROVE  /\ Append(s, t) \in Seq(Tasks) /\ Append(s, t) # <<>>
           /\ Len(s) \in Nat /\ Len(Append(s, t)) = Len(s) + 1
           /\ Append(s, t)[Len(s) + 1] = t
           /\ \A i \in 1 .. Len(s) : Append(s, t)[i] = s[i]
           /\ Range(Append(s, t)) = Range(s) \cup {t}
<1>1. /\ Append(s, t) \in Seq(Tasks) /\ Append(s, t) # <<>>
      /\ Len(s) \in Nat /\ Len(Append(s, t)) = Len(s) + 1
      /\ Append(s, t)[Len(s) + 1] = t
      /\ \A i \in 1 .. Len(s) : Append(s, t)[i] = s[i]
  OBVIOUS
<1>2. /\ DOMAIN Append(s, t) = 1 .. Len(s) + 1 /\ DOMAIN s = 1 .. Len(s)
      /\ \A i \in 1 .. Len(s) + 1 : i \in 1 .. Len(s) \/ i = Len(s) + 1
      /\ \A i \in 1 .. Len(s) : i \in 1 .. Len(s) + 1
      /\ Len(s) + 1 \in 1 .. Len(s) + 1
  OBVIOUS
<1>3. Range(Append(s, t)) = Range(s) \cup {t}
  <2> HIDE <1>2
  <2>1. \A x : x \in Range(Append(s, t)) <=> \E i \in 1 .. Len(s) + 1 : x = Append(s, t)[i]
    BY <1>2, Zenon DEF Range
  <2>2. \A x : x \in Range(s) <=> \E i \in 1 .. Len(s) : x = s[i]
    BY <1>2, Zenon DEF Range
  <2>3. ASSUME NEW x, x \in Range(Append(s, t)) PROVE x \in Range(s) \/ x = t
    <3>1. PICK i \in 1 .. Len(s) + 1 : x = Append(s, t)[i]
      BY <2>1, <2>3, Zenon
    <3>2. CASE i \in 1 .. Len(s)
      BY <1>1, <2>2, <3>1, <3>2, Zenon
    <3>3. CASE i = Len(s) + 1
      BY <1>1, <3>1, <3>3, Zenon
    <3> QED  BY <1>2, <3>2, <3>3, Zenon
  <2>4. \A x : x \in Range(s) => x \in Range(Append(s, t))
    BY <1>1, <1>2, <2>1, <2>2, ZenonT(30)
  <2>5. t \in Range(Append(s, t))
    BY <1>1, <1>2, <2>1, Zenon
  <2> QED  BY <2>3, <2>4, <2>5, Zenon
<1> QED  BY <1>1, <1>3, Zenon

LEMMA SubSeqFacts ==
    ASSUME NEW s \in Seq(Tasks)
    PROVE  /\ SubSeq(s, 1, 0) = <<>> /\ SubSeq(s, Len(s) + 1, Len(s)) = <<>>
           /\ SubSeq(s, 1, Len(s)) = s
OBVIOUS

LEMMA SameSequence ==
    ASSUME NEW r \in Seq(Tasks), NEW s \in Seq(Tasks), Len(r) = Len(s),
           \A i \in 1 .. Len(s) : r[i] = s[i]
    PROVE  r = s
OBVIOUS

LEMMA SubSeqOfAppend ==
    ASSUME NEW s \in Seq(Tasks), NEW t \in Tasks
    PROVE  /\ SubSeq(Append(s, t), 1, Len(s)) = s
           /\ SubSeq(Append(s, t), Len(s) + 1, Len(s) + 1) = Append(<<>>, t)
<1>1. PICK l \in Seq(Tasks) : l = Append(s, t)
  BY AppendFacts, Zenon
<1>2. PICK n \in Nat : n = Len(s)
  BY AppendFacts, Zenon
<1>3. Len(l) = n + 1 /\ l[n + 1] = t /\ \A i \in 1 .. n : l[i] = s[i]
  BY <1>1, <1>2, AppendFacts, ZenonT(30)
<1>4. SubSeq(l, 1, n) = s
  <2>1. SubSeq(l, 1, n) \in Seq(Tasks) /\ Len(SubSeq(l, 1, n)) = n
    BY <1>3
  <2>2. \A i \in 1 .. n : SubSeq(l, 1, n)[i] = s[i]
    BY <1>3
  <2> QED  BY <1>2, <2>1, <2>2, SameSequence, Zenon
<1>5. SubSeq(l, n + 1, n + 1) = Append(<<>>, t)
  <2>1. /\ SubSeq(l, n + 1, n + 1) \in Seq(Tasks) /\ Len(SubSeq(l, n + 1, n + 1)) = 1
        /\ SubSeq(l, n + 1, n + 1)[1] = t
    BY <1>3
  <2>2. /\ Append(<<>>, t) \in Seq(Tasks) /\ Len(Append(<<>>, t)) = 1
        /\ Append(<<>>, t)[1] = t /\ \A i \in 1 .. 1 : i = 1
    OBVIOUS
  <2> QED  BY <2>1, <2>2, SameSequence, Zenon
<1> QED  BY <1>1, <1>2, <1>4, <1>5, Zenon

LEMMA EmptySums == Sums(EmptyBatch)
<1> DEFINE sum == [i \in 0 .. 0 |-> 0]
<1>1. EmptyBatch.tasks = <<>> /\ EmptyBatch.size = 0
  BY Zenon DEF EmptyBatch
<1>2. /\ sum \in [0 .. Len(<<>>) -> 0 .. MaxBatchSize]
      /\ sum[0] = 0 /\ sum[Len(<<>>)] = 0
      /\ \A i \in 1 .. Len(<<>>) : sum[i] = sum[i - 1] + Size[<<>>[i]]
  OBVIOUS
<1> HIDE DEF sum
<1> QED  BY <1>1, <1>2, Zenon DEF Sums

LEMMA AddSums ==
    ASSUME NEW b \in BatchesOf(Tasks), Sums(b), NEW t \in Tasks, b.size + Size[t] =< MaxBatchSize
    PROVE  Sums(AddTask(b, t, Size[t]))
<1>1. b.tasks \in Seq(Tasks) /\ b.size \in Nat /\ Size[t] \in Nat
  BY Zenon DEF BatchesOf
<1>2. PICK l \in Nat : l = Len(b.tasks)
  BY <1>1
<1>3. PICK sum \in [0 .. l -> 0 .. MaxBatchSize] :
         /\ sum[0] = 0
         /\ \A i \in 1 .. l : sum[i] = sum[i - 1] + Size[b.tasks[i]]
         /\ sum[l] = b.size
  BY <1>2, Zenon DEF Sums
<1> DEFINE tasks == Append(b.tasks, t)
           new == [i \in 0 .. l + 1 |-> IF i = l + 1 THEN b.size + Size[t] ELSE sum[i]]
<1>4. /\ Len(tasks) = l + 1 /\ tasks[l + 1] = t
      /\ \A i \in 1 .. l : tasks[i] = b.tasks[i]
  BY <1>1, <1>2, AppendFacts, Zenon
<1>5. b.size + Size[t] \in 0 .. MaxBatchSize
  BY <1>1
<1>6. \A i \in 0 .. l + 1 : i # l + 1 => i \in 0 .. l
  BY <1>2
<1>7. new \in [0 .. l + 1 -> 0 .. MaxBatchSize]
  BY <1>3, <1>5, <1>6, Zenon
<1>8. /\ 0 \in 0 .. l + 1 /\ 0 # l + 1 /\ l + 1 \in 0 .. l + 1 /\ l \in 0 .. l + 1 /\ l # l + 1
      /\ l + 1 - 1 = l
  BY <1>2
<1>9. /\ new[0] = 0 /\ new[l + 1] = b.size + Size[t] /\ new[l] = b.size
      /\ \A i \in 0 .. l + 1 : i # l + 1 => new[i] = sum[i]
  BY <1>3, <1>8, Zenon
<1> HIDE DEF new, tasks
<1>10. ASSUME NEW i \in 1 .. l + 1 PROVE new[i] = new[i - 1] + Size[tasks[i]]
  <2>1. CASE i = l + 1
    <3>1. i - 1 = l
      BY <1>2, <2>1
    <3>2. new[i] = b.size + Size[t] /\ new[i - 1] = b.size
      BY <1>9, <2>1, <3>1, Zenon
    <3>3. tasks[i] = t
      BY <1>4, <2>1, Zenon
    <3> QED  BY <3>2, <3>3, Zenon
  <2>2. CASE i # l + 1
    <3>1. /\ i \in 1 .. l /\ i \in 0 .. l + 1 /\ i - 1 \in 0 .. l + 1 /\ i - 1 # l + 1
      BY <1>2, <2>2
    <3>2. new[i] = sum[i] /\ new[i - 1] = sum[i - 1]
      BY <1>9, <2>2, <3>1, Zenon
    <3> QED  BY <1>3, <1>4, <3>1, <3>2, Zenon
  <2> QED  BY <2>1, <2>2, Zenon
<1>11. AddTask(b, t, Size[t]).tasks = tasks /\ AddTask(b, t, Size[t]).size = b.size + Size[t]
  BY Zenon DEF AddTask, tasks
<1>12. \E f \in [0 .. Len(tasks) -> 0 .. MaxBatchSize] :
         /\ f[0] = 0
         /\ \A i \in 1 .. Len(tasks) : f[i] = f[i - 1] + Size[tasks[i]]
         /\ f[Len(tasks)] = b.size + Size[t]
  <2>1. /\ new \in [0 .. Len(tasks) -> 0 .. MaxBatchSize]
        /\ \A i \in 1 .. Len(tasks) : new[i] = new[i - 1] + Size[tasks[i]]
        /\ new[Len(tasks)] = b.size + Size[t]
    BY <1>4, <1>7, <1>9, <1>10, Zenon
  <2> QED  BY <1>9, <2>1, Zenon
<1> QED  BY <1>11, <1>12, Zenon DEF Sums

\* Membership in the closed batches, for the provers.
IsClosed(p, n) ==
    n \in DOMAIN p.batch /\ n # p.open /\ p.stage[n] # "returned" /\ ~IsEmptyBatch(p.batch[n])

LEMMA ClosedOfElim ==
    ASSUME NEW p, NEW x \in ClosedOf(p)
    PROVE  \E n : IsClosed(p, n) /\ x = p.batch[n].tasks
BY Zenon DEF ClosedOf, IsClosed

LEMMA ClosedOfIntro ==
    ASSUME NEW p, NEW n, IsClosed(p, n)
    PROVE  p.batch[n].tasks \in ClosedOf(p)
BY Zenon DEF ClosedOf, IsClosed

\* What StartNewBatch() does to the tasks: those of the open batch form a batch.
LEMMA StartNewBatchForms ==
    ASSUME NEW p, GoodPool(p), Sizes(p), Apart(p)
    PROVE  LET q == StartNewBatch(p) IN
           /\ Sizes(q) /\ Apart(q)
           /\ LineOf(q) = <<>>
           /\ ClosedOf(q) = ClosedOf(p) \cup ({LineOf(p)} \ {<<>>})
           /\ \A t : HeldIn(q, t) <=> HeldIn(p, t)
<1> DEFINE q == StartNewBatch(p)
           new == p.num + 1
<1>1. /\ q.open = new
      /\ DOMAIN q.batch = DOMAIN p.batch \cup {new}
      /\ new \notin DOMAIN p.batch
      /\ q.batch[new] = EmptyBatch
      /\ \A n \in DOMAIN p.batch : q.batch[n] = p.batch[n] /\ q.stage[n] = p.stage[n]
  BY NewBatchFields, Zenon
<1>2. new # 0
  BY DEF GoodPool
<1>3. p.open # 0 => p.open \in DOMAIN p.batch /\ p.stage[p.open] # "returned"
  BY Zenon DEF GoodPool
<1>4. 0 \notin DOMAIN p.batch
  BY DEF GoodPool
<1> HIDE DEF q, new
<1>5. EmptyBatch.tasks = <<>> /\ IsEmptyBatch(EmptyBatch)
  BY Zenon DEF EmptyBatch, IsEmptyBatch
<1>6. \A t : t \notin Range(EmptyBatch.tasks)
  <2>1. \A t : t \notin Range(<<>>)
    BY DEF Range
  <2> QED  BY <1>5, <2>1, Zenon
<1>7. Sizes(q)
  BY <1>1, EmptySums, Zenon DEF Sizes
<1>8. Apart(q)
  <2> SUFFICES ASSUME NEW m \in DOMAIN q.batch, NEW n \in DOMAIN q.batch, m # n,
                      q.stage[m] # "returned", q.stage[n] # "returned", NEW t,
                      t \in Range(q.batch[m].tasks), t \in Range(q.batch[n].tasks)
               PROVE  FALSE
    BY Zenon DEF Apart
  <2>1. m # new /\ n # new
    BY <1>1, <1>6, Zenon
  <2>2. m \in DOMAIN p.batch /\ n \in DOMAIN p.batch
    BY <1>1, <2>1, Zenon
  <2>3. /\ q.batch[m] = p.batch[m] /\ q.stage[m] = p.stage[m]
        /\ q.batch[n] = p.batch[n] /\ q.stage[n] = p.stage[n]
    BY <1>1, <2>2, Zenon
  <2> QED  BY <2>2, <2>3, Zenon DEF Apart
<1>9. LineOf(q) = <<>>
  BY <1>1, <1>2, <1>5, Zenon DEF LineOf
<1>10. ASSUME NEW x \in ClosedOf(q) PROVE x \in ClosedOf(p) \/ (x = LineOf(p) /\ x # <<>>)
  <2>1. PICK n : IsClosed(q, n) /\ x = q.batch[n].tasks
    BY ClosedOfElim, Zenon
  <2>2. /\ n \in DOMAIN p.batch /\ p.stage[n] # "returned"
        /\ ~IsEmptyBatch(p.batch[n]) /\ x = p.batch[n].tasks
    BY <1>1, <2>1, Zenon DEF IsClosed
  <2>3. CASE n = p.open
    BY <1>4, <2>2, <2>3, Zenon DEF LineOf, IsEmptyBatch
  <2>4. CASE n # p.open
    BY <2>2, <2>4, ClosedOfIntro, Zenon DEF IsClosed
  <2> QED  BY <2>3, <2>4, Zenon
<1>11. ASSUME NEW x \in ClosedOf(p) PROVE x \in ClosedOf(q)
  <2>1. PICK n : IsClosed(p, n) /\ x = p.batch[n].tasks
    BY ClosedOfElim, Zenon
  <2>2. IsClosed(q, n) /\ x = q.batch[n].tasks
    BY <1>1, <2>1, Zenon DEF IsClosed
  <2> QED  BY <2>2, ClosedOfIntro, Zenon
<1>12. ASSUME LineOf(p) # <<>> PROVE LineOf(p) \in ClosedOf(q)
  <2>1. p.open # 0 /\ LineOf(p) = p.batch[p.open].tasks
    BY <1>12, Zenon DEF LineOf
  <2>2. /\ p.open \in DOMAIN q.batch /\ p.open # q.open /\ q.stage[p.open] # "returned"
        /\ q.batch[p.open] = p.batch[p.open]
    BY <1>1, <1>3, <2>1, Zenon
  <2>3. ~IsEmptyBatch(q.batch[p.open])
    BY <1>12, <2>1, <2>2, Zenon DEF IsEmptyBatch
  <2>4. IsClosed(q, p.open)
    BY <2>2, <2>3, Zenon DEF IsClosed
  <2> QED  BY <2>1, <2>2, <2>4, ClosedOfIntro, Zenon
<1>13. ClosedOf(q) = ClosedOf(p) \cup ({LineOf(p)} \ {<<>>})
  <2> DEFINE closed == ClosedOf(p) \cup ({LineOf(p)} \ {<<>>})
  <2>1. \A x \in ClosedOf(q) : x \in closed
    BY <1>10, Zenon
  <2>2. \A x \in closed : x \in ClosedOf(q)
    BY <1>11, <1>12, Zenon
  <2> HIDE DEF closed
  <2>3. ClosedOf(q) = closed
    BY <2>1, <2>2, Zenon
  <2> QED  BY <2>3, Zenon DEF closed
<1>14. ASSUME NEW t PROVE HeldIn(q, t) <=> HeldIn(p, t)
  <2>1. HeldIn(q, t) => HeldIn(p, t)
    BY <1>1, <1>6, Zenon DEF HeldIn
  <2>2. HeldIn(p, t) => HeldIn(q, t)
    BY <1>1, Zenon DEF HeldIn
  <2> QED  BY <2>1, <2>2, Zenon
<1> QED  BY <1>7, <1>8, <1>9, <1>13, <1>14, Zenon DEF q

\* What it does to the tasks to put one more into the open batch.
LEMMA AddedForms ==
    ASSUME NEW p, GoodPool(p), Sizes(p), Apart(p), p.open # 0,
           NEW t \in Tasks, ~HeldIn(p, t), TaskFitsInBatch(t, p.batch[p.open]),
           NEW q, q.stage = p.stage, q.open = p.open,
           q.batch = [p.batch EXCEPT ![p.open] = AddTask(p.batch[p.open], t, Size[t])]
    PROVE  /\ Sizes(q) /\ Apart(q)
           /\ LineOf(q) = Append(LineOf(p), t)
           /\ ClosedOf(q) = ClosedOf(p)
<1>1. p.open \in DOMAIN p.batch /\ p.stage[p.open] # "returned"
  BY Zenon DEF GoodPool
<1>2. PICK b \in BatchesOf(Tasks) : b = p.batch[p.open]
  BY <1>1, Zenon DEF GoodPool
<1>3. b.tasks \in Seq(Tasks) /\ AddTask(b, t, Size[t]).tasks = Append(b.tasks, t)
  BY Zenon DEF BatchesOf, AddTask
<1>4. /\ DOMAIN q.batch = DOMAIN p.batch
      /\ q.batch[p.open] = AddTask(b, t, Size[t])
      /\ \A n \in DOMAIN p.batch : n # p.open => q.batch[n] = p.batch[n]
  BY <1>1, <1>2, Zenon
<1>5. Sums(AddTask(b, t, Size[t]))
  <2>1. Sums(b) /\ b.size + Size[t] =< MaxBatchSize
    BY <1>1, <1>2, Zenon DEF Sizes, TaskFitsInBatch
  <2> QED  BY <2>1, AddSums, Zenon
<1>6. Sizes(q)
  BY <1>4, <1>5, Zenon DEF Sizes
<1>7. Range(q.batch[p.open].tasks) = Range(p.batch[p.open].tasks) \cup {t}
  <2>1. Range(Append(b.tasks, t)) = Range(b.tasks) \cup {t}
    BY <1>3, AppendFacts, Zenon
  <2> QED  BY <1>2, <1>3, <1>4, <2>1, Zenon
<1>8. ASSUME NEW m \in DOMAIN p.batch, NEW n \in DOMAIN p.batch, m # n,
             p.stage[m] # "returned", p.stage[n] # "returned", NEW u,
             u \in Range(q.batch[m].tasks), u \in Range(q.batch[n].tasks)
      PROVE  FALSE
  <2>1. /\ u \in Range(p.batch[m].tasks) \/ (m = p.open /\ u = t)
        /\ u \in Range(p.batch[n].tasks) \/ (n = p.open /\ u = t)
    BY <1>4, <1>7, <1>8, Zenon
  <2>2. CASE u = t
    <3>1. t \notin Range(p.batch[m].tasks) /\ t \notin Range(p.batch[n].tasks)
      BY <1>8, Zenon DEF HeldIn
    <3> QED  BY <1>8, <2>1, <2>2, <3>1, Zenon
  <2>3. CASE u # t
    <3>1. u \in Range(p.batch[m].tasks) /\ u \in Range(p.batch[n].tasks)
      BY <2>1, <2>3, Zenon
    <3> QED  BY <1>8, <3>1, Zenon DEF Apart
  <2> QED  BY <2>2, <2>3, Zenon
<1>9. Apart(q)
  <2>1. DOMAIN q.batch = DOMAIN p.batch /\ q.stage = p.stage
    BY <1>4, Zenon
  <2> QED  BY <1>8, <2>1, ZenonT(30) DEF Apart
<1>10. LineOf(q) = Append(LineOf(p), t)
  BY <1>2, <1>3, <1>4, Zenon DEF LineOf
<1>11. ASSUME NEW n, IsClosed(p, n) \/ IsClosed(q, n)
       PROVE  IsClosed(p, n) /\ IsClosed(q, n) /\ q.batch[n] = p.batch[n]
  <2>1. n \in DOMAIN p.batch /\ n # p.open
    BY <1>4, <1>11, Zenon DEF IsClosed
  <2>2. q.batch[n] = p.batch[n] /\ n \in DOMAIN q.batch
    BY <1>4, <2>1, Zenon
  <2> QED  BY <1>11, <2>1, <2>2, Zenon DEF IsClosed
<1>12. ASSUME NEW x \in ClosedOf(q) PROVE x \in ClosedOf(p)
  <2>1. PICK n : IsClosed(q, n) /\ x = q.batch[n].tasks
    BY ClosedOfElim, Zenon
  <2>2. IsClosed(p, n) /\ x = p.batch[n].tasks
    BY <1>11, <2>1, Zenon
  <2> QED  BY <2>2, ClosedOfIntro, Zenon
<1>13. ASSUME NEW x \in ClosedOf(p) PROVE x \in ClosedOf(q)
  <2>1. PICK n : IsClosed(p, n) /\ x = p.batch[n].tasks
    BY ClosedOfElim, Zenon
  <2>2. IsClosed(q, n) /\ x = q.batch[n].tasks
    BY <1>11, <2>1, Zenon
  <2> QED  BY <2>2, ClosedOfIntro, Zenon
<1>14. ClosedOf(q) = ClosedOf(p)
  BY <1>12, <1>13, Zenon
<1> QED  BY <1>6, <1>9, <1>10, <1>14, Zenon

\* The open batch keeps within the maximum batch size.
LEMMA LineFits ==
    ASSUME NEW p, GoodPool(p), Sizes(p)
    PROVE  LineOf(p) \in Seq(Tasks) /\ Interface!SizesFit(LineOf(p), MaxBatchSize)
<1>1. PICK b \in BatchesOf(Tasks) : Sums(b) /\ b.tasks = LineOf(p)
  <2>1. CASE p.open = 0
    <3>1. EmptyBatch \in BatchesOf(Tasks) /\ EmptyBatch.tasks = <<>>
      BY DEF EmptyBatch, BatchesOf
    <3> QED  BY <2>1, <3>1, EmptySums, Zenon DEF LineOf
  <2>2. CASE p.open # 0
    <3>1. p.open \in DOMAIN p.batch /\ p.batch[p.open] \in BatchesOf(Tasks)
      BY <2>2, Zenon DEF GoodPool
    <3> QED  BY <2>2, <3>1, Zenon DEF LineOf, Sizes
  <2> QED  BY <2>1, <2>2, Zenon
<1>2. b.tasks \in Seq(Tasks)
  BY Zenon DEF BatchesOf
<1>3. Interface!SizesFit(b.tasks, MaxBatchSize)
  BY <1>1, Zenon DEF Sums, Interface!SizesFit
<1> QED  BY <1>1, <1>2, <1>3, Zenon

\* What Schedule() does to the tasks once there is room: it adds the new one to
\* the open batch, and closes that batch when it is full.
LEMMA FilledForms ==
    ASSUME NEW p, IsPool(p), GoodPool(p), Sizes(p), Apart(p), p.open # 0,
           NEW t \in Tasks, ~HeldIn(p, t), TaskFitsInBatch(t, p.batch[p.open])
    PROVE  LET q == Filled(p, t)
               l == Append(LineOf(p), t)
           IN  /\ Sizes(q) /\ Apart(q)
               /\ \/ LineOf(q) = l /\ ClosedOf(q) = ClosedOf(p)
                  \/ /\ LineOf(q) = <<>> /\ ClosedOf(q) = ClosedOf(p) \cup {l}
                     /\ Interface!SizesFit(l, MaxBatchSize)
<1> DEFINE b == AddTask(p.batch[p.open], t, Size[t])
           bs == [p.batch EXCEPT ![p.open] = b]
           added == [batch |-> bs, stage |-> p.stage, open |-> p.open, num |-> p.num,
                     inProgress |-> p.inProgress]
           l == Append(LineOf(p), t)
<1>1. /\ GoodPool(added)
      /\ Filled(p, t) = IF b.size = MaxBatchSize THEN StartNewBatch(added) ELSE added
  BY AddedGood, ZenonT(30)
<1>2. added.stage = p.stage /\ added.open = p.open /\ added.batch = bs
  BY Zenon
<1> HIDE DEF added
<1>3. Sizes(added) /\ Apart(added) /\ LineOf(added) = l /\ ClosedOf(added) = ClosedOf(p)
  BY <1>2, AddedForms, Zenon
<1>4. /\ Sizes(StartNewBatch(added)) /\ Apart(StartNewBatch(added))
      /\ LineOf(StartNewBatch(added)) = <<>>
      /\ ClosedOf(StartNewBatch(added)) = ClosedOf(p) \cup ({l} \ {<<>>})
  BY <1>1, <1>3, StartNewBatchForms, Zenon
<1>5. Interface!SizesFit(l, MaxBatchSize)
  BY <1>1, <1>3, LineFits, Zenon
<1>6. l # <<>>
  BY LineFits, AppendFacts, Zenon
<1>7. {l} \ {<<>>} = {l}
  BY <1>6, Zenon
<1> HIDE DEF b, l
<1> QED  BY <1>1, <1>3, <1>4, <1>5, <1>7, Zenon DEF l

\* What the scheduler's steps keep, and need, to implement BatchScheduler.
TasksInv == StreamingInv /\ Sizes(Pool) /\ Apart(Pool)

\* The first part of Schedule() closes the open batch, or changes nothing.
LEMMA WithRoomForms ==
    ASSUME TasksInv, NEW t \in Tasks
    PROVE  LET p == WithRoom(t) IN
           /\ Sizes(p) /\ Apart(p) /\ \A u : HeldIn(p, u) <=> Held(u)
           /\ \/ LineOf(p) = OpenTasks /\ ClosedOf(p) = ClosedTasks
              \/ LineOf(p) = <<>> /\ ClosedOf(p) = ClosedTasks \cup ({OpenTasks} \ {<<>>})
<1>1. GoodPool(Pool) /\ Sizes(Pool) /\ Apart(Pool)
  BY Zenon DEF TasksInv, StreamingInv
<1>2. WithRoom(t) = Pool \/ WithRoom(t) = StartNewBatch(Pool)
  BY Zenon DEF WithRoom
<1>3. CASE WithRoom(t) = Pool
  BY <1>1, <1>3, OfThePool, Zenon
<1>4. CASE WithRoom(t) = StartNewBatch(Pool)
  <2>1. /\ Sizes(StartNewBatch(Pool)) /\ Apart(StartNewBatch(Pool))
        /\ LineOf(StartNewBatch(Pool)) = <<>>
        /\ ClosedOf(StartNewBatch(Pool)) = ClosedOf(Pool) \cup ({LineOf(Pool)} \ {<<>>})
        /\ \A u : HeldIn(StartNewBatch(Pool), u) <=> HeldIn(Pool, u)
    BY <1>1, StartNewBatchForms, Zenon
  <2> QED  BY <1>4, <2>1, OfThePool, Zenon
<1> QED  BY <1>2, <1>3, <1>4, Zenon

\* When the scheduler's fields become those of a pool.
LEMMA BecomePoolForms ==
    ASSUME NEW q, BecomePool(q)
    PROVE  /\ Sizes(q) => Sizes(Pool)'
           /\ Apart(q) => Apart(Pool)'
           /\ OpenTasks' = LineOf(q) /\ ClosedTasks' = ClosedOf(q)
<1>1. /\ Pool'.batch = q.batch /\ Pool'.stage = q.stage /\ Pool'.open = q.open
      /\ batch' = q.batch /\ stage' = q.stage /\ openBatch' = q.open
  BY Zenon DEF BecomePool, Pool
<1>2. Sizes(q) => Sizes(Pool)'
  BY <1>1, Zenon DEF Sizes
<1>3. Apart(q) => Apart(Pool)'
  BY <1>1, Zenon DEF Apart
<1>4. OpenTasks' = LineOf(q) /\ ClosedTasks' = ClosedOf(q)
  BY <1>1, Zenon DEF OpenTasks, LineOf, ClosedTasks, ClosedOf
<1> QED  BY <1>2, <1>3, <1>4, Zenon

\* The batches that Form() makes of a line.
Divided(l, i, j) == {SubSeq(l, 1, i), SubSeq(l, i + 1, j)} \ {<<>>}

\* Form() can make the batches formed of the line and leave the rest.
CanForm(l, formed, rest) ==
    \E j \in 0 .. Len(l) : \E i \in 0 .. j :
        Divided(l, i, j) = formed /\ SubSeq(l, j + 1, Len(l)) = rest

LEMMA DividedAtItsEnd ==
    ASSUME NEW s \in Seq(Tasks)
    PROVE  Divided(s, 0, Len(s)) = {s} \ {<<>>} /\ SubSeq(s, Len(s) + 1, Len(s)) = <<>>
<1>1. SubSeq(s, 1, 0) = <<>> /\ SubSeq(s, 0 + 1, Len(s)) = s
  BY SubSeqFacts
<1> QED  BY <1>1, SubSeqFacts, Zenon DEF Divided

LEMMA DividedFacts ==
    ASSUME NEW s \in Seq(Tasks), NEW t \in Tasks, NEW l, l = Append(s, t)
    PROVE  /\ CanForm(l, {}, l) /\ CanForm(l, {l}, <<>>)
           /\ CanForm(l, {s} \ {<<>>}, Append(<<>>, t))
           /\ CanForm(l, ({s} \ {<<>>}) \cup {Append(<<>>, t)}, <<>>)
<1>1. PICK m, n, z :
         /\ m = Len(s) /\ n = Len(l) /\ z = 0 /\ n = m + 1
         /\ z \in 0 .. n /\ n \in 0 .. n /\ m \in 0 .. n /\ z \in 0 .. m /\ z \in 0 .. z
         /\ z + 1 = 1
  <2>1. Len(s) \in Nat /\ Len(l) = Len(s) + 1
    BY AppendFacts, Zenon
  <2> QED  BY <2>1
<1>2. /\ l \in Seq(Tasks) /\ l # <<>> /\ Append(<<>>, t) # <<>>
  <2>1. <<>> \in Seq(Tasks)
    OBVIOUS
  <2> QED  BY <2>1, AppendFacts, Zenon
<1>3. /\ SubSeq(l, 1, z) = <<>> /\ SubSeq(l, n + 1, n) = <<>> /\ SubSeq(l, 1, n) = l
  BY <1>1, <1>2, SubSeqFacts, Zenon
<1>4. SubSeq(l, 1, m) = s /\ SubSeq(l, m + 1, n) = Append(<<>>, t)
  <2>1. /\ SubSeq(Append(s, t), 1, Len(s)) = s
        /\ SubSeq(Append(s, t), Len(s) + 1, Len(s) + 1) = Append(<<>>, t)
    BY SubSeqOfAppend, Zenon
  <2> QED  BY <1>1, <2>1, Zenon
<1>5. Divided(l, z, z) = {} /\ SubSeq(l, z + 1, n) = l
  BY <1>1, <1>3, Zenon DEF Divided
<1>6. Divided(l, z, n) = {l}
  BY <1>1, <1>2, <1>3, Zenon DEF Divided
<1>7. Divided(l, z, m) = {s} \ {<<>>}
  BY <1>1, <1>3, <1>4, Zenon DEF Divided
<1>8. Divided(l, m, n) = ({s} \ {<<>>}) \cup {Append(<<>>, t)}
  BY <1>2, <1>4, Zenon DEF Divided
<1>9. n = Len(l)
  BY <1>1, Zenon
<1>10. CanForm(l, {}, l)
  BY <1>1, <1>5, <1>9, Zenon DEF CanForm
<1>11. CanForm(l, {l}, <<>>)
  BY <1>1, <1>3, <1>6, <1>9, Zenon DEF CanForm
<1>12. CanForm(l, {s} \ {<<>>}, Append(<<>>, t))
  BY <1>1, <1>4, <1>7, <1>9, Zenon DEF CanForm
<1>13. CanForm(l, ({s} \ {<<>>}) \cup {Append(<<>>, t)}, <<>>)
  BY <1>1, <1>3, <1>8, <1>9, Zenon DEF CanForm
<1> QED  BY <1>10, <1>11, <1>12, <1>13, Zenon

\* The actions of BatchScheduler in terms of the scheduler's tasks.
LEMMA FormIs ==
    ASSUME NEW l, NEW i, NEW j,
           OpenTasks' = SubSeq(l, j + 1, Len(l)),
           ClosedTasks' = ClosedTasks \cup Divided(l, i, j),
           \A b \in Divided(l, i, j) : Interface!SizesFit(b, MaxBatchSize),
           life' = "destroyed" <=> life = "destroyed"
    PROVE  Interface!Form(1, l, i, j)
<1>1. [s \in {1} |-> OpenTasks'] = [[s \in {1} |-> OpenTasks] EXCEPT ![1] = SubSeq(l, j + 1, Len(l))]
  BY Zenon
<1>2. {s \in {1} : life' = "destroyed"} = {s \in {1} : life = "destroyed"}
  BY Zenon
<1>3. [s \in {1} |-> MaxBatchSize][1] = MaxBatchSize
  BY Zenon
<1> QED  BY <1>1, <1>2, <1>3, Zenon DEF Interface!Form, Divided

LEMMA AcceptedIsHeld ==
    ASSUME StreamingInv, NEW t \in Tasks, Interface!Accepted(t)
    PROVE  Held(t)
<1>1. openBatch # 0 => openBatch \in DOMAIN batch /\ stage[openBatch] # "returned"
  BY PoolFields, Zenon DEF StreamingInv, GoodPool
<1>2. [s \in {1} |-> OpenTasks][[u \in Tasks |-> 1][t]] = OpenTasks
  BY Zenon
<1>3. CASE t \in Range(OpenTasks)
  <2>1. openBatch # 0
    <3>1. t \notin Range(<<>>)
      BY DEF Range
    <3> QED  BY <1>3, <3>1, Zenon DEF OpenTasks
  <2> QED  BY <1>1, <1>3, <2>1, Zenon DEF OpenTasks, Held
<1>4. CASE \E b \in ClosedTasks : t \in Range(b)
  BY <1>4, Zenon DEF ClosedTasks, Held
<1>5. t \in Range(OpenTasks) \/ \E b \in ClosedTasks : t \in Range(b)
  <2>1. \A f : Interface!Range(f) = Range(f)
    BY Zenon DEF Interface!Range, Range
  <2>2. t \in Interface!Range(OpenTasks) \/ \E b \in ClosedTasks : t \in Interface!Range(b)
    BY <1>2, Zenon DEF Interface!Accepted
  <2> QED  BY <2>1, <2>2, Zenon
<1> QED  BY <1>3, <1>4, <1>5, Zenon

LEMMA AcceptIs ==
    ASSUME StreamingInv, NEW t \in Tasks, life = "alive", life' = life, ~Held(t),
           NEW formed, NEW rest, CanForm(Append(OpenTasks, t), formed, rest),
           OpenTasks' = rest, ClosedTasks' = ClosedTasks \cup formed,
           \A b \in formed : Interface!SizesFit(b, MaxBatchSize)
    PROVE  Interface!Accept(t)
<1>1. PICK l : l = Append(OpenTasks, t)
  BY Zenon
<1>2. PICK j \in 0 .. Len(l) : \E i \in 0 .. j :
         Divided(l, i, j) = formed /\ SubSeq(l, j + 1, Len(l)) = rest
  BY <1>1, Zenon DEF CanForm
<1>3. PICK i \in 0 .. j : Divided(l, i, j) = formed /\ SubSeq(l, j + 1, Len(l)) = rest
  BY <1>2, Zenon
<1>4. Interface!Form(1, l, i, j)
  BY <1>3, FormIs, Zenon
<1>5. [u \in Tasks |-> 1][t] = 1 /\ [s \in {1} |-> OpenTasks][1] = OpenTasks
  BY Zenon
<1>6. ~Interface!Accepted(t)
  BY AcceptedIsHeld, Zenon
<1>7. 1 \notin {s \in {1} : life = "destroyed"}
  BY Zenon
<1> QED  BY <1>1, <1>4, <1>5, <1>6, <1>7, Zenon DEF Interface!Accept

\* Closing the open batch is FormBatch(1), unless the batch is empty.
LEMMA CloseIs ==
    ASSUME GoodPool(Pool), Sizes(Pool), OpenTasks' = <<>>,
           ClosedTasks' = ClosedTasks \cup ({OpenTasks} \ {<<>>}),
           life' = "destroyed" <=> life = "destroyed"
    PROVE  Interface!FormBatch(1) \/ UNCHANGED Interface!vars
<1>1. OpenTasks \in Seq(Tasks) /\ Interface!SizesFit(OpenTasks, MaxBatchSize)
  BY LineFits, OfThePool, Zenon
<1>2. CASE OpenTasks = <<>>
  <2>1. ClosedTasks' = ClosedTasks
    BY <1>2, Zenon
  <2>2. {s \in {1} : life' = "destroyed"} = {s \in {1} : life = "destroyed"}
    BY Zenon
  <2>3. [s \in {1} |-> OpenTasks'] = [s \in {1} |-> OpenTasks]
    BY <1>2, Zenon
  <2> QED  BY <2>1, <2>2, <2>3, Zenon DEF Interface!vars
<1>3. CASE OpenTasks # <<>>
  <2>1. PICK n \in Nat : n = Len(OpenTasks) /\ n \in 1 .. n
    BY <1>1, <1>3
  <2>2. /\ Divided(OpenTasks, 0, n) = {OpenTasks} \ {<<>>}
        /\ SubSeq(OpenTasks, n + 1, Len(OpenTasks)) = <<>>
    BY <1>1, <2>1, DividedAtItsEnd, Zenon
  <2>3. \A b \in Divided(OpenTasks, 0, n) : Interface!SizesFit(b, MaxBatchSize)
    BY <1>1, <2>2, Zenon
  <2>4. Interface!Form(1, OpenTasks, 0, n)
    BY <2>2, <2>3, FormIs, Zenon
  <2>5. [s \in {1} |-> OpenTasks][1] = OpenTasks
    BY Zenon
  <2> QED  BY <2>1, <2>4, <2>5, Zenon DEF Interface!FormBatch
<1> QED  BY <1>2, <1>3, Zenon

LEMMA StutterIs ==
    ASSUME OpenTasks' = OpenTasks, ClosedTasks' = ClosedTasks,
           life' = "destroyed" <=> life = "destroyed"
    PROVE  UNCHANGED Interface!vars
<1>1. {s \in {1} : life' = "destroyed"} = {s \in {1} : life = "destroyed"}
  BY Zenon
<1>2. [s \in {1} |-> OpenTasks'] = [s \in {1} |-> OpenTasks]
  BY Zenon
<1> QED  BY <1>1, <1>2, Zenon DEF Interface!vars

\* Schedule() returns OK.
LEMMA AcceptForms ==
    ASSUME TasksInv, NEW t \in Tasks, ScheduleAccepts(t)
    PROVE  Interface!Accept(t) /\ Sizes(Pool)' /\ Apart(Pool)'
<1> DEFINE p == WithRoom(t)
           q == Filled(p, t)
<1>0. PICK s : s = OpenTasks
  BY Zenon
<1>1. /\ StreamingInv /\ GoodPool(Pool) /\ Sizes(Pool)
  BY Zenon DEF TasksInv, StreamingInv
<1>2. life = "alive" /\ ~Held(t) /\ Size[t] =< MaxBatchSize /\ BecomePool(q) /\ life' = life
  BY Zenon DEF ScheduleAccepts, MayAttempt
<1>3. IsPool(p) /\ GoodPool(p) /\ p.open # 0 /\ TaskFitsInBatch(t, p.batch[p.open])
  BY <1>1, <1>2, WithRoomGood, ZenonT(30)
<1>4. /\ Sizes(p) /\ Apart(p) /\ ~HeldIn(p, t)
      /\ \/ LineOf(p) = s /\ ClosedOf(p) = ClosedTasks
         \/ LineOf(p) = <<>> /\ ClosedOf(p) = ClosedTasks \cup ({s} \ {<<>>})
  BY <1>0, <1>2, WithRoomForms, Zenon
<1> HIDE DEF p
<1> DEFINE lp == Append(LineOf(p), t)
<1>5. /\ Sizes(q) /\ Apart(q)
      /\ \/ LineOf(q) = lp /\ ClosedOf(q) = ClosedOf(p)
         \/ /\ LineOf(q) = <<>> /\ ClosedOf(q) = ClosedOf(p) \cup {lp}
            /\ Interface!SizesFit(lp, MaxBatchSize)
  BY <1>3, <1>4, FilledForms, Zenon
<1> HIDE DEF q
<1>6. Sizes(Pool)' /\ Apart(Pool)' /\ OpenTasks' = LineOf(q) /\ ClosedTasks' = ClosedOf(q)
  BY <1>2, <1>5, BecomePoolForms, Zenon
<1> SUFFICES Interface!Accept(t)
  BY <1>6, Zenon
<1>7. s \in Seq(Tasks) /\ Interface!SizesFit(s, MaxBatchSize)
  BY <1>0, <1>1, LineFits, OfThePool, Zenon
<1> DEFINE l == Append(s, t)
           one == Append(<<>>, t)
           old == {s} \ {<<>>}
           none == {}
           full == {l}
<1>8. /\ CanForm(l, none, l) /\ CanForm(l, full, <<>>)
      /\ CanForm(l, old, one) /\ CanForm(l, old \cup {one}, <<>>)
  BY <1>7, DividedFacts, Zenon
<1>9. \A b \in old : Interface!SizesFit(b, MaxBatchSize)
  BY <1>7, Zenon
<1>10. ASSUME NEW formed, NEW rest, CanForm(l, formed, rest),
              OpenTasks' = rest, ClosedTasks' = ClosedTasks \cup formed,
              \A b \in formed : Interface!SizesFit(b, MaxBatchSize)
       PROVE  Interface!Accept(t)
  BY <1>0, <1>1, <1>2, <1>10, AcceptIs, ZenonT(30)
<1>11. CASE LineOf(p) = s /\ ClosedOf(p) = ClosedTasks
  <2>1. lp = l
    BY <1>11, Zenon
  <2> HIDE DEF lp, l, one, old
  <2>2. CASE LineOf(q) = lp /\ ClosedOf(q) = ClosedOf(p)
    <3>1. OpenTasks' = l /\ ClosedTasks' = ClosedTasks \cup none
      BY <1>6, <1>11, <2>1, <2>2, Zenon
    <3>2. \A b \in none : Interface!SizesFit(b, MaxBatchSize)
      BY Zenon
    <3> HIDE DEF none, full
    <3> QED  BY <1>8, <1>10, <3>1, <3>2, Zenon
  <2>3. CASE /\ LineOf(q) = <<>> /\ ClosedOf(q) = ClosedOf(p) \cup {lp}
             /\ Interface!SizesFit(lp, MaxBatchSize)
    <3>1. OpenTasks' = <<>> /\ ClosedTasks' = ClosedTasks \cup full
      BY <1>6, <1>11, <2>1, <2>3, Zenon
    <3>2. \A b \in full : Interface!SizesFit(b, MaxBatchSize)
      BY <2>1, <2>3, ZenonT(30)
    <3> HIDE DEF none, full
    <3> QED  BY <1>8, <1>10, <3>1, <3>2, Zenon
  <2> QED  BY <1>5, <2>2, <2>3, Zenon DEF lp
<1>12. CASE LineOf(p) = <<>> /\ ClosedOf(p) = ClosedTasks \cup old
  <2>1. lp = one
    BY <1>12, Zenon
  <2> HIDE DEF lp, l, one, old
  <2>2. CASE LineOf(q) = lp /\ ClosedOf(q) = ClosedOf(p)
    <3>1. OpenTasks' = one /\ ClosedTasks' = ClosedTasks \cup old
      BY <1>6, <1>12, <2>1, <2>2, Zenon
    <3> QED  BY <1>8, <1>9, <1>10, <3>1, Zenon
  <2>3. CASE /\ LineOf(q) = <<>> /\ ClosedOf(q) = ClosedOf(p) \cup {lp}
             /\ Interface!SizesFit(lp, MaxBatchSize)
    <3>1. OpenTasks' = <<>> /\ ClosedTasks' = (ClosedTasks \cup old) \cup {one}
      BY <1>6, <1>12, <2>1, <2>3, Zenon
    <3>2. ClosedTasks' = ClosedTasks \cup (old \cup {one})
      BY <3>1, Zenon
    <3>3. \A b \in old \cup {one} : Interface!SizesFit(b, MaxBatchSize)
      BY <1>9, <2>1, <2>3, Zenon
    <3> QED  BY <1>8, <1>10, <3>1, <3>2, <3>3, Zenon
  <2> QED  BY <1>5, <2>2, <2>3, Zenon DEF lp
<1> QED  BY <1>4, <1>11, <1>12, ZenonT(30)

\* Schedule() may start a batch and turn the task away all the same.
LEMMA UnavailableForms ==
    ASSUME TasksInv, NEW t \in Tasks, ScheduleUnavailable(t)
    PROVE  /\ Interface!FormBatch(1) \/ UNCHANGED Interface!vars
           /\ Sizes(Pool)' /\ Apart(Pool)'
<1> DEFINE p == WithRoom(t)
<1>1. BecomePool(p) /\ life' = life /\ GoodPool(Pool) /\ Sizes(Pool)
  BY Zenon DEF ScheduleUnavailable, TasksInv, StreamingInv
<1>2. /\ Sizes(p) /\ Apart(p)
      /\ \/ LineOf(p) = OpenTasks /\ ClosedOf(p) = ClosedTasks
         \/ LineOf(p) = <<>> /\ ClosedOf(p) = ClosedTasks \cup ({OpenTasks} \ {<<>>})
  BY WithRoomForms, Zenon
<1> HIDE DEF p
<1>3. Sizes(Pool)' /\ Apart(Pool)' /\ OpenTasks' = LineOf(p) /\ ClosedTasks' = ClosedOf(p)
  BY <1>1, <1>2, BecomePoolForms, Zenon
<1>4. CASE LineOf(p) = OpenTasks /\ ClosedOf(p) = ClosedTasks
  BY <1>1, <1>3, <1>4, StutterIs, Zenon
<1>5. CASE LineOf(p) = <<>> /\ ClosedOf(p) = ClosedTasks \cup ({OpenTasks} \ {<<>>})
  BY <1>1, <1>3, <1>5, CloseIs, Zenon
<1> QED  BY <1>2, <1>3, <1>4, <1>5, Zenon

\* When the fields that tell where the tasks are do not change.
LEMMA UnchangedForms ==
    ASSUME TasksInv, UNCHANGED <<batch, stage, openBatch>>
    PROVE  Sizes(Pool)' /\ Apart(Pool)' /\ OpenTasks' = OpenTasks /\ ClosedTasks' = ClosedTasks
<1>1. Pool'.batch = Pool.batch /\ Pool'.stage = Pool.stage
  BY Zenon DEF Pool
<1>2. Sizes(Pool)' /\ Apart(Pool)'
  BY <1>1, Zenon DEF TasksInv, Sizes, Apart
<1> QED  BY <1>2, Zenon DEF OpenTasks, ClosedTasks

\* The batch closer closes the open batch, or finds another one.
LEMMA CloseForms ==
    ASSUME TasksInv, CloseBatch
    PROVE  /\ Interface!FormBatch(1) \/ UNCHANGED Interface!vars
           /\ Sizes(Pool)' /\ Apart(Pool)'
<1>1. life' = life /\ GoodPool(Pool) /\ Sizes(Pool) /\ Apart(Pool)
  BY Zenon DEF CloseBatch, TasksInv, StreamingInv
<1>2. CASE BecomePool(StartNewBatch(Pool))
  <2>1. /\ Sizes(StartNewBatch(Pool)) /\ Apart(StartNewBatch(Pool))
        /\ LineOf(StartNewBatch(Pool)) = <<>>
        /\ ClosedOf(StartNewBatch(Pool)) = ClosedTasks \cup ({OpenTasks} \ {<<>>})
    BY <1>1, StartNewBatchForms, OfThePool, Zenon
  <2>2. /\ Sizes(Pool)' /\ Apart(Pool)'
        /\ OpenTasks' = <<>> /\ ClosedTasks' = ClosedTasks \cup ({OpenTasks} \ {<<>>})
    BY <1>2, <2>1, BecomePoolForms, Zenon
  <2> QED  BY <1>1, <2>2, CloseIs, Zenon
<1>3. CASE UNCHANGED poolVars
  <2>1. UNCHANGED <<batch, stage, openBatch>>
    BY <1>3, Zenon DEF poolVars
  <2> QED  BY <1>1, <2>1, UnchangedForms, StutterIs, Zenon
<1> QED  BY <1>2, <1>3, Zenon DEF CloseBatch

\* The destructor closes the open batch.
LEMMA DestructorForms ==
    ASSUME TasksInv, BeginDestructor
    PROVE  /\ Interface!FormBatch(1) \/ UNCHANGED Interface!vars
           /\ Sizes(Pool)' /\ Apart(Pool)'
<1>1. /\ life = "alive" /\ life' = "draining" /\ openBatch' = 0
      /\ batch' = batch /\ stage' = stage
      /\ GoodPool(Pool) /\ Sizes(Pool) /\ Apart(Pool)
  BY Zenon DEF BeginDestructor, TasksInv, StreamingInv
<1>2. /\ 0 \notin DOMAIN batch
      /\ openBatch # 0 => openBatch \in DOMAIN batch /\ stage[openBatch] # "returned"
  BY <1>1, PoolFields DEF GoodPool
<1>3. Pool'.batch = Pool.batch /\ Pool'.stage = Pool.stage
  BY <1>1, Zenon DEF Pool
<1>4. Sizes(Pool)' /\ Apart(Pool)'
  BY <1>1, <1>3, Zenon DEF Sizes, Apart
<1>5. OpenTasks' = <<>>
  BY <1>1, Zenon DEF OpenTasks
<1>6. ASSUME NEW x \in ClosedTasks' PROVE x \in ClosedTasks \cup ({OpenTasks} \ {<<>>})
  <2>1. PICK n \in DOMAIN batch :
           stage[n] # "returned" /\ batch[n].tasks # <<>> /\ x = batch[n].tasks
    BY <1>1, Zenon DEF ClosedTasks, IsEmptyBatch
  <2>2. CASE n = openBatch
    BY <1>2, <2>1, <2>2, Zenon DEF OpenTasks
  <2>3. CASE n # openBatch
    BY <2>1, <2>3, Zenon DEF ClosedTasks, IsEmptyBatch
  <2> QED  BY <2>2, <2>3, Zenon
<1>7. ASSUME NEW x \in ClosedTasks PROVE x \in ClosedTasks'
  <2>1. PICK n \in DOMAIN batch :
           stage[n] # "returned" /\ batch[n].tasks # <<>> /\ x = batch[n].tasks
    BY Zenon DEF ClosedTasks, IsEmptyBatch
  <2>2. n # 0
    BY <1>2, Zenon
  <2> QED  BY <1>1, <2>1, <2>2, Zenon DEF ClosedTasks, IsEmptyBatch
<1>8. ASSUME OpenTasks # <<>> PROVE OpenTasks \in ClosedTasks'
  <2>1. openBatch # 0 /\ OpenTasks = batch[openBatch].tasks
    BY <1>8, Zenon DEF OpenTasks
  <2> QED  BY <1>1, <1>2, <1>8, <2>1, Zenon DEF ClosedTasks, IsEmptyBatch
<1>9. ClosedTasks' = ClosedTasks \cup ({OpenTasks} \ {<<>>})
  <2> DEFINE closed == ClosedTasks \cup ({OpenTasks} \ {<<>>})
  <2>1. \A x \in ClosedTasks' : x \in closed
    BY <1>6, Zenon
  <2>2. \A x \in closed : x \in ClosedTasks'
    BY <1>7, <1>8, Zenon
  <2> HIDE DEF closed
  <2>3. ClosedTasks' = closed
    BY <2>1, <2>2, Zenon
  <2> QED  BY <2>3, Zenon DEF closed
<1>10. life' = "destroyed" <=> life = "destroyed"
  BY <1>1, Zenon
<1> QED  BY <1>1, <1>4, <1>5, <1>9, <1>10, CloseIs, ZenonT(30)

\* Where the tasks are when closures start, and when they end: where they were.
LEMMA ClosuresForm ==
    ASSUME TasksInv, NEW n \in DOMAIN batch, BatchStarts(n) \/ ClosureEnds(n)
    PROVE  UNCHANGED Interface!vars /\ Sizes(Pool)' /\ Apart(Pool)'
<1>1. /\ DOMAIN batch = DOMAIN stage
      /\ openBatch # 0 => openBatch \in DOMAIN batch /\ stage[openBatch] # "returned"
      /\ Sizes(Pool) /\ Apart(Pool)
  BY PoolFields, Zenon DEF TasksInv, StreamingInv, GoodPool
<1>2. /\ life' = life /\ openBatch' = openBatch
      /\ \A m \in DOMAIN batch' : /\ m \in DOMAIN batch /\ batch'[m] = batch[m]
                                  /\ stage'[m] = "returned" <=> stage[m] = "returned"
      /\ \A m \in DOMAIN batch : stage[m] # "returned" => m \in DOMAIN batch'
  <2>1. CASE BatchStarts(n)
    BY <1>1, <2>1, Zenon DEF BatchStarts
  <2>2. CASE ClosureEnds(n)
    <3>1. /\ life' = life /\ openBatch' = openBatch /\ stage[n] = "returned"
          /\ DOMAIN batch' = DOMAIN batch \ {n}
          /\ \A m \in DOMAIN batch \ {n} : batch'[m] = batch[m] /\ stage'[m] = stage[m]
      BY <1>1, <2>2, Zenon DEF ClosureEnds, Restrict
    <3> QED  BY <3>1, Zenon
  <2> QED  BY <2>1, <2>2, Zenon
<1>3. Pool'.batch = batch' /\ Pool'.stage = stage' /\ Pool.batch = batch /\ Pool.stage = stage
  BY Zenon DEF Pool
<1>4. Sizes(Pool)'
  BY <1>1, <1>2, <1>3, Zenon DEF Sizes
<1>5. Apart(Pool)'
  <2> SUFFICES ASSUME NEW k \in DOMAIN batch', NEW m \in DOMAIN batch', k # m,
                      stage'[k] # "returned", stage'[m] # "returned", NEW t,
                      t \in Range(batch'[k].tasks), t \in Range(batch'[m].tasks)
               PROVE  FALSE
    BY <1>3, Zenon DEF Apart
  <2>1. /\ k \in DOMAIN batch /\ batch'[k] = batch[k] /\ stage[k] # "returned"
        /\ m \in DOMAIN batch /\ batch'[m] = batch[m] /\ stage[m] # "returned"
    BY <1>2, Zenon
  <2> QED  BY <1>1, <1>3, <2>1, Zenon DEF Apart
<1>6. OpenTasks' = OpenTasks
  BY <1>1, <1>2, Zenon DEF OpenTasks
<1>7. ASSUME NEW x \in ClosedTasks' PROVE x \in ClosedTasks
  <2>1. PICK m \in DOMAIN batch' : /\ m # openBatch' /\ stage'[m] # "returned"
                                   /\ batch'[m].tasks # <<>> /\ x = batch'[m].tasks
    BY Zenon DEF ClosedTasks, IsEmptyBatch
  <2>2. m \in DOMAIN batch /\ batch'[m] = batch[m] /\ stage[m] # "returned" /\ m # openBatch
    BY <1>2, <2>1, Zenon
  <2> QED  BY <2>1, <2>2, Zenon DEF ClosedTasks, IsEmptyBatch
<1>8. ASSUME NEW x \in ClosedTasks PROVE x \in ClosedTasks'
  <2>1. PICK m \in DOMAIN batch : /\ m # openBatch /\ stage[m] # "returned"
                                  /\ batch[m].tasks # <<>> /\ x = batch[m].tasks
    BY Zenon DEF ClosedTasks, IsEmptyBatch
  <2>2. m \in DOMAIN batch' /\ batch'[m] = batch[m] /\ stage'[m] # "returned" /\ m # openBatch'
    BY <1>2, <2>1, Zenon
  <2> QED  BY <2>1, <2>2, ZenonT(30) DEF ClosedTasks, IsEmptyBatch
<1>9. ClosedTasks' = ClosedTasks
  BY <1>7, <1>8, Zenon
<1> QED  BY <1>2, <1>4, <1>5, <1>6, <1>9, StutterIs, ZenonT(30)

\* The callback ends the processing of its batch, and of no other: no other batch
\* has any of its tasks.
LEMMA CallbackForms ==
    ASSUME TasksInv, NEW n \in DOMAIN batch, CallbackReturns(n)
    PROVE  /\ (\E b \in ClosedTasks : Interface!EndProcessing(b)) \/ UNCHANGED Interface!vars
           /\ Sizes(Pool)' /\ Apart(Pool)'
<1>1. /\ DOMAIN batch = DOMAIN stage
      /\ \A m \in DOMAIN batch : batch[m].tasks \in Seq(Tasks)
      /\ Sizes(Pool) /\ Apart(Pool)
  BY PoolFields, Zenon DEF TasksInv, StreamingInv, GoodPool, BatchesOf
<1>2. /\ life' = life /\ openBatch' = openBatch /\ batch' = batch
      /\ stage[n] = "running" /\ n # openBatch
      /\ stage'[n] = "returned"
      /\ \A m \in DOMAIN batch : m # n => stage'[m] = stage[m]
  BY <1>1, Zenon DEF CallbackReturns
<1>3. Pool'.batch = batch /\ Pool'.stage = stage' /\ Pool.batch = batch /\ Pool.stage = stage
  BY <1>2, Zenon DEF Pool
<1>4. Sizes(Pool)'
  BY <1>1, <1>3, Zenon DEF Sizes
<1>5. Apart(Pool)'
  <2> SUFFICES ASSUME NEW k \in DOMAIN batch, NEW m \in DOMAIN batch, k # m,
                      stage'[k] # "returned", stage'[m] # "returned", NEW t,
                      t \in Range(batch[k].tasks), t \in Range(batch[m].tasks)
               PROVE  FALSE
    BY <1>3, Zenon DEF Apart
  <2>1. stage[k] # "returned" /\ stage[m] # "returned"
    BY <1>2, Zenon
  <2> QED  BY <1>1, <1>3, <2>1, Zenon DEF Apart
<1>6. OpenTasks' = OpenTasks
  BY <1>2, Zenon DEF OpenTasks
<1>7. ASSUME NEW x \in ClosedTasks'
      PROVE  x \in ClosedTasks /\ x # batch[n].tasks
  <2>1. PICK m \in DOMAIN batch : /\ m # openBatch /\ stage'[m] # "returned"
                                  /\ batch[m].tasks # <<>> /\ x = batch[m].tasks
    BY <1>2, Zenon DEF ClosedTasks, IsEmptyBatch
  <2>2. m # n /\ stage[m] # "returned"
    BY <1>2, <2>1, Zenon
  <2>3. x \in ClosedTasks
    BY <2>1, <2>2, ZenonT(30) DEF ClosedTasks, IsEmptyBatch
  <2>4. PICK t : t \in Range(batch[m].tasks)
    <3>1. PICK tasks \in Seq(Tasks) : tasks = batch[m].tasks /\ tasks # <<>>
      BY <1>1, <2>1, Zenon
    <3>2. 1 \in DOMAIN tasks
      BY <3>1
    <3> QED  BY <3>1, <3>2, ZenonT(30) DEF Range
  <2>5. batch[m].tasks # batch[n].tasks
    BY <1>1, <1>2, <1>3, <2>2, <2>4, ZenonT(30) DEF Apart
  <2> QED  BY <2>1, <2>3, <2>5, Zenon
<1>8. ASSUME NEW x \in ClosedTasks, x # batch[n].tasks PROVE x \in ClosedTasks'
  <2>1. PICK m \in DOMAIN batch : /\ m # openBatch /\ stage[m] # "returned"
                                  /\ batch[m].tasks # <<>> /\ x = batch[m].tasks
    BY Zenon DEF ClosedTasks, IsEmptyBatch
  <2>2. stage'[m] # "returned"
    BY <1>2, <1>8, <2>1, Zenon
  <2> QED  BY <1>2, <2>1, <2>2, Zenon DEF ClosedTasks, IsEmptyBatch
<1>9. ClosedTasks' = ClosedTasks \ {batch[n].tasks}
  BY <1>7, <1>8, Zenon
<1>10. CASE batch[n].tasks = <<>>
  <2>1. <<>> \notin ClosedTasks
    BY Zenon DEF ClosedTasks, IsEmptyBatch
  <2>2. ClosedTasks' = ClosedTasks
    BY <1>9, <1>10, <2>1, Zenon
  <2> QED  BY <1>2, <1>4, <1>5, <1>6, <2>2, StutterIs, ZenonT(30)
<1>11. CASE batch[n].tasks # <<>>
  <2>1. batch[n].tasks \in ClosedTasks
    BY <1>2, <1>11, Zenon DEF ClosedTasks, IsEmptyBatch
  <2>2. Interface!EndProcessing(batch[n].tasks)
    <3>1. {s \in {1} : life' = "destroyed"} = {s \in {1} : life = "destroyed"}
      BY <1>2, Zenon
    <3>2. [s \in {1} |-> OpenTasks'] = [s \in {1} |-> OpenTasks]
      BY <1>6, Zenon
    <3> QED  BY <1>9, <3>1, <3>2, Zenon DEF Interface!EndProcessing
  <2> QED  BY <1>4, <1>5, <2>1, <2>2, Zenon
<1> QED  BY <1>10, <1>11, Zenon

\* The destructor returns when nothing is left.
LEMMA DestroyForms ==
    ASSUME TasksInv, BatchCloserJoined
    PROVE  Interface!Destroy(1)
<1>1. /\ life = "joining" /\ life' = "destroyed" /\ openBatch = 0 /\ DOMAIN batch = {}
      /\ batch' = batch /\ stage' = stage /\ openBatch' = openBatch
  BY Zenon DEF BatchCloserJoined, poolVars, TasksInv, StreamingInv, LifeInv
<1>2. OpenTasks' = OpenTasks /\ ClosedTasks' = ClosedTasks
  BY <1>1, Zenon DEF OpenTasks, ClosedTasks
<1>3. ASSUME NEW t \in Tasks PROVE ~Interface!Accepted(t)
  <2>1. ~Held(t)
    BY <1>1, Zenon DEF Held
  <2> QED  BY <2>1, AcceptedIsHeld, Zenon DEF TasksInv
<1>4. [s \in {1} |-> OpenTasks'] = [s \in {1} |-> OpenTasks]
  BY <1>2, Zenon
<1>5. 1 \notin {s \in {1} : life = "destroyed"}
  BY <1>1, Zenon
<1>6. {s \in {1} : life' = "destroyed"} = {s \in {1} : life = "destroyed"} \cup {1}
  BY <1>1, Zenon
<1> QED  BY <1>2, <1>3, <1>4, <1>5, <1>6, ZenonT(30) DEF Interface!Destroy

LEMMA TasksStep ==
    ASSUME TasksInv, [Next]_vars
    PROVE  TasksInv' /\ [Interface!Next]_(Interface!vars)
<1>1. StreamingInv'
  BY NextKeepsInv, Zenon DEF TasksInv
<1> DEFINE Implements ==
             [Interface!Next]_(Interface!vars) /\ Sizes(Pool)' /\ Apart(Pool)'
<1> SUFFICES Implements
  BY <1>1, Zenon DEF TasksInv
<1>2. CASE \E t \in Tasks : ScheduleAccepts(t)
  BY <1>2, AcceptForms, Zenon DEF Interface!Next
<1>3. CASE \E t \in Tasks : ScheduleUnavailable(t)
  BY <1>3, UnavailableForms, Zenon DEF Interface!Next
<1>4. CASE CloseBatch
  BY <1>4, CloseForms, Zenon DEF Interface!Next
<1>5. CASE BeginDestructor
  BY <1>5, DestructorForms, Zenon DEF Interface!Next
<1>6. CASE \E n \in DOMAIN batch : BatchStarts(n) \/ ClosureEnds(n)
  BY <1>6, ClosuresForm, Zenon
<1>7. CASE \E n \in DOMAIN batch : CallbackReturns(n)
  BY <1>7, CallbackForms, Zenon DEF Interface!Next
<1>8. CASE BatchCloserJoined
  <2>1. UNCHANGED <<batch, stage, openBatch>>
    BY <1>8, Zenon DEF BatchCloserJoined, poolVars
  <2> QED  BY <1>8, <2>1, DestroyForms, UnchangedForms, ZenonT(30) DEF Interface!Next
<1>9. CASE \/ \E t \in Tasks : RetryBudgetEnds(t)
           \/ PickUpUpdatedTask \/ NoUpdatedTask \/ ThreadPoolDrained
           \/ Terminated \/ UNCHANGED vars
  <2>1. UNCHANGED <<batch, stage, openBatch>> /\ (life' = "destroyed" <=> life = "destroyed")
    BY <1>9, Zenon DEF RetryBudgetEnds, PickUpUpdatedTask, NoUpdatedTask, ThreadPoolDrained,
       Terminated, vars, poolVars
  <2> QED  BY <2>1, UnchangedForms, StutterIs, Zenon
<1> HIDE DEF Implements
<1> QED  BY <1>2, <1>3, <1>4, <1>5, <1>6, <1>7, <1>8, <1>9, ZenonT(30)
         DEF Next, Attempt, PoolStep, CloserStep

\* StreamingBatchScheduler implements BatchScheduler: the tasks it accepts are
\* processed in the order in which it accepted them, in batches within the
\* maximum size, each task once, and the destructor returns after the last.
THEOREM StreamingIsABatchScheduler == Spec => ImplementsBatchScheduler
<1>1. Init => TasksInv
  <2> SUFFICES ASSUME Init PROVE TasksInv
    BY Zenon
  <2>1. DOMAIN Pool.batch = {}
    BY DEF Init, Pool
  <2>2. Sizes(Pool) /\ Apart(Pool)
    BY <2>1, Zenon DEF Sizes, Apart
  <2> QED  BY <2>2, InitInv, Zenon DEF TasksInv
<1>2. Init => Interface!Init
  <2> SUFFICES ASSUME Init PROVE Interface!Init
    BY Zenon
  <2>1. DOMAIN batch = {} /\ openBatch = 0 /\ life # "destroyed"
    BY DEF Init
  <2>2. OpenTasks = <<>> /\ ClosedTasks = {}
    BY <2>1, Zenon DEF OpenTasks, ClosedTasks
  <2>3. {s \in {1} : life = "destroyed"} = {}
    BY <2>1, Zenon
  <2>4. [s \in {1} |-> OpenTasks] = [s \in {1} |-> <<>>]
    BY <2>2, Zenon
  <2> QED  BY <2>2, <2>3, <2>4, ZenonT(30) DEF Interface!Init
<1>3. TasksInv /\ [Next]_vars => TasksInv' /\ [Interface!Next]_(Interface!vars)
  BY TasksStep, Zenon
<1> QED
  BY <1>1, <1>2, <1>3, PTL DEF Spec, ImplementsBatchScheduler, Interface!Spec
=============================================================================
