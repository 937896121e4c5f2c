--------------------- MODULE SharedBatchSchedulerProofs ---------------------
(***************************************************************************)
(* Proofs about SharedBatchScheduler, for any number of queues, tasks and  *)
(* batch threads: every step keeps the invariant of                        *)
(* SharedBatchSchedulerSteps, and the properties follow.                   *)
(***************************************************************************)
EXTENDS SharedBatchSchedulerInterfaceProofs

\* The first-order prover does most steps; the others name theirs.
USE ZenonT(30)

(***************************************************************************)
(* The queues and their handles.                                           *)
(***************************************************************************)
\* Steps that only other queues notice, or after which a queue is dropped.
LEMMA QueueFrame ==
    ASSUME HandleInv, NEW p \in Queues,
           /\ batches'[p] = batches[p] /\ numProcessing'[p] = numProcessing[p]
           /\ handle'[p] = handle[p] /\ closed'[p] = closed[p]
           /\ notification'[p] = notification[p],
           schedulable'[p] => schedulable[p],
           Processing(p)' = Processing(p),
           InList(p)' => InList(p),
           InList(p) => InList(p)' \/ (closed[p] /\ Empty(p))
    PROVE  QueueInv(p)'
<1>1. Empty(p)' <=> Empty(p)
  BY DEF Empty, IsEmptyInternal
<1>2. QueueInv(p)
  BY DEF HandleInv
<1> QED  BY <1>1, <1>2 DEF QueueInv

LEMMA ListedFrame == ASSUME NEW p, queues' = queues PROVE InList(p)' <=> InList(p)
BY DEF InList

LEMMA ProcessingFrame ==
    ASSUME NEW p, UNCHANGED <<queues, next, scan, job>> PROVE Processing(p)' = Processing(p)
BY DEF Processing, Scanning

\* A queue that a thread asks is in the list; a queue with an open handle is.
LEMMA Listed ==
    ASSUME TypeOK, ListInv, HandleInv, NEW q \in Queues,
           handle[q] = "open" \/ ~Empty(q) \/ (scan # NoScan /\ q = queues[next])
    PROVE  InList(q)
<1>1. CASE scan # NoScan /\ q = queues[next]
  BY <1>1, ScanIsAtAQueue DEF InList
<1>2. CASE handle[q] = "open" \/ ~Empty(q)
  BY <1>2 DEF HandleInv, QueueInv
<1> QED  BY <1>1, <1>2

\* A thread that takes a batch from queue q is one more that processes it.
LEMMA HandleTakes ==
    ASSUME TypeOK, ListInv, BatchInv, HandleInv, ScheduleBatch, NEW q, q = queues[next],
           NEW b \in BatchesOf(Tasks), NEW bs \in Seq(BatchesOf(Tasks)), NEW late \in BOOLEAN,
           TakesBatch(q, b, bs, late)
    PROVE  HandleInv'
<1> DEFINE u == scan.thread
<1>1. /\ ~(Len(batches[q]) = 1 /\ IsEmptyBatch(OpenBatch(batches[q])))
      /\ numProcessing' = [numProcessing EXCEPT ![q] = numProcessing[q] + 1]
      /\ batches' = [batches EXCEPT ![q] = bs]
      /\ scan' = [scan EXCEPT !.at = "IsEmpty()", !.batch = b]
      /\ schedulable' = schedulable
  BY DEF TakesBatch
<1> USE <1>1
<1>2. /\ scan # NoScan /\ scan.batch = NoBatch
      /\ UNCHANGED <<queues, next, closed, job, handle, notification>>
      /\ scan' # NoScan /\ scan'.batch = b /\ scan'.thread = u
  BY ScheduleBatchScan
<1> USE <1>2
<1>3. q \in Queues /\ u \in Threads /\ pc[u] = "scan"
  BY ScanIsAtAQueue
<1> USE <1>3
<1>4. b # NoBatch
  BY ConstantTypes
<1>5. job[u] = NoJob
  BY DEF ListInv, ThreadsOK
<1>6. numProcessing \in [Queues -> Nat] /\ batches \in [Queues -> Seq(BatchesOf(Tasks))]
  BY DEF TypeOK
<1>7. ASSUME NEW p \in Queues, p # q PROVE QueueInv(p)'
  <2>1. batches'[p] = batches[p] /\ numProcessing'[p] = numProcessing[p]
    BY <1>6, <1>7
  <2>2. Processing(p)' = Processing(p)
    BY <1>7 DEF Processing
  <2>3. InList(p)' <=> InList(p)
    BY ListedFrame
  <2> QED  BY <2>1, <2>2, <2>3, QueueFrame
<1>8. QueueInv(q)'
  <2>1. Processing(q)' = Processing(q) \cup {u}
    BY <1>4 DEF Processing, Scanning
  <2>2. u \notin Processing(q)
    BY <1>5 DEF Processing
  <2>3. Cardinality(Processing(q)') = Cardinality(Processing(q)) + 1
    <3>1. IsFiniteSet(Processing(q))
      BY ProcessingIsFinite
    <3> QED  BY <2>1, <2>2, <3>1, FS_AddElement
  <2>4. numProcessing[q] = Cardinality(Processing(q)) /\ QueueInv(q)
    BY DEF HandleInv, QueueInv
  <2>5. numProcessing'[q] = numProcessing[q] + 1 /\ numProcessing[q] + 1 # 0
    <3>1. numProcessing'[q] = numProcessing[q] + 1
      BY <1>6
    <3>2. numProcessing[q] \in Nat
      BY <1>6
    <3> QED  BY <3>1, <3>2, SMTT(30)
  <2>6. ~Empty(q)' /\ ~Empty(q)
    BY <2>5 DEF Empty, IsEmptyInternal
  <2>7. InList(q)'
    BY Listed, ListedFrame
  <2>8. numProcessing'[q] = Cardinality(Processing(q)')
    BY <2>3, <2>4, <2>5
  <2> QED  BY <2>4, <2>6, <2>7, <2>8 DEF QueueInv
<1> QED  BY <1>7, <1>8 DEF HandleInv

\* A queue leaves the list only when it is closed and empty, and the batch of a
\* scan becomes the job of its thread.
LEMMA HandleAdvance ==
    ASSUME TypeOK, ListInv, BatchInv, HandleInv, Advance
    PROVE  HandleInv'
<1> DEFINE q == queues[next]
           u == scan.thread
<1>1. /\ scan # NoScan
      /\ UNCHANGED <<batches, closed, schedulable, numProcessing, handle, notification>>
      /\ \/ scan.queue_closed /\ Empty(q) /\ queues' = Erase(queues, next)
         \/ queues' = queues
  BY AdvanceEffect
<1> USE <1>1
<1>2. /\ Len(queues) \in Nat /\ next \in 1..Len(queues) /\ q \in Queues /\ queues \in Seq(Queues)
      /\ u \in Threads /\ pc[u] = "scan"
  BY ScanIsAtAQueue DEF TypeOK
<1> USE <1>2
<1>3. job[u] = NoJob /\ job \in [Threads -> [queue : Queues, batch : BatchesOf(Tasks)] \cup {NoJob}]
  BY DEF TypeOK, ListInv, ThreadsOK
<1>4. scan.queue_closed => closed[q]
  BY DEF ListInv, ScanOK
<1>5. ASSUME NEW p \in Queues PROVE Processing(p)' = Processing(p)
  <2>1. CASE /\ scan.batch = NoBatch
             /\ scan' = NoScan \/ (scan' # NoScan /\ scan'.batch = scan.batch)
             /\ job' = job \/ job' = [job EXCEPT ![u] = NoJob]
    <3>1. job' = job
      BY <1>3, <2>1, SMTT(30)
    <3>2. scan' = NoScan \/ scan'.batch = NoBatch
      BY <2>1
    <3> QED  BY <2>1, <3>1, <3>2 DEF Processing, Scanning
  <2>2. CASE /\ scan.batch # NoBatch
             /\ scan' = NoScan
             /\ job' = [job EXCEPT ![u] = [queue |-> q, batch |-> scan.batch]]
    <3> DEFINE j == [queue |-> q, batch |-> scan.batch]
    <3>1. j.queue = q /\ j # NoJob
      BY <2>2, SMTT(30) DEF NoJob
    <3>2. job' = [job EXCEPT ![u] = j]
      BY <2>2
    <3> HIDE DEF j
    <3>3. ASSUME NEW th \in Threads, th # u
          PROVE  th \in Processing(p)' <=> th \in Processing(p)
      BY <1>3, <2>2, <3>2, <3>3 DEF Processing, Scanning
    <3>4. u \in Processing(p)' <=> u \in Processing(p)
      BY <1>3, <2>2, <3>1, <3>2 DEF Processing, Scanning
    <3>5. Processing(p) \subseteq Threads /\ Processing(p)' \subseteq Threads
      BY DEF Processing
    <3>6. \A th \in Threads : th \in Processing(p)' <=> th \in Processing(p)
      BY <3>3, <3>4
    <3> QED  BY <3>5, <3>6
  <2> QED  BY <2>1, <2>2, AdvanceGoesOn
<1>6. ASSUME NEW p \in Queues
      PROVE  (InList(p)' => InList(p)) /\ (InList(p) => InList(p)' \/ (closed[p] /\ Empty(p)))
  <2>1. CASE queues' = queues
    BY <2>1, ListedFrame
  <2>2. CASE scan.queue_closed /\ Empty(q) /\ queues' = Erase(queues, next)
    <3>1. /\ Len(queues') = Len(queues) - 1
          /\ \A i \in 1..Len(queues) - 1 : queues'[i] = IF i < next THEN queues[i] ELSE queues[i + 1]
      BY <2>2, EraseEffect
    <3>2. InList(p)' => InList(p)
      BY <3>1, SMTT(30) DEF InList
    <3>3. ASSUME NEW i \in 1..Len(queues), queues[i] = p, i # next PROVE InList(p)'
      <4>1. CASE i < next
        <5>1. i \in 1..Len(queues') /\ queues'[i] = p
          BY <3>1, <3>3, <4>1, SMTT(30)
        <5> QED  BY <5>1 DEF InList
      <4>2. CASE ~(i < next)
        <5>1. i - 1 \in 1..Len(queues') /\ queues'[i - 1] = p
          BY <3>1, <3>3, <4>2, SMTT(30)
        <5> QED  BY <5>1 DEF InList
      <4> QED  BY <4>1, <4>2
    <3>4. p = q => closed[p] /\ Empty(p)
      BY <1>4, <2>2
    <3> QED  BY <3>2, <3>3, <3>4 DEF InList
  <2> QED  BY <2>1, <2>2
<1>7. ASSUME NEW p \in Queues PROVE QueueInv(p)'
  BY <1>5, <1>6, QueueFrame
<1> QED  BY <1>7 DEF HandleInv

\* A thread that has finished its batch is one less.
LEMMA HandleFinish ==
    ASSUME TypeOK, ListInv, BatchInv, HandleInv, NEW th \in Threads, FinishBatch(th)
    PROVE  HandleInv'
<1>0. PICK q : q = job[th].queue
  OBVIOUS
<1> USE <1>0
<1>1. /\ UNCHANGED <<queues, next, batches, closed, schedulable, scan, handle>>
      /\ pc[th] = "finish" /\ job[th] # NoJob /\ q \in Queues
      /\ numProcessing' = [numProcessing EXCEPT ![q] = numProcessing[q] - 1]
      /\ job' = [job EXCEPT ![th] = NoJob]
  BY FinishEffect
<1> USE <1>1
<1>2. \/ /\ notification' = notification
         /\ notification[q] = "null" \/ ~IsEmptyInternal(batches[q], numProcessing[q] - 1)
      \/ /\ notification[q] # "null" /\ IsEmptyInternal(batches[q], numProcessing[q] - 1)
         /\ \E n \in {"notified", "misused"} :
                /\ notification' = [notification EXCEPT ![q] = n]
                /\ notification[q] = "set" => n = "notified"
  BY FinishEffect
<1>3. /\ numProcessing \in [Queues -> Nat]
      /\ job \in [Threads -> [queue : Queues, batch : BatchesOf(Tasks)] \cup {NoJob}]
      /\ notification \in [Queues -> {"null", "set", "notified", "misused"}]
  BY DEF TypeOK
<1> USE <1>3
<1>4. ~Scanning(th)
  BY DEF ListInv, ThreadsOK
<1>5. ASSUME NEW p \in Queues, p # q PROVE QueueInv(p)'
  <2>1. numProcessing'[p] = numProcessing[p] /\ notification'[p] = notification[p]
    BY <1>2, <1>5
  <2>2. ASSUME NEW x \in Threads
        PROVE  job'[x] # NoJob /\ job'[x].queue = p <=> job[x] # NoJob /\ job[x].queue = p
    BY <1>5
  <2>3. Processing(p)' = Processing(p)
    BY <2>2 DEF Processing, Scanning
  <2>4. InList(p)' <=> InList(p)
    BY ListedFrame
  <2> QED  BY <2>1, <2>3, <2>4, QueueFrame
<1>6. QueueInv(q)'
  <2>1. th \in Processing(q)
    BY DEF Processing
  <2>2. Processing(q)' = Processing(q) \ {th}
    <3>1. ASSUME NEW x \in Threads
          PROVE  job'[x] # NoJob /\ job'[x].queue = q <=> x # th /\ job[x] # NoJob /\ job[x].queue = q
      OBVIOUS
    <3>2. ASSUME NEW x \in Threads
          PROVE  x \in Processing(q)' <=> x \in Processing(q) \ {th}
      BY <1>4, <3>1 DEF Processing, Scanning
    <3>3. Processing(q) \subseteq Threads /\ Processing(q)' \subseteq Threads
      BY DEF Processing
    <3> QED  BY <3>2, <3>3
  <2>3. /\ numProcessing[q] \in Nat /\ numProcessing[q] # 0
        /\ QueueInv(q) /\ numProcessing[q] = Cardinality(Processing(q))
    BY <2>1, ProcessedIsCounted DEF HandleInv, QueueInv
  <2> USE <2>3
  <2>4. Cardinality(Processing(q)') = Cardinality(Processing(q)) - 1
    <3>1. IsFiniteSet(Processing(q))
      BY ProcessingIsFinite
    <3> QED  BY <2>1, <2>2, <3>1, FS_RemoveElement, ZenonT(90)
  <2>5. numProcessing'[q] = numProcessing[q] - 1
    OBVIOUS
  <2>6. ~Empty(q) /\ (Empty(q)' <=> IsEmptyInternal(batches[q], numProcessing[q] - 1))
    BY <2>5 DEF Empty, IsEmptyInternal
  <2>7. InList(q)'
    BY <2>6, Listed, ListedFrame
  <2>8. numProcessing'[q] = Cardinality(Processing(q)')
    BY <2>4, <2>5
  <2>9. /\ handle'[q] = handle[q] /\ closed'[q] = closed[q] /\ schedulable'[q] = schedulable[q]
        /\ \/ handle[q] = "open" /\ notification[q] = "null"
           \/ handle[q] = "closing" /\ notification[q] = "set"
    <3>1. handle[q] \in {"none", "open", "closing", "destroyed"}
      BY DEF TypeOK
    <3> QED  BY <2>6, <3>1 DEF QueueInv
  <2>10. \/ notification'[q] = notification[q] /\ (notification[q] = "null" \/ ~Empty(q)')
         \/ notification[q] = "set" /\ Empty(q)' /\ notification'[q] = "notified"
    BY <1>2, <2>6, <2>9
  <2> QED  BY <2>7, <2>8, <2>9, <2>10 DEF QueueInv
<1> QED  BY <1>5, <1>6 DEF HandleInv

LEMMA HandleStep == Inv /\ [Next]_vars => HandleInv'
<1> SUFFICES ASSUME Inv, [Next]_vars PROVE HandleInv'
  OBVIOUS
<1>1. /\ TypeOK /\ ListInv /\ BatchInv /\ HandleInv
      /\ batches \in [Queues -> Seq(BatchesOf(Tasks))]
      /\ schedulable \in [Queues -> BOOLEAN]
      /\ handle \in [Queues -> {"none", "open", "closing", "destroyed"}]
      /\ notification \in [Queues -> {"null", "set", "notified", "misused"}]
  BY DEF Inv, TypeOK
<1> USE <1>1
<1>2. ASSUME NEW t \in Tasks, Schedule(t) PROVE HandleInv'
  <2>0. PICK q : q = QueueOf[t]
    OBVIOUS
  <2>1. PICK bs \in Seq(BatchesOf(Tasks)), late \in BOOLEAN, ready \in BOOLEAN :
            Enqueues(t, q, bs, late, ready)
    BY <1>2, <2>0, ScheduleEffect
  <2>2. UNCHANGED <<queues, next, closed, numProcessing, scan, job, handle, notification>>
    BY <1>2 DEF Schedule, threadVars
  <2>3. /\ q \in Queues /\ handle[q] = "open"
        /\ batches' = [batches EXCEPT ![q] = bs]
        /\ schedulable' = [schedulable EXCEPT ![q] = schedulable[q] \/ ready]
    BY <2>1 DEF Enqueues
  <2>4. ASSUME NEW p \in Queues PROVE (InList(p)' <=> InList(p)) /\ Processing(p)' = Processing(p)
    BY <2>2, ListedFrame, ProcessingFrame
  <2>5. ASSUME NEW p \in Queues, p # q PROVE QueueInv(p)'
    <3>1. batches'[p] = batches[p] /\ schedulable'[p] = schedulable[p]
      BY <2>3, <2>5
    <3> QED  BY <2>2, <2>4, <3>1, QueueFrame
  <2>6. QueueInv(q)'
    BY <2>2, <2>3, <2>4 DEF HandleInv, QueueInv
  <2> QED  BY <2>5, <2>6 DEF HandleInv
<1>3. ASSUME IdleStep PROVE HandleInv'
  <2>1. UNCHANGED <<queues, next, batches, closed, schedulable, numProcessing, scan, job,
                    handle, notification>>
    BY <1>3, IdleEffect
  <2>2. ASSUME NEW p \in Queues PROVE QueueInv(p)'
    BY <2>1, ListedFrame, ProcessingFrame, QueueFrame
  <2> QED  BY <2>2 DEF HandleInv
<1>4. ASSUME NEW th \in Threads, BeginScan(th), queues # <<>> PROVE HandleInv'
  <2>1. /\ UNCHANGED <<queues, next, batches, closed, schedulable, numProcessing, job,
                       handle, notification>>
        /\ scan = NoScan /\ scan'.batch = NoBatch
    BY <1>4, BeginScanEffect
  <2>2. ASSUME NEW p \in Queues PROVE QueueInv(p)'
    <3>1. Processing(p)' = Processing(p)
      BY <2>1 DEF Processing, Scanning
    <3> QED  BY <2>1, <3>1, ListedFrame, QueueFrame
  <2> QED  BY <2>2 DEF HandleInv
<1>5. ASSUME ScheduleBatch PROVE HandleInv'
  <2>0. PICK q : q = queues[next]
    OBVIOUS
  <2>1. ASSUME NEW b \in BatchesOf(Tasks), NEW bs \in Seq(BatchesOf(Tasks)), NEW late \in BOOLEAN,
               TakesBatch(q, b, bs, late)
        PROVE  HandleInv'
    BY <1>5, <2>0, <2>1, HandleTakes
  <2>2. CASE FindsNoBatch(q)
    <3>1. /\ schedulable' = [schedulable EXCEPT ![q] = FALSE]
          /\ scan' = [scan EXCEPT !.at = "IsEmpty()"]
          /\ UNCHANGED <<numProcessing, batches>>
      BY <2>2 DEF FindsNoBatch
    <3>2. /\ scan.batch = NoBatch /\ scan'.batch = NoBatch
          /\ UNCHANGED <<queues, next, closed, job, handle, notification>>
      BY <1>5, <3>1, ScheduleBatchScan
    <3>3. ASSUME NEW p \in Queues PROVE QueueInv(p)'
      <4>1. Processing(p)' = Processing(p)
        BY <3>2 DEF Processing, Scanning
      <4>2. schedulable'[p] => schedulable[p]
        BY <3>1
      <4> QED  BY <3>1, <3>2, <4>1, <4>2, ListedFrame, QueueFrame
    <3> QED  BY <3>3 DEF HandleInv
  <2> QED  BY <1>5, <2>0, <2>1, <2>2, ScheduleBatchEffect
<1>6. ASSUME Advance PROVE HandleInv'
  BY <1>6, HandleAdvance
<1>7. ASSUME NEW th \in Threads, ProcessBatchCallback(th) PROVE HandleInv'
  <2>1. /\ UNCHANGED <<queues, next, batches, closed, schedulable, numProcessing, scan,
                       handle, notification>>
        /\ job[th] # NoJob
        /\ \E j \in [queue : Queues, batch : BatchesOf(Tasks)] :
               j # NoJob /\ j.queue = job[th].queue /\ job' = [job EXCEPT ![th] = j]
    <3>1. TypeOK /\ ListInv
      OBVIOUS
    <3> QED  BY <1>7, <3>1, CallbackEffect, ZenonT(90)
  <2>2. ASSUME NEW p \in Queues PROVE QueueInv(p)'
    <3>1. ASSUME NEW x \in Threads
          PROVE  job'[x] # NoJob /\ job'[x].queue = p <=> job[x] # NoJob /\ job[x].queue = p
      BY <2>1 DEF TypeOK
    <3>2. Processing(p)' = Processing(p)
      BY <2>1, <3>1 DEF Processing, Scanning
    <3> QED  BY <2>1, <3>2, ListedFrame, QueueFrame
  <2> QED  BY <2>2 DEF HandleInv
<1>8. ASSUME NEW th \in Threads, FinishBatch(th) PROVE HandleInv'
  BY <1>8, HandleFinish
<1>9. ASSUME NEW q \in Queues, AddQueue(q) PROVE HandleInv'
  <2>1. /\ handle[q] = "none" /\ scan = NoScan
        /\ queues' = Append(queues, q)
        /\ handle' = [handle EXCEPT ![q] = "open"]
        /\ UNCHANGED <<batches, closed, schedulable, numProcessing, scan, job, notification>>
    BY <1>9, AddQueueEffect
  <2> USE <2>1
  <2>2. queues \in Seq(Queues) /\ Len(queues) \in Nat
    BY SMTT(30) DEF TypeOK
  <2>3. /\ Len(queues') = Len(queues) + 1 /\ queues'[Len(queues) + 1] = q
        /\ \A i \in 1..Len(queues) : queues'[i] = queues[i]
    BY <2>2, AppendEffect, SMTT(30)
  <2>4. ASSUME NEW p \in Queues PROVE Processing(p)' = Processing(p)
    BY DEF Processing, Scanning
  <2>5. ASSUME NEW p \in Queues, p # q PROVE QueueInv(p)'
    <3>1. InList(p)' <=> InList(p)
      BY <2>2, <2>3, <2>5, SMTT(30) DEF InList
    <3>2. handle'[p] = handle[p]
      BY <2>5
    <3> QED  BY <2>4, <3>1, <3>2, QueueFrame
  <2>6. QueueInv(q)'
    <3>1. InList(q)'
      <4>1. Len(queues) + 1 \in 1..Len(queues')
        BY <2>2, <2>3, SMTT(30)
      <4> QED  BY <2>3, <4>1 DEF InList
    <3>2. handle'[q] = "open"
      OBVIOUS
    <3>3. QueueInv(q) /\ ~closed[q] /\ notification[q] = "null"
      BY DEF HandleInv, QueueInv
    <3> QED  BY <2>4, <3>1, <3>2, <3>3 DEF QueueInv
  <2> QED  BY <2>5, <2>6 DEF HandleInv
<1>10. ASSUME NEW q \in Queues, CloseAndWaitUntilEmpty(q) PROVE HandleInv'
  <2>1. /\ handle[q] = "open"
        /\ closed' = [closed EXCEPT ![q] = TRUE]
        /\ \/ /\ Empty(q) /\ handle' = [handle EXCEPT ![q] = "destroyed"]
              /\ notification' = notification
           \/ /\ ~Empty(q) /\ handle' = [handle EXCEPT ![q] = "closing"]
              /\ notification' = [notification EXCEPT ![q] = "set"]
        /\ UNCHANGED <<queues, next, batches, schedulable, numProcessing, scan, job>>
    BY <1>10, CloseEffect
  <2> USE <2>1
  <2>2. ASSUME NEW p \in Queues PROVE (InList(p)' <=> InList(p)) /\ Processing(p)' = Processing(p)
    BY ListedFrame, ProcessingFrame
  <2>3. closed \in [Queues -> BOOLEAN]
    BY DEF TypeOK
  <2>4. ASSUME NEW p \in Queues, p # q PROVE QueueInv(p)'
    <3>1. closed'[p] = closed[p] /\ handle'[p] = handle[p] /\ notification'[p] = notification[p]
      BY <2>3, <2>4
    <3> QED  BY <2>2, <3>1, QueueFrame
  <2>5. QueueInv(q)'
    <3>1. QueueInv(q) /\ notification[q] = "null" /\ InList(q)'
      BY <2>2, Listed DEF HandleInv, QueueInv
    <3>2. /\ closed'[q]
          /\ \/ Empty(q) /\ handle'[q] = "destroyed" /\ notification'[q] = "null"
             \/ ~Empty(q) /\ handle'[q] = "closing" /\ notification'[q] = "set"
      BY <2>3, <3>1
    <3>3. Empty(q)' <=> Empty(q)
      BY DEF Empty, IsEmptyInternal
    <3>4. numProcessing'[q] = Cardinality(Processing(q)')
      BY <2>2, <3>1 DEF QueueInv
    <3> QED  BY <3>1, <3>2, <3>3, <3>4 DEF QueueInv
  <2> QED  BY <2>4, <2>5 DEF HandleInv
<1>11. ASSUME QuietStep PROVE HandleInv'
  <2>1. /\ UNCHANGED <<queues, next, batches, closed, schedulable, numProcessing, scan, job,
                       notification>>
        /\ \/ handle' = handle
           \/ \E q \in Queues : /\ handle[q] = "closing" /\ notification[q] = "notified"
                                /\ handle' = [handle EXCEPT ![q] = "destroyed"]
    BY <1>11, QuietEffect
  <2> USE <2>1
  <2>2. ASSUME NEW p \in Queues PROVE (InList(p)' <=> InList(p)) /\ Processing(p)' = Processing(p)
    BY ListedFrame, ProcessingFrame
  <2>3. ASSUME NEW p \in Queues PROVE QueueInv(p)'
    <3>1. CASE handle'[p] = handle[p]
      BY <2>2, <3>1, QueueFrame
    <3>2. CASE handle[p] = "closing" /\ notification[p] = "notified" /\ handle'[p] = "destroyed"
      <4>1. Empty(p)' <=> Empty(p)
        BY DEF Empty, IsEmptyInternal
      <4>2. QueueInv(p)
        BY DEF HandleInv
      <4> QED  BY <2>2, <3>2, <4>1, <4>2 DEF QueueInv
    <3> QED  BY <3>1, <3>2
  <2> QED  BY <2>3 DEF HandleInv
<1> QED
  BY <1>2, <1>3, <1>4, <1>5, <1>6, <1>7, <1>8, <1>9, <1>10, <1>11, StepCases

(***************************************************************************)
(* The wake-ups.                                                           *)
(***************************************************************************)
LEMMA FlagFrame ==
    ASSUME WakeInv, NEW p \in Queues, batches'[p] = batches[p], schedulable[p] => schedulable'[p]
    PROVE  FlagOK(p)'
BY DEF WakeInv, FlagOK

LEMMA WokenFrame ==
    ASSUME NEW i, Woken(i), UNCHANGED <<queues, next, scan>>,
           notifying # {} => notifying' # {},
           (\E th \in Threads : pc[th] # "wait") => \E th \in Threads : pc'[th] # "wait"
    PROVE  Woken(i)'
BY DEF Woken, Untried, Ahead

\* Queue flags, list and scan stay: it is enough to look at the threads.
LEMMA WakeFrame ==
    ASSUME WakeInv, UNCHANGED <<queues, next, batches, schedulable, scan>>,
           notifying # {} => notifying' # {},
           (\E th \in Threads : pc[th] # "wait") => \E th \in Threads : pc'[th] # "wait"
    PROVE  WakeInv'
<1>1. ASSUME NEW p \in Queues PROVE FlagOK(p)'
  BY FlagFrame
<1>2. ASSUME NEW i \in 1..Len(queues'), schedulable'[queues'[i]] PROVE Woken(i)'
  <2>1. i \in 1..Len(queues) /\ schedulable[queues[i]]
    BY <1>2
  <2>2. Woken(i)
    BY <2>1 DEF WakeInv
  <2> QED  BY <2>2, WokenFrame
<1> QED  BY <1>1, <1>2 DEF WakeInv

\* A step of an idle thread leaves one thread awake.
LEMMA IdleWakes ==
    ASSUME TypeOK, IdleStep
    PROVE  \/ queues = <<>>
           \/ /\ \E th \in Threads : pc'[th] # "wait"
              /\ notifying' = notifying \/ scan = NoScan
<1>1. pc \in [Threads -> {"idle", "scan", "wait", "callback", "finish", "exited"}]
  BY DEF TypeOK
<1>2. ASSUME NEW t \in Tasks, NotifySchedulable(t)
      PROVE  scan = NoScan /\ \E th \in Threads : pc'[th] # "wait"
  <2>1. CASE \E th \in Threads : pc[th] = "wait"
    BY <1>1, <1>2, <2>1 DEF NotifySchedulable
  <2>2. CASE \A th \in Threads : pc[th] # "wait"
    <3>1. \E th \in Threads : TRUE
      BY ConstantTypes
    <3>2. pc' = pc /\ scan = NoScan
      BY <1>2, <2>2 DEF NotifySchedulable
    <3> QED  BY <2>2, <3>1, <3>2
  <2> QED  BY <2>1, <2>2
<1>3. ASSUME NEW th \in Threads, WaitTimesOut(th) \/ ThreadExits(th)
      PROVE  notifying' = notifying /\ pc'[th] # "wait"
  BY <1>1, <1>3 DEF WaitTimesOut, ThreadExits, clientVars
<1> QED  BY <1>2, <1>3 DEF IdleStep

\* A queue whose flag is reset has no batch that is ready because of its size.
LEMMA ResetIsRight ==
    ASSUME TypeOK, BatchInv, NEW q \in Queues, FindsNoBatch(q)
    PROVE  ~(Len(batches[q]) > 1) /\ ~(OpenBatch(batches[q]).size >= MaxBatchSize[q])
<1>1. Len(batches[q]) = 1 /\ ~IsOpenBatchSchedulable(q, batches[q], elapsed[q])
  BY DEF FindsNoBatch
<1>2. \/ OpenBatch(batches[q]).size = 0
      \/ ~(OpenBatch(batches[q]).size >= MaxBatchSize[q])
  BY <1>1 DEF IsOpenBatchSchedulable, BatchInv, BatchesOK
<1>3. MaxBatchSize[q] \in Nat \ {0}
  BY ConstantTypes
<1>4. ~(0 >= MaxBatchSize[q])
  BY <1>3, SMTT(30)
<1> QED  BY <1>1, <1>2, <1>4, SMTT(30)

\* ScheduleBatch() keeps the flag as long as there may be another batch.
LEMMA WakeScheduleBatch ==
    ASSUME TypeOK, ListInv, BatchInv, WakeInv, ScheduleBatch
    PROVE  WakeInv'
<1>0. PICK q : q = queues[next]
  OBVIOUS
<1>1. scan # NoScan
  BY DEF ScheduleBatch
<1>2. /\ Len(queues) \in Nat /\ next \in 1..Len(queues) /\ q \in Queues
      /\ \A i \in 1..Len(queues) : queues[i] \in Queues
  BY <1>0, <1>1, ScanIsAtAQueue
<1> USE <1>2
<1>3. batches \in [Queues -> Seq(BatchesOf(Tasks))] /\ schedulable \in [Queues -> BOOLEAN]
  BY DEF TypeOK
<1> USE <1>3
<1>4. ASSUME NEW b \in BatchesOf(Tasks), NEW bs \in Seq(BatchesOf(Tasks)), NEW late \in BOOLEAN,
             TakesBatch(q, b, bs, late)
      PROVE  WakeInv'
  <2>1. /\ batches' = [batches EXCEPT ![q] = bs] /\ schedulable' = schedulable
        /\ \/ OpenBatch(bs) = OpenBatch(batches[q]) /\ Len(batches[q]) > 1
           \/ OpenBatch(bs) = EmptyBatch /\ Len(bs) = 1
        /\ scan' = [scan EXCEPT !.at = "IsEmpty()", !.batch = b]
    BY <1>4 DEF TakesBatch
  <2> USE <2>1
  <2>2. scan' # NoScan /\ scan'.batch = b
    BY ScheduleBatchScan
  <2>3. ASSUME NEW i PROVE Woken(i)'
    BY <2>2, ConstantTypes DEF Woken
  <2>4. ASSUME NEW p \in Queues PROVE FlagOK(p)'
    <3>1. CASE p # q
      BY <3>1, FlagFrame
    <3>2. CASE p = q
      <4>1. batches'[q] = bs
        OBVIOUS
      <4>2. CASE Len(batches[q]) > 1
        BY <3>2, <4>2 DEF WakeInv, FlagOK
      <4>3. CASE OpenBatch(bs) = EmptyBatch /\ Len(bs) = 1
        <5>1. ~(Len(bs) > 1) /\ ~(OpenBatch(bs).size >= MaxBatchSize[q])
          <6>1. OpenBatch(bs).size = 0 /\ MaxBatchSize[q] \in Nat \ {0}
            BY <4>3, EmptyBatchType, ConstantTypes
          <6> QED  BY <4>3, <6>1, SMTT(30)
        <5> QED  BY <3>2, <4>1, <5>1 DEF FlagOK
      <4> QED  BY <4>2, <4>3
    <3> QED  BY <3>1, <3>2
  <2> QED  BY <2>3, <2>4 DEF WakeInv
<1>5. CASE FindsNoBatch(q)
  <2>1. /\ schedulable' = [schedulable EXCEPT ![q] = FALSE] /\ batches' = batches
        /\ scan' = [scan EXCEPT !.at = "IsEmpty()"]
    BY <1>5 DEF FindsNoBatch
  <2> USE <2>1
  <2>2. /\ scan.batch = NoBatch /\ UNCHANGED <<queues, next, pc, notifying>>
        /\ scan' # NoScan
        /\ scan'.num_queues = scan.num_queues /\ scan'.tried = scan.tried
    BY ScheduleBatchScan
  <2>3. ASSUME NEW p \in Queues PROVE FlagOK(p)'
    <3>1. CASE p # q
      BY <3>1, FlagFrame
    <3>2. CASE p = q
      BY <1>5, <3>2, ResetIsRight DEF FlagOK
    <3> QED  BY <3>1, <3>2
  <2>4. ASSUME NEW i \in 1..Len(queues'), schedulable'[queues'[i]] PROVE Woken(i)'
    <3>1. i \in 1..Len(queues) /\ queues[i] \in Queues /\ queues'[i] = queues[i]
      BY <2>2, <2>4
    <3>2. queues[i] # q /\ schedulable[queues[i]]
      BY <2>4, <3>1
    <3>3. Woken(i) /\ i # next
      BY <1>0, <3>1, <3>2 DEF WakeInv
    <3>4. Ahead(i)' = Ahead(i) /\ Ahead(i) > 0
      <4>1. Ahead(i)' = Ahead(i)
        BY <2>2 DEF Ahead
      <4>2. Ahead(i) > 0
        BY <3>1, <3>3, SMTT(30) DEF Ahead
      <4> QED  BY <4>1, <4>2
    <3> QED  BY <1>1, <2>2, <3>3, <3>4 DEF Woken, Untried
  <2> QED  BY <2>3, <2>4 DEF WakeInv
<1> QED  BY <1>0, <1>4, <1>5, ScheduleBatchEffect

\* The scan comes one queue nearer to each queue that it has yet to try.
LEMMA AheadShrinks ==
    ASSUME TypeOK, ListInv, Advance, NEW i \in 1..Len(queues'), NEW k \in Int
    PROVE  \E j \in 1..Len(queues) :
               /\ queues[j] = queues'[i]
               /\ Ahead(j) > 0 /\ Ahead(j) < k => Ahead(i)' < k - 1
<1>1. /\ scan # NoScan
      /\ \/ /\ queues' = Erase(queues, next)
            /\ next' = IF next = Len(queues) /\ Len(queues) > 1 THEN 1 ELSE next
         \/ /\ queues' = queues
            /\ next' = IF next = Len(queues) THEN 1 ELSE next + 1
  BY AdvanceEffect
<1>2. Len(queues) \in Nat /\ next \in 1..Len(queues) /\ queues \in Seq(Queues)
  BY <1>1, ScanIsAtAQueue DEF TypeOK
<1> USE <1>2
<1>3. CASE /\ queues' = Erase(queues, next)
           /\ next' = IF next = Len(queues) /\ Len(queues) > 1 THEN 1 ELSE next
  <2>1. /\ Len(queues') = Len(queues) - 1
        /\ \A j \in 1..Len(queues) - 1 : queues'[j] = IF j < next THEN queues[j] ELSE queues[j + 1]
    BY <1>3, EraseEffect
  <2> DEFINE j == IF i < next THEN i ELSE i + 1
  <2>2. j \in 1..Len(queues) /\ queues[j] = queues'[i]
    BY <2>1, SMTT(30)
  <2>3. Ahead(j) > 0 /\ Ahead(j) < k => Ahead(i)' < k - 1
    BY <1>3, <2>1, SMTT(30) DEF Ahead
  <2> QED  BY <2>2, <2>3
<1>4. CASE /\ queues' = queues
           /\ next' = IF next = Len(queues) THEN 1 ELSE next + 1
  <2>1. Ahead(i) > 0 /\ Ahead(i) < k => Ahead(i)' < k - 1
    BY <1>4, SMTT(30) DEF Ahead
  <2> QED  BY <1>4, <2>1
<1> QED  BY <1>1, <1>3, <1>4

LEMMA WakeAdvance ==
    ASSUME TypeOK, ListInv, WakeInv, Advance
    PROVE  WakeInv'
<1>1. /\ scan # NoScan /\ scan.at = "IsEmpty()"
      /\ UNCHANGED <<batches, schedulable, notifying>>
  BY AdvanceEffect
<1> USE <1>1
<1>2. /\ scan \in Scans /\ scan.thread \in Threads
      /\ scan.num_queues \in Nat /\ scan.tried \in Nat
  BY ScanIsAtAQueue
<1> USE <1>2
<1>3. ASSUME NEW p \in Queues PROVE FlagOK(p)'
  BY FlagFrame
<1>4. ASSUME NEW i \in 1..Len(queues'), schedulable'[queues'[i]] PROVE Woken(i)'
  <2> DEFINE k == scan.num_queues - scan.tried
  <2>1. k \in Int
    BY SMTT(30)
  <2>2. PICK j \in 1..Len(queues) :
            /\ queues[j] = queues'[i]
            /\ Ahead(j) > 0 /\ Ahead(j) < k => Ahead(i)' < k - 1
    <3> HIDE DEF k
    <3> QED  BY <2>1, AheadShrinks
  <2>3. Woken(j)
    BY <1>4, <2>2 DEF WakeInv
  <2>4. notifying # {} \/ scan.batch # NoBatch \/ (Ahead(j) > 0 /\ Ahead(j) < k)
    BY <2>3 DEF Woken, Untried
  <2>5. CASE notifying # {}
    BY <2>5 DEF Woken
  <2>6. CASE scan.batch # NoBatch
    <3>1. scan' = NoScan /\ pc' = [pc EXCEPT ![scan.thread] = "callback"]
      BY <2>6, AdvanceEffect
    <3>2. pc'[scan.thread] # "wait"
      BY <3>1 DEF TypeOK
    <3> QED  BY <3>1, <3>2 DEF Woken
  <2>7. CASE scan.batch = NoBatch /\ Ahead(j) > 0 /\ Ahead(j) < k
    <3>1. Ahead(j) \in Int
      <4>1. j \in Int /\ next \in Int /\ Len(queues) \in Int
        BY ScanIsAtAQueue, SMTT(30)
      <4> QED  BY <4>1, SMTT(30) DEF Ahead
    <3>2. scan.tried + 1 # scan.num_queues
      BY <2>7, <3>1, SMTT(30)
    <3>3. scan' = [scan EXCEPT !.at = "ScheduleBatch()", !.tried = scan.tried + 1,
                             !.queue_closed = closed[queues'[next']]]
      BY <2>7, <3>2, AdvanceEffect
    <3>4. closed[queues'[next']] \in BOOLEAN
      <4>1. scan.tried + 1 < scan.num_queues
        BY <2>7, <3>2, AdvanceEffect
      <4> QED  BY <4>1, PositionStays DEF TypeOK
    <3>5. /\ scan' # NoScan /\ scan'.at = "ScheduleBatch()"
          /\ scan'.tried = scan.tried + 1 /\ scan'.num_queues = scan.num_queues
      BY <3>3, <3>4, AdvanceScan
    <3>6. k - 1 = scan.num_queues - (scan.tried + 1)
      BY SMTT(30)
    <3>7. Ahead(i)' < scan'.num_queues - scan'.tried
      BY <2>2, <2>7, <3>5, <3>6
    <3> QED  BY <3>5, <3>7 DEF Woken, Untried
  <2> HIDE DEF k
  <2> QED  BY <2>4, <2>5, <2>6, <2>7
<1> QED  BY <1>3, <1>4 DEF WakeInv

LEMMA WakeStep == Inv /\ [Next]_vars => WakeInv'
<1> SUFFICES ASSUME Inv, [Next]_vars PROVE WakeInv'
  OBVIOUS
<1>1. /\ TypeOK /\ ListInv /\ BatchInv /\ HandleInv /\ WakeInv
      /\ batches \in [Queues -> Seq(BatchesOf(Tasks))]
      /\ schedulable \in [Queues -> BOOLEAN]
      /\ pc \in [Threads -> {"idle", "scan", "wait", "callback", "finish", "exited"}]
  BY DEF Inv, TypeOK
<1> USE <1>1
<1>2. ASSUME NEW t \in Tasks, Schedule(t) PROVE WakeInv'
  <2>0. PICK q : q = QueueOf[t]
    OBVIOUS
  <2>1. PICK bs \in Seq(BatchesOf(Tasks)), late \in BOOLEAN, ready \in BOOLEAN :
            Enqueues(t, q, bs, late, ready)
    BY <1>2, <2>0, ScheduleEffect
  <2>2. UNCHANGED <<queues, next, scan, pc>>
    BY <1>2 DEF Schedule, threadVars
  <2>3. /\ q \in Queues
        /\ batches' = [batches EXCEPT ![q] = bs]
        /\ schedulable' = [schedulable EXCEPT ![q] = schedulable[q] \/ ready]
        /\ Len(bs) > 1 \/ OpenBatch(bs).size >= MaxBatchSize[q] => ready
        /\ notifying' = IF ready /\ ~schedulable[q] THEN notifying \cup {t} ELSE notifying
    BY <2>1 DEF Enqueues
  <2> USE <2>3
  <2>4. ASSUME NEW p \in Queues PROVE FlagOK(p)'
    <3>1. CASE p # q
      <4>1. batches'[p] = batches[p] /\ schedulable'[p] = schedulable[p]
        BY <3>1
      <4> QED  BY <4>1, FlagFrame
    <3>2. CASE p = q
      <4>1. batches'[q] = bs /\ schedulable'[q] = (schedulable[q] \/ ready)
        OBVIOUS
      <4> QED  BY <3>2, <4>1 DEF FlagOK
    <3> QED  BY <3>1, <3>2
  <2>5. notifying # {} => notifying' # {}
    OBVIOUS
  <2>6. ASSUME NEW i \in 1..Len(queues'), schedulable'[queues'[i]] PROVE Woken(i)'
    <3>1. i \in 1..Len(queues) /\ schedulable'[queues[i]]
      BY <2>2, <2>6
    <3>2. CASE schedulable[queues[i]]
      <4>1. Woken(i)
        BY <3>1, <3>2 DEF WakeInv
      <4> QED  BY <2>2, <2>5, <4>1, WokenFrame
    <3>3. CASE ~schedulable[queues[i]]
      <4>1. queues[i] \in Queues
        <5>1. queues \in Seq(Queues)
          BY DEF TypeOK
        <5> QED  BY <3>1, <5>1, SMTT(30)
      <4>2. ready /\ ~schedulable[q]
        BY <3>1, <3>3, <4>1
      <4>3. notifying' # {}
        BY <4>2
      <4> QED  BY <4>3 DEF Woken
    <3> QED  BY <3>2, <3>3
  <2> QED  BY <2>4, <2>6 DEF WakeInv
<1>3. ASSUME IdleStep PROVE WakeInv'
  <2>1. UNCHANGED <<queues, next, batches, schedulable, scan>>
    BY <1>3, IdleEffect
  <2> USE <2>1
  <2>2. ASSUME NEW p \in Queues PROVE FlagOK(p)'
    BY FlagFrame
  <2>3. CASE queues = <<>>
    <3>1. \A i \in 1..Len(queues') : FALSE
      BY <2>3, SMTT(30)
    <3> QED  BY <2>2, <3>1 DEF WakeInv
  <2>4. CASE (\E th \in Threads : pc'[th] # "wait") /\ notifying' = notifying
    BY <2>4, WakeFrame
  <2>5. CASE (\E th \in Threads : pc'[th] # "wait") /\ scan = NoScan
    <3>1. \A i : Woken(i)'
      BY <2>5 DEF Woken
    <3> QED  BY <2>2, <3>1 DEF WakeInv
  <2> QED  BY <1>3, <2>3, <2>4, <2>5, IdleWakes
<1>4. ASSUME NEW th \in Threads, BeginScan(th), queues # <<>> PROVE WakeInv'
  <2>1. /\ UNCHANGED <<queues, next, batches, schedulable>>
        /\ scan' # NoScan /\ scan'.at = "ScheduleBatch()"
        /\ scan'.num_queues = Len(queues) /\ scan'.tried = 0
    BY <1>4, BeginScanEffect
  <2> USE <2>1
  <2>2. ASSUME NEW p \in Queues PROVE FlagOK(p)'
    BY FlagFrame
  <2>3. ASSUME NEW i \in 1..Len(queues') PROVE Woken(i)'
    <3>1. queues \in Seq(Queues) /\ next \in 1..Len(queues) /\ i \in 1..Len(queues)
      BY <1>4 DEF TypeOK, ListInv, PositionOK
    <3>2. Ahead(i) < Len(queues) - 0
      BY <3>1, SMTT(30) DEF Ahead
    <3>3. Ahead(i)' = Ahead(i)
      BY DEF Ahead
    <3> QED  BY <3>2, <3>3 DEF Woken, Untried
  <2> QED  BY <2>2, <2>3 DEF WakeInv
<1>5. ASSUME ScheduleBatch PROVE WakeInv'
  BY <1>5, WakeScheduleBatch
<1>6. ASSUME Advance PROVE WakeInv'
  BY <1>6, WakeAdvance
<1>7. ASSUME NEW th \in Threads, ProcessBatchCallback(th) \/ FinishBatch(th) PROVE WakeInv'
  <2>1. /\ UNCHANGED <<queues, next, batches, schedulable, scan, notifying>>
        /\ pc' = [pc EXCEPT ![th] = "finish"] \/ pc' = [pc EXCEPT ![th] = "idle"]
    BY <1>7, CallbackEffect, FinishEffect
  <2>2. pc'[th] # "wait"
    BY <2>1
  <2> QED  BY <2>1, <2>2, WakeFrame
<1>8. ASSUME NEW q \in Queues, AddQueue(q) PROVE WakeInv'
  <2>1. /\ handle[q] = "none" /\ scan = NoScan /\ queues' = Append(queues, q)
        /\ UNCHANGED <<batches, schedulable, scan, pc, notifying>>
    BY <1>8, AddQueueEffect
  <2> USE <2>1
  <2>2. ASSUME NEW p \in Queues PROVE FlagOK(p)'
    BY FlagFrame
  <2>3. queues \in Seq(Queues) /\ Len(queues) \in Nat
    BY SMTT(30) DEF TypeOK
  <2>4. /\ Len(queues') = Len(queues) + 1 /\ queues'[Len(queues) + 1] = q
        /\ \A i \in 1..Len(queues) : queues'[i] = queues[i]
    BY <2>3, AppendEffect, SMTT(30)
  <2>5. ASSUME NEW i \in 1..Len(queues'), schedulable'[queues'[i]] PROVE Woken(i)'
    <3>1. ~schedulable[q]
      BY DEF HandleInv, QueueInv
    <3>2. i \in 1..Len(queues) \/ i = Len(queues) + 1
      BY <2>3, <2>4, SMTT(30)
    <3>3. i \in 1..Len(queues) /\ schedulable[queues[i]]
      BY <2>4, <2>5, <3>1, <3>2
    <3>4. Woken(i)
      BY <3>3 DEF WakeInv
    <3> QED  BY <3>4 DEF Woken, Untried
  <2> QED  BY <2>2, <2>5 DEF WakeInv
<1>9. ASSUME NEW q \in Queues, CloseAndWaitUntilEmpty(q) PROVE WakeInv'
  BY <1>9, CloseEffect, WakeFrame
<1>10. ASSUME QuietStep PROVE WakeInv'
  BY <1>10, QuietEffect, WakeFrame
<1> QED
  BY <1>2, <1>3, <1>4, <1>5, <1>6, <1>7, <1>8, <1>9, <1>10, StepCases

(***************************************************************************)
(* The theorems.                                                           *)
(***************************************************************************)
LEMMA InitInv == Init => Inv
<1> SUFFICES ASSUME Init PROVE Inv
  OBVIOUS
<1>1. /\ queues = <<>> /\ next = 1 /\ scan = NoScan /\ notifying = {} /\ life = "owned"
      /\ batches = [q \in Queues |-> <<EmptyBatch>>]
      /\ elapsed = [q \in Queues |-> FALSE]
      /\ closed = [q \in Queues |-> FALSE]
      /\ schedulable = [q \in Queues |-> FALSE]
      /\ numProcessing = [q \in Queues |-> 0]
      /\ handle = [q \in Queues |-> "none"]
      /\ notification = [q \in Queues |-> "null"]
      /\ pc = [th \in Threads |-> "idle"]
      /\ job = [th \in Threads |-> NoJob]
  BY DEF Init
<1> USE <1>1
<1>2. /\ <<EmptyBatch>> \in Seq(BatchesOf(Tasks)) /\ <<EmptyBatch>> # <<>>
      /\ Len(<<EmptyBatch>>) = 1 /\ <<EmptyBatch>>[1] = EmptyBatch
  BY EmptyBatchType, SMTT(30)
<1> USE <1>2
<1>3. TypeOK
  <2>1. /\ elapsed \in [Queues -> BOOLEAN] /\ closed \in [Queues -> BOOLEAN]
        /\ schedulable \in [Queues -> BOOLEAN] /\ numProcessing \in [Queues -> Nat]
        /\ queues \in Seq(Queues) /\ next \in Nat
    BY SMTT(30)
  <2>2. batches \in [Queues -> Seq(BatchesOf(Tasks))]
    OBVIOUS
  <2>3. /\ handle \in [Queues -> {"none", "open", "closing", "destroyed"}]
        /\ notification \in [Queues -> {"null", "set", "notified", "misused"}]
        /\ pc \in [Threads -> {"idle", "scan", "wait", "callback", "finish", "exited"}]
        /\ job \in [Threads -> [queue : Queues, batch : BatchesOf(Tasks)] \cup {NoJob}]
    OBVIOUS
  <2> QED  BY <2>1, <2>2, <2>3 DEF TypeOK
<1>4. \A i \in 1..Len(queues) : FALSE
  BY SMTT(30)
<1>5. ListInv
  <2>1. PositionOK /\ NoDuplicates /\ ScanOK
    BY <1>4 DEF PositionOK, NoDuplicates, ScanOK
  <2>2. ThreadsOK
    BY DEF ThreadsOK, Scanning
  <2> QED  BY <2>1, <2>2 DEF ListInv
<1>6. ASSUME NEW q \in Queues
      PROVE  /\ batches[q] = <<EmptyBatch>> /\ OpenBatch(batches[q]) = EmptyBatch
             /\ numProcessing[q] = 0 /\ ~closed[q] /\ ~schedulable[q]
             /\ handle[q] = "none" /\ notification[q] = "null"
  BY DEF OpenBatch
<1>7. ASSUME NEW q \in Queues PROVE 0 <= MaxBatchSize[q] /\ ~(0 >= MaxBatchSize[q])
  BY ConstantTypes, SMTT(30)
<1>8. BatchInv
  <2>1. ASSUME NEW q \in Queues PROVE BatchesOK(q)
    <3>1. \A i \in 1..Len(<<EmptyBatch>>) : <<EmptyBatch>>[i] = EmptyBatch
      BY SMTT(30)
    <3>2. \A i \in 1..Len(batches[q]) : OfQueue(batches[q][i], q)
      BY <1>6, <3>1, EmptyOfQueue
    <3> QED  BY <1>6, <1>7, <3>2, EmptyBatchType DEF BatchesOK
  <2>2. ScanBatchOK /\ JobBatchesOK
    BY DEF ScanBatchOK, JobBatchesOK
  <2> QED  BY <2>1, <2>2 DEF BatchInv
<1>9. HandleInv
  <2>1. ASSUME NEW q \in Queues PROVE QueueInv(q)
    <3>1. Empty(q) /\ ~InList(q)
      BY <1>4, <1>6, EmptyBatchType DEF Empty, IsEmptyInternal, IsEmptyBatch, InList
    <3>2. Processing(q) = {}
      BY DEF Processing, Scanning
    <3>3. Cardinality(Processing(q)) = 0
      BY <3>2, FS_EmptySet
    <3> QED  BY <1>6, <3>1, <3>3 DEF QueueInv
  <2> QED  BY <2>1 DEF HandleInv
<1>10. WakeInv
  <2>1. ASSUME NEW q \in Queues PROVE FlagOK(q)
    <3>1. ~(Len(batches[q]) > 1)
      <4>1. Len(batches[q]) = 1
        BY <1>6
      <4> QED  BY <4>1, SMTT(30)
    <3> QED  BY <1>6, <1>7, <3>1, EmptyBatchType DEF FlagOK
  <2> QED  BY <1>4, <2>1 DEF WakeInv
<1> QED  BY <1>3, <1>5, <1>8, <1>9, <1>10 DEF Inv

\* The inductive invariant holds in every state that ThreadLogic(), the queues
\* and their clients can reach, for any number of queues, tasks and threads.
THEOREM SharedInvariant == Spec => []Inv
<1>1. Inv /\ [Next]_vars => Inv'
  BY TypeStep, ListStep, BatchStep, HandleStep, WakeStep DEF Inv
<1> QED  BY <1>1, InitInv, PTL DEF Spec

\* ThreadLogic() deletes a queue only when no client, task or thread uses it.
THEOREM QueuesOutliveTheirUse == Spec => []UsedQueuesExist
<1>1. Inv => UsedQueuesExist
  <2> SUFFICES ASSUME Inv, NEW q \in Queues, q \notin Range(queues)
               PROVE  /\ handle[q] \in {"none", "closing", "destroyed"}
                      /\ handle[q] = "closing" => notification[q] = "notified"
                      /\ IsEmptyInternal(batches[q], numProcessing[q])
                      /\ \A th \in Threads : job[th].queue # q
    BY DEF UsedQueuesExist
  <2>1. QueueInv(q) /\ TypeOK
    BY DEF Inv, HandleInv
  <2> USE <2>1
  <2>2. ~InList(q)
    <3>1. queues \in Seq(Queues)
      BY DEF TypeOK
    <3> QED  BY <3>1, SMTT(30) DEF InList, Range
  <2>3. handle[q] # "open" /\ Empty(q)
    BY <2>2 DEF QueueInv
  <2>4. handle[q] \in {"none", "open", "closing", "destroyed"}
    BY DEF TypeOK
  <2>5. Processing(q) = {}
    <3>1. Cardinality(Processing(q)) = 0
      BY <2>3 DEF QueueInv, Empty, IsEmptyInternal
    <3> QED  BY <3>1, ProcessingIsFinite, FS_EmptySet
  <2>6. ASSUME NEW th \in Threads PROVE job[th].queue # q
    BY <2>5, NoJobTypes, ConstantTypes DEF Processing
  <2> QED  BY <2>3, <2>4, <2>6 DEF QueueInv, Empty
<1> QED  BY <1>1, SharedInvariant, PTL

\* The notification of CloseAndWaitUntilEmpty() is used once and in time, and
\* ~QueueHandle() returns only when all tasks of the queue have been processed.
THEOREM HandlesCloseWhenEmpty == Spec => []EmptyNotificationIsSound
<1>1. Inv => EmptyNotificationIsSound
  <2> SUFFICES ASSUME Inv, NEW q \in Queues
               PROVE  /\ notification[q] # "misused"
                      /\ handle[q] = "destroyed" =>
                             /\ notification[q] # "set"
                             /\ \A t \in Tasks : QueueOf[t] = q => ~Held(t)
    BY DEF EmptyNotificationIsSound
  <2>1. QueueInv(q) /\ TypeOK /\ ListInv /\ BatchInv
    BY DEF Inv, HandleInv
  <2>2. handle[q] \in {"none", "open", "closing", "destroyed"}
    BY <2>1 DEF TypeOK
  <2>3. notification[q] # "misused" /\ (handle[q] = "destroyed" => notification[q] # "set" /\ Empty(q))
    BY <2>1, <2>2 DEF QueueInv
  <2>4. ASSUME handle[q] = "destroyed", NEW t \in Tasks, QueueOf[t] = q PROVE ~Held(t)
    BY <2>3, <2>4, EmptyHoldsNothing
  <2> QED  BY <2>3, <2>4
<1> QED  BY <1>1, SharedInvariant, PTL

\* While a batch is ready because of its size, a thread is awake or about to be
\* woken by Schedule(): resetting schedulable_batch_ loses no wake-up.
THEOREM WakeUpsAreNotLost == Spec => []NoLostWakeUp
<1>1. Inv => NoLostWakeUp
  <2> SUFFICES ASSUME Inv, NEW q \in Range(queues),
                      Len(batches[q]) > 1 \/ OpenBatch(batches[q]).size >= MaxBatchSize[q]
               PROVE  notifying # {} \/ \E th \in Threads : pc[th] # "wait"
    BY DEF NoLostWakeUp
  <2>1. TypeOK /\ ListInv /\ WakeInv
    BY DEF Inv
  <2>2. PICK i \in 1..Len(queues) : queues[i] = q /\ q \in Queues
    <3>1. queues \in Seq(Queues)
      BY <2>1 DEF TypeOK
    <3> QED  BY <3>1, SMTT(30) DEF Range
  <2>3. Woken(i)
    BY <2>1, <2>2 DEF WakeInv, FlagOK
  <2>4. scan # NoScan => scan.thread \in Threads /\ pc[scan.thread] = "scan"
    BY <2>1, ScanIsAtAQueue
  <2> QED  BY <2>3, <2>4 DEF Woken, Untried
<1> QED  BY <1>1, SharedInvariant, PTL

\* The arithmetic of SchedulingCapacity(): m = max_batch_size, d = the batches
\* that may still be added.
LEMMA CapacityArithmetic ==
    ASSUME NEW d \in Int, NEW m \in Nat \ {0}
    PROVE  /\ d * m > 0 => d > 0
           /\ (d - 1) * m = d * m - m
           /\ d * m \in Int
BY SMTT(30)

\* A step that is not a Schedule() for queue q leaves it its capacity: a batch that
\* is taken makes room for another one, or its place is taken by an empty one.
LEMMA CapacityStays ==
    ASSUME Inv, [Next]_vars, NEW q \in Queues,
           ~\E t \in Tasks : QueueOf[t] = q /\ Schedule(t)
    PROVE  ~(Capacity(q)' < Capacity(q))
<1> DEFINE m == MaxBatchSize[q]
           e == MaxEnqueuedBatches[q]
           n == Len(batches[q])
           s == OpenBatch(batches[q]).size
<1>1. TypeOK /\ ListInv /\ BatchInv
  BY DEF Inv
<1>2. /\ m \in Nat \ {0} /\ e \in Nat
      /\ batches[q] \in Seq(BatchesOf(Tasks)) /\ batches[q] # <<>> /\ s <= m
      /\ batches \in [Queues -> Seq(BatchesOf(Tasks))]
  BY <1>1, ConstantTypes DEF TypeOK, BatchInv, BatchesOK
<1>3. n \in Nat /\ s \in Nat
  <2>1. Len(batches[q]) \in Nat /\ batches[q][Len(batches[q])] \in BatchesOf(Tasks)
    BY <1>2, SMTT(30)
  <2>2. batches[q][Len(batches[q])].size \in Nat
    BY <2>1 DEF BatchesOf
  <2> QED  BY <2>1, <2>2 DEF OpenBatch
<1>4. Capacity(q) = (e - n) * m + (m - s) /\ Capacity(q)' = SchedulingCapacity(q, batches'[q])
  BY DEF Capacity, SchedulingCapacity
<1>5. e - n \in Int /\ (e - n) * m \in Int
  <2>1. e - n \in Int
    BY <1>2, <1>3, SMTT(30)
  <2> HIDE DEF e, n, m
  <2> QED  BY <1>2, <2>1, CapacityArithmetic
<1>6. CASE batches'[q] = batches[q]
  <2>1. Capacity(q)' = Capacity(q)
    BY <1>4, <1>6 DEF Capacity
  <2>2. Capacity(q) \in Int
    BY <1>2, <1>3, <1>4, <1>5, SMTT(30)
  <2> QED  BY <2>1, <2>2, SMTT(30)
<1>7. CASE \E t \in Tasks : Schedule(t)
  <2>1. PICK t \in Tasks : Schedule(t)
    BY <1>7
  <2>2. QueueOf[t] # q
    BY <2>1
  <2>3. PICK p : p = QueueOf[t]
    OBVIOUS
  <2>4. PICK bs \in Seq(BatchesOf(Tasks)), late \in BOOLEAN, ready \in BOOLEAN :
            Enqueues(t, p, bs, late, ready)
    BY <1>1, <2>1, <2>3, ScheduleEffect
  <2>5. batches' = [batches EXCEPT ![p] = bs] /\ p # q
    BY <2>2, <2>3, <2>4 DEF Enqueues
  <2> QED  BY <1>2, <1>6, <2>5
<1>8. CASE ScheduleBatch
  <2>1. PICK p : p = queues[next]
    OBVIOUS
  <2>2. CASE FindsNoBatch(p)
    BY <1>6, <2>2 DEF FindsNoBatch
  <2>3. CASE \E b \in BatchesOf(Tasks), bs \in Seq(BatchesOf(Tasks)), late \in BOOLEAN :
                 TakesBatch(p, b, bs, late)
    <3>1. PICK b \in BatchesOf(Tasks), bs \in Seq(BatchesOf(Tasks)), late \in BOOLEAN :
              TakesBatch(p, b, bs, late)
      BY <2>3
    <3>2. batches' = [batches EXCEPT ![p] = bs]
      BY <3>1 DEF TakesBatch
    <3>3. CASE p # q
      BY <1>2, <1>6, <3>2, <3>3
    <3>4. CASE p = q
      <4>1. batches'[q] = bs
        BY <1>2, <3>2, <3>4
      <4>2. Capacity(q)' = (e - Len(bs)) * m + (m - OpenBatch(bs).size)
        BY <1>4, <4>1 DEF SchedulingCapacity
      <4>3. CASE OpenBatch(bs) = EmptyBatch /\ Len(bs) = 1 /\ n = 1
        <5>1. Capacity(q)' = (e - n) * m + (m - 0)
          BY <4>2, <4>3, EmptyBatchType
        <5> HIDE DEF e, n, m, s
        <5> DEFINE dm == (e - n) * m
        <5>2. dm \in Int /\ Capacity(q) = dm + (m - s) /\ Capacity(q)' = dm + (m - 0)
          BY <1>4, <1>5, <5>1
        <5> HIDE DEF dm
        <5> QED  BY <1>2, <1>3, <5>2, SMTT(30)
      <4>4. CASE OpenBatch(bs).size = s /\ Len(bs) = n - 1
        <5> DEFINE d == e - (n - 1)
        <5>1. Capacity(q)' = d * m + (m - s)
          BY <4>2, <4>4
        <5> HIDE DEF e, n, m, s
        <5>2. d \in Int /\ d - 1 = e - n
          BY <1>2, <1>3, SMTT(30)
        <5>3. Capacity(q) = (d - 1) * m + (m - s)
          BY <1>4, <5>2
        <5> HIDE DEF d
        <5>4. d * m \in Int /\ (d - 1) * m = d * m - m
          BY <1>2, <5>2, CapacityArithmetic
        <5> DEFINE dm == d * m
        <5>5. dm \in Int /\ Capacity(q)' = dm + (m - s) /\ Capacity(q) = (dm - m) + (m - s)
          BY <5>1, <5>3, <5>4
        <5> HIDE DEF dm
        <5> QED  BY <1>2, <1>3, <5>5, SMTT(30)
      <4>5. \/ OpenBatch(bs) = OpenBatch(batches[q]) /\ Len(bs) = n - 1
            \/ OpenBatch(bs) = EmptyBatch /\ Len(bs) = 1 /\ n = 1
        BY <3>1, <3>4 DEF TakesBatch
      <4> QED  BY <4>3, <4>4, <4>5
    <3> QED  BY <3>3, <3>4
  <2> QED  BY <1>1, <1>8, <2>1, <2>2, <2>3, ScheduleBatchEffect
<1>9. ASSUME ~ScheduleBatch, ~\E t \in Tasks : Schedule(t)
      PROVE  batches' = batches
  <2>1. CASE IdleStep
    BY <2>1, IdleEffect
  <2>2. CASE \E th \in Threads : BeginScan(th) /\ queues # <<>>
    BY <1>1, <2>2, BeginScanEffect
  <2>3. CASE Advance \/ \E th \in Threads : ProcessBatchCallback(th) \/ FinishBatch(th)
    BY <2>3 DEF Advance, ProcessBatchCallback, FinishBatch, queueVars
  <2>4. CASE \E p \in Queues : AddQueue(p) \/ CloseAndWaitUntilEmpty(p)
    BY <1>1, <2>4, AddQueueEffect, CloseEffect
  <2>5. CASE QuietStep
    BY <2>5, QuietEffect
  <2> QED  BY <1>9, <2>1, <2>2, <2>3, <2>4, <2>5, StepCases
<1> QED  BY <1>6, <1>7, <1>8, <1>9

\* As long as SchedulingCapacity() is positive, Schedule() accepts a task of size
\* 1 and lowers the capacity by exactly 1; no other step lowers it.
THEOREM CapacityIsKept == Spec => CapacityIsGuaranteed
<1> DEFINE Guaranteed(t) ==
               LET q == QueueOf[t] IN
               Size[t] = 1 /\ MaxEnqueuedBatches[q] > 0 /\ Capacity(q) > 0
                   => /\ ScheduleStatus(t) = "OK"
                      /\ Schedule(t) => Capacity(q)' = Capacity(q) - 1
           Stays(q) ==
               Capacity(q)' < Capacity(q) => \E t \in Tasks : QueueOf[t] = q /\ Schedule(t)
<1>1. ASSUME Inv, NEW t \in Tasks PROVE Guaranteed(t)
  <2>0. PICK q : q = QueueOf[t]
    OBVIOUS
  <2> USE <2>0
  <2> SUFFICES ASSUME Size[t] = 1, SchedulingCapacity(q, batches[q]) > 0
               PROVE  /\ ScheduleStatus(t) = "OK"
                      /\ Schedule(t) => SchedulingCapacity(q, batches'[q])
                                           = SchedulingCapacity(q, batches[q]) - 1
    BY DEF Capacity
  <2> HIDE DEF Guaranteed
  <2>1. TypeOK /\ BatchInv
    BY <1>1 DEF Inv
  <2> DEFINE m == MaxBatchSize[q]
             e == MaxEnqueuedBatches[q]
             n == Len(batches[q])
             s == OpenBatch(batches[q]).size
             d == e - n
  <2>2. /\ q \in Queues /\ m \in Nat \ {0} /\ e \in Nat
        /\ batches[q] \in Seq(BatchesOf(Tasks)) /\ batches[q] # <<>> /\ s <= m
        /\ batches \in [Queues -> Seq(BatchesOf(Tasks))]
    BY <2>1, ConstantTypes DEF TypeOK, BatchInv, BatchesOK
  <2> USE <2>2
  <2>3. n \in Nat /\ s \in Nat
    <3>1. batches[q] \in Seq(BatchesOf(Tasks)) /\ batches[q] # <<>>
      OBVIOUS
    <3>2. Len(batches[q]) \in Nat /\ batches[q][Len(batches[q])] \in BatchesOf(Tasks)
      BY <3>1, SMTT(30)
    <3>3. batches[q][Len(batches[q])].size \in Nat
      BY <3>2 DEF BatchesOf
    <3> QED  BY <3>2, <3>3 DEF OpenBatch
  <2> USE <2>3
  <2>4. SchedulingCapacity(q, batches[q]) = d * m + (m - s)
    BY DEF SchedulingCapacity
  <2>5. FitsOpenBatch(t) <=> s + 1 <= m
    BY DEF FitsOpenBatch
  <2> HIDE DEF m, e, s, n
  <2>6. d \in Int /\ d * m \in Int /\ (d * m > 0 => d > 0) /\ (d - 1) * m = d * m - m
    <3>1. d \in Int
      BY SMTT(30)
    <3> HIDE DEF d
    <3> QED  BY <3>1, CapacityArithmetic
  <2> USE <2>6
  <2> DEFINE dm == d * m
  <2>7. ~FitsOpenBatch(t) => s = m /\ n < e
    <3>1. ~FitsOpenBatch(t) => s = m
      BY <2>5, SMTT(30)
    <3>2. s = m => dm > 0
      <4>1. dm \in Int /\ dm + (m - s) > 0
        BY <2>4
      <4> HIDE DEF dm
      <4> QED  BY <4>1, SMTT(30)
    <3>3. d > 0 => n < e
      BY SMTT(30)
    <3> QED  BY <3>1, <3>2, <3>3, SMTT(30)
  <2>8. ScheduleStatus(t) = "OK"
    <3>1. ~(Size[t] > MaxBatchSize[QueueOf[t]])
      BY SMTT(30) DEF m
    <3>2. FitsOpenBatch(t) \/ ~(Len(batches[QueueOf[t]]) >= MaxEnqueuedBatches[QueueOf[t]])
      BY <2>7, SMTT(30) DEF n, e
    <3> QED  BY <3>1, <3>2 DEF ScheduleStatus
  <2>9. ASSUME Schedule(t)
        PROVE  SchedulingCapacity(q, batches'[q]) = SchedulingCapacity(q, batches[q]) - 1
    <3>1. PICK bs \in Seq(BatchesOf(Tasks)), late \in BOOLEAN, ready \in BOOLEAN :
              Enqueues(t, q, bs, late, ready)
      BY <2>1, <2>9, ScheduleEffect
    <3>2. batches'[q] = bs
      BY <3>1 DEF Enqueues
    <3>3. \/ FitsOpenBatch(t) /\ Len(bs) = n /\ OpenBatch(bs).size = s + 1
          \/ ~FitsOpenBatch(t) /\ Len(bs) = n + 1 /\ OpenBatch(bs).size = 0 + 1
      BY <3>1 DEF Enqueues, n, s
    <3>4. SchedulingCapacity(q, bs) = (e - Len(bs)) * m + (m - OpenBatch(bs).size)
      BY DEF SchedulingCapacity, e, m
    <3>5. CASE FitsOpenBatch(t) /\ Len(bs) = n /\ OpenBatch(bs).size = s + 1
      <4>1. SchedulingCapacity(q, bs) = dm + (m - (s + 1))
        BY <3>4, <3>5
      <4>2. dm \in Int /\ SchedulingCapacity(q, batches[q]) = dm + (m - s)
        BY <2>4
      <4> HIDE DEF dm
      <4> QED  BY <3>2, <4>1, <4>2, SMTT(30)
    <3>6. CASE ~FitsOpenBatch(t) /\ Len(bs) = n + 1 /\ OpenBatch(bs).size = 0 + 1
      <4>1. e - (n + 1) = d - 1
        BY SMTT(30)
      <4>2. SchedulingCapacity(q, bs) = (d - 1) * m + (m - (0 + 1))
        BY <3>4, <3>6, <4>1
      <4>3. SchedulingCapacity(q, bs) = (dm - m) + (m - (0 + 1))
        BY <4>2
      <4>4. dm \in Int /\ SchedulingCapacity(q, batches[q]) = dm + (m - s) /\ s = m
        BY <2>4, <2>7, <3>6
      <4> HIDE DEF dm
      <4> QED  BY <3>2, <4>3, <4>4, SMTT(30)
    <3> QED  BY <3>3, <3>5, <3>6
  <2> QED  BY <2>8, <2>9
<1>2. ASSUME Inv, [Next]_vars, NEW q \in Queues PROVE Stays(q)
  BY <1>2, CapacityStays
<1>3. Inv /\ [Next]_vars => [(\A t \in Tasks : Guaranteed(t)) /\ (\A q \in Queues : Stays(q))]_vars
  BY <1>1, <1>2
<1> QED  BY <1>3, SharedInvariant, PTL DEF Spec, CapacityIsGuaranteed

\* Each queue of a SharedBatchScheduler implements BatchScheduler: the tasks it
\* accepts are processed in the order in which it accepted them, in batches
\* within the maximum size, each task once, and the destructor of its handle
\* returns after the last.
THEOREM SharedIsABatchScheduler == Spec => ImplementsBatchScheduler
<1>1. Inv /\ TasksInv => FormedAreInHands
  BY FormedInHands DEF Inv, TasksInv
<1>2. Spec => []TasksInv
  <2>1. Init => TasksInv
    BY InitTasks
  <2> QED  BY <2>1, SharedInvariant, TasksStep, PTL DEF Spec
<1>3. Spec => []FormedAreInHands
  BY <1>1, <1>2, SharedInvariant, PTL
<1>4. Init => Interface!Init
  BY InitTasks
<1> QED
  BY <1>2, <1>3, <1>4, SharedInvariant, ImplementationStep, PTL
     DEF Spec, ImplementsBatchScheduler, Interface!Spec
=============================================================================
