---------------- MODULE SharedBatchSchedulerInterfaceProofs -----------------
(***************************************************************************)
(* Each queue of a SharedBatchScheduler is a BatchScheduler.  To the       *)
(* invariant of SharedBatchSchedulerSteps is added TasksInv, which says    *)
(* where the tasks are; with it every step is shown to be a step of        *)
(* BatchScheduler or a stutter.                                            *)
(***************************************************************************)
EXTENDS SharedBatchSchedulerSteps

\* The sizes of the tasks of batch b add up to b.size, and that is max or less:
\* sum[i] is the size of the first i tasks.
Sums(b, max) ==
    \E sum \in [0 .. Len(b.tasks) -> 0 .. max] :
        /\ sum[0] = 0
        /\ \A i \in 1 .. Len(b.tasks) : sum[i] = sum[i - 1] + Size[b.tasks[i]]
        /\ sum[Len(b.tasks)] = b.size

\* Only the open batch may be empty.
GoodBatches(bs, max) ==
    /\ \A i \in 1 .. Len(bs) : Sums(bs[i], max)
    /\ \A i \in 1 .. Len(bs) - 1 : bs[i].tasks # <<>>

Once(l) == \A i, j \in 1 .. Len(l) : l[i] = l[j] => i = j

\* What a batch thread has in its hands: the batch of its scan, or the one that
\* the callback processes.
HandOf(th, sc, p, jb) ==
    IF sc # NoScan /\ sc.thread = th /\ sc.batch # NoBatch THEN sc.batch.tasks
    ELSE IF p[th] = "callback" THEN jb[th].batch.tasks ELSE <<>>

Hand(th) == HandOf(th, scan, pc, job)

Busy(th) == (Scanning(th) /\ scan.batch # NoBatch) \/ pc[th] = "callback"

InLine(t) == t \in Range(LineOf(batches[QueueOf[t]]))

LinesInv ==
    \A q \in Queues : GoodBatches(batches[q], MaxBatchSize[q]) /\ Once(LineOf(batches[q]))

\* No batch is empty, and a task is in one place only.
HandsInv ==
    /\ \A th \in Threads : Busy(th) => Hand(th) # <<>>
    /\ \A t \in Tasks : \A u, v \in Threads : t \in Range(Hand(u)) /\ t \in Range(Hand(v)) => u = v
    /\ \A t \in Tasks : \A th \in Threads : t \in Range(Hand(th)) => ~InLine(t)

TasksInv == LinesInv /\ HandsInv

-----------------------------------------------------------------------------
(***************************************************************************)
(* What Schedule() and ScheduleBatch() do to the line.                     *)
(***************************************************************************)
\* The first-order prover does most steps; the others name theirs.
USE ZenonT(30)

LEMMA SumsOfEmpty == ASSUME NEW max \in Nat PROVE Sums(EmptyBatch, max)
<1> DEFINE sum == [i \in 0 .. 0 |-> 0]
<1>1. Len(EmptyBatch.tasks) = 0 /\ EmptyBatch.size = 0
  BY EmptyBatchType, SMTT(30)
<1>2. sum \in [0 .. 0 -> 0 .. max] /\ sum[0] = 0
  BY SMTT(30)
<1>3. \A i \in 1 .. 0 : sum[i] = sum[i - 1] + Size[EmptyBatch.tasks[i]]
  BY SMTT(30)
<1> HIDE DEF sum
<1> QED  BY <1>1, <1>2, <1>3 DEF Sums

LEMMA SumsOfAddTask ==
    ASSUME NEW max \in Nat, NEW b \in BatchesOf(Tasks), NEW t \in Tasks, Sums(b, max),
           b.size + Size[t] <= max
    PROVE  Sums(AddTask(b, t, Size[t]), max)
<1> DEFINE n == Len(b.tasks)
           new == AddTask(b, t, Size[t])
<1>1. b.tasks \in Seq(Tasks) /\ b.size \in Nat /\ Size[t] \in Nat
  BY ConstantTypes, SMTT(30) DEF BatchesOf
<1>2. n \in Nat
  BY <1>1, SMTT(30)
<1> USE <1>2
<1>3. new.tasks = Append(b.tasks, t) /\ new.size = b.size + Size[t]
  BY AddTaskEffect
<1>4. /\ Len(new.tasks) = n + 1 /\ new.tasks[n + 1] = t
      /\ \A i \in 1 .. n : new.tasks[i] = b.tasks[i]
  BY <1>1, <1>3, AppendEffect, SMTT(30)
<1>5. PICK sum \in [0 .. n -> 0 .. max] :
         /\ sum[0] = 0 /\ sum[n] = b.size
         /\ \A i \in 1 .. n : sum[i] = sum[i - 1] + Size[b.tasks[i]]
  BY DEF Sums
<1> DEFINE f == [i \in 0 .. n + 1 |-> IF i = n + 1 THEN b.size + Size[t] ELSE sum[i]]
<1> HIDE DEF new, n
<1>6. f \in [0 .. n + 1 -> 0 .. max] /\ f[0] = 0 /\ f[n + 1] = b.size + Size[t]
  BY <1>1, <1>5, SMTT(30)
<1>7. \A i \in 0 .. n : f[i] = sum[i]
  BY SMTT(30)
<1> HIDE DEF f
<1>8. ASSUME NEW i \in 1 .. n + 1 PROVE f[i] = f[i - 1] + Size[new.tasks[i]]
  <2>1. CASE i = n + 1
    <3>1. i - 1 = n /\ n \in 0 .. n
      BY <2>1, SMTT(30)
    <3>2. f[i - 1] = b.size
      BY <1>5, <1>7, <3>1
    <3> QED  BY <1>4, <1>6, <2>1, <3>2
  <2>2. CASE i # n + 1
    <3>1. i \in 1 .. n /\ i \in 0 .. n /\ i - 1 \in 0 .. n
      BY <2>2, SMTT(30)
    <3> QED  BY <1>4, <1>5, <1>7, <3>1
  <2> QED  BY <2>1, <2>2
<1>9. Sums(new, max)
  BY <1>3, <1>4, <1>6, <1>8 DEF Sums
<1> QED  BY <1>9 DEF new

\* A new batch is started behind one that is not empty.
LEMMA StartNewBatchKeepsLine ==
    ASSUME NEW bs \in Seq(BatchesOf(Tasks)), bs # <<>>, NEW max \in Nat, GoodBatches(bs, max),
           ~IsEmptyBatch(OpenBatch(bs)), NEW new, new = StartNewBatch(bs)
    PROVE  /\ new \in Seq(BatchesOf(Tasks)) /\ Len(new) = Len(bs) + 1
           /\ new[Len(bs) + 1] = EmptyBatch
           /\ GoodBatches(new, max) /\ LineOf(new) = LineOf(bs)
<1>1. new = Append(bs, EmptyBatch)
  BY DEF StartNewBatch
<1>2. /\ new \in Seq(BatchesOf(Tasks)) /\ Len(new) = Len(bs) + 1
      /\ new[Len(bs) + 1] = EmptyBatch /\ \A i \in 1 .. Len(bs) : new[i] = bs[i]
  BY <1>1, AppendEffect, EmptyBatchType, SMTT(30)
<1> USE <1>2
<1>3. Len(bs) \in Nat /\ Len(bs) # 0
  BY SMTT(30)
<1>4. ASSUME NEW i \in 1 .. Len(new) PROVE Sums(new[i], max)
  <2>1. i \in 1 .. Len(bs) \/ i = Len(bs) + 1
    BY <1>3, SMTT(30)
  <2> QED  BY <2>1, SumsOfEmpty DEF GoodBatches
<1>5. ASSUME NEW i \in 1 .. Len(new) - 1 PROVE new[i].tasks # <<>>
  <2>1. i \in 1 .. Len(bs) /\ (i \in 1 .. Len(bs) - 1 \/ i = Len(bs))
    BY <1>3, SMTT(30)
  <2> QED  BY <2>1 DEF GoodBatches, IsEmptyBatch, OpenBatch
<1>6. LineOf(new) = LineOf(bs) \o <<>>
  BY <1>1, LineOfAppend, EmptyBatchType
<1>7. LineOf(bs) \in Seq(Tasks)
  BY LineType
<1>8. LineOf(bs) \o <<>> = LineOf(bs)
  BY <1>7, SMTT(30)
<1> QED  BY <1>4, <1>5, <1>6, <1>8 DEF GoodBatches

\* The task is put at the end of the line.
JoinsLine(t, q, bs) ==
    /\ bs # <<>> /\ batches' = [batches EXCEPT ![q] = bs]
    /\ LineOf(bs) = Append(LineOf(batches[q]), t) /\ GoodBatches(bs, MaxBatchSize[q])

LEMMA ScheduleJoinsLine ==
    ASSUME TypeOK, BatchInv, LinesInv, NEW t \in Tasks, Schedule(t), NEW q, q = QueueOf[t]
    PROVE  \E bs \in Seq(BatchesOf(Tasks)) : JoinsLine(t, q, bs)
<1> DEFINE room == IF FitsOpenBatch(t) THEN batches[q] ELSE StartNewBatch(batches[q])
           n    == Len(room)
           new  == AddTask(room[n], t, Size[t])
           bs   == [room EXCEPT ![n] = new]
           max  == MaxBatchSize[q]
<1>1. ScheduleStatus(t) = "OK" /\ batches' = [batches EXCEPT ![q] = bs]
  BY DEF Schedule
<1>2. /\ q \in Queues /\ Size[t] \in Nat /\ max \in Nat \ {0}
      /\ batches[q] \in Seq(BatchesOf(Tasks)) /\ batches[q] # <<>>
      /\ GoodBatches(batches[q], max)
      /\ IsEmptyBatch(OpenBatch(batches[q])) => OpenBatch(batches[q]).size = 0
  BY ConstantTypes DEF TypeOK, BatchInv, BatchesOK, LinesInv
<1> USE <1>2
<1>3. Size[t] <= max
  <2>1. ~(Size[t] > MaxBatchSize[QueueOf[t]])
    BY <1>1, SMTT(30) DEF ScheduleStatus
  <2> QED  BY <2>1, SMTT(30)
<1>4. max \in Nat
  BY SMTT(30)
<1> HIDE DEF max
<1>5. /\ room \in Seq(BatchesOf(Tasks)) /\ room # <<>> /\ GoodBatches(room, max)
      /\ LineOf(room) = LineOf(batches[q]) /\ room[n].size + Size[t] <= max
  <2>1. CASE FitsOpenBatch(t)
    <3>1. room = batches[q]
      BY <2>1
    <3>2. batches[q][Len(batches[q])].size + Size[t] <= max
      BY <2>1 DEF FitsOpenBatch, OpenBatch, max
    <3> QED  BY <3>1, <3>2
  <2>2. CASE ~FitsOpenBatch(t)
    <3>1. room = StartNewBatch(batches[q])
      BY <2>2
    <3>2. ~IsEmptyBatch(OpenBatch(batches[q]))
      <4>1. SUFFICES ASSUME OpenBatch(batches[q]).size = 0 PROVE FALSE
        OBVIOUS
      <4>2. ~(0 + Size[t] <= max)
        BY <2>2, <4>1 DEF FitsOpenBatch, max
      <4> QED  BY <1>3, <4>2, SMTT(30)
    <3> HIDE DEF room
    <3>3. /\ room \in Seq(BatchesOf(Tasks)) /\ Len(room) = Len(batches[q]) + 1
          /\ room[Len(batches[q]) + 1] = EmptyBatch
          /\ GoodBatches(room, max) /\ LineOf(room) = LineOf(batches[q])
      BY <1>4, <3>1, <3>2, StartNewBatchKeepsLine
    <3>4. room # <<>>
      BY <3>3, SMTT(30)
    <3>5. room[n].size + Size[t] <= max
      BY <1>3, <3>3, EmptyBatchType, SMTT(30)
    <3> QED  BY <3>3, <3>4, <3>5
  <2> QED  BY <2>1, <2>2
<1> USE <1>5
<1> HIDE DEF room
<1>6. n \in Nat /\ n # 0 /\ n \in 1 .. n /\ room[n] \in BatchesOf(Tasks)
  BY SMTT(30)
<1> USE <1>6
<1>7. new \in BatchesOf(Tasks) /\ new.tasks = Append(room[n].tasks, t) /\ Sums(new, max)
  BY <1>4, AddTaskEffect, SumsOfAddTask DEF GoodBatches
<1> HIDE DEF new
<1>8. /\ bs \in Seq(BatchesOf(Tasks)) /\ Len(bs) = n /\ bs[n] = new
      /\ \A i \in 1 .. n : i # n => bs[i] = room[i]
  BY <1>7, SMTT(30)
<1> USE <1>8
<1>9. LineOf(bs) = Append(LineOf(room), t)
  BY <1>7, LineOfAddTask, ZenonT(90)
<1> HIDE DEF bs
<1>10. bs # <<>>
  BY SMTT(30)
<1>11. ASSUME NEW i \in 1 .. Len(bs) PROVE Sums(bs[i], max)
  BY <1>7 DEF GoodBatches
<1>12. ASSUME NEW i \in 1 .. Len(bs) - 1 PROVE bs[i].tasks # <<>>
  <2>1. i \in 1 .. n /\ i # n /\ i \in 1 .. n - 1
    BY SMTT(30)
  <2> QED  BY <2>1 DEF GoodBatches
<1>13. GoodBatches(bs, max)
  BY <1>11, <1>12 DEF GoodBatches
<1> QED  BY <1>1, <1>9, <1>10, <1>13 DEF JoinsLine, max

\* A batch is taken from the front of the line.
LeavesLine(q, b, bs) ==
    /\ bs # <<>> /\ batches' = [batches EXCEPT ![q] = bs]
    /\ scan' = [scan EXCEPT !.at = "IsEmpty()", !.batch = b]
    /\ b.tasks # <<>> /\ Sums(b, MaxBatchSize[q])
    /\ LineOf(batches[q]) = b.tasks \o LineOf(bs) /\ GoodBatches(bs, MaxBatchSize[q])

LEMMA ScheduleBatchLeavesLine ==
    ASSUME TypeOK, ListInv, BatchInv, LinesInv, ScheduleBatch, NEW q, q = queues[next]
    PROVE  \/ \E b \in BatchesOf(Tasks), bs \in Seq(BatchesOf(Tasks)) : LeavesLine(q, b, bs)
           \/ batches' = batches /\ scan' = [scan EXCEPT !.at = "IsEmpty()"]
<1> DEFINE started == Len(batches[q]) = 1 /\ IsOpenBatchSchedulable(q, batches[q], elapsed[q])
           all == IF started THEN StartNewBatch(batches[q]) ELSE batches[q]
           max == MaxBatchSize[q]
<1>1. /\ scan # NoScan
      /\ \/ /\ Len(all) >= 2
            /\ batches' = [batches EXCEPT ![q] = Tail(all)]
            /\ scan' = [scan EXCEPT !.at = "IsEmpty()", !.batch = Head(all)]
         \/ batches' = batches /\ scan' = [scan EXCEPT !.at = "IsEmpty()"]
  BY DEF ScheduleBatch
<1>2. /\ q \in Queues /\ max \in Nat \ {0}
      /\ batches[q] \in Seq(BatchesOf(Tasks)) /\ batches[q] # <<>>
      /\ GoodBatches(batches[q], max)
  BY <1>1, ConstantTypes, ScanIsAtAQueue DEF TypeOK, BatchInv, BatchesOK, LinesInv
<1>3. max \in Nat
  BY <1>2, SMTT(30)
<1> HIDE DEF max
<1>4. /\ all \in Seq(BatchesOf(Tasks)) /\ GoodBatches(all, max)
      /\ LineOf(all) = LineOf(batches[q])
  <2>1. CASE started
    <3>1. all = StartNewBatch(batches[q]) /\ ~IsEmptyBatch(OpenBatch(batches[q]))
      BY <2>1 DEF IsOpenBatchSchedulable
    <3> HIDE DEF all
    <3> QED  BY <1>2, <1>3, <3>1, StartNewBatchKeepsLine
  <2>2. CASE ~started
    <3>1. all = batches[q]
      BY <2>2
    <3> QED  BY <1>2, <3>1
  <2> QED  BY <2>1, <2>2
<1> USE <1>4
<1> HIDE DEF all, started
<1>5. SUFFICES ASSUME Len(all) >= 2,
                      batches' = [batches EXCEPT ![q] = Tail(all)],
                      scan' = [scan EXCEPT !.at = "IsEmpty()", !.batch = Head(all)]
               PROVE  \E b \in BatchesOf(Tasks), bs \in Seq(BatchesOf(Tasks)) : LeavesLine(q, b, bs)
  BY <1>1
<1> DEFINE b == Head(all)
           bs == Tail(all)
<1>6. all # <<>> /\ Len(all) \in Nat
  BY <1>5, SMTT(30)
<1> USE <1>6
<1>7. /\ b = all[1] /\ b \in BatchesOf(Tasks) /\ bs \in Seq(BatchesOf(Tasks))
      /\ Len(bs) = Len(all) - 1 /\ \A i \in 1 .. Len(all) - 1 : bs[i] = all[i + 1]
  BY TailEffect, SMTT(30)
<1> USE <1>7
<1>8. LineOf(all) = b.tasks \o LineOf(bs)
  BY <1>5, LineOfTail
<1>9. batches' = [batches EXCEPT ![q] = bs] /\ scan' = [scan EXCEPT !.at = "IsEmpty()", !.batch = b]
  BY <1>5
<1> HIDE DEF b, bs
<1>10. bs # <<>> /\ 1 \in 1 .. Len(all) /\ 1 \in 1 .. Len(all) - 1
  BY <1>5, SMTT(30)
<1>11. b.tasks # <<>> /\ Sums(b, max)
  BY <1>10 DEF GoodBatches
<1>12. ASSUME NEW i \in 1 .. Len(bs) PROVE Sums(bs[i], max)
  <2>1. i \in 1 .. Len(all) - 1 /\ i + 1 \in 1 .. Len(all)
    BY SMTT(30)
  <2> QED  BY <2>1 DEF GoodBatches
<1>13. ASSUME NEW i \in 1 .. Len(bs) - 1 PROVE bs[i].tasks # <<>>
  <2>1. i \in 1 .. Len(all) - 1 /\ i + 1 \in 1 .. Len(all) - 1
    BY SMTT(30)
  <2> QED  BY <2>1 DEF GoodBatches
<1>14. GoodBatches(bs, max)
  BY <1>12, <1>13 DEF GoodBatches
<1>15. LeavesLine(q, b, bs)
  BY <1>8, <1>9, <1>10, <1>11, <1>14 DEF LeavesLine, max
<1> QED  BY <1>15

-----------------------------------------------------------------------------
(***************************************************************************)
(* What a step does to the batches in the threads' hands.                  *)
(***************************************************************************)
\* The thread has the same in its hands, or it has become idle.
SameHand(th) == Hand(th)' = Hand(th) /\ (Busy(th)' => Busy(th))

\* The batches that are being processed, each in the hands of one thread.
FormedAreInHands == \A x : x \in Formed <=> x # <<>> /\ \E th \in Threads : x = Hand(th)

LEMMA ThreadFacts ==
    ASSUME TypeOK, ListInv
    PROVE  /\ \A th \in Threads : pc[th] = "callback" => ~Scanning(th) /\ job[th] # NoJob
           /\ scan # NoScan => scan.thread \in Threads /\ pc[scan.thread] = "scan"
           /\ pc \in [Threads -> {"idle", "scan", "wait", "callback", "finish", "exited"}]
           /\ DOMAIN job = Threads
<1>1. \A th \in Threads : pc[th] = "callback" => ~Scanning(th) /\ job[th] # NoJob
  <2>1. "callback" # "scan"
    BY SMTT(30)
  <2> QED  BY <2>1 DEF ListInv, ThreadsOK
<1>2. pc \in [Threads -> {"idle", "scan", "wait", "callback", "finish", "exited"}]
  BY DEF TypeOK
<1>3. DOMAIN job = Threads
  BY DEF TypeOK
<1>4. scan # NoScan => scan.thread \in Threads /\ pc[scan.thread] = "scan"
  BY ScanIsAtAQueue
<1> QED  BY <1>1, <1>2, <1>3, <1>4

LEMMA HandFacts ==
    ASSUME TypeOK, ListInv, NEW th \in Threads
    PROVE  /\ Scanning(th) /\ scan.batch # NoBatch => Busy(th) /\ Hand(th) = scan.batch.tasks
           /\ pc[th] = "callback" => Busy(th) /\ Hand(th) = job[th].batch.tasks
           /\ ~Busy(th) => Hand(th) = <<>>
           /\ Hand(th) \in Seq(Tasks)
<1>1. Scanning(th) /\ scan.batch # NoBatch => Busy(th) /\ Hand(th) = scan.batch.tasks
  BY DEF Busy, Hand, HandOf, Scanning
<1>2. pc[th] = "callback" => Busy(th) /\ Hand(th) = job[th].batch.tasks
  BY ThreadFacts DEF Busy, Hand, HandOf, Scanning
<1>3. ~Busy(th) => Hand(th) = <<>>
  BY DEF Busy, Hand, HandOf, Scanning
<1>4. \A b \in BatchesOf(Tasks) : b.tasks \in Seq(Tasks)
  BY SMTT(30) DEF BatchesOf
<1>5. <<>> \in Seq(Tasks)
  BY SMTT(30)
<1>6. Scanning(th) /\ scan.batch # NoBatch => scan.batch \in BatchesOf(Tasks)
  <2>1. Scanning(th) => scan.batch \in BatchesOf(Tasks) \cup {NoBatch}
    BY ScanIsAtAQueue DEF Scanning
  <2> QED  BY <2>1
<1>7. pc[th] = "callback" => job[th].batch \in BatchesOf(Tasks)
  BY ThreadFacts, JobTypes
<1>8. Hand(th) \in Seq(Tasks)
  BY <1>1, <1>2, <1>3, <1>4, <1>5, <1>6, <1>7 DEF Busy
<1> QED  BY <1>1, <1>2, <1>3, <1>8

LEMMA FormedInHands == TypeOK /\ ListInv /\ HandsInv => FormedAreInHands
<1> SUFFICES ASSUME TypeOK, ListInv, HandsInv, NEW x
             PROVE  x \in Formed <=> x # <<>> /\ \E th \in Threads : x = Hand(th)
  BY DEF FormedAreInHands
<1>1. x \in Formed <=> \/ \E th \in Threads : pc[th] = "callback" /\ x = job[th].batch.tasks
                       \/ scan # NoScan /\ scan.batch # NoBatch /\ x = scan.batch.tasks
  BY SMTT(30) DEF Formed
<1> USE <1>1
<1>2. \A th \in Threads : Busy(th) => Hand(th) # <<>>
  BY DEF HandsInv
<1>3. CASE \E th \in Threads : pc[th] = "callback" /\ x = job[th].batch.tasks
  BY <1>2, <1>3, HandFacts
<1>4. CASE scan # NoScan /\ scan.batch # NoBatch /\ x = scan.batch.tasks
  <2>1. scan.thread \in Threads /\ Scanning(scan.thread)
    BY <1>4, ThreadFacts DEF Scanning
  <2> QED  BY <1>2, <1>4, <2>1, HandFacts
<1>5. ASSUME x # <<>>, NEW th \in Threads, x = Hand(th) PROVE x \in Formed
  <2>1. Busy(th)
    BY <1>5, HandFacts
  <2>2. CASE Scanning(th) /\ scan.batch # NoBatch
    BY <1>5, <2>2, HandFacts DEF Scanning
  <2>3. CASE pc[th] = "callback"
    BY <1>5, <2>3, HandFacts
  <2> QED  BY <2>1, <2>2, <2>3 DEF Busy
<1> QED  BY <1>3, <1>4, <1>5

\* No batch changes hands.
LEMMA HandsStay ==
    ASSUME \/ scan' = scan
           \/ /\ scan = NoScan \/ scan.batch = NoBatch
              /\ scan' = NoScan \/ scan'.batch = NoBatch,
           NEW th \in Threads,
           pc'[th] = "callback" <=> pc[th] = "callback",
           pc[th] = "callback" => job'[th] = job[th]
    PROVE  SameHand(th)
<1>1. Busy(th)' <=> Busy(th)
  BY DEF Busy, Scanning
<1>2. Hand(th)' = Hand(th)
  <2>1. CASE scan' = scan
    BY <2>1 DEF Hand, HandOf
  <2>2. CASE (scan = NoScan \/ scan.batch = NoBatch) /\ (scan' = NoScan \/ scan'.batch = NoBatch)
    BY <2>2 DEF Hand, HandOf
  <2> QED  BY <2>1, <2>2
<1> QED  BY <1>1, <1>2 DEF SameHand

\* The scan's batch becomes the one to process.
LEMMA AdvanceKeepsHands ==
    ASSUME TypeOK, ListInv, Advance
    PROVE  \A th \in Threads : SameHand(th)
<1> DEFINE u == scan.thread
           q == queues[next]
<1>1. /\ scan # NoScan
      /\ \/ /\ scan.batch = NoBatch
            /\ scan' = [scan EXCEPT !.at = "ScheduleBatch()", !.tried = scan.tried + 1,
                                   !.queue_closed = closed[queues'[next']]]
            /\ UNCHANGED <<pc, job>>
         \/ /\ scan.batch = NoBatch
            /\ scan' = NoScan
            /\ pc' = [pc EXCEPT ![u] = "wait"]
            /\ job' = [job EXCEPT ![u] = NoJob]
         \/ /\ scan.batch # NoBatch
            /\ scan' = NoScan
            /\ pc' = [pc EXCEPT ![u] = "callback"]
            /\ job' = [job EXCEPT ![u] = [queue |-> q, batch |-> scan.batch]]
  BY AdvanceEffect
<1> USE <1>1
<1>2. u \in Threads /\ pc[u] = "scan" /\ DOMAIN pc = Threads /\ DOMAIN job = Threads
  BY ThreadFacts
<1> SUFFICES ASSUME NEW th \in Threads PROVE SameHand(th)
  OBVIOUS
<1>3. CASE /\ scan.batch = NoBatch
           /\ scan' = [scan EXCEPT !.at = "ScheduleBatch()", !.tried = scan.tried + 1,
                                  !.queue_closed = closed[queues'[next']]]
           /\ UNCHANGED <<pc, job>>
  <2>1. scan'.batch = NoBatch
    <3>1. scan \in Scans
      BY ScanIsAtAQueue
    <3> QED  BY <1>3, <3>1, SMTT(30) DEF Scans
  <2> QED  BY <1>3, <2>1, HandsStay
<1>4. CASE /\ scan.batch = NoBatch
           /\ scan' = NoScan
           /\ pc' = [pc EXCEPT ![u] = "wait"]
           /\ job' = [job EXCEPT ![u] = NoJob]
  <2>1. (pc'[th] = "callback" <=> pc[th] = "callback") /\ (pc[th] = "callback" => job'[th] = job[th])
    BY <1>2, <1>4, SMTT(30)
  <2> QED  BY <1>4, <2>1, HandsStay
<1>5. CASE /\ scan.batch # NoBatch
           /\ scan' = NoScan
           /\ pc' = [pc EXCEPT ![u] = "callback"]
           /\ job' = [job EXCEPT ![u] = [queue |-> q, batch |-> scan.batch]]
  <2>1. CASE th = u
    <3>1. pc'[th] = "callback" /\ job'[th].batch = scan.batch
      BY <1>2, <1>5, <2>1, SMTT(30)
    <3>2. Busy(th) /\ Hand(th) = scan.batch.tasks
      BY <1>5, <2>1, HandFacts DEF Scanning
    <3>3. Hand(th)' = scan.batch.tasks
      BY <1>5, <3>1 DEF Hand, HandOf
    <3> QED  BY <3>2, <3>3 DEF SameHand
  <2>2. CASE th # u
    <3>1. pc'[th] = pc[th] /\ job'[th] = job[th]
      BY <1>2, <1>5, <2>2, SMTT(30)
    <3>2. Busy(th)' => Busy(th)
      BY <1>5, <3>1 DEF Busy, Scanning
    <3>3. Hand(th) = IF pc[th] = "callback" THEN job[th].batch.tasks ELSE <<>>
      BY <2>2 DEF Hand, HandOf
    <3>4. Hand(th)' = IF pc'[th] = "callback" THEN job'[th].batch.tasks ELSE <<>>
      BY <1>5 DEF Hand, HandOf
    <3>5. Hand(th)' = Hand(th)
      BY <3>1, <3>3, <3>4
    <3> QED  BY <3>2, <3>5 DEF SameHand
  <2> QED  BY <2>1, <2>2
<1> QED  BY <1>3, <1>4, <1>5

\* Every step but ScheduleBatch() with a batch and the end of a callback.
LEMMA OthersKeepHands ==
    ASSUME TypeOK, ListInv,
           \/ UNCHANGED <<scan, pc, job>>
           \/ IdleStep
           \/ \E th \in Threads : BeginScan(th) /\ queues # <<>>
           \/ ScheduleBatch /\ scan' = [scan EXCEPT !.at = "IsEmpty()"]
           \/ Advance
           \/ \E th \in Threads : FinishBatch(th)
    PROVE  \A th \in Threads : SameHand(th)
<1>0. DOMAIN pc = Threads /\ DOMAIN job = Threads
  BY ThreadFacts
<1>1. CASE UNCHANGED <<scan, pc, job>>
  BY <1>1, HandsStay
<1>2. CASE IdleStep
  <2>1. /\ scan' = scan /\ job' = job
        /\ \/ pc' = pc
           \/ \E u \in Threads, l \in {"idle", "wait", "exited"} :
                  pc[u] \in {"idle", "wait"} /\ pc' = [pc EXCEPT ![u] = l]
    BY <1>2, IdleEffect
  <2>2. \A th \in Threads : pc'[th] = "callback" <=> pc[th] = "callback"
    BY <1>0, <2>1, SMTT(30)
  <2> QED  BY <2>1, <2>2, HandsStay
<1>3. CASE \E th \in Threads : BeginScan(th) /\ queues # <<>>
  <2>1. PICK u \in Threads : BeginScan(u) /\ queues # <<>>
    BY <1>3
  <2>2. /\ scan = NoScan /\ scan'.batch = NoBatch /\ job' = job
        /\ pc[u] = "idle" /\ pc' = [pc EXCEPT ![u] = "scan"]
    BY <2>1, BeginScanEffect
  <2>3. \A th \in Threads : pc'[th] = "callback" <=> pc[th] = "callback"
    BY <1>0, <2>2, SMTT(30)
  <2> QED  BY <2>2, <2>3, HandsStay
<1>4. CASE ScheduleBatch /\ scan' = [scan EXCEPT !.at = "IsEmpty()"]
  <2>1. NoBatch \in BatchesOf(Tasks) \cup {NoBatch}
    BY SMTT(30)
  <2>2. scan.batch = NoBatch /\ scan'.batch = NoBatch /\ pc' = pc /\ job' = job
    BY <1>4, <2>1, ScheduleBatchScan
  <2> QED  BY <2>2, HandsStay
<1>5. CASE Advance
  BY <1>5, AdvanceKeepsHands
<1>6. CASE \E th \in Threads : FinishBatch(th)
  <2>1. PICK u \in Threads : FinishBatch(u)
    BY <1>6
  <2>2. /\ scan' = scan /\ pc[u] = "finish" /\ pc' = [pc EXCEPT ![u] = "idle"]
        /\ job' = [job EXCEPT ![u] = NoJob]
    BY <2>1 DEF FinishBatch
  <2>3. \A th \in Threads : /\ pc'[th] = "callback" <=> pc[th] = "callback"
                            /\ pc[th] = "callback" => job'[th] = job[th]
    BY <1>0, <2>2, SMTT(30)
  <2> QED  BY <2>2, <2>3, HandsStay
<1> QED  BY <1>1, <1>2, <1>3, <1>4, <1>5, <1>6

\* ScheduleBatch() puts a batch into the hands of the scanning thread.
LEMMA TakesInHands ==
    ASSUME TypeOK, ListInv, ScheduleBatch, NEW b \in BatchesOf(Tasks),
           scan' = [scan EXCEPT !.at = "IsEmpty()", !.batch = b]
    PROVE  \E u \in Threads : /\ Hand(u) = <<>> /\ Hand(u)' = b.tasks
                              /\ \A th \in Threads : th # u => SameHand(th)
<1>1. b # NoBatch
  BY ConstantTypes
<1>2. /\ scan # NoScan /\ scan.batch = NoBatch /\ pc' = pc /\ job' = job
      /\ scan' # NoScan /\ scan'.batch = b /\ scan'.thread = scan.thread
  BY ScheduleBatchScan
<1> USE <1>2
<1>3. PICK u \in Threads : u = scan.thread /\ pc[u] = "scan" /\ pc[u] # "callback"
  <2>1. scan.thread \in Threads /\ pc[scan.thread] = "scan"
    BY ThreadFacts
  <2> QED  BY <2>1, SMTT(30)
<1> USE <1>3
<1>4. Hand(u) = <<>>
  BY HandFacts DEF Busy
<1>5. Hand(u)' = b.tasks
  BY <1>1 DEF Hand, HandOf
<1>6. ASSUME NEW th \in Threads, th # u PROVE SameHand(th)
  <2>1. Hand(th)' = Hand(th)
    BY <1>6 DEF Hand, HandOf
  <2>2. Busy(th)' => Busy(th)
    BY <1>6 DEF Busy, Scanning
  <2> QED  BY <2>1, <2>2 DEF SameHand
<1> QED  BY <1>4, <1>5, <1>6

\* The callback deletes the batch.
LEMMA CallbackEmptiesHands ==
    ASSUME TypeOK, ListInv, NEW u \in Threads, ProcessBatchCallback(u)
    PROVE  /\ Busy(u) /\ Hand(u)' = <<>> /\ ~Busy(u)'
           /\ \A th \in Threads : th # u => SameHand(th)
<1>1. /\ scan' = scan /\ pc[u] = "callback" /\ pc' = [pc EXCEPT ![u] = "finish"]
      /\ job' = [job EXCEPT ![u].batch = EmptyBatch]
  BY DEF ProcessBatchCallback
<1> USE <1>1
<1>2. ~Scanning(u) /\ Busy(u)
  BY ThreadFacts DEF Busy
<1>3. /\ pc'[u] = "finish" /\ pc'[u] # "callback"
      /\ \A th \in Threads : th # u => pc'[th] = pc[th] /\ job'[th] = job[th]
  BY ThreadFacts, SMTT(30)
<1>4. Hand(u)' = <<>> /\ ~Busy(u)'
  BY <1>2, <1>3 DEF Hand, HandOf, Busy, Scanning
<1>5. ASSUME NEW th \in Threads, th # u PROVE SameHand(th)
  BY <1>3, <1>5, HandsStay
<1> QED  BY <1>2, <1>4, <1>5

-----------------------------------------------------------------------------
(***************************************************************************)
(* A task is in one place only.                                            *)
(***************************************************************************)
LEMMA InRange ==
    ASSUME NEW s \in Seq(Tasks), NEW x
    PROVE  x \in Range(s) <=> \E i \in 1 .. Len(s) : s[i] = x
BY SMTT(30) DEF Range

LEMMA NothingInEmpty == \A x : x \notin Range(<<>>)
BY SMTT(30) DEF Range

LEMMA AppendRange ==
    ASSUME NEW s \in Seq(Tasks), NEW t \in Tasks, NEW x, x \in Range(Append(s, t))
    PROVE  x \in Range(s) \/ x = t
<1>1. /\ Append(s, t) \in Seq(Tasks) /\ Len(Append(s, t)) = Len(s) + 1
      /\ Append(s, t)[Len(s) + 1] = t /\ \A i \in 1..Len(s) : Append(s, t)[i] = s[i]
  BY AppendEffect, SMTT(30)
<1>2. PICK i \in 1 .. Len(Append(s, t)) : Append(s, t)[i] = x
  BY <1>1, InRange
<1>3. i \in 1 .. Len(s) \/ i = Len(s) + 1
  BY <1>1, SMTT(30)
<1> QED  BY <1>1, <1>2, <1>3, InRange

LEMMA OnceAppend ==
    ASSUME NEW s \in Seq(Tasks), NEW t \in Tasks, Once(s), t \notin Range(s)
    PROVE  Once(Append(s, t))
<1> DEFINE l == Append(s, t)
           n == Len(s)
<1>1. /\ Len(l) = n + 1 /\ l[n + 1] = t /\ (\A i \in 1 .. n : l[i] = s[i]) /\ n \in Nat
  BY AppendEffect, SMTT(30)
<1>2. \A i \in 1 .. n : s[i] # t
  BY InRange
<1>3. \A i, j \in 1 .. n : s[i] = s[j] => i = j
  BY DEF Once
<1> HIDE DEF l, n
<1>4. \A i \in 1 .. Len(l) : i \in 1 .. n \/ i = n + 1
  BY <1>1, SMTT(30)
<1>5. ASSUME NEW i \in 1 .. Len(l), NEW j \in 1 .. Len(l), l[i] = l[j] PROVE i = j
  BY <1>1, <1>2, <1>3, <1>4, <1>5
<1>6. Once(l)
  BY <1>5 DEF Once
<1> QED  BY <1>6 DEF l

LEMMA OnceConcat ==
    ASSUME NEW s \in Seq(Tasks), NEW r \in Seq(Tasks), Once(s \o r)
    PROVE  Once(r) /\ \A x : x \in Range(s) => x \notin Range(r)
<1> DEFINE l == s \o r
           m == Len(s)
           n == Len(r)
<1>1. /\ m \in Nat /\ n \in Nat /\ Len(l) = m + n
      /\ \A i \in 1 .. m + n : l[i] = IF i <= m THEN s[i] ELSE r[i - m]
  BY ConcatEffect, SMTT(30)
<1> USE <1>1
<1>2. \A i, j \in 1 .. Len(l) : l[i] = l[j] => i = j
  BY DEF Once
<1> HIDE DEF l, m, n
<1>3. \A i \in 1 .. m : i \in 1 .. Len(l) /\ l[i] = s[i]
  BY SMTT(30)
<1>4. \A i \in 1 .. n : i + m \in 1 .. Len(l) /\ l[i + m] = r[i]
  BY SMTT(30)
<1>5. ASSUME NEW i \in 1 .. n, NEW j \in 1 .. n, r[i] = r[j] PROVE i = j
  <2>1. i + m = j + m
    BY <1>2, <1>4, <1>5
  <2> QED  BY <2>1, SMTT(30)
<1>6. ASSUME NEW i \in 1 .. m, NEW j \in 1 .. n, s[i] = r[j] PROVE FALSE
  <2>1. i = j + m
    BY <1>2, <1>3, <1>4, <1>6
  <2> QED  BY <2>1, SMTT(30)
<1>7. Once(r)
  BY <1>5 DEF Once, n
<1>8. ASSUME NEW x, x \in Range(s), x \in Range(r) PROVE FALSE
  <2>1. PICK i \in 1 .. m : s[i] = x
    BY <1>8, InRange DEF m
  <2>2. PICK j \in 1 .. n : r[j] = x
    BY <1>8, InRange DEF n
  <2> QED  BY <1>6, <2>1, <2>2
<1> QED  BY <1>7, <1>8

LEMMA QueueTypes ==
    ASSUME TypeOK, BatchInv, NEW q \in Queues
    PROVE  /\ batches[q] \in Seq(BatchesOf(Tasks)) /\ batches[q] # <<>>
           /\ LineOf(batches[q]) \in Seq(Tasks) /\ DOMAIN batches = Queues
           /\ MaxBatchSize[q] \in Nat
<1>1. batches[q] \in Seq(BatchesOf(Tasks)) /\ batches[q] # <<>> /\ DOMAIN batches = Queues
  BY DEF TypeOK, BatchInv, BatchesOK
<1>2. MaxBatchSize[q] \in Nat
  BY ConstantTypes, SMTT(30)
<1> QED  BY <1>1, <1>2, LineType

\* The tasks in line and in the threads' hands are tasks the scheduler holds.
LEMMA AcceptedAreHeld ==
    ASSUME TypeOK, ListInv, BatchInv, NEW t \in Tasks
    PROVE  InLine(t) \/ (\E th \in Threads : t \in Range(Hand(th))) => Held(t)
<1>1. ASSUME InLine(t) PROVE Held(t)
  <2>1. QueueOf[t] \in Queues
    BY ConstantTypes
  <2>2. PICK bs \in Seq(BatchesOf(Tasks)) : bs = batches[QueueOf[t]] /\ bs # <<>>
    BY <2>1, QueueTypes
  <2>3. \E i \in 1 .. Len(bs) : t \in Range(bs[i].tasks)
    BY <1>1, <2>2, LineRange DEF InLine
  <2>4. DOMAIN bs = 1 .. Len(bs)
    BY SMTT(30)
  <2> QED  BY <2>2, <2>3, <2>4 DEF Held
<1>2. ASSUME NEW th \in Threads, t \in Range(Hand(th)) PROVE Held(t)
  <2>1. Busy(th)
    BY <1>2, HandFacts, NothingInEmpty
  <2>2. CASE Scanning(th) /\ scan.batch # NoBatch
    BY <1>2, <2>2, HandFacts DEF Scanning, Held
  <2>3. CASE pc[th] = "callback"
    BY <1>2, <2>3, HandFacts, ThreadFacts DEF Held
  <2> QED  BY <2>1, <2>2, <2>3 DEF Busy
<1> QED  BY <1>1, <1>2

\* A task waits in the line of the queue it was submitted to.
LEMMA LineOfItsQueue ==
    ASSUME TypeOK, BatchInv, NEW q \in Queues, NEW t \in Tasks, t \in Range(LineOf(batches[q]))
    PROVE  QueueOf[t] = q /\ InLine(t)
<1>1. PICK bs \in Seq(BatchesOf(Tasks)) : bs = batches[q] /\ bs # <<>>
  BY QueueTypes
<1>2. PICK i \in 1 .. Len(bs) : t \in Range(bs[i].tasks)
  BY <1>1, LineRange
<1>3. bs[i] \in BatchesOf(Tasks)
  BY SMTT(30)
<1>4. bs[i].tasks \in Seq(Tasks)
  BY <1>3, SMTT(30) DEF BatchesOf
<1>5. PICK k \in 1 .. Len(bs[i].tasks) : bs[i].tasks[k] = t
  BY <1>2, <1>4, InRange
<1>6. OfQueue(bs[i], q)
  BY <1>1 DEF BatchInv, BatchesOK
<1>7. QueueOf[t] = q
  BY <1>5, <1>6 DEF OfQueue
<1> QED  BY <1>7 DEF InLine

LEMMA LinesFrame == ASSUME LinesInv, batches' = batches PROVE LinesInv'
BY DEF LinesInv

LEMMA HandsFrame ==
    ASSUME HandsInv, \A th \in Threads : SameHand(th), \A t \in Tasks : InLine(t)' => InLine(t)
    PROVE  HandsInv'
<1>1. \A th \in Threads : Hand(th)' = Hand(th) /\ (Busy(th)' => Busy(th))
  BY DEF SameHand
<1>2. \A th \in Threads : Busy(th)' => Hand(th)' # <<>>
  BY <1>1 DEF HandsInv
<1>3. ASSUME NEW t \in Tasks, NEW u \in Threads, NEW v \in Threads,
             t \in Range(Hand(u)'), t \in Range(Hand(v)')
      PROVE  u = v
  BY <1>1, <1>3 DEF HandsInv
<1>4. ASSUME NEW t \in Tasks, NEW th \in Threads, t \in Range(Hand(th)') PROVE ~InLine(t)'
  BY <1>1, <1>4 DEF HandsInv
<1> QED  BY <1>2, <1>3, <1>4 DEF HandsInv

LEMMA QueueAfter ==
    ASSUME DOMAIN batches = Queues, NEW q \in Queues, NEW bs, batches' = [batches EXCEPT ![q] = bs]
    PROVE  batches'[q] = bs /\ \A p \in Queues : p # q => batches'[p] = batches[p]
OBVIOUS

LEMMA LinesAfter ==
    ASSUME LinesInv, DOMAIN batches = Queues, NEW q \in Queues, NEW bs,
           batches' = [batches EXCEPT ![q] = bs],
           GoodBatches(bs, MaxBatchSize[q]), Once(LineOf(bs))
    PROVE  LinesInv'
<1>1. ASSUME NEW p \in Queues
      PROVE  GoodBatches(batches'[p], MaxBatchSize[p]) /\ Once(LineOf(batches'[p]))
  <2>1. CASE p = q
    BY <2>1, QueueAfter
  <2>2. CASE p # q
    BY <2>2, QueueAfter DEF LinesInv
  <2> QED  BY <2>1, <2>2
<1> QED  BY <1>1 DEF LinesInv

\* Schedule() ...
LEMMA TasksSchedule ==
    ASSUME Inv, TasksInv, NEW t \in Tasks, Schedule(t)
    PROVE  TasksInv'
<1> DEFINE q == QueueOf[t]
<1>1. TypeOK /\ ListInv /\ BatchInv /\ LinesInv /\ HandsInv /\ q \in Queues
  BY ConstantTypes DEF Inv, TasksInv
<1> USE <1>1
<1>2. PICK bs \in Seq(BatchesOf(Tasks)) : JoinsLine(t, q, bs)
  BY ScheduleJoinsLine
<1>3. /\ LineOf(batches[q]) \in Seq(Tasks) /\ DOMAIN batches = Queues
      /\ batches' = [batches EXCEPT ![q] = bs]
      /\ LineOf(bs) = Append(LineOf(batches[q]), t) /\ GoodBatches(bs, MaxBatchSize[q])
  BY <1>2, QueueTypes DEF JoinsLine
<1> USE <1>3
<1>4. ~Held(t) /\ UNCHANGED <<scan, pc, job>>
  BY DEF Schedule, MaySchedule, threadVars
<1>5. ~InLine(t) /\ \A th \in Threads : t \notin Range(Hand(th))
  BY <1>4, AcceptedAreHeld
<1>6. Once(LineOf(bs))
  BY <1>5, OnceAppend DEF InLine, LinesInv
<1>7. LinesInv'
  BY <1>6, LinesAfter
<1>8. \A th \in Threads : Hand(th)' = Hand(th) /\ (Busy(th)' => Busy(th))
  BY <1>4, OthersKeepHands DEF SameHand
<1>9. ASSUME NEW x \in Tasks, InLine(x)' PROVE InLine(x) \/ x = t
  <2>1. QueueOf[x] \in Queues
    BY ConstantTypes
  <2>2. x \in Range(LineOf(batches'[QueueOf[x]]))
    BY <1>9 DEF InLine
  <2>3. CASE QueueOf[x] = q
    <3>1. x \in Range(Append(LineOf(batches[q]), t))
      BY <2>2, <2>3, QueueAfter
    <3> QED  BY <2>3, <3>1, AppendRange DEF InLine
  <2>4. CASE QueueOf[x] # q
    BY <2>1, <2>2, <2>4, QueueAfter DEF InLine
  <2> QED  BY <2>3, <2>4
<1>10. \A th \in Threads : Busy(th)' => Hand(th)' # <<>>
  BY <1>8 DEF HandsInv
<1>11. ASSUME NEW x \in Tasks, NEW u \in Threads, NEW v \in Threads,
             x \in Range(Hand(u)'), x \in Range(Hand(v)')
      PROVE  u = v
  BY <1>8, <1>11 DEF HandsInv
<1>12. ASSUME NEW x \in Tasks, NEW th \in Threads, x \in Range(Hand(th)') PROVE ~InLine(x)'
  <2>1. x \in Range(Hand(th))
    BY <1>8, <1>12
  <2> QED  BY <1>5, <1>9, <2>1 DEF HandsInv
<1>13. HandsInv'
  BY <1>10, <1>11, <1>12 DEF HandsInv
<1> QED  BY <1>7, <1>13 DEF TasksInv

\* ... ScheduleBatch() with a batch ...
LEMMA TasksTake ==
    ASSUME Inv, TasksInv, ScheduleBatch, NEW q, q = queues[next],
           NEW b \in BatchesOf(Tasks), NEW bs \in Seq(BatchesOf(Tasks)), LeavesLine(q, b, bs)
    PROVE  TasksInv'
<1>1. TypeOK /\ ListInv /\ BatchInv /\ LinesInv /\ HandsInv
  BY DEF Inv, TasksInv
<1> USE <1>1
<1>2. q \in Queues
  BY ScanIsAtAQueue DEF ScheduleBatch
<1> USE <1>2
<1>3. /\ LineOf(batches[q]) \in Seq(Tasks) /\ DOMAIN batches = Queues
      /\ LineOf(bs) \in Seq(Tasks) /\ bs # <<>>
      /\ batches' = [batches EXCEPT ![q] = bs]
      /\ scan' = [scan EXCEPT !.at = "IsEmpty()", !.batch = b]
      /\ LineOf(batches[q]) = b.tasks \o LineOf(bs) /\ GoodBatches(bs, MaxBatchSize[q])
      /\ b.tasks # <<>>
  BY QueueTypes, LineType DEF LeavesLine
<1> USE <1>3
<1>4. b.tasks \in Seq(Tasks)
  BY SMTT(30) DEF BatchesOf
<1>5. Once(LineOf(bs)) /\ \A x : x \in Range(b.tasks) => x \notin Range(LineOf(bs))
  <2>1. Once(b.tasks \o LineOf(bs))
    BY DEF LinesInv
  <2> QED  BY <1>4, <2>1, OnceConcat
<1>6. Range(LineOf(batches[q])) = Range(b.tasks) \cup Range(LineOf(bs))
  <2>1. Range(b.tasks \o LineOf(bs)) = Range(b.tasks) \cup Range(LineOf(bs))
    BY <1>4, ConcatRange, SMTT(30)
  <2> QED  BY <2>1
<1>7. LinesInv'
  BY <1>5, LinesAfter
<1>8. PICK w \in Threads : /\ Hand(w) = <<>> /\ Hand(w)' = b.tasks
                           /\ \A th \in Threads : th # w => SameHand(th)
  BY TakesInHands
<1> USE <1>8
<1>9. \A th \in Threads : th # w => Hand(th)' = Hand(th) /\ (Busy(th)' => Busy(th))
  BY DEF SameHand
<1> USE <1>9
<1>10. ASSUME NEW x \in Tasks, x \in Range(b.tasks)
       PROVE  InLine(x) /\ ~InLine(x)'
  <2>1. QueueOf[x] = q /\ InLine(x)
    BY <1>6, <1>10, LineOfItsQueue
  <2>2. batches'[QueueOf[x]] = bs
    BY <2>1, QueueAfter
  <2> QED  BY <1>5, <1>10, <2>1, <2>2 DEF InLine
<1>11. ASSUME NEW x \in Tasks, InLine(x)' PROVE InLine(x)
  <2>1. QueueOf[x] \in Queues
    BY ConstantTypes
  <2>2. x \in Range(LineOf(batches'[QueueOf[x]]))
    BY <1>11 DEF InLine
  <2>3. CASE QueueOf[x] = q
    BY <1>6, <2>2, <2>3, QueueAfter DEF InLine
  <2>4. CASE QueueOf[x] # q
    BY <2>1, <2>2, <2>4, QueueAfter DEF InLine
  <2> QED  BY <2>3, <2>4
<1>12. \A th \in Threads : Busy(th)' => Hand(th)' # <<>>
  BY DEF HandsInv
<1>13. ASSUME NEW x \in Tasks, NEW th \in Threads, x \in Range(Hand(th))
       PROVE  x \notin Range(b.tasks)
  BY <1>10, <1>13 DEF HandsInv
<1>14. ASSUME NEW x \in Tasks, NEW u \in Threads, NEW v \in Threads,
              x \in Range(Hand(u)'), x \in Range(Hand(v)')
       PROVE  u = v
  <2>1. CASE u = w \/ v = w
    BY <1>13, <1>14, <2>1
  <2>2. CASE u # w /\ v # w
    BY <1>14, <2>2 DEF HandsInv
  <2> QED  BY <2>1, <2>2
<1>15. ASSUME NEW x \in Tasks, NEW th \in Threads, x \in Range(Hand(th)') PROVE ~InLine(x)'
  <2>1. CASE th = w
    BY <1>10, <1>15, <2>1
  <2>2. CASE th # w
    BY <1>11, <1>15, <2>2 DEF HandsInv
  <2> QED  BY <2>1, <2>2
<1>16. HandsInv'
  BY <1>12, <1>14, <1>15 DEF HandsInv
<1> QED  BY <1>7, <1>16 DEF TasksInv

\* ... the end of a callback ...
LEMMA TasksCallback ==
    ASSUME Inv, TasksInv, NEW w \in Threads, ProcessBatchCallback(w)
    PROVE  TasksInv'
<1>1. TypeOK /\ ListInv /\ BatchInv /\ LinesInv /\ HandsInv
  BY DEF Inv, TasksInv
<1> USE <1>1
<1>2. batches' = batches
  BY CallbackEffect
<1>3. LinesInv' /\ \A x \in Tasks : InLine(x)' => InLine(x)
  BY <1>2, LinesFrame DEF InLine
<1>4. /\ Hand(w)' = <<>> /\ ~Busy(w)'
      /\ \A th \in Threads : th # w => Hand(th)' = Hand(th) /\ (Busy(th)' => Busy(th))
  BY CallbackEmptiesHands DEF SameHand
<1>5. \A th \in Threads : Busy(th)' => Hand(th)' # <<>>
  BY <1>4 DEF HandsInv
<1>6. ASSUME NEW x \in Tasks, NEW th \in Threads, x \in Range(Hand(th)')
      PROVE  x \in Range(Hand(th))
  BY <1>4, <1>6, NothingInEmpty
<1>7. ASSUME NEW x \in Tasks, NEW u \in Threads, NEW v \in Threads,
             x \in Range(Hand(u)'), x \in Range(Hand(v)')
      PROVE  u = v
  BY <1>6, <1>7 DEF HandsInv
<1>8. ASSUME NEW x \in Tasks, NEW th \in Threads, x \in Range(Hand(th)') PROVE ~InLine(x)'
  BY <1>3, <1>6, <1>8 DEF HandsInv
<1>9. HandsInv'
  BY <1>5, <1>7, <1>8 DEF HandsInv
<1> QED  BY <1>3, <1>9 DEF TasksInv

\* ... and the steps that move no task.
MovesNoTask ==
    /\ batches' = batches /\ \A th \in Threads : SameHand(th)
    /\ \/ handle' = handle
       \/ \E q \in Queues, h \in {"open", "closing"} :
              handle[q] \in {"none", "open"} /\ handle' = [handle EXCEPT ![q] = h]
       \/ \E q \in Queues : /\ handle[q] \in {"open", "closing"} /\ Empty(q)
                            /\ handle' = [handle EXCEPT ![q] = "destroyed"]

LEMMA TasksStay == ASSUME TasksInv, MovesNoTask PROVE TasksInv'
<1>0. batches' = batches /\ \A th \in Threads : SameHand(th)
  BY DEF MovesNoTask
<1>1. LinesInv' /\ \A x \in Tasks : InLine(x)' => InLine(x)
  BY <1>0, LinesFrame DEF InLine, TasksInv
<1> QED  BY <1>0, <1>1, HandsFrame DEF TasksInv

LEMMA TaskCases ==
    ASSUME Inv, TasksInv, [Next]_vars
    PROVE  \/ \E t \in Tasks : Schedule(t)
           \/ /\ ScheduleBatch
              /\ \E b \in BatchesOf(Tasks), bs \in Seq(BatchesOf(Tasks)) :
                     LeavesLine(queues[next], b, bs)
           \/ \E th \in Threads : ProcessBatchCallback(th)
           \/ MovesNoTask
<1>1. TypeOK /\ ListInv /\ BatchInv /\ HandleInv /\ LinesInv
  BY DEF Inv, TasksInv
<1> USE <1>1
<1>2. CASE IdleStep
  <2>1. batches' = batches /\ handle' = handle
    BY <1>2, IdleEffect
  <2> QED  BY <1>2, <2>1, OthersKeepHands DEF MovesNoTask
<1>3. CASE \E th \in Threads : BeginScan(th) /\ queues # <<>>
  <2>1. batches' = batches /\ handle' = handle
    BY <1>3, BeginScanEffect
  <2> QED  BY <1>3, <2>1, OthersKeepHands DEF MovesNoTask
<1>4. CASE ScheduleBatch
  <2>1. CASE batches' = batches /\ scan' = [scan EXCEPT !.at = "IsEmpty()"]
    <3>1. handle' = handle
      BY <1>4 DEF ScheduleBatch, clientVars
    <3> QED  BY <1>4, <2>1, <3>1, OthersKeepHands DEF MovesNoTask
  <2> QED  BY <1>4, <2>1, ScheduleBatchLeavesLine
<1>5. CASE Advance
  <2>1. batches' = batches /\ handle' = handle
    BY <1>5 DEF Advance, queueVars, clientVars
  <2> QED  BY <1>5, <2>1, OthersKeepHands DEF MovesNoTask
<1>6. CASE \E th \in Threads : FinishBatch(th)
  <2>1. batches' = batches /\ handle' = handle
    BY <1>6 DEF FinishBatch
  <2> QED  BY <1>6, <2>1, OthersKeepHands DEF MovesNoTask
<1>7. CASE \E q \in Queues : AddQueue(q)
  <2>1. PICK q \in Queues : AddQueue(q)
    BY <1>7
  <2>2. /\ handle[q] = "none" /\ handle' = [handle EXCEPT ![q] = "open"]
        /\ UNCHANGED <<batches, scan, pc, job>>
    BY <2>1, AddQueueEffect
  <2> QED  BY <2>2, OthersKeepHands DEF MovesNoTask
<1>8. CASE \E q \in Queues : CloseAndWaitUntilEmpty(q)
  <2>1. PICK q \in Queues : CloseAndWaitUntilEmpty(q)
    BY <1>8
  <2>2. /\ handle[q] = "open"
        /\ \/ Empty(q) /\ handle' = [handle EXCEPT ![q] = "destroyed"]
           \/ handle' = [handle EXCEPT ![q] = "closing"]
        /\ UNCHANGED <<batches, scan, pc, job>>
    BY <2>1, CloseEffect
  <2> QED  BY <2>2, OthersKeepHands DEF MovesNoTask
<1>9. CASE QuietStep
  <2>1. /\ UNCHANGED <<batches, scan, pc, job>>
        /\ \/ handle' = handle
           \/ \E q \in Queues : /\ handle[q] = "closing" /\ notification[q] = "notified"
                                /\ handle' = [handle EXCEPT ![q] = "destroyed"]
    BY <1>9, QuietEffect
  <2>2. \A q \in Queues : notification[q] = "notified" => Empty(q)
    BY DEF HandleInv, QueueInv
  <2> QED  BY <2>1, <2>2, OthersKeepHands DEF MovesNoTask
<1> QED  BY <1>2, <1>3, <1>4, <1>5, <1>6, <1>7, <1>8, <1>9, StepCases

LEMMA TasksStep == Inv /\ TasksInv /\ [Next]_vars => TasksInv'
<1> SUFFICES ASSUME Inv, TasksInv, [Next]_vars PROVE TasksInv'
  OBVIOUS
<1> QED  BY TaskCases, TasksSchedule, TasksTake, TasksCallback, TasksStay

-----------------------------------------------------------------------------
(***************************************************************************)
(* The steps of the queues as steps of BatchScheduler.                     *)
(***************************************************************************)
LEMMA LinesAre ==
    ASSUME DOMAIN batches = Queues, NEW q \in Queues, NEW bs, batches' = [batches EXCEPT ![q] = bs]
    PROVE  Lines' = [Lines EXCEPT ![q] = LineOf(bs)]
<1>1. ASSUME NEW p \in Queues PROVE LineOf(batches'[p]) = [Lines EXCEPT ![q] = LineOf(bs)][p]
  <2>1. CASE p = q
    BY <2>1, QueueAfter DEF Lines
  <2>2. CASE p # q
    BY <2>2, QueueAfter DEF Lines
  <2> QED  BY <2>1, <2>2
<1>2. Lines' = [p \in Queues |-> LineOf(batches'[p])]
  BY DEF Lines
<1>3. [Lines EXCEPT ![q] = LineOf(bs)] = [p \in Queues |-> [Lines EXCEPT ![q] = LineOf(bs)][p]]
  BY DEF Lines
<1> DEFINE new == [Lines EXCEPT ![q] = LineOf(bs)]
<1> HIDE DEF new
<1>4. \A p \in Queues : LineOf(batches'[p]) = new[p]
  BY <1>1 DEF new
<1>5. new = [p \in Queues |-> new[p]]
  BY <1>3 DEF new
<1>6. Lines' = new
  BY <1>2, <1>4, <1>5
<1> QED  BY <1>6 DEF new

LEMMA FormedStay ==
    ASSUME FormedAreInHands, FormedAreInHands', \A th \in Threads : SameHand(th)
    PROVE  Formed' = Formed
<1>1. \A th \in Threads : Hand(th)' = Hand(th)
  BY DEF SameHand
<1>2. ASSUME NEW x PROVE x \in Formed' <=> x \in Formed
  BY <1>1 DEF FormedAreInHands
<1> QED  BY <1>2

LEMMA InterfaceAccepted ==
    ASSUME TypeOK, ListInv, BatchInv, FormedAreInHands, NEW t \in Tasks, Interface!Accepted(t)
    PROVE  Held(t)
<1>1. \A f : Interface!Range(f) = Range(f)
  BY DEF Interface!Range, Range
<1>2. QueueOf[t] \in Queues
  BY ConstantTypes
<1>3. Lines[QueueOf[t]] = LineOf(batches[QueueOf[t]])
  BY <1>2 DEF Lines
<1>4. \/ t \in Interface!Range(Lines[QueueOf[t]])
      \/ \E batch \in Formed : t \in Interface!Range(batch)
  BY DEF Interface!Accepted
<1>5. InLine(t) \/ \E batch \in Formed : t \in Range(batch)
  BY <1>1, <1>3, <1>4 DEF InLine
<1>6. InLine(t) \/ \E th \in Threads : t \in Range(Hand(th))
  BY <1>5 DEF FormedAreInHands
<1> QED  BY <1>6, AcceptedAreHeld

LEMMA FormIs ==
    ASSUME NEW q \in Queues, NEW l, NEW i, NEW j, NEW formed,
           formed = {SubSeq(l, 1, i), SubSeq(l, i + 1, j)} \ {<<>>},
           Lines' = [Lines EXCEPT ![q] = SubSeq(l, j + 1, Len(l))],
           Formed' = Formed \cup formed,
           \A b \in formed : Interface!SizesFit(b, MaxBatchSize[q]),
           Destroyed' = Destroyed
    PROVE  Interface!Form(q, l, i, j)
BY DEF Interface!Form

LEMMA StutterIs ==
    ASSUME Lines' = Lines, Formed' = Formed, Destroyed' = Destroyed
    PROVE  UNCHANGED Interface!vars
BY DEF Interface!vars

LEMMA SubSeqFacts ==
    ASSUME NEW s \in Seq(Tasks)
    PROVE  SubSeq(s, 1, 0) = <<>> /\ SubSeq(s, 1, Len(s)) = s
BY SMTT(30)

LEMMA SubSeqOfConcat ==
    ASSUME NEW s \in Seq(Tasks), NEW r \in Seq(Tasks), NEW l, l = s \o r, NEW n, n = Len(s)
    PROVE  SubSeq(l, 1, n) = s /\ SubSeq(l, n + 1, Len(l)) = r
<1>1. /\ l \in Seq(Tasks) /\ Len(l) = n + Len(r) /\ n \in Nat /\ Len(r) \in Nat
      /\ \A i \in 1 .. n + Len(r) : l[i] = IF i <= n THEN s[i] ELSE r[i - n]
  BY ConcatEffect, SMTT(30)
<1> USE <1>1
<1>2. \A i \in 1 .. n : l[i] = s[i]
  BY SMTT(30)
<1>3. \A i \in 1 .. Len(r) : l[i + n] = r[i]
  BY SMTT(30)
<1>4. SubSeq(l, 1, n) = s
  <2>1. SubSeq(l, 1, n) \in Seq(Tasks) /\ Len(SubSeq(l, 1, n)) = n
        /\ \A i \in 1 .. n : SubSeq(l, 1, n)[i] = l[i]
    BY SMTT(30)
  <2> QED  BY <1>2, <2>1, SameContents, SMTT(30)
<1>5. SubSeq(l, n + 1, Len(l)) = r
  <2> DEFINE e == SubSeq(l, n + 1, Len(l))
  <2>1. e \in Seq(Tasks) /\ Len(e) = Len(r) /\ \A i \in 1 .. Len(r) : e[i] = l[i + n]
    BY SMTT(30)
  <2> HIDE DEF e
  <2>2. e = r
    BY <1>3, <2>1, SameContents, SMTT(30)
  <2> QED  BY <2>2 DEF e
<1> QED  BY <1>4, <1>5

\* Schedule() is Accept(t): the task joins the line, and no batch is formed.
LEMMA ScheduleAccepts ==
    ASSUME Inv, TasksInv, FormedAreInHands, FormedAreInHands', NEW t \in Tasks, Schedule(t)
    PROVE  Interface!Accept(t)
<1>1. TypeOK /\ ListInv /\ BatchInv /\ LinesInv /\ QueueOf[t] \in Queues
  BY ConstantTypes DEF Inv, TasksInv
<1> USE <1>1
<1>2. PICK q \in Queues : q = QueueOf[t]
  OBVIOUS
<1>3. PICK bs \in Seq(BatchesOf(Tasks)) : JoinsLine(t, q, bs)
  BY <1>2, ScheduleJoinsLine
<1>4. /\ ~Held(t) /\ handle[q] = "open" /\ handle' = handle /\ UNCHANGED <<scan, pc, job>>
  BY <1>2 DEF Schedule, MaySchedule, threadVars
<1> USE <1>4
<1>5. PICK l : l = Append(LineOf(batches[q]), t)
  OBVIOUS
<1>6. LineOf(batches[q]) \in Seq(Tasks) /\ DOMAIN batches = Queues
  BY QueueTypes
<1>7. l \in Seq(Tasks) /\ 0 \in 0 .. Len(l) /\ 0 \in 0 .. 0
  BY <1>5, <1>6, AppendEffect, SMTT(30)
<1>8. /\ SubSeq(l, 1, 0) = <<>> /\ SubSeq(l, 0 + 1, 0) = <<>> /\ SubSeq(l, 0 + 1, Len(l)) = l
  BY <1>7, SubSeqFacts, SMTT(30)
<1>9. Lines' = [Lines EXCEPT ![q] = SubSeq(l, 0 + 1, Len(l))]
  <2>1. batches' = [batches EXCEPT ![q] = bs] /\ LineOf(bs) = l
    BY <1>3, <1>5 DEF JoinsLine
  <2>2. Lines' = [Lines EXCEPT ![q] = LineOf(bs)]
    BY <1>6, <2>1, LinesAre
  <2> QED  BY <1>8, <2>1, <2>2
<1>10. Formed' = Formed
  BY OthersKeepHands, FormedStay
<1>11. Destroyed' = Destroyed
  BY DEF Destroyed
<1>12. Interface!Form(q, l, 0, 0)
  <2>1. PICK formed : formed = {SubSeq(l, 1, 0), SubSeq(l, 0 + 1, 0)} \ {<<>>}
    OBVIOUS
  <2>2. formed = {}
    BY <1>8, <2>1
  <2>3. Formed' = Formed \cup formed /\ \A b \in formed : Interface!SizesFit(b, MaxBatchSize[q])
    BY <1>10, <2>2
  <2> QED  BY <1>9, <1>11, <2>1, <2>3, FormIs
<1>13. q \notin Destroyed
  BY SMTT(30) DEF Destroyed
<1>14. ~Interface!Accepted(t)
  BY InterfaceAccepted
<1>15. Lines[q] = LineOf(batches[q])
  BY DEF Lines
<1> QED  BY <1>2, <1>5, <1>7, <1>12, <1>13, <1>14, <1>15 DEF Interface!Accept

\* ScheduleBatch() with a batch is FormBatch(q).
LEMMA ScheduleBatchForms ==
    ASSUME Inv, TasksInv, FormedAreInHands, FormedAreInHands', ScheduleBatch,
           NEW q, q = queues[next],
           NEW b \in BatchesOf(Tasks), NEW bs \in Seq(BatchesOf(Tasks)), LeavesLine(q, b, bs)
    PROVE  q \in Queues /\ Interface!FormBatch(q)
<1>1. TypeOK /\ ListInv /\ BatchInv /\ LinesInv
  BY DEF Inv, TasksInv
<1>2. q \in Queues
  BY <1>1, ScanIsAtAQueue DEF ScheduleBatch
<1> USE <1>2
<1>3. /\ DOMAIN batches = Queues /\ LineOf(bs) \in Seq(Tasks) /\ bs # <<>>
      /\ batches' = [batches EXCEPT ![q] = bs]
      /\ scan' = [scan EXCEPT !.at = "IsEmpty()", !.batch = b]
      /\ LineOf(batches[q]) = b.tasks \o LineOf(bs)
      /\ b.tasks # <<>> /\ Sums(b, MaxBatchSize[q]) /\ handle' = handle
  BY <1>1, QueueTypes, LineType DEF LeavesLine, ScheduleBatch, clientVars
<1> USE <1>3
<1>4. PICK s \in Seq(Tasks) : s = b.tasks
  BY SMTT(30) DEF BatchesOf
<1> USE <1>4
<1>5. PICK l : l = LineOf(batches[q])
  OBVIOUS
<1>6. PICK n : n = Len(s)
  OBVIOUS
<1>7. /\ l \in Seq(Tasks) /\ n \in 1 .. Len(l) /\ 0 + 1 = 1
  <2>1. /\ l \in Seq(Tasks) /\ Len(l) = Len(s) + Len(LineOf(bs))
    BY <1>5, ConcatEffect, SMTT(30)
  <2>2. Len(s) \in Nat /\ Len(s) # 0 /\ Len(LineOf(bs)) \in Nat
    BY SMTT(30)
  <2> QED  BY <1>6, <2>1, <2>2, SMTT(30)
<1>8. SubSeq(l, 1, n) = s /\ SubSeq(l, n + 1, Len(l)) = LineOf(bs) /\ SubSeq(l, 1, 0) = <<>>
  <2>1. PICK r \in Seq(Tasks) : r = LineOf(bs)
    OBVIOUS
  <2>2. l = s \o r
    BY <1>5, <2>1
  <2>3. SubSeq(l, 1, n) = s /\ SubSeq(l, n + 1, Len(l)) = r
    <3> HIDE <1>2, <1>3, <1>4
    <3> QED  BY <1>6, <2>2, SubSeqOfConcat, SMTT(30)
  <2> QED  BY <1>7, <2>1, <2>3, SubSeqFacts
<1>9. Lines' = [Lines EXCEPT ![q] = SubSeq(l, n + 1, Len(l))]
  BY <1>8, LinesAre
<1>10. Formed' = Formed \cup {s}
  <2>1. PICK w \in Threads : /\ Hand(w) = <<>> /\ Hand(w)' = s
                             /\ \A th \in Threads : th # w => Hand(th)' = Hand(th)
    BY <1>1, TakesInHands DEF SameHand
  <2>2. s \in Formed'
    BY <2>1 DEF FormedAreInHands
  <2>3. ASSUME NEW x, x \in Formed' PROVE x \in Formed \/ x = s
    <3>1. PICK th \in Threads : x = Hand(th)' /\ x # <<>>
      BY <2>3 DEF FormedAreInHands
    <3> QED  BY <2>1, <3>1 DEF FormedAreInHands
  <2>4. ASSUME NEW x, x \in Formed PROVE x \in Formed'
    <3>1. PICK th \in Threads : x = Hand(th) /\ x # <<>>
      BY <2>4 DEF FormedAreInHands
    <3>2. x = Hand(th)'
      BY <2>1, <3>1
    <3> QED  BY <3>1, <3>2 DEF FormedAreInHands
  <2> QED  BY <2>2, <2>3, <2>4
<1>11. Destroyed' = Destroyed
  BY DEF Destroyed
<1>12. Interface!SizesFit(s, MaxBatchSize[q])
  BY DEF Sums, Interface!SizesFit
<1>13. Interface!Form(q, l, 0, n)
  <2>1. PICK formed : formed = {SubSeq(l, 1, 0), SubSeq(l, 0 + 1, n)} \ {<<>>}
    OBVIOUS
  <2>2. formed = {s}
    BY <1>7, <1>8, <2>1
  <2>3. Formed' = Formed \cup formed /\ \A f \in formed : Interface!SizesFit(f, MaxBatchSize[q])
    BY <1>10, <1>12, <2>2
  <2> QED  BY <1>9, <1>11, <2>1, <2>3, FormIs
<1>14. Lines[q] = l
  BY <1>5 DEF Lines
<1> QED  BY <1>7, <1>13, <1>14 DEF Interface!FormBatch

\* The end of a callback is EndProcessing(batch).
LEMMA CallbackEnds ==
    ASSUME Inv, TasksInv, FormedAreInHands, FormedAreInHands', NEW w \in Threads,
           ProcessBatchCallback(w)
    PROVE  \E batch \in Formed : Interface!EndProcessing(batch)
<1>1. TypeOK /\ ListInv /\ BatchInv /\ HandsInv
  BY DEF Inv, TasksInv
<1> USE <1>1
<1>2. batches' = batches /\ handle' = handle
  BY CallbackEffect
<1>3. /\ Busy(w) /\ Hand(w)' = <<>>
      /\ \A th \in Threads : th # w => Hand(th)' = Hand(th)
  BY CallbackEmptiesHands DEF SameHand
<1> USE <1>3
<1>4. PICK s \in Seq(Tasks) : s = Hand(w) /\ s # <<>>
  BY HandFacts DEF HandsInv
<1> USE <1>4
<1>5. s \in Formed
  BY DEF FormedAreInHands
<1>6. ASSUME NEW th \in Threads, Hand(th) = s PROVE th = w
  <2>1. 1 \in 1 .. Len(s) /\ s[1] \in Tasks
    BY SMTT(30)
  <2>2. s[1] \in Range(s)
    BY <2>1, InRange
  <2> QED  BY <1>6, <2>1, <2>2 DEF HandsInv
<1>7. Formed' = Formed \ {s}
  <2>1. ASSUME NEW x, x \in Formed' PROVE x \in Formed /\ x # s
    <3>1. PICK th \in Threads : x = Hand(th)' /\ x # <<>>
      BY <2>1 DEF FormedAreInHands
    <3>2. th # w
      BY <3>1
    <3>3. x = Hand(th)
      BY <3>1, <3>2
    <3> QED  BY <1>6, <3>1, <3>2, <3>3 DEF FormedAreInHands
  <2>2. ASSUME NEW x, x \in Formed, x # s PROVE x \in Formed'
    <3>1. PICK th \in Threads : x = Hand(th) /\ x # <<>>
      BY <2>2 DEF FormedAreInHands
    <3>2. th # w
      BY <2>2, <3>1
    <3>3. x = Hand(th)'
      BY <3>1, <3>2
    <3> QED  BY <3>1, <3>3 DEF FormedAreInHands
  <2> QED  BY <2>1, <2>2
<1>8. Lines' = Lines /\ Destroyed' = Destroyed
  BY <1>2 DEF Lines, Destroyed
<1>9. Interface!EndProcessing(s)
  BY <1>7, <1>8 DEF Interface!EndProcessing
<1> QED  BY <1>5, <1>9

\* The end of a handle's destructor is Destroy(q).
LEMMA HandleDestroys ==
    ASSUME Inv, FormedAreInHands, Lines' = Lines, Formed' = Formed,
           NEW q \in Queues, handle[q] # "destroyed", handle' = [handle EXCEPT ![q] = "destroyed"],
           Empty(q)
    PROVE  Interface!Destroy(q)
<1>1. TypeOK /\ ListInv /\ BatchInv /\ DOMAIN handle = Queues
  BY DEF Inv, TypeOK
<1>2. ASSUME NEW t \in Tasks, QueueOf[t] = q PROVE ~Interface!Accepted(t)
  BY <1>1, <1>2, EmptyHoldsNothing, InterfaceAccepted
<1>3. \A p \in Queues : handle'[p] = "destroyed" <=> handle[p] = "destroyed" \/ p = q
  BY <1>1
<1>4. Destroyed' = Destroyed \cup {q}
  BY <1>3 DEF Destroyed
<1>5. q \notin Destroyed
  BY DEF Destroyed
<1> QED  BY <1>2, <1>4, <1>5 DEF Interface!Destroy

\* Steps that move no task: a stutter, or the end of a handle's destructor.
LEMMA NoTaskMoves ==
    ASSUME Inv, FormedAreInHands, FormedAreInHands', MovesNoTask
    PROVE  UNCHANGED Interface!vars \/ \E q \in Queues : Interface!Destroy(q)
<1>0. /\ batches' = batches /\ \A th \in Threads : SameHand(th)
      /\ \/ handle' = handle
         \/ \E q \in Queues, h \in {"open", "closing"} :
                handle[q] \in {"none", "open"} /\ handle' = [handle EXCEPT ![q] = h]
         \/ \E q \in Queues : /\ handle[q] \in {"open", "closing"} /\ Empty(q)
                              /\ handle' = [handle EXCEPT ![q] = "destroyed"]
  BY DEF MovesNoTask
<1>1. Lines' = Lines /\ Formed' = Formed
  BY <1>0, FormedStay DEF Lines
<1>2. DOMAIN handle = Queues
  BY DEF Inv, TypeOK
<1>3. CASE handle' = handle
  BY <1>1, <1>3, StutterIs DEF Destroyed
<1>4. CASE \E q \in Queues, h \in {"open", "closing"} :
               handle[q] \in {"none", "open"} /\ handle' = [handle EXCEPT ![q] = h]
  <2>1. \A p \in Queues : handle'[p] = "destroyed" <=> handle[p] = "destroyed"
    BY <1>2, <1>4, SMTT(30)
  <2>2. Destroyed' = Destroyed
    BY <2>1 DEF Destroyed
  <2> QED  BY <1>1, <2>2, StutterIs
<1>5. CASE \E q \in Queues : /\ handle[q] \in {"open", "closing"} /\ Empty(q)
                             /\ handle' = [handle EXCEPT ![q] = "destroyed"]
  <2>1. PICK q \in Queues : /\ handle[q] \in {"open", "closing"} /\ Empty(q)
                            /\ handle' = [handle EXCEPT ![q] = "destroyed"]
    BY <1>5
  <2>2. handle[q] # "destroyed"
    BY <2>1, SMTT(30)
  <2> QED  BY <1>1, <2>1, <2>2, HandleDestroys
<1> QED  BY <1>0, <1>3, <1>4, <1>5

LEMMA ImplementationStep ==
    Inv /\ TasksInv /\ FormedAreInHands /\ FormedAreInHands' /\ [Next]_vars
        => [Interface!Next]_(Interface!vars)
<1> SUFFICES ASSUME Inv, TasksInv, FormedAreInHands, FormedAreInHands', [Next]_vars
             PROVE  [Interface!Next]_(Interface!vars)
  OBVIOUS
<1>1. CASE \E t \in Tasks : Schedule(t)
  BY <1>1, ScheduleAccepts DEF Interface!Next
<1>2. CASE /\ ScheduleBatch
           /\ \E b \in BatchesOf(Tasks), bs \in Seq(BatchesOf(Tasks)) :
                  LeavesLine(queues[next], b, bs)
  BY <1>2, ScheduleBatchForms DEF Interface!Next
<1>3. CASE \E th \in Threads : ProcessBatchCallback(th)
  BY <1>3, CallbackEnds DEF Interface!Next
<1>4. CASE MovesNoTask
  BY <1>4, NoTaskMoves DEF Interface!Next
<1> QED  BY <1>1, <1>2, <1>3, <1>4, TaskCases

\* The queues begin empty.
LEMMA InitTasks == Init => TasksInv /\ Interface!Init
<1> SUFFICES ASSUME Init PROVE TasksInv /\ Interface!Init
  OBVIOUS
<1>1. /\ batches = [q \in Queues |-> <<EmptyBatch>>] /\ scan = NoScan
      /\ handle = [q \in Queues |-> "none"]
      /\ pc = [th \in Threads |-> "idle"]
  BY DEF Init
<1> USE <1>1
<1> DEFINE bs == <<EmptyBatch>>
<1>2. bs \in Seq(BatchesOf(Tasks)) /\ Len(bs) = 1 /\ bs[1] = EmptyBatch /\ bs # <<>>
  BY EmptyBatchType, SMTT(30)
<1> HIDE DEF bs
<1>3. LineOf(bs) = <<>>
  BY <1>2, LineOfOne, EmptyBatchType
<1>4. ASSUME NEW q \in Queues
      PROVE  GoodBatches(batches[q], MaxBatchSize[q]) /\ Once(LineOf(batches[q]))
  <2>1. batches[q] = bs /\ MaxBatchSize[q] \in Nat
    BY ConstantTypes, SMTT(30) DEF bs
  <2>2. (\A i \in 1 .. Len(bs) : i = 1) /\ (\A i \in 1 .. Len(bs) - 1 : FALSE)
    BY <1>2, SMTT(30)
  <2>3. GoodBatches(bs, MaxBatchSize[q])
    BY <1>2, <2>1, <2>2, SumsOfEmpty DEF GoodBatches
  <2>4. Once(<<>>)
    BY SMTT(30) DEF Once
  <2> QED  BY <1>3, <2>1, <2>3, <2>4
<1>5. \A th \in Threads : ~Busy(th) /\ Hand(th) = <<>> /\ pc[th] # "callback"
  <2>1. \A th \in Threads : pc[th] # "callback"
    BY SMTT(30)
  <2> QED  BY <2>1 DEF Busy, Hand, HandOf, Scanning
<1>6. HandsInv
  BY <1>5, NothingInEmpty DEF HandsInv
<1>7. TasksInv
  BY <1>4, <1>6 DEF TasksInv, LinesInv
<1>8. Lines = [q \in Queues |-> <<>>]
  <2>1. \A q \in Queues : LineOf(batches[q]) = <<>>
    BY <1>3 DEF bs
  <2> QED  BY <2>1 DEF Lines
<1>9. Formed = {}
  BY <1>5, SMTT(30) DEF Formed
<1>10. Destroyed = {}
  BY SMTT(30) DEF Destroyed
<1> QED  BY <1>7, <1>8, <1>9, <1>10 DEF Interface!Init
=============================================================================
