---------------------- MODULE SharedBatchSchedulerSteps ----------------------
(***************************************************************************)
(* What the steps of SharedBatchScheduler do, for any number of queues,    *)
(* tasks and batch threads: lemmas for the proofs of the two modules that  *)
(* extend this one.                                                        *)
(*                                                                         *)
(* The inductive invariant has four layers:                                *)
(*   - ListInv: the list of queues, the position in it and the scan        *)
(*     that moves the position agree;                                      *)
(*   - BatchInv: every batch belongs to its queue, the open one fits;      *)
(*   - HandleInv: num_batches_being_processed_ counts the threads that     *)
(*     process a queue, so "closed and empty" means that nobody uses it;   *)
(*   - WakeInv: a queue with a schedulable batch that the scan under way   *)
(*     has passed is one for which a wake-up is under way as well.         *)
(* That every step keeps the first two is shown here.                      *)
(***************************************************************************)
EXTENDS SharedBatchSchedulerInterface, FiniteSetTheorems, WellFoundedInduction, TLAPS

Scanning(th) == scan # NoScan /\ scan.thread = th

PositionOK == next \in 1..Len(queues) \/ (queues = <<>> /\ next = 1)

NoDuplicates == \A i, j \in 1..Len(queues) : queues[i] = queues[j] => i = j

ScanOK ==
    scan # NoScan =>
        /\ queues # <<>>
        /\ scan.tried < scan.num_queues
        /\ scan.num_queues - scan.tried <= Len(queues)
        /\ scan.at = "ScheduleBatch()" => scan.batch = NoBatch
        /\ scan.queue_closed => closed[queues[next]]

ThreadsOK ==
    /\ \A th \in Threads : pc[th] = "scan" <=> Scanning(th)
    /\ \A th \in Threads : pc[th] \in {"callback", "finish"} <=> job[th] # NoJob

ListInv == PositionOK /\ NoDuplicates /\ ScanOK /\ ThreadsOK

\* A batch of tasks that were submitted to queue q.
OfQueue(batch, q) == \A k \in 1..Len(batch.tasks) : QueueOf[batch.tasks[k]] = q

BatchesOK(q) ==
    /\ batches[q] # <<>>
    /\ \A i \in 1..Len(batches[q]) : OfQueue(batches[q][i], q)
    /\ OpenBatch(batches[q]).size <= MaxBatchSize[q]
    /\ IsEmptyBatch(OpenBatch(batches[q])) => OpenBatch(batches[q]).size = 0

ScanBatchOK == scan # NoScan /\ scan.batch # NoBatch => OfQueue(scan.batch, queues[next])

JobBatchesOK == \A th \in Threads : job[th] # NoJob => OfQueue(job[th].batch, job[th].queue)

BatchInv == (\A q \in Queues : BatchesOK(q)) /\ ScanBatchOK /\ JobBatchesOK

\* The threads between ScheduleBatch() and the end of ProcessBatch().
Processing(q) ==
    {th \in Threads : \/ Scanning(th) /\ scan.batch # NoBatch /\ queues[next] = q
                      \/ job[th] # NoJob /\ job[th].queue = q}

Empty(q) == IsEmptyInternal(batches[q], numProcessing[q])

InList(q) == \E i \in 1..Len(queues) : queues[i] = q

QueueInv(q) ==
    /\ numProcessing[q] = Cardinality(Processing(q))
    /\ handle[q] = "none" => Empty(q) /\ ~schedulable[q] /\ ~InList(q)
    /\ closed[q] <=> handle[q] \in {"closing", "destroyed"}
    /\ handle[q] \in {"none", "open"} => notification[q] = "null"
    /\ handle[q] = "closing" => notification[q] \in {"set", "notified"}
    /\ handle[q] = "destroyed" => notification[q] \in {"null", "notified"} /\ Empty(q)
    /\ notification[q] = "set" => ~Empty(q)
    /\ notification[q] = "notified" => Empty(q)
    /\ ~InList(q) => handle[q] # "open" /\ Empty(q)

HandleInv == \A q \in Queues : QueueInv(q)

\* How many queues the scan is at before it comes to position i.
Ahead(i) == IF i >= next THEN i - next ELSE i - next + Len(queues)

\* The scan under way has yet to ask the queue at position i for a batch.
Untried(i) ==
    /\ scan # NoScan
    /\ Ahead(i) < scan.num_queues - scan.tried
    /\ scan.at = "IsEmpty()" => Ahead(i) > 0

\* A queue with a batch that is ready because of its size has its flag set.
FlagOK(q) ==
    Len(batches[q]) > 1 \/ OpenBatch(batches[q]).size >= MaxBatchSize[q] => schedulable[q]

Woken(i) ==
    \/ notifying # {}
    \/ scan = NoScan /\ \E th \in Threads : pc[th] # "wait"
    \/ scan # NoScan /\ scan.batch # NoBatch
    \/ Untried(i)

WakeInv ==
    /\ \A q \in Queues : FlagOK(q)
    /\ \A i \in 1..Len(queues) : schedulable[queues[i]] => Woken(i)

Inv == TypeOK /\ ListInv /\ BatchInv /\ HandleInv /\ WakeInv

\* The first-order prover does most steps; the others name theirs.
USE ZenonT(30)

LEMMA ConstantTypes ==
    /\ \A t \in Tasks : Size[t] \in Nat /\ QueueOf[t] \in Queues
    /\ \A q \in Queues : MaxBatchSize[q] \in Nat \ {0} /\ MaxEnqueuedBatches[q] \in Nat
    /\ NoBatch \notin BatchesOf(Tasks) /\ NoScan \notin Scans /\ NoScan \notin Queues
    /\ IsFiniteSet(Threads) /\ Threads # {}
BY SchedulerAssumption

LEMMA ConcatEffect ==
    ASSUME NEW S, NEW s \in Seq(S), NEW r \in Seq(S)
    PROVE  /\ s \o r \in Seq(S)
           /\ Len(s \o r) = Len(s) + Len(r)
           /\ \A i \in 1..Len(s) + Len(r) :
                  (s \o r)[i] = IF i <= Len(s) THEN s[i] ELSE r[i - Len(s)]
BY SMTT(30)

-----------------------------------------------------------------------------
(***************************************************************************)
(* What the operations on sequences do.                                    *)
(***************************************************************************)
LEMMA EraseEffect ==
    ASSUME NEW s \in Seq(Queues), NEW pos \in 1..Len(s)
    PROVE  /\ Erase(s, pos) \in Seq(Queues)
           /\ Len(Erase(s, pos)) = Len(s) - 1
           /\ \A i \in 1..Len(s) - 1 : Erase(s, pos)[i] = IF i < pos THEN s[i] ELSE s[i + 1]
<1> DEFINE front == SubSeq(s, 1, pos - 1)
           back  == SubSeq(s, pos + 1, Len(s))
<1>1. /\ front \in Seq(Queues) /\ Len(front) = pos - 1
      /\ \A i \in 1..pos - 1 : front[i] = s[i]
  BY SMTT(30)
<1> USE <1>1
<1>2. /\ back \in Seq(Queues) /\ Len(back) = Len(s) - pos
      /\ \A i \in 1..Len(s) - pos : back[i] = s[pos + i]
  BY SMTT(30)
<1>3. Erase(s, pos) = front \o back
  BY DEF Erase
<1> HIDE DEF front, back
<1>4. /\ front \o back \in Seq(Queues) /\ Len(front \o back) = Len(front) + Len(back)
      /\ \A i \in 1..Len(front) + Len(back) :
             (front \o back)[i] = IF i <= Len(front) THEN front[i] ELSE back[i - Len(front)]
  BY <1>2, ConcatEffect
<1>5. Len(s) \in Nat /\ Len(front) + Len(back) = Len(s) - 1
  BY <1>2, SMTT(30)
<1>6. ASSUME NEW i \in 1..Len(s) - 1
      PROVE  (front \o back)[i] = IF i < pos THEN s[i] ELSE s[i + 1]
  <2>1. (front \o back)[i] = IF i <= Len(front) THEN front[i] ELSE back[i - Len(front)]
    BY <1>4, <1>5, SMTT(30)
  <2>2. CASE i < pos
    BY <2>1, <2>2, SMTT(30)
  <2>3. CASE ~(i < pos)
    <3>1. i - (pos - 1) \in 1..Len(s) - pos /\ pos + (i - (pos - 1)) = i + 1
      BY <1>5, <2>3, SMTT(30)
    <3>2. (front \o back)[i] = back[i - (pos - 1)]
      BY <2>1, <2>3, SMTT(30)
    <3> QED  BY <1>2, <2>3, <3>1, <3>2, SMTT(30)
  <2> QED  BY <2>2, <2>3
<1> QED  BY <1>3, <1>4, <1>5, <1>6

\* A batch that is added to a queue and a batch that is taken from it.
LEMMA AppendEffect ==
    ASSUME NEW S, NEW s \in Seq(S), NEW x \in S
    PROVE  /\ Append(s, x) \in Seq(S)
           /\ Len(Append(s, x)) = Len(s) + 1
           /\ Append(s, x)[Len(s) + 1] = x
           /\ \A i \in 1..Len(s) : Append(s, x)[i] = s[i]
BY SMTT(30)

LEMMA TailEffect ==
    ASSUME NEW S, NEW s \in Seq(S), s # <<>>
    PROVE  /\ Head(s) = s[1] /\ s[1] \in S
           /\ Tail(s) \in Seq(S)
           /\ Len(Tail(s)) = Len(s) - 1
           /\ \A i \in 1..Len(s) - 1 : Tail(s)[i] = s[i + 1]
BY SMTT(30)

\* Induction over the natural numbers, for a set of them.
LEMMA SetInduction ==
    ASSUME NEW S, 0 \in S, \A n \in Nat : n \in S => n + 1 \in S
    PROVE  \A n \in Nat : n \in S
<1> DEFINE T == Nat \ S
           Less == OpToRel(<, Nat)
<1>1. IsWellFoundedOn(Less, Nat)
  BY NatLessThanWellFounded
<1>2. \A x, y \in Nat : y < x => <<y, x>> \in Less
  BY SMTT(30) DEF OpToRel
<1> HIDE DEF Less
<1>3. SUFFICES ASSUME T # {} PROVE FALSE
  BY SMTT(30)
<1>4. T \subseteq Nat
  BY SMTT(30)
<1> HIDE DEF T
<1>5. PICK x \in T : \A y \in T : ~(<<y, x>> \in Less)
  BY <1>1, <1>3, <1>4, WFMin
<1> USE DEF T
<1>6. x \in Nat /\ x # 0 /\ x - 1 \in Nat
  BY SMTT(30)
<1>7. x - 1 \in T
  BY <1>6, SMTT(30)
<1>8. x - 1 < x
  BY <1>6, SMTT(30)
<1> QED  BY <1>2, <1>5, <1>6, <1>7, <1>8

-----------------------------------------------------------------------------
(***************************************************************************)
(* Concatenation of a sequence of sequences.                               *)
(***************************************************************************)
\* g[i] is the concatenation of the first i sequences.
IsFronts(seqs, g) ==
    g = [i \in 1 .. Len(seqs) |-> IF i = 1 THEN seqs[i] ELSE g[i - 1] \o seqs[i]]

Fronts(seqs) == CHOOSE g : IsFronts(seqs, g)

LEMMA FrontsExist ==
    ASSUME NEW S, NEW seqs \in Seq(Seq(S))
    PROVE  \E g \in [1 .. Len(seqs) -> Seq(S)] : IsFronts(seqs, g)
<1> DEFINE Is(n, g) == \A i \in 1 .. n : g[i] = IF i = 1 THEN seqs[i] ELSE g[i - 1] \o seqs[i]
           Good == {n \in Nat : n <= Len(seqs) => \E g \in [1 .. n -> Seq(S)] : Is(n, g)}
<1>1. 0 \in Good
  <2>1. [i \in 1 .. 0 |-> <<>>] \in [1 .. 0 -> Seq(S)] /\ Is(0, [i \in 1 .. 0 |-> <<>>])
    BY SMTT(30)
  <2> QED  BY <2>1
<1>2. ASSUME NEW n \in Nat, n \in Good
      PROVE  n + 1 \in Good
  <2>1. SUFFICES ASSUME n + 1 <= Len(seqs)
                 PROVE  \E g \in [1 .. n + 1 -> Seq(S)] : Is(n + 1, g)
    <3>1. n + 1 \in Nat
      BY SMTT(30)
    <3> QED  BY <2>1, <3>1
  <2>2. PICK g \in [1 .. n -> Seq(S)] : Is(n, g)
    BY <1>2, <2>1, SMTT(30)
  <2> DEFINE last == IF n = 0 THEN seqs[1] ELSE g[n] \o seqs[n + 1]
             h == [i \in 1 .. n + 1 |-> IF i <= n THEN g[i] ELSE last]
  <2>3. seqs[n + 1] \in Seq(S) /\ (n # 0 => g[n] \in Seq(S))
    BY <2>1, SMTT(30)
  <2>4. last \in Seq(S)
    BY <2>3, ConcatEffect, SMTT(30)
  <2> HIDE DEF last
  <2>5. h \in [1 .. n + 1 -> Seq(S)]
    BY <2>4, SMTT(30)
  <2>6. ASSUME NEW i \in 1 .. n + 1
        PROVE  h[i] = IF i = 1 THEN seqs[i] ELSE h[i - 1] \o seqs[i]
    <3>1. CASE i <= n
      <4>1. i \in 1 .. n /\ h[i] = g[i] /\ (i # 1 => h[i - 1] = g[i - 1])
        BY <3>1, SMTT(30)
      <4> QED  BY <2>2, <4>1
    <3>2. CASE i = n + 1
      <4>1. h[i] = last /\ (i # 1 => n # 0 /\ h[i - 1] = g[n])
        BY <3>2, SMTT(30)
      <4>2. i = 1 <=> n = 0
        BY <3>2, SMTT(30)
      <4> QED  BY <3>2, <4>1, <4>2, SMTT(30) DEF last
    <3> QED  BY <3>1, <3>2, SMTT(30)
  <2> HIDE DEF h
  <2> QED  BY <2>5, <2>6
<1> HIDE DEF Good
<1>3. \A n \in Nat : n \in Good
  BY <1>1, <1>2, SetInduction
<1> USE DEF Good
<1>4. Len(seqs) \in Nat /\ Len(seqs) <= Len(seqs)
  BY SMTT(30)
<1>5. PICK g \in [1 .. Len(seqs) -> Seq(S)] : Is(Len(seqs), g)
  BY <1>3, <1>4
<1> QED  BY <1>5 DEF IsFronts

LEMMA FrontsEffect ==
    ASSUME NEW S, NEW seqs \in Seq(Seq(S))
    PROVE  /\ \A i \in 1 .. Len(seqs) : Fronts(seqs)[i] = IF i = 1 THEN seqs[i]
                                            ELSE Fronts(seqs)[i - 1] \o seqs[i]
           /\ \A i \in 1 .. Len(seqs) : Fronts(seqs)[i] \in Seq(S)
           /\ seqs # <<>> => Flatten(seqs) = Fronts(seqs)[Len(seqs)]
<1>1. IsFronts(seqs, Fronts(seqs))
  BY FrontsExist DEF Fronts
<1> DEFINE f == Fronts(seqs)
           Good == {n \in Nat : n \in 1 .. Len(seqs) => f[n] \in Seq(S)}
<1>2. \A i \in 1 .. Len(seqs) : f[i] = IF i = 1 THEN seqs[i] ELSE f[i - 1] \o seqs[i]
  BY <1>1 DEF IsFronts
<1> HIDE DEF f
<1>3. 0 \in Good
  BY SMTT(30)
<1>4. ASSUME NEW n \in Nat, n \in Good
      PROVE  n + 1 \in Good
  <2>1. SUFFICES ASSUME n + 1 <= Len(seqs)
                 PROVE  f[n + 1] \in Seq(S)
    BY SMTT(30)
  <2>2. seqs[n + 1] \in Seq(S) /\ n + 1 \in 1 .. Len(seqs)
    BY <2>1, SMTT(30)
  <2>3. CASE n = 0
    BY <1>2, <2>2, <2>3, SMTT(30)
  <2>4. CASE n # 0
    <3>1. n \in 1 .. Len(seqs) /\ n + 1 # 1 /\ (n + 1) - 1 = n
      BY <2>1, <2>4, SMTT(30)
    <3>2. f[n] \in Seq(S) /\ f[n + 1] = f[n] \o seqs[n + 1]
      BY <1>2, <1>4, <2>2, <3>1
    <3> QED  BY <2>2, <3>2, ConcatEffect
  <2> QED  BY <2>3, <2>4, SMTT(30)
<1> HIDE DEF Good
<1>5. \A n \in Nat : n \in Good
  BY <1>3, <1>4, SetInduction
<1> USE DEF Good
<1>6. \A i \in 1 .. Len(seqs) : f[i] \in Seq(S)
  BY <1>5, SMTT(30)
<1>7. seqs # <<>> => Flatten(seqs) = Fronts(seqs)[Len(seqs)]
  BY SMTT(30) DEF Flatten, Fronts, IsFronts
<1> QED  BY <1>2, <1>6, <1>7, SMTT(30) DEF f

\* Two sequences of sequences that begin alike have the same fronts.
LEMMA FrontsAgree ==
    ASSUME NEW S, NEW seqs \in Seq(Seq(S)), NEW other \in Seq(Seq(S)),
           NEW k \in 1 .. Len(seqs), k <= Len(other),
           \A i \in 1 .. k : seqs[i] = other[i]
    PROVE  Fronts(seqs)[k] = Fronts(other)[k]
<1> DEFINE f == Fronts(seqs)
           g == Fronts(other)
           Good == {n \in Nat : n \in 1 .. k => f[n] = g[n]}
<1>1. /\ \A i \in 1 .. Len(seqs) : f[i] = IF i = 1 THEN seqs[i] ELSE f[i - 1] \o seqs[i]
      /\ \A i \in 1 .. Len(other) : g[i] = IF i = 1 THEN other[i] ELSE g[i - 1] \o other[i]
  BY FrontsEffect
<1> HIDE DEF f, g
<1>2. 0 \in Good
  BY SMTT(30)
<1>3. ASSUME NEW n \in Nat, n \in Good
      PROVE  n + 1 \in Good
  <2>1. SUFFICES ASSUME n + 1 \in 1 .. k
                 PROVE  f[n + 1] = g[n + 1]
    <3>1. n + 1 \in Nat
      BY SMTT(30)
    <3> QED  BY <2>1, <3>1
  <2>2. n + 1 \in 1 .. Len(seqs) /\ n + 1 \in 1 .. Len(other) /\ (n + 1) - 1 = n
    BY <2>1, SMTT(30)
  <2>3. n + 1 # 1 => n \in 1 .. k
    BY <2>1, SMTT(30)
  <2>4. seqs[n + 1] = other[n + 1]
    BY <2>1
  <2>5. CASE n + 1 = 1
    BY <1>1, <2>2, <2>4, <2>5, SMTT(30)
  <2>6. CASE n + 1 # 1
    <3>1. f[n + 1] = f[n] \o seqs[n + 1] /\ g[n + 1] = g[n] \o other[n + 1]
      BY <1>1, <2>2, <2>6
    <3>2. f[n] = g[n]
      BY <1>3, <2>3, <2>6
    <3> QED  BY <2>4, <3>1, <3>2
  <2> QED  BY <2>5, <2>6
<1> HIDE DEF Good
<1>4. \A n \in Nat : n \in Good
  BY <1>2, <1>3, SetInduction
<1> USE DEF Good
<1>5. k \in Nat /\ k \in 1 .. k
  BY SMTT(30)
<1> QED  BY <1>4, <1>5 DEF f, g

LEMMA FlattenAppend ==
    ASSUME NEW S, NEW seqs \in Seq(Seq(S)), NEW s \in Seq(S), seqs # <<>>
    PROVE  /\ Flatten(seqs) \in Seq(S)
           /\ Flatten(Append(seqs, s)) = Flatten(seqs) \o s
<1> DEFINE more == Append(seqs, s)
           n == Len(seqs)
<1>1. /\ more \in Seq(Seq(S)) /\ more # <<>> /\ Len(more) = n + 1 /\ more[n + 1] = s
      /\ \A i \in 1 .. n : more[i] = seqs[i]
      /\ n \in Nat /\ n # 0
  BY SMTT(30)
<1> USE <1>1
<1> HIDE DEF more, n
<1>2. n \in 1 .. Len(more) /\ n \in 1 .. n /\ n <= n /\ n + 1 \in 1 .. Len(more) /\ n + 1 # 1 /\ (n + 1) - 1 = n
  BY SMTT(30)
<1>3. Fronts(more)[n] = Fronts(seqs)[n]
  BY <1>2, FrontsAgree DEF n
<1>4. Flatten(seqs) = Fronts(seqs)[n] /\ Fronts(seqs)[n] \in Seq(S)
  BY <1>2, FrontsEffect DEF n
<1>5. Flatten(more) = Fronts(more)[n + 1]
  BY FrontsEffect
<1>6. Fronts(more)[n + 1] = Fronts(more)[n] \o more[n + 1]
  BY <1>2, FrontsEffect
<1> QED  BY <1>3, <1>4, <1>5, <1>6 DEF more

LEMMA FlattenOne ==
    ASSUME NEW S, NEW s \in Seq(S)
    PROVE  Flatten(<<s>>) = s
<1>1. <<s>> \in Seq(Seq(S)) /\ <<s>> # <<>> /\ Len(<<s>>) = 1 /\ <<s>>[1] = s /\ 1 \in 1 .. 1
  BY SMTT(30)
<1> QED  BY <1>1, FrontsEffect

LEMMA ConcatAssociative ==
    ASSUME NEW S, NEW s \in Seq(S), NEW r \in Seq(S), NEW u \in Seq(S)
    PROVE  (s \o r) \o u = s \o (r \o u)
BY SMTT(30)

LEMMA FlattenHead ==
    ASSUME NEW S, NEW seqs \in Seq(Seq(S)), Len(seqs) >= 2
    PROVE  Flatten(seqs) = Head(seqs) \o Flatten(Tail(seqs))
<1> DEFINE tail == Tail(seqs)
           f == Fronts(seqs)
           g == Fronts(tail)
           Good == {n \in Nat : n \in 1 .. Len(tail) => f[n + 1] = seqs[1] \o g[n]}
<1>1. /\ tail \in Seq(Seq(S)) /\ tail # <<>> /\ Len(tail) = Len(seqs) - 1
      /\ \A i \in 1 .. Len(tail) : tail[i] = seqs[i + 1]
      /\ Head(seqs) = seqs[1] /\ seqs # <<>> /\ seqs[1] \in Seq(S)
      /\ Len(seqs) \in Nat
  <2>1. /\ tail \in Seq(Seq(S)) /\ Len(tail) = Len(seqs) - 1
        /\ \A i \in 1 .. Len(seqs) - 1 : tail[i] = seqs[i + 1]
        /\ Head(seqs) = seqs[1]
    <3>1. seqs # <<>>
      BY SMTT(30)
    <3> QED  BY <3>1, TailEffect, SMTT(30)
  <2>2. Len(seqs) \in Nat /\ seqs[1] \in Seq(S) /\ seqs # <<>>
    BY SMTT(30)
  <2> HIDE DEF tail
  <2> QED  BY <2>1, <2>2, SMTT(30)
<1> USE <1>1
<1> HIDE DEF tail
<1>2. /\ \A i \in 1 .. Len(seqs) : f[i] = IF i = 1 THEN seqs[i] ELSE f[i - 1] \o seqs[i]
      /\ \A i \in 1 .. Len(tail) : g[i] = IF i = 1 THEN tail[i] ELSE g[i - 1] \o tail[i]
      /\ \A i \in 1 .. Len(tail) : g[i] \in Seq(S)
      /\ Flatten(seqs) = f[Len(seqs)] /\ Flatten(tail) = g[Len(tail)]
  BY FrontsEffect
<1> USE <1>2
<1> HIDE DEF f, g
<1>3. 0 \in Good
  BY SMTT(30)
<1>4. ASSUME NEW n \in Nat, n \in Good
      PROVE  n + 1 \in Good
  <2>1. SUFFICES ASSUME n + 1 \in 1 .. Len(tail)
                 PROVE  f[(n + 1) + 1] = seqs[1] \o g[n + 1]
    <3>1. n + 1 \in Nat
      BY SMTT(30)
    <3> QED  BY <2>1, <3>1
  <2>2. /\ (n + 1) + 1 \in 1 .. Len(seqs) /\ (n + 1) + 1 # 1 /\ ((n + 1) + 1) - 1 = n + 1
        /\ (n + 1) - 1 = n /\ n + 1 \in 1 .. Len(seqs)
    BY <2>1, SMTT(30)
  <2>3. f[(n + 1) + 1] = f[n + 1] \o tail[n + 1]
    BY <2>1, <2>2
  <2>4. CASE n = 0
    <3>1. f[n + 1] = seqs[1] /\ g[n + 1] = tail[n + 1]
      BY <2>1, <2>2, <2>4, SMTT(30)
    <3> QED  BY <2>3, <3>1
  <2>5. CASE n # 0
    <3>1. n \in 1 .. Len(tail) /\ n + 1 # 1
      BY <2>1, <2>5, SMTT(30)
    <3>2. f[n + 1] = seqs[1] \o g[n] /\ g[n + 1] = g[n] \o tail[n + 1]
      BY <1>4, <2>1, <2>2, <3>1
    <3>3. tail[n + 1] \in Seq(S) /\ g[n] \in Seq(S)
      <4>1. tail[n + 1] \in Seq(S)
        BY <2>1, SMTT(30)
      <4> QED  BY <3>1, <4>1
    <3> DEFINE a == seqs[1]
               b == g[n]
               c == tail[n + 1]
    <3>4. a \in Seq(S) /\ b \in Seq(S) /\ c \in Seq(S)
      BY <3>3
    <3>5. f[(n + 1) + 1] = (a \o b) \o c /\ seqs[1] \o g[n + 1] = a \o (b \o c)
      BY <2>3, <3>2
    <3> HIDE DEF a, b, c
    <3> HIDE <1>1, <1>2
    <3>6. (a \o b) \o c = a \o (b \o c)
      BY <3>4, SMTT(30)
    <3> QED  BY <3>5, <3>6
  <2> QED  BY <2>4, <2>5
<1> HIDE DEF Good
<1>5. \A n \in Nat : n \in Good
  BY <1>3, <1>4, SetInduction
<1> USE DEF Good
<1>6. Len(tail) \in Nat /\ Len(tail) \in 1 .. Len(tail) /\ Len(tail) + 1 = Len(seqs)
  BY SMTT(30)
<1>7. f[Len(tail) + 1] = seqs[1] \o g[Len(tail)]
  BY <1>5, <1>6
<1> QED  BY <1>6, <1>7 DEF tail

LEMMA ConcatRange ==
    ASSUME NEW S, NEW s \in Seq(S), NEW r \in Seq(S)
    PROVE  Range(s \o r) = Range(s) \cup Range(r)
<1>1. /\ DOMAIN s = 1 .. Len(s) /\ DOMAIN r = 1 .. Len(r) /\ Len(s) \in Nat /\ Len(r) \in Nat
      /\ DOMAIN (s \o r) = 1 .. Len(s) + Len(r)
  BY SMTT(30)
<1> USE <1>1
<1>2. \A i \in 1..Len(s) + Len(r) :
          (s \o r)[i] = IF i <= Len(s) THEN s[i] ELSE r[i - Len(s)]
  BY ConcatEffect
<1>3. ASSUME NEW i \in 1 .. Len(s) + Len(r)
      PROVE  (s \o r)[i] \in Range(s) \cup Range(r)
  <2>1. i \in 1 .. Len(s) \/ (~(i <= Len(s)) /\ i - Len(s) \in 1 .. Len(r))
    BY <1>1, SMTT(30)
  <2>2. i \in 1 .. Len(s) => i <= Len(s)
    BY <1>1, SMTT(30)
  <2> QED  BY <1>1, <1>2, <2>1, <2>2 DEF Range
<1>4. ASSUME NEW i \in 1 .. Len(s)
      PROVE  s[i] \in Range(s \o r)
  <2>1. i \in 1 .. Len(s) + Len(r) /\ i <= Len(s)
    BY SMTT(30)
  <2> QED  BY <1>2, <2>1 DEF Range
<1>5. ASSUME NEW i \in 1 .. Len(r)
      PROVE  r[i] \in Range(s \o r)
  <2>1. Len(s) + i \in 1 .. Len(s) + Len(r) /\ ~(Len(s) + i <= Len(s)) /\ (Len(s) + i) - Len(s) = i
    BY SMTT(30)
  <2>2. (s \o r)[Len(s) + i] = r[i]
    BY <1>2, <2>1
  <2> QED  BY <2>1, <2>2 DEF Range
<1>6. Range(s \o r) \subseteq Range(s) \cup Range(r)
  BY <1>3 DEF Range
<1>7. Range(s) \subseteq Range(s \o r) /\ Range(r) \subseteq Range(s \o r)
  BY <1>4, <1>5 DEF Range
<1> QED  BY <1>6, <1>7

LEMMA FlattenRange ==
    ASSUME NEW S, NEW seqs \in Seq(Seq(S)), seqs # <<>>, NEW x
    PROVE  x \in Range(Flatten(seqs)) <=> \E i \in 1 .. Len(seqs) : x \in Range(seqs[i])
<1> DEFINE f == Fronts(seqs)
           Good == {n \in Nat : n \in 1 .. Len(seqs) =>
                      (x \in Range(f[n]) <=> \E i \in 1 .. n : x \in Range(seqs[i]))}
<1>1. /\ \A i \in 1 .. Len(seqs) : f[i] = IF i = 1 THEN seqs[i] ELSE f[i - 1] \o seqs[i]
      /\ \A i \in 1 .. Len(seqs) : f[i] \in Seq(S)
      /\ Flatten(seqs) = f[Len(seqs)]
  BY FrontsEffect
<1> HIDE DEF f
<1>2. 0 \in Good
  BY SMTT(30)
<1>3. ASSUME NEW n \in Nat, n \in Good
      PROVE  n + 1 \in Good
  <2>1. SUFFICES ASSUME n + 1 \in 1 .. Len(seqs)
                 PROVE  x \in Range(f[n + 1]) <=> \E i \in 1 .. n + 1 : x \in Range(seqs[i])
    <3>1. n + 1 \in Nat
      BY SMTT(30)
    <3> QED  BY <2>1, <3>1
  <2>2. CASE n = 0
    <3>1. f[1] = seqs[1] /\ \A i \in 1 .. 1 : i = 1
      BY <1>1, <2>1, <2>2, SMTT(30)
    <3>2. n + 1 = 1 /\ 1 \in 1 .. 1
      BY <2>2, SMTT(30)
    <3> QED  BY <3>1, <3>2
  <2>3. CASE n # 0
    <3>1. /\ n \in 1 .. Len(seqs) /\ n + 1 # 1 /\ (n + 1) - 1 = n
          /\ \A i : i \in 1 .. n + 1 <=> i \in 1 .. n \/ i = n + 1
      BY <2>1, <2>3, SMTT(30)
    <3>2. f[n + 1] = f[n] \o seqs[n + 1] /\ f[n] \in Seq(S)
      BY <1>1, <2>1, <3>1
    <3>3. seqs[n + 1] \in Seq(S)
      BY <2>1, SMTT(30)
    <3>4. Range(f[n] \o seqs[n + 1]) = Range(f[n]) \cup Range(seqs[n + 1])
      BY <3>2, <3>3, ConcatRange, SMTT(30)
    <3>5. x \in Range(f[n]) <=> \E i \in 1 .. n : x \in Range(seqs[i])
      BY <1>3, <3>1
    <3> QED  BY <3>1, <3>2, <3>4, <3>5
  <2> QED  BY <2>2, <2>3, SMTT(30)
<1> HIDE DEF Good
<1>4. \A n \in Nat : n \in Good
  BY <1>2, <1>3, SetInduction
<1> USE DEF Good
<1>5. Len(seqs) \in Nat /\ Len(seqs) \in 1 .. Len(seqs)
  BY SMTT(30)
<1> QED  BY <1>1, <1>4, <1>5

-----------------------------------------------------------------------------
(***************************************************************************)
(* The line of a queue.                                                    *)
(***************************************************************************)
Contents(bs) == [i \in DOMAIN bs |-> bs[i].tasks]

LEMMA SameContents ==
    ASSUME NEW S, NEW r \in Seq(S), NEW s \in Seq(S), Len(r) = Len(s),
           \A i \in 1 .. Len(s) : r[i] = s[i]
    PROVE  r = s
BY SMTT(30)

LEMMA ContentsType ==
    ASSUME NEW bs \in Seq(BatchesOf(Tasks))
    PROVE  /\ Contents(bs) \in Seq(Seq(Tasks)) /\ Len(Contents(bs)) = Len(bs)
           /\ \A i \in 1 .. Len(bs) : Contents(bs)[i] = bs[i].tasks /\ bs[i].tasks \in Seq(Tasks)
           /\ bs # <<>> => Contents(bs) # <<>>
           /\ LineOf(bs) = Flatten(Contents(bs))
<1>1. \A i \in 1 .. Len(bs) : bs[i].tasks \in Seq(Tasks)
  <2>1. ASSUME NEW i \in 1 .. Len(bs) PROVE bs[i].tasks \in Seq(Tasks)
    <3>1. bs[i] \in BatchesOf(Tasks)
      BY SMTT(30)
    <3> QED  BY <3>1, SMTT(30) DEF BatchesOf
  <2> QED  BY <2>1
<1>2. DOMAIN bs = 1 .. Len(bs) /\ Len(bs) \in Nat
  BY SMTT(30)
<1>3. Contents(bs) = [i \in 1 .. Len(bs) |-> bs[i].tasks]
  BY <1>2 DEF Contents
<1>4. Contents(bs) \in Seq(Seq(Tasks)) /\ Len(Contents(bs)) = Len(bs)
  BY <1>1, <1>2, <1>3, SMTT(30)
<1>5. bs # <<>> => Contents(bs) # <<>>
  BY <1>4, SMTT(30)
<1>6. LineOf(bs) = Flatten(Contents(bs))
  BY DEF LineOf, Contents
<1> QED  BY <1>1, <1>3, <1>4, <1>5, <1>6

LEMMA LineType ==
    ASSUME NEW bs \in Seq(BatchesOf(Tasks)), bs # <<>>
    PROVE  LineOf(bs) \in Seq(Tasks)
<1>1. PICK seqs \in Seq(Seq(Tasks)) : seqs = Contents(bs) /\ seqs # <<>>
  BY ContentsType
<1>2. <<>> \in Seq(Tasks)
  BY SMTT(30)
<1> QED  BY <1>1, <1>2, ContentsType, FlattenAppend

LEMMA LineOfOne ==
    ASSUME NEW bs \in Seq(BatchesOf(Tasks)), Len(bs) = 1
    PROVE  LineOf(bs) = bs[1].tasks
<1>1. 1 \in 1 .. Len(bs)
  BY SMTT(30)
<1>2. PICK seqs \in Seq(Seq(Tasks)) : seqs = Contents(bs)
  BY ContentsType
<1>3. Len(seqs) = 1 /\ seqs[1] = bs[1].tasks /\ bs[1].tasks \in Seq(Tasks)
  BY <1>1, <1>2, ContentsType
<1>4. seqs = <<bs[1].tasks>>
  BY <1>3, SMTT(30)
<1>5. Flatten(<<bs[1].tasks>>) = bs[1].tasks
  BY <1>3, FlattenOne, SMTT(30)
<1>6. LineOf(bs) = Flatten(seqs)
  BY <1>2, ContentsType
<1> QED  BY <1>4, <1>5, <1>6

LEMMA LineOfAppend ==
    ASSUME NEW bs \in Seq(BatchesOf(Tasks)), bs # <<>>, NEW b \in BatchesOf(Tasks)
    PROVE  LineOf(Append(bs, b)) = LineOf(bs) \o b.tasks
<1>1. b.tasks \in Seq(Tasks)
  BY SMTT(30) DEF BatchesOf
<1> DEFINE more == Append(bs, b)
<1>2. /\ more \in Seq(BatchesOf(Tasks)) /\ Len(more) = Len(bs) + 1 /\ more[Len(bs) + 1] = b
      /\ \A i \in 1 .. Len(bs) : more[i] = bs[i]
  BY SMTT(30)
<1> USE <1>2
<1> HIDE DEF more
<1>3. PICK seqs \in Seq(Seq(Tasks)) :
         /\ seqs = Contents(bs) /\ seqs # <<>> /\ Len(seqs) = Len(bs)
         /\ \A i \in 1 .. Len(bs) : seqs[i] = bs[i].tasks
  BY ContentsType
<1> USE <1>3
<1>4. PICK all \in Seq(Seq(Tasks)) :
         /\ all = Contents(more) /\ Len(all) = Len(more)
         /\ \A i \in 1 .. Len(more) : all[i] = more[i].tasks
  BY ContentsType
<1> DEFINE longer == Append(seqs, b.tasks)
<1>5. /\ longer \in Seq(Seq(Tasks)) /\ Len(longer) = Len(seqs) + 1
      /\ longer[Len(seqs) + 1] = b.tasks
      /\ \A i \in 1 .. Len(seqs) : longer[i] = seqs[i]
  BY <1>1, SMTT(30)
<1> USE <1>5
<1> HIDE DEF longer
<1>6. Len(all) = Len(longer)
  BY <1>4
<1>7. ASSUME NEW i \in 1 .. Len(longer) PROVE all[i] = longer[i]
  <2>1. Len(longer) = Len(bs) + 1 /\ Len(bs) \in Nat
    BY SMTT(30)
  <2>2. i \in 1 .. Len(more) /\ (i \in 1 .. Len(bs) \/ i = Len(bs) + 1)
    BY <2>1, SMTT(30)
  <2>3. all[i] = more[i].tasks
    BY <1>4, <2>2
  <2>4. CASE i \in 1 .. Len(bs)
    BY <2>3, <2>4
  <2>5. CASE i = Len(bs) + 1
    BY <2>3, <2>5
  <2> QED  BY <2>2, <2>4, <2>5
<1>8. all = longer
  BY <1>6, <1>7, SameContents
<1>9. Flatten(longer) = Flatten(seqs) \o b.tasks
  BY <1>1, FlattenAppend DEF longer
<1> QED  BY <1>4, <1>8, <1>9, ContentsType DEF more

LEMMA LineOfTail ==
    ASSUME NEW bs \in Seq(BatchesOf(Tasks)), Len(bs) >= 2
    PROVE  LineOf(bs) = Head(bs).tasks \o LineOf(Tail(bs))
<1>0. bs # <<>> /\ Len(bs) \in Nat
  BY SMTT(30)
<1> USE <1>0
<1> DEFINE rest == Tail(bs)
<1>1. /\ rest \in Seq(BatchesOf(Tasks)) /\ Len(rest) = Len(bs) - 1 /\ Head(bs) = bs[1]
      /\ \A i \in 1 .. Len(bs) - 1 : rest[i] = bs[i + 1]
  BY TailEffect
<1> USE <1>1
<1> HIDE DEF rest
<1>2. PICK seqs \in Seq(Seq(Tasks)) :
         /\ seqs = Contents(bs) /\ seqs # <<>> /\ Len(seqs) = Len(bs)
         /\ \A i \in 1 .. Len(bs) : seqs[i] = bs[i].tasks
  BY ContentsType
<1> USE <1>2
<1>3. PICK less \in Seq(Seq(Tasks)) :
         /\ less = Contents(rest) /\ Len(less) = Len(rest)
         /\ \A i \in 1 .. Len(rest) : less[i] = rest[i].tasks
  BY ContentsType
<1> DEFINE shorter == Tail(seqs)
<1>4. /\ shorter \in Seq(Seq(Tasks)) /\ Len(shorter) = Len(seqs) - 1 /\ Head(seqs) = seqs[1]
      /\ \A i \in 1 .. Len(seqs) - 1 : shorter[i] = seqs[i + 1]
  BY TailEffect
<1> USE <1>4
<1> HIDE DEF shorter
<1>5. Len(less) = Len(shorter)
  BY <1>3
<1>6. ASSUME NEW i \in 1 .. Len(shorter) PROVE less[i] = shorter[i]
  <2>1. /\ i \in 1 .. Len(rest) /\ i \in 1 .. Len(bs) - 1 /\ i \in 1 .. Len(seqs) - 1
        /\ i + 1 \in 1 .. Len(bs)
    BY SMTT(30)
  <2>2. less[i] = rest[i].tasks
    BY <1>3, <2>1
  <2>3. rest[i] = bs[i + 1]
    BY <2>1
  <2>4. shorter[i] = bs[i + 1].tasks
    BY <2>1
  <2> QED  BY <2>2, <2>3, <2>4
<1>7. less = shorter
  BY <1>5, <1>6, SameContents
<1>8. Flatten(seqs) = Head(seqs) \o Flatten(shorter)
  BY FlattenHead DEF shorter
<1>9. Head(seqs) = Head(bs).tasks
  BY SMTT(30)
<1> QED  BY <1>3, <1>7, <1>8, <1>9, ContentsType DEF rest

LEMMA LineRange ==
    ASSUME NEW bs \in Seq(BatchesOf(Tasks)), bs # <<>>, NEW t
    PROVE  t \in Range(LineOf(bs)) <=> \E i \in 1 .. Len(bs) : t \in Range(bs[i].tasks)
<1>1. PICK seqs \in Seq(Seq(Tasks)) :
         /\ seqs = Contents(bs) /\ seqs # <<>> /\ Len(seqs) = Len(bs)
         /\ \A i \in 1 .. Len(bs) : seqs[i] = bs[i].tasks
  BY ContentsType
<1>2. t \in Range(Flatten(seqs)) <=> \E i \in 1 .. Len(seqs) : t \in Range(seqs[i])
  BY <1>1, FlattenRange
<1> QED  BY <1>1, <1>2, ContentsType

\* AddTask() puts the task at the end of the line.
LEMMA LineOfAddTask ==
    ASSUME NEW bs \in Seq(BatchesOf(Tasks)), bs # <<>>, NEW b \in BatchesOf(Tasks), NEW t \in Tasks,
           b.tasks = Append(bs[Len(bs)].tasks, t)
    PROVE  LineOf([bs EXCEPT ![Len(bs)] = b]) = Append(LineOf(bs), t)
<1> DEFINE n == Len(bs)
           new == [bs EXCEPT ![n] = b]
           last == bs[n]
<1>1. n \in Nat /\ n # 0 /\ n \in 1 .. n /\ last \in BatchesOf(Tasks)
  BY SMTT(30)
<1> USE <1>1
<1>2. /\ new \in Seq(BatchesOf(Tasks)) /\ Len(new) = n /\ new[n] = b
      /\ \A i \in 1 .. n : i # n => new[i] = bs[i]
  BY SMTT(30)
<1>3. last.tasks \in Seq(Tasks)
  BY SMTT(30) DEF BatchesOf
<1> HIDE DEF new, last
<1>4. CASE n = 1
  <2>1. LineOf(bs) = bs[1].tasks /\ LineOf(new) = new[1].tasks
    BY <1>2, <1>4, LineOfOne
  <2> QED  BY <1>2, <1>4, <2>1 DEF new
<1>5. CASE n # 1
  <2>1. PICK front \in Seq(BatchesOf(Tasks)) :
           Len(front) = n - 1 /\ \A i \in 1 .. n - 1 : front[i] = bs[i]
    <3> DEFINE front == [i \in 1 .. n - 1 |-> bs[i]]
    <3>1. n - 1 \in Nat /\ \A i \in 1 .. n - 1 : bs[i] \in BatchesOf(Tasks)
      BY SMTT(30)
    <3>2. front \in Seq(BatchesOf(Tasks)) /\ Len(front) = n - 1
      BY <3>1, SMTT(30)
    <3>3. \A i \in 1 .. n - 1 : front[i] = bs[i]
      BY SMTT(30)
    <3> HIDE DEF front
    <3> QED  BY <3>2, <3>3
  <2>2. front # <<>> /\ (n - 1) + 1 = n /\ n - 1 \in Nat
    BY <1>5, <2>1, SMTT(30)
  <2>3. ASSUME NEW x \in BatchesOf(Tasks), NEW s \in Seq(BatchesOf(Tasks)), Len(s) = n, s[n] = x,
               \A i \in 1 .. n : i # n => s[i] = bs[i]
        PROVE  s = Append(front, x)
    <3> DEFINE r == Append(front, x)
    <3>1. /\ r \in Seq(BatchesOf(Tasks)) /\ Len(r) = Len(front) + 1 /\ r[Len(front) + 1] = x
          /\ \A i \in 1 .. Len(front) : r[i] = front[i]
      BY SMTT(30)
    <3> HIDE DEF r
    <3>2. Len(r) = n /\ r[n] = x
      BY <2>1, <2>2, <3>1
    <3>3. ASSUME NEW i \in 1 .. n PROVE s[i] = r[i]
      <4>1. CASE i = n
        BY <2>3, <3>2, <4>1
      <4>2. CASE i # n
        <5>1. i \in 1 .. n - 1
          BY <4>2, SMTT(30)
        <5> QED  BY <2>1, <2>3, <3>1, <4>2, <5>1
      <4> QED  BY <4>1, <4>2
    <3>4. s = r
      BY <2>3, <3>1, <3>2, <3>3, SameContents
    <3> QED  BY <3>4 DEF r
  <2>4. bs = Append(front, last)
    BY <2>3 DEF last
  <2>5. new = Append(front, b)
    BY <1>2, <2>3
  <2>6. LineOf(bs) = LineOf(front) \o last.tasks /\ LineOf(new) = LineOf(front) \o b.tasks
    BY <2>2, <2>4, <2>5, LineOfAppend
  <2>7. b.tasks = Append(last.tasks, t)
    BY DEF last
  <2>8. PICK l \in Seq(Tasks), r \in Seq(Tasks) : l = LineOf(front) /\ r = last.tasks
    BY <1>3, <2>2, LineType
  <2>9. l \o Append(r, t) = Append(l \o r, t)
    BY <2>8, SMTT(30)
  <2> QED  BY <2>6, <2>7, <2>8, <2>9 DEF new
<1> QED  BY <1>4, <1>5

-----------------------------------------------------------------------------
(***************************************************************************)
(* Batches.                                                                *)
(***************************************************************************)
LEMMA EmptyBatchType == EmptyBatch \in BatchesOf(Tasks) /\ EmptyBatch.tasks = <<>> /\ EmptyBatch.size = 0
BY SMTT(30) DEF EmptyBatch, BatchesOf

LEMMA AddTaskEffect ==
    ASSUME NEW b \in BatchesOf(Tasks), NEW t \in Tasks
    PROVE  /\ AddTask(b, t, Size[t]) \in BatchesOf(Tasks)
           /\ AddTask(b, t, Size[t]).size = b.size + Size[t]
           /\ AddTask(b, t, Size[t]).tasks = Append(b.tasks, t)
           /\ AddTask(b, t, Size[t]).tasks # <<>>
<1>1. b.tasks \in Seq(Tasks) /\ b.size \in Nat /\ Size[t] \in Nat
  BY ConstantTypes, SMTT(30) DEF BatchesOf
<1>2. Append(b.tasks, t) \in Seq(Tasks) /\ Len(Append(b.tasks, t)) = Len(b.tasks) + 1
      /\ Len(b.tasks) \in Nat
  BY <1>1, AppendEffect, SMTT(30)
<1>3. Append(b.tasks, t) # <<>>
  BY <1>2, SMTT(30)
<1> QED  BY <1>1, <1>2, <1>3, SMTT(30) DEF AddTask, BatchesOf

LEMMA AddTaskOfQueue ==
    ASSUME NEW b \in BatchesOf(Tasks), NEW t \in Tasks, OfQueue(b, QueueOf[t])
    PROVE  OfQueue(AddTask(b, t, Size[t]), QueueOf[t])
<1>1. b.tasks \in Seq(Tasks)
  BY SMTT(30) DEF BatchesOf
<1>2. AddTask(b, t, Size[t]).tasks = Append(b.tasks, t)
  BY AddTaskEffect
<1>3. \A k \in 1..Len(b.tasks) : QueueOf[b.tasks[k]] = QueueOf[t]
  BY DEF OfQueue
<1>4. \A k \in 1..Len(Append(b.tasks, t)) : QueueOf[Append(b.tasks, t)[k]] = QueueOf[t]
  <2> SUFFICES ASSUME NEW k \in 1..Len(Append(b.tasks, t))
               PROVE  QueueOf[Append(b.tasks, t)[k]] = QueueOf[t]
    OBVIOUS
  <2>1. k \in 1..Len(b.tasks) \/ k = Len(b.tasks) + 1
    BY <1>1, AppendEffect, SMTT(30)
  <2>2. Append(b.tasks, t)[k] = t \/ (k \in 1..Len(b.tasks) /\ Append(b.tasks, t)[k] = b.tasks[k])
    BY <1>1, <2>1, AppendEffect, SMTT(30)
  <2> QED  BY <1>3, <2>2
<1> QED  BY <1>2, <1>4 DEF OfQueue

-----------------------------------------------------------------------------
(***************************************************************************)
(* What Schedule() and ScheduleBatch() do to a queue.                      *)
(***************************************************************************)
LEMMA EmptyOfQueue == \A q : OfQueue(EmptyBatch, q)
BY EmptyBatchType, SMTT(30) DEF OfQueue

\* Task t comes to queue q, whose batches become bs.
Enqueues(t, q, bs, late, ready) ==
    /\ q \in Queues /\ handle[q] = "open"
    /\ bs # <<>> /\ Len(bs) \in Nat /\ \A i \in 1..Len(bs) : OfQueue(bs[i], q)
    /\ ~IsEmptyBatch(OpenBatch(bs)) /\ OpenBatch(bs).size <= MaxBatchSize[q]
    /\ \/ /\ FitsOpenBatch(t) /\ Len(bs) = Len(batches[q])
          /\ OpenBatch(bs).size = OpenBatch(batches[q]).size + Size[t]
       \/ /\ ~FitsOpenBatch(t) /\ Len(bs) = Len(batches[q]) + 1
          /\ OpenBatch(bs).size = 0 + Size[t]
    /\ Len(bs) > 1 \/ OpenBatch(bs).size >= MaxBatchSize[q] => ready
    /\ batches' = [batches EXCEPT ![q] = bs]
    /\ elapsed' = [elapsed EXCEPT ![q] = late]
    /\ schedulable' = [schedulable EXCEPT ![q] = schedulable[q] \/ ready]
    /\ notifying' = IF ready /\ ~schedulable[q] THEN notifying \cup {t} ELSE notifying

LEMMA ScheduleEffect ==
    ASSUME TypeOK, BatchInv, NEW t \in Tasks, Schedule(t), NEW q, q = QueueOf[t]
    PROVE  \E bs \in Seq(BatchesOf(Tasks)), late, ready \in BOOLEAN : Enqueues(t, q, bs, late, ready)
<1> DEFINE room  == IF FitsOpenBatch(t) THEN batches[q] ELSE StartNewBatch(batches[q])
           late  == IF IsEmptyBatch(OpenBatch(room)) THEN q \in ZeroTimeout ELSE elapsed[q]
           bs    == [room EXCEPT ![Len(room)] = AddTask(room[Len(room)], t, Size[t])]
           ready == Len(bs) > 1 \/ IsOpenBatchSchedulable(q, bs, late)
<1>1. /\ handle[q] = "open" /\ ScheduleStatus(t) = "OK"
      /\ batches' = [batches EXCEPT ![q] = bs]
      /\ elapsed' = [elapsed EXCEPT ![q] = late]
      /\ schedulable' = [schedulable EXCEPT ![q] = schedulable[q] \/ ready]
      /\ notifying' = IF ready /\ ~schedulable[q] THEN notifying \cup {t} ELSE notifying
  BY DEF Schedule, MaySchedule
<1>2. /\ q \in Queues /\ Size[t] \in Nat /\ MaxBatchSize[q] \in Nat \ {0}
      /\ batches[q] \in Seq(BatchesOf(Tasks)) /\ batches[q] # <<>>
      /\ \A i \in 1..Len(batches[q]) : OfQueue(batches[q][i], q)
      /\ elapsed[q] \in BOOLEAN
  BY ConstantTypes DEF TypeOK, BatchInv, BatchesOK
<1> USE <1>2
<1>3. Len(batches[q]) \in Nat \ {0} /\ batches[q][Len(batches[q])] \in BatchesOf(Tasks)
  BY SMTT(30)
<1>4. Size[t] <= MaxBatchSize[q]
  <2>1. ~(Size[t] > MaxBatchSize[QueueOf[t]])
    BY <1>1, SMTT(30) DEF ScheduleStatus
  <2> QED  BY <2>1, SMTT(30)
<1>5. /\ room \in Seq(BatchesOf(Tasks)) /\ Len(room) \in Nat \ {0}
      /\ \A i \in 1..Len(room) : OfQueue(room[i], q)
      /\ room[Len(room)] \in BatchesOf(Tasks)
      /\ room[Len(room)].size + Size[t] <= MaxBatchSize[q]
      /\ \/ /\ FitsOpenBatch(t) /\ Len(room) = Len(batches[q])
            /\ room[Len(room)].size = OpenBatch(batches[q]).size
         \/ ~FitsOpenBatch(t) /\ Len(room) = Len(batches[q]) + 1 /\ room[Len(room)].size = 0
  <2>1. CASE FitsOpenBatch(t)
    <3>1. batches[q][Len(batches[q])].size + Size[t] <= MaxBatchSize[q]
      BY <2>1 DEF FitsOpenBatch, OpenBatch
    <3> QED  BY <1>3, <2>1, <3>1 DEF OpenBatch
  <2>2. CASE ~FitsOpenBatch(t)
    <3>1. room = Append(batches[q], EmptyBatch)
      BY <2>2 DEF StartNewBatch
    <3> HIDE DEF room
    <3>2. /\ room \in Seq(BatchesOf(Tasks)) /\ Len(room) = Len(batches[q]) + 1
          /\ room[Len(batches[q]) + 1] = EmptyBatch
          /\ \A i \in 1..Len(batches[q]) : room[i] = batches[q][i]
      BY <3>1, AppendEffect, EmptyBatchType, SMTT(30)
    <3> USE <3>2
    <3>3. Len(room) \in Nat \ {0} /\ \A i \in 1..Len(room) : i \in 1..Len(batches[q]) \/ i = Len(batches[q]) + 1
      BY <1>3, SMTT(30)
    <3>4. \A i \in 1..Len(room) : OfQueue(room[i], q)
      BY <3>3, EmptyOfQueue
    <3>5. room[Len(room)] = EmptyBatch
      OBVIOUS
    <3>6. room[Len(room)].size + Size[t] <= MaxBatchSize[q]
      BY <1>4, <3>5, EmptyBatchType, SMTT(30)
    <3> QED  BY <2>2, <3>3, <3>4, <3>5, <3>6, EmptyBatchType
  <2> QED  BY <2>1, <2>2
<1> USE <1>5
<1> HIDE DEF room
<1>6. /\ AddTask(room[Len(room)], t, Size[t]) \in BatchesOf(Tasks)
      /\ AddTask(room[Len(room)], t, Size[t]).size <= MaxBatchSize[q]
      /\ AddTask(room[Len(room)], t, Size[t]).tasks # <<>>
      /\ OfQueue(AddTask(room[Len(room)], t, Size[t]), q)
      /\ AddTask(room[Len(room)], t, Size[t]).size = room[Len(room)].size + Size[t]
  <2>1. Len(room) \in 1..Len(room)
    BY SMTT(30)
  <2>2. OfQueue(room[Len(room)], QueueOf[t])
    BY <2>1
  <2> QED  BY <2>2, AddTaskEffect, AddTaskOfQueue
<1> USE <1>6
<1>7. /\ bs \in Seq(BatchesOf(Tasks)) /\ Len(bs) = Len(room)
      /\ bs[Len(room)] = AddTask(room[Len(room)], t, Size[t])
      /\ \A i \in 1..Len(bs) : i # Len(room) => bs[i] = room[i]
  BY SMTT(30)
<1> USE <1>7
<1>8. \A i \in 1..Len(bs) : OfQueue(bs[i], q)
  OBVIOUS
<1>9. bs # <<>> /\ Len(bs) \in Nat
  OBVIOUS
<1>10. OpenBatch(bs) = AddTask(room[Len(room)], t, Size[t])
  BY DEF OpenBatch
<1>11. ~IsEmptyBatch(OpenBatch(bs)) /\ OpenBatch(bs).size <= MaxBatchSize[q]
  BY <1>10 DEF IsEmptyBatch
<1>12. late \in BOOLEAN
  <2> HIDE <1>5, <1>6, <1>7
  <2>1. (q \in ZeroTimeout) \in BOOLEAN
    BY SMTT(30)
  <2> QED  BY <2>1
<1> HIDE DEF bs, late
<1>13. Len(bs) > 1 \/ OpenBatch(bs).size >= MaxBatchSize[q] => ready
  BY <1>11 DEF IsOpenBatchSchedulable
<1>14. ready \in BOOLEAN
  BY DEF IsOpenBatchSchedulable
<1> HIDE DEF ready
<1>15. \/ /\ FitsOpenBatch(t) /\ Len(bs) = Len(batches[q])
          /\ OpenBatch(bs).size = OpenBatch(batches[q]).size + Size[t]
       \/ /\ ~FitsOpenBatch(t) /\ Len(bs) = Len(batches[q]) + 1
          /\ OpenBatch(bs).size = 0 + Size[t]
  BY <1>10
<1>16. Enqueues(t, q, bs, late, ready)
  BY <1>1, <1>8, <1>9, <1>11, <1>13, <1>15 DEF Enqueues
<1> QED  BY <1>12, <1>14, <1>16

\* The scan under way is at a queue of the list.
LEMMA ScanIsAtAQueue ==
    ASSUME TypeOK, ListInv, scan # NoScan
    PROVE  /\ Len(queues) \in Nat /\ next \in 1..Len(queues) /\ queues[next] \in Queues
           /\ scan \in Scans /\ scan.thread \in Threads /\ pc[scan.thread] = "scan"
           /\ scan.num_queues \in Nat /\ scan.tried \in Nat
           /\ scan.tried < scan.num_queues /\ scan.num_queues - scan.tried <= Len(queues)
           /\ scan.batch \in BatchesOf(Tasks) \cup {NoBatch}
           /\ \A i \in 1..Len(queues) : queues[i] \in Queues
<1>1. /\ scan \in Scans /\ next \in 1..Len(queues) /\ queues \in Seq(Queues)
      /\ scan.tried < scan.num_queues /\ scan.num_queues - scan.tried <= Len(queues)
      /\ \A th \in Threads : scan.thread = th => pc[th] = "scan"
  BY DEF TypeOK, ListInv, PositionOK, ScanOK, ThreadsOK, Scanning
<1>2. /\ scan.thread \in Threads /\ scan.num_queues \in Nat /\ scan.tried \in Nat
      /\ scan.batch \in BatchesOf(Tasks) \cup {NoBatch}
  BY <1>1, SMTT(30) DEF Scans
<1>3. Len(queues) \in Nat /\ \A i \in 1..Len(queues) : queues[i] \in Queues
  BY <1>1, SMTT(30)
<1> QED  BY <1>1, <1>2, <1>3

LEMMA OneOrMore ==
    ASSUME NEW n \in Nat, n >= 1
    PROVE  \/ n = 1 /\ ~(n >= 2)
           \/ n # 1 /\ n >= 2 /\ n > 1
BY SMTT(30)

\* The scan takes batch b from queue q, whose batches become bs.
TakesBatch(q, b, bs, late) ==
    /\ ~(Len(batches[q]) = 1 /\ IsEmptyBatch(OpenBatch(batches[q])))
    /\ OfQueue(b, q)
    /\ bs # <<>> /\ Len(bs) \in Nat /\ \A i \in 1..Len(bs) : OfQueue(bs[i], q)
    /\ \/ /\ OpenBatch(bs) = OpenBatch(batches[q])
          /\ Len(batches[q]) > 1 /\ Len(bs) = Len(batches[q]) - 1
       \/ OpenBatch(bs) = EmptyBatch /\ Len(bs) = 1 /\ Len(batches[q]) = 1
    /\ numProcessing' = [numProcessing EXCEPT ![q] = numProcessing[q] + 1]
    /\ batches' = [batches EXCEPT ![q] = bs]
    /\ elapsed' = [elapsed EXCEPT ![q] = late]
    /\ scan' = [scan EXCEPT !.at = "IsEmpty()", !.batch = b]
    /\ schedulable' = schedulable

FindsNoBatch(q) ==
    /\ Len(batches[q]) = 1 /\ ~IsOpenBatchSchedulable(q, batches[q], elapsed[q])
    /\ schedulable' = [schedulable EXCEPT ![q] = FALSE]
    /\ scan' = [scan EXCEPT !.at = "IsEmpty()"]
    /\ UNCHANGED <<numProcessing, batches, elapsed>>

LEMMA ScheduleBatchEffect ==
    ASSUME TypeOK, ListInv, BatchInv, ScheduleBatch, NEW q, q = queues[next]
    PROVE  \/ \E b \in BatchesOf(Tasks), bs \in Seq(BatchesOf(Tasks)), late \in BOOLEAN :
                  TakesBatch(q, b, bs, late)
           \/ FindsNoBatch(q)
<1> DEFINE started == Len(batches[q]) = 1 /\ IsOpenBatchSchedulable(q, batches[q], elapsed[q])
           all == IF started THEN StartNewBatch(batches[q]) ELSE batches[q]
<1>1. /\ scan # NoScan
      /\ IF Len(all) >= 2
         THEN /\ numProcessing' = [numProcessing EXCEPT ![q] = numProcessing[q] + 1]
              /\ batches' = [batches EXCEPT ![q] = Tail(all)]
              /\ elapsed' = [elapsed EXCEPT ![q] = elapsed[q] /\ Len(batches[q]) > 1]
              /\ scan' = [scan EXCEPT !.at = "IsEmpty()", !.batch = Head(all)]
              /\ UNCHANGED schedulable
         ELSE /\ schedulable' = [schedulable EXCEPT ![q] = FALSE]
              /\ scan' = [scan EXCEPT !.at = "IsEmpty()"]
              /\ UNCHANGED <<numProcessing, batches, elapsed>>
  BY DEF ScheduleBatch
<1> USE <1>1
<1>2. /\ q \in Queues
      /\ batches[q] \in Seq(BatchesOf(Tasks)) /\ batches[q] # <<>>
      /\ \A i \in 1..Len(batches[q]) : OfQueue(batches[q][i], q)
      /\ elapsed[q] \in BOOLEAN
  BY ScanIsAtAQueue DEF TypeOK, BatchInv, BatchesOK
<1> USE <1>2
<1>3. Len(batches[q]) \in Nat /\ Len(batches[q]) >= 1
  BY SMTT(30)
<1> USE <1>3
<1>4. ASSUME NEW s \in Seq(BatchesOf(Tasks)), Len(s) \in Nat, Len(s) >= 2,
             \A i \in 1..Len(s) : OfQueue(s[i], q)
      PROVE  /\ Head(s) \in BatchesOf(Tasks) /\ OfQueue(Head(s), q)
             /\ Tail(s) \in Seq(BatchesOf(Tasks)) /\ Len(Tail(s)) = Len(s) - 1
             /\ Tail(s) # <<>> /\ Len(Tail(s)) \in Nat
             /\ \A i \in 1..Len(Tail(s)) : OfQueue(Tail(s)[i], q)
             /\ OpenBatch(Tail(s)) = OpenBatch(s)
  <2>1. /\ Head(s) = s[1] /\ s[1] \in BatchesOf(Tasks)
        /\ Tail(s) \in Seq(BatchesOf(Tasks)) /\ Len(Tail(s)) = Len(s) - 1
        /\ \A i \in 1..Len(s) - 1 : Tail(s)[i] = s[i + 1]
    BY <1>4, TailEffect, SMTT(30)
  <2> USE <2>1
  <2>2. 1 \in 1..Len(s) /\ \A i \in 1..Len(s) - 1 : i + 1 \in 1..Len(s)
    BY <1>4, SMTT(30)
  <2>3. \A i \in 1..Len(Tail(s)) : OfQueue(Tail(s)[i], q)
    BY <1>4, <2>2
  <2>4. Tail(s)[Len(Tail(s))] = s[Len(s)]
    BY <1>4, SMTT(30)
  <2>5. Len(Tail(s)) \in Nat /\ Len(Tail(s)) # 0
    BY <1>4, SMTT(30)
  <2>6. Tail(s) # <<>>
    <3>1. Len(<<>>) = 0
      BY SMTT(30)
    <3> QED  BY <2>5, <3>1
  <2> QED  BY <1>4, <2>2, <2>3, <2>4, <2>5, <2>6 DEF OpenBatch
<1>5. (elapsed[q] /\ Len(batches[q]) > 1) \in BOOLEAN
  BY SMTT(30)
<1>6. CASE started
  <2>1. all = Append(batches[q], EmptyBatch)
    BY <1>6 DEF StartNewBatch
  <2> HIDE DEF all
  <2>2. /\ all \in Seq(BatchesOf(Tasks)) /\ Len(all) = 2
        /\ all[2] = EmptyBatch /\ all[1] = batches[q][1]
    <3>1. Len(batches[q]) = 1 /\ Len(batches[q]) + 1 = 2 /\ 1 \in 1..Len(batches[q])
      BY <1>6, SMTT(30)
    <3> QED  BY <2>1, <3>1, AppendEffect, EmptyBatchType, SMTT(30)
  <2> USE <2>2
  <2>3. \A i \in 1..Len(all) : OfQueue(all[i], q)
    <3>1. OfQueue(batches[q][1], q)
      BY SMTT(30)
    <3>2. \A i \in 1..Len(all) : i = 1 \/ i = 2
      BY SMTT(30)
    <3> QED  BY <3>1, <3>2, EmptyOfQueue
  <2>4. Len(all) \in Nat /\ Len(all) >= 2 /\ Len(all) - 1 = 1
    BY SMTT(30)
  <2>5. OpenBatch(all) = EmptyBatch
    BY DEF OpenBatch
  <2>6. ~IsEmptyBatch(OpenBatch(batches[q]))
    BY <1>6 DEF IsOpenBatchSchedulable
  <2>7. TakesBatch(q, Head(all), Tail(all), elapsed[q] /\ Len(batches[q]) > 1)
    BY <1>4, <1>6, <2>3, <2>4, <2>5, <2>6 DEF TakesBatch
  <2>8. Head(all) \in BatchesOf(Tasks) /\ Tail(all) \in Seq(BatchesOf(Tasks))
    BY <1>4, <2>3, <2>4
  <2> QED  BY <1>5, <2>7, <2>8
<1>7. CASE ~started
  <2>1. all = batches[q]
    BY <1>7
  <2> HIDE DEF all, started
  <2>2. \/ Len(batches[q]) = 1 /\ ~(Len(batches[q]) >= 2)
        \/ Len(batches[q]) # 1 /\ Len(batches[q]) >= 2 /\ Len(batches[q]) > 1
    BY OneOrMore
  <2>3. CASE Len(batches[q]) >= 2
    <3>1. /\ Head(all) \in BatchesOf(Tasks) /\ OfQueue(Head(all), q)
          /\ Tail(all) \in Seq(BatchesOf(Tasks))
          /\ Tail(all) # <<>> /\ Len(Tail(all)) \in Nat
          /\ Len(Tail(all)) = Len(batches[q]) - 1
          /\ \A i \in 1..Len(Tail(all)) : OfQueue(Tail(all)[i], q)
          /\ OpenBatch(Tail(all)) = OpenBatch(batches[q])
      BY <1>4, <2>1, <2>3
    <3>2. TakesBatch(q, Head(all), Tail(all), elapsed[q] /\ Len(batches[q]) > 1)
      BY <2>1, <2>2, <2>3, <3>1 DEF TakesBatch
    <3> QED  BY <1>5, <3>1, <3>2
  <2>4. CASE ~(Len(batches[q]) >= 2)
    BY <1>7, <2>1, <2>2, <2>4 DEF started, FindsNoBatch
  <2> QED  BY <2>3, <2>4
<1> QED  BY <1>6, <1>7

\* Steps of a thread that is neither scanning nor processing a batch.
IdleStep ==
    \/ \E t \in Tasks : NotifySchedulable(t)
    \/ \E th \in Threads : BeginScan(th) /\ queues = <<>>
    \/ \E th \in Threads : WaitTimesOut(th) \/ ThreadExits(th)

\* Steps of the clients and of the destructor that concern no list and no batch.
QuietStep ==
    \/ UNCHANGED vars
    \/ \E q \in Queues : WaitForNotificationReturns(q) \/ TimeoutElapses(q)
    \/ LastReferenceDropped \/ DestructorSeesNoQueues \/ DestructorReturns

\* The cases of every step of the proofs below.
LEMMA StepCases ==
    ASSUME [Next]_vars
    PROVE  \/ \E t \in Tasks : Schedule(t)
           \/ IdleStep
           \/ \E th \in Threads : BeginScan(th) /\ queues # <<>>
           \/ ScheduleBatch
           \/ Advance
           \/ \E th \in Threads : ProcessBatchCallback(th)
           \/ \E th \in Threads : FinishBatch(th)
           \/ \E q \in Queues : AddQueue(q)
           \/ \E q \in Queues : CloseAndWaitUntilEmpty(q)
           \/ QuietStep
BY DEF Next, ThreadLogic, Terminated, IdleStep, QuietStep

LEMMA IdleEffect ==
    ASSUME IdleStep
    PROVE  /\ UNCHANGED <<queues, next, batches, elapsed, closed, schedulable, numProcessing,
                          scan, job, handle, notification, life>>
           /\ \/ pc' = pc
              \/ \E u \in Threads, l \in {"idle", "wait", "exited"} :
                     pc[u] \in {"idle", "wait"} /\ pc' = [pc EXCEPT ![u] = l]
           /\ notifying' \subseteq notifying
<1>1. CASE \E t \in Tasks : NotifySchedulable(t)
  BY <1>1 DEF NotifySchedulable, queueVars
<1>2. CASE \E th \in Threads : (BeginScan(th) /\ queues = <<>>) \/ WaitTimesOut(th) \/ ThreadExits(th)
  BY <1>2 DEF BeginScan, WaitTimesOut, ThreadExits, clientVars, queueVars
<1> QED  BY <1>1, <1>2 DEF IdleStep

LEMMA QuietEffect ==
    ASSUME QuietStep
    PROVE  /\ UNCHANGED <<queues, next, batches, closed, schedulable, numProcessing, scan, pc, job,
                          notification, notifying>>
           /\ elapsed' = elapsed \/ \E q \in Queues : elapsed' = [elapsed EXCEPT ![q] = TRUE]
           /\ \/ handle' = handle
              \/ \E q \in Queues : /\ handle[q] = "closing" /\ notification[q] = "notified"
                                    /\ handle' = [handle EXCEPT ![q] = "destroyed"]
           /\ life' \in {life, "draining", "joining", "destroyed"}
BY DEF QuietStep, WaitForNotificationReturns, TimeoutElapses, LastReferenceDropped,
       DestructorSeesNoQueues, DestructorReturns, vars, queueVars, threadVars, clientVars

\* A scan begins with the queue at position next.
LEMMA BeginScanEffect ==
    ASSUME TypeOK, ListInv, NEW th \in Threads, BeginScan(th), queues # <<>>
    PROVE  /\ UNCHANGED <<queues, next, batches, elapsed, closed, schedulable, numProcessing,
                          job, handle, notification, notifying, life>>
           /\ scan = NoScan /\ pc[th] = "idle"
           /\ pc' = [pc EXCEPT ![th] = "scan"]
           /\ scan' \in Scans /\ scan' # NoScan
           /\ scan'.thread = th /\ scan'.at = "ScheduleBatch()" /\ scan'.batch = NoBatch
           /\ scan'.num_queues = Len(queues) /\ scan'.tried = 0
           /\ scan'.queue_closed = closed[queues[next]]
<1>1. /\ UNCHANGED <<queues, next, batches, elapsed, closed, schedulable, numProcessing,
                     job, handle, notification, notifying, life>>
      /\ scan = NoScan /\ pc[th] = "idle"
      /\ pc' = [pc EXCEPT ![th] = "scan"]
      /\ scan' = [thread |-> th, at |-> "ScheduleBatch()", num_queues |-> Len(queues),
                  tried |-> 0, queue_closed |-> closed[queues[next]], batch |-> NoBatch]
  BY DEF BeginScan, queueVars, clientVars
<1>2. Len(queues) \in Nat /\ closed[queues[next]] \in BOOLEAN
  <2>1. queues \in Seq(Queues) /\ next \in 1..Len(queues) /\ closed \in [Queues -> BOOLEAN]
    BY DEF TypeOK, ListInv, PositionOK
  <2> QED  BY <2>1, SMTT(30)
<1>3. scan' \in Scans
  BY <1>1, <1>2, SMTT(30) DEF Scans
<1>4. scan' # NoScan
  BY <1>3, ConstantTypes
<1>5. /\ scan'.thread = th /\ scan'.at = "ScheduleBatch()" /\ scan'.batch = NoBatch
      /\ scan'.num_queues = Len(queues) /\ scan'.tried = 0
      /\ scan'.queue_closed = closed[queues[next]]
  BY <1>1, SMTT(30)
<1> QED  BY <1>1, <1>3, <1>4, <1>5

\* What ScheduleBatch() leaves in the scan.
LEMMA ScheduleBatchScan ==
    ASSUME TypeOK, ListInv, ScheduleBatch, NEW b \in BatchesOf(Tasks) \cup {NoBatch},
           \/ scan' = [scan EXCEPT !.at = "IsEmpty()", !.batch = b]
           \/ scan' = [scan EXCEPT !.at = "IsEmpty()"] /\ b = NoBatch
    PROVE  /\ scan # NoScan /\ scan.at = "ScheduleBatch()" /\ scan.batch = NoBatch
           /\ UNCHANGED <<queues, next, closed, pc, job, handle, notification, notifying, life>>
           /\ scan' \in Scans /\ scan' # NoScan
           /\ scan'.at = "IsEmpty()" /\ scan'.batch = b
           /\ scan'.thread = scan.thread /\ scan'.num_queues = scan.num_queues
           /\ scan'.tried = scan.tried /\ scan'.queue_closed = scan.queue_closed
<1>1. /\ scan # NoScan /\ scan.at = "ScheduleBatch()"
      /\ UNCHANGED <<queues, next, closed, pc, job, handle, notification, notifying, life>>
  BY DEF ScheduleBatch, clientVars
<1>2. scan.batch = NoBatch
  BY <1>1 DEF ListInv, ScanOK
<1>3. scan \in Scans
  BY <1>1, ScanIsAtAQueue
<1>4. /\ scan' \in Scans
      /\ scan'.at = "IsEmpty()" /\ scan'.batch = b
      /\ scan'.thread = scan.thread /\ scan'.num_queues = scan.num_queues
      /\ scan'.tried = scan.tried /\ scan'.queue_closed = scan.queue_closed
  <2>1. CASE scan' = [scan EXCEPT !.at = "IsEmpty()", !.batch = b]
    BY <1>3, <2>1 DEF Scans
  <2>2. CASE scan' = [scan EXCEPT !.at = "IsEmpty()"] /\ b = NoBatch
    BY <1>2, <1>3, <2>2, SMTT(30) DEF Scans
  <2> QED  BY <2>1, <2>2
<1>5. scan' # NoScan
  BY <1>4, ConstantTypes
<1> QED  BY <1>1, <1>2, <1>4, <1>5

\* A batch thread that processes a batch.
LEMMA JobTypes ==
    ASSUME TypeOK, ListInv, NEW th \in Threads, job[th] # NoJob
    PROVE  /\ job[th] \in [queue : Queues, batch : BatchesOf(Tasks)]
           /\ job[th].queue \in Queues /\ job[th].batch \in BatchesOf(Tasks)
<1>1. job[th] \in [queue : Queues, batch : BatchesOf(Tasks)]
  BY DEF TypeOK
<1> QED  BY <1>1, SMTT(30)

LEMMA NoJobTypes == NoJob.queue = NoScan /\ NoJob.batch = NoBatch
BY SMTT(30) DEF NoJob

\* The end of a scan's loop body: the list, the position and what the thread does next.
LEMMA AdvanceEffect ==
    ASSUME TypeOK, ListInv, Advance, NEW q, q = queues[next]
    PROVE  /\ scan # NoScan /\ scan.at = "IsEmpty()"
           /\ UNCHANGED <<batches, elapsed, closed, schedulable, numProcessing,
                          handle, notification, notifying, life>>
           /\ \/ /\ scan.queue_closed /\ Empty(q) /\ scan.batch = NoBatch
                 /\ queues' = Erase(queues, next)
                 /\ next' = IF next = Len(queues) /\ Len(queues) > 1 THEN 1 ELSE next
              \/ /\ queues' = queues
                 /\ next' = IF next = Len(queues) THEN 1 ELSE next + 1
           /\ \/ /\ scan.batch = NoBatch /\ scan.tried + 1 < scan.num_queues
                 /\ scan' = [scan EXCEPT !.at = "ScheduleBatch()", !.tried = scan.tried + 1,
                                        !.queue_closed = closed[queues'[next']]]
                 /\ UNCHANGED <<pc, job>>
              \/ /\ scan.batch = NoBatch /\ scan.tried + 1 = scan.num_queues
                 /\ scan' = NoScan
                 /\ pc' = [pc EXCEPT ![scan.thread] = "wait"]
                 /\ job' = [job EXCEPT ![scan.thread] = NoJob]
              \/ /\ scan.batch # NoBatch
                 /\ scan' = NoScan
                 /\ pc' = [pc EXCEPT ![scan.thread] = "callback"]
                 /\ job' = [job EXCEPT ![scan.thread] = [queue |-> q, batch |-> scan.batch]]
<1> DEFINE drop == DropsQueue(q)
           list == IF drop THEN Erase(queues, next) ELSE queues
           pos  == Wrapped(IF drop THEN next ELSE next + 1, list)
<1>1. /\ scan # NoScan /\ scan.at = "IsEmpty()" /\ queues' = list /\ next' = pos
      /\ IF scan.batch = NoBatch /\ scan.tried + 1 < scan.num_queues
         THEN /\ scan' = [scan EXCEPT !.at = "ScheduleBatch()", !.tried = scan.tried + 1,
                                    !.queue_closed = closed[list[pos]]]
              /\ UNCHANGED <<pc, job>>
         ELSE /\ scan' = NoScan
              /\ pc' = [pc EXCEPT ![scan.thread] = IF scan.batch = NoBatch THEN "wait" ELSE "callback"]
              /\ job' = [job EXCEPT ![scan.thread] = IF scan.batch = NoBatch THEN NoJob
                                                    ELSE [queue |-> q, batch |-> scan.batch]]
  BY DEF Advance
<1> USE <1>1
<1>2. UNCHANGED <<batches, elapsed, closed, schedulable, numProcessing,
                  handle, notification, notifying, life>>
  BY DEF Advance, queueVars, clientVars
<1>3. /\ Len(queues) \in Nat /\ next \in 1..Len(queues) /\ queues \in Seq(Queues)
      /\ scan.num_queues \in Nat /\ scan.tried \in Nat /\ scan.tried < scan.num_queues
  BY ScanIsAtAQueue DEF TypeOK
<1> USE <1>3
<1>4. ASSUME drop
      PROVE  /\ scan.queue_closed /\ Empty(q) /\ scan.batch = NoBatch
             /\ queues' = Erase(queues, next)
             /\ next' = IF next = Len(queues) /\ Len(queues) > 1 THEN 1 ELSE next
  <2>1. list = Erase(queues, next) /\ pos = Wrapped(next, list)
    BY <1>4
  <2> HIDE DEF drop, list, pos
  <2>2. list \in Seq(Queues) /\ Len(list) = Len(queues) - 1
    BY <2>1, EraseEffect
  <2>3. list # <<>> <=> Len(queues) > 1
    BY <2>2, SMTT(30)
  <2>4. next > Len(list) <=> next = Len(queues)
    BY <2>2, SMTT(30)
  <2>5. pos = IF next = Len(queues) /\ Len(queues) > 1 THEN 1 ELSE next
    BY <2>1, <2>3, <2>4 DEF Wrapped
  <2> QED  BY <1>4, <2>1, <2>5 DEF drop, DropsQueue, Empty
<1>5. ASSUME ~drop
      PROVE  /\ queues' = queues
             /\ next' = IF next = Len(queues) THEN 1 ELSE next + 1
  <2>1. list = queues /\ pos = Wrapped(next + 1, queues)
    BY <1>5
  <2>2. queues # <<>> /\ (next + 1 > Len(queues) <=> next = Len(queues))
    BY SMTT(30)
  <2>3. pos = IF next = Len(queues) THEN 1 ELSE next + 1
    BY <2>1, <2>2 DEF Wrapped
  <2> QED  BY <2>1, <2>3
<1>6. ~(scan.tried + 1 < scan.num_queues) => scan.tried + 1 = scan.num_queues
  BY SMTT(30)
<1>7. \/ /\ scan.batch = NoBatch /\ scan.tried + 1 < scan.num_queues
         /\ scan' = [scan EXCEPT !.at = "ScheduleBatch()", !.tried = scan.tried + 1,
                                !.queue_closed = closed[queues'[next']]]
         /\ UNCHANGED <<pc, job>>
      \/ /\ scan.batch = NoBatch /\ scan.tried + 1 = scan.num_queues
         /\ scan' = NoScan
         /\ pc' = [pc EXCEPT ![scan.thread] = "wait"]
         /\ job' = [job EXCEPT ![scan.thread] = NoJob]
      \/ /\ scan.batch # NoBatch
         /\ scan' = NoScan
         /\ pc' = [pc EXCEPT ![scan.thread] = "callback"]
         /\ job' = [job EXCEPT ![scan.thread] = [queue |-> q, batch |-> scan.batch]]
  <2> HIDE DEF list, pos
  <2>1. CASE scan.batch = NoBatch /\ scan.tried + 1 < scan.num_queues
    BY <2>1
  <2>2. CASE scan.batch = NoBatch /\ ~(scan.tried + 1 < scan.num_queues)
    BY <1>6, <2>2
  <2>3. CASE scan.batch # NoBatch
    BY <2>3
  <2> QED  BY <2>1, <2>2, <2>3
<1> HIDE DEF drop, list, pos
<1> QED  BY <1>2, <1>4, <1>5, <1>7

\* A scan that goes on.
LEMMA AdvanceScan ==
    ASSUME scan \in Scans, scan.tried \in Nat, NEW c \in BOOLEAN,
           scan' = [scan EXCEPT !.at = "ScheduleBatch()", !.tried = scan.tried + 1, !.queue_closed = c]
    PROVE  /\ scan' \in Scans /\ scan' # NoScan
           /\ scan'.at = "ScheduleBatch()" /\ scan'.tried = scan.tried + 1 /\ scan'.queue_closed = c
           /\ scan'.thread = scan.thread /\ scan'.num_queues = scan.num_queues
           /\ scan'.batch = scan.batch
<1> DEFINE n == scan.tried + 1
<1>1. n \in Nat /\ scan' = [scan EXCEPT !.at = "ScheduleBatch()", !.tried = n, !.queue_closed = c]
  BY SMTT(30)
<1> HIDE DEF n
<1>2. scan' \in Scans
  BY <1>1 DEF Scans
<1>3. scan' # NoScan
  BY <1>2, ConstantTypes
<1>4. /\ scan'.at = "ScheduleBatch()" /\ scan'.tried = n /\ scan'.queue_closed = c
      /\ scan'.thread = scan.thread /\ scan'.num_queues = scan.num_queues
      /\ scan'.batch = scan.batch
  BY <1>1 DEF Scans
<1> QED  BY <1>2, <1>3, <1>4 DEF n

\* The position stays within the list.
LEMMA PositionStays ==
    ASSUME TypeOK, ListInv, Advance
    PROVE  /\ next' \in 1..Len(queues') \/ (queues' = <<>> /\ next' = 1)
           /\ \A i \in 1..Len(queues') : queues'[i] \in Queues
           /\ scan.tried + 1 < scan.num_queues => queues' # <<>>
<1>1. /\ scan # NoScan
      /\ \/ /\ queues' = Erase(queues, next)
            /\ next' = IF next = Len(queues) /\ Len(queues) > 1 THEN 1 ELSE next
         \/ /\ queues' = queues
            /\ next' = IF next = Len(queues) THEN 1 ELSE next + 1
  BY AdvanceEffect
<1>2. /\ Len(queues) \in Nat /\ next \in 1..Len(queues) /\ queues \in Seq(Queues)
      /\ scan.num_queues \in Nat /\ scan.tried \in Nat
      /\ scan.num_queues - scan.tried <= Len(queues)
  BY <1>1, ScanIsAtAQueue DEF TypeOK
<1>3. CASE queues' = Erase(queues, next) /\ next' = IF next = Len(queues) /\ Len(queues) > 1 THEN 1 ELSE next
  <2>1. queues' \in Seq(Queues) /\ Len(queues') = Len(queues) - 1
    BY <1>2, <1>3, EraseEffect
  <2> QED  BY <1>2, <1>3, <2>1, SMTT(30)
<1>4. CASE queues' = queues /\ next' = IF next = Len(queues) THEN 1 ELSE next + 1
  BY <1>2, <1>4, SMTT(30)
<1> QED  BY <1>1, <1>3, <1>4

\* The callback is done with the batch of thread th ...
LEMMA CallbackEffect ==
    ASSUME TypeOK, ListInv, NEW th \in Threads, ProcessBatchCallback(th)
    PROVE  /\ UNCHANGED <<queues, next, batches, elapsed, closed, schedulable, numProcessing,
                          scan, handle, notification, notifying, life>>
           /\ pc[th] = "callback" /\ job[th] # NoJob
           /\ pc' = [pc EXCEPT ![th] = "finish"]
           /\ \E j \in [queue : Queues, batch : BatchesOf(Tasks)] :
                  /\ j # NoJob /\ j.queue = job[th].queue /\ j.batch = EmptyBatch
                  /\ job' = [job EXCEPT ![th] = j]
<1>1. /\ UNCHANGED <<queues, next, batches, elapsed, closed, schedulable, numProcessing,
                     scan, handle, notification, notifying, life>>
      /\ pc[th] = "callback" /\ pc' = [pc EXCEPT ![th] = "finish"]
      /\ job' = [job EXCEPT ![th].batch = EmptyBatch]
  BY DEF ProcessBatchCallback, queueVars, clientVars
<1>2. job[th] # NoJob
  BY <1>1 DEF ListInv, ThreadsOK
<1>3. job[th] \in [queue : Queues, batch : BatchesOf(Tasks)] /\ job[th].queue \in Queues
  BY <1>2, JobTypes
<1> DEFINE j == [job[th] EXCEPT !.batch = EmptyBatch]
<1>4. job' = [job EXCEPT ![th] = j]
  BY <1>1, SMTT(30)
<1>5. /\ j \in [queue : Queues, batch : BatchesOf(Tasks)]
      /\ j.queue = job[th].queue /\ j.batch = EmptyBatch
  BY <1>3, EmptyBatchType, SMTT(30)
<1> HIDE DEF j
<1>6. j # NoJob
  BY <1>3, <1>5, NoJobTypes, ConstantTypes
<1> QED  BY <1>1, <1>2, <1>4, <1>5, <1>6

\* ... and the thread takes the queue's mu_.
LEMMA FinishEffect ==
    ASSUME TypeOK, ListInv, NEW th \in Threads, FinishBatch(th), NEW q, q = job[th].queue
    PROVE  /\ UNCHANGED <<queues, next, batches, elapsed, closed, schedulable, scan,
                          handle, notifying, life>>
           /\ pc[th] = "finish" /\ job[th] # NoJob /\ q \in Queues
           /\ numProcessing' = [numProcessing EXCEPT ![q] = numProcessing[q] - 1]
           /\ \/ /\ notification' = notification
                 /\ notification[q] = "null" \/ ~IsEmptyInternal(batches[q], numProcessing[q] - 1)
              \/ /\ notification[q] # "null" /\ IsEmptyInternal(batches[q], numProcessing[q] - 1)
                 /\ \E n \in {"notified", "misused"} :
                        /\ notification' = [notification EXCEPT ![q] = n]
                        /\ notification[q] = "set" => n = "notified"
           /\ pc' = [pc EXCEPT ![th] = "idle"]
           /\ job' = [job EXCEPT ![th] = NoJob]
<1>1. /\ UNCHANGED <<queues, next, batches, elapsed, closed, schedulable, scan,
                     handle, notifying, life>>
      /\ pc[th] = "finish" /\ pc' = [pc EXCEPT ![th] = "idle"]
      /\ job' = [job EXCEPT ![th] = NoJob]
      /\ numProcessing' = [numProcessing EXCEPT ![q] = numProcessing[q] - 1]
      /\ notification' =
             IF notification[q] # "null" /\ IsEmptyInternal(batches[q], numProcessing[q] - 1)
             THEN [notification EXCEPT ![q] = IF notification[q] = "set" THEN "notified" ELSE "misused"]
             ELSE notification
  BY DEF FinishBatch
<1>2. job[th] # NoJob
  BY <1>1 DEF ListInv, ThreadsOK
<1>3. q \in Queues
  BY <1>2, JobTypes
<1>4. \/ /\ notification' = notification
         /\ notification[q] = "null" \/ ~IsEmptyInternal(batches[q], numProcessing[q] - 1)
      \/ /\ notification[q] # "null" /\ IsEmptyInternal(batches[q], numProcessing[q] - 1)
         /\ \E n \in {"notified", "misused"} :
                /\ notification' = [notification EXCEPT ![q] = n]
                /\ notification[q] = "set" => n = "notified"
  BY <1>1
<1> QED  BY <1>1, <1>2, <1>3, <1>4

LEMMA AddQueueEffect ==
    ASSUME TypeOK, NEW q \in Queues, AddQueue(q)
    PROVE  /\ handle[q] = "none" /\ scan = NoScan
           /\ queues' = Append(queues, q)
           /\ next' = IF next = Len(queues) + 1 THEN 1 ELSE next
           /\ handle' = [handle EXCEPT ![q] = "open"]
           /\ UNCHANGED <<batches, elapsed, closed, schedulable, numProcessing, scan, pc, job,
                          notification, notifying, life>>
BY DEF AddQueue, queueVars, threadVars

LEMMA CloseEffect ==
    ASSUME NEW q \in Queues, CloseAndWaitUntilEmpty(q)
    PROVE  /\ handle[q] = "open"
           /\ closed' = [closed EXCEPT ![q] = TRUE]
           /\ \/ /\ Empty(q) /\ handle' = [handle EXCEPT ![q] = "destroyed"]
                 /\ notification' = notification
              \/ /\ ~Empty(q) /\ handle' = [handle EXCEPT ![q] = "closing"]
                 /\ notification' = [notification EXCEPT ![q] = "set"]
           /\ UNCHANGED <<queues, next, batches, elapsed, schedulable, numProcessing, scan, pc, job,
                          notifying, life>>
BY DEF CloseAndWaitUntilEmpty, threadVars, Empty

\* A thread that processes a batch of a queue is counted.
LEMMA ProcessedIsCounted ==
    ASSUME TypeOK, ListInv, HandleInv, NEW q \in Queues, Processing(q) # {}
    PROVE  numProcessing[q] \in Nat /\ numProcessing[q] # 0 /\ numProcessing[q] - 1 \in Nat
<1>1. IsFiniteSet(Processing(q))
  BY ConstantTypes, FS_Subset, SMTT(30) DEF Processing
<1>2. Cardinality(Processing(q)) \in Nat /\ Cardinality(Processing(q)) # 0
  BY <1>1, FS_CardinalityType, FS_EmptySet
<1>3. numProcessing[q] = Cardinality(Processing(q))
  BY DEF HandleInv, QueueInv
<1> QED  BY <1>2, <1>3, SMTT(30)

LEMMA TypeStep == Inv /\ [Next]_vars => TypeOK'
<1> SUFFICES ASSUME Inv, [Next]_vars PROVE TypeOK'
  OBVIOUS
<1>1. TypeOK /\ ListInv /\ BatchInv /\ HandleInv
  BY DEF Inv
<1> USE <1>1
<1>2. ASSUME NEW t \in Tasks, Schedule(t) PROVE TypeOK'
  <2> DEFINE q == QueueOf[t]
  <2>1. PICK bs \in Seq(BatchesOf(Tasks)), late \in BOOLEAN, ready \in BOOLEAN :
            Enqueues(t, q, bs, late, ready)
    BY <1>2, ScheduleEffect
  <2>2. UNCHANGED <<queues, next, closed, numProcessing, scan, pc, job, handle, notification, life>>
    BY <1>2 DEF Schedule, threadVars
  <2>3. /\ batches \in [Queues -> Seq(BatchesOf(Tasks))] /\ elapsed \in [Queues -> BOOLEAN]
        /\ schedulable \in [Queues -> BOOLEAN] /\ notifying \subseteq Tasks
    BY DEF TypeOK
  <2> HIDE DEF q
  <2>4. /\ batches' = [batches EXCEPT ![q] = bs] /\ elapsed' = [elapsed EXCEPT ![q] = late]
        /\ schedulable' = [schedulable EXCEPT ![q] = schedulable[q] \/ ready]
        /\ notifying' = notifying \/ notifying' = notifying \cup {t}
    BY <2>1 DEF Enqueues
  <2>5. batches' \in [Queues -> Seq(BatchesOf(Tasks))] /\ elapsed' \in [Queues -> BOOLEAN]
    BY <2>3, <2>4
  <2>6. schedulable' \in [Queues -> BOOLEAN]
    BY <2>3, <2>4
  <2>7. notifying' \subseteq Tasks
    BY <2>3, <2>4
  <2> QED  BY <2>2, <2>5, <2>6, <2>7 DEF TypeOK
<1>3. ASSUME IdleStep PROVE TypeOK'
  <2>1. /\ UNCHANGED <<queues, next, batches, elapsed, closed, schedulable, numProcessing,
                       scan, job, handle, notification, life>>
        /\ notifying' \subseteq notifying
        /\ \/ pc' = pc
           \/ \E u \in Threads, l \in {"idle", "wait", "exited"} : pc' = [pc EXCEPT ![u] = l]
    BY <1>3, IdleEffect
  <2>2. pc' \in [Threads -> {"idle", "scan", "wait", "callback", "finish", "exited"}]
    BY <2>1 DEF TypeOK
  <2>3. notifying' \subseteq Tasks
    BY <2>1 DEF TypeOK
  <2> QED  BY <2>1, <2>2, <2>3 DEF TypeOK
<1>4. ASSUME NEW th \in Threads, BeginScan(th), queues # <<>> PROVE TypeOK'
  <2>1. /\ UNCHANGED <<queues, next, batches, elapsed, closed, schedulable, numProcessing,
                       job, handle, notification, notifying, life>>
        /\ pc' = [pc EXCEPT ![th] = "scan"] /\ scan' \in Scans
    BY <1>4, BeginScanEffect
  <2>2. pc' \in [Threads -> {"idle", "scan", "wait", "callback", "finish", "exited"}]
    BY <2>1 DEF TypeOK
  <2> QED  BY <2>1, <2>2 DEF TypeOK
<1>5. ASSUME ScheduleBatch PROVE TypeOK'
  <2>1. /\ scan # NoScan
        /\ UNCHANGED <<queues, next, closed, pc, job, handle, notification, notifying, life>>
    BY <1>5 DEF ScheduleBatch, clientVars
  <2> DEFINE q == queues[next]
  <2>2. q \in Queues /\ scan \in Scans
    BY <2>1, ScanIsAtAQueue
  <2> HIDE DEF q
  <2>3. /\ batches \in [Queues -> Seq(BatchesOf(Tasks))] /\ elapsed \in [Queues -> BOOLEAN]
        /\ schedulable \in [Queues -> BOOLEAN] /\ numProcessing \in [Queues -> Nat]
    BY DEF TypeOK
  <2>4. ASSUME NEW b \in BatchesOf(Tasks), NEW bs \in Seq(BatchesOf(Tasks)), NEW late \in BOOLEAN,
               TakesBatch(q, b, bs, late)
        PROVE  TypeOK'
    <3>4. /\ numProcessing' = [numProcessing EXCEPT ![q] = numProcessing[q] + 1]
          /\ batches' = [batches EXCEPT ![q] = bs]
          /\ elapsed' = [elapsed EXCEPT ![q] = late]
          /\ scan' = [scan EXCEPT !.at = "IsEmpty()", !.batch = b]
          /\ schedulable' = schedulable
      BY <2>4 DEF TakesBatch
    <3>1. scan' \in Scans
      BY <1>5, <3>4, ScheduleBatchScan
    <3>2. /\ batches' \in [Queues -> Seq(BatchesOf(Tasks))] /\ elapsed' \in [Queues -> BOOLEAN]
          /\ schedulable' \in [Queues -> BOOLEAN]
      BY <2>3, <3>4
    <3>3. numProcessing' \in [Queues -> Nat]
      BY <2>2, <2>3, <3>4, SMTT(30)
    <3> QED  BY <2>1, <3>1, <3>2, <3>3 DEF TypeOK
  <2>5. CASE FindsNoBatch(q)
    <3>3. /\ schedulable' = [schedulable EXCEPT ![q] = FALSE]
          /\ scan' = [scan EXCEPT !.at = "IsEmpty()"]
          /\ UNCHANGED <<numProcessing, batches, elapsed>>
      BY <2>5 DEF FindsNoBatch
    <3>1. scan' \in Scans
      BY <1>5, <3>3, ScheduleBatchScan
    <3>2. schedulable' \in [Queues -> BOOLEAN]
      BY <2>3, <3>3
    <3> QED  BY <2>1, <3>3, <3>1, <3>2 DEF TypeOK
  <2>6. q = queues[next]
    BY DEF q
  <2> QED  BY <1>5, <2>4, <2>5, <2>6, ScheduleBatchEffect
<1>6. ASSUME Advance PROVE TypeOK'
  <2> DEFINE q == queues[next]
  <2>1. /\ scan # NoScan
        /\ UNCHANGED <<batches, elapsed, closed, schedulable, numProcessing,
                       handle, notification, notifying, life>>
        /\ \/ queues' = Erase(queues, next)
           \/ queues' = queues
        /\ next' = 1 \/ next' = next \/ next' = next + 1
    BY <1>6, AdvanceEffect
  <2> USE <2>1
  <2>2. /\ queues \in Seq(Queues) /\ next \in 1..Len(queues) /\ next \in Nat
        /\ q \in Queues /\ scan \in Scans /\ scan.thread \in Threads
        /\ scan.batch \in BatchesOf(Tasks) \cup {NoBatch} /\ scan.tried \in Nat
    BY ScanIsAtAQueue DEF TypeOK
  <2> USE <2>2
  <2>3. queues' \in Seq(Queues) /\ next' \in Nat
    <3>1. 1 \in Nat /\ next + 1 \in Nat
      BY SMTT(30)
    <3> QED  BY <3>1, EraseEffect
  <2>4. /\ pc \in [Threads -> {"idle", "scan", "wait", "callback", "finish", "exited"}]
        /\ job \in [Threads -> [queue : Queues, batch : BatchesOf(Tasks)] \cup {NoJob}]
    BY DEF TypeOK
  <2>5. CASE /\ scan' = [scan EXCEPT !.at = "ScheduleBatch()", !.tried = scan.tried + 1,
                                    !.queue_closed = closed[queues'[next']]]
             /\ scan.batch = NoBatch /\ scan.tried + 1 < scan.num_queues
             /\ UNCHANGED <<pc, job>>
    <3>1. closed[queues'[next']] \in BOOLEAN
      BY <1>6, <2>5, PositionStays DEF TypeOK
    <3>2. scan' \in Scans
      BY <2>5, <3>1, AdvanceScan
    <3> QED  BY <2>3, <2>5, <3>2 DEF TypeOK
  <2>6. CASE /\ scan' = NoScan
             /\ pc' = [pc EXCEPT ![scan.thread] = "wait"]
             /\ job' = [job EXCEPT ![scan.thread] = NoJob]
    BY <2>3, <2>4, <2>6 DEF TypeOK
  <2>7. CASE /\ scan' = NoScan /\ scan.batch # NoBatch
             /\ pc' = [pc EXCEPT ![scan.thread] = "callback"]
             /\ job' = [job EXCEPT ![scan.thread] = [queue |-> q, batch |-> scan.batch]]
    <3>1. [queue |-> q, batch |-> scan.batch] \in [queue : Queues, batch : BatchesOf(Tasks)]
      BY <2>7, SMTT(30)
    <3>2. /\ pc' \in [Threads -> {"idle", "scan", "wait", "callback", "finish", "exited"}]
          /\ job' \in [Threads -> [queue : Queues, batch : BatchesOf(Tasks)] \cup {NoJob}]
      BY <2>4, <2>7, <3>1
    <3> QED  BY <2>3, <2>7, <3>2 DEF TypeOK
  <2>8. q = queues[next]
    OBVIOUS
  <2> HIDE DEF q
  <2> QED  BY <1>6, <2>5, <2>6, <2>7, <2>8, AdvanceEffect
<1>7. ASSUME NEW th \in Threads, ProcessBatchCallback(th) PROVE TypeOK'
  <2>1. /\ UNCHANGED <<queues, next, batches, elapsed, closed, schedulable, numProcessing,
                       scan, handle, notification, notifying, life>>
        /\ pc' = [pc EXCEPT ![th] = "finish"]
        /\ \E j \in [queue : Queues, batch : BatchesOf(Tasks)] : job' = [job EXCEPT ![th] = j]
    BY <1>7, CallbackEffect
  <2>2. /\ pc' \in [Threads -> {"idle", "scan", "wait", "callback", "finish", "exited"}]
        /\ job' \in [Threads -> [queue : Queues, batch : BatchesOf(Tasks)] \cup {NoJob}]
    BY <2>1 DEF TypeOK
  <2> QED  BY <2>1, <2>2 DEF TypeOK
<1>8. ASSUME NEW th \in Threads, FinishBatch(th) PROVE TypeOK'
  <2> DEFINE q == job[th].queue
  <2>1. /\ UNCHANGED <<queues, next, batches, elapsed, closed, schedulable, scan,
                       handle, notifying, life>>
        /\ job[th] # NoJob /\ q \in Queues
        /\ numProcessing' = [numProcessing EXCEPT ![q] = numProcessing[q] - 1]
        /\ \/ notification' = notification
           \/ \E n \in {"notified", "misused"} : notification' = [notification EXCEPT ![q] = n]
        /\ pc' = [pc EXCEPT ![th] = "idle"]
        /\ job' = [job EXCEPT ![th] = NoJob]
    BY <1>8, FinishEffect
  <2> USE <2>1
  <2>2. numProcessing[q] - 1 \in Nat
    <3>1. th \in Processing(q)
      BY DEF Processing
    <3> QED  BY <3>1, ProcessedIsCounted
  <2> HIDE DEF q
  <2>3. numProcessing' \in [Queues -> Nat]
    BY <2>2 DEF TypeOK
  <2>4. /\ pc' \in [Threads -> {"idle", "scan", "wait", "callback", "finish", "exited"}]
        /\ job' \in [Threads -> [queue : Queues, batch : BatchesOf(Tasks)] \cup {NoJob}]
    BY DEF TypeOK
  <2>5. notification' \in [Queues -> {"null", "set", "notified", "misused"}]
    BY DEF TypeOK
  <2> QED  BY <2>3, <2>4, <2>5 DEF TypeOK
<1>9. ASSUME NEW q \in Queues, AddQueue(q) PROVE TypeOK'
  <2>1. /\ queues' = Append(queues, q)
        /\ next' = IF next = Len(queues) + 1 THEN 1 ELSE next
        /\ handle' = [handle EXCEPT ![q] = "open"]
        /\ UNCHANGED <<batches, elapsed, closed, schedulable, numProcessing, scan, pc, job,
                       notification, notifying, life>>
    BY <1>9, AddQueueEffect
  <2> USE <2>1
  <2>2. queues' \in Seq(Queues)
    BY AppendEffect DEF TypeOK
  <2>3. next' \in Nat
    <3>1. next \in Nat
      BY DEF TypeOK
    <3> QED  BY <3>1, SMTT(30)
  <2>4. handle' \in [Queues -> {"none", "open", "closing", "destroyed"}]
    BY DEF TypeOK
  <2> QED  BY <2>2, <2>3, <2>4 DEF TypeOK
<1>10. ASSUME NEW q \in Queues, CloseAndWaitUntilEmpty(q) PROVE TypeOK'
  <2>1. /\ closed' = [closed EXCEPT ![q] = TRUE]
        /\ \E h \in {"destroyed", "closing"} : handle' = [handle EXCEPT ![q] = h]
        /\ notification' = notification \/ notification' = [notification EXCEPT ![q] = "set"]
        /\ UNCHANGED <<queues, next, batches, elapsed, schedulable, numProcessing, scan, pc, job,
                       notifying, life>>
    BY <1>10, CloseEffect
  <2>2. closed' \in [Queues -> BOOLEAN]
    <3>1. closed \in [Queues -> BOOLEAN]
      BY DEF TypeOK
    <3> QED  BY <2>1, <3>1, SMTT(30)
  <2>3. /\ handle' \in [Queues -> {"none", "open", "closing", "destroyed"}]
        /\ notification' \in [Queues -> {"null", "set", "notified", "misused"}]
    BY <2>1, ZenonT(90) DEF TypeOK
  <2> QED  BY <2>1, <2>2, <2>3 DEF TypeOK
<1>11. ASSUME QuietStep PROVE TypeOK'
  <2>1. /\ UNCHANGED <<queues, next, batches, closed, schedulable, numProcessing, scan, pc, job,
                       notification, notifying>>
        /\ elapsed' = elapsed \/ \E q \in Queues : elapsed' = [elapsed EXCEPT ![q] = TRUE]
        /\ handle' = handle \/ \E q \in Queues : handle' = [handle EXCEPT ![q] = "destroyed"]
        /\ life' \in {life, "draining", "joining", "destroyed"}
    BY <1>11, QuietEffect
  <2>2. elapsed' \in [Queues -> BOOLEAN]
    <3>1. elapsed \in [Queues -> BOOLEAN]
      BY DEF TypeOK
    <3> QED  BY <2>1, <3>1
  <2>3. /\ handle' \in [Queues -> {"none", "open", "closing", "destroyed"}]
        /\ life' \in {"owned", "draining", "joining", "destroyed"}
    BY <2>1 DEF TypeOK
  <2> QED  BY <2>1, <2>2, <2>3 DEF TypeOK
<1> QED
  BY <1>2, <1>3, <1>4, <1>5, <1>6, <1>7, <1>8, <1>9, <1>10, <1>11, StepCases

(***************************************************************************)
(* The list of queues.                                                     *)
(***************************************************************************)
\* Steps that leave the list, the scan or the threads as they are.
LEMMA PositionFrame == ASSUME ListInv, UNCHANGED <<queues, next>> PROVE PositionOK' /\ NoDuplicates'
BY SMTT(30) DEF ListInv, PositionOK, NoDuplicates

LEMMA ScanFrame ==
    ASSUME ListInv, UNCHANGED <<queues, next, scan>>,
           scan # NoScan /\ closed[queues[next]] => closed'[queues[next]]
    PROVE  ScanOK'
BY DEF ListInv, ScanOK

LEMMA ThreadFrame ==
    ASSUME ListInv, scan' = scan,
           \A th \in Threads : pc'[th] = "scan" <=> pc[th] = "scan",
           \A th \in Threads : pc'[th] \in {"callback", "finish"} <=> job'[th] # NoJob
    PROVE  ThreadsOK'
BY DEF ListInv, ThreadsOK, Scanning

LEMMA ListFrame ==
    ASSUME ListInv, UNCHANGED <<queues, next, scan, pc, job>>,
           scan # NoScan /\ closed[queues[next]] => closed'[queues[next]]
    PROVE  ListInv'
<1>1. ThreadsOK'
  BY DEF ListInv, ThreadsOK, Scanning
<1> QED  BY <1>1, PositionFrame, ScanFrame DEF ListInv

\* Dropping a queue leaves every other one once in the list.
LEMMA ListStaysDistinct ==
    ASSUME TypeOK, ListInv, Advance
    PROVE  \A i, j \in 1..Len(queues') : queues'[i] = queues'[j] => i = j
<1>1. /\ scan # NoScan
      /\ queues' = Erase(queues, next) \/ queues' = queues
  BY AdvanceEffect
<1>2. /\ Len(queues) \in Nat /\ next \in 1..Len(queues) /\ queues \in Seq(Queues)
      /\ \A i, j \in 1..Len(queues) : queues[i] = queues[j] => i = j
  BY <1>1, ScanIsAtAQueue DEF TypeOK, ListInv, NoDuplicates
<1>3. CASE queues' = Erase(queues, next)
  <2>1. /\ Len(queues') = Len(queues) - 1
        /\ \A i \in 1..Len(queues) - 1 : queues'[i] = IF i < next THEN queues[i] ELSE queues[i + 1]
    BY <1>2, <1>3, EraseEffect
  <2> QED  BY <1>2, <2>1, SMTT(30)
<1>4. CASE queues' = queues
  BY <1>2, <1>4
<1> QED  BY <1>1, <1>3, <1>4

\* The scan's loop leaves the list, the position and the threads in order.
LEMMA ListAdvance == ASSUME TypeOK, ListInv, Advance PROVE ListInv'
<1> DEFINE q == queues[next]
           u == scan.thread
<1>1. /\ scan # NoScan
      /\ \/ queues' = Erase(queues, next) \/ queues' = queues
      /\ closed' = closed
  BY AdvanceEffect
<1> USE <1>1
<1>2. /\ Len(queues) \in Nat /\ next \in 1..Len(queues) /\ queues \in Seq(Queues)
      /\ scan \in Scans /\ u \in Threads /\ pc[u] = "scan" /\ q \in Queues
      /\ scan.num_queues \in Nat /\ scan.tried \in Nat
      /\ scan.num_queues - scan.tried <= Len(queues)
      /\ scan.batch \in BatchesOf(Tasks) \cup {NoBatch}
  BY ScanIsAtAQueue DEF TypeOK
<1> USE <1>2
<1>3. PositionOK' /\ NoDuplicates'
  BY PositionStays, ListStaysDistinct DEF PositionOK, NoDuplicates
<1> USE <1>3
<1>4. Len(queues') \in Nat /\ Len(queues') >= Len(queues) - 1
  <2>1. Len(queues') = Len(queues) - 1 \/ Len(queues') = Len(queues)
    BY EraseEffect
  <2> QED  BY <2>1, SMTT(30)
<1>5. pc \in [Threads -> {"idle", "scan", "wait", "callback", "finish", "exited"}]
      /\ job \in [Threads -> [queue : Queues, batch : BatchesOf(Tasks)] \cup {NoJob}]
  BY DEF TypeOK
<1>6. /\ \A th \in Threads : pc[th] = "scan" <=> th = u
      /\ \A th \in Threads : pc[th] \in {"callback", "finish"} <=> job[th] # NoJob
  BY DEF ListInv, ThreadsOK, Scanning
<1>7. CASE /\ scan.batch = NoBatch /\ scan.tried + 1 < scan.num_queues
           /\ scan' = [scan EXCEPT !.at = "ScheduleBatch()", !.tried = scan.tried + 1,
                                  !.queue_closed = closed[queues'[next']]]
           /\ UNCHANGED <<pc, job>>
  <2>1. queues' # <<>> /\ closed[queues'[next']] \in BOOLEAN
    BY <1>7, PositionStays DEF TypeOK, PositionOK
  <2>2. /\ scan' \in Scans /\ scan' # NoScan
        /\ scan'.at = "ScheduleBatch()" /\ scan'.tried = scan.tried + 1
        /\ scan'.queue_closed = closed[queues'[next']]
        /\ scan'.thread = scan.thread /\ scan'.num_queues = scan.num_queues
        /\ scan'.batch = scan.batch
    BY <1>7, <2>1, AdvanceScan
  <2>3. /\ scan'.tried < scan'.num_queues
        /\ scan'.num_queues - scan'.tried <= Len(queues')
    BY <1>4, <1>7, <2>2, SMTT(30)
  <2>4. ScanOK'
    BY <1>7, <2>1, <2>2, <2>3 DEF ScanOK
  <2>5. ThreadsOK'
    BY <1>6, <1>7, <2>2 DEF ThreadsOK, Scanning
  <2> QED  BY <2>4, <2>5 DEF ListInv
<1>8. CASE /\ scan' = NoScan
           /\ pc' = [pc EXCEPT ![u] = "wait"]
           /\ job' = [job EXCEPT ![u] = NoJob]
  <2>1. /\ \A th \in Threads : pc'[th] # "scan"
        /\ \A th \in Threads : pc'[th] \in {"callback", "finish"} <=> job'[th] # NoJob
    BY <1>5, <1>6, <1>8
  <2> QED  BY <1>8, <2>1 DEF ListInv, ScanOK, ThreadsOK, Scanning
<1>9. CASE /\ scan.batch # NoBatch
           /\ scan' = NoScan
           /\ pc' = [pc EXCEPT ![u] = "callback"]
           /\ job' = [job EXCEPT ![u] = [queue |-> q, batch |-> scan.batch]]
  <2>1. [queue |-> q, batch |-> scan.batch] # NoJob
    BY <1>9, SMTT(30) DEF NoJob
  <2>2. /\ \A th \in Threads : pc'[th] # "scan"
        /\ \A th \in Threads : pc'[th] \in {"callback", "finish"} <=> job'[th] # NoJob
    BY <1>5, <1>6, <1>9, <2>1
  <2> QED  BY <1>9, <2>2 DEF ListInv, ScanOK, ThreadsOK, Scanning
<1>10. q = queues[next] /\ u = scan.thread
  OBVIOUS
<1> HIDE DEF q, u
<1> QED  BY <1>7, <1>8, <1>9, <1>10, AdvanceEffect

\* What the loop leaves of the batch it has found.
LEMMA AdvanceGoesOn ==
    ASSUME TypeOK, ListInv, Advance
    PROVE  \/ /\ scan.batch = NoBatch
              /\ scan' = NoScan \/ (scan' # NoScan /\ scan'.batch = scan.batch)
              /\ job' = job \/ job' = [job EXCEPT ![scan.thread] = NoJob]
           \/ /\ scan.batch # NoBatch
              /\ scan' = NoScan
              /\ job' = [job EXCEPT ![scan.thread] = [queue |-> queues[next], batch |-> scan.batch]]
<1>1. CASE /\ scan.batch = NoBatch /\ scan.tried + 1 < scan.num_queues
           /\ scan' = [scan EXCEPT !.at = "ScheduleBatch()", !.tried = scan.tried + 1,
                                  !.queue_closed = closed[queues'[next']]]
           /\ UNCHANGED <<pc, job>>
  <2>1. scan \in Scans /\ scan.tried \in Nat /\ closed[queues'[next']] \in BOOLEAN
    BY <1>1, AdvanceEffect, ScanIsAtAQueue, PositionStays DEF TypeOK
  <2> QED  BY <1>1, <2>1, AdvanceScan
<1> QED  BY <1>1, AdvanceEffect

LEMMA ListStep == Inv /\ [Next]_vars => ListInv'
<1> SUFFICES ASSUME Inv, [Next]_vars PROVE ListInv'
  OBVIOUS
<1>1. /\ TypeOK /\ ListInv /\ BatchInv /\ HandleInv
      /\ pc \in [Threads -> {"idle", "scan", "wait", "callback", "finish", "exited"}]
      /\ job \in [Threads -> [queue : Queues, batch : BatchesOf(Tasks)] \cup {NoJob}]
  BY DEF Inv, TypeOK
<1> USE <1>1
<1>2. ASSUME NEW t \in Tasks, Schedule(t) PROVE ListInv'
  BY <1>2, ListFrame DEF Schedule, threadVars
<1>3. ASSUME IdleStep PROVE ListInv'
  <2>1. /\ UNCHANGED <<queues, next, closed, scan, job>>
        /\ \/ pc' = pc
           \/ \E u \in Threads, l \in {"idle", "wait", "exited"} :
                  pc[u] \in {"idle", "wait"} /\ pc' = [pc EXCEPT ![u] = l]
    BY <1>3, IdleEffect
  <2>2. ASSUME NEW th \in Threads
        PROVE  /\ pc'[th] = "scan" <=> pc[th] = "scan"
               /\ pc'[th] \in {"callback", "finish"} <=> job'[th] # NoJob
    BY <2>1 DEF ListInv, ThreadsOK
  <2>3. PositionOK' /\ NoDuplicates' /\ ScanOK' /\ ThreadsOK'
    BY <2>1, <2>2, PositionFrame, ScanFrame, ThreadFrame
  <2> QED  BY <2>3 DEF ListInv
<1>4. ASSUME NEW th \in Threads, BeginScan(th), queues # <<>> PROVE ListInv'
  <2>1. /\ UNCHANGED <<queues, next, closed, job>>
        /\ scan = NoScan /\ pc[th] = "idle"
        /\ pc' = [pc EXCEPT ![th] = "scan"]
        /\ scan' # NoScan
        /\ scan'.thread = th /\ scan'.at = "ScheduleBatch()" /\ scan'.batch = NoBatch
        /\ scan'.num_queues = Len(queues) /\ scan'.tried = 0
        /\ scan'.queue_closed = closed[queues[next]]
    BY <1>4, BeginScanEffect
  <2> USE <2>1
  <2>2. 0 < Len(queues) /\ Len(queues) - 0 <= Len(queues)
    <3>1. queues \in Seq(Queues)
      BY DEF TypeOK
    <3> QED  BY <1>4, <3>1, SMTT(30)
  <2>3. /\ \A x \in Threads : pc'[x] = "scan" <=> x = th
        /\ \A x \in Threads : pc'[x] \in {"callback", "finish"} <=> job'[x] # NoJob
    BY DEF ListInv, ThreadsOK, Scanning
  <2>4. ScanOK'
    BY <1>4, <2>2 DEF ScanOK
  <2>5. ThreadsOK'
    BY <2>3 DEF ThreadsOK, Scanning
  <2> QED  BY <2>4, <2>5, PositionFrame DEF ListInv
<1>5. ASSUME ScheduleBatch PROVE ListInv'
  <2>1. PICK b \in BatchesOf(Tasks) \cup {NoBatch} :
            \/ scan' = [scan EXCEPT !.at = "IsEmpty()", !.batch = b]
            \/ scan' = [scan EXCEPT !.at = "IsEmpty()"] /\ b = NoBatch
    BY <1>5, ScheduleBatchEffect DEF TakesBatch, FindsNoBatch
  <2>2. /\ scan # NoScan /\ UNCHANGED <<queues, next, closed, pc, job>>
        /\ scan' # NoScan /\ scan'.at = "IsEmpty()"
        /\ scan'.thread = scan.thread /\ scan'.num_queues = scan.num_queues
        /\ scan'.tried = scan.tried /\ scan'.queue_closed = scan.queue_closed
    BY <1>5, <2>1, ScheduleBatchScan
  <2>3. ScanOK'
    BY <2>2 DEF ListInv, ScanOK
  <2>4. ThreadsOK'
    BY <2>2 DEF ListInv, ThreadsOK, Scanning
  <2> QED  BY <2>2, <2>3, <2>4, PositionFrame DEF ListInv
<1>6. ASSUME Advance PROVE ListInv'
  BY <1>6, ListAdvance
<1>7. ASSUME NEW th \in Threads, ProcessBatchCallback(th) PROVE ListInv'
  <2>1. /\ UNCHANGED <<queues, next, closed, scan>>
        /\ pc[th] = "callback" /\ job[th] # NoJob
        /\ pc' = [pc EXCEPT ![th] = "finish"]
        /\ \E j : j # NoJob /\ job' = [job EXCEPT ![th] = j]
    BY <1>7, CallbackEffect
  <2>2. ASSUME NEW x \in Threads
        PROVE  /\ pc'[x] = "scan" <=> pc[x] = "scan"
               /\ pc'[x] \in {"callback", "finish"} <=> job'[x] # NoJob
    BY <2>1 DEF ListInv, ThreadsOK
  <2>3. PositionOK' /\ NoDuplicates' /\ ScanOK' /\ ThreadsOK'
    BY <2>1, <2>2, PositionFrame, ScanFrame, ThreadFrame
  <2> QED  BY <2>3 DEF ListInv
<1>8. ASSUME NEW th \in Threads, FinishBatch(th) PROVE ListInv'
  <2>1. /\ UNCHANGED <<queues, next, closed, scan>>
        /\ pc[th] = "finish"
        /\ pc' = [pc EXCEPT ![th] = "idle"]
        /\ job' = [job EXCEPT ![th] = NoJob]
    BY <1>8, FinishEffect
  <2>2. ASSUME NEW x \in Threads
        PROVE  /\ pc'[x] = "scan" <=> pc[x] = "scan"
               /\ pc'[x] \in {"callback", "finish"} <=> job'[x] # NoJob
    BY <2>1 DEF ListInv, ThreadsOK
  <2>3. PositionOK' /\ NoDuplicates' /\ ScanOK' /\ ThreadsOK'
    BY <2>1, <2>2, PositionFrame, ScanFrame, ThreadFrame
  <2> QED  BY <2>3 DEF ListInv
<1>9. ASSUME NEW q \in Queues, AddQueue(q) PROVE ListInv'
  <2>1. /\ handle[q] = "none" /\ scan = NoScan /\ UNCHANGED <<scan, pc, job>>
        /\ queues' = Append(queues, q)
        /\ next' = IF next = Len(queues) + 1 THEN 1 ELSE next
    BY <1>9, AddQueueEffect
  <2> USE <2>1
  <2>2. \A i \in 1..Len(queues) : queues[i] # q
    BY DEF HandleInv, QueueInv, InList
  <2>3. /\ queues \in Seq(Queues) /\ next \in Nat
        /\ next \in 1..Len(queues) \/ (queues = <<>> /\ next = 1)
        /\ \A i, j \in 1..Len(queues) : queues[i] = queues[j] => i = j
    BY DEF TypeOK, ListInv, PositionOK, NoDuplicates
  <2>4. /\ Len(queues') = Len(queues) + 1 /\ queues'[Len(queues) + 1] = q
        /\ \A i \in 1..Len(queues) : queues'[i] = queues[i]
    <3>1. queues \in Seq(Queues)
      BY <2>3
    <3> QED  BY <3>1, AppendEffect, SMTT(30)
  <2>5. next' \in 1..Len(queues')
    BY <2>3, <2>4, SMTT(30)
  <2>6. \A i, j \in 1..Len(queues') : queues'[i] = queues'[j] => i = j
    BY <2>2, <2>3, <2>4, SMTT(30)
  <2>7. ScanOK'
    BY DEF ScanOK
  <2>8. ThreadsOK'
    BY DEF ListInv, ThreadsOK, Scanning
  <2> QED  BY <2>5, <2>6, <2>7, <2>8 DEF ListInv, PositionOK, NoDuplicates
<1>10. ASSUME NEW q \in Queues, CloseAndWaitUntilEmpty(q) PROVE ListInv'
  <2>1. closed' = [closed EXCEPT ![q] = TRUE] /\ UNCHANGED <<queues, next, scan, pc, job>>
    BY <1>10, CloseEffect
  <2>2. scan # NoScan /\ closed[queues[next]] => closed'[queues[next]]
    BY <2>1, ScanIsAtAQueue DEF TypeOK
  <2> QED  BY <2>1, <2>2, ListFrame
<1>11. ASSUME QuietStep PROVE ListInv'
  BY <1>11, QuietEffect, ListFrame
<1> QED
  BY <1>2, <1>3, <1>4, <1>5, <1>6, <1>7, <1>8, <1>9, <1>10, <1>11, StepCases

(***************************************************************************)
(* The batches.                                                            *)
(***************************************************************************)
LEMMA BatchesFrame ==
    ASSUME BatchInv, batches' = batches PROVE \A q \in Queues : BatchesOK(q)'
BY DEF BatchInv, BatchesOK

LEMMA BatchFrame ==
    ASSUME BatchInv, UNCHANGED <<queues, next, batches, scan, job>> PROVE BatchInv'
<1>1. ScanBatchOK' /\ JobBatchesOK'
  BY DEF BatchInv, ScanBatchOK, JobBatchesOK
<1> QED  BY <1>1, BatchesFrame DEF BatchInv

LEMMA BatchStep == Inv /\ [Next]_vars => BatchInv'
<1> SUFFICES ASSUME Inv, [Next]_vars PROVE BatchInv'
  OBVIOUS
<1>1. /\ TypeOK /\ ListInv /\ BatchInv
      /\ batches \in [Queues -> Seq(BatchesOf(Tasks))]
      /\ job \in [Threads -> [queue : Queues, batch : BatchesOf(Tasks)] \cup {NoJob}]
  BY DEF Inv, TypeOK
<1> USE <1>1
<1>2. ASSUME NEW t \in Tasks, Schedule(t) PROVE BatchInv'
  <2> DEFINE q == QueueOf[t]
  <2>1. PICK bs \in Seq(BatchesOf(Tasks)), late \in BOOLEAN, ready \in BOOLEAN :
            Enqueues(t, q, bs, late, ready)
    BY <1>2, ScheduleEffect
  <2>2. UNCHANGED <<queues, next, scan, job>>
    BY <1>2 DEF Schedule, threadVars
  <2> HIDE DEF q
  <2>3. /\ q \in Queues /\ batches' = [batches EXCEPT ![q] = bs]
        /\ bs # <<>> /\ \A i \in 1..Len(bs) : OfQueue(bs[i], q)
        /\ ~IsEmptyBatch(OpenBatch(bs)) /\ OpenBatch(bs).size <= MaxBatchSize[q]
    BY <2>1 DEF Enqueues
  <2>4. ASSUME NEW p \in Queues PROVE BatchesOK(p)'
    <3>1. CASE p = q
      <4>1. batches'[p] = bs
        BY <2>3, <3>1
      <4> QED  BY <2>3, <3>1, <4>1 DEF BatchesOK
    <3>2. CASE p # q
      <4>1. batches'[p] = batches[p]
        BY <2>3, <3>2
      <4> QED  BY <4>1 DEF BatchInv, BatchesOK
    <3> QED  BY <3>1, <3>2
  <2>5. ScanBatchOK' /\ JobBatchesOK'
    BY <2>2 DEF BatchInv, ScanBatchOK, JobBatchesOK
  <2> QED  BY <2>4, <2>5 DEF BatchInv
<1>3. ASSUME IdleStep \/ QuietStep PROVE BatchInv'
  BY <1>3, IdleEffect, QuietEffect, BatchFrame
<1>4. ASSUME NEW th \in Threads, BeginScan(th), queues # <<>> PROVE BatchInv'
  <2>1. UNCHANGED <<batches, job>> /\ scan'.batch = NoBatch
    BY <1>4, BeginScanEffect
  <2>2. ScanBatchOK' /\ JobBatchesOK'
    BY <2>1 DEF BatchInv, ScanBatchOK, JobBatchesOK
  <2> QED  BY <2>1, <2>2, BatchesFrame DEF BatchInv
<1>5. ASSUME ScheduleBatch PROVE BatchInv'
  <2> DEFINE q == queues[next]
  <2>1. scan # NoScan /\ UNCHANGED <<queues, next, job>>
    BY <1>5 DEF ScheduleBatch
  <2>2. q \in Queues
    BY <2>1, ScanIsAtAQueue
  <2>3. JobBatchesOK'
    BY <2>1 DEF BatchInv, JobBatchesOK
  <2>4. ASSUME NEW b \in BatchesOf(Tasks), NEW bs \in Seq(BatchesOf(Tasks)), NEW late \in BOOLEAN,
               TakesBatch(q, b, bs, late)
        PROVE  BatchInv'
    <3>1. /\ OfQueue(b, q) /\ batches' = [batches EXCEPT ![q] = bs]
          /\ bs # <<>> /\ \A i \in 1..Len(bs) : OfQueue(bs[i], q)
          /\ OpenBatch(bs) = OpenBatch(batches[q]) \/ OpenBatch(bs) = EmptyBatch
          /\ scan' = [scan EXCEPT !.at = "IsEmpty()", !.batch = b]
      BY <2>4 DEF TakesBatch
    <3> USE <3>1
    <3>2. scan'.batch = b
      BY <1>5, ScheduleBatchScan
    <3>3. ScanBatchOK'
      BY <2>1, <3>2 DEF ScanBatchOK
    <3>4. 0 <= MaxBatchSize[q]
      BY <2>2, ConstantTypes, SMTT(30)
    <3>5. /\ OpenBatch(bs).size <= MaxBatchSize[q]
          /\ IsEmptyBatch(OpenBatch(bs)) => OpenBatch(bs).size = 0
      BY <2>2, <3>4, EmptyBatchType DEF BatchInv, BatchesOK
    <3>6. ASSUME NEW p \in Queues PROVE BatchesOK(p)'
      <4>1. CASE p = q
        <5>1. batches'[p] = bs
          BY <4>1
        <5> QED  BY <3>5, <4>1, <5>1 DEF BatchesOK
      <4>2. CASE p # q
        <5>1. batches'[p] = batches[p]
          BY <4>2
        <5> QED  BY <5>1 DEF BatchInv, BatchesOK
      <4> QED  BY <4>1, <4>2
    <3> QED  BY <2>3, <3>3, <3>6 DEF BatchInv
  <2>5. CASE FindsNoBatch(q)
    <3>1. batches' = batches /\ scan' = [scan EXCEPT !.at = "IsEmpty()"]
      BY <2>5 DEF FindsNoBatch
    <3>2. scan'.batch = NoBatch
      BY <1>5, <3>1, ScheduleBatchScan
    <3>3. ScanBatchOK'
      BY <3>2 DEF ScanBatchOK
    <3> QED  BY <2>3, <3>1, <3>3, BatchesFrame DEF BatchInv
  <2> HIDE DEF q
  <2>6. q = queues[next]
    BY DEF q
  <2> QED  BY <1>5, <2>4, <2>5, <2>6, ScheduleBatchEffect
<1>6. ASSUME Advance PROVE BatchInv'
  <2> DEFINE q == queues[next]
             u == scan.thread
  <2>1. scan # NoScan /\ batches' = batches
    BY <1>6, AdvanceEffect
  <2> USE <2>1
  <2>2. u \in Threads
    BY ScanIsAtAQueue
  <2>3. CASE /\ scan.batch = NoBatch
             /\ scan' = NoScan \/ scan'.batch = scan.batch
             /\ job' = job \/ job' = [job EXCEPT ![u] = NoJob]
    <3>1. JobBatchesOK'
      BY <2>2, <2>3 DEF BatchInv, JobBatchesOK
    <3>2. ScanBatchOK'
      BY <2>3 DEF ScanBatchOK
    <3> QED  BY <3>1, <3>2, BatchesFrame DEF BatchInv
  <2>4. CASE /\ scan.batch # NoBatch
             /\ scan' = NoScan
             /\ job' = [job EXCEPT ![u] = [queue |-> q, batch |-> scan.batch]]
    <3> DEFINE j == [queue |-> q, batch |-> scan.batch]
    <3>1. j.queue = q /\ j.batch = scan.batch
      OBVIOUS
    <3>2. OfQueue(scan.batch, q)
      BY <2>4 DEF BatchInv, ScanBatchOK
    <3>3. job' = [job EXCEPT ![u] = j]
      BY <2>4
    <3> HIDE DEF j
    <3>4. JobBatchesOK'
      BY <2>2, <3>1, <3>2, <3>3 DEF BatchInv, JobBatchesOK
    <3>5. ScanBatchOK'
      BY <2>4 DEF ScanBatchOK
    <3> QED  BY <3>4, <3>5, BatchesFrame DEF BatchInv
  <2>5. \/ /\ scan.batch = NoBatch
           /\ scan' = NoScan \/ scan'.batch = scan.batch
           /\ job' = job \/ job' = [job EXCEPT ![u] = NoJob]
        \/ /\ scan.batch # NoBatch
           /\ scan' = NoScan
           /\ job' = [job EXCEPT ![u] = [queue |-> q, batch |-> scan.batch]]
    BY <1>6, AdvanceGoesOn
  <2> QED  BY <2>3, <2>4, <2>5
<1>7. ASSUME NEW th \in Threads, ProcessBatchCallback(th) \/ FinishBatch(th) PROVE BatchInv'
  <2>1. /\ UNCHANGED <<queues, next, batches, scan>>
        /\ \E j : /\ j = NoJob \/ j.batch = EmptyBatch
                  /\ job' = [job EXCEPT ![th] = j]
    BY <1>7, CallbackEffect, FinishEffect
  <2>2. JobBatchesOK'
    BY <2>1, EmptyOfQueue DEF BatchInv, JobBatchesOK
  <2>3. ScanBatchOK'
    BY <2>1 DEF BatchInv, ScanBatchOK
  <2> QED  BY <2>1, <2>2, <2>3, BatchesFrame DEF BatchInv
<1>8. ASSUME NEW q \in Queues, AddQueue(q) PROVE BatchInv'
  <2>1. scan = NoScan /\ UNCHANGED <<batches, scan, job>>
    BY <1>8, AddQueueEffect
  <2>2. ScanBatchOK' /\ JobBatchesOK'
    BY <2>1 DEF BatchInv, ScanBatchOK, JobBatchesOK
  <2> QED  BY <2>1, <2>2, BatchesFrame DEF BatchInv
<1>9. ASSUME NEW q \in Queues, CloseAndWaitUntilEmpty(q) PROVE BatchInv'
  BY <1>9, CloseEffect, BatchFrame
<1> QED
  BY <1>2, <1>3, <1>4, <1>5, <1>6, <1>7, <1>8, <1>9, StepCases

(***************************************************************************)
(* Queues on which nothing is in progress.                                 *)
(***************************************************************************)
LEMMA ProcessingIsFinite ==
    ASSUME NEW q PROVE IsFiniteSet(Processing(q)) /\ Cardinality(Processing(q)) \in Nat
<1>1. Processing(q) \subseteq Threads
  BY DEF Processing
<1> QED  BY <1>1, ConstantTypes, FS_Subset, FS_CardinalityType

\* A queue that is empty has no task, neither in its batches nor in process.
LEMMA EmptyHoldsNothing ==
    ASSUME Inv, NEW q \in Queues, Empty(q), NEW t \in Tasks, QueueOf[t] = q
    PROVE  ~Held(t)
<1>0. QueueInv(q) /\ TypeOK /\ ListInv /\ BatchInv
  BY DEF Inv, HandleInv
<1> USE <1>0
<1>1. Processing(q) = {}
  <2>1. Cardinality(Processing(q)) = 0
    BY DEF QueueInv, Empty, IsEmptyInternal
  <2> QED  BY <2>1, ProcessingIsFinite, FS_EmptySet
<1>2. ASSUME NEW b \in BatchesOf(Tasks), NEW p, OfQueue(b, p), t \in Range(b.tasks)
      PROVE  p = q
  <2>1. b.tasks \in Seq(Tasks)
    BY DEF BatchesOf
  <2>2. \E i \in 1..Len(b.tasks) : b.tasks[i] = t
    BY <1>2, <2>1, SMTT(30) DEF Range
  <2> QED  BY <1>2, <2>2 DEF OfQueue
<1>3. ASSUME NEW i \in DOMAIN batches[q] PROVE t \notin Range(batches[q][i].tasks)
  <2>1. batches[q] \in Seq(BatchesOf(Tasks)) /\ Len(batches[q]) = 1
        /\ batches[q][Len(batches[q])].tasks = <<>>
    BY DEF TypeOK, Empty, IsEmptyInternal, IsEmptyBatch, OpenBatch
  <2>2. batches[q][i].tasks = <<>>
    BY <2>1, SMTT(30)
  <2> QED  BY <2>2, SMTT(30) DEF Range
<1>4. ~(scan # NoScan /\ scan.batch # NoBatch /\ t \in Range(scan.batch.tasks))
  <2> SUFFICES ASSUME scan # NoScan, scan.batch # NoBatch, t \in Range(scan.batch.tasks)
               PROVE  FALSE
    OBVIOUS
  <2>1. scan.thread \in Threads /\ scan.batch \in BatchesOf(Tasks)
    BY ScanIsAtAQueue
  <2>2. OfQueue(scan.batch, queues[next])
    BY DEF BatchInv, ScanBatchOK
  <2>3. queues[next] = q
    BY <1>2, <2>1, <2>2
  <2> QED  BY <1>1, <2>1, <2>3 DEF Processing, Scanning
<1>5. ASSUME NEW th \in Threads, job[th] # NoJob PROVE t \notin Range(job[th].batch.tasks)
  <2>1. job[th].batch \in BatchesOf(Tasks) /\ OfQueue(job[th].batch, job[th].queue)
    BY <1>5, JobTypes DEF BatchInv, JobBatchesOK
  <2>2. job[th].queue # q
    BY <1>1, <1>5 DEF Processing
  <2> QED  BY <1>2, <2>1, <2>2
<1> QED  BY <1>3, <1>4, <1>5 DEF Held
=============================================================================
