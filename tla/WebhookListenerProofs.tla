----------------------- MODULE WebhookListenerProofs -----------------------
(* What WebhookListener guarantees for every set of broadcasts and channels, *)
(* proved with TLAPS.                                                        *)
EXTENDS WebhookListener, SequenceTheorems, TLAPS

USE InternalAssumption, NoBatchAssumption

Unique(s) == \A i, j \in 1 .. Len(s) : s[i] = s[j] => i = j

---------------------------------------------------------------------------
(* Lemmas about the Map of pending batches.                                  *)

(* A deleted entry stood at one place, and the sequence closes over it.       *)
LEMMA WithoutAt ==
  ASSUME NEW S, NEW s \in Seq(S), NEW d, InSeq(d, s)
  PROVE  \E i \in 1 .. Len(s) :
           /\ s[i] = d
           /\ Without(s, d) \in Seq(S)
           /\ Len(Without(s, d)) = Len(s) - 1
           /\ \A j \in 1 .. Len(s) - 1 :
                Without(s, d)[j] = IF j < i THEN s[j] ELSE s[j + 1]
<1> DEFINE i == CHOOSE i \in 1 .. Len(s) : s[i] = d
<1>1. i \in 1 .. Len(s) /\ s[i] = d
  BY DEF InSeq
<1>2. Without(s, d) = SubSeq(s, 1, i - 1) \o SubSeq(s, i + 1, Len(s))
  BY DEF Without, RemoveAt
<1> HIDE DEF i
<1> DEFINE a == SubSeq(s, 1, i - 1)
           b == SubSeq(s, i + 1, Len(s))
<1>3. /\ a \in Seq(S) /\ Len(a) = i - 1
      /\ \A j \in 1 .. i - 1 : a[j] = s[j]
  BY <1>1
<1>4. /\ b \in Seq(S) /\ Len(b) = Len(s) - i
      /\ \A j \in 1 .. Len(s) - i : b[j] = s[i + j]
  BY <1>1
<1> HIDE DEF a, b
<1>5. /\ a \o b \in Seq(S) /\ Len(a \o b) = Len(s) - 1
      /\ \A j \in 1 .. Len(s) - 1 :
           (a \o b)[j] = IF j < i THEN s[j] ELSE s[j + 1]
  <2>1. a \o b \in Seq(S) /\ Len(a \o b) = Len(a) + Len(b)
    BY <1>3, <1>4
  <2>2. ASSUME NEW j \in 1 .. Len(s) - 1
        PROVE  (a \o b)[j] = IF j < i THEN s[j] ELSE s[j + 1]
    <3>1. (a \o b)[j] = IF j <= Len(a) THEN a[j] ELSE b[j - Len(a)]
      BY <1>1, <1>3, <1>4
    <3>2. CASE j < i
      BY <1>1, <1>3, <3>1, <3>2
    <3>3. CASE i <= j
      <4>1. j - Len(a) \in 1 .. Len(s) - i /\ i + (j - Len(a)) = j + 1
        BY <1>1, <1>3, <3>3
      <4> QED BY <1>1, <1>3, <1>4, <3>1, <3>3, <4>1
    <3>4. j < i \/ i <= j
      BY <1>1
    <3> QED BY <3>2, <3>3, <3>4
  <2> QED BY <1>1, <1>3, <1>4, <2>1, <2>2
<1> QED BY <1>1, <1>2, <1>5 DEF a, b

(* Deleting keeps a sequence of batches one, and a set of batches a set.      *)
LEMMA WithoutType ==
  ASSUME NEW S, NEW s \in Seq(S), NEW d
  PROVE  Without(s, d) \in Seq(S)
<1>1. CASE InSeq(d, s)
  BY <1>1, WithoutAt
<1>2. CASE ~InSeq(d, s)
  BY <1>2 DEF Without
<1> QED BY <1>1, <1>2

(* What is left is what was there, except the deleted entry.                  *)
LEMMA WithoutElements ==
  ASSUME NEW S, NEW s \in Seq(S), NEW d, Unique(s)
  PROVE  /\ Unique(Without(s, d))
         /\ \A e : InSeq(e, Without(s, d)) <=> InSeq(e, s) /\ e # d
<1>1. CASE ~InSeq(d, s)
  BY <1>1 DEF Without, InSeq
<1>2. CASE InSeq(d, s)
  <2> DEFINE t == Without(s, d)
  <2>1. PICK i \in 1 .. Len(s) :
          /\ s[i] = d /\ Len(t) = Len(s) - 1
          /\ \A j \in 1 .. Len(s) - 1 : t[j] = IF j < i THEN s[j] ELSE s[j + 1]
    BY <1>2, WithoutAt
  <2> HIDE DEF t
  <2>2. Unique(t)
    BY <2>1 DEF Unique
  <2>3. ASSUME NEW e, InSeq(e, t) PROVE InSeq(e, s) /\ e # d
    BY <2>1, <2>3 DEF Unique, InSeq
  <2>4. ASSUME NEW e, InSeq(e, s), e # d PROVE InSeq(e, t)
    <3>1. PICK k \in 1 .. Len(s) : s[k] = e
      BY <2>4 DEF InSeq
    <3>2. CASE k < i
      BY <2>1, <3>1, <3>2 DEF InSeq
    <3>3. CASE i < k
      <4>1. k - 1 \in 1 .. Len(s) - 1 /\ ~(k - 1 < i) /\ (k - 1) + 1 = k
        BY <3>3
      <4> QED BY <2>1, <3>1, <4>1 DEF InSeq
    <3> QED BY <2>1, <2>4, <3>1, <3>2, <3>3
  <2> QED BY <2>2, <2>3, <2>4 DEF t
<1> QED BY <1>1, <1>2

(* The oldest entry is deleted from the front.                                *)
LEMMA WithoutHead ==
  ASSUME NEW S, NEW s \in Seq(S), Unique(s), s # <<>>
  PROVE  Without(s, Head(s)) = Tail(s)
<1> DEFINE t == Without(s, Head(s))
<1>1. 1 \in 1 .. Len(s) /\ s[1] = Head(s)
  OBVIOUS
<1>2. PICK i \in 1 .. Len(s) :
        /\ s[i] = Head(s) /\ t \in Seq(S) /\ Len(t) = Len(s) - 1
        /\ \A j \in 1 .. Len(s) - 1 : t[j] = IF j < i THEN s[j] ELSE s[j + 1]
  <2>1. InSeq(Head(s), s)
    BY <1>1 DEF InSeq
  <2> QED BY <2>1, WithoutAt
<1>3. i = 1
  BY <1>1, <1>2 DEF Unique
<1> HIDE DEF t
<1>4. \A j \in 1 .. Len(s) - 1 : t[j] = s[j + 1]
  BY <1>2, <1>3
<1>5. Tail(s) \in Seq(S) /\ Len(Tail(s)) = Len(s) - 1
      /\ \A j \in 1 .. Len(s) - 1 : Tail(s)[j] = s[j + 1]
  OBVIOUS
<1>6. t = Tail(s)
  BY <1>2, <1>4, <1>5, SeqEqual
<1> QED BY <1>6 DEF t

---------------------------------------------------------------------------
(* Type correctness.                                                         *)

LEMMA TakeType ==
  ASSUME TypeOK, NEW d \in Payloads, Take(d)
  PROVE  /\ pendingBatches' \in Seq(Payloads)
         /\ timer' \in [Payloads -> {"none", "armed", "fired", "cleared"}]
  BY WithoutType DEF Take, TypeOK

LEMMA TypeStep == TypeOK /\ [Next]_vars => TypeOK'
<1> SUFFICES ASSUME TypeOK, [Next]_vars PROVE TypeOK'
  OBVIOUS
<1> USE DEF TypeOK, obsVars
<1>1. ASSUME NEW d \in Payloads, NEW c \in Channels, OnEventPublished(d, c)
      PROVE  TypeOK'
  <2>1. before' \in SUBSET Events
    BY <1>1 DEF OnEventPublished, Events
  <2>2. pendingBatches' \in Seq(Payloads) /\ opened' \in Seq(Payloads)
        /\ timer' \in [Payloads -> {"none", "armed", "fired", "cleared"}]
    <3>1. CASE UNCHANGED <<pendingBatches, timer, opened>>
      BY <3>1
    <3>2. CASE OpenBatch(d)
      BY <3>2 DEF OpenBatch
    <3> QED BY <1>1, <3>1, <3>2 DEF OnEventPublished
  <2> QED BY <1>1, <2>1, <2>2, SMTT(30) DEF OnEventPublished
<1>2. ASSUME NEW d \in Payloads, TimerFires(d) PROVE TypeOK'
  BY <1>2 DEF TimerFires, Chained
<1>3. CASE DrainNext
  <2>1. Head(draining) \in Payloads /\ Tail(draining) \in Seq(Payloads)
    BY <1>3 DEF DrainNext
  <2> QED BY <1>3, <2>1, TakeType DEF DrainNext
<1>4. ASSUME NEW d \in Payloads PROVE JobOf(d) \in Jobs
  BY DEF JobOf, Jobs
<1>5. CASE DrainAdded
  BY <1>4, <1>5 DEF DrainAdded
<1>6. CASE FlushNext
  <2>1. Head(pendingBatches) \in Payloads
    BY <1>6 DEF FlushNext
  <2> QED BY <1>6, <2>1, TakeType DEF FlushNext
<1>7. CASE FlushAdded
  BY <1>4, <1>7 DEF FlushAdded
<1>8. CASE AddRejected \/ Shutdown \/ DrainingSettles \/ Exit
  BY <1>8 DEF AddRejected, Shutdown, DrainingSettles, Exit
<1>9. CASE FlushEnds
  <2>1. OnChain \in SUBSET Payloads
    BY DEF OnChain
  <2> QED BY <1>9, <2>1 DEF FlushEnds
<1>10. CASE Exited \/ UNCHANGED vars
  BY <1>10 DEF Exited, vars
<1> QED
  BY <1>1, <1>2, <1>3, <1>5, <1>6, <1>7, <1>8, <1>9, <1>10 DEF Next

(* Batches, the chain, the jobs and the observations keep their types.        *)
THEOREM TypeCorrect == Spec => []TypeOK
<1>1. Init => TypeOK
  BY DEF Init, TypeOK
<1> QED BY <1>1, TypeStep, PTL DEF Spec

---------------------------------------------------------------------------
(* Where a batch is: pending, perhaps on the chain as well, then in the hand *)
(* of the chain or of the shutdown, then in the queue.                       *)

InJobs(d) == \E i \in 1 .. Len(jobs) : jobs[i].data = d
Handed(d) == d = draining_add \/ d = flush_add \/ InJobs(d)

PlaceInv ==
  /\ Unique(pendingBatches) /\ Unique(draining)
  /\ \A d \in Payloads :
       /\ IsPending(d) => timer[d] \in {"armed", "fired"}
       /\ timer[d] = "armed" => IsPending(d)
       /\ InSeq(d, draining) => timer[d] = "fired"
       /\ Handed(d) => ~IsPending(d) /\ timer[d] # "none"
  /\ draining_add = flush_add => draining_add = NoBatch
  /\ ~InJobs(draining_add) /\ ~InJobs(flush_add)
  /\ QueuedOnce

(* While nothing shuts down: the batches opened are those in the queue, the   *)
(* one in the hand of the chain and the pending ones, in this order; the chain *)
(* holds the pending batches whose timers have fired, the oldest first.       *)
Gone == Len(jobs) + (IF draining_add = NoBatch THEN 0 ELSE 1)

OrderInv ==
  phase = "running" =>
    /\ flush_add = NoBatch
    /\ Len(opened) = Gone + Len(pendingBatches)
    /\ \A i \in 1 .. Len(jobs) : jobs[i].data = opened[i]
    /\ draining_add # NoBatch => draining_add = opened[Gone]
    /\ \A i \in 1 .. Len(pendingBatches) : pendingBatches[i] = opened[Gone + i]
    /\ Len(draining) <= Len(pendingBatches)
    /\ \A i \in 1 .. Len(draining) : draining[i] = pendingBatches[i]
    /\ \A i \in Len(draining) + 1 .. Len(pendingBatches) :
         timer[pendingBatches[i]] = "armed"

(* No event is dropped on the way, and no channel of it.                      *)
KeptInv ==
  /\ \A e \in before :
       /\ e[2] \in events[e[1]]
       /\ IsPending(e[1]) \/ Handed(e[1])
  /\ \A i \in 1 .. Len(jobs) : jobs[i].channels = events[jobs[i].data]

(* Once the loop is through, what is not in the queue is the batch the        *)
(* shutdown waits for.                                                       *)
FlushedInv ==
  phase \in {"awaiting", "closed"} =>
    \A e \in before :
      \/ InJobs(e[1])
      \/ phase = "awaiting" /\ e[1] = draining_add /\ e[1] \in awaited

---------------------------------------------------------------------------
(* A step that only moves the shutdown on leaves every batch where it is.     *)
Places == <<pendingBatches, timer, draining, draining_add, flush_add, jobs>>

LEMMA QuietSteps ==
  ASSUME \/ AddRejected \/ Shutdown \/ FlushEnds \/ DrainingSettles \/ Exit
         \/ Exited \/ UNCHANGED vars
  PROVE  UNCHANGED <<Places, events, before, opened>>
  BY DEF AddRejected, Shutdown, FlushEnds, DrainingSettles, Exit, Exited, vars,
         obsVars, Places

(* Whoever takes a pending batch has it alone.                               *)
LEMMA TakeMeans ==
  ASSUME TypeOK, PlaceInv, NEW d \in Payloads, Take(d)
  PROVE  /\ Unique(pendingBatches')
         /\ \A e : IsPending(e)' <=> IsPending(e) /\ e # d
         /\ timer'[d] # "armed"
         /\ timer[d] # "armed" => timer'[d] = timer[d]
         /\ timer[d] # "none" => timer'[d] # "none"
         /\ \A e \in Payloads : e # d => timer'[e] = timer[e]
  BY WithoutElements DEF Take, IsPending, TypeOK, PlaceInv

(* The chain without its first batch.                                        *)
LEMMA ChainMoves ==
  ASSUME TypeOK, Unique(draining), draining # <<>>
  PROVE  /\ Head(draining) \in Payloads
         /\ InSeq(Head(draining), draining)
         /\ Unique(Tail(draining))
         /\ \A e : InSeq(e, Tail(draining)) => InSeq(e, draining)
<1>1. /\ Head(draining) = draining[1] /\ 1 \in 1 .. Len(draining)
      /\ Tail(draining) \in Seq(Payloads)
      /\ Len(Tail(draining)) = Len(draining) - 1
      /\ \A j \in 1 .. Len(draining) - 1 :
           /\ Tail(draining)[j] = draining[j + 1]
           /\ j + 1 \in 1 .. Len(draining)
  BY DEF TypeOK
<1>2. Head(draining) \in Payloads /\ InSeq(Head(draining), draining)
  BY <1>1 DEF TypeOK, InSeq
<1>3. Unique(Tail(draining))
  BY <1>1 DEF TypeOK, Unique
<1>4. \A e : InSeq(e, Tail(draining)) => InSeq(e, draining)
  BY <1>1 DEF TypeOK, InSeq
<1> QED BY <1>2, <1>3, <1>4

(* A batch that was in a hand is in the queue, the others stay.               *)
LEMMA AddMeans ==
  ASSUME TypeOK, NEW d \in Payloads, jobs' = Append(jobs, JobOf(d))
  PROVE  /\ \A e : InJobs(e)' <=> InJobs(e) \/ e = d
         /\ QueuedOnce /\ ~InJobs(d) => QueuedOnce'
         /\ \A i \in 1 .. Len(jobs') :
              jobs'[i] = IF i <= Len(jobs) THEN jobs[i] ELSE JobOf(d)
<1>1. /\ Len(jobs') = Len(jobs) + 1 /\ Len(jobs) \in Nat
      /\ \A i \in 1 .. Len(jobs') :
              jobs'[i] = IF i <= Len(jobs) THEN jobs[i] ELSE JobOf(d)
  BY DEF TypeOK
<1>2. JobOf(d).data = d
  BY DEF JobOf
<1>3. \A e : InJobs(e)' <=> InJobs(e) \/ e = d
  BY <1>1, <1>2 DEF InJobs
<1>4. QueuedOnce /\ ~InJobs(d) => QueuedOnce'
  BY <1>1, <1>2 DEF InJobs, QueuedOnce
<1> QED BY <1>1, <1>3, <1>4

LEMMA PlaceStep == TypeOK /\ PlaceInv /\ [Next]_vars => PlaceInv'
<1> SUFFICES ASSUME TypeOK, PlaceInv, [Next]_vars PROVE PlaceInv'
  OBVIOUS
<1>1. ASSUME NEW d \in Payloads, NEW c \in Channels, OnEventPublished(d, c)
      PROVE  PlaceInv'
  <2>1. CASE UNCHANGED <<pendingBatches, timer>>
    BY <1>1, <2>1 DEF OnEventPublished, PlaceInv, IsPending, Handed, InJobs,
                      QueuedOnce, Unique, InSeq
  <2>2. CASE ~IsPending(d) /\ OpenBatch(d)
    <3>1. timer[d] = "none"
      BY <1>1, <2>2 DEF OnEventPublished
    <3>2. Unique(pendingBatches') /\ \A e : IsPending(e)' <=> IsPending(e) \/ e = d
      BY <2>2 DEF OpenBatch, PlaceInv, TypeOK, Unique, IsPending, InSeq
    <3>3. timer'[d] = "armed" /\ \A e \in Payloads : e # d => timer'[e] = timer[e]
      BY <2>2 DEF OpenBatch, TypeOK
    <3>4. UNCHANGED <<draining, draining_add, flush_add, jobs>>
      BY <1>1 DEF OnEventPublished
    <3> QED
      BY <3>1, <3>2, <3>3, <3>4 DEF PlaceInv, Handed, InJobs, QueuedOnce, Unique, InSeq
  <2> QED BY <1>1, <2>1, <2>2 DEF OnEventPublished
<1>2. ASSUME NEW d \in Payloads, TimerFires(d) PROVE PlaceInv'
  <2>1. IsPending(d) /\ timer[d] = "armed"
    BY <1>2 DEF TimerFires, IsPending, InSeq
  <2>2. /\ timer'[d] = "fired" /\ \A e \in Payloads : e # d => timer'[e] = timer[e]
        /\ UNCHANGED <<pendingBatches, draining_add, flush_add, jobs>>
    BY <1>2 DEF TimerFires, TypeOK
  <2>3. Unique(draining') /\ \A e : InSeq(e, draining') <=> InSeq(e, draining) \/ e = d
    <3>1. ~InSeq(d, draining) /\ Unique(draining)
      BY <2>1 DEF PlaceInv
    <3>2. draining' = Append(draining, d) /\ draining \in Seq(Payloads)
      BY <1>2 DEF TimerFires, Chained, TypeOK
    <3>3. /\ Len(draining') = Len(draining) + 1 /\ Len(draining) \in Nat
          /\ \A i \in 1 .. Len(draining) : draining'[i] = draining[i]
          /\ draining'[Len(draining) + 1] = d
      BY <3>2
    <3>4. \A e : InSeq(e, draining') <=> InSeq(e, draining) \/ e = d
      BY <3>3 DEF InSeq
    <3>5. Unique(draining')
      BY <3>1, <3>3 DEF Unique, InSeq
    <3> QED BY <3>4, <3>5
  <2> QED
    BY <2>1, <2>2, <2>3 DEF PlaceInv, Handed, InJobs, QueuedOnce, Unique, IsPending
<1>3. CASE DrainNext
  <2> DEFINE d == Head(draining)
  <2>1. /\ draining # <<>> /\ draining_add = NoBatch /\ draining' = Tail(draining)
        /\ Take(d) /\ draining_add' = IF IsPending(d) THEN d ELSE NoBatch
        /\ UNCHANGED <<flush_add, jobs>>
    BY <1>3 DEF DrainNext, Takes
  <2>2. /\ d \in Payloads /\ InSeq(d, draining) /\ Unique(draining')
        /\ \A e : InSeq(e, draining') => InSeq(e, draining)
    BY <2>1, ChainMoves DEF PlaceInv
  <2> HIDE DEF d
  <2>3. timer[d] = "fired"
    BY <2>2 DEF PlaceInv
  <2>4. /\ Unique(pendingBatches') /\ UNCHANGED timer
        /\ \A e : IsPending(e)' <=> IsPending(e) /\ e # d
    BY <2>1, <2>2, <2>3, TakeMeans DEF Take
  <2>5. \A e : InJobs(e)' = InJobs(e) /\ (QueuedOnce' = QueuedOnce)
    BY <2>1 DEF InJobs, QueuedOnce
  <2> QED
    BY <2>1, <2>2, <2>3, <2>4, <2>5 DEF PlaceInv, Handed
<1>4. CASE DrainAdded \/ FlushAdded
  <2>1. PICK d \in Payloads :
          /\ jobs' = Append(jobs, JobOf(d))
          /\ \/ draining_add = d /\ draining_add' = NoBatch /\ UNCHANGED flush_add
             \/ flush_add = d /\ flush_add' = NoBatch /\ UNCHANGED draining_add
    BY <1>4 DEF DrainAdded, FlushAdded, TypeOK
  <2>2. UNCHANGED <<pendingBatches, timer, draining>>
    BY <1>4 DEF DrainAdded, FlushAdded
  <2>3. \A e : InJobs(e)' <=> InJobs(e) \/ e = d
    BY <2>1, AddMeans
  <2>4. ~InJobs(d) /\ QueuedOnce'
    BY <2>1, AddMeans DEF PlaceInv
  <2>5. ~InJobs(NoBatch)'
    <3>1. \A i \in 1 .. Len(jobs) : jobs[i].data \in Payloads
      <4>1. \A i \in 1 .. Len(jobs) : jobs[i] \in Jobs
        BY ElementOfSeq DEF TypeOK
      <4> QED BY <4>1 DEF Jobs
    <3>2. ~InJobs(NoBatch)
      BY <3>1 DEF InJobs
    <3> QED BY <2>1, <2>3, <3>2
  <2>6. \A e : (IsPending(e)' <=> IsPending(e)) /\ (InSeq(e, draining') <=> InSeq(e, draining))
    BY <2>2 DEF IsPending
  <2>7. Unique(pendingBatches') /\ Unique(draining')
    BY <2>2 DEF PlaceInv
  <2>8. \A e \in Payloads : Handed(e)' => Handed(e)
    BY <2>1, <2>3 DEF Handed
  <2>9. /\ draining_add' = flush_add' => draining_add' = NoBatch
        /\ ~InJobs(draining_add)' /\ ~InJobs(flush_add)'
    BY <2>1, <2>3, <2>5 DEF PlaceInv
  <2> QED
    BY <2>2, <2>4, <2>6, <2>7, <2>8, <2>9 DEF PlaceInv
<1>5. CASE FlushNext
  <2> DEFINE d == Head(pendingBatches)
  <2>1. /\ flush_add = NoBatch /\ Take(d) /\ flush_add' = d
        /\ UNCHANGED <<draining, draining_add, jobs>>
    BY <1>5 DEF FlushNext
  <2>2. d \in Payloads /\ IsPending(d)
    BY <1>5 DEF FlushNext, TypeOK, IsPending, InSeq
  <2> HIDE DEF d
  <2>3. /\ Unique(pendingBatches')
        /\ \A e : IsPending(e)' <=> IsPending(e) /\ e # d
        /\ timer'[d] \notin {"armed", "none"}
        /\ timer[d] # "armed" => timer'[d] = timer[d]
        /\ \A e \in Payloads : e # d => timer'[e] = timer[e]
    BY <2>1, <2>2, TakeMeans DEF PlaceInv
  <2>4. \A e : InJobs(e)' = InJobs(e) /\ (QueuedOnce' = QueuedOnce)
    BY <2>1 DEF InJobs, QueuedOnce
  <2>5. ~InSeq(d, draining) \/ timer'[d] = "fired"
    BY <2>2, <2>3 DEF PlaceInv
  <2>6. ~Handed(d)
    BY <2>2 DEF PlaceInv
  <2> QED
    BY <2>1, <2>2, <2>3, <2>4, <2>5, <2>6 DEF PlaceInv, Handed
<1>6. CASE UNCHANGED Places
  BY <1>6 DEF Places, PlaceInv, Handed, InJobs, QueuedOnce, Unique, IsPending, InSeq
<1> QED
  BY <1>1, <1>2, <1>3, <1>4, <1>5, <1>6, QuietSteps DEF Next

LEMMA PlaceAlways == Spec => []PlaceInv
<1>1. Init => PlaceInv
  BY DEF Init, PlaceInv, Unique, IsPending, InSeq, Handed, InJobs, QueuedOnce
<1> QED BY <1>1, PlaceStep, TypeCorrect, PTL DEF Spec

(* A batch is taken once and queued once, although the chain and a shutdown   *)
(* may both hold it and run beside each other.                               *)
THEOREM QueuedOnceAlways == Spec => []QueuedOnce
<1>1. PlaceInv => QueuedOnce
  BY DEF PlaceInv
<1> QED BY <1>1, PlaceAlways, PTL

---------------------------------------------------------------------------
(* Jobs in the order of the broadcasts.                                      *)

LEMMA OrderStep == TypeOK /\ PlaceInv /\ OrderInv /\ [Next]_vars => OrderInv'
<1> SUFFICES ASSUME TypeOK, PlaceInv, OrderInv, [Next]_vars, phase' = "running"
             PROVE  OrderInv'
  BY DEF OrderInv
<1>0. /\ Len(jobs) \in Nat /\ Len(pendingBatches) \in Nat /\ Len(opened) \in Nat
      /\ Len(draining) \in Nat /\ Gone \in Nat
  BY DEF TypeOK, Gone
<1>1. ASSUME NEW d \in Payloads, NEW c \in Channels, OnEventPublished(d, c)
      PROVE  OrderInv'
  <2>1. /\ phase = "running"
        /\ UNCHANGED <<draining, draining_add, flush_add, jobs>> /\ Gone' = Gone
    BY <1>1 DEF OnEventPublished, Gone
  <2>2. CASE UNCHANGED <<pendingBatches, timer, opened>>
    BY <2>1, <2>2 DEF OrderInv
  <2>3. CASE ~IsPending(d) /\ OpenBatch(d)
    <3>1. timer[d] = "none" /\ timer'[d] = "armed"
          /\ \A e \in Payloads : e # d => timer'[e] = timer[e]
      BY <1>1, <2>3 DEF OnEventPublished, OpenBatch, TypeOK
    <3>2. /\ Len(pendingBatches') = Len(pendingBatches) + 1
          /\ Len(opened') = Len(opened) + 1
          /\ pendingBatches'[Len(pendingBatches) + 1] = d
          /\ opened'[Len(opened) + 1] = d
          /\ \A i \in 1 .. Len(pendingBatches) :
               /\ pendingBatches'[i] = pendingBatches[i]
               /\ pendingBatches[i] \in Payloads /\ pendingBatches[i] # d
          /\ \A i \in 1 .. Len(opened) : opened'[i] = opened[i]
      BY <2>3 DEF OpenBatch, TypeOK, IsPending, InSeq
    <3>3. /\ flush_add = NoBatch
          /\ Len(opened) = Gone + Len(pendingBatches)
          /\ \A i \in 1 .. Len(jobs) : jobs[i].data = opened[i]
          /\ draining_add # NoBatch => draining_add = opened[Gone]
          /\ \A i \in 1 .. Len(pendingBatches) : pendingBatches[i] = opened[Gone + i]
          /\ Len(draining) <= Len(pendingBatches)
          /\ \A i \in 1 .. Len(draining) : draining[i] = pendingBatches[i]
          /\ \A i \in Len(draining) + 1 .. Len(pendingBatches) :
               timer[pendingBatches[i]] = "armed"
      BY <2>1 DEF OrderInv
    <3>4. \A i \in 1 .. Len(jobs') : jobs'[i].data = opened'[i]
      <4>1. Len(jobs) <= Len(opened)
        BY <1>0, <3>3 DEF Gone
      <4>2. \A i \in 1 .. Len(jobs) : i \in 1 .. Len(opened)
        BY <1>0, <4>1
      <4> QED BY <2>1, <3>2, <3>3, <4>2
    <3>5. draining_add' # NoBatch => draining_add' = opened'[Gone']
      <4>1. draining_add # NoBatch => Gone \in 1 .. Len(opened)
        BY <1>0, <3>3 DEF Gone
      <4> QED BY <2>1, <3>2, <3>3, <4>1
    <3>6. ASSUME NEW i \in 1 .. Len(pendingBatches')
          PROVE  pendingBatches'[i] = opened'[Gone + i]
      <4>1. CASE i = Len(pendingBatches) + 1
        <5>1. Gone + i = Len(opened) + 1
          BY <1>0, <3>3, <4>1
        <5> QED BY <3>2, <4>1, <5>1
      <4>2. CASE i \in 1 .. Len(pendingBatches)
        <5>1. Gone + i \in 1 .. Len(opened)
          BY <1>0, <3>3, <4>2
        <5> QED BY <3>2, <3>3, <4>2, <5>1
      <4> QED BY <1>0, <3>2, <4>1, <4>2
    <3>7. ASSUME NEW i \in 1 .. Len(draining)
          PROVE  draining[i] = pendingBatches'[i]
      <4>1. i \in 1 .. Len(pendingBatches) /\ draining[i] = pendingBatches[i]
        BY <1>0, <3>3
      <4> QED BY <3>2, <4>1
    <3>8. \A i \in Len(draining) + 1 .. Len(pendingBatches') :
            timer'[pendingBatches'[i]] = "armed"
      BY <1>0, <3>1, <3>2, <3>3
    <3> QED
      BY <1>0, <2>1, <3>2, <3>3, <3>4, <3>5, <3>6, <3>7, <3>8 DEF OrderInv
  <2>4. CASE UNCHANGED <<pendingBatches, events, timer, obsVars>>
    BY <2>2, <2>4 DEF obsVars
  <2> QED BY <1>1, <2>2, <2>3, <2>4 DEF OnEventPublished
<1>2. ASSUME NEW d \in Payloads, TimerFires(d) PROVE OrderInv'
  <2>1. /\ phase = "running" /\ Gone' = Gone
        /\ UNCHANGED <<pendingBatches, opened, draining_add, flush_add, jobs>>
        /\ timer'[d] = "fired" /\ \A e \in Payloads : e # d => timer'[e] = timer[e]
        /\ draining' = Append(draining, d)
    BY <1>2 DEF TimerFires, Chained, Gone, obsVars, TypeOK
  <2>2. PICK i \in 1 .. Len(pendingBatches) :
          /\ pendingBatches[i] = d /\ timer[d] = "armed"
          /\ \A j \in 1 .. i - 1 : timer[pendingBatches[j]] # "armed"
    BY <1>2 DEF TimerFires
  <2>3. ~InSeq(d, draining)
    BY <2>2 DEF PlaceInv
  <2>4. i = Len(draining) + 1
    <3>1. ~(i <= Len(draining))
      BY <1>0, <2>1, <2>2, <2>3 DEF OrderInv, InSeq
    <3>2. ~(Len(draining) + 1 < i)
      <4>1. SUFFICES ASSUME Len(draining) + 1 < i PROVE FALSE
        OBVIOUS
      <4>2. Len(draining) + 1 \in 1 .. i - 1
        BY <1>0, <4>1
      <4>3. Len(draining) + 1 \in Len(draining) + 1 .. Len(pendingBatches)
        BY <1>0, <4>1
      <4> QED BY <2>1, <2>2, <4>2, <4>3 DEF OrderInv
    <3> QED BY <1>0, <3>1, <3>2
  <2>5. /\ Len(draining') = i
        /\ \A j \in 1 .. i : draining'[j] = pendingBatches[j]
    BY <1>0, <2>1, <2>2, <2>4 DEF OrderInv, TypeOK
  <2>6. \A j \in i + 1 .. Len(pendingBatches) : timer'[pendingBatches[j]] = "armed"
    <3>1. \A j \in i + 1 .. Len(pendingBatches) :
            pendingBatches[j] \in Payloads /\ pendingBatches[j] # d
      BY <2>2 DEF PlaceInv, Unique, TypeOK
    <3>2. \A j \in i + 1 .. Len(pendingBatches) : timer[pendingBatches[j]] = "armed"
      BY <1>0, <2>1, <2>4 DEF OrderInv
    <3> QED BY <2>1, <3>1, <3>2
  <2> QED BY <1>0, <2>1, <2>5, <2>6 DEF OrderInv
<1>3. CASE DrainNext
  <2> DEFINE d == Head(draining)
  <2>1. /\ phase = "running" /\ draining # <<>> /\ draining_add = NoBatch
        /\ draining' = Tail(draining) /\ Take(d)
        /\ draining_add' = IF IsPending(d) THEN d ELSE NoBatch
        /\ UNCHANGED <<flush_add, jobs, opened>>
    BY <1>3 DEF DrainNext, Takes, obsVars
  <2>2. /\ Len(draining) > 0 /\ draining[1] = d /\ d = pendingBatches[1]
        /\ Len(pendingBatches) > 0 /\ d = Head(pendingBatches)
    BY <1>0, <2>1 DEF OrderInv, TypeOK
  <2>3. d \in Payloads /\ IsPending(d)
    BY <1>0, <2>2 DEF IsPending, InSeq, TypeOK
  <2>4. pendingBatches' = Tail(pendingBatches)
    BY <1>0, <2>1, <2>2, WithoutHead DEF Take, PlaceInv, TypeOK
  <2>5. UNCHANGED timer
    <3>1. InSeq(d, draining)
      BY <2>1, ChainMoves DEF PlaceInv
    <3> QED BY <2>1, <2>3, <3>1 DEF Take, PlaceInv
  <2>6. /\ Len(pendingBatches') = Len(pendingBatches) - 1
        /\ \A i \in 1 .. Len(pendingBatches) - 1 :
             pendingBatches'[i] = pendingBatches[i + 1]
        /\ Len(draining') = Len(draining) - 1
        /\ \A i \in 1 .. Len(draining) - 1 : draining'[i] = draining[i + 1]
    BY <1>0, <2>1, <2>2, <2>4 DEF TypeOK
  <2>7. Gone = Len(jobs) /\ Gone' = Gone + 1 /\ draining_add' = d /\ d # NoBatch
    BY <2>1, <2>3 DEF Gone
  <2> HIDE DEF d
  <2>8. /\ flush_add = NoBatch
        /\ Len(opened) = Gone + Len(pendingBatches)
        /\ \A i \in 1 .. Len(jobs) : jobs[i].data = opened[i]
        /\ \A i \in 1 .. Len(pendingBatches) : pendingBatches[i] = opened[Gone + i]
        /\ Len(draining) <= Len(pendingBatches)
        /\ \A i \in 1 .. Len(draining) : draining[i] = pendingBatches[i]
        /\ \A i \in Len(draining) + 1 .. Len(pendingBatches) :
             timer[pendingBatches[i]] = "armed"
    BY <2>1 DEF OrderInv
  <2>9. draining_add' = opened'[Gone']
    BY <1>0, <2>1, <2>2, <2>7, <2>8
  <2>10. ASSUME NEW i \in 1 .. Len(pendingBatches')
         PROVE  pendingBatches'[i] = opened'[Gone' + i]
    <3>1. /\ i \in 1 .. Len(pendingBatches) - 1 /\ i + 1 \in 1 .. Len(pendingBatches)
          /\ Gone + (i + 1) = Gone' + i
      BY <1>0, <2>6, <2>7
    <3>2. pendingBatches[i + 1] = opened[Gone + (i + 1)]
      BY <2>8, <3>1
    <3> QED BY <2>1, <2>6, <3>1, <3>2
  <2>11. ASSUME NEW i \in 1 .. Len(draining')
         PROVE  draining'[i] = pendingBatches'[i]
    <3>1. /\ i \in 1 .. Len(draining) - 1 /\ i + 1 \in 1 .. Len(draining)
          /\ i \in 1 .. Len(pendingBatches) - 1
      BY <1>0, <2>6, <2>8
    <3>2. draining[i + 1] = pendingBatches[i + 1]
      BY <2>8, <3>1
    <3> QED BY <2>6, <3>1, <3>2
  <2>12. ASSUME NEW i \in Len(draining') + 1 .. Len(pendingBatches')
         PROVE  timer'[pendingBatches'[i]] = "armed"
    <3>1. /\ i \in 1 .. Len(pendingBatches) - 1
          /\ i + 1 \in Len(draining) + 1 .. Len(pendingBatches)
      BY <1>0, <2>2, <2>6, <2>8
    <3>2. timer[pendingBatches[i + 1]] = "armed"
      BY <2>8, <3>1
    <3> QED BY <2>5, <2>6, <3>1, <3>2
  <2> QED
    BY <1>0, <2>1, <2>6, <2>7, <2>8, <2>9, <2>10, <2>11, <2>12 DEF OrderInv
<1>4. CASE DrainAdded
  <2>1. /\ phase = "running" /\ draining_add \in Payloads /\ draining_add' = NoBatch
        /\ jobs' = Append(jobs, JobOf(draining_add))
        /\ UNCHANGED <<pendingBatches, timer, draining, flush_add, opened>>
    BY <1>4 DEF DrainAdded, obsVars, TypeOK
  <2>2. /\ Len(jobs') = Len(jobs) + 1 /\ Gone = Len(jobs) + 1 /\ Gone' = Gone
        /\ \A i \in 1 .. Len(jobs') :
             jobs'[i] = IF i <= Len(jobs) THEN jobs[i] ELSE JobOf(draining_add)
    <3>1. Len(jobs') = Len(jobs) + 1
      BY <2>1 DEF TypeOK
    <3> QED BY <2>1, <3>1, AddMeans DEF Gone
  <2>3. \A i \in 1 .. Len(jobs') : jobs'[i].data = opened'[i]
    BY <1>0, <2>1, <2>2 DEF OrderInv, JobOf
  <2> QED BY <2>1, <2>2, <2>3 DEF OrderInv
<1>5. CASE \/ AddRejected \/ Shutdown \/ FlushNext \/ FlushEnds
           \/ DrainingSettles \/ Exit \/ Exited
  BY <1>5 DEF AddRejected, Shutdown, FlushNext, FlushEnds, DrainingSettles,
              Exit, Exited, vars
<1>6. CASE FlushAdded
  BY <1>6 DEF FlushAdded, OrderInv
<1>7. CASE UNCHANGED vars
  BY <1>7 DEF vars, obsVars, OrderInv, Gone
<1> QED
  BY <1>1, <1>2, <1>3, <1>4, <1>5, <1>6, <1>7 DEF Next

(* Until a shutdown begins, the queue gets the batches in the order in which  *)
(* they were opened, however long an add takes and whichever timers fire      *)
(* meanwhile.                                                                *)
THEOREM JobsInOrderAlways == Spec => []JobsInOrder
<1>1. Init => OrderInv
  BY DEF Init, OrderInv, Gone
<1>2. OrderInv => JobsInOrder
  BY DEF OrderInv, JobsInOrder
<1> QED BY <1>1, <1>2, OrderStep, PlaceAlways, TypeCorrect, PTL DEF Spec

---------------------------------------------------------------------------
(* Shutdown.                                                                 *)

(* A batch that is pending or handed on stays so, whatever is done with it.   *)
LEMMA KeptStep == TypeOK /\ PlaceInv /\ KeptInv /\ [Next]_vars => KeptInv'
<1> SUFFICES ASSUME TypeOK, PlaceInv, KeptInv, [Next]_vars PROVE KeptInv'
  OBVIOUS
<1>0. /\ \A e \in before : e[1] \in Payloads
      /\ \A i \in 1 .. Len(jobs) : jobs[i].data \in Payloads /\ InJobs(jobs[i].data)
  <2>1. \A i \in 1 .. Len(jobs) : jobs[i] \in Jobs
    BY ElementOfSeq DEF TypeOK
  <2> QED BY <2>1 DEF TypeOK, Events, Jobs, InJobs
<1>1. ASSUME NEW d \in Payloads, NEW c \in Channels, OnEventPublished(d, c)
      PROVE  KeptInv'
  <2>1. UNCHANGED <<draining_add, flush_add, jobs>>
    BY <1>1 DEF OnEventPublished
  <2>2. CASE UNCHANGED <<events, pendingBatches, before>>
    BY <2>1, <2>2 DEF KeptInv, IsPending, Handed, InJobs
  <2>3. CASE ~IsInternal(c)
    <3>1. /\ events' = [events EXCEPT ![d] = @ \cup {c}]
          /\ before' \subseteq before \cup {<<d, c>>}
      BY <1>1, <2>3 DEF OnEventPublished
    <3>2. /\ IsPending(d)'
          /\ \A e : IsPending(e) => IsPending(e)'
      <4>1. CASE IsPending(d) /\ UNCHANGED pendingBatches
        BY <4>1 DEF IsPending
      <4>2. CASE OpenBatch(d)
        <5>1. /\ Len(pendingBatches') = Len(pendingBatches) + 1
              /\ Len(pendingBatches) \in Nat
              /\ pendingBatches'[Len(pendingBatches) + 1] = d
              /\ \A i \in 1 .. Len(pendingBatches) :
                   pendingBatches'[i] = pendingBatches[i]
          BY <4>2 DEF OpenBatch, TypeOK
        <5> QED BY <5>1 DEF IsPending, InSeq
      <4> QED BY <1>1, <2>3, <4>1, <4>2 DEF OnEventPublished
    <3>3. \A i \in 1 .. Len(jobs) : jobs[i].data # d
      BY <1>0, <1>1 DEF OnEventPublished, PlaceInv, Handed
    <3>4. \A i \in 1 .. Len(jobs') : jobs'[i].channels = events'[jobs'[i].data]
      BY <1>0, <2>1, <3>1, <3>3 DEF KeptInv, TypeOK
    <3>5. ASSUME NEW e \in before'
          PROVE  e[2] \in events'[e[1]] /\ (IsPending(e[1]) \/ Handed(e[1]))'
      <4>1. CASE e = <<d, c>>
        BY <3>1, <3>2, <4>1 DEF TypeOK
      <4>2. CASE e \in before
        <5>1. e[2] \in events[e[1]] /\ e[1] \in Payloads
          BY <1>0, <4>2 DEF KeptInv
        <5>2. e[2] \in events'[e[1]]
          BY <3>1, <5>1 DEF TypeOK
        <5>3. Handed(e[1])' <=> Handed(e[1])
          BY <2>1 DEF Handed, InJobs
        <5> QED BY <3>2, <4>2, <5>2, <5>3 DEF KeptInv
      <4> QED BY <3>1, <4>1, <4>2
    <3> QED BY <3>4, <3>5 DEF KeptInv
  <2> QED BY <1>1, <2>2, <2>3 DEF OnEventPublished, obsVars
<1>2. ASSUME NEW d \in Payloads, TimerFires(d) PROVE KeptInv'
  BY <1>2 DEF TimerFires, KeptInv, obsVars, IsPending, Handed, InJobs
<1>3. CASE DrainNext
  <2>1. /\ UNCHANGED <<flush_add, jobs, events, before>>
        /\ Take(Head(draining)) /\ Head(draining) \in Payloads
        /\ draining_add = NoBatch
        /\ draining_add' = IF IsPending(Head(draining)) THEN Head(draining) ELSE NoBatch
    BY <1>3, ChainMoves DEF DrainNext, Takes, obsVars, PlaceInv
  <2>2. \A e : IsPending(e)' <=> IsPending(e) /\ e # Head(draining)
    BY <2>1, TakeMeans
  <2> QED BY <1>0, <2>1, <2>2 DEF KeptInv, Handed, InJobs
<1>4. CASE FlushNext
  <2>1. /\ UNCHANGED <<draining_add, jobs, events, before>>
        /\ Take(Head(pendingBatches)) /\ Head(pendingBatches) \in Payloads
        /\ flush_add = NoBatch /\ flush_add' = Head(pendingBatches)
    BY <1>4 DEF FlushNext, obsVars, TypeOK
  <2>2. \A e : IsPending(e)' <=> IsPending(e) /\ e # Head(pendingBatches)
    BY <2>1, TakeMeans
  <2> QED BY <1>0, <2>1, <2>2 DEF KeptInv, Handed, InJobs
<1>5. CASE DrainAdded \/ FlushAdded
  <2>1. PICK d \in Payloads :
          /\ jobs' = Append(jobs, JobOf(d))
          /\ \/ draining_add = d /\ UNCHANGED flush_add
             \/ flush_add = d /\ UNCHANGED draining_add
          /\ UNCHANGED <<pendingBatches, events, before>>
    BY <1>5 DEF DrainAdded, FlushAdded, TypeOK, obsVars
  <2>2. \A e : InJobs(e)' <=> InJobs(e) \/ e = d
    BY <2>1, AddMeans
  <2>3. \A i \in 1 .. Len(jobs') : jobs'[i].channels = events'[jobs'[i].data]
    <3>1. \A i \in 1 .. Len(jobs') :
            (i \in 1 .. Len(jobs) /\ jobs'[i] = jobs[i]) \/ jobs'[i] = JobOf(d)
      BY <2>1, AddMeans DEF TypeOK
    <3> QED BY <2>1, <3>1 DEF KeptInv, JobOf
  <2>4. \A e \in Payloads : Handed(e) => Handed(e)'
    BY <2>1, <2>2 DEF Handed
  <2>5. \A e : IsPending(e)' <=> IsPending(e)
    BY <2>1 DEF IsPending
  <2> QED BY <1>0, <2>1, <2>3, <2>4, <2>5 DEF KeptInv
<1>6. CASE UNCHANGED <<Places, events, before, opened>>
  BY <1>6 DEF Places, KeptInv, IsPending, Handed, InJobs
<1> QED
  BY <1>1, <1>2, <1>3, <1>4, <1>5, <1>6, QuietSteps DEF Next

LEMMA KeptAlways == Spec => []KeptInv
<1>1. Init => KeptInv
  BY DEF Init, KeptInv
<1> QED BY <1>1, KeptStep, PlaceAlways, TypeCorrect, PTL DEF Spec

(* What was opened before the shutdown, and nothing new, is what it waits for. *)
LEMMA BeforeStays ==
  ASSUME [Next]_vars, phase # "running"
  PROVE  before' = before
  BY DEF Next, OnEventPublished, TimerFires, DrainNext, DrainAdded, AddRejected,
         Shutdown, FlushNext, FlushAdded, FlushEnds, DrainingSettles, Exit,
         Exited, vars, obsVars

LEMMA FlushedStep ==
  TypeOK /\ PlaceInv /\ KeptInv /\ FlushedInv /\ [Next]_vars => FlushedInv'
<1> SUFFICES ASSUME TypeOK, PlaceInv, KeptInv, FlushedInv, [Next]_vars,
                    phase' \in {"awaiting", "closed"}
             PROVE  FlushedInv'
  BY DEF FlushedInv
<1>1. CASE FlushEnds
  <2>1. /\ UNCHANGED <<Places, before>> /\ flush_add = NoBatch
        /\ pendingBatches = <<>> /\ phase' = "awaiting" /\ awaited' = OnChain
    BY <1>1, QuietSteps DEF FlushEnds
  <2>2. ASSUME NEW e \in before, ~InJobs(e[1])
        PROVE  e[1] = draining_add /\ e[1] \in OnChain
    <3>1. ~IsPending(e[1]) /\ e[1] \in Payloads
      BY <2>1 DEF IsPending, InSeq, TypeOK, Events
    <3>2. e[1] = draining_add
      BY <2>1, <2>2, <3>1 DEF KeptInv, Handed
    <3> QED BY <3>1, <3>2 DEF OnChain
  <2>3. \A e : InJobs(e)' <=> InJobs(e)
    BY <2>1 DEF Places, InJobs
  <2> QED BY <2>1, <2>2, <2>3 DEF FlushedInv, Places
<1>2. CASE DrainingSettles
  <2>1. /\ UNCHANGED <<Places, before>> /\ phase = "awaiting" /\ phase' = "closed"
        /\ draining_add \notin awaited
    BY <1>2, QuietSteps DEF DrainingSettles
  <2>2. \A e : InJobs(e)' <=> InJobs(e)
    BY <2>1 DEF Places, InJobs
  <2> QED BY <2>1, <2>2 DEF FlushedInv
<1>3. CASE UNCHANGED <<phase, awaited>> /\ ~FlushEnds /\ ~DrainingSettles
  <2>1. phase \in {"awaiting", "closed"} /\ before' = before
    BY <1>3, BeforeStays
  <2>2. CASE UNCHANGED <<draining_add, jobs>>
    BY <1>3, <2>1, <2>2 DEF FlushedInv, InJobs
  <2>3. CASE DrainNext
    <3>1. draining_add = NoBatch /\ UNCHANGED jobs
      BY <2>3 DEF DrainNext
    <3>2. \A e \in before : e[1] # NoBatch
      BY DEF TypeOK, Events
    <3> QED BY <1>3, <2>1, <3>1, <3>2 DEF FlushedInv, InJobs
  <2>4. CASE DrainAdded \/ FlushAdded
    <3>1. PICK d \in Payloads :
            /\ jobs' = Append(jobs, JobOf(d))
            /\ draining_add = d \/ UNCHANGED draining_add
      BY <2>4 DEF DrainAdded, FlushAdded, TypeOK
    <3>2. \A e : InJobs(e)' <=> InJobs(e) \/ e = d
      BY <3>1, AddMeans
    <3> QED BY <1>3, <2>1, <3>1, <3>2 DEF FlushedInv
  <2>5. UNCHANGED <<draining_add, jobs>> \/ DrainNext \/ DrainAdded \/ FlushAdded
    BY DEF Next, OnEventPublished, TimerFires, AddRejected, Shutdown, FlushNext,
           FlushEnds, DrainingSettles, Exit, Exited, vars
  <2> QED BY <2>2, <2>3, <2>4, <2>5
<1>4. FlushEnds \/ DrainingSettles \/ UNCHANGED <<phase, awaited>>
  BY DEF Next, OnEventPublished, TimerFires, DrainNext, DrainAdded, AddRejected,
         Shutdown, FlushNext, FlushAdded, Exit, Exited, vars
<1> QED BY <1>1, <1>2, <1>3, <1>4

(* A shutdown that ran to its end has queued every event published before it  *)
(* began with all its channels, whether the loop took the batch, the chain     *)
(* was about to, or an add was under way.                                    *)
THEOREM ShutdownFlushesAlways == Spec => []ShutdownFlushes
<1>1. Init => FlushedInv
  BY DEF Init, FlushedInv
<1>2. TypeOK /\ KeptInv /\ FlushedInv => ShutdownFlushes
  <2> SUFFICES ASSUME TypeOK, KeptInv, FlushedInv, phase = "closed", NEW e \in before
               PROVE  Queued(e[1], e[2])
    BY DEF ShutdownFlushes
  <2>1. PICK i \in 1 .. Len(jobs) : jobs[i].data = e[1]
    BY DEF FlushedInv, InJobs
  <2> QED BY <2>1 DEF KeptInv, Queued
<1> QED
  BY <1>1, <1>2, FlushedStep, KeptAlways, PlaceAlways, TypeCorrect, PTL DEF Spec
=============================================================================
