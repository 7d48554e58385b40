----------------------- MODULE WebhookDeliveryProofs -----------------------
(* What WebhookDelivery guarantees for every set of webhooks, broadcasts and *)
(* workers, and for every number of attempts, proved with TLAPS.             *)
EXTENDS WebhookDelivery, FiniteSetTheorems, SequenceTheorems, TLAPS

USE ObserversAssumption, IdleAssumption, BoundsAssumption

---------------------------------------------------------------------------
(* The inductive invariants.                                                 *)

(* A job is in the hands of one worker while it is active, and has attempts   *)
(* left until it has failed; so has a delivery that waits.                   *)
WorkInv ==
  /\ \A w \in Workers :
       /\ working[w] # Idle => job[working[w]] = "active"
       /\ working[w] = Idle => todo[w] = {} /\ ready[w] = {}
  /\ \A v, w \in Workers : working[v] = working[w] /\ working[v] # Idle => v = w
  /\ \A b \in Broadcasts :
       job[b] \in {"none", "waiting", "active"} => attempted[b] < Attempts
  /\ \A n \in DOMAIN deliveries :
       deliveries[n].state = "waiting" => deliveries[n].attemptsMade < DeliveryAttempts

(* A worker holds a webhook as a snapshot or as a payload.                    *)
Listing(w, h) == \E s \in todo[w] : s[1] = h
Carrying(w, h) == \E p \in ready[w] : p.hook = h
Holds(w, h) == Listing(w, h) \/ Carrying(w, h)

(* Until the queue is obliterated, ids are the places of the deliveries.      *)
IdInv ==
  /\ \A r \in received : r[1] = deliveries[r[2]].id
  /\ obliterations = 0 =>
       /\ nextId = Len(deliveries) + 1
       /\ \A n \in DOMAIN deliveries : deliveries[n].id = n

(* The snapshot a payload was made of.                                       *)
Of(p) == <<p.hook, p.version>>

(* A worker has the snapshot, or its payload.                                 *)
Keeps(w, s) == s \in todo[w] \/ \E p \in ready[w] : Of(p) = s

Sent(b, s) ==
  \E n \in DOMAIN deliveries : deliveries[n].data = b /\ Of(deliveries[n]) = s

(* What was outdated stays outdated, and of a broadcast it is neither sent    *)
(* nor on its way.                                                           *)
OutdatedInv ==
  \A b \in Broadcasts :
    /\ job[b] = "none" => \A s \in Snapshots : ~Sent(b, s)
    /\ \A s \in outdated[b] :
         /\ s[2] <= version[s[1]] /\ (s[2] = version[s[1]] => ~valid[s[1]])
         /\ ~Sent(b, s)
         /\ \A w \in Workers : working[w] = b => ~Keeps(w, s)

(* A webhook that needs no payload of what the broadcast listed any more.     *)
Settled(b, s) ==
  AddedFor(b, s[1]) # {} \/ ~valid[s[1]] \/ version[s[1]] > s[2]

ListedRight ==
  \A b \in Broadcasts : \A s \in listed[b] :
    s \in Snapshots /\ s[1] \in Observers[b] /\ s[2] <= version[s[1]]

(* What a worker was given and has not added, it still holds.                 *)
HeldInv ==
  /\ ListedRight
  /\ \A w \in Workers : working[w] # Idle =>
       \A s \in listed[working[w]] : Settled(working[w], s) \/ Holds(w, s[1])

(* A worker holds a webhook once, and has yet to add it for this start.       *)
OnceInv ==
  \A w \in Workers :
    /\ \A s, t \in todo[w] : s[1] = t[1] => s = t
    /\ \A p, q \in ready[w] : p.hook = q.hook => p = q
    /\ \A h \in Hooks : ~(Listing(w, h) /\ Carrying(w, h))

CountInv ==
  /\ \A w \in Workers : working[w] # Idle =>
       \A h \in Hooks : Holds(w, h) =>
         Cardinality(AddedFor(working[w], h)) + 1 <= starts[working[w]]
  /\ RepeatsNeedRestarts

---------------------------------------------------------------------------
(* What steps do to the delivery queue.                                      *)

DeliveryStates == {"waiting", "completed", "failed", "gone"}

(* A delivery that changes its state stays the delivery it is.               *)
LEMMA DeliveryRecord ==
  ASSUME NEW d \in Deliveries, NEW s \in DeliveryStates
  PROVE  LET x == [d EXCEPT !.state = s] IN
           /\ x \in Deliveries /\ x.hook = d.hook /\ x.version = d.version /\ x.data = d.data
           /\ x.id = d.id /\ x.state = s /\ x.attemptsMade = d.attemptsMade
  BY DEF Deliveries, DeliveryStates

Retried(d, s, k) == [d EXCEPT !.state = s, !.attemptsMade = k]

LEMMA RetryRecord ==
  ASSUME NEW d \in Deliveries, NEW s \in DeliveryStates,
         NEW k \in 0 .. DeliveryAttempts
  PROVE  LET x == Retried(d, s, k) IN
           /\ x \in Deliveries /\ x.hook = d.hook /\ x.version = d.version /\ x.data = d.data
           /\ x.id = d.id /\ x.state = s /\ x.attemptsMade = k
  BY DEF Deliveries, DeliveryStates, Retried

(* The queue keeps its deliveries, whatever becomes of them.                  *)
SameDeliveries ==
  /\ Len(deliveries') = Len(deliveries)
  /\ \A n \in 1 .. Len(deliveries) :
       /\ deliveries'[n].hook = deliveries[n].hook
       /\ deliveries'[n].version = deliveries[n].version
       /\ deliveries'[n].data = deliveries[n].data
       /\ deliveries'[n].id = deliveries[n].id

WaitingHasAttempts(ds) ==
  \A n \in DOMAIN ds : ds[n].state = "waiting" => ds[n].attemptsMade < DeliveryAttempts

LEMMA QueueType ==
  ASSUME TypeOK
  PROVE  /\ Len(deliveries) \in Nat /\ DOMAIN deliveries = 1 .. Len(deliveries)
         /\ \A n \in 1 .. Len(deliveries) : deliveries[n] \in Deliveries
         /\ \A d \in Deliveries : /\ d.hook \in Hooks /\ d.version \in Versions /\ d.data \in Broadcasts
                                  /\ d.id \in Nat \ {0} /\ d.state \in DeliveryStates
                                  /\ d.attemptsMade \in 0 .. DeliveryAttempts
<1>1. \A d \in Deliveries : /\ d.hook \in Hooks /\ d.version \in Versions /\ d.data \in Broadcasts
                            /\ d.id \in Nat \ {0} /\ d.state \in DeliveryStates
                            /\ d.attemptsMade \in 0 .. DeliveryAttempts
  BY DEF Deliveries, DeliveryStates
<1>2. deliveries \in Seq(Deliveries)
  BY DEF TypeOK
<1> HIDE DEF Deliveries
<1> QED BY <1>1, <1>2, ElementOfSeq

(* One delivery changes.                                                     *)
LEMMA OneChanges ==
  ASSUME TypeOK, NEW n \in 1 .. Len(deliveries), NEW x \in Deliveries,
         x.hook = deliveries[n].hook, x.version = deliveries[n].version,
         x.data = deliveries[n].data,
         x.id = deliveries[n].id, deliveries' = [deliveries EXCEPT ![n] = x]
  PROVE  /\ deliveries' \in Seq(Deliveries) /\ SameDeliveries
         /\ deliveries'[n] = x
         /\ \A m \in 1 .. Len(deliveries) : m # n => deliveries'[m] = deliveries[m]
<1>1. deliveries \in Seq(Deliveries)
  BY DEF TypeOK
<1>2. /\ deliveries' \in Seq(Deliveries) /\ Len(deliveries') = Len(deliveries)
      /\ \A m \in 1 .. Len(deliveries) :
           deliveries'[m] = IF m = n THEN x ELSE deliveries[m]
  BY <1>1, ExceptSeq
<1> QED BY <1>2 DEF SameDeliveries

LEMMA SendMeans ==
  ASSUME TypeOK, WorkInv, NEW n \in DOMAIN deliveries, SendSucceeds(n) \/ SendFails(n)
  PROVE  /\ deliveries' \in Seq(Deliveries) /\ SameDeliveries
         /\ WaitingHasAttempts(deliveries')
         /\ \/ received' = received
            \/ received' = received \cup {<<deliveries[n].id, n>>}
<1> DEFINE d == deliveries[n]
<1>0. n \in 1 .. Len(deliveries) /\ d \in Deliveries
  BY QueueType
<1>1. WaitingHasAttempts(deliveries)
  BY DEF WorkInv, WaitingHasAttempts
<1>2. d.attemptsMade \in Nat /\ DeliveryAttempts \in Nat
  BY <1>0, QueueType
<1>3. received' = received \/ received' = received \cup {<<deliveries[n].id, n>>}
  BY DEF SendSucceeds, SendFails, Accept, RequestId
<1>4. CASE SendSucceeds(n)
  <2> DEFINE x == [d EXCEPT !.state = "completed"]
  <2>1. deliveries' = [deliveries EXCEPT ![n] = x]
    BY <1>4 DEF SendSucceeds
  <2>2. x \in Deliveries /\ x.hook = d.hook /\ x.version = d.version
        /\ x.data = d.data /\ x.id = d.id
        /\ x.state = "completed"
    BY <1>0, DeliveryRecord DEF DeliveryStates
  <2> HIDE DEF x
  <2>3. /\ deliveries' \in Seq(Deliveries) /\ SameDeliveries /\ deliveries'[n] = x
        /\ \A m \in 1 .. Len(deliveries) : m # n => deliveries'[m] = deliveries[m]
    BY <1>0, <2>1, <2>2, OneChanges
  <2>4. WaitingHasAttempts(deliveries')
    BY <1>1, <2>2, <2>3 DEF WaitingHasAttempts, SameDeliveries
  <2> QED BY <1>3, <2>3, <2>4
<1>5. CASE SendFails(n)
  <2> DEFINE s == AfterSendFailure(n)
             k == d.attemptsMade + 1
             x == Retried(d, s, k)
  <2>1. deliveries' = [deliveries EXCEPT ![n] = x] /\ d.state = "waiting"
    BY <1>5 DEF SendFails, Retried
  <2>2. d.attemptsMade < DeliveryAttempts
    BY <1>0, <1>1, <2>1, QueueType DEF WaitingHasAttempts
  <2>3. s \in DeliveryStates /\ (s = "waiting" => k < DeliveryAttempts)
    BY DEF AfterSendFailure, DeliveryStates
  <2>6. k \in 0 .. DeliveryAttempts
    BY <1>2, <2>2
  <2> HIDE DEF s, k
  <2>4. x \in Deliveries /\ x.hook = d.hook /\ x.version = d.version
        /\ x.data = d.data /\ x.id = d.id
        /\ x.state = s /\ x.attemptsMade = k
    BY <1>0, <2>3, <2>6, RetryRecord
  <2> HIDE DEF x
  <2>5. /\ deliveries' \in Seq(Deliveries) /\ SameDeliveries /\ deliveries'[n] = x
        /\ \A m \in 1 .. Len(deliveries) : m # n => deliveries'[m] = deliveries[m]
    BY <1>0, <2>1, <2>4, OneChanges
  <2>7. WaitingHasAttempts(deliveries')
    BY <1>1, <2>3, <2>4, <2>5 DEF WaitingHasAttempts, SameDeliveries
  <2> QED BY <1>3, <2>5, <2>7
<1> QED BY <1>4, <1>5

LEMMA ObliterateMeans ==
  ASSUME TypeOK, Obliterate
  PROVE  /\ deliveries' \in Seq(Deliveries) /\ SameDeliveries
         /\ WaitingHasAttempts(deliveries')
<1>1. \A n \in 1 .. Len(deliveries) :
        LET x == [deliveries[n] EXCEPT !.state = "gone"] IN
          /\ x \in Deliveries /\ x.state = "gone"
          /\ x.hook = deliveries[n].hook /\ x.version = deliveries[n].version
          /\ x.data = deliveries[n].data
          /\ x.id = deliveries[n].id
  BY QueueType, DeliveryRecord DEF DeliveryStates
<1>2. deliveries' = [n \in 1 .. Len(deliveries) |->
                       [deliveries[n] EXCEPT !.state = "gone"]]
  BY QueueType DEF Obliterate
<1>3. deliveries' \in Seq(Deliveries) /\ Len(deliveries') = Len(deliveries)
  BY <1>1, <1>2, QueueType
<1>4. DOMAIN deliveries' = 1 .. Len(deliveries)
  BY <1>2
<1> QED BY <1>1, <1>2, <1>3, <1>4 DEF SameDeliveries, WaitingHasAttempts

(* A payload that is added is the last delivery.                              *)
LEMMA AddMeans ==
  ASSUME TypeOK, WorkInv, NEW w \in Workers, NEW p \in Payloads, AddDelivery(w, p)
  PROVE  /\ working[w] \in Broadcasts
         /\ deliveries' \in Seq(Deliveries) /\ Len(deliveries') = Len(deliveries) + 1
         /\ \A n \in 1 .. Len(deliveries) : deliveries'[n] = deliveries[n]
         /\ deliveries'[Len(deliveries) + 1].hook = p.hook
         /\ deliveries'[Len(deliveries) + 1].version = p.version
         /\ deliveries'[Len(deliveries) + 1].data = working[w]
         /\ deliveries'[Len(deliveries) + 1].id = nextId
         /\ WaitingHasAttempts(deliveries')
<1> DEFINE x == [hook |-> p.hook, version |-> p.version, fatal |-> p.fatal,
                 data |-> working[w], id |-> nextId, state |-> "waiting",
                 attemptsMade |-> 0]
<1>1. working[w] \in Broadcasts
  BY DEF AddDelivery, TypeOK, WorkInv
<1>2. p.hook \in Hooks /\ p.version \in Versions /\ p.fatal \in BOOLEAN
  BY DEF Payloads
<1>3. nextId \in Nat \ {0} /\ 0 \in 0 .. DeliveryAttempts /\ 0 < DeliveryAttempts
  BY DEF TypeOK
<1>4. x \in Deliveries
  BY <1>1, <1>2, <1>3 DEF Deliveries
<1>5. /\ x.hook = p.hook /\ x.version = p.version /\ x.data = working[w] /\ x.id = nextId
      /\ x.attemptsMade = 0
  OBVIOUS
<1>6. deliveries' = Append(deliveries, x)
  BY DEF AddDelivery
<1> HIDE DEF x
<1>7. deliveries \in Seq(Deliveries)
  BY DEF TypeOK
<1>8. /\ deliveries' \in Seq(Deliveries) /\ Len(deliveries') = Len(deliveries) + 1
      /\ \A n \in 1 .. Len(deliveries) : deliveries'[n] = deliveries[n]
      /\ deliveries'[Len(deliveries) + 1] = x
  BY <1>4, <1>6, <1>7, AppendProperties
<1>9. WaitingHasAttempts(deliveries')
  <2>1. WaitingHasAttempts(deliveries)
    BY DEF WorkInv, WaitingHasAttempts
  <2> QED BY <1>3, <1>5, <1>7, <1>8, <2>1 DEF WaitingHasAttempts
<1> QED BY <1>1, <1>5, <1>8, <1>9

---------------------------------------------------------------------------
(* Types, and who works on what.                                             *)

LEMMA WorkInit == Init => TypeOK /\ WorkInv
<1> SUFFICES ASSUME Init PROVE TypeOK /\ WorkInv
  OBVIOUS
<1>1. deliveries = <<>> /\ deliveries \in Seq(Deliveries) /\ Len(deliveries) = 0
      /\ DOMAIN deliveries = {}
  <2> HIDE DEF Deliveries
  <2> QED BY DEF Init
<1>2. TypeOK
  BY <1>1 DEF Init, TypeOK, Versions
<1>3. WorkInv
  BY <1>1 DEF Init, WorkInv
<1> QED BY <1>2, <1>3

(* What a worker executes becomes a payload.                                 *)
LEMMA ExecutedMeans ==
  ASSUME TypeOK, NEW w \in Workers, NEW s \in todo[w], NEW fatal \in BOOLEAN,
         Executed(w, s, fatal)
  PROVE  /\ s \in Snapshots /\ s[1] \in Hooks
         /\ todo' \in [Workers -> SUBSET Snapshots]
         /\ ready' \in [Workers -> SUBSET Payloads]
         /\ working[w] = Idle => todo[w] # {}
         /\ \A v \in Workers : v # w => todo'[v] = todo[v] /\ ready'[v] = ready[v]
         /\ todo'[w] = todo[w] \ {s}
         /\ \E p \in Payloads : Of(p) = s /\ p.hook = s[1] /\ ready'[w] = ready[w] \cup {p}
<1> DEFINE p == [hook |-> s[1], version |-> s[2], fatal |-> fatal]
<1>1. s \in Snapshots
  BY DEF TypeOK
<1>2. s[1] \in Hooks /\ s[2] \in Versions
  BY <1>1 DEF Snapshots
<1>3. p \in Payloads /\ p.hook = s[1] /\ Of(p) = s
  BY <1>1, <1>2 DEF Payloads, Snapshots, Of
<1> HIDE DEF p
<1>4. /\ todo' = [todo EXCEPT ![w] = todo[w] \ {s}]
      /\ ready' = [ready EXCEPT ![w] = ready[w] \cup {p}]
  BY DEF Executed, p
<1>5. todo \in [Workers -> SUBSET Snapshots] /\ ready \in [Workers -> SUBSET Payloads]
  BY DEF TypeOK
<1>6. todo' \in [Workers -> SUBSET Snapshots] /\ ready' \in [Workers -> SUBSET Payloads]
  BY <1>3, <1>4, <1>5
<1>7. /\ \A v \in Workers : v # w => todo'[v] = todo[v] /\ ready'[v] = ready[v]
      /\ todo'[w] = todo[w] \ {s} /\ ready'[w] = ready[w] \cup {p}
  BY <1>4, <1>5
<1> QED BY <1>1, <1>2, <1>3, <1>6, <1>7

LEMMA WorkStep ==
  ASSUME TypeOK, WorkInv, [Next]_vars
  PROVE  TypeOK' /\ WorkInv'
<1> DEFINE Same == UNCHANGED deliveries
<1>0. WaitingHasAttempts(deliveries)
  BY DEF WorkInv, WaitingHasAttempts
<1>1. ASSUME NEW b \in Broadcasts, Enqueue(b) PROVE TypeOK' /\ WorkInv'
  <2>1. /\ outdated' \in [Broadcasts -> SUBSET Snapshots]
        /\ job' = [job EXCEPT ![b] = "waiting"]
    BY <1>1 DEF Enqueue, TypeOK, Outdated
  <2>2. TypeOK'
    BY <1>1, <2>1 DEF Enqueue, TypeOK, hookVars, workerVars, queueVars
  <2>3. WorkInv'
    BY <1>1 DEF Enqueue, TypeOK, WorkInv, workerVars, queueVars
  <2> QED BY <2>2, <2>3
<1>2. ASSUME NEW h \in Hooks, SchemaBreaks(h) PROVE TypeOK' /\ WorkInv'
  <2>1. broken' \in SUBSET Snapshots
    BY <1>2 DEF SchemaBreaks, TypeOK, Snapshots
  <2>2. TypeOK'
    BY <1>2, <2>1 DEF SchemaBreaks, TypeOK, workerVars, queueVars, obsVars
  <2>3. WorkInv'
    BY <1>2 DEF SchemaBreaks, WorkInv, workerVars, queueVars
  <2> QED BY <2>2, <2>3
<1>3. ASSUME NEW h \in Hooks, SaveWebhook(h) PROVE TypeOK' /\ WorkInv'
  <2>1. version' \in [Hooks -> Versions] /\ valid' \in [Hooks -> BOOLEAN]
    BY <1>3 DEF SaveWebhook, TypeOK, Versions
  <2>2. TypeOK'
    BY <1>3, <2>1 DEF SaveWebhook, TypeOK, workerVars, queueVars, obsVars
  <2>3. WorkInv'
    BY <1>3 DEF SaveWebhook, WorkInv, workerVars, queueVars
  <2> QED BY <2>2, <2>3
<1>4. ASSUME NEW w \in Workers, NEW b \in Broadcasts, StartJob(w, b)
      PROVE  TypeOK' /\ WorkInv'
  <2>1. ListFor(b) \in SUBSET Snapshots
    BY DEF ListFor, Snapshots, TypeOK
  <2>3. listed' \in [Broadcasts -> SUBSET Snapshots]
    BY <1>4, <2>1 DEF StartJob, TypeOK
  <2>4. todo' \in [Workers -> SUBSET Snapshots]
    BY <1>4, <2>1 DEF StartJob, TypeOK
  <2>5. starts' \in [Broadcasts -> Nat]
    BY <1>4 DEF StartJob, TypeOK
  <2>6. /\ job' \in [Broadcasts -> {"none", "waiting", "active", "completed", "failed"}]
        /\ working' \in [Workers -> Broadcasts \cup {Idle}]
    BY <1>4 DEF StartJob, TypeOK
  <2>7. TypeOK'
    BY <1>4, <2>3, <2>4, <2>5, <2>6 DEF StartJob, TypeOK, hookVars, queueVars
  <2>8. \A v \in Workers : working[v] # b
    BY <1>4 DEF StartJob, WorkInv
  <2>9. WorkInv'
    BY <1>4, <2>8 DEF StartJob, WorkInv, TypeOK, queueVars
  <2> QED BY <2>7, <2>9
<1>5. ASSUME NEW w \in Workers, NEW s \in Snapshots,
             ExecuteSubscription(w, s) \/ ExecuteBroken(w, s)
      PROVE  TypeOK' /\ WorkInv'
  <2>1. s \in todo[w] /\ \E fatal \in BOOLEAN : Executed(w, s, fatal)
    BY <1>5 DEF ExecuteSubscription, ExecuteBroken
  <2>2. /\ s[1] \in Hooks
        /\ todo' \in [Workers -> SUBSET Snapshots]
        /\ ready' \in [Workers -> SUBSET Payloads]
        /\ \A v \in Workers : v # w => todo'[v] = todo[v] /\ ready'[v] = ready[v]
    BY <2>1, ExecutedMeans
  <2>3. UNCHANGED <<version, broken, job, attempted, working, queueVars, crashes, obsVars>>
    BY <2>1 DEF Executed
  <2>4. valid' \in [Hooks -> BOOLEAN]
    BY <1>5, <2>2 DEF TypeOK, ExecuteSubscription, ExecuteBroken
  <2>5. TypeOK'
    BY <2>2, <2>3, <2>4 DEF TypeOK, queueVars, obsVars
  <2>6. working[w] # Idle
    BY <2>1 DEF WorkInv
  <2>7. WorkInv'
    BY <2>2, <2>3, <2>6 DEF WorkInv, queueVars
  <2> QED BY <2>5, <2>7
<1>6. ASSUME NEW w \in Workers, NEW p \in Payloads, AddDelivery(w, p)
      PROVE  TypeOK' /\ WorkInv'
  <2>1. /\ deliveries' \in Seq(Deliveries) /\ Len(deliveries') = Len(deliveries) + 1
        /\ WaitingHasAttempts(deliveries')
    BY <1>6, AddMeans
  <2>2. nextId' \in Nat \ {0}
    BY <1>6 DEF AddDelivery, TypeOK
  <2>3. /\ ready' \in [Workers -> SUBSET Payloads]
        /\ \A v \in Workers : ready'[v] \subseteq ready[v]
    BY <1>6 DEF AddDelivery, TypeOK, Unadded
  <2>4. received' \in SUBSET ((Nat \ {0}) \X (1 .. Len(deliveries')))
    <3>1. 1 .. Len(deliveries) \subseteq 1 .. Len(deliveries')
      BY <2>1, QueueType
    <3>2. received \in SUBSET ((Nat \ {0}) \X (1 .. Len(deliveries)))
      BY DEF TypeOK
    <3> QED BY <1>6, <3>1, <3>2 DEF AddDelivery
  <2>5. TypeOK'
    BY <1>6, <2>1, <2>2, <2>3, <2>4 DEF AddDelivery, TypeOK, hookVars, obsVars
  <2>6. WorkInv'
    BY <1>6, <2>1, <2>3 DEF AddDelivery, WorkInv, WaitingHasAttempts
  <2> QED BY <2>5, <2>6
<1>7. ASSUME NEW w \in Workers, FinishJob(w) \/ AttemptFails(w) \/ WorkerDies(w)
      PROVE  TypeOK' /\ WorkInv'
  <2>1. working[w] \in Broadcasts /\ job[working[w]] = "active"
    BY <1>7 DEF FinishJob, AttemptFails, WorkerDies, TypeOK, WorkInv
  <2>2. attempted[working[w]] < Attempts
    BY <2>1 DEF WorkInv
  <2>3. \E j \in {"waiting", "completed", "failed"} :
          /\ job' = [job EXCEPT ![working[w]] = j]
          /\ j = "waiting" => attempted'[working[w]] < Attempts
    BY <1>7, <2>1, <2>2 DEF FinishJob, AttemptFails, WorkerDies, AfterFailure, TypeOK
  <2>4. /\ attempted' \in [Broadcasts -> 0 .. Attempts]
        /\ \A b \in Broadcasts : b # working[w] => attempted'[b] = attempted[b]
    <3>1. attempted \in [Broadcasts -> 0 .. Attempts]
      BY DEF TypeOK
    <3>2. attempted[working[w]] + 1 \in 0 .. Attempts
      BY <2>1, <2>2, <3>1
    <3>3. \/ attempted' = attempted
          \/ attempted' = [attempted EXCEPT ![working[w]] = attempted[working[w]] + 1]
      BY <1>7 DEF FinishJob, AttemptFails, WorkerDies
    <3> QED BY <2>1, <3>1, <3>2, <3>3
  <2>5. crashes' \in 0 .. MaxCrashes
    BY <1>7 DEF FinishJob, AttemptFails, WorkerDies, TypeOK
  <2>6. /\ working' = [working EXCEPT ![w] = Idle]
        /\ todo' = [todo EXCEPT ![w] = {}] /\ ready' = [ready EXCEPT ![w] = {}]
        /\ UNCHANGED <<hookVars, queueVars, obsVars>>
    BY <1>7 DEF FinishJob, AttemptFails, WorkerDies, Release
  <2>7. /\ working' \in [Workers -> Broadcasts \cup {Idle}]
        /\ todo' \in [Workers -> SUBSET Snapshots]
        /\ ready' \in [Workers -> SUBSET Payloads]
        /\ job' \in [Broadcasts -> {"none", "waiting", "active", "completed", "failed"}]
    BY <2>3, <2>6 DEF TypeOK
  <2>8. TypeOK'
    BY <2>4, <2>5, <2>6, <2>7 DEF TypeOK, hookVars, queueVars, obsVars
  <2>9. WorkInv'
    <3>1. \A v \in Workers :
            /\ working'[v] # Idle => job'[working'[v]] = "active"
            /\ working'[v] = Idle => todo'[v] = {} /\ ready'[v] = {}
      BY <2>1, <2>3, <2>6 DEF WorkInv, TypeOK
    <3>2. \A v, u \in Workers : working'[v] = working'[u] /\ working'[v] # Idle => v = u
      BY <2>6 DEF WorkInv, TypeOK
    <3>3. \A b \in Broadcasts :
            job'[b] \in {"none", "waiting", "active"} => attempted'[b] < Attempts
      BY <2>1, <2>3, <2>4 DEF WorkInv, TypeOK
    <3>4. WaitingHasAttempts(deliveries')
      BY <1>0, <2>6 DEF queueVars
    <3> QED BY <3>1, <3>2, <3>3, <3>4 DEF WorkInv, WaitingHasAttempts
  <2> QED BY <2>8, <2>9
<1>8. ASSUME NEW n \in DOMAIN deliveries, SendSucceeds(n) \/ SendFails(n)
      PROVE  TypeOK' /\ WorkInv'
  <2>1. /\ deliveries' \in Seq(Deliveries) /\ SameDeliveries
        /\ WaitingHasAttempts(deliveries')
        /\ \/ received' = received
           \/ received' = received \cup {<<deliveries[n].id, n>>}
    BY <1>8, SendMeans
  <2>2. received' \in SUBSET ((Nat \ {0}) \X (1 .. Len(deliveries')))
    <3>1. n \in 1 .. Len(deliveries) /\ deliveries[n].id \in Nat \ {0}
      BY QueueType
    <3>2. received \in SUBSET ((Nat \ {0}) \X (1 .. Len(deliveries)))
      BY DEF TypeOK
    <3> QED BY <2>1, <3>1, <3>2 DEF SameDeliveries
  <2>3. UNCHANGED <<hookVars, job, attempted, workerVars, nextId, obliterations,
                    crashes, starts, listed, outdated>>
    BY <1>8 DEF SendSucceeds, SendFails
  <2>4. TypeOK'
    BY <2>1, <2>2, <2>3 DEF TypeOK, hookVars, workerVars
  <2>5. WorkInv'
    BY <2>1, <2>3 DEF WorkInv, WaitingHasAttempts, workerVars
  <2> QED BY <2>4, <2>5
<1>9. ASSUME Obliterate PROVE TypeOK' /\ WorkInv'
  <2>1. /\ deliveries' \in Seq(Deliveries) /\ SameDeliveries
        /\ WaitingHasAttempts(deliveries')
    BY <1>9, ObliterateMeans
  <2>2. received' \in SUBSET ((Nat \ {0}) \X (1 .. Len(deliveries')))
    BY <1>9, <2>1 DEF Obliterate, SameDeliveries, TypeOK
  <2>3. obliterations' \in 0 .. MaxObliterations /\ nextId' \in Nat \ {0}
    BY <1>9 DEF Obliterate, TypeOK
  <2>4. TypeOK'
    BY <1>9, <2>1, <2>2, <2>3 DEF Obliterate, TypeOK, hookVars, workerVars, obsVars
  <2>5. WorkInv'
    BY <1>9, <2>1 DEF Obliterate, WorkInv, WaitingHasAttempts, workerVars
  <2> QED BY <2>4, <2>5
<1>10. CASE UNCHANGED vars
  <2>1. TypeOK'
    BY <1>10 DEF TypeOK, vars, hookVars, workerVars, queueVars, obsVars
  <2>2. WorkInv'
    BY <1>10 DEF WorkInv, vars, workerVars, queueVars
  <2> QED BY <2>1, <2>2
<1> QED
  BY <1>1, <1>2, <1>3, <1>4, <1>5, <1>6, <1>7, <1>8, <1>9, <1>10
  DEF Next, Process, Deliver, Stop

LEMMA WorkAlways == Spec => [](TypeOK /\ WorkInv)
  BY WorkInit, WorkStep, PTL DEF Spec

(* Every variable keeps its type: above all, no job and no delivery is tried  *)
(* more often than its attempts allow.                                       *)
THEOREM TypeCorrect == Spec => []TypeOK
  BY WorkAlways, PTL

---------------------------------------------------------------------------
(* Request ids.                                                              *)

LEMMA IdInit == Init => IdInv
  BY DEF Init, IdInv

LEMMA IdStep ==
  ASSUME TypeOK, WorkInv, IdInv, [Next]_vars
  PROVE  IdInv'
<1>0. /\ Len(deliveries) \in Nat /\ DOMAIN deliveries = 1 .. Len(deliveries)
      /\ \A r \in received : r[2] \in 1 .. Len(deliveries)
  BY QueueType DEF TypeOK
<1>1. ASSUME NEW w \in Workers, NEW p \in Payloads, AddDelivery(w, p) PROVE IdInv'
  <2>1. /\ deliveries' \in Seq(Deliveries) /\ Len(deliveries') = Len(deliveries) + 1
        /\ \A n \in 1 .. Len(deliveries) : deliveries'[n] = deliveries[n]
        /\ deliveries'[Len(deliveries) + 1].id = nextId
    BY <1>1, AddMeans
  <2>2. DOMAIN deliveries' = 1 .. Len(deliveries) + 1
    BY <2>1
  <2>3. received' = received /\ nextId' = nextId + 1 /\ obliterations' = obliterations
    BY <1>1 DEF AddDelivery
  <2>4. \A r \in received' : r[1] = deliveries'[r[2]].id
    BY <1>0, <2>1, <2>3 DEF IdInv
  <2>5. ASSUME obliterations' = 0
        PROVE  /\ nextId' = Len(deliveries') + 1
               /\ \A n \in DOMAIN deliveries' : deliveries'[n].id = n
    <3>1. nextId = Len(deliveries) + 1 /\ \A n \in 1 .. Len(deliveries) : deliveries[n].id = n
      BY <1>0, <2>3, <2>5 DEF IdInv
    <3>2. \A n \in 1 .. Len(deliveries) + 1 :
            n \in 1 .. Len(deliveries) \/ n = Len(deliveries) + 1
      BY <1>0
    <3> QED BY <2>1, <2>2, <2>3, <3>1, <3>2
  <2> QED BY <2>4, <2>5 DEF IdInv
<1>2. ASSUME NEW n \in DOMAIN deliveries, SendSucceeds(n) \/ SendFails(n) PROVE IdInv'
  <2>1. /\ deliveries' \in Seq(Deliveries) /\ SameDeliveries
        /\ \/ received' = received
           \/ received' = received \cup {<<deliveries[n].id, n>>}
    BY <1>2, SendMeans
  <2>2. nextId' = nextId /\ obliterations' = obliterations
    BY <1>2 DEF SendSucceeds, SendFails
  <2>3. DOMAIN deliveries' = 1 .. Len(deliveries)
    BY <2>1 DEF SameDeliveries
  <2>4. \A r \in received' : r[1] = deliveries'[r[2]].id
    BY <1>0, <2>1 DEF IdInv, SameDeliveries
  <2> QED BY <1>0, <2>1, <2>2, <2>3, <2>4 DEF IdInv, SameDeliveries
<1>3. CASE Obliterate
  <2>1. deliveries' \in Seq(Deliveries) /\ SameDeliveries
    BY <1>3, ObliterateMeans
  <2>2. received' = received /\ obliterations' # 0
    BY <1>3 DEF Obliterate, TypeOK
  <2> QED BY <1>0, <2>1, <2>2 DEF IdInv, SameDeliveries
<1>4. CASE UNCHANGED queueVars
  BY <1>4 DEF IdInv, queueVars
<1>5. ASSUME NEW w \in Workers, NEW s \in Snapshots,
             ExecuteSubscription(w, s) \/ ExecuteBroken(w, s)
      PROVE  UNCHANGED queueVars
  BY <1>5 DEF ExecuteSubscription, ExecuteBroken, Executed
<1>6. ASSUME NEW w \in Workers, FinishJob(w) \/ AttemptFails(w) \/ WorkerDies(w)
      PROVE  UNCHANGED queueVars
  BY <1>6 DEF FinishJob, AttemptFails, WorkerDies
<1>7. ASSUME NEW b \in Broadcasts, Enqueue(b) \/ \E w \in Workers : StartJob(w, b)
      PROVE  UNCHANGED queueVars
  BY <1>7 DEF Enqueue, StartJob
<1>8. ASSUME NEW h \in Hooks, SchemaBreaks(h) \/ SaveWebhook(h)
      PROVE  UNCHANGED queueVars
  BY <1>8 DEF SchemaBreaks, SaveWebhook
<1> QED
  BY <1>1, <1>2, <1>3, <1>4, <1>5, <1>6, <1>7, <1>8
  DEF Next, Process, Deliver, Stop, vars

(* As long as nobody obliterates the queue, the request id lets the consumer  *)
(* tell whether it has a payload already: it names one delivery, on its first *)
(* attempt and on every retry.                                               *)
THEOREM RequestIdsUntilObliterated ==
  Spec => []RequestIdNamesPayload
<1>1. TypeOK /\ IdInv => RequestIdNamesPayload
  <2> SUFFICES ASSUME TypeOK, IdInv, obliterations = 0, NEW r \in received,
                      NEW q \in received
               PROVE  (r[1] = q[1]) <=> (r[2] = q[2])
    BY DEF RequestIdNamesPayload
  <2>1. r[2] \in DOMAIN deliveries /\ q[2] \in DOMAIN deliveries
    BY QueueType DEF TypeOK
  <2>2. r[1] = r[2] /\ q[1] = q[2]
    BY <2>1 DEF IdInv
  <2> QED BY <2>2
<1>2. TypeOK /\ WorkInv /\ IdInv /\ [Next]_vars => IdInv'
  BY IdStep
<1> QED BY <1>1, <1>2, IdInit, WorkAlways, PTL DEF Spec

---------------------------------------------------------------------------
(* The deliveries of a broadcast to a webhook.                                *)

SameAdded ==
  /\ \A b \in Broadcasts, h \in Hooks : AddedFor(b, h)' = AddedFor(b, h)
  /\ \A b \in Broadcasts, s \in Snapshots : Sent(b, s)' <=> Sent(b, s)

LEMMA SameDeliveriesAdded ==
  ASSUME TypeOK, deliveries' \in Seq(Deliveries), SameDeliveries
  PROVE  SameAdded
<1>1. DOMAIN deliveries' = 1 .. Len(deliveries) /\ DOMAIN deliveries = 1 .. Len(deliveries)
  BY QueueType DEF SameDeliveries
<1> QED BY <1>1 DEF SameAdded, AddedFor, Sent, Of, SameDeliveries

LEMMA AddedFinite ==
  ASSUME TypeOK, NEW b \in Broadcasts, NEW h \in Hooks
  PROVE  /\ IsFiniteSet(AddedFor(b, h)) /\ Cardinality(AddedFor(b, h)) \in Nat
         /\ Len(deliveries) + 1 \notin AddedFor(b, h)
<1>1. AddedFor(b, h) \subseteq 1 .. Len(deliveries) /\ Len(deliveries) \in Nat
  BY QueueType DEF AddedFor
<1>2. IsFiniteSet(1 .. Len(deliveries))
  BY <1>1, FS_Interval
<1>3. IsFiniteSet(AddedFor(b, h))
  BY <1>1, <1>2, FS_Subset
<1> QED BY <1>1, <1>3, FS_CardinalityType

(* One more delivery, of the job and to the webhook it was made for.          *)
LEMMA AddingMeans ==
  ASSUME TypeOK, WorkInv, NEW w \in Workers, NEW p \in Payloads, AddDelivery(w, p)
  PROVE  \A b \in Broadcasts, h \in Hooks :
           AddedFor(b, h)' = IF b = working[w] /\ h = p.hook
                             THEN AddedFor(b, h) \cup {Len(deliveries) + 1}
                             ELSE AddedFor(b, h)
<1>1. /\ deliveries' \in Seq(Deliveries) /\ Len(deliveries') = Len(deliveries) + 1
      /\ \A n \in 1 .. Len(deliveries) : deliveries'[n] = deliveries[n]
      /\ deliveries'[Len(deliveries) + 1].hook = p.hook
      /\ deliveries'[Len(deliveries) + 1].data = working[w]
  BY AddMeans
<1>2. /\ DOMAIN deliveries' = 1 .. Len(deliveries) + 1
      /\ DOMAIN deliveries = 1 .. Len(deliveries) /\ Len(deliveries) \in Nat
  BY <1>1, QueueType
<1>3. 1 .. Len(deliveries) + 1 = (1 .. Len(deliveries)) \cup {Len(deliveries) + 1}
  BY <1>2
<1>4. TAKE b \in Broadcasts, h \in Hooks
<1> DEFINE In(n) == deliveries'[n].data = b /\ deliveries'[n].hook = h
<1>5. AddedFor(b, h)' = {n \in 1 .. Len(deliveries) + 1 : In(n)}
  BY <1>2 DEF AddedFor
<1>6. AddedFor(b, h) = {n \in 1 .. Len(deliveries) : In(n)}
  BY <1>1, <1>2 DEF AddedFor
<1>7. In(Len(deliveries) + 1) <=> b = working[w] /\ h = p.hook
  BY <1>1
<1> HIDE DEF In
<1> QED BY <1>3, <1>5, <1>6, <1>7

LEMMA AddingSends ==
  ASSUME TypeOK, WorkInv, NEW w \in Workers, NEW p \in Payloads, AddDelivery(w, p)
  PROVE  \A b \in Broadcasts, s \in Snapshots :
           Sent(b, s)' => Sent(b, s) \/ (b = working[w] /\ s = Of(p))
<1>1. /\ deliveries' \in Seq(Deliveries) /\ Len(deliveries') = Len(deliveries) + 1
      /\ \A n \in 1 .. Len(deliveries) : deliveries'[n] = deliveries[n]
      /\ Of(deliveries'[Len(deliveries) + 1]) = Of(p)
      /\ deliveries'[Len(deliveries) + 1].data = working[w]
  BY AddMeans DEF Of
<1>2. /\ DOMAIN deliveries' = 1 .. Len(deliveries) + 1
      /\ DOMAIN deliveries = 1 .. Len(deliveries) /\ Len(deliveries) \in Nat
  BY <1>1, QueueType
<1>3. 1 .. Len(deliveries) + 1 = (1 .. Len(deliveries)) \cup {Len(deliveries) + 1}
  BY <1>2
<1> QED BY <1>1, <1>2, <1>3 DEF Sent

---------------------------------------------------------------------------
(* What a step means for the workers.                                        *)

(* A worker lets go of its job.                                              *)
Ends(w) == FinishJob(w) \/ AttemptFails(w) \/ WorkerDies(w)

(* A worker makes a payload of a snapshot; a broken webhook becomes invalid.  *)
Executes(w, s) ==
  /\ s \in todo[w]
  /\ \E fatal \in BOOLEAN : Executed(w, s, fatal)
  /\ valid' = valid \/ valid' = [valid EXCEPT ![s[1]] = FALSE]

(* Nothing happens to the workers, to what they work on or to what they added. *)
Elsewhere ==
  /\ SameAdded
  /\ UNCHANGED <<version, valid, job, working, todo, ready, starts, listed, outdated>>

LEMMA Steps ==
  ASSUME TypeOK, WorkInv, [Next]_vars
  PROVE  \/ Elsewhere
         \/ SameAdded /\ \E b \in Broadcasts : Enqueue(b)
         \/ SameAdded /\ \E h \in Hooks : SaveWebhook(h)
         \/ SameAdded /\ \E w \in Workers, b \in Broadcasts : StartJob(w, b)
         \/ SameAdded /\ \E w \in Workers, s \in Snapshots : Executes(w, s)
         \/ SameAdded /\ \E w \in Workers : Ends(w)
         \/ \E w \in Workers, p \in Payloads : AddDelivery(w, p)
<1>1. ASSUME UNCHANGED deliveries PROVE SameAdded
  BY <1>1 DEF SameAdded, AddedFor, Sent
<1>2. ASSUME NEW n \in DOMAIN deliveries, SendSucceeds(n) \/ SendFails(n)
      PROVE  Elsewhere
  <2>1. SameAdded
    BY <1>2, SendMeans, SameDeliveriesAdded
  <2> QED BY <1>2, <2>1 DEF SendSucceeds, SendFails, Elsewhere, hookVars, workerVars
<1>3. CASE Obliterate
  <2>1. SameAdded
    BY <1>3, ObliterateMeans, SameDeliveriesAdded
  <2> QED BY <1>3, <2>1 DEF Obliterate, Elsewhere, hookVars, workerVars, obsVars
<1>4. ASSUME NEW h \in Hooks, SchemaBreaks(h) PROVE Elsewhere
  BY <1>1, <1>4 DEF SchemaBreaks, Elsewhere, workerVars, queueVars, obsVars
<1>5. CASE UNCHANGED vars
  BY <1>1, <1>5 DEF vars, Elsewhere, hookVars, workerVars, queueVars, obsVars
<1>6. ASSUME NEW b \in Broadcasts, Enqueue(b) \/ \E w \in Workers : StartJob(w, b)
      PROVE  SameAdded
  BY <1>1, <1>6 DEF Enqueue, StartJob, queueVars
<1>7. ASSUME NEW h \in Hooks, SaveWebhook(h) PROVE SameAdded
  BY <1>1, <1>7 DEF SaveWebhook, queueVars
<1>8. ASSUME NEW w \in Workers, NEW s \in Snapshots,
             ExecuteSubscription(w, s) \/ ExecuteBroken(w, s)
      PROVE  SameAdded /\ Executes(w, s)
  BY <1>1, <1>8 DEF ExecuteSubscription, ExecuteBroken, Executed, Executes, queueVars
<1>9. ASSUME NEW w \in Workers, FinishJob(w) \/ AttemptFails(w) \/ WorkerDies(w)
      PROVE  SameAdded /\ Ends(w)
  BY <1>1, <1>9 DEF FinishJob, AttemptFails, WorkerDies, Ends, queueVars
<1> QED
  BY <1>2, <1>3, <1>4, <1>5, <1>6, <1>7, <1>8, <1>9
  DEF Next, Process, Deliver, Stop

LEMMA ExecutesMeans ==
  ASSUME TypeOK, NEW w \in Workers, NEW s \in Snapshots, Executes(w, s)
  PROVE  /\ s[1] \in Hooks
         /\ UNCHANGED <<version, job, working, starts, listed, outdated>>
         /\ valid' = valid \/ valid' = [valid EXCEPT ![s[1]] = FALSE]
         /\ \A v \in Workers : v # w => todo'[v] = todo[v] /\ ready'[v] = ready[v]
         /\ todo'[w] = todo[w] \ {s}
         /\ \E p \in Payloads : Of(p) = s /\ p.hook = s[1] /\ ready'[w] = ready[w] \cup {p}
         /\ \A v \in Workers : \A h \in Hooks : Holds(v, h)' <=> Holds(v, h)
         /\ \A v \in Workers : \A t : Keeps(v, t)' => Keeps(v, t)
<1>1. PICK fatal \in BOOLEAN : Executed(w, s, fatal)
  BY DEF Executes
<1>2. s \in todo[w]
  BY DEF Executes
<1>3. /\ s[1] \in Hooks
      /\ \A v \in Workers : v # w => todo'[v] = todo[v] /\ ready'[v] = ready[v]
      /\ todo'[w] = todo[w] \ {s}
      /\ \E p \in Payloads : Of(p) = s /\ p.hook = s[1] /\ ready'[w] = ready[w] \cup {p}
  BY <1>1, <1>2, ExecutedMeans
<1>4. UNCHANGED <<version, job, working, starts, listed, outdated>>
  BY <1>1 DEF Executed, obsVars
<1>5. \A v \in Workers : \A h \in Hooks : Holds(v, h)' <=> Holds(v, h)
  <2>1. PICK p \in Payloads : p.hook = s[1] /\ ready'[w] = ready[w] \cup {p}
    BY <1>3
  <2>2. ASSUME NEW v \in Workers, NEW h \in Hooks, v # w
        PROVE  Holds(v, h)' <=> Holds(v, h)
    BY <1>3, <2>2 DEF Holds, Listing, Carrying
  <2>3. ASSUME NEW h \in Hooks PROVE Holds(w, h)' <=> Holds(w, h)
    <3>1. Listing(w, h) <=> Listing(w, h)' \/ s[1] = h
      BY <1>2, <1>3 DEF Listing
    <3>2. Carrying(w, h)' <=> Carrying(w, h) \/ s[1] = h
      BY <2>1 DEF Carrying
    <3> QED BY <3>1, <3>2 DEF Holds
  <2> QED BY <2>2, <2>3
<1>6. valid' = valid \/ valid' = [valid EXCEPT ![s[1]] = FALSE]
  BY DEF Executes
<1>7. \A v \in Workers : \A t : Keeps(v, t)' => Keeps(v, t)
  BY <1>2, <1>3 DEF Keeps
<1> QED BY <1>3, <1>4, <1>5, <1>6, <1>7

(* A list of snapshots names the webhooks it is of.                           *)
LEMMA SnapshotsOf ==
  ASSUME NEW S, NEW T, T = {<<h, version[h]>> : h \in S}
  PROVE  \A h : (\E s \in T : s[1] = h) <=> h \in S
<1>1. ASSUME NEW h \in S PROVE \E s \in T : s[1] = h
  <2>1. <<h, version[h]>> \in T /\ <<h, version[h]>>[1] = h
    OBVIOUS
  <2> QED BY <2>1
<1>2. ASSUME NEW s \in T PROVE s[1] \in S
  <2>1. PICK g \in S : s = <<g, version[g]>>
    OBVIOUS
  <2> QED BY <2>1
<1> QED BY <1>1, <1>2

LEMMA StartMeans ==
  ASSUME TypeOK, WorkInv, NEW w \in Workers, NEW b \in Broadcasts, StartJob(w, b)
  PROVE  /\ UNCHANGED <<version, valid, outdated>>
         /\ job[b] = "waiting" /\ job' = [job EXCEPT ![b] = "active"]
         /\ \A v \in Workers : working[v] # b
         /\ \A v \in Workers : v # w =>
              /\ working'[v] = working[v] /\ todo'[v] = todo[v] /\ ready'[v] = ready[v]
         /\ working'[w] = b
         /\ starts' = [starts EXCEPT ![b] = starts[b] + 1]
         /\ todo'[w] = {<<h, version[h]>> : h \in {g \in Observers[b] : valid[g]}}
         /\ ready'[w] = {}
         /\ \A h \in Hooks : Listing(w, h)' <=> h \in Observers[b] /\ valid[h]
         /\ listed' = [listed EXCEPT ![b] = listed[b] \cup todo'[w]]
<1>1. ListFor(b) = {<<h, version[h]>> : h \in {g \in Observers[b] : valid[g]}}
  BY DEF ListFor, IsListed
<1>0. \A h : (\E s \in ListFor(b) : s[1] = h) <=> h \in {g \in Observers[b] : valid[g]}
  BY <1>1, SnapshotsOf
<1>3. todo'[w] = ListFor(b)
  BY DEF StartJob, TypeOK
<1>4. listed' = [listed EXCEPT ![b] = listed[b] \cup todo'[w]]
  BY <1>3 DEF StartJob
<1>5. \A v \in Workers : working[v] # b
  BY DEF StartJob, WorkInv
<1>6. /\ job[b] = "waiting" /\ job' = [job EXCEPT ![b] = "active"]
      /\ working' = [working EXCEPT ![w] = b] /\ ready' = ready
      /\ todo' = [todo EXCEPT ![w] = ListFor(b)]
      /\ starts' = [starts EXCEPT ![b] = starts[b] + 1]
      /\ UNCHANGED <<version, valid, outdated>>
  BY DEF StartJob, hookVars
<1>7. ready[w] = {}
  BY DEF StartJob, WorkInv
<1>8. \A h \in Hooks : Listing(w, h)' <=> h \in Observers[b] /\ valid[h]
  BY <1>0, <1>3 DEF Listing
<1>9. /\ \A v \in Workers : v # w =>
           /\ working'[v] = working[v] /\ todo'[v] = todo[v] /\ ready'[v] = ready[v]
      /\ working'[w] = b
  BY <1>6 DEF TypeOK
<1> QED BY <1>1, <1>3, <1>4, <1>5, <1>6, <1>7, <1>8, <1>9

LEMMA EndsMeans ==
  ASSUME TypeOK, WorkInv, NEW w \in Workers, Ends(w)
  PROVE  /\ UNCHANGED <<version, valid, starts, listed, outdated>>
         /\ working[w] \in Broadcasts
         /\ \A v \in Workers : v # w =>
              /\ working'[v] = working[v] /\ todo'[v] = todo[v] /\ ready'[v] = ready[v]
         /\ working'[w] = Idle /\ todo'[w] = {} /\ ready'[w] = {}
         /\ \E j \in {"waiting", "completed", "failed"} :
              /\ job' = [job EXCEPT ![working[w]] = j]
              /\ j = "completed" => todo[w] = {} /\ ready[w] = {}
<1>1. working[w] \in Broadcasts
  BY DEF Ends, FinishJob, AttemptFails, WorkerDies, TypeOK
<1>2. /\ working' = [working EXCEPT ![w] = Idle]
      /\ todo' = [todo EXCEPT ![w] = {}] /\ ready' = [ready EXCEPT ![w] = {}]
      /\ UNCHANGED <<version, valid, starts, listed, outdated>>
  BY DEF Ends, FinishJob, AttemptFails, WorkerDies, Release, hookVars, obsVars
<1>3. \E j \in {"waiting", "completed", "failed"} :
        /\ job' = [job EXCEPT ![working[w]] = j]
        /\ j = "completed" => todo[w] = {} /\ ready[w] = {}
  BY DEF Ends, FinishJob, AttemptFails, WorkerDies, AfterFailure, AllAdded
<1> QED BY <1>1, <1>2, <1>3 DEF TypeOK

LEMMA AddLeaves ==
  ASSUME TypeOK, WorkInv, NEW w \in Workers, NEW p \in Payloads, AddDelivery(w, p)
  PROVE  /\ UNCHANGED <<version, valid, job, working, todo, starts, listed, outdated>>
         /\ p.hook \in Hooks /\ Carrying(w, p.hook) /\ working[w] \in Broadcasts
         /\ \A v \in Workers : v # w => ready'[v] = ready[v]
         /\ p \in ready[w] /\ ready'[w] = ready[w] \ {p}
         /\ \A v \in Workers : \A h \in Hooks :
              /\ Holds(v, h)' => Holds(v, h)
              /\ Holds(v, h) => Holds(v, h)' \/ (v = w /\ h = p.hook)
         /\ \A v \in Workers : \A s : Keeps(v, s)' => Keeps(v, s)
<1>1. p.hook \in Hooks
  BY DEF Payloads
<1>2. working[w] \in Broadcasts
  BY AddMeans
<1>3. /\ UNCHANGED <<version, valid, job, working, todo, starts, listed, outdated>>
      /\ p \in ready[w] /\ ready' = [ready EXCEPT ![w] = ready[w] \ {p}]
  BY DEF AddDelivery, Unadded, hookVars, obsVars
<1>4. /\ \A v \in Workers : v # w => ready'[v] = ready[v]
      /\ ready'[w] = ready[w] \ {p}
  BY <1>3 DEF TypeOK
<1>5. \A v \in Workers : \A h \in Hooks :
        /\ Holds(v, h)' => Holds(v, h)
        /\ Holds(v, h) => Holds(v, h)' \/ (v = w /\ h = p.hook)
  BY <1>3, <1>4 DEF Holds, Listing, Carrying
<1>6. \A v \in Workers : \A s : Keeps(v, s)' => Keeps(v, s)
  BY <1>3, <1>4 DEF Keeps
<1> QED BY <1>1, <1>2, <1>3, <1>4, <1>5, <1>6 DEF Carrying

---------------------------------------------------------------------------
(* What was outdated when the broadcast was made.                             *)

LEMMA OutdatedInit == Init => OutdatedInv
  BY DEF Init, OutdatedInv, Sent

LEMMA OutdatedStep ==
  ASSUME TypeOK, WorkInv, OutdatedInv, [Next]_vars
  PROVE  OutdatedInv'
<1>0. /\ version \in [Hooks -> Versions] /\ Versions \subseteq Nat
      /\ \A b \in Broadcasts : \A s \in outdated[b] : s \in Snapshots
      /\ \A s \in Snapshots : s[1] \in Hooks /\ s[2] \in Nat
      /\ \A h \in Hooks : version[h] \in Nat
      /\ outdated \in [Broadcasts -> SUBSET Snapshots]
      /\ valid \in [Hooks -> BOOLEAN]
  BY DEF TypeOK, Versions, Snapshots
<1>a. ASSUME NEW w \in Workers, todo'[w] = todo[w], ready'[w] = ready[w]
      PROVE  \A s : Keeps(w, s)' <=> Keeps(w, s)
  BY <1>a DEF Keeps
<1>1. CASE Elsewhere
  <2>1. \A w \in Workers : \A s : Keeps(w, s)' <=> Keeps(w, s)
    BY <1>1, <1>a DEF Elsewhere
  <2> QED BY <1>0, <1>1, <2>1 DEF OutdatedInv, Elsewhere, SameAdded
<1>2. ASSUME SameAdded, NEW c \in Broadcasts, Enqueue(c) PROVE OutdatedInv'
  <2>1. /\ UNCHANGED <<version, valid, working, todo, ready>>
        /\ job[c] = "none" /\ job' = [job EXCEPT ![c] = "waiting"]
        /\ outdated' = [outdated EXCEPT ![c] = Outdated]
    BY <1>2 DEF Enqueue, hookVars, workerVars
  <2>2. \A w \in Workers : working[w] # c
    BY <2>1 DEF WorkInv, TypeOK
  <2>3. \A w \in Workers : \A s : Keeps(w, s)' <=> Keeps(w, s)
    BY <1>a, <2>1
  <2>4. ASSUME NEW b \in Broadcasts, job'[b] = "none", NEW s \in Snapshots
        PROVE  ~Sent(b, s)'
    BY <1>2, <2>1, <2>4 DEF OutdatedInv, SameAdded, TypeOK
  <2>5. ASSUME NEW b \in Broadcasts, NEW s \in outdated'[b]
        PROVE  /\ s[2] <= version'[s[1]] /\ (s[2] = version'[s[1]] => ~valid'[s[1]])
               /\ ~Sent(b, s)'
               /\ \A w \in Workers : working'[w] = b => ~Keeps(w, s)'
    <3>1. CASE b = c
      <4>1. s \in Snapshots /\ s \in Outdated
        BY <1>0, <2>1, <2>5, <3>1 DEF Outdated
      <4>2. s[2] <= version[s[1]] /\ (s[2] = version[s[1]] => ~valid[s[1]])
        BY <1>0, <4>1 DEF Outdated
      <4>3. ~Sent(b, s)
        BY <2>1, <3>1, <4>1 DEF OutdatedInv
      <4> QED BY <1>2, <2>1, <2>2, <3>1, <4>1, <4>2, <4>3 DEF SameAdded
    <3>2. CASE b # c
      <4>1. s \in outdated[b] /\ s \in Snapshots
        BY <1>0, <2>1, <2>5, <3>2
      <4> QED BY <1>2, <2>1, <2>3, <4>1 DEF OutdatedInv, SameAdded
    <3> QED BY <3>1, <3>2
  <2> QED BY <2>4, <2>5 DEF OutdatedInv
<1>3. ASSUME SameAdded, NEW g \in Hooks, SaveWebhook(g) PROVE OutdatedInv'
  <2>1. /\ UNCHANGED <<job, working, todo, ready, outdated>>
        /\ version' = [version EXCEPT ![g] = version[g] + 1]
        /\ valid' = [valid EXCEPT ![g] = TRUE]
    BY <1>3 DEF SaveWebhook, workerVars, obsVars
  <2>2. /\ version'[g] = version[g] + 1 /\ version[g] \in Nat
        /\ \A h \in Hooks : h # g => version'[h] = version[h] /\ valid'[h] = valid[h]
    BY <1>0, <2>1
  <2>3. \A w \in Workers : \A s : Keeps(w, s)' <=> Keeps(w, s)
    BY <1>a, <2>1
  <2>4. ASSUME NEW b \in Broadcasts, NEW s \in outdated'[b]
        PROVE  /\ s[2] <= version'[s[1]] /\ (s[2] = version'[s[1]] => ~valid'[s[1]])
               /\ ~Sent(b, s)'
               /\ \A w \in Workers : working'[w] = b => ~Keeps(w, s)'
    <3>1. s \in outdated[b] /\ s \in Snapshots /\ s[1] \in Hooks /\ s[2] \in Nat
      BY <1>0, <2>1
    <3>2. s[2] <= version[s[1]] /\ (s[2] = version[s[1]] => ~valid[s[1]])
      BY <3>1 DEF OutdatedInv
    <3>3. s[2] <= version'[s[1]] /\ (s[2] = version'[s[1]] => ~valid'[s[1]])
      <4>1. CASE s[1] = g
        BY <2>2, <3>1, <3>2, <4>1
      <4>2. CASE s[1] # g
        BY <2>2, <3>1, <3>2, <4>2
      <4> QED BY <4>1, <4>2
    <3> QED BY <1>3, <2>1, <2>3, <3>1, <3>3 DEF OutdatedInv, SameAdded
  <2> QED BY <1>3, <2>1, <2>4 DEF OutdatedInv, SameAdded
<1>4. ASSUME SameAdded, NEW w \in Workers, NEW c \in Broadcasts, StartJob(w, c)
      PROVE  OutdatedInv'
  <2>1. /\ UNCHANGED <<version, valid, outdated>>
        /\ job' = [job EXCEPT ![c] = "active"]
        /\ \A v \in Workers : v # w =>
             /\ working'[v] = working[v] /\ todo'[v] = todo[v] /\ ready'[v] = ready[v]
        /\ working'[w] = c /\ ready'[w] = {}
        /\ todo'[w] = {<<h, version[h]>> : h \in {g \in Observers[c] : valid[g]}}
    BY <1>4, StartMeans
  <2>2. \A s : Keeps(w, s)' => s[2] = version[s[1]] /\ valid[s[1]]
    BY <2>1 DEF Keeps
  <2>3. \A v \in Workers : v # w => \A s : Keeps(v, s)' <=> Keeps(v, s)
    BY <1>a, <2>1
  <2>4. ASSUME NEW b \in Broadcasts, job'[b] = "none", NEW s \in Snapshots
        PROVE  ~Sent(b, s)'
    BY <1>4, <2>1, <2>4 DEF OutdatedInv, SameAdded, TypeOK
  <2>5. ASSUME NEW b \in Broadcasts, NEW s \in outdated'[b]
        PROVE  /\ s[2] <= version'[s[1]] /\ (s[2] = version'[s[1]] => ~valid'[s[1]])
               /\ ~Sent(b, s)'
               /\ \A v \in Workers : working'[v] = b => ~Keeps(v, s)'
    <3>1. s \in outdated[b] /\ s \in Snapshots
      BY <1>0, <2>1
    <3>2. /\ s[2] <= version[s[1]] /\ (s[2] = version[s[1]] => ~valid[s[1]])
          /\ ~Sent(b, s)
          /\ \A v \in Workers : working[v] = b => ~Keeps(v, s)
      BY <3>1 DEF OutdatedInv
    <3>3. \A v \in Workers : working'[v] = b => ~Keeps(v, s)'
      BY <2>1, <2>2, <2>3, <3>2
    <3> QED BY <1>4, <2>1, <3>1, <3>2, <3>3 DEF SameAdded
  <2> QED BY <2>4, <2>5 DEF OutdatedInv
<1>5. ASSUME SameAdded, NEW w \in Workers, NEW s \in Snapshots, Executes(w, s)
      PROVE  OutdatedInv'
  <2>1. /\ s[1] \in Hooks /\ UNCHANGED <<version, job, working, outdated>>
        /\ valid' = valid \/ valid' = [valid EXCEPT ![s[1]] = FALSE]
        /\ \A v \in Workers : \A t : Keeps(v, t)' => Keeps(v, t)
    BY <1>5, ExecutesMeans
  <2>2. \A h \in Hooks : ~valid[h] => ~valid'[h]
    BY <1>0, <2>1
  <2> QED BY <1>0, <1>5, <2>1, <2>2 DEF OutdatedInv, SameAdded
<1>6. ASSUME SameAdded, NEW w \in Workers, Ends(w) PROVE OutdatedInv'
  <2>1. /\ UNCHANGED <<version, valid, outdated>> /\ working[w] \in Broadcasts
        /\ \A v \in Workers : v # w =>
             /\ working'[v] = working[v] /\ todo'[v] = todo[v] /\ ready'[v] = ready[v]
        /\ working'[w] = Idle /\ todo'[w] = {} /\ ready'[w] = {}
        /\ \E j \in {"waiting", "completed", "failed"} :
             job' = [job EXCEPT ![working[w]] = j]
    BY <1>6, EndsMeans
  <2>2. \A b \in Broadcasts : job'[b] = "none" => job[b] = "none"
    BY <2>1 DEF TypeOK
  <2>3. \A v \in Workers : \A s : Keeps(v, s)' => v # w /\ Keeps(v, s)
    BY <2>1 DEF Keeps
  <2> QED BY <1>0, <1>6, <2>1, <2>2, <2>3 DEF OutdatedInv, SameAdded
<1>7. ASSUME NEW w \in Workers, NEW p \in Payloads, AddDelivery(w, p)
      PROVE  OutdatedInv'
  <2>1. /\ UNCHANGED <<version, valid, job, working, outdated>>
        /\ working[w] \in Broadcasts /\ p \in ready[w]
        /\ \A v \in Workers : \A s : Keeps(v, s)' => Keeps(v, s)
    BY <1>7, AddLeaves
  <2>2. \A b \in Broadcasts, s \in Snapshots :
          Sent(b, s)' => Sent(b, s) \/ (b = working[w] /\ s = Of(p))
    BY <1>7, AddingSends
  <2>3. job[working[w]] = "active" /\ Keeps(w, Of(p))
    BY <2>1 DEF WorkInv, Keeps
  <2>4. ASSUME NEW b \in Broadcasts, job'[b] = "none", NEW s \in Snapshots
        PROVE  ~Sent(b, s)'
    BY <2>1, <2>2, <2>3, <2>4 DEF OutdatedInv
  <2>5. ASSUME NEW b \in Broadcasts, NEW s \in outdated'[b]
        PROVE  /\ s[2] <= version'[s[1]] /\ (s[2] = version'[s[1]] => ~valid'[s[1]])
               /\ ~Sent(b, s)'
               /\ \A v \in Workers : working'[v] = b => ~Keeps(v, s)'
    <3>1. s \in outdated[b] /\ s \in Snapshots
      BY <1>0, <2>1
    <3>2. /\ s[2] <= version[s[1]] /\ (s[2] = version[s[1]] => ~valid[s[1]])
          /\ ~Sent(b, s)
          /\ \A v \in Workers : working[v] = b => ~Keeps(v, s)
      BY <3>1 DEF OutdatedInv
    <3>3. ~Sent(b, s)'
      BY <2>2, <2>3, <3>1, <3>2
    <3> QED BY <2>1, <3>2, <3>3
  <2> QED BY <2>4, <2>5 DEF OutdatedInv
<1> QED BY <1>1, <1>2, <1>3, <1>4, <1>5, <1>6, <1>7, Steps

(* What an owner had replaced, and what was found invalid, when a broadcast   *)
(* was made is in none of its payloads, whatever workers die or start again,  *)
(* however often owners save and webhooks become invalid.                     *)
THEOREM NothingOutdatedIsSentAlways == Spec => []NothingOutdatedIsSent
<1>1. TypeOK /\ OutdatedInv => NothingOutdatedIsSent
  <2> SUFFICES ASSUME TypeOK, OutdatedInv, NEW n \in DOMAIN deliveries
               PROVE  Of(deliveries[n]) \notin outdated[deliveries[n].data]
    BY DEF NothingOutdatedIsSent, Of
  <2>1. deliveries[n].data \in Broadcasts
    BY QueueType
  <2>2. Sent(deliveries[n].data, Of(deliveries[n]))
    BY DEF Sent
  <2> QED BY <2>1, <2>2 DEF OutdatedInv
<1>2. TypeOK /\ WorkInv /\ OutdatedInv /\ [Next]_vars => OutdatedInv'
  BY OutdatedStep
<1> QED BY <1>1, <1>2, OutdatedInit, WorkAlways, PTL DEF Spec

---------------------------------------------------------------------------
(* A job that is done.                                                       *)

LEMMA HeldInit == Init => HeldInv /\ DoneMeansAdded
  BY DEF Init, HeldInv, ListedRight, DoneMeansAdded

(* Nothing undoes that: a webhook that is valid again has been saved.         *)
LEMMA SettledStays ==
  ASSUME TypeOK, WorkInv, [Next]_vars, NEW b \in Broadcasts, NEW t \in Snapshots,
         t[2] <= version[t[1]], Settled(b, t)
  PROVE  Settled(b, t)'
<1>0. /\ version \in [Hooks -> Versions] /\ Versions \subseteq Nat \ {0}
      /\ valid \in [Hooks -> BOOLEAN] /\ t[1] \in Hooks /\ t[2] \in Nat
      /\ version[t[1]] \in Nat
  BY DEF TypeOK, Versions, Snapshots
<1>1. CASE Elsewhere
  BY <1>0, <1>1 DEF Elsewhere, SameAdded, Settled
<1>2. ASSUME SameAdded, NEW c \in Broadcasts, Enqueue(c) PROVE Settled(b, t)'
  BY <1>0, <1>2 DEF Enqueue, hookVars, SameAdded, Settled
<1>3. ASSUME SameAdded, NEW g \in Hooks, SaveWebhook(g) PROVE Settled(b, t)'
  <2>1. /\ version' = [version EXCEPT ![g] = version[g] + 1]
        /\ valid' = [valid EXCEPT ![g] = TRUE]
    BY <1>3 DEF SaveWebhook
  <2>2. t[1] = g => version'[t[1]] > t[2]
    <3>1. t[1] = g => version'[t[1]] = version[t[1]] + 1
      BY <1>0, <1>0, <2>1
    <3> QED BY <1>0, <3>1
  <2>3. t[1] # g => version'[t[1]] = version[t[1]] /\ valid'[t[1]] = valid[t[1]]
    BY <1>0, <1>0, <2>1
  <2> QED BY <1>0, <1>3, <2>2, <2>3 DEF SameAdded, Settled
<1>4. ASSUME SameAdded, NEW w \in Workers, NEW c \in Broadcasts, StartJob(w, c)
      PROVE  Settled(b, t)'
  BY <1>0, <1>4 DEF StartJob, hookVars, SameAdded, Settled
<1>5. ASSUME SameAdded, NEW w \in Workers, NEW s \in Snapshots, Executes(w, s)
      PROVE  Settled(b, t)'
  <2>1. /\ version' = version
        /\ valid' = valid \/ valid' = [valid EXCEPT ![s[1]] = FALSE]
    BY <1>5, ExecutesMeans
  <2>2. ~valid[t[1]] => ~valid'[t[1]]
    BY <1>0, <1>0, <2>1
  <2> QED BY <1>0, <1>5, <2>1, <2>2 DEF SameAdded, Settled
<1>6. ASSUME SameAdded, NEW w \in Workers, Ends(w) PROVE Settled(b, t)'
  <2>1. UNCHANGED <<version, valid>>
    BY <1>6, EndsMeans
  <2> QED BY <1>0, <1>6, <2>1 DEF SameAdded, Settled
<1>7. ASSUME NEW w \in Workers, NEW p \in Payloads, AddDelivery(w, p)
      PROVE  Settled(b, t)'
  <2>1. UNCHANGED <<version, valid>>
    BY <1>7, AddLeaves
  <2>2. AddedFor(b, t[1]) \subseteq AddedFor(b, t[1])'
    BY <1>0, <1>7, AddingMeans
  <2> QED BY <2>1, <2>2 DEF Settled
<1> QED BY <1>1, <1>2, <1>3, <1>4, <1>5, <1>6, <1>7, Steps

(* HeldInv and DoneMeansAdded, of the job a worker has and of any other.      *)
ToDo ==
  \A w \in Workers, b \in Broadcasts : working[w] = b =>
    \A s \in listed[b] : Settled(b, s) \/ Holds(w, s[1])

Done ==
  \A b \in Broadcasts : job[b] = "completed" =>
    \A s \in listed[b] : Settled(b, s)

LEMMA HeldMeans ==
  ASSUME TypeOK
  PROVE  HeldInv /\ DoneMeansAdded <=> ToDo /\ Done /\ ListedRight
<1>1. \A w \in Workers : working[w] # Idle <=> working[w] \in Broadcasts
  BY DEF TypeOK
<1>2. DoneMeansAdded <=> Done
  BY DEF DoneMeansAdded, Done, Settled
<1>3. HeldInv <=> ToDo /\ ListedRight
  BY <1>1 DEF HeldInv, ToDo
<1> QED BY <1>2, <1>3

(* No webhook goes back to an earlier version.                                *)
LEMMA VersionsGrow ==
  ASSUME TypeOK, WorkInv, [Next]_vars
  PROVE  \A h \in Hooks : version[h] \in Nat /\ version'[h] \in Nat
                          /\ version'[h] >= version[h]
<1>0. version \in [Hooks -> Versions] /\ Versions \subseteq Nat
  BY DEF TypeOK, Versions
<1>1. ASSUME version' = version
      PROVE  \A h \in Hooks : version[h] \in Nat /\ version'[h] \in Nat
                              /\ version'[h] >= version[h]
  <2>1. \A h \in Hooks : version[h] \in Nat
    BY <1>0
  <2> QED BY <1>1, <2>1
<1>2. ASSUME NEW g \in Hooks, SaveWebhook(g)
      PROVE  \A h \in Hooks : version[h] \in Nat /\ version'[h] \in Nat
                              /\ version'[h] >= version[h]
  <2>1. version' = [version EXCEPT ![g] = version[g] + 1]
    BY <1>2 DEF SaveWebhook
  <2>2. ASSUME NEW h \in Hooks
        PROVE  version[h] \in Nat /\ version'[h] \in Nat /\ version'[h] >= version[h]
    <3>1. version[h] \in Nat
      BY <1>0
    <3>2. version'[h] = version[h] + 1 \/ version'[h] = version[h]
      BY <1>0, <2>1
    <3> QED BY <3>1, <3>2
  <2> QED BY <2>2
<1>3. CASE Elsewhere
  BY <1>1, <1>3 DEF Elsewhere
<1>4. ASSUME NEW b \in Broadcasts, Enqueue(b) PROVE version' = version
  BY <1>4 DEF Enqueue, hookVars
<1>5. ASSUME NEW w \in Workers, NEW b \in Broadcasts, StartJob(w, b)
      PROVE  version' = version
  BY <1>5 DEF StartJob, hookVars
<1>6. ASSUME NEW w \in Workers, NEW s \in Snapshots, Executes(w, s)
      PROVE  version' = version
  BY <1>6, ExecutesMeans
<1>7. ASSUME NEW w \in Workers, Ends(w) PROVE version' = version
  BY <1>7, EndsMeans
<1>8. ASSUME NEW w \in Workers, NEW p \in Payloads, AddDelivery(w, p)
      PROVE  version' = version
  BY <1>8, AddLeaves
<1> QED BY <1>1, <1>2, <1>3, <1>4, <1>5, <1>6, <1>7, <1>8, Steps

LEMMA HeldStep ==
  ASSUME TypeOK, WorkInv, ToDo, Done, ListedRight, [Next]_vars
  PROVE  ToDo' /\ Done' /\ ListedRight'
<1>0. /\ listed \in [Broadcasts -> SUBSET Snapshots]
      /\ job \in [Broadcasts -> {"none", "waiting", "active", "completed", "failed"}]
      /\ valid \in [Hooks -> BOOLEAN]
      /\ \A s \in Snapshots : s[1] \in Hooks /\ s[2] \in Nat
  BY DEF TypeOK, Snapshots, Versions
<1>1. \A h \in Hooks : version[h] \in Nat /\ version'[h] \in Nat
                       /\ version'[h] >= version[h]
  BY VersionsGrow
<1>2. \A b \in Broadcasts : \A s \in listed[b] :
        /\ s \in Snapshots /\ s[1] \in Hooks /\ s[2] <= version[s[1]]
        /\ Settled(b, s) => Settled(b, s)'
  BY <1>0, SettledStays DEF ListedRight
<1>a. \A b \in Broadcasts : \A s \in listed[b] :
        s \in Snapshots /\ s[1] \in Observers[b] /\ s[2] <= version'[s[1]]
  BY <1>0, <1>1 DEF ListedRight
<1>3. ASSUME UNCHANGED <<working, listed>>,
             \A b \in Broadcasts : job'[b] = "completed" => job[b] = "completed",
             \A w \in Workers, b \in Broadcasts : working[w] = b =>
               \A s \in listed[b] :
                 Holds(w, s[1]) => Holds(w, s[1])' \/ Settled(b, s)'
      PROVE  ToDo' /\ Done' /\ ListedRight'
  <2>1. ASSUME NEW w \in Workers, NEW b \in Broadcasts, working'[w] = b,
               NEW s \in listed'[b]
        PROVE  Settled(b, s)' \/ Holds(w, s[1])'
    <3>1. working[w] = b /\ s \in listed[b]
      BY <1>3, <2>1
    <3>2. Settled(b, s) \/ Holds(w, s[1])
      BY <3>1 DEF ToDo
    <3> QED BY <1>2, <1>3, <3>1, <3>2
  <2>2. ASSUME NEW b \in Broadcasts, job'[b] = "completed", NEW s \in listed'[b]
        PROVE  Settled(b, s)'
    <3>1. s \in listed[b] /\ job[b] = "completed"
      BY <1>3, <2>2
    <3> QED BY <1>2, <3>1 DEF Done
  <2>3. ListedRight'
    BY <1>3, <1>a DEF ListedRight
  <2> QED BY <2>1, <2>2, <2>3 DEF ToDo, Done
<1>b. ASSUME NEW w \in Workers, todo'[w] = todo[w], ready'[w] = ready[w]
      PROVE  \A h : Holds(w, h)' <=> Holds(w, h)
  BY <1>b DEF Holds, Listing, Carrying
<1>4. CASE Elsewhere
  <2>1. UNCHANGED <<job, working, todo, ready, listed>>
    BY <1>4 DEF Elsewhere
  <2> QED BY <1>3, <1>b, <2>1
<1>5. ASSUME NEW c \in Broadcasts, Enqueue(c) PROVE ToDo' /\ Done' /\ ListedRight'
  <2>1. UNCHANGED <<working, todo, ready, listed>> /\ job' = [job EXCEPT ![c] = "waiting"]
    BY <1>5 DEF Enqueue, workerVars
  <2>2. \A b \in Broadcasts : job'[b] = "completed" => job[b] = "completed"
    BY <1>0, <2>1
  <2> QED BY <1>3, <1>b, <2>1, <2>2
<1>6. ASSUME NEW g \in Hooks, SaveWebhook(g) PROVE ToDo' /\ Done' /\ ListedRight'
  <2>1. UNCHANGED <<job, working, todo, ready, listed>>
    BY <1>6 DEF SaveWebhook, workerVars, obsVars
  <2> QED BY <1>3, <1>b, <2>1
<1>7. ASSUME NEW w \in Workers, NEW s \in Snapshots, Executes(w, s)
      PROVE  ToDo' /\ Done' /\ ListedRight'
  <2>1. /\ UNCHANGED <<job, working, listed>>
        /\ \A v \in Workers : \A h \in Hooks : Holds(v, h)' <=> Holds(v, h)
    BY <1>7, ExecutesMeans
  <2> QED BY <1>2, <1>3, <2>1
<1>8. ASSUME NEW w \in Workers, NEW p \in Payloads, AddDelivery(w, p)
      PROVE  ToDo' /\ Done' /\ ListedRight'
  <2>1. /\ UNCHANGED <<job, working, listed>>
        /\ p.hook \in Hooks /\ working[w] \in Broadcasts
        /\ \A v \in Workers : \A h \in Hooks :
             Holds(v, h) => Holds(v, h)' \/ (v = w /\ h = p.hook)
    BY <1>8, AddLeaves
  <2>2. ASSUME NEW b \in Broadcasts, working[w] = b, NEW s \in listed[b],
               s[1] = p.hook
        PROVE  Settled(b, s)'
    <3>1. AddedFor(b, s[1])' = AddedFor(b, s[1]) \cup {Len(deliveries) + 1}
      BY <1>8, <2>1, <2>2, AddingMeans
    <3> QED BY <3>1 DEF Settled
  <2> QED BY <1>2, <1>3, <2>1, <2>2
<1>9. ASSUME NEW w \in Workers, NEW c \in Broadcasts, StartJob(w, c)
      PROVE  ToDo' /\ Done' /\ ListedRight'
  <2>1. /\ UNCHANGED <<version, valid>>
        /\ job' = [job EXCEPT ![c] = "active"]
        /\ \A v \in Workers : working[v] # c
        /\ \A v \in Workers : v # w =>
             /\ working'[v] = working[v] /\ todo'[v] = todo[v] /\ ready'[v] = ready[v]
        /\ working'[w] = c
        /\ todo'[w] = {<<h, version[h]>> : h \in {g \in Observers[c] : valid[g]}}
        /\ \A h \in Hooks : Listing(w, h)' <=> h \in Observers[c] /\ valid[h]
        /\ listed' = [listed EXCEPT ![c] = listed[c] \cup todo'[w]]
    BY <1>9, StartMeans
  <2>2. \A v \in Workers : v # w => \A h \in Hooks : Holds(v, h)' <=> Holds(v, h)
    BY <1>b, <2>1
  <2>3. /\ listed'[c] = listed[c] \cup todo'[w]
        /\ \A b \in Broadcasts : b # c => listed'[b] = listed[b] /\ job'[b] = job[b]
        /\ job'[c] = "active"
    BY <1>0, <2>1
  <2>4. \A s \in todo'[w] :
          /\ s \in Snapshots /\ s[1] \in Observers[c] /\ s[1] \in Hooks
          /\ valid[s[1]] /\ s[2] = version[s[1]]
    <3>1. \A h \in Observers[c] : h \in Hooks /\ version[h] \in Versions
      BY DEF TypeOK
    <3> QED BY <2>1, <3>1 DEF Snapshots
  <2>5. ListedRight'
    <3> SUFFICES ASSUME NEW b \in Broadcasts, NEW s \in listed'[b]
                 PROVE  s \in Snapshots /\ s[1] \in Observers[b] /\ s[2] <= version'[s[1]]
      BY DEF ListedRight
    <3>1. CASE s \in listed[b]
      BY <1>a, <3>1
    <3>2. CASE s \notin listed[b]
      <4>1. b = c /\ s \in todo'[w]
        BY <2>3, <3>2
      <4> QED BY <1>1, <2>1, <2>4, <4>1
    <3> QED BY <3>1, <3>2
  <2>6. ASSUME NEW v \in Workers, NEW b \in Broadcasts, working'[v] = b,
               NEW s \in listed'[b]
        PROVE  Settled(b, s)' \/ Holds(v, s[1])'
    <3>1. s[1] \in Observers[b] /\ s[1] \in Hooks
      BY <1>0, <2>5 DEF ListedRight
    <3>2. CASE v = w
      <4>1. b = c
        BY <2>1, <2>6, <3>2
      <4>2. CASE valid[s[1]]
        BY <2>1, <3>1, <3>2, <4>1, <4>2 DEF Holds
      <4>3. CASE ~valid[s[1]]
        BY <2>1, <4>3 DEF Settled
      <4> QED BY <4>2, <4>3
    <3>3. CASE v # w
      <4>1. working[v] = b /\ b # c /\ s \in listed[b]
        BY <2>1, <2>3, <2>6, <3>3
      <4>2. Settled(b, s) \/ Holds(v, s[1])
        BY <4>1 DEF ToDo
      <4> QED BY <1>2, <2>2, <3>1, <3>3, <4>1, <4>2
    <3> QED BY <3>2, <3>3
  <2>7. ASSUME NEW b \in Broadcasts, job'[b] = "completed", NEW s \in listed'[b]
        PROVE  Settled(b, s)'
    <3>1. s \in listed[b] /\ job[b] = "completed"
      BY <2>3, <2>7
    <3> QED BY <1>2, <3>1 DEF Done
  <2> QED BY <2>5, <2>6, <2>7 DEF ToDo, Done
<1>10. ASSUME NEW w \in Workers, Ends(w) PROVE ToDo' /\ Done' /\ ListedRight'
  <2>1. /\ listed' = listed /\ working[w] \in Broadcasts
        /\ \A v \in Workers : v # w =>
             /\ working'[v] = working[v] /\ todo'[v] = todo[v] /\ ready'[v] = ready[v]
        /\ working'[w] = Idle
        /\ \E j \in {"waiting", "completed", "failed"} :
             /\ job' = [job EXCEPT ![working[w]] = j]
             /\ j = "completed" => todo[w] = {} /\ ready[w] = {}
    BY <1>10, EndsMeans
  <2>2. \A v \in Workers : v # w => \A h \in Hooks : Holds(v, h)' <=> Holds(v, h)
    BY <1>b, <2>1
  <2>3. ASSUME NEW v \in Workers, NEW b \in Broadcasts, working'[v] = b,
               NEW s \in listed'[b]
        PROVE  Settled(b, s)' \/ Holds(v, s[1])'
    <3>1. v # w /\ working[v] = b /\ s \in listed[b]
      BY <2>1, <2>3
    <3>2. Settled(b, s) \/ Holds(v, s[1])
      BY <3>1 DEF ToDo
    <3> QED BY <1>2, <2>2, <3>1, <3>2
  <2>4. ASSUME NEW b \in Broadcasts, job'[b] = "completed", NEW s \in listed'[b]
        PROVE  Settled(b, s)'
    <3>1. s \in listed[b]
      BY <2>1
    <3>2. CASE b = working[w]
      <4>1. job'[b] = "completed" => todo[w] = {} /\ ready[w] = {}
        BY <1>0, <2>1, <3>2
      <4>2. ~Holds(w, s[1])
        BY <2>4, <4>1 DEF Holds, Listing, Carrying
      <4> QED BY <1>2, <3>1, <3>2, <4>2 DEF ToDo
    <3>3. CASE b # working[w]
      <4>1. job[b] = "completed"
        BY <1>0, <2>1, <2>4, <3>3
      <4> QED BY <1>2, <3>1, <4>1 DEF Done
    <3> QED BY <3>2, <3>3
  <2>5. ListedRight'
    BY <1>a, <2>1 DEF ListedRight
  <2> QED BY <2>3, <2>4, <2>5 DEF ToDo, Done
<1> QED BY <1>4, <1>5, <1>6, <1>7, <1>8, <1>9, <1>10, Steps

(* A job that completes has given a payload to every webhook that any of its  *)
(* attempts found, apart from those that became invalid or changed since.     *)
THEOREM DoneMeansAddedAlways == Spec => []DoneMeansAdded
<1> DEFINE H == HeldInv /\ DoneMeansAdded
<1>1. TypeOK /\ WorkInv /\ H /\ [Next]_vars /\ TypeOK' => H'
  <2> SUFFICES ASSUME TypeOK, WorkInv, H, [Next]_vars, TypeOK' PROVE H'
    OBVIOUS
  <2>1. ToDo /\ Done /\ ListedRight
    BY HeldMeans
  <2>2. ToDo' /\ Done' /\ ListedRight'
    BY <2>1, HeldStep
  <2>3. TypeOK => (HeldInv /\ DoneMeansAdded <=> ToDo /\ Done /\ ListedRight)
    BY HeldMeans
  <2>4. TypeOK' => (HeldInv' /\ DoneMeansAdded' <=> ToDo' /\ Done' /\ ListedRight')
    BY HeldMeans, PTL
  <2> QED BY <2>2, <2>4
<1>2. Init => H
  BY HeldInit
<1>3. H => DoneMeansAdded
  OBVIOUS
<1> HIDE DEF H
<1> QED BY <1>1, <1>2, <1>3, WorkAlways, PTL DEF Spec

---------------------------------------------------------------------------
(* Payloads a webhook gets twice.                                            *)

LEMMA CountInit == Init => OnceInv /\ CountInv
<1> SUFFICES ASSUME Init PROVE OnceInv /\ CountInv
  OBVIOUS
<1>1. OnceInv
  BY DEF Init, OnceInv, Listing, Carrying
<1>2. \A w \in Workers : working[w] = Idle
  BY DEF Init
<1>3. ASSUME NEW b \in Broadcasts, NEW h \in Hooks
      PROVE  Cardinality(AddedFor(b, h)) <= starts[b]
  <2>1. AddedFor(b, h) = {} /\ starts[b] = 0
    BY DEF Init, AddedFor
  <2> QED BY <2>1, FS_EmptySet
<1> QED BY <1>1, <1>2, <1>3 DEF CountInv, RepeatsNeedRestarts

LEMMA OnceStep ==
  ASSUME TypeOK, WorkInv, OnceInv, [Next]_vars
  PROVE  OnceInv'
<1> DEFINE Once(w) == /\ \A s, t \in todo[w] : s[1] = t[1] => s = t
                      /\ \A p, q \in ready[w] : p.hook = q.hook => p = q
                      /\ \A h \in Hooks : ~(Listing(w, h) /\ Carrying(w, h))
<1>0. \A w \in Workers : Once(w)
  BY DEF OnceInv
<1> SUFFICES ASSUME NEW v \in Workers PROVE Once(v)'
  BY DEF OnceInv
<1>1. ASSUME todo'[v] = todo[v], ready'[v] = ready[v] PROVE Once(v)'
  BY <1>0, <1>1 DEF Listing, Carrying
<1>2. ASSUME todo'[v] = {}, ready'[v] = {} PROVE Once(v)'
  BY <1>2 DEF Listing, Carrying
<1>3. CASE Elsewhere
  BY <1>1, <1>3 DEF Elsewhere
<1>4. ASSUME NEW b \in Broadcasts, Enqueue(b) PROVE Once(v)'
  BY <1>1, <1>4 DEF Enqueue, workerVars
<1>5. ASSUME NEW h \in Hooks, SaveWebhook(h) PROVE Once(v)'
  BY <1>1, <1>5 DEF SaveWebhook, workerVars
<1>6. ASSUME NEW w \in Workers, NEW b \in Broadcasts, StartJob(w, b) PROVE Once(v)'
  <2>1. CASE v # w
    BY <1>1, <1>6, <2>1, StartMeans
  <2>2. CASE v = w
    <3>1. /\ todo'[v] = {<<h, version[h]>> : h \in {g \in Observers[b] : valid[g]}}
          /\ ready'[v] = {}
      BY <1>6, <2>2, StartMeans
    <3>2. \A s, t \in todo'[v] : s[1] = t[1] => s = t
      BY <3>1
    <3> QED BY <3>1, <3>2 DEF Carrying
  <2> QED BY <2>1, <2>2
<1>7. ASSUME NEW w \in Workers, NEW s \in Snapshots, Executes(w, s) PROVE Once(v)'
  <2>1. CASE v # w
    BY <1>1, <1>7, <2>1, ExecutesMeans
  <2>2. CASE v = w
    <3>1. s \in todo[v] /\ s[1] \in Hooks
      BY <1>7, <2>2, ExecutesMeans DEF Executes
    <3>2. PICK p \in Payloads : /\ p.hook = s[1] /\ ready'[v] = ready[v] \cup {p}
                                /\ todo'[v] = todo[v] \ {s}
      BY <1>7, <2>2, ExecutesMeans
    <3>3. ~Carrying(v, s[1])
      BY <1>0, <3>1 DEF Listing
    <3>4. \A q, r \in ready'[v] : q.hook = r.hook => q = r
      BY <1>0, <3>2, <3>3 DEF Carrying
    <3>5. \A t, u \in todo'[v] : t[1] = u[1] => t = u
      BY <1>0, <3>2
    <3>6. ASSUME NEW h \in Hooks, Listing(v, h)', Carrying(v, h)' PROVE FALSE
      <4>1. PICK t \in todo[v] : t # s /\ t[1] = h
        BY <3>2, <3>6 DEF Listing
      <4>2. h # s[1]
        BY <1>0, <3>1, <4>1
      <4>3. Carrying(v, h)
        BY <3>2, <3>6, <4>2 DEF Carrying
      <4> QED BY <1>0, <4>1, <4>3 DEF Listing
    <3> QED BY <3>4, <3>5, <3>6
  <2> QED BY <2>1, <2>2
<1>8. ASSUME NEW w \in Workers, Ends(w) PROVE Once(v)'
  <2>1. CASE v # w
    BY <1>1, <1>8, <2>1, EndsMeans
  <2>2. CASE v = w
    BY <1>2, <1>8, <2>2, EndsMeans
  <2> QED BY <2>1, <2>2
<1>9. ASSUME NEW w \in Workers, NEW p \in Payloads, AddDelivery(w, p) PROVE Once(v)'
  <2>1. todo'[v] = todo[v] /\ ready'[v] \subseteq ready[v]
    BY <1>9, AddLeaves
  <2> QED BY <1>0, <2>1 DEF Listing, Carrying
<1> QED BY <1>3, <1>4, <1>5, <1>6, <1>7, <1>8, <1>9, Steps

(* CountInv, of the job a worker has and of any other.                        *)
Count(b, h) == Cardinality(AddedFor(b, h))

Room ==
  \A w \in Workers, b \in Broadcasts : working[w] = b =>
    \A h \in Hooks : Holds(w, h) => Count(b, h) + 1 <= starts[b]

Within == \A b \in Broadcasts, h \in Hooks : Count(b, h) <= starts[b]

LEMMA CountMeans == TypeOK => (CountInv <=> Room /\ Within)
<1> SUFFICES ASSUME TypeOK PROVE CountInv <=> Room /\ Within
  OBVIOUS
<1>1. \A w \in Workers : working[w] # Idle <=> working[w] \in Broadcasts
  BY DEF TypeOK
<1> QED BY <1>1 DEF CountInv, RepeatsNeedRestarts, Room, Within, Count

LEMMA CountStep ==
  ASSUME TypeOK, WorkInv, OnceInv, Room, Within, [Next]_vars
  PROVE  Room' /\ Within'
<1>0. /\ starts \in [Broadcasts -> Nat]
      /\ \A b \in Broadcasts, h \in Hooks : Count(b, h) \in Nat
  BY AddedFinite DEF TypeOK, Count
<1>1. ASSUME SameAdded
      PROVE  \A b \in Broadcasts, h \in Hooks : Count(b, h)' = Count(b, h)
  BY <1>1 DEF SameAdded, Count
<1>2. ASSUME SameAdded, starts' = starts,
             \A w \in Workers, b \in Broadcasts : working'[w] = b => working[w] = b,
             \A w \in Workers : working'[w] # Idle =>
               \A h \in Hooks : Holds(w, h)' => Holds(w, h)
      PROVE  Room' /\ Within'
  BY <1>1, <1>2 DEF Room, Within
<1>3. CASE Elsewhere
  BY <1>2, <1>3 DEF Elsewhere, Holds, Listing, Carrying
<1>4. ASSUME SameAdded, NEW b \in Broadcasts, Enqueue(b) PROVE Room' /\ Within'
  BY <1>2, <1>4 DEF Enqueue, workerVars, Holds, Listing, Carrying
<1>5. ASSUME SameAdded, NEW h \in Hooks, SaveWebhook(h) PROVE Room' /\ Within'
  BY <1>2, <1>5 DEF SaveWebhook, workerVars, obsVars, Holds, Listing, Carrying
<1>6. ASSUME SameAdded, NEW w \in Workers, NEW s \in Snapshots, Executes(w, s)
      PROVE  Room' /\ Within'
  <2>1. /\ UNCHANGED <<working, starts>>
        /\ \A v \in Workers : \A h \in Hooks : Holds(v, h)' <=> Holds(v, h)
    BY <1>6, ExecutesMeans
  <2> QED BY <1>2, <1>6, <2>1
<1>7. ASSUME SameAdded, NEW w \in Workers, Ends(w) PROVE Room' /\ Within'
  <2>1. /\ starts' = starts
        /\ \A v \in Workers : v # w =>
             /\ working'[v] = working[v] /\ todo'[v] = todo[v] /\ ready'[v] = ready[v]
        /\ working'[w] = Idle
    BY <1>7, EndsMeans
  <2> QED BY <1>2, <1>7, <2>1 DEF Holds, Listing, Carrying
<1>8. ASSUME SameAdded, NEW w \in Workers, NEW c \in Broadcasts, StartJob(w, c)
      PROVE  Room' /\ Within'
  <2>1. /\ starts' = [starts EXCEPT ![c] = starts[c] + 1]
        /\ \A v \in Workers : working[v] # c
        /\ \A v \in Workers : v # w =>
             /\ working'[v] = working[v] /\ todo'[v] = todo[v] /\ ready'[v] = ready[v]
        /\ working'[w] = c
    BY <1>8, StartMeans
  <2>2. /\ starts'[c] = starts[c] + 1
        /\ \A b \in Broadcasts : b # c => starts'[b] = starts[b]
    BY <1>0, <2>1
  <2>3. \A v \in Workers : v # w => \A h \in Hooks : Holds(v, h)' <=> Holds(v, h)
    BY <2>1 DEF Holds, Listing, Carrying
  <2>4. \A b \in Broadcasts : starts[b] \in Nat /\ starts'[b] >= starts[b]
    BY <1>0, <2>2
  <2>5. ASSUME NEW b \in Broadcasts, NEW h \in Hooks
        PROVE  Count(b, h)' <= starts'[b]
    <3>1. Count(b, h)' = Count(b, h) /\ Count(b, h) <= starts[b]
      BY <1>1, <1>8 DEF Within
    <3> QED BY <1>0, <2>2, <3>1
  <2>6. ASSUME NEW v \in Workers, NEW b \in Broadcasts, working'[v] = b,
               NEW h \in Hooks, Holds(v, h)'
        PROVE  Count(b, h)' + 1 <= starts'[b]
    <3>1. Count(b, h)' = Count(b, h) /\ Count(b, h) \in Nat /\ starts[b] \in Nat
      BY <1>0, <1>1, <1>8
    <3>2. CASE v = w
      <4>1. b = c /\ Count(b, h) <= starts[b]
        BY <2>1, <2>6, <3>2 DEF Within
      <4> QED BY <2>2, <3>1, <4>1
    <3>3. CASE v # w
      <4>1. working[v] = b /\ b # c /\ Holds(v, h)
        BY <2>1, <2>3, <2>6, <3>3
      <4>2. Count(b, h) + 1 <= starts[b] /\ starts'[b] = starts[b]
        BY <2>2, <4>1 DEF Room
      <4> QED BY <3>1, <4>2
    <3> QED BY <3>2, <3>3
  <2> QED BY <2>5, <2>6 DEF Room, Within
<1>9. ASSUME NEW w \in Workers, NEW p \in Payloads, AddDelivery(w, p)
      PROVE  Room' /\ Within'
  <2>1. /\ UNCHANGED <<working, starts, todo>>
        /\ p.hook \in Hooks /\ Carrying(w, p.hook) /\ working[w] \in Broadcasts
        /\ p \in ready[w] /\ ready'[w] = ready[w] \ {p}
        /\ \A v \in Workers : \A h \in Hooks : Holds(v, h)' => Holds(v, h)
    BY <1>9, AddLeaves
  <2>2. PICK c \in Broadcasts : c = working[w]
    BY <2>1
  <2>3. \A b \in Broadcasts, h \in Hooks :
          ~(b = c /\ h = p.hook) => Count(b, h)' = Count(b, h)
    BY <1>9, <2>2, AddingMeans DEF Count
  <2>4. Count(c, p.hook)' = Count(c, p.hook) + 1
    <3>1. AddedFor(c, p.hook)' = AddedFor(c, p.hook) \cup {Len(deliveries) + 1}
      BY <1>9, <2>1, <2>2, AddingMeans
    <3>2. /\ IsFiniteSet(AddedFor(c, p.hook))
          /\ Len(deliveries) + 1 \notin AddedFor(c, p.hook)
      BY <2>1, AddedFinite
    <3> QED BY <3>1, <3>2, FS_AddElement DEF Count
  <2>5. Count(c, p.hook) + 1 <= starts[c]
    BY <2>1, <2>2 DEF Room, Holds
  <2>6. ~Holds(w, p.hook)'
    <3>1. ~Listing(w, p.hook)
      BY <2>1 DEF OnceInv
    <3>2. ~Carrying(w, p.hook)'
      BY <2>1 DEF OnceInv, Carrying
    <3> QED BY <2>1, <3>1, <3>2 DEF Holds, Listing
  <2>7. Within'
    BY <2>1, <2>3, <2>4, <2>5 DEF Within
  <2>8. ASSUME NEW v \in Workers, NEW b \in Broadcasts, working'[v] = b,
               NEW h \in Hooks, Holds(v, h)'
        PROVE  Count(b, h)' + 1 <= starts'[b]
    <3>1. working[v] = b /\ Holds(v, h)
      BY <2>1, <2>8
    <3>2. ~(b = c /\ h = p.hook)
      <4>1. b = c => v = w
        BY <2>2, <3>1 DEF WorkInv
      <4> QED BY <2>6, <2>8, <4>1
    <3>3. Count(b, h) + 1 <= starts[b]
      BY <3>1 DEF Room
    <3> QED BY <2>1, <2>3, <3>2, <3>3
  <2> QED BY <2>7, <2>8 DEF Room
<1> QED BY <1>3, <1>4, <1>5, <1>6, <1>7, <1>8, <1>9, Steps

(* A webhook gets a broadcast at most once for each time its job was started:  *)
(* duplicates come of attempts that failed and of workers that died, and of    *)
(* nothing else.                                                             *)
THEOREM RepeatsNeedRestartsAlways == Spec => []RepeatsNeedRestarts
<1>1. TypeOK /\ WorkInv /\ OnceInv /\ CountInv /\ [Next]_vars /\ TypeOK' => CountInv'
  <2> SUFFICES ASSUME TypeOK, WorkInv, OnceInv, CountInv, [Next]_vars, TypeOK'
               PROVE  CountInv'
    OBVIOUS
  <2>1. Room' /\ Within'
    BY CountMeans, CountStep
  <2>2. TypeOK' => (CountInv' <=> Room' /\ Within')
    BY CountMeans, PTL
  <2> QED BY <2>1, <2>2
<1>2. TypeOK /\ WorkInv /\ OnceInv /\ [Next]_vars => OnceInv'
  BY OnceStep
<1>3. CountInv => RepeatsNeedRestarts
  BY DEF CountInv
<1> QED BY <1>1, <1>2, <1>3, CountInit, WorkAlways, PTL DEF Spec
=============================================================================
