-------------------------- MODULE WebhookDelivery --------------------------
(***************************************************************************)
(* From the processor queue to the consumer's endpoint.                    *)
(*                                                                         *)
(* A processor worker takes a job (one broadcast), lists the valid webhooks *)
(* that observe it, executes the subscription of each and adds a delivery   *)
(* job per payload.  A webhook whose operation is broken is marked invalid  *)
(* and gets a last, "fatal" payload.  Delivery workers send payloads and    *)
(* retry them.  Meanwhile owners save webhooks, deployments change the      *)
(* schema, an administrator obliterates the delivery queue, and workers     *)
(* die, whose jobs BullMQ hands to another.                                 *)
(*                                                                         *)
(* Abstractions: a webhook is its owner's saved version of it, and a        *)
(* payload is the webhook version and broadcast it was made from; a webhook *)
(* that filters a broadcast out is one that does not observe it; an error   *)
(* while an event is emitted makes a payload like any other.                *)
(***************************************************************************)
EXTENDS Naturals, Sequences, FiniteSets

CONSTANTS Hooks, Broadcasts, Workers,
          Observers,        (* the webhooks observing each broadcast's channels *)
          Idle,             (* "the worker has no job"                       *)
          Attempts,         (* attempts of a processor job                   *)
          DeliveryAttempts, (* attempts of a delivery job                    *)
          MaxVersions,      (* bound: times an owner saves a webhook         *)
          MaxCrashes,       (* bound: workers that die with a job            *)
          MaxObliterations, (* bound: times the delivery queue is obliterated *)
          MaxBroken         (* bound: operations a schema change breaks      *)

ASSUME ObserversAssumption == Observers \in [Broadcasts -> SUBSET Hooks]
ASSUME IdleAssumption      == Idle \notin Broadcasts
ASSUME BoundsAssumption    ==
  /\ Attempts \in Nat \ {0} /\ DeliveryAttempts \in Nat \ {0}
  /\ MaxVersions \in Nat \ {0} /\ MaxCrashes \in Nat
  /\ MaxObliterations \in Nat /\ MaxBroken \in Nat

VARIABLES
  version,     (* the version of each webhook its owner saved last           *)
  valid,       (* Webhook.valid                                             *)
  broken,      (* <<hook, version>> the schema no longer accepts             *)
  job,         (* state of each broadcast's processor job                    *)
  attempted,   (* failed attempts of each processor job                      *)
  working,     (* the job each worker processes                              *)
  todo,        (* snapshots the worker has listed and not yet executed        *)
  ready,       (* payloads the worker has not yet added to the queue         *)
  deliveries,  (* delivery jobs, in the order they were added                *)
  nextId,      (* BullMQ's job id counter                                    *)
  received,    (* <<request id, delivery>> pairs the consumers accepted       *)
  crashes, obliterations

(* Observations, read by the properties and by no action.                    *)
VARIABLES
  starts,      (* times each job was taken by a worker                       *)
  listed,      (* snapshots each job has ever listed                         *)
  outdated     (* snapshots that were replaced, or invalid, when each         *)
               (* broadcast was made                                         *)

hookVars   == <<version, valid, broken>>
workerVars == <<working, todo, ready>>
queueVars  == <<deliveries, nextId, received, obliterations>>
obsVars    == <<starts, listed, outdated>>
vars == <<hookVars, job, attempted, workerVars, queueVars, crashes, obsVars>>

Versions  == 1 .. MaxVersions
Snapshots == Hooks \X Versions
Payloads  == [hook : Hooks, version : Versions, fatal : BOOLEAN]
Deliveries ==
  [hook : Hooks, version : Versions, fatal : BOOLEAN, data : Broadcasts,
   id : Nat \ {0}, state : {"waiting", "completed", "failed", "gone"},
   attemptsMade : 0 .. DeliveryAttempts]

TypeOK ==
  /\ version \in [Hooks -> Versions]
  /\ valid \in [Hooks -> BOOLEAN]
  /\ broken \in SUBSET Snapshots
  /\ job \in [Broadcasts -> {"none", "waiting", "active", "completed", "failed"}]
  /\ attempted \in [Broadcasts -> 0 .. Attempts]
  /\ working \in [Workers -> Broadcasts \cup {Idle}]
  /\ todo \in [Workers -> SUBSET Snapshots]
  /\ ready \in [Workers -> SUBSET Payloads]
  /\ deliveries \in Seq(Deliveries)
  /\ nextId \in Nat \ {0}
  /\ received \in SUBSET ((Nat \ {0}) \X (1 .. Len(deliveries)))
  /\ crashes \in 0 .. MaxCrashes
  /\ obliterations \in 0 .. MaxObliterations
  /\ starts \in [Broadcasts -> Nat]
  /\ listed \in [Broadcasts -> SUBSET Snapshots]
  /\ outdated \in [Broadcasts -> SUBSET Snapshots]

Init ==
  /\ version = [h \in Hooks |-> 1]
  /\ valid = [h \in Hooks |-> TRUE]
  /\ broken = {}
  /\ job = [b \in Broadcasts |-> "none"]
  /\ attempted = [b \in Broadcasts |-> 0]
  /\ working = [w \in Workers |-> Idle]
  /\ todo = [w \in Workers |-> {}]
  /\ ready = [w \in Workers |-> {}]
  /\ deliveries = <<>>
  /\ nextId = 1
  /\ received = {}
  /\ crashes = 0
  /\ obliterations = 0
  /\ starts = [b \in Broadcasts |-> 0]
  /\ listed = [b \in Broadcasts |-> {}]
  /\ outdated = [b \in Broadcasts |-> {}]

---------------------------------------------------------------------------
(* The environment of the workers.                                           *)

(* What a broadcast made now is not meant for.                               *)
Outdated == {s \in Snapshots : \/ s[2] < version[s[1]]
                              \/ (s[2] = version[s[1]] /\ ~valid[s[1]])}

(* WebhookListener adds the job of a broadcast.                              *)
Enqueue(b) ==
  /\ job[b] = "none"
  /\ job' = [job EXCEPT ![b] = "waiting"]
  /\ outdated' = [outdated EXCEPT ![b] = Outdated]
  /\ UNCHANGED <<hookVars, attempted, workerVars, queueVars, crashes, starts,
                 listed>>

(* A deployment changes the schema, and an operation stops validating.       *)
SchemaBreaks(h) ==
  /\ Cardinality(broken) < MaxBroken
  /\ <<h, version[h]>> \notin broken
  /\ broken' = broken \cup {<<h, version[h]>>}
  /\ UNCHANGED <<version, valid, job, attempted, workerVars, queueVars,
                 crashes, obsVars>>

(* The owner saves a changed operation: verified, evaluated and valid again.  *)
SaveWebhook(h) ==
  /\ version[h] < MaxVersions
  /\ version' = [version EXCEPT ![h] = @ + 1]
  /\ valid' = [valid EXCEPT ![h] = TRUE]
  /\ UNCHANGED <<broken, job, attempted, workerVars, queueVars, crashes, obsVars>>

---------------------------------------------------------------------------
(* WebhookProcessorWorker.process                                            *)

BugListsInvalid(h) == TRUE

(* listForChannels matches webhooks that are valid.                          *)
IsListed(h) == valid[h]

ListFor(b) == {<<h, version[h]>> : h \in {g \in Observers[b] : IsListed(g)}}

StartJob(w, b) ==
  /\ working[w] = Idle
  /\ job[b] = "waiting"
  /\ job' = [job EXCEPT ![b] = "active"]
  /\ working' = [working EXCEPT ![w] = b]
  /\ todo' = [todo EXCEPT ![w] = ListFor(b)]
  /\ starts' = [starts EXCEPT ![b] = @ + 1]
  /\ listed' = [listed EXCEPT ![b] = @ \cup ListFor(b)]
  /\ UNCHANGED <<hookVars, attempted, ready, queueVars, crashes, outdated>>

Executed(w, s, fatal) ==
  /\ todo' = [todo EXCEPT ![w] = @ \ {s}]
  /\ ready' = [ready EXCEPT ![w] = @ \cup
                 {[hook |-> s[1], version |-> s[2], fatal |-> fatal]}]
  /\ UNCHANGED <<version, broken, job, attempted, working, queueVars, crashes,
                 obsVars>>

(* The subscription of the snapshot yields a payload.                        *)
ExecuteSubscription(w, s) ==
  /\ s \in todo[w]
  /\ s \notin broken
  /\ Executed(w, s, FALSE)
  /\ UNCHANGED valid

(* Validation or initialization fails: mark the webhook invalid, by its id,   *)
(* and prepare the payload that tells its owner.                             *)
ExecuteBroken(w, s) ==
  /\ s \in todo[w]
  /\ s \in broken
  /\ valid' = [valid EXCEPT ![s[1]] = FALSE]
  /\ Executed(w, s, TRUE)

Release(w) ==
  /\ working' = [working EXCEPT ![w] = Idle]
  /\ todo' = [todo EXCEPT ![w] = {}]
  /\ ready' = [ready EXCEPT ![w] = {}]

(* BullMQ: the job waits for its next attempt or has failed for good.         *)
AfterFailure(b) == IF attempted[b] + 1 < Attempts THEN "waiting" ELSE "failed"

(* Any other error of an execution, or of adding to the queue.               *)
AttemptFails(w) ==
  /\ working[w] # Idle
  /\ todo[w] # {} \/ ready[w] # {}
  /\ LET b == working[w] IN
       /\ job' = [job EXCEPT ![b] = AfterFailure(b)]
       /\ attempted' = [attempted EXCEPT ![b] = @ + 1]
  /\ Release(w)
  /\ UNCHANGED <<hookVars, queueVars, crashes, obsVars>>

(* The worker's process dies; the job has stalled and waits again.           *)
WorkerDies(w) ==
  /\ working[w] # Idle
  /\ crashes < MaxCrashes
  /\ crashes' = crashes + 1
  /\ job' = [job EXCEPT ![working[w]] = "waiting"]
  /\ Release(w)
  /\ UNCHANGED <<hookVars, attempted, queueVars, obsVars>>

BugAddedAgain(w, p) == ready[w]

(* The payload has been handed to the delivery queue.                        *)
Unadded(w, p) == ready[w] \ {p}

(* delivery.addBulk: the job takes the next id of the counter.               *)
AddDelivery(w, p) ==
  /\ p \in ready[w]
  /\ deliveries' = Append(deliveries,
       [hook |-> p.hook, version |-> p.version, fatal |-> p.fatal,
        data |-> working[w], id |-> nextId, state |-> "waiting",
        attemptsMade |-> 0])
  /\ nextId' = nextId + 1
  /\ ready' = [ready EXCEPT ![w] = Unadded(w, p)]
  /\ UNCHANGED <<hookVars, job, attempted, working, todo, received,
                 obliterations, crashes, obsVars>>

BugNothingToAdd(w) == todo[w] = {}

BugEmptyNotFinished(w) == todo[w] = {} /\ ready[w] # {}

(* The loop over the payloads has come to its end.                           *)
AllAdded(w) == todo[w] = {} /\ ready[w] = {}

FinishJob(w) ==
  /\ working[w] # Idle
  /\ AllAdded(w)
  /\ job' = [job EXCEPT ![working[w]] = "completed"]
  /\ Release(w)
  /\ UNCHANGED <<hookVars, attempted, queueVars, crashes, obsVars>>

---------------------------------------------------------------------------
(* WebhookDeliveryWorker.process                                             *)

BugRetryHasNewId(n) == deliveries[n].id + deliveries[n].attemptsMade

(* The request id is the job's id, on every attempt.                         *)
RequestId(n) == deliveries[n].id

(* The consumer accepts the payload.                                         *)
Accept(n) == received' = received \cup {<<RequestId(n), n>>}

(* The endpoint answers with a status below 400.                             *)
SendSucceeds(n) ==
  /\ deliveries[n].state = "waiting"
  /\ deliveries' = [deliveries EXCEPT ![n] = [@ EXCEPT !.state = "completed"]]
  /\ Accept(n)
  /\ UNCHANGED <<hookVars, job, attempted, workerVars, nextId, obliterations,
                 crashes, starts, listed, outdated>>

AfterSendFailure(n) ==
  IF deliveries[n].attemptsMade + 1 < DeliveryAttempts THEN "waiting" ELSE "failed"

(* No answer, or one that is no success; the consumer may have the payload.   *)
SendFails(n) ==
  /\ deliveries[n].state = "waiting"
  /\ LET made == deliveries[n].attemptsMade + 1 IN
       deliveries' = [deliveries EXCEPT ![n] =
         [@ EXCEPT !.state = AfterSendFailure(n), !.attemptsMade = made]]
  /\ Accept(n) \/ UNCHANGED received
  /\ UNCHANGED <<hookVars, job, attempted, workerVars, nextId, obliterations,
                 crashes, starts, listed, outdated>>

(* QueueModifierResolver.obliterate: every key of the queue goes, the id      *)
(* counter among them.                                                       *)
Obliterate ==
  /\ obliterations < MaxObliterations
  /\ obliterations' = obliterations + 1
  /\ deliveries' = [n \in DOMAIN deliveries |->
                      [deliveries[n] EXCEPT !.state = "gone"]]
  /\ nextId' = 1
  /\ UNCHANGED <<hookVars, job, attempted, workerVars, received, crashes, obsVars>>

(* Nothing is left to do for the broadcasts of this behaviour.               *)
Quiet ==
  /\ \A b \in Broadcasts : job[b] \in {"completed", "failed"}
  /\ \A n \in DOMAIN deliveries : deliveries[n].state # "waiting"

Stop == Quiet /\ UNCHANGED vars

Process ==
  \/ \E w \in Workers, b \in Broadcasts : StartJob(w, b)
  \/ \E w \in Workers, s \in Snapshots :
       ExecuteSubscription(w, s) \/ ExecuteBroken(w, s)
  \/ \E w \in Workers, p \in Payloads : AddDelivery(w, p)
  \/ \E w \in Workers : FinishJob(w)

Deliver == \E n \in DOMAIN deliveries : SendSucceeds(n) \/ SendFails(n)

Next ==
  \/ \E b \in Broadcasts : Enqueue(b)
  \/ \E h \in Hooks : SchemaBreaks(h) \/ SaveWebhook(h)
  \/ Process
  \/ \E w \in Workers : AttemptFails(w) \/ WorkerDies(w)
  \/ Deliver \/ Obliterate \/ Stop

Spec == Init /\ [][Next]_vars

(* Workers that live take jobs and get on with them.                         *)
FairSpec == Spec /\ WF_vars(Process) /\ WF_vars(Deliver)

---------------------------------------------------------------------------
(* Properties                                                                *)

AddedFor(b, h) == {n \in DOMAIN deliveries :
                     deliveries[n].data = b /\ deliveries[n].hook = h}

(* The request id lets the consumer recognise a payload it already has: no   *)
(* two payloads come under one id, and a retry comes under its first, as     *)
(* long as nobody obliterates the queue.                                     *)
RequestIdNamesPayload ==
  obliterations = 0 =>
    \A r, q \in received : (r[1] = q[1]) <=> (r[2] = q[2])

(* A job is over only when every webhook it ever listed has a payload, has    *)
(* become invalid, or was saved since it was listed.                         *)
DoneMeansAdded ==
  \A b \in Broadcasts : job[b] = "completed" =>
    \A s \in listed[b] :
      AddedFor(b, s[1]) # {} \/ ~valid[s[1]] \/ version[s[1]] > s[2]

(* A webhook gets no more payloads of a broadcast than the job had starts:   *)
(* only a job that failed or stalled half way repeats itself.                *)
RepeatsNeedRestarts ==
  \A b \in Broadcasts, h \in Hooks : Cardinality(AddedFor(b, h)) <= starts[b]

(* Webhooks are listed once and executed later, while owners save them, jobs  *)
(* start over and others mark them invalid.  Yet the operation behind every   *)
(* payload is one that its owner had not replaced, and nobody found invalid,  *)
(* when the broadcast was made: the webhook was valid then, or was saved in   *)
(* between.                                                                  *)
NothingOutdatedIsSent ==
  \A n \in DOMAIN deliveries :
    <<deliveries[n].hook, deliveries[n].version>> \notin outdated[deliveries[n].data]

(* Every job ends and every delivery is sent or given up.                    *)
BroadcastsSettle ==
  \A b \in Broadcasts :
    job[b] = "waiting" ~> job[b] \in {"completed", "failed"} /\
      \A n \in DOMAIN deliveries :
        deliveries[n].data = b => deliveries[n].state # "waiting"
=============================================================================
