-------------------------- MODULE WebhookListener --------------------------
(***************************************************************************)
(* WebhookListener: broadcasts that leave the process are collected in     *)
(* batches, one per payload object, and each batch becomes one job of the  *)
(* processor queue.  A batch is enqueued by the chain its timer joins      *)
(* ("draining") or by the loop that flushes all batches on shutdown; the   *)
(* two run concurrently while a shutdown is under way.                     *)
(*                                                                         *)
(* Abstractions: a broadcast has a payload object of its own, so nothing   *)
(* is published with a payload whose batch was already taken, and the      *)
(* payload stands for the batch; a rejected queue.add is an unhandled      *)
(* rejection and ends the process, as does the end of a shutdown.          *)
(***************************************************************************)
EXTENDS Naturals, SequencesExt

CONSTANTS Payloads,   (* payload objects, one per broadcast                *)
          Channels,   (* channel names                                     *)
          Internal,   (* the channels marked internal                      *)
          NoBatch     (* "no queue.add is under way"                       *)

ASSUME InternalAssumption == Internal \subseteq Channels
ASSUME NoBatchAssumption  == NoBatch \notin Payloads

VARIABLES
  pendingBatches,  (* payloads with a pending batch, in insertion order     *)
  events,          (* the channels each payload was published on           *)
  timer,           (* each batch's timer: none, armed, fired or cleared     *)
  draining,        (* batches chained behind the one being enqueued         *)
  draining_add,    (* the batch whose queue.add the chain awaits            *)
  flush_add,       (* the batch whose queue.add the shutdown loop awaits     *)
  awaited,         (* what the shutdown found on the chain and waits for     *)
  phase,           (* running, flushing, awaiting, closed, exited            *)
  jobs             (* jobs added to the processor queue                     *)

(* Observations, read by the properties and by no action.                    *)
VARIABLES
  before,          (* external events published before the shutdown began   *)
  opened           (* payloads in the order their batches were opened       *)

obsVars == <<before, opened>>
vars == <<pendingBatches, events, timer, draining, draining_add, flush_add,
          awaited, phase, jobs, obsVars>>

Events == Payloads \X Channels
Jobs   == [data : Payloads, channels : SUBSET Channels]

InSeq(x, s) == \E i \in 1 .. Len(s) : s[i] = x
IsPending(d) == InSeq(d, pendingBatches)

TypeOK ==
  /\ pendingBatches \in Seq(Payloads)
  /\ events \in [Payloads -> SUBSET Channels]
  /\ timer \in [Payloads -> {"none", "armed", "fired", "cleared"}]
  /\ draining \in Seq(Payloads)
  /\ draining_add \in Payloads \cup {NoBatch}
  /\ flush_add \in Payloads \cup {NoBatch}
  /\ awaited \in SUBSET Payloads
  /\ phase \in {"running", "flushing", "awaiting", "closed", "exited"}
  /\ jobs \in Seq(Jobs)
  /\ before \in SUBSET Events
  /\ opened \in Seq(Payloads)

Init ==
  /\ pendingBatches = <<>>
  /\ events = [d \in Payloads |-> {}]
  /\ timer = [d \in Payloads |-> "none"]
  /\ draining = <<>>
  /\ draining_add = NoBatch
  /\ flush_add = NoBatch
  /\ awaited = {}
  /\ phase = "running"
  /\ jobs = <<>>
  /\ before = {}
  /\ opened = <<>>

---------------------------------------------------------------------------
(* internal.is: channels that are no user facing event                       *)
IsInternal(c) == c \in Internal

(* A batch and the timer that will enqueue it.                               *)
OpenBatch(d) ==
  /\ pendingBatches' = Append(pendingBatches, d)
  /\ timer' = [timer EXCEPT ![d] = "armed"]
  /\ opened' = Append(opened, d)

(* onEventPublished: the first event of a payload creates its batch and its   *)
(* timer.                                                                    *)
OnEventPublished(d, c) ==
  /\ phase # "exited"
  /\ timer[d] = "none" \/ IsPending(d)
  /\ c \notin events[d]
  /\ IF IsInternal(c)
       THEN UNCHANGED <<pendingBatches, events, timer, obsVars>>
       ELSE /\ events' = [events EXCEPT ![d] = @ \cup {c}]
            /\ \/ IsPending(d) /\ UNCHANGED <<pendingBatches, timer, opened>>
               \/ ~IsPending(d) /\ OpenBatch(d)
            /\ before' = IF phase = "running" THEN before \cup {<<d, c>>}
                         ELSE before
  /\ UNCHANGED <<draining, draining_add, flush_add, awaited, phase, jobs>>

BugTimerDropsBatch(d) == draining

BugLastInFirstOut(d) == <<d>> \o draining

(* draining.then: the batch waits for those already on the chain.            *)
Chained(d) == Append(draining, d)

(* After batchWindowMs the batch joins the chain; timers of one duration fire *)
(* in the order they were set.                                               *)
TimerFires(d) ==
  /\ phase # "exited"
  /\ \E i \in 1 .. Len(pendingBatches) :
       /\ pendingBatches[i] = d
       /\ timer[d] = "armed"
       /\ \A j \in 1 .. i - 1 : timer[pendingBatches[j]] # "armed"
  /\ timer' = [timer EXCEPT ![d] = "fired"]
  /\ draining' = Chained(d)
  /\ UNCHANGED <<pendingBatches, events, draining_add, flush_add, awaited,
                 phase, jobs, obsVars>>

BugDeleteNotChecked(d) == TRUE

(* pendingBatches.delete: did this call take the batch?                      *)
Takes(d) == IsPending(d)

(* Map.delete: the batch leaves its place, the others keep their order.      *)
Without(s, d) ==
  IF InSeq(d, s) THEN RemoveAt(s, CHOOSE i \in 1 .. Len(s) : s[i] = d) ELSE s

(* enqueueBatch up to its await: clear the timer, take the batch.            *)
Take(d) ==
  /\ timer' = IF timer[d] = "armed" THEN [timer EXCEPT ![d] = "cleared"]
                                    ELSE timer
  /\ pendingBatches' = Without(pendingBatches, d)

(* The chain goes on to its next batch.                                      *)
DrainNext ==
  /\ phase # "exited"
  /\ draining_add = NoBatch
  /\ draining # <<>>
  /\ LET d == Head(draining) IN
       /\ draining' = Tail(draining)
       /\ Take(d)
       /\ draining_add' = IF Takes(d) THEN d ELSE NoBatch
  /\ UNCHANGED <<events, flush_add, awaited, phase, jobs, obsVars>>

(* The job names every channel of every event, without duplicates.           *)
JobOf(d) == [data |-> d, channels |-> events[d]]

DrainAdded ==
  /\ phase # "exited"
  /\ draining_add # NoBatch
  /\ jobs' = Append(jobs, JobOf(draining_add))
  /\ draining_add' = NoBatch
  /\ UNCHANGED <<pendingBatches, events, timer, draining, flush_add, awaited,
                 phase, obsVars>>

(* queue.add rejects: nobody handles the rejection of the chain, and a        *)
(* shutdown hook that throws ends the process as well.                       *)
AddRejected ==
  /\ phase # "exited"
  /\ draining_add # NoBatch \/ flush_add # NoBatch
  /\ phase' = "exited"
  /\ UNCHANGED <<pendingBatches, events, timer, draining, draining_add,
                 flush_add, awaited, jobs, obsVars>>

---------------------------------------------------------------------------
(* onModuleDestroy                                                           *)

Shutdown ==
  /\ phase = "running"
  /\ phase' = "flushing"
  /\ UNCHANGED <<pendingBatches, events, timer, draining, draining_add,
                 flush_add, awaited, jobs, obsVars>>

(* The loop takes the batches in insertion order, later ones included.       *)
FlushNext ==
  /\ phase = "flushing"
  /\ flush_add = NoBatch
  /\ pendingBatches # <<>>
  /\ LET d == Head(pendingBatches) IN
       /\ Take(d)
       /\ flush_add' = d
  /\ UNCHANGED <<events, draining, draining_add, awaited, phase, jobs, obsVars>>

FlushAdded ==
  /\ phase # "exited"
  /\ flush_add # NoBatch
  /\ jobs' = Append(jobs, JobOf(flush_add))
  /\ flush_add' = NoBatch
  /\ UNCHANGED <<pendingBatches, events, timer, draining, draining_add, awaited,
                 phase, obsVars>>

BugDrainNotAwaited == {}

(* The chain as it is when the shutdown awaits it.                           *)
OnChain == {d \in Payloads : InSeq(d, draining) \/ d = draining_add}

FlushEnds ==
  /\ phase = "flushing"
  /\ flush_add = NoBatch
  /\ pendingBatches = <<>>
  /\ phase' = "awaiting"
  /\ awaited' = OnChain
  /\ UNCHANGED <<pendingBatches, events, timer, draining, draining_add,
                 flush_add, jobs, obsVars>>

DrainingSettles ==
  /\ phase = "awaiting"
  /\ \A d \in awaited : ~InSeq(d, draining) /\ d # draining_add
  /\ phase' = "closed"
  /\ UNCHANGED <<pendingBatches, events, timer, draining, draining_add,
                 flush_add, awaited, jobs, obsVars>>

(* The other modules have shut down; what is pending by now is lost.         *)
Exit ==
  /\ phase = "closed"
  /\ phase' = "exited"
  /\ UNCHANGED <<pendingBatches, events, timer, draining, draining_add,
                 flush_add, awaited, jobs, obsVars>>

Exited == phase = "exited" /\ UNCHANGED vars

Next ==
  \/ \E d \in Payloads, c \in Channels : OnEventPublished(d, c)
  \/ \E d \in Payloads : TimerFires(d)
  \/ DrainNext \/ DrainAdded \/ AddRejected
  \/ Shutdown \/ FlushNext \/ FlushAdded \/ FlushEnds \/ DrainingSettles
  \/ Exit \/ Exited

Spec == Init /\ [][Next]_vars

(* The event loop fires due timers and runs the continuations of the chain;  *)
(* Redis answers, one way or the other.                                      *)
FairSpec ==
  /\ Spec
  /\ \A d \in Payloads : WF_vars(TimerFires(d))
  /\ WF_vars(DrainNext)
  /\ WF_vars(DrainAdded \/ AddRejected)

---------------------------------------------------------------------------
(* Properties                                                                *)

(* No event is handed to the webhooks twice, although the chain and the      *)
(* shutdown loop may both hold its batch.                                    *)
QueuedOnce ==
  \A i, j \in 1 .. Len(jobs) : jobs[i].data = jobs[j].data => i = j

(* Jobs enter the queue in the order of the broadcasts: the chain lets no    *)
(* slow add be overtaken (until a shutdown flushes beside it).               *)
JobsInOrder ==
  phase = "running" =>
    \A i \in 1 .. Len(jobs) : jobs[i].data = opened[i]

Queued(d, c) == \E i \in 1 .. Len(jobs) : jobs[i].data = d /\ c \in jobs[i].channels

(* A shutdown that ran to its end has queued all that was published before   *)
(* it began, whether the loop or the chain had the batch.                    *)
ShutdownFlushes ==
  phase = "closed" => \A e \in before : Queued(e[1], e[2])

(* Every event is queued in the end, unless the process ends first.          *)
EventsQueued ==
  \A d \in Payloads, c \in Channels :
    <<d, c>> \in before ~> Queued(d, c) \/ phase = "exited"
=============================================================================
