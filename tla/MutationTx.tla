---------------------------- MODULE MutationTx ----------------------------
(***************************************************************************)
(* One GraphQL mutation operation and the database transactions its root  *)
(* fields run in.                                                          *)
(*                                                                         *)
(* TransactionalMutationsInterceptor wraps every root field in a          *)
(* transaction.  The Neo4j interceptor always applies ("outer"); with     *)
(* DATABASE=gel or DATABASE=postgres a second interceptor nests inside it  *)
(* ("inner").  A driver that meets a retryable error executes the handler  *)
(* again.  While it runs, a handler publishes broadcasts and live query   *)
(* invalidations, which are deferred to the afterCommit callbacks, and    *)
(* moves uploads, whose compensation is an afterRollback callback.  Both  *)
(* callback lists belong to the GraphQL context, hence to the operation:  *)
(* its root fields share them, and so do all the runs of one handler.      *)
(*                                                                         *)
(* Abstractions: a payload is the position of its event in "registered";  *)
(* which error made a run fail is left to the retry choice it allows;     *)
(* root fields are non-null, so a field that fails ends the operation.    *)
(***************************************************************************)
EXTENDS Naturals, Sequences

CONSTANTS NumFields,    (* root fields of the mutation operation            *)
          MaxRuns,      (* bound: executions of one handler, retries included *)
          MaxEvents,    (* bound: broadcasts the operation registers         *)
          Inner,        (* engine of the nested transaction, or "none"       *)
          Ids,          (* identifiers known to the live query store         *)
          Uploads       (* upload ids                                        *)

ASSUME NumFieldsAssumption == NumFields \in Nat \ {0}
ASSUME MaxRunsAssumption   == MaxRuns \in Nat \ {0}
ASSUME MaxEventsAssumption == MaxEvents \in Nat
ASSUME InnerAssumption     == Inner \in {"none", "gel", "postgres"}

VARIABLES
  field,         (* the root field being executed                            *)
  run,           (* which execution of its handler this is                   *)
  pc,            (* where the interceptors are                               *)
  afterCommit,   (* callbacks, in insertion order (a JS Set)                 *)
  afterRollback, (* uploads whose move must be undone, in insertion order    *)
  listCached,    (* is there a pending invalidation list for this context?   *)
  idList,        (* the identifiers on that list                             *)
  place,         (* where the object store holds each upload                 *)
  runNodes,      (* file version nodes created by this run                   *)
  runIds,        (* identifiers whose data this run has changed              *)
  nodes,         (* committed file version nodes                             *)
  committed,     (* commits that happened, as [db, field, run]               *)
  response       (* what the client was told about each field                *)

(* Observations, read by the properties and by no action.                    *)
VARIABLES
  registered,    (* every broadcast a handler asked for, as [field, run]      *)
  published,     (* positions in "registered" that reached the transport      *)
  stale,         (* ids with a committed change and no invalidation since     *)
  lostAck,       (* did a commit of this field take effect although it was    *)
                 (* reported as failed, with no callback run to its end since? *)
  lostNodes      (* the file version nodes of such commits                    *)

hookVars == <<afterCommit, afterRollback, listCached, idList>>
runVars  == <<runNodes, runIds>>
dbVars   == <<nodes, committed>>
ackVars  == <<lostAck, lostNodes>>
obsVars  == <<registered, published, stale, ackVars>>
vars == <<field, run, pc, hookVars, place, runVars, dbVars, response, obsVars>>

Fields == 1 .. NumFields
Runs   == 1 .. MaxRuns
Phases == {"handler", "innerUndo", "innerCommit", "innerHooks",
           "outerUndo", "outerCommit", "outerHooks", "done"}

EventCallback(n)     == [kind |-> "event", n |-> n]
FlushCallback        == [kind |-> "flush"]
MessageCallback(ids) == [kind |-> "message", ids |-> ids]

Callbacks == [kind : {"event"}, n : Nat \ {0}]
             \cup {FlushCallback}
             \cup [kind : {"message"}, ids : SUBSET Ids]

Commits == [db : {"outer", "inner"}, field : Fields, run : Runs]

TypeOK ==
  /\ field \in Fields
  /\ run \in Runs
  /\ pc \in Phases
  /\ afterCommit \in Seq(Callbacks)
  /\ afterRollback \in Seq(Uploads)
  /\ listCached \in BOOLEAN
  /\ idList \in SUBSET Ids
  /\ place \in [Uploads -> {"temp", "final"}]
  /\ runNodes \in SUBSET Uploads
  /\ runIds \in SUBSET Ids
  /\ nodes \in SUBSET Uploads
  /\ committed \in SUBSET Commits
  /\ response \in [Fields -> {"none", "ok", "error"}]
  /\ registered \in Seq([field : Fields, run : Runs])
  /\ published \in Seq(Nat \ {0})
  /\ stale \in SUBSET Ids
  /\ lostAck \in BOOLEAN
  /\ lostNodes \in SUBSET Uploads

Init ==
  /\ field = 1
  /\ run = 1
  /\ pc = "handler"
  /\ afterCommit = <<>>
  /\ afterRollback = <<>>
  /\ listCached = FALSE
  /\ idList = {}
  /\ place = [u \in Uploads |-> "temp"]
  /\ runNodes = {}
  /\ runIds = {}
  /\ nodes = {}
  /\ committed = {}
  /\ response = [f \in Fields |-> "none"]
  /\ registered = <<>>
  /\ published = <<>>
  /\ stale = {}
  /\ lostAck = FALSE
  /\ lostNodes = {}

---------------------------------------------------------------------------
(* The small decisions the actions share.  Each is preceded by the mutated    *)
(* forms ("Bug...") that the properties are tested against.                   *)

(* CallbackManager.add *)
Added(queue, callback) == Append(queue, callback)

BugClearAll(queue) == <<>>

(* CallbackManager.runAndClear deletes a callback once it has been awaited.   *)
Cleared(queue) == Tail(queue)

BugNotAwaited == TRUE

(* The interceptor awaits every afterCommit callback before it resolves.      *)
HooksAwaited == afterCommit = <<>>

BugHooksBeforeCommit == "outerHooks"

(* A handler that returned goes to the commit of the innermost transaction.   *)
AfterHandler == IF Inner = "none" THEN "outerCommit" ELSE "innerCommit"

(* The driver counts its attempts against its retry budget.                   *)
NextRun == run + 1

BugOneFieldTooMany == FALSE

(* GraphQL executes the root fields of a mutation serially, to the last.      *)
IsLastField == field = NumFields

BugMoveInverted(u) == place[u] = "final"

(* Only an upload that is not yet in its permanent place is moved.            *)
NeedsMove(u) == place[u] = "temp"

BugListFrozen(id) == IF listCached THEN idList ELSE {id}

(* The cached Set of the context keeps collecting identifiers.                *)
Listed(id) == idList \cup {id}

---------------------------------------------------------------------------
(* The handler: what a mutation resolver does between begin and commit.      *)

(* TransactionDeferredTransport.publish: inside a mutation the broadcast     *)
(* becomes an afterCommit callback.                                          *)
Publish ==
  /\ pc = "handler"
  /\ Len(registered) < MaxEvents
  /\ registered' = Append(registered, [field |-> field, run |-> run])
  /\ afterCommit' = Added(afterCommit, EventCallback(Len(registered) + 1))
  /\ UNCHANGED <<field, run, pc, afterRollback, listCached, idList, place,
                 runVars, dbVars, response, published, stale, ackVars>>

(* LiveQueryStoreImpl.doInvalidate: the id list of the context is created,    *)
(* with the one callback that flushes it, the first time anything is          *)
(* invalidated; afterwards the cached list only grows.                        *)
AddToIdList(id) ==
  /\ listCached' = TRUE
  /\ idList' = Listed(id)
  /\ afterCommit' = IF listCached THEN afterCommit
                                  ELSE Added(afterCommit, FlushCallback)
  /\ runIds' = runIds \cup {id}

(* A write that invalidates the live queries over what it wrote.             *)
WriteAndInvalidate(id) ==
  /\ pc = "handler"
  /\ AddToIdList(id)
  /\ UNCHANGED <<field, run, pc, afterRollback, place, runNodes, dbVars,
                 response, obsVars>>

(* FileService.createFileVersion: create the node, invalidate its file and,    *)
(* when the object is still in temporary holding, move it and register the     *)
(* move back.  An object already in place with no node is used as it is.       *)
CreateFileVersion(u, id) ==
  /\ pc = "handler"
  /\ u \notin nodes \cup runNodes
  /\ runNodes' = runNodes \cup {u}
  /\ AddToIdList(id)
  /\ \/ /\ NeedsMove(u)
        /\ place' = [place EXCEPT ![u] = "final"]
        /\ afterRollback' = Added(afterRollback, u)
     \/ /\ ~NeedsMove(u)
        /\ UNCHANGED <<place, afterRollback>>
  /\ UNCHANGED <<field, run, pc, dbVars, response, obsVars>>

HandlerReturns ==
  /\ pc = "handler"
  /\ pc' = AfterHandler
  /\ UNCHANGED <<field, run, hookVars, place, runVars, dbVars, response, obsVars>>

(* The innermost interceptor's catch block starts running afterRollback.      *)
HandlerThrows ==
  /\ pc = "handler"
  /\ pc' = IF Inner = "none" THEN "outerUndo" ELSE "innerUndo"
  /\ UNCHANGED <<field, run, hookVars, place, runVars, dbVars, response, obsVars>>

---------------------------------------------------------------------------
(* Callbacks: CallbackManager.runAndClear takes them in insertion order,      *)
(* those added meanwhile included.                                            *)

(* afterRollback: the object goes back to temporary holding, or the move      *)
(* fails and is only logged.                                                  *)
RunRollbackHook ==
  /\ pc \in {"innerUndo", "outerUndo"}
  /\ afterRollback # <<>>
  /\ afterRollback' = Cleared(afterRollback)
  /\ \/ place' = [place EXCEPT ![Head(afterRollback)] = "temp"]
     \/ UNCHANGED place
  /\ UNCHANGED <<field, run, pc, afterCommit, listCached, idList, runVars,
                 dbVars, response, obsVars>>

RunCommitHook ==
  /\ pc \in {"innerHooks", "outerHooks"}
  /\ afterCommit # <<>>
  /\ LET cb == Head(afterCommit) IN
     \/ /\ cb.kind = "event"
        /\ published' = Append(published, cb.n)
        /\ afterCommit' = Cleared(afterCommit)
        /\ UNCHANGED stale
     \/ (* publishing the list goes through the deferring transport again *)
        /\ cb.kind = "flush"
        /\ afterCommit' = Added(Cleared(afterCommit), MessageCallback(idList))
        /\ UNCHANGED <<published, stale>>
     \/ /\ cb.kind = "message"
        /\ stale' = stale \ cb.ids
        /\ afterCommit' = Cleared(afterCommit)
        /\ UNCHANGED published
  /\ UNCHANGED <<field, run, pc, afterRollback, listCached, idList, place,
                 runVars, dbVars, response, registered, ackVars>>

---------------------------------------------------------------------------
(* Transactions.                                                             *)

(* The driver gives the handler another execution.                           *)
StartRun ==
  /\ run < MaxRuns
  /\ run' = NextRun
  /\ pc' = "handler"
  /\ runNodes' = {}
  /\ runIds' = {}
  /\ UNCHANGED <<field, response>>

(* The field's promise settles with an error; being non-null it ends the     *)
(* operation.                                                                *)
FailField ==
  /\ pc' = "done"
  /\ response' = [response EXCEPT ![field] = "error"]
  /\ UNCHANGED <<field, run, runVars>>

(* The inner transaction is gone: Gel may retry it, Drizzle never does, and    *)
(* otherwise the error reaches the outer interceptor's catch block.           *)
RetryInnerOrPropagate ==
  \/ /\ Inner = "gel"
     /\ StartRun
  \/ /\ pc' = "outerUndo"
     /\ UNCHANGED <<field, run, runVars, response>>

InnerRollback ==
  /\ pc = "innerUndo"
  /\ afterRollback = <<>>
  /\ RetryInnerOrPropagate
  /\ UNCHANGED <<hookVars, place, dbVars, obsVars>>

(* What a commit of the nested engine leaves behind.                         *)
InnerCommits ==
  committed' = committed \cup {[db |-> "inner", field |-> field, run |-> run]}

BugInnerCommitErrorSwallowed ==
  /\ pc = "innerCommit"
  /\ pc' = "innerHooks"
  /\ UNCHANGED <<field, run, hookVars, place, runVars, dbVars, response, obsVars>>

InnerCommitFails ==
  /\ pc = "innerCommit"
  /\ RetryInnerOrPropagate
  /\ \/ UNCHANGED <<committed, lostAck>>
     \/ /\ InnerCommits
        /\ lostAck' = TRUE
  /\ UNCHANGED <<hookVars, place, nodes, registered, published, stale, lostNodes>>

InnerCommitSucceeds ==
  /\ pc = "innerCommit"
  /\ InnerCommits
  /\ pc' = "innerHooks"
  /\ UNCHANGED <<field, run, hookVars, place, runVars, nodes, response, obsVars>>

(* The inner interceptor resolves and the outer transaction goes to commit.   *)
InnerReturns ==
  /\ pc = "innerHooks"
  /\ HooksAwaited
  /\ pc' = "outerCommit"
  /\ lostAck' = FALSE
  /\ UNCHANGED <<field, run, hookVars, place, runVars, dbVars, response,
                 registered, published, stale, lostNodes>>

(* Connection.runInTransaction: a retryable error re-executes the handler.     *)
OuterRollback ==
  /\ pc = "outerUndo"
  /\ afterRollback = <<>>
  /\ StartRun \/ FailField
  /\ UNCHANGED <<hookVars, place, dbVars, obsVars>>

(* What a commit of Neo4j leaves behind.                                     *)
OuterCommits ==
  /\ committed' = committed \cup
                    {[db |-> "outer", field |-> field, run |-> run]}
  /\ nodes' = nodes \cup runNodes
  /\ stale' = stale \cup runIds

(* A commit that fails is outside the interceptor's try: no callback runs,    *)
(* and the driver may execute the handler again.  The error may also stand   *)
(* for an acknowledgement that was lost: then the commit has taken effect.   *)
OuterCommitFails ==
  /\ pc = "outerCommit"
  /\ StartRun \/ FailField
  /\ \/ UNCHANGED <<dbVars, stale, ackVars>>
     \/ /\ OuterCommits
        /\ lostAck' = TRUE
        /\ lostNodes' = lostNodes \cup runNodes
  /\ UNCHANGED <<hookVars, place, registered, published>>

OuterCommitSucceeds ==
  /\ pc = "outerCommit"
  /\ OuterCommits
  /\ pc' = "outerHooks"
  /\ UNCHANGED <<field, run, hookVars, place, runVars, response, registered,
                 published, ackVars>>

(* All callbacks ran: the field resolves and the next root field starts,       *)
(* unless it was the last one or the request was answered meanwhile.           *)
FieldResolves ==
  /\ pc = "outerHooks"
  /\ HooksAwaited
  /\ response' = [response EXCEPT ![field] = IF @ = "none" THEN "ok" ELSE @]
  /\ \/ /\ ~IsLastField
        /\ response[field] = "none"
        /\ field' = field + 1
        /\ run' = 1
        /\ pc' = "handler"
        /\ runNodes' = {}
        /\ runIds' = {}
     \/ /\ IsLastField \/ response[field] # "none"
        /\ pc' = "done"
        /\ UNCHANGED <<field, run, runVars>>
  /\ lostAck' = FALSE
  /\ UNCHANGED <<hookVars, place, dbVars, registered, published, stale, lostNodes>>

(* TimeoutInterceptor: the client is told the field failed; nothing stops the  *)
(* transaction, which goes on in the background.                               *)
ResponseTimesOut ==
  /\ pc # "done"
  /\ response[field] = "none"
  /\ response' = [response EXCEPT ![field] = "error"]
  /\ UNCHANGED <<field, run, pc, hookVars, place, runVars, dbVars, obsVars>>

(* The operation has been answered and nothing of it runs any more.            *)
Finished ==
  /\ pc = "done"
  /\ UNCHANGED vars

Next ==
  \/ Publish
  \/ \E id \in Ids : WriteAndInvalidate(id)
  \/ \E u \in Uploads, id \in Ids : CreateFileVersion(u, id)
  \/ HandlerReturns \/ HandlerThrows
  \/ RunRollbackHook \/ RunCommitHook
  \/ InnerRollback \/ InnerCommitFails \/ InnerCommitSucceeds \/ InnerReturns
  \/ OuterRollback \/ OuterCommitFails \/ OuterCommitSucceeds
  \/ FieldResolves \/ ResponseTimesOut \/ Finished

Spec == Init /\ [][Next]_vars

(* Node's event loop runs every continuation that is due, the drivers settle  *)
(* every query and commit within their timeouts, and retries are bounded.     *)
FairSpec == Spec /\ WF_vars(Next)

---------------------------------------------------------------------------
(* Properties                                                                *)

OuterCommitted(f, r) == [db |-> "outer", field |-> f, run |-> r] \in committed
InnerCommitted(f, r) == [db |-> "inner", field |-> f, run |-> r] \in committed

FieldCommitted(f) == \E r \in Runs : OuterCommitted(f, r)

IsPublished(n) == \E i \in DOMAIN published : published[i] = n

(* An event that left the process belongs to a root field whose transaction  *)
(* has committed: a field that fails for good announces nothing, however     *)
(* many of its runs registered broadcasts (the deferring transport).  Only    *)
(* with Neo4j alone: an inner interceptor drains the callbacks before the     *)
(* outer transaction commits.                                                *)
PublishedOnlyAfterCommit ==
  \A i \in DOMAIN published : FieldCommitted(registered[published[i]].field)

(* Broadcasts are published in the order they were asked for and none is     *)
(* published twice, although the callback list is shared by the runs and the *)
(* root fields and is appended to while it is being drained.                 *)
PublishedInOrderOnce ==
  \A i, j \in DOMAIN published : i < j => published[i] < published[j]

(* When nothing of a field runs any more, everything its committed runs       *)
(* broadcast is out, also that of a run whose commit was retried although it  *)
(* had taken effect.  Only a field that gave up after such a commit, and was  *)
(* told of none, owes its broadcasts.                                         *)
NoCommittedEventLost ==
  \A n \in DOMAIN registered :
    LET e == registered[n] IN
    OuterCommitted(e.field, e.run) /\ (e.field < field \/ (pc = "done" /\ ~lostAck))
      => IsPublished(n)

(* A field answered with success was committed by one run in every engine.   *)
ToldOkMeansCommitted ==
  \A f \in Fields : response[f] = "ok" =>
    \E r \in Runs : /\ OuterCommitted(f, r)
                    /\ Inner # "none" => InnerCommitted(f, r)

(* The object behind a committed file version is in its permanent place,     *)
(* whatever sequence of moves, undone moves and retries led to the commit.   *)
(* When the acknowledgement of the commit was lost, the retry finds the file *)
(* version, throws, and its rollback moves the object back; the property is  *)
(* about the commits the driver knew of.                                     *)
CommittedFileInPlace == \A u \in nodes \ lostNodes : place[u] = "final"

(* When the operation is over, no live query still shows data older than     *)
(* what the operation committed; unless it gave up with a commit it knew     *)
(* nothing of.                                                               *)
LiveQueriesFresh == pc = "done" /\ ~lostAck => stale = {}

(* What a committed run broadcast is eventually published, also when the     *)
(* request was answered long before, and also when the driver took the       *)
(* commit for a failure and a later run got through.                         *)
CommittedEventsPublished ==
  \A n \in 1 .. MaxEvents :
    (n \in DOMAIN registered /\ OuterCommitted(registered[n].field, registered[n].run))
      ~> (IsPublished(n) \/ (pc = "done" /\ lostAck))

---------------------------------------------------------------------------
(* The operation as an outbox of its broadcasts.  A unit is durable once any *)
(* engine has committed it, with or without an acknowledgement.  A field     *)
(* that gave up after a commit it was never told of is not over: it owes     *)
(* what that run asked for.                                                  *)

Durable == {[field |-> c.field, run |-> c.run] : c \in committed}
Over == {f \in Fields : f < field \/ (f = field /\ pc = "done" /\ ~lostAck)}

Outbox == INSTANCE EventOutbox
  WITH asked <- registered, durable <- Durable, out <- published, over <- Over

(* However runs, engines, callbacks and timeouts interleave, the operation   *)
(* does nothing with its broadcasts that the outbox would not.               *)
ImplementsOutbox == Outbox!Spec
=============================================================================
