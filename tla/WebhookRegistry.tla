--------------------------- MODULE WebhookRegistry ---------------------------
(* The webhooks users register, the broadcast channels each observes, and    *)
(* the migration that evaluates these channels again when a deployment has   *)
(* changed them (core/webhooks/management, core/webhooks/channels,           *)
(* core/neo4j/migration).  Only a webhook that observes the channels its     *)
(* operation means gets its events (WebhookDelivery).                        *)
(*                                                                           *)
(* A save is one transaction (MutationTx): refused by the validator, the     *)
(* challenge or the executor, it leaves nothing; unchanged, it does nothing. *)
(* Each query of the migration is a transaction of its own.  An operation is *)
(* a model value, and what it is executed to observe a constant.             *)
EXTENDS Naturals

CONSTANTS
  Hooks,        \* the keys under which a user registers webhooks
  Docs,         \* subscription operations
  Channels,
  Meant,        \* of each operation and code: the channels that it observes
  Broken,       \* <<operation, code>>: it no longer validates or initializes
  Runners,      \* runs of the migrations
  NONE,         \* no webhook
  MaxChanges,   \* bound: saves and deletions
  MaxFailures   \* bound: migrations that fail

Codes == {"old", "new"}
Webhooks == [id : 1 .. MaxChanges, doc : Docs, valid : BOOLEAN]

ASSUME MeantAssumption ==
  /\ Meant \in [Docs \X Codes -> SUBSET Channels]
  /\ Broken \subseteq Docs \X Codes
ASSUME NoneAssumption == NONE \notin Webhooks
ASSUME BoundsAssumption == MaxChanges \in Nat /\ MaxFailures \in Nat

VARIABLES
  webhook,      \* of each key: its id, operation and validity, or none
  observes,     \* the channels of each webhook
  late,         \* evaluatedAt: is it after the date of the new version?
  nodes,        \* the channels that exist
  servers,      \* the code of the servers: old, both, or new
  passed,       \* has the date of the new version passed?
  version,      \* the schema version of the database
  phase, todo,  \* of each runner, and the webhooks it has yet to evaluate
  marked,       \* the one it has found invalid and has yet to tell
  told,         \* the webhooks queued for an error payload
  nextId, changes, failures

(* Observations, read by the properties and by no action.                    *)
VARIABLES
  by,           \* the code each webhook's channels were evaluated with
  overtaken     \* webhooks saved while a runner had them listed

registryVars == <<webhook, observes, late, nodes, by>>
deployVars == <<servers, passed>>
runnerVars == <<phase, todo, marked>>
vars == <<registryVars, deployVars, version, runnerVars, told, nextId, changes,
          failures, overtaken>>

Snapshots == [key : Hooks, id : 1 .. MaxChanges, doc : Docs]

Init ==
  /\ webhook = [h \in Hooks |-> NONE]
  /\ observes = [h \in Hooks |-> {}]
  /\ late = [h \in Hooks |-> FALSE]
  /\ nodes = {}
  /\ servers = "old" /\ passed = FALSE
  /\ version = "old"
  /\ phase = [r \in Runners |-> "idle"]
  /\ todo = [r \in Runners |-> {}]
  /\ marked = [r \in Runners |-> {}]
  /\ told = {}
  /\ nextId = 1 /\ changes = 0 /\ failures = 0
  /\ by = [h \in Hooks |-> "old"]
  /\ overtaken = {}

Registered == {h \in Hooks : webhook[h] # NONE}

(* Who else observes a channel that this one no longer does?                 *)
Orphans(h, channels) ==
  {c \in channels : \A g \in Hooks \ {h} : c \notin observes[g]}

(* Bugs that would break a property: all that this one no longer observes    *)
(* goes; nothing goes.                                                       *)
BugAllUnobserved(h, channels) ==
  (nodes \ (observes[h] \ channels)) \cup channels
BugNoCleanup(h, channels) == nodes \cup channels
NodesAfter(h, channels) ==
  (nodes \ Orphans(h, observes[h] \ channels)) \cup channels

Observe(h, channels, code) ==
  /\ observes' = [observes EXCEPT ![h] = channels]
  /\ nodes' = NodesAfter(h, channels)
  /\ late' = [late EXCEPT ![h] = passed]
  /\ by' = [by EXCEPT ![h] = code]

---------------------------------------------------------------------------
(* What users do.                                                            *)

Change == changes < MaxChanges /\ changes' = changes + 1

(* Which of the servers answers is chance.                                   *)
Serving(code) == servers \in {code, "both"}

Listed == UNION {todo[r] : r \in Runners}

IdAfter == nextId + 1

(* An operation, a url or metadata that is new.                              *)
Save(h, doc, code) ==
  /\ Serving(code)
  /\ <<doc, code>> \notin Broken
  /\ Change
  /\ IF h \in Registered
     THEN /\ webhook' = [webhook EXCEPT ![h] = [@ EXCEPT !.doc = doc, !.valid = TRUE]]
          /\ overtaken' = overtaken \cup
               {s.key : s \in {x \in Listed : x.id = webhook[h].id}}
          /\ UNCHANGED nextId
     ELSE /\ webhook' = [webhook EXCEPT
                           ![h] = [id |-> nextId, doc |-> doc, valid |-> TRUE]]
          /\ nextId' = IdAfter
          /\ UNCHANGED overtaken
  /\ Observe(h, Meant[<<doc, code>>], code)
  /\ UNCHANGED <<deployVars, version, runnerVars, told, failures>>

(* By id or key, or all of them.  A channel is compared with the webhooks as *)
(* they were: it stays when each of two that go sees the other.              *)
Delete(hs) ==
  /\ hs # {} /\ hs \subseteq Registered
  /\ Change
  /\ webhook' = [h \in Hooks |-> IF h \in hs THEN NONE ELSE webhook[h]]
  /\ observes' = [h \in Hooks |-> IF h \in hs THEN {} ELSE observes[h]]
  /\ nodes' = nodes \ UNION {Orphans(h, observes[h]) : h \in hs}
  /\ overtaken' = overtaken \ hs
  /\ UNCHANGED <<late, by, deployVars, version, runnerVars, told, nextId,
                 failures>>

---------------------------------------------------------------------------
(* A deployment: servers are replaced one after the other.                   *)

Deploy ==
  /\ \/ servers = "old" /\ servers' = "both"
     \/ servers = "both" /\ servers' = "new"
  /\ UNCHANGED <<registryVars, passed, version, runnerVars, told, nextId,
                 changes, failures, overtaken>>

DatePasses ==
  /\ ~passed
  /\ passed' = TRUE
  /\ UNCHANGED <<registryVars, servers, version, runnerVars, told, nextId,
                 changes, failures, overtaken>>

---------------------------------------------------------------------------
(* The migration, with the new code.  The schema version tells whether it    *)
(* was run; any error ends it, and it has to be run again.                   *)

SetPhase(r, p) == phase' = [phase EXCEPT ![r] = p]

(* "Directly after all the deployment of API servers" (base-migration).      *)
StartMigration(r) ==
  /\ servers = "new" /\ phase[r] = "idle" /\ version = "old"
  /\ SetPhase(r, "listing")
  /\ UNCHANGED <<registryVars, deployVars, version, todo, marked, told, nextId,
                 changes, failures, overtaken>>

(* A bug that would break a property: those evaluated after the date.        *)
BugIsFresh(h) == webhook[h].valid /\ observes[h] # {} /\ late[h]
(* A valid webhook with a channel that was evaluated before the date.        *)
IsStale(h) == webhook[h].valid /\ observes[h] # {} /\ ~late[h]

ListStale(r) ==
  /\ phase[r] = "listing"
  /\ todo' = [todo EXCEPT ![r] =
                {[key |-> h, id |-> webhook[h].id, doc |-> webhook[h].doc] :
                   h \in {x \in Registered : IsStale(x)}}]
  /\ SetPhase(r, "evaluating")
  /\ UNCHANGED <<registryVars, deployVars, version, marked, told, nextId,
                 changes, failures, overtaken>>

(* A bug that would break a property: found by the key alone.                *)
BugAnyId(s) == s.key \in Registered
(* The webhook is found by its id, whatever its operation is by now.         *)
Exists(s) == s.key \in Registered /\ webhook[s.key].id = s.id

(* A bug that would break a property: the webhook stays on the list.         *)
BugLeft(r, s) == todo[r]
Left(r, s) == todo[r] \ {s}

IsNext(r, s) == phase[r] = "evaluating" /\ marked[r] = {} /\ s \in todo[r]

(* What the operation that was listed observes, the webhook does.            *)
Reevaluate(r, s) ==
  /\ IsNext(r, s)
  /\ <<s.doc, "new">> \notin Broken
  /\ Exists(s)
  /\ Observe(s.key, Meant[<<s.doc, "new">>], "new")
  /\ todo' = [todo EXCEPT ![r] = Left(r, s)]
  /\ UNCHANGED <<webhook, deployVars, version, phase, marked, told, nextId,
                 changes, failures, overtaken>>

(* If it fails, the webhook is marked invalid first ...                      *)
MarkInvalid(r, s) ==
  /\ IsNext(r, s)
  /\ <<s.doc, "new">> \in Broken
  /\ webhook' = IF Exists(s) THEN [webhook EXCEPT ![s.key] = [@ EXCEPT !.valid = FALSE]]
                ELSE webhook
  /\ todo' = [todo EXCEPT ![r] = Left(r, s)]
  /\ marked' = [marked EXCEPT ![r] = {s}]
  /\ UNCHANGED <<observes, late, nodes, by, deployVars, version, phase, told,
                 nextId, changes, failures, overtaken>>

(* A bug that would break a property: nobody is told.                        *)
BugNotTold(r) == told
Told(r) == told \cup marked[r]

(* ... and then its owner is told.                                           *)
Tell(r) ==
  /\ marked[r] # {}
  /\ told' = Told(r)
  /\ marked' = [marked EXCEPT ![r] = {}]
  /\ UNCHANGED <<registryVars, deployVars, version, phase, todo, nextId,
                 changes, failures, overtaken>>

Abort(r) ==
  /\ SetPhase(r, "idle")
  /\ todo' = [todo EXCEPT ![r] = {}]
  /\ marked' = [marked EXCEPT ![r] = {}]
  /\ UNCHANGED <<registryVars, deployVars, version, told, nextId, changes,
                 overtaken>>

(* A webhook deleted since is an error, and ends the migration of the others.*)
NotFound(r, s) ==
  /\ IsNext(r, s)
  /\ <<s.doc, "new">> \notin Broken
  /\ ~Exists(s)
  /\ Abort(r)
  /\ UNCHANGED failures

(* The database or the queue fails, or the process dies.                     *)
MigrationFails(r) ==
  /\ phase[r] # "idle"
  /\ failures < MaxFailures
  /\ failures' = failures + 1
  /\ Abort(r)

FinishMigration(r) ==
  /\ phase[r] = "evaluating" /\ todo[r] = {} /\ marked[r] = {}
  /\ version' = "new"
  /\ SetPhase(r, "idle")
  /\ UNCHANGED <<registryVars, deployVars, todo, marked, told, nextId, changes,
                 failures, overtaken>>

Run(r) ==
  \/ StartMigration(r) \/ ListStale(r) \/ Tell(r) \/ FinishMigration(r)
  \/ \E s \in todo[r] : Reevaluate(r, s) \/ MarkInvalid(r, s) \/ NotFound(r, s)

(* Everything is done, and nobody has anything else to ask.                  *)
Rest == version = "new" /\ UNCHANGED vars

Next ==
  \/ \E h \in Hooks, doc \in Docs, code \in Codes : Save(h, doc, code)
  \/ \E hs \in SUBSET Hooks : Delete(hs)
  \/ Deploy \/ DatePasses
  \/ \E r \in Runners : Run(r) \/ MigrationFails(r)
  \/ Rest

Spec == Init /\ [][Next]_vars

(* A migration that failed is run again, by the next deployment at the       *)
(* latest, and one that runs goes on.                                        *)
FairSpec == Spec /\ \A r \in Runners : WF_vars(Run(r))

---------------------------------------------------------------------------
(* Properties.                                                               *)

TypeOK ==
  /\ webhook \in [Hooks -> Webhooks \cup {NONE}]
  /\ observes \in [Hooks -> SUBSET Channels]
  /\ late \in [Hooks -> BOOLEAN] /\ by \in [Hooks -> Codes]
  /\ nodes \subseteq Channels
  /\ servers \in {"old", "both", "new"} /\ passed \in BOOLEAN
  /\ version \in Codes
  /\ phase \in [Runners -> {"idle", "listing", "evaluating"}]
  /\ todo \in [Runners -> SUBSET Snapshots]
  /\ marked \in [Runners -> SUBSET Snapshots]
  /\ told \subseteq Snapshots
  /\ changes \in 0 .. MaxChanges /\ nextId \in 1 .. changes + 1
  /\ failures \in 0 .. MaxFailures
  /\ overtaken \subseteq Hooks

Unobserved == nodes \ UNION {observes[h] : h \in Hooks}

(* Events are published to channels: none that a webhook still observes is   *)
(* cleaned up with the webhooks and operations that no longer do.            *)
ObservedExist == \A h \in Hooks : observes[h] \subseteq nodes

(* "Cleanup channels that no longer have any webhooks observing them"        *)
(* (webhook-channel.repository.ts): only several webhooks deleted at once    *)
(* leave one behind.                                                         *)
Gone(h) == webhook[h] # NONE /\ webhook'[h] = NONE
LastObserverCleansUp ==
  [][(\A g, h \in Hooks : Gone(g) /\ Gone(h) => g = h)
       => Unobserved' \subseteq Unobserved]_vars

Migrated == version = "new" /\ \A r \in Runners : phase[r] = "idle"
MeantBy(h) == Meant[<<webhook[h].doc, "new">>]
Valid == {h \in Registered : webhook[h].valid}

(* However saves, deletions, failures and runs of the migration overlap, a   *)
(* valid webhook observes in the end what the new code says its operation    *)
(* observes, but for those that getStale does not match (evaluated by the    *)
(* old code after the date, or to nothing) and those saved while listed.     *)
StaleAreReevaluated ==
  Migrated => \A h \in Valid \ overtaken :
    \/ observes[h] = MeantBy(h)
    \/ by[h] = "old" /\ (late[h] \/ observes[h] = {})

(* Only a webhook whose own operation is broken is marked, however long ago  *)
(* it was listed, unless it was saved since.                                 *)
InvalidIsBroken ==
  \A h \in Registered \ (Valid \cup overtaken) :
    <<webhook[h].doc, "new">> \in Broken

(* "emit an error payload to the webhook, so it is notified"                 *)
(* (webhook-channel.service.ts), as long as nothing fails in between.        *)
OwnersAreTold ==
  failures = 0 /\ Migrated => \A h \in Registered \ Valid :
    \E s \in told : s.key = h /\ s.id = webhook[h].id

(* Deletions and failures end migrations, but one comes to its end.          *)
MigrationCompletes == servers = "new" ~> version = "new"
===========================================================================
