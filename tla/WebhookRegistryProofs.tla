----------------------- MODULE WebhookRegistryProofs -----------------------
(* What WebhookRegistry guarantees for every set of webhooks, operations,    *)
(* channels and runs of the migration, proved with TLAPS.                    *)
EXTENDS WebhookRegistry, TLAPS

USE MeantAssumption, NoneAssumption, BoundsAssumption

---------------------------------------------------------------------------
(* What the steps do to a webhook.                                           *)

LEMMA Records ==
  ASSUME TypeOK
  PROVE  /\ Registered \subseteq Hooks
         /\ \A h \in Registered :
              /\ webhook[h] \in Webhooks /\ webhook[h].id \in 1 .. MaxChanges
              /\ webhook[h].doc \in Docs /\ webhook[h].valid \in BOOLEAN
         /\ \A s \in Snapshots : s.key \in Hooks /\ s.id \in Nat /\ s.doc \in Docs
         /\ MaxChanges \in Nat /\ changes \in Nat /\ nextId \in Nat
<1>1. Registered \subseteq Hooks /\ \A h \in Registered : webhook[h] \in Webhooks
  BY DEF TypeOK, Registered
<1>2. \A w \in Webhooks :
        w.id \in 1 .. MaxChanges /\ w.doc \in Docs /\ w.valid \in BOOLEAN
  BY DEF Webhooks
<1>3. \A s \in Snapshots : s.key \in Hooks /\ s.id \in Nat /\ s.doc \in Docs
  BY DEF Snapshots
<1>4. MaxChanges \in Nat /\ changes \in Nat /\ nextId \in Nat
  BY DEF TypeOK
<1> QED BY <1>1, <1>2, <1>3, <1>4

LEMMA NewRecord ==
  ASSUME NEW i \in 1 .. MaxChanges, NEW d \in Docs, NEW v \in BOOLEAN
  PROVE  /\ [id |-> i, doc |-> d, valid |-> v] \in Webhooks
         /\ [id |-> i, doc |-> d, valid |-> v] # NONE
<1> DEFINE w == [id |-> i, doc |-> d, valid |-> v]
<1>1. w \in Webhooks
  BY DEF Webhooks
<1> HIDE DEF w
<1>2. w # NONE
  BY <1>1
<1> QED BY <1>1, <1>2 DEF w

LEMMA SavedRecord ==
  ASSUME NEW w \in Webhooks, NEW d \in Docs
  PROVE  LET x == [w EXCEPT !.doc = d, !.valid = TRUE] IN
           x \in Webhooks /\ x.id = w.id /\ x.doc = d /\ x.valid = TRUE
  BY DEF Webhooks

LEMMA MarkedRecord ==
  ASSUME NEW w \in Webhooks
  PROVE  LET x == [w EXCEPT !.valid = FALSE] IN
           x \in Webhooks /\ x.id = w.id /\ x.doc = w.doc /\ x.valid = FALSE
  BY DEF Webhooks

(* A save keeps the id of a webhook that exists and gives a new one the next. *)
LEMMA SaveMeans ==
  ASSUME TypeOK, NEW h \in Hooks, NEW doc \in Docs, NEW code \in Codes,
         Save(h, doc, code)
  PROVE  /\ webhook' \in [Hooks -> Webhooks \cup {NONE}]
         /\ webhook'[h] # NONE
         /\ webhook'[h].doc = doc /\ webhook'[h].valid = TRUE
         /\ webhook'[h].id = IF h \in Registered THEN webhook[h].id ELSE nextId
         /\ \A g \in Hooks : g # h => webhook'[g] = webhook[g]
         /\ Registered' = Registered \cup {h}
<1>0. nextId \in 1 .. MaxChanges
  BY DEF Save, Change, TypeOK
<1>1. CASE h \in Registered
  <2> DEFINE w == [webhook[h] EXCEPT !.doc = doc, !.valid = TRUE]
  <2>1. w \in Webhooks /\ w.doc = doc /\ w.valid = TRUE /\ w.id = webhook[h].id
    BY <1>1, Records, SavedRecord
  <2>2. webhook' = [webhook EXCEPT ![h] = w]
    BY <1>1 DEF Save
  <2> HIDE DEF w
  <2>3. w # NONE
    BY <2>1
  <2> QED BY <1>1, <2>1, <2>2, <2>3 DEF TypeOK, Registered
<1>2. CASE h \notin Registered
  <2> DEFINE w == [id |-> nextId, doc |-> doc, valid |-> TRUE]
  <2>1. w \in Webhooks /\ w # NONE
    BY <1>0, NewRecord
  <2>2. webhook' = [webhook EXCEPT ![h] = w]
    BY <1>2 DEF Save
  <2>3. w.doc = doc /\ w.valid = TRUE /\ w.id = nextId
    OBVIOUS
  <2> HIDE DEF w
  <2> QED BY <1>2, <2>1, <2>2, <2>3 DEF TypeOK, Registered
<1> QED BY <1>1, <1>2

(* A webhook that is marked keeps everything but its validity.                *)
LEMMA MarkMeans ==
  ASSUME TypeOK, NEW r \in Runners, NEW s \in todo[r], MarkInvalid(r, s)
  PROVE  /\ webhook' \in [Hooks -> Webhooks \cup {NONE}]
         /\ Registered' = Registered
         /\ \A h \in Registered :
              /\ webhook'[h].id = webhook[h].id /\ webhook'[h].doc = webhook[h].doc
              /\ Exists(s) /\ h = s.key => webhook'[h].valid = FALSE
              /\ ~(Exists(s) /\ h = s.key) => webhook'[h] = webhook[h]
<1>1. CASE Exists(s)
  <2> DEFINE h == s.key
             w == [webhook[h] EXCEPT !.valid = FALSE]
  <2>1. h \in Registered /\ w \in Webhooks
        /\ w.doc = webhook[h].doc /\ w.valid = FALSE /\ w.id = webhook[h].id
    BY <1>1, Records, MarkedRecord DEF Exists
  <2>2. webhook' = [webhook EXCEPT ![h] = w]
    BY <1>1 DEF MarkInvalid
  <2> HIDE DEF w
  <2>3. w # NONE
    BY <2>1
  <2> QED BY <1>1, <2>1, <2>2, <2>3 DEF TypeOK, Registered
<1>2. CASE ~Exists(s)
  BY <1>2 DEF MarkInvalid, TypeOK, Registered
<1> QED BY <1>1, <1>2

LEMMA DeleteMeans ==
  ASSUME TypeOK, NEW hs \in SUBSET Hooks, Delete(hs)
  PROVE  /\ webhook' \in [Hooks -> Webhooks \cup {NONE}]
         /\ observes' \in [Hooks -> SUBSET Channels]
         /\ Registered' = Registered \ hs
         /\ \A h \in Hooks \ hs : webhook'[h] = webhook[h] /\ observes'[h] = observes[h]
         /\ \A h \in hs : webhook'[h] = NONE /\ observes'[h] = {}
  BY DEF Delete, TypeOK, Registered

(* Every other step leaves the webhooks and what they observe alone.          *)
RunnerStep(r) ==
  \/ StartMigration(r) \/ ListStale(r) \/ Tell(r) \/ FinishMigration(r)
  \/ MigrationFails(r) \/ \E s \in todo[r] : NotFound(r, s)

LEMMA StepKinds ==
  ASSUME [Next]_vars
  PROVE  \/ \E h \in Hooks, doc \in Docs, code \in Codes : Save(h, doc, code)
         \/ \E hs \in SUBSET Hooks : Delete(hs)
         \/ \E r \in Runners : \E s \in todo[r] : Reevaluate(r, s) \/ MarkInvalid(r, s)
         \/ Deploy \/ DatePasses \/ UNCHANGED vars
         \/ \E r \in Runners : RunnerStep(r)
  BY DEF Next, Run, RunnerStep, Rest

LEMMA RunnerSteps ==
  ASSUME NEW r \in Runners, RunnerStep(r)
  PROVE  UNCHANGED <<registryVars, deployVars, overtaken, nextId, changes>>
  BY DEF RunnerStep, StartMigration, ListStale, Tell, FinishMigration,
         MigrationFails, NotFound, Abort, deployVars

---------------------------------------------------------------------------
(* Type correctness.                                                         *)

LEMMA ObserveType ==
  ASSUME TypeOK, NEW h \in Hooks, NEW channels \in SUBSET Channels,
         NEW code \in Codes, Observe(h, channels, code)
  PROVE  /\ observes' \in [Hooks -> SUBSET Channels] /\ nodes' \subseteq Channels
         /\ late' \in [Hooks -> BOOLEAN] /\ by' \in [Hooks -> Codes]
         /\ observes'[h] = channels /\ late'[h] = passed /\ by'[h] = code
         /\ \A g \in Hooks : g # h =>
              observes'[g] = observes[g] /\ late'[g] = late[g] /\ by'[g] = by[g]
  BY DEF TypeOK, Observe, NodesAfter

LEMMA MeantType ==
  ASSUME NEW doc \in Docs, NEW code \in Codes
  PROVE  Meant[<<doc, code>>] \in SUBSET Channels
  OBVIOUS

(* A save and a second evaluation change what one webhook observes.           *)
LEMMA SaveObserves ==
  ASSUME TypeOK, NEW h \in Hooks, NEW doc \in Docs, NEW code \in Codes,
         Save(h, doc, code)
  PROVE  /\ observes'[h] = Meant[<<doc, code>>] /\ by'[h] = code
         /\ \A g \in Hooks : g # h =>
              observes'[g] = observes[g] /\ late'[g] = late[g] /\ by'[g] = by[g]
<1> DEFINE channels == Meant[<<doc, code>>]
<1>1. channels \in SUBSET Channels
  BY MeantType
<1>2. Observe(h, channels, code)
  BY DEF Save
<1> HIDE DEF channels
<1>3. /\ observes'[h] = channels /\ by'[h] = code
      /\ \A g \in Hooks : g # h =>
           observes'[g] = observes[g] /\ late'[g] = late[g] /\ by'[g] = by[g]
  BY <1>1, <1>2, ObserveType
<1> QED BY <1>3 DEF channels

LEMMA ReevaluateObserves ==
  ASSUME TypeOK, NEW r \in Runners, NEW s \in todo[r], Reevaluate(r, s)
  PROVE  /\ s.key \in Hooks
         /\ observes'[s.key] = Meant[<<s.doc, "new">>] /\ by'[s.key] = "new"
         /\ \A g \in Hooks : g # s.key =>
              observes'[g] = observes[g] /\ late'[g] = late[g] /\ by'[g] = by[g]
<1> DEFINE channels == Meant[<<s.doc, "new">>]
           h == s.key
<1>0. h \in Hooks /\ s.doc \in Docs /\ "new" \in Codes
  BY Records DEF TypeOK, Codes
<1>1. channels \in SUBSET Channels
  BY <1>0, MeantType
<1>2. Observe(h, channels, "new")
  BY DEF Reevaluate
<1> HIDE DEF channels, h
<1>3. /\ observes'[h] = channels /\ by'[h] = "new"
      /\ \A g \in Hooks : g # h =>
           observes'[g] = observes[g] /\ late'[g] = late[g] /\ by'[g] = by[g]
  BY <1>0, <1>1, <1>2, ObserveType
<1> QED BY <1>0, <1>3 DEF channels, h

LEMMA TypeStep == TypeOK /\ [Next]_vars => TypeOK'
<1> SUFFICES ASSUME TypeOK, [Next]_vars PROVE TypeOK'
  OBVIOUS
<1>1. ASSUME NEW h \in Hooks, NEW doc \in Docs, NEW code \in Codes,
             Save(h, doc, code)
      PROVE  TypeOK'
  <2>1. Observe(h, Meant[<<doc, code>>], code)
    BY <1>1 DEF Save
  <2>2. changes' \in 0 .. MaxChanges /\ nextId' \in 1 .. changes' + 1
    BY <1>1 DEF Save, Change, IdAfter, TypeOK
  <2>3. overtaken' \subseteq Hooks
    <3>1. Listed \subseteq Snapshots
      BY DEF TypeOK, Listed
    <3> QED BY <1>1, <3>1, Records DEF Save, TypeOK
  <2> QED
    BY <1>1, <2>1, <2>2, <2>3, SaveMeans, ObserveType, MeantType
    DEF Save, TypeOK, deployVars, runnerVars
<1>2. ASSUME NEW hs \in SUBSET Hooks, Delete(hs) PROVE TypeOK'
  <2>1. changes' \in 0 .. MaxChanges /\ nextId' \in 1 .. changes' + 1
    BY <1>2 DEF Delete, Change, TypeOK
  <2> QED
    BY <1>2, <2>1, DeleteMeans DEF Delete, TypeOK, deployVars, runnerVars
<1>3. ASSUME NEW r \in Runners, NEW s \in todo[r], Reevaluate(r, s) PROVE TypeOK'
  <2>1. /\ s.key \in Hooks /\ s.doc \in Docs /\ "new" \in Codes
        /\ Observe(s.key, Meant[<<s.doc, "new">>], "new")
    BY <1>3, Records DEF Reevaluate, TypeOK, Codes
  <2>2. todo' \in [Runners -> SUBSET Snapshots]
    BY <1>3 DEF Reevaluate, Left, TypeOK
  <2> QED
    BY <1>3, <2>1, <2>2, ObserveType, MeantType DEF Reevaluate, TypeOK, deployVars
<1>4. ASSUME NEW r \in Runners, NEW s \in todo[r], MarkInvalid(r, s) PROVE TypeOK'
  <2>1. todo' \in [Runners -> SUBSET Snapshots] /\ marked' \in [Runners -> SUBSET Snapshots]
    BY <1>4 DEF MarkInvalid, Left, TypeOK
  <2> QED BY <1>4, <2>1, MarkMeans DEF MarkInvalid, TypeOK, deployVars
<1>5. CASE Deploy \/ DatePasses \/ UNCHANGED vars
  BY <1>5 DEF Deploy, DatePasses, vars, TypeOK, registryVars, deployVars, runnerVars
<1>6. ASSUME NEW r \in Runners, RunnerStep(r) PROVE TypeOK'
  <2>1. UNCHANGED <<registryVars, deployVars, overtaken, nextId, changes>>
    BY <1>6, RunnerSteps
  <2>2. /\ phase' \in [Runners -> {"idle", "listing", "evaluating"}]
        /\ version' \in Codes /\ failures' \in 0 .. MaxFailures
    <3>1. version' \in Codes
      BY <1>6 DEF RunnerStep, StartMigration, ListStale, Tell, FinishMigration,
                  MigrationFails, NotFound, Abort, TypeOK, Codes
    <3>2. failures' \in 0 .. MaxFailures
      <4>1. \/ UNCHANGED failures
            \/ failures < MaxFailures /\ failures' = failures + 1
        BY <1>6 DEF RunnerStep, StartMigration, ListStale, Tell, FinishMigration,
                    MigrationFails, NotFound
      <4> QED BY <4>1 DEF TypeOK
    <3>3. \/ UNCHANGED phase
          \/ \E p \in {"idle", "listing", "evaluating"} : SetPhase(r, p)
      BY <1>6 DEF RunnerStep, StartMigration, ListStale, Tell, FinishMigration,
                  MigrationFails, NotFound, Abort
    <3>4. phase' \in [Runners -> {"idle", "listing", "evaluating"}]
      BY <3>3 DEF SetPhase, TypeOK
    <3> QED BY <3>1, <3>2, <3>4
  <2>3. todo' \in [Runners -> SUBSET Snapshots]
    <3>1. \A h \in Registered :
            [key |-> h, id |-> webhook[h].id, doc |-> webhook[h].doc] \in Snapshots
      BY Records DEF Snapshots
    <3>2. CASE ListStale(r)
      BY <3>1, <3>2 DEF ListStale, TypeOK
    <3>3. CASE ~ListStale(r)
      BY <1>6, <3>3 DEF RunnerStep, StartMigration, Tell, FinishMigration,
                        MigrationFails, NotFound, Abort, TypeOK
    <3> QED BY <3>2, <3>3
  <2>4. marked' \in [Runners -> SUBSET Snapshots] /\ told' \subseteq Snapshots
    BY <1>6 DEF RunnerStep, StartMigration, ListStale, Tell, FinishMigration,
                MigrationFails, NotFound, Abort, Told, TypeOK
  <2> QED BY <2>1, <2>2, <2>3, <2>4 DEF TypeOK, registryVars, deployVars
<1> QED BY <1>1, <1>2, <1>3, <1>4, <1>5, <1>6, StepKinds

(* Webhooks, channels, runners and what they have listed keep their types.    *)
THEOREM TypeCorrect == Spec => []TypeOK
<1>1. Init => TypeOK
  <2> SUFFICES ASSUME Init PROVE TypeOK
    OBVIOUS
  <2>1. changes \in 0 .. MaxChanges /\ nextId \in 1 .. changes + 1
        /\ failures \in 0 .. MaxFailures
    BY DEF Init
  <2>2. /\ webhook \in [Hooks -> Webhooks \cup {NONE}]
        /\ observes \in [Hooks -> SUBSET Channels]
        /\ todo \in [Runners -> SUBSET Snapshots]
        /\ marked \in [Runners -> SUBSET Snapshots]
        /\ phase \in [Runners -> {"idle", "listing", "evaluating"}]
    BY DEF Init
  <2>3. late \in [Hooks -> BOOLEAN] /\ by \in [Hooks -> Codes]
    BY DEF Init, Codes
  <2> QED BY <2>1, <2>2, <2>3 DEF Init, TypeOK, Codes
<1> QED BY <1>1, TypeStep, PTL DEF Spec

---------------------------------------------------------------------------
(* The inductive invariants.                                                 *)

(* An id names one webhook for ever, and a webhook that was listed is found  *)
(* under the key it had.                                                     *)
IdsInv ==
  /\ \A h \in Registered : webhook[h].id < nextId
  /\ \A g, h \in Registered : webhook[g].id = webhook[h].id => g = h
  /\ \A r \in Runners : \A s \in todo[r] :
       /\ s.id < nextId
       /\ \A h \in Registered : webhook[h].id = s.id => h = s.key

(* A webhook that was not saved since it was listed has the operation listed. *)
DocsInv ==
  \A r \in Runners : \A s \in todo[r] :
    Exists(s) /\ s.key \notin overtaken => webhook[s.key].doc = s.doc

(* Only a runner that evaluates has something to evaluate or to tell, and    *)
(* none runs before the last of the old servers is gone.                     *)
RunInv ==
  /\ \A r \in Runners :
       /\ phase[r] # "evaluating" => todo[r] = {} /\ marked[r] = {}
       /\ phase[r] # "idle" => servers = "new"
  /\ version = "new" => servers = "new"

(* An invalid webhook's owner was told, or is about to be.                   *)
TellInv ==
  failures = 0 =>
    \A h \in Registered \ Valid :
      \E s \in told \cup UNION {marked[r] : r \in Runners} :
        s.key = h /\ s.id = webhook[h].id

(* What the new code evaluated is what it means.                             *)
NewInv == \A h \in Valid \ overtaken : by[h] = "new" => observes[h] = MeantBy(h)

(* What only the old code evaluated, the migration has yet to do.            *)
Pending(h, r) == \E s \in todo[r] : s.key = h /\ s.id = webhook[h].id
OldInv ==
  \A h \in Valid \ overtaken :
    by[h] = "old" /\ ~late[h] /\ observes[h] # {} =>
      /\ version = "old"
      /\ \A r \in Runners : phase[r] = "evaluating" => Pending(h, r)

---------------------------------------------------------------------------
(* Channels.                                                                 *)

(* A channel that another webhook observes outlives this one's change.        *)
LEMMA ObservedStep == TypeOK /\ ObservedExist /\ [Next]_vars => ObservedExist'
<1> SUFFICES ASSUME TypeOK, ObservedExist, [Next]_vars PROVE ObservedExist'
  OBVIOUS
<1>1. ASSUME NEW h \in Hooks, NEW channels \in SUBSET Channels, NEW code \in Codes,
             Observe(h, channels, code)
      PROVE  ObservedExist'
  <2>1. /\ observes'[h] = channels
        /\ \A g \in Hooks : g # h => observes'[g] = observes[g]
        /\ nodes' = (nodes \ Orphans(h, observes[h] \ channels)) \cup channels
    BY <1>1, ObserveType DEF Observe, NodesAfter
  <2> QED BY <2>1 DEF ObservedExist, Orphans
<1>2. ASSUME NEW hs \in SUBSET Hooks, Delete(hs) PROVE ObservedExist'
  BY <1>2, DeleteMeans DEF Delete, Orphans, ObservedExist
<1>3. CASE UNCHANGED <<observes, nodes>>
  BY <1>3 DEF ObservedExist
<1>4. ASSUME NEW r \in Runners, NEW s \in todo[r], Reevaluate(r, s) PROVE ObservedExist'
  <2>1. s.key \in Hooks /\ s.doc \in Docs /\ "new" \in Codes
    BY Records DEF TypeOK, Codes
  <2> QED BY <1>1, <1>4, <2>1, MeantType DEF Reevaluate
<1>5. ASSUME NEW h \in Hooks, NEW doc \in Docs, NEW code \in Codes, Save(h, doc, code)
      PROVE  ObservedExist'
  BY <1>1, <1>5, MeantType DEF Save
<1> QED
  BY <1>2, <1>3, <1>4, <1>5, StepKinds, RunnerSteps
  DEF MarkInvalid, Deploy, DatePasses, vars, registryVars

(* Whatever is saved, deleted or evaluated again, and in whichever order, no  *)
(* cleanup takes a channel that some webhook still observes.                 *)
THEOREM ObservedExistAlways == Spec => []ObservedExist
<1>1. Init => ObservedExist
  BY DEF Init, ObservedExist
<1> QED BY <1>1, ObservedStep, TypeCorrect, PTL DEF Spec

(* A change of one webhook leaves no channel unobserved that was observed.    *)
LEMMA ObserveCleansUp ==
  ASSUME TypeOK, NEW h \in Hooks, NEW channels \in SUBSET Channels,
         NEW code \in Codes, Observe(h, channels, code)
  PROVE  Unobserved' \subseteq Unobserved
<1>1. /\ observes'[h] = channels
      /\ \A g \in Hooks : g # h => observes'[g] = observes[g]
      /\ nodes' = (nodes \ Orphans(h, observes[h] \ channels)) \cup channels
  BY ObserveType DEF Observe, NodesAfter
<1>2. ASSUME NEW c \in Unobserved', NEW g \in Hooks, c \in observes[g] PROVE FALSE
  <2>1. c \in nodes' /\ \A x \in Hooks : c \notin observes'[x]
    BY DEF Unobserved
  <2>2. g = h /\ c \notin channels
    BY <1>1, <1>2, <2>1
  <2>3. c \in Orphans(h, observes[h] \ channels)
    BY <1>1, <1>2, <2>1, <2>2 DEF Orphans
  <2> QED BY <1>1, <2>1, <2>2, <2>3
<1>3. ASSUME NEW c \in Unobserved' PROVE c \in nodes
  <2>1. c \in nodes' /\ \A x \in Hooks : c \notin observes'[x]
    BY DEF Unobserved
  <2> QED BY <1>1, <2>1
<1> QED BY <1>2, <1>3 DEF Unobserved

(* No step that takes at most one webhook away leaves a channel behind that   *)
(* nobody observes any more.                                                 *)
THEOREM CleansUpAlways == Spec => LastObserverCleansUp
<1> DEFINE CleansUp ==
      (\A g, h \in Hooks : Gone(g) /\ Gone(h) => g = h)
        => Unobserved' \subseteq Unobserved
<1>1. TypeOK /\ [Next]_vars => [CleansUp]_vars
  <2> SUFFICES ASSUME TypeOK, [Next]_vars,
                      \A g, h \in Hooks : Gone(g) /\ Gone(h) => g = h
               PROVE  Unobserved' \subseteq Unobserved
    OBVIOUS
  <2>1. ASSUME NEW h \in Hooks, NEW doc \in Docs, NEW code \in Codes,
               Save(h, doc, code)
        PROVE  Unobserved' \subseteq Unobserved
    BY <2>1, ObserveCleansUp, MeantType DEF Save
  <2>2. ASSUME NEW r \in Runners, NEW s \in todo[r], Reevaluate(r, s)
        PROVE  Unobserved' \subseteq Unobserved
    <3>1. s.key \in Hooks /\ s.doc \in Docs /\ "new" \in Codes
      BY Records DEF TypeOK, Codes
    <3> QED BY <2>2, <3>1, ObserveCleansUp, MeantType DEF Reevaluate
  <2>3. ASSUME NEW hs \in SUBSET Hooks, Delete(hs)
        PROVE  Unobserved' \subseteq Unobserved
    <3>1. PICK h \in hs : TRUE
      BY <2>3 DEF Delete
    <3>2. \A g \in hs : g = h
      <4>1. \A g \in hs : g \in Registered /\ Gone(g)
        BY <2>3, DeleteMeans DEF Delete, Gone, Registered
      <4> QED BY <3>1, <4>1
    <3>3. /\ observes'[h] = {} /\ nodes' = nodes \ Orphans(h, observes[h])
          /\ \A g \in Hooks : g # h => observes'[g] = observes[g]
      <4>1. hs = {h}
        BY <3>1, <3>2
      <4> QED BY <2>3, <4>1, DeleteMeans DEF Delete
    <3>4. ASSUME NEW c \in Unobserved' PROVE c \in Unobserved
      <4>1. c \in nodes' /\ \A x \in Hooks : c \notin observes'[x]
        BY <3>4 DEF Unobserved
      <4>2. c \notin observes[h]
        BY <3>1, <3>3, <4>1 DEF Orphans
      <4> QED BY <3>3, <4>1, <4>2 DEF Unobserved
    <3> QED BY <3>4
  <2>4. CASE UNCHANGED <<observes, nodes>>
    BY <2>4 DEF Unobserved
  <2> QED
    BY <2>1, <2>2, <2>3, <2>4, StepKinds, RunnerSteps
    DEF MarkInvalid, Deploy, DatePasses, vars, registryVars
<1> QED BY <1>1, TypeCorrect, PTL DEF Spec, LastObserverCleansUp

---------------------------------------------------------------------------
(* What a runner has listed.                                                 *)

(* The list holds the stale webhooks as they are, and only them.              *)
LEMMA ListMeans ==
  ASSUME TypeOK, NEW r \in Runners, ListStale(r)
  PROVE  /\ \A q \in Runners : q # r => todo'[q] = todo[q]
         /\ \A s \in todo'[r] : /\ s.key \in Registered
                                /\ s.id = webhook[s.key].id
                                /\ s.doc = webhook[s.key].doc
         /\ \A h \in Registered : IsStale(h) =>
              \E s \in todo'[r] : s.key = h /\ s.id = webhook[h].id
<1> DEFINE snapshot(h) == [key |-> h, id |-> webhook[h].id, doc |-> webhook[h].doc]
<1>1. /\ todo'[r] = {snapshot(h) : h \in {x \in Registered : IsStale(x)}}
      /\ \A q \in Runners : q # r => todo'[q] = todo[q]
  BY DEF ListStale, TypeOK
<1>2. \A h : /\ snapshot(h).key = h /\ snapshot(h).id = webhook[h].id
             /\ snapshot(h).doc = webhook[h].doc
  OBVIOUS
<1> HIDE DEF snapshot
<1> QED BY <1>1, <1>2

(* A step that lists nothing lists nothing new.                              *)
LEMMA ListsShrink ==
  ASSUME TypeOK, NEW r \in Runners,
         \/ RunnerStep(r) /\ ~ListStale(r)
         \/ \E s \in todo[r] : Reevaluate(r, s) \/ MarkInvalid(r, s)
  PROVE  \A q \in Runners : todo'[q] \subseteq todo[q]
<1>1. CASE UNCHANGED todo
  BY <1>1
<1>2. CASE \E t \in SUBSET todo[r] : todo' = [todo EXCEPT ![r] = t]
  BY <1>2 DEF TypeOK
<1>3. \/ UNCHANGED todo
      \/ todo' = [todo EXCEPT ![r] = {}]
      \/ \E s \in todo[r] : todo' = [todo EXCEPT ![r] = Left(r, s)]
  BY DEF RunnerStep, StartMigration, Tell, FinishMigration, MigrationFails,
         NotFound, Abort, Reevaluate, MarkInvalid
<1> QED BY <1>1, <1>2, <1>3 DEF Left

LEMMA IdsStep == TypeOK /\ IdsInv /\ [Next]_vars => IdsInv'
<1> SUFFICES ASSUME TypeOK, IdsInv, [Next]_vars PROVE IdsInv'
  OBVIOUS
<1>0. /\ nextId \in Nat
      /\ \A h \in Registered : webhook[h].id \in Nat
      /\ \A q \in Runners : \A s \in todo[q] : s.id \in Nat
  BY Records DEF TypeOK
<1>1. ASSUME NEW h \in Hooks, NEW doc \in Docs, NEW code \in Codes, Save(h, doc, code)
      PROVE  IdsInv'
  <2>1. /\ webhook'[h].id = IF h \in Registered THEN webhook[h].id ELSE nextId
        /\ \A g \in Registered : g # h => webhook'[g].id = webhook[g].id
        /\ Registered' = Registered \cup {h}
    BY <1>1, SaveMeans, Records
  <2>2. /\ UNCHANGED todo
        /\ nextId' = IF h \in Registered THEN nextId ELSE nextId + 1
    BY <1>1 DEF Save, IdAfter, runnerVars
  <2> QED BY <1>0, <2>1, <2>2 DEF IdsInv
<1>2. ASSUME NEW hs \in SUBSET Hooks, Delete(hs) PROVE IdsInv'
  <2>1. Registered' \subseteq Registered
        /\ \A h \in Registered' : webhook'[h] = webhook[h]
    BY <1>2, DeleteMeans, Records
  <2>2. UNCHANGED <<todo, nextId>>
    BY <1>2 DEF Delete, runnerVars
  <2> QED BY <2>1, <2>2 DEF IdsInv
<1>3. ASSUME NEW r \in Runners, NEW s \in todo[r], Reevaluate(r, s) \/ MarkInvalid(r, s)
      PROVE  IdsInv'
  <2>1. Registered' = Registered /\ \A h \in Registered : webhook'[h].id = webhook[h].id
    BY <1>3, MarkMeans DEF Reevaluate, Registered
  <2>2. nextId' = nextId /\ \A q \in Runners : todo'[q] \subseteq todo[q]
    BY <1>3, ListsShrink DEF Reevaluate, MarkInvalid
  <2> QED BY <2>1, <2>2 DEF IdsInv
<1>4. CASE Deploy \/ DatePasses \/ UNCHANGED vars
  BY <1>4 DEF Deploy, DatePasses, vars, registryVars, runnerVars, IdsInv, Registered
<1>5. ASSUME NEW r \in Runners, RunnerStep(r) PROVE IdsInv'
  <2>1. UNCHANGED <<webhook, nextId>> /\ Registered' = Registered
    BY <1>5, RunnerSteps DEF registryVars, Registered
  <2>2. CASE ListStale(r)
    BY <2>1, <2>2, ListMeans DEF IdsInv
  <2>3. CASE ~ListStale(r)
    BY <1>5, <2>1, <2>3, ListsShrink DEF IdsInv
  <2> QED BY <2>2, <2>3
<1> QED BY <1>1, <1>2, <1>3, <1>4, <1>5, StepKinds

LEMMA IdsAlways == Spec => []IdsInv
<1>1. Init => IdsInv
  BY DEF Init, IdsInv, Registered
<1> QED BY <1>1, IdsStep, TypeCorrect, PTL DEF Spec

LEMMA DocsStep == TypeOK /\ IdsInv /\ DocsInv /\ [Next]_vars => DocsInv'
<1> SUFFICES ASSUME TypeOK, IdsInv, DocsInv, [Next]_vars PROVE DocsInv'
  OBVIOUS
<1>0. \A q \in Runners : \A s \in todo[q] : s \in Snapshots /\ s.key \in Hooks /\ s.id \in Nat
  BY Records DEF TypeOK
<1>1. ASSUME NEW h \in Hooks, NEW doc \in Docs, NEW code \in Codes, Save(h, doc, code)
      PROVE  DocsInv'
  <2>1. UNCHANGED todo
    BY <1>1 DEF Save, runnerVars
  <2>2. SUFFICES ASSUME NEW q \in Runners, NEW s \in todo[q], Exists(s)',
                        s.key \notin overtaken'
                 PROVE  webhook'[s.key].doc = s.doc
    BY <2>1 DEF DocsInv
  <2>3. /\ Registered' = Registered \cup {h}
        /\ s.key # h => webhook'[s.key] = webhook[s.key]
        /\ webhook'[h].id = IF h \in Registered THEN webhook[h].id ELSE nextId
    BY <1>0, <1>1, SaveMeans, ZenonT(40)
  <2>4. overtaken \subseteq overtaken'
    BY <1>1 DEF Save
  <2>5. CASE s.key # h
    BY <2>2, <2>3, <2>4, <2>5 DEF DocsInv, Exists
  <2>6. CASE s.key = h
    <3>1. h \in Registered /\ s.id = webhook[h].id
      BY <1>0, <2>2, <2>3, <2>6, Records DEF Exists, IdsInv
    <3>2. s \in Listed
      BY DEF Listed
    <3>3. s.key \in overtaken'
      BY <1>1, <3>1, <3>2 DEF Save
    <3> QED BY <2>2, <3>3
  <2> QED BY <2>5, <2>6
<1>2. ASSUME NEW hs \in SUBSET Hooks, Delete(hs) PROVE DocsInv'
  <2>1. UNCHANGED todo /\ overtaken' = overtaken \ hs
    BY <1>2 DEF Delete, runnerVars
  <2>2. Registered' = Registered \ hs /\ \A h \in Hooks \ hs : webhook'[h] = webhook[h]
    BY <1>2, DeleteMeans
  <2> QED BY <1>0, <2>1, <2>2 DEF DocsInv, Exists
<1>3. ASSUME NEW r \in Runners, NEW s \in todo[r], Reevaluate(r, s) \/ MarkInvalid(r, s)
      PROVE  DocsInv'
  <2>1. /\ Registered' = Registered
        /\ \A h \in Registered : /\ webhook'[h].id = webhook[h].id
                                 /\ webhook'[h].doc = webhook[h].doc
    BY <1>3, MarkMeans DEF Reevaluate, Registered
  <2>2. overtaken' = overtaken /\ \A q \in Runners : todo'[q] \subseteq todo[q]
    BY <1>3, ListsShrink DEF Reevaluate, MarkInvalid
  <2> QED BY <2>1, <2>2 DEF DocsInv, Exists
<1>4. CASE Deploy \/ DatePasses \/ UNCHANGED vars
  BY <1>4 DEF Deploy, DatePasses, vars, registryVars, runnerVars, DocsInv, Registered, Exists
<1>5. ASSUME NEW r \in Runners, RunnerStep(r) PROVE DocsInv'
  <2>1. UNCHANGED <<webhook, overtaken>> /\ Registered' = Registered
    BY <1>5, RunnerSteps DEF registryVars, Registered
  <2>2. CASE ListStale(r)
    BY <2>1, <2>2, ListMeans DEF DocsInv, Exists
  <2>3. CASE ~ListStale(r)
    BY <1>5, <2>1, <2>3, ListsShrink DEF DocsInv, Exists
  <2> QED BY <2>2, <2>3
<1> QED BY <1>1, <1>2, <1>3, <1>4, <1>5, StepKinds

LEMMA DocsAlways == Spec => []DocsInv
<1>1. Init => DocsInv
  BY DEF Init, DocsInv
<1> QED BY <1>1, DocsStep, IdsAlways, TypeCorrect, PTL DEF Spec

---------------------------------------------------------------------------
(* Invalid webhooks.                                                         *)

(* An operation is found broken as it was listed; a webhook saved since is    *)
(* excused, and a key whose webhook was replaced is not touched.             *)
LEMMA InvalidStep == TypeOK /\ DocsInv /\ InvalidIsBroken /\ [Next]_vars => InvalidIsBroken'
<1> SUFFICES ASSUME TypeOK, DocsInv, InvalidIsBroken, [Next]_vars PROVE InvalidIsBroken'
  OBVIOUS
<1>1. ASSUME NEW h \in Hooks, NEW doc \in Docs, NEW code \in Codes, Save(h, doc, code)
      PROVE  InvalidIsBroken'
  <2>1. /\ webhook'[h].valid = TRUE
        /\ \A g \in Registered : g # h => webhook'[g] = webhook[g]
        /\ Registered' = Registered \cup {h}
    BY <1>1, SaveMeans, Records
  <2>2. overtaken \subseteq overtaken'
    BY <1>1 DEF Save
  <2> QED BY <2>1, <2>2 DEF InvalidIsBroken, Valid
<1>2. ASSUME NEW hs \in SUBSET Hooks, Delete(hs) PROVE InvalidIsBroken'
  <2>1. Registered' = Registered \ hs /\ \A h \in Registered' : webhook'[h] = webhook[h]
    BY <1>2, DeleteMeans, Records
  <2>2. overtaken' = overtaken \ hs
    BY <1>2 DEF Delete
  <2> QED BY <2>1, <2>2 DEF InvalidIsBroken, Valid
<1>3. ASSUME NEW r \in Runners, NEW s \in todo[r], MarkInvalid(r, s)
      PROVE  InvalidIsBroken'
  <2>1. SUFFICES ASSUME NEW h \in Registered', h \notin Valid', h \notin overtaken'
                 PROVE  <<webhook'[h].doc, "new">> \in Broken
    BY DEF InvalidIsBroken
  <2>2. h \in Registered /\ h \notin overtaken /\ webhook'[h].doc = webhook[h].doc
    BY <1>3, <2>1, MarkMeans DEF MarkInvalid
  <2>3. CASE Exists(s) /\ h = s.key
    BY <1>3, <2>2, <2>3 DEF DocsInv, MarkInvalid
  <2>4. CASE ~(Exists(s) /\ h = s.key)
    <3>1. webhook'[h] = webhook[h]
      BY <1>3, <2>2, <2>4, MarkMeans
    <3> QED BY <2>1, <2>2, <3>1 DEF InvalidIsBroken, Valid
  <2> QED BY <2>3, <2>4
<1>4. CASE UNCHANGED <<webhook, overtaken>>
  BY <1>4 DEF InvalidIsBroken, Valid, Registered
<1> QED
  BY <1>1, <1>2, <1>3, <1>4, StepKinds, RunnerSteps
  DEF Deploy, DatePasses, vars, registryVars, Reevaluate

(* Whatever happens between the listing and the marking, only a webhook whose *)
(* own operation is broken is invalid, but for those saved meanwhile.        *)
THEOREM InvalidIsBrokenAlways == Spec => []InvalidIsBroken
<1>1. Init => InvalidIsBroken
  BY DEF Init, InvalidIsBroken, Registered
<1> QED BY <1>1, InvalidStep, DocsAlways, TypeCorrect, PTL DEF Spec

LEMMA RunStep == TypeOK /\ RunInv /\ [Next]_vars => RunInv'
<1> SUFFICES ASSUME TypeOK, RunInv, [Next]_vars PROVE RunInv'
  OBVIOUS
<1>1. CASE UNCHANGED <<phase, todo, marked, version, servers>>
  BY <1>1 DEF RunInv
<1>2. CASE Deploy
  BY <1>2 DEF Deploy, RunInv, runnerVars
<1>3. ASSUME NEW r \in Runners, NEW s \in todo[r], Reevaluate(r, s) \/ MarkInvalid(r, s)
      PROVE  RunInv'
  <2>1. /\ phase[r] = "evaluating" /\ UNCHANGED <<phase, version, servers>>
        /\ \A q \in Runners : q # r => todo'[q] = todo[q] /\ marked'[q] = marked[q]
    BY <1>3 DEF Reevaluate, MarkInvalid, IsNext, TypeOK, deployVars
  <2> QED BY <2>1 DEF RunInv
<1>4. ASSUME NEW r \in Runners, RunnerStep(r) PROVE RunInv'
  <2>1. servers' = servers
    BY <1>4, RunnerSteps DEF deployVars
  <2>2. CASE StartMigration(r)
    BY <2>1, <2>2 DEF StartMigration, SetPhase, RunInv, TypeOK
  <2>3. CASE ListStale(r)
    <3>1. /\ phase[r] = "listing" /\ phase' = [phase EXCEPT ![r] = "evaluating"]
          /\ UNCHANGED <<marked, version>>
      BY <2>3 DEF ListStale, SetPhase
    <3> QED BY <2>1, <2>3, <3>1, ListMeans DEF RunInv, TypeOK
  <2>4. CASE Tell(r)
    <3>1. /\ UNCHANGED <<phase, todo, version>>
          /\ \A q \in Runners : marked'[q] \subseteq marked[q]
      BY <2>4 DEF Tell, TypeOK
    <3> QED BY <2>1, <3>1 DEF RunInv
  <2>5. CASE FinishMigration(r)
    BY <2>1, <2>5 DEF FinishMigration, SetPhase, RunInv, TypeOK
  <2>6. CASE Abort(r)
    BY <2>1, <2>6 DEF Abort, SetPhase, RunInv, TypeOK
  <2> QED
    BY <1>4, <2>2, <2>3, <2>4, <2>5, <2>6 DEF RunnerStep, MigrationFails, NotFound
<1> QED
  BY <1>1, <1>2, <1>3, <1>4, StepKinds
  DEF Save, Delete, DatePasses, vars, runnerVars, deployVars

LEMMA RunAlways == Spec => []RunInv
<1>1. Init => RunInv
  BY DEF Init, RunInv
<1> QED BY <1>1, RunStep, TypeCorrect, PTL DEF Spec

(* An owner who was told of a webhook, or is about to be.                     *)
Telling == told \cup UNION {marked[r] : r \in Runners}

LEMMA TellStep == TypeOK /\ TellInv /\ [Next]_vars => TellInv'
<1> SUFFICES ASSUME TypeOK, TellInv, [Next]_vars PROVE TellInv'
  OBVIOUS
<1>0. failures' = 0 => failures = 0
  <2>1. failures' = failures \/ failures' = failures + 1
    BY StepKinds
    DEF Save, Delete, Reevaluate, MarkInvalid, Deploy, DatePasses, vars, RunnerStep,
        StartMigration, ListStale, Tell, FinishMigration, MigrationFails, NotFound
  <2> QED BY <2>1 DEF TypeOK
<1>1. ASSUME Telling \subseteq Telling',
             \A h \in Registered' \ Valid' :
               h \in Registered \ Valid /\ webhook'[h].id = webhook[h].id
      PROVE  TellInv'
  BY <1>0, <1>1 DEF TellInv, Telling
<1>2. ASSUME NEW h \in Hooks, NEW doc \in Docs, NEW code \in Codes, Save(h, doc, code)
      PROVE  TellInv'
  <2>1. /\ webhook'[h].valid = TRUE
        /\ \A g \in Registered : g # h => webhook'[g] = webhook[g]
        /\ Registered' = Registered \cup {h}
    BY <1>2, SaveMeans, Records
  <2>2. Telling' = Telling
    BY <1>2 DEF Save, runnerVars, Telling
  <2> QED BY <1>1, <2>1, <2>2 DEF Valid
<1>3. ASSUME NEW hs \in SUBSET Hooks, Delete(hs) PROVE TellInv'
  <2>1. Registered' = Registered \ hs /\ \A h \in Registered' : webhook'[h] = webhook[h]
    BY <1>3, DeleteMeans, Records
  <2>2. Telling' = Telling
    BY <1>3 DEF Delete, runnerVars, Telling
  <2> QED BY <1>1, <2>1, <2>2 DEF Valid
<1>4. ASSUME NEW r \in Runners, NEW s \in todo[r], MarkInvalid(r, s) PROVE TellInv'
  <2>1. Telling' = Telling \cup {s}
    <3>1. told' = told /\ marked[r] = {} /\ marked' = [marked EXCEPT ![r] = {s}]
      BY <1>4 DEF MarkInvalid, IsNext
    <3>2. marked'[r] = {s} /\ \A q \in Runners : q # r => marked'[q] = marked[q]
      BY <3>1 DEF TypeOK
    <3> QED BY <3>1, <3>2 DEF Telling
  <2>2. SUFFICES ASSUME failures = 0, NEW h \in Registered', h \notin Valid'
                 PROVE  \E x \in Telling' : x.key = h /\ x.id = webhook'[h].id
    BY <1>0 DEF TellInv, Telling
  <2>3. h \in Registered /\ webhook'[h].id = webhook[h].id
    BY <1>4, MarkMeans
  <2>4. CASE Exists(s) /\ h = s.key
    BY <2>1, <2>3, <2>4 DEF Exists
  <2>5. CASE ~(Exists(s) /\ h = s.key)
    <3>1. h \notin Valid
      BY <1>4, <2>2, <2>3, <2>5, MarkMeans DEF Valid
    <3> QED BY <2>1, <2>2, <2>3, <3>1 DEF TellInv, Telling
  <2> QED BY <2>4, <2>5
<1>5. CASE UNCHANGED <<webhook, told, marked>>
  BY <1>0, <1>5 DEF TellInv, Valid, Registered
<1>6. ASSUME NEW r \in Runners, RunnerStep(r) PROVE TellInv'
  <2>1. UNCHANGED webhook
    BY <1>6, RunnerSteps DEF registryVars
  <2>2. CASE Tell(r)
    <3>1. /\ told' = told \cup marked[r] /\ marked' = [marked EXCEPT ![r] = {}]
      BY <2>2 DEF Tell, Told
    <3>2. \A q \in Runners : q # r => marked'[q] = marked[q]
      BY <3>1 DEF TypeOK
    <3>3. Telling \subseteq Telling'
      BY <3>1, <3>2 DEF Telling
    <3> QED BY <1>1, <2>1, <3>3 DEF Valid, Registered
  <2>3. CASE \E s \in todo[r] : NotFound(r, s)
    <3>1. told' = told /\ marked[r] = {} /\ marked' = [marked EXCEPT ![r] = {}]
      BY <2>3 DEF NotFound, Abort, IsNext
    <3>2. \A q \in Runners : marked'[q] = marked[q]
      BY <3>1 DEF TypeOK
    <3>3. Telling \subseteq Telling'
      BY <3>1, <3>2 DEF Telling
    <3> QED BY <1>1, <2>1, <3>3 DEF Valid, Registered
  <2>4. CASE MigrationFails(r)
    BY <2>4 DEF MigrationFails, TellInv, TypeOK
  <2>5. CASE StartMigration(r) \/ ListStale(r) \/ FinishMigration(r)
    BY <1>5, <2>1, <2>5 DEF StartMigration, ListStale, FinishMigration
  <2> QED BY <1>6, <2>2, <2>3, <2>4, <2>5 DEF RunnerStep
<1> QED
  BY <1>2, <1>3, <1>4, <1>5, <1>6, StepKinds
  DEF Deploy, DatePasses, vars, registryVars, runnerVars, Reevaluate

(* When nothing failed, the owner of every webhook the migration found        *)
(* invalid was told, of that webhook and not of an earlier one with its key.  *)
THEOREM OwnersAreToldAlways == Spec => []OwnersAreTold
<1>1. Init => TellInv
  <2>1. Init => Registered = {}
    BY DEF Init, Registered
  <2> QED BY <2>1 DEF TellInv
<1>2. RunInv /\ TellInv => OwnersAreTold
  <2> SUFFICES ASSUME RunInv, TellInv, failures = 0, Migrated
               PROVE  \A h \in Registered \ Valid :
                        \E s \in told : s.key = h /\ s.id = webhook[h].id
    BY DEF OwnersAreTold
  <2>1. \A r \in Runners : marked[r] = {}
    BY DEF RunInv, Migrated
  <2>2. told \cup UNION {marked[r] : r \in Runners} = told
    BY <2>1
  <2> QED BY <2>2 DEF TellInv
<1> QED BY <1>1, <1>2, TellStep, RunAlways, TypeCorrect, PTL DEF Spec

---------------------------------------------------------------------------
(* Webhooks evaluated again.                                                 *)

LEMMA NewStep == TypeOK /\ DocsInv /\ NewInv /\ [Next]_vars => NewInv'
<1> SUFFICES ASSUME TypeOK, DocsInv, NewInv, [Next]_vars,
                    NEW k \in Hooks, k \in Valid', k \notin overtaken',
                    by'[k] = "new"
             PROVE  observes'[k] = MeantBy(k)'
  BY DEF NewInv, Valid, Registered
<1>0. k \in Registered'
  BY DEF Valid
<1>1. ASSUME NEW g \in Hooks, NEW doc \in Docs, NEW code \in Codes, Save(g, doc, code)
      PROVE  observes'[k] = MeantBy(k)'
  <2>1. overtaken \subseteq overtaken'
    BY <1>1 DEF Save
  <2>2. CASE k = g
    <3>1. webhook'[g].doc = doc
      BY <1>1, SaveMeans
    <3>2. observes'[g] = Meant[<<doc, code>>] /\ by'[g] = code
      BY <1>1, SaveObserves
    <3> QED BY <2>2, <3>1, <3>2 DEF MeantBy
  <2>3. CASE k # g
    <3>1. /\ k \in Registered /\ webhook'[k] = webhook[k]
          /\ observes'[k] = observes[k] /\ by'[k] = by[k]
      <4>1. Registered' = Registered \cup {g} /\ webhook'[k] = webhook[k]
        BY <1>1, <2>3, SaveMeans
      <4>2. observes'[k] = observes[k] /\ by'[k] = by[k]
        BY <1>1, <2>3, SaveObserves
      <4> QED BY <1>0, <2>3, <4>1, <4>2
    <3> QED BY <2>1, <3>1 DEF NewInv, Valid, MeantBy
  <2> QED BY <2>2, <2>3
<1>2. ASSUME NEW hs \in SUBSET Hooks, Delete(hs) PROVE observes'[k] = MeantBy(k)'
  <2>1. /\ k \in Registered /\ webhook'[k] = webhook[k] /\ observes'[k] = observes[k]
        /\ k \notin overtaken /\ by' = by
    <3>1. overtaken' = overtaken \ hs /\ by' = by
      BY <1>2 DEF Delete
    <3>2. Registered' = Registered \ hs
      BY <1>2, DeleteMeans
    <3>3. k \in Hooks \ hs
      BY <1>0, <3>2
    <3> QED BY <1>0, <1>2, <3>1, <3>2, <3>3, DeleteMeans
  <2> QED BY <2>1 DEF NewInv, Valid, MeantBy
<1>3. ASSUME NEW r \in Runners, NEW s \in todo[r], Reevaluate(r, s)
      PROVE  observes'[k] = MeantBy(k)'
  <2>1. UNCHANGED <<webhook, overtaken>> /\ Exists(s)
    BY <1>3 DEF Reevaluate
  <2>2. CASE k = s.key
    <3>1. webhook[k].doc = s.doc
      BY <2>1, <2>2 DEF DocsInv
    <3> QED BY <1>3, <2>1, <2>2, <3>1, ReevaluateObserves DEF MeantBy
  <2>3. CASE k # s.key
    <3>1. observes'[k] = observes[k] /\ by'[k] = by[k]
      BY <1>0, <1>3, <2>3, ReevaluateObserves
    <3> QED BY <2>1, <3>1 DEF NewInv, Valid, Registered, MeantBy
  <2> QED BY <2>2, <2>3
<1>4. ASSUME NEW r \in Runners, NEW s \in todo[r], MarkInvalid(r, s)
      PROVE  observes'[k] = MeantBy(k)'
  <2>1. k \in Registered /\ webhook'[k].doc = webhook[k].doc /\ k \in Valid
    BY <1>0, <1>4, MarkMeans DEF Valid
  <2> QED BY <1>4, <2>1 DEF MarkInvalid, NewInv, MeantBy
<1>5. CASE UNCHANGED <<webhook, observes, by, overtaken>>
  BY <1>5 DEF NewInv, Valid, Registered, MeantBy
<1> QED
  BY <1>1, <1>2, <1>3, <1>4, <1>5, StepKinds, RunnerSteps
  DEF Deploy, DatePasses, vars, registryVars

(* While an old server answers, no runner runs and the version is the old     *)
(* one; afterwards nothing is evaluated with the old code any more.          *)
LEMMA OldStep == TypeOK /\ RunInv /\ OldInv /\ [Next]_vars => OldInv'
<1> DEFINE Kept(k) ==
      version' = "old" /\ \A q \in Runners : phase'[q] = "evaluating" => Pending(k, q)'
<1> SUFFICES ASSUME TypeOK, RunInv, OldInv, [Next]_vars,
                    NEW k \in Hooks, k \in Valid', k \notin overtaken',
                    by'[k] = "old", ~late'[k], observes'[k] # {}
             PROVE  Kept(k)
  BY DEF OldInv, Valid, Registered
<1>0. k \in Registered'
  BY DEF Valid
<1>1. ASSUME NEW g \in Hooks, NEW doc \in Docs, NEW code \in Codes, Save(g, doc, code)
      PROVE  Kept(k)
  <2>1. /\ overtaken \subseteq overtaken'
        /\ UNCHANGED <<phase, version, todo>> /\ Serving(code)
    BY <1>1 DEF Save, runnerVars
  <2>2. CASE k = g
    <3>1. code = "old"
      BY <1>1, <2>2, SaveObserves
    <3>2. servers # "new"
      BY <2>1, <3>1 DEF Serving
    <3> QED BY <2>1, <3>2 DEF RunInv, TypeOK, Codes
  <2>3. CASE k # g
    <3>1. /\ k \in Registered /\ webhook'[k] = webhook[k]
          /\ observes'[k] = observes[k] /\ by'[k] = by[k] /\ late'[k] = late[k]
      <4>1. Registered' = Registered \cup {g} /\ webhook'[k] = webhook[k]
        BY <1>1, <2>3, SaveMeans
      <4>2. observes'[k] = observes[k] /\ by'[k] = by[k] /\ late'[k] = late[k]
        BY <1>1, <2>3, SaveObserves
      <4> QED BY <1>0, <2>3, <4>1, <4>2
    <3>2. k \in Valid /\ k \notin overtaken
      BY <2>1, <3>1 DEF Valid
    <3> QED BY <2>1, <3>1, <3>2 DEF OldInv, Pending
  <2> QED BY <2>2, <2>3
<1>2. ASSUME NEW hs \in SUBSET Hooks, Delete(hs) PROVE Kept(k)
  <2>1. /\ k \in Registered /\ webhook'[k] = webhook[k] /\ observes'[k] = observes[k]
        /\ k \notin overtaken /\ UNCHANGED <<by, late, version, phase, todo>>
    <3>1. overtaken' = overtaken \ hs /\ UNCHANGED <<by, late, version, phase, todo>>
      BY <1>2 DEF Delete, runnerVars
    <3>2. Registered' = Registered \ hs
      BY <1>2, DeleteMeans
    <3>3. k \in Hooks \ hs
      BY <1>0, <3>2
    <3> QED BY <1>0, <1>2, <3>1, <3>2, <3>3, DeleteMeans
  <2>2. k \in Valid
    BY <2>1 DEF Valid
  <2> QED BY <2>1, <2>2 DEF OldInv, Pending
<1>3. ASSUME NEW r \in Runners, NEW s \in todo[r], Reevaluate(r, s) PROVE Kept(k)
  <2>1. UNCHANGED <<webhook, overtaken, version, phase>>
    BY <1>3 DEF Reevaluate
  <2>2. k # s.key
    BY <1>3, ReevaluateObserves
  <2>3. observes'[k] = observes[k] /\ by'[k] = by[k] /\ late'[k] = late[k]
    BY <1>0, <1>3, <2>2, ReevaluateObserves
  <2>4. \A q \in Runners : Pending(k, q) => Pending(k, q)'
    <3>1. todo'[r] = todo[r] \ {s} /\ \A q \in Runners : q # r => todo'[q] = todo[q]
      BY <1>3 DEF Reevaluate, Left, TypeOK
    <3> QED BY <2>1, <2>2, <3>1 DEF Pending
  <2>5. k \in Valid
    BY <2>1 DEF Valid, Registered
  <2> QED BY <2>1, <2>3, <2>4, <2>5 DEF OldInv
<1>4. ASSUME NEW r \in Runners, NEW s \in todo[r], MarkInvalid(r, s) PROVE Kept(k)
  <2>1. k \in Registered /\ webhook'[k].id = webhook[k].id
        /\ k \in Valid /\ ~(Exists(s) /\ k = s.key)
    BY <1>0, <1>4, MarkMeans DEF Valid
  <2>2. UNCHANGED <<observes, late, by, overtaken, version, phase>>
    BY <1>4 DEF MarkInvalid
  <2>3. \A q \in Runners : Pending(k, q) => Pending(k, q)'
    <3>1. todo'[r] = todo[r] \ {s} /\ \A q \in Runners : q # r => todo'[q] = todo[q]
      BY <1>4 DEF MarkInvalid, Left, TypeOK
    <3>2. \A x \in {s} : ~(x.key = k /\ x.id = webhook[k].id)
      BY <2>1 DEF Exists
    <3> QED BY <2>1, <3>1, <3>2 DEF Pending
  <2> QED BY <2>1, <2>2, <2>3 DEF OldInv
<1>5. CASE UNCHANGED <<webhook, observes, late, by, overtaken, version, phase, todo>>
  BY <1>5 DEF OldInv, Valid, Registered, Pending
<1>6. ASSUME NEW r \in Runners, RunnerStep(r) PROVE Kept(k)
  <2>1. UNCHANGED <<webhook, observes, late, by, overtaken>>
    BY <1>6, RunnerSteps DEF registryVars
  <2>2. k \in Valid /\ k \in Registered
    BY <2>1 DEF Valid, Registered
  <2>3. version = "old" /\ \A q \in Runners : phase[q] = "evaluating" => Pending(k, q)
    BY <2>1, <2>2 DEF OldInv
  <2>4. CASE FinishMigration(r)
    BY <2>3, <2>4 DEF FinishMigration, Pending
  <2>5. CASE ListStale(r)
    <3>1. IsStale(k) /\ UNCHANGED version /\ phase' = [phase EXCEPT ![r] = "evaluating"]
      BY <2>1, <2>2, <2>5 DEF ListStale, SetPhase, IsStale, Valid
    <3>2. \A q \in Runners : q # r => todo'[q] = todo[q] /\ phase'[q] = phase[q]
      BY <2>5, <3>1, ListMeans DEF TypeOK
    <3>3. Pending(k, r)'
      BY <2>1, <2>2, <2>5, <3>1, ListMeans DEF Pending
    <3> QED BY <2>1, <2>3, <3>1, <3>2, <3>3 DEF Pending
  <2>6. CASE StartMigration(r) \/ Abort(r)
    <3>1. /\ UNCHANGED version /\ phase'[r] # "evaluating"
          /\ \A q \in Runners : q # r => todo'[q] = todo[q] /\ phase'[q] = phase[q]
      BY <2>6 DEF StartMigration, Abort, SetPhase, TypeOK
    <3> QED BY <2>1, <2>3, <3>1 DEF Pending
  <2>7. CASE Tell(r)
    BY <2>1, <2>3, <2>7 DEF Tell, Pending
  <2> QED
    BY <1>6, <2>4, <2>5, <2>6, <2>7 DEF RunnerStep, MigrationFails, NotFound
<1> QED
  BY <1>1, <1>2, <1>3, <1>4, <1>5, <1>6, StepKinds
  DEF Deploy, DatePasses, vars, registryVars, runnerVars

(* Whatever fails and whoever saves meanwhile, after the migration a valid    *)
(* webhook observes what the new code says its operation does, except as the  *)
(* property names.                                                           *)
THEOREM StaleAreReevaluatedAlways == Spec => []StaleAreReevaluated
<1>1. Init => NewInv /\ OldInv
  BY DEF Init, NewInv, OldInv, Valid, Registered
<1>2. TypeOK /\ NewInv /\ OldInv => StaleAreReevaluated
  BY DEF TypeOK, NewInv, OldInv, StaleAreReevaluated, Migrated, Valid, Registered, Codes
<1> QED
  BY <1>1, <1>2, NewStep, OldStep, RunAlways, DocsAlways, TypeCorrect, PTL DEF Spec
=============================================================================
