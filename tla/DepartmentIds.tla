--------------------------- MODULE DepartmentIds ---------------------------
(* The department id a project gets once its finances are to be confirmed    *)
(* (components/project/handlers/set-department-id.handler.ts), out of the    *)
(* ranges of its funding account or partner (components/finance/department), *)
(* while others save projects, administrators set ids by hand, directly or   *)
(* in a change request, and accounts get other ranges.                       *)
(*                                                                           *)
(* A save is a transaction of several queries, which Neo4j isolates no more  *)
(* than by what is committed: a write locks its project, and the uniqueness  *)
(* constraint locks the value.  An id is the string it is padded to.  The    *)
(* constraint is one on a label of the properties that hold the ids.         *)
EXTENDS Naturals, Sequences

CONSTANTS
  Projects,
  Savers,       \* transactions that can be open at once
  Accounts,     \* funding accounts and partners
  AccountOf,    \* of each project
  Ids,
  Blocks,       \* enumerations of ranges: the ids, in their order
  FirstBlock,   \* the one each account begins with
  External,     \* ExternalDepartmentId: used by other systems
  NONE,         \* no id
  KEEP,         \* a save that does not set the id
  MaxRuns,      \* runs of a transaction before the driver gives up
  MaxSaves,     \* bound: saves
  MaxMoves      \* bound: changes of an account's ranges

ASSUME AccountAssumption == AccountOf \in [Projects -> Accounts]
ASSUME BlocksAssumption ==
  /\ \A b \in Blocks : b \in Seq(Ids)
  /\ FirstBlock \in Blocks
ASSUME ExternalAssumption == External \subseteq Ids
ASSUME ValuesAssumption == NONE \notin Ids /\ KEEP \notin Ids \cup {NONE}
ASSUME BoundsAssumption ==
  MaxRuns \in Nat \ {0} /\ MaxSaves \in Nat /\ MaxMoves \in Nat

VARIABLES
  live,         \* the projects that were not deleted
  id,           \* the id of each, as committed
  due,          \* is its step one with an id?  as committed
  block,        \* the ranges of each account
  asked,        \* what the open change request of each makes of its id
  unlabelled,   \* projects whose property is without the constraint's label
  tx,           \* what each saver is doing
  saves, moves

(* Observations, read by the properties and by no action.                    *)
VARIABLES
  hand,         \* projects whose id was last set by hand
  stale         \* projects saved by an update that had read an older state

vars ==
  <<live, id, due, block, asked, unlabelled, tx, saves, moves, hand, stale>>

(* saw, will: departmentId and step of the project that the hook is given;   *)
(* value: what this transaction has written, label: with the label?  ask:    *)
(* what it has put into the request; next: the id it is writing.             *)
Idle == [phase |-> "idle", project |-> NONE, kind |-> "update", saw |-> NONE,
         will |-> FALSE, value |-> KEEP, next |-> NONE, runs |-> 0,
         ask |-> KEEP, label |-> TRUE, byHand |-> FALSE, fresh |-> TRUE]

Init ==
  /\ live = Projects
  /\ id = [p \in Projects |-> NONE]
  /\ due = [p \in Projects |-> FALSE]
  /\ block = [a \in Accounts |-> FirstBlock]
  /\ asked = [p \in Projects |-> KEEP] /\ unlabelled = {}
  /\ tx = [t \in Savers |-> Idle]
  /\ saves = 0 /\ moves = 0
  /\ hand = {} /\ stale = {}

Open(t) == tx[t].phase # "idle"
Own(t) == tx[t].project
Unchanged ==
  UNCHANGED
    <<live, id, due, block, asked, unlabelled, saves, moves, hand, stale>>

(* Who has written the project, until it commits or rolls back?              *)
Locked(p) == \E t \in Savers :
  Own(t) = p /\ tx[t].phase \in {"saved", "writing", "done"}

(* Constrained values that another open transaction has written or taken.    *)
Held(t) ==
  LET writers == {s \in Savers \ {t} : Open(s) /\ tx[s].value # KEEP}
  IN  ({tx[s].value : s \in {w \in writers : tx[w].label}} \cup
       {id[Own(s)] : s \in {w \in writers : Own(w) \notin unlabelled}}) \ {NONE}

Taken(p) == {id[q] : q \in live \ {p}} \ {NONE}

(* A bug that would break a property: no constraint.                         *)
BugNoConstraint(p) == {}
Constrained(p) == {id[q] : q \in live \ ({p} \cup unlabelled)} \ {NONE}

(* A property written in the last half hour is given another value, which    *)
(* makes no labels; any other is replaced by a new one, which has them.      *)
Labels(t) ==
  IF tx[t].value # KEEP THEN {tx[t].label}
  ELSE {TRUE, Own(t) \notin unlabelled}

---------------------------------------------------------------------------
(* ProjectService.update and ProjectWorkflowService.executeTransition.       *)

Start(t, p, kind) ==
  /\ ~Open(t) /\ p \in live
  /\ saves < MaxSaves /\ saves' = saves + 1
  /\ tx' = [tx EXCEPT ![t] = [Idle EXCEPT !.phase = "begun", !.project = p,
                                          !.kind = kind, !.runs = 1]]
  /\ UNCHANGED <<live, id, due, block, asked, unlabelled, moves, hand, stale>>

(* The project before the save, as the request has it if the save is in one. *)
InRequest(t) == tx[t].kind = "request" /\ asked[Own(t)] # KEEP

Read(t) ==
  /\ tx[t].phase = "begun" /\ Own(t) \in live
  /\ tx' = [tx EXCEPT ![t].phase = "read", ![t].fresh = TRUE,
                      ![t].saw = IF InRequest(t) THEN asked[Own(t)]
                                 ELSE id[Own(t)],
                      ![t].byHand = InRequest(t), ![t].will = due[Own(t)]]
  /\ Unchanged

(* The hook is given that project with the changes ...                       *)
WriteUpdate(t) ==
  /\ tx[t].phase = "read" /\ tx[t].kind # "transition"
  /\ Own(t) \in live /\ ~Locked(Own(t))
  /\ tx' = [tx EXCEPT ![t].phase = "saved"]
  /\ Unchanged

(* ... one of which can be the id ...                                        *)
SetByHand(t, v) ==
  /\ tx[t].phase = "read" /\ tx[t].kind = "update"
  /\ Own(t) \in live /\ ~Locked(Own(t))
  /\ v # tx[t].saw
  /\ \E label \in Labels(t) :
       /\ label => v \notin Held(t) \cup Constrained(Own(t))
       /\ tx' = [tx EXCEPT ![t] = [@ EXCEPT !.phase = "saved", !.saw = v, !.value = v,
                                            !.label = label, !.byHand = TRUE]]
  /\ Unchanged

(* ... which within a request is a property without labels, for later ...    *)
Propose(t, v) ==
  /\ tx[t].phase = "read" /\ tx[t].kind = "request"
  /\ Own(t) \in live /\ ~Locked(Own(t))
  /\ v # tx[t].saw
  /\ tx' = [tx EXCEPT ![t].phase = "saved", ![t].saw = v, ![t].ask = v,
                      ![t].byHand = TRUE]
  /\ Unchanged

(* ... but after a transition the project is read again.                     *)
WriteTransition(t, will) ==
  /\ tx[t].phase = "read" /\ tx[t].kind = "transition"
  /\ Own(t) \in live /\ ~Locked(Own(t))
  /\ tx' = [tx EXCEPT ![t].phase = "saved", ![t].fresh = TRUE,
                      ![t].saw = id[Own(t)], ![t].will = will]
  /\ Unchanged

(* Bugs that would break a property: only transitions do; all saves do.      *)
BugOnlyTransitions(t) ==
  tx[t].saw = NONE /\ tx[t].will /\ tx[t].kind = "transition"
BugAlways(t) == tx[t].will
ShouldSetDepartmentId(t) == tx[t].saw = NONE /\ tx[t].will

Leave(t) ==
  /\ tx[t].phase = "saved"
  /\ ~ShouldSetDepartmentId(t)
  /\ tx' = [tx EXCEPT ![t].phase = "done"]
  /\ Unchanged

(* Ids of projects, as this transaction sees them, and external ones.        *)
Used(t) ==
  Taken(Own(t)) \cup External \cup
    {IF tx[t].value = KEEP THEN id[Own(t)] ELSE tx[t].value}

Block(t) == block[AccountOf[Own(t)]]
Available(t) == {n \in DOMAIN Block(t) : Block(t)[n] \notin Used(t)}

(* The first of them.                                                        *)
ChooseNext(t) ==
  /\ tx[t].phase = "saved"
  /\ ShouldSetDepartmentId(t)
  /\ \E n \in Available(t) :
       /\ \A m \in Available(t) : n <= m
       /\ tx' = [tx EXCEPT ![t].phase = "writing", ![t].next = Block(t)[n]]
  /\ Unchanged

(* The same query writes it, to the project itself even within a request,    *)
(* after whoever writes the same value has ended.                            *)
WriteId(t) ==
  /\ tx[t].phase = "writing"
  /\ \E label \in Labels(t) :
       /\ label => tx[t].next \notin Held(t) \cup Constrained(Own(t))
       /\ tx' = [tx EXCEPT ![t].phase = "done", ![t].value = tx[t].next,
                           ![t].label = label]
  /\ Unchanged

(* A bug that would break a property: the query alone is repeated.           *)
BugRepeatQuery(t) == tx[t]
(* The UniquenessError is marked for retry: all is done again.               *)
Retried(t) ==
  IF tx[t].runs < MaxRuns
  THEN [Idle EXCEPT !.phase = "begun", !.project = Own(t),
                    !.kind = tx[t].kind, !.runs = tx[t].runs + 1]
  ELSE Idle

Conflict(t) ==
  /\ tx[t].phase = "writing" /\ TRUE \in Labels(t)
  /\ tx[t].next \in Constrained(Own(t)) \ Held(t)
  /\ tx' = [tx EXCEPT ![t] = Retried(t)]
  /\ Unchanged

RolledBack(t) == tx' = [tx EXCEPT ![t] = Idle] /\ Unchanged

(* "No department ID is available", or the project is gone.                  *)
Refuse(t) ==
  /\ \/ tx[t].phase = "saved" /\ ShouldSetDepartmentId(t) /\ Available(t) = {}
     \/ tx[t].phase \in {"begun", "read"} /\ Own(t) \notin live
  /\ RolledBack(t)

(* An id set by hand is another project's, or anything else fails.           *)
Fail(t) == Open(t) /\ RolledBack(t)

(* What others had read of a project is no longer true.                      *)
Outdated(p, x) == [x EXCEPT !.fresh = @ /\ (x.project # p)]

Commit(t) ==
  /\ tx[t].phase = "done"
  /\ LET p == Own(t)  x == tx[t] IN
       /\ due' = IF x.kind = "transition" THEN [due EXCEPT ![p] = x.will]
                 ELSE due
       /\ asked' = IF x.ask = KEEP THEN asked ELSE [asked EXCEPT ![p] = x.ask]
       /\ IF x.value = KEEP THEN UNCHANGED <<id, unlabelled, hand>>
          ELSE /\ id' = [id EXCEPT ![p] = x.value]
               /\ unlabelled' = IF x.label THEN unlabelled \ {p}
                                ELSE unlabelled \cup {p}
               /\ hand' = IF x.byHand THEN hand \cup {p} ELSE hand \ {p}
       /\ stale' = IF x.fresh THEN stale ELSE stale \cup {p}
       /\ tx' = [s \in Savers |-> IF s = t THEN Idle ELSE Outdated(p, tx[s])]
  /\ UNCHANGED <<live, block, saves, moves>>

---------------------------------------------------------------------------
(* What happens to projects and accounts besides.                            *)

(* The properties of the request are made active as they are, without the    *)
(* label that those they replace had.                                        *)
Approve(p) ==
  /\ p \in live /\ ~Locked(p) /\ asked[p] # KEEP
  /\ id' = [id EXCEPT ![p] = asked[p]]
  /\ asked' = [asked EXCEPT ![p] = KEEP]
  /\ unlabelled' = unlabelled \cup {p} /\ hand' = hand \cup {p}
  /\ tx' = [t \in Savers |-> Outdated(p, tx[t])]
  /\ UNCHANGED <<live, due, block, saves, moves, stale>>

(* It is rejected, or the project has no such property to replace.           *)
Drop(p) ==
  /\ asked[p] # KEEP
  /\ asked' = [asked EXCEPT ![p] = KEEP]
  /\ UNCHANGED
       <<live, id, due, block, unlabelled, tx, saves, moves, hand, stale>>

(* Its properties lose the label of the constraint.                          *)
DeleteProject(p) ==
  /\ p \in live /\ ~Locked(p)
  /\ live' = live \ {p}
  /\ id' = [id EXCEPT ![p] = NONE]
  /\ UNCHANGED <<due, block, asked, unlabelled, tx, saves, moves, hand, stale>>

(* Another account number, or other ranges of a partner.                     *)
ChangeBlock(a, b) ==
  /\ moves < MaxMoves /\ moves' = moves + 1
  /\ block[a] # b
  /\ block' = [block EXCEPT ![a] = b]
  /\ UNCHANGED <<live, id, due, asked, unlabelled, tx, saves, hand, stale>>

Step(t) ==
  \/ Read(t) \/ WriteUpdate(t)
  \/ \E v \in Ids \cup {NONE} : SetByHand(t, v) \/ Propose(t, v)
  \/ \E will \in BOOLEAN : WriteTransition(t, will)
  \/ Leave(t) \/ ChooseNext(t) \/ WriteId(t) \/ Conflict(t) \/ Refuse(t)
  \/ Commit(t)

(* Nobody wants anything else.                                               *)
Rest == (\A t \in Savers : ~Open(t)) /\ UNCHANGED vars

Next ==
  \/ \E t \in Savers, p \in Projects,
        k \in {"update", "request", "transition"} : Start(t, p, k)
  \/ \E t \in Savers : Step(t) \/ Fail(t)
  \/ \E p \in Projects : Approve(p) \/ Drop(p) \/ DeleteProject(p)
  \/ \E a \in Accounts, b \in Blocks : ChangeBlock(a, b)
  \/ Rest

Spec == Init /\ [][Next]_vars

(* Every query of an open transaction is answered.                           *)
FairSpec == Spec /\ \A t \in Savers : WF_vars(Step(t))

---------------------------------------------------------------------------
(* Properties.                                                               *)

Transactions ==
  [phase : {"idle", "begun", "read", "saved", "writing", "done"},
   project : Projects \cup {NONE}, kind : {"update", "request", "transition"},
   saw : Ids \cup {NONE}, will : BOOLEAN, value : Ids \cup {NONE, KEEP},
   next : Ids \cup {NONE}, runs : 0 .. MaxRuns, ask : Ids \cup {NONE, KEEP},
   label : BOOLEAN, byHand : BOOLEAN, fresh : BOOLEAN]

TypeOK ==
  /\ live \subseteq Projects
  /\ id \in [Projects -> Ids \cup {NONE}]
  /\ due \in [Projects -> BOOLEAN]
  /\ block \in [Accounts -> Blocks]
  /\ asked \in [Projects -> Ids \cup {NONE, KEEP}]
  /\ unlabelled \subseteq Projects
  /\ tx \in [Savers -> Transactions]
  /\ \A t \in Savers : Open(t) => Own(t) \in Projects
  /\ saves \in 0 .. MaxSaves /\ moves \in 0 .. MaxMoves
  /\ hand \subseteq Projects /\ stale \subseteq Projects

(* However many choose the first free id at once, no two projects have one,  *)
(* of those whose ids the constraint sees.  (An id that a change request     *)
(* brought has no label, whatever createProperty says of it, and can be      *)
(* another project's: README, 3.2.)                                          *)
NoTwoShare ==
  \A p, q \in live \ unlabelled : id[p] # NONE /\ id[p] = id[q] => p = q

(* A project whose step asks for an id has one, whichever of transitions,    *)
(* updates, conflicts and retries led there, unless a change request took it *)
(* away or a save from an older state of the project was committed.          *)
DueHasId == \A p \in live \ (stale \cup unlabelled) : due[p] => id[p] # NONE

(* An id that was given is the project's for good: only an administrator     *)
(* changes it, directly or in a change request.  (Two saves of one project   *)
(* that overlap are another matter: the later gives it a second id.)         *)
IdIsKept ==
  [][\A p \in live' \ (stale' \cup hand') : id[p] \in {NONE, id'[p]}]_vars

(* Locks, conflicts and retries keep no save from its end.                   *)
SavesEnd == \A t \in Savers : Open(t) ~> ~Open(t)
===========================================================================
