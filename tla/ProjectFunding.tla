--------------------------- MODULE ProjectFunding ---------------------------
(* The partnerships of a project and the records of its budget: one record   *)
(* for each funding partner and fiscal year of its dates, kept in step by    *)
(* hooks of every save (components/partnership, components/budget).  A save  *)
(* is made directly or within a change request, which is then approved or    *)
(* rejected.  A day is its fiscal year.  A save and its hooks are one        *)
(* transaction (MutationTx), and so one step.                                *)
EXTENDS Integers, FiniteSets

CONSTANTS
  Partners,      \* each is one organization
  Spans,         \* the pairs of start and end a project may be given
  Overrides,     \* the pairs a partnership may be given instead
  NULL,          \* no date
  PageSize,      \* partnerships on a page of their list: 25
  MaxSaves,      \* bound: saves
  MaxProposals,  \* bound: those within a change request
  MaxAmounts     \* bound: amounts entered

ASSUME DatesAssumption ==
  /\ NULL \notin Nat
  /\ Spans \subseteq (Nat \cup {NULL}) \X (Nat \cup {NULL})
  /\ Overrides \subseteq (Nat \cup {NULL}) \X (Nat \cup {NULL})
ASSUME PageAssumption == PageSize \in Nat \ {0}
ASSUME BoundsAssumption ==
  MaxSaves \in Nat /\ MaxProposals \in Nat /\ MaxAmounts \in Nat

VARIABLES
  project,       \* its dates
  status,        \* that of its budget
  partnerships,  \* of each partner: absent, proposed by the request, or live
  before,        \* the pairs of partners of which the first was added earlier
  records,       \* of the budget; inactive: created by the open request
  request,       \* open or not; once finalized, applied or not; its changes
  saves, proposals, amounts,
  crossed,       \* a request was rejected, had direct saves beside it, or took
                 \* a date away
  skipped        \* partners whose years a change of dates changed without
                 \* getting to their records, which no save made up for yet

vars == <<project, status, partnerships, before, records, request,
          saves, proposals, amounts, crossed, skipped>>

Dates == Nat \cup {NULL}
Pair(s, e) == [start |-> s, end |-> e]
Or(override, date) == IF override = NULL THEN date ELSE override

---------------------------------------------------------------------------
(* What a save sees: what is live or, within the request, its changes on top. *)

Absent == [state |-> "absent", deleting |-> FALSE, funding |-> FALSE,
           primary |-> FALSE, start |-> NULL, end |-> NULL]
NoChanges == [f \in {} |-> NULL]
Patched(record, changes) ==
  [f \in DOMAIN record |->
     IF f \in DOMAIN changes THEN changes[f] ELSE record[f]]
Override(changes, new) ==
  [f \in DOMAIN changes \cup DOMAIN new |->
     IF f \in DOMAIN new THEN new[f] ELSE changes[f]]
Changed(new, old) ==
  [f \in {x \in DOMAIN new : new[x] # old[x]} |-> new[f]]

Request(open, applied) ==
  [open |-> open, applied |-> applied, dates |-> NoChanges,
   changes |-> [p \in Partners |-> NoChanges]]

LiveOnes == {p \in Partners : partnerships[p].state = "live"}
Proposed == {p \in Partners : partnerships[p].state = "proposed"}
Seen(p, within) ==
  IF within THEN Patched(partnerships[p], request.changes[p])
  ELSE partnerships[p]
SeenProject(within) ==
  IF within THEN Patched(project, request.dates) ELSE project

(* A date that the request takes away still counts as long as it is live.    *)
MouSeen(seen) == Pair(Or(seen.start, project.start), Or(seen.end, project.end))
Effective(field, seen, live, mou) == Or(Or(seen[field], live[field]), mou[field])

(* lodash's range counts down when the end comes first.                      *)
FiscalYears(s, e) ==
  IF NULL \in {s, e} THEN {} ELSE IF s <= e THEN s .. e ELSE (e + 2) .. s

Years(seen, live, mou) ==
  IF seen.funding
  THEN FiscalYears(Effective("start", seen, live, mou),
                   Effective("end", seen, live, mou))
  ELSE {}

(* The years a partner is to have records for, as a save sees it.            *)
Due(p, within) ==
  Years(Seen(p, within), partnerships[p], MouSeen(SeenProject(within)))

(* The partnerships of the project that a save lists, oldest first, of which *)
(* it is given the first page.                                               *)
Listed(within) ==
  {p \in Partners :
     /\ partnerships[p].state = "live" \/ (within /\ partnerships[p].state = "proposed")
     /\ within => ~partnerships[p].deleting}
FirstPage(listed) ==
  {p \in listed : Cardinality({q \in listed : <<q, p>> \in before}) < PageSize}

---------------------------------------------------------------------------
(* Budget records.                                                           *)

Record(p, year, within) ==
  [partner |-> p, year |-> year, by |-> IF within THEN "request" ELSE "save",
   active |-> ~within, deleting |-> FALSE, amount |-> FALSE, proposed |-> FALSE]

RecordsOf(p, within) == {r \in records : r.partner = p /\ (r.active \/ within)}

(* Within the request a record is marked, and nothing else.                  *)
Removed(rs, within) ==
  IF within THEN {[r EXCEPT !.deleting = TRUE] : r \in rs} ELSE {}

(* A bug that would break a property: every record is created anew.          *)
BugRecreate(p, years, within) ==
  ({r \in records : r.partner = p} \ RecordsOf(p, within))
    \cup {Record(p, y, within) : y \in years}
(* A bug that would break a property: years that are gone keep their record. *)
BugNeverRemove(p, years, within) ==
  {r \in records : r.partner = p}
    \cup {Record(p, y, within) :
            y \in {x \in years : \A r \in RecordsOf(p, within) : r.year # x}}
(* The records of the years that are new, less those of the years gone.      *)
SyncedOf(p, years, within) ==
  LET previous == RecordsOf(p, within)
      removals == {r \in previous : r.year \notin years}
      additions == {y \in years : \A r \in previous : r.year # y}
  IN  ({r \in records : r.partner = p} \ removals)
        \cup Removed(removals, within)
        \cup {Record(p, y, within) : y \in additions}

(* years: the fiscal years of each partner that is synced.                   *)
Synced(years, within) ==
  {r \in records : r.partner \notin DOMAIN years}
    \cup UNION {SyncedOf(p, years[p], within) : p \in DOMAIN years}

---------------------------------------------------------------------------
Init ==
  /\ \E d \in Spans : project = Pair(d[1], d[2])
  /\ status = "Pending"
  /\ partnerships = [p \in Partners |-> Absent]
  /\ records = {}
  /\ request = Request(FALSE, FALSE)
  /\ saves = 0 /\ proposals = 0 /\ amounts = 0
  /\ before = {} /\ crossed = FALSE /\ skipped = {}

(* Counts a save, which leaves dates so, against its bound.                  *)
Saves(dates, within) ==
  /\ saves < MaxSaves
  /\ saves' = saves + 1
  /\ IF within
     THEN /\ request.open /\ proposals < MaxProposals
          /\ proposals' = proposals + 1
          /\ crossed' = (crossed \/ NULL \in dates)
     ELSE /\ crossed' = (crossed \/ request.open)
          /\ UNCHANGED proposals

(* A bug that would break a property: the others stay primary.               *)
BugKeepPrimaries(p, ps) == ps
(* The other live ones, if this one is live itself: in the request as well.  *)
PrimaryRemovedFromOthers(p, ps) ==
  [q \in Partners |->
     IF q # p /\ ps[p].state = "live" /\ ps[q].state = "live"
     THEN [ps[q] EXCEPT !.primary = FALSE] ELSE ps[q]]

IsFirst(within) == LiveOnes = {} /\ (within => Proposed = {})

(* Bound: a partner that the request proposes is not added beside it, too.   *)
CreatePartnership(p, funding, primary, s, e, within) ==
  LET new == [Absent EXCEPT
                !.state = IF within THEN "proposed" ELSE "live",
                !.funding = funding,
                !.primary = primary \/ IsFirst(within),
                !.start = s, !.end = e]
      added == [partnerships EXCEPT ![p] = new]
  IN  /\ partnerships[p].state = "absent"
      /\ Saves({}, within)
      /\ partnerships' = IF new.primary THEN PrimaryRemovedFromOthers(p, added)
                         ELSE added
      /\ before' = {x \in before : p \notin {x[1], x[2]}}
                     \cup ((Proposed \cup LiveOnes) \X {p})
      /\ UNCHANGED <<project, status, request, amounts>>
      /\ records' = IF funding THEN Synced([q \in {p} |-> Due(q, within)'], within)
                    ELSE records
      /\ skipped' = IF funding THEN skipped \ {p} ELSE skipped

(* Primary can be set, and not be taken away.  What the request created, or  *)
(* marked, is updated in place.  The years are those of what is read back.   *)
UpdatePartnership(p, funding, primary, s, e, within) ==
  LET old == Seen(p, within)
      new == [old EXCEPT !.funding = funding, !.primary = primary \/ @,
                         !.start = s, !.end = e]
      changes == Changed(new, old)
      asked == IF new.primary # old.primary
               THEN PrimaryRemovedFromOthers(p, partnerships) ELSE partnerships
      inPlace == ~within \/ old.state = "proposed" \/ old.deleting
  IN  /\ old.state = "live" \/ (within /\ old.state = "proposed")
      /\ Saves({changes[f] : f \in DOMAIN changes}, within)
      /\ IF inPlace
         THEN /\ partnerships' = [asked EXCEPT ![p] = Patched(@, changes)]
              /\ UNCHANGED request
         ELSE /\ partnerships' = asked
              /\ request' = [request EXCEPT
                               !.changes[p] = Override(@, changes)]
      /\ UNCHANGED <<project, status, before, amounts>>
      /\ records' = Synced([q \in {p} |-> Due(q, within)'], within)
      /\ skipped' = IF within THEN skipped ELSE skipped \ {p}

MayGo(p) == partnerships[p].primary => LiveOnes = {p}

(* The records go at once, within the request as well: the partnership is    *)
(* read as it is, and so the hook knows of no change request.                *)
DeletePartnership(p, within) ==
  /\ p \in LiveOnes /\ MayGo(p)
  /\ Saves({}, within)
  /\ records' = IF partnerships[p].funding
                THEN Synced([q \in {p} |-> {}], FALSE) ELSE records
  /\ partnerships' = IF within THEN [partnerships EXCEPT ![p].deleting = TRUE]
                     ELSE [partnerships EXCEPT ![p] = Absent]
  /\ request' = IF within THEN request
                ELSE [request EXCEPT !.changes[p] = NoChanges]
  /\ skipped' = IF partnerships[p].funding /\ ~within THEN skipped \ {p} ELSE skipped
  /\ UNCHANGED <<project, status, before, amounts>>

(* No override of a live partnership may lie outside of the project's dates. *)
OverridesConflict(mou) ==
  \E p \in LiveOnes :
    LET q == partnerships[p] IN
    \/ NULL \notin {mou.start, q.start} /\ mou.start > q.start
    \/ NULL \notin {mou.end, q.end} /\ mou.end < q.end

(* Of the partnerships that the save sees, the funding ones on the first     *)
(* page of their list follow.                                                *)
UpdateProject(d, within) ==
  LET old == SeenProject(within)
      new == Pair(d[1], d[2])
      page == FirstPage(Listed(within))
      following == {p \in page : Seen(p, within).funding}
  IN  /\ new # old
      /\ ~OverridesConflict(new)
      /\ Saves({d[1], d[2]}, within)
      /\ IF within
         THEN /\ request' = [request EXCEPT
                               !.dates = Override(@, Changed(new, old))]
              /\ UNCHANGED project
         ELSE project' = new /\ UNCHANGED request
      /\ UNCHANGED <<status, partnerships, before, amounts>>
      /\ records' = Synced([p \in following |-> Due(p, within)'], within)
      /\ skipped' = (IF within THEN skipped ELSE skipped \ following)
           \cup {p \in Listed(within) \ page : Due(p, within)' # Due(p, within)}

(* The change of an amount within the request: of a record that is live, it  *)
(* joins the request.                                                        *)
EnterAmount(r, within) ==
  /\ amounts < MaxAmounts
  /\ r.active \/ within
  /\ records' = (records \ {r}) \cup
       {IF within /\ r.active THEN [r EXCEPT !.proposed = TRUE]
        ELSE [r EXCEPT !.amount = TRUE]}
  /\ amounts' = amounts + 1
  /\ within => request.open
  /\ UNCHANGED <<project, status, partnerships, before, request, saves,
                 proposals, crossed, skipped>>

(* The project becomes active, and its budget current, or goes back.         *)
BudgetStatus ==
  /\ ~request.open
  /\ status' = IF status = "Pending" THEN "Current" ELSE "Pending"
  /\ UNCHANGED <<project, partnerships, before, records, request, saves,
                 proposals, amounts, crossed, skipped>>

(* Only active projects have change requests.                                *)
OpenRequest ==
  /\ status = "Current" /\ ~request.open /\ proposals < MaxProposals
  /\ request' = Request(TRUE, FALSE)
  /\ UNCHANGED <<project, status, partnerships, before, records, saves,
                 proposals, amounts, crossed, skipped>>

---------------------------------------------------------------------------
(* Finalizing: what was created goes live and what was marked is deleted,    *)
(* whether the request is approved or not.                                   *)
Finalized(q) ==
  IF q.deleting \/ q.state = "absent" THEN Absent ELSE [q EXCEPT !.state = "live"]
Unmarked(r) == [r EXCEPT !.deleting = FALSE, !.proposed = FALSE]

(* A bug that would break a property: the new records stay inactive.         *)
BugStayInactive == {r \in records : r.active}
(* The records that were created; those that were marked, or given another   *)
(* amount, stay as they are.                                                 *)
Applied == {[Unmarked(r) EXCEPT !.active = TRUE] : r \in records}

Approve ==
  /\ request.open
  /\ project' = SeenProject(TRUE)
  /\ partnerships' = [p \in Partners |-> Finalized(Seen(p, TRUE))]
  /\ records' = Applied
  /\ request' = Request(FALSE, TRUE)
  /\ UNCHANGED <<status, before, saves, proposals, amounts, crossed, skipped>>

Reject ==
  /\ request.open
  /\ partnerships' = [p \in Partners |-> Finalized(partnerships[p])]
  /\ records' = {Unmarked(r) : r \in {x \in records : x.active}}
  /\ request' = Request(FALSE, FALSE)
  /\ crossed' = TRUE
  /\ UNCHANGED <<project, status, before, saves, proposals, amounts, skipped>>

Next ==
  \/ \E within \in BOOLEAN :
       \/ \E p \in Partners, funding, primary \in BOOLEAN, o \in Overrides :
            \/ CreatePartnership(p, funding, primary, o[1], o[2], within)
            \/ UpdatePartnership(p, funding, primary, o[1], o[2], within)
       \/ \E p \in Partners : DeletePartnership(p, within)
       \/ \E d \in Spans : UpdateProject(d, within)
       \/ \E r \in records : EnterAmount(r, within)
  \/ BudgetStatus \/ OpenRequest \/ Approve \/ Reject

Spec == Init /\ [][Next]_vars

---------------------------------------------------------------------------
(* Properties.  Direct: nothing was saved within a change request.           *)

Direct == proposals = 0

PartnershipType ==
  [state : {"absent", "proposed", "live"}, deleting : BOOLEAN,
   funding : BOOLEAN, primary : BOOLEAN, start : Dates, end : Dates]
RecordType ==
  [partner : Partners, year : Nat, by : {"save", "request"}, active : BOOLEAN,
   deleting : BOOLEAN, amount : BOOLEAN, proposed : BOOLEAN]

(* Every variable has its type, and what is proposed is of an open request.  *)
TypeOK ==
  /\ project.start \in Dates /\ project.end \in Dates
  /\ status \in {"Pending", "Current"}
  /\ \A p \in Partners : partnerships[p] \in PartnershipType
  /\ \A r \in records : r \in RecordType
  /\ request.open \in BOOLEAN /\ request.applied \in BOOLEAN
  /\ saves \in 0 .. MaxSaves /\ proposals \in 0 .. MaxProposals
  /\ amounts \in 0 .. MaxAmounts
  /\ crossed \in BOOLEAN
  /\ before \subseteq Partners \X Partners /\ skipped \subseteq Partners
  /\ ~request.open =>
       /\ Proposed = {}
       /\ \A p \in Partners : ~partnerships[p].deleting
       /\ \A r \in records : r.active

(* A project with partnerships has exactly one primary: the first one is,    *)
(* and "To remove primary from this partnership, set another partnership as  *)
(* the primary" (partnership.service.ts).                                    *)
Primaries == {p \in LiveOnes : partnerships[p].primary}
OnePrimary ==
  Direct /\ LiveOnes # {} =>
    \E p \in Primaries : Primaries = {p}

(* However dates, overrides and types were changed, each funding partner has *)
(* one record for each fiscal year of its dates, and nobody has another,     *)
(* unless a change of dates skipped it.  So does a budget that is current:   *)
(* "only continue if it is pending" (the handler's comment) is not what the  *)
(* handler does.                                                             *)
RecordsFollowDates ==
  Direct => \A p \in Partners \ skipped :
    /\ {r.year : r \in RecordsOf(p, FALSE)} = Due(p, FALSE)
    /\ \A r1, r2 \in RecordsOf(p, FALSE) : r1.year = r2.year => r1 = r2

(* Records are made within a change request as they are outside: its view,   *)
(* and what is live once it was approved, has one for each year.  Direct     *)
(* saves beside it, rejections, dates that the request took away, and the    *)
(* partners that a change of dates skipped are not made up for.              *)
CoveredIn(within) ==
  \A p \in Partners \ skipped :
    /\ partnerships[p].state # "absent" /\ ~partnerships[p].deleting
    /\ within \/ partnerships[p].state = "live"
    => Due(p, within) \subseteq {r.year : r \in RecordsOf(p, within)}
RequestsCoverDates ==
  ~crossed => CoveredIn(FALSE) /\ (request.open => CoveredIn(TRUE))

(* An amount that was entered is not lost as long as its year remains one of *)
(* its partner's: records are not created anew.                              *)
AmountsAreKept ==
  [][\A r \in records :
       (/\ r.active /\ r.amount
        /\ partnerships'[r.partner].state = "live"
        /\ ~partnerships'[r.partner].deleting
        /\ request' = request
        /\ r.year \in Due(r.partner, FALSE)')
         => \E x \in records' : x.active /\ x.amount /\ x.partner = r.partner
                                /\ x.year = r.year]_vars
===========================================================================
