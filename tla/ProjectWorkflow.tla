-------------------------- MODULE ProjectWorkflow --------------------------
(***************************************************************************)
(* ProjectWorkflow: the steps of one project, the statuses of its          *)
(* engagements and its budget.  A user executes a transition in two parts: *)
(* the project is read and the transition resolved (Resolve...), then the  *)
(* step is written and every handler of the transition runs (Record).  The *)
(* second part is one transaction: a refused engagement undoes all of it.  *)
(* Nothing keeps others from writing between the two parts; what two       *)
(* transactions that run at the same time may see of each other inside a   *)
(* single Record or ChangeStatus is left out.                              *)
(*                                                                         *)
(* Abstractions: which role may execute which transition, or approve which *)
(* status, is left out, so staff may do whatever any of their roles may;   *)
(* administrators, and Field Services for engagements, skip the engagement *)
(* rules and count as overrides.  Only those steps and statuses of the     *)
(* past are remembered that something goes back to (Homes), each once,     *)
(* most recent first.  Legacy statuses, changesets, department ids, direct *)
(* edits of a budget and the dates are left out; so are missing required   *)
(* fields, beyond the fact that they can refuse a transition.              *)
(***************************************************************************)
EXTENDS Naturals, SequencesExt

CONSTANTS Users,        (* who may be executing something                  *)
          Engagements,  (* identities of engagements                       *)
          NoRun,        (* "this user executes nothing"                    *)
          MaxOverrides  (* bound: overrides in a behaviour                 *)

ASSUME MaxOverridesAssumption == MaxOverrides \in Nat

VARIABLES
  multiplication,  (* is it a multiplication project?                       *)
  step,            (* the project's step                                    *)
  stepPast,        (* the homes among its previous steps                    *)
  engagement,      (* [status, past] of each engagement; "None" = no such   *)
  budget,          (* the status of the project's budget                    *)
  run              (* what each user has resolved and not yet recorded      *)

(* Observations, read by the bound and the properties only.                 *)
VARIABLES
  overrides,       (* how often a privileged user skipped the rules         *)
  overtaken,       (* users whose run was decided on what is no longer so   *)
  crossed          (* was a run recorded that had been overtaken?           *)

projectVars == <<multiplication, step, stepPast, budget>>
vars == <<projectVars, engagement, run, overrides, overtaken, crossed>>

---------------------------------------------------------------------------
(* Steps, statuses and what is remembered of them.                          *)

Development == {"EarlyConversations", "PendingConceptApproval",
  "PrepForConsultantEndorsement", "PendingConsultantEndorsement",
  "PrepForFinancialEndorsement", "PendingFinancialEndorsement",
  "FinalizingProposal", "PendingRegionalDirectorApproval",
  "PendingZoneDirectorApproval", "PendingFinanceConfirmation",
  "OnHoldFinanceConfirmation"}

Undertaken == {"Active", "ActiveChangedPlan", "DiscussingChangeToPlan",
  "PendingChangeToPlanApproval", "PendingChangeToPlanConfirmation",
  "DiscussingSuspension", "PendingSuspensionApproval", "Suspended",
  "DiscussingReactivation", "PendingReactivationApproval",
  "DiscussingTermination", "PendingTerminationApproval",
  "FinalizingCompletion"}

Steps == Development \cup Undertaken
           \cup {"DidNotDevelop", "Rejected", "Terminated", "Completed"}

StepToStatus(s) ==
  CASE s \in Development                   -> "InDevelopment"
    [] s \in Undertaken                    -> "Active"
    [] s \in {"DidNotDevelop", "Rejected"} -> "DidNotDevelop"
    [] OTHER                               -> s

Terminal == {"DidNotDevelop", "Rejected", "Terminated", "Completed"}
Ongoing  == {"InDevelopment", "Active", "ActiveChangedPlan",
  "DiscussingTermination", "DiscussingReactivation",
  "DiscussingChangeToPlan", "DiscussingSuspension", "Suspended",
  "FinalizingCompletion"}

Works == <<"Active", "ActiveChangedPlan">>
Homes == <<"Active", "ActiveChangedPlan", "DiscussingReactivation",
           "Suspended">>
Elements(s) == {s[i] : i \in DOMAIN s}

(* The places in the past of one of these choices.                           *)
Found(choices, past) == {i \in DOMAIN past : past[i] \in Elements(choices)}

(* A bug that would break a property.                                        *)
BugOldest(choices, past) ==
  LET found == Found(choices, past)
  IN  IF found = {} THEN choices[1]
      ELSE past[CHOOSE i \in found : \A j \in found : j <= i]

(* The previous values once x is replaced.                                   *)
Without(x, past) ==
  IF x \in Elements(past)
  THEN RemoveAt(past, CHOOSE i \in DOMAIN past : past[i] = x)
  ELSE past

Remember(x, past) ==
  IF x \in Elements(Homes) THEN <<x>> \o Without(x, past) ELSE past

(* Of the choices, the one that was left most recently; the first of them if *)
(* none was ever left.                                                       *)
MostRecent(choices, past) ==
  LET found == Found(choices, past)
  IN  IF found = {} THEN choices[1]
      ELSE past[CHOOSE i \in found : \A j \in found : i <= j]

Exists(e)    == engagement[e].status # "None"
IsOngoing(e) == engagement[e].status \in Ongoing

---------------------------------------------------------------------------
(* The transitions of the workflow: from any of these steps, to the most    *)
(* recent of those, if these conditions hold.                               *)

T(from, to, conditions) == [from |-> from, to |-> to, conditions |-> conditions]
Move(from, to)     == T({from}, <<to>>, {})
Back(from, homes)  == T({from}, homes, {})

(* An approval out of the early conversations requires an engagement.       *)
FirstApproval(to, conditions) ==
  T({"EarlyConversations"}, <<to>>, conditions \cup {"HasEngagement"})

DevelopmentTransitions == {
  FirstApproval("PendingRegionalDirectorApproval", {"IsMultiplication"}),
  FirstApproval("PendingFinanceConfirmation", {"IsMultiplication"}),
  FirstApproval("PendingConceptApproval", {"IsMomentumInternship"}),
  Move("EarlyConversations", "DidNotDevelop"),
  Move("PendingConceptApproval", "PrepForConsultantEndorsement"),
  Move("PendingConceptApproval", "EarlyConversations"),
  Move("PendingConceptApproval", "Rejected"),
  Move("PrepForConsultantEndorsement", "PendingConsultantEndorsement"),
  T({"PrepForConsultantEndorsement", "PrepForFinancialEndorsement",
     "FinalizingProposal"}, <<"PendingConceptApproval">>, {}),
  T({"PrepForConsultantEndorsement", "PrepForFinancialEndorsement",
     "FinalizingProposal"}, <<"DidNotDevelop">>, {}),
  Move("PendingConsultantEndorsement", "PrepForFinancialEndorsement"),
  Move("PrepForFinancialEndorsement", "PendingFinancialEndorsement"),
  T({"PrepForFinancialEndorsement", "FinalizingProposal"},
    <<"PendingConsultantEndorsement">>, {}),
  Move("PendingFinancialEndorsement", "FinalizingProposal"),
  Move("FinalizingProposal", "PendingRegionalDirectorApproval"),
  Move("FinalizingProposal", "PendingFinancialEndorsement"),
  T({"PendingRegionalDirectorApproval"}, <<"EarlyConversations">>,
    {"IsMultiplication"}),
  Move("PendingRegionalDirectorApproval", "PendingFinanceConfirmation"),
  T({"PendingRegionalDirectorApproval"}, <<"PendingZoneDirectorApproval">>,
    {"IsMomentumInternship"}),
  T({"PendingRegionalDirectorApproval"}, <<"FinalizingProposal">>,
    {"IsMomentumInternship"}),
  Move("PendingRegionalDirectorApproval", "DidNotDevelop"),
  Move("PendingRegionalDirectorApproval", "Rejected"),
  Move("PendingZoneDirectorApproval", "PendingFinanceConfirmation"),
  Move("PendingZoneDirectorApproval", "FinalizingProposal"),
  Move("PendingZoneDirectorApproval", "Rejected"),
  T({"PendingFinanceConfirmation", "OnHoldFinanceConfirmation"},
    <<"Active">>, {}),
  T({"PendingFinanceConfirmation"}, <<"PendingRegionalDirectorApproval">>,
    {"IsMultiplication"}),
  Move("PendingFinanceConfirmation", "DidNotDevelop"),
  T({"PendingFinanceConfirmation"}, <<"OnHoldFinanceConfirmation">>,
    {"IsMomentumInternship"}),
  T({"PendingFinanceConfirmation", "OnHoldFinanceConfirmation"},
    <<"FinalizingProposal">>, {"IsMomentumInternship"}),
  T({"PendingFinanceConfirmation", "OnHoldFinanceConfirmation"},
    <<"Rejected">>, {}) }

ActiveTransitions == {
  T(Elements(Works), <<"DiscussingChangeToPlan">>, {}),
  T(Elements(Works), <<"DiscussingTermination">>, {}),
  T(Elements(Works), <<"FinalizingCompletion">>, {}),
  Move("DiscussingChangeToPlan", "PendingChangeToPlanApproval"),
  Move("DiscussingChangeToPlan", "PendingChangeToPlanConfirmation"),
  Move("DiscussingChangeToPlan", "DiscussingSuspension"),
  Back("DiscussingChangeToPlan", Works),
  T({"PendingChangeToPlanApproval", "PendingChangeToPlanConfirmation"},
    <<"DiscussingChangeToPlan">>, {}),
  Move("PendingChangeToPlanApproval", "PendingChangeToPlanConfirmation"),
  Back("PendingChangeToPlanApproval", Works),
  Move("PendingChangeToPlanConfirmation", "ActiveChangedPlan"),
  Back("PendingChangeToPlanConfirmation", Works) }

SuspensionTransitions == {
  Move("DiscussingSuspension", "PendingSuspensionApproval"),
  Back("DiscussingSuspension", Works),
  Move("PendingSuspensionApproval", "DiscussingSuspension"),
  Move("PendingSuspensionApproval", "Suspended"),
  Back("PendingSuspensionApproval", Works),
  Move("Suspended", "DiscussingReactivation"),
  T({"Suspended", "DiscussingReactivation"}, <<"DiscussingTermination">>, {}),
  Move("DiscussingReactivation", "PendingReactivationApproval"),
  Move("PendingReactivationApproval", "ActiveChangedPlan"),
  Move("PendingReactivationApproval", "DiscussingReactivation"),
  Move("PendingReactivationApproval", "DiscussingTermination") }

ClosingTransitions == {
  Move("DiscussingTermination", "PendingTerminationApproval"),
  Back("DiscussingTermination", Homes),
  Move("PendingTerminationApproval", "Terminated"),
  Move("PendingTerminationApproval", "DiscussingTermination"),
  Back("PendingTerminationApproval", Homes),
  Back("FinalizingCompletion", Works),
  T({"FinalizingCompletion"}, <<"Completed">>, {"OngoingAreFinalizing"}) }

Transitions == DevelopmentTransitions \cup ActiveTransitions
                 \cup SuspensionTransitions \cup ClosingTransitions

(* A bug that would break a property: suspended engagements do not count.    *)
BugSuspendedDoNotCount ==
  \A e \in Engagements :
    IsOngoing(e) => engagement[e].status \in {"FinalizingCompletion",
                                               "Suspended"}
OngoingAreFinalizing ==
  \A e \in Engagements :
    IsOngoing(e) => engagement[e].status = "FinalizingCompletion"

Holds(condition) ==
  CASE condition = "IsMultiplication"     -> multiplication
    [] condition = "IsMomentumInternship" -> ~multiplication
    [] condition = "HasEngagement"        -> \E e \in Engagements : Exists(e)
    [] condition = "OngoingAreFinalizing" -> OngoingAreFinalizing

Available(t) == /\ step \in t.from
                /\ \A c \in t.conditions : Holds(c)

---------------------------------------------------------------------------
(* The rules of the engagements, and how they follow the project.           *)

(* Bugs that would break a property.                                         *)
BugNoStepRequirements(p) == {"Active", "DidNotDevelop", "Rejected"}
BugBackToWork(past) == MostRecent(Works, past)

(* Development ends with the project's: each outcome requires its step.      *)
OutOfDevelopment(p) == {"Active", "DidNotDevelop", "Rejected"} \cap {p}
WillNotTerminate(past) == MostRecent(Homes, past)

(* What an engagement may become while the project is at step p.            *)
NextStatuses(eng, p) ==
  LET back == MostRecent(Works, eng.past)
      halt == {"DiscussingChangeToPlan", "DiscussingSuspension",
               "DiscussingTermination", "FinalizingCompletion"}
  IN  CASE eng.status = "InDevelopment" -> OutOfDevelopment(p)
        [] eng.status \in Elements(Works) -> halt
        [] eng.status = "DiscussingChangeToPlan" ->
             {"DiscussingSuspension", "ActiveChangedPlan", back}
        [] eng.status = "DiscussingSuspension" ->
             {"Suspended", back, "DiscussingTermination"}
        [] eng.status = "Suspended" ->
             {"DiscussingReactivation", "DiscussingTermination"}
        [] eng.status = "DiscussingReactivation" ->
             {"ActiveChangedPlan", "DiscussingTermination"}
        [] eng.status = "DiscussingTermination" ->
             {WillNotTerminate(eng.past), "Terminated"}
        [] eng.status = "FinalizingCompletion" -> {back, "Completed"}
        [] OTHER -> {}

Mirrored == {"ActiveChangedPlan", "DiscussingChangeToPlan",
  "DiscussingSuspension", "Suspended", "DiscussingReactivation",
  "DiscussingTermination", "FinalizingCompletion"} \cup Terminal

(* The status a transition asks of the engagements; "None" for no change.    *)
NewStatus(from, to) ==
  IF to \in Mirrored /\ from # to THEN to
  ELSE IF StepToStatus(to) = "Active" /\ StepToStatus(from) # "Active" THEN "Active"
  ELSE IF StepToStatus(to) = "InDevelopment" /\ StepToStatus(from) = "Active"
       THEN "InDevelopment"
  ELSE "None"

(* The engagements a transition moves: suspended ones stay behind, unless    *)
(* the project was suspended itself.                                         *)
Followers(from) ==
  {e \in Engagements :
     /\ IsOngoing(e)
     /\ from # "Suspended" => engagement[e].status # "Suspended"}

Moved(r) ==
  LET new == NewStatus(r.from, r.to)
  IN  {e \in Followers(r.from) : new \notin {"None", engagement[e].status}}

(* One engagement that may not change refuses the whole transition.          *)
Refused(r) ==
  /\ ~r.privileged
  /\ \E e \in Moved(r) :
       NewStatus(r.from, r.to) \notin NextStatuses(engagement[e], r.to)

With(eng, status) ==
  [status |-> status, past |-> Remember(eng.status, eng.past)]

(* A bug that would break a property.                                        *)
BugAnyWayOut(from, to) ==
  CASE StepToStatus(from) = "InDevelopment"
         /\ StepToStatus(to) # "InDevelopment" -> "Current"
    [] OTHER -> budget

NewBudget(from, to) ==
  CASE StepToStatus(from) = "InDevelopment" /\ StepToStatus(to) = "Active" ->
         "Current"
    [] StepToStatus(from) = "Active" /\ StepToStatus(to) = "InDevelopment" ->
         "Pending"
    [] OTHER -> budget

---------------------------------------------------------------------------
NoEngagement == [status |-> "None", past |-> <<>>]

Init ==
  /\ multiplication \in BOOLEAN
  /\ step = "EarlyConversations"
  /\ stepPast = <<>>
  /\ engagement = [e \in Engagements |-> NoEngagement]
  /\ budget = "Pending"
  /\ run = [u \in Users |-> NoRun]
  /\ overrides = 0
  /\ overtaken = {}
  /\ crossed = FALSE

Idle(u) == run[u] = NoRun
Override(privileged) == /\ privileged => overrides < MaxOverrides
                        /\ overrides' = IF privileged THEN overrides + 1
                                                      ELSE overrides

(* Runs that an engagement which is written now comes in between of.         *)
Completing == {v \in Users : ~Idle(v) /\ run[v].to = "Completed"}

(* executeTransition reads the project and finds the transition available;   *)
(* an administrator's engagements will follow without verification.          *)
ResolveTransition(u, t, privileged) ==
  /\ Idle(u)
  /\ Available(t)
  /\ Override(privileged)
  /\ run' = [run EXCEPT ![u] =
       [from |-> step, to |-> MostRecent(t.to, stepPast),
        privileged |-> privileged]]
  /\ UNCHANGED <<projectVars, engagement, overtaken, crossed>>

(* An administrator names the step to go to instead.                         *)
ResolveBypass(u, s) ==
  /\ Idle(u)
  /\ Override(TRUE)
  /\ run' = [run EXCEPT ![u] = [from |-> step, to |-> s, privileged |-> TRUE]]
  /\ UNCHANGED <<projectVars, engagement, overtaken, crossed>>

(* The workflow event is recorded, the step replaced, and the handlers bring *)
(* the engagements and the budget along, going by the step that was read.    *)
Record(u) ==
  /\ ~Idle(u)
  /\ ~Refused(run[u])
  /\ LET r == run[u] IN
       /\ step' = r.to
       /\ stepPast' = Remember(step, stepPast)
       /\ engagement' =
            [e \in Engagements |->
               IF e \in Moved(r)
               THEN With(engagement[e], NewStatus(r.from, r.to))
               ELSE engagement[e]]
       /\ budget' = NewBudget(r.from, r.to)
  /\ run' = [run EXCEPT ![u] = NoRun]
  /\ overtaken' = (overtaken \cup {v \in Users : ~Idle(v)}) \ {u}
  /\ crossed' = (crossed \/ u \in overtaken)
  /\ UNCHANGED <<multiplication, overrides>>

(* An engagement refuses, or a required field is missing: rolled back.       *)
Refuse(u) ==
  /\ ~Idle(u)
  /\ run' = [run EXCEPT ![u] = NoRun]
  /\ overtaken' = overtaken \ {u}
  /\ UNCHANGED <<projectVars, engagement, overrides, crossed>>

CreateEngagement(u, e, privileged) ==
  /\ Idle(u)
  /\ ~Exists(e)
  /\ \/ privileged
     \/ StepToStatus(step) = "InDevelopment"
     \/ step = "DiscussingChangeToPlan"
  /\ Override(privileged)
  /\ engagement' = [engagement EXCEPT ![e] = [@ EXCEPT !.status = "InDevelopment"]]
  /\ overtaken' = overtaken \cup Completing
  /\ UNCHANGED <<projectVars, run, crossed>>

DeleteEngagement(u, e, privileged) ==
  /\ Idle(u)
  /\ Exists(e)
  /\ privileged \/ engagement[e].status = "InDevelopment"
  /\ Override(privileged)
  /\ engagement' = [engagement EXCEPT ![e] = NoEngagement]
  /\ UNCHANGED <<projectVars, run, overtaken, crossed>>

(* updateLanguageEngagement or updateInternshipEngagement with a status.     *)
ChangeStatus(u, e, s, privileged) ==
  /\ Idle(u)
  /\ Exists(e)
  /\ s # engagement[e].status
  /\ privileged \/ s \in NextStatuses(engagement[e], step)
  /\ Override(privileged)
  /\ engagement' = [engagement EXCEPT ![e] = With(@, s)]
  /\ overtaken' = overtaken \cup Completing
  /\ UNCHANGED <<projectVars, run, crossed>>

Next ==
  \E u \in Users :
    \/ \E t \in Transitions, p \in BOOLEAN : ResolveTransition(u, t, p)
    \/ \E s \in Steps : ResolveBypass(u, s)
    \/ Record(u)
    \/ Refuse(u)
    \/ \E e \in Engagements, p \in BOOLEAN :
         \/ CreateEngagement(u, e, p)
         \/ DeleteEngagement(u, e, p)
         \/ \E s \in Ongoing \cup Terminal : ChangeStatus(u, e, s, p)

Spec == Init /\ [][Next]_vars

---------------------------------------------------------------------------
(* Properties.  They speak of projects on which nobody used the right to skip *)
(* the rules, and no transition was recorded that another had overtaken: the  *)
(* code would let it pass, and then nothing below holds.                      *)

Regular == overrides = 0 /\ ~crossed

(* Every variable has its type; the remembered past names each home once.    *)
Pasts == {s \in UNION {[1 .. n -> Elements(Homes)] : n \in 0 .. Len(Homes)} :
            \A i, j \in DOMAIN s : s[i] = s[j] => i = j}
TypeOK ==
  /\ multiplication \in BOOLEAN
  /\ step \in Steps
  /\ stepPast \in Pasts
  /\ engagement \in
       [Engagements -> [status : Ongoing \cup Terminal \cup {"None"},
                        past : Pasts]]
  /\ budget \in {"Pending", "Current"}
  /\ run \in [Users -> [from : Steps, to : Steps, privileged : BOOLEAN]
                         \cup {NoRun}]
  /\ overrides \in 0 .. MaxOverrides
  /\ overtaken \in SUBSET Users
  /\ crossed \in BOOLEAN

(* A project that is completed, rejected or did not develop leaves no        *)
(* engagement open, suspended ones included (conditions.ts,                  *)
(* update-engagement-status.handler.ts).                                     *)
ClosedIsResolved ==
  (Regular /\ step \in Terminal \ {"Terminated"}) =>
    \A e \in Engagements : ~IsOngoing(e)

(* While the project is in development no engagement is past development:    *)
(* an engagement becomes active, or ends, only with its project, whatever    *)
(* way back and forth the approvals took (engagement.rules.ts).              *)
DevelopmentHasNotStarted ==
  (Regular /\ step \in Development) =>
    \A e \in Engagements : engagement[e].status \in {"None", "InDevelopment"}

(* A plan that was changed stays changed: however often the discussion of a  *)
(* change, a suspension or a termination is called off, neither the project  *)
(* nor an engagement returns to plain Active (dynamic-step.ts,               *)
(* getMostRecentPreviousStatus).                                             *)
ChangedPlanIsKept ==
  [][Regular' =>
       /\ "ActiveChangedPlan" \in Elements(stepPast) \cup {step}
            => (step' # "Active" \/ step' = step)
       /\ \A e \in Engagements :
            "ActiveChangedPlan"
                \in Elements(engagement[e].past) \cup {engagement[e].status}
              => engagement'[e].status \in
                   (Ongoing \cup Terminal \cup {"None"}) \ {"Active"}]_vars

(* Work that was suspended is taken up again out of its reactivation only:   *)
(* calling off a termination leads back to the suspension, or to the         *)
(* discussion of its reactivation (project-workflow.ts, engagement.rules.ts).*)
Resumes(past, x, y) ==
  /\ past # <<>> /\ past[1] \notin Elements(Works)
  /\ y \in Elements(Works)
  /\ x \notin Elements(Works)
             \cup {"DiscussingReactivation", "PendingReactivationApproval"}
ResumedByReactivation ==
  [][Regular' =>
       /\ ~Resumes(stepPast, step, step')
       /\ \A e \in Engagements :
            ~Resumes(engagement[e].past, engagement[e].status,
                     engagement'[e].status)]_vars
===========================================================================
