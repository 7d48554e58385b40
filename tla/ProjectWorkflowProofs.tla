----------------------- MODULE ProjectWorkflowProofs -----------------------
(* What ProjectWorkflow guarantees for any number of users and engagements,  *)
(* proved with TLAPS.                                                        *)
EXTENDS ProjectWorkflow, WellFoundedInduction, TLAPS

Home == {"Active", "ActiveChangedPlan", "DiscussingReactivation", "Suspended"}
Work == {"Active", "ActiveChangedPlan"}

---------------------------------------------------------------------------
(* Lemmas about what is remembered.                                          *)

LEMMA HomesAre == Elements(Homes) = Home /\ Elements(Works) = Work
<1>1. Elements(Works) = Work
  BY DEF Elements, Works, Work
<1>2. Elements(Homes) = Home
  BY DEF Elements, Homes, Home
<1> QED BY <1>1, <1>2

Less == {ss \in Nat \X Nat : ss[1] < ss[2]}

(* A set of natural numbers has a least one.                                  *)
LEMMA LeastOf ==
  ASSUME NEW S, S \subseteq Nat, S # {}
  PROVE  \E i \in S : \A j \in S : i <= j
<1>1. IsWellFoundedOn(Less, Nat)
  BY NatLessThanWellFounded DEF OpToRel, Less
<1>2. PICK i \in S : \A j \in S : ~(<<j, i>> \in Less)
  BY <1>1, WFMin
<1>3. ASSUME NEW j \in S PROVE i <= j
  <2>1. ~(j < i)
    BY <1>2 DEF Less
  <2> QED BY <2>1
<1> QED BY <1>3

(* Of two plans that were left, the changed one was left last.                *)
PlanKept(past) ==
  \A i, j \in DOMAIN past :
    i < j /\ past[j] = "ActiveChangedPlan" => past[i] # "Active"

Changed(past) == "ActiveChangedPlan" \in Elements(past)

(* Work was the last home that was left.                                      *)
LeftWork(past) == past # <<>> /\ past[1] \in Work

(* What is left of a past keeps its order.                                    *)
LEMMA WithoutKeeps ==
  ASSUME NEW S, NEW s \in Seq(S), NEW x
  PROVE  /\ Without(x, s) \in Seq(S)
         /\ \A i \in DOMAIN Without(x, s) : \E k \in DOMAIN s : Without(x, s)[i] = s[k]
         /\ PlanKept(s) => PlanKept(Without(x, s))
<1>1. CASE x \notin Elements(s)
  BY <1>1 DEF Without
<1>2. CASE x \in Elements(s)
  <2> DEFINE n == CHOOSE i \in DOMAIN s : s[i] = x
             a == SubSeq(s, 1, n - 1)
             b == SubSeq(s, n + 1, Len(s))
  <2>1. n \in 1 .. Len(s)
    BY <1>2 DEF Elements
  <2>2. Without(x, s) = a \o b
    BY <1>2 DEF Without, RemoveAt
  <2> HIDE DEF n
  <2>3. /\ a \in Seq(S) /\ Len(a) = n - 1 /\ \A j \in 1 .. n - 1 : a[j] = s[j]
    BY <2>1
  <2>4. /\ b \in Seq(S) /\ Len(b) = Len(s) - n
        /\ \A j \in 1 .. Len(s) - n : b[j] = s[n + j]
    BY <2>1
  <2> HIDE DEF a, b
  <2> DEFINE c == a \o b
             at(i) == IF i < n THEN i ELSE i + 1
  <2>5. /\ c \in Seq(S) /\ Len(c) = Len(s) - 1 /\ DOMAIN c = 1 .. Len(s) - 1
        /\ DOMAIN s = 1 .. Len(s) /\ Len(s) \in Nat
    BY <2>1, <2>3, <2>4
  <2>6. ASSUME NEW i \in 1 .. Len(s) - 1
        PROVE  at(i) \in 1 .. Len(s) /\ c[i] = s[at(i)]
    <3>1. c[i] = IF i <= Len(a) THEN a[i] ELSE b[i - Len(a)]
      BY <2>1, <2>3, <2>4, <2>5
    <3>2. CASE i < n
      BY <2>1, <2>3, <2>5, <3>1, <3>2
    <3>3. CASE n <= i
      <4>1. i - Len(a) \in 1 .. Len(s) - n /\ n + (i - Len(a)) = i + 1
        BY <2>1, <2>3, <2>5, <3>3
      <4> QED BY <2>1, <2>3, <2>4, <2>5, <3>1, <3>3, <4>1
    <3> QED BY <2>1, <2>5, <3>2, <3>3
  <2>7. \A i, j \in 1 .. Len(s) - 1 : i < j => at(i) < at(j)
    BY <2>1, <2>5
  <2> HIDE DEF c, at
  <2>8. PlanKept(s) => PlanKept(c)
    BY <2>5, <2>6, <2>7 DEF PlanKept
  <2> QED BY <2>2, <2>5, <2>6, <2>8 DEF c
<1> QED BY <1>1, <1>2

(* A home that is left becomes the most recent one; nothing else does.        *)
LEMMA RememberMeans ==
  ASSUME NEW past \in Seq(Home), NEW x, PlanKept(past),
         x = "Active" => ~Changed(past)
  PROVE  /\ Remember(x, past) \in Seq(Home) /\ PlanKept(Remember(x, past))
         /\ x \notin Home => Remember(x, past) = past
         /\ x \in Home => Remember(x, past) # <<>> /\ Remember(x, past)[1] = x
<1>1. CASE x \notin Home
  BY <1>1, HomesAre DEF Remember
<1>2. CASE x \in Home
  <2> DEFINE w == Without(x, past)
             r == <<x>> \o w
  <2>1. /\ w \in Seq(Home) /\ PlanKept(w)
        /\ \A i \in DOMAIN w : \E k \in DOMAIN past : w[i] = past[k]
    BY WithoutKeeps
  <2>2. Remember(x, past) = r
    BY <1>2, HomesAre DEF Remember
  <2> HIDE DEF w
  <2>3. /\ r \in Seq(Home) /\ Len(r) = Len(w) + 1 /\ r[1] = x /\ Len(w) \in Nat
        /\ \A i \in 1 .. Len(w) : r[i + 1] = w[i]
        /\ DOMAIN r = 1 .. Len(w) + 1 /\ DOMAIN w = 1 .. Len(w)
    BY <1>2, <2>1
  <2> HIDE DEF r
  <2>4. ASSUME NEW i \in DOMAIN r, NEW j \in DOMAIN r, i < j,
               r[j] = "ActiveChangedPlan"
        PROVE  r[i] # "Active"
    <3>1. j - 1 \in 1 .. Len(w) /\ r[j] = w[j - 1]
      <4>1. j - 1 \in 1 .. Len(w) /\ (j - 1) + 1 = j
        BY <2>3, <2>4
      <4> QED BY <2>3, <4>1
    <3>2. CASE i = 1
      <4>1. Changed(past)
        BY <2>1, <2>3, <2>4, <3>1 DEF Changed, Elements
      <4> QED BY <2>3, <3>2, <4>1
    <3>3. CASE i # 1
      <4>1. i - 1 \in 1 .. Len(w) /\ (i - 1) + 1 = i /\ i - 1 < j - 1
        BY <2>3, <2>4, <3>3
      <4>2. r[i] = w[i - 1]
        BY <2>3, <4>1
      <4> QED BY <2>1, <2>3, <2>4, <3>1, <4>1, <4>2 DEF PlanKept
    <3> QED BY <3>2, <3>3
  <2>5. r # <<>>
    BY <2>3
  <2> QED BY <1>2, <2>2, <2>3, <2>4, <2>5 DEF PlanKept
<1> QED BY <1>1, <1>2

LEMMA OneChoice ==
  ASSUME NEW x, NEW past \in Seq(Home)
  PROVE  MostRecent(<<x>>, past) = x
<1> DEFINE found == Found(<<x>>, past)
<1>1. CASE found = {}
  BY <1>1 DEF MostRecent
<1>2. CASE found # {}
  <2>1. found \subseteq Nat /\ \A i \in found : past[i] = x
    BY DEF Found, Elements
  <2>2. \E i \in found : \A j \in found : i <= j
    BY <1>2, <2>1, LeastOf
  <2> QED BY <1>2, <2>1, <2>2 DEF MostRecent
<1> QED BY <1>1, <1>2

(* Going back leads to a choice, to a changed plan rather than to the one     *)
(* before it, and out of all homes to the one left last.                      *)
LEMMA MostRecentMeans ==
  ASSUME NEW past \in Seq(Home), NEW choices \in {Works, Homes}
  PROVE  /\ MostRecent(choices, past) \in Elements(choices)
         /\ PlanKept(past) /\ Changed(past) => MostRecent(choices, past) # "Active"
         /\ choices = Homes /\ past # <<>> => MostRecent(choices, past) = past[1]
<1> DEFINE found == Found(choices, past)
           n == CHOOSE i \in found : \A j \in found : i <= j
<1>0. /\ Work \subseteq Elements(choices)
      /\ choices = Homes => Elements(choices) = Home
      /\ choices[1] \in Elements(choices)
  <2>1. choices[1] \in Elements(choices)
    BY DEF Elements, Works, Homes
  <2> QED BY <2>1, HomesAre DEF Work, Home
<1>1. CASE found = {}
  <2>1. MostRecent(choices, past) = choices[1]
    BY <1>1 DEF MostRecent
  <2>2. ~Changed(past)
    BY <1>0, <1>1 DEF Found, Changed, Elements, Work
  <2>3. choices = Homes => past = <<>>
    <3>1. ASSUME choices = Homes, past # <<>> PROVE FALSE
      <4>1. 1 \in DOMAIN past /\ past[1] \in Home
        BY <3>1
      <4> QED BY <1>0, <1>1, <3>1, <4>1 DEF Found
    <3> QED BY <3>1
  <2> QED BY <1>0, <2>1, <2>2, <2>3
<1>2. CASE found # {}
  <2>1. found \subseteq DOMAIN past /\ DOMAIN past = 1 .. Len(past) /\ Len(past) \in Nat
    BY DEF Found
  <2>2. \E i \in found : \A j \in found : i <= j
    BY <1>2, <2>1, LeastOf
  <2>3. n \in found /\ \A j \in found : n <= j
    BY <2>2
  <2>4. MostRecent(choices, past) = past[n]
    BY <1>2 DEF MostRecent
  <2> HIDE DEF n
  <2>5. past[n] \in Elements(choices)
    BY <2>3 DEF Found
  <2>6. ASSUME PlanKept(past), Changed(past), past[n] = "Active" PROVE FALSE
    <3>1. PICK k \in DOMAIN past : past[k] = "ActiveChangedPlan"
      BY <2>6 DEF Changed, Elements
    <3>2. k \in found
      BY <1>0, <3>1 DEF Found, Work
    <3>3. n < k
      <4>1. n <= k /\ n # k
        BY <2>3, <2>6, <3>1, <3>2
      <4> QED BY <2>1, <2>3, <4>1
    <3> QED BY <2>1, <2>3, <2>6, <3>1, <3>3 DEF PlanKept
  <2>7. ASSUME choices = Homes PROVE n = 1
    <3>1. 1 \in DOMAIN past /\ past[1] \in Home
      BY <2>1, <2>3
    <3>2. 1 \in found
      BY <1>0, <2>7, <3>1 DEF Found
    <3> QED BY <2>1, <2>3, <3>2
  <2> QED BY <2>4, <2>5, <2>6, <2>7
<1> QED BY <1>1, <1>2
---------------------------------------------------------------------------
(* Where the transitions lead.                                               *)

Planning == {"DiscussingChangeToPlan", "PendingChangeToPlanApproval",
  "PendingChangeToPlanConfirmation", "DiscussingSuspension",
  "PendingSuspensionApproval", "FinalizingCompletion"}
Later == {"Suspended", "DiscussingReactivation", "PendingReactivationApproval",
  "DiscussingTermination", "PendingTerminationApproval", "Terminated"}
Terminating == {"DiscussingTermination", "PendingTerminationApproval"}

Leads(t, from, to) == t.from \subseteq from /\ \E x \in to : t.to = <<x>>

Develops(t)   == Leads(t, Development, Development \cup {"Active", "DidNotDevelop", "Rejected"})
GoesBack(t)   == t.from \subseteq Planning /\ t.to = Works
Continues(t)  == t.from \subseteq Terminating /\ t.to = Homes
Plans(t)      == Leads(t, Work \cup Planning, Planning)
ChangesPlan(t) == Leads(t, Planning \cup {"PendingReactivationApproval"}, {"ActiveChangedPlan"})
Halts(t)      == Leads(t, Undertaken, Later)
Completes(t)  == /\ Leads(t, {"FinalizingCompletion"}, {"Completed"})
                 /\ "OngoingAreFinalizing" \in t.conditions

LEMMA DevelopmentOnly == \A t \in DevelopmentTransitions : Develops(t)
BY DEF DevelopmentTransitions, Develops, Leads, T, Move, FirstApproval, Development

LEMMA ActiveOnly ==
  \A t \in ActiveTransitions :
    Halts(t) \/ GoesBack(t) \/ Plans(t) \/ ChangesPlan(t)
BY HomesAre DEF ActiveTransitions, GoesBack, Plans, ChangesPlan, Halts, Leads, T, Move, Back,
   Work, Planning, Undertaken, Later

LEMMA SuspensionOnly ==
  \A t \in SuspensionTransitions :
    Halts(t) \/ GoesBack(t) \/ Plans(t) \/ ChangesPlan(t)
BY DEF SuspensionTransitions, GoesBack, Plans, ChangesPlan, Halts, Leads, T, Move, Back,
   Work, Planning, Undertaken, Later

LEMMA ClosingOnly ==
  \A t \in ClosingTransitions :
    GoesBack(t) \/ Continues(t) \/ Halts(t) \/ Completes(t)
BY DEF ClosingTransitions, GoesBack, Continues, Halts, Completes, Leads, T, Move, Back,
   Planning, Terminating, Undertaken, Later

(* What a transition may make of a project at step from with that past.       *)
Unchanging(past, to) == Changed(past) => to # "Active"
LegalStep(from, to, past) ==
  \/ /\ from \in Development
     /\ to \in Development \cup {"Active", "DidNotDevelop", "Rejected"}
  \/ from \in Planning /\ to \in Work /\ Unchanging(past, to)
  \/ /\ from \in Terminating /\ to \in Home /\ Unchanging(past, to)
     /\ past # <<>> => to = past[1]
  \/ from \in Work \cup Planning /\ to \in Planning
  \/ from \in Planning \cup {"PendingReactivationApproval"} /\ to = "ActiveChangedPlan"
  \/ from \in Undertaken /\ to \in Later
  \/ from = "FinalizingCompletion" /\ to = "Completed"

LEMMA TransitionsAreLegal ==
  ASSUME NEW t \in Transitions, NEW from \in t.from, NEW past \in Seq(Home),
         PlanKept(past)
  PROVE  /\ LegalStep(from, MostRecent(t.to, past), past)
         /\ MostRecent(t.to, past) = "Completed" => "OngoingAreFinalizing" \in t.conditions
<1> DEFINE to == MostRecent(t.to, past)
<1>0. ASSUME NEW F, NEW G, Leads(t, F, G) PROVE from \in F /\ to \in G
  BY <1>0, OneChoice DEF Leads
<1>1. CASE Develops(t)
  <2>1. /\ from \in Development
        /\ to \in Development \cup {"Active", "DidNotDevelop", "Rejected"}
    BY <1>0, <1>1 DEF Develops
  <2>2. to # "Completed"
    BY <2>1 DEF Development
  <2> QED BY <2>1, <2>2 DEF LegalStep
<1>2. CASE GoesBack(t)
  <2>1. from \in Planning /\ to \in Work /\ Unchanging(past, to)
    BY <1>2, MostRecentMeans, HomesAre DEF GoesBack, Unchanging
  <2> QED BY <2>1 DEF LegalStep, Work
<1>3. CASE Continues(t)
  <2>1. /\ from \in Terminating /\ to \in Home /\ Unchanging(past, to)
        /\ past # <<>> => to = past[1]
    BY <1>3, MostRecentMeans, HomesAre DEF Continues, Unchanging
  <2> QED BY <2>1 DEF LegalStep, Home
<1>4. CASE Plans(t)
  <2>1. from \in Work \cup Planning /\ to \in Planning
    BY <1>0, <1>4 DEF Plans
  <2> QED BY <2>1 DEF LegalStep, Planning
<1>5. CASE ChangesPlan(t)
  <2>1. from \in Planning \cup {"PendingReactivationApproval"} /\ to = "ActiveChangedPlan"
    BY <1>0, <1>5 DEF ChangesPlan
  <2> QED BY <2>1 DEF LegalStep
<1>6. CASE Halts(t)
  <2>1. from \in Undertaken /\ to \in Later
    BY <1>0, <1>6 DEF Halts
  <2> QED BY <2>1 DEF LegalStep, Later
<1>7. CASE Completes(t)
  <2>1. from = "FinalizingCompletion" /\ to = "Completed"
    BY <1>0, <1>7 DEF Completes
  <2> QED BY <1>7, <2>1 DEF LegalStep, Completes
<1> QED
  BY <1>1, <1>2, <1>3, <1>4, <1>5, <1>6, <1>7, DevelopmentOnly, ActiveOnly,
     SuspensionOnly, ClosingOnly DEF Transitions
---------------------------------------------------------------------------
(* The invariants.  Of projects on which someone skipped the rules, or a     *)
(* transition was recorded that another had overtaken, nothing is claimed.   *)

Statuses    == Ongoing \cup Terminal \cup {"None"}
Engagement  == [status : Statuses, past : Seq(Home)]

(* A position, and what was left to get there: nothing precedes development,  *)
(* a plain plan never follows a changed one, and plans are discussed, and     *)
(* completion finalized, out of work only.                                    *)
InPlace(now, past, undeveloped, planning) ==
  /\ PlanKept(past)
  /\ now \in undeveloped => past = <<>>
  /\ now = "Active" => ~Changed(past)
  /\ now \in planning => LeftWork(past)

EngagementInPlace(eng) ==
  InPlace(eng.status, eng.past, {"None", "InDevelopment"},
          {"DiscussingChangeToPlan", "DiscussingSuspension", "FinalizingCompletion"})

(* Whoever executes something is verified, and every engagement is in place.  *)
EngagementsInv ==
  /\ engagement \in [Engagements -> Engagement]
  /\ run = [u \in Users |-> run[u]]
  /\ \A u \in Users : run[u] # NoRun => ~run[u].privileged
  /\ \A e \in Engagements : EngagementInPlace(engagement[e])

(* What was resolved is still legal, unless it has been overtaken.            *)
StepsInv ==
  /\ step \in Steps /\ stepPast \in Seq(Home)
  /\ InPlace(step, stepPast, Development, Planning)
  /\ \A u \in Users \ overtaken : run[u] # NoRun =>
       /\ run[u].from = step
       /\ LegalStep(step, run[u].to, stepPast)
       /\ run[u].to = "Completed" => OngoingAreFinalizing

---------------------------------------------------------------------------
(* Engagements: whoever works on the project, each change of one is legal.   *)

(* What an engagement may become, wherever the project is.                    *)
Planned == {"DiscussingChangeToPlan", "DiscussingSuspension", "FinalizingCompletion"}
LegalStatus(from, to, past) ==
  \/ from = "InDevelopment" /\ to \in {"Active", "DidNotDevelop", "Rejected"}
  \/ from \in Work /\ to \in Planned \cup {"DiscussingTermination"}
  \/ from \in Planned /\ to \in Work /\ Unchanging(past, to)
  \/ from = "DiscussingChangeToPlan" /\ to \in {"DiscussingSuspension", "ActiveChangedPlan"}
  \/ from = "DiscussingReactivation" /\ to = "ActiveChangedPlan"
  \/ /\ from = "DiscussingTermination" /\ to \in Home /\ Unchanging(past, to)
     /\ past # <<>> => to = past[1]
  \/ /\ from \in Ongoing
     /\ to \in {"Suspended", "DiscussingReactivation", "DiscussingTermination",
                "Terminated", "Completed"}

LEMMA NextStatusesAreLegal ==
  ASSUME NEW eng, eng.past \in Seq(Home), PlanKept(eng.past), NEW p,
         NEW s \in NextStatuses(eng, p)
  PROVE  LegalStatus(eng.status, s, eng.past) /\ eng.status \in Ongoing
<1> DEFINE back == MostRecent(Works, eng.past)
           home == MostRecent(Homes, eng.past)
<1>1. back \in Work /\ Unchanging(eng.past, back)
  BY MostRecentMeans, HomesAre DEF Unchanging
<1>2. /\ home \in Home /\ Unchanging(eng.past, home)
      /\ eng.past # <<>> => home = eng.past[1]
  BY MostRecentMeans, HomesAre DEF Unchanging
<1> HIDE DEF back, home
<1>3. CASE eng.status = "InDevelopment"
  <2>1. s \in {"Active", "DidNotDevelop", "Rejected"}
    BY <1>3, HomesAre DEF NextStatuses, OutOfDevelopment, Work
  <2> QED BY <1>3, <2>1 DEF LegalStatus, Ongoing
<1>4. CASE eng.status \in Work
  BY <1>4, HomesAre DEF NextStatuses, LegalStatus, Ongoing, Work, Planned
<1>5. CASE eng.status \notin Work \cup {"InDevelopment"}
  <2>1. CASE eng.status = "DiscussingChangeToPlan"
    <3>1. s \in {"DiscussingSuspension", "ActiveChangedPlan", back}
      BY <1>5, <2>1, HomesAre DEF NextStatuses, back
    <3> QED BY <1>1, <2>1, <3>1 DEF LegalStatus, Ongoing, Planned
  <2>2. CASE eng.status = "DiscussingSuspension"
    <3>1. s \in {"Suspended", back, "DiscussingTermination"}
      BY <1>5, <2>2, HomesAre DEF NextStatuses, back
    <3> QED BY <1>1, <2>2, <3>1 DEF LegalStatus, Ongoing, Planned
  <2>3. CASE eng.status = "DiscussingTermination"
    <3>1. s \in {home, "Terminated"}
      BY <1>5, <2>3, HomesAre DEF NextStatuses, home, WillNotTerminate
    <3> QED BY <1>2, <2>3, <3>1 DEF LegalStatus, Ongoing
  <2>4. CASE eng.status = "FinalizingCompletion"
    <3>1. s \in {back, "Completed"}
      BY <1>5, <2>4, HomesAre DEF NextStatuses, back
    <3> QED BY <1>1, <2>4, <3>1 DEF LegalStatus, Ongoing, Planned
  <2>5. CASE eng.status \in {"Suspended", "DiscussingReactivation"}
    BY <1>5, <2>5, HomesAre DEF NextStatuses, LegalStatus, Ongoing
  <2> QED
    BY <1>5, <2>1, <2>2, <2>3, <2>4, <2>5, HomesAre DEF NextStatuses
<1> QED BY <1>3, <1>4, <1>5

(* A legal change leaves the engagement in place, its plan changed and its    *)
(* suspension in force.                                                       *)
PlanIsKept(past, from, to) ==
  "ActiveChangedPlan" \in Elements(past) \cup {from} => to # "Active"

LEMMA LegalStatusKeeps ==
  ASSUME NEW eng \in Engagement, EngagementInPlace(eng), NEW s,
         LegalStatus(eng.status, s, eng.past)
  PROVE  /\ With(eng, s) \in Engagement /\ EngagementInPlace(With(eng, s))
         /\ With(eng, s).status = s /\ s \in Statuses \ {"None", "InDevelopment"}
         /\ PlanIsKept(eng.past, eng.status, s)
         /\ ~Resumes(eng.past, eng.status, s)
<1> DEFINE past == eng.past
           from == eng.status
           next == Remember(from, past)
<1>1. /\ past \in Seq(Home) /\ PlanKept(past)
      /\ from = "Active" => ~Changed(past)
      /\ from \in {"None", "InDevelopment"} => past = <<>>
      /\ from \in Planned => LeftWork(past)
  BY DEF Engagement, EngagementInPlace, InPlace, Planned
<1>2. /\ next \in Seq(Home) /\ PlanKept(next)
      /\ from \notin Home => next = past
      /\ from \in Home => next # <<>> /\ next[1] = from
  BY <1>1, RememberMeans DEF Engagement, EngagementInPlace, InPlace
<1>3. s \in Statuses \ {"None", "InDevelopment"}
  BY DEF LegalStatus, Statuses, Ongoing, Terminal, Work, Home, Planned
<1>4. With(eng, s) = [status |-> s, past |-> next]
  BY DEF With
<1> HIDE DEF next
<1>5. s = "Active" => from \notin Home /\ ~Changed(past)
  BY <1>1 DEF LegalStatus, Work, Home, Planned, Unchanging, Changed, Elements
<1>6. s \in Planned => LeftWork(next)
  BY <1>1, <1>2 DEF LegalStatus, Work, Home, Planned, LeftWork
<1>7. InPlace(s, next, {"None", "InDevelopment"}, Planned)
  BY <1>2, <1>3, <1>5, <1>6 DEF InPlace
<1>8. PlanIsKept(past, from, s)
  BY <1>5 DEF PlanIsKept, Changed, Home
<1>9. ~Resumes(past, from, s)
  BY <1>1, HomesAre DEF Resumes, LegalStatus, Work, Home, Planned, LeftWork
<1> QED BY <1>2, <1>3, <1>4, <1>7, <1>8, <1>9 DEF Engagement, EngagementInPlace, Planned
(* What a step may do to an engagement when nobody skips the rules.           *)
Changes(e) ==
  \/ engagement'[e] = engagement[e]
  \/ engagement'[e] = NoEngagement
  \/ /\ engagement[e].status = "None"
     /\ engagement'[e] = [engagement[e] EXCEPT !.status = "InDevelopment"]
  \/ \E p : \E s \in NextStatuses(engagement[e], p) :
       engagement'[e] = With(engagement[e], s)

LEMMA Verified ==
  ASSUME NEW p \in BOOLEAN, overrides \in Nat, Override(p), overrides' = 0
  PROVE  ~p /\ overrides = 0
BY DEF Override

LEMMA EngagementsChange ==
  ASSUME EngagementsInv, overrides \in Nat, [Next]_vars, overrides' = 0
  PROVE  /\ engagement' = [e \in Engagements |-> engagement'[e]]
         /\ run' = [u \in Users |-> run'[u]]
         /\ \A u \in Users : run'[u] # NoRun => ~run'[u].privileged
         /\ \A e \in Engagements : Changes(e)
<1> DEFINE Goal == /\ engagement' = [e \in Engagements |-> engagement'[e]]
                   /\ run' = [u \in Users |-> run'[u]]
                   /\ \A u \in Users : run'[u] # NoRun => ~run'[u].privileged
                   /\ \A e \in Engagements : Changes(e)
<1>0. /\ engagement = [e \in Engagements |-> engagement[e]]
      /\ run = [u \in Users |-> run[u]]
      /\ \A u \in Users : run[u] # NoRun => ~run[u].privileged
  BY DEF EngagementsInv, Engagement
<1>1. ASSUME NEW u \in Users, NEW t \in Transitions, NEW p \in BOOLEAN,
             ResolveTransition(u, t, p)
      PROVE  Goal
  <2>1. ~p
    BY <1>1, Verified DEF ResolveTransition
  <2>2. PICK to : run' = [run EXCEPT ![u] =
                            [from |-> step, to |-> to, privileged |-> p]]
    BY <1>1 DEF ResolveTransition
  <2> QED BY <1>0, <1>1, <2>1, <2>2 DEF ResolveTransition, Changes
<1>2. ASSUME NEW u \in Users, NEW s \in Steps, ResolveBypass(u, s)
      PROVE  Goal
  BY <1>2 DEF ResolveBypass, Override
<1>3. ASSUME NEW u \in Users, Record(u)
      PROVE  Goal
  <2> DEFINE r == run[u]
             new == NewStatus(r.from, r.to)
  <2>1. /\ ~Refused(r) /\ ~r.privileged
        /\ engagement' = [e \in Engagements |-> IF e \in Moved(r)
                             THEN With(engagement[e], new) ELSE engagement[e]]
        /\ run' = [run EXCEPT ![u] = NoRun]
    BY <1>0, <1>3 DEF Record, Idle
  <2>2. \A e \in Moved(r) : new \in NextStatuses(engagement[e], r.to)
    BY <2>1 DEF Refused
  <2> HIDE DEF r, new
  <2>3. ASSUME NEW e \in Engagements PROVE Changes(e)
    BY <2>1, <2>2 DEF Changes
  <2> QED BY <1>0, <2>1, <2>3
<1>4. ASSUME NEW u \in Users, Refuse(u)
      PROVE  Goal
  BY <1>0, <1>4 DEF Refuse, Changes
<1>5. ASSUME NEW u \in Users, NEW e \in Engagements, NEW p \in BOOLEAN,
             CreateEngagement(u, e, p)
      PROVE  Goal
  <2>1. /\ run' = run /\ engagement[e].status = "None"
        /\ engagement' = [engagement EXCEPT ![e] = [@ EXCEPT !.status = "InDevelopment"]]
    BY <1>5 DEF CreateEngagement, Exists
  <2> QED BY <1>0, <2>1 DEF Changes
<1>6. ASSUME NEW u \in Users, NEW e \in Engagements, NEW p \in BOOLEAN,
             DeleteEngagement(u, e, p)
      PROVE  Goal
  <2>1. run' = run /\ engagement' = [engagement EXCEPT ![e] = NoEngagement]
    BY <1>6 DEF DeleteEngagement
  <2> QED BY <1>0, <2>1 DEF Changes
<1>7. ASSUME NEW u \in Users, NEW e \in Engagements, NEW p \in BOOLEAN,
             NEW s \in Ongoing \cup Terminal, ChangeStatus(u, e, s, p)
      PROVE  Goal
  <2>1. /\ run' = run /\ s \in NextStatuses(engagement[e], step)
        /\ engagement' = [engagement EXCEPT ![e] = With(@, s)]
    BY <1>7, Verified DEF ChangeStatus
  <2> QED BY <1>0, <2>1 DEF Changes
<1>8. CASE UNCHANGED vars
  BY <1>0, <1>8 DEF vars, Changes
<1> HIDE DEF Goal
<1>9. ASSUME Next PROVE Goal
  <2>1. PICK u \in Users :
          \/ \E t \in Transitions, p \in BOOLEAN : ResolveTransition(u, t, p)
          \/ \E s \in Steps : ResolveBypass(u, s)
          \/ Record(u)
          \/ Refuse(u)
          \/ \E e \in Engagements, p \in BOOLEAN :
               \/ CreateEngagement(u, e, p)
               \/ DeleteEngagement(u, e, p)
               \/ \E s \in Ongoing \cup Terminal : ChangeStatus(u, e, s, p)
    BY <1>9 DEF Next
  <2> QED BY <1>1, <1>2, <1>3, <1>4, <1>5, <1>6, <1>7, <2>1
<1> QED BY <1>8, <1>9 DEF Goal

(* A step leaves each engagement in place, whatever became of it.             *)
LEMMA ChangesKeep ==
  ASSUME NEW e \in Engagements, engagement[e] \in Engagement,
         EngagementInPlace(engagement[e]), Changes(e)
  PROVE  /\ engagement'[e] \in Engagement
         /\ EngagementInPlace(engagement'[e])
         /\ PlanIsKept(engagement[e].past, engagement[e].status, engagement'[e].status)
         /\ ~Resumes(engagement[e].past, engagement[e].status, engagement'[e].status)
<1> DEFINE eng == engagement[e]
<1>0. /\ eng = [status |-> eng.status, past |-> eng.past]
      /\ eng.status = "Active" => ~Changed(eng.past)
      /\ eng.past \in Seq(Home) /\ PlanKept(eng.past)
  BY DEF Engagement, EngagementInPlace, InPlace
<1>1. CASE engagement'[e] = eng
  BY <1>0, <1>1, HomesAre DEF PlanIsKept, Changed, Resumes
<1>2. CASE engagement'[e] = NoEngagement
  <2>1. NoEngagement \in Engagement
    BY DEF NoEngagement, Engagement, Statuses
  <2>2. EngagementInPlace(NoEngagement)
    BY DEF NoEngagement, EngagementInPlace, InPlace, PlanKept, Changed, Elements
  <2> QED BY <1>2, <2>1, <2>2, HomesAre DEF NoEngagement, PlanIsKept, Resumes, Work
<1>3. CASE /\ eng.status = "None"
           /\ engagement'[e] = [eng EXCEPT !.status = "InDevelopment"]
  <2>1. engagement'[e] = [status |-> "InDevelopment", past |-> eng.past]
    BY <1>0, <1>3
  <2>2. engagement'[e] \in Engagement
    BY <1>0, <2>1 DEF Engagement, Statuses, Ongoing
  <2>3. EngagementInPlace(engagement'[e])
    BY <1>0, <1>3, <2>1 DEF EngagementInPlace, InPlace
  <2> QED BY <2>1, <2>2, <2>3, HomesAre DEF PlanIsKept, Resumes, Work
<1>4. ASSUME NEW p, NEW s \in NextStatuses(eng, p), engagement'[e] = With(eng, s)
      PROVE  /\ engagement'[e] \in Engagement
             /\ EngagementInPlace(engagement'[e])
             /\ PlanIsKept(eng.past, eng.status, engagement'[e].status)
             /\ ~Resumes(eng.past, eng.status, engagement'[e].status)
  <2>1. LegalStatus(eng.status, s, eng.past)
    BY <1>0, NextStatusesAreLegal
  <2> QED BY <1>4, <2>1, LegalStatusKeeps
<1> QED BY <1>1, <1>2, <1>3, <1>4 DEF Changes

LEMMA EngagementsStep ==
  ASSUME EngagementsInv, overrides \in Nat, [Next]_vars, overrides' = 0
  PROVE  EngagementsInv'
<1>1. /\ engagement' = [e \in Engagements |-> engagement'[e]]
      /\ run' = [u \in Users |-> run'[u]]
      /\ \A u \in Users : run'[u] # NoRun => ~run'[u].privileged
      /\ \A e \in Engagements : Changes(e)
  BY EngagementsChange
<1>2. \A e \in Engagements :
         engagement'[e] \in Engagement /\ EngagementInPlace(engagement'[e])
  BY <1>1, ChangesKeep DEF EngagementsInv
<1>3. \A e \in Engagements : EngagementInPlace(engagement[e])'
  BY <1>2 DEF EngagementInPlace, InPlace, PlanKept, Changed, LeftWork, Elements
<1>4. engagement' \in [Engagements -> Engagement]
  BY <1>1, <1>2
<1> QED BY <1>1, <1>3, <1>4 DEF EngagementsInv

LEMMA OverridesStay ==
  ASSUME overrides \in Nat, [Next]_vars
  PROVE  overrides' \in Nat /\ (overrides' = 0 => overrides = 0)
BY DEF Next, ResolveTransition, ResolveBypass, Record, Refuse, CreateEngagement,
       DeleteEngagement, ChangeStatus, Override, vars

EngagementsRegular == overrides \in Nat /\ (overrides = 0 => EngagementsInv)

LEMMA EngagementsInitially == Init => EngagementsRegular
<1> SUFFICES ASSUME Init PROVE EngagementsRegular
  OBVIOUS
<1>1. NoEngagement \in Engagement
  BY DEF NoEngagement, Engagement, Statuses
<1>2. EngagementInPlace(NoEngagement)
  BY DEF NoEngagement, EngagementInPlace, InPlace, PlanKept, Changed, Elements
<1> QED BY <1>1, <1>2 DEF Init, EngagementsInv, EngagementsRegular

(* However many people work on the project: no engagement whose plan was      *)
(* changed becomes plainly active again, and suspended work is taken up again *)
(* out of its reactivation only (engagement.rules.ts).                        *)
EngagementsKeepTheirPlan ==
  [][(overrides' = 0) => \A e \in Engagements :
       /\ PlanIsKept(engagement[e].past, engagement[e].status, engagement'[e].status)
       /\ ~Resumes(engagement[e].past, engagement[e].status,
                   engagement'[e].status)]_vars

(* However many users work at once, engagements keep changed plans and        *)
(* suspensions, as their rules are applied when they are written.             *)
THEOREM EngagementPlansAreKept == Spec => EngagementsKeepTheirPlan
<1>1. EngagementsRegular /\ [Next]_vars => EngagementsRegular'
  BY EngagementsStep, OverridesStay DEF EngagementsRegular
<1>2. EngagementsRegular /\ [Next]_vars =>
        [(overrides' = 0) => \A e \in Engagements :
           /\ PlanIsKept(engagement[e].past, engagement[e].status, engagement'[e].status)
           /\ ~Resumes(engagement[e].past, engagement[e].status,
                       engagement'[e].status)]_vars
  <2> SUFFICES ASSUME EngagementsRegular, [Next]_vars, overrides' = 0,
                      NEW e \in Engagements
               PROVE  /\ PlanIsKept(engagement[e].past, engagement[e].status, engagement'[e].status)
                      /\ ~Resumes(engagement[e].past, engagement[e].status, engagement'[e].status)
    OBVIOUS
  <2>1. EngagementsInv /\ overrides \in Nat
    BY OverridesStay DEF EngagementsRegular
  <2>2. Changes(e)
    BY <2>1, EngagementsChange
  <2> QED BY <2>1, <2>2, ChangesKeep DEF EngagementsInv
<1> QED BY <1>1, <1>2, EngagementsInitially, PTL DEF Spec, EngagementsKeepTheirPlan
---------------------------------------------------------------------------
(* The project's step.                                                       *)

LEMMA LegalStepKeeps ==
  ASSUME NEW from \in Steps, NEW past \in Seq(Home), NEW to,
         InPlace(from, past, Development, Planning), LegalStep(from, to, past)
  PROVE  /\ to \in Steps /\ Remember(from, past) \in Seq(Home)
         /\ InPlace(to, Remember(from, past), Development, Planning)
         /\ PlanIsKept(past, from, to)
         /\ ~Resumes(past, from, to)
<1> DEFINE next == Remember(from, past)
<1>1. /\ PlanKept(past)
      /\ from = "Active" => ~Changed(past)
      /\ from \in Development => past = <<>>
      /\ from \in Planning => LeftWork(past)
  BY DEF InPlace
<1>2. /\ next \in Seq(Home) /\ PlanKept(next)
      /\ from \notin Home => next = past
      /\ from \in Home => next # <<>> /\ next[1] = from
  BY <1>1, RememberMeans
<1> HIDE DEF next
<1>3. to \in Steps
  BY DEF LegalStep, Steps, Development, Undertaken, Planning, Work, Home, Later
<1>4. to \in Development => from \in Development /\ from \notin Home
  BY DEF LegalStep, Development, Planning, Work, Home, Later
<1>5. to = "Active" => from \notin Home /\ ~Changed(past)
  BY <1>1 DEF LegalStep, Development, Planning, Terminating, Work, Home, Later,
     Unchanging, Changed, Elements
<1>6. to \in Planning => from \in Work \cup Planning
  BY DEF LegalStep, Development, Planning, Work, Home, Later
<1>7. to \in Planning => LeftWork(next)
  BY <1>1, <1>2, <1>6 DEF LeftWork, Work, Home, Planning
<1>8. InPlace(to, next, Development, Planning)
  BY <1>1, <1>2, <1>4, <1>5, <1>7 DEF InPlace
<1>9. PlanIsKept(past, from, to)
  BY <1>5 DEF PlanIsKept, Changed, Home
<1>10. ~Resumes(past, from, to)
  <2>1. SUFFICES ASSUME /\ past # <<>> /\ past[1] \notin Work
                        /\ to \in Work
                        /\ from \notin Work \cup {"DiscussingReactivation",
                                                  "PendingReactivationApproval"}
                 PROVE  FALSE
    BY HomesAre DEF Resumes
  <2>2. from \notin Development /\ from \notin Planning
    BY <1>1, <2>1 DEF LeftWork
  <2>3. from \in Terminating /\ to = past[1]
    BY <2>1, <2>2 DEF LegalStep, Planning, Work, Later
  <2> QED BY <2>1, <2>3
<1> QED BY <1>2, <1>3, <1>8, <1>9, <1>10 DEF next

LEMMA ResolvedIsLegal ==
  ASSUME EngagementsInv, StepsInv, NEW u \in Users, NEW t \in Transitions,
         NEW p \in BOOLEAN, ResolveTransition(u, t, p)
  PROVE  /\ run'[u].from = step
         /\ LegalStep(step, run'[u].to, stepPast)
         /\ run'[u].to = "Completed" => OngoingAreFinalizing
<1>1. /\ step \in t.from /\ \A c \in t.conditions : Holds(c)
  BY DEF ResolveTransition, Available
<1>2. /\ run'[u].from = step /\ run'[u].to = MostRecent(t.to, stepPast)
  BY DEF ResolveTransition, EngagementsInv
<1>3. Holds("OngoingAreFinalizing") => OngoingAreFinalizing
  BY DEF Holds
<1> QED BY <1>1, <1>2, <1>3, TransitionsAreLegal DEF StepsInv, InPlace

LEMMA StepsStep ==
  ASSUME EngagementsInv, StepsInv, overrides \in Nat, crossed \in BOOLEAN,
         [Next]_vars, Regular'
  PROVE  /\ StepsInv'
         /\ \/ step' = step /\ stepPast' = stepPast
            \/ LegalStep(step, step', stepPast)
<1> DEFINE Goal == /\ StepsInv'
                   /\ \/ step' = step /\ stepPast' = stepPast
                      \/ LegalStep(step, step', stepPast)
<1>0. /\ run = [u \in Users |-> run[u]]
      /\ engagement = [e \in Engagements |-> engagement[e]]
      /\ overrides' = 0 /\ ~crossed'
  BY DEF EngagementsInv, Regular
<1>a. ASSUME /\ step' = step /\ stepPast' = stepPast
             /\ \A u \in Users \ overtaken' : run'[u] # NoRun =>
                  /\ run'[u].from = step
                  /\ LegalStep(step, run'[u].to, stepPast)
                  /\ run'[u].to = "Completed" => OngoingAreFinalizing'
      PROVE  Goal
  <2>1. /\ (step \in Steps)' /\ (stepPast \in Seq(Home))'
        /\ InPlace(step, stepPast, Development, Planning)'
    BY <1>a DEF StepsInv, InPlace, PlanKept, Changed, LeftWork, Elements
  <2>2. ASSUME NEW u \in Users \ overtaken', run'[u] # NoRun
        PROVE  LegalStep(step, run[u].to, stepPast)'
    BY <1>a, <2>2 DEF LegalStep, Unchanging, Changed, Elements
  <2> QED BY <1>a, <2>1, <2>2 DEF StepsInv
<1>b. ASSUME step' = step, stepPast' = stepPast, overtaken \subseteq overtaken',
             \A u \in Users \ overtaken' : run'[u] # NoRun =>
               /\ run'[u] = run[u]
               /\ run[u].to = "Completed" =>
                    (OngoingAreFinalizing => OngoingAreFinalizing')
      PROVE  Goal
  <2>1. \A u \in Users \ overtaken' : run'[u] # NoRun =>
          /\ run'[u].from = step
          /\ LegalStep(step, run'[u].to, stepPast)
          /\ run'[u].to = "Completed" => OngoingAreFinalizing'
    BY <1>b DEF StepsInv
  <2> HIDE DEF Goal
  <2> QED BY <1>a, <1>b, <2>1
<1>1. ASSUME NEW u \in Users, NEW t \in Transitions, NEW p \in BOOLEAN,
             ResolveTransition(u, t, p)
      PROVE  Goal
  <2>1. /\ step' = step /\ stepPast' = stepPast /\ engagement' = engagement
        /\ overtaken' = overtaken
    BY <1>1 DEF ResolveTransition, projectVars
  <2>2. OngoingAreFinalizing => OngoingAreFinalizing'
    BY <2>1 DEF OngoingAreFinalizing, IsOngoing
  <2>3. \A v \in Users : v # u => run'[v] = run[v]
    BY <1>0, <1>1 DEF ResolveTransition
  <2>4. /\ run'[u].from = step
        /\ LegalStep(step, run'[u].to, stepPast)
        /\ run'[u].to = "Completed" => OngoingAreFinalizing
    BY <1>1, ResolvedIsLegal
  <2>5. \A v \in Users \ overtaken' : run'[v] # NoRun =>
          /\ run'[v].from = step
          /\ LegalStep(step, run'[v].to, stepPast)
          /\ run'[v].to = "Completed" => OngoingAreFinalizing'
    BY <2>1, <2>2, <2>3, <2>4 DEF StepsInv
  <2> HIDE DEF Goal
  <2> QED BY <1>a, <2>1, <2>5
<1>2. ASSUME NEW u \in Users, NEW s \in Steps, ResolveBypass(u, s)
      PROVE  Goal
  BY <1>0, <1>2 DEF ResolveBypass, Override
<1>3. ASSUME NEW u \in Users, Record(u)
      PROVE  Goal
  <2>1. /\ run[u] # NoRun /\ step' = run[u].to /\ stepPast' = Remember(step, stepPast)
        /\ \A v \in Users \ overtaken' : run'[v] = NoRun
        /\ u \notin overtaken
    BY <1>0, <1>3 DEF Record, Idle
  <2>2. LegalStep(step, step', stepPast)
    BY <2>1 DEF StepsInv
  <2>3. /\ step' \in Steps /\ stepPast' \in Seq(Home)
        /\ InPlace(step', stepPast', Development, Planning)
    BY <2>1, <2>2, LegalStepKeeps DEF StepsInv
  <2>4. InPlace(step, stepPast, Development, Planning)'
    BY <2>3 DEF InPlace, PlanKept, Changed, LeftWork, Elements
  <2> QED BY <2>1, <2>2, <2>3, <2>4 DEF StepsInv
<1>4. ASSUME NEW u \in Users, Refuse(u)
      PROVE  Goal
  <2>1. /\ step' = step /\ stepPast' = stepPast /\ engagement' = engagement
        /\ overtaken' = overtaken \ {u}
        /\ run'[u] = NoRun /\ \A v \in Users : v # u => run'[v] = run[v]
    BY <1>0, <1>4 DEF Refuse, projectVars
  <2>2. OngoingAreFinalizing => OngoingAreFinalizing'
    BY <2>1 DEF OngoingAreFinalizing, IsOngoing
  <2>3. \A v \in Users \ overtaken' : run'[v] # NoRun =>
          /\ run'[v].from = step
          /\ LegalStep(step, run'[v].to, stepPast)
          /\ run'[v].to = "Completed" => OngoingAreFinalizing'
    BY <2>1, <2>2 DEF StepsInv
  <2> HIDE DEF Goal
  <2> QED BY <1>a, <2>1, <2>3
<1>5. ASSUME NEW u \in Users, NEW e \in Engagements, NEW p \in BOOLEAN,
             \/ CreateEngagement(u, e, p)
             \/ \E s \in Ongoing \cup Terminal : ChangeStatus(u, e, s, p)
      PROVE  Goal
  <2>1. /\ step' = step /\ stepPast' = stepPast /\ run' = run
        /\ overtaken' = overtaken \cup Completing
    BY <1>5 DEF CreateEngagement, ChangeStatus, projectVars
  <2>2. \A v \in Users \ overtaken' : run'[v] # NoRun => run[v].to # "Completed"
    BY <2>1 DEF Completing, Idle
  <2> HIDE DEF Goal
  <2> QED BY <1>b, <2>1, <2>2
<1>6. ASSUME NEW u \in Users, NEW e \in Engagements, NEW p \in BOOLEAN,
             DeleteEngagement(u, e, p)
      PROVE  Goal
  <2>1. /\ step' = step /\ stepPast' = stepPast /\ run' = run
        /\ overtaken' = overtaken /\ engagement' = [engagement EXCEPT ![e] = NoEngagement]
    BY <1>6 DEF DeleteEngagement, projectVars
  <2>2. \A x \in Engagements : engagement'[x] = engagement[x]
                             \/ engagement'[x].status = "None"
    BY <1>0, <2>1 DEF NoEngagement
  <2>3. OngoingAreFinalizing => OngoingAreFinalizing'
    BY <2>2 DEF OngoingAreFinalizing, IsOngoing, Ongoing
  <2> HIDE DEF Goal
  <2> QED BY <1>b, <2>1, <2>3
<1>8. CASE UNCHANGED vars
  <2>1. /\ step' = step /\ stepPast' = stepPast /\ engagement' = engagement
        /\ run' = run /\ overtaken' = overtaken
    BY <1>8 DEF vars, projectVars
  <2>2. OngoingAreFinalizing => OngoingAreFinalizing'
    BY <2>1 DEF OngoingAreFinalizing, IsOngoing
  <2> HIDE DEF Goal
  <2>3. Goal
    BY <1>b, <2>1, <2>2
  <2> QED BY <2>3 DEF Goal
<1> HIDE DEF Goal
<1>9. ASSUME Next PROVE Goal
  <2>1. PICK u \in Users :
          \/ \E t \in Transitions, p \in BOOLEAN : ResolveTransition(u, t, p)
          \/ \E s \in Steps : ResolveBypass(u, s)
          \/ Record(u)
          \/ Refuse(u)
          \/ \E e \in Engagements, p \in BOOLEAN :
               \/ CreateEngagement(u, e, p)
               \/ DeleteEngagement(u, e, p)
               \/ \E s \in Ongoing \cup Terminal : ChangeStatus(u, e, s, p)
    BY <1>9 DEF Next
  <2> QED BY <1>1, <1>2, <1>3, <1>4, <1>5, <1>6, <2>1
<1> QED BY <1>8, <1>9 DEF Goal
---------------------------------------------------------------------------
(* The engagements follow the project out of development and to its end.     *)

Outcome == Terminal \ {"Terminated"}
Closed     == step \in Outcome => \A e \in Engagements : ~IsOngoing(e)
NotStarted == step \in Development =>
  \A e \in Engagements : engagement[e].status \in {"None", "InDevelopment"}

(* Recorded transitions: within development no engagement moves, out of the   *)
(* project every one that is open does.                                       *)
LEMMA RecordedOutcome ==
  ASSUME EngagementsInv, StepsInv, NotStarted, NEW u \in Users \ overtaken, Record(u)
  PROVE  Closed' /\ NotStarted'
<1> DEFINE r == run[u]
           new == NewStatus(r.from, r.to)
<1>1. /\ r.from = step /\ step' = r.to /\ LegalStep(step, r.to, stepPast)
      /\ r.to = "Completed" => OngoingAreFinalizing
      /\ engagement' = [e \in Engagements |-> IF e \in Moved(r)
                           THEN With(engagement[e], new) ELSE engagement[e]]
  BY DEF Record, Idle, StepsInv
<1>2. \A e \in Engagements : engagement'[e].status = IF e \in Moved(r) THEN new
                                                       ELSE engagement[e].status
  BY <1>1 DEF With
<1>3. CASE r.to \in Development
  <2>1. step \in Development
    BY <1>1, <1>3 DEF LegalStep, Development, Planning, Work, Home, Later
  <2>2. new = "None"
    <3>1. StepToStatus(r.to) = "InDevelopment" /\ StepToStatus(r.from) = "InDevelopment"
      BY <1>1, <1>3, <2>1 DEF StepToStatus, Development, Undertaken
    <3>2. r.to \notin Mirrored
      BY <1>3 DEF Mirrored, Terminal, Development
    <3> QED BY <3>1, <3>2 DEF NewStatus
  <2>3. Moved(r) = {}
    BY <2>2 DEF Moved
  <2>4. step' \notin Outcome
    BY <1>1, <1>3 DEF Development, Outcome, Terminal
  <2> QED BY <1>2, <2>1, <2>3, <2>4 DEF Closed, NotStarted
<1>4. CASE r.to \in Outcome
  <2>1. step' \notin Development
    BY <1>1, <1>4 DEF Development, Outcome, Terminal
  <2>2. new = r.to
    <3>1. step # r.to
      BY <1>1, <1>4 DEF LegalStep, Development, Undertaken, Planning, Work, Home, Later,
         Outcome, Terminal
    <3>2. r.to \in Mirrored /\ r.from # r.to
      BY <1>1, <1>4, <3>1 DEF Mirrored, Outcome
    <3> QED BY <3>2 DEF NewStatus
  <2>3. /\ r.to = "Completed" /\ step = "FinalizingCompletion"
        \/ step \in Development
    BY <1>1, <1>4 DEF LegalStep, Planning, Work, Home, Later, Outcome, Terminal
  <2>4. ASSUME NEW e \in Engagements, IsOngoing(e) PROVE e \in Moved(r)
    <3>1. engagement[e].status \in {"InDevelopment", "FinalizingCompletion"}
      BY <1>1, <2>3, <2>4 DEF OngoingAreFinalizing, NotStarted, IsOngoing, Ongoing
    <3>2. e \in Followers(r.from)
      BY <2>4, <3>1 DEF Followers
    <3> QED BY <1>4, <2>2, <3>1, <3>2 DEF Moved, Outcome, Terminal
  <2>5. \A e \in Engagements : engagement'[e].status \notin Ongoing
    BY <1>2, <1>4, <2>2, <2>4 DEF IsOngoing, Outcome, Terminal, Ongoing
  <2> QED BY <2>1, <2>5 DEF Closed, NotStarted, IsOngoing
<1> QED BY <1>1, <1>3, <1>4 DEF Closed, NotStarted

LEMMA DevelopmentIs == \A s \in Steps : StepToStatus(s) = "InDevelopment" => s \in Development
BY DEF Steps, StepToStatus, Development, Undertaken

LEMMA OutcomeStep ==
  ASSUME EngagementsInv, StepsInv, Closed, NotStarted, overrides \in Nat,
         crossed \in BOOLEAN, [Next]_vars, Regular'
  PROVE  Closed' /\ NotStarted'
<1>0. /\ engagement = [e \in Engagements |-> engagement[e]]
      /\ overrides' = 0 /\ ~crossed'
  BY DEF EngagementsInv, Regular
<1>a. ASSUME step' = step, engagement' = engagement
      PROVE  Closed' /\ NotStarted'
  BY <1>a DEF Closed, NotStarted, IsOngoing
<1>1. ASSUME NEW u \in Users, Record(u)
      PROVE  Closed' /\ NotStarted'
  <2>1. u \notin overtaken
    BY <1>0, <1>1 DEF Record
  <2> QED BY <1>1, <2>1, RecordedOutcome
<1>2. ASSUME NEW u \in Users, NEW e \in Engagements, NEW p \in BOOLEAN,
             CreateEngagement(u, e, p)
      PROVE  Closed' /\ NotStarted'
  <2>1. ~p
    BY <1>0, <1>2, Verified DEF CreateEngagement
  <2>2. step' = step /\ step \notin Outcome
    BY <1>2, <2>1, DevelopmentIs DEF CreateEngagement, projectVars, StepsInv,
       Outcome, Terminal, Development
  <2>3. \A x \in Engagements :
           engagement'[x].status \in {engagement[x].status, "InDevelopment"}
    <3>1. engagement' = [engagement EXCEPT ![e] = [@ EXCEPT !.status = "InDevelopment"]]
      BY <1>2 DEF CreateEngagement
    <3>2. engagement[e] \in Engagement
      BY DEF EngagementsInv
    <3> QED BY <1>0, <3>1, <3>2 DEF Engagement
  <2> QED BY <2>2, <2>3 DEF Closed, NotStarted
<1>3. ASSUME NEW u \in Users, NEW e \in Engagements, NEW p \in BOOLEAN,
             DeleteEngagement(u, e, p)
      PROVE  Closed' /\ NotStarted'
  <2>1. /\ step' = step
        /\ \A x \in Engagements : engagement'[x].status \in {engagement[x].status, "None"}
    BY <1>0, <1>3 DEF DeleteEngagement, NoEngagement, projectVars
  <2> QED BY <2>1 DEF Closed, NotStarted, IsOngoing, Ongoing
<1>4. ASSUME NEW u \in Users, NEW e \in Engagements, NEW p \in BOOLEAN,
             NEW s \in Ongoing \cup Terminal, ChangeStatus(u, e, s, p)
      PROVE  Closed' /\ NotStarted'
  <2>1. step' = step /\ s \in NextStatuses(engagement[e], step)
    BY <1>0, <1>4, Verified DEF ChangeStatus, projectVars
  <2>2. engagement[e].status \in Ongoing
    BY <2>1, NextStatusesAreLegal DEF EngagementsInv, Engagement, EngagementInPlace, InPlace
  <2>3. step \notin Outcome
    BY <2>2 DEF Closed, IsOngoing
  <2>4. step \notin Development
    <3>1. SUFFICES ASSUME step \in Development PROVE FALSE
      OBVIOUS
    <3>2. engagement[e].status = "InDevelopment"
      BY <2>2, <3>1 DEF NotStarted, Ongoing
    <3>3. s \in OutOfDevelopment(step)
      BY <2>1, <3>2, HomesAre DEF NextStatuses, Work
    <3> QED BY <3>1, <3>3 DEF OutOfDevelopment, Development
  <2> QED BY <2>1, <2>3, <2>4 DEF Closed, NotStarted
<1>5. CASE UNCHANGED vars
  BY <1>5, <1>a DEF vars, projectVars
<1>6. ASSUME NEW u \in Users,
             \/ \E t \in Transitions, p \in BOOLEAN : ResolveTransition(u, t, p)
             \/ \E s \in Steps : ResolveBypass(u, s)
             \/ Refuse(u)
      PROVE  Closed' /\ NotStarted'
  BY <1>6, <1>a DEF ResolveTransition, ResolveBypass, Refuse, projectVars
<1>7. ASSUME Next PROVE Closed' /\ NotStarted'
  <2>1. PICK u \in Users :
          \/ \E t \in Transitions, p \in BOOLEAN : ResolveTransition(u, t, p)
          \/ \E s \in Steps : ResolveBypass(u, s)
          \/ Record(u)
          \/ Refuse(u)
          \/ \E e \in Engagements, p \in BOOLEAN :
               \/ CreateEngagement(u, e, p)
               \/ DeleteEngagement(u, e, p)
               \/ \E s \in Ongoing \cup Terminal : ChangeStatus(u, e, s, p)
    BY <1>7 DEF Next
  <2> QED BY <1>1, <1>2, <1>3, <1>4, <1>6, <2>1
<1> QED BY <1>5, <1>7

(* Everything that holds together while nobody skipped the rules, and no      *)
(* overtaken transition was recorded.                                        *)
WorkflowInv ==
  /\ overrides \in Nat /\ crossed \in BOOLEAN
  /\ Regular => EngagementsInv /\ StepsInv /\ Closed /\ NotStarted

LEMMA WorkflowInitially == Init => WorkflowInv
<1> SUFFICES ASSUME Init PROVE WorkflowInv
  OBVIOUS
<1>1. overrides = 0 /\ crossed \in BOOLEAN /\ EngagementsInv
  BY EngagementsInitially DEF Init, EngagementsRegular
<1>2. StepsInv
  BY DEF Init, StepsInv, InPlace, PlanKept, Changed, Elements, Steps, Development, Planning
<1>3. Closed /\ NotStarted
  BY DEF Init, Closed, NotStarted, IsOngoing, Ongoing, NoEngagement
<1> QED BY <1>1, <1>2, <1>3 DEF WorkflowInv

(* Neither can be undone.                                                    *)
LEMMA RegularBefore ==
  ASSUME overrides \in Nat, crossed \in BOOLEAN, [Next]_vars
  PROVE  /\ overrides' \in Nat /\ crossed' \in BOOLEAN
         /\ Regular' => Regular /\ overrides' = 0
<1>1. overrides' \in Nat /\ (overrides' = 0 => overrides = 0)
  BY OverridesStay
<1>2. crossed' = crossed \/ \E u \in Users : Record(u)
  BY DEF Next, ResolveTransition, ResolveBypass, Refuse, CreateEngagement,
         DeleteEngagement, ChangeStatus, vars
<1>3. crossed' \in BOOLEAN /\ (~crossed' => ~crossed)
  <2>1. CASE crossed' = crossed
    BY <2>1
  <2>2. ASSUME NEW u \in Users, Record(u)
        PROVE  crossed' \in BOOLEAN /\ (~crossed' => ~crossed)
    <3>1. crossed' = (crossed \/ u \in overtaken)
      BY <2>2 DEF Record
    <3> QED BY <3>1
  <2> QED BY <1>2, <2>1, <2>2
<1> QED BY <1>1, <1>3 DEF Regular

LEMMA WorkflowStep ==
  ASSUME WorkflowInv, [Next]_vars
  PROVE  WorkflowInv'
<1>1. /\ overrides' \in Nat /\ crossed' \in BOOLEAN
      /\ Regular' => Regular /\ overrides' = 0
  BY RegularBefore DEF WorkflowInv
<1>2. ASSUME Regular'
      PROVE  EngagementsInv' /\ StepsInv' /\ Closed' /\ NotStarted'
  <2>1. /\ overrides \in Nat /\ crossed \in BOOLEAN /\ EngagementsInv /\ StepsInv
        /\ Closed /\ NotStarted /\ overrides' = 0
    BY <1>1, <1>2 DEF WorkflowInv
  <2> QED BY <1>2, <2>1, EngagementsStep, StepsStep, OutcomeStep
<1> QED BY <1>1, <1>2 DEF WorkflowInv

LEMMA WorkflowInductive == Spec => []WorkflowInv
<1>1. WorkflowInv /\ [Next]_vars => WorkflowInv'
  BY WorkflowStep
<1> QED BY <1>1, WorkflowInitially, PTL DEF Spec

(* A project that is completed, rejected or did not develop leaves no         *)
(* engagement open, suspended ones included, whoever works on it, as long as  *)
(* no overtaken transition is recorded (conditions.ts,                        *)
(* update-engagement-status.handler.ts).                                      *)
THEOREM ProjectsEndTogether == Spec => []ClosedIsResolved
<1>1. WorkflowInv => ClosedIsResolved
  BY DEF WorkflowInv, Closed, Outcome, ClosedIsResolved
<1> QED BY <1>1, WorkflowInductive, PTL

(* While the project is in development no engagement is past development,     *)
(* as long as no overtaken transition is recorded (engagement.rules.ts).      *)
THEOREM ProjectsStartTogether == Spec => []DevelopmentHasNotStarted
<1>1. WorkflowInv => DevelopmentHasNotStarted
  BY DEF WorkflowInv, NotStarted, DevelopmentHasNotStarted
<1> QED BY <1>1, WorkflowInductive, PTL

LEMMA WorkflowMoves ==
  ASSUME WorkflowInv, [Next]_vars, Regular'
  PROVE  /\ overrides \in Nat /\ EngagementsInv
         /\ \A e \in Engagements : Changes(e)
         /\ \/ step' = step
            \/ /\ PlanIsKept(stepPast, step, step')
               /\ ~Resumes(stepPast, step, step')
<1>1. /\ overrides \in Nat /\ crossed \in BOOLEAN /\ EngagementsInv /\ StepsInv
      /\ overrides' = 0
  BY RegularBefore DEF WorkflowInv
<1>2. \A e \in Engagements : Changes(e)
  BY <1>1, EngagementsChange
<1>3. step' = step \/ LegalStep(step, step', stepPast)
  BY <1>1, StepsStep
<1>4. ASSUME LegalStep(step, step', stepPast)
      PROVE  PlanIsKept(stepPast, step, step') /\ ~Resumes(stepPast, step, step')
  <2> DEFINE to == step'
  <2>1. /\ step \in Steps /\ stepPast \in Seq(Home)
        /\ InPlace(step, stepPast, Development, Planning)
        /\ LegalStep(step, to, stepPast)
    BY <1>1, <1>4 DEF StepsInv
  <2> HIDE DEF to
  <2>2. PlanIsKept(stepPast, step, to) /\ ~Resumes(stepPast, step, to)
    BY <2>1, LegalStepKeeps
  <2> QED BY <2>2 DEF to
<1> QED BY <1>1, <1>2, <1>3, <1>4

(* A plan that was changed stays changed, for the project as for every one of *)
(* its engagements, as long as no overtaken transition is recorded            *)
(* (dynamic-step.ts, getMostRecentPreviousStatus).                            *)
THEOREM PlansStayChanged == Spec => ChangedPlanIsKept
<1>1. WorkflowInv /\ [Next]_vars =>
        [Regular' =>
       /\ "ActiveChangedPlan" \in Elements(stepPast) \cup {step}
            => (step' # "Active" \/ step' = step)
       /\ \A e \in Engagements :
            "ActiveChangedPlan"
                \in Elements(engagement[e].past) \cup {engagement[e].status}
              => engagement'[e].status \in
                   (Ongoing \cup Terminal \cup {"None"}) \ {"Active"}]_vars
  <2> SUFFICES ASSUME WorkflowInv, [Next]_vars, Regular'
               PROVE
       /\ "ActiveChangedPlan" \in Elements(stepPast) \cup {step}
            => (step' # "Active" \/ step' = step)
       /\ \A e \in Engagements :
            "ActiveChangedPlan"
                \in Elements(engagement[e].past) \cup {engagement[e].status}
              => engagement'[e].status \in
                   (Ongoing \cup Terminal \cup {"None"}) \ {"Active"}
    OBVIOUS
  <2>1. /\ EngagementsInv /\ \A e \in Engagements : Changes(e)
        /\ step' = step \/ PlanIsKept(stepPast, step, step')
    BY WorkflowMoves
  <2>2. \A e \in Engagements :
          /\ engagement'[e] \in Engagement
          /\ PlanIsKept(engagement[e].past, engagement[e].status, engagement'[e].status)
    BY <2>1, ChangesKeep DEF EngagementsInv
  <2> QED BY <2>1, <2>2 DEF PlanIsKept, Engagement, Statuses
<1> QED BY <1>1, WorkflowInductive, PTL DEF Spec, ChangedPlanIsKept

(* Suspended work is taken up again out of its reactivation only, by the      *)
(* project and by every one of its engagements, as long as no overtaken       *)
(* transition is recorded (project-workflow.ts, engagement.rules.ts).         *)
THEOREM ReactivationIsTheWayBack == Spec => ResumedByReactivation
<1>1. WorkflowInv /\ [Next]_vars =>
        [Regular' =>
       /\ ~Resumes(stepPast, step, step')
       /\ \A e \in Engagements :
            ~Resumes(engagement[e].past, engagement[e].status,
                     engagement'[e].status)]_vars
  <2> SUFFICES ASSUME WorkflowInv, [Next]_vars, Regular'
               PROVE  /\ ~Resumes(stepPast, step, step')
                      /\ \A e \in Engagements :
                           ~Resumes(engagement[e].past, engagement[e].status,
                                    engagement'[e].status)
    OBVIOUS
  <2>1. /\ EngagementsInv /\ \A e \in Engagements : Changes(e)
        /\ step' = step \/ ~Resumes(stepPast, step, step')
    BY WorkflowMoves
  <2>2. ~Resumes(stepPast, step, step)
    BY DEF Resumes
  <2>3. ~Resumes(stepPast, step, step')
    BY <2>1, <2>2
  <2> QED BY <2>1, <2>3, ChangesKeep DEF EngagementsInv
<1> QED BY <1>1, WorkflowInductive, PTL DEF Spec, ResumedByReactivation
=============================================================================
