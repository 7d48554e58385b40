------------------------ MODULE ProjectFundingProofs ------------------------
(* For any partners, dates and bounds: however partnerships are added,       *)
(* changed and deleted outside of change requests, exactly one is primary.   *)
EXTENDS ProjectFunding, TLAPS

IsLive(ps, p) == ps[p].state = "live"
IsPrimary(ps, p) == IsLive(ps, p) /\ ps[p].primary

(* Nothing is proposed or marked.                                            *)
Settled(ps) ==
  /\ ps \in [Partners -> PartnershipType]
  /\ \A p \in Partners : ps[p].state \in {"absent", "live"} /\ ~ps[p].deleting

Single(ps) ==
  (\E p \in Partners : IsLive(ps, p)) =>
    \E p \in Partners :
      IsPrimary(ps, p) /\ \A q \in Partners : IsPrimary(ps, q) => q = p

NothingKeptBack == request.changes = [p \in Partners |-> NoChanges]

IInv ==
  /\ proposals \in Nat
  /\ Direct => Settled(partnerships) /\ Single(partnerships) /\ NothingKeptBack

---------------------------------------------------------------------------
(* What a save changes, put on top of what was there, is what was saved.     *)
LEMMA PatchedChanged ==
  ASSUME NEW old \in PartnershipType, NEW new \in PartnershipType
  PROVE  Patched(old, Changed(new, old)) = new
BY DEF PartnershipType, Patched, Changed

(* The request's view of what it did not touch is what is live.              *)
LEMMA PatchedNothing ==
  ASSUME NEW old \in PartnershipType
  PROVE  Patched(old, NoChanges) = old
BY DEF PartnershipType, Patched, NoChanges

LEMMA AbsentType == Absent \in PartnershipType
BY DEF Absent, PartnershipType, Dates

(* Taking primary from the others leaves this one alone, and it alone.       *)
LEMMA OthersDemoted ==
  ASSUME NEW p \in Partners, NEW ps, Settled(ps), IsLive(ps, p)
  PROVE  LET demoted == PrimaryRemovedFromOthers(p, ps) IN
         /\ Settled(demoted)
         /\ demoted[p] = ps[p]
         /\ \A q \in Partners : IsPrimary(demoted, q) => q = p
<1> DEFINE demoted == PrimaryRemovedFromOthers(p, ps)
<1>1. ASSUME NEW q \in Partners
      PROVE  /\ demoted[q] \in PartnershipType
             /\ demoted[q].state = ps[q].state
             /\ demoted[q].deleting = ps[q].deleting
             /\ q # p => ~IsPrimary(demoted, q)
  BY DEF Settled, IsLive, IsPrimary, PrimaryRemovedFromOthers, PartnershipType
<1>2. demoted = [q \in Partners |-> demoted[q]]
  BY DEF PrimaryRemovedFromOthers
<1>3. demoted[p] = ps[p]
  BY DEF PrimaryRemovedFromOthers
<1>4. demoted \in [Partners -> PartnershipType]
  BY <1>1, <1>2
<1> QED BY <1>1, <1>3, <1>4 DEF Settled

(* One that is given a record with primary takes it from the others.         *)
LEMMA PrimaryTaken ==
  ASSUME NEW p \in Partners, NEW ps, Settled(ps), IsPrimary(ps, p),
         \A q \in Partners : IsPrimary(ps, q) => q = p
  PROVE  Single(ps)
BY DEF Single

LEMMA Replaced ==
  ASSUME NEW p \in Partners, NEW ps, Settled(ps),
         NEW new \in PartnershipType,
         new.state \in {"absent", "live"}, ~new.deleting
  PROVE  /\ Settled([ps EXCEPT ![p] = new])
         /\ [ps EXCEPT ![p] = new][p] = new
         /\ \A q \in Partners \ {p} : [ps EXCEPT ![p] = new][q] = ps[q]
BY DEF Settled

---------------------------------------------------------------------------
LEMMA CreateSingle ==
  ASSUME NEW p \in Partners, NEW funding \in BOOLEAN, NEW primary \in BOOLEAN,
         NEW o \in Overrides,
         Settled(partnerships), Single(partnerships),
         CreatePartnership(p, funding, primary, o[1], o[2], FALSE)
  PROVE  Settled(partnerships') /\ Single(partnerships')
<1> DEFINE new == [Absent EXCEPT
                     !.state = "live", !.funding = funding,
                     !.primary = primary \/ IsFirst(FALSE),
                     !.start = o[1], !.end = o[2]]
           added == [partnerships EXCEPT ![p] = new]
<1>1. new \in PartnershipType /\ new.state = "live" /\ ~new.deleting
      /\ new.primary = (primary \/ IsFirst(FALSE))
  BY DatesAssumption DEF Absent, PartnershipType, Dates, IsFirst
<1>2. /\ Settled(added) /\ added[p] = new
      /\ \A q \in Partners \ {p} : added[q] = partnerships[q]
  <2> HIDE DEF new
  <2> QED BY <1>1, Replaced
<1>3. /\ partnerships[p].state = "absent"
      /\ partnerships' = IF new.primary THEN PrimaryRemovedFromOthers(p, added)
                         ELSE added
  BY DEF CreatePartnership
<1> HIDE DEF new, added
<1>4. CASE new.primary
  <2>1. /\ Settled(partnerships') /\ partnerships'[p] = new
        /\ \A q \in Partners : IsPrimary(partnerships', q) => q = p
    BY <1>1, <1>2, <1>3, <1>4, OthersDemoted DEF IsLive
  <2>2. IsPrimary(partnerships', p)
    BY <1>1, <1>4, <2>1 DEF IsPrimary, IsLive
  <2> QED BY <2>1, <2>2, PrimaryTaken
<1>5. CASE ~new.primary
  <2>1. partnerships' = added
    BY <1>3, <1>5
  <2>2. LiveOnes # {}
    BY <1>1, <1>5 DEF IsFirst
  <2>3. PICK q \in Partners :
          /\ IsPrimary(partnerships, q)
          /\ \A x \in Partners : IsPrimary(partnerships, x) => x = q
    BY <2>2 DEF LiveOnes, Single, IsLive
  <2>4. q # p
    BY <1>3, <2>3 DEF IsPrimary, IsLive
  <2>5. IsPrimary(added, q)
    BY <1>2, <2>3, <2>4 DEF IsPrimary, IsLive
  <2>6. ASSUME NEW x \in Partners, IsPrimary(added, x)
        PROVE  x = q
    <3>1. x # p
      BY <1>2, <1>5, <2>6 DEF IsPrimary
    <3> QED BY <1>2, <2>3, <2>6, <3>1 DEF IsPrimary, IsLive
  <2> QED BY <1>2, <2>1, <2>5, <2>6, PrimaryTaken
<1> QED BY <1>4, <1>5

LEMMA UpdateSingle ==
  ASSUME NEW p \in Partners, NEW funding \in BOOLEAN, NEW primary \in BOOLEAN,
         NEW o \in Overrides,
         Settled(partnerships), Single(partnerships),
         UpdatePartnership(p, funding, primary, o[1], o[2], FALSE)
  PROVE  /\ Settled(partnerships') /\ Single(partnerships')
         /\ UNCHANGED request
<1> DEFINE old == partnerships[p]
           new == [old EXCEPT !.funding = funding, !.primary = primary \/ @,
                              !.start = o[1], !.end = o[2]]
           asked == IF new.primary # old.primary
                    THEN PrimaryRemovedFromOthers(p, partnerships)
                    ELSE partnerships
<1>1. old \in PartnershipType /\ old.state = "live" /\ ~old.deleting
  BY DEF Settled, UpdatePartnership, Seen
<1>2. new \in PartnershipType /\ new.state = "live" /\ ~new.deleting
      /\ new.primary = (primary \/ old.primary)
  BY <1>1, DatesAssumption DEF PartnershipType, Dates
<1>3. /\ partnerships' = [asked EXCEPT ![p] = Patched(@, Changed(new, old))]
      /\ UNCHANGED request
  BY DEF UpdatePartnership, Seen
<1> HIDE DEF new
<1>4. /\ Settled(asked) /\ asked[p] = old
      /\ new.primary # old.primary =>
           \A q \in Partners : IsPrimary(asked, q) => q = p
      /\ new.primary = old.primary => asked = partnerships
  BY <1>1, OthersDemoted DEF IsLive
<1> HIDE DEF asked
<1>5. partnerships' = [asked EXCEPT ![p] = new]
  <2>1. Patched(old, Changed(new, old)) = new
    BY <1>1, <1>2, PatchedChanged
  <2> QED BY <1>3, <1>4, <2>1
<1>6. /\ Settled(partnerships') /\ partnerships'[p] = new
      /\ \A q \in Partners \ {p} : partnerships'[q] = asked[q]
  <2> DEFINE updated == [asked EXCEPT ![p] = new]
  <2>1. /\ Settled(updated) /\ updated[p] = new
        /\ \A q \in Partners \ {p} : updated[q] = asked[q]
    BY <1>2, <1>4, Replaced
  <2>2. partnerships' = updated
    BY <1>5
  <2> HIDE DEF updated
  <2> QED BY <2>1, <2>2
<1> HIDE DEF old
<1>7. CASE new.primary # old.primary
  <2>1. new.primary /\ IsPrimary(partnerships', p)
    BY <1>1, <1>2, <1>6, <1>7 DEF PartnershipType, IsPrimary, IsLive
  <2>2. \A q \in Partners : IsPrimary(partnerships', q) => q = p
    BY <1>4, <1>6, <1>7 DEF IsPrimary, IsLive
  <2> QED BY <1>3, <1>6, <2>1, <2>2, PrimaryTaken
<1>8. CASE new.primary = old.primary
  <2>1. \A q \in Partners :
          /\ IsLive(partnerships', q) <=> IsLive(partnerships, q)
          /\ IsPrimary(partnerships', q) <=> IsPrimary(partnerships, q)
    BY <1>1, <1>2, <1>4, <1>6, <1>8 DEF IsPrimary, IsLive, old
  <2> QED BY <1>3, <1>6, <2>1 DEF Single
<1> QED BY <1>7, <1>8

LEMMA DeleteSingle ==
  ASSUME NEW p \in Partners, Settled(partnerships), Single(partnerships),
         NothingKeptBack, DeletePartnership(p, FALSE)
  PROVE  Settled(partnerships') /\ Single(partnerships') /\ NothingKeptBack'
<1>1. /\ p \in LiveOnes /\ MayGo(p)
      /\ partnerships' = [partnerships EXCEPT ![p] = Absent]
      /\ request' = [request EXCEPT !.changes[p] = NoChanges]
  BY DEF DeletePartnership
<1>2. /\ Settled(partnerships') /\ partnerships'[p] = Absent
      /\ \A q \in Partners \ {p} : partnerships'[q] = partnerships[q]
  <2>1. Absent.state = "absent" /\ ~Absent.deleting
    BY DEF Absent
  <2> DEFINE without == [partnerships EXCEPT ![p] = Absent]
  <2>2. /\ Settled(without) /\ without[p] = Absent
        /\ \A q \in Partners \ {p} : without[q] = partnerships[q]
    BY <2>1, AbsentType, Replaced
  <2>3. partnerships' = without
    BY <1>1
  <2> HIDE DEF without
  <2> QED BY <2>2, <2>3
<1>3. NothingKeptBack'
  BY <1>1 DEF NothingKeptBack
<1>4. ~IsLive(partnerships', p)
  BY <1>2 DEF IsLive, Absent
<1>5. ASSUME NEW x \in Partners, IsLive(partnerships', x)
      PROVE  Single(partnerships')
  <2>1. x # p /\ IsLive(partnerships, x)
    BY <1>2, <1>4, <1>5 DEF IsLive
  <2>2. ~partnerships[p].primary
    BY <1>1, <2>1 DEF MayGo, LiveOnes, IsLive
  <2>3. \A q \in Partners :
          IsPrimary(partnerships', q) <=> IsPrimary(partnerships, q)
    BY <1>2, <1>4, <2>2 DEF IsPrimary, IsLive
  <2> QED BY <2>1, <2>3 DEF Single
<1> QED BY <1>2, <1>3, <1>5 DEF Single

(* Finalizing a request that changed nothing.                                *)
LEMMA FinalizeSingle ==
  ASSUME Settled(partnerships), Single(partnerships), NothingKeptBack,
         Approve \/ Reject
  PROVE  Settled(partnerships') /\ Single(partnerships') /\ NothingKeptBack'
<1>1. \A p \in Partners : Seen(p, TRUE) = partnerships[p]
  BY PatchedNothing DEF Settled, NothingKeptBack, Seen
<1>2. partnerships' = [p \in Partners |-> Finalized(partnerships[p])]
  BY <1>1 DEF Approve, Reject
<1>3. ASSUME NEW p \in Partners
      PROVE  partnerships'[p] =
               IF IsLive(partnerships, p) THEN partnerships[p] ELSE Absent
  <2>1. partnerships[p] \in PartnershipType
    BY DEF Settled
  <2>2. IsLive(partnerships, p) =>
          [partnerships[p] EXCEPT !.state = "live"] = partnerships[p]
    BY <2>1 DEF IsLive, PartnershipType
  <2> QED BY <1>2, <2>2 DEF Settled, Finalized, IsLive
<1>4. ASSUME NEW p \in Partners
      PROVE  /\ partnerships'[p] \in PartnershipType
             /\ partnerships'[p].state \in {"absent", "live"}
             /\ ~partnerships'[p].deleting
             /\ IsLive(partnerships', p) <=> IsLive(partnerships, p)
             /\ IsPrimary(partnerships', p) <=> IsPrimary(partnerships, p)
  BY <1>3, AbsentType DEF Settled, IsLive, IsPrimary, Absent
<1>5. partnerships' \in [Partners -> PartnershipType]
  BY <1>2, <1>4
<1>6. NothingKeptBack'
  <2>1. \E applied \in BOOLEAN : request' = Request(FALSE, applied)
    BY DEF Approve, Reject
  <2> QED BY <2>1 DEF Request, NothingKeptBack
<1>7. Settled(partnerships')
  BY <1>4, <1>5 DEF Settled
<1>8. Single(partnerships')
  BY <1>4 DEF Single
<1> QED BY <1>6, <1>7, <1>8

---------------------------------------------------------------------------
LEMMA Initially == Init => IInv
<1> SUFFICES ASSUME Init PROVE IInv
  OBVIOUS
<1>1. Settled(partnerships)
  BY AbsentType DEF Init, Settled, Absent
<1>2. Single(partnerships)
  BY DEF Init, Single, IsLive, Absent
<1>3. NothingKeptBack
  BY DEF Init, Request, NothingKeptBack
<1> QED BY <1>1, <1>2, <1>3 DEF Init, IInv

(* A save within a change request is counted, and so ends what is direct.    *)
LEMMA Stepwise == IInv /\ [Next]_vars => IInv'
<1> SUFFICES ASSUME IInv, [Next]_vars PROVE IInv'
  OBVIOUS
<1> USE DEF IInv, Direct
<1>1. CASE UNCHANGED <<partnerships, request, proposals>>
  BY <1>1 DEF NothingKeptBack
<1>2. ASSUME NEW dates, Saves(dates, TRUE) PROVE IInv'
  BY <1>2 DEF Saves
<1>3. ASSUME NEW dates, Saves(dates, FALSE) PROVE proposals' = proposals
  BY <1>3 DEF Saves
<1>4. ASSUME NEW p \in Partners, NEW funding \in BOOLEAN,
             NEW primary \in BOOLEAN, NEW o \in Overrides, NEW w \in BOOLEAN,
             CreatePartnership(p, funding, primary, o[1], o[2], w)
      PROVE  IInv'
  <2>1. CASE w = TRUE
    BY <1>2, <1>4, <2>1 DEF CreatePartnership
  <2>2. CASE w = FALSE
    <3>1. proposals' = proposals /\ request' = request
      BY <1>3, <1>4, <2>2 DEF CreatePartnership
    <3> QED BY <1>4, <2>2, <3>1, CreateSingle DEF NothingKeptBack
  <2> QED BY <2>1, <2>2
<1>5. ASSUME NEW p \in Partners, NEW funding \in BOOLEAN,
             NEW primary \in BOOLEAN, NEW o \in Overrides, NEW w \in BOOLEAN,
             UpdatePartnership(p, funding, primary, o[1], o[2], w)
      PROVE  IInv'
  <2>1. CASE w = TRUE
    BY <1>2, <1>5, <2>1 DEF UpdatePartnership
  <2>2. CASE w = FALSE
    <3>1. proposals' = proposals
      BY <1>3, <1>5, <2>2 DEF UpdatePartnership
    <3> QED BY <1>5, <2>2, <3>1, UpdateSingle DEF NothingKeptBack
  <2> QED BY <2>1, <2>2
<1>6. ASSUME NEW p \in Partners, NEW w \in BOOLEAN, DeletePartnership(p, w)
      PROVE  IInv'
  <2>1. CASE w = TRUE
    BY <1>2, <1>6, <2>1 DEF DeletePartnership
  <2>2. CASE w = FALSE
    <3>1. proposals' = proposals
      BY <1>3, <1>6, <2>2 DEF DeletePartnership
    <3> QED BY <1>6, <2>2, <3>1, DeleteSingle
  <2> QED BY <2>1, <2>2
<1>7. ASSUME NEW d \in Spans, NEW w \in BOOLEAN, UpdateProject(d, w)
      PROVE  IInv'
  <2>1. CASE w = TRUE
    BY <1>2, <1>7, <2>1 DEF UpdateProject
  <2>2. CASE w = FALSE
    BY <1>1, <1>3, <1>7, <2>2 DEF UpdateProject
  <2> QED BY <2>1, <2>2
<1>8. ASSUME NEW r \in records, NEW w \in BOOLEAN, EnterAmount(r, w)
      PROVE  IInv'
  BY <1>1, <1>8 DEF EnterAmount
<1>9. CASE BudgetStatus
  BY <1>1, <1>9 DEF BudgetStatus
<1>10. CASE OpenRequest
  BY <1>10 DEF OpenRequest, Request, NothingKeptBack
<1>11. CASE Approve \/ Reject
  <2>1. proposals' = proposals
    BY <1>11 DEF Approve, Reject
  <2> QED BY <1>11, <2>1, FinalizeSingle
<1>12. CASE UNCHANGED vars
  BY <1>1, <1>12 DEF vars
<1> QED BY <1>4, <1>5, <1>6, <1>7, <1>8, <1>9, <1>10, <1>11, <1>12 DEF Next

LEMMA Implied == IInv => OnePrimary
<1> SUFFICES ASSUME IInv, Direct, LiveOnes # {}
             PROVE  \E p \in Primaries : Primaries = {p}
  BY DEF OnePrimary
<1>1. PICK p \in Partners :
        /\ IsPrimary(partnerships, p)
        /\ \A q \in Partners : IsPrimary(partnerships, q) => q = p
  BY DEF IInv, Single, LiveOnes, IsLive
<1>2. Primaries = {p}
  BY <1>1 DEF Primaries, LiveOnes, IsPrimary, IsLive
<1> QED BY <1>2

(* As long as nothing is saved within a change request, a project with       *)
(* partnerships has exactly one primary (PartnershipService.create, update   *)
(* and delete).                                                              *)
THEOREM OnlyOnePrimary == Spec => []OnePrimary
BY Initially, Stepwise, Implied, PTL DEF Spec
---------------------------------------------------------------------------
(* Types, and that nothing is proposed, marked or changed without a request. *)

OfPartnerships == {"funding", "primary", "start", "end"}
Fitting(c) == \A f \in DOMAIN c : IF f \in {"funding", "primary"} THEN c[f] \in BOOLEAN
                                  ELSE c[f] \in Dates
Changes ==
  {c \in UNION {[F -> BOOLEAN \cup Dates] : F \in SUBSET OfPartnerships} : Fitting(c)}
DatesType == [start : Dates, end : Dates]
DateChanges == UNION {[F -> Dates] : F \in SUBSET {"start", "end"}}
Requests == [open : BOOLEAN, applied : BOOLEAN, dates : DateChanges,
             changes : [Partners -> Changes]]

NothingOpen ==
  /\ \A p \in Partners : /\ partnerships[p].state # "proposed"
                         /\ ~partnerships[p].deleting
                         /\ request.changes[p] = NoChanges
  /\ request.dates = NoChanges
  /\ \A r \in records : r.active

FundingTyped ==
  /\ project \in DatesType /\ status \in {"Pending", "Current"}
  /\ partnerships \in [Partners -> PartnershipType]
  /\ records \subseteq RecordType
  /\ request \in Requests
  /\ saves \in 0 .. MaxSaves /\ proposals \in 0 .. MaxProposals
  /\ amounts \in 0 .. MaxAmounts /\ crossed \in BOOLEAN
  /\ before \subseteq Partners \X Partners /\ skipped \subseteq Partners
  /\ \A p \in Partners :
       /\ partnerships[p].state # "live" => request.changes[p] = NoChanges
       /\ partnerships[p].state = "absent" => partnerships[p] = Absent
  /\ ~request.open => NothingOpen

LEMMA ChangesMean ==
  ASSUME NEW c \in Changes
  PROVE  /\ DOMAIN c \subseteq OfPartnerships
         /\ \A f \in DOMAIN c : f \in {"funding", "primary"} => c[f] \in BOOLEAN
         /\ \A f \in DOMAIN c : f \in {"start", "end"} => c[f] \in Dates
<1>1. DOMAIN c \subseteq OfPartnerships
  BY DEF Changes
<1>2. Fitting(c)
  BY DEF Changes
<1> QED BY <1>1, <1>2 DEF Fitting

LEMMA NoChangesTyped ==
  NoChanges \in Changes /\ NoChanges \in DateChanges /\ DOMAIN NoChanges = {}
<1>1. /\ NoChanges \in [{} -> BOOLEAN \cup Dates] /\ NoChanges \in [{} -> Dates]
      /\ {} \in SUBSET OfPartnerships /\ {} \in SUBSET {"start", "end"}
      /\ DOMAIN NoChanges = {}
  BY DEF NoChanges
<1>2. NoChanges \in UNION {[F -> BOOLEAN \cup Dates] : F \in SUBSET OfPartnerships}
  BY <1>1
<1>3. NoChanges \in DateChanges
  BY <1>1 DEF DateChanges
<1>4. Fitting(NoChanges)
  BY <1>1 DEF Fitting
<1> QED BY <1>1, <1>2, <1>3, <1>4 DEF Changes

LEMMA PatchedMeans ==
  ASSUME NEW q \in PartnershipType, NEW c \in Changes
  PROVE  /\ Patched(q, c) \in PartnershipType
         /\ Patched(q, c).state = q.state /\ Patched(q, c).deleting = q.deleting
         /\ \A f \in DOMAIN q : Patched(q, c)[f] = IF f \in DOMAIN c THEN c[f] ELSE q[f]
<1>1. /\ DOMAIN q = {"state", "deleting", "funding", "primary", "start", "end"}
      /\ q.state \in {"absent", "proposed", "live"} /\ q.deleting \in BOOLEAN
      /\ q.funding \in BOOLEAN /\ q.primary \in BOOLEAN
      /\ q.start \in Dates /\ q.end \in Dates
  BY DEF PartnershipType
<1>2. \A f \in DOMAIN q : Patched(q, c)[f] = IF f \in DOMAIN c THEN c[f] ELSE q[f]
  BY DEF Patched
<1>3. "state" \notin DOMAIN c /\ "deleting" \notin DOMAIN c
  BY ChangesMean DEF OfPartnerships
<1>4. /\ Patched(q, c).state = q.state /\ Patched(q, c).deleting = q.deleting
      /\ Patched(q, c).funding \in BOOLEAN /\ Patched(q, c).primary \in BOOLEAN
      /\ Patched(q, c).start \in Dates /\ Patched(q, c).end \in Dates
  BY <1>1, <1>2, <1>3, ChangesMean
<1>5. Patched(q, c) = [f \in DOMAIN q |-> Patched(q, c)[f]]
  BY DEF Patched
<1>6. Patched(q, c) \in PartnershipType
  BY <1>1, <1>4, <1>5 DEF PartnershipType
<1> QED BY <1>2, <1>4, <1>6

LEMMA ChangedTyped ==
  ASSUME NEW new \in PartnershipType, NEW old \in PartnershipType,
         new.state = old.state, new.deleting = old.deleting
  PROVE  /\ Changed(new, old) \in Changes
         /\ \A f \in DOMAIN Changed(new, old) :
              f \in DOMAIN new /\ Changed(new, old)[f] = new[f] /\ new[f] # old[f]
<1> DEFINE c == Changed(new, old)
           F == {x \in DOMAIN new : new[x] # old[x]}
<1>1. /\ DOMAIN new = {"state", "deleting", "funding", "primary", "start", "end"}
      /\ new.funding \in BOOLEAN /\ new.primary \in BOOLEAN
      /\ new.start \in Dates /\ new.end \in Dates
  BY DEF PartnershipType
<1>2. c = [f \in F |-> new[f]] /\ F \in SUBSET OfPartnerships
  BY <1>1 DEF Changed, OfPartnerships
<1>3. \A f \in F : new[f] \in BOOLEAN \cup Dates
  BY <1>1, <1>2 DEF OfPartnerships
<1>4. c \in [F -> BOOLEAN \cup Dates]
  BY <1>2, <1>3
<1>5. Fitting(c)
  BY <1>1, <1>2 DEF Fitting, OfPartnerships
<1>6. \A f \in DOMAIN c : f \in DOMAIN new /\ c[f] = new[f] /\ new[f] # old[f]
  BY <1>2
<1> HIDE DEF c, F
<1>7. c \in Changes
  BY <1>2, <1>4, <1>5 DEF Changes
<1> QED BY <1>6, <1>7 DEF c

LEMMA OverrideMeans ==
  ASSUME NEW c \in Changes, NEW n \in Changes
  PROVE  /\ Override(c, n) \in Changes
         /\ \A q \in PartnershipType : Patched(q, Override(c, n)) = Patched(Patched(q, c), n)
<1> DEFINE F == DOMAIN c \cup DOMAIN n
           o == Override(c, n)
<1>1. /\ F \in SUBSET OfPartnerships /\ DOMAIN o = F
      /\ o = [f \in F |-> IF f \in DOMAIN n THEN n[f] ELSE c[f]]
  BY ChangesMean DEF Override
<1>2. \A f \in F : IF f \in {"funding", "primary"} THEN o[f] \in BOOLEAN ELSE o[f] \in Dates
  BY <1>1, ChangesMean DEF OfPartnerships
<1>3. o \in [F -> BOOLEAN \cup Dates]
  BY <1>1, <1>2
<1>4. Fitting(o)
  BY <1>1, <1>2 DEF Fitting
<1>5. o \in Changes
  <2> HIDE DEF o, F
  <2> QED BY <1>1, <1>3, <1>4 DEF Changes
<1>6. \A q \in PartnershipType : Patched(q, o) = Patched(Patched(q, c), n)
  BY DEF Patched, Override
<1> QED BY <1>5, <1>6

LEMMA DatesMean ==
  ASSUME NEW d \in DatesType, NEW c \in DateChanges
  PROVE  /\ Patched(d, c) \in DatesType
         /\ \A f \in {"start", "end"} : Patched(d, c)[f] = IF f \in DOMAIN c THEN c[f] ELSE d[f]
         /\ \A f \in DOMAIN c : f \in {"start", "end"} /\ c[f] \in Dates
         /\ Patched(d, NoChanges) = d
<1>1. DOMAIN d = {"start", "end"} /\ d.start \in Dates /\ d.end \in Dates
  BY DEF DatesType
<1>2. DOMAIN c \subseteq {"start", "end"} /\ \A f \in DOMAIN c : c[f] \in Dates
  BY DEF DateChanges
<1>3. Patched(d, c) = [f \in {"start", "end"} |-> IF f \in DOMAIN c THEN c[f] ELSE d[f]]
  BY <1>1 DEF Patched
<1>4. Patched(d, c) \in DatesType
  BY <1>1, <1>2, <1>3 DEF DatesType
<1>5. Patched(d, NoChanges) = d
  BY DEF Patched, NoChanges, DatesType
<1> QED BY <1>2, <1>3, <1>4, <1>5

(* The dates a request has been given are those its view shows.              *)
LEMMA DatesOverridden ==
  ASSUME NEW d \in DatesType, NEW c \in DateChanges, NEW new \in DatesType, NEW o,
         o = Override(c, Changed(new, Patched(d, c)))
  PROVE  /\ o \in DateChanges
         /\ Patched(d, o) = new
         /\ \A f \in DOMAIN o : o[f] \in {new[x] : x \in {"start", "end"}} \cup {c[x] : x \in DOMAIN c}
<1> DEFINE n == Changed(new, Patched(d, c))
           F == DOMAIN c \cup DOMAIN n
<1>1. DOMAIN new = {"start", "end"} /\ new.start \in Dates /\ new.end \in Dates
  BY DEF DatesType
<1>2. /\ DOMAIN n \subseteq {"start", "end"}
      /\ \A f \in DOMAIN n : n[f] = new[f]
      /\ \A f \in {"start", "end"} : f \notin DOMAIN n => new[f] = Patched(d, c)[f]
  BY <1>1 DEF Changed
<1>3. DOMAIN c \subseteq {"start", "end"} /\ \A f \in DOMAIN c : c[f] \in Dates
  BY DEF DateChanges
<1>4. DOMAIN d = {"start", "end"}
  BY DEF DatesType
<1> HIDE DEF n
<1>5. /\ o = [f \in F |-> IF f \in DOMAIN n THEN n[f] ELSE c[f]]
      /\ F \in SUBSET {"start", "end"}
  BY <1>2, <1>3 DEF Override, n
<1>6. \A f \in F : o[f] \in Dates /\ o[f] \in {new[x] : x \in {"start", "end"}} \cup {c[x] : x \in DOMAIN c}
  BY <1>1, <1>2, <1>3, <1>5
<1>7. o \in [F -> Dates] /\ DOMAIN o = F
  BY <1>5, <1>6
<1>8. \A f \in {"start", "end"} : Patched(d, o)[f] = new[f]
  BY <1>2, <1>4, <1>5, DatesMean DEF Patched
<1>9. Patched(d, o) = [f \in {"start", "end"} |-> Patched(d, o)[f]]
  BY <1>4 DEF Patched
<1>10. new = [f \in {"start", "end"} |-> new[f]]
  BY <1>1 DEF DatesType
<1> HIDE DEF F
<1>11. o \in DateChanges
  BY <1>5, <1>7 DEF DateChanges
<1> QED BY <1>6, <1>7, <1>8, <1>9, <1>10, <1>11

LEMMA YearsTyped ==
  ASSUME NEW seen \in PartnershipType, NEW live \in PartnershipType, NEW mou \in DatesType
  PROVE  Years(seen, live, mou) \subseteq Nat
<1> USE DatesAssumption
<1>1. \A s, e \in Dates : FiscalYears(s, e) \subseteq Nat
  <2> SUFFICES ASSUME NEW s \in Dates, NEW e \in Dates, NEW y \in FiscalYears(s, e)
               PROVE  y \in Nat
    OBVIOUS
  <2>1. NULL \notin {s, e}
    BY DEF FiscalYears
  <2>2. s \in Nat /\ e \in Nat
    BY <2>1 DEF Dates
  <2>3. CASE s <= e
    BY <2>1, <2>2, <2>3 DEF FiscalYears
  <2>4. CASE ~(s <= e)
    BY <2>1, <2>2, <2>4 DEF FiscalYears
  <2> QED BY <2>3, <2>4
<1>2. /\ Effective("start", seen, live, mou) \in Dates
      /\ Effective("end", seen, live, mou) \in Dates
  BY DEF Effective, Or, PartnershipType, DatesType
<1> QED BY <1>1, <1>2 DEF Years

---------------------------------------------------------------------------
(* What syncing the records of one partner comes to.                         *)

LEMMA RecordTyped ==
  ASSUME NEW p \in Partners, NEW y \in Nat, NEW within \in BOOLEAN
  PROVE  /\ Record(p, y, within) \in RecordType
         /\ Record(p, y, within).partner = p /\ Record(p, y, within).year = y
         /\ Record(p, y, within).active = ~within
<1>1. CASE within = TRUE
  BY <1>1 DEF Record, RecordType
<1>2. CASE within = FALSE
  BY <1>2 DEF Record, RecordType
<1> QED BY <1>1, <1>2

Single1(rs) == \A r1, r2 \in rs : r1.year = r2.year => r1 = r2

LEMMA SyncedOfMeans ==
  ASSUME records \subseteq RecordType, NEW p \in Partners, NEW years \in SUBSET Nat,
         NEW within \in BOOLEAN
  PROVE  LET S == SyncedOf(p, years, within) IN
         /\ S \subseteq RecordType
         /\ \A r \in S : r.partner = p
         /\ \A y \in years : \E r \in S : r.year = y /\ (r.active \/ within)
         /\ ~within => /\ \A r \in S : r.active => r.year \in years
                       /\ \A r \in S : r.active \/ r \in records
                       /\ \A r \in records : r.partner = p /\ r.year \in years => r \in S
                       /\ (\A r \in records : r.active) /\ Single1(RecordsOf(p, FALSE)) =>
                            Single1(S)
         /\ within => \A r \in records : r.partner = p =>
              \E x \in S : /\ x.year = r.year /\ x.active = r.active /\ x.amount = r.amount
<1> DEFINE S == SyncedOf(p, years, within)
           mine == {r \in records : r.partner = p}
           previous == RecordsOf(p, within)
           removals == {r \in previous : r.year \notin years}
           additions == {y \in years : \A r \in previous : r.year # y}
           made == {Record(p, y, within) : y \in additions}
           marked == Removed(removals, within)
<1>1. S = (mine \ removals) \cup marked \cup made
  BY DEF SyncedOf
<1>2. ASSUME NEW r \in made
      PROVE  /\ r \in RecordType /\ r.partner = p /\ r.active = ~within
             /\ r.year \in years /\ \A q \in previous : q.year # r.year
  BY RecordTyped
<1>3. ASSUME NEW q, NEW r, q \in made, r \in made, q.year = r.year
      PROVE  q = r
  BY <1>3, RecordTyped
<1>4. \A y \in additions : \E r \in made : r.year = y /\ r.active = ~within
  BY RecordTyped
<1>5. /\ previous = {r \in mine : r.active \/ within}
      /\ removals \subseteq previous /\ previous \subseteq mine
      /\ \A r \in mine : r \in RecordType /\ r.partner = p
  BY DEF RecordsOf
<1>6. ASSUME NEW r \in marked
      PROVE  within /\ \E q \in removals : r = [q EXCEPT !.deleting = TRUE]
  BY DEF Removed
<1>7. ASSUME NEW q \in RecordType
      PROVE  LET m == [q EXCEPT !.deleting = TRUE] IN
             /\ m \in RecordType /\ m.partner = q.partner /\ m.year = q.year
             /\ m.active = q.active /\ m.amount = q.amount
  BY DEF RecordType
<1>8. within => \A q \in removals : [q EXCEPT !.deleting = TRUE] \in marked
  BY DEF Removed
<1>9. \A r \in previous : r \in removals <=> r.year \notin years
  OBVIOUS
<1>10. \A y \in years : y \in additions <=> \A r \in previous : r.year # y
  OBVIOUS
<1> HIDE DEF made, marked, removals, additions, previous, mine, S
<1>11. \A r \in marked : r \in RecordType /\ r.partner = p
  BY <1>5, <1>6, <1>7
<1>12. S \subseteq RecordType /\ \A r \in S : r.partner = p
  BY <1>1, <1>2, <1>5, <1>11
<1>13. ASSUME NEW y \in years PROVE \E r \in S : r.year = y /\ (r.active \/ within)
  <2>1. CASE y \in additions
    <3>1. PICK r \in made : r.year = y /\ r.active = ~within
      BY <1>4, <2>1
    <3> QED BY <1>1, <3>1
  <2>2. CASE y \notin additions
    <3>1. PICK r \in previous : r.year = y
      BY <1>10, <2>2
    <3> QED BY <1>1, <1>5, <1>9, <3>1
  <2> QED BY <2>1, <2>2
<1>14. ASSUME ~within
       PROVE  /\ \A r \in S : r.active => r.year \in years
              /\ \A r \in S : r.active \/ r \in records
              /\ \A r \in records : r.partner = p /\ r.year \in years => r \in S
              /\ (\A r \in records : r.active) /\ Single1(RecordsOf(p, FALSE)) => Single1(S)
  <2>1. marked = {}
    BY <1>6, <1>14
  <2>2. S = (mine \ removals) \cup made
    BY <1>1, <2>1
  <2>3. \A r \in S : r.active => r.year \in years
    BY <1>2, <1>5, <1>9, <2>2
  <2>4. \A r \in S : r.active \/ r \in records
    BY <1>2, <1>14, <2>2 DEF mine
  <2>5. \A r \in records : r.partner = p /\ r.year \in years => r \in S
    <3>1. \A r \in removals : r.year \notin years
      BY <1>5, <1>9
    <3> QED BY <2>2, <3>1 DEF mine
  <2>6. ASSUME \A r \in records : r.active, Single1(RecordsOf(p, FALSE))
        PROVE  Single1(S)
    <3>1. previous = mine /\ Single1(previous)
      BY <1>5, <1>14, <2>6 DEF previous, mine
    <3>2. \A q \in mine \ removals, r \in made : q.year # r.year
      BY <1>2, <3>1
    <3>3. \A q, r \in mine \ removals : q.year = r.year => q = r
      BY <3>1 DEF Single1
    <3>4. \A q, r \in S : q.year = r.year => q = r
      BY <1>3, <2>2, <3>2, <3>3
    <3> QED BY <3>4 DEF Single1
  <2> QED BY <2>3, <2>4, <2>5, <2>6
<1>15. ASSUME within, NEW r \in records, r.partner = p
       PROVE  \E x \in S : x.year = r.year /\ x.active = r.active /\ x.amount = r.amount
  <2>1. r \in mine
    BY <1>15 DEF mine
  <2>2. CASE r \in removals
    BY <1>1, <1>5, <1>7, <1>8, <1>15, <2>1, <2>2
  <2>3. CASE r \notin removals
    BY <1>1, <2>1, <2>3
  <2> QED BY <2>2, <2>3
<1> QED BY <1>12, <1>13, <1>14, <1>15 DEF S

(* Each year has a record, in the request or not.                            *)
LEMMA SyncedServes ==
  ASSUME NEW p \in Partners, NEW years \in SUBSET Nat, NEW within \in BOOLEAN
  PROVE  \A y \in years : \E r \in SyncedOf(p, years, within) : r.year = y
<1> SUFFICES ASSUME NEW y \in years
             PROVE  \E r \in SyncedOf(p, years, within) : r.year = y
  OBVIOUS
<1>1. CASE \A r \in RecordsOf(p, within) : r.year # y
  <2>1. Record(p, y, within) \in SyncedOf(p, years, within)
    BY <1>1 DEF SyncedOf
  <2>2. Record(p, y, within).year = y
    BY DEF Record
  <2> QED BY <2>1, <2>2
<1>2. CASE \E r \in RecordsOf(p, within) : r.year = y
  <2>1. PICK r \in RecordsOf(p, within) : r.year = y
    BY <1>2
  <2>2. r \in SyncedOf(p, years, within)
    BY <2>1 DEF SyncedOf, RecordsOf
  <2> QED BY <2>1, <2>2
<1> QED BY <1>1, <1>2

(* Outside of a request the records are the years'.                          *)
LEMMA SyncedDirectly ==
  ASSUME records \subseteq RecordType, NEW p \in Partners, NEW years \in SUBSET Nat
  PROVE  LET S == SyncedOf(p, years, FALSE) IN
         /\ \A y \in years : \E r \in S : r.year = y /\ r.active
         /\ \A r \in S : r.active => r.year \in years
         /\ \A r \in S : r.active \/ r \in records
         /\ \A r \in records : r.partner = p /\ r.year \in years => r \in S
         /\ (\A r \in records : r.active) /\ Single1(RecordsOf(p, FALSE)) => Single1(S)
<1> DEFINE S == SyncedOf(p, years, FALSE)
<1>1. \A y \in years : \E r \in S : r.year = y /\ (r.active \/ FALSE)
  BY SyncedOfMeans
<1>2. ~FALSE => /\ \A r \in S : r.active => r.year \in years
                /\ \A r \in S : r.active \/ r \in records
                /\ \A r \in records : r.partner = p /\ r.year \in years => r \in S
                /\ (\A r \in records : r.active) /\ Single1(RecordsOf(p, FALSE)) =>
                     Single1(S)
  BY SyncedOfMeans
<1> HIDE DEF S
<1> QED BY <1>1, <1>2 DEF S

(* Within a request they are marked at most, and each year has one.          *)
LEMMA SyncedWithin ==
  ASSUME records \subseteq RecordType, NEW p \in Partners, NEW years \in SUBSET Nat
  PROVE  LET S == SyncedOf(p, years, TRUE) IN
         /\ \A y \in years : \E r \in S : r.year = y
         /\ \A r \in records : r.partner = p =>
              \E x \in S : x.year = r.year /\ x.active = r.active /\ x.amount = r.amount
<1> DEFINE S == SyncedOf(p, years, TRUE)
<1>1. \A y \in years : \E r \in S : r.year = y
  BY SyncedServes
<1>2. TRUE => \A r \in records : r.partner = p =>
        \E x \in S : x.year = r.year /\ x.active = r.active /\ x.amount = r.amount
  BY SyncedOfMeans
<1> HIDE DEF S
<1> QED BY <1>1, <1>2 DEF S

Of(rs, p) == {r \in rs : r.partner = p}

LEMMA SyncedMeans ==
  ASSUME records \subseteq RecordType, NEW D \in SUBSET Partners,
         NEW years \in [D -> SUBSET Nat], NEW within \in BOOLEAN
  PROVE  LET S == Synced(years, within) IN
         /\ S \subseteq RecordType
         /\ \A p \in Partners \ D : Of(S, p) = Of(records, p)
         /\ \A p \in D : Of(S, p) = SyncedOf(p, years[p], within)
         /\ ~within /\ (\A r \in records : r.active) => \A r \in S : r.active
<1> DEFINE S == Synced(years, within)
           untouched == {r \in records : r.partner \notin D}
<1>1. S = untouched \cup UNION {SyncedOf(p, years[p], within) : p \in D}
  BY DEF Synced
<1>2. ASSUME NEW p \in D
      PROVE  /\ SyncedOf(p, years[p], within) \subseteq RecordType
             /\ \A r \in SyncedOf(p, years[p], within) : r.partner = p
             /\ ~within => \A r \in SyncedOf(p, years[p], within) : r.active \/ r \in records
  BY SyncedOfMeans
<1>3. \A r : r \in S <=> r \in untouched \/ \E p \in D : r \in SyncedOf(p, years[p], within)
  BY <1>1
<1> HIDE DEF S
<1>4. S \subseteq RecordType
  BY <1>2, <1>3
<1>5. ASSUME NEW p \in Partners \ D PROVE Of(S, p) = Of(records, p)
  BY <1>2, <1>3 DEF Of
<1>6. ASSUME NEW p \in D PROVE Of(S, p) = SyncedOf(p, years[p], within)
  BY <1>2, <1>3 DEF Of
<1>7. ASSUME ~within, \A r \in records : r.active
      PROVE  \A r \in S : r.active
  BY <1>2, <1>3, <1>7
<1> QED BY <1>4, <1>5, <1>6, <1>7 DEF S

---------------------------------------------------------------------------
(* Each action keeps the types.                                              *)

LEMMA SeenTyped ==
  ASSUME FundingTyped, NEW within \in BOOLEAN
  PROVE  /\ SeenProject(within) \in DatesType
         /\ MouSeen(SeenProject(within)) \in DatesType
         /\ \A p \in Partners : /\ Seen(p, within) \in PartnershipType
                                /\ Seen(p, within).state = partnerships[p].state
                                /\ Seen(p, within).deleting = partnerships[p].deleting
         /\ \A mou \in DatesType : MouSeen(mou) \in DatesType
<1>1. /\ project \in DatesType /\ request.dates \in DateChanges
      /\ \A p \in Partners : partnerships[p] \in PartnershipType /\ request.changes[p] \in Changes
  BY DEF FundingTyped, Requests
<1>2. SeenProject(within) \in DatesType
  BY <1>1, DatesMean DEF SeenProject
<1>3. \A mou \in DatesType : MouSeen(mou) \in DatesType
  BY <1>1 DEF MouSeen, DatesType, Pair, Or
<1>4. \A p \in Partners : /\ Seen(p, within) \in PartnershipType
                          /\ Seen(p, within).state = partnerships[p].state
                          /\ Seen(p, within).deleting = partnerships[p].deleting
  BY <1>1, PatchedMeans DEF Seen
<1> QED BY <1>2, <1>3, <1>4

LEMMA SavesMean ==
  ASSUME FundingTyped, NEW dates, NEW within \in BOOLEAN, Saves(dates, within)
  PROVE  /\ saves' \in 0 .. MaxSaves /\ proposals' \in 0 .. MaxProposals
         /\ crossed' \in BOOLEAN
         /\ within => /\ request.open /\ proposals' # 0
                      /\ crossed' = (crossed \/ NULL \in dates)
         /\ ~within => crossed' = (crossed \/ request.open) /\ proposals' = proposals
<1> USE BoundsAssumption
<1>0. /\ saves \in 0 .. MaxSaves /\ proposals \in 0 .. MaxProposals /\ crossed \in BOOLEAN
      /\ request.open \in BOOLEAN
  BY DEF FundingTyped, Requests
<1>1. CASE within = TRUE
  BY <1>0, <1>1 DEF Saves
<1>2. CASE within = FALSE
  BY <1>0, <1>2 DEF Saves
<1> QED BY <1>1, <1>2

(* The demotion of the others leaves everything else.                        *)
LEMMA DemotedMeans ==
  ASSUME NEW p \in Partners, NEW ps \in [Partners -> PartnershipType]
  PROVE  LET demoted == PrimaryRemovedFromOthers(p, ps) IN
         /\ demoted \in [Partners -> PartnershipType] /\ demoted[p] = ps[p]
         /\ \A q \in Partners : \A f \in {"state", "deleting", "funding", "start", "end"} :
              demoted[q][f] = ps[q][f]
<1> DEFINE demoted == PrimaryRemovedFromOthers(p, ps)
<1>1. demoted = [q \in Partners |-> demoted[q]]
  BY DEF PrimaryRemovedFromOthers
<1>2. ASSUME NEW q \in Partners
      PROVE  /\ demoted[q] \in PartnershipType
             /\ \A f \in {"state", "deleting", "funding", "start", "end"} :
                  demoted[q][f] = ps[q][f]
  BY DEF PrimaryRemovedFromOthers, PartnershipType
<1>3. demoted[p] = ps[p]
  BY DEF PrimaryRemovedFromOthers
<1> HIDE DEF demoted
<1>4. demoted \in [Partners -> PartnershipType]
  BY <1>1, <1>2
<1> QED BY <1>2, <1>3, <1>4 DEF demoted

---------------------------------------------------------------------------
(* What a save leaves behind.                                                *)

SameTerms(q1, q2) == \A f \in {"state", "funding", "start", "end"} : q1[f] = q2[f]

Typing ==
  /\ project \in DatesType
  /\ partnerships \in [Partners -> PartnershipType]
  /\ records \subseteq RecordType
  /\ request \in Requests
  /\ \A p \in Partners :
       /\ partnerships[p].state # "live" => request.changes[p] = NoChanges
       /\ partnerships[p].state = "absent" => partnerships[p] = Absent

(* No date was taken away by what is saved within the request.               *)
NoneTaken ==
  /\ \A p \in Partners : \A f \in DOMAIN request.changes[p] : request.changes[p][f] # NULL
  /\ \A f \in DOMAIN request.dates : request.dates[f] # NULL

(* Each partner's records were synced, or neither they nor their years have  *)
(* changed, or it was skipped; except, within a request, those of a          *)
(* partnership that is to go.                                                *)
Handled(p, within) ==
  \/ /\ Of(records', p) = SyncedOf(p, Due(p, within)', within)
     /\ Due(p, within)' \in SUBSET Nat
  \/ /\ Of(records', p) = Of(records, p)
     /\ \/ p \in skipped'
        \/ /\ p \notin skipped
           /\ Due(p, within)' = Due(p, within)
                \/ (~within /\ partnerships[p].state = "proposed")
  \/ within /\ partnerships'[p].deleting

Outcome(within) ==
  /\ Typing' /\ request'.open = request.open
  /\ UNCHANGED <<status, amounts>>
  /\ before' \subseteq Partners \X Partners /\ skipped' \subseteq Partners
  /\ within => /\ project' = project
               /\ \A p \in Partners : partnerships[p].deleting => partnerships'[p].deleting
               /\ \A p \in Partners :
                    partnerships'[p].state = "live" /\ ~partnerships'[p].deleting =>
                      /\ SameTerms(partnerships'[p], partnerships[p])
                      /\ p \in skipped => p \in skipped'
  /\ ~within /\ NothingOpen => NothingOpen'
  /\ within /\ ~crossed' /\ NoneTaken => NoneTaken'
  /\ \A p \in Partners : Handled(p, within)

LEMMA FundingMeans ==
  ASSUME FundingTyped
  PROVE  /\ Typing
         /\ \A p \in Partners : partnerships[p] \in PartnershipType /\ request.changes[p] \in Changes
         /\ project \in DatesType /\ request.dates \in DateChanges
         /\ partnerships \in [Partners -> PartnershipType]
         /\ request.changes \in [Partners -> Changes] /\ request \in Requests
         /\ records \subseteq RecordType
         /\ before \subseteq Partners \X Partners /\ skipped \subseteq Partners
         /\ DOMAIN request = {"open", "applied", "dates", "changes"}
BY DEF FundingTyped, Typing, Requests

LEMMA DueTyped ==
  ASSUME project' \in DatesType, request' \in Requests,
         partnerships' \in [Partners -> PartnershipType],
         NEW p \in Partners, NEW within \in BOOLEAN
  PROVE  Due(p, within)' \in SUBSET Nat
<1>1. /\ request'.dates \in DateChanges /\ request'.changes[p] \in Changes
      /\ partnerships'[p] \in PartnershipType
  BY DEF Requests
<1>2. SeenProject(within)' \in DatesType
  BY <1>1, DatesMean DEF SeenProject
<1>3. Seen(p, within)' \in PartnershipType
  BY <1>1, PatchedMeans DEF Seen
<1>4. MouSeen(SeenProject(within))' \in DatesType
  BY <1>2 DEF MouSeen, DatesType, Pair, Or
<1> QED BY <1>1, <1>3, <1>4, YearsTyped DEF Due

(* What syncing the partners D to what is due comes to.                      *)
LEMMA SyncedToDue ==
  ASSUME records \subseteq RecordType, NEW D \in SUBSET Partners, NEW within \in BOOLEAN,
         \A q \in D : Due(q, within)' \in SUBSET Nat,
         records' = Synced([q \in D |-> Due(q, within)'], within)
  PROVE  /\ records' \subseteq RecordType
         /\ \A q \in Partners \ D : Of(records', q) = Of(records, q)
         /\ \A q \in D : Of(records', q) = SyncedOf(q, Due(q, within)', within)
         /\ ~within /\ (\A r \in records : r.active) => \A r \in records' : r.active
<1> DEFINE all == [q \in D |-> Due(q, within)']
<1>1. all \in [D -> SUBSET Nat] /\ \A q \in D : all[q] = Due(q, within)'
  OBVIOUS
<1>2. records' = Synced(all, within)
  OBVIOUS
<1> HIDE DEF all
<1> QED BY <1>1, <1>2, SyncedMeans

LEMMA SyncedAlone ==
  ASSUME records \subseteq RecordType, NEW p \in Partners, NEW within \in BOOLEAN,
         Due(p, within)' \in SUBSET Nat,
         records' = Synced([q \in {p} |-> Due(q, within)'], within)
  PROVE  /\ records' \subseteq RecordType
         /\ \A q \in Partners \ {p} : Of(records', q) = Of(records, q)
         /\ Of(records', p) = SyncedOf(p, Due(p, within)', within)
         /\ ~within /\ (\A r \in records : r.active) => \A r \in records' : r.active
<1> DEFINE D == {p}
<1>1. /\ D \in SUBSET Partners /\ p \in D /\ D = {p}
      /\ \A q \in D : Due(q, within)' \in SUBSET Nat
  OBVIOUS
<1>2. records' = Synced([q \in D |-> Due(q, within)'], within)
  OBVIOUS
<1> HIDE DEF D
<1>3. /\ records' \subseteq RecordType
      /\ \A q \in Partners \ D : Of(records', q) = Of(records, q)
      /\ \A q \in D : Of(records', q) = SyncedOf(q, Due(q, within)', within)
      /\ ~within /\ (\A r \in records : r.active) => \A r \in records' : r.active
  BY <1>1, <1>2, SyncedToDue
<1>4. Of(records', p) = SyncedOf(p, Due(p, within)', within)
  BY <1>1, <1>3
<1> QED BY <1>1, <1>3, <1>4

(* The years depend on nothing else.                                         *)
LEMMA DueKept ==
  ASSUME FundingTyped, NEW within \in BOOLEAN, NEW q \in Partners,
         partnerships'[q] \in PartnershipType, project' = project,
         \A f \in {"funding", "start", "end"} : partnerships'[q][f] = partnerships[q][f],
         request'.changes[q] = request.changes[q], request'.dates = request.dates
  PROVE  Due(q, within)' = Due(q, within)
<1>1. partnerships[q] \in PartnershipType /\ request.changes[q] \in Changes
  BY FundingMeans
<1>2. \A f \in {"funding", "start", "end"} :
        Patched(partnerships'[q], request.changes[q])[f] = Patched(partnerships[q], request.changes[q])[f]
  <2>1. \A x \in PartnershipType : {"funding", "start", "end"} \subseteq DOMAIN x
    BY DEF PartnershipType
  <2> QED BY <1>1, <2>1, PatchedMeans
<1>3. \A f \in {"funding", "start", "end"} : Seen(q, within)'[f] = Seen(q, within)[f]
  BY <1>2 DEF Seen
<1>4. MouSeen(SeenProject(within))' = MouSeen(SeenProject(within))
  BY DEF MouSeen, SeenProject
<1> QED BY <1>3, <1>4 DEF Due, Years, Effective

LEMMA CreateOutcome ==
  ASSUME FundingTyped, NEW p \in Partners, NEW funding \in BOOLEAN, NEW primary \in BOOLEAN,
         NEW o \in Overrides, NEW within \in BOOLEAN,
         CreatePartnership(p, funding, primary, o[1], o[2], within)
  PROVE  Outcome(within)
<1> DEFINE new == [Absent EXCEPT
                     !.state = IF within THEN "proposed" ELSE "live",
                     !.funding = funding,
                     !.primary = primary \/ IsFirst(within),
                     !.start = o[1], !.end = o[2]]
           added == [partnerships EXCEPT ![p] = new]
<1>0. /\ partnerships \in [Partners -> PartnershipType] /\ request \in Requests
      /\ project \in DatesType /\ records \subseteq RecordType /\ Typing
      /\ before \subseteq Partners \X Partners /\ skipped \subseteq Partners
      /\ \A q \in Partners : partnerships[q] \in PartnershipType /\ request.changes[q] \in Changes
  BY FundingMeans
<1>1. /\ partnerships[p].state = "absent"
      /\ partnerships' = IF new.primary THEN PrimaryRemovedFromOthers(p, added) ELSE added
      /\ records' = IF funding THEN Synced([q \in {p} |-> Due(q, within)'], within)
                    ELSE records
      /\ skipped' = IF funding THEN skipped \ {p} ELSE skipped
      /\ UNCHANGED <<project, status, request, amounts>>
      /\ within => request.open
  BY DEF CreatePartnership, Saves
<1>2. /\ new \in PartnershipType /\ new.state = (IF within THEN "proposed" ELSE "live")
      /\ ~new.deleting /\ new.funding = funding
  BY DatesAssumption DEF Absent, PartnershipType, Dates, IsFirst
<1>3. /\ partnerships[p] = Absent /\ request.changes[p] = NoChanges
  BY <1>1 DEF FundingTyped
<1> HIDE DEF new
<1>4. /\ added \in [Partners -> PartnershipType] /\ added[p] = new
      /\ \A q \in Partners \ {p} : added[q] = partnerships[q]
  BY <1>0, <1>2
<1> HIDE DEF added
<1>5. /\ partnerships' \in [Partners -> PartnershipType] /\ partnerships'[p] = new
      /\ \A q \in Partners \ {p} :
           \A f \in {"state", "deleting", "funding", "start", "end"} :
             partnerships'[q][f] = partnerships[q][f]
  BY <1>1, <1>4, DemotedMeans
<1>a. ASSUME NEW q \in Partners \ {p}, partnerships[q].state = "absent"
      PROVE  partnerships'[q] = Absent
  <2>1. added[q].state # "live" /\ added[q] = Absent
    BY <1>4, <1>a DEF FundingTyped
  <2> QED BY <1>1, <1>4, <2>1 DEF PrimaryRemovedFromOthers
<1>6. ASSUME NEW q \in Partners \ {p} PROVE Due(q, within)' = Due(q, within)
  <2>1. partnerships'[q] \in PartnershipType
    BY <1>5
  <2> QED BY <1>1, <1>5, <2>1, DueKept
<1>7. Due(p, within)' \in SUBSET Nat
  BY <1>0, <1>1, <1>5, DueTyped
<1>8. ~funding => Due(p, within)' = {} /\ Due(p, within) = {}
  <2>1. Seen(p, within)' = new /\ Seen(p, within) = Absent
    BY <1>0, <1>1, <1>2, <1>3, <1>5, PatchedNothing DEF Seen
  <2> QED BY <1>2, <2>1 DEF Due, Years, Absent
<1>9. /\ records' \subseteq RecordType
      /\ \A q \in Partners \ {p} : Of(records', q) = Of(records, q)
      /\ funding => Of(records', p) = SyncedOf(p, Due(p, within)', within)
      /\ ~funding => records' = records
      /\ ~within /\ (\A r \in records : r.active) => \A r \in records' : r.active
  <2>1. CASE funding = TRUE
    <3>1. records' = Synced([q \in {p} |-> Due(q, within)'], within)
      BY <1>1, <2>1
    <3> QED BY <1>0, <1>7, <2>1, <3>1, SyncedAlone
  <2>2. CASE funding = FALSE
    BY <1>0, <1>1, <2>2
  <2> QED BY <2>1, <2>2
<1>10. ASSUME NEW q \in Partners
       PROVE  \/ /\ Of(records', q) = SyncedOf(q, Due(q, within)', within)
                 /\ Due(q, within)' \in SUBSET Nat
              \/ /\ Of(records', q) = Of(records, q) /\ Due(q, within)' = Due(q, within)
                 /\ q \in skipped => q \in skipped'
  <2>1. CASE q # p
    BY <1>1, <1>6, <1>9, <2>1
  <2>2. CASE q = p /\ funding = TRUE
    BY <1>7, <1>9, <2>2
  <2>3. CASE q = p /\ funding = FALSE
    BY <1>1, <1>8, <1>9, <2>3
  <2> QED BY <2>1, <2>2, <2>3
<1>b. before' \subseteq Partners \X Partners /\ skipped' \subseteq Partners
  <2>1. before' = {x \in before : p \notin {x[1], x[2]}} \cup ((Proposed \cup LiveOnes) \X {p})
    BY DEF CreatePartnership
  <2> QED BY <1>0, <1>1, <2>1 DEF Proposed, LiveOnes
<1>11. Typing'
  <2>1. \A q \in Partners :
          /\ partnerships'[q].state # "live" => request'.changes[q] = NoChanges
          /\ partnerships'[q].state = "absent" => partnerships'[q] = Absent
    BY <1>1, <1>2, <1>3, <1>5, <1>a DEF FundingTyped
  <2> QED BY <1>0, <1>1, <1>5, <1>9, <2>1 DEF Typing
<1>12. ~within /\ NothingOpen => NothingOpen'
  <2> SUFFICES ASSUME ~within, NothingOpen PROVE NothingOpen'
    OBVIOUS
  <2>1. \A q \in Partners : partnerships'[q].state # "proposed" /\ ~partnerships'[q].deleting
    BY <1>2, <1>5 DEF NothingOpen
  <2>2. \A r \in records' : r.active
    BY <1>9 DEF NothingOpen
  <2> QED BY <1>1, <2>1, <2>2 DEF NothingOpen
<1>13. within => \A q \in Partners :
         /\ partnerships[q].deleting => partnerships'[q].deleting
         /\ partnerships'[q].state = "live" /\ ~partnerships'[q].deleting =>
              /\ SameTerms(partnerships'[q], partnerships[q])
              /\ q \in skipped => q \in skipped'
  BY <1>1, <1>2, <1>3, <1>5 DEF SameTerms, Absent
<1>14. NoneTaken => NoneTaken'
  BY <1>1 DEF NoneTaken
<1>15. /\ UNCHANGED <<status, amounts, project>> /\ request'.open = request.open
  BY <1>1
<1>16. \A q \in Partners : Handled(q, within)
  BY <1>10 DEF Handled
<1> HIDE DEF new, added
<1> QED BY <1>11, <1>12, <1>13, <1>14, <1>15, <1>16, <1>b DEF Outcome

LEMMA UpdateOutcome ==
  ASSUME FundingTyped, NEW p \in Partners, NEW funding \in BOOLEAN, NEW primary \in BOOLEAN,
         NEW o \in Overrides, NEW within \in BOOLEAN,
         UpdatePartnership(p, funding, primary, o[1], o[2], within)
  PROVE  Outcome(within)
<1> DEFINE old == Seen(p, within)
           new == [old EXCEPT !.funding = funding, !.primary = primary \/ @,
                              !.start = o[1], !.end = o[2]]
           changes == Changed(new, old)
           asked == IF new.primary # old.primary
                    THEN PrimaryRemovedFromOthers(p, partnerships) ELSE partnerships
           inPlace == ~within \/ old.state = "proposed" \/ old.deleting
<1>0. /\ partnerships \in [Partners -> PartnershipType] /\ request \in Requests
      /\ project \in DatesType /\ records \subseteq RecordType /\ Typing
      /\ request.changes \in [Partners -> Changes]
      /\ before \subseteq Partners \X Partners /\ skipped \subseteq Partners
      /\ \A q \in Partners : partnerships[q] \in PartnershipType /\ request.changes[q] \in Changes
      /\ DOMAIN request = {"open", "applied", "dates", "changes"}
  BY FundingMeans
<1>1. /\ old.state = "live" \/ (within /\ old.state = "proposed")
      /\ IF inPlace
         THEN /\ partnerships' = [asked EXCEPT ![p] = Patched(@, changes)]
              /\ UNCHANGED request
         ELSE /\ partnerships' = asked
              /\ request' = [request EXCEPT !.changes[p] = Override(@, changes)]
      /\ records' = Synced([q \in {p} |-> Due(q, within)'], within)
      /\ skipped' = IF within THEN skipped ELSE skipped \ {p}
      /\ UNCHANGED <<project, status, before, amounts>>
      /\ within => request.open
      /\ within /\ ~crossed' => NULL \notin {changes[f] : f \in DOMAIN changes}
  BY DEF UpdatePartnership, Saves
<1>2. /\ old \in PartnershipType /\ old.state = partnerships[p].state
      /\ old.deleting = partnerships[p].deleting
  BY SeenTyped
<1>3. /\ new \in PartnershipType /\ new.state = old.state /\ new.deleting = old.deleting
  BY <1>2, DatesAssumption DEF PartnershipType, Dates
<1>4. changes \in Changes
  <2> HIDE DEF old, new
  <2> QED BY <1>2, <1>3, ChangedTyped
<1> HIDE DEF old, new, changes
<1>7. /\ asked \in [Partners -> PartnershipType] /\ asked[p] = partnerships[p]
      /\ \A q \in Partners :
           \A f \in {"state", "deleting", "funding", "start", "end"} :
             asked[q][f] = partnerships[q][f]
      /\ \A q \in Partners : partnerships[q].state = "absent" => asked[q] = Absent
  <2>1. \A q \in Partners : partnerships[q].state = "absent" =>
          partnerships[q] = Absent /\ PrimaryRemovedFromOthers(p, partnerships)[q] = Absent
    BY DEF FundingTyped, PrimaryRemovedFromOthers
  <2> QED BY <1>0, <2>1, DemotedMeans
<1> HIDE DEF asked
<1>8. /\ partnerships' \in [Partners -> PartnershipType]
      /\ \A q \in Partners \ {p} : partnerships'[q] = asked[q]
      /\ partnerships'[p].state = partnerships[p].state
      /\ partnerships'[p].deleting = partnerships[p].deleting
      /\ inPlace => request' = request
      /\ ~inPlace => /\ partnerships'[p] = partnerships[p]
                     /\ request'.changes[p] = Override(request.changes[p], changes)
      /\ request' \in Requests /\ request'.open = request.open /\ request'.dates = request.dates
      /\ \A q \in Partners \ {p} : request'.changes[q] = request.changes[q]
  <2>1. CASE inPlace
    <3> DEFINE mine == Patched(asked[p], changes)
    <3>1. /\ mine \in PartnershipType /\ mine.state = partnerships[p].state
          /\ mine.deleting = partnerships[p].deleting
      BY <1>0, <1>4, <1>7, PatchedMeans
    <3>2. partnerships' = [asked EXCEPT ![p] = mine] /\ request' = request
      BY <1>1, <2>1
    <3> HIDE DEF mine
    <3> QED BY <1>0, <1>7, <2>1, <3>1, <3>2
  <2>2. CASE ~inPlace
    <3>1. partnerships' = asked
      BY <1>1, <2>2
    <3>2. Override(request.changes[p], changes) \in Changes
      BY <1>0, <1>4, OverrideMeans
    <3>3. /\ request' \in Requests /\ request'.open = request.open
          /\ request'.dates = request.dates
          /\ \A q \in Partners \ {p} : request'.changes[q] = request.changes[q]
          /\ request'.changes[p] = Override(request.changes[p], changes)
      BY <1>0, <1>1, <2>2, <3>2 DEF Requests
    <3> QED BY <1>7, <2>2, <3>1, <3>3
  <2> QED BY <2>1, <2>2
<1>10. Due(p, within)' \in SUBSET Nat
  BY <1>0, <1>1, <1>8, DueTyped
<1>11. /\ records' \subseteq RecordType
       /\ \A q \in Partners \ {p} : Of(records', q) = Of(records, q)
       /\ Of(records', p) = SyncedOf(p, Due(p, within)', within)
       /\ ~within /\ (\A r \in records : r.active) => \A r \in records' : r.active
  BY <1>0, <1>1, <1>10, SyncedAlone
<1>12. ASSUME NEW q \in Partners \ {p}
       PROVE  /\ Of(records', q) = Of(records, q) /\ Due(q, within)' = Due(q, within)
              /\ q \in skipped => q \in skipped'
  <2>1. /\ partnerships'[q] \in PartnershipType
        /\ \A f \in {"funding", "start", "end"} : partnerships'[q][f] = partnerships[q][f]
    BY <1>7, <1>8
  <2>2. Due(q, within)' = Due(q, within)
    BY <1>1, <1>8, <2>1, DueKept
  <2> QED BY <1>1, <1>11, <2>2
<1>13. Typing'
  <2>1. \A q \in Partners :
          /\ partnerships'[q].state # "live" => request'.changes[q] = NoChanges
          /\ partnerships'[q].state = "absent" => partnerships'[q] = Absent
    <3>1. partnerships[p].state # "absent" /\ (partnerships[p].state # "live" => inPlace)
      BY <1>1, <1>2
    <3> QED BY <1>7, <1>8, <3>1 DEF FundingTyped
  <2> QED BY <1>0, <1>1, <1>8, <1>11, <2>1 DEF Typing
<1>14. ~within /\ NothingOpen => NothingOpen'
  <2> SUFFICES ASSUME ~within, NothingOpen
               PROVE  NothingOpen'
    OBVIOUS
  <2>1. inPlace
    OBVIOUS
  <2>2. \A q \in Partners : partnerships'[q].state = partnerships[q].state
                         /\ partnerships'[q].deleting = partnerships[q].deleting
    BY <1>7, <1>8
  <2>3. request' = request
    BY <1>8, <2>1
  <2> QED BY <1>11, <2>2, <2>3 DEF NothingOpen
<1>15. within => \A q \in Partners :
         /\ partnerships[q].deleting => partnerships'[q].deleting
         /\ partnerships'[q].state = "live" /\ ~partnerships'[q].deleting =>
              /\ SameTerms(partnerships'[q], partnerships[q])
              /\ q \in skipped => q \in skipped'
  <2>1. \A q \in Partners \ {p} : /\ SameTerms(partnerships'[q], partnerships[q])
                                  /\ partnerships[q].deleting => partnerships'[q].deleting
    BY <1>7, <1>8 DEF SameTerms
  <2>2. within /\ partnerships'[p].state = "live" /\ ~partnerships'[p].deleting
          => partnerships'[p] = partnerships[p]
    BY <1>2, <1>8
  <2> QED BY <1>1, <1>8, <2>1, <2>2 DEF SameTerms
<1>16. within /\ ~crossed' /\ NoneTaken => NoneTaken'
  <2> SUFFICES ASSUME within, ~crossed', NoneTaken
               PROVE  NoneTaken'
    OBVIOUS
  <2>1. \A f \in DOMAIN changes : changes[f] # NULL
    BY <1>1
  <2>2. \A f \in DOMAIN Override(request.changes[p], changes) :
          Override(request.changes[p], changes)[f] # NULL
    BY <2>1 DEF NoneTaken, Override
  <2>3. \A f \in DOMAIN request'.changes[p] : request'.changes[p][f] # NULL
    BY <1>8, <2>2 DEF NoneTaken
  <2> QED BY <1>8, <2>3 DEF NoneTaken
<1>17. before' \subseteq Partners \X Partners /\ skipped' \subseteq Partners
  BY <1>0, <1>1
<1>18. \A q \in Partners : Handled(q, within)
  BY <1>10, <1>11, <1>12 DEF Handled
<1> QED BY <1>1, <1>8, <1>13, <1>14, <1>15, <1>16, <1>17, <1>18 DEF Outcome

LEMMA DeleteOutcome ==
  ASSUME FundingTyped, NEW p \in Partners, NEW within \in BOOLEAN,
         DeletePartnership(p, within)
  PROVE  Outcome(within)
<1> DEFINE marked == [partnerships[p] EXCEPT !.deleting = TRUE]
           new == IF within THEN marked ELSE Absent
           all == [q \in {p} |-> {}]
<1>0. /\ partnerships \in [Partners -> PartnershipType] /\ request \in Requests
      /\ project \in DatesType /\ records \subseteq RecordType /\ Typing
      /\ request.changes \in [Partners -> Changes]
      /\ before \subseteq Partners \X Partners /\ skipped \subseteq Partners
      /\ \A q \in Partners : partnerships[q] \in PartnershipType
  BY FundingMeans
<1>1. /\ partnerships[p].state = "live"
      /\ partnerships' = [partnerships EXCEPT ![p] = new]
      /\ UNCHANGED <<project, status, amounts>>
  BY DEF DeletePartnership, LiveOnes
<1>2. /\ records' = IF partnerships[p].funding THEN Synced(all, FALSE) ELSE records
      /\ within => request' = request
      /\ ~within => request' = [request EXCEPT !.changes = [@ EXCEPT ![p] = NoChanges]]
      /\ skipped' = IF partnerships[p].funding /\ ~within THEN skipped \ {p} ELSE skipped
      /\ before' = before
  BY DEF DeletePartnership
<1>3. /\ new \in PartnershipType
      /\ within => new.deleting /\ new.state = "live" /\ SameTerms(new, partnerships[p])
      /\ ~within => new = Absent
  BY <1>0, <1>1, AbsentType DEF PartnershipType, SameTerms
<1> HIDE DEF new
<1>4. /\ partnerships' \in [Partners -> PartnershipType] /\ partnerships'[p] = new
      /\ \A q \in Partners \ {p} : partnerships'[q] = partnerships[q]
  BY <1>0, <1>1, <1>3
<1>5. /\ request' \in Requests /\ request'.open = request.open
      /\ request'.dates = request.dates
      /\ \A q \in Partners \ {p} : request'.changes[q] = request.changes[q]
      /\ within => request' = request
      /\ ~within => request'.changes[p] = NoChanges
  <2>1. CASE within
    BY <1>0, <1>2, <2>1
  <2>2. CASE ~within
    BY <1>0, <1>2, <2>2, NoChangesTyped DEF Requests
  <2> QED BY <2>1, <2>2
<1>6. /\ records' \subseteq RecordType
      /\ \A q \in Partners \ {p} : Of(records', q) = Of(records, q)
      /\ partnerships[p].funding => Of(records', p) = SyncedOf(p, {}, FALSE)
      /\ ~partnerships[p].funding => records' = records
      /\ (\A r \in records : r.active) => \A r \in records' : r.active
  <2>1. all \in [{p} -> SUBSET Nat] /\ {p} \in SUBSET Partners /\ all[p] = {}
    OBVIOUS
  <2> HIDE DEF all
  <2> QED BY <1>0, <1>2, <2>1, SyncedMeans
<1>7. ASSUME NEW q \in Partners \ {p}
      PROVE  /\ Of(records', q) = Of(records, q) /\ Due(q, within)' = Due(q, within)
             /\ q \in skipped => q \in skipped'
  <2>1. Due(q, within)' = Due(q, within)
    BY <1>1, <1>4, <1>5, DueKept
  <2> QED BY <1>2, <1>6, <2>1
<1>8. CASE within
  <2>1. Typing'
    <3>1. \A q \in Partners :
            /\ partnerships'[q].state # "live" => request'.changes[q] = NoChanges
            /\ partnerships'[q].state = "absent" => partnerships'[q] = Absent
      BY <1>3, <1>4, <1>5, <1>8 DEF FundingTyped
    <3> QED BY <1>0, <1>1, <1>4, <1>5, <1>6, <3>1 DEF Typing
  <2>2. \A q \in Partners :
          /\ partnerships[q].deleting => partnerships'[q].deleting
          /\ partnerships'[q].state = "live" /\ ~partnerships'[q].deleting =>
               /\ SameTerms(partnerships'[q], partnerships[q])
               /\ q \in skipped => q \in skipped'
    BY <1>2, <1>3, <1>4, <1>8 DEF SameTerms
  <2>3. partnerships'[p].deleting
    BY <1>3, <1>4, <1>8
  <2>4. NoneTaken => NoneTaken'
    BY <1>5, <1>8 DEF NoneTaken
  <2>5. before' \subseteq Partners \X Partners /\ skipped' \subseteq Partners
    BY <1>0, <1>2, <1>8
  <2>6. \A q \in Partners : Handled(q, within)
    BY <1>7, <1>8, <2>3 DEF Handled
  <2>7. UNCHANGED <<status, amounts, project>> /\ request'.open = request.open
    BY <1>1, <1>5
  <2> QED BY <1>8, <2>1, <2>2, <2>4, <2>5, <2>6, <2>7 DEF Outcome
<1>9. CASE ~within
  <2>1. Typing'
    <3>1. \A q \in Partners :
            /\ partnerships'[q].state # "live" => request'.changes[q] = NoChanges
            /\ partnerships'[q].state = "absent" => partnerships'[q] = Absent
      BY <1>3, <1>4, <1>5, <1>9 DEF FundingTyped
    <3> QED BY <1>0, <1>1, <1>4, <1>5, <1>6, <3>1 DEF Typing
  <2>2. Due(p, within)' = {}
    <3>1. Seen(p, within)' = Absent
      BY <1>3, <1>4, <1>9 DEF Seen
    <3> QED BY <3>1 DEF Due, Years, Absent
  <2>3. ~partnerships[p].funding => Due(p, within) = {}
    BY <1>9 DEF Due, Years, Seen
  <2>4. \/ /\ Of(records', p) = SyncedOf(p, Due(p, within)', within)
           /\ Due(p, within)' \in SUBSET Nat
        \/ /\ Of(records', p) = Of(records, p) /\ Due(p, within)' = Due(p, within)
           /\ p \in skipped => p \in skipped'
    BY <1>2, <1>6, <1>9, <2>2, <2>3
  <2>5. NothingOpen => NothingOpen'
    <3> SUFFICES ASSUME NothingOpen PROVE NothingOpen'
      OBVIOUS
    <3>1. \A q \in Partners : /\ partnerships'[q].state # "proposed"
                              /\ ~partnerships'[q].deleting
                              /\ request'.changes[q] = NoChanges
      BY <1>3, <1>4, <1>5, <1>9 DEF NothingOpen, Absent
    <3> QED BY <1>5, <1>6, <3>1 DEF NothingOpen
  <2> QED BY <1>0, <1>1, <1>2, <1>5, <1>7, <1>9, <2>1, <2>4, <2>5 DEF Outcome, Handled
<1> QED BY <1>8, <1>9

LEMMA ProjectOutcome ==
  ASSUME FundingTyped, NEW d \in Spans, NEW within \in BOOLEAN, UpdateProject(d, within)
  PROVE  Outcome(within)
<1> DEFINE old == SeenProject(within)
           new == Pair(d[1], d[2])
           page == FirstPage(Listed(within))
           following == {p \in page : Seen(p, within).funding}
<1>0. /\ partnerships \in [Partners -> PartnershipType] /\ request \in Requests
      /\ project \in DatesType /\ records \subseteq RecordType /\ Typing
      /\ request.dates \in DateChanges
      /\ before \subseteq Partners \X Partners /\ skipped \subseteq Partners
      /\ \A q \in Partners : partnerships[q] \in PartnershipType
  BY FundingMeans
<1>1. /\ within => /\ request' = [request EXCEPT !.dates = Override(@, Changed(new, old))]
                   /\ project' = project
      /\ ~within => project' = new /\ request' = request
      /\ UNCHANGED <<status, partnerships, before, amounts>>
      /\ within /\ ~crossed' => NULL \notin {new.start, new.end}
  BY DEF UpdateProject, Saves, Pair
<1>2. /\ records' = Synced([q \in following |-> Due(q, within)'], within)
      /\ skipped' = (IF within THEN skipped ELSE skipped \ following)
           \cup {q \in Listed(within) \ page : Due(q, within)' # Due(q, within)}
      /\ page \subseteq Listed(within) /\ Listed(within) \subseteq Partners
  BY DEF UpdateProject, FirstPage, Listed
<1>3. new \in DatesType
  BY DatesAssumption DEF Pair, DatesType, Dates
<1> HIDE DEF new
<1>4. /\ request' \in Requests /\ request'.open = request.open
      /\ request'.changes = request.changes
      /\ ~within => request' = request
      /\ within => SeenProject(TRUE)' = new
      /\ within => \A f \in DOMAIN request'.dates :
           request'.dates[f] \in {new.start, new.end}
                              \cup {request.dates[x] : x \in DOMAIN request.dates}
  <2>1. CASE within
    <3> DEFINE o == Override(request.dates, Changed(new, Patched(project, request.dates)))
    <3>1. /\ o \in DateChanges /\ Patched(project, o) = new
          /\ \A f \in DOMAIN o : o[f] \in {new.start, new.end}
                                      \cup {request.dates[x] : x \in DOMAIN request.dates}
      <4> HIDE DEF o
      <4> QED BY <1>0, <1>3, DatesOverridden DEF o
    <3>2. request' = [request EXCEPT !.dates = o]
      BY <1>1, <2>1 DEF SeenProject
    <3> HIDE DEF o
    <3>3. /\ request' \in Requests /\ request'.open = request.open
          /\ request'.changes = request.changes /\ request'.dates = o
      BY <1>0, <3>1, <3>2 DEF Requests
    <3> QED BY <1>1, <2>1, <3>1, <3>3 DEF SeenProject
  <2>2. CASE ~within
    BY <1>0, <1>1, <2>2
  <2> QED BY <2>1, <2>2
<1>5. ASSUME NEW q \in Partners
      PROVE  Due(q, within)' \in SUBSET Nat
  BY <1>0, <1>1, <1>3, <1>4, DueTyped
<1>6. \A q : Seen(q, within)' = Seen(q, within)
  BY <1>1, <1>4 DEF Seen
<1> HIDE DEF page
<1>7. following \in SUBSET Partners /\ following \subseteq page
  BY <1>2
<1>8. /\ records' \subseteq RecordType
      /\ \A q \in Partners \ following : Of(records', q) = Of(records, q)
      /\ \A q \in following : Of(records', q) = SyncedOf(q, Due(q, within)', within)
      /\ ~within /\ (\A r \in records : r.active) => \A r \in records' : r.active
  <2> HIDE DEF following
  <2> QED BY <1>0, <1>2, <1>5, <1>7, SyncedToDue
<1>9. ASSUME NEW q \in Partners \ following
      PROVE  \/ q \in skipped'
             \/ /\ q \notin skipped
                /\ Due(q, within)' = Due(q, within)
                     \/ (~within /\ partnerships[q].state = "proposed")
             \/ within /\ partnerships'[q].deleting
  <2>0. q \in skipped => q \in skipped'
    BY <1>2
  <2>1. CASE ~Seen(q, within).funding
    BY <1>6, <2>0, <2>1 DEF Due, Years
  <2>2. CASE partnerships[q].state = "absent"
    <3>1. Seen(q, within) = Absent
      BY <1>0, <2>2, PatchedNothing DEF Seen, FundingTyped
    <3>2. ~Seen(q, within).funding
      BY <3>1 DEF Absent
    <3> QED BY <2>1, <3>2
  <2>3. CASE q \notin Listed(within) /\ partnerships[q].state # "absent"
    BY <1>0, <1>1, <2>0, <2>3 DEF PartnershipType, Listed
  <2>4. CASE Seen(q, within).funding /\ q \in Listed(within)
    <3>1. q \notin page
      BY <2>4
    <3> QED BY <1>2, <2>0, <2>4, <3>1
  <2> QED BY <2>1, <2>2, <2>3, <2>4
<1>a. before' \subseteq Partners \X Partners /\ skipped' \subseteq Partners
  BY <1>0, <1>1, <1>2
<1>b. within => \A q \in skipped : q \in skipped'
  BY <1>2
<1>10. Typing'
  BY <1>0, <1>1, <1>3, <1>4, <1>8 DEF Typing
<1>11. within => \A q \in Partners :
         /\ partnerships[q].deleting => partnerships'[q].deleting
         /\ partnerships'[q].state = "live" => SameTerms(partnerships'[q], partnerships[q])
  BY <1>1 DEF SameTerms
<1>12. ~within /\ NothingOpen => NothingOpen'
  BY <1>1, <1>8 DEF NothingOpen
<1>13. within /\ ~crossed' /\ NoneTaken => NoneTaken'
  BY <1>1, <1>4 DEF NoneTaken
<1> HIDE DEF following
<1>c. \A q \in Partners : Handled(q, within)
  BY <1>5, <1>8, <1>9 DEF Handled
<1> QED BY <1>1, <1>4, <1>10, <1>11, <1>12, <1>13, <1>a, <1>b, <1>c DEF Outcome

---------------------------------------------------------------------------
(* Finalizing, and what else there is.                                       *)

LEMMA FinalizedMeans ==
  ASSUME NEW q \in PartnershipType
  PROVE  /\ Finalized(q) \in PartnershipType
         /\ Finalized(q).state \in {"absent", "live"} /\ ~Finalized(q).deleting
         /\ Finalized(q).state = "absent" => Finalized(q) = Absent
         /\ Finalized(q).state = "live" =>
              /\ ~q.deleting /\ q.state # "absent"
              /\ \A f \in {"funding", "start", "end"} : Finalized(q)[f] = q[f]
         /\ q.state = "live" /\ ~q.deleting => Finalized(q) = q
<1>1. CASE q.deleting \/ q.state = "absent"
  BY <1>1, AbsentType DEF Finalized, Absent
<1>2. CASE ~(q.deleting \/ q.state = "absent")
  BY <1>2 DEF Finalized, PartnershipType
<1> QED BY <1>1, <1>2

LEMMA RequestMeans ==
  ASSUME NEW open \in BOOLEAN, NEW applied \in BOOLEAN
  PROVE  /\ Request(open, applied) \in Requests
         /\ Request(open, applied).open = open
         /\ Request(open, applied).dates = NoChanges
         /\ \A p \in Partners : Request(open, applied).changes[p] = NoChanges
BY NoChangesTyped DEF Request, Requests

(* The records that are left are those there were, of their years.           *)
LEMMA RecordsFinalized ==
  ASSUME NEW r \in RecordType
  PROVE  LET u == Unmarked(r)
             a == [Unmarked(r) EXCEPT !.active = TRUE] IN
         /\ u \in RecordType /\ a \in RecordType
         /\ u.partner = r.partner /\ u.year = r.year /\ u.active = r.active
         /\ a.partner = r.partner /\ a.year = r.year /\ a.active
BY DEF Unmarked, RecordType

LEMMA EnteredMeans ==
  ASSUME FundingTyped, NEW r \in records, NEW within \in BOOLEAN, EnterAmount(r, within)
  PROVE  \E x \in RecordType :
           /\ records' = (records \ {r}) \cup {x}
           /\ x.partner = r.partner /\ x.year = r.year /\ x.active = r.active
           /\ r.amount => x.amount
<1>1. r \in RecordType
  BY DEF FundingTyped
<1> DEFINE x == IF within /\ r.active THEN [r EXCEPT !.proposed = TRUE]
                ELSE [r EXCEPT !.amount = TRUE]
<1>2. /\ x \in RecordType /\ x.partner = r.partner /\ x.year = r.year
      /\ x.active = r.active /\ (r.amount => x.amount)
  BY <1>1 DEF RecordType
<1>3. records' = (records \ {r}) \cup {x}
  BY DEF EnterAmount
<1> QED BY <1>2, <1>3

SaveOf(within) ==
  \/ \E p \in Partners, funding, primary \in BOOLEAN, o \in Overrides :
       \/ CreatePartnership(p, funding, primary, o[1], o[2], within)
       \/ UpdatePartnership(p, funding, primary, o[1], o[2], within)
  \/ \E p \in Partners : DeletePartnership(p, within)
  \/ \E d \in Spans : UpdateProject(d, within)

LEMMA SaveMeans ==
  ASSUME FundingTyped, NEW within \in BOOLEAN, SaveOf(within)
  PROVE  Outcome(within) /\ \E dates : Saves(dates, within)
<1>1. ASSUME NEW p \in Partners, NEW funding \in BOOLEAN, NEW primary \in BOOLEAN,
             NEW o \in Overrides, CreatePartnership(p, funding, primary, o[1], o[2], within)
      PROVE  Outcome(within) /\ \E dates : Saves(dates, within)
  <2>1. \E dates : Saves(dates, within)
    BY <1>1 DEF CreatePartnership
  <2> QED BY <1>1, <2>1, CreateOutcome
<1>2. ASSUME NEW p \in Partners, NEW funding \in BOOLEAN, NEW primary \in BOOLEAN,
             NEW o \in Overrides, UpdatePartnership(p, funding, primary, o[1], o[2], within)
      PROVE  Outcome(within) /\ \E dates : Saves(dates, within)
  <2>1. \E dates : Saves(dates, within)
    BY <1>2 DEF UpdatePartnership
  <2> QED BY <1>2, <2>1, UpdateOutcome
<1>3. ASSUME NEW p \in Partners, DeletePartnership(p, within)
      PROVE  Outcome(within) /\ \E dates : Saves(dates, within)
  <2>1. \E dates : Saves(dates, within)
    BY <1>3 DEF DeletePartnership
  <2> QED BY <1>3, <2>1, DeleteOutcome
<1>4. ASSUME NEW d \in Spans, UpdateProject(d, within)
      PROVE  Outcome(within) /\ \E dates : Saves(dates, within)
  <2>1. \E dates : Saves(dates, within)
    BY <1>4 DEF UpdateProject
  <2> QED BY <1>4, <2>1, ProjectOutcome
<1> QED BY <1>1, <1>2, <1>3, <1>4 DEF SaveOf

LEMMA NextMeans ==
  ASSUME [Next]_vars
  PROVE  \/ SaveOf(TRUE) \/ SaveOf(FALSE)
         \/ \E r \in records, within \in BOOLEAN : EnterAmount(r, within)
         \/ BudgetStatus \/ OpenRequest \/ Approve \/ Reject
         \/ UNCHANGED vars
<1>1. ASSUME NEW within \in BOOLEAN, SaveOf(within)
      PROVE  SaveOf(TRUE) \/ SaveOf(FALSE)
  BY <1>1
<1> QED BY <1>1 DEF Next, SaveOf

LEMMA FundingTypedInit ==
  ASSUME Init
  PROVE  FundingTyped /\ NothingOpen
<1> USE BoundsAssumption, DatesAssumption
<1>1. /\ partnerships = [p \in Partners |-> Absent] /\ records = {} /\ status = "Pending"
      /\ request = Request(FALSE, FALSE) /\ saves = 0 /\ proposals = 0 /\ amounts = 0
      /\ before = {} /\ crossed = FALSE /\ skipped = {}
  BY DEF Init
<1>2. project \in DatesType
  BY DEF Init, Pair, DatesType, Dates
<1>3. partnerships \in [Partners -> PartnershipType]
  BY <1>1, AbsentType
<1>4. request \in Requests /\ request.dates = NoChanges
      /\ \A p \in Partners : request.changes[p] = NoChanges
  BY <1>1, RequestMeans
<1>5. \A p \in Partners : /\ partnerships[p] = Absent /\ partnerships[p].state = "absent"
                          /\ ~partnerships[p].deleting
  BY <1>1 DEF Absent
<1>6. NothingOpen
  BY <1>1, <1>4, <1>5 DEF NothingOpen
<1>7. /\ saves \in 0 .. MaxSaves /\ proposals \in 0 .. MaxProposals
      /\ amounts \in 0 .. MaxAmounts
  BY <1>1
<1>8. records \subseteq RecordType /\ crossed \in BOOLEAN /\ status \in {"Pending", "Current"}
  BY <1>1
<1> QED BY <1>1, <1>2, <1>3, <1>4, <1>5, <1>6, <1>7, <1>8 DEF FundingTyped

LEMMA FundingTypedStep ==
  ASSUME FundingTyped, [Next]_vars
  PROVE  FundingTyped'
<1> USE BoundsAssumption
<1>0. /\ project \in DatesType /\ status \in {"Pending", "Current"}
      /\ partnerships \in [Partners -> PartnershipType]
      /\ records \subseteq RecordType /\ request \in Requests /\ request.open \in BOOLEAN
      /\ saves \in 0 .. MaxSaves /\ proposals \in 0 .. MaxProposals
      /\ amounts \in 0 .. MaxAmounts /\ crossed \in BOOLEAN
      /\ before \subseteq Partners \X Partners /\ skipped \subseteq Partners
      /\ ~request.open => NothingOpen
      /\ \A p \in Partners :
           /\ partnerships[p] \in PartnershipType
           /\ partnerships[p].state # "live" => request.changes[p] = NoChanges
           /\ partnerships[p].state = "absent" => partnerships[p] = Absent
  BY DEF FundingTyped, Requests
<1>1. ASSUME NEW within \in BOOLEAN, SaveOf(within)
      PROVE  FundingTyped'
  <2>1. Outcome(within) /\ \E dates : Saves(dates, within)
    BY <1>1, SaveMeans
  <2>2. /\ saves' \in 0 .. MaxSaves /\ proposals' \in 0 .. MaxProposals
        /\ crossed' \in BOOLEAN /\ (within => request.open)
    BY <2>1, SavesMean
  <2>3. ~request'.open => NothingOpen'
    BY <1>0, <2>1, <2>2 DEF Outcome
  <2> QED BY <1>0, <2>1, <2>2, <2>3 DEF FundingTyped, Outcome, Typing
<1>2. ASSUME NEW r \in records, NEW within \in BOOLEAN, EnterAmount(r, within)
      PROVE  FundingTyped'
  <2>1. PICK x \in RecordType :
          records' = (records \ {r}) \cup {x} /\ x.active = r.active
    BY <1>2, EnteredMeans
  <2>2. /\ amounts' \in 0 .. MaxAmounts
        /\ UNCHANGED <<project, status, partnerships, before, request, saves, proposals,
                       crossed, skipped>>
    BY <1>0, <1>2 DEF EnterAmount
  <2>3. ~request'.open => NothingOpen'
    BY <1>0, <2>1, <2>2 DEF NothingOpen
  <2> QED BY <1>0, <2>1, <2>2, <2>3 DEF FundingTyped
<1>3. CASE BudgetStatus
  BY <1>0, <1>3 DEF BudgetStatus, FundingTyped, NothingOpen
<1>4. CASE OpenRequest
  <2>1. /\ request' \in Requests /\ request'.open
        /\ \A p \in Partners : request'.changes[p] = NoChanges
    BY <1>4, RequestMeans DEF OpenRequest
  <2>2. UNCHANGED <<project, status, partnerships, before, records, saves, proposals, amounts,
                    crossed, skipped>>
    BY <1>4 DEF OpenRequest
  <2> QED BY <1>0, <2>1, <2>2 DEF FundingTyped
<1>5. CASE Approve \/ Reject
  <2>1. \E within \in BOOLEAN :
          partnerships' = [p \in Partners |-> Finalized(Seen(p, within))]
    BY <1>5 DEF Approve, Reject, Seen
  <2>2. /\ partnerships' \in [Partners -> PartnershipType]
        /\ \A p \in Partners : /\ partnerships'[p].state \in {"absent", "live"}
                               /\ ~partnerships'[p].deleting
                               /\ partnerships'[p].state = "absent" => partnerships'[p] = Absent
    BY <2>1, SeenTyped, FinalizedMeans
  <2>3. /\ request' \in Requests /\ ~request'.open /\ request'.dates = NoChanges
        /\ \A p \in Partners : request'.changes[p] = NoChanges
    BY <1>5, RequestMeans DEF Approve, Reject
  <2>4. records' \subseteq RecordType /\ \A r \in records' : r.active
    BY <1>0, <1>5, RecordsFinalized DEF Approve, Reject, Applied
  <2>5. project' \in DatesType
    BY <1>0, <1>5, SeenTyped DEF Approve, Reject
  <2>6. /\ UNCHANGED <<status, before, saves, proposals, amounts, skipped>>
        /\ crossed' \in BOOLEAN
    BY <1>0, <1>5 DEF Approve, Reject
  <2>7. NothingOpen'
    BY <2>2, <2>3, <2>4 DEF NothingOpen
  <2> QED BY <1>0, <2>2, <2>3, <2>4, <2>5, <2>6, <2>7 DEF FundingTyped
<1>6. CASE UNCHANGED vars
  BY <1>0, <1>6 DEF vars, FundingTyped, NothingOpen
<1> QED BY <1>1, <1>2, <1>3, <1>4, <1>5, <1>6, NextMeans

---------------------------------------------------------------------------
(* Without change requests the records follow the dates exactly.             *)

Fits(rs, years) ==
  /\ \A r \in rs : r.year \in years
  /\ \A y \in years : \E r \in rs : r.year = y
  /\ Single1(rs)

FitsAt(p) ==
  Single1(Of(records, p)) /\ (p \notin skipped => Fits(Of(records, p), Due(p, FALSE)))

RecordsMatch ==
  Direct => NothingOpen /\ \A p \in Partners : FitsAt(p)

(* Records that stay of their partner and year still fit.                    *)
LEMMA FitsStill ==
  ASSUME NEW rs, NEW years, Fits(rs, years), NEW new,
         \A x \in new : \E r \in rs : x.year = r.year,
         \A r \in rs : \E x \in new : x.year = r.year,
         Single1(new)
  PROVE  Fits(new, years)
BY DEF Fits

LEMMA DirectSyncFits ==
  ASSUME records \subseteq RecordType, \A r \in records : r.active,
         NEW p \in Partners, Single1(Of(records, p)), NEW years \in SUBSET Nat
  PROVE  Fits(SyncedOf(p, years, FALSE), years)
<1> DEFINE S == SyncedOf(p, years, FALSE)
<1>1. RecordsOf(p, FALSE) = Of(records, p)
  BY DEF RecordsOf, Of
<1>2. /\ \A y \in years : \E r \in S : r.year = y /\ r.active
      /\ \A r \in S : r.active => r.year \in years
      /\ \A r \in S : r.active \/ r \in records
      /\ Single1(RecordsOf(p, FALSE)) => Single1(S)
  BY SyncedDirectly
<1> HIDE DEF S
<1> QED BY <1>1, <1>2 DEF Fits, S

LEMMA RecordsMatchSave ==
  ASSUME FundingTyped, RecordsMatch, Direct', SaveOf(FALSE)
  PROVE  RecordsMatch'
<1>1. Outcome(FALSE) /\ proposals' = proposals
  BY SaveMeans, SavesMean
<1>2. /\ NothingOpen /\ records \subseteq RecordType /\ \A r \in records : r.active
      /\ \A p \in Partners : FitsAt(p)
  BY <1>1 DEF RecordsMatch, Direct, FundingTyped, NothingOpen
<1>4. ASSUME NEW p \in Partners
      PROVE  FitsAt(p)'
  <2>1. Single1(Of(records, p)) /\ (p \notin skipped => Fits(Of(records, p), Due(p, FALSE)))
    BY <1>2 DEF FitsAt
  <2>2. CASE /\ Of(records', p) = SyncedOf(p, Due(p, FALSE)', FALSE)
             /\ Due(p, FALSE)' \in SUBSET Nat
    <3>2. \A years \in SUBSET Nat : Fits(SyncedOf(p, years, FALSE), years)
      BY <1>2, <2>1, DirectSyncFits
    <3>3. Fits(Of(records', p), Due(p, FALSE)')
      BY <2>2, <3>2
    <3>4. Single1(Of(records', p))
      BY <3>3 DEF Fits
    <3> QED BY <3>3, <3>4 DEF FitsAt, Of
  <2>3. CASE ~(/\ Of(records', p) = SyncedOf(p, Due(p, FALSE)', FALSE)
               /\ Due(p, FALSE)' \in SUBSET Nat)
    <3>1. /\ Of(records', p) = Of(records, p)
          /\ p \in skipped' \/ (p \notin skipped /\ Due(p, FALSE)' = Due(p, FALSE))
      BY <1>1, <1>2, <2>3 DEF Outcome, Handled, NothingOpen
    <3>2. Single1(Of(records', p))
      BY <2>1, <3>1
    <3>3. p \notin skipped' => Fits(Of(records', p), Due(p, FALSE)')
      BY <2>1, <3>1
    <3> QED BY <3>2, <3>3 DEF FitsAt, Of
  <2> QED BY <2>2, <2>3
<1>5. NothingOpen'
  BY <1>1, <1>2 DEF Outcome
<1> QED BY <1>4, <1>5 DEF RecordsMatch, Of

(* Finalizing a request that changed nothing changes nothing.                *)
LEMMA NothingFinalized ==
  ASSUME FundingTyped, NothingOpen, Approve \/ Reject
  PROVE  /\ UNCHANGED <<project, partnerships, proposals, skipped>>
         /\ NothingOpen'
         /\ \A p \in Partners : Due(p, FALSE)' = Due(p, FALSE)
         /\ \A p \in Partners :
              /\ \A r \in Of(records, p) : \E x \in Of(records', p) : x.year = r.year
              /\ \A x \in Of(records', p) : \E r \in Of(records, p) : x.year = r.year
              /\ Single1(Of(records, p)) => Single1(Of(records', p))
<1>0. /\ project \in DatesType /\ records \subseteq RecordType
      /\ partnerships \in [Partners -> PartnershipType]
      /\ \A p \in Partners : /\ partnerships[p] \in PartnershipType
                             /\ partnerships[p].state = "absent" => partnerships[p] = Absent
  BY DEF FundingTyped
<1>1. SeenProject(TRUE) = project /\ \A p \in Partners : Seen(p, TRUE) = partnerships[p]
  BY <1>0, DatesMean, PatchedNothing, NoChangesTyped DEF SeenProject, Seen, NothingOpen
<1>2. \A p \in Partners : Finalized(partnerships[p]) = partnerships[p]
  <2>1. ASSUME NEW p \in Partners, partnerships[p].state = "absent"
        PROVE  Finalized(partnerships[p]) = partnerships[p]
    BY <1>0, <2>1 DEF Finalized
  <2>2. ASSUME NEW p \in Partners, partnerships[p].state = "live"
        PROVE  Finalized(partnerships[p]) = partnerships[p]
    BY <1>0, <2>2, FinalizedMeans DEF NothingOpen
  <2> QED BY <1>0, <2>1, <2>2 DEF NothingOpen, PartnershipType
<1>3. UNCHANGED <<project, partnerships, proposals, skipped>>
  <2>1. partnerships' = [p \in Partners |-> partnerships[p]]
    BY <1>1, <1>2 DEF Approve, Reject
  <2> QED BY <1>0, <1>1, <2>1 DEF Approve, Reject
<1>4. \A p \in Partners : Due(p, FALSE)' = Due(p, FALSE)
  BY <1>3 DEF Due, Seen, SeenProject, MouSeen
<1>5. /\ \A r \in records : \E x \in records' : x.partner = r.partner /\ x.year = r.year
      /\ \A x \in records' : \E r \in records : /\ x.partner = r.partner /\ x.year = r.year
                                                /\ x = [Unmarked(r) EXCEPT !.active = TRUE]
      /\ \A x \in records' : x.active
  <2>1. CASE Approve
    <3>1. records' = {[Unmarked(r) EXCEPT !.active = TRUE] : r \in records}
      BY <2>1 DEF Approve, Applied
    <3>2. \A r \in records : LET a == [Unmarked(r) EXCEPT !.active = TRUE] IN
                             a.partner = r.partner /\ a.year = r.year /\ a.active
      BY <1>0, RecordsFinalized
    <3> QED BY <3>1, <3>2
  <2>2. CASE Reject
    <3>1. records' = {Unmarked(r) : r \in records}
      BY <2>2 DEF Reject, NothingOpen
    <3>2. \A r \in records : Unmarked(r) = [Unmarked(r) EXCEPT !.active = TRUE]
      BY <1>0 DEF Unmarked, RecordType, NothingOpen
    <3> QED BY <1>0, <3>1, <3>2, RecordsFinalized, ZenonT(40)
  <2> QED BY <2>1, <2>2
<1>6. ASSUME NEW p \in Partners, Single1(Of(records, p))
      PROVE  Single1(Of(records', p))
  <2> SUFFICES ASSUME NEW x \in Of(records', p), NEW y \in Of(records', p), x.year = y.year
               PROVE  x = y
    BY DEF Single1
  <2>1. PICK r \in records : /\ x.partner = r.partner /\ x.year = r.year
                             /\ x = [Unmarked(r) EXCEPT !.active = TRUE]
    BY <1>5 DEF Of
  <2>2. PICK q \in records : /\ y.partner = q.partner /\ y.year = q.year
                             /\ y = [Unmarked(q) EXCEPT !.active = TRUE]
    BY <1>5 DEF Of
  <2>3. r = q
    BY <1>6, <2>1, <2>2 DEF Single1, Of
  <2> QED BY <2>1, <2>2, <2>3
<1>7. NothingOpen'
  <2>1. request'.dates = NoChanges /\ \A p \in Partners : request'.changes[p] = NoChanges
    BY RequestMeans DEF Approve, Reject
  <2> QED BY <1>3, <1>5, <2>1 DEF NothingOpen
<1> QED BY <1>3, <1>4, <1>5, <1>6, <1>7, ZenonT(40) DEF Of

LEMMA RecordsMatchStep ==
  ASSUME FundingTyped, RecordsMatch, [Next]_vars
  PROVE  RecordsMatch'
<1> SUFFICES ASSUME Direct' PROVE RecordsMatch'
  BY DEF RecordsMatch
<1>d. ASSUME proposals' = proposals
      PROVE  /\ Direct /\ NothingOpen
             /\ \A p \in Partners : FitsAt(p)
  BY <1>d DEF RecordsMatch, Direct
<1>u. ASSUME UNCHANGED <<project, partnerships>>, NEW p \in Partners
      PROVE  Due(p, FALSE)' = Due(p, FALSE)
  BY <1>u DEF Due, Seen, SeenProject, MouSeen
<1>m. ASSUME NothingOpen', skipped' = skipped,
             \A p \in Partners :
               /\ Single1(Of(records', p))
               /\ p \notin skipped => Fits(Of(records', p), Due(p, FALSE)')
      PROVE  RecordsMatch'
  BY <1>m DEF RecordsMatch, FitsAt, Of
<1>1. CASE SaveOf(TRUE)
  <2>1. proposals' # 0
    BY <1>1, SaveMeans, SavesMean
  <2> QED BY <2>1 DEF Direct
<1>2. CASE SaveOf(FALSE)
  BY <1>2, RecordsMatchSave
<1>3. ASSUME NEW r \in records, NEW within \in BOOLEAN, EnterAmount(r, within)
      PROVE  RecordsMatch'
  <2>1. PICK x \in RecordType :
          /\ records' = (records \ {r}) \cup {x}
          /\ x.partner = r.partner /\ x.year = r.year /\ x.active = r.active
    BY <1>3, EnteredMeans
  <2>2. UNCHANGED <<project, partnerships, request, proposals, skipped>>
    BY <1>3 DEF EnterAmount
  <2>3. NothingOpen'
    BY <1>d, <2>1, <2>2 DEF NothingOpen
  <2>4. ASSUME NEW p \in Partners
        PROVE  /\ Single1(Of(records', p))
               /\ p \notin skipped => Fits(Of(records', p), Due(p, FALSE)')
    <3>1. FitsAt(p) /\ Due(p, FALSE)' = Due(p, FALSE)
      BY <1>d, <1>u, <2>2
    <3>2. /\ \A y \in Of(records', p) : \E q \in Of(records, p) : y.year = q.year
          /\ \A q \in Of(records, p) : \E y \in Of(records', p) : y.year = q.year
      BY <2>1 DEF Of
    <3>3. Single1(Of(records', p))
      <4>1. Single1(Of(records, p))
        BY <3>1 DEF FitsAt
      <4>2. \A y \in Of(records', p) : y = x \/ y \in Of(records, p) \ {r}
        BY <2>1 DEF Of
      <4>3. ASSUME NEW y \in Of(records', p), y = x
            PROVE  r \in Of(records, p) /\ \A q \in Of(records, p) \ {r} : q.year # y.year
        BY <2>1, <4>1, <4>3 DEF Of, Single1
      <4> QED BY <4>1, <4>2, <4>3 DEF Single1
    <3>4. ASSUME p \notin skipped
          PROVE  Fits(Of(records', p), Due(p, FALSE)')
      <4>1. Fits(Of(records, p), Due(p, FALSE))
        BY <3>1, <3>4 DEF FitsAt
      <4> QED BY <3>1, <3>2, <3>3, <4>1, FitsStill, ZenonT(40)
    <3> QED BY <3>3, <3>4
  <2> QED BY <1>m, <2>2, <2>3, <2>4
<1>4. CASE BudgetStatus \/ OpenRequest \/ UNCHANGED vars
  <2>1. UNCHANGED <<project, partnerships, records, proposals, skipped>>
    BY <1>4 DEF BudgetStatus, OpenRequest, vars
  <2>2. NothingOpen'
    <3>1. \/ request' = request
          \/ request'.dates = NoChanges /\ \A p \in Partners : request'.changes[p] = NoChanges
      BY <1>4, RequestMeans DEF BudgetStatus, OpenRequest, vars
    <3> QED BY <1>d, <2>1, <3>1 DEF NothingOpen
  <2>3. ASSUME NEW p \in Partners
        PROVE  FitsAt(p) /\ Due(p, FALSE)' = Due(p, FALSE)
    BY <1>d, <1>u, <2>1
  <2> QED BY <1>m, <2>1, <2>2, <2>3 DEF FitsAt
<1>5. CASE Approve \/ Reject
  <2>1. proposals' = proposals
    BY <1>5 DEF Approve, Reject
  <2>2. /\ NothingOpen' /\ skipped' = skipped
        /\ \A p \in Partners : Due(p, FALSE)' = Due(p, FALSE)
        /\ \A p \in Partners :
             /\ \A r \in Of(records, p) : \E x \in Of(records', p) : x.year = r.year
             /\ \A x \in Of(records', p) : \E r \in Of(records, p) : x.year = r.year
             /\ Single1(Of(records, p)) => Single1(Of(records', p))
    BY <1>5, <1>d, <2>1, NothingFinalized
  <2>3. ASSUME NEW p \in Partners
        PROVE  /\ Single1(Of(records', p))
               /\ p \notin skipped => Fits(Of(records', p), Due(p, FALSE))
    <3>1. /\ Single1(Of(records, p))
          /\ p \notin skipped => Fits(Of(records, p), Due(p, FALSE))
      BY <1>d, <2>1 DEF FitsAt
    <3>2. Single1(Of(records', p))
      BY <2>2, <3>1
    <3>3. ASSUME p \notin skipped
          PROVE  Fits(Of(records', p), Due(p, FALSE))
      BY <2>2, <3>1, <3>2, <3>3, FitsStill
    <3> QED BY <3>2, <3>3
  <2> QED BY <1>m, <2>2, <2>3
<1> QED BY <1>1, <1>2, <1>3, <1>4, <1>5, NextMeans

(* However dates, overrides and types are changed outside of change requests, *)
(* each funding partner has one record for each fiscal year of its dates, and *)
(* nobody has another (syncRecords), unless it was not on the first page that *)
(* a change of the project's dates reaches (determinePartnerships).          *)
THEOREM RecordsFollow == Spec => []RecordsFollowDates
<1> DEFINE RInv == FundingTyped /\ RecordsMatch
<1>1. Init => RInv
  <2> SUFFICES ASSUME Init PROVE RInv
    OBVIOUS
  <2>1. FundingTyped /\ NothingOpen
    BY FundingTypedInit
  <2>2. ASSUME NEW p \in Partners
        PROVE  Of(records, p) = {} /\ Due(p, FALSE) = {}
    BY DEF Init, Of, Due, Years, Seen, Absent
  <2>3. \A p \in Partners : FitsAt(p)
    BY <2>2 DEF FitsAt, Fits, Single1
  <2> QED BY <2>1, <2>3 DEF RecordsMatch
<1>2. RInv /\ [Next]_vars => RInv'
  BY FundingTypedStep, RecordsMatchStep
<1>3. RInv => RecordsFollowDates
  <2> SUFFICES ASSUME RInv, Direct, NEW p \in Partners \ skipped
               PROVE  /\ {r.year : r \in RecordsOf(p, FALSE)} = Due(p, FALSE)
                      /\ \A r1, r2 \in RecordsOf(p, FALSE) : r1.year = r2.year => r1 = r2
    BY DEF RecordsFollowDates
  <2>1. Fits(Of(records, p), Due(p, FALSE))
    BY DEF RecordsMatch, FitsAt
  <2>2. RecordsOf(p, FALSE) = Of(records, p)
    BY DEF RecordsMatch, NothingOpen, RecordsOf, Of
  <2>4. {r.year : r \in Of(records, p)} = Due(p, FALSE)
    BY <2>1 DEF Fits
  <2>5. \A r1, r2 \in Of(records, p) : r1.year = r2.year => r1 = r2
    BY <2>1 DEF Fits, Single1
  <2> QED BY <2>2, <2>4, <2>5
<1> QED BY <1>1, <1>2, <1>3, PTL DEF Spec
---------------------------------------------------------------------------
(* With change requests there is still a record for every year.              *)

(* A partnership of a save's view that is not to go.                         *)
Counts(p, within) ==
  /\ partnerships[p].state # "absent" /\ ~partnerships[p].deleting
  /\ within \/ partnerships[p].state = "live"

Served(rs, years, within) == \A y \in years : \E r \in rs : r.year = y /\ (r.active \/ within)

RecordsCover ==
  ~crossed =>
    /\ \A p \in Partners \ skipped :
         Counts(p, FALSE) => Served(Of(records, p), Due(p, FALSE), FALSE)
    /\ request.open =>
         \A p \in Partners \ skipped : Counts(p, TRUE) => Served(Of(records, p), Due(p, TRUE), TRUE)
    /\ NoneTaken

LEMMA NothingDueAbsent ==
  ASSUME FundingTyped, NEW p \in Partners, partnerships[p].state = "absent",
         NEW within \in BOOLEAN
  PROVE  Due(p, within) = {}
<1>1. partnerships[p] = Absent /\ request.changes[p] = NoChanges
  BY DEF FundingTyped
<1>2. Seen(p, within) = Absent
  BY <1>1, AbsentType, PatchedNothing DEF Seen
<1> QED BY <1>2 DEF Due, Years, Absent

LEMMA CoverSaveDirectly ==
  ASSUME FundingTyped, RecordsCover, SaveOf(FALSE)
  PROVE  RecordsCover'
<1> SUFFICES ASSUME ~crossed' PROVE RecordsCover'
  BY DEF RecordsCover
<1>0. Outcome(FALSE) /\ crossed' = (crossed \/ request.open)
  BY SaveMeans, SavesMean
<1>1. /\ ~crossed /\ ~request.open /\ NothingOpen /\ records \subseteq RecordType
  BY <1>0 DEF FundingTyped
<1>2. ASSUME NEW p \in Partners, p \notin skipped', Counts(p, FALSE)'
      PROVE  Served(Of(records', p), Due(p, FALSE)', FALSE)
  <2>1. CASE /\ Of(records', p) = SyncedOf(p, Due(p, FALSE)', FALSE)
             /\ Due(p, FALSE)' \in SUBSET Nat
    <3>1. \A years \in SUBSET Nat : Served(SyncedOf(p, years, FALSE), years, FALSE)
      BY <1>1, SyncedDirectly DEF Served
    <3> QED BY <2>1, <3>1
  <2>2. CASE Of(records', p) = Of(records, p) /\ Due(p, FALSE)' = Due(p, FALSE)
             /\ p \notin skipped
    <3>1. CASE partnerships[p].state = "absent"
      <4>1. Due(p, FALSE) = {}
        BY <3>1, NothingDueAbsent
      <4> QED BY <2>2, <4>1 DEF Served
    <3>2. CASE partnerships[p].state # "absent"
      <4>1. Counts(p, FALSE)
        BY <1>1, <3>2 DEF Counts, NothingOpen, FundingTyped, PartnershipType
      <4> QED BY <1>1, <2>2, <4>1 DEF RecordsCover
    <3> QED BY <3>1, <3>2
  <2> QED BY <1>0, <1>1, <1>2, <2>1, <2>2 DEF Outcome, Handled, NothingOpen
<1>3. request'.open = FALSE /\ NoneTaken'
  <2>1. request'.open = FALSE /\ NothingOpen'
    BY <1>0, <1>1 DEF Outcome, FundingTyped, Requests
  <2> QED BY <2>1, NoChangesTyped DEF NothingOpen, NoneTaken
<1> QED BY <1>2, <1>3 DEF RecordsCover, Of

LEMMA CoverSaveWithin ==
  ASSUME FundingTyped, RecordsCover, SaveOf(TRUE)
  PROVE  RecordsCover'
<1> SUFFICES ASSUME ~crossed' PROVE RecordsCover'
  BY DEF RecordsCover
<1>0. /\ Outcome(TRUE) /\ request.open
      /\ \E dates : crossed' = (crossed \/ NULL \in dates)
  BY SaveMeans, SavesMean
<1>1. ~crossed /\ records \subseteq RecordType
  BY <1>0 DEF FundingTyped
<1>r. ASSUME NEW p \in Partners
      PROVE  \/ /\ Of(records', p) = SyncedOf(p, Due(p, TRUE)', TRUE)
                /\ Due(p, TRUE)' \in SUBSET Nat
             \/ /\ Of(records', p) = Of(records, p)
                /\ p \in skipped' \/ (p \notin skipped /\ Due(p, TRUE)' = Due(p, TRUE))
             \/ partnerships'[p].deleting
  BY <1>0 DEF Outcome, Handled
<1>2. ASSUME NEW p \in Partners, p \notin skipped', Counts(p, TRUE)'
      PROVE  Served(Of(records', p), Due(p, TRUE)', TRUE)
  <2>1. CASE /\ Of(records', p) = SyncedOf(p, Due(p, TRUE)', TRUE)
             /\ Due(p, TRUE)' \in SUBSET Nat
    <3>1. \A years \in SUBSET Nat : Served(SyncedOf(p, years, TRUE), years, TRUE)
      BY <1>1, SyncedWithin DEF Served
    <3> QED BY <2>1, <3>1
  <2>2. CASE Of(records', p) = Of(records, p) /\ Due(p, TRUE)' = Due(p, TRUE)
             /\ p \notin skipped
    <3>1. CASE partnerships[p].state = "absent"
      <4>1. Due(p, TRUE) = {}
        BY <3>1, NothingDueAbsent
      <4> QED BY <2>2, <4>1 DEF Served
    <3>2. CASE partnerships[p].deleting
      BY <1>0, <1>2, <3>2 DEF Outcome, Counts
    <3>3. CASE partnerships[p].state # "absent" /\ ~partnerships[p].deleting
      <4>1. Counts(p, TRUE)
        BY <3>3 DEF Counts
      <4> QED BY <1>0, <1>1, <2>2, <4>1 DEF RecordsCover
    <3> QED BY <3>1, <3>2, <3>3
  <2> QED BY <1>2, <1>r, <2>1, <2>2 DEF Counts
<1>3. ASSUME NEW p \in Partners, p \notin skipped', Counts(p, FALSE)'
      PROVE  Served(Of(records', p), Due(p, FALSE)', FALSE)
  <2>1. /\ partnerships'[p].state = "live" /\ ~partnerships'[p].deleting
        /\ SameTerms(partnerships'[p], partnerships[p]) /\ project' = project
        /\ ~partnerships[p].deleting /\ p \notin skipped
    BY <1>0, <1>3 DEF Outcome, Counts
  <2>2. Served(Of(records, p), Due(p, FALSE), FALSE)
    <3>1. Counts(p, FALSE)
      BY <2>1 DEF Counts, SameTerms
    <3> QED BY <1>1, <2>1, <3>1 DEF RecordsCover
  <2>3. Due(p, FALSE)' = Due(p, FALSE)
    BY <2>1 DEF Due, Seen, SeenProject, MouSeen, Years, Effective, SameTerms
  <2>4. \A r \in Of(records, p) : \E x \in Of(records', p) : x.year = r.year /\ (r.active => x.active)
    <3>1. CASE /\ Of(records', p) = SyncedOf(p, Due(p, TRUE)', TRUE)
               /\ Due(p, TRUE)' \in SUBSET Nat
      <4>1. \A years \in SUBSET Nat : \A r \in Of(records, p) :
              \E x \in SyncedOf(p, years, TRUE) : x.year = r.year /\ (r.active => x.active)
        <5> SUFFICES ASSUME NEW years \in SUBSET Nat, NEW r \in Of(records, p)
                     PROVE  \E x \in SyncedOf(p, years, TRUE) :
                              x.year = r.year /\ (r.active => x.active)
          OBVIOUS
        <5>1. r \in records /\ r.partner = p
          BY DEF Of
        <5>2. \E x \in SyncedOf(p, years, TRUE) :
                x.year = r.year /\ x.active = r.active /\ x.amount = r.amount
          BY <1>1, <5>1, SyncedWithin
        <5> QED BY <5>2
      <4> QED BY <3>1, <4>1
    <3>2. CASE Of(records', p) = Of(records, p)
      BY <3>2
    <3> QED BY <1>r, <2>1, <3>1, <3>2
  <2>5. Served(Of(records', p), Due(p, FALSE), FALSE)
    <3> SUFFICES ASSUME NEW y \in Due(p, FALSE)
                 PROVE  \E x \in Of(records', p) : x.year = y /\ (x.active \/ FALSE)
      BY DEF Served
    <3>1. PICK r \in Of(records, p) : r.year = y /\ (r.active \/ FALSE)
      BY <2>2 DEF Served
    <3>2. PICK x \in Of(records', p) : x.year = r.year /\ (r.active => x.active)
      BY <2>4
    <3> QED BY <3>1, <3>2
  <2> QED BY <2>3, <2>5
<1>4. NoneTaken'
  BY <1>0, <1>1 DEF RecordsCover, Outcome
<1> QED BY <1>2, <1>3, <1>4 DEF RecordsCover, Of

(* Of what an approval brings live, the years are those its view showed.     *)
LEMMA ApprovedDue ==
  ASSUME FundingTyped, NoneTaken, Approve, NEW p \in Partners, Counts(p, FALSE)'
  PROVE  Counts(p, TRUE) /\ Due(p, FALSE)' = Due(p, TRUE)
<1> DEFINE S == Seen(p, TRUE)
           P == SeenProject(TRUE)
           new == partnerships'[p]
<1>1. /\ S \in PartnershipType /\ P \in DatesType /\ S.state = partnerships[p].state
      /\ S.deleting = partnerships[p].deleting
      /\ partnerships[p] \in PartnershipType /\ request.changes[p] \in Changes
      /\ project \in DatesType /\ request.dates \in DateChanges
  BY SeenTyped, FundingMeans
<1>2. new = Finalized(S) /\ project' = P
  BY DEF Approve
<1>3. /\ new.state = "live" /\ ~S.deleting /\ S.state # "absent"
      /\ new.funding = S.funding /\ new.start = S.start /\ new.end = S.end
  <2>1. new.state = "live"
    BY DEF Counts
  <2> HIDE DEF S, new
  <2> QED BY <1>1, <1>2, <2>1, FinalizedMeans
<1>4. Counts(p, TRUE)
  BY <1>1, <1>3 DEF Counts
<1>5. \A f \in {"start", "end"} : S[f] = NULL => partnerships[p][f] = NULL
  <2>1. {"start", "end"} \subseteq DOMAIN partnerships[p]
    BY <1>1 DEF PartnershipType
  <2>2. \A f \in {"start", "end"} : S[f] = IF f \in DOMAIN request.changes[p]
                                           THEN request.changes[p][f] ELSE partnerships[p][f]
    BY <1>1, <2>1, PatchedMeans DEF Seen
  <2>3. \A f \in DOMAIN request.changes[p] : request.changes[p][f] # NULL
    BY DEF NoneTaken
  <2> HIDE DEF S
  <2> QED BY <2>2, <2>3
<1>6. \A f \in {"start", "end"} : P[f] = NULL => project[f] = NULL
  <2>1. \A f \in {"start", "end"} : P[f] = IF f \in DOMAIN request.dates
                                           THEN request.dates[f] ELSE project[f]
    BY <1>1, DatesMean DEF SeenProject
  <2>2. \A f \in DOMAIN request.dates : request.dates[f] # NULL
    BY DEF NoneTaken
  <2> HIDE DEF P
  <2> QED BY <2>1, <2>2
<1>7. /\ MouSeen(P).start = Or(P.start, project.start)
      /\ MouSeen(P).end = Or(P.end, project.end)
  BY DEF MouSeen, Pair
<1>8. /\ MouSeen(SeenProject(FALSE))'.start = Or(project'.start, project'.start)
      /\ MouSeen(SeenProject(FALSE))'.end = Or(project'.end, project'.end)
  BY DEF MouSeen, Pair, SeenProject
<1> HIDE DEF S, P, new
<1>9. /\ Or(Or(new.start, new.start), Or(P.start, P.start)) =
           Or(Or(S.start, partnerships[p].start), Or(P.start, project.start))
      /\ Or(Or(new.end, new.end), Or(P.end, P.end)) =
           Or(Or(S.end, partnerships[p].end), Or(P.end, project.end))
  BY <1>3, <1>5, <1>6 DEF Or
<1>10. Due(p, TRUE) = IF S.funding
         THEN FiscalYears(Or(Or(S.start, partnerships[p].start), Or(P.start, project.start)),
                          Or(Or(S.end, partnerships[p].end), Or(P.end, project.end)))
         ELSE {}
  BY <1>7 DEF Due, Years, Effective, S, P
<1>11. Due(p, FALSE)' = IF new.funding
         THEN FiscalYears(Or(Or(new.start, new.start), Or(P.start, P.start)),
                          Or(Or(new.end, new.end), Or(P.end, P.end)))
         ELSE {}
  BY <1>2, <1>8 DEF Due, Years, Effective, Seen, new
<1> QED BY <1>3, <1>4, <1>9, <1>10, <1>11

(* A request that was just opened shows what is live.                        *)
LEMMA OpenedDue ==
  ASSUME FundingTyped, OpenRequest, NEW p \in Partners
  PROVE  /\ Due(p, TRUE)' = Due(p, FALSE) /\ Due(p, FALSE)' = Due(p, FALSE)
         /\ NothingOpen /\ NoneTaken'
<1>1. /\ request'.dates = NoChanges /\ \A q \in Partners : request'.changes[q] = NoChanges
      /\ UNCHANGED <<project, partnerships>> /\ NothingOpen
  BY RequestMeans DEF OpenRequest, FundingTyped
<1>2. partnerships[p] \in PartnershipType /\ project \in DatesType
  BY FundingMeans
<1>3. Seen(p, TRUE)' = partnerships[p] /\ SeenProject(TRUE)' = project
  <2>1. Patched(partnerships[p], NoChanges) = partnerships[p] /\ Patched(project, NoChanges) = project
    BY <1>2, PatchedNothing, DatesMean, NoChangesTyped
  <2> QED BY <1>1, <2>1 DEF Seen, SeenProject
<1>4. Due(p, TRUE)' = Due(p, FALSE)
  BY <1>1, <1>3 DEF Due, Seen, SeenProject, MouSeen
<1>5. Due(p, FALSE)' = Due(p, FALSE)
  BY <1>1 DEF Due, Seen, SeenProject, MouSeen
<1> QED BY <1>1, <1>4, <1>5, NoChangesTyped DEF NoneTaken

LEMMA CoverStep ==
  ASSUME FundingTyped, RecordsCover, [Next]_vars
  PROVE  RecordsCover'
<1>1. CASE SaveOf(TRUE)
  BY <1>1, CoverSaveWithin
<1>2. CASE SaveOf(FALSE)
  BY <1>2, CoverSaveDirectly
<1>3. ASSUME UNCHANGED <<project, partnerships, request, crossed, skipped>>,
             \A q \in records : \E y \in records' :
               y.partner = q.partner /\ y.year = q.year /\ y.active = q.active
      PROVE  RecordsCover'
  <2>1. /\ \A p \in Partners, within \in BOOLEAN : Counts(p, within)' = Counts(p, within)
        /\ \A p \in Partners, within \in BOOLEAN : Due(p, within)' = Due(p, within)
        /\ NoneTaken' = NoneTaken
    BY <1>3 DEF Counts, Due, Seen, SeenProject, MouSeen, NoneTaken
  <2>2. ASSUME NEW p \in Partners, NEW years, NEW within \in BOOLEAN,
               Served(Of(records, p), years, within)
        PROVE  Served(Of(records', p), years, within)
    BY <1>3, <2>2 DEF Served, Of
  <2>3. ASSUME ~crossed
        PROVE  /\ \A p \in Partners \ skipped : Counts(p, FALSE)' =>
                    Served(Of(records', p), Due(p, FALSE)', FALSE)
               /\ request'.open => \A p \in Partners \ skipped : Counts(p, TRUE)' =>
                    Served(Of(records', p), Due(p, TRUE)', TRUE)
               /\ NoneTaken'
    BY <1>3, <2>1, <2>2, <2>3 DEF RecordsCover
  <2> QED BY <1>3, <2>3 DEF RecordsCover, Of
<1>4. ASSUME NEW r \in records, NEW within \in BOOLEAN, EnterAmount(r, within)
      PROVE  RecordsCover'
  <2>1. PICK x \in RecordType :
          /\ records' = (records \ {r}) \cup {x}
          /\ x.partner = r.partner /\ x.year = r.year /\ x.active = r.active
    BY <1>4, EnteredMeans
  <2>2. UNCHANGED <<project, partnerships, request, crossed, skipped>>
    BY <1>4 DEF EnterAmount
  <2> QED BY <1>3, <2>1, <2>2
<1>5. CASE BudgetStatus \/ UNCHANGED vars
  BY <1>3, <1>5 DEF BudgetStatus, vars
<1>6. CASE OpenRequest
  <2> SUFFICES ASSUME ~crossed PROVE RecordsCover'
    BY <1>6 DEF OpenRequest, RecordsCover
  <2>1. UNCHANGED <<partnerships, records, skipped>>
    BY <1>6 DEF OpenRequest
  <2>2. ASSUME NEW p \in Partners \ skipped, NEW within \in BOOLEAN, Counts(p, within)'
        PROVE  Served(Of(records', p), Due(p, within)', within)
    <3>1. Due(p, within)' = Due(p, FALSE) /\ NothingOpen
      BY <1>6, OpenedDue
    <3>2. Counts(p, FALSE)
      BY <2>1, <2>2, <3>1 DEF Counts, NothingOpen, FundingTyped, PartnershipType
    <3>3. Served(Of(records, p), Due(p, FALSE), FALSE)
      BY <3>2 DEF RecordsCover
    <3> QED BY <2>1, <3>1, <3>3 DEF Served
  <2>3. NoneTaken'
    <3>1. request'.dates = NoChanges /\ \A q \in Partners : request'.changes[q] = NoChanges
      BY <1>6, RequestMeans DEF OpenRequest
    <3> QED BY <3>1, NoChangesTyped DEF NoneTaken
  <2> QED BY <2>1, <2>2, <2>3 DEF RecordsCover, Of
<1>7. CASE Approve
  <2> SUFFICES ASSUME ~crossed PROVE RecordsCover'
    BY <1>7 DEF Approve, RecordsCover
  <2>0. request.open /\ NoneTaken /\ records \subseteq RecordType
    BY <1>7 DEF Approve, RecordsCover, FundingTyped
  <2>1. /\ ~request'.open /\ NoneTaken' /\ skipped' = skipped
    <3>1. /\ ~request'.open /\ request'.dates = NoChanges
          /\ \A q \in Partners : request'.changes[q] = NoChanges
      BY <1>7, RequestMeans DEF Approve
    <3> QED BY <1>7, <3>1, NoChangesTyped DEF NoneTaken, Approve
  <2>2. \A r \in records : \E x \in records' :
          x.partner = r.partner /\ x.year = r.year /\ x.active
    BY <1>7, <2>0, RecordsFinalized DEF Approve, Applied
  <2>3. ASSUME NEW p \in Partners \ skipped, Counts(p, FALSE)'
        PROVE  Served(Of(records', p), Due(p, FALSE)', FALSE)
    <3>1. Counts(p, TRUE) /\ Due(p, FALSE)' = Due(p, TRUE)
      BY <1>7, <2>0, <2>3, ApprovedDue
    <3>2. \A y \in Due(p, TRUE) : \E r \in Of(records, p) : r.year = y
      <4>1. Served(Of(records, p), Due(p, TRUE), TRUE)
        BY <2>0, <3>1 DEF RecordsCover
      <4>2. ASSUME NEW years, NEW within \in BOOLEAN, Served(Of(records, p), years, within)
            PROVE  \A y \in years : \E r \in Of(records, p) : r.year = y
        BY <4>2 DEF Served
      <4> QED BY <4>1, <4>2
    <3> SUFFICES ASSUME NEW y \in Due(p, TRUE)
                 PROVE  \E x \in Of(records', p) : x.year = y /\ (x.active \/ FALSE)
      BY <3>1 DEF Served
    <3>3. PICK r \in Of(records, p) : r.year = y
      BY <3>2
    <3>4. PICK x \in records' : x.partner = r.partner /\ x.year = r.year /\ x.active
      BY <2>2 DEF Of
    <3> QED BY <3>3, <3>4 DEF Of
  <2> QED BY <2>1, <2>3 DEF RecordsCover, Of
<1>8. CASE Reject
  BY <1>8 DEF Reject, RecordsCover
<1> QED BY <1>1, <1>2, <1>4, <1>5, <1>6, <1>7, <1>8, NextMeans

(* Records are made within a change request as they are outside: neither its *)
(* view nor what is live, before and after it is approved, misses one of a   *)
(* funding partner's years (finalize, applyToBase) that no change of dates   *)
(* skipped.                                                                  *)
THEOREM RequestsCovered == Spec => []RequestsCoverDates
<1> DEFINE CInv == FundingTyped /\ RecordsCover
<1>1. Init => CInv
  <2> SUFFICES ASSUME Init PROVE CInv
    OBVIOUS
  <2>1. FundingTyped /\ NothingOpen
    BY FundingTypedInit
  <2>2. \A p \in Partners, within \in BOOLEAN : ~Counts(p, within)
    BY DEF Init, Counts, Absent
  <2>3. NoneTaken
    BY <2>1, NoChangesTyped DEF NothingOpen, NoneTaken
  <2> QED BY <2>1, <2>2, <2>3 DEF RecordsCover
<1>2. CInv /\ [Next]_vars => CInv'
  BY FundingTypedStep, CoverStep
<1>3. CInv => RequestsCoverDates
  <2> SUFFICES ASSUME CInv, ~crossed
               PROVE  CoveredIn(FALSE) /\ (request.open => CoveredIn(TRUE))
    BY DEF RequestsCoverDates
  <2>1. ASSUME NEW within \in BOOLEAN, within => request.open,
               NEW p \in Partners \ skipped, Counts(p, within)
        PROVE  Due(p, within) \subseteq {r.year : r \in RecordsOf(p, within)}
    <3>1. Served(Of(records, p), Due(p, within), within)
      BY <2>1 DEF RecordsCover
    <3> QED BY <3>1 DEF Served, Of, RecordsOf
  <2>2. \A within \in BOOLEAN : (within => request.open) => CoveredIn(within)
    BY <2>1 DEF CoveredIn, Counts
  <2> QED BY <2>2
<1> QED BY <1>1, <1>2, <1>3, PTL DEF Spec
---------------------------------------------------------------------------
(* What was entered stays.                                                   *)

StaysDue(r) ==
  /\ r.active /\ r.amount
  /\ partnerships'[r.partner].state = "live" /\ ~partnerships'[r.partner].deleting
  /\ request' = request
  /\ r.year \in Due(r.partner, FALSE)'

IsKept(r) ==
  \E x \in records' : x.active /\ x.amount /\ x.partner = r.partner /\ x.year = r.year

LEMMA KeptBySave ==
  ASSUME FundingTyped, NEW within \in BOOLEAN, SaveOf(within),
         NEW r \in records, StaysDue(r)
  PROVE  IsKept(r)
<1> DEFINE p == r.partner
<1>0. /\ Outcome(within) /\ records \subseteq RecordType
      /\ r \in RecordType /\ p \in Partners
  BY SaveMeans DEF FundingTyped, RecordType
<1>1. r \in Of(records, p)
  BY DEF Of
<1>2. \/ /\ Of(records', p) = SyncedOf(p, Due(p, within)', within)
         /\ Due(p, within)' \in SUBSET Nat
      \/ Of(records', p) = Of(records, p)
  BY <1>0 DEF Outcome, Handled, StaysDue
<1>3. CASE Of(records', p) = Of(records, p)
  BY <1>1, <1>3 DEF Of, IsKept, StaysDue
<1>4. ASSUME within, Of(records', p) = SyncedOf(p, Due(p, TRUE)', TRUE),
             Due(p, TRUE)' \in SUBSET Nat
      PROVE  IsKept(r)
  <2>1. \A years \in SUBSET Nat : \E x \in SyncedOf(p, years, TRUE) :
          x.year = r.year /\ x.active = r.active /\ x.amount = r.amount
    BY <1>0, SyncedWithin
  <2>2. PICK x \in Of(records', p) :
          x.year = r.year /\ x.active = r.active /\ x.amount = r.amount
    BY <1>4, <2>1
  <2> QED BY <2>2 DEF Of, IsKept, StaysDue
<1>5. ASSUME ~within, Of(records', p) = SyncedOf(p, Due(p, FALSE)', FALSE),
             Due(p, FALSE)' \in SUBSET Nat
      PROVE  IsKept(r)
  <2>2. r.year \in Due(p, FALSE)'
    BY DEF StaysDue
  <2>3. \A years \in SUBSET Nat : r.year \in years => r \in SyncedOf(p, years, FALSE)
    BY <1>0, SyncedDirectly
  <2>4. r \in Of(records', p)
    BY <1>5, <2>2, <2>3
  <2> QED BY <2>4 DEF Of, IsKept, StaysDue
<1>6. CASE within = TRUE
  BY <1>2, <1>3, <1>4, <1>6
<1>7. CASE within = FALSE
  BY <1>2, <1>3, <1>5, <1>7
<1> QED BY <1>6, <1>7

(* An amount that was entered is not lost as long as its year remains one of *)
(* its partner's: records are not created anew (syncRecords).                *)
THEOREM AmountsKept == Spec => AmountsAreKept
<1>1. FundingTyped /\ [Next]_vars => \A r \in records : StaysDue(r) => IsKept(r)
  <2> SUFFICES ASSUME FundingTyped, [Next]_vars, NEW r \in records, StaysDue(r)
               PROVE  IsKept(r)
    OBVIOUS
  <2>1. CASE SaveOf(TRUE) \/ SaveOf(FALSE)
    BY <2>1, KeptBySave
  <2>2. ASSUME NEW q \in records, NEW within \in BOOLEAN, EnterAmount(q, within)
        PROVE  IsKept(r)
    <3>1. PICK x \in RecordType :
            /\ records' = (records \ {q}) \cup {x}
            /\ x.partner = q.partner /\ x.year = q.year /\ x.active = q.active
            /\ q.amount => x.amount
      BY <2>2, EnteredMeans
    <3>2. CASE r = q
      BY <3>1, <3>2 DEF IsKept, StaysDue
    <3>3. CASE r # q
      BY <3>1, <3>3 DEF IsKept, StaysDue
    <3> QED BY <3>2, <3>3
  <2>3. CASE BudgetStatus \/ OpenRequest \/ UNCHANGED vars
    BY <2>3 DEF BudgetStatus, OpenRequest, vars, IsKept, StaysDue
  <2>4. CASE Approve \/ Reject
    <3>1. request.open /\ ~request'.open
      BY <2>4, RequestMeans DEF Approve, Reject
    <3> QED BY <3>1 DEF StaysDue
  <2> QED BY <2>1, <2>2, <2>3, <2>4, NextMeans
<1>2. Init => FundingTyped
  BY FundingTypedInit
<1>3. FundingTyped /\ [Next]_vars => FundingTyped'
  BY FundingTypedStep
<1>4. FundingTyped /\ [Next]_vars =>
        \A r \in records :
          (/\ r.active /\ r.amount
           /\ partnerships'[r.partner].state = "live"
           /\ ~partnerships'[r.partner].deleting
           /\ request' = request
           /\ r.year \in Due(r.partner, FALSE)')
            => \E x \in records' : x.active /\ x.amount /\ x.partner = r.partner
                                   /\ x.year = r.year
  BY <1>1 DEF StaysDue, IsKept
<1> QED BY <1>2, <1>3, <1>4, PTL DEF Spec, AmountsAreKept

(* Every variable has its type, and without an open request nothing is       *)
(* proposed, to be deleted or inactive.                                      *)
THEOREM TypeCorrect == Spec => []TypeOK
<1>1. Init => FundingTyped
  BY FundingTypedInit
<1>2. FundingTyped /\ [Next]_vars => FundingTyped'
  BY FundingTypedStep
<1>3. FundingTyped => TypeOK
  <2> SUFFICES ASSUME FundingTyped PROVE TypeOK
    OBVIOUS
  <2>1. /\ project.start \in Dates /\ project.end \in Dates
        /\ request.open \in BOOLEAN /\ request.applied \in BOOLEAN
    BY DEF FundingTyped, DatesType, Requests
  <2>2. ~request.open => /\ Proposed = {}
                         /\ \A p \in Partners : ~partnerships[p].deleting
                         /\ \A r \in records : r.active
    BY DEF FundingTyped, NothingOpen, Proposed
  <2> QED BY <2>1, <2>2 DEF FundingTyped, TypeOK
<1> QED BY <1>1, <1>2, <1>3, PTL DEF Spec
=============================================================================
