------------------------ MODULE DepartmentIdsProofs ------------------------
(* For any projects, savers, ranges and bounds: no two projects share a      *)
(* department id, a project that should have one has, and keeps it.          *)
EXTENDS DepartmentIds, TLAPS

(* What an open transaction has written is its own, and free besides, unless  *)
(* it wrote it where the constraint does not see it.                          *)
Writes(t) == tx[t].value \notin {KEEP, NONE} /\ tx[t].label
Reserved ==
  /\ \A t \in Savers : Writes(t) => tx[t].value \notin Constrained(Own(t))
  /\ \A s, t \in Savers :
       Writes(t) /\ Writes(s) /\ tx[s].value = tx[t].value => s = t
  /\ \A t \in Savers : Writes(t) => Open(t)

IInv == TypeOK /\ NoTwoShare /\ Reserved

---------------------------------------------------------------------------
LEMMA LabelsType ==
  ASSUME TypeOK, NEW t \in Savers
  PROVE  Labels(t) \subseteq BOOLEAN
BY DEF Labels, TypeOK, Transactions

LEMMA IdleType == Idle \in Transactions
BY BoundsAssumption, ValuesAssumption DEF Idle, Transactions

(* A transaction whose reading is out of date is the same otherwise.         *)
LEMMA OutdatedType ==
  ASSUME NEW x \in Transactions, NEW p
  PROVE  /\ Outdated(p, x) \in Transactions
         /\ Outdated(p, x).project = x.project /\ Outdated(p, x).phase = x.phase
         /\ Outdated(p, x).kind = x.kind /\ Outdated(p, x).saw = x.saw
         /\ Outdated(p, x).will = x.will /\ Outdated(p, x).value = x.value
         /\ Outdated(p, x).next = x.next /\ Outdated(p, x).label = x.label
         /\ Outdated(p, x).byHand = x.byHand
         /\ Outdated(p, x).fresh = (x.fresh /\ x.project # p)
<1> DEFINE fresh == x.fresh /\ x.project # p
<1>1. fresh \in BOOLEAN
  OBVIOUS
<1>2. Outdated(p, x) = [x EXCEPT !.fresh = fresh]
  BY DEF Outdated
<1> HIDE DEF fresh
<1>3. [x EXCEPT !.fresh = fresh] \in Transactions
  BY <1>1, SMTT(30) DEF Transactions
<1>4. [x EXCEPT !.fresh = fresh].fresh = fresh
  BY DEF Transactions
<1> QED BY <1>2, <1>3, <1>4, SMTT(30) DEF Transactions, fresh

(* Each step of an open transaction keeps the types.                         *)
LEMMA StepType ==
  ASSUME TypeOK, NEW t \in Savers, Step(t) \/ Fail(t)
  PROVE  TypeOK'
<1> USE IdleType DEF TypeOK, Unchanged, Own, Open
<1>t. tx[t] \in Transactions
  OBVIOUS
<1>1. ASSUME NEW x \in Transactions, tx' = [tx EXCEPT ![t] = x], Unchanged,
             x.phase # "idle" => x.project \in Projects
      PROVE  TypeOK'
  BY <1>1
<1>2. CASE Read(t)
  <2> DEFINE saw == IF InRequest(t) THEN asked[Own(t)] ELSE id[Own(t)]
             x == [tx[t] EXCEPT !.phase = "read", !.fresh = TRUE, !.saw = saw,
                                !.byHand = InRequest(t), !.will = due[Own(t)]]
  <2>0. saw \in Ids \cup {NONE} /\ InRequest(t) \in BOOLEAN
    BY <1>2 DEF Read, InRequest
  <2>1. x \in Transactions /\ x.project \in Projects
    BY <1>2, <2>0 DEF Read, Transactions
  <2>2. tx' = [tx EXCEPT ![t] = x]
    BY <1>2 DEF Read
  <2> QED BY <1>1, <1>2, <2>1, <2>2 DEF Read
<1>3. CASE WriteUpdate(t)
  <2> DEFINE x == [tx[t] EXCEPT !.phase = "saved"]
  <2>1. x \in Transactions /\ x.project \in Projects
    BY <1>3 DEF WriteUpdate, Transactions
  <2>2. tx' = [tx EXCEPT ![t] = x]
    BY <1>3 DEF WriteUpdate
  <2> QED BY <1>1, <1>3, <2>1, <2>2 DEF WriteUpdate
<1>4. ASSUME NEW v \in Ids \cup {NONE}, SetByHand(t, v)
      PROVE  TypeOK'
  <2>0. PICK label \in Labels(t) :
          tx' = [tx EXCEPT ![t] = [@ EXCEPT !.phase = "saved", !.saw = v, !.value = v,
                                            !.label = label, !.byHand = TRUE]]
    BY <1>4 DEF SetByHand
  <2> DEFINE x == [tx[t] EXCEPT !.phase = "saved", !.saw = v, !.value = v,
                                !.label = label, !.byHand = TRUE]
  <2>1. x \in Transactions /\ x.project \in Projects
    BY <1>4, LabelsType DEF SetByHand, Transactions
  <2>2. tx' = [tx EXCEPT ![t] = x]
    BY <2>0
  <2> QED BY <1>1, <1>4, <2>1, <2>2 DEF SetByHand
<1>4a. ASSUME NEW v \in Ids \cup {NONE}, Propose(t, v)
       PROVE  TypeOK'
  <2> DEFINE x == [tx[t] EXCEPT !.phase = "saved", !.saw = v, !.ask = v,
                                !.byHand = TRUE]
  <2>1. x \in Transactions /\ x.project \in Projects
    BY <1>4a DEF Propose, Transactions
  <2>2. tx' = [tx EXCEPT ![t] = x]
    BY <1>4a DEF Propose
  <2> QED BY <1>1, <1>4a, <2>1, <2>2 DEF Propose
<1>5. ASSUME NEW will \in BOOLEAN, WriteTransition(t, will)
      PROVE  TypeOK'
  <2> DEFINE x == [tx[t] EXCEPT !.phase = "saved", !.fresh = TRUE,
                                !.saw = id[Own(t)], !.will = will]
  <2>1. x \in Transactions /\ x.project \in Projects
    BY <1>5 DEF WriteTransition, Transactions
  <2>2. tx' = [tx EXCEPT ![t] = x]
    BY <1>5 DEF WriteTransition
  <2> QED BY <1>1, <1>5, <2>1, <2>2 DEF WriteTransition
<1>6. CASE Leave(t)
  <2> DEFINE x == [tx[t] EXCEPT !.phase = "done"]
  <2>1. x \in Transactions /\ x.project \in Projects
    BY <1>6 DEF Leave, Transactions
  <2>2. tx' = [tx EXCEPT ![t] = x]
    BY <1>6 DEF Leave
  <2> QED BY <1>1, <1>6, <2>1, <2>2 DEF Leave
<1>7. CASE ChooseNext(t)
  <2>1. PICK n \in Available(t) :
          tx' = [tx EXCEPT ![t].phase = "writing", ![t].next = Block(t)[n]]
    BY <1>7 DEF ChooseNext
  <2>2. Own(t) \in Projects
    BY <1>7 DEF ChooseNext
  <2>3. Block(t) \in Seq(Ids) /\ n \in DOMAIN Block(t)
    BY <2>2, AccountAssumption, BlocksAssumption DEF Block, Available
  <2>4. Block(t)[n] \in Ids
    BY <2>3
  <2> DEFINE x == [tx[t] EXCEPT !.phase = "writing", !.next = Block(t)[n]]
  <2>5. x \in Transactions /\ x.project \in Projects
    BY <2>2, <2>4 DEF Transactions
  <2>6. tx' = [tx EXCEPT ![t] = x]
    BY <2>1
  <2> QED BY <1>1, <1>7, <2>5, <2>6 DEF ChooseNext
<1>8. CASE WriteId(t)
  <2>0. PICK label \in Labels(t) :
          tx' = [tx EXCEPT ![t].phase = "done", ![t].value = tx[t].next,
                           ![t].label = label]
    BY <1>8 DEF WriteId
  <2> DEFINE x == [tx[t] EXCEPT !.phase = "done", !.value = tx[t].next,
                                !.label = label]
  <2>1. x \in Transactions /\ x.project \in Projects
    BY <1>8, LabelsType DEF WriteId, Transactions
  <2>2. tx' = [tx EXCEPT ![t] = x]
    BY <2>0
  <2> QED BY <1>1, <1>8, <2>1, <2>2 DEF WriteId
<1>9. CASE Conflict(t)
  <2>1. Own(t) \in Projects
    BY <1>9 DEF Conflict
  <2>2. Retried(t) \in Transactions
    <3>1. CASE tx[t].runs < MaxRuns
      <4>1. tx[t].runs + 1 \in 0 .. MaxRuns
        BY <3>1, BoundsAssumption DEF Transactions
      <4> QED BY <3>1, <4>1, <2>1 DEF Retried, Transactions, Idle
    <3>2. CASE ~(tx[t].runs < MaxRuns)
      BY <3>2 DEF Retried
    <3> QED BY <3>1, <3>2
  <2>3. Retried(t).phase # "idle" => Retried(t).project \in Projects
    BY <2>1 DEF Retried, Idle
  <2> QED BY <1>1, <1>9, <2>2, <2>3 DEF Conflict
<1>10. CASE Refuse(t) \/ Fail(t)
  BY <1>1, <1>10 DEF Refuse, Fail, RolledBack, Idle
<1>11. CASE Commit(t)
  <2>1. Own(t) \in Projects
    BY <1>11 DEF Commit
  <2>2. tx' = [s \in Savers |-> IF s = t THEN Idle ELSE Outdated(Own(t), tx[s])]
    BY <1>11 DEF Commit
  <2>3. /\ tx' \in [Savers -> Transactions]
        /\ \A s \in Savers : tx'[s].phase # "idle" => tx'[s].project \in Projects
    BY <2>1, <2>2, OutdatedType DEF Idle
  <2>4. id' \in [Projects -> Ids \cup {NONE}] /\ asked' \in [Projects -> Ids \cup {NONE, KEEP}]
    BY <1>11, <2>1 DEF Commit, Transactions
  <2>5. due' \in [Projects -> BOOLEAN]
    BY <1>11, <2>1 DEF Commit, Transactions
  <2>6. hand' \subseteq Projects /\ stale' \subseteq Projects /\ unlabelled' \subseteq Projects
    BY <1>11, <2>1 DEF Commit
  <2> QED BY <2>3, <2>4, <2>5, <2>6, <1>11 DEF Commit
<1> QED BY <1>2, <1>3, <1>4, <1>4a, <1>5, <1>6, <1>7, <1>8, <1>9, <1>10, <1>11 DEF Step

LEMMA TypeStep ==
  ASSUME TypeOK, [Next]_vars
  PROVE  TypeOK'
<1> USE DEF TypeOK
<1>1. ASSUME NEW t \in Savers, NEW p \in Projects,
             NEW k \in {"update", "request", "transition"}, Start(t, p, k)
      PROVE  TypeOK'
  <2> DEFINE x == [Idle EXCEPT !.phase = "begun", !.project = p, !.kind = k,
                               !.runs = 1]
  <2>0. Idle \in Transactions /\ 1 \in 0 .. MaxRuns
    BY IdleType, BoundsAssumption
  <2>1. x \in Transactions /\ x.project = p
    BY <2>0 DEF Transactions
  <2>2. tx' = [tx EXCEPT ![t] = x]
    BY <1>1 DEF Start
  <2>3. saves' \in 0 .. MaxSaves
    BY <1>1, BoundsAssumption DEF Start
  <2> QED BY <1>1, <2>1, <2>2, <2>3 DEF Start, Own, Open
<1>2. ASSUME NEW t \in Savers, Step(t) \/ Fail(t)
      PROVE  TypeOK'
  BY <1>2, StepType
<1>3. ASSUME NEW p \in Projects, DeleteProject(p)
      PROVE  TypeOK'
  BY <1>3 DEF DeleteProject, Own, Open
<1>3a. ASSUME NEW p \in Projects, Approve(p)
       PROVE  TypeOK'
  <2>1. tx' = [t \in Savers |-> Outdated(p, tx[t])]
    BY <1>3a DEF Approve
  <2>2. /\ tx' \in [Savers -> Transactions]
        /\ \A t \in Savers : tx'[t].phase # "idle" => tx'[t].project \in Projects
    BY <2>1, OutdatedType DEF Own, Open
  <2> QED BY <1>3a, <2>2 DEF Approve, Own, Open
<1>3b. ASSUME NEW p \in Projects, Drop(p)
       PROVE  TypeOK'
  BY <1>3b DEF Drop, Own, Open
<1>4. ASSUME NEW a \in Accounts, NEW b \in Blocks, ChangeBlock(a, b)
      PROVE  TypeOK'
  BY <1>4, BoundsAssumption DEF ChangeBlock, Own, Open
<1>5. CASE UNCHANGED vars
  BY <1>5 DEF vars, Own, Open
<1> QED BY <1>1, <1>2, <1>3, <1>3a, <1>3b, <1>4, <1>5 DEF Next, Rest

---------------------------------------------------------------------------
(* A write of a value that nobody holds and no other project has, or which    *)
(* the constraint does not see.                                               *)
LEMMA WriteReserves ==
  ASSUME IInv, NEW t \in Savers, NEW x \in Transactions,
         tx' = [tx EXCEPT ![t] = x], Unchanged,
         x.project = Own(t), x.phase # "idle",
         x.label => x.value \notin Held(t) \cup Constrained(Own(t))
  PROVE  Reserved' /\ NoTwoShare'
<1> USE DEF IInv, TypeOK, Reserved, Writes, Own, Open
<1>1. NoTwoShare' /\ \A p : Constrained(p)' = Constrained(p)
  BY DEF Unchanged, NoTwoShare, Constrained
<1>2. ASSUME NEW s \in Savers \ {t}, Writes(s), x.label
      PROVE  tx[s].value # x.value
  <2>1. s \in {r \in Savers \ {t} : Open(r) /\ tx[r].value # KEEP}
    BY <1>2
  <2>2. tx[s].label /\ tx[s].value # NONE
    BY <1>2
  <2>3. tx[s].value \in Held(t)
    BY <2>1, <2>2 DEF Held
  <2> QED BY <2>3, <1>2
<1>3. \A s \in Savers \ {t} : tx'[s] = tx[s]
  OBVIOUS
<1>4. tx'[t] = x
  OBVIOUS
<1>5. ASSUME NEW r \in Savers, Writes(r)'
      PROVE  Open(r)' /\ tx'[r].value \notin Constrained(Own(r))'
  BY <1>1, <1>3, <1>4, <1>5
<1>6. ASSUME NEW r \in Savers, NEW s \in Savers, Writes(r)', Writes(s)',
             tx'[s].value = tx'[r].value
      PROVE  s = r
  BY <1>2, <1>3, <1>4, <1>6
<1> QED BY <1>1, <1>5, <1>6

(* A step that writes no id keeps what is reserved.                          *)
LEMMA KeepsReserved ==
  ASSUME IInv, NEW t \in Savers, NEW x \in Transactions,
         tx' = [tx EXCEPT ![t] = x], UNCHANGED <<live, id, unlabelled>>,
         \/ x.value = KEEP
         \/ /\ x.value = tx[t].value /\ x.label = tx[t].label
            /\ x.project = Own(t) /\ x.phase # "idle"
  PROVE  Reserved' /\ NoTwoShare'
<1> USE DEF IInv, TypeOK, Reserved, Writes, Own, Open
<1>1. NoTwoShare' /\ \A p : Constrained(p)' = Constrained(p)
  BY DEF NoTwoShare, Constrained
<1>2. \A s \in Savers \ {t} : tx'[s] = tx[s]
  OBVIOUS
<1>3. tx'[t] = x
  OBVIOUS
<1> QED BY <1>1, <1>2, <1>3

(* What is committed is what was reserved.                                   *)
LEMMA CommitShares ==
  ASSUME IInv, NEW t \in Savers, Commit(t)
  PROVE  Reserved' /\ NoTwoShare'
<1> USE DEF IInv, TypeOK, Own, Open
<1> DEFINE p == Own(t)
           v == tx[t].value
           label == tx[t].label
<1>1. p \in Projects /\ live' = live
  BY DEF Commit
<1>2. \A q \in Projects : id'[q] = IF q = p /\ v # KEEP THEN v ELSE id[q]
  BY <1>1 DEF Commit
<1>a. /\ v = KEEP => unlabelled' = unlabelled
      /\ v # KEEP /\ label => unlabelled' = unlabelled \ {p}
      /\ v # KEEP /\ ~label => unlabelled' = unlabelled \cup {p}
  BY DEF Commit
<1>3. Writes(t) => \A q \in live \ ({p} \cup unlabelled) : id[q] # v
  BY DEF Reserved, Writes, Constrained
<1>4. NoTwoShare'
  <2> SUFFICES ASSUME NEW q \in live \ unlabelled', NEW r \in live \ unlabelled',
                      id'[q] # NONE, id'[q] = id'[r]
               PROVE  q = r
    BY <1>1 DEF NoTwoShare
  <2>1. CASE v = KEEP
    BY <1>1, <1>2, <1>a, <2>1 DEF NoTwoShare
  <2>2. CASE v # KEEP /\ label
    BY <1>1, <1>2, <1>3, <1>a, <2>2 DEF NoTwoShare, Writes
  <2>3. CASE v # KEEP /\ ~label
    BY <1>1, <1>2, <1>a, <2>3 DEF NoTwoShare
  <2> QED BY <2>1, <2>2, <2>3
<1>5. ASSUME NEW s \in Savers \ {t}
      PROVE  /\ tx'[s].value = tx[s].value /\ tx'[s].project = tx[s].project
             /\ tx'[s].phase = tx[s].phase /\ tx'[s].label = tx[s].label
  <2>1. tx'[s] = Outdated(p, tx[s])
    BY DEF Commit
  <2> QED BY <2>1, OutdatedType
<1>6. tx'[t] = Idle
  BY DEF Commit
<1>7. ~Writes(t)'
  BY <1>6 DEF Writes, Idle
<1>8. ASSUME NEW s \in Savers \ {t}, Writes(s)
      PROVE  tx[s].value \notin Constrained(Own(s))'
  <2>1. tx[s].value \notin Constrained(Own(s))
    BY <1>8 DEF Reserved
  <2>2. Writes(t) => v # tx[s].value
    BY <1>8 DEF Reserved
  <2>3. Own(s)' = Own(s)
    BY <1>5
  <2>4. ASSUME NEW q \in live' \ ({Own(s)} \cup unlabelled'), id'[q] # NONE
        PROVE  id'[q] # tx[s].value
    <3>1. CASE v = KEEP
      BY <1>1, <1>2, <1>a, <2>1, <2>4, <3>1 DEF Constrained
    <3>2. CASE v # KEEP /\ label
      BY <1>1, <1>2, <1>a, <2>1, <2>2, <2>4, <3>2 DEF Constrained, Writes
    <3>3. CASE v # KEEP /\ ~label
      BY <1>1, <1>2, <1>a, <2>1, <2>4, <3>3 DEF Constrained
    <3> QED BY <3>1, <3>2, <3>3
  <2> QED BY <2>3, <2>4, <1>8 DEF Constrained, Writes
<1>9. \A s \in Savers \ {t} : Writes(s)' <=> Writes(s)
  BY <1>5 DEF Writes
<1>10. \A s \in Savers : Writes(s)' =>
         s # t /\ Writes(s) /\ tx'[s].value \notin Constrained(Own(s))' /\ Open(s)'
  BY <1>5, <1>7, <1>8, <1>9 DEF Reserved
<1>11. ASSUME NEW s \in Savers, NEW r \in Savers, Writes(r)', Writes(s)',
              tx'[s].value = tx'[r].value
       PROVE  s = r
  <2>1. r # t /\ Writes(r) /\ s # t /\ Writes(s)
    BY <1>10, <1>11
  <2> QED BY <2>1, <1>5, <1>11 DEF Reserved
<1> QED BY <1>4, <1>10, <1>11 DEF Reserved

(* What is approved is not constrained.                                       *)
LEMMA ApproveShares ==
  ASSUME IInv, NEW p \in Projects, Approve(p)
  PROVE  Reserved' /\ NoTwoShare'
<1> USE DEF IInv, TypeOK, Own, Open
<1>1. /\ live' = live /\ unlabelled' = unlabelled \cup {p}
      /\ \A q \in Projects \ {p} : id'[q] = id[q]
  BY DEF Approve
<1>2. NoTwoShare'
  BY <1>1 DEF NoTwoShare
<1>3. ASSUME NEW q
      PROVE  Constrained(q)' \subseteq Constrained(q)
  BY <1>1 DEF Constrained
<1>4. ASSUME NEW s \in Savers
      PROVE  /\ tx'[s].value = tx[s].value /\ tx'[s].project = tx[s].project
             /\ tx'[s].phase = tx[s].phase /\ tx'[s].label = tx[s].label
  <2>1. tx'[s] = Outdated(p, tx[s])
    BY DEF Approve
  <2> QED BY <2>1, OutdatedType
<1>5. \A s \in Savers : Writes(s)' <=> Writes(s)
  BY <1>4 DEF Writes
<1>6. ASSUME NEW s \in Savers, Writes(s)'
      PROVE  tx'[s].value \notin Constrained(Own(s))' /\ Open(s)'
  BY <1>3, <1>4, <1>5, <1>6 DEF Reserved
<1>7. ASSUME NEW s \in Savers, NEW r \in Savers, Writes(r)', Writes(s)',
             tx'[s].value = tx'[r].value
      PROVE  s = r
  BY <1>4, <1>5, <1>7 DEF Reserved
<1> QED BY <1>2, <1>6, <1>7 DEF Reserved

LEMMA StepReserved ==
  ASSUME IInv, NEW t \in Savers, Step(t) \/ Fail(t)
  PROVE  Reserved' /\ NoTwoShare'
<1> USE IdleType DEF IInv, TypeOK, Own, Open
<1>t. tx[t] \in Transactions
  OBVIOUS
<1>y. TypeOK'
  BY StepType
<1>x. tx'[t] \in Transactions
  BY <1>y
<1>1. ASSUME Unchanged, tx' = [tx EXCEPT ![t] = tx'[t]],
             \/ tx'[t].value = KEEP
             \/ /\ tx'[t].value = tx[t].value /\ tx'[t].project = tx[t].project
                /\ tx'[t].label = tx[t].label /\ tx'[t].phase # "idle"
      PROVE  Reserved' /\ NoTwoShare'
  BY <1>1, <1>x, KeepsReserved DEF Unchanged
<1>2. CASE Read(t) \/ WriteUpdate(t) \/ (\E w \in BOOLEAN : WriteTransition(t, w))
             \/ (\E v \in Ids \cup {NONE} : Propose(t, v)) \/ Leave(t) \/ ChooseNext(t)
  <2>1. tx' = [tx EXCEPT ![t] = tx'[t]] /\ Unchanged
    BY <1>2 DEF Read, WriteUpdate, Propose, WriteTransition, Leave, ChooseNext
  <2>2. /\ tx'[t].value = tx[t].value /\ tx'[t].project = tx[t].project
        /\ tx'[t].label = tx[t].label /\ tx'[t].phase # "idle"
    <3>1. CASE Read(t)
      BY <1>t, <3>1 DEF Read, Transactions
    <3>2. CASE WriteUpdate(t) \/ Leave(t) \/ ChooseNext(t)
      BY <1>t, <3>2 DEF WriteUpdate, Leave, ChooseNext, Transactions
    <3>3. CASE \E w \in BOOLEAN : WriteTransition(t, w)
      BY <1>t, <3>3 DEF WriteTransition, Transactions
    <3>4. CASE \E v \in Ids \cup {NONE} : Propose(t, v)
      BY <1>t, <3>4 DEF Propose, Transactions
    <3> QED BY <1>2, <3>1, <3>2, <3>3, <3>4
  <2> QED BY <1>1, <2>1, <2>2
<1>3. ASSUME NEW v \in Ids \cup {NONE}, SetByHand(t, v)
      PROVE  Reserved' /\ NoTwoShare'
  <2>1. Unchanged
    BY <1>3 DEF SetByHand
  <2>2. PICK label \in Labels(t) :
          /\ label => v \notin Held(t) \cup Constrained(Own(t))
          /\ tx' = [tx EXCEPT ![t] = [@ EXCEPT !.phase = "saved", !.saw = v, !.value = v,
                                              !.label = label, !.byHand = TRUE]]
    BY <1>3 DEF SetByHand
  <2>3. tx' = [tx EXCEPT ![t] = tx'[t]]
    BY <2>2
  <2>4. /\ tx'[t].value = v /\ tx'[t].project = Own(t) /\ tx'[t].phase # "idle"
        /\ tx'[t].label = label
    BY <2>2, <1>t DEF Transactions
  <2>5. tx'[t].label => tx'[t].value \notin Held(t) \cup Constrained(Own(t))
    BY <2>2, <2>4
  <2> QED BY <1>x, <2>1, <2>3, <2>4, <2>5, WriteReserves
<1>4. CASE WriteId(t)
  <2>1. Unchanged
    BY <1>4 DEF WriteId
  <2>2. PICK label \in Labels(t) :
          /\ label => tx[t].next \notin Held(t) \cup Constrained(Own(t))
          /\ tx' = [tx EXCEPT ![t].phase = "done", ![t].value = tx[t].next,
                              ![t].label = label]
    BY <1>4 DEF WriteId
  <2>3. tx' = [tx EXCEPT ![t] = tx'[t]]
    BY <2>2
  <2>4. /\ tx'[t].value = tx[t].next /\ tx'[t].project = Own(t)
        /\ tx'[t].phase # "idle" /\ tx'[t].label = label
    BY <2>2, <1>t DEF Transactions
  <2>5. tx'[t].label => tx'[t].value \notin Held(t) \cup Constrained(Own(t))
    BY <2>2, <2>4
  <2> QED BY <1>x, <2>1, <2>3, <2>4, <2>5, WriteReserves
<1>5. CASE Conflict(t) \/ Refuse(t) \/ Fail(t)
  <2>1. tx' = [tx EXCEPT ![t] = tx'[t]] /\ Unchanged
    BY <1>5 DEF Conflict, Refuse, Fail, RolledBack
  <2>2. tx'[t] \in {Retried(t), Idle}
    BY <1>5 DEF Conflict, Refuse, Fail, RolledBack
  <2>3. Retried(t).value = KEEP /\ Idle.value = KEEP
    BY DEF Retried, Idle
  <2>4. tx'[t].value = KEEP
    BY <2>2, <2>3
  <2> QED BY <1>1, <2>1, <2>4
<1>6. CASE Commit(t)
  BY <1>6, CommitShares
<1> QED BY <1>2, <1>3, <1>4, <1>5, <1>6 DEF Step

---------------------------------------------------------------------------
LEMMA Initially == Init => IInv
<1> SUFFICES ASSUME Init PROVE IInv
  OBVIOUS
<1>1. \A t \in Savers : tx[t] = Idle /\ Idle.value = KEEP /\ Idle.phase = "idle"
  BY DEF Init, Idle
<1>2. TypeOK
  BY <1>1, IdleType, BlocksAssumption, BoundsAssumption DEF Init, TypeOK, Open
<1>3. NoTwoShare /\ Reserved
  BY <1>1 DEF Init, NoTwoShare, Reserved, Writes
<1> QED BY <1>2, <1>3 DEF IInv

LEMMA Stepwise == IInv /\ [Next]_vars => IInv'
<1> SUFFICES ASSUME IInv, [Next]_vars
             PROVE  IInv'
  OBVIOUS
<1>t. TypeOK'
  BY TypeStep DEF IInv
<1>1. ASSUME NEW t \in Savers, NEW p \in Projects,
             NEW k \in {"update", "request", "transition"}, Start(t, p, k)
      PROVE  Reserved' /\ NoTwoShare'
  <2>1. tx'[t] \in Transactions
    BY <1>t DEF TypeOK
  <2>2. tx' = [tx EXCEPT ![t] = tx'[t]] /\ UNCHANGED <<live, id, unlabelled>>
    BY <1>1 DEF Start, IInv, TypeOK
  <2>3. tx'[t].value = KEEP
    BY <1>1 DEF Start, Idle, IInv, TypeOK
  <2> QED BY <2>1, <2>2, <2>3, KeepsReserved
<1>2. ASSUME NEW t \in Savers, Step(t) \/ Fail(t)
      PROVE  Reserved' /\ NoTwoShare'
  BY <1>2, StepReserved
<1>3. ASSUME NEW p \in Projects, DeleteProject(p)
      PROVE  Reserved' /\ NoTwoShare'
  <2>1. NoTwoShare'
    BY <1>3 DEF DeleteProject, NoTwoShare, IInv, TypeOK
  <2>2. \A q : Constrained(q)' \subseteq Constrained(q)
    BY <1>3 DEF DeleteProject, Constrained, IInv, TypeOK
  <2> QED BY <1>3, <2>1, <2>2 DEF DeleteProject, Reserved, Writes, Own, Open, IInv
<1>4. ASSUME UNCHANGED <<live, id, unlabelled, tx>>
      PROVE  Reserved' /\ NoTwoShare'
  BY <1>4 DEF IInv, NoTwoShare, Reserved, Writes, Own, Open, Constrained
<1>5. ASSUME NEW a \in Accounts, NEW b \in Blocks, ChangeBlock(a, b)
      PROVE  Reserved' /\ NoTwoShare'
  BY <1>4, <1>5 DEF ChangeBlock, IInv
<1>3a. ASSUME NEW p \in Projects, Approve(p)
       PROVE  Reserved' /\ NoTwoShare'
  BY <1>3a, ApproveShares
<1>5a. ASSUME NEW p \in Projects, Drop(p)
       PROVE  Reserved' /\ NoTwoShare'
  BY <1>4, <1>5a DEF Drop, IInv
<1>6. Reserved' /\ NoTwoShare'
  BY <1>1, <1>2, <1>3, <1>3a, <1>4, <1>5, <1>5a DEF Next, Rest, vars, IInv
<1> QED BY <1>t, <1>6 DEF IInv

(* Every reachable state of projects, accounts and transactions is typed.    *)
THEOREM TypeCorrect == Spec => []TypeOK
<1>1. IInv => TypeOK
  BY DEF IInv
<1> QED BY Initially, Stepwise, <1>1, PTL DEF Spec

(* However many transactions choose the first free id at once, whatever is   *)
(* set by hand, in requests too, deleted or moved meanwhile, no two projects *)
(* have one id, of those whose ids carry the label of the constraint.        *)
THEOREM IdsAreUnique == Spec => []NoTwoShare
<1>1. IInv => NoTwoShare
  BY DEF IInv
<1> QED BY Initially, Stepwise, <1>1, PTL DEF Spec
---------------------------------------------------------------------------
(* What a transaction knows of its project, and what it will leave.          *)

(* A save within a request writes nothing of its own to the project.          *)
Set(x) == IF x.byHand /\ x.kind = "update" THEN x.saw ELSE KEEP

(* The hook assigns an id where none was seen, and only that sets one besides *)
(* the user; it leaves the project alone only if that has one or needs none.  *)
Consistent(x) ==
  /\ x.phase \in {"idle", "begun", "read"} =>
       x.value = KEEP /\ (x.byHand => x.kind = "request")
  /\ x.kind = "transition" => ~x.byHand
  /\ x.phase \in {"saved", "writing"} => x.value = Set(x)
  /\ x.phase = "writing" => x.saw = NONE /\ x.next \in Ids
  /\ x.phase = "done" =>
       \/ x.value \in Ids /\ x.saw = NONE
       \/ x.value = Set(x) /\ (x.saw # NONE \/ ~x.will)

(* As long as nobody else commits the project, what was read of it is true.   *)
Current(x, theId, isDue) ==
  x.phase \in {"read", "saved", "writing", "done"} /\ x.fresh =>
    /\ x.kind # "transition" => x.will = isDue
    /\ ~x.byHand => x.saw = theId

KnowsItsProject ==
  \A t \in Savers :
    /\ Consistent(tx[t])
    /\ Own(t) \in live => Current(tx[t], id[Own(t)], due[Own(t)])

LEMMA TransactionKnows ==
  ASSUME TypeOK, KnowsItsProject, NEW t \in Savers, NEW x,
         tx' = [tx EXCEPT ![t] = x], UNCHANGED <<live, id, due>>, Consistent(x),
         x.project \in live => Current(x, id[x.project], due[x.project])
  PROVE  KnowsItsProject'
<1>1. ASSUME NEW s \in Savers
      PROVE  /\ Consistent(tx'[s])
             /\ tx'[s].project \in live =>
                  Current(tx'[s], id[tx'[s].project], due[tx'[s].project])
  BY DEF KnowsItsProject, Own, TypeOK
<1>2. ASSUME NEW s \in Savers PROVE Consistent(tx[s])'
  BY <1>1 DEF Consistent, Set
<1>3. ASSUME NEW s \in Savers PROVE (Own(s) \in live => Current(tx[s], id[Own(s)], due[Own(s)]))'
  BY <1>1 DEF Current, Own
<1> QED BY <1>2, <1>3 DEF KnowsItsProject

(* The steps of an open transaction before its end.                           *)
LEMMA StepKnows ==
  ASSUME TypeOK, KnowsItsProject, NEW t \in Savers, Step(t) \/ Fail(t), ~Commit(t)
  PROVE  KnowsItsProject'
<1> DEFINE x == tx[t]
           p == Own(t)
<1>0. /\ x \in Transactions /\ Consistent(x) /\ x.project = p
      /\ p \in live => Current(x, id[p], due[p])
      /\ Open(t) => p \in Projects
  BY DEF TypeOK, KnowsItsProject, Own
<1>a. ASSUME NEW y, tx' = [tx EXCEPT ![t] = y], Unchanged, Consistent(y), y.project = p,
             p \in live => Current(y, id[p], due[p])
      PROVE  KnowsItsProject'
  BY <1>a, TransactionKnows DEF Unchanged
<1>b. Consistent(Idle) /\ \A i, d : Current(Idle, i, d)
  BY DEF Consistent, Current, Idle
<1>c. ASSUME tx' = [tx EXCEPT ![t] = Idle], Unchanged
      PROVE  KnowsItsProject'
  BY <1>b, <1>c, TransactionKnows DEF Unchanged
<1>1. CASE Read(t)
  <2> DEFINE saw == IF InRequest(t) THEN asked[p] ELSE id[p]
             y == [x EXCEPT !.phase = "read", !.fresh = TRUE, !.saw = saw,
                            !.byHand = InRequest(t), !.will = due[p]]
  <2>1. /\ tx' = [tx EXCEPT ![t] = y] /\ Unchanged /\ x.phase = "begun"
        /\ InRequest(t) => x.kind = "request"
    BY <1>1 DEF Read, InRequest
  <2>2. Consistent(y) /\ y.project = p
    BY <1>0, <2>1 DEF Consistent, Transactions
  <2>3. Current(y, id[p], due[p])
    BY <1>0 DEF Current, Transactions
  <2> QED BY <1>a, <2>1, <2>2, <2>3
<1>2. CASE WriteUpdate(t)
  <2> DEFINE y == [x EXCEPT !.phase = "saved"]
  <2>1. tx' = [tx EXCEPT ![t] = y] /\ Unchanged /\ x.phase = "read"
    BY <1>2 DEF WriteUpdate
  <2>2. Consistent(y) /\ y.project = p
    BY <1>0, <2>1 DEF Consistent, Set, Transactions
  <2>3. p \in live => Current(y, id[p], due[p])
    BY <1>0, <2>1 DEF Current, Transactions
  <2> QED BY <1>a, <2>1, <2>2, <2>3
<1>3. ASSUME NEW v \in Ids \cup {NONE}, SetByHand(t, v)
      PROVE  KnowsItsProject'
  <2>0. PICK label \in Labels(t) :
          tx' = [tx EXCEPT ![t] = [@ EXCEPT !.phase = "saved", !.saw = v, !.value = v,
                                            !.label = label, !.byHand = TRUE]]
    BY <1>3 DEF SetByHand
  <2> DEFINE y == [x EXCEPT !.phase = "saved", !.saw = v, !.value = v,
                            !.label = label, !.byHand = TRUE]
  <2>1. /\ tx' = [tx EXCEPT ![t] = y] /\ Unchanged /\ x.phase = "read"
        /\ x.kind = "update"
    BY <1>3, <2>0 DEF SetByHand
  <2>2. Consistent(y) /\ y.project = p
    BY <1>0, <2>1 DEF Consistent, Set, Transactions
  <2>3. p \in live => Current(y, id[p], due[p])
    BY <1>0, <2>1 DEF Current, Transactions
  <2> QED BY <1>a, <2>1, <2>2, <2>3
<1>3a. ASSUME NEW v \in Ids \cup {NONE}, Propose(t, v)
       PROVE  KnowsItsProject'
  <2> DEFINE y == [x EXCEPT !.phase = "saved", !.saw = v, !.ask = v, !.byHand = TRUE]
  <2>1. /\ tx' = [tx EXCEPT ![t] = y] /\ Unchanged /\ x.phase = "read"
        /\ x.kind = "request"
    BY <1>3a DEF Propose
  <2>2. Consistent(y) /\ y.project = p
    BY <1>0, <2>1 DEF Consistent, Set, Transactions
  <2>3. p \in live => Current(y, id[p], due[p])
    BY <1>0, <2>1 DEF Current, Transactions
  <2> QED BY <1>a, <2>1, <2>2, <2>3
<1>4. ASSUME NEW will \in BOOLEAN, WriteTransition(t, will)
      PROVE  KnowsItsProject'
  <2> DEFINE y == [x EXCEPT !.phase = "saved", !.fresh = TRUE,
                            !.saw = id[p], !.will = will]
  <2>1. /\ tx' = [tx EXCEPT ![t] = y] /\ Unchanged /\ x.phase = "read"
        /\ x.kind = "transition"
    BY <1>4 DEF WriteTransition
  <2>2. Consistent(y) /\ y.project = p
    BY <1>0, <2>1 DEF Consistent, Set, Transactions
  <2>3. Current(y, id[p], due[p])
    BY <1>0, <2>1 DEF Current, Transactions
  <2> QED BY <1>a, <2>1, <2>2, <2>3
<1>5. CASE Leave(t)
  <2> DEFINE y == [x EXCEPT !.phase = "done"]
  <2>1. /\ tx' = [tx EXCEPT ![t] = y] /\ Unchanged /\ x.phase = "saved"
        /\ x.saw # NONE \/ ~x.will
    BY <1>5 DEF Leave, ShouldSetDepartmentId
  <2>2. Consistent(y) /\ y.project = p
    BY <1>0, <2>1 DEF Consistent, Set, Transactions
  <2>3. p \in live => Current(y, id[p], due[p])
    BY <1>0, <2>1 DEF Current, Transactions
  <2> QED BY <1>a, <2>1, <2>2, <2>3
<1>6. CASE ChooseNext(t)
  <2>1. PICK n \in Available(t) :
          tx' = [tx EXCEPT ![t].phase = "writing", ![t].next = Block(t)[n]]
    BY <1>6 DEF ChooseNext
  <2>2. x.phase = "saved" /\ x.saw = NONE /\ Unchanged
    BY <1>6 DEF ChooseNext, ShouldSetDepartmentId
  <2>3. Block(t) \in Seq(Ids) /\ n \in DOMAIN Block(t)
    BY <1>0, <2>2, AccountAssumption, BlocksAssumption DEF Block, Available, TypeOK, Open
  <2>4. Block(t)[n] \in Ids
    BY <2>3
  <2> DEFINE y == [x EXCEPT !.phase = "writing", !.next = Block(t)[n]]
  <2>5. tx' = [tx EXCEPT ![t] = y]
    BY <2>1
  <2>6. Consistent(y) /\ y.project = p
    BY <1>0, <2>2, <2>4 DEF Consistent, Set, Transactions
  <2>7. p \in live => Current(y, id[p], due[p])
    BY <1>0, <2>2 DEF Current, Transactions
  <2> QED BY <1>a, <2>2, <2>5, <2>6, <2>7
<1>7. CASE WriteId(t)
  <2>0. PICK label \in Labels(t) :
          tx' = [tx EXCEPT ![t].phase = "done", ![t].value = tx[t].next,
                           ![t].label = label]
    BY <1>7 DEF WriteId
  <2> DEFINE y == [x EXCEPT !.phase = "done", !.value = x.next, !.label = label]
  <2>1. tx' = [tx EXCEPT ![t] = y] /\ Unchanged /\ x.phase = "writing"
    BY <1>7, <2>0 DEF WriteId
  <2>2. Consistent(y) /\ y.project = p
    BY <1>0, <2>1 DEF Consistent, Transactions
  <2>3. p \in live => Current(y, id[p], due[p])
    BY <1>0, <2>1 DEF Current, Transactions
  <2> QED BY <1>a, <2>1, <2>2, <2>3
<1>8. CASE Conflict(t)
  <2>1. tx' = [tx EXCEPT ![t] = Retried(t)] /\ Unchanged
    BY <1>8 DEF Conflict
  <2>2. CASE Retried(t) = Idle
    BY <1>c, <2>1, <2>2
  <2>3. CASE Retried(t) # Idle
    <3>1. /\ Retried(t).phase = "begun" /\ Retried(t).project = p
          /\ Retried(t).value = KEEP /\ ~Retried(t).byHand
      BY <2>3 DEF Retried, Idle
    <3>2. Consistent(Retried(t)) /\ Current(Retried(t), id[p], due[p])
      BY <3>1 DEF Consistent, Current
    <3> QED BY <1>a, <2>1, <3>1, <3>2
  <2> QED BY <2>2, <2>3
<1>9. CASE Refuse(t) \/ Fail(t)
  BY <1>9, <1>c DEF Refuse, Fail, RolledBack
<1> QED BY <1>1, <1>2, <1>3, <1>3a, <1>4, <1>5, <1>6, <1>7, <1>8, <1>9 DEF Step

(* What becomes of what others know when a project is given another id, or   *)
(* asks for one.                                                             *)
LEMMA OthersKnow ==
  ASSUME TypeOK, KnowsItsProject, NEW p, NEW s \in Savers, UNCHANGED live,
         \A q \in Projects \ {p} : id'[q] = id[q] /\ due'[q] = due[q],
         tx'[s] = Outdated(p, tx[s])
  PROVE  /\ Consistent(tx'[s])
         /\ tx'[s].project \in live =>
              Current(tx'[s], id'[tx'[s].project], due'[tx'[s].project])
<1>1. /\ tx[s] \in Transactions /\ Consistent(tx[s]) /\ tx[s].project = Own(s)
      /\ Own(s) \in live => Current(tx[s], id[Own(s)], due[Own(s)])
      /\ tx[s].phase # "idle" => Own(s) \in Projects
  BY DEF TypeOK, KnowsItsProject, Open, Own
<1>2. /\ tx'[s].project = Own(s) /\ tx'[s].phase = tx[s].phase
      /\ tx'[s].kind = tx[s].kind /\ tx'[s].saw = tx[s].saw
      /\ tx'[s].will = tx[s].will /\ tx'[s].value = tx[s].value
      /\ tx'[s].next = tx[s].next /\ tx'[s].byHand = tx[s].byHand
      /\ tx'[s].fresh = (tx[s].fresh /\ Own(s) # p)
  BY <1>1, OutdatedType
<1>3. Consistent(tx'[s])
  BY <1>1, <1>2 DEF Consistent, Set
<1>4. Own(s) \in live => Current(tx'[s], id'[Own(s)], due'[Own(s)])
  BY <1>1, <1>2 DEF Current, TypeOK
<1> QED BY <1>2, <1>3, <1>4

(* The three facts of each transaction, put together.                        *)
LEMMA AllKnow ==
  ASSUME UNCHANGED live,
         \A s \in Savers :
           /\ Consistent(tx'[s])
           /\ tx'[s].project \in live =>
                Current(tx'[s], id'[tx'[s].project], due'[tx'[s].project])
  PROVE  KnowsItsProject'
<1>1. ASSUME NEW s \in Savers PROVE Consistent(tx[s])'
  BY DEF Consistent, Set
<1>2. ASSUME NEW s \in Savers
      PROVE  (Own(s) \in live => Current(tx[s], id[Own(s)], due[Own(s)]))'
  BY DEF Current, Own
<1> QED BY <1>1, <1>2 DEF KnowsItsProject

(* What one step makes of a project.                                          *)
KeepsId(p) ==
  p \in live' \ stale' =>
    /\ p \in unlabelled \/ (due[p] => id[p] # NONE) =>
         p \in unlabelled' \/ (due'[p] => id'[p] # NONE)
    /\ p \notin hand' => id[p] \in {NONE, id'[p]}

(* A commit makes what others read of the project out of date, and leaves the *)
(* project with the id that it should have.                                   *)
LEMMA CommitKnows ==
  ASSUME TypeOK, KnowsItsProject, NEW t \in Savers, Commit(t)
  PROVE  KnowsItsProject' /\ \A q \in Projects : KeepsId(q)
<1> DEFINE x == tx[t]
           p == Own(t)
<1>0. /\ x \in Transactions /\ Consistent(x) /\ x.phase = "done" /\ p \in Projects
      /\ p \in live => Current(x, id[p], due[p])
      /\ id \in [Projects -> Ids \cup {NONE}] /\ due \in [Projects -> BOOLEAN]
  BY DEF Commit, TypeOK, KnowsItsProject, Own, Open
<1>1. /\ live' = live
      /\ due' = IF x.kind = "transition" THEN [due EXCEPT ![p] = x.will] ELSE due
      /\ x.value = KEEP => UNCHANGED <<id, unlabelled, hand>>
      /\ x.value # KEEP =>
           /\ id' = [id EXCEPT ![p] = x.value]
           /\ hand' = IF x.byHand THEN hand \cup {p} ELSE hand \ {p}
           /\ unlabelled \ {p} \subseteq unlabelled'
      /\ stale' = IF x.fresh THEN stale ELSE stale \cup {p}
      /\ tx' = [s \in Savers |-> IF s = t THEN Idle ELSE Outdated(p, tx[s])]
  BY DEF Commit
<1>2. \A q \in Projects \ {p} : id'[q] = id[q] /\ due'[q] = due[q]
  BY <1>0, <1>1
<1>3. /\ id'[p] = IF x.value = KEEP THEN id[p] ELSE x.value
      /\ due'[p] = IF x.kind = "transition" THEN x.will ELSE due[p]
  BY <1>0, <1>1
<1>4. ASSUME NEW s \in Savers
      PROVE  /\ Consistent(tx'[s])
             /\ tx'[s].project \in live =>
                  Current(tx'[s], id'[tx'[s].project], due'[tx'[s].project])
  <2>1. CASE s = t
    BY <1>1, <2>1 DEF Consistent, Current, Idle
  <2>2. CASE s # t
    <3>1. tx'[s] = Outdated(p, tx[s])
      BY <1>1, <2>2
    <3> QED BY <1>1, <1>2, <3>1, OthersKnow
  <2> QED BY <2>1, <2>2
<1>5. KnowsItsProject'
  BY <1>1, <1>4, AllKnow
<1>6. ASSUME p \in live, x.fresh
      PROVE  KeepsId(p)
  <2>1. /\ x.kind # "transition" => x.will = due[p]
        /\ ~x.byHand => x.saw = id[p]
    BY <1>0, <1>6 DEF Current
  <2>2. due'[p] = x.will
    BY <1>0, <1>3, <2>1 DEF Transactions
  <2>3. CASE x.value \in Ids /\ x.saw = NONE
    <3>1. id'[p] # NONE /\ x.value # KEEP
      BY <1>3, <2>3, ValuesAssumption
    <3>2. p \notin hand' => id[p] = NONE
      BY <1>1, <2>1, <2>3, <3>1
    <3> QED BY <3>1, <3>2 DEF KeepsId
  <2>4. CASE x.value = Set(x) /\ (x.saw # NONE \/ ~x.will)
    <3>1. x.saw # KEEP
      BY <1>0, ValuesAssumption DEF Transactions
    <3>2. CASE x.byHand /\ x.kind = "update"
      <4>1. x.value = x.saw /\ id'[p] = x.saw /\ p \in hand'
        BY <1>1, <1>3, <2>4, <3>1, <3>2 DEF Set
      <4> QED BY <2>2, <2>4, <4>1 DEF KeepsId
    <3>3. CASE x.byHand /\ x.kind # "update"
      <4>1. x.value = KEEP /\ x.kind # "transition"
        BY <1>0, <2>4, <3>3 DEF Set, Consistent
      <4>2. id'[p] = id[p] /\ due'[p] = due[p] /\ unlabelled' = unlabelled
        BY <1>1, <1>3, <4>1
      <4> QED BY <4>2 DEF KeepsId
    <3>4. CASE ~x.byHand
      <4>1. x.value = KEEP /\ id'[p] = id[p] /\ x.saw = id[p]
        BY <1>3, <2>1, <2>4, <3>4 DEF Set
      <4> QED BY <2>2, <2>4, <4>1 DEF KeepsId
    <3> QED BY <3>2, <3>3, <3>4
  <2> QED BY <1>0, <2>3, <2>4 DEF Consistent
<1>7. ASSUME NEW q \in Projects \ {p}
      PROVE  KeepsId(q)
  BY <1>1, <1>2, <1>7 DEF KeepsId
<1>8. KeepsId(p)
  <2>1. CASE p \in live /\ x.fresh
    BY <1>6, <2>1
  <2>2. CASE ~(p \in live /\ x.fresh)
    BY <1>1, <2>2 DEF KeepsId
  <2> QED BY <2>1, <2>2
<1> QED BY <1>5, <1>7, <1>8

(* An approval gives the project an id by hand.                               *)
LEMMA ApproveKnows ==
  ASSUME TypeOK, KnowsItsProject, NEW p \in Projects, Approve(p)
  PROVE  KnowsItsProject' /\ \A q \in Projects : KeepsId(q)
<1>1. /\ live' = live /\ due' = due /\ stale' = stale
      /\ unlabelled' = unlabelled \cup {p} /\ hand' = hand \cup {p}
      /\ \A q \in Projects \ {p} : id'[q] = id[q]
      /\ \A s \in Savers : tx'[s] = Outdated(p, tx[s])
  BY DEF Approve, TypeOK
<1>2. KnowsItsProject'
  BY <1>1, OthersKnow, AllKnow
<1>3. ASSUME NEW q \in Projects
      PROVE  KeepsId(q)
  BY <1>1, <1>3 DEF KeepsId
<1> QED BY <1>2, <1>3

LEMMA KnowsStep ==
  ASSUME TypeOK, KnowsItsProject, [Next]_vars
  PROVE  /\ KnowsItsProject'
         /\ stale \subseteq stale' /\ live' \subseteq live
         /\ \A p \in Projects : KeepsId(p)
<1> DEFINE Same == UNCHANGED <<live, id, due, unlabelled, stale, hand>>
<1>s. ASSUME Same
      PROVE  /\ stale \subseteq stale' /\ live' \subseteq live
             /\ \A p \in Projects : KeepsId(p)
  BY <1>s DEF KeepsId
<1>1. ASSUME NEW t \in Savers, NEW p \in Projects,
             NEW k \in {"update", "request", "transition"}, Start(t, p, k)
      PROVE  KnowsItsProject' /\ Same
  <2> DEFINE x == [Idle EXCEPT !.phase = "begun", !.project = p, !.kind = k, !.runs = 1]
  <2>1. tx' = [tx EXCEPT ![t] = x] /\ Same
    BY <1>1 DEF Start
  <2>2. Consistent(x) /\ \A i, d : Current(x, i, d)
    BY DEF Idle, Consistent, Current
  <2> QED BY <2>1, <2>2, TransactionKnows
<1>2. ASSUME UNCHANGED <<live, id, due, tx>>
      PROVE  KnowsItsProject'
  BY <1>2 DEF KnowsItsProject, Consistent, Set, Current, Own
<1>3. ASSUME NEW a \in Accounts, NEW b \in Blocks, ChangeBlock(a, b)
      PROVE  KnowsItsProject' /\ Same
  BY <1>2, <1>3 DEF ChangeBlock
<1>4. ASSUME NEW p \in Projects, Drop(p)
      PROVE  KnowsItsProject' /\ Same
  BY <1>2, <1>4 DEF Drop
<1>5. ASSUME NEW p \in Projects, DeleteProject(p)
      PROVE  KnowsItsProject' /\ stale \subseteq stale' /\ live' \subseteq live
             /\ \A q \in Projects : KeepsId(q)
  <2>1. /\ live' = live \ {p} /\ UNCHANGED <<tx, due, unlabelled, stale, hand>>
        /\ \A q \in Projects \ {p} : id'[q] = id[q]
    BY <1>5 DEF DeleteProject, TypeOK
  <2>2. ASSUME NEW s \in Savers
        PROVE  Consistent(tx[s])' /\ (Own(s) \in live => Current(tx[s], id[Own(s)], due[Own(s)]))'
    BY <2>1 DEF KnowsItsProject, Consistent, Set, Current, Own, TypeOK
  <2>3. ASSUME NEW q \in Projects
        PROVE  KeepsId(q)
    BY <2>1, <2>3 DEF KeepsId
  <2> QED BY <2>1, <2>2, <2>3 DEF KnowsItsProject
<1>6. ASSUME NEW p \in Projects, Approve(p)
      PROVE  KnowsItsProject' /\ stale \subseteq stale' /\ live' \subseteq live
             /\ \A q \in Projects : KeepsId(q)
  <2>1. stale \subseteq stale' /\ live' \subseteq live
    BY <1>6 DEF Approve
  <2> QED BY <1>6, <2>1, ApproveKnows
<1>7. ASSUME NEW t \in Savers, Step(t) \/ Fail(t), ~Commit(t)
      PROVE  KnowsItsProject' /\ Same
  <2>1. Same
    BY <1>7 DEF Step, Fail, Read, WriteUpdate, SetByHand, Propose, WriteTransition,
       Leave, ChooseNext, WriteId, Conflict, Refuse, RolledBack, Unchanged
  <2> QED BY <1>7, <2>1, StepKnows
<1>8. ASSUME NEW t \in Savers, Commit(t)
      PROVE  KnowsItsProject' /\ stale \subseteq stale' /\ live' \subseteq live
             /\ \A q \in Projects : KeepsId(q)
  <2>1. stale \subseteq stale' /\ live' \subseteq live
    BY <1>8 DEF Commit
  <2> QED BY <1>8, <2>1, CommitKnows
<1>9. CASE UNCHANGED vars
  BY <1>2, <1>9, <1>s DEF vars
<1> HIDE DEF Same
<1> QED
  BY <1>s, <1>1, <1>3, <1>4, <1>5, <1>6, <1>7, <1>8, <1>9 DEF Next, Rest

IdInv == IInv /\ KnowsItsProject /\ DueHasId

LEMMA IdInvInitially == Init => IdInv
<1> SUFFICES ASSUME Init PROVE KnowsItsProject /\ DueHasId
  BY Initially DEF IdInv
<1>1. \A t \in Savers : tx[t] = Idle
  BY DEF Init
<1> QED BY <1>1 DEF Init, KnowsItsProject, DueHasId, Consistent, Current, Idle

LEMMA IdInvStepwise == IdInv /\ [Next]_vars => IdInv'
<1> SUFFICES ASSUME IdInv, [Next]_vars PROVE IdInv'
  OBVIOUS
<1>1. TypeOK /\ live \subseteq Projects
  BY DEF IdInv, IInv, TypeOK
<1>2. /\ KnowsItsProject' /\ stale \subseteq stale' /\ live' \subseteq live
      /\ \A p \in Projects : KeepsId(p)
  BY <1>1, KnowsStep DEF IdInv
<1>3. DueHasId'
  BY <1>1, <1>2 DEF IdInv, DueHasId, KeepsId
<1> QED BY <1>2, <1>3, Stepwise DEF IdInv

(* A project whose step asks for an id has one, unless a save that had read   *)
(* an older state of it was committed over another, or a change request set   *)
(* or took its id.                                                            *)
THEOREM DueHaveIds == Spec => []DueHasId
<1>1. IdInv => DueHasId
  BY DEF IdInv
<1> QED BY IdInvInitially, IdInvStepwise, <1>1, PTL DEF Spec

(* An id that was given is the project's for good: only an administrator      *)
(* changes it, directly or in a request, apart from overlapping saves of one  *)
(* project.                                                                   *)
THEOREM IdsAreKept == Spec => IdIsKept
<1>1. IdInv /\ [Next]_vars =>
        [\A p \in live' \ (stale' \cup hand') : id[p] \in {NONE, id'[p]}]_vars
  <2> SUFFICES ASSUME IdInv, [Next]_vars, NEW p \in live' \ (stale' \cup hand')
               PROVE  id[p] \in {NONE, id'[p]}
    OBVIOUS
  <2>1. TypeOK /\ live \subseteq Projects
    BY DEF IdInv, IInv, TypeOK
  <2>2. live' \subseteq live /\ \A q \in Projects : KeepsId(q)
    BY <2>1, KnowsStep DEF IdInv
  <2> QED BY <2>1, <2>2 DEF KeepsId
<1> QED BY IdInvInitially, IdInvStepwise, <1>1, PTL DEF Spec, IdIsKept
=============================================================================
