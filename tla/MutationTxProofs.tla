------------------------- MODULE MutationTxProofs -------------------------
(* What MutationTx guarantees for every number of root fields, runs and      *)
(* events, proved with TLAPS.                                                *)
EXTENDS MutationTx, TLAPS

USE NumFieldsAssumption, MaxRunsAssumption, MaxEventsAssumption,
    InnerAssumption

---------------------------------------------------------------------------
(* Lemmas about the callback queue.                                          *)

(* Adding a callback keeps a queue a queue; clearing the head does too.       *)
LEMMA QueueType ==
  ASSUME NEW S, NEW q \in Seq(S), NEW x \in S
  PROVE  /\ Added(q, x) \in Seq(S)
         /\ q # <<>> => Cleared(q) \in Seq(S) /\ Head(q) \in S
  BY DEF Added, Cleared

(* The callbacks a handler or a flush creates are callbacks.                  *)
LEMMA CallbackTypes ==
  /\ \A n \in Nat \ {0} : EventCallback(n) \in Callbacks
  /\ FlushCallback \in Callbacks
  /\ \A ids \in SUBSET Ids : MessageCallback(ids) \in Callbacks
  BY DEF EventCallback, FlushCallback, MessageCallback, Callbacks

---------------------------------------------------------------------------
(* Type correctness.                                                         *)

(* A transaction attempt that starts over or gives up is well typed.          *)
LEMMA RetryType ==
  ASSUME TypeOK, StartRun \/ FailField \/ RetryInnerOrPropagate
  PROVE  /\ field' \in Fields /\ run' \in Runs /\ pc' \in Phases
         /\ runNodes' \in SUBSET Uploads /\ runIds' \in SUBSET Ids
         /\ response' \in [Fields -> {"none", "ok", "error"}]
<1>0. /\ field \in Fields /\ run \in Runs /\ pc \in Phases
      /\ runNodes \in SUBSET Uploads /\ runIds \in SUBSET Ids
      /\ response \in [Fields -> {"none", "ok", "error"}]
  BY DEF TypeOK
<1>1. CASE StartRun
  BY <1>0, <1>1 DEF StartRun, NextRun, Runs, Phases
<1>2. CASE FailField
  BY <1>0, <1>2 DEF FailField, Phases, runVars
<1>3. CASE RetryInnerOrPropagate
  BY <1>0, <1>1, <1>3 DEF RetryInnerOrPropagate, Phases, runVars
<1> QED
  BY <1>1, <1>2, <1>3

(* What a commit writes is well typed.                                        *)
LEMMA CommitTypes ==
  ASSUME TypeOK
  PROVE  /\ InnerCommits => committed' \in SUBSET Commits
         /\ OuterCommits => /\ committed' \in SUBSET Commits
                            /\ nodes' \in SUBSET Uploads
                            /\ stale' \in SUBSET Ids
  BY DEF TypeOK, Commits, InnerCommits, OuterCommits

LEMMA TypeStep == TypeOK /\ [Next]_vars => TypeOK'
<1> SUFFICES ASSUME TypeOK, [Next]_vars PROVE TypeOK'
  OBVIOUS
<1>1. CASE Publish
  <2>1. EventCallback(Len(registered) + 1) \in Callbacks
    BY CallbackTypes DEF TypeOK
  <2>2. afterCommit' \in Seq(Callbacks)
    BY <1>1, <2>1, QueueType DEF Publish, TypeOK
  <2>3. registered' \in Seq([field : Fields, run : Runs])
    BY <1>1 DEF Publish, TypeOK
  <2> QED
    BY <1>1, <2>2, <2>3 DEF Publish, TypeOK, runVars, dbVars, ackVars
<1>2. ASSUME NEW id \in Ids, AddToIdList(id)
      PROVE  /\ afterCommit' \in Seq(Callbacks) /\ listCached' \in BOOLEAN
             /\ idList' \in SUBSET Ids /\ runIds' \in SUBSET Ids
  BY <1>2, CallbackTypes, QueueType DEF AddToIdList, TypeOK, Listed
<1>3. ASSUME NEW id \in Ids, WriteAndInvalidate(id) PROVE TypeOK'
  BY <1>2, <1>3 DEF WriteAndInvalidate, TypeOK, dbVars, obsVars, ackVars
<1>4. ASSUME NEW u \in Uploads, NEW id \in Ids, CreateFileVersion(u, id)
      PROVE  TypeOK'
  <2>1. AddToIdList(id)
    BY <1>4 DEF CreateFileVersion
  <2>2. Added(afterRollback, u) \in Seq(Uploads)
    BY QueueType DEF TypeOK
  <2>3. /\ place' \in [Uploads -> {"temp", "final"}]
        /\ afterRollback' \in Seq(Uploads)
    BY <1>4, <2>2 DEF CreateFileVersion, TypeOK
  <2> QED
    BY <1>2, <1>4, <2>1, <2>3 DEF CreateFileVersion, TypeOK, dbVars, obsVars,
                                       ackVars
<1>5. CASE HandlerReturns \/ HandlerThrows
  BY <1>5 DEF HandlerReturns, HandlerThrows, AfterHandler, TypeOK, Phases,
              hookVars, runVars, dbVars, obsVars, ackVars
<1>6. CASE RunRollbackHook
  <2>1. afterRollback' \in Seq(Uploads) /\ Head(afterRollback) \in Uploads
    BY <1>6, QueueType DEF RunRollbackHook, TypeOK, Cleared
  <2> QED
    BY <1>6, <2>1 DEF RunRollbackHook, TypeOK, runVars, dbVars, obsVars, ackVars
<1>7. CASE RunCommitHook
  <2> DEFINE cb == Head(afterCommit)
  <2>1. cb \in Callbacks /\ Cleared(afterCommit) \in Seq(Callbacks)
    BY <1>7 DEF RunCommitHook, TypeOK, Cleared
  <2>2. MessageCallback(idList) \in Callbacks
    BY CallbackTypes DEF TypeOK
  <2>6. Added(Cleared(afterCommit), MessageCallback(idList)) \in Seq(Callbacks)
    BY <2>1, <2>2, QueueType
  <2>3. afterCommit' \in Seq(Callbacks)
    BY <1>7, <2>1, <2>6 DEF RunCommitHook
  <2>4. cb.kind = "event" => cb.n \in Nat \ {0}
    BY <2>1 DEF Callbacks, FlushCallback
  <2>5. published' \in Seq(Nat \ {0})
    <3>1. CASE cb.kind = "event"
      <4>1. Append(published, cb.n) \in Seq(Nat \ {0})
        BY <2>4, <3>1 DEF TypeOK
      <4> QED
        BY <1>7, <3>1, <4>1 DEF RunCommitHook, TypeOK
    <3>2. CASE cb.kind # "event"
      BY <1>7, <3>2 DEF RunCommitHook, TypeOK
    <3> QED
      BY <3>1, <3>2
  <2>7. stale' \in SUBSET Ids
    BY <1>7 DEF RunCommitHook, TypeOK
  <2> QED
    BY <1>7, <2>3, <2>5, <2>7 DEF RunCommitHook, TypeOK, runVars, dbVars, ackVars
<1>8. CASE InnerRollback \/ InnerCommitFails \/ OuterRollback \/ OuterCommitFails
  <2>1. StartRun \/ FailField \/ RetryInnerOrPropagate
    BY <1>8 DEF InnerRollback, InnerCommitFails, OuterRollback, OuterCommitFails
  <2>2. UNCHANGED <<hookVars, place, registered, published>>
    BY <1>8 DEF InnerRollback, InnerCommitFails, OuterRollback,
         OuterCommitFails, obsVars
  <2>3. /\ committed' \in SUBSET Commits /\ nodes' \in SUBSET Uploads
        /\ stale' \in SUBSET Ids /\ lostAck' \in BOOLEAN
        /\ lostNodes' \in SUBSET Uploads
    BY <1>8, CommitTypes
       DEF InnerRollback, InnerCommitFails, OuterRollback, OuterCommitFails,
           TypeOK, dbVars, obsVars, ackVars
  <2> QED
    BY <2>1, <2>2, <2>3, RetryType DEF TypeOK, hookVars
<1>9. CASE InnerCommitSucceeds
  BY <1>9, CommitTypes DEF InnerCommitSucceeds, TypeOK, Phases, hookVars,
     runVars, obsVars, ackVars
<1>10. CASE InnerReturns \/ ResponseTimesOut \/ Finished
  BY <1>10 DEF InnerReturns, ResponseTimesOut, Finished, TypeOK, Phases, vars,
               hookVars, runVars, dbVars, obsVars, ackVars
<1>11. CASE OuterCommitSucceeds
  <2>1. /\ committed' \in SUBSET Commits /\ nodes' \in SUBSET Uploads
        /\ stale' \in SUBSET Ids
    BY <1>11, CommitTypes DEF OuterCommitSucceeds
  <2> QED
    BY <1>11, <2>1 DEF OuterCommitSucceeds, TypeOK, Phases, hookVars, runVars,
       ackVars
<1>12. CASE FieldResolves
  <2>1. /\ field' \in Fields /\ run' \in Runs /\ pc' \in Phases
        /\ runNodes' \in SUBSET Uploads /\ runIds' \in SUBSET Ids
        /\ lostAck' \in BOOLEAN
    <3>1. field \in Fields /\ run \in Runs /\ 1 \in Runs
      BY DEF TypeOK, Runs
    <3>2. ~IsLastField => field + 1 \in Fields
      BY <3>1 DEF IsLastField, Fields
    <3>3. runNodes \in SUBSET Uploads /\ runIds \in SUBSET Ids
      BY DEF TypeOK
    <3> QED
      BY <1>12, <3>1, <3>2, <3>3 DEF FieldResolves, Phases, runVars
  <2>2. response' \in [Fields -> {"none", "ok", "error"}]
    BY <1>12 DEF FieldResolves, TypeOK
  <2> QED
    BY <1>12, <2>1, <2>2 DEF FieldResolves, TypeOK, hookVars, dbVars
<1>13. CASE UNCHANGED vars
  BY <1>13 DEF TypeOK, vars, hookVars, runVars, dbVars, obsVars, ackVars
<1> QED
  BY <1>1, <1>3, <1>4, <1>5, <1>6, <1>7, <1>8, <1>9, <1>10, <1>11, <1>12,
     <1>13 DEF Next

(* Every reachable state is well typed.                                      *)
THEOREM TypeCorrect == Spec => []TypeOK
<1>1. 1 \in Fields /\ 1 \in Runs
  BY DEF Fields, Runs
<1>2. ASSUME NEW S PROVE <<>> \in Seq(S)
  OBVIOUS
<1>3. Init => TypeOK
  BY <1>1, <1>2 DEF Init, TypeOK, Phases
<1> QED
  BY <1>3, TypeStep, PTL DEF Spec

---------------------------------------------------------------------------
(* The callback queue: order, and no event lost in it.                       *)

IsEvent(cb) == cb.kind = "event"

(* q holds, of the events 1 .. m in the order they were registered, those    *)
(* that out does not; everything in out is older than everything in q.       *)
OrderedQueue(q, m, out) ==
  /\ \A i \in 1 .. Len(q) : IsEvent(q[i]) => q[i].n \in 1 .. m
  /\ \A i, j \in 1 .. Len(q) :
       i < j /\ IsEvent(q[i]) /\ IsEvent(q[j]) => q[i].n < q[j].n
  /\ \A p \in 1 .. Len(out) : out[p] \in 1 .. m
  /\ \A p, r \in 1 .. Len(out) : p < r => out[p] < out[r]
  /\ \A p \in 1 .. Len(out), i \in 1 .. Len(q) :
       IsEvent(q[i]) => out[p] < q[i].n
  /\ \A n \in 1 .. m : \/ \E p \in 1 .. Len(out) : out[p] = n
                       \/ \E i \in 1 .. Len(q) : IsEvent(q[i]) /\ q[i].n = n

(* A callback that is no event can be added at the end.                      *)
LEMMA AddNonEvent ==
  ASSUME NEW q \in Seq(Callbacks), NEW m \in Nat, NEW out \in Seq(Nat),
         OrderedQueue(q, m, out), NEW cb \in Callbacks, ~IsEvent(cb)
  PROVE  OrderedQueue(Append(q, cb), m, out)
<1> DEFINE Q == Append(q, cb)
<1>1. /\ Len(Q) = Len(q) + 1 /\ Len(q) \in Nat
      /\ \A i \in 1 .. Len(q) : Q[i] = q[i]
      /\ Q[Len(q) + 1] = cb
  OBVIOUS
<1>2. \A i \in 1 .. Len(Q) : i = Len(q) + 1 \/ i \in 1 .. Len(q)
  BY <1>1
<1>3. 1 .. Len(q) \subseteq 1 .. Len(Q)
  BY <1>1
<1> HIDE DEF Q
<1> QED
  BY <1>1, <1>2, <1>3, ZenonT(40) DEF OrderedQueue, Q

(* The next registered event can be added at the end.                        *)
LEMMA AddEvent ==
  ASSUME NEW q \in Seq(Callbacks), NEW m \in Nat, NEW out \in Seq(Nat),
         OrderedQueue(q, m, out)
  PROVE  OrderedQueue(Append(q, EventCallback(m + 1)), m + 1, out)
<1> DEFINE Q == Append(q, EventCallback(m + 1))
<1>1. /\ Len(Q) = Len(q) + 1 /\ Len(q) \in Nat
      /\ \A i \in 1 .. Len(q) : Q[i] = q[i]
      /\ IsEvent(Q[Len(q) + 1]) /\ Q[Len(q) + 1].n = m + 1
  BY DEF EventCallback, IsEvent
<1>2. \A i \in 1 .. Len(Q) : i = Len(q) + 1 \/ i \in 1 .. Len(q)
  BY <1>1
<1>3. /\ 1 .. Len(q) \subseteq 1 .. Len(Q)
      /\ Len(q) + 1 \in 1 .. Len(Q)
      /\ \A n \in 1 .. m + 1 : n = m + 1 \/ n \in 1 .. m
      /\ \A n \in 1 .. m : n \in 1 .. m + 1 /\ n < m + 1
  BY <1>1
<1>4. \A i \in 1 .. Len(Q) : IsEvent(Q[i]) => Q[i].n \in 1 .. m + 1
  BY <1>1, <1>2, <1>3 DEF OrderedQueue
<1>5. ASSUME NEW i \in 1 .. Len(Q), NEW j \in 1 .. Len(Q), i < j,
             IsEvent(Q[i]), IsEvent(Q[j])
      PROVE  Q[i].n < Q[j].n
  <2>1. i \in 1 .. Len(q)
    BY <1>1, <1>5
  <2>2. CASE j \in 1 .. Len(q)
    BY <1>1, <1>5, <2>1, <2>2 DEF OrderedQueue
  <2>3. CASE j = Len(q) + 1
    BY <1>1, <1>3, <1>5, <2>1, <2>3 DEF OrderedQueue
  <2> QED
    BY <1>2, <2>2, <2>3
<1>6. \A p \in 1 .. Len(out), i \in 1 .. Len(Q) : IsEvent(Q[i]) => out[p] < Q[i].n
  BY <1>1, <1>2, <1>3 DEF OrderedQueue
<1>7. \A n \in 1 .. m + 1 : \/ \E p \in 1 .. Len(out) : out[p] = n
                            \/ \E i \in 1 .. Len(Q) : IsEvent(Q[i]) /\ Q[i].n = n
  BY <1>1, <1>3 DEF OrderedQueue
<1> HIDE DEF Q
<1>8. /\ \A p \in 1 .. Len(out) : out[p] \in 1 .. m + 1
      /\ \A p, r \in 1 .. Len(out) : p < r => out[p] < out[r]
  BY <1>3 DEF OrderedQueue
<1>9. OrderedQueue(Q, m + 1, out)
  BY <1>4, <1>5, <1>6, <1>7, <1>8 DEF OrderedQueue
<1> QED
  BY <1>9 DEF Q

(* Positions of a queue without its head.                                    *)
LEMMA TailShift ==
  ASSUME NEW q \in Seq(Callbacks), q # <<>>
  PROVE  /\ Tail(q) \in Seq(Callbacks) /\ Head(q) = q[1]
         /\ Len(Tail(q)) = Len(q) - 1 /\ Len(q) \in Nat \ {0}
         /\ \A i \in 1 .. Len(Tail(q)) : i + 1 \in 2 .. Len(q) /\ Tail(q)[i] = q[i + 1]
         /\ \A i \in 2 .. Len(q) : i - 1 \in 1 .. Len(Tail(q)) /\ Tail(q)[i - 1] = q[i]
         /\ 1 \in 1 .. Len(q) /\ 2 .. Len(q) \subseteq 1 .. Len(q)
         /\ \A i \in 1 .. Len(q) : i = 1 \/ i \in 2 .. Len(q)
<1>1. Len(q) \in Nat \ {0} /\ Len(Tail(q)) = Len(q) - 1
  OBVIOUS
<1>2. \A i \in 1 .. Len(q) - 1 : Tail(q)[i] = q[i + 1]
  OBVIOUS
<1>3. \A i \in 2 .. Len(q) : i - 1 \in 1 .. Len(q) - 1 /\ (i - 1) + 1 = i
  BY <1>1
<1> QED
  BY <1>1, <1>2, <1>3

(* A head that is no event can be dropped.                                   *)
LEMMA DropNonEvent ==
  ASSUME NEW q \in Seq(Callbacks), NEW m \in Nat, NEW out \in Seq(Nat),
         OrderedQueue(q, m, out), q # <<>>, ~IsEvent(Head(q))
  PROVE  OrderedQueue(Tail(q), m, out)
<1> DEFINE Q == Tail(q)
<1>0. /\ \A i \in 1 .. Len(Q) : /\ i + 1 \in 2 .. Len(q)
                               /\ i + 1 \in 1 .. Len(q)
                               /\ Q[i] = q[i + 1]
      /\ \A i \in 2 .. Len(q) : /\ i - 1 \in 1 .. Len(Q)
                               /\ Q[i - 1] = q[i]
      /\ \A i \in 1 .. Len(q) : i = 1 \/ i \in 2 .. Len(q)
      /\ 1 \in 1 .. Len(q) /\ Head(q) = q[1]
  BY TailShift
<1> HIDE DEF Q
<1>2. /\ \A i \in 1 .. Len(Q) : IsEvent(Q[i]) => Q[i].n \in 1 .. m
      /\ \A p \in 1 .. Len(out), i \in 1 .. Len(Q) :
           IsEvent(Q[i]) => out[p] < Q[i].n
  BY <1>0 DEF OrderedQueue
<1>3. ASSUME NEW i \in 1 .. Len(Q), NEW j \in 1 .. Len(Q), i < j,
             IsEvent(Q[i]), IsEvent(Q[j])
      PROVE  Q[i].n < Q[j].n
  <2>1. i + 1 < j + 1
    BY <1>3
  <2> QED
    BY <1>0, <1>3, <2>1 DEF OrderedQueue
<1>4. ASSUME NEW n \in 1 .. m, ~ \E p \in 1 .. Len(out) : out[p] = n
      PROVE  \E i \in 1 .. Len(Q) : IsEvent(Q[i]) /\ Q[i].n = n
  <2>1. PICK i \in 1 .. Len(q) : IsEvent(q[i]) /\ q[i].n = n
    BY <1>4 DEF OrderedQueue
  <2>2. i \in 2 .. Len(q)
    BY <1>0, <2>1
  <2> QED
    BY <1>0, <2>1, <2>2
<1>5. OrderedQueue(Q, m, out)
  BY <1>2, <1>3, <1>4 DEF OrderedQueue
<1> QED
  BY <1>5 DEF Q

(* A head that is an event can be moved to the published ones.               *)
LEMMA DropEvent ==
  ASSUME NEW q \in Seq(Callbacks), NEW m \in Nat, NEW out \in Seq(Nat),
         OrderedQueue(q, m, out), q # <<>>, IsEvent(Head(q))
  PROVE  /\ OrderedQueue(Tail(q), m, Append(out, Head(q).n))
         /\ Head(q).n \in 1 .. m
<1> DEFINE Q == Tail(q)
           n == Head(q).n
           o == Append(out, n)
<1>0. /\ \A i \in 1 .. Len(Q) : /\ i + 1 \in 2 .. Len(q)
                               /\ i + 1 \in 1 .. Len(q)
                               /\ Q[i] = q[i + 1]
      /\ \A i \in 2 .. Len(q) : /\ i - 1 \in 1 .. Len(Q)
                               /\ Q[i - 1] = q[i]
      /\ \A i \in 1 .. Len(q) : i = 1 \/ i \in 2 .. Len(q)
      /\ 1 \in 1 .. Len(q) /\ Head(q) = q[1]
  BY TailShift
<1> HIDE DEF Q
<1>1. n \in 1 .. m
  BY <1>0 DEF OrderedQueue
<1>2. /\ Len(o) = Len(out) + 1 /\ Len(out) \in Nat
      /\ \A p \in 1 .. Len(out) : o[p] = out[p]
      /\ o[Len(out) + 1] = n
  BY <1>1
<1>3. /\ \A p \in 1 .. Len(o) : p = Len(out) + 1 \/ p \in 1 .. Len(out)
      /\ 1 .. Len(out) \subseteq 1 .. Len(o) /\ Len(out) + 1 \in 1 .. Len(o)
  BY <1>2
<1>5. \A i \in 1 .. Len(Q) : IsEvent(Q[i]) => Q[i].n \in 1 .. m
  BY <1>0 DEF OrderedQueue
<1>6. ASSUME NEW i \in 1 .. Len(Q), NEW j \in 1 .. Len(Q), i < j,
             IsEvent(Q[i]), IsEvent(Q[j])
      PROVE  Q[i].n < Q[j].n
  <2>1. i + 1 < j + 1
    BY <1>6
  <2> QED
    BY <1>0, <1>6, <2>1, ZenonT(40) DEF OrderedQueue
<1>7. \A p \in 1 .. Len(out) : out[p] < n
  BY <1>0 DEF OrderedQueue
<1>8. \A i \in 1 .. Len(Q) : IsEvent(Q[i]) => n < Q[i].n
  <2>1. \A i \in 2 .. Len(q) : 1 < i
    OBVIOUS
  <2> QED
    BY <2>1, <1>0 DEF OrderedQueue
<1>9. /\ \A p \in 1 .. Len(o) : o[p] \in 1 .. m
      /\ \A p, r \in 1 .. Len(o) : p < r => o[p] < o[r]
  <2>1. \A p \in 1 .. Len(o) : o[p] \in 1 .. m
    BY <1>1, <1>2, <1>3 DEF OrderedQueue
  <2>2. ASSUME NEW p \in 1 .. Len(o), NEW r \in 1 .. Len(o), p < r
        PROVE  o[p] < o[r]
    <3>1. p \in 1 .. Len(out)
      BY <1>2, <2>2
    <3>2. CASE r \in 1 .. Len(out)
      BY <1>2, <2>2, <3>1, <3>2 DEF OrderedQueue
    <3>3. CASE r = Len(out) + 1
      BY <1>2, <1>7, <3>1, <3>3
    <3> QED
      BY <1>3, <3>2, <3>3
  <2> QED
    BY <2>1, <2>2
<1>10. \A p \in 1 .. Len(o), i \in 1 .. Len(Q) : IsEvent(Q[i]) => o[p] < Q[i].n
  <2>1. ASSUME NEW p \in 1 .. Len(o), NEW i \in 1 .. Len(Q), IsEvent(Q[i])
        PROVE  o[p] < Q[i].n
    <3>1. CASE p \in 1 .. Len(out)
      BY <1>2, <2>1, <3>1, <1>0 DEF OrderedQueue
    <3>2. CASE p = Len(out) + 1
      BY <1>2, <1>8, <2>1, <3>2
    <3> QED
      BY <1>3, <3>1, <3>2
  <2> QED
    BY <2>1
<1>11. \A k \in 1 .. m : \/ \E p \in 1 .. Len(o) : o[p] = k
                         \/ \E i \in 1 .. Len(Q) : IsEvent(Q[i]) /\ Q[i].n = k
  <2>1. ASSUME NEW k \in 1 .. m, NEW i \in 1 .. Len(q), IsEvent(q[i]), q[i].n = k
        PROVE  \/ \E p \in 1 .. Len(o) : o[p] = k
               \/ \E j \in 1 .. Len(Q) : IsEvent(Q[j]) /\ Q[j].n = k
    <3>1. CASE i = 1
      BY <1>2, <1>3, <2>1, <3>1, <1>0
    <3>2. CASE i \in 2 .. Len(q)
      BY <2>1, <3>2, <1>0
    <3> QED
      BY <2>1, <3>1, <3>2, <1>0
  <2> QED
    BY <1>2, <1>3, <2>1 DEF OrderedQueue
<1> HIDE DEF Q, n, o
<1>12. OrderedQueue(Q, m, o)
  BY <1>5, <1>6, <1>9, <1>10, <1>11 DEF OrderedQueue
<1> QED
  BY <1>1, <1>12 DEF Q, n, o

---------------------------------------------------------------------------
(* The queue of the operation is such a queue in every reachable state.      *)

QueueInv == OrderedQueue(afterCommit, Len(registered), published)

queue == <<afterCommit, registered, published>>

(* The steps that touch the queue are the broadcasts, the first invalidation *)
(* and the callbacks.                                                        *)
LEMMA QueueSteps ==
  ASSUME [Next]_vars
  PROVE  \/ Publish
         \/ RunCommitHook
         \/ /\ afterCommit' = Added(afterCommit, FlushCallback)
            /\ UNCHANGED <<registered, published>>
         \/ UNCHANGED queue
<1>1. ASSUME NEW id \in Ids, AddToIdList(id)
      PROVE  \/ afterCommit' = Added(afterCommit, FlushCallback)
             \/ UNCHANGED afterCommit
  BY <1>1 DEF AddToIdList
<1>2. ASSUME NEW id \in Ids, WriteAndInvalidate(id)
      PROVE  /\ \/ afterCommit' = Added(afterCommit, FlushCallback)
                \/ UNCHANGED afterCommit
             /\ UNCHANGED <<registered, published>>
  BY <1>1, <1>2 DEF WriteAndInvalidate, obsVars
<1>3. ASSUME NEW u \in Uploads, NEW id \in Ids, CreateFileVersion(u, id)
      PROVE  /\ \/ afterCommit' = Added(afterCommit, FlushCallback)
                \/ UNCHANGED afterCommit
             /\ UNCHANGED <<registered, published>>
  BY <1>1, <1>3 DEF CreateFileVersion, obsVars
<1>4. CASE \/ HandlerReturns \/ HandlerThrows \/ RunRollbackHook
           \/ InnerRollback \/ InnerCommitFails \/ InnerCommitSucceeds
           \/ InnerReturns \/ OuterRollback \/ OuterCommitFails
           \/ OuterCommitSucceeds \/ FieldResolves \/ ResponseTimesOut
           \/ Finished \/ UNCHANGED vars
  BY <1>4 DEF HandlerReturns, HandlerThrows, RunRollbackHook, InnerRollback,
       InnerCommitFails, InnerCommitSucceeds, InnerReturns, OuterRollback,
       OuterCommitFails, OuterCommitSucceeds, FieldResolves, ResponseTimesOut,
       Finished, vars, hookVars, obsVars, queue
<1> QED
  BY <1>2, <1>3, <1>4 DEF Next, queue

LEMMA QueueStep == TypeOK /\ QueueInv /\ [Next]_vars => QueueInv'
<1> SUFFICES ASSUME TypeOK, QueueInv, [Next]_vars PROVE QueueInv'
  OBVIOUS
<1>1. /\ afterCommit \in Seq(Callbacks) /\ Len(registered) \in Nat
      /\ published \in Seq(Nat)
      /\ OrderedQueue(afterCommit, Len(registered), published)
  BY DEF TypeOK, QueueInv
<1>2. FlushCallback \in Callbacks /\ ~IsEvent(FlushCallback)
  BY DEF FlushCallback, Callbacks, IsEvent
<1>3. CASE Publish
  <2>1. Len(registered') = Len(registered) + 1
    BY <1>3 DEF Publish, TypeOK
  <2> QED
    BY <1>1, <1>3, <2>1, AddEvent DEF Publish, QueueInv, Added
<1>4. CASE RunCommitHook
  <2> DEFINE cb == Head(afterCommit)
             m  == Len(registered)
  <2>1. afterCommit # <<>> /\ registered' = registered
    BY <1>4 DEF RunCommitHook
  <2>2. CASE /\ cb.kind = "event"
             /\ published' = Append(published, cb.n)
             /\ afterCommit' = Tail(afterCommit)
    BY <1>1, <2>1, <2>2, DropEvent DEF QueueInv, IsEvent
  <2>3. CASE /\ cb.kind = "flush"
             /\ afterCommit' = Append(Tail(afterCommit), MessageCallback(idList))
             /\ published' = published
    <3>1. OrderedQueue(Tail(afterCommit), m, published)
      BY <1>1, <2>1, <2>3, DropNonEvent DEF IsEvent
    <3>2. /\ MessageCallback(idList) \in Callbacks
          /\ ~IsEvent(MessageCallback(idList))
      BY CallbackTypes DEF TypeOK, MessageCallback, IsEvent
    <3>3. Tail(afterCommit) \in Seq(Callbacks)
      BY <1>1, <2>1
    <3> QED
      BY <1>1, <2>1, <2>3, <3>1, <3>2, <3>3, AddNonEvent DEF QueueInv
  <2>4. CASE /\ cb.kind = "message"
             /\ afterCommit' = Tail(afterCommit)
             /\ published' = published
    BY <1>1, <2>1, <2>4, DropNonEvent DEF QueueInv, IsEvent
  <2> QED
    BY <1>4, <2>2, <2>3, <2>4 DEF RunCommitHook, Added, Cleared
<1>5. CASE /\ afterCommit' = Added(afterCommit, FlushCallback)
           /\ UNCHANGED <<registered, published>>
  BY <1>1, <1>2, <1>5, AddNonEvent DEF QueueInv, Added
<1>6. CASE UNCHANGED queue
  BY <1>6 DEF queue, QueueInv
<1> QED
  BY <1>3, <1>4, <1>5, <1>6, QueueSteps

LEMMA QueueAlways == Spec => []QueueInv
<1>1. Init => QueueInv
  BY DEF Init, QueueInv, OrderedQueue
<1> QED
  BY <1>1, QueueStep, TypeCorrect, PTL DEF Spec

(* Broadcasts leave in the order they were asked for, none of them twice,    *)
(* for any number of fields, runs and nested engines.                        *)
THEOREM InOrderOnce == Spec => []PublishedInOrderOnce
<1>1. TypeOK /\ QueueInv => PublishedInOrderOnce
  <2>1. TypeOK => DOMAIN published = 1 .. Len(published)
    BY DEF TypeOK
  <2> QED
    BY <2>1 DEF QueueInv, OrderedQueue, PublishedInOrderOnce
<1> QED
  BY <1>1, QueueAlways, TypeCorrect, PTL

---------------------------------------------------------------------------
(* What was asked for by which field, and what is out by then.               *)

FieldInv ==
  /\ \A n \in DOMAIN registered : registered[n].field <= field
  /\ \A n \in DOMAIN registered : registered[n].field < field => IsPublished(n)

(* With an empty queue everything registered has been published.             *)
LEMMA DrainedMeansPublished ==
  ASSUME TypeOK, QueueInv, afterCommit = <<>>, NEW n \in DOMAIN registered
  PROVE  IsPublished(n)
<1>1. /\ DOMAIN registered = 1 .. Len(registered)
      /\ DOMAIN published = 1 .. Len(published)
      /\ Len(afterCommit) = 0
  BY DEF TypeOK
<1>2. \E p \in 1 .. Len(published) : published[p] = n
  BY <1>1 DEF QueueInv, OrderedQueue
<1> QED
  BY <1>1, <1>2 DEF IsPublished

(* What is published stays published.                                        *)
LEMMA PublishedForever ==
  ASSUME TypeOK, [Next]_vars, NEW n, IsPublished(n)
  PROVE  IsPublished(n)'
<1>1. PICK i \in DOMAIN published : published[i] = n
  BY DEF IsPublished
<1>2. CASE published' = published
  BY <1>1, <1>2 DEF IsPublished
<1>3. ASSUME NEW m \in Nat \ {0}, published' = Append(published, m)
      PROVE  IsPublished(n)'
  <2>1. i \in DOMAIN published' /\ published'[i] = published[i]
    BY <1>1, <1>3 DEF TypeOK
  <2> QED
    BY <1>1, <2>1 DEF IsPublished
<1>4. CASE RunCommitHook
  <2>1. Head(afterCommit) \in Callbacks
    BY <1>4 DEF RunCommitHook, TypeOK
  <2>2. Head(afterCommit).kind = "event" => Head(afterCommit).n \in Nat \ {0}
    BY <2>1 DEF Callbacks, FlushCallback
  <2> QED
    BY <1>2, <1>3, <1>4, <2>2 DEF RunCommitHook
<1>5. CASE Publish
  BY <1>2, <1>5 DEF Publish
<1> QED
  BY <1>2, <1>4, <1>5, QueueSteps DEF queue

(* A step leaves what the fields asked for alone, asks, or ends a field.     *)
LEMMA FieldSteps ==
  ASSUME [Next]_vars
  PROVE  UNCHANGED <<field, registered>> \/ Publish \/ FieldResolves
<1>1. CASE \/ \E id \in Ids : WriteAndInvalidate(id)
           \/ \E u \in Uploads, id \in Ids : CreateFileVersion(u, id)
           \/ HandlerReturns \/ HandlerThrows \/ InnerReturns
           \/ RunRollbackHook \/ RunCommitHook \/ ResponseTimesOut
           \/ Finished \/ UNCHANGED vars
  BY <1>1 DEF WriteAndInvalidate, CreateFileVersion, HandlerReturns,
       HandlerThrows, InnerReturns, RunRollbackHook, RunCommitHook,
       ResponseTimesOut, Finished, vars, obsVars
<1>2. CASE \/ InnerRollback \/ InnerCommitFails \/ InnerCommitSucceeds
           \/ OuterRollback \/ OuterCommitFails \/ OuterCommitSucceeds
  BY <1>2 DEF InnerRollback, InnerCommitFails, InnerCommitSucceeds,
       OuterRollback, OuterCommitFails, OuterCommitSucceeds,
       RetryInnerOrPropagate, StartRun, FailField, obsVars
<1> QED
  BY <1>1, <1>2 DEF Next

LEMMA ElementOfSeq ==
  ASSUME NEW S, NEW s \in Seq(S), NEW n \in DOMAIN s
  PROVE  s[n] \in S
<1>1. n \in 1 .. Len(s)
  OBVIOUS
<1> QED
  BY <1>1

LEMMA RegisteredType ==
  ASSUME TypeOK, NEW n \in DOMAIN registered
  PROVE  registered[n].field \in Fields /\ registered[n].run \in Runs
<1>1. registered \in Seq([field : Fields, run : Runs])
  BY DEF TypeOK
<1>2. registered[n] \in [field : Fields, run : Runs]
  BY <1>1, ElementOfSeq
<1> QED
  BY <1>2

LEMMA FieldStep == TypeOK /\ QueueInv /\ FieldInv /\ [Next]_vars => FieldInv'
<1> SUFFICES ASSUME TypeOK, QueueInv, FieldInv, [Next]_vars PROVE FieldInv'
  OBVIOUS
<1>1. /\ field \in Nat /\ Fields \subseteq Nat
      /\ \A n \in DOMAIN registered : registered[n].field \in Fields
  <2>1. field \in Nat /\ Fields \subseteq Nat
    BY DEF TypeOK, Fields
  <2> QED
    BY <2>1, RegisteredType
<1>2. \A n : IsPublished(n) => IsPublished(n)'
  BY PublishedForever
<1>3. CASE UNCHANGED <<field, registered>>
  BY <1>2, <1>3 DEF FieldInv
<1>4. CASE Publish
  <2>1. /\ registered' = Append(registered, [field |-> field, run |-> run])
        /\ field' = field
    BY <1>4 DEF Publish
  <2>2. \A n \in DOMAIN registered' :
          \/ n \in DOMAIN registered /\ registered'[n] = registered[n]
          \/ registered'[n].field = field
    BY <2>1 DEF TypeOK
  <2> QED
    BY <1>1, <1>2, <2>1, <2>2 DEF FieldInv
<1>5. CASE FieldResolves
  <2>1. /\ UNCHANGED registered
        /\ field' = field + 1 \/ field' = field
    BY <1>5 DEF FieldResolves
  <2>2. \A n \in DOMAIN registered : IsPublished(n)
    BY <1>5, DrainedMeansPublished DEF FieldResolves, HooksAwaited
  <2>3. \A n \in DOMAIN registered : registered[n].field <= field'
    <3>1. \A n \in DOMAIN registered : registered[n].field <= field
      BY DEF FieldInv
    <3>2. \A f \in Nat : f <= field => f <= field'
      BY <1>1, <2>1
    <3> QED
      BY <1>1, <3>1, <3>2
  <2>4. \A n \in DOMAIN registered : IsPublished(n)'
    BY <1>2, <2>2
  <2> QED
    BY <2>1, <2>3, <2>4 DEF FieldInv
<1> QED
  BY <1>3, <1>4, <1>5, FieldSteps

LEMMA FieldAlways == Spec => []FieldInv
<1>1. Init => FieldInv
  BY DEF Init, FieldInv
<1> QED
  BY <1>1, FieldStep, QueueAlways, TypeCorrect, PTL DEF Spec

---------------------------------------------------------------------------
(* What the interceptors' position says about the commits of the field.      *)

PhaseInv ==
  /\ pc = "outerHooks" => OuterCommitted(field, run)
  /\ Inner # "none" /\ pc \in {"innerHooks", "outerCommit", "outerHooks"} =>
       InnerCommitted(field, run)
  /\ Inner = "none" => pc \notin {"innerUndo", "innerCommit", "innerHooks"}
  /\ ToldOkMeansCommitted

(* A step commits, completes the field, starts another run or gives up, or   *)
(* keeps the run and moves it towards a commit as the interceptors allow.    *)
SamePhaseOrEarly ==
  /\ UNCHANGED <<field, run>>
  /\ committed \subseteq committed'
  /\ \/ UNCHANGED pc
     \/ pc' = IF Inner = "none" THEN "outerCommit" ELSE "innerCommit"
     \/ pc' = IF Inner = "none" THEN "outerUndo" ELSE "innerUndo"
     \/ pc = "innerHooks" /\ pc' = "outerCommit"
     \/ pc' = "outerUndo"

NewRunOrGiveUp ==
  /\ UNCHANGED field
  /\ committed \subseteq committed'
  /\ pc' \in {"handler", "done"}

OkKept == \A f \in Fields : response'[f] = "ok" => response[f] = "ok"

LEMMA PhaseSteps ==
  ASSUME TypeOK, [Next]_vars
  PROVE  \/ OkKept /\ SamePhaseOrEarly
         \/ OkKept /\ NewRunOrGiveUp
         \/ OkKept /\ InnerCommitSucceeds
         \/ OkKept /\ OuterCommitSucceeds
         \/ FieldResolves
<1>1. CASE \/ Publish
           \/ \E id \in Ids : WriteAndInvalidate(id)
           \/ \E u \in Uploads, id \in Ids : CreateFileVersion(u, id)
           \/ RunRollbackHook \/ RunCommitHook \/ Finished \/ UNCHANGED vars
  <2>1. UNCHANGED <<field, run, pc, committed, response>>
    BY <1>1 DEF Publish, WriteAndInvalidate, CreateFileVersion, RunRollbackHook,
         RunCommitHook, Finished, vars, dbVars
  <2> QED
    BY <2>1 DEF OkKept, SamePhaseOrEarly
<1>2. CASE HandlerReturns \/ HandlerThrows \/ InnerReturns
  BY <1>2 DEF HandlerReturns, HandlerThrows, InnerReturns, AfterHandler, dbVars,
       OkKept, SamePhaseOrEarly
<1>3. CASE InnerRollback \/ InnerCommitFails \/ OuterRollback \/ OuterCommitFails
  <2>1. /\ committed \subseteq committed'
        /\ StartRun \/ FailField \/ RetryInnerOrPropagate
    BY <1>3 DEF InnerRollback, InnerCommitFails, OuterRollback,
         OuterCommitFails, InnerCommits, OuterCommits, dbVars
  <2>2. CASE StartRun
    BY <2>1, <2>2 DEF StartRun, NewRunOrGiveUp, OkKept
  <2>3. CASE FailField
    BY <2>1, <2>3 DEF FailField, NewRunOrGiveUp, OkKept, TypeOK
  <2>4. CASE RetryInnerOrPropagate
    BY <2>1, <2>2, <2>4 DEF RetryInnerOrPropagate, SamePhaseOrEarly, OkKept
  <2> QED
    BY <2>1, <2>2, <2>3, <2>4
<1>4. CASE InnerCommitSucceeds \/ OuterCommitSucceeds
  BY <1>4 DEF InnerCommitSucceeds, OuterCommitSucceeds, OkKept
<1>5. CASE ResponseTimesOut
  BY <1>5 DEF ResponseTimesOut, dbVars, OkKept, SamePhaseOrEarly, TypeOK
<1> QED
  BY <1>1, <1>2, <1>3, <1>4, <1>5 DEF Next

(* A field told "ok" now was told so before, or is the one that resolves.    *)
LEMMA PhaseStep == TypeOK /\ PhaseInv /\ [Next]_vars => PhaseInv'
<1> SUFFICES ASSUME TypeOK, PhaseInv, [Next]_vars PROVE PhaseInv'
  OBVIOUS
<1> DEFINE Backed(f) == \E r \in Runs : /\ OuterCommitted(f, r)
                                        /\ Inner # "none" => InnerCommitted(f, r)
<1>1. ASSUME OkKept, committed \subseteq committed'
      PROVE  ToldOkMeansCommitted'
  <2>1. \A f \in Fields : Backed(f) => Backed(f)'
    BY <1>1 DEF OuterCommitted, InnerCommitted
  <2> QED
    BY <1>1, <2>1 DEF OkKept, PhaseInv, ToldOkMeansCommitted
<1>2. CASE OkKept /\ SamePhaseOrEarly
  <2>1. ToldOkMeansCommitted'
    BY <1>1, <1>2 DEF SamePhaseOrEarly
  <2>2. /\ OuterCommitted(field, run) => OuterCommitted(field, run)'
        /\ InnerCommitted(field, run) => InnerCommitted(field, run)'
    BY <1>2 DEF SamePhaseOrEarly, OuterCommitted, InnerCommitted
  <2> QED
    BY <1>2, <2>1, <2>2 DEF SamePhaseOrEarly, PhaseInv
<1>3. CASE OkKept /\ NewRunOrGiveUp
  BY <1>1, <1>3 DEF NewRunOrGiveUp, PhaseInv
<1>4. CASE OkKept /\ InnerCommitSucceeds
  <2>1. /\ pc = "innerCommit" /\ pc' = "innerHooks"
        /\ committed \subseteq committed'
        /\ InnerCommitted(field, run)'
    BY <1>4 DEF InnerCommitSucceeds, InnerCommits, InnerCommitted
  <2> QED
    BY <1>1, <1>4, <2>1 DEF PhaseInv
<1>5. CASE OkKept /\ OuterCommitSucceeds
  <2>1. /\ pc = "outerCommit" /\ pc' = "outerHooks"
        /\ committed \subseteq committed'
        /\ OuterCommitted(field, run)'
        /\ InnerCommitted(field, run) => InnerCommitted(field, run)'
    BY <1>5 DEF OuterCommitSucceeds, OuterCommits, OuterCommitted, InnerCommitted
  <2> QED
    BY <1>1, <1>5, <2>1 DEF PhaseInv
<1>6. CASE FieldResolves
  <2>1. /\ UNCHANGED committed
        /\ pc = "outerHooks" /\ pc' \in {"handler", "done"}
        /\ \A f \in Fields : response'[f] = "ok" => response[f] = "ok" \/ f = field
    BY <1>6 DEF FieldResolves, dbVars, TypeOK
  <2>2. Backed(field) /\ field \in Fields
    BY <2>1 DEF PhaseInv, TypeOK
  <2>3. \A f \in Fields : Backed(f) => Backed(f)'
    BY <2>1 DEF OuterCommitted, InnerCommitted
  <2>4. \A f \in Fields : response[f] = "ok" => Backed(f)
    BY DEF PhaseInv, ToldOkMeansCommitted
  <2>5. ToldOkMeansCommitted'
    <3> SUFFICES ASSUME NEW f \in Fields, response'[f] = "ok" PROVE Backed(f)'
      BY DEF ToldOkMeansCommitted
    <3> QED
      BY <2>1, <2>2, <2>3, <2>4
  <2> QED
    BY <2>1, <2>5 DEF PhaseInv
<1> QED
  BY <1>2, <1>3, <1>4, <1>5, <1>6, PhaseSteps

LEMMA PhaseAlways == Spec => []PhaseInv
<1>1. Init => PhaseInv
  BY DEF Init, PhaseInv, ToldOkMeansCommitted
<1> QED
  BY <1>1, PhaseStep, TypeCorrect, PTL DEF Spec

(* A client told that its mutation succeeded can rely on it: one run of the  *)
(* field committed in every engine, whatever was retried or timed out.       *)
THEOREM OkIsCommitted == Spec => []ToldOkMeansCommitted
<1>1. PhaseInv => ToldOkMeansCommitted
  BY DEF PhaseInv
<1> QED
  BY <1>1, PhaseAlways, PTL

---------------------------------------------------------------------------
(* With one engine, hooks run only after the field has committed.            *)

AnnounceInv ==
  /\ \A f \in Fields : f < field => FieldCommitted(f)
  /\ PublishedOnlyAfterCommit

LEMMA CommitsStay ==
  ASSUME TypeOK, [Next]_vars, NEW f, FieldCommitted(f)
  PROVE  FieldCommitted(f)'
<1>1. committed \subseteq committed'
  <2>1. InnerCommitSucceeds \/ OuterCommitSucceeds => committed \subseteq committed'
    BY DEF InnerCommitSucceeds, OuterCommitSucceeds, InnerCommits, OuterCommits
  <2>2. FieldResolves => UNCHANGED committed
    BY DEF FieldResolves, dbVars
  <2> QED
    BY <2>1, <2>2, PhaseSteps DEF SamePhaseOrEarly, NewRunOrGiveUp
<1>2. PICK r \in Runs : OuterCommitted(f, r)
  BY DEF FieldCommitted
<1>3. OuterCommitted(f, r)'
  BY <1>1, <1>2 DEF OuterCommitted
<1> QED
  BY <1>3 DEF FieldCommitted

(* Without an inner engine, what a hook publishes belongs to a committed field. *)
LEMMA HooksAfterCommit ==
  ASSUME TypeOK, QueueInv, FieldInv, PhaseInv, AnnounceInv, Inner = "none",
         pc \in {"innerHooks", "outerHooks"},
         NEW n \in DOMAIN registered
  PROVE  FieldCommitted(registered[n].field)
<1>1. pc = "outerHooks" /\ OuterCommitted(field, run)
  BY DEF PhaseInv
<1>2. /\ registered[n].field \in Fields /\ registered[n].field <= field
      /\ field \in Fields /\ run \in Runs /\ Fields \subseteq Nat
  BY RegisteredType DEF FieldInv, TypeOK, Fields
<1>3. registered[n].field < field \/ registered[n].field = field
  <2>1. registered[n].field \in Nat /\ field \in Nat
    BY <1>2
  <2> QED
    BY <1>2, <2>1
<1> QED
  BY <1>1, <1>2, <1>3 DEF AnnounceInv, FieldCommitted

(* An event of the queue or of the past names a registered broadcast.        *)
LEMMA PublishedSteps ==
  ASSUME TypeOK, QueueInv, [Next]_vars
  PROVE  /\ \A n \in DOMAIN registered :
              n \in DOMAIN registered' /\ registered'[n] = registered[n]
         /\ \A i \in DOMAIN published : published[i] \in DOMAIN registered
         /\ \A i \in DOMAIN published' :
              \/ i \in DOMAIN published /\ published'[i] = published[i]
              \/ /\ pc \in {"innerHooks", "outerHooks"}
                 /\ published'[i] \in DOMAIN registered
<1>1. /\ DOMAIN registered = 1 .. Len(registered)
      /\ DOMAIN published = 1 .. Len(published)
      /\ \A p \in 1 .. Len(published) : published[p] \in 1 .. Len(registered)
  BY DEF TypeOK, QueueInv, OrderedQueue
<1>2. CASE UNCHANGED <<registered, published>>
  BY <1>1, <1>2
<1>3. CASE Publish
  <2>1. /\ registered' = Append(registered, [field |-> field, run |-> run])
        /\ published' = published
    BY <1>3 DEF Publish
  <2>2. \A n \in DOMAIN registered :
          n \in DOMAIN registered' /\ registered'[n] = registered[n]
    BY <2>1 DEF TypeOK
  <2> QED
    BY <1>1, <2>1, <2>2
<1>4. CASE RunCommitHook
  <2>1. /\ registered' = registered
        /\ pc \in {"innerHooks", "outerHooks"}
        /\ afterCommit # <<>>
        /\ \/ published' = published
           \/ /\ IsEvent(Head(afterCommit))
              /\ published' = Append(published, Head(afterCommit).n)
    BY <1>4 DEF RunCommitHook, IsEvent
  <2>2. 1 \in 1 .. Len(afterCommit) /\ Head(afterCommit) = afterCommit[1]
    BY <2>1 DEF TypeOK
  <2>3. IsEvent(Head(afterCommit)) => Head(afterCommit).n \in 1 .. Len(registered)
    BY <2>2 DEF QueueInv, OrderedQueue
  <2>4. ASSUME IsEvent(Head(afterCommit)),
               published' = Append(published, Head(afterCommit).n)
        PROVE  \A i \in DOMAIN published' :
                 \/ i \in DOMAIN published /\ published'[i] = published[i]
                 \/ published'[i] \in DOMAIN registered
    <3>1. DOMAIN published' = 1 .. Len(published) + 1
      BY <2>4 DEF TypeOK
    <3>2. /\ \A i \in 1 .. Len(published) : published'[i] = published[i]
          /\ published'[Len(published) + 1] = Head(afterCommit).n
      BY <2>4 DEF TypeOK
    <3> QED
      BY <1>1, <2>3, <2>4, <3>1, <3>2
  <2> QED
    BY <1>1, <2>1, <2>4
<1> QED
  BY <1>2, <1>3, <1>4, QueueSteps DEF queue

LEMMA AnnounceStep ==
  Inner = "none" =>
    (TypeOK /\ QueueInv /\ FieldInv /\ PhaseInv /\ AnnounceInv /\ [Next]_vars
       => AnnounceInv')
<1> SUFFICES ASSUME Inner = "none", TypeOK, QueueInv, FieldInv, PhaseInv,
                    AnnounceInv, [Next]_vars
             PROVE  AnnounceInv'
  OBVIOUS
<1>1. ASSUME NEW i \in DOMAIN published'
      PROVE  \E f : /\ f = registered'[published'[i]].field
                    /\ FieldCommitted(f)
  <2>1. CASE i \in DOMAIN published /\ published'[i] = published[i]
    <3>1. FieldCommitted(registered[published[i]].field)
      BY <2>1 DEF AnnounceInv, PublishedOnlyAfterCommit
    <3>2. registered'[published'[i]] = registered[published[i]]
      BY <2>1, PublishedSteps
    <3> QED
      BY <3>1, <3>2
  <2>2. CASE pc \in {"innerHooks", "outerHooks"} /\ published'[i] \in DOMAIN registered
    <3>1. FieldCommitted(registered[published'[i]].field)
      BY <2>2, HooksAfterCommit
    <3>2. registered'[published'[i]] = registered[published'[i]]
      BY <2>2, PublishedSteps
    <3> QED
      BY <3>1, <3>2
  <2> QED
    BY <1>1, <2>1, <2>2, PublishedSteps
<1>2. PublishedOnlyAfterCommit'
  <2> SUFFICES ASSUME NEW i \in DOMAIN published'
               PROVE  FieldCommitted(registered[published[i]].field)'
    BY DEF PublishedOnlyAfterCommit
  <2>1. PICK f : f = registered'[published'[i]].field /\ FieldCommitted(f)
    BY <1>1
  <2>2. FieldCommitted(f)'
    BY <2>1, CommitsStay
  <2> QED
    BY <2>1, <2>2 DEF FieldCommitted, OuterCommitted
<1>3. ASSUME NEW f \in Fields, f < field' PROVE FieldCommitted(f)'
  <2>1. CASE field' = field
    BY <1>3, <2>1, CommitsStay DEF AnnounceInv
  <2>2. CASE FieldResolves /\ field' = field + 1
    <3>1. f < field \/ f = field
      BY <1>3, <2>2 DEF TypeOK, Fields
    <3>2. OuterCommitted(field, run) /\ run \in Runs
      BY <2>2 DEF FieldResolves, PhaseInv, TypeOK
    <3>3. FieldCommitted(f)
      BY <3>1, <3>2 DEF AnnounceInv, FieldCommitted
    <3> QED
      BY <3>3, CommitsStay
  <2>3. \/ field' = field
        \/ FieldResolves /\ field' = field + 1
    BY PhaseSteps DEF SamePhaseOrEarly, NewRunOrGiveUp, InnerCommitSucceeds,
       OuterCommitSucceeds, FieldResolves
  <2> QED
    BY <2>1, <2>2, <2>3
<1> QED
  BY <1>2, <1>3 DEF AnnounceInv

(* With Neo4j alone, no broadcast leaves before its field has committed, so  *)
(* a field that fails announces nothing.  (With a nested engine it does: the *)
(* inner commit already drains the callbacks.)                               *)
THEOREM AnnouncedIsCommitted ==
  ASSUME Inner = "none"
  PROVE  Spec => []PublishedOnlyAfterCommit
<1>1. Init => AnnounceInv
  BY DEF Init, AnnounceInv, PublishedOnlyAfterCommit, Fields
<1>2. TypeOK /\ QueueInv /\ FieldInv /\ PhaseInv /\ AnnounceInv /\ [Next]_vars
        => AnnounceInv'
  BY AnnounceStep
<1>3. AnnounceInv => PublishedOnlyAfterCommit
  BY DEF AnnounceInv
<1> QED
  BY <1>1, <1>2, <1>3, TypeCorrect, QueueAlways, FieldAlways, PhaseAlways, PTL
     DEF Spec

---------------------------------------------------------------------------
(* An operation with any number of root fields, runs, events and engines is  *)
(* an outbox: every step of MutationTx is one of EventOutbox, or none.       *)

(* What has left is a beginning of what was asked for.                       *)
PrefixInv == \A i \in DOMAIN published : published[i] = i

(* Which run of the current field may already be durable.                    *)
RunInv ==
  \A c \in committed :
    /\ c.field <= field
    /\ c.field = field => c.run <= run
    /\ c.field = field /\ pc \in {"handler", "innerUndo", "innerCommit"}
         => c.run < run

EarlierInv == \A f \in Fields : f < field => FieldCommitted(f)

(* Outside of the hooks nothing durable waits to leave, unless it became so   *)
(* with a commit that was reported as failed.                                *)
LeftInv ==
  pc \notin {"innerHooks", "outerHooks"} /\ ~lostAck =>
    \A n \in DOMAIN registered :
      registered[n].field = field /\ registered[n] \in Durable => IsPublished(n)

Known == TypeOK /\ QueueInv /\ FieldInv /\ PhaseInv
OutboxInv == PrefixInv /\ RunInv /\ EarlierInv /\ LeftInv

---------------------------------------------------------------------------
(* What steps do with all that the outbox sees.                              *)

Seen == <<registered, committed, published>>

Restarts ==
  /\ pc \in {"innerUndo", "innerCommit", "outerUndo", "outerCommit"}
  /\ pc' = "handler" /\ run' = run + 1
  /\ UNCHANGED <<field, lostAck, Seen>>

GivesUp ==
  /\ pc \in {"outerUndo", "outerCommit"} /\ pc' = "done"
  /\ UNCHANGED <<field, run, lostAck, Seen>>

Moves ==
  /\ UNCHANGED <<field, run, Seen>>
  /\ \/ UNCHANGED <<pc, lostAck>>
     \/ /\ pc = "handler"
        /\ pc' \in {"innerUndo", "innerCommit", "outerUndo", "outerCommit"}
        /\ UNCHANGED lostAck
     \/ pc \in {"innerUndo", "innerCommit"} /\ pc' = "outerUndo" /\ UNCHANGED lostAck
     \/ pc = "innerHooks" /\ pc' = "outerCommit" /\ afterCommit = <<>>

(* A commit took effect.                                                     *)
Commit ==
  /\ UNCHANGED <<field, registered, published>>
  /\ \E d \in {"inner", "outer"} :
       committed' = committed \cup {[db |-> d, field |-> field, run |-> run]}

Succeeds ==
  /\ Commit
  /\ pc \in {"innerCommit", "outerCommit"} /\ pc' \in {"innerHooks", "outerHooks"}
  /\ UNCHANGED run

Loses ==
  /\ Commit
  /\ pc \in {"innerCommit", "outerCommit"} /\ lostAck' = TRUE
  /\ \/ pc' = "handler" /\ run' = run + 1
     \/ pc' \in {"outerUndo", "done"} /\ UNCHANGED run

LEMMA OutboxSteps ==
  ASSUME [Next]_vars
  PROVE  \/ Publish \/ RunCommitHook \/ FieldResolves
         \/ Succeeds \/ Loses \/ Restarts \/ GivesUp \/ Moves
<1>1. CASE \/ \E id \in Ids : WriteAndInvalidate(id)
           \/ \E u \in Uploads, id \in Ids : CreateFileVersion(u, id)
           \/ RunRollbackHook \/ ResponseTimesOut \/ Finished \/ UNCHANGED vars
  BY <1>1 DEF WriteAndInvalidate, CreateFileVersion, RunRollbackHook,
     ResponseTimesOut, Finished, vars, dbVars, obsVars, ackVars, Moves, Seen
<1>2. CASE HandlerReturns \/ HandlerThrows
  BY <1>2 DEF HandlerReturns, HandlerThrows, AfterHandler, dbVars, obsVars,
     ackVars, Moves, Seen
<1>3. CASE InnerReturns
  BY <1>3 DEF InnerReturns, HooksAwaited, dbVars, Moves, Seen
<1>4. CASE InnerRollback
  BY <1>4 DEF InnerRollback, RetryInnerOrPropagate, StartRun, NextRun, dbVars,
     obsVars, ackVars, Moves, Restarts, Seen, runVars
<1>5. CASE OuterRollback
  BY <1>5 DEF OuterRollback, StartRun, FailField, NextRun, dbVars, obsVars,
     ackVars, GivesUp, Restarts, Seen, runVars
<1>6. CASE InnerCommitFails
  <2>1. /\ pc = "innerCommit" /\ UNCHANGED <<field, registered, published>>
        /\ \/ pc' = "handler" /\ run' = run + 1
           \/ pc' = "outerUndo" /\ run' = run
        /\ UNCHANGED <<committed, lostAck>> \/ (InnerCommits /\ lostAck' = TRUE)
    BY <1>6 DEF InnerCommitFails, RetryInnerOrPropagate, StartRun, NextRun
  <2> QED
    BY <2>1 DEF InnerCommits, Commit, Loses, Restarts, Moves, Seen
<1>7. CASE OuterCommitFails
  <2>1. /\ pc = "outerCommit" /\ UNCHANGED <<field, registered, published>>
        /\ \/ pc' = "handler" /\ run' = run + 1
           \/ pc' = "done" /\ run' = run
        /\ UNCHANGED <<committed, lostAck>> \/ (OuterCommits /\ lostAck' = TRUE)
    BY <1>7 DEF OuterCommitFails, StartRun, FailField, NextRun, dbVars, ackVars
  <2> QED
    BY <2>1 DEF OuterCommits, Commit, Loses, Restarts, GivesUp, Seen
<1>8. CASE InnerCommitSucceeds
  BY <1>8 DEF InnerCommitSucceeds, InnerCommits, Commit, Succeeds, obsVars
<1>9. CASE OuterCommitSucceeds
  BY <1>9 DEF OuterCommitSucceeds, OuterCommits, Commit, Succeeds
<1> QED
  BY <1>1, <1>2, <1>3, <1>4, <1>5, <1>6, <1>7, <1>8, <1>9 DEF Next

(* A unit is durable when an engine has committed it.                        *)
LEMMA DurableUnits ==
  ASSUME TypeOK
  PROVE  /\ \A u \in Durable : \E c \in committed : u.field = c.field /\ u.run = c.run
         /\ \A c \in committed : /\ c.field \in Fields /\ c.run \in Runs
                                 /\ [field |-> c.field, run |-> c.run] \in Durable
         /\ Durable \subseteq [field : Fields, run : Runs]
<1>1. \A c \in committed : c.field \in Fields /\ c.run \in Runs
  BY DEF TypeOK, Commits
<1>2. \A u \in Durable : \E c \in committed :
        u = [field |-> c.field, run |-> c.run]
  BY DEF Durable
<1> QED
  BY <1>1, <1>2 DEF Durable

LEMMA Numbers ==
  ASSUME TypeOK
  PROVE  /\ field \in Fields /\ run \in Runs /\ field \in Nat /\ run \in Nat
         /\ \A c \in committed : c.field \in Nat /\ c.run \in Nat
<1>1. Fields \subseteq Nat /\ Runs \subseteq Nat
  BY DEF Fields, Runs
<1>2. field \in Fields /\ run \in Runs
  BY DEF TypeOK
<1> QED
  BY <1>1, <1>2, DurableUnits

---------------------------------------------------------------------------
(* The next callback that is an event is the next event.                     *)
LEMMA NextEvent ==
  ASSUME TypeOK, QueueInv, PrefixInv, afterCommit # <<>>,
         IsEvent(Head(afterCommit))
  PROVE  /\ Head(afterCommit).n = Len(published) + 1
         /\ Len(published) + 1 \in DOMAIN registered
<1> DEFINE n == Head(afterCommit).n
<1>1. /\ 1 \in 1 .. Len(afterCommit) /\ Head(afterCommit) = afterCommit[1]
      /\ DOMAIN published = 1 .. Len(published) /\ Len(published) \in Nat
      /\ DOMAIN registered = 1 .. Len(registered) /\ Len(registered) \in Nat
  BY DEF TypeOK
<1>2. n \in 1 .. Len(registered)
  BY <1>1 DEF QueueInv, OrderedQueue
<1>3. \A i \in 1 .. Len(published) : i < n
  <2>1. \A i \in 1 .. Len(published) : published[i] < n
    BY <1>1 DEF QueueInv, OrderedQueue
  <2>2. \A i \in 1 .. Len(published) : published[i] = i
    BY <1>1 DEF PrefixInv
  <2> QED BY <2>1, <2>2
<1>4. ASSUME NEW k \in 1 .. Len(registered), k < n
      PROVE  k \in 1 .. Len(published)
  <2>1. \A i \in 1 .. Len(afterCommit) : IsEvent(afterCommit[i]) => n <= afterCommit[i].n
    <3>1. ASSUME NEW i \in 1 .. Len(afterCommit), IsEvent(afterCommit[i])
          PROVE  n <= afterCommit[i].n
      <4>1. CASE i = 1
        BY <1>1, <1>2, <4>1
      <4>2. CASE 1 < i
        BY <1>1, <1>2, <3>1, <4>2 DEF QueueInv, OrderedQueue
      <4> QED BY <4>1, <4>2
    <3> QED BY <3>1
  <2>2. ~ \E i \in 1 .. Len(afterCommit) : IsEvent(afterCommit[i]) /\ afterCommit[i].n = k
    BY <1>2, <1>4, <2>1
  <2>3. PICK p \in 1 .. Len(published) : published[p] = k
    BY <2>2 DEF QueueInv, OrderedQueue
  <2> QED BY <1>1, <2>3 DEF PrefixInv
<1>5. ~ (Len(published) + 1 < n)
  BY <1>1, <1>2, <1>4
<1> QED BY <1>1, <1>2, <1>3, <1>5

(* A callback that runs publishes the next event, or none.                   *)
LEMMA HookSteps ==
  ASSUME Known, PrefixInv, RunCommitHook
  PROVE  /\ UNCHANGED <<field, run, pc, registered, committed>>
         /\ pc \in {"innerHooks", "outerHooks"}
         /\ \/ UNCHANGED published
            \/ /\ published' = Append(published, Len(published) + 1)
               /\ Len(published) + 1 \in DOMAIN registered
  BY NextEvent DEF RunCommitHook, IsEvent, dbVars, Known

LEMMA PrefixStep == Known /\ PrefixInv /\ [Next]_vars => PrefixInv'
<1> SUFFICES ASSUME Known, PrefixInv, [Next]_vars PROVE PrefixInv'
  OBVIOUS
<1>1. CASE UNCHANGED published
  BY <1>1 DEF PrefixInv
<1>2. CASE published' = Append(published, Len(published) + 1)
  <2>1. published \in Seq(Nat \ {0}) /\ DOMAIN published = 1 .. Len(published)
    BY DEF Known, TypeOK
  <2>2. /\ DOMAIN published' = 1 .. Len(published) + 1
        /\ \A i \in 1 .. Len(published) : published'[i] = published[i]
        /\ published'[Len(published) + 1] = Len(published) + 1
    BY <1>2, <2>1
  <2> QED BY <2>1, <2>2 DEF PrefixInv
<1>3. CASE RunCommitHook
  BY <1>1, <1>2, <1>3, HookSteps
<1> QED
  BY <1>1, <1>3, QueueSteps DEF queue, Publish

LEMMA RunStep == Known /\ RunInv /\ PrefixInv /\ [Next]_vars => RunInv'
<1> SUFFICES ASSUME Known, RunInv, PrefixInv, [Next]_vars PROVE RunInv'
  OBVIOUS
<1>1. /\ field \in Nat /\ run \in Nat
      /\ \A c \in committed : c.field \in Nat /\ c.run \in Nat
  BY Numbers DEF Known
<1>2. CASE UNCHANGED <<field, run, pc, committed>>
  BY <1>2 DEF RunInv
<1>3. CASE Publish
  BY <1>2, <1>3 DEF Publish, dbVars
<1>4. CASE RunCommitHook
  BY <1>2, <1>4, HookSteps
<1>5. CASE FieldResolves
  BY <1>1, <1>5 DEF FieldResolves, dbVars, RunInv
<1>6. CASE Succeeds \/ Loses
  <2>1. PICK d \in {"inner", "outer"} :
          committed' = committed \cup {[db |-> d, field |-> field, run |-> run]}
    BY <1>6 DEF Succeeds, Loses, Commit
  <2>2. \A c \in committed' : c \in committed \/ (c.field = field /\ c.run = run)
    BY <2>1
  <2>3. field' = field /\ (run' = run \/ (pc' = "handler" /\ run' = run + 1))
    BY <1>6 DEF Succeeds, Loses, Commit
  <2>4. pc' = "handler" => run' = run + 1
    BY <1>6 DEF Succeeds, Loses
  <2>5. pc' \notin {"innerUndo", "innerCommit"}
    BY <1>6 DEF Succeeds, Loses
  <2> QED
    BY <1>1, <2>2, <2>3, <2>4, <2>5 DEF RunInv
<1>7. CASE Restarts \/ GivesUp \/ Moves
  BY <1>1, <1>7 DEF Restarts, GivesUp, Moves, Seen, RunInv
<1> QED
  BY <1>3, <1>4, <1>5, <1>6, <1>7, OutboxSteps

LEMMA EarlierStep == Known /\ EarlierInv /\ PrefixInv /\ [Next]_vars => EarlierInv'
<1> SUFFICES ASSUME Known, EarlierInv, PrefixInv, [Next]_vars,
                    NEW f \in Fields, f < field'
             PROVE  FieldCommitted(f)'
  BY DEF EarlierInv
<1>1. CASE f < field
  BY <1>1, CommitsStay DEF EarlierInv, Known
<1>2. CASE FieldResolves /\ f = field
  <2>1. FieldCommitted(f)
    BY <1>2 DEF FieldResolves, Known, PhaseInv, TypeOK, FieldCommitted
  <2> QED BY <2>1, CommitsStay DEF Known
<1>3. f < field \/ (FieldResolves /\ f = field)
  <2>1. field' = field \/ (FieldResolves /\ field' = field + 1)
    BY OutboxSteps, HookSteps
    DEF Publish, FieldResolves, Succeeds, Loses, Commit, Restarts, GivesUp, Moves
  <2>2. f \in Nat /\ field \in Nat
    BY DEF Known, TypeOK, Fields
  <2> QED BY <2>1, <2>2
<1> QED
  BY <1>1, <1>2, <1>3

LEMMA LeftStep == Known /\ OutboxInv /\ [Next]_vars => LeftInv'
<1> SUFFICES ASSUME Known, OutboxInv, [Next]_vars PROVE LeftInv'
  OBVIOUS
<1>0. \A n : IsPublished(n) => IsPublished(n)'
  BY PublishedForever DEF Known
<1>1. CASE /\ UNCHANGED <<field, registered, committed, lostAck>>
           /\ pc \notin {"innerHooks", "outerHooks"}
  BY <1>0, <1>1 DEF LeftInv, Durable, OutboxInv
<1>2. CASE UNCHANGED <<field, registered, published>> /\ afterCommit = <<>>
  BY <1>2, DrainedMeansPublished DEF LeftInv, Known, IsPublished
<1>3. CASE pc' \in {"innerHooks", "outerHooks"}
  BY <1>3 DEF LeftInv
<1>4. CASE Publish
  <2>1. /\ UNCHANGED <<field, run, pc, committed, lostAck>> /\ pc = "handler"
        /\ registered' = Append(registered, [field |-> field, run |-> run])
    BY <1>4 DEF Publish, dbVars, ackVars
  <2>2. [field |-> field, run |-> run] \notin Durable
    <3>1. \A c \in committed : c.field = field => c.run # run
      <4>1. \A c \in committed : c.field = field => c.run < run
        BY <2>1 DEF OutboxInv, RunInv
      <4> QED BY <4>1, Numbers DEF Known
    <3> QED BY <3>1, DurableUnits DEF Known
  <2>3. Durable' = Durable
    BY <2>1 DEF Durable
  <2>4. ASSUME NEW n \in DOMAIN registered', registered'[n] \in Durable
        PROVE  n \in DOMAIN registered /\ registered[n] = registered'[n]
    BY <2>1, <2>2, <2>4 DEF Known, TypeOK
  <2> QED BY <1>0, <2>1, <2>3, <2>4 DEF LeftInv, OutboxInv
<1>5. CASE RunCommitHook
  BY <1>3, <1>5, HookSteps DEF OutboxInv
<1>6. CASE FieldResolves
  <2>1. afterCommit = <<>> /\ UNCHANGED <<registered, published>>
    BY <1>6 DEF FieldResolves, HooksAwaited
  <2> QED BY <2>1, DrainedMeansPublished DEF LeftInv, Known, IsPublished
<1>7. CASE Succeeds \/ Loses
  BY <1>3, <1>7 DEF Succeeds, Loses, LeftInv
<1>8. CASE Restarts \/ GivesUp
  BY <1>1, <1>8 DEF Restarts, GivesUp, Seen
<1>9. CASE Moves
  BY <1>1, <1>2, <1>3, <1>9 DEF Moves, Seen
<1> QED
  BY <1>4, <1>5, <1>6, <1>7, <1>8, <1>9, OutboxSteps

LEMMA OutboxAlways == Spec => [](Known /\ OutboxInv)
<1>1. Init => OutboxInv
  BY DEF Init, OutboxInv, PrefixInv, RunInv, EarlierInv, LeftInv, Fields
<1>2. Known /\ OutboxInv /\ [Next]_vars => OutboxInv'
  BY PrefixStep, RunStep, EarlierStep, LeftStep DEF OutboxInv
<1>3. TypeOK /\ QueueInv /\ FieldInv /\ PhaseInv => Known
  BY DEF Known
<1> QED
  BY <1>1, <1>2, <1>3, TypeCorrect, QueueAlways, FieldAlways, PhaseAlways, PTL
  DEF Spec

---------------------------------------------------------------------------
(* The steps of the outbox.                                                  *)

LEMMA Asks ==
  ASSUME Known, OutboxInv, Publish
  PROVE  Outbox!Next
<1> DEFINE u == [field |-> field, run |-> run]
<1>1. /\ u \in Outbox!Units /\ field \in Nat
      /\ \A c \in committed : c.run \in Nat
  BY Numbers DEF Known, Outbox!Units
<1>2. /\ UNCHANGED <<field, run, pc, committed, published, lostAck>>
      /\ pc = "handler"
      /\ registered' = Append(registered, u)
  BY DEF Publish, dbVars, ackVars
<1>3. Durable' = Durable /\ Over' = Over
  BY <1>2 DEF Durable, Over
<1>4. field \notin Over
  BY <1>1, <1>2 DEF Over
<1>5. u \notin Durable
  <2>1. \A c \in committed : c.field = field => c.run < run
    BY <1>2 DEF OutboxInv, RunInv
  <2> QED BY <1>1, <2>1, Numbers, DurableUnits DEF Known
<1>6. Outbox!Ask(u)
  BY <1>2, <1>3, <1>4, <1>5 DEF Outbox!Ask
<1> QED BY <1>1, <1>6 DEF Outbox!Next

LEMMA Persists ==
  ASSUME Known, Succeeds \/ Loses
  PROVE  Outbox!Next
<1> DEFINE u == [field |-> field, run |-> run]
<1>1. u \in Outbox!Units /\ field \in Nat
  BY DEF Known, TypeOK, Outbox!Units, Fields
<1>2. /\ UNCHANGED <<field, registered, published>>
      /\ pc # "done" /\ (pc' # "done" \/ lostAck')
      /\ \E d \in {"inner", "outer"} :
           committed' = committed \cup {[db |-> d, field |-> field, run |-> run]}
  BY DEF Succeeds, Loses, Commit
<1>3. Durable' = Durable \cup {u}
  <2>1. PICK d \in {"inner", "outer"} :
          committed' = committed \cup {[db |-> d, field |-> field, run |-> run]}
    BY <1>2
  <2> DEFINE c == [db |-> d, field |-> field, run |-> run]
  <2>2. c.field = field /\ c.run = run
    OBVIOUS
  <2> HIDE DEF c
  <2>3. \A x : x \in Durable' <=> x \in Durable \/ x = u
    BY <1>2, <2>1, <2>2 DEF Durable, c
  <2> QED BY <2>3
<1>4. Over' = Over /\ field \notin Over
  BY <1>1, <1>2 DEF Over
<1>5. Outbox!Persist(u)
  BY <1>2, <1>3, <1>4 DEF Outbox!Persist
<1> QED BY <1>1, <1>5 DEF Outbox!Next

LEMMA Sends ==
  ASSUME Known, OutboxInv, RunCommitHook
  PROVE  Outbox!Next \/ UNCHANGED Outbox!vars
<1>1. /\ UNCHANGED <<field, run, pc, registered, committed, lostAck>>
      /\ pc \in {"innerHooks", "outerHooks"}
      /\ \/ UNCHANGED published
         \/ /\ published' = Append(published, Len(published) + 1)
            /\ Len(published) + 1 \in DOMAIN registered
  BY HookSteps DEF OutboxInv, RunCommitHook, ackVars
<1>2. Durable' = Durable /\ Over' = Over
  BY <1>1 DEF Durable, Over
<1>3. CASE UNCHANGED published
  BY <1>1, <1>2, <1>3 DEF Outbox!vars
<1>4. CASE /\ published' = Append(published, Len(published) + 1)
           /\ Len(published) + 1 \in DOMAIN registered
  <2> DEFINE n == Len(published) + 1
  <2>1. /\ registered[n].field \in Fields /\ registered[n].field <= field
        /\ Fields \subseteq Nat /\ field \in Fields /\ run \in Runs
    BY <1>4, RegisteredType DEF Known, FieldInv, TypeOK, Fields
  <2>2. \E c \in committed : c.field = registered[n].field
    <3>1. CASE registered[n].field < field
      BY <2>1, <3>1 DEF OutboxInv, EarlierInv, FieldCommitted, OuterCommitted
    <3>2. CASE registered[n].field = field
      <4>1. OuterCommitted(field, run) \/ InnerCommitted(field, run)
        BY <1>1, <2>1 DEF Known, PhaseInv
      <4> QED BY <3>2, <4>1 DEF OuterCommitted, InnerCommitted
    <3>3. registered[n].field < field \/ registered[n].field = field
      <4>1. registered[n].field \in Nat /\ field \in Nat
        BY <2>1
      <4> QED BY <2>1, <4>1
    <3> QED BY <3>1, <3>2, <3>3
  <2>3. \E u \in Durable : u.field = registered[n].field
    BY <2>2, DurableUnits DEF Known
  <2>4. Len(published) < Len(registered)
    BY <1>4 DEF Known, TypeOK
  <2>5. Outbox!Send
    BY <1>1, <1>2, <1>4, <2>3, <2>4 DEF Outbox!Send
  <2> QED BY <2>5 DEF Outbox!Next
<1> QED BY <1>1, <1>3, <1>4

(* What was published is among what has left.                                *)
LEMMA LeftByCount ==
  ASSUME Known, PrefixInv, NEW n, IsPublished(n)
  PROVE  n <= Len(published)
<1>1. DOMAIN published = 1 .. Len(published) /\ Len(published) \in Nat
  BY DEF Known, TypeOK
<1> QED BY <1>1 DEF PrefixInv, IsPublished

LEMMA Finishes ==
  ASSUME Known, OutboxInv, FieldResolves \/ (GivesUp /\ ~lostAck)
  PROVE  Outbox!Next
<1>1. field \in Fields /\ field \in Nat /\ Fields \subseteq Nat
  BY DEF Known, TypeOK, Fields
<1>2. /\ UNCHANGED Seen /\ pc # "done" /\ ~lostAck'
      /\ \/ field' = field + 1 /\ pc' = "handler"
         \/ field' = field /\ pc' = "done"
  BY DEF FieldResolves, GivesUp, dbVars, Seen
<1>3. field \notin Over /\ Over' = Over \cup {field}
  <2>1. field \notin Over
    BY <1>1, <1>2 DEF Over
  <2>2. \A f \in Fields : f \in Over' <=> f \in Over \/ f = field
    <3>1. CASE field' = field + 1 /\ pc' = "handler"
      BY <1>1, <1>2, <3>1 DEF Over
    <3>2. CASE field' = field /\ pc' = "done"
      BY <1>1, <1>2, <3>2 DEF Over
    <3> QED BY <1>2, <3>1, <3>2
  <2>3. Over \subseteq Fields /\ Over' \subseteq Fields
    BY DEF Over, Fields
  <2> QED BY <1>1, <2>1, <2>2, <2>3
<1>4. ASSUME NEW n \in DOMAIN registered, registered[n].field = field,
             registered[n] \in Durable
      PROVE  n <= Len(published)
  <2>1. CASE FieldResolves
    <3>1. afterCommit = <<>>
      BY <2>1 DEF FieldResolves, HooksAwaited
    <3> QED BY <3>1, DrainedMeansPublished, LeftByCount DEF Known, OutboxInv
  <2>2. CASE GivesUp /\ ~lostAck
    BY <1>4, <2>2, LeftByCount DEF GivesUp, OutboxInv, LeftInv
  <2> QED BY <2>1, <2>2
<1>5. Durable' = Durable
  BY <1>2 DEF Durable, Seen
<1>6. Outbox!Finish(field)
  BY <1>2, <1>3, <1>4, <1>5 DEF Outbox!Finish, Seen
<1> QED BY <1>1, <1>6 DEF Outbox!Next

(* However many fields, runs, engines, retries and timeouts an operation     *)
(* has, it does with its broadcasts what the outbox does: nothing leaves     *)
(* before something of its field is durable, in another order or twice, and  *)
(* no field ends owing one.                                                  *)
THEOREM OperationIsOutbox == Spec => ImplementsOutbox
<1>1. Init => Outbox!Init
  BY DEF Init, Outbox!Init, Durable, Over, Fields
<1>2. Known /\ OutboxInv /\ [Next]_vars => [Outbox!Next]_(Outbox!vars)
  <2> SUFFICES ASSUME Known, OutboxInv, [Next]_vars
               PROVE  Outbox!Next \/ UNCHANGED Outbox!vars
    OBVIOUS
  <2>1. CASE Restarts \/ Moves \/ (GivesUp /\ lostAck)
    <3>1. /\ UNCHANGED <<field, Seen>>
          /\ pc = "done" /\ ~lostAck <=> (pc = "done" /\ ~lostAck)'
      BY <2>1 DEF Restarts, Moves, GivesUp
    <3> QED BY <3>1 DEF Outbox!vars, Durable, Over, Seen
  <2> QED
    BY <2>1, Asks, Persists, Sends, Finishes, OutboxSteps
<1> QED
  BY <1>1, <1>2, OutboxAlways, PTL DEF Spec, ImplementsOutbox, Outbox!Spec

(* A field that is over has published all that its committed runs broadcast,  *)
(* those included whose commit was taken for a failure and retried.           *)
THEOREM NothingLost == Spec => []NoCommittedEventLost
<1>1. Known /\ OutboxInv => NoCommittedEventLost
  <2> SUFFICES ASSUME Known, OutboxInv, NEW n \in DOMAIN registered,
                      OuterCommitted(registered[n].field, registered[n].run),
                      registered[n].field < field \/ (pc = "done" /\ ~lostAck)
               PROVE  IsPublished(n)
    BY DEF NoCommittedEventLost
  <2>1. CASE registered[n].field < field
    BY <2>1 DEF Known, FieldInv
  <2>2. CASE registered[n].field = field /\ pc = "done" /\ ~lostAck
    <3>1. registered[n] \in [field : Fields, run : Runs]
      BY ElementOfSeq DEF Known, TypeOK
    <3>2. registered[n] = [field |-> registered[n].field, run |-> registered[n].run]
      BY <3>1
    <3>3. registered[n] \in Durable
      BY <3>2 DEF Durable, OuterCommitted
    <3> QED
      BY <2>2, <3>3 DEF OutboxInv, LeftInv
  <2>3. registered[n].field < field \/ registered[n].field = field
    <3>1. registered[n].field \in Nat /\ field \in Nat
      BY RegisteredType, Numbers DEF Known, Fields
    <3> QED BY <3>1 DEF Known, FieldInv
  <2> QED
    BY <2>1, <2>2, <2>3
<1> QED
  BY <1>1, OutboxAlways, PTL

---------------------------------------------------------------------------
(* Uploads of an operation with one root field.                              *)

(* The run that may still commit has its uploads in place, and none of an     *)
(* earlier field's can be moved back.                                        *)
FilesInv ==
  /\ pc \notin {"innerUndo", "outerUndo", "done"} =>
       \A u \in runNodes : place[u] = "final"
  /\ nodes \subseteq lostNodes \/ pc \in {"outerHooks", "done"}
  /\ CommittedFileInPlace

LEMMA FilesStep ==
  ASSUME NumFields = 1, TypeOK, FilesInv, [Next]_vars
  PROVE  FilesInv'
<1>0. /\ place \in [Uploads -> {"temp", "final"}] /\ IsLastField
      /\ runNodes \subseteq Uploads
  BY DEF TypeOK, IsLastField, Fields
<1>1. CASE UNCHANGED <<pc, runNodes, nodes, lostNodes, place>>
  BY <1>1 DEF FilesInv, CommittedFileInPlace
<1>2. CASE \/ Publish \/ RunCommitHook \/ ResponseTimesOut \/ Finished
           \/ \E id \in Ids : WriteAndInvalidate(id)
           \/ UNCHANGED vars
  BY <1>1, <1>2 DEF Publish, RunCommitHook, ResponseTimesOut, Finished,
     WriteAndInvalidate, vars, dbVars, runVars, obsVars, ackVars
<1>3. ASSUME NEW u \in Uploads, NEW id \in Ids, CreateFileVersion(u, id)
      PROVE  FilesInv'
  <2>1. /\ pc = "handler" /\ pc' = pc /\ runNodes' = runNodes \cup {u} /\ nodes' = nodes
        /\ lostNodes' = lostNodes
        /\ \/ place' = [place EXCEPT ![u] = "final"]
           \/ place[u] # "temp" /\ place' = place
    BY <1>3 DEF CreateFileVersion, NeedsMove, dbVars, obsVars, ackVars
  <2>2. place'[u] = "final" /\ \A x \in Uploads : x # u => place'[x] = place[x]
    BY <1>0, <2>1
  <2> QED BY <1>0, <2>1, <2>2 DEF FilesInv, CommittedFileInPlace
<1>4. CASE HandlerReturns \/ HandlerThrows \/ InnerReturns
  BY <1>4 DEF HandlerReturns, HandlerThrows, InnerReturns, AfterHandler, runVars,
     dbVars, obsVars, ackVars, FilesInv, CommittedFileInPlace
<1>5. CASE RunRollbackHook
  BY <1>5 DEF RunRollbackHook, runVars, dbVars, obsVars, ackVars, FilesInv,
     CommittedFileInPlace
<1>6. CASE \/ InnerRollback \/ InnerCommitFails
           \/ OuterRollback \/ OuterCommitFails
  <2>1. /\ UNCHANGED place /\ pc \notin {"outerHooks", "done"}
        /\ runNodes' = {} \/ pc' \in {"outerUndo", "done"}
        /\ \/ UNCHANGED <<nodes, lostNodes>>
           \/ nodes' = nodes \cup runNodes /\ lostNodes' = lostNodes \cup runNodes
    BY <1>6 DEF InnerRollback, InnerCommitFails, OuterRollback, OuterCommitFails,
       RetryInnerOrPropagate, StartRun, FailField, OuterCommits, dbVars, obsVars,
       ackVars
  <2> QED BY <2>1 DEF FilesInv, CommittedFileInPlace
<1>7. CASE InnerCommitSucceeds \/ OuterCommitSucceeds
  <2>1. UNCHANGED <<place, runNodes, lostNodes>> /\ pc \in {"innerCommit", "outerCommit"}
    BY <1>7 DEF InnerCommitSucceeds, OuterCommitSucceeds, runVars, obsVars, ackVars
  <2>2. \/ UNCHANGED nodes /\ pc' = "innerHooks"
        \/ nodes' = nodes \cup runNodes /\ pc' = "outerHooks"
    BY <1>7 DEF InnerCommitSucceeds, OuterCommitSucceeds, OuterCommits
  <2> QED BY <2>1, <2>2 DEF FilesInv, CommittedFileInPlace
<1>8. CASE FieldResolves
  BY <1>0, <1>8 DEF FieldResolves, runVars, dbVars, FilesInv, CommittedFileInPlace
<1> QED BY <1>2, <1>3, <1>4, <1>5, <1>6, <1>7, <1>8 DEF Next

(* Whatever sequence of moves, undone moves and retries led to the commit of  *)
(* the one root field, its files are where the nodes say whose commit the    *)
(* driver was told of.  (With a second    *)
(* root field this fails: MutationTx_upload_undone.cfg.)                      *)
THEOREM FilesStayInPlace ==
  ASSUME NumFields = 1
  PROVE  Spec => []CommittedFileInPlace
<1>1. Init => FilesInv
  BY DEF Init, FilesInv, CommittedFileInPlace
<1>2. TypeOK /\ FilesInv /\ [Next]_vars => FilesInv'
  BY FilesStep
<1>3. FilesInv => CommittedFileInPlace
  BY DEF FilesInv
<1> QED BY <1>1, <1>2, <1>3, TypeCorrect, PTL DEF Spec

---------------------------------------------------------------------------
(* Live queries of an operation with one root field, and Neo4j alone.         *)

Queued(cb) == \E i \in DOMAIN afterCommit : afterCommit[i] = cb

(* What became stale with the commit is on its way to be invalidated.         *)
FreshInv ==
  /\ runIds \subseteq idList
  /\ listCached \/ idList = {}
  /\ stale \subseteq idList
  /\ pc \notin {"outerHooks", "done"} =>
       (lostAck \/ stale = {}) /\ (listCached => Queued(FlushCallback))
  /\ pc = "outerHooks" => \A id \in stale :
       \/ id \in idList /\ Queued(FlushCallback)
       \/ \E ids \in SUBSET Ids : id \in ids /\ Queued(MessageCallback(ids))
  /\ LiveQueriesFresh

(* A callback that was added is in the queue, and all others stay.            *)
LEMMA AddedIsQueued ==
  ASSUME afterCommit \in Seq(Callbacks), NEW cb \in Callbacks,
         afterCommit' = Added(afterCommit, cb)
  PROVE  Queued(cb)' /\ \A c : Queued(c) => Queued(c)'
<1>1. /\ DOMAIN afterCommit = 1 .. Len(afterCommit) /\ Len(afterCommit) \in Nat
      /\ DOMAIN afterCommit' = 1 .. Len(afterCommit) + 1
      /\ afterCommit'[Len(afterCommit) + 1] = cb
      /\ \A i \in 1 .. Len(afterCommit) : afterCommit'[i] = afterCommit[i]
  BY DEF Added
<1>2. 1 .. Len(afterCommit) \subseteq 1 .. Len(afterCommit) + 1
      /\ Len(afterCommit) + 1 \in 1 .. Len(afterCommit) + 1
  BY <1>1
<1>3. Queued(cb)'
  BY <1>1, <1>2 DEF Queued
<1>4. ASSUME NEW c, Queued(c) PROVE Queued(c)'
  BY <1>1, <1>2, <1>4 DEF Queued
<1> QED BY <1>3, <1>4

LEMMA AddedMeans ==
  ASSUME NEW q \in Seq(Callbacks), NEW cb \in Callbacks
  PROVE  /\ DOMAIN q = 1 .. Len(q) /\ Len(q) \in Nat
         /\ DOMAIN Added(q, cb) = 1 .. Len(q) + 1
         /\ Added(q, cb)[Len(q) + 1] = cb
         /\ \A i \in 1 .. Len(q) : Added(q, cb)[i] = q[i]
  BY DEF Added

(* Clearing the head leaves the callbacks behind it.                          *)
LEMMA ClearedKeeps ==
  ASSUME NEW q \in Seq(Callbacks), q # <<>>, NEW i \in DOMAIN q, q[i] # Head(q)
  PROVE  /\ Cleared(q) \in Seq(Callbacks)
         /\ \E j \in DOMAIN Cleared(q) : Cleared(q)[j] = q[i]
<1>1. i \in 1 .. Len(q) /\ DOMAIN Tail(q) = 1 .. Len(Tail(q))
  BY TailShift
<1> QED BY <1>1, TailShift DEF Cleared

LEMMA FreshHook ==
  ASSUME NumFields = 1, Inner = "none", TypeOK, PhaseInv, FreshInv, RunCommitHook
  PROVE  FreshInv'
<1>0. afterCommit \in Seq(Callbacks) /\ afterCommit # <<>>
      /\ pc = "outerHooks" /\ idList \in SUBSET Ids
      /\ UNCHANGED <<pc, runIds, idList, listCached, lostAck>>
  BY DEF TypeOK, RunCommitHook, PhaseInv, runVars, ackVars
<1> DEFINE head == Head(afterCommit)
<1>1. CASE head.kind = "event" \/ head.kind = "message"
  <2>1. afterCommit' = Cleared(afterCommit)
        /\ (head.kind = "event" => stale' = stale)
        /\ (head.kind = "message" => stale' = stale \ head.ids)
    BY <1>1 DEF RunCommitHook
  <2>2. \A c : Queued(c) /\ c # head => Queued(c)'
    BY <1>0, <2>1, ClearedKeeps DEF Queued
  <2>3. head # FlushCallback
    BY <1>1 DEF FlushCallback
  <2>4. ASSUME NEW id \in stale', NEW ids \in SUBSET Ids, id \in ids,
               Queued(MessageCallback(ids))
        PROVE  Queued(MessageCallback(ids))'
    <3>1. CASE head = MessageCallback(ids)
      <4>1. head.kind = "message" /\ head.ids = ids
        BY <3>1 DEF MessageCallback
      <4> QED BY <2>1, <2>4, <4>1
    <3>2. CASE head # MessageCallback(ids)
      BY <2>2, <2>4, <3>2
    <3> QED BY <3>1, <3>2
  <2>5. stale' \subseteq stale
    BY <1>1, <2>1
  <2>6. ASSUME NEW id \in stale'
        PROVE  \/ id \in idList' /\ Queued(FlushCallback)'
               \/ \E ids \in SUBSET Ids : id \in ids /\ Queued(MessageCallback(ids))'
    <3>1. CASE id \in idList /\ Queued(FlushCallback)
      BY <1>0, <2>2, <2>3, <3>1
    <3>2. CASE \E ids \in SUBSET Ids : id \in ids /\ Queued(MessageCallback(ids))
      BY <2>4, <3>2
    <3> QED BY <1>0, <2>5, <3>1, <3>2 DEF FreshInv
  <2> QED BY <1>0, <2>5, <2>6 DEF FreshInv, LiveQueriesFresh
<1>2. CASE head.kind = "flush"
  <2>1. /\ afterCommit' = Added(Cleared(afterCommit), MessageCallback(idList))
        /\ stale' = stale
    BY <1>2 DEF RunCommitHook
  <2>2. MessageCallback(idList) \in Callbacks
    BY <1>0, CallbackTypes
  <2>3. Cleared(afterCommit) \in Seq(Callbacks)
    BY <1>0, QueueType
  <2> DEFINE q == Cleared(afterCommit)
  <2>4. /\ DOMAIN q = 1 .. Len(q) /\ Len(q) \in Nat
        /\ DOMAIN afterCommit' = 1 .. Len(q) + 1
        /\ afterCommit'[Len(q) + 1] = MessageCallback(idList)
        /\ \A i \in 1 .. Len(q) : afterCommit'[i] = q[i]
    BY <2>1, <2>2, <2>3, AddedMeans
  <2>5. \A ids \in SUBSET Ids : ids = idList => Queued(MessageCallback(ids))'
    <3>1. Len(q) + 1 \in DOMAIN afterCommit'
      BY <2>4
    <3> QED BY <2>4, <3>1 DEF Queued
  <2>6. ASSUME NEW c, Queued(c), c # head PROVE Queued(c)'
    <3>1. PICK i \in DOMAIN afterCommit : afterCommit[i] = c
      BY <2>6 DEF Queued
    <3>2. \E j \in DOMAIN q : q[j] = c
      BY <1>0, <2>6, <3>1, ClearedKeeps
    <3> QED BY <2>4, <3>2 DEF Queued
  <2>7. ASSUME NEW id \in stale'
        PROVE  \E ids \in SUBSET Ids : id \in ids /\ Queued(MessageCallback(ids))'
    <3>1. CASE id \in idList
      BY <1>0, <2>5, <3>1
    <3>2. CASE \E ids \in SUBSET Ids : id \in ids /\ Queued(MessageCallback(ids))
      <4>1. PICK ids \in SUBSET Ids : id \in ids /\ Queued(MessageCallback(ids))
        BY <3>2
      <4>2. MessageCallback(ids) # head
        BY <1>2 DEF MessageCallback
      <4> QED BY <2>6, <4>1, <4>2
    <3> QED BY <1>0, <2>1, <3>1, <3>2 DEF FreshInv
  <2> QED BY <1>0, <2>1, <2>7 DEF FreshInv, LiveQueriesFresh
<1> QED BY <1>1, <1>2 DEF RunCommitHook

LEMMA FreshStep ==
  ASSUME NumFields = 1, Inner = "none", TypeOK, PhaseInv, FreshInv, [Next]_vars
  PROVE  FreshInv'
<1>0. /\ afterCommit \in Seq(Callbacks) /\ IsLastField /\ listCached \in BOOLEAN
      /\ pc \notin {"innerUndo", "innerCommit", "innerHooks"}
  BY DEF TypeOK, IsLastField, Fields, PhaseInv
<1>1. ASSUME NEW id \in Ids, pc = "handler", pc' = pc, AddToIdList(id),
             UNCHANGED <<stale, lostAck>>
      PROVE  FreshInv'
  <2>1. /\ listCached' = TRUE /\ idList' = idList \cup {id} /\ runIds' = runIds \cup {id}
        /\ afterCommit' = IF listCached THEN afterCommit
                                        ELSE Added(afterCommit, FlushCallback)
    BY <1>1 DEF AddToIdList, Listed
  <2>2. Queued(FlushCallback)'
    <3>1. CASE listCached
      BY <1>1, <2>1, <3>1 DEF FreshInv, Queued
    <3>2. CASE ~listCached
      BY <1>0, <2>1, <3>2, AddedIsQueued, CallbackTypes
    <3> QED BY <3>1, <3>2
  <2> QED BY <1>1, <2>1, <2>2 DEF FreshInv, LiveQueriesFresh
<1>2. CASE Publish
  <2>1. afterCommit' = Added(afterCommit, EventCallback(Len(registered) + 1))
        /\ pc = "handler" /\ UNCHANGED <<pc, listCached, idList, runIds, stale, lostAck>>
    BY <1>2 DEF Publish, runVars, ackVars
  <2>2. EventCallback(Len(registered) + 1) \in Callbacks
    <3>1. Len(registered) + 1 \in Nat \ {0}
      BY DEF TypeOK
    <3> QED BY <3>1, CallbackTypes
  <2>3. \A c : Queued(c) => Queued(c)'
    BY <1>0, <2>1, <2>2, AddedIsQueued
  <2> QED BY <2>1, <2>3 DEF FreshInv, LiveQueriesFresh
<1>3. CASE \/ \E id \in Ids : WriteAndInvalidate(id)
           \/ \E u \in Uploads, id \in Ids : CreateFileVersion(u, id)
  BY <1>1, <1>3 DEF WriteAndInvalidate, CreateFileVersion, obsVars, ackVars
<1>4. CASE HandlerReturns \/ HandlerThrows \/ RunRollbackHook
  BY <1>0, <1>4 DEF HandlerReturns, HandlerThrows, RunRollbackHook, AfterHandler,
     hookVars, runVars, obsVars, ackVars, FreshInv, LiveQueriesFresh, Queued
<1>5. CASE OuterRollback \/ OuterCommitFails
  <2>1. /\ UNCHANGED <<afterCommit, listCached, idList>>
        /\ pc \notin {"outerHooks", "done"}
        /\ (pc' = "handler" /\ runIds' = {}) \/ (pc' = "done" /\ runIds' = runIds)
        /\ \/ UNCHANGED <<stale, lostAck>>
           \/ stale' = stale \cup runIds /\ lostAck' = TRUE
    BY <1>5 DEF OuterRollback, OuterCommitFails, OuterCommits, StartRun,
       FailField, hookVars, runVars, obsVars, ackVars
  <2> QED BY <2>1 DEF FreshInv, LiveQueriesFresh, Queued
<1>6. CASE OuterCommitSucceeds
  <2>1. /\ UNCHANGED <<afterCommit, listCached, idList, runIds, lostAck>>
        /\ pc = "outerCommit" /\ pc' = "outerHooks" /\ stale' = stale \cup runIds
    BY <1>6 DEF OuterCommitSucceeds, OuterCommits, hookVars, runVars, ackVars
  <2>2. stale' \subseteq idList
    BY <2>1 DEF FreshInv
  <2>3. stale' # {} => Queued(FlushCallback)
    BY <2>1, <2>2 DEF FreshInv
  <2> QED BY <2>1, <2>2, <2>3 DEF FreshInv, LiveQueriesFresh, Queued
<1>7. CASE RunCommitHook
  BY <1>7, FreshHook
<1>8. CASE FieldResolves
  <2>1. /\ pc = "outerHooks" /\ pc' = "done" /\ afterCommit = <<>>
        /\ UNCHANGED <<listCached, idList, runIds, stale>>
    BY <1>0, <1>8 DEF FieldResolves, HooksAwaited, hookVars, runVars
  <2>2. \A c : ~Queued(c)
    BY <2>1 DEF Queued
  <2> QED BY <2>1, <2>2 DEF FreshInv, LiveQueriesFresh
<1>9. CASE ResponseTimesOut \/ Finished \/ UNCHANGED vars
  BY <1>9 DEF ResponseTimesOut, Finished, vars, hookVars, runVars, obsVars,
     ackVars, FreshInv, LiveQueriesFresh, Queued
<1>10. ~(InnerRollback \/ InnerCommitFails \/ InnerCommitSucceeds \/ InnerReturns)
  BY <1>0 DEF InnerRollback, InnerCommitFails, InnerCommitSucceeds, InnerReturns
<1> QED
  BY <1>2, <1>3, <1>4, <1>5, <1>6, <1>7, <1>8, <1>9, <1>10 DEF Next

(* With one root field, and Neo4j alone, no live query is left showing what   *)
(* the field changed: not when runs were abandoned, and not when the request  *)
(* timed out.  (A second field finds the list of the first still cached, and  *)
(* a nested engine flushes the list before the commit.)                      *)
THEOREM LiveQueriesAreFresh ==
  ASSUME NumFields = 1, Inner = "none"
  PROVE  Spec => []LiveQueriesFresh
<1>1. Init => FreshInv
  BY DEF Init, FreshInv, LiveQueriesFresh
<1>2. TypeOK /\ PhaseInv /\ FreshInv /\ [Next]_vars => FreshInv'
  BY FreshStep
<1>3. FreshInv => LiveQueriesFresh
  BY DEF FreshInv
<1> QED BY <1>1, <1>2, <1>3, TypeCorrect, PhaseAlways, PTL DEF Spec
=============================================================================
