-------------------------- MODULE WorkQueueProofs --------------------------
(***************************************************************************)
(* The safety properties of WorkQueue for every number of rows, every set  *)
(* of keys, budgets and priorities, and every max_concurrent_handlers.     *)
(***************************************************************************)
EXTENDS WorkQueue, FiniteSetTheorems, TLAPS

(* A process that is down has no tasks and no event loop. *)
DownIsEmpty == proc = "down" => in_flight = {} /\ tasks = {} /\ popping = {} /\ orphaned = {}

(* While nothing was recycled a scheduled callback never names a live task. *)
Disjoint == ~recycled => tasks \cap popping = {}

(* _dispatch_work_items checks len(_in_flight) before every claim. *)
SlotsBounded == Cardinality(in_flight) <= MaxHandlers

IInv == /\ TypeOK
        /\ ClaimsOwned
        /\ AttemptsWithinBudget
        /\ TrackedUnlessRecycled
        /\ DownIsEmpty
        /\ Disjoint
        /\ SlotsBounded

LEMMA IdsFinite == IsFiniteSet(Ids)
  BY MaxIdAssumption, FS_Interval DEF Ids

LEMMA SubsetsFinite == ASSUME NEW S, S \subseteq Ids PROVE IsFiniteSet(S) /\ Cardinality(S) \in Nat
  BY IdsFinite, FS_Subset, FS_CardinalityType

(* fail() keeps the row's key and budget, counts the attempt, and           *)
(* dead-letters the row exactly when that was the last one.                 *)
LEMMA FailedRowFacts ==
  ASSUME NEW q \in Row, q.retry_count < q.max_retries
  PROVE  LET r == FailedRow(q) IN
           /\ r \in Row
           /\ r.key = q.key
           /\ r.max_retries = q.max_retries
           /\ r.retry_count = q.retry_count + 1
           /\ \/ r.status = "pending" /\ r.retry_count < r.max_retries
              \/ r.status = "dead_letter" /\ r.retry_count = r.max_retries
  <1>1. q.retry_count \in Nat /\ q.max_retries \in Nat BY BudgetsAssumption DEF Row
  <1>2. CASE q.retry_count + 1 >= q.max_retries
    <2> DEFINE r == [q EXCEPT !.status = "dead_letter", !.retry_count = q.retry_count + 1]
    <2>1. FailedRow(q) = r BY <1>2 DEF FailedRow
    <2>2. r \in Row
      <3> DEFINE u == [q EXCEPT !.status = "dead_letter"]
      <3>1. u \in Row BY DEF Row
      <3>2. r = [u EXCEPT !.retry_count = q.retry_count + 1] BY DEF Row
      <3> HIDE DEF u, r
      <3> QED BY <1>1, <3>1, <3>2 DEF Row
    <2>3. r.key = q.key /\ r.max_retries = q.max_retries /\ r.status = "dead_letter"
          /\ r.retry_count = q.retry_count + 1
      BY DEF Row
    <2>4. q.retry_count + 1 = q.max_retries BY <1>1, <1>2
    <2> HIDE DEF r
    <2> QED BY <2>1, <2>2, <2>3, <2>4
  <1>3. CASE ~(q.retry_count + 1 >= q.max_retries)
    <2> DEFINE r == [q EXCEPT !.status = "pending", !.retry_count = q.retry_count + 1]
    <2>1. FailedRow(q) = r BY <1>3 DEF FailedRow
    <2>2. r \in Row
      <3> DEFINE u == [q EXCEPT !.status = "pending"]
      <3>1. u \in Row BY DEF Row
      <3>2. r = [u EXCEPT !.retry_count = q.retry_count + 1] BY DEF Row
      <3> HIDE DEF u, r
      <3> QED BY <1>1, <3>1, <3>2 DEF Row
    <2>3. r.key = q.key /\ r.max_retries = q.max_retries /\ r.status = "pending"
          /\ r.retry_count = q.retry_count + 1
      BY DEF Row
    <2>4. q.retry_count + 1 < q.max_retries
      BY <1>1, <1>3
    <2> HIDE DEF r
    <2>5. r.retry_count < r.max_retries BY <2>3, <2>4
    <2> QED BY <2>1, <2>2, <2>3, <2>5
  <1> QED BY <1>2, <1>3

LEMMA InitIInv == Init => IInv
  <1> SUFFICES ASSUME Init PROVE IInv OBVIOUS
  <1>1. Cardinality({}) = 0 BY FS_EmptySet
  <1>2. TypeOK BY DEF Init, TypeOK
  <1>3. SlotsBounded BY <1>1, MaxHandlersAssumption DEF Init, SlotsBounded
  <1>4. ClaimsOwned /\ TrackedUnlessRecycled /\ DownIsEmpty /\ Disjoint
    BY DEF Init, Absent, ClaimsOwned, TrackedUnlessRecycled, DownIsEmpty, Disjoint
  <1>5. AttemptsWithinBudget BY DEF Init, AttemptsWithinBudget, Live, Absent
  <1> QED BY <1>2, <1>3, <1>4, <1>5 DEF IInv

LEMMA NextIInv == IInv /\ [Next]_vars => IInv'
  <1> SUFFICES ASSUME IInv, [Next]_vars PROVE IInv' OBVIOUS
  <1> USE DEF IInv
  <1>1. ASSUME NEW k \in Keys \cup {NoKey}, NEW b \in Budgets, NEW p \in Priorities,
               NEW d \in BOOLEAN, Enqueue(k, b, p, d)
        PROVE  IInv'
    <2> DEFINE T == WithoutFinished(k)
               r == [status |-> "pending", key |-> k, retry_count |-> 0,
                     max_retries |-> b, priority |-> p, delayed |-> d]
    <2>1. PICK i \in Ids : /\ NewId(i, T)
                           /\ queue' = [T EXCEPT ![i] = r]
      BY <1>1 DEF Enqueue
    <2>2. T \in [Ids -> {Absent} \cup Row]
      BY DEF WithoutFinished, TypeOK
    <2>3. r \in Row BY DEF Row
    <2>4. TypeOK' BY <1>1, <2>1, <2>2, <2>3 DEF Enqueue, TypeOK
    <2>5. \A j \in Ids : Live(j) => T[j] = queue[j]
      BY DEF WithoutFinished, Live, Finished, TypeOK
    <2>6. T[i].status = "absent" BY <2>1 DEF NewId
    <2>7. ~Live(i) BY <2>5, <2>6 DEF Live
    <2>8. ClaimsOwned'
      <3>1. \A j \in Ids : T[j] = queue[j] \/ (T[j] = Absent /\ ~Live(j))
        BY DEF WithoutFinished, Finished, Live
      <3>2. \A j \in Ids : queue'[j].status = "claimed" <=> queue[j].status = "claimed"
        BY <2>1, <2>2, <2>7, <3>1 DEF Live, Absent
      <3> QED BY <1>1, <3>2 DEF Enqueue, ClaimsOwned
    <2>10. AttemptsWithinBudget'
      <3>1. \A j \in Ids \ {i} : queue'[j] = queue[j] \/ queue'[j] = Absent
        BY <2>1, <2>2 DEF WithoutFinished
      <3>2. queue'[i] = r BY <2>1, <2>2
      <3>3. 0 < b BY BudgetsAssumption
      <3> QED BY <3>1, <3>2, <3>3 DEF AttemptsWithinBudget, Live, Absent
    <2> QED BY <1>1, <2>4, <2>8, <2>10
        DEF Enqueue, TrackedUnlessRecycled, DownIsEmpty, Disjoint, SlotsBounded
  <1>2. ASSUME NEW i \in Ids, FallDue(i) PROVE IInv'
    <2>1. TypeOK' BY <1>2 DEF FallDue, TypeOK, Row, Absent
    <2>2. ClaimsOwned' BY <1>2 DEF FallDue, TypeOK, ClaimsOwned, Row, Absent
    <2>4. AttemptsWithinBudget'
      BY <1>2 DEF FallDue, TypeOK, AttemptsWithinBudget, Live, Row, Absent
    <2> QED BY <1>2, <2>1, <2>2, <2>4
        DEF FallDue, TrackedUnlessRecycled, DownIsEmpty, Disjoint, SlotsBounded
  <1>3. ASSUME NEW i \in Ids, SweepFinished(i) PROVE IInv'
    <2>1. TypeOK' BY <1>3 DEF SweepFinished, TypeOK
    <2>2. ClaimsOwned' BY <1>3 DEF SweepFinished, TypeOK, ClaimsOwned, Finished, Absent
    <2>4. AttemptsWithinBudget'
      BY <1>3 DEF SweepFinished, TypeOK, AttemptsWithinBudget, Live, Absent
    <2> QED BY <1>3, <2>1, <2>2, <2>4
        DEF SweepFinished, TrackedUnlessRecycled, DownIsEmpty, Disjoint, SlotsBounded
  <1>4. ASSUME NEW i \in Ids, Claim(i) PROVE IInv'
    <2>0. queue[i] \in Row BY <1>4 DEF Claim, Claimable, TypeOK, Absent
    <2>1. TypeOK' BY <1>4, <2>0 DEF Claim, TypeOK, Row
    <2>2. ClaimsOwned'
      <3>1. queue'[i].status = "claimed" /\ queue[i].status = "pending"
            /\ \A j \in Ids \ {i} : queue'[j] = queue[j]
        BY <1>4, <2>0 DEF Claim, Claimable, TypeOK, Row
      <3> QED BY <1>4, <3>1 DEF Claim, ClaimsOwned, TypeOK
    <2>4. AttemptsWithinBudget'
      BY <1>4, <2>0 DEF Claim, Claimable, TypeOK, AttemptsWithinBudget, Live, Row
    <2>5. SlotsBounded'
      <3>1. IsFiniteSet(in_flight) /\ Cardinality(in_flight) \in Nat
        BY SubsetsFinite DEF TypeOK
      <3>2. Cardinality(in_flight \cup {i}) <= Cardinality(in_flight) + 1
        <4>1. \/ Cardinality(in_flight \cup {i}) = Cardinality(in_flight)
              \/ Cardinality(in_flight \cup {i}) = Cardinality(in_flight) + 1
          BY <3>1, FS_AddElement, Zenon
        <4> HIDE DEF IInv
        <4> QED BY <3>1, <4>1
      <3>3. Cardinality(in_flight \cup {i}) \in Nat BY SubsetsFinite DEF TypeOK
      <3>4. Cardinality(in_flight) + 1 <= MaxHandlers
        BY <1>4, <3>1, MaxHandlersAssumption DEF Claim
      <3>5. in_flight' = in_flight \cup {i} BY <1>4 DEF Claim
      <3> QED BY <3>1, <3>2, <3>3, <3>4, <3>5, MaxHandlersAssumption DEF SlotsBounded
    <2> QED BY <1>4, <2>1, <2>2, <2>4, <2>5
        DEF Claim, TrackedUnlessRecycled, DownIsEmpty, Disjoint
  <1>5. ASSUME NEW i \in Ids, Settles(i) PROVE IInv'
    <2>0. queue[i] \in Row /\ queue[i].status = "claimed" /\ i \in tasks /\ proc # "down"
          /\ i \notin popping
      BY <1>5 DEF Settles, HandlerReturns, HandlerRaises, SettlementLost, Running,
                  ClaimsOwned, TypeOK, Absent
    <2>1. TaskEnds(i)
      BY <1>5 DEF Settles, HandlerReturns, HandlerRaises, SettlementLost
    <2>2. \E r \in Row :
            /\ queue' = [queue EXCEPT ![i] = r]
            /\ r.key = queue[i].key
            /\ r.status \in {"pending", "claimed"} => r.retry_count < r.max_retries
            /\ r.status = "dead_letter" => r.retry_count = r.max_retries
            /\ orphaned' = IF r.status = "claimed" THEN orphaned \cup {i} ELSE orphaned
      <3>1. CASE HandlerReturns(i)
        <4> DEFINE r == [queue[i] EXCEPT !.status = "complete"]
        <4>1. r \in Row /\ r.key = queue[i].key /\ r.status = "complete" BY <2>0 DEF Row
        <4>2. queue' = [queue EXCEPT ![i] = r] BY <3>1 DEF HandlerReturns, TypeOK
        <4>3. orphaned' = orphaned BY <3>1 DEF HandlerReturns
        <4> HIDE DEF r
        <4> QED BY <4>1, <4>2, <4>3
      <3>2. CASE HandlerRaises(i)
        <4> DEFINE r == FailedRow(queue[i])
        <4>1. queue[i].retry_count < queue[i].max_retries
          BY <2>0 DEF AttemptsWithinBudget, Live
        <4>2. /\ r \in Row /\ r.key = queue[i].key
              /\ \/ r.status = "pending" /\ r.retry_count < r.max_retries
                 \/ r.status = "dead_letter" /\ r.retry_count = r.max_retries
          BY <2>0, <4>1, FailedRowFacts
        <4>3. queue' = [queue EXCEPT ![i] = r] BY <3>2 DEF HandlerRaises
        <4>4. orphaned' = orphaned BY <3>2 DEF HandlerRaises
        <4> HIDE DEF r
        <4> QED BY <4>2, <4>3, <4>4
      <3>3. CASE SettlementLost(i)
        <4>1. queue' = [queue EXCEPT ![i] = queue[i]] BY <3>3 DEF SettlementLost, TypeOK
        <4>2. queue[i].retry_count < queue[i].max_retries
          BY <2>0 DEF AttemptsWithinBudget, Live
        <4>3. orphaned' = orphaned \cup {i} BY <3>3 DEF SettlementLost
        <4> QED BY <2>0, <4>1, <4>2, <4>3
      <3> QED BY <1>5, <3>1, <3>2, <3>3 DEF Settles
    <2>3. PICK r \in Row :
            /\ queue' = [queue EXCEPT ![i] = r]
            /\ r.key = queue[i].key
            /\ r.status \in {"pending", "claimed"} => r.retry_count < r.max_retries
            /\ r.status = "dead_letter" => r.retry_count = r.max_retries
            /\ orphaned' = IF r.status = "claimed" THEN orphaned \cup {i} ELSE orphaned
      BY <2>2
    <2>4. TypeOK' BY <2>1, <2>3 DEF TaskEnds, TypeOK
    <2>5. ClaimsOwned' BY <2>0, <2>1, <2>3 DEF TaskEnds, ClaimsOwned, TypeOK
    <2>7. AttemptsWithinBudget' BY <2>3 DEF AttemptsWithinBudget, Live, TypeOK
    <2>8. TrackedUnlessRecycled' /\ Disjoint' /\ DownIsEmpty' /\ SlotsBounded'
      BY <2>0, <2>1, <2>3 DEF TaskEnds, TrackedUnlessRecycled, Disjoint, DownIsEmpty, SlotsBounded
    <2> QED BY <2>4, <2>5, <2>7, <2>8
  <1>6. ASSUME NEW i \in Ids, DoneCallback(i) PROVE IInv'
    <2>1. SlotsBounded'
      <3>1. IsFiniteSet(in_flight) /\ Cardinality(in_flight) \in Nat
        BY SubsetsFinite DEF TypeOK
      <3>2. Cardinality(in_flight \ {i}) <= Cardinality(in_flight)
        BY <3>1, FS_Subset
      <3>3. Cardinality(in_flight \ {i}) \in Nat BY SubsetsFinite DEF TypeOK
      <3> QED BY <1>6, <3>1, <3>2, <3>3, MaxHandlersAssumption DEF DoneCallback, SlotsBounded
    <2>2. TypeOK' BY <1>6 DEF DoneCallback, TypeOK
    <2> QED BY <1>6, <2>1, <2>2 DEF DoneCallback, ClaimsOwned, AttemptsWithinBudget, Live, TrackedUnlessRecycled, DownIsEmpty, Disjoint
  <1>7. ASSUME NEW mode \in {"opportunistic", "graceful"}, SetRestartPending(mode) PROVE IInv'
    BY <1>7 DEF SetRestartPending, TypeOK, ClaimsOwned, AttemptsWithinBudget, Live, TrackedUnlessRecycled, DownIsEmpty, Disjoint, SlotsBounded
  <1>8. CASE OpportunisticRestart \/ Exit \/ Crash
    <2>1. Gone /\ UNCHANGED <<queue, recycled>>
      BY <1>8 DEF OpportunisticRestart, Exit, Crash
    <2>2. Cardinality({}) = 0 BY FS_EmptySet
    <2> QED BY <2>1, <2>2, MaxHandlersAssumption DEF Gone, TypeOK, ClaimsOwned, AttemptsWithinBudget, Live, TrackedUnlessRecycled, DownIsEmpty, Disjoint,
          SlotsBounded
  <1>9. CASE Shutdown
    BY <1>9 DEF Shutdown, TypeOK, ClaimsOwned, AttemptsWithinBudget, Live, TrackedUnlessRecycled, DownIsEmpty, Disjoint, SlotsBounded
  <1>10. CASE DrainTimeout
    BY <1>10 DEF DrainTimeout, TypeOK, ClaimsOwned, AttemptsWithinBudget, Live, TrackedUnlessRecycled, DownIsEmpty, Disjoint, SlotsBounded
  <1>11. CASE Recover
    <2>1. \A i \in Ids : \/ queue'[i] = queue[i] /\ queue[i].status # "claimed"
                         \/ /\ queue[i] \in Row /\ queue[i].status = "claimed"
                            /\ queue'[i] = [queue[i] EXCEPT !.status = "pending"]
      BY <1>11 DEF Recover, TypeOK, Absent
    <2>2. \A i \in Ids : \/ queue'[i] = queue[i]
                         \/ /\ queue[i] \in Row /\ queue'[i] \in Row
                            /\ queue[i].status = "claimed" /\ queue'[i].status = "pending"
                            /\ queue'[i].key = queue[i].key
                            /\ queue'[i].retry_count = queue[i].retry_count
                            /\ queue'[i].max_retries = queue[i].max_retries
      BY <2>1 DEF Row
    <2>3. TypeOK' BY <1>11, <2>2 DEF Recover, TypeOK
    <2>5. AttemptsWithinBudget' BY <2>2 DEF AttemptsWithinBudget, Live
    <2>6. \A i \in Ids : queue'[i].status # "claimed" BY <2>1 DEF Row
    <2> QED BY <1>11, <2>3, <2>5, <2>6 DEF Recover, ClaimsOwned, TrackedUnlessRecycled,
          DownIsEmpty, Disjoint, SlotsBounded
  <1>12. CASE UNCHANGED vars
    BY <1>12 DEF vars, TypeOK, ClaimsOwned, AttemptsWithinBudget, Live, TrackedUnlessRecycled, DownIsEmpty, Disjoint, SlotsBounded
  <1> QED BY <1>1, <1>2, <1>3, <1>4, <1>5, <1>6, <1>7, <1>8, <1>9, <1>10, <1>11, <1>12
      DEF Next

LEMMA Reached == Spec => []IInv
  BY InitIInv, NextIInv, PTL DEF Spec

(* The variables stay in their types.                                       *)
THEOREM QueueTyped == Spec => []TypeOK
  <1>1. IInv => TypeOK BY DEF IInv
  <1> QED BY <1>1, Reached, PTL

(* No row is executed by two tasks, and every claim has an owner (claim,    *)
(* complete and fail by id, restart, recovery).                             *)
THEOREM ClaimsAlwaysOwned == Spec => []ClaimsOwned
  <1>1. IInv => ClaimsOwned BY DEF IInv
  <1> QED BY <1>1, Reached, PTL

(* A row is dead-lettered exactly at its last permitted attempt (fail).     *)
THEOREM AttemptsBounded == Spec => []AttemptsWithinBudget
  <1>1. IInv => AttemptsWithinBudget BY DEF IInv
  <1> QED BY <1>1, Reached, PTL

(* _in_flight tracks every task until an id is claimed whose callback is    *)
(* still scheduled.                                                         *)
THEOREM TasksTracked == Spec => []TrackedUnlessRecycled
  <1>1. IInv => TrackedUnlessRecycled BY DEF IInv
  <1> QED BY <1>1, Reached, PTL

(* At most max_concurrent_handlers handlers run at one time, until an id is *)
(* claimed whose callback is pending.                                       *)
THEOREM HandlersBoundedAlways == Spec => []HandlersBounded
  <1>1. IInv => HandlersBounded
    <2> SUFFICES ASSUME IInv, ~recycled PROVE Cardinality(tasks) <= MaxHandlers
      BY DEF HandlersBounded
    <2>1. tasks \subseteq in_flight BY DEF IInv, TrackedUnlessRecycled
    <2>2. IsFiniteSet(in_flight) /\ Cardinality(in_flight) \in Nat
      BY SubsetsFinite DEF IInv, TypeOK
    <2>3. Cardinality(tasks) <= Cardinality(in_flight) BY <2>1, <2>2, FS_Subset
    <2>4. Cardinality(tasks) \in Nat BY SubsetsFinite DEF IInv, TypeOK
    <2> QED BY <2>2, <2>3, <2>4, MaxHandlersAssumption DEF IInv, SlotsBounded
  <1> QED BY <1>1, InitIInv, NextIInv, PTL DEF Spec

-----------------------------------------------------------------------------
(* Refinement of JobContract *)

LEMMA InitContract == Init => Contract!Init
  BY DEF Init, Contract!Init, Contract!None, Job, Absent

(* What a row and its successor stand for when the row changes as it does   *)
(* in the main loop.                                                        *)
LEMMA JobOfRow ==
  ASSUME NEW r \in Row
  PROVE  /\ r.status \in {"pending", "claimed"} =>
              Job(r) = [phase |-> "open", key |-> r.key, left |-> r.max_retries - r.retry_count]
         /\ r.status = "complete" => Job(r) = [phase |-> "done", key |-> r.key]
         /\ r.status = "dead_letter" => Job(r) = [phase |-> "dead", key |-> r.key]
  BY DEF Job, Row

(* The phase and key of a job, read off its row. *)
LEMMA JobFacts ==
  ASSUME NEW q \in {Absent} \cup Row
  PROVE  /\ Job(q).phase = "none" <=> q.status = "absent"
         /\ Job(q).phase = "open" <=> q.status \in {"pending", "claimed"}
         /\ Job(q).phase \in {"done", "dead"} <=> q.status \in {"complete", "dead_letter"}
         /\ q.status # "absent" => Job(q).key = q.key
         /\ q.status = "absent" => q = Absent /\ Job(q) = [phase |-> "none"]
  <1>1. CASE q = Absent BY <1>1 DEF Absent, Job
  <1>2. CASE q \in Row
    <2>1. q.status \in {"pending", "claimed", "complete", "dead_letter"} BY <1>2 DEF Row
    <2> QED BY <1>2, <2>1, JobOfRow
  <1> QED BY <1>1, <1>2

LEMMA NextContract ==
  IInv /\ [Next]_vars => [Contract!Next]_([i \in Ids |-> Job(queue[i])])
  <1> DEFINE job == [i \in Ids |-> Job(queue[i])]
  <1> SUFFICES ASSUME IInv, [Next]_vars PROVE [Contract!Next]_job
    OBVIOUS
  <1> USE DEF IInv
  <1>q. \A j \in Ids : queue[j] \in {Absent} \cup Row BY DEF TypeOK
  <1>q1. queue' \in [Ids -> {Absent} \cup Row] BY NextIInv DEF TypeOK
  <1>b. ASSUME \A j \in Ids : Job(queue'[j]) = Job(queue[j]) PROVE [Contract!Next]_job
    BY <1>b
  <1>1. ASSUME NEW k \in Keys \cup {NoKey}, NEW b \in Budgets, NEW p \in Priorities,
               NEW d \in BOOLEAN, Enqueue(k, b, p, d)
        PROVE  Contract!Accept
    <2> DEFINE T == WithoutFinished(k)
               r == [status |-> "pending", key |-> k, retry_count |-> 0,
                     max_retries |-> b, priority |-> p, delayed |-> d]
    <2>1. PICK i \in Ids : /\ NewId(i, T)
                           /\ queue' = [T EXCEPT ![i] = r]
      BY <1>1 DEF Enqueue
    <2>2. ~KeyTaken(k, T) BY <1>1 DEF Enqueue
    <2>3. \A j \in Ids : Present(j) /\ queue[j].key = k /\ k # NoKey => Finished(j)
      BY <2>2 DEF KeyTaken, WithoutFinished, Present
    <2>4. ~Present(i) \/ (Finished(i) /\ queue[i].key = k /\ k # NoKey)
      BY <2>1 DEF NewId, WithoutFinished, Present
    <2>5. queue'[i] = r /\ \A j \in Ids \ {i} : queue'[j] = T[j]
      BY <2>1 DEF WithoutFinished
    <2>6. Job(r) = [phase |-> "open", key |-> k, left |-> b]
      BY BudgetsAssumption DEF Job
    <2>7. \A j \in Ids \ {i} :
            queue'[j] = IF Present(j) /\ queue[j].key = k /\ k # NoKey THEN Absent
                        ELSE queue[j]
      BY <2>3, <2>5, <1>q DEF WithoutFinished, Finished, Present
    <2>8. \A j \in Ids : (job[j].phase # "none" <=> Present(j))
                        /\ (Present(j) => job[j].key = queue[j].key)
                        /\ (Finished(j) => job[j].phase # "open")
      <3> SUFFICES ASSUME NEW j \in Ids
                   PROVE  (Job(queue[j]).phase # "none" <=> Present(j))
                        /\ (Present(j) => Job(queue[j]).key = queue[j].key)
                        /\ (Finished(j) => Job(queue[j]).phase # "open")
        OBVIOUS
      <3>1. queue[j] \in {Absent} \cup Row BY <1>q
      <3> QED BY <3>1, JobFacts DEF Present, Finished
    <2>9. Job(Absent) = [phase |-> "none"] BY DEF Job, Absent
    <2>10. job' = [j \in Ids |->
                 IF j = i THEN [phase |-> "open", key |-> k, left |-> b]
                 ELSE IF job[j].phase # "none" /\ job[j].key = k /\ k # NoKey
                      THEN [phase |-> "none"]
                 ELSE job[j]]
      BY <2>5, <2>6, <2>7, <2>8, <2>9
    <2>11. \A j \in Ids : job[j].phase # "none" /\ job[j].key = k /\ k # NoKey
                           => job[j].phase # "open"
      BY <2>3, <2>8
    <2>12. \/ ~(job[i].phase # "none")
           \/ job[i].phase # "open" /\ job[i].key = k /\ k # NoKey
      BY <2>4, <2>8 DEF Finished, Present
    <2> HIDE DEF job
    <2> QED BY <2>10, <2>11, <2>12 DEF Contract!Accept, Contract!Known, Contract!None, job
  <1>2. ASSUME NEW i \in Ids, FallDue(i) PROVE [Contract!Next]_job
    <2>1. queue[i] \in Row BY <1>2, <1>q DEF FallDue, Absent
    <2>2. queue'[i] \in Row /\ queue'[i].status = queue[i].status
          /\ queue'[i].key = queue[i].key /\ queue'[i].retry_count = queue[i].retry_count
          /\ queue'[i].max_retries = queue[i].max_retries
      BY <1>2, <2>1 DEF FallDue, TypeOK, Row
    <2>3. Job(queue'[i]) = Job(queue[i]) BY <2>2 DEF Job
    <2>4. \A j \in Ids \ {i} : queue'[j] = queue[j] BY <1>2 DEF FallDue, TypeOK
    <2> QED BY <1>b, <2>3, <2>4
  <1>3. ASSUME NEW i \in Ids, SweepFinished(i) PROVE Contract!Forget
    <2>1. Job(queue[i]).phase \in {"done", "dead"}
      BY <1>3, <1>q, JobFacts DEF SweepFinished, Finished
    <2>2. queue'[i] = Absent /\ \A j \in Ids \ {i} : queue'[j] = queue[j]
      BY <1>3 DEF SweepFinished, TypeOK
    <2>3. Job(Absent) = [phase |-> "none"] BY DEF Job, Absent
    <2>4. job' = [j \in Ids |-> IF j \in {i} THEN [phase |-> "none"] ELSE job[j]]
      BY <2>2, <2>3
    <2>5. {i} \in SUBSET {j \in Ids : job[j].phase \in {"done", "dead"}} BY <2>1
    <2> HIDE DEF job
    <2> QED BY <2>4, <2>5 DEF Contract!Forget, Contract!None, job
  <1>4. ASSUME NEW i \in Ids, Claim(i) PROVE [Contract!Next]_job
    <2>1. queue[i] \in Row BY <1>4, <1>q DEF Claim, Claimable, Absent
    <2>2. queue'[i] \in Row /\ queue'[i].status = "claimed" /\ queue[i].status = "pending"
          /\ queue'[i].key = queue[i].key /\ queue'[i].retry_count = queue[i].retry_count
          /\ queue'[i].max_retries = queue[i].max_retries
      BY <1>4, <2>1 DEF Claim, Claimable, TypeOK, Row
    <2>3. Job(queue'[i]) = Job(queue[i]) BY <2>2 DEF Job
    <2>4. \A j \in Ids \ {i} : queue'[j] = queue[j] BY <1>4 DEF Claim, TypeOK
    <2> QED BY <1>b, <2>3, <2>4
  <1>5. ASSUME NEW i \in Ids, Settles(i) PROVE [Contract!Next]_job
    <2>1. queue[i] \in Row /\ queue[i].status = "claimed"
          /\ queue[i].retry_count < queue[i].max_retries
      BY <1>5, <1>q DEF Settles, HandlerReturns, HandlerRaises, SettlementLost, Running,
                        ClaimsOwned, Absent, AttemptsWithinBudget, Live
    <2>2. Job(queue[i]) = [phase |-> "open", key |-> queue[i].key,
                           left |-> queue[i].max_retries - queue[i].retry_count]
      BY <2>1, JobOfRow
    <2>3. CASE HandlerReturns(i)
      <3> DEFINE r == [queue[i] EXCEPT !.status = "complete"]
      <3>1. r \in Row /\ r.key = queue[i].key /\ r.status = "complete" BY <2>1 DEF Row
      <3>2. queue' = [queue EXCEPT ![i] = r] BY <2>3 DEF HandlerReturns, TypeOK
      <3> HIDE DEF r
      <3>3. Job(r) = [phase |-> "done", key |-> queue[i].key] BY <3>1, JobOfRow
      <3>4. queue'[i] = r /\ \A j \in Ids \ {i} : queue'[j] = queue[j] BY <3>2 DEF TypeOK
      <3>5. job' = [job EXCEPT ![i] = [phase |-> "done", key |-> job[i].key]]
        <4>1. job[i].key = queue[i].key BY <2>2
        <4>2. Job(queue'[i]) = [phase |-> "done", key |-> job[i].key] BY <3>3, <3>4, <4>1
        <4> QED BY <3>4, <4>2
      <3>6. job[i].phase = "open" BY <2>2
      <3> HIDE DEF job
      <3>7. Contract!Succeed BY <3>5, <3>6 DEF Contract!Succeed, job
      <3> QED BY <3>7 DEF Contract!Next
    <2>4. CASE HandlerRaises(i)
      <3> DEFINE r == FailedRow(queue[i])
      <3>1. /\ r \in Row /\ r.key = queue[i].key
            /\ r.max_retries = queue[i].max_retries
            /\ r.retry_count = queue[i].retry_count + 1
            /\ \/ r.status = "pending" /\ r.retry_count < r.max_retries
               \/ r.status = "dead_letter" /\ r.retry_count = r.max_retries
        BY <2>1, FailedRowFacts
      <3>2. queue'[i] = r /\ \A j \in Ids \ {i} : queue'[j] = queue[j]
        BY <2>4 DEF HandlerRaises, TypeOK
      <3> HIDE DEF r
      <3>3. queue[i].retry_count \in Nat /\ queue[i].max_retries \in Nat
        BY <2>1, BudgetsAssumption DEF Row
      <3>4. Job(r) = IF job[i].left > 1
                     THEN [phase |-> "open", key |-> job[i].key, left |-> job[i].left - 1]
                     ELSE [phase |-> "dead", key |-> job[i].key]
        <4>1. job[i].left = queue[i].max_retries - queue[i].retry_count
              /\ job[i].key = queue[i].key
          BY <2>2
        <4>2. CASE r.status = "pending"
          <5>1. Job(r) = [phase |-> "open", key |-> r.key, left |-> r.max_retries - r.retry_count]
            BY <3>1, <4>2, JobOfRow
          <5>2. job[i].left > 1 /\ job[i].left - 1 = r.max_retries - r.retry_count
            BY <3>1, <3>3, <4>1, <4>2
          <5> HIDE DEF job
          <5> QED BY <3>1, <4>1, <5>1, <5>2
        <4>3. CASE r.status = "dead_letter"
          <5>1. Job(r) = [phase |-> "dead", key |-> r.key] BY <3>1, <4>3, JobOfRow
          <5>2. ~(job[i].left > 1) BY <3>1, <3>3, <4>1, <4>3
          <5> HIDE DEF job
          <5> QED BY <3>1, <4>1, <5>1, <5>2
        <4> QED BY <3>1, <4>2, <4>3
      <3>5. job' = [job EXCEPT ![i] = Job(r)] BY <3>2
      <3>6. job[i].phase = "open" BY <2>2
      <3> HIDE DEF job
      <3>7. Contract!FailAttempt BY <3>4, <3>5, <3>6 DEF Contract!FailAttempt, job
      <3> QED BY <3>7 DEF Contract!Next
    <2>5. CASE SettlementLost(i)
      BY <2>5, <1>b DEF SettlementLost
    <2> QED BY <1>5, <2>3, <2>4, <2>5 DEF Settles
  <1>6. CASE queue' = queue
    BY <1>6, <1>b
  <1>7. CASE Recover
    <2> SUFFICES ASSUME NEW j \in Ids PROVE Job(queue'[j]) = Job(queue[j])
      BY <1>b
    <2>1. CASE queue[j].status # "claimed" BY <2>1, <1>7 DEF Recover
    <2>2. CASE queue[j].status = "claimed"
      <3>1. queue[j] \in Row BY <2>2, <1>q DEF Absent
      <3>2. queue'[j].status = "pending" /\ queue'[j].key = queue[j].key
            /\ queue'[j].retry_count = queue[j].retry_count
            /\ queue'[j].max_retries = queue[j].max_retries
        BY <1>7, <2>2, <3>1 DEF Recover, Row
      <3> QED BY <2>2, <3>2 DEF Job
    <2> QED BY <2>1, <2>2
  <1>8. Contract!Accept \/ Contract!Forget => [Contract!Next]_job BY DEF Contract!Next
  <1>9. \/ \E k \in Keys \cup {NoKey}, b \in Budgets, p \in Priorities, d \in BOOLEAN :
             Enqueue(k, b, p, d)
        \/ \E i \in Ids : FallDue(i) \/ SweepFinished(i) \/ Claim(i) \/ Settles(i)
        \/ queue' = queue \/ Recover
    BY DEF Next, vars, DoneCallback, SetRestartPending, OpportunisticRestart, Shutdown,
           DrainTimeout, Exit, Crash
  <1> HIDE DEF job
  <1> QED BY <1>1, <1>2, <1>3, <1>4, <1>5, <1>6, <1>7, <1>8, <1>9

(* Claims, crashes, restarts and recovery are invisible to producers: the   *)
(* queue implements JobContract.                                            *)
THEOREM QueueKeepsContract == Spec => KeepsContract
  BY InitIInv, NextIInv, InitContract, NextContract, PTL DEF Spec, KeepsContract, Contract!Spec
=============================================================================
