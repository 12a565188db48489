---------------------------- MODULE JobContract ----------------------------
(***************************************************************************)
(* What the work queue promises its producers, with claiming, crashes and  *)
(* restarts left out: an accepted job stays open until one of its attempts *)
(* succeeds or its last permitted attempt fails, no two jobs that are      *)
(* known at the same time have the same idempotency key, and a job is only *)
(* forgotten once it is finished.                                          *)
(***************************************************************************)
EXTENDS Naturals

CONSTANTS
  Ids,       \* names a job can be known by
  Keys,      \* idempotency keys
  NoKey,     \* the key of a job enqueued without one
  Budgets    \* the numbers of attempts a producer may grant

VARIABLE job

None == [phase |-> "none"]
Jobs == {None} \cup [phase : {"open"}, key : Keys \cup {NoKey}, left : Nat]
               \cup [phase : {"done", "dead"}, key : Keys \cup {NoKey}]

Known(i) == job[i].phase # "none"

Init == job = [i \in Ids |-> None]

(* A job is accepted under a name that is free, or becomes free because the *)
(* finished job that held the key is dropped in the same step.              *)
Accept ==
  \E i \in Ids, k \in Keys \cup {NoKey}, n \in Budgets :
    /\ \A j \in Ids : Known(j) /\ job[j].key = k /\ k # NoKey
                        => job[j].phase # "open"
    /\ \/ ~Known(i)
       \/ job[i].phase # "open" /\ job[i].key = k /\ k # NoKey
    /\ job' = [j \in Ids |->
                 IF j = i THEN [phase |-> "open", key |-> k, left |-> n]
                 ELSE IF Known(j) /\ job[j].key = k /\ k # NoKey THEN None
                 ELSE job[j]]

Succeed == \E i \in Ids :
  /\ job[i].phase = "open"
  /\ job' = [job EXCEPT ![i] = [phase |-> "done", key |-> job[i].key]]

FailAttempt == \E i \in Ids :
  /\ job[i].phase = "open"
  /\ job' = [job EXCEPT ![i] =
               IF job[i].left > 1
               THEN [phase |-> "open", key |-> job[i].key, left |-> job[i].left - 1]
               ELSE [phase |-> "dead", key |-> job[i].key]]

(* Finished jobs may be dropped at any time, several at once. *)
Forget == \E D \in SUBSET {i \in Ids : job[i].phase \in {"done", "dead"}} :
  job' = [i \in Ids |-> IF i \in D THEN None ELSE job[i]]

Next == Accept \/ Succeed \/ FailAttempt \/ Forget

Spec == Init /\ [][Next]_job
=============================================================================
