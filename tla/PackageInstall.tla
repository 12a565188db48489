--------------------------- MODULE PackageInstall ---------------------------
(***************************************************************************)
(* A package install asked for in chat: the request row                    *)
(* (packages/pending_install.py), the approval page                        *)
(* (api/package_install.py), the work item of an approval                  *)
(* (packages/install_approved_handler.py) and the batch that a worker      *)
(* thread executes (packages/install_batch.py, packages/installer.py).     *)
(*                                                                         *)
(* Routes, the hourly sweep and the handler up to its await are stretches  *)
(* of one event loop and therefore single actions; the transactions inside *)
(* one stretch come apart only when the process ends between them.         *)
(* Batches of several requests interleave step by step.                    *)
(***************************************************************************)
EXTENDS Integers, FiniteSets, Sequences, SequencesExt

CONSTANTS
    Requests,       \* install requests, each with its row id
    Packages,       \* names of packages
    Order,          \* the packages of a request, in the order of its preview
    MaxOpen,        \* max_open_requests
    MaxStops,       \* bound on ends of the process
    None            \* no request

(* A preview names no package twice (_refuse_duplicate_names).             *)
ASSUME OrderAssumption ==
    /\ Order \in [Requests -> Seq(Packages)]
    /\ \A r \in Requests :
          /\ Order[r] # <<>>
          /\ \A i, j \in DOMAIN Order[r] : Order[r][i] = Order[r][j] => i = j
ASSUME BoundsAssumption ==
    /\ MaxOpen \in Nat /\ MaxStops \in Nat
    /\ IsFiniteSet(Requests) /\ {None, "torn"} \cap Requests = {}

Terminal == {"installed", "failed", "rejected", "expired"}

(* "absent": no row yet.                                                   *)
Statuses == {"absent", "requested", "approved", "installing"} \cup Terminal

VARIABLES
    status,     \* the row of each request
    late,       \* requests whose status has outlived its time (TTL or grace)
    tree,       \* the staged tree of each request: absent, young, old
    creating,   \* requests a tool call is fetching
    item,       \* the work item of each approval: none, pending, claimed
    stage,      \* how far the handler of a claimed item is
    at,         \* index in Order[r] of the package in work
    fresh,      \* installed_fresh: packages the batch installed first
    disk,       \* whose bytes are in the install directory of a package
    row,        \* whose install the row of a package records
    up,         \* the process is up
    stops,      \* ends of the process so far
    crowd,      \* two tool calls have fetched at the same time
    stuck,      \* the last write of an install raised
    shared,     \* packages two batches worked on at the same time
    amiss       \* packages whose install stopped between directory and row

request == <<status, late, tree, creating, crowd>>
work    == <<item, stage, at, fresh, stuck>>
target  == <<disk, row, shared, amiss>>
life    == <<up, stops>>
vars    == <<request, work, target, life>>

(* Whose bytes: those of a request, or "torn" between two.                 *)
Bytes == Requests \cup {None, "torn"}

TypeOK ==
    /\ status \in [Requests -> Statuses]
    /\ late \subseteq Requests
    /\ tree \in [Requests -> {"absent", "young", "old"}]
    /\ creating \subseteq Requests
    /\ item \in [Requests -> {"none", "pending", "claimed"}]
    /\ stage \in [Requests -> {"idle", "taken", "verify", "next", "copy",
                               "copied", "undo", "good", "bad", "raised"}]
    /\ at \in [Requests -> Nat]
    /\ fresh \in [Requests -> Seq(Packages)]
    /\ disk \in [Packages -> Bytes]
    /\ row \in [Packages -> Requests \cup {None}]
    /\ up \in BOOLEAN /\ crowd \in BOOLEAN
    /\ stops \in 0..MaxStops
    /\ stuck \subseteq Requests
    /\ shared \subseteq Packages /\ amiss \subseteq Packages
    /\ \A r \in Requests : stage[r] # "idle" => item[r] = "claimed" /\ up

Init ==
    /\ status = [r \in Requests |-> "absent"]
    /\ tree = [r \in Requests |-> "absent"]
    /\ item = [r \in Requests |-> "none"]
    /\ stage = [r \in Requests |-> "idle"]
    /\ at = [r \in Requests |-> 0]
    /\ fresh = [r \in Requests |-> <<>>]
    /\ disk = [p \in Packages |-> None]
    /\ row = [p \in Packages |-> None]
    /\ late = {} /\ creating = {} /\ stuck = {} /\ shared = {} /\ amiss = {}
    /\ up = TRUE /\ stops = 0 /\ crowd = FALSE

(* The legal edges of the row; set_status refuses all others.              *)
Edges ==
    {<<"requested", s>> : s \in {"approved", "rejected", "expired"}}
    \cup {<<"approved", s>> : s \in {"installing", "failed"}}
    \cup {<<"installing", s>> : s \in {"installed", "failed"}}

(* set_status: a compare and swap along a legal edge.                      *)
Moves(r, s) == <<status[r], s>> \in Edges /\ status' = [status EXCEPT ![r] = s]

(***************************************************************************)
(* The request: rate limit, fetch and insert are three steps of one tool   *)
(* call on a thread.                                                       *)
(***************************************************************************)

(* count_active_requests: rows past their TTL do not count.                *)
(* The hourly limit and the refusal of what was rejected or expired lately *)
(* only refuse more, and are left out.                                     *)
Open == {r \in Requests : status[r] = "requested" /\ r \notin late}

UnderLimitSlip == Cardinality(Open) <= MaxOpen
UnderLimit     == Cardinality(Open) < MaxOpen

CreateRequest(r) ==
    /\ up /\ status[r] = "absent" /\ r \notin creating /\ tree[r] = "absent"
    /\ UnderLimit
    /\ creating' = creating \cup {r}
    /\ crowd' = (crowd \/ creating # {})
    /\ tree' = [tree EXCEPT ![r] = "young"]
    /\ UNCHANGED <<status, late, work, target, life>>

InsertRequest(r) ==
    /\ r \in creating
    /\ creating' = creating \ {r}
    /\ status' = [status EXCEPT ![r] = "requested"]
    /\ UNCHANGED <<late, tree, crowd, work, target, life>>

(* A source that cannot be fetched, or previewed, or inserted.             *)
CreateFails(r) ==
    /\ r \in creating
    /\ creating' = creating \ {r}
    /\ tree' = [tree EXCEPT ![r] = "absent"]
    /\ UNCHANGED <<status, late, crowd, work, target, life>>

(***************************************************************************)
(* Time: first a tree becomes old enough for the orphan sweep, then the    *)
(* row outlives its TTL (requested) or its grace (approved).               *)
(***************************************************************************)
TreeAges(r) ==
    /\ tree[r] = "young" /\ r \notin creating
    /\ tree' = [tree EXCEPT ![r] = "old"]
    /\ UNCHANGED <<status, late, creating, crowd, work, target, life>>

RowAges(r) ==
    /\ status[r] \in {"requested", "approved"} /\ tree[r] # "young"
    /\ late' = late \cup {r}
    /\ UNCHANGED <<status, tree, creating, crowd, work, target, life>>

(***************************************************************************)
(* The end of the process, alone or inside another action: threads and     *)
(* tasks are gone, rows, trees and directories stay.  "cut" are packages   *)
(* left between directory and row.                                         *)
(***************************************************************************)
InItem(p) == {r \in Requests : stage[r] \in {"copy", "copied"} /\ Order[r][at[r]] = p}

Stop(cut) ==
    /\ up /\ stops < MaxStops
    /\ up' = FALSE /\ stops' = stops + 1
    /\ creating' = {}
    /\ stage' = [r \in Requests |-> "idle"]
    /\ at' = [r \in Requests |-> 0]
    /\ fresh' = [r \in Requests |-> <<>>]
    /\ amiss' = amiss \cup {p \in Packages : InItem(p) # {}} \cup cut
    /\ UNCHANGED <<crowd, stuck, shared, row>>

Crash == Stop({}) /\ UNCHANGED <<status, late, tree, item, disk>>

(* The process ends between the two renames of _atomic_copy_into_place, or *)
(* between the directory and the row of an uninstall.                      *)
CrashInSwap(p) ==
    /\ \/ \E r \in InItem(p) : stage[r] = "copy"
       \/ \E r \in Requests : stage[r] = "undo" /\ fresh[r] # <<>> /\ Last(fresh[r]) = p
    /\ Stop({p})
    /\ disk' = [disk EXCEPT ![p] = None]
    /\ UNCHANGED <<status, late, tree, item>>

(***************************************************************************)
(* The approval page.                                                      *)
(***************************************************************************)

(* enqueue under the key of the row: a finished item of the key is deleted *)
(* first, a pending or claimed one wins.                                   *)
Enqueued(rs) == [r \in Requests |-> IF r \in rs /\ item[r] = "none" THEN "pending" ELSE item[r]]

Approve(r) ==
    /\ up /\ status[r] = "requested" /\ r \notin late
    /\ Moves(r, "approved")
    /\ item' = Enqueued({r})
    /\ UNCHANGED <<late, tree, creating, crowd, stage, at, fresh, stuck, target, life>>

(* The approval commits and the process ends before the enqueue.           *)
CrashInApprove(r) ==
    /\ status[r] = "requested" /\ r \notin late
    /\ Moves(r, "approved")
    /\ Stop({})
    /\ UNCHANGED <<late, tree, item, disk>>

Reject(r) ==
    /\ up /\ status[r] = "requested" /\ r \notin late
    /\ Moves(r, "rejected")
    /\ tree' = [tree EXCEPT ![r] = "absent"]
    /\ UNCHANGED <<late, creating, crowd, work, target, life>>

CrashInReject(r) ==
    /\ status[r] = "requested" /\ r \notin late
    /\ Moves(r, "rejected")
    /\ Stop({})
    /\ UNCHANGED <<late, tree, item, disk>>

(* Either route on a row past its TTL; the staged tree is not touched.     *)
ExpireLazily(r) ==
    /\ up /\ status[r] = "requested" /\ r \in late
    /\ Moves(r, "expired")
    /\ late' = late \ {r}
    /\ UNCHANGED <<tree, creating, crowd, work, target, life>>

(***************************************************************************)
(* The sweeps.  All three passes of the hourly hook are one transaction,   *)
(* each tree is removed before it commits.                                 *)
(***************************************************************************)
Overdue == {r \in late : status[r] = "requested"}
Stale   == {r \in late : status[r] = "approved"}

(* sweep_orphan_quarantines: old trees of no live request.                 *)
OwnersSlip == {r \in Requests : status[r] \in {"requested", "approved"}}
Owners     == {r \in Requests : status[r] \notin Terminal \cup {"absent"}}

OrphansSlip == {r \in Requests : tree[r] = "old" /\ status[r] = "absent"}
Orphans     == {r \in Requests : tree[r] = "old" /\ r \notin Owners}

(* What a pass that also fails the requests in "ended" leaves behind.      *)
Swept(ended) ==
    /\ status' = [r \in Requests |->
           IF r \in Overdue THEN "expired"
           ELSE IF r \in Stale \cup ended THEN "failed" ELSE status[r]]
    /\ late' = late \ (Overdue \cup Stale)
    /\ tree' = [r \in Requests |->
           IF r \in Overdue \cup Stale \cup ended \cup Orphans THEN "absent" ELSE tree[r]]

(* recover_approved_installs, second half.                                 *)
Awaiting == {r \in Requests : status[r] = "approved" /\ r \notin Stale}

Sweep ==
    /\ up
    /\ Swept({})
    /\ item' = Enqueued(Awaiting)
    /\ UNCHANGED <<creating, crowd, stage, at, fresh, stuck, target, life>>

(* The transaction rolls back (a raising pass, a crash) after it removed   *)
(* the trees of "gone".                                                    *)
Removable == SUBSET (Overdue \cup Stale \cup Orphans) \ {{}}

SweepFails ==
    /\ up
    /\ \E gone \in Removable :
           tree' = [r \in Requests |-> IF r \in gone THEN "absent" ELSE tree[r]]
    /\ UNCHANGED <<status, late, creating, crowd, work, target, life>>

CrashInSweep ==
    /\ \E gone \in Removable :
           tree' = [r \in Requests |-> IF r \in gone THEN "absent" ELSE tree[r]]
    /\ Stop({})
    /\ UNCHANGED <<status, late, item, disk>>

(* _recover_on_startup, then the coordinator's recovery of approvals.      *)
InstallingSlip == {}
Installing     == {r \in Requests : status[r] = "installing"}

Recover ==
    /\ ~up
    /\ up' = TRUE
    /\ Swept(Installing)
    /\ item' = [r \in Requests |->
           IF item[r] = "claimed" \/ (item[r] = "none" /\ r \in Awaiting)
           THEN "pending" ELSE item[r]]
    /\ stuck' = {}
    /\ UNCHANGED <<creating, crowd, stage, at, fresh, target, stops>>

(***************************************************************************)
(* handle_package_install_approved, up to its await.                       *)
(***************************************************************************)
ClaimItem(r) ==
    /\ up /\ item[r] = "pending"
    /\ item' = [item EXCEPT ![r] = "claimed"]
    /\ stage' = [stage EXCEPT ![r] = "taken"]
    /\ UNCHANGED <<request, at, fresh, stuck, target, life>>

(* The idempotency point: an item whose row is not approved is dropped.    *)
Installable(r) == status[r] = "approved"

MarkInstalling(r) == Installable(r) /\ Moves(r, "installing")

DropItem(r) ==
    /\ stage[r] = "taken" /\ ~Installable(r)
    /\ item' = [item EXCEPT ![r] = "none"]
    /\ stage' = [stage EXCEPT ![r] = "idle"]
    /\ UNCHANGED <<request, at, fresh, stuck, target, life>>

StartBatch(r) ==
    /\ stage[r] = "taken"
    /\ MarkInstalling(r)
    /\ late' = late \ {r}
    /\ stage' = [stage EXCEPT ![r] = "verify"]
    /\ UNCHANGED <<tree, creating, crowd, item, at, fresh, stuck, target, life>>

(* mark_installing raises: the item had one attempt, the row is as before. *)
StartRaises(r) ==
    /\ stage[r] = "taken" /\ Installable(r)
    /\ item' = [item EXCEPT ![r] = "none"]
    /\ stage' = [stage EXCEPT ![r] = "idle"]
    /\ UNCHANGED <<request, at, fresh, stuck, target, life>>

(***************************************************************************)
(* perform_install_batch on a worker thread.                               *)
(***************************************************************************)

(* _verify_staged_trees, for the whole batch: also a tree that is there    *)
(* may not be read, or may not hold the bytes that were approved.          *)
Verify(r) ==
    /\ stage[r] = "verify"
    /\ \E s \in {"next", "bad"} :
          /\ s = "next" => tree[r] # "absent"
          /\ stage' = [stage EXCEPT ![r] = s]
    /\ UNCHANGED <<request, item, at, fresh, stuck, target, life>>

(* The next package of the preview: install_package begins to copy.  Both  *)
(* of two threads in one package use the same staging directory, which is  *)
(* named by the process id.                                                *)
BeginItem(r) ==
    /\ stage[r] = "next" /\ at[r] < Len(Order[r])
    /\ at' = [at EXCEPT ![r] = @ + 1]
    /\ stage' = [stage EXCEPT ![r] = "copy"]
    /\ LET p == Order[r][at[r] + 1]
       IN  shared' = IF InItem(p) = {} THEN shared \ {p} ELSE shared \cup {p}
    /\ UNCHANGED <<request, item, fresh, stuck, disk, row, amiss, life>>

InWork(r) == Order[r][at[r]]

(* Staging is renamed into place; was_update is whether the directory was  *)
(* there, which the batch remembers as not fresh.                          *)
Swap(r) ==
    /\ stage[r] = "copy"
    /\ stage' = [stage EXCEPT ![r] = "copied"]
    /\ \E b \in (IF InWork(r) \in shared THEN InItem(InWork(r)) \cup {"torn"} ELSE {r}) :
           disk' = [disk EXCEPT ![InWork(r)] = b]
    /\ fresh' = [fresh EXCEPT ![r] = IF disk[InWork(r)] = None THEN Append(@, InWork(r)) ELSE @]
    /\ UNCHANGED <<request, item, at, stuck, row, shared, amiss, life>>

(* The transaction that records the install commits.                       *)
Record(r) ==
    /\ stage[r] = "copied"
    /\ row' = [row EXCEPT ![InWork(r)] = r]
    /\ amiss' = IF InWork(r) \in shared THEN amiss \cup {InWork(r)} ELSE amiss \ {InWork(r)}
    /\ stage' = [stage EXCEPT ![r] = IF at[r] = Len(Order[r]) THEN "good" ELSE "next"]
    /\ UNCHANGED <<request, item, at, fresh, stuck, disk, shared, life>>

(* install_package raises.  Before the swap the old directory is put back; *)
(* after it the new directory stays and only the row is rolled back.  The  *)
(* package is not among those to be compensated.                           *)
ItemFails(r) ==
    /\ stage[r] \in {"copy", "copied"}
    /\ stage' = [stage EXCEPT ![r] = "undo"]
    /\ fresh' = [fresh EXCEPT ![r] = IF stage[r] = "copied" /\ @ # <<>> /\ Last(@) = InWork(r)
                                     THEN Front(@) ELSE @]
    /\ amiss' = IF stage[r] = "copied" \/ InWork(r) \in shared
                THEN amiss \cup {InWork(r)} ELSE amiss
    /\ UNCHANGED <<request, item, at, stuck, disk, row, shared, life>>

(* _compensate: uninstall what was fresh, by name, last first.             *)
UninstallSlip(p) ==
    /\ row' = [row EXCEPT ![p] = None]
    /\ disk' = disk
Uninstall(p) ==
    /\ disk' = [disk EXCEPT ![p] = None]
    /\ row' = [row EXCEPT ![p] = None]

Compensate(r) ==
    /\ stage[r] = "undo" /\ fresh[r] # <<>>
    /\ LET p == Last(fresh[r])
       IN  /\ shared' = IF InItem(p) = {} THEN shared ELSE shared \cup {p}
           /\ \/ /\ row[p] # None
                 /\ Uninstall(p)
                 /\ amiss' = IF InItem(p) = {} THEN amiss \ {p} ELSE amiss \cup {p}
              (* not installed any more; a later step of the uninstall raises *)
              \/ /\ row[p] = None
                 /\ UNCHANGED <<disk, row, amiss>>
              \/ /\ row[p] # None
                 /\ disk' = [disk EXCEPT ![p] = None]
                 /\ amiss' = amiss \cup {p}
                 /\ row' = row
    /\ fresh' = [fresh EXCEPT ![r] = Front(@)]
    /\ UNCHANGED <<request, item, stage, at, stuck, life>>

Compensated(r) ==
    /\ stage[r] = "undo" /\ fresh[r] = <<>>
    /\ stage' = [stage EXCEPT ![r] = "bad"]
    /\ UNCHANGED <<request, item, at, fresh, stuck, target, life>>

(* The batch raises outside the install of a package: nothing is           *)
(* uninstalled, and the handler reports a crash.                           *)
BatchRaises(r) ==
    /\ stage[r] \in {"verify", "next", "undo", "good"}
    /\ stage' = [stage EXCEPT ![r] = "raised"]
    /\ at' = [at EXCEPT ![r] = 0]
    /\ fresh' = [fresh EXCEPT ![r] = <<>>]
    /\ UNCHANGED <<request, item, stuck, target, life>>

(***************************************************************************)
(* The handler after its await: the final status, the staged tree, the     *)
(* notification, the completion of the item.                               *)
(***************************************************************************)
OutcomeSlip(r) == IF at[r] = Len(Order[r]) THEN "installed" ELSE "failed"
Outcome(r)     == IF stage[r] = "good" THEN "installed" ELSE "failed"

HandlerEnds(r) ==
    /\ stage' = [stage EXCEPT ![r] = "idle"]
    /\ at' = [at EXCEPT ![r] = 0]
    /\ fresh' = [fresh EXCEPT ![r] = <<>>]
    /\ item' = [item EXCEPT ![r] = "none"]

Settle(r) ==
    /\ stage[r] \in {"good", "bad", "raised"}
    /\ Moves(r, Outcome(r))
    /\ tree' = [tree EXCEPT ![r] = "absent"]
    /\ HandlerEnds(r)
    /\ UNCHANGED <<late, creating, crowd, stuck, target, life>>

(* The write of the final status raises: nothing looks at the row again    *)
(* before the next start.                                                  *)
SettleRaises(r) ==
    /\ stage[r] \in {"good", "bad", "raised"}
    /\ stuck' = stuck \cup {r}
    /\ HandlerEnds(r)
    /\ UNCHANGED <<request, target, life>>

CrashInSettle(r) ==
    /\ stage[r] \in {"good", "bad", "raised"}
    /\ Moves(r, Outcome(r))
    /\ Stop({})
    /\ UNCHANGED <<late, tree, item, disk>>

BatchStep(r) == \/ Verify(r) \/ BeginItem(r) \/ Swap(r) \/ Record(r) \/ ItemFails(r)
                \/ Compensate(r) \/ Compensated(r) \/ BatchRaises(r)

Next ==
    \/ \E r \in Requests :
          \/ CreateRequest(r) \/ InsertRequest(r) \/ CreateFails(r)
          \/ TreeAges(r) \/ RowAges(r)
          \/ Approve(r) \/ CrashInApprove(r) \/ Reject(r) \/ CrashInReject(r)
          \/ ExpireLazily(r)
          \/ ClaimItem(r) \/ DropItem(r) \/ StartBatch(r) \/ StartRaises(r)
          \/ BatchStep(r)
          \/ Settle(r) \/ SettleRaises(r) \/ CrashInSettle(r)
    \/ Sweep \/ SweepFails \/ CrashInSweep
    \/ Crash \/ (\E p \in Packages : CrashInSwap(p)) \/ Recover

Spec == Init /\ [][Next]_vars

(* The loop claims, awaited threads come back, time passes, the hourly     *)
(* sweep comes round and the process is started again.  A sweep may raise  *)
(* again and again only if the store is broken: one that is due happens.   *)
FairSpec ==
    /\ Spec
    /\ WF_vars(Recover) /\ WF_vars(Sweep)
    /\ \A r \in Requests :
          /\ WF_vars(TreeAges(r)) /\ WF_vars(RowAges(r))
          /\ WF_vars(ClaimItem(r)) /\ WF_vars(DropItem(r) \/ StartBatch(r) \/ StartRaises(r))
          /\ WF_vars(BatchStep(r)) /\ WF_vars(Settle(r) \/ SettleRaises(r))

(***************************************************************************)
(* Properties                                                              *)
(***************************************************************************)

(* A request that can still be decided or started, and is within its time, *)
(* has its staged tree, and so has every install that has verified it: no  *)
(* sweep removes what a live request owns (packages/pending_install.py,    *)
(* sweep_orphan_quarantines and the three passes that remove trees before  *)
(* they commit).                                                           *)
TreesKept ==
    \A r \in Requests :
        /\ status[r] \in {"requested", "approved"} /\ r \notin late => tree[r] # "absent"
        /\ stage[r] \in {"next", "copy", "copied"} => tree[r] # "absent"

(* Unless two batches worked on the package at the same time, or an        *)
(* install or uninstall of it was cut between its directory and its row,   *)
(* the directory of a package holds the bytes its row records, at every    *)
(* moment at which no batch is in the middle of that package               *)
(* (installer._atomic_copy_into_place before _record_install;              *)
(* uninstall_package).                                                     *)
DirectoryMatchesRow ==
    \A p \in Packages : InItem(p) = {} /\ p \notin amiss => disk[p] = row[p]

(* More than max_open_requests wait for a decision only if two tool calls  *)
(* fetched at the same time: the limit is read before the fetch and the    *)
(* row is inserted after it (install_requests.create_install_request).     *)
OpenWithinLimit == Cardinality(Open) > MaxOpen => crowd

(* An approval is executed at most once, and an outcome is final, across   *)
(* re-enqueued and re-dispatched items and interrupted installs: the row   *)
(* only moves forward (pending_install.set_status, the status check of the *)
(* handler, fail_interrupted_installs).                                    *)
Rank(s) == CASE s = "absent" -> 0 [] s = "requested" -> 1 [] s = "approved" -> 2
             [] s = "installing" -> 3 [] OTHER -> 4
OutcomesFinal ==
    [][\A r \in Requests : status'[r] # status[r] => Rank(status'[r]) > Rank(status[r])]_vars

(* While the process lives, a row that says installing has its batch at    *)
(* work, or the write of its final status raised: no interrupted, dropped  *)
(* or re-dispatched item leaves an approval behind that nobody works on    *)
(* (fail_interrupted_installs, handle_package_install_approved).           *)
InBatch(r) == stage[r] \in {"verify", "next", "copy", "copied", "undo", "good", "bad", "raised"}
InstallsAttended ==
    up => \A r \in Requests : status[r] = "installing" => InBatch(r) \/ r \in stuck

(* No bytes and no row of a request that nobody approved, or whose         *)
(* approval was never started, are found where packages are installed.     *)
NothingUnapproved ==
    \A p \in Packages : \A r \in Requests : r \in {disk[p], row[p]} =>
        status[r] \in {"installing", "installed", "failed"}

(* An install keeps the promise made to the operator who approves it,      *)
(* across crashes, sweeps, re-dispatched items and batches that interleave:*)
(* what a batch has recorded are the packages before the one in work.      *)
Phase(s) ==
    CASE s \in {"absent", "requested"} -> "new"
      [] s \in {"rejected", "expired"} -> "refused"
      [] OTHER -> s
Run(s) ==
    CASE s \in {"verify", "next", "copy", "copied", "good"} -> "working"
      [] s \in {"undo", "bad"} -> "undoing"
      [] OTHER -> "none"
Recorded(r) ==
    {Order[r][i] : i \in 1 .. (IF stage[r] \in {"next", "good"} THEN at[r] ELSE at[r] - 1)}

Contract == INSTANCE InstallContract WITH
    Wanted <- [r \in Requests |-> Range(Order[r])],
    phase <- [r \in Requests |-> Phase(status[r])],
    run <- [r \in Requests |-> Run(stage[r])],
    done <- [r \in Requests |-> Recorded(r)],
    owner <- row

KeepsContract == Contract!Spec

(* An approved request ends: a lost enqueue, a dropped item, a crash in    *)
(* the batch or a stale approval all lead to an outcome, unless the write  *)
(* of the final status raised and the process was not started again since  *)
(* (install_approved_handler.py, recover_approved_installs,                *)
(* recover_on_startup).                                                    *)
ApprovedEnds ==
    \A r \in Requests :
        (status[r] \in {"approved", "installing"}) ~> (status[r] \in Terminal \/ r \in stuck)

(* No staged tree outlives its request: whatever path a request ends on,   *)
(* and also if it never got a row, its fetched tree is removed             *)
(* (remove_staging on every terminal edge, sweep_orphan_quarantines for    *)
(* the crash windows and for a row expired by a route).                    *)
TreesReclaimed ==
    \A r \in Requests :
        (tree[r] # "absent" /\ r \notin creating /\ status[r] \in Terminal \cup {"absent"})
            ~> (tree[r] = "absent" \/ r \in creating)

(* What the code says of a compensation: "An upgrade is never rolled back" *)
(* (install_batch._compensate).  A package that an installed request       *)
(* reported, first or as an upgrade, is then still installed.              *)
InstalledStays ==
    \A r \in Requests : status[r] = "installed" =>
        \A i \in DOMAIN Order[r] : row[Order[r][i]] # None
=============================================================================
