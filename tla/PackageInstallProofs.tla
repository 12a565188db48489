------------------------ MODULE PackageInstallProofs ------------------------
(***************************************************************************)
(* Requests move forward only, keep their staged trees while they live,    *)
(* stay within the limit, are attended while they install, and leave the   *)
(* directory of a package and its row in agreement, but for the windows    *)
(* the properties name; and all of it keeps the contract with the operator *)
(* who approves: for any number of requests, packages and ends of the      *)
(* process.                                                                *)
(***************************************************************************)
EXTENDS PackageInstall, FiniteSetTheorems, SequenceTheorems, TLAPS

Domains ==
    /\ status \in [Requests -> Statuses]
    /\ tree \in [Requests -> {"absent", "young", "old"}]
    /\ late \subseteq Requests /\ creating \subseteq Requests
    /\ stage \in [Requests -> {"idle", "taken", "verify", "next", "copy",
                               "copied", "undo", "good", "bad", "raised"}]
    /\ at \in [Requests -> Nat]
    /\ disk \in [Packages -> Bytes] /\ row \in [Packages -> Requests \cup {None}]

(* A row, its tree and its handler.                                        *)
Coherent(r) ==
    /\ r \in creating => status[r] = "absent" /\ tree[r] = "young"
    /\ InBatch(r) => status[r] = "installing"
    /\ stage[r] # "idle" => up
    /\ stage[r] \in {"next", "copy", "copied"} => tree[r] # "absent"
    /\ status[r] \in {"requested", "approved"} /\ r \notin late => tree[r] # "absent"

RInv == Domains /\ \A r \in Requests : Coherent(r)

Forward == \A r \in Requests : status'[r] # status[r] => Rank(status'[r]) > Rank(status[r])

-----------------------------------------------------------------------------
(* Every row of Edges leads to a higher rank.                              *)
LEMMA Ranks ==
  /\ Rank("absent") = 0 /\ Rank("requested") = 1 /\ Rank("approved") = 2
  /\ Rank("installing") = 3 /\ \A s \in Terminal : Rank(s) = 4
  BY DEF Rank, Terminal

LEMMA EdgesRise ==
  ASSUME NEW s, NEW t, <<s, t>> \in Edges
  PROVE  Rank(t) > Rank(s) /\ t \in Statuses \ {"absent", "requested"} /\ s \notin Terminal
         /\ (t = "approved" <=> s = "requested" /\ t \notin {"rejected", "expired"})
  <1>1. \/ s = "requested" /\ t \in {"approved", "rejected", "expired"}
        \/ s = "approved" /\ t \in {"installing", "failed"}
        \/ s = "installing" /\ t \in {"installed", "failed"}
    BY DEF Edges
  <1> QED BY <1>1, Ranks DEF Terminal, Statuses

LEMMA MovesOne ==
  ASSUME Domains, NEW r \in Requests, NEW s, Moves(r, s)
  PROVE  /\ status' \in [Requests -> Statuses]
         /\ \A q \in Requests : status'[q] = IF q = r THEN s ELSE status[q]
         /\ Rank(s) > Rank(status[r])
         /\ s = "approved" => status[r] = "requested"
         /\ s \notin {"absent", "requested"} /\ status[r] # "absent"
  <1>1. <<status[r], s>> \in Edges /\ status' = [status EXCEPT ![r] = s] BY DEF Moves
  <1>2. status[r] # "absent" BY <1>1 DEF Edges
  <1> QED BY <1>1, <1>2, EdgesRise DEF Domains

LEMMA InitRInv == Init => RInv
  <1> SUFFICES ASSUME Init PROVE RInv OBVIOUS
  <1>1. Domains BY DEF Init, Domains, Statuses, Bytes
  <1>2. \A r \in Requests : Coherent(r) BY DEF Init, Coherent, InBatch
  <1> QED BY <1>1, <1>2 DEF RInv

(* The end of the process leaves no handler and no tool call.              *)
LEMMA StopStep ==
  ASSUME RInv, NEW cut, Stop(cut), Domains',
         \A q \in Requests :
            \/ status'[q] = status[q] /\ tree'[q] = tree[q]
            \/ status'[q] = status[q] /\ tree'[q] = "absent"
               /\ (status[q] \notin {"requested", "approved"} \/ q \in late)
            \/ status'[q] \notin {"requested", "approved"} /\ tree'[q] = tree[q]
            \/ status'[q] = "approved" /\ status[q] = "requested" /\ tree'[q] = tree[q],
         late' = late
  PROVE  RInv'
  <1>1. creating' = {} /\ \A q \in Requests : stage'[q] = "idle" BY DEF Stop
  <1> QED BY <1>1 DEF RInv, Coherent, InBatch

(* Tool calls.                                                             *)
LEMMA CreateRequestStep ==
  ASSUME RInv, NEW r \in Requests, CreateRequest(r) PROVE RInv' /\ Forward
  <1>1. /\ status[r] = "absent" /\ creating' = creating \cup {r}
        /\ tree' = [tree EXCEPT ![r] = "young"]
        /\ UNCHANGED <<status, late, stage, at, disk, row, up>>
    BY DEF CreateRequest, work, target, life
  <1>2. Domains' BY <1>1 DEF RInv, Domains
  <1>3. \A q \in Requests : Coherent(q)' BY <1>1 DEF RInv, Coherent, InBatch, Domains
  <1> QED BY <1>1, <1>2, <1>3 DEF RInv, Forward

LEMMA InsertRequestStep ==
  ASSUME RInv, NEW r \in Requests, InsertRequest(r) PROVE RInv' /\ Forward
  <1>1. /\ r \in creating /\ creating' = creating \ {r}
        /\ status' = [status EXCEPT ![r] = "requested"]
        /\ UNCHANGED <<late, tree, stage, at, disk, row, up>>
    BY DEF InsertRequest, work, target, life
  <1>2. status[r] = "absent" /\ tree[r] = "young" BY <1>1 DEF RInv, Coherent
  <1>3. \A q \in Requests : status'[q] = IF q = r THEN "requested" ELSE status[q]
    BY <1>1 DEF RInv, Domains
  <1>4. Domains' BY <1>1 DEF RInv, Domains, Statuses
  <1>5. \A q \in Requests : Coherent(q)' BY <1>1, <1>2, <1>3 DEF RInv, Coherent, InBatch
  <1> QED BY <1>2, <1>3, <1>4, <1>5, Ranks DEF RInv, Forward

LEMMA CreateFailsStep ==
  ASSUME RInv, NEW r \in Requests, CreateFails(r) PROVE RInv' /\ Forward
  <1>1. /\ r \in creating /\ creating' = creating \ {r} /\ tree' = [tree EXCEPT ![r] = "absent"]
        /\ UNCHANGED <<status, late, stage, at, disk, row, up>>
    BY DEF CreateFails, work, target, life
  <1>2. status[r] = "absent" BY <1>1 DEF RInv, Coherent
  <1>3. Domains' BY <1>1 DEF RInv, Domains
  <1>4. \A q \in Requests : Coherent(q)' BY <1>1, <1>2 DEF RInv, Coherent, InBatch, Domains
  <1> QED BY <1>1, <1>3, <1>4 DEF RInv, Forward

LEMMA TreeAgesStep ==
  ASSUME RInv, NEW r \in Requests, TreeAges(r) PROVE RInv' /\ Forward
  <1>1. /\ r \notin creating /\ tree' = [tree EXCEPT ![r] = "old"]
        /\ UNCHANGED <<status, late, creating, stage, at, disk, row, up>>
    BY DEF TreeAges, work, target, life
  <1>2. Domains' BY <1>1 DEF RInv, Domains
  <1>3. \A q \in Requests : Coherent(q)' BY <1>1 DEF RInv, Coherent, InBatch, Domains
  <1> QED BY <1>1, <1>2, <1>3 DEF RInv, Forward

LEMMA RowAgesStep ==
  ASSUME RInv, NEW r \in Requests, RowAges(r) PROVE RInv' /\ Forward
  <1>1. /\ late' = late \cup {r}
        /\ UNCHANGED <<status, tree, creating, stage, at, disk, row, up>>
    BY DEF RowAges, work, target, life
  <1>2. Domains' BY <1>1 DEF RInv, Domains
  <1>3. \A q \in Requests : Coherent(q)' BY <1>1 DEF RInv, Coherent, InBatch
  <1> QED BY <1>1, <1>2, <1>3 DEF RInv, Forward

(* Decisions.                                                              *)
LEMMA DecideStep ==
  ASSUME RInv, NEW r \in Requests, NEW s, Moves(r, s), status[r] = "requested",
         UNCHANGED <<creating, stage, at, disk, row, up>>,
         \/ s = "approved" /\ UNCHANGED <<late, tree>>
         \/ s \in {"rejected", "expired"} /\ late' \subseteq late /\ late \ late' \subseteq {r}
            /\ (tree' = tree \/ tree' = [tree EXCEPT ![r] = "absent"])
  PROVE  RInv' /\ Forward
  <1>1. /\ status' \in [Requests -> Statuses]
        /\ \A q \in Requests : status'[q] = IF q = r THEN s ELSE status[q]
        /\ Rank(s) > Rank(status[r])
    BY MovesOne DEF RInv
  <1>2. r \notin creating /\ ~InBatch(r) BY DEF RInv, Coherent
  <1>3. Domains' BY <1>1 DEF RInv, Domains
  <1>4. \A q \in Requests : Coherent(q)'
    <2> SUFFICES ASSUME NEW q \in Requests PROVE Coherent(q)' OBVIOUS
    <2>1. Coherent(q) BY DEF RInv
    <2>2. CASE q # r
      <3>1. tree'[q] = tree[q] /\ status'[q] = status[q] /\ (q \in late' <=> q \in late)
        BY <1>1, <2>2 DEF RInv, Domains
      <3> QED BY <2>1, <3>1 DEF Coherent, InBatch
    <2>3. CASE q = r BY <1>1, <1>2, <2>1, <2>3 DEF Coherent, InBatch
    <2> QED BY <2>2, <2>3
  <1> QED BY <1>1, <1>3, <1>4 DEF RInv, Forward

LEMMA ApproveStep == ASSUME RInv, NEW r \in Requests, Approve(r) PROVE RInv' /\ Forward
  BY DecideStep DEF Approve, target, life

LEMMA RejectStep == ASSUME RInv, NEW r \in Requests, Reject(r) PROVE RInv' /\ Forward
  BY DecideStep DEF Reject, work, target, life

LEMMA ExpireLazilyStep == ASSUME RInv, NEW r \in Requests, ExpireLazily(r) PROVE RInv' /\ Forward
  BY DecideStep DEF ExpireLazily, work, target, life

LEMMA CrashInDecisionStep ==
  ASSUME RInv, NEW r \in Requests, CrashInApprove(r) \/ CrashInReject(r) PROVE RInv' /\ Forward
  <1>1. PICK s \in {"approved", "rejected"} : Moves(r, s)
    BY DEF CrashInApprove, CrashInReject
  <1>2. status[r] = "requested" /\ Stop({}) /\ UNCHANGED <<late, tree, disk>>
    BY DEF CrashInApprove, CrashInReject
  <1>3. /\ status' \in [Requests -> Statuses]
        /\ \A q \in Requests : status'[q] = IF q = r THEN s ELSE status[q]
        /\ Rank(s) > Rank(status[r])
    BY <1>1, MovesOne DEF RInv
  <1>4. Domains' BY <1>2, <1>3 DEF RInv, Domains, Stop
  <1>5. RInv' BY <1>2, <1>3, <1>4, StopStep
  <1> QED BY <1>3, <1>5 DEF Forward

LEMMA CrashStep == ASSUME RInv, Crash PROVE RInv' /\ Forward
  <1>1. Stop({}) /\ UNCHANGED <<status, late, tree, disk>> BY DEF Crash
  <1>2. Domains' BY <1>1 DEF RInv, Domains, Stop
  <1> QED BY <1>1, <1>2, StopStep DEF Forward

LEMMA CrashInSwapStep == ASSUME RInv, NEW p \in Packages, CrashInSwap(p) PROVE RInv' /\ Forward
  <1>1. /\ Stop({p}) /\ UNCHANGED <<status, late, tree>>
        /\ disk' = [disk EXCEPT ![p] = None]
    BY DEF CrashInSwap
  <1>2. Domains' BY <1>1 DEF RInv, Domains, Stop, Bytes
  <1> QED BY <1>1, <1>2, StopStep DEF Forward

(* The sweeps remove what no live request owns.                            *)
LEMMA Unowned ==
  ASSUME RInv, NEW q \in Overdue \cup Stale \cup Orphans
  PROVE  /\ status[q] \notin {"requested", "approved"} \/ q \in late
         /\ q \notin creating /\ stage[q] \notin {"next", "copy", "copied"} /\ q \in Requests
         /\ status[q] # "installing"
  <1>1. q \in Requests BY DEF Overdue, Stale, Orphans, RInv, Domains
  <1>2. Coherent(q) BY <1>1 DEF RInv
  <1>3. status[q] \in Statuses BY <1>1 DEF RInv, Domains
  <1>4. CASE q \in Overdue \cup Stale
    <2>1. q \in late /\ status[q] \in {"requested", "approved"} BY <1>4 DEF Overdue, Stale
    <2> QED BY <1>1, <1>2, <2>1 DEF Coherent, InBatch
  <1>5. CASE q \in Orphans
    <2>1. tree[q] = "old" /\ status[q] \in Terminal \cup {"absent"}
      BY <1>5 DEF Orphans, Owners
    <2>2. status[q] \notin {"requested", "approved", "installing"} BY <2>1 DEF Terminal
    <2> QED BY <1>1, <1>2, <2>1, <2>2 DEF Coherent, InBatch
  <1> QED BY <1>4, <1>5

LEMMA SweptStep ==
  ASSUME RInv, NEW ended, ended \subseteq Requests, Swept(ended),
         \A r \in ended : status[r] = "installing" /\ stage[r] = "idle",
         UNCHANGED <<creating, stage, at, disk, row>>,
         \A r \in Requests : stage[r] # "idle" => up'
  PROVE  RInv' /\ Forward
  <1>1. /\ status' = [r \in Requests |->
                IF r \in Overdue THEN "expired"
                ELSE IF r \in Stale \cup ended THEN "failed" ELSE status[r]]
        /\ late' = late \ (Overdue \cup Stale)
        /\ tree' = [r \in Requests |->
                IF r \in Overdue \cup Stale \cup ended \cup Orphans THEN "absent" ELSE tree[r]]
    BY DEF Swept
  <1>2. Domains' BY <1>1 DEF RInv, Domains, Statuses, Terminal
  <1>3. \A q \in Requests : Coherent(q)'
    <2> SUFFICES ASSUME NEW q \in Requests PROVE Coherent(q)' OBVIOUS
    <2>1. Coherent(q) BY DEF RInv
    <2>2. CASE q \in Overdue \cup Stale
      <3>1. status'[q] \in {"expired", "failed"} BY <1>1, <2>2
      <3>2. /\ q \notin creating /\ stage[q] \notin {"next", "copy", "copied"}
            /\ status[q] # "installing"
        BY <2>2, Unowned
      <3> QED BY <2>1, <3>1, <3>2 DEF Coherent, InBatch
    <2>3. CASE q \in ended /\ q \notin Overdue \cup Stale
      <3>1. status'[q] = "failed" /\ stage[q] = "idle" /\ status[q] = "installing" BY <1>1, <2>3
      <3> QED BY <2>1, <3>1 DEF Coherent, InBatch
    <2>4. CASE q \notin Overdue \cup Stale \cup ended
      <3>1. status'[q] = status[q] /\ (q \in late' <=> q \in late) BY <1>1, <2>4
      <3>2. CASE q \in Orphans
        <4>1. /\ status[q] \notin {"requested", "approved"} \/ q \in late
              /\ q \notin creating /\ stage[q] \notin {"next", "copy", "copied"}
          BY <3>2, Unowned
        <4> QED BY <2>1, <3>1, <4>1 DEF Coherent, InBatch
      <3>3. CASE q \notin Orphans
        <4>1. tree'[q] = tree[q] BY <1>1, <2>4, <3>3
        <4> QED BY <2>1, <3>1, <4>1 DEF Coherent, InBatch
      <3> QED BY <3>2, <3>3
    <2> QED BY <2>2, <2>3, <2>4
  <1>4. Forward
    <2> SUFFICES ASSUME NEW q \in Requests, status'[q] # status[q]
                 PROVE  Rank(status'[q]) > Rank(status[q])
      BY DEF Forward
    <2>1. status[q] \in {"requested", "approved", "installing"}
      BY <1>1 DEF Overdue, Stale
    <2>2. status'[q] \in Terminal BY <1>1 DEF Terminal
    <2> QED BY <2>1, <2>2, Ranks
  <1> QED BY <1>2, <1>3, <1>4 DEF RInv

LEMMA SweepStep == ASSUME RInv, Sweep PROVE RInv' /\ Forward
  <1>1. UNCHANGED <<creating, stage, at, disk, row, up>> /\ Swept({})
    BY DEF Sweep, target, life
  <1>2. \A r \in Requests : stage[r] # "idle" => up' BY <1>1 DEF RInv, Coherent
  <1> QED BY <1>1, <1>2, SweptStep

LEMMA RecoverStep == ASSUME RInv, Recover PROVE RInv' /\ Forward
  <1>1. UNCHANGED <<creating, stage, at, disk, row>> /\ Swept(Installing) /\ up' = TRUE /\ ~up
    BY DEF Recover, target
  <1>2. \A r \in Requests : stage[r] = "idle" BY <1>1 DEF RInv, Coherent
  <1> QED BY <1>1, <1>2, SweptStep DEF Installing

LEMMA SweepFailsStep == ASSUME RInv, SweepFails PROVE RInv' /\ Forward
  <1>1. PICK gone \in Removable :
          tree' = [r \in Requests |-> IF r \in gone THEN "absent" ELSE tree[r]]
    BY DEF SweepFails
  <1>2. UNCHANGED <<status, late, creating, stage, at, disk, row, up>>
    BY DEF SweepFails, work, target, life
  <1>3. \A q \in gone : q \in Overdue \cup Stale \cup Orphans BY DEF Removable
  <1>4. Domains' BY <1>1, <1>2 DEF RInv, Domains
  <1>5. \A q \in Requests : Coherent(q)'
    <2> SUFFICES ASSUME NEW q \in Requests PROVE Coherent(q)' OBVIOUS
    <2>1. Coherent(q) BY DEF RInv
    <2>2. CASE q \in gone
      <3>1. /\ status[q] \notin {"requested", "approved"} \/ q \in late
            /\ q \notin creating /\ stage[q] \notin {"next", "copy", "copied"}
        BY <1>3, <2>2, Unowned
      <3> QED BY <1>2, <2>1, <3>1 DEF Coherent, InBatch
    <2>3. CASE q \notin gone
      <3>1. tree'[q] = tree[q] BY <1>1, <2>3
      <3> QED BY <1>2, <2>1, <3>1 DEF Coherent, InBatch
    <2> QED BY <2>2, <2>3
  <1> QED BY <1>2, <1>4, <1>5 DEF RInv, Forward

LEMMA CrashInSweepStep == ASSUME RInv, CrashInSweep PROVE RInv' /\ Forward
  <1>1. PICK gone \in Removable :
          tree' = [r \in Requests |-> IF r \in gone THEN "absent" ELSE tree[r]]
    BY DEF CrashInSweep
  <1>2. Stop({}) /\ UNCHANGED <<status, late, disk>> BY DEF CrashInSweep
  <1>3. \A q \in gone : status[q] \notin {"requested", "approved"} \/ q \in late
    BY Unowned DEF Removable
  <1>4. Domains' BY <1>1, <1>2 DEF RInv, Domains, Stop
  <1>5. \A q \in Requests : \/ tree'[q] = tree[q]
                            \/ tree'[q] = "absent" /\ (status[q] \notin {"requested", "approved"} \/ q \in late)
    BY <1>1, <1>3
  <1>6. RInv' BY <1>2, <1>4, <1>5, StopStep
  <1> QED BY <1>2, <1>6 DEF Forward

(* The handler of an item and its batch.                                   *)
LEMMA HandlerStep ==
  ASSUME RInv, NEW r \in Requests, NEW s, Domains', UNCHANGED <<status, late, tree, creating, up>>,
         stage' = [stage EXCEPT ![r] = s],
         \/ s = "idle"
         \/ s = "taken" /\ up
         \/ s \in {"next", "copy", "copied"} /\ InBatch(r) /\ tree[r] # "absent"
         \/ s \in {"undo", "good", "bad", "raised"} /\ InBatch(r)
  PROVE  RInv' /\ Forward
  <1>1. \A q \in Requests : stage'[q] = IF q = r THEN s ELSE stage[q] BY DEF RInv, Domains
  <1>2. \A q \in Requests : Coherent(q)'
    <2> SUFFICES ASSUME NEW q \in Requests PROVE Coherent(q)' OBVIOUS
    <2>1. Coherent(q) BY DEF RInv
    <2>2. CASE q # r BY <1>1, <2>1, <2>2 DEF Coherent, InBatch
    <2>3. CASE q = r BY <1>1, <2>1, <2>3 DEF Coherent, InBatch
    <2> QED BY <2>2, <2>3
  <1> QED BY <1>2 DEF RInv, Forward

LEMMA TakeStep ==
  ASSUME RInv, NEW r \in Requests, ClaimItem(r) \/ DropItem(r) \/ StartRaises(r)
  PROVE  RInv' /\ Forward
  <1>1. PICK s \in {"idle", "taken"} :
          stage' = [stage EXCEPT ![r] = s] /\ (s = "taken" => up)
    BY DEF ClaimItem, DropItem, StartRaises
  <1>2. UNCHANGED <<status, late, tree, creating, at, disk, row, up>>
    BY DEF ClaimItem, DropItem, StartRaises, request, target, life
  <1>3. Domains' BY <1>1, <1>2 DEF RInv, Domains
  <1> QED BY <1>1, <1>2, <1>3, HandlerStep

LEMMA StartBatchStep ==
  ASSUME RInv, NEW r \in Requests, StartBatch(r) PROVE RInv' /\ Forward
  <1>1. /\ stage[r] = "taken" /\ status[r] = "approved" /\ Moves(r, "installing")
        /\ late' = late \ {r} /\ stage' = [stage EXCEPT ![r] = "verify"]
        /\ UNCHANGED <<tree, creating, at, disk, row, up>>
    BY DEF StartBatch, MarkInstalling, Installable, target, life
  <1>2. /\ status' \in [Requests -> Statuses]
        /\ \A q \in Requests : status'[q] = IF q = r THEN "installing" ELSE status[q]
        /\ Rank("installing") > Rank(status[r])
    BY <1>1, MovesOne DEF RInv
  <1>3. Domains' BY <1>1, <1>2 DEF RInv, Domains
  <1>4. \A q \in Requests : stage'[q] = IF q = r THEN "verify" ELSE stage[q]
    BY <1>1 DEF RInv, Domains
  <1>5. \A q \in Requests : Coherent(q)'
    <2> SUFFICES ASSUME NEW q \in Requests PROVE Coherent(q)' OBVIOUS
    <2>1. Coherent(q) BY DEF RInv
    <2>2. CASE q # r
      <3>1. q \in late' <=> q \in late BY <1>1, <2>2
      <3> QED BY <1>1, <1>2, <1>4, <2>1, <2>2, <3>1 DEF Coherent, InBatch
    <2>3. CASE q = r BY <1>1, <1>2, <1>4, <2>1, <2>3 DEF Coherent, InBatch
    <2> QED BY <2>2, <2>3
  <1> QED BY <1>2, <1>3, <1>5 DEF RInv, Forward

LEMMA VerifyStep == ASSUME RInv, NEW r \in Requests, Verify(r) PROVE RInv' /\ Forward
  <1>1. PICK s \in {"bad", "next"} :
          stage' = [stage EXCEPT ![r] = s] /\ (s = "next" => tree[r] # "absent")
    BY DEF Verify
  <1>2. InBatch(r) /\ UNCHANGED <<status, late, tree, creating, at, disk, row, up>>
    BY DEF Verify, InBatch, request, target, life
  <1>3. Domains' BY <1>1, <1>2 DEF RInv, Domains
  <1> QED BY <1>1, <1>2, <1>3, HandlerStep

LEMMA BeginItemStep == ASSUME RInv, NEW r \in Requests, BeginItem(r) PROVE RInv' /\ Forward
  <1>1. /\ stage[r] = "next" /\ stage' = [stage EXCEPT ![r] = "copy"]
        /\ at' = [at EXCEPT ![r] = @ + 1]
        /\ UNCHANGED <<status, late, tree, creating, disk, row, up>>
    BY DEF BeginItem, request, life
  <1>2. InBatch(r) /\ tree[r] # "absent" BY <1>1 DEF RInv, Coherent, InBatch
  <1>3. Domains' BY <1>1 DEF RInv, Domains
  <1> QED BY <1>1, <1>2, <1>3, HandlerStep

LEMMA SwapStep == ASSUME RInv, NEW r \in Requests, Swap(r) PROVE RInv' /\ Forward
  <1>1. /\ stage[r] = "copy" /\ stage' = [stage EXCEPT ![r] = "copied"]
        /\ UNCHANGED <<status, late, tree, creating, at, row, up>>
    BY DEF Swap, request, life
  <1>2. PICK b \in Bytes : disk' = [disk EXCEPT ![InWork(r)] = b]
    BY DEF Swap, Bytes, InItem
  <1>3. InBatch(r) /\ tree[r] # "absent" BY <1>1 DEF RInv, Coherent, InBatch
  <1>4. Domains' BY <1>1, <1>2 DEF RInv, Domains
  <1> QED BY <1>1, <1>3, <1>4, HandlerStep

LEMMA RecordStep == ASSUME RInv, NEW r \in Requests, Record(r) PROVE RInv' /\ Forward
  <1>1. /\ stage[r] = "copied" /\ row' = [row EXCEPT ![InWork(r)] = r]
        /\ UNCHANGED <<status, late, tree, creating, at, disk, up>>
    BY DEF Record, request, life
  <1>2. PICK s \in {"good", "next"} : stage' = [stage EXCEPT ![r] = s] BY DEF Record
  <1>3. InBatch(r) /\ tree[r] # "absent" BY <1>1 DEF RInv, Coherent, InBatch
  <1>4. Domains' BY <1>1, <1>2 DEF RInv, Domains
  <1> QED BY <1>1, <1>2, <1>3, <1>4, HandlerStep

LEMMA ItemFailsStep == ASSUME RInv, NEW r \in Requests, ItemFails(r) PROVE RInv' /\ Forward
  <1>1. /\ stage[r] \in {"copy", "copied"} /\ stage' = [stage EXCEPT ![r] = "undo"]
        /\ UNCHANGED <<status, late, tree, creating, at, disk, row, up>>
    BY DEF ItemFails, request, life
  <1>2. InBatch(r) BY <1>1 DEF InBatch
  <1>3. Domains' BY <1>1 DEF RInv, Domains
  <1> QED BY <1>1, <1>2, <1>3, HandlerStep

LEMMA CompensateStep == ASSUME RInv, NEW r \in Requests, Compensate(r) PROVE RInv' /\ Forward
  <1>1. UNCHANGED <<status, late, tree, creating, at, stage, up>>
    BY DEF Compensate, request, life
  <1>2. /\ disk' = disk \/ disk' = [disk EXCEPT ![Last(fresh[r])] = None]
        /\ row' = row \/ row' = [row EXCEPT ![Last(fresh[r])] = None]
    BY DEF Compensate, Uninstall
  <1>3. Domains' BY <1>1, <1>2 DEF RInv, Domains, Bytes
  <1>4. \A q \in Requests : Coherent(q)' BY <1>1 DEF RInv, Coherent, InBatch
  <1> QED BY <1>1, <1>3, <1>4 DEF RInv, Forward

LEMMA CompensatedStep == ASSUME RInv, NEW r \in Requests, Compensated(r) PROVE RInv' /\ Forward
  <1>1. /\ stage[r] = "undo" /\ stage' = [stage EXCEPT ![r] = "bad"]
        /\ UNCHANGED <<status, late, tree, creating, at, disk, row, up>>
    BY DEF Compensated, request, target, life
  <1>2. InBatch(r) BY <1>1 DEF InBatch
  <1>3. Domains' BY <1>1 DEF RInv, Domains
  <1> QED BY <1>1, <1>2, <1>3, HandlerStep

LEMMA BatchRaisesStep == ASSUME RInv, NEW r \in Requests, BatchRaises(r) PROVE RInv' /\ Forward
  <1>1. /\ stage[r] \in {"verify", "next", "undo", "good"}
        /\ stage' = [stage EXCEPT ![r] = "raised"] /\ at' = [at EXCEPT ![r] = 0]
        /\ UNCHANGED <<status, late, tree, creating, disk, row, up>>
    BY DEF BatchRaises, request, target, life
  <1>2. InBatch(r) BY <1>1 DEF InBatch
  <1>3. Domains' BY <1>1 DEF RInv, Domains
  <1> QED BY <1>1, <1>2, <1>3, HandlerStep

(* The outcome.                                                            *)
LEMMA SettleStep == ASSUME RInv, NEW r \in Requests, Settle(r) PROVE RInv' /\ Forward
  <1>1. /\ stage[r] \in {"good", "bad", "raised"} /\ Moves(r, Outcome(r))
        /\ tree' = [tree EXCEPT ![r] = "absent"]
        /\ stage' = [stage EXCEPT ![r] = "idle"] /\ at' = [at EXCEPT ![r] = 0]
        /\ UNCHANGED <<late, creating, disk, row, up>>
    BY DEF Settle, HandlerEnds, target, life
  <1>2. /\ status' \in [Requests -> Statuses]
        /\ \A q \in Requests : status'[q] = IF q = r THEN Outcome(r) ELSE status[q]
        /\ Rank(Outcome(r)) > Rank(status[r])
    BY <1>1, MovesOne DEF RInv
  <1>3. Outcome(r) \in {"installed", "failed"} BY DEF Outcome
  <1>4. Domains' BY <1>1, <1>2 DEF RInv, Domains
  <1>5. /\ \A q \in Requests : stage'[q] = IF q = r THEN "idle" ELSE stage[q]
        /\ \A q \in Requests : tree'[q] = IF q = r THEN "absent" ELSE tree[q]
    BY <1>1 DEF RInv, Domains
  <1>6. status[r] = "installing" BY <1>1 DEF RInv, Coherent, InBatch
  <1>7. \A q \in Requests : Coherent(q)'
    <2> SUFFICES ASSUME NEW q \in Requests PROVE Coherent(q)' OBVIOUS
    <2>1. Coherent(q) BY DEF RInv
    <2>2. CASE q # r BY <1>1, <1>2, <1>5, <2>1, <2>2 DEF Coherent, InBatch
    <2>3. CASE q = r BY <1>1, <1>2, <1>3, <1>5, <1>6, <2>1, <2>3 DEF Coherent, InBatch
    <2> QED BY <2>2, <2>3
  <1> QED BY <1>2, <1>4, <1>7 DEF RInv, Forward

LEMMA SettleRaisesStep ==
  ASSUME RInv, NEW r \in Requests, SettleRaises(r) PROVE RInv' /\ Forward
  <1>1. /\ stage' = [stage EXCEPT ![r] = "idle"] /\ at' = [at EXCEPT ![r] = 0]
        /\ UNCHANGED <<status, late, tree, creating, disk, row, up>>
    BY DEF SettleRaises, HandlerEnds, request, target, life
  <1>2. Domains' BY <1>1 DEF RInv, Domains
  <1> QED BY <1>1, <1>2, HandlerStep

LEMMA CrashInSettleStep ==
  ASSUME RInv, NEW r \in Requests, CrashInSettle(r) PROVE RInv' /\ Forward
  <1>1. Moves(r, Outcome(r)) /\ Stop({}) /\ UNCHANGED <<late, tree, disk>>
    BY DEF CrashInSettle
  <1>2. /\ status' \in [Requests -> Statuses]
        /\ \A q \in Requests : status'[q] = IF q = r THEN Outcome(r) ELSE status[q]
        /\ Rank(Outcome(r)) > Rank(status[r])
    BY <1>1, MovesOne DEF RInv
  <1>3. Outcome(r) \in {"installed", "failed"} BY DEF Outcome
  <1>4. Domains' BY <1>1, <1>2 DEF RInv, Domains, Stop
  <1>5. RInv' BY <1>1, <1>2, <1>3, <1>4, StopStep
  <1> QED BY <1>2, <1>5 DEF Forward

LEMMA NextRInv == ASSUME RInv, [Next]_vars PROVE RInv' /\ Forward
  <1>1. CASE UNCHANGED vars
    <2>1. UNCHANGED <<status, late, tree, creating, stage, at, disk, row, up>>
      BY <1>1 DEF vars, request, work, target, life
    <2> QED BY <2>1 DEF RInv, Domains, Coherent, InBatch, Forward
  <1>2. ASSUME NEW r \in Requests,
               \/ CreateRequest(r) \/ InsertRequest(r) \/ CreateFails(r)
               \/ TreeAges(r) \/ RowAges(r)
        PROVE  RInv' /\ Forward
    BY <1>2, CreateRequestStep, InsertRequestStep, CreateFailsStep, TreeAgesStep, RowAgesStep
  <1>3. ASSUME NEW r \in Requests,
               \/ Approve(r) \/ CrashInApprove(r) \/ Reject(r) \/ CrashInReject(r)
               \/ ExpireLazily(r)
        PROVE  RInv' /\ Forward
    BY <1>3, ApproveStep, RejectStep, CrashInDecisionStep, ExpireLazilyStep
  <1>4. ASSUME NEW r \in Requests,
               ClaimItem(r) \/ DropItem(r) \/ StartBatch(r) \/ StartRaises(r)
        PROVE  RInv' /\ Forward
    BY <1>4, TakeStep, StartBatchStep
  <1>5. ASSUME NEW r \in Requests, BatchStep(r) PROVE RInv' /\ Forward
    BY <1>5, VerifyStep, BeginItemStep, SwapStep, RecordStep, ItemFailsStep, CompensateStep,
       CompensatedStep, BatchRaisesStep DEF BatchStep
  <1>6. ASSUME NEW r \in Requests, Settle(r) \/ SettleRaises(r) \/ CrashInSettle(r)
        PROVE  RInv' /\ Forward
    BY <1>6, SettleStep, SettleRaisesStep, CrashInSettleStep
  <1>7. CASE Sweep \/ SweepFails \/ CrashInSweep
    BY <1>7, SweepStep, SweepFailsStep, CrashInSweepStep
  <1>8. CASE Crash \/ (\E p \in Packages : CrashInSwap(p)) \/ Recover
    BY <1>8, CrashStep, CrashInSwapStep, RecoverStep
  <1> QED BY <1>1, <1>2, <1>3, <1>4, <1>5, <1>6, <1>7, <1>8 DEF Next

-----------------------------------------------------------------------------
(* The row of a request only moves forward: an approval is executed at     *)
(* most once and an outcome is final (pending_install.set_status, the      *)
(* status check of the handler, fail_interrupted_installs).                *)
THEOREM RowsMoveForward == Spec => OutcomesFinal
  <1>1. ASSUME RInv, [Next]_vars
        PROVE  [\A r \in Requests :
                  status'[r] # status[r] => Rank(status'[r]) > Rank(status[r])]_vars
    BY <1>1, NextRInv DEF Forward
  <1>2. RInv /\ [Next]_vars => RInv' BY NextRInv
  <1> QED BY <1>1, <1>2, InitRInv, PTL DEF Spec, OutcomesFinal

(* No sweep removes the staged tree of a request that can still be decided *)
(* or started, or of an install that has verified it                       *)
(* (sweep_orphan_quarantines and the passes beside it).                    *)
THEOREM LiveTreesKept == Spec => []TreesKept
  <1>1. RInv => TreesKept BY DEF RInv, Coherent, TreesKept
  <1>2. RInv /\ [Next]_vars => RInv' BY NextRInv
  <1> QED BY <1>1, <1>2, InitRInv, PTL DEF Spec

-----------------------------------------------------------------------------
(* The limit: one tool call at a time has a place in Open reserved.        *)
Reserved ==
    ~crowd => /\ creating = {} \/ \E r \in Requests : creating = {r}
              /\ Cardinality(Open \cup creating) <= MaxOpen

LInv == RInv /\ Reserved

Narrows ==
    /\ crowd' = crowd /\ creating' \subseteq creating
    /\ \A q \in Requests : status'[q] = "requested" /\ q \notin late'
          => (status[q] = "requested" /\ q \notin late) \/ q \in creating

LEMMA NarrowsKeeps == ASSUME LInv, Narrows PROVE Reserved'
  <1> SUFFICES ASSUME ~crowd'
               PROVE  /\ creating' = {} \/ \E r \in Requests : creating' = {r}
                      /\ Cardinality((Open \cup creating)') <= MaxOpen
    BY DEF Reserved
  <1>1. /\ creating = {} \/ \E r \in Requests : creating = {r}
        /\ Cardinality(Open \cup creating) <= MaxOpen
    BY DEF LInv, Reserved, Narrows
  <1>2. creating' = {} \/ \E r \in Requests : creating' = {r} BY <1>1 DEF Narrows
  <1>3. (Open \cup creating)' \subseteq Open \cup creating BY DEF Narrows, Open
  <1>4. IsFiniteSet(Open \cup creating)
    BY FS_Subset, BoundsAssumption DEF BoundsAssumption, Open, LInv, RInv, Domains
  <1>5. Cardinality((Open \cup creating)') <= Cardinality(Open \cup creating)
    BY <1>3, <1>4, FS_Subset
  <1>6. /\ Cardinality((Open \cup creating)') \in Nat /\ Cardinality(Open \cup creating) \in Nat
    BY <1>3, <1>4, FS_Subset, FS_CardinalityType
  <1> QED BY <1>1, <1>2, <1>5, <1>6, BoundsAssumption DEF BoundsAssumption

LEMMA CreateReserves == ASSUME LInv, NEW r \in Requests, CreateRequest(r) PROVE Reserved'
  <1>1. /\ Cardinality(Open) < MaxOpen /\ creating' = creating \cup {r}
        /\ crowd' = (crowd \/ creating # {}) /\ status' = status /\ late' = late
    BY DEF CreateRequest, UnderLimit
  <1> SUFFICES ASSUME ~crowd'
               PROVE  creating' = {r} /\ Cardinality((Open \cup creating)') <= MaxOpen
    BY DEF Reserved
  <1>2. creating' = {r} BY <1>1
  <1>3. (Open \cup creating)' = Open \cup {r} BY <1>1, <1>2 DEF Open
  <1>4. IsFiniteSet(Open) BY FS_Subset, BoundsAssumption DEF BoundsAssumption, Open
  <1>5. Cardinality(Open) \in Nat /\ Cardinality(Open \cup {r}) <= Cardinality(Open) + 1
        /\ Cardinality(Open \cup {r}) \in Nat
    <2>1. Cardinality(Open) \in Nat BY <1>4, FS_CardinalityType
    <2>2. Cardinality(Open \cup {r}) = IF r \in Open THEN Cardinality(Open) ELSE Cardinality(Open) + 1
      BY <1>4, FS_AddElement
    <2> QED BY <2>1, <2>2
  <1>6. Cardinality((Open \cup creating)') = Cardinality(Open \cup {r}) BY <1>3
  <1> QED BY <1>1, <1>2, <1>5, <1>6, BoundsAssumption DEF BoundsAssumption

LEMMA NextNarrows ==
  ASSUME LInv, [Next]_vars PROVE Narrows \/ \E r \in Requests : CreateRequest(r)
  <1>1. CASE UNCHANGED vars BY <1>1 DEF vars, request, Narrows
  <1>2. ASSUME NEW r \in Requests, InsertRequest(r) PROVE Narrows
    <2>1. \A q \in Requests : q # r => status'[q] = status[q]
      BY <1>2 DEF InsertRequest, LInv, RInv, Domains
    <2> QED BY <1>2, <2>1 DEF InsertRequest, Narrows
  <1>3. ASSUME NEW r \in Requests, CreateFails(r) \/ TreeAges(r) \/ RowAges(r) PROVE Narrows
    BY <1>3 DEF CreateFails, TreeAges, RowAges, Narrows
  <1>4. ASSUME NEW r \in Requests, NEW s, Moves(r, s), crowd' = crowd,
               creating' \subseteq creating, late' = late \/ late' = late \ {r}
        PROVE  Narrows
    <2>1. \A q \in Requests : status'[q] = IF q = r THEN s ELSE status[q]
      BY <1>4, MovesOne DEF LInv, RInv
    <2>2. s # "requested" BY <1>4, MovesOne DEF LInv, RInv
    <2> QED BY <1>4, <2>1, <2>2 DEF Narrows
  <1>5. ASSUME NEW r \in Requests,
               \/ Approve(r) \/ CrashInApprove(r) \/ Reject(r) \/ CrashInReject(r)
               \/ ExpireLazily(r)
        PROVE  Narrows
    <2>1. PICK s \in {"approved", "rejected", "expired"} : Moves(r, s)
      BY <1>5 DEF Approve, CrashInApprove, Reject, CrashInReject, ExpireLazily
    <2>2. /\ crowd' = crowd /\ creating' \subseteq creating
          /\ late' = late \/ late' = late \ {r}
      BY <1>5 DEF Approve, CrashInApprove, Reject, CrashInReject, ExpireLazily, Stop
    <2> QED BY <1>4, <2>1, <2>2
  <1>6. ASSUME NEW r \in Requests, StartBatch(r) PROVE Narrows
    BY <1>4, <1>6 DEF StartBatch, MarkInstalling
  <1>7. ASSUME NEW r \in Requests, Settle(r) \/ CrashInSettle(r) PROVE Narrows
    <2>1. Moves(r, Outcome(r)) BY <1>7 DEF Settle, CrashInSettle
    <2>2. crowd' = crowd /\ creating' \subseteq creating /\ late' = late
      BY <1>7 DEF Settle, CrashInSettle, Stop
    <2> QED BY <1>4, <2>1, <2>2
  <1>8. ASSUME NEW r \in Requests,
               ClaimItem(r) \/ DropItem(r) \/ StartRaises(r) \/ BatchStep(r) \/ SettleRaises(r)
        PROVE  Narrows
    <2>1. UNCHANGED request
      BY <1>8 DEF ClaimItem, DropItem, StartRaises, BatchStep, SettleRaises,
                  Verify, BeginItem, Swap, Record, ItemFails, Compensate, Compensated,
                  BatchRaises
    <2> QED BY <2>1 DEF request, Narrows
  <1>9. CASE Sweep \/ Recover
    <2>1. PICK ended : Swept(ended) BY <1>9 DEF Sweep, Recover
    <2>2. \A q \in Requests : status'[q] = "requested" =>
             status[q] = "requested" /\ q \notin Overdue \cup Stale
      BY <2>1 DEF Swept
    <2>3. late' = late \ (Overdue \cup Stale) BY <2>1 DEF Swept
    <2> QED BY <1>9, <2>2, <2>3 DEF Sweep, Recover, Narrows
  <1>10. CASE SweepFails BY <1>10 DEF SweepFails, Narrows
  <1>11. CASE CrashInSweep \/ Crash \/ \E p \in Packages : CrashInSwap(p)
    BY <1>11 DEF CrashInSweep, Crash, CrashInSwap, Stop, Narrows
  <1> QED BY <1>1, <1>2, <1>3, <1>5, <1>6, <1>7, <1>8, <1>9, <1>10, <1>11 DEF Next

(* More than max_open_requests wait for a decision only if two tool calls  *)
(* fetched at the same time (install_requests.create_install_request).     *)
THEOREM LimitHeld == Spec => []OpenWithinLimit
  <1>1. Init => LInv
    <2> SUFFICES ASSUME Init PROVE Reserved BY InitRInv DEF LInv
    <2>1. Open \cup creating = {} BY DEF Init, Open
    <2>2. Cardinality(Open \cup creating) = 0 BY <2>1, FS_EmptySet
    <2>3. creating = {} BY DEF Init
    <2>4. 0 <= MaxOpen BY BoundsAssumption DEF BoundsAssumption
    <2>5. Cardinality(Open \cup creating) <= MaxOpen BY <2>2, <2>4
    <2> QED BY <2>3, <2>5 DEF Reserved
  <1>2. LInv /\ [Next]_vars => LInv' BY NextRInv, NextNarrows, NarrowsKeeps, CreateReserves DEF LInv
  <1>3. LInv => OpenWithinLimit
    <2> SUFFICES ASSUME LInv, ~crowd PROVE Cardinality(Open) <= MaxOpen
      <3>1. Cardinality(Open) \in Nat
        BY FS_Subset, FS_CardinalityType, BoundsAssumption DEF BoundsAssumption, Open
      <3> QED BY <3>1, BoundsAssumption DEF BoundsAssumption, OpenWithinLimit
    <2>1. IsFiniteSet(Open \cup creating)
      BY FS_Subset, BoundsAssumption DEF BoundsAssumption, Open, LInv, RInv, Domains
    <2>2. Open \subseteq Open \cup creating OBVIOUS
    <2>3. /\ Cardinality(Open) <= Cardinality(Open \cup creating)
          /\ Cardinality(Open) \in Nat /\ Cardinality(Open \cup creating) \in Nat
      BY <2>1, <2>2, FS_Subset, FS_CardinalityType
    <2>4. Cardinality(Open \cup creating) <= MaxOpen BY DEF LInv, Reserved
    <2> QED BY <2>3, <2>4, BoundsAssumption DEF BoundsAssumption
  <1> QED BY <1>1, <1>2, <1>3, PTL DEF Spec

-----------------------------------------------------------------------------
(* Directory and row: they agree when no batch is in the package; while    *)
(* one is in it alone, they agree up to its swap, after which the          *)
(* directory is its own.                                                   *)
Agree(p) ==
    /\ InItem(p) = {} => p \in amiss \/ disk[p] = row[p]
    /\ InItem(p) # {} /\ p \notin shared =>
          \E r \in Requests :
             /\ InItem(p) = {r}
             /\ stage[r] = "copy" => p \in amiss \/ disk[p] = row[p]
             /\ stage[r] = "copied" => disk[p] = r

(* A handler at work holds its item.                                       *)
Held ==
    /\ item \in [Requests -> {"none", "pending", "claimed"}]
    /\ \A r \in Requests : stage[r] # "idle" => item[r] = "claimed"

AInv == RInv /\ Held /\ \A p \in Packages : Agree(p)

LEMMA NextHeld == ASSUME RInv, Held, [Next]_vars PROVE Held'
  <1>1. CASE UNCHANGED vars BY <1>1 DEF vars, work, Held
  <1>2. ASSUME NEW r \in Requests,
               \/ CreateRequest(r) \/ InsertRequest(r) \/ CreateFails(r)
               \/ TreeAges(r) \/ RowAges(r) \/ Reject(r) \/ ExpireLazily(r) \/ Compensate(r)
        PROVE  Held'
    BY <1>2 DEF CreateRequest, InsertRequest, CreateFails, TreeAges, RowAges, Reject,
                ExpireLazily, Compensate, work, Held
  <1>3. CASE Sweep \/ \E r \in Requests : Approve(r)
    <2>1. PICK rs : item' = Enqueued(rs) BY <1>3 DEF Sweep, Approve
    <2>2. stage' = stage BY <1>3 DEF Sweep, Approve
    <2> QED BY <2>1, <2>2 DEF Enqueued, Held
  <1>4. CASE SweepFails BY <1>4 DEF SweepFails, work, Held
  <1>5. CASE Recover
    <2>1. item' \in [Requests -> {"none", "pending", "claimed"}] /\ stage' = stage
      BY <1>5 DEF Recover, Held
    <2>2. \A r \in Requests : stage[r] = "idle" BY <1>5 DEF Recover, RInv, Coherent
    <2> QED BY <2>1, <2>2 DEF Held
  <1>6. ASSUME NEW cut, Stop(cut), item' = item PROVE Held' BY <1>6 DEF Stop, Held
  <1>7. ASSUME NEW r \in Requests, CrashInApprove(r) \/ CrashInReject(r) \/ CrashInSettle(r)
        PROVE  Held'
    BY <1>6, <1>7 DEF CrashInApprove, CrashInReject, CrashInSettle
  <1>8. CASE Crash \/ CrashInSweep \/ \E p \in Packages : CrashInSwap(p)
    BY <1>6, <1>8 DEF Crash, CrashInSweep, CrashInSwap
  <1>9. ASSUME NEW r \in Requests,
               \/ StartBatch(r) \/ Verify(r) \/ BeginItem(r) \/ Swap(r) \/ Record(r)
               \/ ItemFails(r) \/ Compensated(r) \/ BatchRaises(r)
        PROVE  Held'
    <2>1. stage[r] # "idle" /\ item' = item
      BY <1>9 DEF StartBatch, Verify, BeginItem, Swap, Record, ItemFails, Compensated,
                BatchRaises
    <2>2. \A q \in Requests : q # r => stage'[q] = stage[q]
      BY <1>9 DEF StartBatch, Verify, BeginItem, Swap, Record, ItemFails, Compensated, BatchRaises,
                RInv, Domains
    <2> QED BY <2>1, <2>2 DEF Held
  <1>10. ASSUME NEW r \in Requests,
                \/ ClaimItem(r) \/ DropItem(r) \/ StartRaises(r) \/ Settle(r) \/ SettleRaises(r)
         PROVE  Held'
    <2>1. \/ item' = [item EXCEPT ![r] = "claimed"] /\ stage' = [stage EXCEPT ![r] = "taken"]
          \/ item' = [item EXCEPT ![r] = "none"] /\ stage' = [stage EXCEPT ![r] = "idle"]
      BY <1>10 DEF ClaimItem, DropItem, StartRaises, Settle, SettleRaises, HandlerEnds
    <2> QED BY <2>1 DEF Held, RInv, Domains
  <1> QED BY <1>1, <1>2, <1>3, <1>4, <1>5, <1>7, <1>8, <1>9, <1>10 DEF Next, BatchStep

LEMMA QuietStep ==
  ASSUME AInv, UNCHANGED target,
         \A q \in Requests : stage[q] \in {"copy", "copied"} \/ stage'[q] \in {"copy", "copied"}
                             => stage'[q] = stage[q] /\ at'[q] = at[q]
  PROVE  \A p \in Packages : Agree(p)'
  <1> SUFFICES ASSUME NEW p \in Packages PROVE Agree(p)' OBVIOUS
  <1>1. InItem(p)' = InItem(p) BY DEF InItem
  <1>2. Agree(p) BY DEF AInv
  <1>3. \A r \in InItem(p) : stage'[r] = stage[r] BY DEF InItem
  <1> QED BY <1>1, <1>2, <1>3 DEF Agree, target

LEMMA StopAgrees ==
  ASSUME AInv, NEW cut, Stop(cut), \A p \in Packages : p \in cut \/ disk'[p] = disk[p]
  PROVE  \A p \in Packages : Agree(p)'
  <1> SUFFICES ASSUME NEW p \in Packages PROVE Agree(p)' OBVIOUS
  <1>1. InItem(p)' = {} BY DEF InItem, Stop
  <1>2. Agree(p) BY DEF AInv
  <1>3. row' = row /\ amiss' = amiss \cup {q \in Packages : InItem(q) # {}} \cup cut
    BY DEF Stop
  <1> QED BY <1>1, <1>2, <1>3 DEF Agree

(* The packages a step of one handler is not about.                        *)
LEMMA Aside ==
  ASSUME AInv, NEW r \in Requests, NEW p \in Packages,
         \A q \in Requests : q # r => stage'[q] = stage[q] /\ at'[q] = at[q],
         r \notin InItem(p), r \notin InItem(p)', disk'[p] = disk[p], row'[p] = row[p],
         p \in amiss => p \in amiss', p \in shared <=> p \in shared'
  PROVE  Agree(p)'
  <1>1. \A q \in Requests : q \in InItem(p)' <=> q \in InItem(p)
    <2> SUFFICES ASSUME NEW q \in Requests PROVE q \in InItem(p)' <=> q \in InItem(p) OBVIOUS
    <2>1. CASE q = r BY <2>1
    <2>2. CASE q # r BY <2>2 DEF InItem
    <2> QED BY <2>1, <2>2
  <1>2. InItem(p)' = InItem(p) BY <1>1 DEF InItem
  <1>3. \A q \in InItem(p) : stage'[q] = stage[q] BY DEF InItem
  <1>4. Agree(p) BY DEF AInv
  <1> QED BY <1>2, <1>3, <1>4 DEF Agree

LEMMA BeginItemAgrees ==
  ASSUME AInv, NEW r \in Requests, BeginItem(r) PROVE \A p \in Packages : Agree(p)'
  <1> DEFINE w == Order[r][at[r] + 1]
  <1>1. /\ stage[r] = "next"
        /\ \A q \in Requests : stage'[q] = IF q = r THEN "copy" ELSE stage[q]
        /\ \A q \in Requests : at'[q] = IF q = r THEN at[q] + 1 ELSE at[q]
        /\ shared' = IF InItem(w) = {} THEN shared \ {w} ELSE shared \cup {w}
        /\ disk' = disk /\ row' = row /\ amiss' = amiss
    BY DEF BeginItem, AInv, RInv, Domains
  <1> SUFFICES ASSUME NEW p \in Packages PROVE Agree(p)' OBVIOUS
  <1>2. r \notin InItem(p) BY <1>1 DEF InItem
  <1>3. CASE p # w
    <2>1. r \notin InItem(p)' BY <1>1, <1>3 DEF InItem
    <2>2. p \in shared <=> p \in shared' BY <1>1, <1>3
    <2> QED BY <1>1, <1>2, <2>1, <2>2, Aside
  <1>4. CASE p = w
    <2>1. r \in InItem(p)' BY <1>1, <1>4 DEF InItem
    <2>2. CASE InItem(p) = {}
      <3>1. InItem(p)' = {r} BY <1>1, <1>4, <2>1, <2>2 DEF InItem
      <3>2. p \in amiss \/ disk[p] = row[p] BY <2>2 DEF AInv, Agree
      <3> QED BY <1>1, <3>1, <3>2 DEF Agree
    <2>3. CASE InItem(p) # {}
      <3>1. p \in shared' BY <1>1, <1>4, <2>3
      <3> QED BY <2>1, <3>1 DEF Agree
    <2> QED BY <2>2, <2>3
  <1> QED BY <1>3, <1>4

LEMMA SwapAgrees ==
  ASSUME AInv, NEW r \in Requests, Swap(r) PROVE \A p \in Packages : Agree(p)'
  <1>1. /\ stage[r] = "copy" /\ at' = at
        /\ \A q \in Requests : stage'[q] = IF q = r THEN "copied" ELSE stage[q]
        /\ row' = row /\ amiss' = amiss /\ shared' = shared
    BY DEF Swap, AInv, RInv, Domains
  <1>2. PICK b : disk' = [disk EXCEPT ![InWork(r)] = b] /\ (InWork(r) \notin shared => b = r)
    BY DEF Swap
  <1> SUFFICES ASSUME NEW p \in Packages PROVE Agree(p)' OBVIOUS
  <1>3. disk'[p] = IF p = InWork(r) THEN b ELSE disk[p] BY <1>2 DEF AInv, RInv, Domains
  <1>4. InItem(p)' = InItem(p) BY <1>1 DEF InItem
  <1>5. r \in InItem(p) <=> p = InWork(r) BY <1>1 DEF InItem, InWork
  <1>6. CASE p # InWork(r) BY <1>1, <1>3, <1>4, <1>5, <1>6, Aside
  <1>7. CASE p = InWork(r) /\ p \in shared BY <1>1, <1>4, <1>5, <1>7 DEF Agree
  <1>8. CASE p = InWork(r) /\ p \notin shared
    <2>1. InItem(p) = {r} BY <1>5, <1>8 DEF AInv, Agree
    <2> QED BY <1>1, <1>2, <1>3, <1>4, <1>8, <2>1 DEF Agree
  <1> QED BY <1>6, <1>7, <1>8

(* A batch that leaves its package, with or without a row.                 *)
LEMMA LeaveAgrees ==
  ASSUME AInv, NEW r \in Requests, Record(r) \/ ItemFails(r)
  PROVE  \A p \in Packages : Agree(p)'
  <1>1. /\ stage[r] \in {"copy", "copied"} /\ at' = at
        /\ \A q \in Requests : q # r => stage'[q] = stage[q]
        /\ stage'[r] \notin {"copy", "copied"}
        /\ disk' = disk /\ shared' = shared
    BY DEF Record, ItemFails, AInv, RInv, Domains
  <1>2. /\ \A p \in Packages : p # InWork(r) =>
              row'[p] = row[p] /\ (p \in amiss => p \in amiss')
        /\ InWork(r) \in shared => InWork(r) \in amiss'
    BY DEF Record, ItemFails, AInv, RInv, Domains
  <1> SUFFICES ASSUME NEW p \in Packages PROVE Agree(p)' OBVIOUS
  <1>3. r \in InItem(p) <=> p = InWork(r) BY <1>1 DEF InItem, InWork
  <1>4. InItem(p)' = InItem(p) \ {r} BY <1>1 DEF InItem
  <1>5. CASE p # InWork(r) BY <1>1, <1>2, <1>3, <1>4, <1>5, Aside
  <1>6. CASE p = InWork(r) /\ p \in shared BY <1>1, <1>2, <1>6 DEF Agree
  <1>7. CASE p = InWork(r) /\ p \notin shared
    <2>1. /\ InItem(p) = {r}
          /\ stage[r] = "copy" => p \in amiss \/ disk[p] = row[p]
          /\ stage[r] = "copied" => disk[p] = r
      BY <1>3, <1>7 DEF AInv, Agree
    <2>2. InItem(p)' = {} BY <1>4, <2>1
    <2>3. p \in amiss' \/ disk'[p] = row'[p]
      <3>1. CASE Record(r)
        <4>1. row'[p] = r /\ stage[r] = "copied" BY <1>7, <3>1 DEF Record, AInv, RInv, Domains
        <4> QED BY <1>1, <2>1, <4>1
      <3>2. CASE ItemFails(r)
        BY <1>1, <1>7, <2>1, <3>2 DEF ItemFails
      <3> QED BY <3>1, <3>2
    <2> QED BY <2>2, <2>3 DEF Agree
  <1> QED BY <1>5, <1>6, <1>7

LEMMA CompensateAgrees ==
  ASSUME AInv, NEW r \in Requests, Compensate(r) PROVE \A p \in Packages : Agree(p)'
  <1> DEFINE w == Last(fresh[r])
  <1>1. /\ stage' = stage /\ at' = at
        /\ shared' = IF InItem(w) = {} THEN shared ELSE shared \cup {w}
    BY DEF Compensate
  <1>2. \/ /\ disk' = [disk EXCEPT ![w] = None] /\ row' = [row EXCEPT ![w] = None]
           /\ amiss' = IF InItem(w) = {} THEN amiss \ {w} ELSE amiss \cup {w}
        \/ disk' = disk /\ row' = row /\ amiss' = amiss
        \/ disk' = [disk EXCEPT ![w] = None] /\ amiss' = amiss \cup {w} /\ row' = row
    BY DEF Compensate, Uninstall
  <1> HIDE DEF w
  <1> SUFFICES ASSUME NEW p \in Packages PROVE Agree(p)' OBVIOUS
  <1>3. InItem(p)' = InItem(p) BY <1>1 DEF InItem
  <1>4. Agree(p) BY DEF AInv
  <1>5. CASE p # w
    <2>1. disk'[p] = disk[p] /\ row'[p] = row[p] BY <1>2, <1>5 DEF AInv, RInv, Domains
    <2>2. (p \in amiss => p \in amiss') /\ (p \in shared <=> p \in shared') BY <1>1, <1>2, <1>5
    <2> QED BY <1>1, <1>3, <1>4, <2>1, <2>2 DEF Agree
  <1>6. CASE p = w
    <2>1. CASE InItem(p) # {} BY <1>1, <1>3, <1>6, <2>1 DEF Agree
    <2>2. CASE InItem(p) = {}
      <3>1. p \in amiss' \/ disk'[p] = row'[p]
        BY <1>2, <1>4, <1>6, <2>2 DEF Agree, AInv, RInv, Domains
      <3> QED BY <1>3, <2>2, <3>1 DEF Agree
    <2> QED BY <2>1, <2>2
  <1> QED BY <1>5, <1>6

LEMMA NextAgrees == ASSUME AInv, [Next]_vars PROVE \A p \in Packages : Agree(p)'
  <1>1. CASE UNCHANGED vars BY <1>1, QuietStep DEF vars, work
  <1>2. ASSUME NEW r \in Requests,
               \/ CreateRequest(r) \/ InsertRequest(r) \/ CreateFails(r)
               \/ TreeAges(r) \/ RowAges(r) \/ Approve(r) \/ Reject(r) \/ ExpireLazily(r)
        PROVE  \A p \in Packages : Agree(p)'
    <2>1. UNCHANGED <<stage, at, target>>
      BY <1>2 DEF CreateRequest, InsertRequest, CreateFails, TreeAges, RowAges, Approve,
                  Reject, ExpireLazily, work
    <2> QED BY <2>1, QuietStep
  <1>3. ASSUME NEW r \in Requests,
               \/ ClaimItem(r) \/ DropItem(r) \/ StartBatch(r) \/ StartRaises(r)
               \/ Verify(r) \/ Compensated(r) \/ BatchRaises(r) \/ Settle(r) \/ SettleRaises(r)
        PROVE  \A p \in Packages : Agree(p)'
    <2>1. /\ stage[r] \notin {"copy", "copied"}
          /\ \A q \in Requests : q # r => stage'[q] = stage[q] /\ at'[q] = at[q]
          /\ stage'[r] \notin {"copy", "copied"} /\ UNCHANGED target
      <3>1. CASE ClaimItem(r)
        <4>1. item[r] = "pending" /\ stage' = [stage EXCEPT ![r] = "taken"]
          BY <3>1 DEF ClaimItem
        <4>2. stage[r] = "idle" BY <4>1 DEF AInv, Held
        <4> QED BY <3>1, <4>1, <4>2 DEF ClaimItem, AInv, RInv, Domains
      <3>2. CASE DropItem(r) \/ StartBatch(r) \/ StartRaises(r)
        BY <3>2 DEF DropItem, StartBatch, StartRaises, AInv, RInv, Domains
      <3>3. CASE Verify(r) \/ Compensated(r) \/ BatchRaises(r)
        BY <3>3 DEF Verify, Compensated, BatchRaises, AInv, RInv, Domains
      <3>4. CASE Settle(r) \/ SettleRaises(r)
        BY <3>4 DEF Settle, SettleRaises, HandlerEnds, AInv, RInv, Domains
      <3> QED BY <1>3, <3>1, <3>2, <3>3, <3>4
    <2>2. \A q \in Requests : stage[q] \in {"copy", "copied"} \/ stage'[q] \in {"copy", "copied"}
                             => stage'[q] = stage[q] /\ at'[q] = at[q]
      BY <2>1
    <2> QED BY <2>1, <2>2, QuietStep
  <1>4. ASSUME NEW r \in Requests, BeginItem(r) \/ Swap(r) \/ Record(r) \/ ItemFails(r)
                                  \/ Compensate(r)
        PROVE  \A p \in Packages : Agree(p)'
    BY <1>4, BeginItemAgrees, SwapAgrees, LeaveAgrees, CompensateAgrees
  <1>5. CASE Sweep \/ SweepFails \/ Recover
    <2>1. UNCHANGED <<stage, at, target>> BY <1>5 DEF Sweep, SweepFails, Recover, work
    <2> QED BY <2>1, QuietStep
  <1>6. ASSUME NEW r \in Requests, CrashInApprove(r) \/ CrashInReject(r) \/ CrashInSettle(r)
        PROVE  \A p \in Packages : Agree(p)'
    <2>1. Stop({}) /\ disk' = disk BY <1>6 DEF CrashInApprove, CrashInReject, CrashInSettle
    <2> QED BY <2>1, StopAgrees
  <1>7. CASE Crash \/ CrashInSweep
    <2>1. Stop({}) /\ disk' = disk BY <1>7 DEF Crash, CrashInSweep
    <2> QED BY <2>1, StopAgrees
  <1>8. ASSUME NEW p \in Packages, CrashInSwap(p) PROVE \A q \in Packages : Agree(q)'
    <2>1. Stop({p}) /\ disk' = [disk EXCEPT ![p] = None] BY <1>8 DEF CrashInSwap
    <2>2. \A q \in Packages : q \in {p} \/ disk'[q] = disk[q]
      BY <2>1 DEF AInv, RInv, Domains
    <2> QED BY <2>1, <2>2, StopAgrees
  <1> QED BY <1>1, <1>2, <1>3, <1>4, <1>5, <1>6, <1>7, <1>8 DEF Next, BatchStep

(* Unless two batches worked on a package at the same time, or an install  *)
(* or uninstall of it was cut between its directory and its row, the       *)
(* directory holds the bytes its row records whenever no batch is in the   *)
(* middle of it (installer._atomic_copy_into_place before _record_install, *)
(* uninstall_package).                                                     *)
THEOREM DirectoriesMatch == Spec => []DirectoryMatchesRow
  <1>1. Init => AInv
    <2> SUFFICES ASSUME Init PROVE Held /\ \A p \in Packages : Agree(p)
      BY InitRInv DEF AInv
    <2>1. Held BY DEF Init, Held
    <2> SUFFICES ASSUME NEW p \in Packages PROVE Agree(p) BY <2>1
    <2>2. InItem(p) = {} /\ disk[p] = row[p] BY DEF Init, InItem
    <2> QED BY <2>2 DEF Agree
  <1>2. AInv /\ [Next]_vars => AInv' BY NextRInv, NextHeld, NextAgrees DEF AInv
  <1>3. AInv => DirectoryMatchesRow BY DEF AInv, Agree, DirectoryMatchesRow
  <1> QED BY <1>1, <1>2, <1>3, PTL DEF Spec

-----------------------------------------------------------------------------
(* Where a batch is in its preview: what it remembers as fresh is what it  *)
(* has recorded, and for a moment the package whose directory it swapped.  *)
Placed(r) ==
    /\ stage[r] \in {"idle", "taken", "verify", "raised"} => at[r] = 0 /\ fresh[r] = <<>>
    /\ stage[r] = "next" => at[r] < Len(Order[r])
    /\ stage[r] \in {"copy", "copied"} => at[r] \in 1 .. Len(Order[r])
    /\ stage[r] = "good" => at[r] = Len(Order[r])
    /\ \A i \in 1 .. Len(fresh[r]) :
          \/ fresh[r][i] \in Recorded(r)
          \/ stage[r] = "copied" /\ i = Len(fresh[r]) /\ fresh[r][i] = InWork(r)

FreshTyped == fresh \in [Requests -> Seq(Packages)]

BInv == AInv /\ FreshTyped /\ \A r \in Requests : Placed(r)

LEMMA FrontOf ==
  ASSUME NEW S, NEW s \in Seq(S), s # <<>>
  PROVE  /\ Front(s) \in Seq(S) /\ Len(Front(s)) = Len(s) - 1
         /\ \A i \in 1 .. Len(s) - 1 : Front(s)[i] = s[i]
         /\ Last(s) = s[Len(s)] /\ Len(s) \in 1 .. Len(s) /\ Last(s) \in S
  <1>1. Len(s) \in Nat /\ Len(s) > 0 /\ \A i \in 1 .. Len(s) : s[i] \in S OBVIOUS
  <1>2. Front(s) = SubSeq(s, 1, Len(s) - 1) /\ Last(s) = s[Len(s)] BY DEF Front, Last
  <1>3. Len(s) - 1 \in Int /\ \A i \in 1 .. Len(s) - 1 : s[i] \in S BY <1>1
  <1>4. /\ Front(s) \in Seq(S)
        /\ Len(Front(s)) = IF 1 <= Len(s) - 1 THEN Len(s) - 1 - 1 + 1 ELSE 0
        /\ \A i \in 1 .. Len(s) - 1 - 1 + 1 : Front(s)[i] = s[1 + i - 1]
    BY <1>2, <1>3, SubSeqProperties
  <1>5. Len(Front(s)) = Len(s) - 1
    <2>1. CASE Len(s) = 1
      <3>1. ~(1 <= Len(s) - 1) BY <2>1
      <3>2. Len(Front(s)) = 0 BY <1>4, <3>1
      <3> QED BY <2>1, <3>2
    <2>2. CASE Len(s) # 1
      <3>1. 1 <= Len(s) - 1 BY <1>1, <2>2
      <3>2. Len(Front(s)) = Len(s) - 1 - 1 + 1 BY <1>4, <3>1
      <3> QED BY <1>1, <3>2
    <2> QED BY <2>1, <2>2
  <1>6. \A i \in 1 .. Len(s) - 1 : Front(s)[i] = s[i]
    <2> SUFFICES ASSUME NEW i \in 1 .. Len(s) - 1 PROVE Front(s)[i] = s[i] OBVIOUS
    <2>1. i \in 1 .. Len(s) - 1 - 1 + 1 /\ 1 + i - 1 = i BY <1>1
    <2> QED BY <1>4, <2>1
  <1> QED BY <1>1, <1>2, <1>4, <1>5, <1>6

LEMMA OrderOf ==
  ASSUME NEW r \in Requests
  PROVE  /\ Order[r] \in Seq(Packages) /\ Len(Order[r]) \in Nat \ {0}
         /\ \A i \in 1 .. Len(Order[r]) : Order[r][i] \in Packages
         /\ \A i, j \in 1 .. Len(Order[r]) : Order[r][i] = Order[r][j] => i = j
  BY OrderAssumption DEF OrderAssumption

LEMMA PlacedSame ==
  ASSUME NEW r, Placed(r), stage'[r] = stage[r], at'[r] = at[r], fresh'[r] = fresh[r]
  PROVE  Placed(r)'
  BY DEF Placed, Recorded, InWork

LEMMA PlacedAtStart ==
  ASSUME NEW r, stage'[r] \in {"idle", "taken", "verify", "raised"}, at'[r] = 0, fresh'[r] = <<>>
  PROVE  Placed(r)'
  BY DEF Placed
(* One step of the handler or the batch of r.                              *)
LEMMA PlacedOthers ==
  ASSUME BInv, NEW r \in Requests, Placed(r)',
         \A q \in Requests : q # r =>
            stage'[q] = stage[q] /\ at'[q] = at[q] /\ fresh'[q] = fresh[q]
  PROVE  \A q \in Requests : Placed(q)'
  <1> SUFFICES ASSUME NEW q \in Requests, q # r PROVE Placed(q)' OBVIOUS
  <1> QED BY PlacedSame DEF BInv

LEMMA HandlerPlaced ==
  ASSUME BInv, NEW r \in Requests,
         \/ ClaimItem(r) \/ DropItem(r) \/ StartBatch(r) \/ StartRaises(r)
         \/ Verify(r) \/ Compensated(r) \/ BatchRaises(r) \/ Settle(r) \/ SettleRaises(r)
  PROVE  FreshTyped' /\ \A q \in Requests : Placed(q)'
  <1> USE DEF BInv, AInv, RInv, Domains, Held, FreshTyped
  <1>1. CASE ClaimItem(r) \/ DropItem(r) \/ StartBatch(r) \/ StartRaises(r)
    <2>1. /\ stage[r] \in {"idle", "taken"} /\ at' = at /\ fresh' = fresh
          /\ \E s \in {"idle", "taken", "verify"} : stage' = [stage EXCEPT ![r] = s]
      BY <1>1 DEF ClaimItem, DropItem, StartBatch, StartRaises
    <2>2. Placed(r)' BY <2>1, PlacedAtStart DEF Placed
    <2> QED BY <2>1, <2>2, PlacedOthers
  <1>2. CASE Verify(r) \/ Compensated(r)
    <2>1. /\ stage[r] \in {"verify", "undo"} /\ at' = at /\ fresh' = fresh /\ fresh[r] = <<>>
          /\ \/ stage' = [stage EXCEPT ![r] = "bad"]
             \/ at[r] = 0 /\ stage' = [stage EXCEPT ![r] = "next"]
      BY <1>2 DEF Verify, Compensated, Placed
    <2>2. Placed(r)' BY <2>1, OrderOf DEF Placed
    <2> QED BY <2>1, <2>2, PlacedOthers
  <1>3. CASE BatchRaises(r) \/ Settle(r) \/ SettleRaises(r)
    <2>1. /\ \E s \in {"idle", "raised"} : stage' = [stage EXCEPT ![r] = s]
          /\ at' = [at EXCEPT ![r] = 0] /\ fresh' = [fresh EXCEPT ![r] = <<>>]
      BY <1>3 DEF BatchRaises, Settle, SettleRaises, HandlerEnds
    <2>2. Placed(r)' BY <2>1, PlacedAtStart
    <2> QED BY <2>1, <2>2, PlacedOthers
  <1> QED BY <1>1, <1>2, <1>3

LEMMA BeginItemPlaced ==
  ASSUME BInv, NEW r \in Requests, BeginItem(r)
  PROVE  FreshTyped' /\ \A q \in Requests : Placed(q)'
  <1> USE DEF BInv, AInv, RInv, Domains, FreshTyped
  <1>1. /\ stage[r] = "next" /\ at[r] < Len(Order[r]) /\ fresh' = fresh
        /\ at' = [at EXCEPT ![r] = at[r] + 1] /\ stage' = [stage EXCEPT ![r] = "copy"]
    BY DEF BeginItem
  <1>2. stage'[r] = "copy" /\ at'[r] = at[r] + 1 /\ at[r] \in Nat BY <1>1
  <1>3. Recorded(r)' = Recorded(r)
    <2>1. 1 .. at'[r] - 1 = 1 .. at[r] BY <1>2
    <2> QED BY <1>1, <1>2, <2>1 DEF Recorded
  <1>4. Placed(r)' BY <1>1, <1>2, <1>3, OrderOf DEF Placed
  <1> QED BY <1>1, <1>4, PlacedOthers

LEMMA SwapPlaced ==
  ASSUME BInv, NEW r \in Requests, Swap(r)
  PROVE  FreshTyped' /\ \A q \in Requests : Placed(q)'
  <1> USE DEF BInv, AInv, RInv, Domains, FreshTyped
  <1> DEFINE f == IF disk[InWork(r)] = None THEN Append(fresh[r], InWork(r)) ELSE fresh[r]
  <1>1. /\ stage[r] = "copy" /\ at' = at /\ fresh' = [fresh EXCEPT ![r] = f]
        /\ stage' = [stage EXCEPT ![r] = "copied"]
    BY DEF Swap
  <1>2. InWork(r) \in Packages /\ at[r] \in 1 .. Len(Order[r])
    BY <1>1, OrderOf DEF Placed, InWork
  <1>3. f \in Seq(Packages) BY <1>2
  <1>4. stage'[r] = "copied" /\ at'[r] = at[r] /\ fresh'[r] = f BY <1>1
  <1>5. Recorded(r)' = Recorded(r) /\ InWork(r)' = InWork(r)
    BY <1>1, <1>4 DEF Recorded, InWork
  <1>6. \A i \in 1 .. Len(f) : f[i] \in Recorded(r) \/ (i = Len(f) /\ f[i] = InWork(r))
    <2>1. \A i \in 1 .. Len(fresh[r]) : fresh[r][i] \in Recorded(r) BY <1>1 DEF Placed
    <2>2. CASE disk[InWork(r)] = None
      <3>1. /\ Len(f) = Len(fresh[r]) + 1 /\ f[Len(f)] = InWork(r)
            /\ \A i \in 1 .. Len(fresh[r]) : f[i] = fresh[r][i]
        BY <1>2, <2>2
      <3> QED BY <2>1, <3>1
    <2> QED BY <2>1, <2>2
  <1> HIDE DEF f
  <1>7. Placed(r)' BY <1>2, <1>4, <1>5, <1>6, <1>1 DEF Placed
  <1>8. FreshTyped' BY <1>1, <1>3
  <1> QED BY <1>1, <1>7, <1>8, PlacedOthers

(* What has been recorded grows by the package in work.                    *)
LEMMA RecordedGrows ==
  ASSUME BInv, NEW r \in Requests, Record(r)
  PROVE  /\ Recorded(r)' = Recorded(r) \cup {InWork(r)}
         /\ InWork(r) \in Packages /\ InWork(r) \notin Recorded(r)
         /\ at[r] \in 1 .. Len(Order[r])
  <1>1. /\ stage[r] = "copied" /\ at' = at /\ stage'[r] \in {"good", "next"}
    BY DEF Record, BInv, AInv, RInv, Domains
  <1>2. at[r] \in 1 .. Len(Order[r]) BY <1>1 DEF BInv, Placed
  <1>3. /\ Recorded(r) = {Order[r][i] : i \in 1 .. at[r] - 1}
        /\ Recorded(r)' = {Order[r][i] : i \in 1 .. at[r]}
    BY <1>1 DEF Recorded
  <1>4. \A i \in 1 .. at[r] : i \in 1 .. at[r] - 1 \/ i = at[r] BY <1>2, OrderOf
  <1>5. 1 .. at[r] - 1 \subseteq 1 .. at[r] /\ at[r] \in 1 .. at[r]
        /\ 1 .. at[r] \subseteq 1 .. Len(Order[r]) /\ at[r] \notin 1 .. at[r] - 1
    BY <1>2, OrderOf
  <1>6. Recorded(r)' = Recorded(r) \cup {InWork(r)} BY <1>3, <1>4, <1>5 DEF InWork
  <1>7. InWork(r) \notin Recorded(r)
    <2>1. \A i \in 1 .. at[r] - 1 : Order[r][i] # Order[r][at[r]]
      BY <1>2, <1>5, OrderOf
    <2> QED BY <1>3, <2>1 DEF InWork
  <1> QED BY <1>2, <1>6, <1>7, OrderOf DEF InWork

LEMMA RecordPlaced ==
  ASSUME BInv, NEW r \in Requests, Record(r)
  PROVE  FreshTyped' /\ \A q \in Requests : Placed(q)'
  <1> USE DEF BInv, AInv, RInv, Domains, FreshTyped
  <1>1. /\ stage[r] = "copied" /\ at' = at /\ fresh' = fresh
        /\ stage' = [stage EXCEPT ![r] = IF at[r] = Len(Order[r]) THEN "good" ELSE "next"]
    BY DEF Record
  <1>2. \A i \in 1 .. Len(fresh[r]) : fresh[r][i] \in Recorded(r)'
    BY <1>1, RecordedGrows DEF Placed
  <1>3. at[r] \in 1 .. Len(Order[r]) BY RecordedGrows
  <1>4. stage'[r] = (IF at[r] = Len(Order[r]) THEN "good" ELSE "next")
        /\ at'[r] = at[r] /\ fresh'[r] = fresh[r]
    BY <1>1
  <1>5. Placed(r)'
    <2>1. at[r] # Len(Order[r]) => at[r] < Len(Order[r]) BY <1>3, OrderOf
    <2>2. stage'[r] \in {"good", "next"} BY <1>4
    <2> QED BY <1>2, <1>4, <2>1, <2>2 DEF Placed
  <1> QED BY <1>1, <1>5, PlacedOthers

LEMMA ItemFailsPlaced ==
  ASSUME BInv, NEW r \in Requests, ItemFails(r)
  PROVE  /\ FreshTyped' /\ \A q \in Requests : Placed(q)'
         /\ Recorded(r)' = Recorded(r) /\ InWork(r) \in Packages
  <1> USE DEF BInv, AInv, RInv, Domains, FreshTyped
  <1> DEFINE cut == stage[r] = "copied" /\ fresh[r] # <<>> /\ Last(fresh[r]) = InWork(r)
             f == IF cut THEN Front(fresh[r]) ELSE fresh[r]
  <1>1. /\ stage[r] \in {"copy", "copied"} /\ at' = at /\ fresh' = [fresh EXCEPT ![r] = f]
        /\ stage' = [stage EXCEPT ![r] = "undo"]
    BY DEF ItemFails
  <1>2. stage'[r] = "undo" /\ at'[r] = at[r] /\ fresh'[r] = f BY <1>1
  <1>3. Recorded(r)' = Recorded(r) BY <1>1, <1>2 DEF Recorded
  <1>4. InWork(r) \in Packages BY <1>1, OrderOf DEF Placed, InWork
  <1>5. f \in Seq(Packages) /\ \A i \in 1 .. Len(f) : f[i] \in Recorded(r)
    <2>1. fresh[r] \in Seq(Packages) OBVIOUS
    <2>2. \A i \in 1 .. Len(fresh[r]) :
             \/ fresh[r][i] \in Recorded(r)
             \/ stage[r] = "copied" /\ i = Len(fresh[r]) /\ fresh[r][i] = InWork(r)
      BY DEF Placed
    <2>3. CASE cut
      <3>1. /\ Front(fresh[r]) \in Seq(Packages) /\ Len(Front(fresh[r])) = Len(fresh[r]) - 1
            /\ \A i \in 1 .. Len(fresh[r]) - 1 : Front(fresh[r])[i] = fresh[r][i]
        BY <2>1, <2>3, FrontOf
      <3>2. \A i \in 1 .. Len(fresh[r]) - 1 :
               i \in 1 .. Len(fresh[r]) /\ i # Len(fresh[r])
        BY <2>1
      <3>3. f = Front(fresh[r]) BY <2>3
      <3>4. \A i \in 1 .. Len(fresh[r]) - 1 : fresh[r][i] \in Recorded(r) BY <2>2, <3>2
      <3> HIDE DEF f
      <3> QED BY <3>1, <3>3, <3>4
    <2>4. CASE ~cut
      <3>1. \A i \in 1 .. Len(fresh[r]) :
               ~(stage[r] = "copied" /\ i = Len(fresh[r]) /\ fresh[r][i] = InWork(r))
        <4>1. fresh[r] # <<>> => Last(fresh[r]) = fresh[r][Len(fresh[r])] BY DEF Last
        <4>2. \A i \in 1 .. Len(fresh[r]) : fresh[r] # <<>> OBVIOUS
        <4> QED BY <2>4, <4>1, <4>2
      <3> QED BY <2>1, <2>2, <2>4, <3>1
    <2> QED BY <2>3, <2>4
  <1> HIDE DEF f
  <1>6. Placed(r)' BY <1>2, <1>3, <1>5 DEF Placed
  <1>7. FreshTyped' BY <1>1, <1>5
  <1> QED BY <1>1, <1>3, <1>4, <1>6, <1>7, PlacedOthers

LEMMA CompensatePlaced ==
  ASSUME BInv, NEW r \in Requests, Compensate(r)
  PROVE  /\ FreshTyped' /\ \A q \in Requests : Placed(q)'
         /\ Last(fresh[r]) \in Recorded(r) \cap Packages
         /\ \A q \in Requests : Recorded(q)' = Recorded(q)
  <1> USE DEF BInv, AInv, RInv, Domains, FreshTyped
  <1>1. /\ stage[r] = "undo" /\ at' = at /\ stage' = stage /\ fresh[r] # <<>>
        /\ fresh' = [fresh EXCEPT ![r] = Front(fresh[r])]
    BY DEF Compensate
  <1>2. /\ Front(fresh[r]) \in Seq(Packages) /\ Len(Front(fresh[r])) = Len(fresh[r]) - 1
        /\ \A i \in 1 .. Len(fresh[r]) - 1 : Front(fresh[r])[i] = fresh[r][i]
        /\ Last(fresh[r]) = fresh[r][Len(fresh[r])]
        /\ Len(fresh[r]) \in 1 .. Len(fresh[r]) /\ Last(fresh[r]) \in Packages
    <2>1. fresh[r] \in Seq(Packages) OBVIOUS
    <2> QED BY <1>1, <2>1, FrontOf
  <1>3. \A q \in Requests : Recorded(q)' = Recorded(q) BY <1>1 DEF Recorded
  <1>4. \A i \in 1 .. Len(fresh[r]) : fresh[r][i] \in Recorded(r) BY <1>1 DEF Placed
  <1>5. fresh'[r] = Front(fresh[r]) /\ stage'[r] = "undo" BY <1>1
  <1>6. \A i \in 1 .. Len(fresh[r]) - 1 : i \in 1 .. Len(fresh[r]) BY <1>2
  <1>7. \A i \in 1 .. Len(fresh'[r]) : fresh'[r][i] \in Recorded(r)'
    <2> SUFFICES ASSUME NEW i \in 1 .. Len(fresh[r]) - 1
                 PROVE  Front(fresh[r])[i] \in Recorded(r)
      BY <1>2, <1>3, <1>5
    <2> QED BY <1>2, <1>4, <1>6
  <1>8. Placed(r)' BY <1>5, <1>7 DEF Placed
  <1>9. FreshTyped' BY <1>1, <1>2
  <1> QED BY <1>1, <1>2, <1>3, <1>4, <1>8, <1>9, PlacedOthers

LEMMA NextPlaced ==
  ASSUME BInv, [Next]_vars PROVE FreshTyped' /\ \A q \in Requests : Placed(q)'
  <1>1. CASE UNCHANGED vars BY <1>1, PlacedSame DEF vars, work, BInv, FreshTyped
  <1>2. ASSUME UNCHANGED <<stage, at, fresh>>
        PROVE  FreshTyped' /\ \A q \in Requests : Placed(q)'
    BY <1>2, PlacedSame DEF BInv, FreshTyped
  <1>3. ASSUME NEW r \in Requests,
               \/ CreateRequest(r) \/ InsertRequest(r) \/ CreateFails(r)
               \/ TreeAges(r) \/ RowAges(r) \/ Approve(r) \/ Reject(r) \/ ExpireLazily(r)
        PROVE  UNCHANGED <<stage, at, fresh>>
    BY <1>3 DEF CreateRequest, InsertRequest, CreateFails, TreeAges, RowAges, Approve,
                Reject, ExpireLazily, work
  <1>4. CASE Sweep \/ SweepFails \/ Recover
    <2>1. UNCHANGED <<stage, at, fresh>> BY <1>4 DEF Sweep, SweepFails, Recover, work
    <2> QED BY <1>2, <2>1
  <1>5. ASSUME NEW cut, Stop(cut) PROVE FreshTyped' /\ \A q \in Requests : Placed(q)'
    <2>1. /\ stage' = [r \in Requests |-> "idle"] /\ at' = [r \in Requests |-> 0]
          /\ fresh' = [r \in Requests |-> <<>>]
      BY <1>5 DEF Stop
    <2> QED BY <2>1, PlacedAtStart DEF FreshTyped
  <1>6. CASE \/ \E r \in Requests : CrashInApprove(r) \/ CrashInReject(r) \/ CrashInSettle(r)
             \/ Crash \/ CrashInSweep \/ \E p \in Packages : CrashInSwap(p)
    BY <1>5, <1>6 DEF CrashInApprove, CrashInReject, CrashInSettle, Crash, CrashInSweep,
                      CrashInSwap
  <1> QED BY <1>1, <1>2, <1>3, <1>4, <1>6, HandlerPlaced, BeginItemPlaced, SwapPlaced,
             RecordPlaced, ItemFailsPlaced, CompensatePlaced DEF Next, BatchStep

LEMMA InitBInv == Init => BInv
  <1> SUFFICES ASSUME Init PROVE BInv OBVIOUS
  <1>1. AInv
    <2>1. \A p \in Packages : InItem(p) = {} /\ disk[p] = row[p] BY DEF Init, InItem
    <2>2. \A p \in Packages : Agree(p) BY <2>1 DEF Agree
    <2> QED BY <2>2, InitRInv DEF AInv, Init, Held
  <1>2. FreshTyped BY DEF Init, FreshTyped
  <1>3. \A r \in Requests : Placed(r) BY DEF Init, Placed
  <1> QED BY <1>1, <1>2, <1>3 DEF BInv

LEMMA NextBInv == ASSUME BInv, [Next]_vars PROVE BInv'
  <1>1. RInv' BY NextRInv DEF BInv, AInv
  <1>2. Held' BY NextHeld DEF BInv, AInv
  <1>3. \A p \in Packages : Agree(p)' BY NextAgrees DEF BInv
  <1> QED BY <1>1, <1>2, <1>3, NextPlaced DEF BInv, AInv

LEMMA BatchesPlaced == Spec => []BInv
  BY InitBInv, NextBInv, PTL DEF Spec
-----------------------------------------------------------------------------
(* The rest of the types.                                                  *)
RestTyped ==
    /\ up \in BOOLEAN /\ crowd \in BOOLEAN /\ stops \in 0 .. MaxStops
    /\ stuck \subseteq Requests /\ shared \subseteq Packages /\ amiss \subseteq Packages

LEMMA NextRestTyped == ASSUME BInv, RestTyped, [Next]_vars PROVE RestTyped'
  <1> USE DEF RestTyped
  <1>1. CASE UNCHANGED vars BY <1>1 DEF vars, request, work, target, life
  <1>2. ASSUME NEW r \in Requests,
               \/ CreateRequest(r) \/ InsertRequest(r) \/ CreateFails(r)
               \/ TreeAges(r) \/ RowAges(r) \/ Approve(r) \/ Reject(r) \/ ExpireLazily(r)
        PROVE  RestTyped'
    BY <1>2 DEF CreateRequest, InsertRequest, CreateFails, TreeAges, RowAges, Approve,
                Reject, ExpireLazily, work, target, life
  <1>3. ASSUME NEW r \in Requests,
               \/ ClaimItem(r) \/ DropItem(r) \/ StartBatch(r) \/ StartRaises(r)
               \/ Verify(r) \/ Compensated(r) \/ BatchRaises(r) \/ Settle(r) \/ SettleRaises(r)
        PROVE  RestTyped'
    BY <1>3 DEF ClaimItem, DropItem, StartBatch, StartRaises, Verify, Compensated, BatchRaises, Settle,
                SettleRaises, HandlerEnds, request, target, life
  <1>4. ASSUME NEW r \in Requests, BeginItem(r) PROVE RestTyped'
    <2> DEFINE w == Order[r][at[r] + 1]
    <2>1. w \in Packages
      <3>1. stage[r] = "next" /\ at[r] \in Nat /\ at[r] < Len(Order[r])
        BY <1>4 DEF BeginItem, BInv, AInv, RInv, Domains
      <3>2. at[r] + 1 \in 1 .. Len(Order[r]) BY <3>1, OrderOf
      <3> QED BY <3>2, OrderOf
    <2>2. shared' = (IF InItem(w) = {} THEN shared \ {w} ELSE shared \cup {w})
          /\ UNCHANGED <<up, crowd, stops, stuck, amiss>>
      BY <1>4 DEF BeginItem, request, life
    <2> HIDE DEF w
    <2> QED BY <2>1, <2>2
  <1>5. ASSUME NEW r \in Requests, Swap(r) PROVE RestTyped'
    BY <1>5 DEF Swap, request, life
  <1>6. ASSUME NEW r \in Requests, Record(r) \/ ItemFails(r) PROVE RestTyped'
    <2>1. InWork(r) \in Packages BY <1>6, RecordedGrows, ItemFailsPlaced
    <2> QED BY <1>6, <2>1 DEF Record, ItemFails, request, life
  <1>7. ASSUME NEW r \in Requests, Compensate(r) PROVE RestTyped'
    <2> DEFINE w == Last(fresh[r])
    <2>1. w \in Packages BY <1>7, CompensatePlaced
    <2>2. /\ shared' = (IF InItem(w) = {} THEN shared ELSE shared \cup {w})
          /\ \/ amiss' = (IF InItem(w) = {} THEN amiss \ {w} ELSE amiss \cup {w})
             \/ amiss' = amiss \/ amiss' = amiss \cup {w}
          /\ UNCHANGED <<up, crowd, stops, stuck>>
      BY <1>7 DEF Compensate, request, life
    <2> HIDE DEF w
    <2> QED BY <2>1, <2>2
  <1>8. CASE Sweep \/ SweepFails \/ Recover
    BY <1>8 DEF Sweep, SweepFails, Recover, work, target, life
  <1>9. ASSUME NEW cut, Stop(cut), cut \subseteq Packages PROVE RestTyped'
    <2>1. /\ up' = FALSE /\ stops < MaxStops /\ stops' = stops + 1 /\ UNCHANGED <<crowd, stuck, shared>>
          /\ amiss' = amiss \cup {p \in Packages : InItem(p) # {}} \cup cut
      BY <1>9 DEF Stop
    <2>2. MaxStops \in Nat BY BoundsAssumption DEF BoundsAssumption
    <2>3. stops' \in 0 .. MaxStops BY <2>1, <2>2
    <2>4. amiss' \subseteq Packages BY <1>9, <2>1
    <2> QED BY <2>1, <2>3, <2>4
  <1>10. CASE \/ \E r \in Requests : CrashInApprove(r) \/ CrashInReject(r) \/ CrashInSettle(r)
              \/ Crash \/ CrashInSweep \/ \E p \in Packages : CrashInSwap(p)
    BY <1>9, <1>10 DEF CrashInApprove, CrashInReject, CrashInSettle, Crash, CrashInSweep,
                       CrashInSwap
  <1> QED BY <1>1, <1>2, <1>3, <1>4, <1>5, <1>6, <1>7, <1>8, <1>10 DEF Next, BatchStep

(* Every variable keeps its type, what a batch remembers is a list of      *)
(* packages, and a handler at work holds its claimed item in a process     *)
(* that is up (install_approved_handler.py, install_batch.py).             *)
THEOREM RequestsTyped == Spec => []TypeOK
  <1>1. Init => RestTyped
    <2>1. 0 \in 0 .. MaxStops BY BoundsAssumption DEF BoundsAssumption
    <2> QED BY <2>1 DEF Init, RestTyped
  <1>2. BInv /\ RestTyped /\ [Next]_vars => RestTyped' BY NextRestTyped
  <1>3. BInv /\ RestTyped => TypeOK
    BY DEF BInv, AInv, RInv, Domains, Coherent, Held, FreshTyped, RestTyped, TypeOK
  <1> QED BY <1>1, <1>2, <1>3, BatchesPlaced, PTL DEF Spec

-----------------------------------------------------------------------------
(* A row says installing only while its batch is at work or the write of   *)
(* its outcome raised: proved from what each step does to the two.         *)
LEMMA NextAttended == ASSUME BInv, InstallsAttended, [Next]_vars PROVE InstallsAttended'
  <1> USE DEF BInv, AInv, RInv, Domains, Held
  <1>1. CASE UNCHANGED vars
    BY <1>1 DEF vars, request, work, life, InBatch, InstallsAttended
  <1>2. CASE up'= FALSE BY <1>2 DEF InstallsAttended
  <1>3. ASSUME NEW cut, Stop(cut) PROVE InstallsAttended' BY <1>2, <1>3 DEF Stop
  <1>4. CASE Recover
    <2>1. /\ stuck' = {} /\ stage' = stage
          /\ status' = [r \in Requests |->
                IF r \in Overdue THEN "expired"
                ELSE IF r \in Stale \cup Installing THEN "failed" ELSE status[r]]
      BY <1>4 DEF Recover, Swept
    <2>2. \A q \in Requests : status'[q] # "installing" BY <2>1 DEF Installing
    <2> QED BY <2>2 DEF InstallsAttended
  <1>5. CASE Sweep \/ SweepFails
    <2>1. /\ up' = up /\ stuck' = stuck /\ stage' = stage
          /\ \A q \in Requests : status'[q] # "installing" \/ status'[q] = status[q]
      BY <1>5 DEF Sweep, SweepFails, Swept, work, life
    <2> QED BY <2>1 DEF InstallsAttended, InBatch
  <1>6. ASSUME NEW r \in Requests,
               \/ CreateRequest(r) \/ InsertRequest(r) \/ CreateFails(r)
               \/ TreeAges(r) \/ RowAges(r) \/ Approve(r) \/ Reject(r) \/ ExpireLazily(r)
        PROVE  InstallsAttended'
    <2>1. /\ up' = up /\ stuck' = stuck /\ stage' = stage
          /\ \/ status' = status
             \/ \E s \in {"requested", "approved", "rejected", "expired"} :
                   status' = [status EXCEPT ![r] = s]
      BY <1>6 DEF CreateRequest, InsertRequest, CreateFails, TreeAges, RowAges, Approve,
                  Reject, ExpireLazily, Moves, work, life
    <2> QED BY <2>1 DEF InstallsAttended, InBatch
  <1>7. ASSUME NEW r \in Requests, ClaimItem(r) \/ DropItem(r) \/ StartRaises(r)
        PROVE  InstallsAttended'
    <2>1. /\ up' = up /\ stuck' = stuck /\ status' = status /\ stage[r] \in {"idle", "taken"}
          /\ \E s \in {"idle", "taken"} : stage' = [stage EXCEPT ![r] = s]
      BY <1>7 DEF ClaimItem, DropItem, StartRaises, request, life
    <2> QED BY <2>1 DEF InstallsAttended, InBatch
  <1>8. ASSUME NEW r \in Requests,
               StartBatch(r) \/ Verify(r) \/ BeginItem(r) \/ Swap(r) \/ Record(r)
               \/ ItemFails(r) \/ Compensate(r) \/ Compensated(r) \/ BatchRaises(r)
        PROVE  InstallsAttended'
    <2>1. /\ up' = up /\ stuck' = stuck /\ \A q \in Requests : q # r => status'[q] = status[q]
          /\ InBatch(r)' /\ \A q \in Requests : q # r => stage'[q] = stage[q]
      <3>1. CASE StartBatch(r)
        BY <3>1 DEF StartBatch, MarkInstalling, Moves, InBatch, target, life
      <3>2. CASE Verify(r) \/ BeginItem(r) \/ Swap(r) \/ BatchRaises(r)
        BY <3>2 DEF BatchRaises, Verify, BeginItem, Swap, InBatch, request, target, life
      <3>3. CASE Record(r) \/ ItemFails(r) \/ Compensate(r) \/ Compensated(r)
        BY <3>3 DEF Record, ItemFails, Compensate, Compensated, InBatch, request, target, life
      <3> QED BY <1>8, <3>1, <3>2, <3>3
    <2> QED BY <2>1 DEF InstallsAttended, InBatch
  <1>9. ASSUME NEW r \in Requests, Settle(r) \/ SettleRaises(r) PROVE InstallsAttended'
    <2>1. /\ up' = up /\ stage' = [stage EXCEPT ![r] = "idle"]
          /\ \/ stuck' = stuck
                /\ status' = [status EXCEPT ![r] = Outcome(r)]
             \/ stuck' = stuck \cup {r} /\ status' = status
      BY <1>9 DEF Settle, SettleRaises, HandlerEnds, Moves, request, life
    <2>2. Outcome(r) # "installing" BY DEF Outcome
    <2> QED BY <2>1, <2>2 DEF InstallsAttended, InBatch
  <1>10. CASE \/ \E r \in Requests : CrashInApprove(r) \/ CrashInReject(r) \/ CrashInSettle(r)
              \/ Crash \/ CrashInSweep \/ \E p \in Packages : CrashInSwap(p)
    BY <1>3, <1>10 DEF CrashInApprove, CrashInReject, CrashInSettle, Crash, CrashInSweep,
                       CrashInSwap
  <1> QED BY <1>1, <1>4, <1>5, <1>6, <1>7, <1>8, <1>9, <1>10 DEF Next, BatchStep

(* While the process lives, a row that says installing has its batch at    *)
(* work, or the write of its final status raised: no interrupted, dropped  *)
(* or re-dispatched item leaves an approval behind that nobody works on    *)
(* (fail_interrupted_installs, handle_package_install_approved).           *)
THEOREM NoInstallAbandoned == Spec => []InstallsAttended
  <1>1. Init => InstallsAttended BY DEF Init, InstallsAttended
  <1>2. BInv /\ InstallsAttended /\ [Next]_vars => InstallsAttended' BY NextAttended
  <1> QED BY <1>1, <1>2, BatchesPlaced, PTL DEF Spec
-----------------------------------------------------------------------------
(* Rows move along the legal edges, whatever the step.                     *)
AlongEdges ==
    \A q \in Requests : \/ status'[q] = status[q]
                        \/ <<status[q], status'[q]>> \in Edges
                        \/ status[q] = "absent" /\ status'[q] = "requested"

LEMMA MovesAlong == ASSUME Domains, NEW r \in Requests, NEW s, Moves(r, s) PROVE AlongEdges
  BY DEF Moves, Domains, AlongEdges

LEMMA SweptAlong ==
  ASSUME NEW ended, Swept(ended), \A q \in ended : status[q] = "installing"
  PROVE  AlongEdges
  <1> SUFFICES ASSUME NEW q \in Requests, status'[q] # status[q]
               PROVE  <<status[q], status'[q]>> \in Edges
    BY DEF AlongEdges
  <1>1. \/ q \in Overdue /\ status'[q] = "expired"
        \/ q \in Stale \cup ended /\ status'[q] = "failed"
    BY DEF Swept
  <1> QED BY <1>1 DEF Overdue, Stale, Edges

LEMMA NextAlong == ASSUME BInv, [Next]_vars PROVE AlongEdges
  <1>0. Domains BY DEF BInv, AInv, RInv
  <1>1. CASE UNCHANGED status BY <1>1 DEF AlongEdges
  <1>2. ASSUME NEW r \in Requests, InsertRequest(r) PROVE AlongEdges
    <2>1. status[r] = "absent" /\ status' = [status EXCEPT ![r] = "requested"]
      BY <1>2 DEF InsertRequest, BInv, AInv, RInv, Coherent
    <2> QED BY <1>0, <2>1 DEF Domains, AlongEdges
  <1>3. ASSUME NEW r \in Requests,
               \/ Approve(r) \/ CrashInApprove(r) \/ Reject(r) \/ CrashInReject(r)
               \/ ExpireLazily(r) \/ StartBatch(r) \/ Settle(r) \/ CrashInSettle(r)
        PROVE  AlongEdges
    <2>1. \E s : Moves(r, s)
      BY <1>3 DEF Approve, CrashInApprove, Reject, CrashInReject, ExpireLazily, StartBatch,
                  MarkInstalling, Settle, CrashInSettle
    <2> QED BY <1>0, <2>1, MovesAlong
  <1>4. CASE Sweep BY <1>4, SweptAlong DEF Sweep
  <1>5. CASE Recover BY <1>5, SweptAlong DEF Recover, Installing
  <1>6. ASSUME NEW r \in Requests,
               \/ CreateRequest(r) \/ CreateFails(r) \/ TreeAges(r) \/ RowAges(r)
               \/ ClaimItem(r) \/ DropItem(r) \/ StartRaises(r) \/ BatchStep(r) \/ SettleRaises(r)
        PROVE  UNCHANGED status
    <2>1. CASE BatchStep(r)
      BY <2>1 DEF BatchStep, Verify, BeginItem, Swap, Record, ItemFails, Compensate,
                  Compensated, BatchRaises, request
    <2> QED BY <1>6, <2>1 DEF CreateRequest, CreateFails, TreeAges, RowAges, ClaimItem, DropItem,
                              StartRaises, SettleRaises, request
  <1>7. CASE SweepFails \/ CrashInSweep \/ Crash \/ \E p \in Packages : CrashInSwap(p)
    BY <1>1, <1>7 DEF SweepFails, CrashInSweep, Crash, CrashInSwap
  <1>8. CASE UNCHANGED vars BY <1>1, <1>8 DEF vars, request
  <1> QED BY <1>1, <1>2, <1>3, <1>4, <1>5, <1>6, <1>7, <1>8 DEF Next

(* Only a batch that is in a package writes its name to it.                *)
Writes ==
    \A p \in Packages : /\ disk'[p] \in {disk[p], None, "torn"} \cup InItem(p)
                        /\ row'[p] \in {row[p], None} \cup InItem(p)

LEMMA NextWrites == ASSUME BInv, [Next]_vars PROVE Writes
  <1> USE DEF BInv, AInv, RInv, Domains
  <1>1. CASE UNCHANGED <<disk, row>> BY <1>1 DEF Writes
  <1>2. ASSUME NEW r \in Requests, Swap(r) PROVE Writes
    <2>1. stage[r] = "copy" BY <1>2 DEF Swap
    <2>2. r \in InItem(InWork(r)) BY <2>1 DEF InItem, InWork
    <2>3. PICK b \in InItem(InWork(r)) \cup {"torn"} : disk' = [disk EXCEPT ![InWork(r)] = b]
      BY <1>2, <2>2 DEF Swap
    <2> QED BY <1>2, <2>3 DEF Swap, Writes
  <1>3. ASSUME NEW r \in Requests, Record(r) PROVE Writes
    <2>1. r \in InItem(InWork(r)) BY <1>3 DEF Record, InItem, InWork
    <2> QED BY <1>3, <2>1 DEF Record, Writes
  <1>4. ASSUME NEW r \in Requests, Compensate(r) PROVE Writes
    <2>1. /\ disk' = disk \/ disk' = [disk EXCEPT ![Last(fresh[r])] = None]
          /\ row' = row \/ row' = [row EXCEPT ![Last(fresh[r])] = None]
      BY <1>4 DEF Compensate, Uninstall
    <2> QED BY <2>1 DEF Writes
  <1>5. ASSUME NEW p \in Packages, CrashInSwap(p) PROVE Writes
    BY <1>5 DEF CrashInSwap, Stop, Writes
  <1>6. CASE \/ \E r \in Requests : CrashInApprove(r) \/ CrashInReject(r) \/ CrashInSettle(r)
             \/ Crash \/ CrashInSweep
    BY <1>1, <1>6 DEF CrashInApprove, CrashInReject, CrashInSettle, Crash, CrashInSweep, Stop
  <1>7. ASSUME NEW r \in Requests,
               \/ CreateRequest(r) \/ InsertRequest(r) \/ CreateFails(r)
               \/ TreeAges(r) \/ RowAges(r) \/ Approve(r) \/ Reject(r) \/ ExpireLazily(r)
               \/ ClaimItem(r) \/ DropItem(r) \/ StartBatch(r) \/ StartRaises(r)
        PROVE  UNCHANGED <<disk, row>>
    BY <1>7 DEF CreateRequest, InsertRequest, CreateFails, TreeAges, RowAges, Approve, Reject,
                ExpireLazily, ClaimItem, DropItem, StartBatch, StartRaises, target
  <1>8. ASSUME NEW r \in Requests,
               \/ Verify(r) \/ BeginItem(r) \/ ItemFails(r) \/ Compensated(r) \/ BatchRaises(r)
               \/ Settle(r) \/ SettleRaises(r)
        PROVE  UNCHANGED <<disk, row>>
    BY <1>8 DEF Verify, BeginItem, ItemFails, Compensated, BatchRaises, Settle, SettleRaises, target
  <1>9. CASE Sweep \/ SweepFails \/ Recover \/ UNCHANGED vars
    BY <1>1, <1>9 DEF Sweep, SweepFails, Recover, vars, target
  <1> QED BY <1>1, <1>2, <1>3, <1>4, <1>5, <1>6, <1>7, <1>8, <1>9 DEF Next, BatchStep

(* No bytes and no row of a request that nobody approved, or whose         *)
(* approval was never started, reach the place where packages are          *)
(* installed (handle_package_install_approved, perform_install_batch).     *)
THEOREM OnlyApprovedInstalls == Spec => []NothingUnapproved
  <1>1. Init => NothingUnapproved
    BY BoundsAssumption DEF Init, NothingUnapproved, BoundsAssumption
  <1>2. BInv /\ NothingUnapproved /\ [Next]_vars => NothingUnapproved'
    <2> SUFFICES ASSUME BInv, NothingUnapproved, [Next]_vars,
                        NEW p \in Packages, NEW r \in Requests, r \in {disk'[p], row'[p]}
                 PROVE  status'[r] \in {"installing", "installed", "failed"}
      BY DEF NothingUnapproved
    <2>1. r \in {disk[p], row[p]} \/ r \in InItem(p)
      BY NextWrites, BoundsAssumption DEF Writes, BoundsAssumption
    <2>2. r \in InItem(p) => status[r] = "installing"
      BY DEF InItem, BInv, AInv, RInv, Coherent, InBatch
    <2>3. status[r] \in {"installing", "installed", "failed"}
      BY <2>1, <2>2 DEF NothingUnapproved
    <2>4. \/ status'[r] = status[r] \/ <<status[r], status'[r]>> \in Edges
      BY <2>3, NextAlong DEF AlongEdges
    <2> QED BY <2>3, <2>4 DEF Edges
  <1> QED BY <1>1, <1>2, BatchesPlaced, PTL DEF Spec

-----------------------------------------------------------------------------
(* The contract: what each step of the requests is to the operator.        *)
LEMMA Phases ==
  /\ Phase("absent") = "new" /\ Phase("requested") = "new"
  /\ Phase("approved") = "approved" /\ Phase("installing") = "installing"
  /\ Phase("installed") = "installed" /\ Phase("failed") = "failed"
  /\ Phase("rejected") = "refused" /\ Phase("expired") = "refused"
  BY DEF Phase

LEMMA PhaseType == ASSUME NEW s \in Statuses PROVE Phase(s) \in Contract!Phases
  BY Phases DEF Statuses, Terminal, Contract!Phases

LEMMA Runs ==
  /\ \A s \in {"verify", "next", "copy", "copied", "good"} : Run(s) = "working"
  /\ \A s \in {"undo", "bad"} : Run(s) = "undoing"
  /\ \A s \in {"idle", "taken", "raised"} : Run(s) = "none"
  BY DEF Run

LEMMA PhaseEdges ==
  ASSUME AlongEdges, NEW q \in Requests, Phase(status'[q]) # Phase(status[q]),
         ~(status[q] = "approved" /\ status'[q] = "installing")
  PROVE  /\ <<Phase(status[q]), Phase(status'[q])>> \in Contract!Edges
         /\ Phase(status'[q]) = "installed" <=> status'[q] = "installed"
  <1>1. \/ <<status[q], status'[q]>> \in Edges
        \/ status[q] = "absent" /\ status'[q] = "requested"
    BY DEF AlongEdges
  <1>2. <<status[q], status'[q]>> \in Edges BY <1>1, Phases
  <1>3. \/ status[q] = "requested" /\ status'[q] \in {"approved", "rejected", "expired"}
        \/ status[q] = "approved" /\ status'[q] = "failed"
        \/ status[q] = "installing" /\ status'[q] \in {"installed", "failed"}
    BY <1>2 DEF Edges
  <1> QED BY <1>3, Phases DEF Contract!Edges

(* Nobody's batch: not begun, or gone.                                     *)
LEMMA Unbegun ==
  ASSUME NEW q \in Requests, Placed(q), stage[q] \in {"idle", "taken", "raised"}
  PROVE  Run(stage[q]) = "none" /\ Recorded(q) = {}
  <1>1. at[q] = 0 /\ Run(stage[q]) = "none" BY Runs DEF Placed
  <1>2. 1 .. (IF stage[q] \in {"next", "good"} THEN at[q] ELSE at[q] - 1) = {} BY <1>1
  <1> QED BY <1>1, <1>2 DEF Recorded

LEMMA Manages ==
  ASSUME BInv, BInv', AlongEdges, NEW over \in SUBSET Requests,
         \A q \in over : stage'[q] \in {"idle", "taken", "raised"},
         \A q \in Requests \ over : Run(stage'[q]) = Run(stage[q]) /\ Recorded(q)' = Recorded(q),
         \A q \in Requests : Phase(status'[q]) # Phase(status[q]) =>
            /\ q \in over /\ ~(status[q] = "approved" /\ status'[q] = "installing")
            /\ status'[q] = "installed" => stage[q] = "good",
         row' = row
  PROVE  Contract!Manage
  <1>1. \A q \in over : Run(stage'[q]) = "none" /\ Recorded(q)' = {}
    <2> SUFFICES ASSUME NEW q \in over PROVE Run(stage'[q]) = "none" /\ Recorded(q)' = {}
      OBVIOUS
    <2>1. q \in Requests /\ Placed(q)' /\ stage'[q] \in {"idle", "taken", "raised"} BY DEF BInv
    <2>2. at'[q] = 0 /\ Run(stage'[q]) = "none" BY <2>1, Runs DEF Placed
    <2>3. 1 .. (IF stage'[q] \in {"next", "good"} THEN at'[q] ELSE at'[q] - 1) = {} BY <2>2
    <2> QED BY <2>2, <2>3 DEF Recorded
  <1>2. \A q \in Requests : Phase(status'[q]) \in Contract!Phases
    BY PhaseType DEF BInv, AInv, RInv, Domains
  <1>3. \A q \in Requests : stage[q] = "good" =>
           Run(stage[q]) = "working" /\ Recorded(q) = Range(Order[q])
    <2> SUFFICES ASSUME NEW q \in Requests, stage[q] = "good"
                 PROVE  Run(stage[q]) = "working" /\ Recorded(q) = Range(Order[q])
      OBVIOUS
    <2>1. at[q] = Len(Order[q]) BY DEF BInv, Placed
    <2>2. DOMAIN Order[q] = 1 .. at[q] BY <2>1, OrderOf
    <2> QED BY <2>2, Runs DEF Recorded, Range
  <1>4. \A q \in Requests : Phase(status'[q]) # Phase(status[q]) =>
           /\ <<Phase(status[q]), Phase(status'[q])>> \in Contract!Edges
           /\ Phase(status'[q]) = "installed" =>
                 Run(stage[q]) = "working" /\ Recorded(q) = Range(Order[q])
           /\ q \in over
    BY <1>3, PhaseEdges
  <1> QED BY <1>1, <1>2, <1>4 DEF Contract!Manage, Contract!Complete
(* Steps the operator does not see.                                        *)
LEMMA Unseen ==
  ASSUME AlongEdges, row' = row,
         \A q \in Requests : /\ Run(stage'[q]) = Run(stage[q]) /\ Recorded(q)' = Recorded(q)
                             /\ Phase(status'[q]) = Phase(status[q])
  PROVE  UNCHANGED Contract!vars
  BY DEF Contract!vars

LEMMA AsideSeen ==
  ASSUME BInv, NEW r \in Requests,
         \A q \in Requests : q # r => stage'[q] = stage[q] /\ at'[q] = at[q]
  PROVE  \A q \in Requests : q # r =>
            Run(stage'[q]) = Run(stage[q]) /\ Recorded(q)' = Recorded(q)
  BY DEF Recorded

LEMMA IdleSeen ==
  ASSUME BInv, BInv', NEW q \in Requests,
         stage[q] \in {"idle", "taken", "raised"}, stage'[q] \in {"idle", "taken", "raised"}
  PROVE  Run(stage'[q]) = Run(stage[q]) /\ Recorded(q)' = Recorded(q)
  <1>1. Placed(q) /\ Placed(q)' BY DEF BInv
  <1>2. at[q] = 0 /\ at'[q] = 0 BY <1>1 DEF Placed
  <1>3. 1 .. (IF stage'[q] \in {"next", "good"} THEN at'[q] ELSE at'[q] - 1)
          = 1 .. (IF stage[q] \in {"next", "good"} THEN at[q] ELSE at[q] - 1)
    BY <1>2
  <1> QED BY <1>3, Runs DEF Recorded

(* Tool calls, ageing and decisions.                                       *)
LEMMA RequestContract ==
  ASSUME BInv, BInv', AlongEdges, NEW r \in Requests,
         \/ CreateRequest(r) \/ InsertRequest(r) \/ CreateFails(r) \/ TreeAges(r) \/ RowAges(r)
         \/ Approve(r) \/ Reject(r) \/ ExpireLazily(r)
  PROVE  Contract!Manage \/ UNCHANGED Contract!vars
  <1> USE DEF BInv, AInv, RInv, Domains
  <1>1. UNCHANGED <<stage, at, row>>
    BY DEF CreateRequest, InsertRequest, CreateFails, TreeAges, RowAges, Approve, Reject,
           ExpireLazily, work, target
  <1>2. \A q \in Requests : Run(stage'[q]) = Run(stage[q]) /\ Recorded(q)' = Recorded(q)
    BY <1>1 DEF Recorded
  <1>3. CASE Approve(r) \/ Reject(r) \/ ExpireLazily(r)
    <2>1. /\ status[r] = "requested"
          /\ \E s \in {"approved", "rejected", "expired"} : status' = [status EXCEPT ![r] = s]
      BY <1>3 DEF Approve, Reject, ExpireLazily, Moves
    <2>2. stage[r] \in {"idle", "taken"} BY <2>1 DEF Coherent, InBatch
    <2>3. /\ \A q \in {r} : stage'[q] \in {"idle", "taken"}
          /\ \A q \in Requests : Phase(status'[q]) # Phase(status[q]) =>
                /\ q \in {r} /\ ~(status[q] = "approved" /\ status'[q] = "installing")
                /\ status'[q] = "installed" => stage[q] = "good"
      BY <1>1, <2>1, <2>2
    <2> HIDE DEF BInv
    <2> QED BY <1>1, <1>2, <2>3, Manages
  <1>4. CASE InsertRequest(r)
    <2>1. status[r] = "absent" /\ status' = [status EXCEPT ![r] = "requested"]
      BY <1>4 DEF InsertRequest, Coherent
    <2>2. \A q \in Requests : Phase(status'[q]) = Phase(status[q]) BY <2>1, Phases
    <2> QED BY <1>1, <1>2, <2>2, Unseen
  <1>5. CASE CreateRequest(r) \/ CreateFails(r) \/ TreeAges(r) \/ RowAges(r)
    <2>1. status' = status BY <1>5 DEF CreateRequest, CreateFails, TreeAges, RowAges
    <2> QED BY <1>1, <1>2, <2>1, Unseen
  <1> QED BY <1>3, <1>4, <1>5

LEMMA SweepContract ==
  ASSUME BInv, BInv', AlongEdges, Sweep \/ SweepFails
  PROVE  Contract!Manage \/ UNCHANGED Contract!vars
  <1> DEFINE over == {q \in Requests : status'[q] # status[q]}
  <1>1. UNCHANGED <<stage, at, row>> BY DEF Sweep, SweepFails, work, target
  <1>2. \A q \in Requests : Run(stage'[q]) = Run(stage[q]) /\ Recorded(q)' = Recorded(q)
    BY <1>1 DEF Recorded
  <1>3. \A q \in over : status[q] \in {"requested", "approved"}
                        /\ status'[q] \in {"expired", "failed"}
    BY DEF Sweep, SweepFails, Swept, Overdue, Stale
  <1>4. \A q \in over : stage'[q] \in {"idle", "taken"}
    <2> SUFFICES ASSUME NEW q \in over PROVE stage[q] \in {"idle", "taken"} BY <1>1
    <2>1. status[q] # "installing" BY <1>3
    <2> QED BY <2>1 DEF BInv, AInv, RInv, Domains, Coherent, InBatch
  <1>5. \A q \in Requests : Phase(status'[q]) # Phase(status[q]) =>
           /\ q \in over /\ ~(status[q] = "approved" /\ status'[q] = "installing")
           /\ status'[q] = "installed" => stage[q] = "good"
    BY <1>3
  <1>6. over \in SUBSET Requests OBVIOUS
  <1> HIDE DEF over
  <1> QED BY <1>1, <1>2, <1>4, <1>5, <1>6, Manages

(* The end of the process and the next start: nobody's batch goes on.      *)
LEMMA StopContract ==
  ASSUME BInv, BInv', AlongEdges, row' = row,
         \A q \in Requests : /\ stage'[q] = "idle"
                             /\ ~(status[q] = "approved" /\ status'[q] = "installing")
                             /\ status'[q] # status[q] /\ status'[q] = "installed"
                                   => stage[q] = "good"
  PROVE  Contract!Manage
  <1>1. Requests \in SUBSET Requests OBVIOUS
  <1>2. \A q \in Requests : Phase(status'[q]) # Phase(status[q]) =>
           /\ q \in Requests /\ ~(status[q] = "approved" /\ status'[q] = "installing")
           /\ status'[q] = "installed" => stage[q] = "good"
    OBVIOUS
  <1>3. /\ \A q \in Requests : stage'[q] \in {"idle", "taken"}
        /\ \A q \in Requests \ Requests :
              Run(stage'[q]) = Run(stage[q]) /\ Recorded(q)' = Recorded(q)
    OBVIOUS
  <1> QED BY <1>1, <1>2, <1>3, Manages

LEMMA EndsContract ==
  ASSUME BInv, BInv', AlongEdges,
         \/ \E r \in Requests : CrashInApprove(r) \/ CrashInReject(r) \/ CrashInSettle(r)
         \/ Crash \/ CrashInSweep \/ (\E p \in Packages : CrashInSwap(p)) \/ Recover
  PROVE  Contract!Manage
  <1> USE DEF BInv, AInv, RInv, Domains
  <1>1. ASSUME NEW cut, Stop(cut) PROVE row' = row /\ \A q \in Requests : stage'[q] = "idle"
    BY <1>1 DEF Stop
  <1>2. ASSUME NEW r \in Requests, CrashInApprove(r) \/ CrashInReject(r) \/ CrashInSettle(r)
        PROVE  Contract!Manage
    <2>1. row' = row /\ \A q \in Requests : stage'[q] = "idle"
      BY <1>1, <1>2 DEF CrashInApprove, CrashInReject, CrashInSettle
    <2>2. \/ \E s \in {"approved", "rejected"} : status' = [status EXCEPT ![r] = s]
          \/ stage[r] = "good" /\ status' = [status EXCEPT ![r] = "installed"]
          \/ status' = [status EXCEPT ![r] = "failed"]
      BY <1>2 DEF CrashInApprove, CrashInReject, CrashInSettle, Moves, Outcome
    <2>3. \A q \in Requests : /\ ~(status[q] = "approved" /\ status'[q] = "installing")
                              /\ status'[q] # status[q] /\ status'[q] = "installed"
                                    => stage[q] = "good"
      BY <2>2
    <2> HIDE DEF BInv
    <2> QED BY <2>1, <2>3, StopContract
  <1>3. CASE Crash \/ CrashInSweep \/ \E p \in Packages : CrashInSwap(p)
    <2>1. status' = status /\ row' = row /\ \A q \in Requests : stage'[q] = "idle"
      BY <1>1, <1>3 DEF Crash, CrashInSweep, CrashInSwap
    <2>2. \A q \in Requests : ~(status[q] = "approved" /\ status'[q] = "installing")
      BY <2>1
    <2> HIDE DEF BInv
    <2> QED BY <2>1, <2>2, StopContract
  <1>4. CASE Recover
    <2>1. row' = row /\ \A q \in Requests : stage'[q] = "idle"
      BY <1>4 DEF Recover, target, Coherent
    <2>2. \A q \in Requests : status'[q] = status[q] \/ status'[q] \in {"expired", "failed"}
      BY <1>4 DEF Recover, Swept
    <2>3. \A q \in Requests : /\ ~(status[q] = "approved" /\ status'[q] = "installing")
                              /\ status'[q] # status[q] /\ status'[q] = "installed"
                                    => stage[q] = "good"
      BY <2>2
    <2> HIDE DEF BInv
    <2> QED BY <2>1, <2>3, StopContract
  <1> QED BY <1>2, <1>3, <1>4

(* The handler before and after its batch.                                 *)
LEMMA HandlerContract ==
  ASSUME BInv, BInv', AlongEdges, NEW r \in Requests,
         \/ ClaimItem(r) \/ DropItem(r) \/ StartRaises(r) \/ Settle(r) \/ SettleRaises(r)
         \/ BatchRaises(r)
  PROVE  Contract!Manage \/ UNCHANGED Contract!vars
  <1> USE DEF BInv, AInv, RInv, Domains, Held
  <1>1. CASE ClaimItem(r) \/ DropItem(r) \/ StartRaises(r)
    <2>1. /\ stage[r] \in {"idle", "taken"} /\ UNCHANGED <<status, at, row>>
          /\ \E s \in {"idle", "taken"} : stage' = [stage EXCEPT ![r] = s]
      BY <1>1 DEF ClaimItem, DropItem, StartRaises, request, target
    <2>2. \A q \in Requests : q # r => stage'[q] = stage[q] /\ at'[q] = at[q] BY <2>1
    <2>3. stage'[r] \in {"idle", "taken"} BY <2>1
    <2> HIDE DEF BInv
    <2>4. \A q \in Requests : Run(stage'[q]) = Run(stage[q]) /\ Recorded(q)' = Recorded(q)
      BY <2>1, <2>2, <2>3, AsideSeen, IdleSeen
    <2> QED BY <2>1, <2>4, Unseen
  <1>2. CASE Settle(r) \/ SettleRaises(r) \/ BatchRaises(r)
    <2>1. /\ \E s \in {"idle", "raised"} : stage' = [stage EXCEPT ![r] = s]
          /\ at' = [at EXCEPT ![r] = 0] /\ row' = row
          /\ \/ status' = status
             \/ stage[r] = "good" /\ status' = [status EXCEPT ![r] = "installed"]
             \/ status' = [status EXCEPT ![r] = "failed"]
      BY <1>2 DEF Settle, SettleRaises, BatchRaises, HandlerEnds, Moves, Outcome, request, target
    <2>2. /\ \A q \in Requests : q # r => stage'[q] = stage[q] /\ at'[q] = at[q]
          /\ \A q \in {r} : stage'[q] \in {"idle", "taken", "raised"}
          /\ \A q \in Requests : Phase(status'[q]) # Phase(status[q]) =>
                /\ q \in {r} /\ ~(status[q] = "approved" /\ status'[q] = "installing")
                /\ status'[q] = "installed" => stage[q] = "good"
      BY <2>1
    <2> HIDE DEF BInv
    <2>3. \A q \in Requests \ {r} : Run(stage'[q]) = Run(stage[q]) /\ Recorded(q)' = Recorded(q)
      BY <2>2, AsideSeen
    <2> QED BY <2>1, <2>2, <2>3, Manages
  <1> QED BY <1>1, <1>2
(* The batch.                                                              *)
LEMMA StartContract ==
  ASSUME BInv, BInv', NEW r \in Requests, StartBatch(r) PROVE Contract!Start(r)
  <1> USE DEF BInv, AInv, RInv, Domains
  <1>1. /\ stage[r] = "taken" /\ status[r] = "approved" /\ row' = row /\ at' = at
        /\ status' = [status EXCEPT ![r] = "installing"]
        /\ stage' = [stage EXCEPT ![r] = "verify"]
    BY DEF StartBatch, MarkInstalling, Installable, Moves, target
  <1>2. \A q \in Requests : Recorded(q)' = Recorded(q)
    <2> SUFFICES ASSUME NEW q \in Requests PROVE Recorded(q)' = Recorded(q) OBVIOUS
    <2>1. (stage'[q] \in {"next", "good"}) = (stage[q] \in {"next", "good"}) BY <1>1
    <2> QED BY <1>1, <2>1 DEF Recorded
  <1>3. \A q \in Requests : /\ Phase(status'[q]) = IF q = r THEN "installing" ELSE Phase(status[q])
                            /\ Run(stage'[q]) = IF q = r THEN "working" ELSE Run(stage[q])
    BY <1>1, Phases, Runs
  <1>4. Phase(status[r]) = "approved" BY <1>1, Phases
  <1> HIDE DEF BInv
  <1> QED BY <1>1, <1>2, <1>3, <1>4 DEF Contract!Start

(* A batch that turns to its undoing.                                      *)
LEMMA GivesUp ==
  ASSUME BInv, NEW r \in Requests, status' = status, row' = row,
         \A q \in Requests : q # r => stage'[q] = stage[q] /\ at'[q] = at[q],
         Run(stage[r]) = "working", Run(stage'[r]) = "undoing", Recorded(r)' = Recorded(r)
  PROVE  Contract!GiveUp(r)
  <1>1. \A q \in Requests : /\ Run(stage'[q]) = IF q = r THEN "undoing" ELSE Run(stage[q])
                            /\ Recorded(q)' = Recorded(q)
    BY AsideSeen
  <1> QED BY <1>1 DEF Contract!GiveUp

LEMMA BatchContract ==
  ASSUME BInv, BInv', AlongEdges, NEW r \in Requests,
         Verify(r) \/ BeginItem(r) \/ Swap(r) \/ ItemFails(r) \/ Compensated(r)
  PROVE  Contract!GiveUp(r) \/ UNCHANGED Contract!vars
  <1>0. BInv /\ BInv' OBVIOUS
  <1> USE DEF BInv, AInv, RInv, Domains
  <1>1. /\ status' = status /\ row' = row
        /\ \A q \in Requests : q # r => stage'[q] = stage[q] /\ at'[q] = at[q]
    BY DEF Verify, BeginItem, Swap, ItemFails, Compensated, request, target
  <1>2. CASE ItemFails(r)
    <2>1. stage[r] \in {"copy", "copied"} /\ stage'[r] = "undo" BY <1>2 DEF ItemFails
    <2>2. Recorded(r)' = Recorded(r) BY <1>0, <1>2, ItemFailsPlaced
    <2> HIDE DEF BInv
    <2> QED BY <1>1, <2>1, <2>2, Runs, GivesUp
  <1>3. CASE Verify(r)
    <2>1. stage[r] = "verify" /\ stage'[r] \in {"bad", "next"} /\ at'[r] = at[r] /\ at[r] = 0
      BY <1>3 DEF Verify, Placed
    <2>2. 1 .. (IF stage'[r] \in {"next", "good"} THEN at'[r] ELSE at'[r] - 1)
            = 1 .. (IF stage[r] \in {"next", "good"} THEN at[r] ELSE at[r] - 1)
      BY <2>1
    <2>3. Recorded(r)' = Recorded(r) BY <2>2 DEF Recorded
    <2> HIDE DEF BInv
    <2>4. CASE stage'[r] = "bad" BY <1>1, <2>1, <2>3, <2>4, Runs, GivesUp
    <2>5. CASE stage'[r] = "next"
      BY <1>1, <2>1, <2>3, <2>5, Runs, AsideSeen, Unseen
    <2> QED BY <2>1, <2>4, <2>5
  <1>4. CASE BeginItem(r)
    <2>1. stage[r] = "next" /\ stage'[r] = "copy" /\ at'[r] = at[r] + 1 /\ at[r] \in Nat
      BY <1>4 DEF BeginItem
    <2>2. 1 .. (IF stage'[r] \in {"next", "good"} THEN at'[r] ELSE at'[r] - 1)
            = 1 .. (IF stage[r] \in {"next", "good"} THEN at[r] ELSE at[r] - 1)
      BY <2>1
    <2>3. Recorded(r)' = Recorded(r) BY <2>2 DEF Recorded
    <2> HIDE DEF BInv
    <2> QED BY <1>1, <2>1, <2>3, Runs, AsideSeen, Unseen
  <1>5. CASE Swap(r) \/ Compensated(r)
    <2>1. /\ at' = at
          /\ \/ stage[r] = "copy" /\ stage'[r] = "copied"
             \/ stage[r] = "undo" /\ stage'[r] = "bad"
      BY <1>5 DEF Swap, Compensated
    <2>2. Recorded(r)' = Recorded(r) BY <2>1 DEF Recorded
    <2> HIDE DEF BInv
    <2> QED BY <1>1, <2>1, <2>2, Runs, AsideSeen, Unseen
  <1> QED BY <1>2, <1>3, <1>4, <1>5

LEMMA RecordContract ==
  ASSUME BInv, NEW r \in Requests, Record(r)
  PROVE  InWork(r) \in Packages /\ Contract!Record(r, InWork(r))
  <1>1. /\ Recorded(r)' = Recorded(r) \cup {InWork(r)}
        /\ InWork(r) \in Packages /\ InWork(r) \notin Recorded(r)
        /\ at[r] \in 1 .. Len(Order[r])
    BY RecordedGrows
  <1>2. InWork(r) \in Range(Order[r]) BY <1>1, OrderOf DEF InWork, Range
  <1>3. /\ status' = status /\ row' = [row EXCEPT ![InWork(r)] = r]
        /\ stage[r] = "copied" /\ stage'[r] \in {"good", "next"}
        /\ \A q \in Requests : q # r => stage'[q] = stage[q] /\ at'[q] = at[q]
    BY DEF Record, request, BInv, AInv, RInv, Domains
  <1>4. \A q \in Requests :
           /\ Run(stage'[q]) = Run(stage[q])
           /\ Recorded(q)' = IF q = r THEN Recorded(q) \cup {InWork(r)} ELSE Recorded(q)
    BY <1>1, <1>3, Runs, AsideSeen
  <1>5. Run(stage[r]) = "working" BY <1>3, Runs
  <1> QED BY <1>1, <1>2, <1>3, <1>4, <1>5 DEF Contract!Record

LEMMA CompensateContract ==
  ASSUME BInv, AlongEdges, NEW r \in Requests, Compensate(r)
  PROVE  (\E p \in Packages : Contract!Undo(r, p)) \/ UNCHANGED Contract!vars
  <1> DEFINE w == Last(fresh[r])
  <1>1. w \in Recorded(r) /\ w \in Packages /\ \A q \in Requests : Recorded(q)' = Recorded(q)
    BY CompensatePlaced
  <1>2. /\ stage[r] = "undo" /\ stage' = stage /\ status' = status
        /\ row' = row \/ row' = [row EXCEPT ![w] = None]
    BY DEF Compensate, Uninstall, request
  <1>3. Run(stage[r]) = "undoing" BY <1>2, Runs
  <1> HIDE DEF w
  <1>4. CASE row' = row BY <1>1, <1>2, <1>4, Unseen
  <1>5. CASE row' = [row EXCEPT ![w] = None]
    <2>1. Contract!Undo(r, w) BY <1>1, <1>2, <1>3, <1>5 DEF Contract!Undo
    <2> QED BY <1>1, <2>1
  <1> QED BY <1>2, <1>4, <1>5

LEMMA NextContract ==
  ASSUME BInv, BInv', [Next]_vars PROVE [Contract!Next]_Contract!vars
  <1>1. AlongEdges BY NextAlong
  <1>2. CASE UNCHANGED vars
    BY <1>2 DEF vars, request, work, target, Contract!vars, Recorded
  <1>3. ASSUME NEW r \in Requests,
               \/ CreateRequest(r) \/ InsertRequest(r) \/ CreateFails(r) \/ TreeAges(r)
               \/ RowAges(r) \/ Approve(r) \/ Reject(r) \/ ExpireLazily(r)
        PROVE  [Contract!Next]_Contract!vars
    BY <1>1, <1>3, RequestContract DEF Contract!Next
  <1>4. CASE Sweep \/ SweepFails BY <1>1, <1>4, SweepContract DEF Contract!Next
  <1>5. CASE \/ \E r \in Requests : CrashInApprove(r) \/ CrashInReject(r) \/ CrashInSettle(r)
             \/ Crash \/ CrashInSweep \/ (\E p \in Packages : CrashInSwap(p)) \/ Recover
    BY <1>1, <1>5, EndsContract DEF Contract!Next
  <1>6. ASSUME NEW r \in Requests,
               \/ ClaimItem(r) \/ DropItem(r) \/ StartRaises(r) \/ Settle(r) \/ SettleRaises(r)
               \/ BatchRaises(r)
        PROVE  [Contract!Next]_Contract!vars
    BY <1>1, <1>6, HandlerContract DEF Contract!Next
  <1>7. ASSUME NEW r \in Requests, StartBatch(r) PROVE [Contract!Next]_Contract!vars
    BY <1>7, StartContract DEF Contract!Next
  <1>8. ASSUME NEW r \in Requests,
               Verify(r) \/ BeginItem(r) \/ Swap(r) \/ ItemFails(r) \/ Compensated(r)
        PROVE  [Contract!Next]_Contract!vars
    BY <1>1, <1>8, BatchContract DEF Contract!Next
  <1>9. ASSUME NEW r \in Requests, Record(r) PROVE [Contract!Next]_Contract!vars
    BY <1>9, RecordContract DEF Contract!Next
  <1>10. ASSUME NEW r \in Requests, Compensate(r) PROVE [Contract!Next]_Contract!vars
    BY <1>1, <1>10, CompensateContract DEF Contract!Next
  <1> QED BY <1>2, <1>3, <1>4, <1>5, <1>6, <1>7, <1>8, <1>9, <1>10 DEF Next, BatchStep

(* An install keeps the promise made to the operator who approves it: only *)
(* an approved request changes what is recorded as installed, it runs at   *)
(* most once, it removes nothing it has not recorded itself, and it ends   *)
(* as installed only with every one of its packages recorded and none      *)
(* undone (set_status, handle_package_install_approved,                    *)
(* perform_install_batch, recover_on_startup).                             *)
THEOREM InstallKeepsContract == Spec => KeepsContract
  <1>1. Init => Contract!Init
    <2> SUFFICES ASSUME Init PROVE Contract!Init OBVIOUS
    <2>1. BInv BY InitBInv
    <2>2. \A q \in Requests : Run(stage[q]) = "none" /\ Recorded(q) = {}
      BY <2>1, Unbegun DEF Init, BInv
    <2>3. \A q \in Requests : Phase(status[q]) = "new" BY Phases DEF Init
    <2>4. row = [p \in Packages |-> None] BY DEF Init
    <2> QED BY <2>2, <2>3, <2>4 DEF Contract!Init
  <1>2. BInv /\ BInv' /\ [Next]_vars => [Contract!Next]_Contract!vars BY NextContract
  <1> QED BY <1>1, <1>2, BatchesPlaced, PTL DEF Spec, KeepsContract, Contract!Spec
=============================================================================
