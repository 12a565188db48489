-------------------------- MODULE InstallContract --------------------------
(***************************************************************************)
(* What an operator who approves an install request is promised, with      *)
(* tokens, staged trees, work items, sweeps and directories left out: only *)
(* an approved request changes what is recorded as installed; it runs at   *)
(* most once, however often it is handed out again; it removes nothing it  *)
(* has not recorded itself; and it ends as installed only if every one of  *)
(* its packages was recorded and it never began to roll back.              *)
(***************************************************************************)
CONSTANTS
    Requests,
    Packages,
    Wanted,     \* the packages of each request
    None        \* no request

VARIABLES
    phase,      \* what has become of a request
    run,        \* its batch: none, working, undoing
    done,       \* the packages its batch has recorded
    owner       \* whose install of a package is on record

vars == <<phase, run, done, owner>>

Phases == {"new", "approved", "refused", "installing", "installed", "failed"}

Edges == {<<"new", "approved">>, <<"new", "refused">>, <<"approved", "failed">>,
          <<"installing", "installed">>, <<"installing", "failed">>}

Init ==
    /\ phase = [r \in Requests |-> "new"]
    /\ run = [r \in Requests |-> "none"]
    /\ done = [r \in Requests |-> {}]
    /\ owner = [p \in Packages |-> None]

(* Decisions, expiries, ends and interruptions, of any number of requests  *)
(* at once.  No batch goes on behind a phase that has changed.             *)
Complete(r) == run[r] = "working" /\ done[r] = Wanted[r]

Manage ==
    /\ phase' \in [Requests -> Phases]
    /\ \E over \in SUBSET Requests :
          /\ \A r \in Requests : phase'[r] # phase[r] =>
                /\ <<phase[r], phase'[r]>> \in Edges
                /\ phase'[r] = "installed" => Complete(r)
                /\ r \in over
          /\ run' = [r \in Requests |-> IF r \in over THEN "none" ELSE run[r]]
          /\ done' = [r \in Requests |-> IF r \in over THEN {} ELSE done[r]]
    /\ UNCHANGED owner

Start(r) ==
    /\ phase[r] = "approved"
    /\ phase' = [phase EXCEPT ![r] = "installing"]
    /\ run' = [run EXCEPT ![r] = "working"]
    /\ UNCHANGED <<done, owner>>

Record(r, p) ==
    /\ run[r] = "working" /\ p \in Wanted[r] \ done[r]
    /\ owner' = [owner EXCEPT ![p] = r]
    /\ done' = [done EXCEPT ![r] = @ \cup {p}]
    /\ UNCHANGED <<phase, run>>

GiveUp(r) ==
    /\ run[r] = "working"
    /\ run' = [run EXCEPT ![r] = "undoing"]
    /\ UNCHANGED <<phase, done, owner>>

Undo(r, p) ==
    /\ run[r] = "undoing" /\ p \in done[r]
    /\ owner' = [owner EXCEPT ![p] = None]
    /\ UNCHANGED <<phase, run, done>>

Next ==
    \/ Manage
    \/ \E r \in Requests :
          \/ Start(r) \/ GiveUp(r)
          \/ \E p \in Packages : Record(r, p) \/ Undo(r, p)

Spec == Init /\ [][Next]_vars
=============================================================================
