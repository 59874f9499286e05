---------------------------- MODULE RunLifecycle ----------------------------
(***************************************************************************)
(* What the job queue promises of a forecast run, and nothing of how: a    *)
(* run is started with a set of SKUs, each of them is tried at most        *)
(* MaxAttempts times and then settled once and for all, a SKU fails only   *)
(* when its tries are used up, and the run is closed only over settled     *)
(* SKUs.  A run may be aborted by the infrastructure at any time.          *)
(* JobQueue.tla is shown to implement this module.                         *)
(***************************************************************************)
EXTENDS Naturals

CONSTANTS Runs, Skus, MaxAttempts

VARIABLES
    status,    \* [Runs -> Status]
    outcome,   \* [Runs -> [Skus -> Outcome]]
    tries      \* [Runs -> [Skus -> 0 .. MaxAttempts]]

vars == <<status, outcome, tries>>

Status  == {"absent", "running", "completed", "failed"}
Outcome == {"none", "open", "completed", "failed"}

Init ==
    /\ status  = [r \in Runs |-> "absent"]
    /\ outcome = [r \in Runs |-> [s \in Skus |-> "none"]]
    /\ tries   = [r \in Runs |-> [s \in Skus |-> 0]]

\* The run appears together with all of its work.
Start(r, S) ==
    /\ status[r] = "absent"
    /\ status'  = [status EXCEPT ![r] = "running"]
    /\ outcome' = [outcome EXCEPT ![r] = [s \in Skus |-> IF s \in S THEN "open" ELSE "none"]]
    /\ UNCHANGED tries

\* One more forecast of an open SKU is begun.
Try(r, s) ==
    /\ status[r] = "running"
    /\ outcome[r][s] = "open"
    /\ tries[r][s] < MaxAttempts
    /\ tries' = [tries EXCEPT ![r][s] = @ + 1]
    /\ UNCHANGED <<status, outcome>>

Complete(r, s) ==
    /\ status[r] = "running"
    /\ outcome[r][s] = "open"
    /\ tries[r][s] > 0
    /\ outcome' = [outcome EXCEPT ![r][s] = "completed"]
    /\ UNCHANGED <<status, tries>>

Fail(r, s) ==
    /\ status[r] = "running"
    /\ outcome[r][s] = "open"
    /\ tries[r][s] = MaxAttempts
    /\ outcome' = [outcome EXCEPT ![r][s] = "failed"]
    /\ UNCHANGED <<status, tries>>

\* A run is completed only when nothing in it is open.
Close(r) ==
    /\ status[r] = "running"
    /\ \A s \in Skus : outcome[r][s] # "open"
    /\ status' = [status EXCEPT ![r] = "completed"]
    /\ UNCHANGED <<outcome, tries>>

\* The infrastructure gives the run up; what was settled stays settled.
Abort(r) ==
    /\ status[r] \in {"running", "completed"}
    /\ status' = [status EXCEPT ![r] = "failed"]
    /\ UNCHANGED <<outcome, tries>>

Next ==
    \E r \in Runs :
        \/ \E S \in SUBSET Skus : Start(r, S)
        \/ \E s \in Skus : Try(r, s) \/ Complete(r, s) \/ Fail(r, s)
        \/ Close(r)
        \/ Abort(r)

Spec == Init /\ [][Next]_vars
=============================================================================
