------------------------------ MODULE JobQueue ------------------------------
(***************************************************************************)
(* What the scheduler promises about a job, without its clock, its polls   *)
(* and its partial failures (worker.go, doc comment of Worker): a running  *)
(* job has one owner, the attempt of the last claim; another claim may     *)
(* take the job over (delivery is at least once), but only the owner's     *)
(* attempt records a result, once, in the step that ends it; whatever the  *)
(* other attempts do leaves the job alone.                                 *)
(***************************************************************************)
CONSTANTS Jobs, Leases, None

VARIABLES
    st,     \* status of each job
    owner,  \* the lease token of a running job, None of any other
    alive   \* tokens whose attempt has not ended

jvars == <<st, owner, alive>>

Ended == {"completed", "failed", "canceled"}

Init ==
    /\ st = [j \in Jobs |-> "absent"]
    /\ owner = [j \in Jobs |-> None]
    /\ alive = {}

Enqueue(j) ==
    /\ st[j] \in Ended \cup {"absent"}
    /\ st' = [st EXCEPT ![j] = "pending"]
    /\ UNCHANGED <<owner, alive>>

(* A pending job is claimed, or a running one taken over, by a new attempt. *)
Claim(j, l) ==
    /\ st[j] \in {"pending", "running"}
    /\ l \notin alive
    /\ \A i \in Jobs : owner[i] # l
    /\ st' = [st EXCEPT ![j] = "running"]
    /\ owner' = [owner EXCEPT ![j] = l]
    /\ alive' = alive \cup {l}

(* The owner's attempt ends and records the outcome, or gives the job back. *)
Finish(j) ==
    /\ st[j] = "running"
    /\ owner[j] \in alive
    /\ \E s \in {"completed", "failed", "pending"} : st' = [st EXCEPT ![j] = s]
    /\ owner' = [owner EXCEPT ![j] = None]
    /\ alive' = alive \ {owner[j]}

(* Attempts end without recording anything. *)
Die ==
    /\ \E gone \in SUBSET alive : gone # {} /\ alive' = alive \ gone
    /\ UNCHANGED <<st, owner>>

Cancel(j) ==
    /\ st[j] \in {"pending", "running"}
    /\ st' = [st EXCEPT ![j] = "canceled"]
    /\ owner' = [owner EXCEPT ![j] = None]
    /\ UNCHANGED alive

Purge(j) ==
    /\ st[j] \in Ended
    /\ st' = [st EXCEPT ![j] = "absent"]
    /\ UNCHANGED <<owner, alive>>

Next ==
    \/ \E j \in Jobs : Enqueue(j) \/ Finish(j) \/ Cancel(j) \/ Purge(j)
    \/ \E j \in Jobs, l \in Leases : Claim(j, l)
    \/ Die

Spec == Init /\ [][Next]_jvars
=============================================================================
