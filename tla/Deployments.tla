---------------------------- MODULE Deployments ----------------------------
(***************************************************************************)
(* The deployment service of backend/internal/deploy with the recurring    *)
(* schedules of scheduler/cron.go: uploads and the trimming of history,    *)
(* activation and rollback with their document migrations, the calls and   *)
(* jobs that run against the deployment they resolved, and the observers   *)
(* told of a switch after its transaction has committed.                   *)
(*                                                                         *)
(* A transaction of the database is one step: PocketBase runs the writing  *)
(* ones one after the other, and one that fails leaves no trace.  What a   *)
(* request reads before its transaction is a step of its own.  The         *)
(* documents are seen as the set of schemas they conform to.  Operators    *)
(* named X_Y are X with one fault put in; they only serve to show that a   *)
(* property can fail.                                                      *)
(***************************************************************************)
EXTENDS Integers, FiniteSets

CONSTANTS
    Deployments,   \* deployment ids, derived from the content of a bundle
    Schemas,       \* the schemas their manifests declare
    Requests,      \* API requests and job attempts in progress
    Jobs,          \* ids of job rows
    None,          \* "no deployment"
    HistoryLimit,  \* Config.HistoryLimit
    Schema,        \* manifest.Schema of a deployment
    Migrates,      \* schemas its migration chain leads from to its own
    Accepts        \* <<s, t>>: documents of s normalize under t as they are

ASSUME DeploymentsAssumption ==
    /\ None \notin Deployments
    /\ HistoryLimit \in Nat \ {0}
    /\ Schema \in [Deployments -> Schemas]
    /\ Migrates \in [Deployments -> SUBSET Schemas]
    /\ \A d \in Deployments : Schema[d] \notin Migrates[d]
    /\ Accepts \subseteq Schemas \X Schemas

VARIABLES
    stored,    \* deployments that have a record
    older,     \* <<d, e>>: the record of d was created before that of e
    flagged,   \* records whose active flag is set
    current,   \* state record: activeId
    previous,  \* state record: previousId
    docs,      \* the schemas that documents of the database conform to
    job,       \* the deployment a job row is pinned to, None without a row
    cron,      \* the deployment whose schedules are registered
    req,       \* what each request does, and what it has read
    up         \* the server is running

dbvars == <<stored, older, flagged, current, previous, docs, job>>
vars == <<stored, older, flagged, current, previous, docs, job, cron, req, up>>

Idle == [pc |-> "idle", id |-> None, other |-> None]
At(pc, id, other) == [pc |-> pc, id |-> id, other |-> other]

Steps == {"idle", "create", "trim", "activate", "target", "rollback", "notify", "run"}

TypeOK ==
    /\ stored \subseteq Deployments
    /\ older \subseteq stored \X stored
    /\ flagged \subseteq stored
    /\ current \in Deployments \cup {None}
    /\ previous \in Deployments \cup {None}
    /\ docs \subseteq Schemas
    /\ job \in [Jobs -> Deployments \cup {None}]
    /\ cron \in Deployments \cup {None}
    /\ req \in [Requests -> [pc : Steps, id : Deployments \cup {None},
                             other : Deployments \cup {None}]]
    /\ \A r \in Requests : req[r].pc # "idle" => req[r].id \in Deployments
    /\ up \in BOOLEAN

Init ==
    /\ stored = {} /\ older = {} /\ flagged = {}
    /\ current = None /\ previous = None
    /\ docs = {}
    /\ job = [j \in Jobs |-> None]
    /\ cron = None
    /\ req = [r \in Requests |-> Idle]
    /\ up = FALSE

-----------------------------------------------------------------------------
(* Requests.  A request ends without a trace when a step of it fails: the  *)
(* bundle does not verify or compile, a handler throws, the context ends,  *)
(* a transaction is rolled back.  After a commit nothing can fail.         *)

Begins(r, pc, id) ==
    /\ up /\ req[r].pc = "idle"
    /\ req' = [req EXCEPT ![r] = At(pc, id, None)]

Ends(r) == req' = [req EXCEPT ![r] = Idle]

GiveUp(r) ==
    /\ req[r].pc \notin {"idle", "notify"}
    /\ Ends(r)
    /\ UNCHANGED <<dbvars, cron, up>>

-----------------------------------------------------------------------------
(* Upload: an id that has a record is only compiled again, another one is  *)
(* created, after which old history is trimmed.                            *)

LookUp(r, d) ==
    /\ Begins(r, "create", d)
    /\ d \notin stored
    /\ UNCHANGED <<dbvars, cron, up>>

(* The deployment id is unique: whoever loses the race resumes instead.    *)
Create(r) ==
    LET d == req[r].id IN
    /\ req[r].pc = "create"
    /\ IF d \in stored
       THEN Ends(r) /\ UNCHANGED <<stored, older>>
       ELSE /\ stored' = stored \cup {d}
            /\ older' = older \cup (stored \X {d})
            /\ req' = [req EXCEPT ![r].pc = "trim"]
    /\ UNCHANGED <<flagged, current, previous, docs, job, cron, up>>

(* Not active, not the rollback target, and no job row refers to it.       *)
Deletable_ActiveOnly ==
    {d \in stored \ flagged : d # current /\ \A j \in Jobs : job[j] # d}
Deletable ==
    {d \in stored \ flagged : /\ d # current /\ d # previous
                              /\ \A j \in Jobs : job[j] # d}

(* All but the newest HistoryLimit of the deletable ones.                  *)
Surplus_QuotaFirst ==
    {d \in Deletable :
        Cardinality({e \in stored \ (flagged \cup {current, previous}) :
                        <<d, e>> \in older}) >= HistoryLimit}
Surplus ==
    {d \in Deletable :
        Cardinality({e \in Deletable : <<d, e>> \in older}) >= HistoryLimit}

Trim(r) ==
    /\ req[r].pc = "trim"
    /\ stored' = stored \ Surplus
    /\ older' = older \cap (stored' \X stored')
    /\ Ends(r)
    /\ UNCHANGED <<flagged, current, previous, docs, job, cron, up>>

-----------------------------------------------------------------------------
(* Documents.  The database moves from schema s to schema t inside the     *)
(* transaction that switches deployments.  A chain of migration handlers,  *)
(* given by the schemas it can start from, is run (up, or down when it is  *)
(* undone) if it reaches "start"; having a chain that does not is an       *)
(* error; without one the documents are normalized under t as they are.    *)
(* Documents of an unchanged table are not looked at.                      *)

Fits(x, t) == x = t \/ <<x, t>> \in Accepts

MigrateDocs_Unchecked(s, t, start, chain) ==
    \/ s = t /\ UNCHANGED docs
    \/ /\ s # t
       /\ \/ start \in chain /\ docs' = {t : x \in docs}
          \/ chain = {} /\ UNCHANGED docs
MigrateDocs(s, t, start, chain) ==
    \/ s = t /\ UNCHANGED docs
    \/ /\ s # t
       /\ \/ start \in chain /\ \A x \in docs : Fits(x, s)
          \/ chain = {} /\ \A x \in docs : Fits(x, t)
       /\ docs' = {t : x \in docs}

-----------------------------------------------------------------------------
(* Activation.  The record is read before the transaction: one that is     *)
(* active already is answered as it stands.                                *)

ReadCandidate(r, d) ==
    /\ Begins(r, "activate", d)
    /\ d \in stored \ flagged
    /\ UNCHANGED <<dbvars, cron, up>>

Activate(r) ==
    LET d == req[r].id IN
    /\ req[r].pc = "activate"
    /\ d # current /\ d \in stored
    /\ IF current = None
       THEN (\A x \in docs : Fits(x, Schema[d])) /\ docs' = {Schema[d] : x \in docs}
       ELSE /\ current \in stored
            /\ MigrateDocs(Schema[current], Schema[d], Schema[current], Migrates[d])
    /\ flagged' = (flagged \ {current}) \cup {d}
    /\ current' = d /\ previous' = current
    /\ req' = [req EXCEPT ![r] = At("notify", d, d)]
    /\ UNCHANGED <<stored, older, job, cron, up>>

-----------------------------------------------------------------------------
(* Rollback.  The active flag, then the rollback target, are read before   *)
(* the transaction, which checks them again.                               *)

ReadActive(r, d) ==
    /\ Begins(r, "target", d)
    /\ d \in flagged
    /\ UNCHANGED <<dbvars, cron, up>>

ReadTarget(r) ==
    /\ req[r].pc = "target"
    /\ previous # None /\ previous \in stored
    /\ req' = [req EXCEPT ![r].pc = "rollback", ![r].other = previous]
    /\ UNCHANGED <<dbvars, cron, up>>

StillAsRead_Active(r) == current = req[r].id
StillAsRead(r) == current = req[r].id /\ previous = req[r].other

Rollback(r) ==
    LET d == req[r].id
        restored == req[r].other IN
    /\ req[r].pc = "rollback"
    /\ StillAsRead(r)
    /\ restored \in stored /\ d \in stored
    /\ MigrateDocs(Schema[d], Schema[restored], Schema[restored], Migrates[d])
    /\ flagged' = (flagged \ {d}) \cup {restored}
    /\ current' = restored /\ previous' = d
    /\ req' = [req EXCEPT ![r] = At("notify", d, restored)]
    /\ UNCHANGED <<stored, older, job, cron, up>>

(* CronManager.ActiveDeploymentChanged, called after the commit.           *)
Notify(r) ==
    /\ req[r].pc = "notify"
    /\ cron' = req[r].other
    /\ Ends(r)
    /\ UNCHANGED <<dbvars, up>>

-----------------------------------------------------------------------------
(* Calls and jobs run with the manifest of the deployment they resolved,   *)
(* whatever is active when their own transaction comes.                    *)

Resolve(r) ==
    /\ current \in stored
    /\ Begins(r, "run", current)
    /\ UNCHANGED <<dbvars, cron, up>>

StartJob(r, j) ==
    /\ job[j] \in stored
    /\ Begins(r, "run", job[j])
    /\ UNCHANGED <<dbvars, cron, up>>

(* A mutation writes and deletes documents; insert and patch normalize     *)
(* what they write under the schema of the resolved manifest.              *)
Run(r) ==
    /\ req[r].pc = "run"
    /\ \E gone \in SUBSET docs, new \in SUBSET {Schema[req[r].id]} :
          docs' = (docs \ gone) \cup new
    /\ Ends(r)
    /\ UNCHANGED <<stored, older, flagged, current, previous, job, cron, up>>

(* scheduleJob: resolve, insert the row and pin, in one transaction.       *)
NewJob(d, j) ==
    /\ d \in stored /\ job[j] = None
    /\ job' = [job EXCEPT ![j] = d]

ScheduleJob(r, j) ==
    /\ req[r].pc = "run"
    /\ NewJob(req[r].id, j)
    /\ UNCHANGED <<stored, older, flagged, current, previous, docs, cron, req, up>>

CronTick(j) ==
    /\ up
    /\ NewJob(cron, j)
    /\ UNCHANGED <<stored, older, flagged, current, previous, docs, cron, req, up>>

(* cleanupOld: a finished row is deleted and its deployment unpinned.      *)
CleanUpJob(j) ==
    /\ up /\ job[j] # None
    /\ job' = [job EXCEPT ![j] = None]
    /\ UNCHANGED <<stored, older, flagged, current, previous, docs, cron, req, up>>

-----------------------------------------------------------------------------
(* The process ends, between any two steps, and starts again.              *)
Crash ==
    /\ up /\ up' = FALSE
    /\ req' = [r \in Requests |-> Idle]
    /\ cron' = None
    /\ UNCHANGED dbvars

WarmActive ==
    /\ ~up /\ up' = TRUE
    /\ current \in stored \cup {None}
    /\ cron' = current
    /\ UNCHANGED <<dbvars, req>>

Next ==
    \/ \E r \in Requests, d \in Deployments :
          LookUp(r, d) \/ ReadCandidate(r, d) \/ ReadActive(r, d)
    \/ \E r \in Requests :
          \/ Create(r) \/ Trim(r) \/ Activate(r)
          \/ ReadTarget(r) \/ Rollback(r) \/ Notify(r)
          \/ Resolve(r) \/ Run(r) \/ GiveUp(r)
    \/ \E r \in Requests, j \in Jobs : StartJob(r, j) \/ ScheduleJob(r, j)
    \/ \E j \in Jobs : CronTick(j) \/ CleanUpJob(j)
    \/ Crash \/ WarmActive

Spec == Init /\ [][Next]_vars

-----------------------------------------------------------------------------
(* Properties.                                                             *)

(* Two records describe which deployment is active, the flag of the        *)
(* deployment and the state record.  Requests decide by the first and      *)
(* commit against the second, so they may never tell different stories.    *)
OneActive == flagged = {current} \ {None}

(* The trimming of history never takes the deployment that serves, nor the *)
(* one a rollback would restore, whatever switches while it is on its way. *)
RollbackTargetKept == {current, previous} \ {None} \subseteq stored

(* "A worker cannot be asked to invoke a missing snapshot" (scheduler,     *)
(* Service.Retry): the deployment of every job row exists, also when the   *)
(* deployment of the call or cron entry that schedules was trimmed.        *)
JobsResolve == \A j \in Jobs : job[j] # None => job[j] \in stored

(* To a client that looks at the active flags and at what a rollback would *)
(* restore, switches are single steps, of the kind Releases describes.     *)
Serving == IF flagged = {} THEN None ELSE CHOOSE d \in flagged : TRUE
Release == INSTANCE Releases WITH serving <- Serving, restore <- previous
SwitchesAtomically == Release!Spec

(* An uploaded deployment waits in history to be activated: a record that  *)
(* disappears leaves HistoryLimit newer ones that would have to wait just  *)
(* as it did.  What is active, the rollback target and what jobs refer to  *)
(* is kept besides, not instead.                                           *)
InHistory == {d \in stored \ (flagged \cup {current, previous}) : \A j \in Jobs : job[j] # d}
HistoryHolds ==
    [][\A d \in stored \ stored' :
          \E S \in SUBSET InHistory' :
             Cardinality(S) = HistoryLimit /\ \A e \in S : <<d, e>> \in older]_vars

(* Some document does not conform to the schema of the active deployment.  *)
Mixed == \E x \in docs : current = None \/ ~Fits(x, Schema[current])

(* The mutation of r is one of a deployment with another schema.           *)
StaleWrite(r) ==
    /\ req[r].pc = "run" /\ req'[r].pc = "idle"
    /\ Schema[req[r].id] # Schema[current]

(* Activations, rollbacks, failures of either and crashes leave documents  *)
(* and active deployment in agreement: only a writer that resolved another *)
(* deployment, before the switch or as a job pinned to it, can break it.   *)
OnlyStaleWritersMix ==
    [][~Mixed /\ Mixed' => \E r \in Requests : StaleWrite(r)]_vars

=============================================================================
