------------------------- MODULE DeploymentsProofs -------------------------
(***************************************************************************)
(* Proofs about the deployment service for any number of deployments,      *)
(* schemas, requests and jobs and every relation between schemas.          *)
(*                                                                         *)
(* The inductive invariant IInv holds the safety invariants together: that *)
(* a rollback restores something that exists (RollbackTargetKept) needs    *)
(* the trimming of history to spare it, which goes by the state record,    *)
(* and what the flags say follows the state record only because both are   *)
(* written in one step (OneActive).  NothingServed excludes calls and jobs *)
(* before the first activation.                                            *)
(***************************************************************************)
EXTENDS Deployments, FiniteSetTheorems, TLAPS

NothingServed ==
    current = None =>
      /\ \A r \in Requests : req[r].pc \notin {"run", "notify"}
      /\ \A j \in Jobs : job[j] = None
      /\ cron = None

IInv == TypeOK /\ OneActive /\ RollbackTargetKept /\ JobsResolve /\ NothingServed

----------------------------------------------------------------------------
(* Initially there is no deployment, request or job. *)
LEMMA InitInv == Init => IInv
<1> SUFFICES ASSUME Init PROVE IInv
  OBVIOUS
<1> USE DEF Init, Idle
<1>1. TypeOK
  BY DEF TypeOK, Steps
<1>2. OneActive /\ RollbackTargetKept /\ JobsResolve /\ NothingServed
  BY DEF OneActive, RollbackTargetKept, JobsResolve, NothingServed
<1>3. QED
  BY <1>1, <1>2 DEF IInv

----------------------------------------------------------------------------
(* A transaction of an activation or a rollback leaves documents of         *)
(* declared schemas, whichever branch of the planning it takes.            *)
LEMMA MigrateDocsType ==
  ASSUME docs \subseteq Schemas, NEW s, NEW t \in Schemas, NEW start, NEW chain,
         MigrateDocs(s, t, start, chain)
  PROVE  docs' \subseteq Schemas
BY DEF MigrateDocs

(* What trimming deletes is neither flagged, nor active, nor the rollback   *)
(* target, nor referred to by a job.                                       *)
LEMMA SurplusSpares ==
  /\ Surplus \cap (flagged \cup {current, previous}) = {}
  /\ \A j \in Jobs : job[j] \notin Surplus
BY DEF Surplus, Deletable

(* The switch of an activation: only "docs", and what it assigns, changes.  *)
LEMMA ActivateType ==
  ASSUME TypeOK, NEW r \in Requests, Activate(r)
  PROVE  TypeOK'
<1> DEFINE d == req[r].id
<1> USE DeploymentsAssumption
<1>1. d \in Deployments /\ d \in stored /\ Schema[d] \in Schemas
  BY DEF Activate, TypeOK
<1>2. docs' \subseteq Schemas
  <2>1. CASE current = None
    BY <2>1, <1>1 DEF Activate
  <2>2. CASE current # None
    BY <2>2, <1>1, MigrateDocsType DEF Activate, TypeOK
  <2>3. QED
    BY <2>1, <2>2
<1>3. At("notify", d, d) \in [pc : Steps, id : Deployments \cup {None},
                             other : Deployments \cup {None}]
  BY <1>1 DEF At, Steps
<1>4. QED
  BY <1>1, <1>2, <1>3 DEF Activate, TypeOK, At

LEMMA RollbackType ==
  ASSUME TypeOK, NEW r \in Requests, Rollback(r)
  PROVE  TypeOK'
<1> DEFINE d == req[r].id
<1> DEFINE restored == req[r].other
<1> USE DeploymentsAssumption
<1>1. /\ d \in Deployments /\ restored \in Deployments
      /\ restored \in stored /\ Schema[restored] \in Schemas
  BY DEF Rollback, TypeOK
<1>2. docs' \subseteq Schemas
  BY <1>1, MigrateDocsType DEF Rollback, TypeOK
<1>3. At("notify", d, restored) \in [pc : Steps, id : Deployments \cup {None},
                                    other : Deployments \cup {None}]
  BY <1>1 DEF At, Steps
<1>4. QED
  BY <1>1, <1>2, <1>3 DEF Rollback, TypeOK, At

(* A request that begins works on a deployment. *)
LEMMA BeginsType ==
  ASSUME TypeOK, NEW r \in Requests, NEW pc \in Steps, NEW d \in Deployments,
         Begins(r, pc, d), UNCHANGED <<dbvars, cron, up>>
  PROVE  TypeOK'
BY DEF Begins, TypeOK, At, dbvars

LEMMA EndsType ==
  ASSUME TypeOK, NEW r \in Requests, Ends(r)
  PROVE  /\ req' \in [Requests -> [pc : Steps, id : Deployments \cup {None},
                                   other : Deployments \cup {None}]]
         /\ \A q \in Requests : req'[q].pc # "idle" => req'[q].id \in Deployments
BY DEF Ends, Idle, TypeOK, Steps

LEMMA NextType == TypeOK /\ Next => TypeOK'
<1> SUFFICES ASSUME TypeOK, Next PROVE TypeOK'
  OBVIOUS
<1> USE DeploymentsAssumption
<1>1. ASSUME NEW r \in Requests, NEW d \in Deployments,
             LookUp(r, d) \/ ReadCandidate(r, d) \/ ReadActive(r, d)
      PROVE  TypeOK'
  <2>1. {"create", "activate", "target"} \subseteq Steps
    BY DEF Steps
  <2>2. QED
    BY <1>1, <2>1, BeginsType DEF LookUp, ReadCandidate, ReadActive
<1>2. ASSUME NEW r \in Requests, Create(r)
      PROVE  TypeOK'
  <2> DEFINE d == req[r].id
  <2>1. d \in Deployments
    BY <1>2 DEF Create, TypeOK
  <2>2. CASE d \in stored
    BY <1>2, <2>2, EndsType DEF Create, TypeOK
  <2>3. CASE d \notin stored
    BY <1>2, <2>1, <2>3 DEF Create, TypeOK, Steps
  <2>4. QED
    BY <2>2, <2>3
<1>3. ASSUME NEW r \in Requests, Trim(r)
      PROVE  TypeOK'
  <2>1. flagged \subseteq stored \ Surplus
    BY SurplusSpares DEF TypeOK
  <2>2. QED
    BY <1>3, <2>1, EndsType DEF Trim, TypeOK
<1>4. ASSUME NEW r \in Requests, ReadTarget(r)
      PROVE  TypeOK'
  <2> DEFINE Request == [pc : Steps, id : Deployments \cup {None},
                         other : Deployments \cup {None}]
  <2>1. req \in [Requests -> Request] /\ previous \in Deployments /\ "rollback" \in Steps
    BY <1>4 DEF ReadTarget, TypeOK, Steps
  <2>2. [req[r] EXCEPT !.pc = "rollback", !.other = previous] \in Request
    BY <2>1
  <2>3. /\ req' \in [Requests -> Request]
        /\ \A q \in Requests : req'[q].pc # "idle" => req'[q].id \in Deployments
    BY <1>4, <2>1, <2>2 DEF ReadTarget, TypeOK
  <2>4. QED
    BY <1>4, <2>3 DEF ReadTarget, TypeOK, dbvars
<1>5. ASSUME NEW r \in Requests, Notify(r)
      PROVE  TypeOK'
  BY <1>5, EndsType DEF Notify, TypeOK, dbvars
<1>6. ASSUME NEW r \in Requests, Resolve(r)
      PROVE  TypeOK'
  <2>1. current \in Deployments /\ "run" \in Steps
    BY <1>6 DEF Resolve, TypeOK, Steps
  <2>2. QED
    BY <1>6, <2>1, BeginsType DEF Resolve
<1>7. ASSUME NEW r \in Requests, Run(r)
      PROVE  TypeOK'
  <2>1. Schema[req[r].id] \in Schemas
    BY <1>7 DEF Run, TypeOK
  <2>2. docs' \subseteq Schemas
    BY <1>7, <2>1 DEF Run, TypeOK
  <2>3. QED
    BY <1>7, <2>2, EndsType DEF Run, TypeOK
<1>8. ASSUME NEW r \in Requests, GiveUp(r)
      PROVE  TypeOK'
  BY <1>8, EndsType DEF GiveUp, TypeOK, dbvars
<1>9. ASSUME NEW r \in Requests, NEW j \in Jobs, StartJob(r, j)
      PROVE  TypeOK'
  <2>1. job[j] \in Deployments /\ "run" \in Steps
    BY <1>9 DEF StartJob, TypeOK, Steps
  <2>2. QED
    BY <1>9, <2>1, BeginsType DEF StartJob
<1>10. ASSUME NEW r \in Requests, NEW j \in Jobs, ScheduleJob(r, j)
       PROVE  TypeOK'
  BY <1>10 DEF ScheduleJob, NewJob, TypeOK
<1>11. ASSUME NEW j \in Jobs, CronTick(j) \/ CleanUpJob(j)
       PROVE  TypeOK'
  BY <1>11 DEF CronTick, CleanUpJob, NewJob, TypeOK
<1>12. CASE Crash
  BY <1>12 DEF Crash, TypeOK, dbvars, Idle, Steps
<1>13. CASE WarmActive
  BY <1>13 DEF WarmActive, TypeOK, dbvars
<1>14. QED
  BY <1>1, <1>2, <1>3, <1>4, <1>5, <1>6, <1>7, <1>8, <1>9, <1>10, <1>11, <1>12,
     <1>13, ActivateType, RollbackType DEF Next
----------------------------------------------------------------------------
(* The safety invariants, together, are preserved by each action. *)

Safe == OneActive /\ RollbackTargetKept /\ JobsResolve /\ NothingServed

(* An activation and a rollback set one flag and clear the other one.       *)
LEMMA SwitchSafe ==
  ASSUME TypeOK, Safe, NEW r \in Requests, Activate(r) \/ Rollback(r)
  PROVE  Safe'
<1> USE DeploymentsAssumption
<1>1. CASE Activate(r)
  <2> DEFINE d == req[r].id
  <2>1. d \in Deployments /\ d \in stored /\ current' = d /\ previous' = current
        /\ stored' = stored /\ job' = job /\ flagged' = (flagged \ {current}) \cup {d}
    BY <1>1 DEF Activate, TypeOK
  <2>2. d # None
    BY <2>1
  <2>3. OneActive' /\ NothingServed'
    BY <2>1, <2>2 DEF OneActive, NothingServed, Safe
  <2>4. RollbackTargetKept' /\ JobsResolve'
    BY <2>1, <2>2 DEF RollbackTargetKept, JobsResolve, Safe
  <2>5. QED
    BY <2>3, <2>4 DEF Safe
<1>2. CASE Rollback(r)
  <2> DEFINE d == req[r].id
  <2> DEFINE restored == req[r].other
  <2>1. restored \in stored /\ d \in stored /\ current' = restored /\ previous' = d
        /\ current = d /\ stored' = stored /\ job' = job
        /\ flagged' = (flagged \ {d}) \cup {restored}
    BY <1>2 DEF Rollback, StillAsRead
  <2>2. restored # None /\ d # None
    BY <2>1 DEF TypeOK
  <2>3. OneActive' /\ NothingServed'
    BY <2>1, <2>2 DEF OneActive, NothingServed, Safe
  <2>4. RollbackTargetKept' /\ JobsResolve'
    BY <2>1, <2>2 DEF RollbackTargetKept, JobsResolve, Safe
  <2>5. QED
    BY <2>3, <2>4 DEF Safe
<1>3. QED
  BY <1>1, <1>2

LEMMA NextSafe == TypeOK /\ Safe /\ Next => Safe'
<1> SUFFICES ASSUME TypeOK, Safe, Next PROVE Safe'
  OBVIOUS
<1> USE DeploymentsAssumption DEF Safe, OneActive, RollbackTargetKept, JobsResolve,
        NothingServed
<1>1. ASSUME NEW r \in Requests, NEW d \in Deployments,
             LookUp(r, d) \/ ReadCandidate(r, d) \/ ReadActive(r, d)
      PROVE  Safe'
  BY <1>1 DEF LookUp, ReadCandidate, ReadActive, Begins, At, dbvars, TypeOK
<1>2. ASSUME NEW r \in Requests, Create(r)
      PROVE  Safe'
  BY <1>2 DEF Create, Ends, Idle, TypeOK
<1>3. ASSUME NEW r \in Requests, Trim(r)
      PROVE  Safe'
  <2>1. /\ stored' = stored \ Surplus
        /\ UNCHANGED <<flagged, current, previous, job, cron>>
    BY <1>3 DEF Trim
  <2>2. OneActive' /\ RollbackTargetKept' /\ JobsResolve'
    BY <2>1, SurplusSpares
  <2>3. NothingServed'
    BY <1>3, <2>1 DEF Trim, Ends, Idle, TypeOK
  <2>4. QED
    BY <2>2, <2>3
<1>4. ASSUME NEW r \in Requests, ReadTarget(r)
      PROVE  Safe'
  BY <1>4 DEF ReadTarget, dbvars, TypeOK
<1>5. ASSUME NEW r \in Requests, Notify(r)
      PROVE  Safe'
  BY <1>5 DEF Notify, Ends, Idle, dbvars, TypeOK
<1>6. ASSUME NEW r \in Requests, Resolve(r)
      PROVE  Safe'
  BY <1>6 DEF Resolve, Begins, At, dbvars, TypeOK
<1>7. ASSUME NEW r \in Requests, Run(r)
      PROVE  Safe'
  BY <1>7 DEF Run, Ends, Idle, TypeOK
<1>8. ASSUME NEW r \in Requests, GiveUp(r)
      PROVE  Safe'
  BY <1>8 DEF GiveUp, Ends, Idle, dbvars, TypeOK
<1>9. ASSUME NEW r \in Requests, NEW j \in Jobs, StartJob(r, j)
      PROVE  Safe'
  BY <1>9 DEF StartJob, Begins, At, dbvars, TypeOK
<1>10. ASSUME NEW r \in Requests, NEW j \in Jobs, ScheduleJob(r, j)
       PROVE  Safe'
  BY <1>10 DEF ScheduleJob, NewJob, TypeOK
<1>11. ASSUME NEW j \in Jobs, CronTick(j) \/ CleanUpJob(j)
       PROVE  Safe'
  BY <1>11 DEF CronTick, CleanUpJob, NewJob, TypeOK
<1>12. CASE Crash
  BY <1>12 DEF Crash, Idle, dbvars
<1>13. CASE WarmActive
  BY <1>13 DEF WarmActive, dbvars
<1>14. QED
  BY <1>1, <1>2, <1>3, <1>4, <1>5, <1>6, <1>7, <1>8, <1>9, <1>10, <1>11, <1>12,
     <1>13, SwitchSafe DEF Next

LEMMA Stutters == IInv /\ UNCHANGED vars => IInv'
BY DEF IInv, TypeOK, OneActive, RollbackTargetKept, JobsResolve, NothingServed, vars

(* The inductive invariant holds in every reachable state. *)
THEOREM Invariance == Spec => []IInv
<1>1. IInv /\ [Next]_vars => IInv'
  BY NextType, NextSafe, Stutters DEF IInv, Safe
<1>2. QED
  BY <1>1, InitInv, PTL DEF Spec

(* Every variable of the deployment service keeps its type. *)
THEOREM TypeCorrect == Spec => []TypeOK
BY Invariance, PTL DEF IInv

(* The active flags and the state record always name the same deployment,   *)
(* whatever requests, crashes and failures come between (service.go).      *)
THEOREM OneActiveTheorem == Spec => []OneActive
BY Invariance, PTL DEF IInv

(* No trimming ever removes the active deployment or the rollback target.   *)
THEOREM RollbackTargetTheorem == Spec => []RollbackTargetKept
BY Invariance, PTL DEF IInv

(* The deployment of every job row exists. *)
THEOREM JobsResolveTheorem == Spec => []JobsResolve
BY Invariance, PTL DEF IInv

----------------------------------------------------------------------------
(* The deployment service implements Releases. *)

LEMMA ChooseOnly ==
  ASSUME NEW x
  PROVE  (CHOOSE y \in {x} : TRUE) = x
OBVIOUS

(* What a client sees as active is what the state record names. *)
LEMMA ServingIsCurrent ==
  ASSUME OneActive
  PROVE  Serving = current
<1>1. CASE current = None
  BY <1>1 DEF OneActive, Serving
<1>2. CASE current # None
  <2>1. flagged = {current}
    BY <1>2 DEF OneActive
  <2>2. QED
    BY <2>1, ChooseOnly DEF Serving
<1>3. QED
  BY <1>1, <1>2

(* Every step but a switch leaves the flags and the state record alone.    *)
LEMMA OtherSteps ==
  ASSUME Next, \A r \in Requests : ~Activate(r) /\ ~Rollback(r)
  PROVE  UNCHANGED <<flagged, current, previous>>
BY DEF Next, LookUp, ReadCandidate, ReadActive, Create, Trim, ReadTarget, Notify,
       Resolve, Run, GiveUp, StartJob, ScheduleJob, CronTick, CleanUpJob, Crash,
       WarmActive, dbvars

LEMMA StepImplements ==
  ASSUME IInv, IInv', Next
  PROVE  [Release!Next]_<<Serving, previous>>
<1> USE DeploymentsAssumption
<1>1. Serving = current
  BY ServingIsCurrent DEF IInv
<1>2. Serving' = current'
  <2>1. CASE current' = None
    BY <2>1 DEF IInv, OneActive, Serving
  <2>2. CASE current' # None
    <3>1. flagged' = {current'}
      BY <2>2 DEF IInv, OneActive
    <3>2. QED
      BY <3>1, ChooseOnly DEF Serving
  <2>3. QED
    BY <2>1, <2>2
<1>3. ASSUME NEW r \in Requests, Activate(r)
      PROVE  Release!Next
  <2>1. /\ req[r].id \in Deployments /\ req[r].id # current
        /\ current' = req[r].id /\ previous' = current
    BY <1>3 DEF Activate, IInv, TypeOK
  <2>2. Release!Activate(req[r].id)
    BY <1>1, <1>2, <2>1 DEF Release!Activate
  <2>3. QED
    BY <2>1, <2>2 DEF Release!Next
<1>4. ASSUME NEW r \in Requests, Rollback(r)
      PROVE  Release!Next
  <2>1. /\ previous # None
        /\ current' = previous /\ previous' = current
    BY <1>4 DEF Rollback, StillAsRead, IInv, TypeOK
  <2>2. Release!Rollback
    BY <1>1, <1>2, <2>1 DEF Release!Rollback
  <2>3. QED
    BY <2>2 DEF Release!Next
<1>5. CASE \A r \in Requests : ~Activate(r) /\ ~Rollback(r)
  BY <1>1, <1>2, <1>5, OtherSteps
<1>6. QED
  BY <1>3, <1>4, <1>5

(* To a client that looks at the flags and at what a rollback restores, the *)
(* service switches in single steps: the refinement that TLC checks on the *)
(* small instance.                                                         *)
THEOREM Refinement == Spec => SwitchesAtomically
<1>1. Init => Release!Init
  BY DEF Init, Release!Init, Serving
<1>2. IInv /\ IInv' /\ [Next]_vars => [Release!Next]_<<Serving, previous>>
  <2>1. UNCHANGED vars => UNCHANGED <<Serving, previous>>
    BY DEF vars, Serving
  <2>2. QED
    BY <2>1, StepImplements
<1>3. QED
  BY <1>1, <1>2, Invariance, PTL DEF Spec, SwitchesAtomically, Release!Spec, Release!rvars

----------------------------------------------------------------------------
(* Documents and the active schema. *)

LEMMA MigratedFits ==
  ASSUME NEW s, NEW t, NEW start, NEW chain, MigrateDocs(s, t, start, chain),
         \A x \in docs : Fits(x, s)
  PROVE  \A x \in docs' : Fits(x, t)
BY DEF MigrateDocs, Fits

(* A switch, whatever it migrates, leaves no document that does not fit.    *)
LEMMA SwitchFits ==
  ASSUME IInv, ~Mixed, NEW r \in Requests, Activate(r) \/ Rollback(r)
  PROVE  ~Mixed'
<1> USE DeploymentsAssumption
<1>1. CASE Activate(r)
  <2> DEFINE d == req[r].id
  <2>1. d \in Deployments /\ current' = d /\ d # None
    BY <1>1 DEF Activate, IInv, TypeOK
  <2>2. CASE current = None
    <3>1. docs' = {Schema[d] : x \in docs}
      BY <1>1, <2>2 DEF Activate
    <3>2. QED
      BY <2>1, <3>1 DEF Mixed, Fits
  <2>3. CASE current # None
    <3>1. MigrateDocs(Schema[current], Schema[d], Schema[current], Migrates[d])
      BY <1>1, <2>3 DEF Activate
    <3>2. \A x \in docs : Fits(x, Schema[current])
      BY DEF Mixed
    <3>3. \A x \in docs' : Fits(x, Schema[d])
      BY <3>1, <3>2, MigratedFits
    <3>4. QED
      BY <2>1, <3>3 DEF Mixed, Fits
  <2>4. QED
    BY <2>2, <2>3
<1>2. CASE Rollback(r)
  <2> DEFINE restored == req[r].other
  <2>1. /\ current = req[r].id /\ current' = restored /\ restored # None
        /\ MigrateDocs(Schema[current], Schema[restored], Schema[restored],
                       Migrates[req[r].id])
    BY <1>2 DEF Rollback, StillAsRead, IInv, TypeOK
  <2>2. \A x \in docs : Fits(x, Schema[current])
    BY DEF Mixed
  <2>3. \A x \in docs' : Fits(x, Schema[restored])
    BY <2>1, <2>2, MigratedFits
  <2>4. QED
    BY <2>1, <2>3 DEF Mixed, Fits
<1>3. QED
  BY <1>1, <1>2

(* A call or job that runs adds documents of its own schema only.           *)
LEMMA RunMixes ==
  ASSUME IInv, ~Mixed, NEW r \in Requests, Run(r), Mixed'
  PROVE  StaleWrite(r)
<1>1. req[r].pc = "run" /\ req'[r].pc = "idle" /\ current' = current
  BY DEF Run, Ends, Idle, IInv, TypeOK
<1>2. current # None
  BY <1>1 DEF IInv, NothingServed
<1>3. PICK x \in docs' : ~Fits(x, Schema[current])
  BY <1>1, <1>2 DEF Mixed, Fits
<1>4. x \notin docs
  BY <1>3 DEF Mixed
<1>5. x = Schema[req[r].id]
  BY <1>4 DEF Run
<1>6. QED
  BY <1>1, <1>3, <1>5 DEF StaleWrite, Fits

(* Every other step leaves the documents and the active deployment alone.   *)
LEMMA QuietSteps ==
  ASSUME Next, \A r \in Requests : ~Activate(r) /\ ~Rollback(r) /\ ~Run(r)
  PROVE  UNCHANGED <<docs, current>>
BY DEF Next, LookUp, ReadCandidate, ReadActive, Create, Trim, ReadTarget, Notify,
       Resolve, GiveUp, StartJob, ScheduleJob, CronTick, CleanUpJob, Crash,
       WarmActive, dbvars

(* No activation, rollback, failure or crash makes a document disagree with *)
(* the active schema: only a mutation that runs under another deployment.   *)
THEOREM StaleWriterTheorem == Spec => OnlyStaleWritersMix
<1>1. IInv /\ [Next]_vars =>
        [~Mixed /\ Mixed' => \E r \in Requests : StaleWrite(r)]_vars
  <2> SUFFICES ASSUME IInv, Next, ~Mixed, Mixed'
               PROVE  \E r \in Requests : StaleWrite(r)
    OBVIOUS
  <2>1. \A r \in Requests : ~Activate(r) /\ ~Rollback(r)
    BY SwitchFits
  <2>2. PICK r \in Requests : Run(r)
    BY <2>1, QuietSteps DEF Mixed
  <2>3. QED
    BY <2>2, RunMixes
<1>2. QED
  BY <1>1, Invariance, PTL DEF Spec, OnlyStaleWritersMix
----------------------------------------------------------------------------
(* Records are finitely many and their creation is a strict order.         *)
Chronological ==
    /\ IsFiniteSet(stored)
    /\ \A d \in stored : <<d, d>> \notin older
    /\ \A a, b, c \in stored : <<a, b>> \in older /\ <<b, c>> \in older => <<a, c>> \in older

LEMMA ChronologicalStep == TypeOK /\ Chronological /\ [Next]_vars => Chronological'
<1> SUFFICES ASSUME TypeOK, Chronological, [Next]_vars PROVE Chronological'
  OBVIOUS
<1>1. CASE UNCHANGED <<stored, older>>
  BY <1>1 DEF Chronological
<1>2. ASSUME NEW r \in Requests, Create(r), req[r].id \notin stored
      PROVE  Chronological'
  <2> DEFINE d == req[r].id
  <2>1. stored' = stored \cup {d} /\ older' = older \cup (stored \X {d})
    BY <1>2 DEF Create
  <2>2. IsFiniteSet(stored')
    BY <2>1, FS_AddElement DEF Chronological
  <2>3. \A e \in stored' : <<e, e>> \notin older'
    BY <1>2, <2>1 DEF Chronological, TypeOK
  <2>4. \A a, b, c \in stored' : <<a, b>> \in older' /\ <<b, c>> \in older' => <<a, c>> \in older'
    BY <1>2, <2>1 DEF Chronological, TypeOK
  <2>5. QED
    BY <2>2, <2>3, <2>4 DEF Chronological
<1>3. ASSUME NEW r \in Requests, Trim(r)
      PROVE  Chronological'
  <2>1. stored' \subseteq stored /\ older' = older \cap (stored' \X stored')
    BY <1>3 DEF Trim
  <2>2. IsFiniteSet(stored')
    BY <2>1, FS_Subset DEF Chronological
  <2>3. QED
    BY <2>1, <2>2 DEF Chronological
<1>4. CASE \A r \in Requests : ~Trim(r) /\ ~(Create(r) /\ req[r].id \notin stored)
  <2>1. UNCHANGED <<stored, older>>
    BY <1>4 DEF Next, LookUp, ReadCandidate, ReadActive, Create, Activate, ReadTarget,
       Rollback, Notify, Resolve, Run, GiveUp, StartJob, ScheduleJob, CronTick, CleanUpJob,
       Crash, WarmActive, dbvars, vars
  <2>2. QED
    BY <1>1, <2>1
<1>5. QED
  BY <1>2, <1>3, <1>4

(* A finite set has subsets of every smaller size.                         *)
LEMMA SomeOf ==
  ASSUME NEW T, IsFiniteSet(T), NEW n \in Nat, n <= Cardinality(T)
  PROVE  \E S \in SUBSET T : Cardinality(S) = n
<1>1. Cardinality(T) \in Nat
  BY FS_CardinalityType
<1>2. PICK f : f \in Bijection(1 .. Cardinality(T), T)
  BY FS_CardinalityType DEF ExistsBijection
<1> DEFINE S == {f[i] : i \in 1 .. n}
           g == [i \in 1 .. n |-> f[i]]
<1>3. /\ f \in [1 .. Cardinality(T) -> T]
      /\ \A i, k \in 1 .. Cardinality(T) : f[i] = f[k] => i = k
  BY <1>2 DEF Bijection, Injection, IsInjective
<1>4. 1 .. n \subseteq 1 .. Cardinality(T)
  BY <1>1
<1>5. S \subseteq T
  BY <1>3, <1>4
<1>6. g \in Bijection(1 .. n, S)
  <2>1. g \in [1 .. n -> S] /\ \A t \in S : \E i \in 1 .. n : g[i] = t
    OBVIOUS
  <2>2. \A i, k \in 1 .. n : g[i] = g[k] => i = k
    BY <1>3, <1>4
  <2>3. QED
    BY <2>1, <2>2 DEF Bijection, Injection, Surjection, IsInjective
<1>7. IsFiniteSet(1 .. n) /\ Cardinality(1 .. n) = n
  BY FS_Interval
<1>8. Cardinality(S) = n
  BY <1>6, <1>7, FS_Bijection DEF ExistsBijection
<1>9. QED
  BY <1>5, <1>8

(* The deletable deployments created after d.                              *)
Newer(d) == {e \in Deletable : <<d, e>> \in older}

(* Behind a surplus deployment stand HistoryLimit that are not: those newer *)
(* than the newest surplus one.                                            *)
LEMMA KeptBehind ==
  ASSUME TypeOK, Chronological, NEW d \in Surplus
  PROVE  \E S \in SUBSET (Newer(d) \ Surplus) : Cardinality(S) = HistoryLimit
<1>1. Deletable \subseteq stored /\ Surplus \subseteq Deletable
  BY DEF Deletable, Surplus
<1>2. IsFiniteSet(Deletable)
  BY <1>1, FS_Subset DEF Chronological
<1> DEFINE Later == {e \in Surplus : e = d \/ e \in Newer(d)}
           Behind == {Newer(e) : e \in Later}
<1>3. \A e \in Later : Newer(e) \subseteq Newer(d)
  BY <1>1 DEF Newer, Chronological
<1>4. PICK e \in Later : \A f \in Later : ~(Newer(f) \subseteq Newer(e) /\ Newer(f) # Newer(e))
  <2>1. Behind \subseteq FiniteSubsetsOf(Deletable)
    BY <1>2, FS_Subset DEF Newer, FiniteSubsetsOf
  <2>2. Behind # {}
    OBVIOUS
  <2>3. PICK N \in Behind : \A M \in Behind : ~(<<M, N>> \in StrictSubsetOrdering(Deletable))
    BY <2>1, <2>2, WFMin, FS_StrictSubsetOrderingWellFounded
  <2>4. \A M, L \in Behind : M \subseteq L /\ M # L
                         => <<M, L>> \in StrictSubsetOrdering(Deletable)
    BY DEF StrictSubsetOrdering, Newer
  <2>5. PICK e \in Later : N = Newer(e)
    OBVIOUS
  <2>6. \A f \in Later : Newer(f) \in Behind
    OBVIOUS
  <2> HIDE DEF Behind, Later
  <2>7. QED
    BY <2>3, <2>4, <2>5, <2>6
<1>5. Newer(e) \cap Surplus = {}
  <2>1. ASSUME NEW f \in Newer(e), f \in Surplus
        PROVE  FALSE
    <3>1. f \in Later
      BY <1>3, <2>1
    <3>2. f \in stored /\ e \in stored /\ <<e, f>> \in older
      BY <1>1 DEF Newer
    <3>3. Newer(f) \subseteq Newer(e)
      BY <1>1, <3>2 DEF Newer, Chronological
    <3>4. f \notin Newer(f)
      BY <3>2 DEF Newer, Chronological
    <3>5. QED
      BY <1>4, <3>1, <3>3, <3>4
  <2>2. QED
    BY <2>1
<1>6. IsFiniteSet(Newer(e)) /\ HistoryLimit <= Cardinality(Newer(e)) /\ HistoryLimit \in Nat
  <2>1. Cardinality(Newer(e)) >= HistoryLimit
    BY DEF Surplus, Newer
  <2>2. IsFiniteSet(Newer(e))
    BY <1>2, FS_Subset DEF Newer
  <2>3. QED
    BY <2>1, <2>2, FS_CardinalityType, DeploymentsAssumption
<1>7. PICK S \in SUBSET Newer(e) : Cardinality(S) = HistoryLimit
  BY <1>6, SomeOf
<1>8. QED
  BY <1>3, <1>5, <1>7

(* A record that disappears leaves HistoryLimit newer ones that nothing     *)
(* refers to either, whatever uploads, switches and jobs come between the   *)
(* upload and its trimming ("retain a configurable history", trimHistory). *)
THEOREM HistoryTheorem == Spec => HistoryHolds
<1> DEFINE Waits == \A d \in stored \ stored' :
                      \E S \in SUBSET InHistory' :
                         Cardinality(S) = HistoryLimit /\ \A e \in S : <<d, e>> \in older
<1>1. Init => Chronological
  BY FS_EmptySet DEF Init, Chronological
<1>2. IInv /\ Chronological /\ [Next]_vars => [Waits]_vars
  <2> SUFFICES ASSUME IInv, Chronological, Next PROVE Waits
    OBVIOUS
  <2>1. CASE \E r \in Requests : Trim(r)
    <3> SUFFICES ASSUME NEW d \in stored \ stored'
                 PROVE  \E S \in SUBSET InHistory' :
                           Cardinality(S) = HistoryLimit /\ \A e \in S : <<d, e>> \in older
      OBVIOUS
    <3>1. stored' = stored \ Surplus /\ UNCHANGED <<flagged, current, previous, job>>
      BY <2>1 DEF Trim
    <3>2. PICK S \in SUBSET (Newer(d) \ Surplus) : Cardinality(S) = HistoryLimit
      BY <3>1, KeptBehind DEF IInv
    <3>3. Newer(d) \ Surplus \subseteq InHistory'
      BY <3>1 DEF Newer, Deletable, InHistory
    <3>4. \A e \in S : <<d, e>> \in older
      BY DEF Newer
    <3>5. QED
      BY <3>2, <3>3, <3>4
  <2>2. CASE \A r \in Requests : ~Trim(r)
    <3>1. stored \subseteq stored'
      BY <2>2 DEF Next, LookUp, ReadCandidate, ReadActive, Create, Activate, ReadTarget,
         Rollback, Notify, Resolve, Run, GiveUp, StartJob, ScheduleJob, CronTick, CleanUpJob,
         Crash, WarmActive, dbvars
    <3>2. QED
      BY <3>1
  <2>3. QED
    BY <2>1, <2>2
<1>3. IInv /\ Chronological /\ [Next]_vars => Chronological'
  BY ChronologicalStep DEF IInv
<1>4. QED
  BY <1>1, <1>2, <1>3, Invariance, PTL DEF Spec, HistoryHolds
=============================================================================
