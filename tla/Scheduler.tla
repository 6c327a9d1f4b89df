----------------------------- MODULE Scheduler -----------------------------
(***************************************************************************)
(* The durable job scheduler of backend/internal/scheduler: job rows in    *)
(* the database, and one worker per running server process that polls,     *)
(* claims rows by compare-and-swap, runs an attempt per claim under a      *)
(* renewable lease, and settles the row; together with the service calls   *)
(* that schedule, cancel, retry and clean up jobs.                         *)
(*                                                                         *)
(* Time is relative, so that behaviours of any length stay finite-state: a *)
(* row stores how long its lease still lives ("left") and how long until   *)
(* it is due ("due"), a poll stores how long ago it read the clock         *)
(* ("age"), and Tick moves all of them by one unit.  Values in the past    *)
(* saturate at -MaxAge.  A lease token (a uuid in the code) is taken from  *)
(* a pool, and is fresh when no row, attempt, poll or call holds it.       *)
(* Operators named X_Y are X with one fault put in; they only serve to     *)
(* show that a property can fail.                                          *)
(***************************************************************************)
EXTENDS Integers, FiniteSets

CONSTANTS
    Jobs,            \* job ids (an id is reused only when nothing refers to it)
    Workers,         \* server processes, each with one Service and one Worker
    Leases,          \* lease tokens
    Callers,         \* concurrent calls of Service.Cancel
    Deployments,     \* deployment snapshots
    None,            \* "no lease", "no job", "no deployment"
    MaxConcurrency,  \* Config.MaxConcurrency
    ClaimBatch,      \* Config.ClaimBatch
    LeaseDuration,   \* Config.LeaseDuration
    RenewInterval,   \* Config.RenewInterval after NewService; 0 is "no heartbeat"
    MaxAttempts,     \* Config.MaxAttempts
    ScheduleDelays,  \* delays RunAfter / RunAt are called with
    RetryDelays,     \* delays retryBackoff may return
    DeferDelay,      \* delay of deferAdmission
    CancelReads,     \* maxRetries + 1 of Service.Cancel
    MaxAge,          \* bound: how long a polled batch waits for capacity
    MaxFaults,       \* bound: crashes, stops, database errors and deferrals
    Punctual         \* TRUE: heartbeats and polls are never late

ASSUME SchedulerAssumption ==
    /\ None \notin Jobs \cup Workers \cup Leases \cup Deployments
    /\ MaxConcurrency \in Nat \ {0} /\ ClaimBatch \in Nat \ {0}
    /\ LeaseDuration \in Nat \ {0}
    /\ RenewInterval \in 0 .. LeaseDuration - 1
    /\ MaxAttempts \in Nat \ {0} /\ CancelReads \in Nat \ {0}
    /\ MaxAge \in Nat \ {0} /\ MaxFaults \in Nat
    /\ ScheduleDelays \subseteq Nat
    /\ RetryDelays \subseteq Nat \ {0} /\ RetryDelays # {}
    /\ DeferDelay \in Nat
    /\ Punctual \in BOOLEAN

(* Attempt counters are compared with MaxAttempts only, and saturate above. *)
AttemptCap == MaxAttempts + 1

VARIABLES
    row,     \* the scheduled-jobs collection, one row per job id
    store,   \* deployment snapshots that exist
    pins,    \* deployment.pinCount
    up,      \* process state: "up", "stopping" (Worker.Stop waits) or "down"
    sem,     \* len(Worker.sem): execution slots taken
    poll,    \* the polling goroutine of each worker
    att,     \* the runJob goroutine that holds a lease token
    op,      \* calls of Service.Cancel in progress
    faults   \* faults that happened so far

vars == <<row, store, pins, up, sem, poll, att, op, faults>>

Terminal == {"completed", "failed", "canceled"}
Live     == {"pending", "running"}
Outcomes == {"complete", "fail", "retry", "defer", "canceled"}

NoRow == [status |-> "absent", lease |-> None, left |-> 0, due |-> 0,
          attempts |-> 0, dep |-> None]
NoView == [status |-> "absent", lease |-> None, due |-> 0, attempts |-> 0]
IdlePoll == [pc |-> "idle", age |-> 0, todo |-> {},
             view |-> [j \in Jobs |-> NoView]]
NoAttempt == [pc |-> "none", job |-> None, worker |-> None, ctx |-> "live",
              beat |-> 0, attempts |-> 0]
NoCall == [pc |-> "idle", job |-> None, svc |-> None, status |-> "absent",
           lease |-> None, reads |-> 0]

Rows == [status : Live \cup Terminal \cup {"absent"}, lease : Leases \cup {None},
         left : -MaxAge .. LeaseDuration, due : Int, attempts : 0 .. AttemptCap,
         dep : Deployments \cup {None}]
Views == [status : Live \cup {"absent"}, lease : Leases \cup {None},
          due : Int, attempts : 0 .. AttemptCap]
Polls == [pc : {"idle", "batch", "slot"}, age : 0 .. MaxAge,
          todo : SUBSET Jobs, view : [Jobs -> Views]]
Attempts == [pc : {"none", "claimed", "registered", "running"},
             job : Jobs \cup {None}, worker : Workers \cup {None},
             ctx : {"live", "cancelled"}, beat : 0 .. LeaseDuration,
             attempts : 0 .. AttemptCap]
Calls == [pc : {"idle", "read", "update", "signal", "done"},
          job : Jobs \cup {None}, svc : Workers \cup {None},
          status : Live \cup {"absent"}, lease : Leases \cup {None},
          reads : 0 .. CancelReads]

(* Every variable holds a value of its kind. *)
TypeOK ==
    /\ row \in [Jobs -> Rows]
    /\ store \subseteq Deployments
    /\ pins \in [Deployments -> Int]
    /\ up \in [Workers -> {"up", "stopping", "down"}]
    /\ sem \in [Workers -> Int]
    /\ poll \in [Workers -> Polls]
    /\ att \in [Leases -> Attempts]
    /\ op \in [Callers -> Calls]
    /\ faults \in 0 .. MaxFaults

Init ==
    /\ row = [j \in Jobs |-> NoRow]
    /\ store = Deployments
    /\ pins = [d \in Deployments |-> 0]
    /\ up = [w \in Workers |-> "up"]
    /\ sem = [w \in Workers |-> 0]
    /\ poll = [w \in Workers |-> IdlePoll]
    /\ att = [l \in Leases |-> NoAttempt]
    /\ op = [c \in Callers |-> NoCall]
    /\ faults = 0

----------------------------------------------------------------------------
(* Helpers *)

AtLeast(a, b) == IF a < b THEN b ELSE a
AtMost(a, b)  == IF a > b THEN b ELSE a
Older(t)      == AtLeast(t - 1, -MaxAge)

Fault == faults < MaxFaults /\ faults' = faults + 1

(* The WHERE clause of renew and of every settlement: id, status = running  *)
(* and lease = the attempt's own token.                                     *)
Owns_AnyLease(l) == row[att[l].job].status = "running"
Owns(l) ==
    /\ row[att[l].job].status = "running"
    /\ row[att[l].job].lease = l

(* The handler of token l runs and has not been told to stop. *)
LiveAttempt(l) == att[l].pc = "running" /\ att[l].ctx = "live"

Fresh(l) ==
    /\ att[l].pc = "none"
    /\ \A j \in Jobs : row[j].lease # l
    /\ \A w \in Workers, j \in Jobs : poll[w].view[j].lease # l
    /\ \A c \in Callers : op[c].lease # l

FreshJob(j) ==
    /\ row[j].status = "absent"
    /\ \A l \in Leases : att[l].job # j
    /\ \A w \in Workers : j \notin poll[w].todo
    /\ \A c \in Callers : op[c].job # j

PendingRow(r, delay, n) ==
    [r EXCEPT !.status = "pending", !.lease = None, !.left = 0,
              !.due = delay, !.attempts = n]
EndedRow(r, status) ==
    [r EXCEPT !.status = status, !.lease = None, !.left = 0, !.due = 0]

----------------------------------------------------------------------------
(* Service.RunAfter and Service.RunAt: in one transaction, resolve the      *)
(* snapshot, pin it and insert a pending row.                               *)
Schedule(j, d, delay) ==
    /\ FreshJob(j)
    /\ d \in store
    /\ row' = [row EXCEPT ![j] = PendingRow([NoRow EXCEPT !.dep = d], delay, 0)]
    /\ pins' = [pins EXCEPT ![d] = @ + 1]
    /\ UNCHANGED <<store, up, sem, poll, att, op, faults>>

(* Service.Retry: in one transaction, resolve the pinned snapshot and put a *)
(* terminal row back to pending, due now, its attempts forgotten.           *)
Retry_AnyStatus(j) ==
    /\ row[j].dep \in store
    /\ row' = [row EXCEPT ![j] = PendingRow(row[j], 0, 0)]
    /\ UNCHANGED <<store, pins, up, sem, poll, att, op, faults>>
Retry(j) ==
    /\ row[j].status \in Terminal
    /\ row[j].dep \in store
    /\ row' = [row EXCEPT ![j] = PendingRow(row[j], 0, 0)]
    /\ UNCHANGED <<store, pins, up, sem, poll, att, op, faults>>

(* Service.cleanupOld: delete a terminal row and unpin its snapshot, in one *)
(* transaction.  The retention time is abstracted: any terminal row may     *)
(* have finished long enough ago.  A row whose snapshot is gone is deleted  *)
(* without unpinning; one whose pin count is already zero is kept.          *)
Unpin(d) ==
    IF d \in store THEN pins[d] > 0 /\ pins' = [pins EXCEPT ![d] = @ - 1]
    ELSE UNCHANGED pins

Cleanup(j) ==
    /\ row[j].status \in Terminal
    /\ Unpin(row[j].dep)
    /\ row' = [row EXCEPT ![j] = NoRow]
    /\ UNCHANGED <<store, up, sem, poll, att, op, faults>>

(* deploy: trimHistory deletes an inactive snapshot that is not pinned and  *)
(* that no job row names; Publish uploads it again.                         *)
Trim_LiveJobsOnly(d) ==
    /\ d \in store
    /\ \A j \in Jobs : row[j].dep = d => row[j].status \notin Live
    /\ store' = store \ {d}
    /\ UNCHANGED <<row, pins, up, sem, poll, att, op, faults>>
Trim(d) ==
    /\ d \in store
    /\ pins[d] = 0
    /\ \A j \in Jobs : row[j].dep # d
    /\ store' = store \ {d}
    /\ UNCHANGED <<row, pins, up, sem, poll, att, op, faults>>

Publish(d) ==
    /\ d \notin store
    /\ store' = store \cup {d}
    /\ pins' = [pins EXCEPT ![d] = 0]
    /\ UNCHANGED <<row, up, sem, poll, att, op, faults>>

----------------------------------------------------------------------------
(* The polling goroutine: Worker.claim. *)

Due_PendingOnly(j) == row[j].status = "pending" /\ row[j].due <= 0
Due(j) ==
    \/ row[j].status = "pending" /\ row[j].due <= 0
    \/ row[j].status = "running" /\ row[j].left <= 0

ViewOf(j) == [status |-> row[j].status, lease |-> row[j].lease,
              due |-> row[j].due, attempts |-> row[j].attempts]

(* Read the clock and the claimable rows, the ClaimBatch earliest ones.     *)
Poll(w) ==
    /\ up[w] = "up"
    /\ poll[w].pc = "idle"
    /\ \E batch \in SUBSET {j \in Jobs : Due(j)} :
         /\ batch # {}
         /\ \/ Cardinality(batch) = ClaimBatch
            \/ /\ Cardinality(batch) < ClaimBatch
               /\ batch = {j \in Jobs : Due(j)}
         /\ \A j \in batch, i \in {i \in Jobs : Due(i)} \ batch :
              row[j].due <= row[i].due
         /\ poll' = [poll EXCEPT ![w] =
                       [pc |-> "batch", age |-> 0, todo |-> batch,
                        view |-> [j \in Jobs |-> IF j \in batch THEN ViewOf(j)
                                                 ELSE NoView]]]
    /\ UNCHANGED <<row, store, pins, up, sem, att, op, faults>>

(* The select on w.sem and w.ctx.Done(); when both are ready either wins.   *)
AcquireSlot(w) ==
    /\ poll[w].pc = "batch"
    /\ sem[w] < MaxConcurrency
    /\ sem' = [sem EXCEPT ![w] = @ + 1]
    /\ poll' = [poll EXCEPT ![w].pc = "slot"]
    /\ UNCHANGED <<row, store, pins, up, att, op, faults>>

AbandonBatch(w) ==
    /\ poll[w].pc = "batch"
    /\ up[w] = "stopping"
    /\ poll' = [poll EXCEPT ![w] = IdlePoll]
    /\ UNCHANGED <<row, store, pins, up, sem, att, op, faults>>

NextInBatch(w, j) ==
    /\ poll[w].pc = "slot"
    /\ j \in poll[w].todo
    /\ \A i \in poll[w].todo : poll[w].view[j].due <= poll[w].view[i].due

AfterClaim(w, j) ==
    LET rest == poll[w].todo \ {j}
    IN  IF rest = {} \/ up[w] # "up" THEN IdlePoll
        ELSE [poll[w] EXCEPT !.pc = "batch", !.todo = rest,
                             !.view[j] = NoView]

(* The WHERE clause of claimOne, with the poll's own clock reading.  That   *)
(* leaseExpiresAt is the observed one follows from the lease token and from *)
(* leaseExpiresAt <= now: a renewal only moves it past now.                 *)
Claimable(j, v, age) ==
    \/ /\ v.status = "pending" /\ row[j].status = "pending"
       /\ row[j].lease = None /\ row[j].due <= -age
    \/ /\ v.status = "running" /\ row[j].status = "running"
       /\ row[j].lease = v.lease /\ row[j].left <= -age

(* claimOne hits: the row is running under a new lease token that expires   *)
(* LeaseDuration after the poll's clock reading; runJob starts with the     *)
(* attempt count of the polled record plus one.                             *)
ClaimHit(w, j, l) ==
    /\ NextInBatch(w, j)
    /\ Claimable(j, poll[w].view[j], poll[w].age)
    /\ Fresh(l)
    /\ row' = [row EXCEPT ![j].status = "running", ![j].lease = l,
                 ![j].left = LeaseDuration - poll[w].age,
                 ![j].attempts = AtMost(@ + 1, AttemptCap)]
    /\ att' = [att EXCEPT ![l] =
                 [NoAttempt EXCEPT
                    !.pc = "claimed", !.job = j, !.worker = w,
                    !.ctx = IF up[w] = "up" THEN "live" ELSE "cancelled",
                    !.attempts = AtMost(poll[w].view[j].attempts + 1,
                                        AttemptCap)]]
    /\ poll' = [poll EXCEPT ![w] = AfterClaim(w, j)]
    /\ UNCHANGED <<store, pins, up, sem, op, faults>>

(* claimOne affects no row, or its UPDATE fails: the slot is given back.    *)
ClaimMiss(w, j) ==
    /\ NextInBatch(w, j)
    /\ \/ ~Claimable(j, poll[w].view[j], poll[w].age) /\ UNCHANGED faults
       \/ Fault
    /\ sem' = [sem EXCEPT ![w] = @ - 1]
    /\ poll' = [poll EXCEPT ![w] = AfterClaim(w, j)]
    /\ UNCHANGED <<row, store, pins, up, att, op>>

----------------------------------------------------------------------------
(* The attempt's goroutine: Worker.runJob. *)

(* The attempt of token l returns: runJob's deferred functions remove the   *)
(* canceller and give the slot back.                                        *)
EndAttempt_KeepsSlot(l) == att' = [att EXCEPT ![l] = NoAttempt] /\ UNCHANGED sem
EndAttempt(l) ==
    /\ att' = [att EXCEPT ![l] = NoAttempt]
    /\ sem' = [sem EXCEPT ![att[l].worker] = @ - 1]

(* runJob stores its canceller under job id and lease token. *)
Register(l) ==
    /\ att[l].pc = "claimed"
    /\ att' = [att EXCEPT ![l].pc = "registered"]
    /\ UNCHANGED <<row, store, pins, up, sem, poll, op, faults>>

(* The last UPDATE of runJob: the row that complete, fail, retry,           *)
(* deferAdmission or release writes.                                        *)
Settled(l, r, outcome, delay) ==
    CASE outcome = "complete" -> EndedRow(r, "completed")
      [] outcome = "fail" -> EndedRow(r, "failed")
      [] outcome = "retry" ->
           IF att[l].attempts >= MaxAttempts THEN EndedRow(r, "failed")
           ELSE PendingRow(r, delay, r.attempts)
      [] outcome = "defer" ->
           PendingRow(r, DeferDelay, AtLeast(att[l].attempts - 1, 0))
      [] OTHER -> PendingRow(r, 0, r.attempts)

(* If the UPDATE matches no row the result is ignored, if it fails that is  *)
(* only logged; the attempt ends either way, and its slot, which a deferred  *)
(* call gives back a moment later, is given back here.                      *)
Settle(l, outcome) ==
    /\ \/ /\ Owns(l)
          /\ \E delay \in RetryDelays :
               row' = [row EXCEPT ![att[l].job] =
                         Settled(l, @, outcome, delay)]
          /\ UNCHANGED faults
       \/ ~Owns(l) /\ UNCHANGED <<row, faults>>
       \/ Fault /\ UNCHANGED row
    /\ EndAttempt(l)

(* After the canceller is stored: the stillOurs query, on which an attempt  *)
(* that lost its row returns without a trace; then Resolve of the pinned    *)
(* snapshot under the attempt's context, of which any error (no snapshot, a *)
(* cancelled context, a failed query) fails the job.  A cancellation        *)
(* between the two queries has the effect of one before them or after.      *)
StillOurs_Unchecked(l) == TRUE
StillOurs(l) == Owns(l)

Begin(l) ==
    /\ att[l].pc = "registered"
    /\ \/ ~StillOurs(l) /\ EndAttempt(l) /\ UNCHANGED <<row, faults>>
       \/ Fault /\ EndAttempt(l) /\ UNCHANGED row
       \/ /\ StillOurs(l)
          /\ att[l].ctx = "live"
          /\ row[att[l].job].dep \in store
          /\ att' = [att EXCEPT ![l].pc = "running", ![l].beat = RenewInterval]
          /\ UNCHANGED <<row, sem, faults>>
       \/ /\ StillOurs(l)
          /\ att[l].ctx = "cancelled" \/ row[att[l].job].dep \notin store
          /\ Settle(l, "fail")
       \/ /\ StillOurs(l) /\ Owns(l)
          /\ Fault
          /\ row' = [row EXCEPT ![att[l].job] = EndedRow(@, "failed")]
          /\ EndAttempt(l)
    /\ UNCHANGED <<store, pins, up, poll, op>>

Renewed_SameExpiry(r) == r
Renewed(r) == [r EXCEPT !.left = LeaseDuration]

(* A heartbeat: renewLoop and renew.  A heartbeat that matches no row, or   *)
(* whose UPDATE fails, cancels the attempt and ends the loop.               *)
Renew(l) ==
    /\ RenewInterval > 0
    /\ att[l].pc = "running"
    /\ att[l].beat = 0
    /\ \/ /\ Owns(l)
          /\ row' = [row EXCEPT ![att[l].job] = Renewed(@)]
          /\ att' = [att EXCEPT ![l].beat = RenewInterval]
          /\ UNCHANGED faults
       \/ /\ ~Owns(l)
          /\ att' = [att EXCEPT ![l].ctx = "cancelled", ![l].beat = RenewInterval]
          /\ UNCHANGED <<row, faults>>
       \/ /\ Fault
          /\ att' = [att EXCEPT ![l].ctx = "cancelled", ![l].beat = RenewInterval]
          /\ UNCHANGED row
    /\ UNCHANGED <<store, pins, up, sem, poll, op>>

(* The invocation returns, by itself, by its timeout or because its context *)
(* was cancelled; the heartbeat is stopped and the row settled.  Only a     *)
(* cancelled attempt ends with context.Canceled, which handleError drops    *)
(* unless the whole worker is stopping.  A refusal before the handler       *)
(* starts (a deferral) refunds the attempt and counts as a fault.  What the *)
(* invocation did is not visible to others before the UPDATE, so that       *)
(* returning and settling are one step.                                     *)
Return(l, outcome) ==
    /\ att[l].pc = "running"
    /\ \/ /\ outcome \in {"complete", "fail", "retry"}
          /\ Settle(l, outcome)
       \/ /\ outcome = "canceled"
          /\ att[l].ctx = "cancelled"
          /\ IF up[att[l].worker] = "up"
             THEN EndAttempt(l) /\ UNCHANGED <<row, faults>>
             ELSE Settle(l, outcome)
       \/ /\ outcome = "defer"
          /\ Fault
          /\ \/ /\ Owns(l)
                /\ row' = [row EXCEPT ![att[l].job] =
                             Settled(l, @, outcome, 0)]
             \/ UNCHANGED row
          /\ EndAttempt(l)
    /\ UNCHANGED <<store, pins, up, poll, op>>

----------------------------------------------------------------------------
(* Service.Cancel: read the row, compare-and-swap on the lease token read,  *)
(* then signal the attempt that holds that token in this process.           *)

ReadForCancel(c, j, w, reads) ==
    op' = [op EXCEPT ![c] =
             IF row[j].status \in Live
             THEN [pc |-> "update", job |-> j, svc |-> w,
                   status |-> row[j].status, lease |-> row[j].lease,
                   reads |-> reads]
             ELSE NoCall]

CancelCall(c, w, j) ==
    /\ op[c].pc = "idle"
    /\ up[w] # "down"
    /\ row[j].status \in Live
    /\ ReadForCancel(c, j, w, 1)
    /\ UNCHANGED <<row, store, pins, up, sem, poll, att, faults>>

CancelReload(c) ==
    /\ op[c].pc = "read"
    /\ ReadForCancel(c, op[c].job, op[c].svc, op[c].reads + 1)
    /\ UNCHANGED <<row, store, pins, up, sem, poll, att, faults>>

(* The loop of Cancel: a miss is read again up to maxRetries times. *)
MayReload(c) == op[c].reads < CancelReads

CancelUpdate(c) ==
    /\ op[c].pc = "update"
    /\ LET j == op[c].job
           hit == row[j].lease = op[c].lease /\ row[j].status \in Live
       IN  \/ /\ hit
              /\ row' = [row EXCEPT ![j] = EndedRow(@, "canceled")]
              /\ op' = [op EXCEPT ![c].pc = IF op[c].status = "running"
                                            THEN "signal" ELSE "done",
                                    ![c].reads = 0]
              /\ UNCHANGED faults
           \/ /\ ~hit
              /\ op' = [op EXCEPT ![c] =
                          IF MayReload(c)
                          THEN [@ EXCEPT !.pc = "read", !.lease = None,
                                         !.status = "absent"]
                          ELSE NoCall]
              /\ UNCHANGED <<row, faults>>
           \/ /\ Fault
              /\ op' = [op EXCEPT ![c] = NoCall]
              /\ UNCHANGED row
    /\ UNCHANGED <<store, pins, up, sem, poll, att>>

(* Worker.Cancel: finds the canceller stored by Register, if it is there.   *)
CancelSignal(c) ==
    /\ op[c].pc = "signal"
    /\ LET l == op[c].lease IN
       att' = IF l \in Leases /\ att[l].worker = op[c].svc
                 /\ att[l].pc \notin {"none", "claimed"}
              THEN [att EXCEPT ![l].ctx = "cancelled"] ELSE att
    /\ op' = [op EXCEPT ![c].pc = "done"]
    /\ UNCHANGED <<row, store, pins, up, sem, poll, faults>>

(* The successful call returns to its caller. *)
CancelReturn(c) ==
    /\ op[c].pc = "done"
    /\ op' = [op EXCEPT ![c] = NoCall]
    /\ UNCHANGED <<row, store, pins, up, sem, poll, att, faults>>

----------------------------------------------------------------------------
(* The process: Worker.Stop, a crash, a restart; and the clock. *)

(* Stop cancels w.ctx, and with it the context of every attempt. *)
Stop(w) ==
    /\ up[w] = "up"
    /\ Fault
    /\ up' = [up EXCEPT ![w] = "stopping"]
    /\ att' = [l \in Leases |-> IF att[l].worker = w
                                THEN [att[l] EXCEPT !.ctx = "cancelled"]
                                ELSE att[l]]
    /\ UNCHANGED <<row, store, pins, sem, poll, op>>

\* the process ends, and with it the calls it serves
AbortCalls(w) == [c \in Callers |-> IF op[c].svc = w THEN NoCall ELSE op[c]]

(* wg.Wait() returns when the polling goroutine and all attempts are done.  *)
StopDone(w) ==
    /\ up[w] = "stopping"
    /\ poll[w].pc = "idle"
    /\ \A l \in Leases : att[l].worker # w
    /\ up' = [up EXCEPT ![w] = "down"]
    /\ op' = AbortCalls(w)
    /\ UNCHANGED <<row, store, pins, sem, poll, att, faults>>

Crash(w) ==
    /\ up[w] # "down"
    /\ Fault
    /\ up' = [up EXCEPT ![w] = "down"]
    /\ sem' = [sem EXCEPT ![w] = 0]
    /\ poll' = [poll EXCEPT ![w] = IdlePoll]
    /\ att' = [l \in Leases |-> IF att[l].worker = w THEN NoAttempt ELSE att[l]]
    /\ op' = AbortCalls(w)
    /\ UNCHANGED <<row, store, pins>>

(* A new process: NewWorker and Start. *)
StartWorker(w) ==
    /\ up[w] = "down"
    /\ up' = [up EXCEPT ![w] = "up"]
    /\ UNCHANGED <<row, store, pins, sem, poll, att, op, faults>>

(* One unit of time.  A batch waits at most MaxAge for its slots.  When     *)
(* Punctual, heartbeats are on time and all that takes time is what waits   *)
(* by design: running handlers, and batches while every slot is taken.      *)
(* Otherwise anything may take long; a ticker drops the ticks nobody reads. *)
OnTime ==
    /\ \A l \in Leases :
         /\ att[l].pc \notin {"claimed", "registered"}
         /\ LiveAttempt(l) /\ RenewInterval > 0 => att[l].beat > 0
    /\ \A w \in Workers :
         /\ poll[w].pc # "slot"
         /\ poll[w].pc = "batch" => sem[w] = MaxConcurrency

Tick ==
    /\ \A w \in Workers : poll[w].pc # "idle" => poll[w].age < MaxAge
    /\ Punctual => OnTime
    /\ row' = [j \in Jobs |->
                 CASE row[j].status = "pending" ->
                        [row[j] EXCEPT !.due = Older(@)]
                   [] row[j].status = "running" ->
                        [row[j] EXCEPT !.left = Older(@), !.due = Older(@)]
                   [] OTHER -> row[j]]
    /\ poll' = [w \in Workers |-> IF poll[w].pc = "idle" THEN poll[w]
                                  ELSE [poll[w] EXCEPT !.age = @ + 1]]
    /\ att' = [l \in Leases |->
                 IF LiveAttempt(l)
                 THEN [att[l] EXCEPT !.beat = AtLeast(@ - 1, 0)] ELSE att[l]]
    /\ UNCHANGED <<store, pins, up, sem, op, faults>>

----------------------------------------------------------------------------
PollStep(w) ==
    \/ Poll(w) \/ AcquireSlot(w) \/ AbandonBatch(w)
    \/ \E j \in Jobs : ClaimMiss(w, j) \/ \E l \in Leases : ClaimHit(w, j, l)
AttemptStep(l) ==
    \/ Register(l) \/ Begin(l) \/ Renew(l)
    \/ \E outcome \in Outcomes : Return(l, outcome)
CancelStep(c) ==
    \/ CancelReload(c) \/ CancelUpdate(c) \/ CancelSignal(c) \/ CancelReturn(c)
    \/ \E w \in Workers, j \in Jobs : CancelCall(c, w, j)
ServiceStep ==
    \/ \E j \in Jobs : Retry(j) \/ Cleanup(j)
    \/ \E j \in Jobs, d \in Deployments, delay \in ScheduleDelays :
         Schedule(j, d, delay)
    \/ \E d \in Deployments : Trim(d) \/ Publish(d)
ProcessStep(w) == Stop(w) \/ StopDone(w) \/ Crash(w) \/ StartWorker(w)

Next ==
    \/ \E w \in Workers : PollStep(w) \/ ProcessStep(w)
    \/ \E l \in Leases : AttemptStep(l)
    \/ \E c \in Callers : CancelStep(c)
    \/ ServiceStep
    \/ Tick

Spec == Init /\ [][Next]_vars
----------------------------------------------------------------------------
(* Properties *)

(* The slots taken in w.sem are the attempts that run plus the slot the     *)
(* polling goroutine holds: every path of claim and runJob gives its slot   *)
(* back once, and no more than MaxConcurrency attempts run in a process.    *)
SlotsAccounted ==
    \A w \in Workers :
      /\ sem[w] = Cardinality({l \in Leases : att[l].worker = w})
                  + (IF poll[w].pc = "slot" THEN 1 ELSE 0)
      /\ sem[w] <= MaxConcurrency

(* A row carries a lease token exactly while it is running, two rows never  *)
(* share one, and the attempt that holds a row's token was started for that *)
(* row: the token alone identifies the owner (claimOne, EndedRow writers).  *)
LeaseIdentifiesOwner ==
    /\ \A j \in Jobs : row[j].status = "running" <=> row[j].lease # None
    /\ \A i, j \in Jobs : i # j /\ row[i].lease # None
                            => row[i].lease # row[j].lease
    /\ \A j \in Jobs, l \in Leases :
         row[j].lease = l /\ att[l].pc # "none" => att[l].job = j

(* How the running row of job j may come to lose its lease: by being        *)
(* cancelled, by a new claim after the lease has expired, or by the end of  *)
(* the attempt that holds this very lease.                                  *)
Surrendered(j) ==
    LET l == row[j].lease IN
    \/ row'[j].status = "canceled"
    \/ row'[j].status = "running" /\ row[j].left <= 0
    \/ /\ row'[j].status \in {"completed", "failed", "pending"}
       /\ att[l].job = j
       /\ att[l].pc \in {"registered", "running"}
       /\ att'[l].pc = "none"
OwnersOnly ==
    \A j \in Jobs : row[j].status = "running" /\ row'[j].lease # row[j].lease
                      => Surrendered(j)

(* "A stale worker cannot record a result after a new owner has taken over" *)
(* (worker.go): a result is recorded by the owner's attempt only, and a job *)
(* is taken over only when its lease has expired.                           *)
OnlyOwnerSettles == [][OwnersOnly]_vars

(* Due times are earliest eligible times: no interleaving of a slow poll    *)
(* with retries, deferrals and requeues starts a job before it is due.      *)
NeverEarly ==
    [][\A j \in Jobs :
         row[j].status = "pending" /\ row'[j].status = "running"
           => row[j].due <= 0]_vars

(* Once Service.Cancel has returned success for a running attempt of its    *)
(* own process, that attempt neither runs on nor starts: its context is     *)
(* cancelled, whichever way the call raced with claimOne and runJob.        *)
CancelStopsAttempt ==
    \A c \in Callers, l \in Leases :
      op[c].pc = "done" /\ op[c].lease = l /\ att[l].worker = op[c].svc
        => ~LiveAttempt(l)

(* "Each job pins the immutable deployment snapshot": the snapshot of every *)
(* job, terminal ones included, is there for it to run or be retried.       *)
SnapshotAvailable == \A j \in Jobs : row[j].status # "absent"
                                       => row[j].dep \in store

(* "Ensure the heartbeat renews before the lease expires" (NewService): a   *)
(* job is never taken over from an attempt that runs and whose next         *)
(* heartbeat is not even due.                                               *)
NoUnnecessaryTheft ==
    [][\A j \in Jobs, l \in Leases :
         row[j].lease = l /\ LiveAttempt(l) /\ att[l].beat > 0
           => row'[j].lease = l \/ row'[j].status # "running"]_vars

(* The job queue of module JobQueue, seen in the scheduler's state.         *)
Queue == INSTANCE JobQueue WITH
    st <- [j \in Jobs |-> row[j].status],
    owner <- [j \in Jobs |-> row[j].lease],
    alive <- {l \in Leases : att[l].pc # "none"}

(* The scheduler implements the job queue. *)
ImplementsQueue == Queue!Spec

(* Fairness: goroutines that can run do run, time does not stand still, a   *)
(* stopped process is started again, and a handler returns (its context has *)
(* a deadline); service calls, faults and deployments are not forced.       *)
Fairness ==
    /\ SF_vars(Tick)
    /\ \A w \in Workers :
         /\ WF_vars(PollStep(w))
         /\ WF_vars(StopDone(w) \/ StartWorker(w))
    /\ \A l \in Leases :
         /\ WF_vars(Register(l) \/ Begin(l) \/ Renew(l))
         /\ WF_vars(\E outcome \in Outcomes : Return(l, outcome))
FairSpec == Spec /\ Fairness

(* Every job that is scheduled, retried or taken over ends: it completes,   *)
(* fails or is cancelled, once faults cease.                                *)
EventuallySettles ==
    \A j \in Jobs : row[j].status \in Live ~> row[j].status \notin Live
=============================================================================
