-------------------------- MODULE SchedulerProofs --------------------------
(***************************************************************************)
(* Proofs about the scheduler for every number of jobs, processes, tokens, *)
(* callers and snapshots, every lease and heartbeat interval and every     *)
(* bound.                                                                  *)
(*                                                                         *)
(* The inductive invariant IInv has four parts.  TypeOK and WellFormed say *)
(* what a goroutine's local state looks like at each of its points.        *)
(* LeaseIdentifiesOwner makes the lease token a proof of ownership.        *)
(* CancelInv follows a token from the compare-and-swap of Service.Cancel:  *)
(* from then on no row carries it, so an attempt that has not passed its   *)
(* ownership check never will, and one that has is signalled.              *)
(***************************************************************************)
EXTENDS Scheduler, FiniteSetTheorems, TLAPS

WellFormed ==
    /\ \A l \in Leases : att[l].pc # "none" =>
         att[l].job \in Jobs /\ att[l].worker \in Workers
    /\ \A c \in Callers :
         /\ op[c].pc # "idle" => op[c].job \in Jobs /\ op[c].svc \in Workers
         /\ op[c].pc = "read" => op[c].reads < CancelReads
         /\ op[c].pc # "idle" /\ op[c].status # "running" => op[c].lease = None

CancelInv ==
    \A c \in Callers, l \in Leases : op[c].lease = l =>
      /\ op[c].pc \in {"signal", "done"} => \A j \in Jobs : row[j].lease # l
      /\ op[c].pc = "done" /\ att[l].worker = op[c].svc => ~LiveAttempt(l)

IInv == TypeOK /\ WellFormed /\ LeaseIdentifiesOwner /\ CancelInv

----------------------------------------------------------------------------
(* Initially the invariant holds: there are no rows, attempts or calls. *)
LEMMA InitInv == Init => IInv
<1> SUFFICES ASSUME Init PROVE IInv
  OBVIOUS
<1> USE SchedulerAssumption DEF Init, NoRow, NoAttempt, NoCall, NoView, IdlePoll
<1>1. TypeOK
  BY DEF TypeOK, Rows, Views, Polls, Attempts, Calls, Live, Terminal, AttemptCap
<1>2. WellFormed
  BY DEF WellFormed
<1>3. LeaseIdentifiesOwner
  BY DEF LeaseIdentifiesOwner
<1>4. CancelInv
  BY DEF CancelInv
<1>5. QED
  BY <1>1, <1>2, <1>3, <1>4 DEF IInv

----------------------------------------------------------------------------
(* Rows written by the helpers are rows. *)
LEMMA RowTypes ==
  ASSUME NEW r \in Rows, NEW t \in Int, NEW n \in 0 .. AttemptCap
  PROVE  /\ PendingRow(r, t, n) \in Rows
         /\ EndedRow(r, "completed") \in Rows
         /\ EndedRow(r, "failed") \in Rows
         /\ EndedRow(r, "canceled") \in Rows
         /\ Renewed(r) \in Rows
         /\ NoRow \in Rows
<1> USE SchedulerAssumption DEF Rows, Live, Terminal, AttemptCap
<1>1. 0 \in -MaxAge .. LeaseDuration /\ LeaseDuration \in -MaxAge .. LeaseDuration
  OBVIOUS
<1>2. PendingRow(r, t, n) \in Rows
  BY <1>1 DEF PendingRow
<1>3. ASSUME NEW s \in Live \cup Terminal \cup {"absent"}
      PROVE  EndedRow(r, s) \in Rows
  <2>1. None \in Leases \cup {None} /\ 0 \in Int
    OBVIOUS
  <2>2. QED
    BY <1>1, <2>1 DEF EndedRow
<1>4. Renewed(r) \in Rows
  BY <1>1 DEF Renewed
<1>5. NoRow \in Rows
  BY <1>1 DEF NoRow
<1>6. QED
  BY <1>2, <1>3, <1>4, <1>5

(* What the polling goroutine is left with after a claim. *)
LEMMA AfterClaimType ==
  ASSUME TypeOK, NEW w \in Workers, NEW j \in Jobs
  PROVE  AfterClaim(w, j) \in Polls
<1>1. IdlePoll \in Polls
  BY SchedulerAssumption DEF IdlePoll, Polls, Views, NoView, AttemptCap
<1>2. poll[w] \in Polls /\ NoView \in Views
  BY SchedulerAssumption DEF TypeOK, NoView, Views, AttemptCap
<1>3. [poll[w] EXCEPT !.pc = "batch", !.todo = poll[w].todo \ {j},
                      !.view[j] = NoView] \in Polls
  BY <1>2 DEF Polls
<1>4. QED
  BY <1>1, <1>3 DEF AfterClaim

(* A settlement writes a row that is terminal or pending, without a lease. *)
LEMMA SettledType ==
  ASSUME TypeOK, NEW l \in Leases, NEW r \in Rows, NEW outcome \in Outcomes,
         NEW t \in Nat
  PROVE  /\ Settled(l, r, outcome, t) \in Rows
         /\ Settled(l, r, outcome, t).lease = None
         /\ Settled(l, r, outcome, t).status \in {"completed", "failed", "pending"}
         /\ Settled(l, r, outcome, t).dep = r.dep
<1> DEFINE n == AtLeast(att[l].attempts - 1, 0)
<1>1. n \in 0 .. AttemptCap /\ r.attempts \in 0 .. AttemptCap
  BY SchedulerAssumption DEF TypeOK, Attempts, AtLeast, AttemptCap, Rows
<1>2. DeferDelay \in Int /\ 0 \in Int /\ t \in Int
  BY SchedulerAssumption
<1>3. /\ PendingRow(r, t, r.attempts) \in Rows
      /\ PendingRow(r, 0, r.attempts) \in Rows
      /\ PendingRow(r, DeferDelay, n) \in Rows
      /\ EndedRow(r, "completed") \in Rows
      /\ EndedRow(r, "failed") \in Rows
  BY <1>1, <1>2, RowTypes
<1>4. /\ \A d, k : /\ PendingRow(r, d, k).lease = None
                   /\ PendingRow(r, d, k).status = "pending"
                   /\ PendingRow(r, d, k).dep = r.dep
      /\ \A s : /\ EndedRow(r, s).lease = None
                /\ EndedRow(r, s).status = s
                /\ EndedRow(r, s).dep = r.dep
  BY DEF PendingRow, EndedRow, Rows
<1>5. QED
  BY <1>3, <1>4 DEF Settled, Outcomes
----------------------------------------------------------------------------
(* TypeOK is preserved, action by action. *)

LEMMA ServiceType ==
  ASSUME TypeOK, ServiceStep
  PROVE  TypeOK'
<1> USE SchedulerAssumption
<1>1. ASSUME NEW j \in Jobs, NEW d \in Deployments, NEW t \in ScheduleDelays,
             Schedule(j, d, t)
      PROVE  TypeOK'
  <2>1. [NoRow EXCEPT !.dep = d] \in Rows
    BY DEF NoRow, Rows, AttemptCap
  <2>2. PendingRow([NoRow EXCEPT !.dep = d], t, 0) \in Rows
    BY <2>1, RowTypes DEF AttemptCap
  <2>3. QED
    BY <1>1, <2>2 DEF Schedule, TypeOK
<1>2. ASSUME NEW j \in Jobs, Retry(j)
      PROVE  TypeOK'
  <2>1. row[j] \in Rows /\ 0 \in 0 .. AttemptCap
    BY DEF TypeOK, AttemptCap
  <2>2. PendingRow(row[j], 0, 0) \in Rows
    BY <2>1, RowTypes
  <2>3. QED
    BY <1>2, <2>2 DEF Retry, TypeOK
<1>3. ASSUME NEW j \in Jobs, Cleanup(j)
      PROVE  TypeOK'
  <2>1. NoRow \in Rows
    BY DEF NoRow, Rows, AttemptCap
  <2>2. pins' \in [Deployments -> Int]
    BY <1>3 DEF Cleanup, Unpin, TypeOK
  <2>3. QED
    BY <1>3, <2>1, <2>2 DEF Cleanup, TypeOK
<1>4. ASSUME NEW d \in Deployments, Trim(d) \/ Publish(d)
      PROVE  TypeOK'
  BY <1>4 DEF Trim, Publish, TypeOK
<1>5. QED
  BY <1>1, <1>2, <1>3, <1>4 DEF ServiceStep

LEMMA PollType ==
  ASSUME TypeOK, NEW w \in Workers, PollStep(w)
  PROVE  TypeOK'
<1> USE SchedulerAssumption
<1>1. CASE Poll(w)
  <2>1. ASSUME NEW j \in Jobs, Due(j) PROVE ViewOf(j) \in Views
    BY <2>1 DEF Due, ViewOf, Views, TypeOK, Rows, Live
  <2>2. NoView \in Views
    BY DEF NoView, Views, AttemptCap
  <2>3. PICK batch \in SUBSET {j \in Jobs : Due(j)} :
          poll' = [poll EXCEPT ![w] =
                     [pc |-> "batch", age |-> 0, todo |-> batch,
                      view |-> [j \in Jobs |-> IF j \in batch THEN ViewOf(j)
                                               ELSE NoView]]]
    BY <1>1 DEF Poll
  <2>4. [j \in Jobs |-> IF j \in batch THEN ViewOf(j) ELSE NoView]
          \in [Jobs -> Views]
    BY <2>1, <2>2
  <2>5. poll' \in [Workers -> Polls]
    BY <2>3, <2>4 DEF Polls, TypeOK
  <2>6. QED
    BY <1>1, <2>5 DEF Poll, TypeOK
<1>2. CASE AcquireSlot(w)
  <2>1. [poll[w] EXCEPT !.pc = "slot"] \in Polls
    BY DEF TypeOK, Polls
  <2>2. poll' \in [Workers -> Polls] /\ sem' \in [Workers -> Int]
    BY <1>2, <2>1 DEF AcquireSlot, TypeOK
  <2>3. QED
    BY <1>2, <2>2 DEF AcquireSlot, TypeOK
<1>3. CASE AbandonBatch(w)
  <2>1. IdlePoll \in Polls
    BY DEF IdlePoll, Polls, NoView, Views, AttemptCap
  <2>2. QED
    BY <1>3, <2>1 DEF AbandonBatch, TypeOK
<1>4. ASSUME NEW j \in Jobs, ClaimMiss(w, j)
      PROVE  TypeOK'
  <2>1. AfterClaim(w, j) \in Polls
    BY AfterClaimType
  <2>2. faults' \in 0 .. MaxFaults
    BY <1>4 DEF ClaimMiss, Fault, TypeOK
  <2>3. QED
    BY <1>4, <2>1, <2>2 DEF ClaimMiss, TypeOK
<1>5. ASSUME NEW j \in Jobs, NEW l \in Leases, ClaimHit(w, j, l)
      PROVE  TypeOK'
  <2>1. AfterClaim(w, j) \in Polls
    BY AfterClaimType
  <2>2. poll[w].age \in 0 .. MaxAge /\ poll[w].view[j].attempts \in 0 .. AttemptCap
    BY DEF TypeOK, Polls, Views
  <2>3. /\ AtMost(row[j].attempts + 1, AttemptCap) \in 0 .. AttemptCap
        /\ AtMost(poll[w].view[j].attempts + 1, AttemptCap) \in 0 .. AttemptCap
    BY <2>2 DEF AtMost, AttemptCap, TypeOK, Rows
  <2>4. row[j] \in Rows /\ LeaseDuration - poll[w].age \in -MaxAge .. LeaseDuration
    BY <2>2 DEF TypeOK
  <2>5. [row[j] EXCEPT !.status = "running", !.lease = l,
           !.left = LeaseDuration - poll[w].age,
           !.attempts = AtMost(row[j].attempts + 1, AttemptCap)] \in Rows
    BY <2>3, <2>4 DEF Rows, Live
  <2>6. row' \in [Jobs -> Rows]
    BY <1>5, <2>5 DEF ClaimHit, TypeOK
  <2>7. [NoAttempt EXCEPT
           !.pc = "claimed", !.job = j, !.worker = w,
           !.ctx = IF up[w] = "up" THEN "live" ELSE "cancelled",
           !.attempts = AtMost(poll[w].view[j].attempts + 1, AttemptCap)]
          \in Attempts
    <3>1. (IF up[w] = "up" THEN "live" ELSE "cancelled") \in {"live", "cancelled"}
      OBVIOUS
    <3>2. 0 \in 0 .. LeaseDuration
      OBVIOUS
    <3>3. QED
      BY <2>3, <3>1, <3>2 DEF Attempts, NoAttempt
  <2>8. att' \in [Leases -> Attempts]
    BY <1>5, <2>7 DEF ClaimHit, TypeOK
  <2>9. QED
    BY <1>5, <2>1, <2>6, <2>8 DEF ClaimHit, TypeOK
<1>6. QED
  BY <1>1, <1>2, <1>3, <1>4, <1>5 DEF PollStep

(* The end of an attempt, with or without a settlement of its row. *)
LEMMA EndType ==
  ASSUME TypeOK, NEW l \in Leases, EndAttempt(l)
  PROVE  att' \in [Leases -> Attempts] /\ sem' \in [Workers -> Int]
<1>1. NoAttempt \in Attempts
  BY SchedulerAssumption DEF NoAttempt, Attempts, AttemptCap
<1>2. sem' = [sem EXCEPT ![att[l].worker] = sem[att[l].worker] - 1]
  BY DEF EndAttempt
<1>3. ASSUME att[l].worker \in Workers
      PROVE  sem' \in [Workers -> Int]
  BY <1>2, <1>3 DEF TypeOK
<1>4. ASSUME att[l].worker \notin Workers
      PROVE  sem' \in [Workers -> Int]
  BY <1>2, <1>4 DEF TypeOK
<1>5. QED
  BY <1>1, <1>3, <1>4 DEF EndAttempt, TypeOK

LEMMA SettleType ==
  ASSUME TypeOK, WellFormed, NEW l \in Leases, att[l].pc # "none",
         NEW outcome \in Outcomes, Settle(l, outcome)
  PROVE  /\ row' \in [Jobs -> Rows] /\ faults' \in 0 .. MaxFaults
         /\ att' \in [Leases -> Attempts] /\ sem' \in [Workers -> Int]
<1>1. att' \in [Leases -> Attempts] /\ sem' \in [Workers -> Int]
  BY EndType DEF Settle
<1>2. faults' \in 0 .. MaxFaults
  BY SchedulerAssumption DEF Settle, Fault, TypeOK
<1>3. CASE UNCHANGED row
  BY <1>1, <1>2, <1>3 DEF TypeOK
<1>4. CASE \E t \in RetryDelays :
             row' = [row EXCEPT ![att[l].job] = Settled(l, @, outcome, t)]
  <2>1. PICK t \in RetryDelays :
          row' = [row EXCEPT ![att[l].job] = Settled(l, @, outcome, t)]
    BY <1>4
  <2>2. att[l].job \in Jobs /\ row[att[l].job] \in Rows /\ t \in Nat
    BY SchedulerAssumption DEF WellFormed, TypeOK
  <2>3. Settled(l, row[att[l].job], outcome, t) \in Rows
    BY <2>2, SettledType
  <2>4. row' \in [Jobs -> Rows]
    BY <2>1, <2>2, <2>3 DEF TypeOK
  <2>5. QED
    BY <1>1, <1>2, <2>4
<1>5. QED
  BY <1>3, <1>4 DEF Settle
LEMMA AttemptType ==
  ASSUME TypeOK, WellFormed, NEW l \in Leases, AttemptStep(l)
  PROVE  TypeOK'
<1> USE SchedulerAssumption
<1>0. att[l] \in Attempts /\ RenewInterval \in 0 .. LeaseDuration
  BY DEF TypeOK
<1>1. /\ [att[l] EXCEPT !.pc = "registered"] \in Attempts
      /\ [att[l] EXCEPT !.pc = "running", !.beat = RenewInterval] \in Attempts
      /\ [att[l] EXCEPT !.ctx = "cancelled", !.beat = RenewInterval] \in Attempts
      /\ [att[l] EXCEPT !.beat = RenewInterval] \in Attempts
  BY <1>0 DEF Attempts
<1>2. att[l].pc # "none" => row[att[l].job] \in Rows
  BY DEF WellFormed, TypeOK
<1>3. CASE Register(l)
  BY <1>1, <1>3 DEF Register, TypeOK
<1>4. CASE Begin(l)
  <2>1. CASE EndAttempt(l) /\ UNCHANGED row
    <3>1. faults' \in 0 .. MaxFaults
      BY <1>4 DEF Begin, Settle, Fault, TypeOK
    <3>2. QED
      BY <1>4, <2>1, <3>1, EndType DEF Begin, TypeOK
  <2>2. CASE /\ att' = [att EXCEPT ![l].pc = "running", ![l].beat = RenewInterval]
             /\ UNCHANGED <<row, sem, faults>>
    BY <1>1, <1>4, <2>2 DEF Begin, TypeOK
  <2>3. CASE Settle(l, "fail")
    <3>1. "fail" \in Outcomes /\ att[l].pc # "none"
      BY <1>4 DEF Begin, Outcomes
    <3>2. QED
      BY <1>4, <2>3, <3>1, SettleType DEF Begin, TypeOK
  <2>4. CASE /\ row' = [row EXCEPT ![att[l].job] = EndedRow(@, "failed")]
             /\ EndAttempt(l) /\ Fault
    <3>1. EndedRow(row[att[l].job], "failed") \in Rows
      <4>1. row[att[l].job] \in Rows /\ 0 \in Int /\ 0 \in 0 .. AttemptCap
        BY <1>2, <1>4 DEF Begin, AttemptCap
      <4>2. QED
        BY <4>1, RowTypes
    <3>2. row' \in [Jobs -> Rows]
      BY <2>4, <3>1 DEF TypeOK
    <3>3. faults' \in 0 .. MaxFaults
      BY <2>4 DEF Fault, TypeOK
    <3>4. QED
      BY <1>4, <2>4, <3>2, <3>3, EndType DEF Begin, TypeOK
  <2>5. QED
    BY <1>4, <2>1, <2>2, <2>3, <2>4 DEF Begin
<1>5. CASE Renew(l)
  <2>1. Renewed(row[att[l].job]) \in Rows
    <3>1. row[att[l].job] \in Rows /\ 0 \in Int /\ 0 \in 0 .. AttemptCap
      BY <1>2, <1>5 DEF Renew, AttemptCap
    <3>2. QED
      BY <3>1, RowTypes
  <2>2. row' \in [Jobs -> Rows]
    BY <1>5, <2>1 DEF Renew, TypeOK
  <2>3. faults' \in 0 .. MaxFaults
    BY <1>5 DEF Renew, Fault, TypeOK
  <2>4. CASE att' = [att EXCEPT ![l].beat = RenewInterval]
    BY <1>1, <1>5, <2>2, <2>3, <2>4 DEF Renew, TypeOK
  <2>5. CASE att' = [att EXCEPT ![l].ctx = "cancelled", ![l].beat = RenewInterval]
    BY <1>1, <1>5, <2>2, <2>3, <2>5 DEF Renew, TypeOK
  <2>6. QED
    BY <1>5, <2>4, <2>5 DEF Renew
<1>6. ASSUME NEW outcome \in Outcomes, Return(l, outcome)
      PROVE  TypeOK'
  <2>1. att[l].pc # "none"
    BY <1>6 DEF Return
  <2>2. CASE Settle(l, outcome)
    BY <1>6, <2>1, <2>2, SettleType DEF Return, TypeOK
  <2>3. CASE EndAttempt(l) /\ UNCHANGED <<row, faults>>
    BY <1>6, <2>3, EndType DEF Return, TypeOK
  <2>4. CASE /\ Fault
             /\ \/ row' = [row EXCEPT ![att[l].job] = Settled(l, @, outcome, 0)]
                \/ UNCHANGED row
             /\ EndAttempt(l)
    <3>1. Settled(l, row[att[l].job], outcome, 0) \in Rows
      BY <1>2, <2>1, SettledType
    <3>2. row' \in [Jobs -> Rows]
      BY <2>4, <3>1 DEF TypeOK
    <3>3. faults' \in 0 .. MaxFaults
      BY <2>4 DEF Fault, TypeOK
    <3>4. QED
      BY <1>6, <2>4, <3>2, <3>3, EndType DEF Return, TypeOK
  <2>5. QED
    BY <1>6, <2>2, <2>3, <2>4 DEF Return
<1>7. QED
  BY <1>3, <1>4, <1>5, <1>6 DEF AttemptStep

LEMMA CancelType ==
  ASSUME TypeOK, WellFormed, NEW c \in Callers, CancelStep(c)
  PROVE  TypeOK'
<1> USE SchedulerAssumption
<1>1. NoCall \in Calls
  BY DEF NoCall, Calls
<1>2. ASSUME NEW j \in Jobs, NEW w \in Workers, NEW n \in 0 .. CancelReads,
             ReadForCancel(c, j, w, n)
      PROVE  op' \in [Callers -> Calls]
  <2>1. row[j].status \in Live =>
          [pc |-> "update", job |-> j, svc |-> w, status |-> row[j].status,
           lease |-> row[j].lease, reads |-> n] \in Calls
    BY DEF TypeOK, Rows, Calls
  <2>2. QED
    BY <1>1, <1>2, <2>1 DEF ReadForCancel, TypeOK
<1>3. ASSUME NEW w \in Workers, NEW j \in Jobs, CancelCall(c, w, j)
      PROVE  TypeOK'
  BY <1>2, <1>3 DEF CancelCall, TypeOK
<1>4. CASE CancelReload(c)
  <2>1. op[c].reads + 1 \in 0 .. CancelReads /\ op[c].job \in Jobs /\ op[c].svc \in Workers
    BY <1>4 DEF CancelReload, WellFormed, TypeOK, Calls
  <2>2. QED
    BY <1>2, <1>4, <2>1 DEF CancelReload, TypeOK
<1>5. CASE CancelUpdate(c)
  <2>1. op[c] \in Calls /\ op[c].job \in Jobs /\ row[op[c].job] \in Rows
    BY <1>5 DEF CancelUpdate, WellFormed, TypeOK
  <2>2. EndedRow(row[op[c].job], "canceled") \in Rows
    <3>1. 0 \in Int /\ 0 \in 0 .. AttemptCap
      BY DEF AttemptCap
    <3>2. QED
      BY <2>1, <3>1, RowTypes
  <2>3. row' \in [Jobs -> Rows]
    BY <1>5, <2>1, <2>2 DEF CancelUpdate, TypeOK
  <2>4. /\ [op[c] EXCEPT !.pc = "signal"] \in Calls
        /\ [op[c] EXCEPT !.pc = "done"] \in Calls
        /\ [op[c] EXCEPT !.pc = "read", !.lease = None, !.status = "absent"] \in Calls
    BY <2>1 DEF Calls
  <2>5. op' \in [Callers -> Calls]
    BY <1>1, <1>5, <2>4 DEF CancelUpdate, TypeOK
  <2>6. faults' \in 0 .. MaxFaults
    BY <1>5 DEF CancelUpdate, Fault, TypeOK
  <2>7. QED
    BY <1>5, <2>3, <2>5, <2>6 DEF CancelUpdate, TypeOK
<1>6. CASE CancelSignal(c)
  <2>1. att' \in [Leases -> Attempts]
    <3>1. ASSUME NEW l \in Leases
          PROVE  [att[l] EXCEPT !.ctx = "cancelled"] \in Attempts
      <4>1. att[l] \in Attempts
        BY DEF TypeOK
      <4>2. QED
        BY <4>1 DEF Attempts
    <3>2. ASSUME NEW l \in Leases, att' = [att EXCEPT ![l].ctx = "cancelled"]
          PROVE  att' \in [Leases -> Attempts]
      BY <3>1, <3>2 DEF TypeOK
    <3>3. UNCHANGED att \/ \E l \in Leases : att' = [att EXCEPT ![l].ctx = "cancelled"]
      BY <1>6 DEF CancelSignal
    <3>4. QED
      BY <3>2, <3>3 DEF TypeOK
  <2>2. op' \in [Callers -> Calls]
    BY <1>6 DEF CancelSignal, TypeOK, Calls
  <2>3. QED
    BY <1>6, <2>1, <2>2 DEF CancelSignal, TypeOK
<1>7. CASE CancelReturn(c)
  BY <1>1, <1>7 DEF CancelReturn, TypeOK
<1>8. QED
  BY <1>3, <1>4, <1>5, <1>6, <1>7 DEF CancelStep

LEMMA ProcessType ==
  ASSUME TypeOK, NEW w \in Workers, ProcessStep(w)
  PROVE  TypeOK'
<1> USE SchedulerAssumption
<1>1. NoCall \in Calls /\ NoAttempt \in Attempts /\ IdlePoll \in Polls
  BY DEF NoCall, Calls, NoAttempt, Attempts, AttemptCap, IdlePoll, Polls,
         NoView, Views
<1>2. AbortCalls(w) \in [Callers -> Calls]
  BY <1>1 DEF AbortCalls, TypeOK
<1>3. CASE Stop(w)
  <2>1. ASSUME NEW l \in Leases
        PROVE  [att[l] EXCEPT !.ctx = "cancelled"] \in Attempts
    BY DEF TypeOK, Attempts
  <2>2. att' \in [Leases -> Attempts]
    BY <1>3, <2>1 DEF Stop, TypeOK
  <2>3. faults' \in 0 .. MaxFaults
    BY <1>3 DEF Stop, Fault, TypeOK
  <2>4. QED
    BY <1>3, <2>2, <2>3 DEF Stop, TypeOK
<1>4. CASE StopDone(w)
  BY <1>2, <1>4 DEF StopDone, TypeOK
<1>5. CASE Crash(w)
  <2>1. att' \in [Leases -> Attempts] /\ poll' \in [Workers -> Polls]
    BY <1>1, <1>5 DEF Crash, TypeOK
  <2>2. faults' \in 0 .. MaxFaults
    BY <1>5 DEF Crash, Fault, TypeOK
  <2>3. QED
    BY <1>2, <1>5, <2>1, <2>2 DEF Crash, TypeOK
<1>6. CASE StartWorker(w)
  BY <1>6 DEF StartWorker, TypeOK
<1>7. QED
  BY <1>3, <1>4, <1>5, <1>6 DEF ProcessStep

LEMMA TickType ==
  ASSUME TypeOK, Tick
  PROVE  TypeOK'
<1> USE SchedulerAssumption
<1>1. ASSUME NEW t \in -MaxAge .. LeaseDuration
      PROVE  Older(t) \in -MaxAge .. LeaseDuration
  BY DEF Older, AtLeast
<1>2. ASSUME NEW t \in Int PROVE Older(t) \in Int
  BY DEF Older, AtLeast
<1>3. ASSUME NEW j \in Jobs
      PROVE  /\ [row[j] EXCEPT !.due = Older(row[j].due)] \in Rows
             /\ [row[j] EXCEPT !.left = Older(row[j].left),
                               !.due = Older(row[j].due)] \in Rows
  <2>1. row[j] \in Rows
    BY DEF TypeOK
  <2>2. Older(row[j].left) \in -MaxAge .. LeaseDuration /\ Older(row[j].due) \in Int
    BY <1>1, <1>2, <2>1 DEF Rows
  <2>3. QED
    BY <2>1, <2>2 DEF Rows
<1>4. row' \in [Jobs -> Rows]
  BY <1>3 DEF Tick, TypeOK
<1>5. ASSUME NEW w \in Workers, poll[w].pc # "idle"
      PROVE  [poll[w] EXCEPT !.age = poll[w].age + 1] \in Polls
  <2>1. poll[w] \in Polls /\ poll[w].age < MaxAge
    BY <1>5 DEF Tick, TypeOK
  <2>2. poll[w].age + 1 \in 0 .. MaxAge
    BY <2>1 DEF Polls
  <2>3. QED
    BY <2>1, <2>2 DEF Polls
<1>6. poll' \in [Workers -> Polls]
  BY <1>5 DEF Tick, TypeOK
<1>7. ASSUME NEW l \in Leases
      PROVE  [att[l] EXCEPT !.beat = AtLeast(att[l].beat - 1, 0)] \in Attempts
  BY DEF AtLeast, TypeOK, Attempts
<1>8. att' \in [Leases -> Attempts]
  BY <1>7 DEF Tick, TypeOK
<1>9. QED
  BY <1>4, <1>6, <1>8 DEF Tick, TypeOK
(* TypeOK is preserved by every step. *)
LEMMA TypeStep == TypeOK /\ WellFormed /\ [Next]_vars => TypeOK'
<1> SUFFICES ASSUME TypeOK, WellFormed, [Next]_vars PROVE TypeOK'
  OBVIOUS
<1>1. CASE UNCHANGED vars
  BY <1>1 DEF vars, TypeOK
<1>2. CASE Next
  BY <1>2, ServiceType, PollType, AttemptType, CancelType, ProcessType, TickType
  DEF Next
<1>3. QED
  BY <1>1, <1>2

----------------------------------------------------------------------------
(* All steps but a successful claim hand out no lease: rows keep theirs or  *)
(* lose it, attempts go on or end, and an attempt goes live only on a row   *)
(* that carries its token.                                                  *)
RowsKept ==
    \A j \in Jobs :
      \/ row'[j].lease = row[j].lease /\ row'[j].status = row[j].status
      \/ row'[j].lease = None /\ row'[j].status # "running"
AttemptsKept ==
    \A l \in Leases :
      /\ att'[l].pc # "none" =>
           /\ att[l].pc # "none"
           /\ att'[l].job = att[l].job /\ att'[l].worker = att[l].worker
      /\ LiveAttempt(l)' => LiveAttempt(l) \/ \E j \in Jobs : row[j].lease = l
CallsKept == \A c \in Callers : op'[c] = op[c] \/ op'[c] = NoCall

LEMMA KeptLease ==
  ASSUME TypeOK, LeaseIdentifiesOwner, RowsKept, AttemptsKept
  PROVE  LeaseIdentifiesOwner'
<1>1. \A j \in Jobs : row'[j].status = "running" <=> row'[j].lease # None
  BY DEF LeaseIdentifiesOwner, RowsKept
<1>2. \A i, j \in Jobs : i # j /\ row'[i].lease # None
                           => row'[i].lease # row'[j].lease
  BY DEF LeaseIdentifiesOwner, RowsKept
<1>3. \A j \in Jobs, l \in Leases :
        row'[j].lease = l /\ att'[l].pc # "none" => att'[l].job = j
  <2> SUFFICES ASSUME NEW j \in Jobs, NEW l \in Leases,
                      row'[j].lease = l, att'[l].pc # "none"
               PROVE  att'[l].job = j
    OBVIOUS
  <2>1. row[j].lease = l
    BY SchedulerAssumption DEF RowsKept
  <2>2. QED
    BY <2>1 DEF LeaseIdentifiesOwner, AttemptsKept
<1>4. QED
  BY <1>1, <1>2, <1>3 DEF LeaseIdentifiesOwner

LEMMA KeptCancel ==
  ASSUME TypeOK, WellFormed, CancelInv, RowsKept, AttemptsKept, CallsKept
  PROVE  WellFormed' /\ CancelInv'
<1>1. WellFormed'
  BY DEF WellFormed, AttemptsKept, CallsKept, NoCall
<1>2. CancelInv'
  <2> SUFFICES ASSUME NEW c \in Callers, NEW l \in Leases, op'[c].lease = l
               PROVE  /\ op'[c].pc \in {"signal", "done"} =>
                           \A j \in Jobs : row'[j].lease # l
                      /\ op'[c].pc = "done" /\ att'[l].worker = op'[c].svc
                           => ~LiveAttempt(l)'
    BY DEF CancelInv
  <2>1. op'[c] = op[c]
    BY SchedulerAssumption DEF CallsKept, NoCall
  <2>2. ASSUME op[c].pc \in {"signal", "done"}, NEW j \in Jobs
        PROVE  row'[j].lease # l
    BY <2>1, <2>2, SchedulerAssumption DEF CancelInv, RowsKept
  <2>3. ASSUME op[c].pc = "done", att'[l].worker = op[c].svc, LiveAttempt(l)'
        PROVE  FALSE
    <3>1. att'[l].pc # "none"
      BY <2>3 DEF LiveAttempt
    <3>2. att[l].worker = op[c].svc
      BY <2>3, <3>1 DEF AttemptsKept
    <3>3. LiveAttempt(l)
      BY <2>1, <2>3 DEF AttemptsKept, CancelInv
    <3>4. QED
      BY <2>1, <2>3, <3>2, <3>3 DEF CancelInv
  <2>4. QED
    BY <2>1, <2>2, <2>3
<1>3. QED
  BY <1>1, <1>2

LEMMA ServiceKept ==
  ASSUME TypeOK, ServiceStep
  PROVE  RowsKept /\ AttemptsKept /\ CallsKept
<1>1. UNCHANGED <<att, op>>
  BY DEF ServiceStep, Schedule, Retry, Cleanup, Trim, Publish
<1>2. ASSUME NEW j \in Jobs, NEW r,
             row' = [row EXCEPT ![j] = r], r.lease = None, r.status # "running"
      PROVE  RowsKept
  BY <1>2 DEF RowsKept, TypeOK
<1>3. ASSUME NEW j \in Jobs, NEW d \in Deployments, NEW t \in ScheduleDelays,
             Schedule(j, d, t)
      PROVE  RowsKept
  <2>1. /\ PendingRow([NoRow EXCEPT !.dep = d], t, 0).lease = None
        /\ PendingRow([NoRow EXCEPT !.dep = d], t, 0).status # "running"
    BY DEF PendingRow, NoRow
  <2>2. QED
    BY <1>2, <1>3, <2>1 DEF Schedule
<1>4. ASSUME NEW j \in Jobs, Retry(j)
      PROVE  RowsKept
  <2>1. /\ PendingRow(row[j], 0, 0).lease = None
        /\ PendingRow(row[j], 0, 0).status # "running"
    BY DEF PendingRow, TypeOK, Rows
  <2>2. QED
    BY <1>2, <1>4, <2>1 DEF Retry
<1>5. ASSUME NEW j \in Jobs, Cleanup(j)
      PROVE  RowsKept
  <2>1. NoRow.lease = None /\ NoRow.status # "running"
    BY DEF NoRow
  <2>2. QED
    BY <1>2, <1>5, <2>1 DEF Cleanup
<1>6. ASSUME NEW d \in Deployments, Trim(d) \/ Publish(d)
      PROVE  RowsKept
  BY <1>6 DEF Trim, Publish, RowsKept
<1>7. QED
  BY <1>1, <1>3, <1>4, <1>5, <1>6
  DEF ServiceStep, AttemptsKept, CallsKept, LiveAttempt

LEMMA SettleKept ==
  ASSUME TypeOK, WellFormed, NEW l \in Leases, att[l].pc # "none",
         EndAttempt(l), NEW outcome \in Outcomes, NEW t \in Nat,
         \/ UNCHANGED row
         \/ row' = [row EXCEPT ![att[l].job] = Settled(l, @, outcome, t)]
  PROVE  RowsKept /\ AttemptsKept
<1>1. att[l].job \in Jobs /\ row[att[l].job] \in Rows
  BY DEF WellFormed, TypeOK
<1>2. /\ Settled(l, row[att[l].job], outcome, t).lease = None
      /\ Settled(l, row[att[l].job], outcome, t).status # "running"
  BY <1>1, SettledType
<1>3. RowsKept
  BY <1>1, <1>2 DEF RowsKept, TypeOK
<1>4. AttemptsKept
  BY DEF AttemptsKept, EndAttempt, NoAttempt, LiveAttempt, TypeOK
<1>5. QED
  BY <1>3, <1>4

LEMMA AttemptKept ==
  ASSUME TypeOK, WellFormed, NEW l \in Leases, AttemptStep(l)
  PROVE  RowsKept /\ AttemptsKept /\ CallsKept
<1>1. CallsKept
  BY DEF AttemptStep, Register, Begin, Renew, Return, CallsKept
<1>2. CASE Register(l)
  <2>1. RowsKept
    BY <1>2 DEF Register, RowsKept
  <2>2. AttemptsKept
    BY <1>2 DEF Register, AttemptsKept, LiveAttempt, TypeOK, Attempts
  <2>3. QED
    BY <1>1, <2>1, <2>2
<1>3. ASSUME NEW outcome \in Outcomes, att[l].pc # "none", Settle(l, outcome)
      PROVE  RowsKept /\ AttemptsKept
  BY <1>3, SettleKept, SchedulerAssumption DEF Settle
<1>4. ASSUME att[l].pc # "none", EndAttempt(l), UNCHANGED row
      PROVE  RowsKept /\ AttemptsKept
  BY <1>4 DEF RowsKept, AttemptsKept, EndAttempt, NoAttempt, LiveAttempt, TypeOK
<1>5. CASE Begin(l)
  <2>1. att[l].pc # "none" /\ "fail" \in Outcomes
    BY <1>5 DEF Begin, Outcomes
  <2>2. CASE /\ StillOurs(l)
             /\ att' = [att EXCEPT ![l].pc = "running", ![l].beat = RenewInterval]
             /\ UNCHANGED row
    <3>1. att[l].job \in Jobs /\ row[att[l].job].lease = l
      BY <2>1, <2>2 DEF StillOurs, Owns, WellFormed
    <3>2. RowsKept
      BY <2>2 DEF RowsKept
    <3>3. AttemptsKept
      BY <2>1, <2>2, <3>1 DEF AttemptsKept, LiveAttempt, TypeOK, Attempts
    <3>4. QED
      BY <1>1, <3>2, <3>3
  <2>3. CASE /\ row' = [row EXCEPT ![att[l].job] = EndedRow(@, "failed")]
             /\ EndAttempt(l)
    <3>1. Settled(l, row[att[l].job], "fail", 0) = EndedRow(row[att[l].job], "failed")
      BY DEF Settled
    <3>2. QED
      BY <1>1, <2>1, <2>3, <3>1, SettleKept
  <2>4. QED
    BY <1>1, <1>3, <1>4, <1>5, <2>1, <2>2, <2>3 DEF Begin
<1>6. CASE Renew(l)
  <2>1. RowsKept
    BY <1>6 DEF Renew, Renewed, RowsKept, TypeOK, Rows
  <2>2. AttemptsKept
    BY <1>6 DEF Renew, AttemptsKept, LiveAttempt, TypeOK, Attempts
  <2>3. QED
    BY <1>1, <2>1, <2>2
<1>7. ASSUME NEW outcome \in Outcomes, Return(l, outcome)
      PROVE  RowsKept /\ AttemptsKept
  <2>1. att[l].pc # "none"
    BY <1>7 DEF Return
  <2>2. QED
    BY <1>3, <1>4, <1>7, <2>1, SettleKept DEF Return
<1>8. QED
  BY <1>1, <1>2, <1>5, <1>6, <1>7 DEF AttemptStep

LEMMA ProcessKept ==
  ASSUME TypeOK, NEW w \in Workers, ProcessStep(w)
  PROVE  RowsKept /\ AttemptsKept /\ CallsKept
<1>1. RowsKept
  BY DEF ProcessStep, Stop, StopDone, Crash, StartWorker, RowsKept
<1>2. AttemptsKept
  BY DEF ProcessStep, Stop, StopDone, Crash, StartWorker, AttemptsKept,
         NoAttempt, LiveAttempt, TypeOK, Attempts
<1>3. CallsKept
  BY DEF ProcessStep, Stop, StopDone, Crash, StartWorker, AbortCalls, CallsKept
<1>4. QED
  BY <1>1, <1>2, <1>3

LEMMA TickKept ==
  ASSUME TypeOK, Tick
  PROVE  RowsKept /\ AttemptsKept /\ CallsKept
<1>1. RowsKept
  BY DEF Tick, RowsKept, TypeOK, Rows
<1>2. AttemptsKept
  BY DEF Tick, AttemptsKept, LiveAttempt, TypeOK, Attempts
<1>3. QED
  BY <1>1, <1>2 DEF Tick, CallsKept
----------------------------------------------------------------------------
(* The step that hands out a lease, and the steps of a cancellation. *)

LEMMA ClaimInv ==
  ASSUME IInv, NEW w \in Workers, NEW j \in Jobs, NEW l \in Leases,
         ClaimHit(w, j, l)
  PROVE  WellFormed' /\ LeaseIdentifiesOwner' /\ CancelInv'
<1> USE SchedulerAssumption DEF IInv
<1>1. /\ att[l].pc = "none" /\ \A i \in Jobs : row[i].lease # l
      /\ \A c \in Callers : op[c].lease # l
  BY DEF ClaimHit, Fresh
<1>2. /\ \A i \in Jobs : i # j => row'[i] = row[i]
      /\ row'[j].status = "running" /\ row'[j].lease = l
  BY DEF ClaimHit, TypeOK, Rows
<1>3. /\ \A k \in Leases : k # l => att'[k] = att[k]
      /\ att'[l].pc = "claimed" /\ att'[l].job = j /\ att'[l].worker = w
      /\ op' = op
  BY DEF ClaimHit, TypeOK, NoAttempt
<1>4. WellFormed'
  BY <1>3 DEF WellFormed
<1>5. LeaseIdentifiesOwner'
  <2>1. \A i \in Jobs : row'[i].status = "running" <=> row'[i].lease # None
    BY <1>2 DEF LeaseIdentifiesOwner
  <2>2. \A i, k \in Jobs : i # k /\ row'[i].lease # None
                             => row'[i].lease # row'[k].lease
    BY <1>1, <1>2 DEF LeaseIdentifiesOwner
  <2>3. \A i \in Jobs, k \in Leases :
          row'[i].lease = k /\ att'[k].pc # "none" => att'[k].job = i
    BY <1>1, <1>2, <1>3 DEF LeaseIdentifiesOwner
  <2>4. QED
    BY <2>1, <2>2, <2>3 DEF LeaseIdentifiesOwner
<1>6. CancelInv'
  <2> SUFFICES ASSUME NEW c \in Callers, NEW k \in Leases, op'[c].lease = k
               PROVE  /\ op'[c].pc \in {"signal", "done"} =>
                           \A i \in Jobs : row'[i].lease # k
                      /\ op'[c].pc = "done" /\ att'[k].worker = op'[c].svc
                           => ~LiveAttempt(k)'
    BY DEF CancelInv
  <2>1. k # l /\ op[c].lease = k
    BY <1>1, <1>3
  <2>2. op[c].pc \in {"signal", "done"} => \A i \in Jobs : row'[i].lease # k
    BY <1>2, <2>1 DEF CancelInv
  <2>3. op[c].pc = "done" /\ att'[k].worker = op[c].svc => ~LiveAttempt(k)'
    BY <1>3, <2>1 DEF CancelInv, LiveAttempt
  <2>4. QED
    BY <1>3, <2>2, <2>3
<1>7. QED
  BY <1>4, <1>5, <1>6

LEMMA PollInv ==
  ASSUME IInv, NEW w \in Workers, PollStep(w)
  PROVE  WellFormed' /\ LeaseIdentifiesOwner' /\ CancelInv'
<1>1. ASSUME NEW j \in Jobs, NEW l \in Leases, ClaimHit(w, j, l)
      PROVE  WellFormed' /\ LeaseIdentifiesOwner' /\ CancelInv'
  BY <1>1, ClaimInv
<1>2. ASSUME UNCHANGED <<row, att, op>>
      PROVE  WellFormed' /\ LeaseIdentifiesOwner' /\ CancelInv'
  BY <1>2 DEF IInv, WellFormed, LeaseIdentifiesOwner, CancelInv, LiveAttempt
<1>3. QED
  BY <1>1, <1>2 DEF PollStep, Poll, AcquireSlot, AbandonBatch, ClaimMiss

LEMMA CancelRows ==
  ASSUME TypeOK, WellFormed, NEW c \in Callers, CancelStep(c)
  PROVE  RowsKept /\ AttemptsKept
<1>1. CASE CancelUpdate(c)
  <2>1. op[c].job \in Jobs
    BY <1>1 DEF CancelUpdate, WellFormed
  <2>2. /\ EndedRow(row[op[c].job], "canceled").lease = None
        /\ EndedRow(row[op[c].job], "canceled").status # "running"
    BY <2>1 DEF EndedRow, TypeOK, Rows
  <2>3. RowsKept
    BY <1>1, <2>1, <2>2 DEF CancelUpdate, RowsKept, TypeOK
  <2>4. AttemptsKept
    BY <1>1 DEF CancelUpdate, AttemptsKept, LiveAttempt
  <2>5. QED
    BY <2>3, <2>4
<1>2. CASE CancelSignal(c)
  <2>1. AttemptsKept
    BY <1>2 DEF CancelSignal, AttemptsKept, LiveAttempt, TypeOK, Attempts
  <2>2. QED
    BY <1>2, <2>1 DEF CancelSignal, RowsKept
<1>3. CASE CancelReload(c) \/ CancelReturn(c)
           \/ \E w \in Workers, j \in Jobs : CancelCall(c, w, j)
  BY <1>3 DEF CancelReload, CancelReturn, CancelCall, RowsKept, AttemptsKept,
              LiveAttempt
<1>4. QED
  BY <1>1, <1>2, <1>3 DEF CancelStep

LEMMA CancelStepInv ==
  ASSUME IInv, NEW c \in Callers, CancelStep(c)
  PROVE  WellFormed' /\ LeaseIdentifiesOwner' /\ CancelInv'
<1> USE SchedulerAssumption DEF IInv
<1>1. RowsKept /\ AttemptsKept
  BY CancelRows
<1>2. LeaseIdentifiesOwner'
  BY <1>1, KeptLease
(* The other calls in progress are as they were. *)
<1>3. \A e \in Callers : e # c => op'[e] = op[e]
  BY DEF CancelStep, CancelCall, CancelReload, ReadForCancel, CancelUpdate,
         CancelSignal, CancelReturn, TypeOK
(* The call's own state: what it has read, and whether it has succeeded. *)
<1>4. /\ op'[c].pc # "idle" => op'[c].job \in Jobs /\ op'[c].svc \in Workers
      /\ op'[c].pc = "read" => op'[c].reads < CancelReads
      /\ op'[c].pc # "idle" /\ op'[c].status # "running" => op'[c].lease = None
  <2>1. ASSUME NEW j \in Jobs, NEW w \in Workers, NEW n \in Nat,
               ReadForCancel(c, j, w, n)
        PROVE  /\ op'[c].pc # "idle" => op'[c].job \in Jobs /\ op'[c].svc \in Workers
               /\ op'[c].pc = "read" => op'[c].reads < CancelReads
               /\ op'[c].pc # "idle" /\ op'[c].status # "running"
                    => op'[c].lease = None
    BY <2>1 DEF ReadForCancel, NoCall, TypeOK, LeaseIdentifiesOwner
  <2>2. ASSUME NEW j \in Jobs, NEW w \in Workers, CancelCall(c, w, j)
        PROVE  /\ op'[c].pc # "idle" => op'[c].job \in Jobs /\ op'[c].svc \in Workers
               /\ op'[c].pc = "read" => op'[c].reads < CancelReads
               /\ op'[c].pc # "idle" /\ op'[c].status # "running"
                    => op'[c].lease = None
    BY <2>1, <2>2 DEF CancelCall
  <2>3. CASE CancelReload(c)
    <3>1. op[c].job \in Jobs /\ op[c].svc \in Workers /\ op[c].reads + 1 \in Nat
      BY <2>3 DEF CancelReload, WellFormed, TypeOK, Calls
    <3>2. QED
      BY <2>1, <2>3, <3>1 DEF CancelReload
  <2>4. CASE CancelUpdate(c)
    <3>1. op[c].pc = "update" /\ op[c] \in Calls
      BY <2>4 DEF CancelUpdate, TypeOK
    <3>2. CASE op' = [op EXCEPT ![c].pc = IF op[c].status = "running"
                                          THEN "signal" ELSE "done"]
      BY <3>1, <3>2 DEF WellFormed, TypeOK, Calls
    <3>3. CASE /\ op' = [op EXCEPT ![c] =
                            [@ EXCEPT !.pc = "read", !.lease = None,
                                      !.status = "absent"]]
               /\ MayReload(c)
      BY <3>1, <3>3 DEF MayReload, WellFormed, TypeOK, Calls
    <3>4. CASE op' = [op EXCEPT ![c] = NoCall]
      BY <3>4 DEF NoCall, TypeOK
    <3>5. QED
      BY <2>4, <3>2, <3>3, <3>4 DEF CancelUpdate
  <2>5. CASE CancelSignal(c) \/ CancelReturn(c)
    BY <2>5 DEF CancelSignal, CancelReturn, NoCall, WellFormed, TypeOK, Calls
  <2>6. QED
    BY <2>2, <2>3, <2>4, <2>5 DEF CancelStep
<1>5. WellFormed'
  BY <1>1, <1>3, <1>4 DEF WellFormed, AttemptsKept
<1>6. CancelInv'
  <2> SUFFICES ASSUME NEW e \in Callers, NEW l \in Leases, op'[e].lease = l
               PROVE  /\ op'[e].pc \in {"signal", "done"} =>
                           \A j \in Jobs : row'[j].lease # l
                      /\ op'[e].pc = "done" /\ att'[l].worker = op'[e].svc
                           => ~LiveAttempt(l)'
    BY DEF CancelInv
  <2>1. ASSUME \A j \in Jobs : row[j].lease # l
        PROVE  \A j \in Jobs : row'[j].lease # l
    BY <1>1, <2>1 DEF RowsKept
  <2>2. ASSUME \A j \in Jobs : row[j].lease # l, ~LiveAttempt(l)
        PROVE  ~LiveAttempt(l)'
    BY <1>1, <2>2 DEF AttemptsKept
  <2>3. ASSUME att'[l].worker # att[l].worker
        PROVE  ~LiveAttempt(l)'
    BY <1>1, <2>3 DEF AttemptsKept, LiveAttempt
  <2>4. CASE op'[e] = op[e]
    BY <2>1, <2>2, <2>3, <2>4 DEF CancelInv
  <2>5. CASE e = c /\ CancelUpdate(c)
    <3>1. ASSUME op'[c].pc \in {"signal", "done"}
          PROVE  /\ op[c].lease = l /\ row[op[c].job].lease = l
                 /\ row' = [row EXCEPT ![op[c].job] = EndedRow(@, "canceled")]
                 /\ op'[c].pc = "signal"
      <4>1. CASE /\ row' = [row EXCEPT ![op[c].job] = EndedRow(@, "canceled")]
                 /\ row[op[c].job].lease = op[c].lease
                 /\ op' = [op EXCEPT ![c].pc = IF op[c].status = "running"
                                               THEN "signal" ELSE "done"]
        <5>1. op[c].pc = "update" /\ op[c] \in Calls
          BY <2>5 DEF CancelUpdate, TypeOK
        <5>2. op[c].lease = l
          BY <2>5, <4>1, <5>1 DEF TypeOK, Calls
        <5>3. op[c].status = "running"
          BY <5>1, <5>2 DEF WellFormed
        <5>4. QED
          BY <4>1, <5>1, <5>2, <5>3 DEF TypeOK, Calls
      <4>2. CASE op' = [op EXCEPT ![c] =
                          IF MayReload(c)
                          THEN [@ EXCEPT !.pc = "read", !.lease = None,
                                         !.status = "absent"]
                          ELSE NoCall]
        BY <3>1, <4>2 DEF NoCall, TypeOK, Calls
      <4>3. CASE op' = [op EXCEPT ![c] = NoCall]
        BY <3>1, <4>3 DEF NoCall, TypeOK
      <4>4. QED
        BY <2>5, <4>1, <4>2, <4>3 DEF CancelUpdate
    <3>2. ASSUME op'[c].pc \in {"signal", "done"}, NEW j \in Jobs
          PROVE  row'[j].lease # l
      <4>1. op[c].job \in Jobs
        BY <2>5 DEF CancelUpdate, WellFormed
      <4>2. CASE j = op[c].job
        <5>1. row'[j] = EndedRow(row[j], "canceled") /\ row[j] \in Rows
          BY <3>1, <3>2, <4>2 DEF TypeOK
        <5>2. QED
          BY <5>1 DEF EndedRow, Rows
      <4>3. CASE j # op[c].job
        BY <3>1, <3>2, <4>1, <4>3 DEF LeaseIdentifiesOwner, TypeOK
      <4>4. QED
        BY <4>2, <4>3
    <3>3. QED
      BY <2>5, <3>1, <3>2
  <2>6. CASE e = c /\ CancelSignal(c)
    <3>1. /\ op[c].pc = "signal" /\ op[c].lease = l /\ op'[c].svc = op[c].svc
          /\ \A j \in Jobs : row'[j].lease # l
      BY <2>6, <2>1 DEF CancelSignal, CancelInv, TypeOK, Calls
    <3>2. att'[l].worker = op[c].svc => ~LiveAttempt(l)'
      BY <2>6, <3>1 DEF CancelSignal, LiveAttempt, TypeOK, Attempts
    <3>3. QED
      BY <2>6, <3>1, <3>2
  <2>7. CASE e = c /\ (CancelReload(c) \/ CancelReturn(c)
                        \/ \E w \in Workers, j \in Jobs : CancelCall(c, w, j))
    BY <2>7 DEF CancelReload, CancelReturn, CancelCall, ReadForCancel, NoCall,
                TypeOK
  <2>8. QED
    BY <1>3, <2>4, <2>5, <2>6, <2>7 DEF CancelStep
<1>7. QED
  BY <1>2, <1>5, <1>6

----------------------------------------------------------------------------
(* The invariant is inductive. *)
LEMMA NextInv == IInv /\ [Next]_vars => IInv'
<1> SUFFICES ASSUME IInv, [Next]_vars PROVE IInv'
  OBVIOUS
<1>1. TypeOK'
  BY TypeStep DEF IInv
<1>2. ASSUME RowsKept, AttemptsKept, CallsKept
      PROVE  WellFormed' /\ LeaseIdentifiesOwner' /\ CancelInv'
  BY <1>2, KeptLease, KeptCancel DEF IInv
<1>3. WellFormed' /\ LeaseIdentifiesOwner' /\ CancelInv'
  <2>1. CASE UNCHANGED vars
    BY <2>1 DEF vars, IInv, WellFormed, LeaseIdentifiesOwner, CancelInv,
                LiveAttempt
  <2>2. ASSUME NEW w \in Workers, PollStep(w)
        PROVE  WellFormed' /\ LeaseIdentifiesOwner' /\ CancelInv'
    BY <2>2, PollInv
  <2>3. ASSUME NEW w \in Workers, ProcessStep(w)
        PROVE  WellFormed' /\ LeaseIdentifiesOwner' /\ CancelInv'
    BY <1>2, <2>3, ProcessKept DEF IInv
  <2>4. ASSUME NEW l \in Leases, AttemptStep(l)
        PROVE  WellFormed' /\ LeaseIdentifiesOwner' /\ CancelInv'
    BY <1>2, <2>4, AttemptKept DEF IInv
  <2>5. ASSUME NEW c \in Callers, CancelStep(c)
        PROVE  WellFormed' /\ LeaseIdentifiesOwner' /\ CancelInv'
    BY <2>5, CancelStepInv
  <2>6. CASE ServiceStep
    BY <1>2, <2>6, ServiceKept DEF IInv
  <2>7. CASE Tick
    BY <1>2, <2>7, TickKept DEF IInv
  <2>8. QED
    BY <2>1, <2>2, <2>3, <2>4, <2>5, <2>6, <2>7 DEF Next
<1>4. QED
  BY <1>1, <1>3 DEF IInv

THEOREM Invariance == Spec => []IInv
<1>1. Init => IInv
  BY InitInv
<1>2. IInv /\ [Next]_vars => IInv'
  BY NextInv
<1>3. QED
  BY <1>1, <1>2, PTL DEF Spec
(* Every variable of the scheduler always holds a value of its kind. *)
THEOREM TypeCorrect == Spec => []TypeOK
BY Invariance, PTL DEF IInv

(* The lease token alone identifies the owner of a running row. *)
THEOREM LeaseTheorem == Spec => []LeaseIdentifiesOwner
BY Invariance, PTL DEF IInv

(* When Service.Cancel has returned, the attempt it cancelled in its own    *)
(* process has been told to stop or will never start.                       *)
THEOREM CancelTheorem == Spec => []CancelStopsAttempt
<1>1. IInv => CancelStopsAttempt
  BY DEF IInv, CancelInv, CancelStopsAttempt
<1>2. QED
  BY <1>1, Invariance, PTL

----------------------------------------------------------------------------
(* Action properties. *)

LEMMA ClaimIsDue ==
  ASSUME TypeOK, NEW w \in Workers, NEW j \in Jobs, NEW l \in Leases,
         ClaimHit(w, j, l)
  PROVE  /\ \A i \in Jobs : i # j => row'[i] = row[i]
         /\ row'[j].status = "running"
         /\ row[j].status = "pending" => row[j].due <= 0
         /\ row[j].status = "running" => row[j].left <= 0
<1>1. /\ \A i \in Jobs : i # j => row'[i] = row[i]
      /\ row'[j].status = "running"
  BY DEF ClaimHit, TypeOK, Rows
<1>2. poll[w].age \in Nat /\ row[j].due \in Int /\ row[j].left \in Int
  BY SchedulerAssumption DEF TypeOK, Polls, Rows
<1>3. /\ row[j].status = "pending" => row[j].due <= -poll[w].age
      /\ row[j].status = "running" => row[j].left <= -poll[w].age
  BY DEF ClaimHit, Claimable
<1>4. QED
  BY <1>1, <1>2, <1>3

(* A job never starts before it is due: only claimOne starts one, and its   *)
(* clock reading is never ahead of the clock.                               *)
THEOREM NeverEarlyTheorem == Spec => NeverEarly
<1> DEFINE Fine == \A j \in Jobs :
      row[j].status = "pending" /\ row'[j].status = "running" => row[j].due <= 0
<1>1. IInv /\ [Next]_vars => Fine
  <2> SUFFICES ASSUME IInv, [Next]_vars PROVE Fine
    OBVIOUS
  <2>1. ASSUME RowsKept PROVE Fine
    BY <2>1 DEF RowsKept
  <2>2. CASE UNCHANGED vars
    BY <2>2 DEF vars
  <2>3. ASSUME NEW w \in Workers, PollStep(w) PROVE Fine
    <3>1. ASSUME NEW j \in Jobs, NEW l \in Leases, ClaimHit(w, j, l) PROVE Fine
      BY <3>1, ClaimIsDue DEF IInv
    <3>2. CASE UNCHANGED row
      BY <3>2
    <3>3. QED
      BY <2>3, <3>1, <3>2 DEF PollStep, Poll, AcquireSlot, AbandonBatch, ClaimMiss
  <2>4. ASSUME NEW w \in Workers, ProcessStep(w) PROVE Fine
    BY <2>1, <2>4, ProcessKept DEF IInv
  <2>5. ASSUME NEW l \in Leases, AttemptStep(l) PROVE Fine
    BY <2>1, <2>5, AttemptKept DEF IInv
  <2>6. ASSUME NEW c \in Callers, CancelStep(c) PROVE Fine
    BY <2>1, <2>6, CancelRows DEF IInv
  <2>7. CASE ServiceStep
    BY <2>1, <2>7, ServiceKept DEF IInv
  <2>8. CASE Tick
    BY <2>1, <2>8, TickKept DEF IInv
  <2>9. QED
    BY <2>2, <2>3, <2>4, <2>5, <2>6, <2>7, <2>8 DEF Next
<1>2. QED
  BY <1>1, Invariance, PTL DEF Spec, NeverEarly
LEMMA SettleOwner ==
  ASSUME TypeOK, WellFormed, NEW l \in Leases,
         att[l].pc \in {"registered", "running"},
         EndAttempt(l), NEW outcome \in Outcomes, NEW t \in Nat,
         \/ UNCHANGED row
         \/ Owns(l) /\ row' = [row EXCEPT ![att[l].job] = Settled(l, @, outcome, t)]
  PROVE  OwnersOnly
<1> SUFFICES ASSUME NEW j \in Jobs, row'[j].lease # row[j].lease
             PROVE  Surrendered(j)
  BY DEF OwnersOnly
<1>1. /\ att[l].job \in Jobs /\ row[att[l].job] \in Rows
      /\ Owns(l) /\ row' = [row EXCEPT ![att[l].job] = Settled(l, @, outcome, t)]
  BY DEF WellFormed, TypeOK
<1>2. j = att[l].job /\ row[j].lease = l
  BY <1>1 DEF Owns, TypeOK
<1>3. row'[j].status \in {"completed", "failed", "pending"}
  BY <1>1, <1>2, SettledType DEF TypeOK
<1>4. att'[l].pc = "none"
  BY DEF EndAttempt, NoAttempt, TypeOK
<1>5. QED
  BY <1>2, <1>3, <1>4 DEF Surrendered

LEMMA AttemptOwner ==
  ASSUME TypeOK, WellFormed, NEW l \in Leases, AttemptStep(l)
  PROVE  OwnersOnly
<1>1. ASSUME UNCHANGED row PROVE OwnersOnly
  BY <1>1 DEF OwnersOnly
<1>2. ASSUME NEW outcome \in Outcomes, att[l].pc \in {"registered", "running"},
             Settle(l, outcome)
      PROVE  OwnersOnly
  BY <1>2, SettleOwner, SchedulerAssumption DEF Settle
<1>3. CASE Begin(l)
  <2>1. "fail" \in Outcomes /\ att[l].pc = "registered"
    BY <1>3 DEF Begin, Outcomes
  <2>2. CASE /\ Owns(l) /\ EndAttempt(l)
             /\ row' = [row EXCEPT ![att[l].job] = EndedRow(@, "failed")]
    <3>1. Settled(l, row[att[l].job], "fail", 0) = EndedRow(row[att[l].job], "failed")
      BY DEF Settled
    <3>2. QED
      BY <2>1, <2>2, <3>1, SettleOwner
  <2>3. QED
    BY <1>1, <1>2, <1>3, <2>1, <2>2 DEF Begin
<1>4. CASE Renew(l)
  <2>1. \A r \in Rows : Renewed(r).lease = r.lease
    BY DEF Renewed, Rows
  <2>2. att[l].job \in Jobs
    BY <1>4 DEF Renew, WellFormed
  <2>3. QED
    BY <1>1, <1>4, <2>1, <2>2 DEF Renew, OwnersOnly, TypeOK
<1>5. ASSUME NEW outcome \in Outcomes, Return(l, outcome)
      PROVE  OwnersOnly
  <2>1. att[l].pc = "running"
    BY <1>5 DEF Return
  <2>2. QED
    BY <1>1, <1>2, <1>5, <2>1, SettleOwner DEF Return
<1>6. QED
  BY <1>1, <1>3, <1>4, <1>5 DEF AttemptStep, Register

(* A result is recorded only by the attempt that owns the row, in the step  *)
(* that ends it; otherwise a running row changes hands only when its lease  *)
(* has expired, or is cancelled.                                            *)
THEOREM OnlyOwnerTheorem == Spec => OnlyOwnerSettles
<1>1. IInv /\ [Next]_vars => OwnersOnly
  <2> SUFFICES ASSUME IInv, [Next]_vars PROVE OwnersOnly
    OBVIOUS
  <2> USE DEF IInv
  <2>1. ASSUME \A j \in Jobs : row[j].status = "running" => row'[j] = row[j]
        PROVE  OwnersOnly
    BY <2>1 DEF OwnersOnly
  <2>2. CASE UNCHANGED vars
    BY <2>1, <2>2 DEF vars
  <2>3. ASSUME NEW w \in Workers, PollStep(w) PROVE OwnersOnly
    <3>1. ASSUME NEW j \in Jobs, NEW l \in Leases, ClaimHit(w, j, l)
          PROVE  OwnersOnly
      BY <3>1, ClaimIsDue DEF OwnersOnly, Surrendered
    <3>2. QED
      BY <2>1, <2>3, <3>1 DEF PollStep, Poll, AcquireSlot, AbandonBatch, ClaimMiss
  <2>4. ASSUME NEW w \in Workers, ProcessStep(w) PROVE OwnersOnly
    BY <2>1, <2>4 DEF ProcessStep, Stop, StopDone, Crash, StartWorker
  <2>5. ASSUME NEW l \in Leases, AttemptStep(l) PROVE OwnersOnly
    BY <2>5, AttemptOwner
  <2>6. ASSUME NEW c \in Callers, CancelStep(c) PROVE OwnersOnly
    <3>1. CASE CancelUpdate(c)
      <4>1. op[c].job \in Jobs /\ \A r \in Rows : EndedRow(r, "canceled").status = "canceled"
        BY <3>1 DEF CancelUpdate, WellFormed, EndedRow, Rows
      <4>2. QED
        BY <3>1, <4>1 DEF CancelUpdate, OwnersOnly, Surrendered, TypeOK
    <3>2. QED
      BY <2>1, <2>6, <3>1
      DEF CancelStep, CancelReload, CancelSignal, CancelReturn, CancelCall
  <2>7. CASE ServiceStep
    <3>1. \A j \in Jobs : row[j].status = "running" => row'[j] = row[j]
      BY <2>7 DEF ServiceStep, Schedule, FreshJob, Retry, Cleanup, Trim, Publish,
                  Terminal, TypeOK
    <3>2. QED
      BY <2>1, <3>1
  <2>8. CASE Tick
    <3>1. \A j \in Jobs : row'[j].lease = row[j].lease
      BY <2>8 DEF Tick, TypeOK, Rows
    <3>2. QED
      BY <3>1 DEF OwnersOnly
  <2>9. QED
    BY <2>2, <2>3, <2>4, <2>5, <2>6, <2>7, <2>8 DEF Next
<1>2. QED
  BY <1>1, Invariance, PTL DEF Spec, OnlyOwnerSettles

----------------------------------------------------------------------------
(* Every job's snapshot exists: scheduling requires it, and trimHistory     *)
(* does not delete one that a row names.                                    *)
THEOREM SnapshotTheorem == Spec => []SnapshotAvailable
<1>1. Init => SnapshotAvailable
  BY DEF Init, NoRow, SnapshotAvailable
<1>2. IInv /\ SnapshotAvailable /\ [Next]_vars => SnapshotAvailable'
  <2> SUFFICES ASSUME IInv, SnapshotAvailable, [Next]_vars
               PROVE  SnapshotAvailable'
    OBVIOUS
  <2> USE DEF IInv
  <2>1. ASSUME store \subseteq store',
               \A j \in Jobs : row'[j].status # "absent" =>
                  /\ row[j].status # "absent" \/ row'[j].dep \in store
                  /\ row[j].status # "absent" => row'[j].dep = row[j].dep
        PROVE  SnapshotAvailable'
    BY <2>1 DEF SnapshotAvailable
  <2>2. ASSUME store' = store, NEW j \in Jobs, NEW r,
               row' = [row EXCEPT ![j] = r], r.dep = row[j].dep,
               row[j].status # "absent"
        PROVE  SnapshotAvailable'
    BY <2>2 DEF SnapshotAvailable, TypeOK
  <2>3. ASSUME UNCHANGED <<row, store>> PROVE SnapshotAvailable'
    BY <2>3 DEF SnapshotAvailable
  <2>4. ASSUME NEW l \in Leases, AttemptStep(l) PROVE SnapshotAvailable'
    <3>1. store' = store
      BY <2>4 DEF AttemptStep, Register, Begin, Renew, Return
    <3>2. ASSUME NEW outcome \in Outcomes, NEW t \in Nat, Owns(l),
                 att[l].pc # "none",
                 row' = [row EXCEPT ![att[l].job] = Settled(l, @, outcome, t)]
          PROVE  SnapshotAvailable'
      <4>1. /\ att[l].job \in Jobs /\ row[att[l].job] \in Rows
            /\ row[att[l].job].status # "absent"
        BY <3>2 DEF Owns, WellFormed, TypeOK
      <4>2. Settled(l, row[att[l].job], outcome, t).dep = row[att[l].job].dep
        BY <3>2, <4>1, SettledType
      <4>3. QED
        BY <2>2, <3>1, <3>2, <4>1, <4>2
    <3>3. ASSUME NEW outcome \in Outcomes, att[l].pc # "none", Settle(l, outcome)
          PROVE  SnapshotAvailable'
      BY <2>3, <3>1, <3>2, <3>3, SchedulerAssumption DEF Settle
    <3>4. CASE Begin(l)
      <4>1. "fail" \in Outcomes /\ att[l].pc # "none" /\ 0 \in Nat
        BY <3>4 DEF Begin, Outcomes
      <4>2. Settled(l, row[att[l].job], "fail", 0) = EndedRow(row[att[l].job], "failed")
        BY DEF Settled
      <4>3. CASE Owns(l) /\ row' = [row EXCEPT ![att[l].job] = EndedRow(@, "failed")]
        BY <3>2, <4>1, <4>2, <4>3
      <4>4. QED
        BY <2>3, <3>1, <3>3, <3>4, <4>1, <4>3 DEF Begin
    <3>5. CASE Renew(l)
      <4>1. CASE Owns(l) /\ row' = [row EXCEPT ![att[l].job] = Renewed(@)]
        <5>1. /\ att[l].job \in Jobs /\ row[att[l].job].status # "absent"
              /\ row[att[l].job] \in Rows
          BY <3>5, <4>1 DEF Renew, Owns, WellFormed, TypeOK
        <5>2. Renewed(row[att[l].job]).dep = row[att[l].job].dep
          BY <5>1 DEF Renewed, Rows
        <5>3. QED
          BY <2>2, <3>1, <4>1, <5>1, <5>2
      <4>2. QED
        BY <2>3, <3>1, <3>5, <4>1 DEF Renew
    <3>6. ASSUME NEW outcome \in Outcomes, Return(l, outcome)
          PROVE  SnapshotAvailable'
      <4>1. att[l].pc # "none" /\ 0 \in Nat
        BY <3>6 DEF Return
      <4>2. QED
        BY <2>3, <3>1, <3>2, <3>3, <3>6, <4>1 DEF Return
    <3>7. QED
      BY <2>3, <2>4, <3>1, <3>4, <3>5, <3>6 DEF AttemptStep, Register
  <2>5. ASSUME NEW c \in Callers, CancelStep(c) PROVE SnapshotAvailable'
    <3>1. CASE CancelUpdate(c)
      <4>1. op[c].job \in Jobs /\ row[op[c].job] \in Rows
        BY <3>1 DEF CancelUpdate, WellFormed, TypeOK
      <4>2. EndedRow(row[op[c].job], "canceled").dep = row[op[c].job].dep
        BY <4>1 DEF EndedRow, Rows
      <4>3. QED
        BY <2>2, <2>3, <3>1, <4>1, <4>2 DEF CancelUpdate, Live
    <3>2. QED
      BY <2>3, <2>5, <3>1
      DEF CancelStep, CancelReload, CancelSignal, CancelReturn, CancelCall
  <2>6. ASSUME NEW w \in Workers, PollStep(w) PROVE SnapshotAvailable'
    <3>1. ASSUME NEW j \in Jobs, NEW l \in Leases, ClaimHit(w, j, l)
          PROVE  SnapshotAvailable'
      <4>1. row[j].status # "absent"
        BY <3>1 DEF ClaimHit, Claimable
      <4>2. /\ \A i \in Jobs : i # j => row'[i] = row[i]
            /\ row'[j].dep = row[j].dep /\ store' = store
        BY <3>1 DEF ClaimHit, TypeOK, Rows
      <4>3. QED
        BY <4>1, <4>2 DEF SnapshotAvailable
    <3>2. QED
      BY <2>3, <2>6, <3>1 DEF PollStep, Poll, AcquireSlot, AbandonBatch, ClaimMiss
  <2>7. ASSUME NEW w \in Workers, ProcessStep(w) PROVE SnapshotAvailable'
    BY <2>3, <2>7 DEF ProcessStep, Stop, StopDone, Crash, StartWorker
  <2>8. CASE ServiceStep
    <3>1. ASSUME NEW j \in Jobs, NEW d \in Deployments, NEW t \in ScheduleDelays,
                 Schedule(j, d, t)
          PROVE  SnapshotAvailable'
      <4>1. PendingRow([NoRow EXCEPT !.dep = d], t, 0).dep = d
        BY DEF PendingRow, NoRow
      <4>2. QED
        BY <3>1, <4>1 DEF Schedule, SnapshotAvailable, TypeOK
    <3>2. ASSUME NEW j \in Jobs, Retry(j) PROVE SnapshotAvailable'
      <4>1. PendingRow(row[j], 0, 0).dep = row[j].dep
        BY DEF PendingRow, TypeOK, Rows
      <4>2. QED
        BY <2>2, <3>2, <4>1 DEF Retry, Terminal
    <3>3. ASSUME NEW j \in Jobs, Cleanup(j) PROVE SnapshotAvailable'
      <4>1. /\ \A i \in Jobs : i # j => row'[i] = row[i]
            /\ row'[j].status = "absent" /\ store' = store
        BY <3>3 DEF Cleanup, NoRow, TypeOK
      <4>2. QED
        BY <4>1 DEF SnapshotAvailable
    <3>4. ASSUME NEW d \in Deployments, Trim(d) \/ Publish(d)
          PROVE  SnapshotAvailable'
      BY <3>4 DEF Trim, Publish, SnapshotAvailable
    <3>5. QED
      BY <2>8, <3>1, <3>2, <3>3, <3>4 DEF ServiceStep
  <2>9. ASSUME UNCHANGED store,
               \A j \in Jobs : row'[j].status = row[j].status /\ row'[j].dep = row[j].dep
        PROVE  SnapshotAvailable'
    BY <2>9 DEF SnapshotAvailable
  <2>10. CASE Tick
    <3>1. \A j \in Jobs : row'[j].status = row[j].status /\ row'[j].dep = row[j].dep
      BY <2>10 DEF Tick, TypeOK, Rows
    <3>2. QED
      BY <2>10, <2>9, <3>1 DEF Tick
  <2>11. QED
    BY <2>3, <2>4, <2>5, <2>6, <2>7, <2>8, <2>10
    DEF Next, vars
<1>3. QED
  BY <1>1, <1>2, Invariance, PTL DEF Spec
----------------------------------------------------------------------------
(* The scheduler implements the job queue.  Each lemma says what a step has *)
(* to do to the rows and attempts to be one of the queue's.                 *)

Alive == {l \in Leases : att[l].pc # "none"}
Same(j) == row'[j].status = row[j].status /\ row'[j].lease = row[j].lease

LEMMA Stutters ==
  ASSUME \A j \in Jobs : Same(j), Alive' = Alive
  PROVE  UNCHANGED Queue!jvars
BY DEF Queue!jvars, Same, Alive

LEMMA Dies ==
  ASSUME \A j \in Jobs : Same(j), Alive' \subseteq Alive
  PROVE  [Queue!Next]_(Queue!jvars)
<1>1. CASE Alive' = Alive
  BY <1>1, Stutters
<1>2. CASE Alive' # Alive
  <2> DEFINE gone == Alive \ Alive'
  <2>1. gone \in SUBSET Alive /\ gone # {} /\ Alive' = Alive \ gone
    BY <1>2
  <2>2. Queue!Die
    BY <2>1 DEF Queue!Die, Same, Alive
  <2>3. QED
    BY <2>2 DEF Queue!Next
<1>3. QED
  BY <1>1, <1>2

LEMMA Enqueues ==
  ASSUME NEW j \in Jobs, row[j].status \in Terminal \cup {"absent"},
         row'[j].status = "pending", row'[j].lease = row[j].lease,
         \A i \in Jobs \ {j} : Same(i), Alive' = Alive
  PROVE  Queue!Next
<1>1. Queue!Enqueue(j)
  BY DEF Queue!Enqueue, Queue!Ended, Terminal, Same, Alive
<1>2. QED
  BY <1>1 DEF Queue!Next

LEMMA Purges ==
  ASSUME NEW j \in Jobs, row[j].status \in Terminal,
         row'[j].status = "absent", row'[j].lease = row[j].lease,
         \A i \in Jobs \ {j} : Same(i), Alive' = Alive
  PROVE  Queue!Next
<1>1. Queue!Purge(j)
  BY DEF Queue!Purge, Queue!Ended, Terminal, Same, Alive
<1>2. QED
  BY <1>1 DEF Queue!Next

LEMMA Cancels ==
  ASSUME NEW j \in Jobs, row[j].status \in Live,
         row'[j].status = "canceled", row'[j].lease = None,
         \A i \in Jobs \ {j} : Same(i), Alive' = Alive
  PROVE  Queue!Next
<1>1. Queue!Cancel(j)
  BY DEF Queue!Cancel, Live, Same, Alive
<1>2. QED
  BY <1>1 DEF Queue!Next

LEMMA Claims ==
  ASSUME NEW j \in Jobs, NEW l \in Leases, row[j].status \in Live,
         l \notin Alive, \A i \in Jobs : row[i].lease # l,
         row'[j].status = "running", row'[j].lease = l,
         \A i \in Jobs \ {j} : Same(i), Alive' = Alive \cup {l}
  PROVE  Queue!Next
<1>1. Queue!Claim(j, l)
  BY DEF Queue!Claim, Live, Same, Alive
<1>2. QED
  BY <1>1 DEF Queue!Next

LEMMA Finishes ==
  ASSUME NEW j \in Jobs, NEW l \in Alive, row[j].status = "running",
         row[j].lease = l, row'[j].lease = None,
         row'[j].status \in {"completed", "failed", "pending"},
         \A i \in Jobs \ {j} : Same(i), Alive' = Alive \ {l}
  PROVE  Queue!Next
<1>1. Queue!Finish(j)
  BY DEF Queue!Finish, Same, Alive
<1>2. QED
  BY <1>1 DEF Queue!Next
LEMMA EndsAlive ==
  ASSUME TypeOK, NEW l \in Leases, EndAttempt(l)
  PROVE  Alive' = Alive \ {l}
BY DEF EndAttempt, NoAttempt, Alive, TypeOK

(* An attempt that ends finishes the job it owns, or just dies.             *)
LEMMA SettleImplements ==
  ASSUME TypeOK, WellFormed, NEW l \in Leases, att[l].pc # "none",
         EndAttempt(l), NEW outcome \in Outcomes, NEW t \in Nat,
         \/ UNCHANGED row
         \/ Owns(l) /\ row' = [row EXCEPT ![att[l].job] = Settled(l, @, outcome, t)]
  PROVE  [Queue!Next]_(Queue!jvars)
<1>1. l \in Alive /\ Alive' = Alive \ {l}
  BY EndsAlive DEF Alive
<1>2. CASE UNCHANGED row
  BY <1>1, <1>2, Dies DEF Same
<1>3. CASE Owns(l) /\ row' = [row EXCEPT ![att[l].job] = Settled(l, @, outcome, t)]
  <2> DEFINE j == att[l].job
  <2>1. j \in Jobs /\ row[j] \in Rows
    BY DEF WellFormed, TypeOK
  <2>2. row[j].status = "running" /\ row[j].lease = l
    BY <1>3 DEF Owns
  <2>3. row'[j] = Settled(l, row[j], outcome, t)
    BY <1>3, <2>1 DEF TypeOK
  <2>4. /\ row'[j].lease = None
        /\ row'[j].status \in {"completed", "failed", "pending"}
    BY <2>1, <2>3, SettledType
  <2>5. \A i \in Jobs \ {j} : Same(i)
    BY <1>3, <2>1 DEF Same, TypeOK
  <2>6. QED
    BY <1>1, <2>1, <2>2, <2>4, <2>5, Finishes
<1>4. QED
  BY <1>2, <1>3

LEMMA AttemptImplements ==
  ASSUME TypeOK, WellFormed, NEW l \in Leases, AttemptStep(l)
  PROVE  [Queue!Next]_(Queue!jvars)
<1>1. ASSUME UNCHANGED row, NEW a \in Attempts, a.pc # "none", att[l].pc # "none",
             att' = [att EXCEPT ![l] = a]
      PROVE  [Queue!Next]_(Queue!jvars)
  <2>1. Alive' = Alive
    BY <1>1 DEF Alive, TypeOK
  <2>2. QED
    BY <1>1, <2>1, Dies DEF Same
<1>2. ASSUME NEW outcome \in Outcomes, att[l].pc # "none", Settle(l, outcome)
      PROVE  [Queue!Next]_(Queue!jvars)
  BY <1>2, SettleImplements, SchedulerAssumption DEF Settle
<1>3. att[l] \in Attempts /\ RenewInterval \in 0 .. LeaseDuration
  BY SchedulerAssumption DEF TypeOK
<1>4. CASE Register(l)
  <2>1. [att[l] EXCEPT !.pc = "registered"] \in Attempts
    BY <1>3 DEF Attempts
  <2>2. [att[l] EXCEPT !.pc = "registered"].pc = "registered"
    BY <1>3 DEF Attempts
  <2>3. QED
    BY <1>1, <1>4, <2>1, <2>2 DEF Register
<1>5. CASE Begin(l)
  <2>1. "fail" \in Outcomes /\ att[l].pc # "none" /\ 0 \in Nat
    BY <1>5 DEF Begin, Outcomes
  <2>2. CASE EndAttempt(l) /\ UNCHANGED row
    BY <2>1, <2>2, SettleImplements
  <2>3. CASE /\ att' = [att EXCEPT ![l].pc = "running", ![l].beat = RenewInterval]
             /\ UNCHANGED row
    <3> DEFINE a == [att[l] EXCEPT !.pc = "running", !.beat = RenewInterval]
    <3>1. a \in Attempts /\ a.pc = "running"
      BY <1>3 DEF Attempts
    <3>2. att' = [att EXCEPT ![l] = a]
      BY <2>3 DEF TypeOK
    <3>3. QED
      BY <1>1, <2>1, <2>3, <3>1, <3>2
  <2>4. CASE Settle(l, "fail")
    BY <1>2, <2>1, <2>4
  <2>5. CASE /\ Owns(l) /\ EndAttempt(l)
             /\ row' = [row EXCEPT ![att[l].job] = EndedRow(@, "failed")]
    <3>1. Settled(l, row[att[l].job], "fail", 0) = EndedRow(row[att[l].job], "failed")
      BY DEF Settled
    <3>2. QED
      BY <2>1, <2>5, <3>1, SettleImplements
  <2>6. QED
    BY <1>5, <2>2, <2>3, <2>4, <2>5 DEF Begin
<1>6. CASE Renew(l)
  <2>1. att[l].pc = "running"
    BY <1>6 DEF Renew
  <2>2. Alive' = Alive
    <3>1. PICK a : att' = [att EXCEPT ![l] = a] /\ a.pc = "running"
      <4>1. /\ [att[l] EXCEPT !.beat = RenewInterval].pc = "running"
            /\ [att[l] EXCEPT !.ctx = "cancelled", !.beat = RenewInterval].pc = "running"
        BY <1>3, <2>1 DEF Attempts
      <4>2. \/ att' = [att EXCEPT ![l] = [att[l] EXCEPT !.beat = RenewInterval]]
            \/ att' = [att EXCEPT ![l] = [att[l] EXCEPT !.ctx = "cancelled",
                                                        !.beat = RenewInterval]]
        BY <1>6 DEF Renew, TypeOK
      <4>3. QED
        BY <4>1, <4>2
    <3>2. QED
      BY <2>1, <3>1 DEF Alive, TypeOK
  <2>3. \A j \in Jobs : Same(j)
    <3>1. \A r \in Rows : Renewed(r).lease = r.lease /\ Renewed(r).status = r.status
      BY DEF Renewed, Rows
    <3>2. att[l].job \in Jobs
      BY <2>1 DEF WellFormed
    <3>3. QED
      BY <1>6, <3>1, <3>2 DEF Renew, Same, TypeOK
  <2>4. QED
    BY <2>2, <2>3, Dies
<1>7. ASSUME NEW outcome \in Outcomes, Return(l, outcome)
      PROVE  [Queue!Next]_(Queue!jvars)
  <2>1. att[l].pc # "none" /\ 0 \in Nat
    BY <1>7 DEF Return
  <2>2. QED
    BY <1>2, <1>7, <2>1, SettleImplements DEF Return
<1>8. QED
  BY <1>4, <1>5, <1>6, <1>7 DEF AttemptStep

LEMMA PollImplements ==
  ASSUME TypeOK, WellFormed, NEW w \in Workers, PollStep(w)
  PROVE  [Queue!Next]_(Queue!jvars)
<1>1. ASSUME NEW j \in Jobs, NEW l \in Leases, ClaimHit(w, j, l)
      PROVE  Queue!Next
  <2>1. /\ row[j].status \in Live /\ l \notin Alive
        /\ \A i \in Jobs : row[i].lease # l
    BY <1>1 DEF ClaimHit, Claimable, Live, Fresh, Alive
  <2>2. /\ row'[j].status = "running" /\ row'[j].lease = l
        /\ \A i \in Jobs \ {j} : Same(i)
    BY <1>1 DEF ClaimHit, Same, TypeOK, Rows
  <2>3. Alive' = Alive \cup {l}
    <3>1. \A k \in Leases : att'[k].pc = IF k = l THEN "claimed" ELSE att[k].pc
      BY <1>1 DEF ClaimHit, NoAttempt, TypeOK
    <3>2. QED
      BY <3>1 DEF Alive
  <2>4. QED
    BY <2>1, <2>2, <2>3, Claims
<1>2. CASE UNCHANGED <<row, att>>
  BY <1>2, Stutters DEF Same, Alive
<1>3. QED
  BY <1>1, <1>2 DEF PollStep, Poll, AcquireSlot, AbandonBatch, ClaimMiss

LEMMA CancelImplements ==
  ASSUME TypeOK, WellFormed, NEW c \in Callers, CancelStep(c)
  PROVE  [Queue!Next]_(Queue!jvars)
<1>1. CASE UNCHANGED <<row, att>>
  BY <1>1, Stutters DEF Same, Alive
<1>2. CASE CancelUpdate(c)
  <2> DEFINE j == op[c].job
  <2>1. j \in Jobs /\ Alive' = Alive
    BY <1>2 DEF CancelUpdate, WellFormed, Alive
  <2>2. CASE row[j].status \in Live /\ row' = [row EXCEPT ![j] = EndedRow(@, "canceled")]
    <3>1. /\ EndedRow(row[j], "canceled").status = "canceled"
          /\ EndedRow(row[j], "canceled").lease = None
      BY <2>1 DEF EndedRow, TypeOK, Rows
    <3>2. /\ row'[j].status = "canceled" /\ row'[j].lease = None
          /\ \A i \in Jobs \ {j} : Same(i)
      BY <2>1, <2>2, <3>1 DEF Same, TypeOK
    <3>3. QED
      BY <2>1, <2>2, <3>2, Cancels
  <2>3. QED
    BY <1>1, <1>2, <2>2 DEF CancelUpdate
<1>3. CASE CancelSignal(c)
  <2>1. Alive' = Alive
    <3>1. CASE att' = att
      BY <3>1 DEF Alive
    <3>2. CASE /\ op[c].lease \in Leases
               /\ att' = [att EXCEPT ![op[c].lease].ctx = "cancelled"]
      <4>1. \A l \in Leases : att'[l].pc = att[l].pc
        BY <3>2 DEF TypeOK, Attempts
      <4>2. QED
        BY <4>1 DEF Alive
    <3>3. QED
      BY <1>3, <3>1, <3>2 DEF CancelSignal
  <2>2. QED
    BY <1>3, <2>1, Stutters DEF CancelSignal, Same
<1>4. QED
  BY <1>1, <1>2, <1>3 DEF CancelStep, CancelReload, CancelReturn, CancelCall

LEMMA ProcessImplements ==
  ASSUME TypeOK, NEW w \in Workers, ProcessStep(w)
  PROVE  [Queue!Next]_(Queue!jvars)
<1>1. \A j \in Jobs : Same(j)
  BY DEF ProcessStep, Stop, StopDone, Crash, StartWorker, Same
<1>2. Alive' \subseteq Alive
  <2>1. CASE Stop(w)
    <3>1. \A l \in Leases : att'[l].pc = att[l].pc
      BY <2>1 DEF Stop, TypeOK, Attempts
    <3>2. QED
      BY <3>1 DEF Alive
  <2>2. CASE Crash(w)
    BY <2>2 DEF Crash, NoAttempt, Alive
  <2>3. QED
    BY <2>1, <2>2 DEF ProcessStep, StopDone, StartWorker, Alive
<1>3. QED
  BY <1>1, <1>2, Dies

LEMMA ServiceImplements ==
  ASSUME TypeOK, LeaseIdentifiesOwner, ServiceStep
  PROVE  [Queue!Next]_(Queue!jvars)
<1>1. Alive' = Alive
  BY DEF ServiceStep, Schedule, Retry, Cleanup, Trim, Publish, Alive
<1>2. ASSUME NEW j \in Jobs, row[j].status \in Terminal \cup {"absent"}
      PROVE  row[j].lease = None
  BY <1>2 DEF LeaseIdentifiesOwner, Terminal
<1>3. ASSUME NEW j \in Jobs, NEW d \in Deployments, NEW t \in ScheduleDelays,
             Schedule(j, d, t)
      PROVE  Queue!Next
  <2>1. row[j].status = "absent" /\ row[j].lease = None
    BY <1>2, <1>3 DEF Schedule, FreshJob
  <2>2. /\ row'[j].status = "pending" /\ row'[j].lease = None
        /\ \A i \in Jobs \ {j} : Same(i)
    BY <1>3 DEF Schedule, PendingRow, NoRow, Same, TypeOK
  <2>3. QED
    BY <1>1, <2>1, <2>2, Enqueues
<1>4. ASSUME NEW j \in Jobs, Retry(j) PROVE Queue!Next
  <2>1. row[j].status \in Terminal /\ row[j].lease = None
    BY <1>2, <1>4 DEF Retry
  <2>2. /\ row'[j].status = "pending" /\ row'[j].lease = None
        /\ \A i \in Jobs \ {j} : Same(i)
    BY <1>4 DEF Retry, PendingRow, Same, TypeOK, Rows
  <2>3. QED
    BY <1>1, <2>1, <2>2, Enqueues
<1>5. ASSUME NEW j \in Jobs, Cleanup(j) PROVE Queue!Next
  <2>1. row[j].status \in Terminal /\ row[j].lease = None
    BY <1>2, <1>5 DEF Cleanup
  <2>2. /\ row'[j].status = "absent" /\ row'[j].lease = None
        /\ \A i \in Jobs \ {j} : Same(i)
    BY <1>5 DEF Cleanup, NoRow, Same, TypeOK
  <2>3. QED
    BY <1>1, <2>1, <2>2, Purges
<1>6. ASSUME NEW d \in Deployments, Trim(d) \/ Publish(d)
      PROVE  [Queue!Next]_(Queue!jvars)
  BY <1>1, <1>6, Stutters DEF Trim, Publish, Same
<1>7. QED
  BY <1>3, <1>4, <1>5, <1>6 DEF ServiceStep

LEMMA TickImplements ==
  ASSUME TypeOK, Tick
  PROVE  [Queue!Next]_(Queue!jvars)
<1>1. \A j \in Jobs : Same(j)
  BY DEF Tick, Same, TypeOK, Rows
<1>2. \A l \in Leases : att'[l].pc = att[l].pc
  BY DEF Tick, TypeOK, Attempts
<1>3. Alive' = Alive
  BY <1>2 DEF Alive
<1>4. QED
  BY <1>1, <1>3, Stutters

(* "A job is durable and has one owner" seen from outside: with clocks,     *)
(* polls and calls hidden, every step of the scheduler is a step of the     *)
(* job queue or none.                                                       *)
THEOREM QueueTheorem == Spec => ImplementsQueue
<1>1. Init => Queue!Init
  BY DEF Init, Queue!Init, NoRow, NoAttempt
<1>2. IInv /\ [Next]_vars => [Queue!Next]_(Queue!jvars)
  <2> SUFFICES ASSUME IInv, [Next]_vars PROVE [Queue!Next]_(Queue!jvars)
    OBVIOUS
  <2> USE DEF IInv
  <2>1. CASE UNCHANGED vars
    BY <2>1, Stutters DEF vars, Same, Alive
  <2>2. QED
    BY <2>1, PollImplements, ProcessImplements, AttemptImplements, CancelImplements,
       ServiceImplements, TickImplements DEF Next
<1>3. QED
  BY <1>1, <1>2, Invariance, PTL DEF Spec, ImplementsQueue, Queue!Spec
----------------------------------------------------------------------------
(* Every slot is accounted for.                                             *)

Holders(w) == {l \in Leases : att[l].worker = w}
Slot(w) == IF poll[w].pc = "slot" THEN 1 ELSE 0

(* An attempt that has ended belongs to no process; the attempts of one are *)
(* finitely many, whatever the number of tokens.                            *)
SlotsInv ==
    /\ \A l \in Leases : att[l].pc = "none" => att[l].worker = None
    /\ \A w \in Workers :
         /\ IsFiniteSet(Holders(w))
         /\ sem[w] = Cardinality(Holders(w)) + Slot(w)
         /\ sem[w] <= MaxConcurrency

(* Of one process only: the others keep theirs. *)
Fits(w) ==
    /\ IsFiniteSet(Holders(w))
    /\ sem[w] = Cardinality(Holders(w)) + Slot(w)
    /\ sem[w] <= MaxConcurrency
Unmoved(w) == Holders(w)' = Holders(w) /\ sem'[w] = sem[w] /\ Slot(w)' = Slot(w)

LEMMA UnmovedFits ==
  ASSUME NEW w \in Workers, Fits(w), Unmoved(w)
  PROVE  Fits(w)'
BY DEF Fits, Unmoved

LEMMA SlotsParts ==
  SlotsInv <=> /\ \A l \in Leases : att[l].pc = "none" => att[l].worker = None
               /\ \A w \in Workers : Fits(w)
BY DEF SlotsInv, Fits

(* The slot of a claim becomes the slot of the attempt. *)
LEMMA HolderAdded ==
  ASSUME NEW w \in Workers, Fits(w), NEW l \in Leases, l \notin Holders(w),
         Holders(w)' = Holders(w) \cup {l}, sem'[w] = sem[w],
         Slot(w) = 1, Slot(w)' = 0
  PROVE  Fits(w)'
<1>1. /\ IsFiniteSet(Holders(w)')
      /\ Cardinality(Holders(w)') = Cardinality(Holders(w)) + 1
  BY FS_AddElement DEF Fits
<1>2. Cardinality(Holders(w)) \in Nat
  BY FS_CardinalityType DEF Fits
<1>3. QED
  BY <1>1, <1>2 DEF Fits

(* An attempt that ends gives its slot back. *)
LEMMA HolderRemoved ==
  ASSUME NEW w \in Workers, Fits(w), NEW l \in Holders(w), sem[w] \in Int,
         Holders(w)' = Holders(w) \ {l}, sem'[w] = sem[w] - 1,
         Slot(w)' = Slot(w)
  PROVE  Fits(w)'
<1>1. /\ IsFiniteSet(Holders(w)')
      /\ Cardinality(Holders(w)') = Cardinality(Holders(w)) - 1
  BY FS_RemoveElement DEF Fits
<1>2. Cardinality(Holders(w)) \in Nat
  BY FS_CardinalityType DEF Fits
<1>3. Slot(w) \in {0, 1} /\ MaxConcurrency \in Nat
  BY SchedulerAssumption DEF Slot
<1>4. QED
  BY <1>1, <1>2, <1>3 DEF Fits

LEMMA EndSlots ==
  ASSUME TypeOK, WellFormed, SlotsInv, NEW l \in Leases, att[l].pc # "none",
         EndAttempt(l), UNCHANGED poll
  PROVE  SlotsInv'
<1>0. PICK v \in Workers : v = att[l].worker
  BY DEF WellFormed
<1>1. None \notin Workers
  BY SchedulerAssumption
<1>2. \A k \in Leases : att'[k] = IF k = l THEN NoAttempt ELSE att[k]
  BY DEF EndAttempt, TypeOK
<1>3. /\ sem'[v] = sem[v] - 1 /\ sem[v] \in Int
      /\ \A w \in Workers : w # v => sem'[w] = sem[w]
  BY <1>0 DEF EndAttempt, TypeOK
<1>4. NoAttempt.pc = "none" /\ NoAttempt.worker = None
  BY DEF NoAttempt
<1>5. Holders(v)' = Holders(v) \ {l} /\ l \in Holders(v)
  BY <1>0, <1>1, <1>2, <1>4 DEF Holders
<1>6. \A w \in Workers : w # v => Holders(w)' = Holders(w)
  BY <1>0, <1>1, <1>2, <1>4 DEF Holders
<1>7. \A w \in Workers : Slot(w)' = Slot(w)
  BY DEF Slot
<1>8. Fits(v)'
  BY <1>3, <1>5, <1>7, HolderRemoved, SlotsParts
<1>9. ASSUME NEW w \in Workers, w # v PROVE Fits(w)'
  BY <1>3, <1>6, <1>7, <1>9, UnmovedFits, SlotsParts DEF Unmoved
<1>10. \A k \in Leases : att'[k].pc = "none" => att'[k].worker = None
  BY <1>2, <1>4 DEF SlotsInv
<1>11. QED
  BY <1>8, <1>9, <1>10 DEF SlotsInv, Fits

(* Steps that move no slot and leave each attempt with its process. *)
LEMMA SlotsKept ==
  ASSUME SlotsInv, UNCHANGED sem,
         \A l \in Leases : att'[l].worker = att[l].worker
                           /\ (att'[l].pc = "none" => att[l].pc = "none"),
         \A w \in Workers : poll'[w].pc = "slot" <=> poll[w].pc = "slot"
  PROVE  SlotsInv'
<1>1. \A w \in Workers : Holders(w)' = Holders(w) /\ Slot(w)' = Slot(w)
  BY DEF Holders, Slot
<1>2. QED
  BY <1>1 DEF SlotsInv

LEMMA PollSlots ==
  ASSUME TypeOK, SlotsInv, NEW w \in Workers, PollStep(w)
  PROVE  SlotsInv'
<1>0. None \notin Workers /\ MaxConcurrency \in Nat
  BY SchedulerAssumption
<1>1. CASE Poll(w) \/ AbandonBatch(w)
  <2>1. \A v \in Workers : poll'[v].pc = "slot" <=> poll[v].pc = "slot"
    BY <1>1 DEF Poll, AbandonBatch, IdlePoll, TypeOK
  <2>2. QED
    BY <1>1, <2>1, SlotsKept DEF Poll, AbandonBatch
<1>2. ASSUME UNCHANGED att, \A v \in Workers : v # w => sem'[v] = sem[v]
                                               /\ poll'[v] = poll[v],
             Fits(w)'
      PROVE  SlotsInv'
  <2>1. \A v \in Workers : v # w => Unmoved(v)
    BY <1>2 DEF Unmoved, Holders, Slot
  <2>2. \A v \in Workers : Fits(v)'
    BY <1>2, <2>1, UnmovedFits, SlotsParts
  <2>3. QED
    BY <1>2, <2>2 DEF SlotsInv, Fits
<1>3. CASE AcquireSlot(w)
  <2>1. /\ sem'[w] = sem[w] + 1 /\ sem[w] < MaxConcurrency /\ sem[w] \in Int
        /\ poll[w].pc = "batch" /\ poll'[w].pc = "slot" /\ UNCHANGED att
        /\ \A v \in Workers : v # w => sem'[v] = sem[v] /\ poll'[v] = poll[v]
    BY <1>3 DEF AcquireSlot, TypeOK, Polls
  <2>2. Slot(w) = 0 /\ Slot(w)' = 1 /\ Holders(w)' = Holders(w)
    BY <2>1 DEF Slot, Holders
  <2>3. Fits(w) /\ Cardinality(Holders(w)) \in Nat
    BY SlotsParts, FS_CardinalityType DEF Fits
  <2>4. Fits(w)'
    BY <1>0, <2>1, <2>2, <2>3 DEF Fits
  <2>5. QED
    BY <1>2, <2>1, <2>4
<1>4. ASSUME NEW j \in Jobs PROVE AfterClaim(w, j).pc # "slot"
  BY DEF AfterClaim, IdlePoll, TypeOK, Polls
<1>5. ASSUME NEW j \in Jobs, ClaimMiss(w, j) PROVE SlotsInv'
  <2>1. /\ sem'[w] = sem[w] - 1 /\ sem[w] \in Int /\ UNCHANGED att
        /\ poll[w].pc = "slot" /\ poll'[w] = AfterClaim(w, j)
        /\ \A v \in Workers : v # w => sem'[v] = sem[v] /\ poll'[v] = poll[v]
    BY <1>5 DEF ClaimMiss, NextInBatch, TypeOK
  <2>2. Slot(w) = 1 /\ Slot(w)' = 0 /\ Holders(w)' = Holders(w)
    BY <1>4, <2>1 DEF Slot, Holders
  <2>3. Fits(w) /\ Cardinality(Holders(w)) \in Nat
    BY SlotsParts, FS_CardinalityType DEF Fits
  <2>4. Fits(w)'
    BY <1>0, <2>1, <2>2, <2>3 DEF Fits
  <2>5. QED
    BY <1>2, <2>1, <2>4
<1>6. ASSUME NEW j \in Jobs, NEW l \in Leases, ClaimHit(w, j, l) PROVE SlotsInv'
  <2>1. /\ UNCHANGED sem /\ poll[w].pc = "slot" /\ poll'[w] = AfterClaim(w, j)
        /\ \A v \in Workers : v # w => poll'[v] = poll[v]
        /\ att[l].pc = "none"
    BY <1>6 DEF ClaimHit, NextInBatch, Fresh, TypeOK
  <2>2. /\ att'[l].worker = w /\ att'[l].pc = "claimed"
        /\ \A k \in Leases : k # l => att'[k] = att[k]
    BY <1>6 DEF ClaimHit, NoAttempt, TypeOK
  <2>3. att[l].worker = None
    BY <2>1 DEF SlotsInv
  <2>4. Slot(w) = 1 /\ Slot(w)' = 0
    BY <1>4, <2>1 DEF Slot
  <2>5. Holders(w)' = Holders(w) \cup {l} /\ l \notin Holders(w)
    BY <1>0, <2>2, <2>3 DEF Holders
  <2>6. Fits(w)'
    BY <2>1, <2>4, <2>5, HolderAdded, SlotsParts
  <2>7. ASSUME NEW v \in Workers, v # w PROVE Fits(v)'
    <3>1. Holders(v)' = Holders(v)
      BY <1>0, <2>2, <2>3, <2>7 DEF Holders
    <3>2. Unmoved(v)
      BY <2>1, <2>7, <3>1 DEF Unmoved, Slot
    <3>3. QED
      BY <3>2, UnmovedFits, SlotsParts
  <2>8. \A k \in Leases : att'[k].pc = "none" => att'[k].worker = None
    BY <2>2 DEF SlotsInv
  <2>9. QED
    BY <2>6, <2>7, <2>8 DEF SlotsInv, Fits
<1>7. QED
  BY <1>1, <1>3, <1>5, <1>6 DEF PollStep

LEMMA ProcessSlots ==
  ASSUME TypeOK, SlotsInv, NEW w \in Workers, ProcessStep(w)
  PROVE  SlotsInv'
<1>1. CASE Stop(w)
  <2>1. \A l \in Leases : att'[l].pc = att[l].pc /\ att'[l].worker = att[l].worker
    BY <1>1 DEF Stop, TypeOK, Attempts
  <2>2. QED
    BY <1>1, <2>1, SlotsKept DEF Stop
<1>2. CASE StopDone(w) \/ StartWorker(w)
  BY <1>2, SlotsKept DEF StopDone, StartWorker
<1>3. CASE Crash(w)
  <2>1. /\ sem'[w] = 0 /\ poll'[w].pc = "idle"
        /\ \A v \in Workers : v # w => sem'[v] = sem[v] /\ poll'[v] = poll[v]
    BY <1>3 DEF Crash, IdlePoll, TypeOK
  <2>2. \A l \in Leases : att'[l] = IF att[l].worker = w THEN NoAttempt ELSE att[l]
    BY <1>3 DEF Crash
  <2>3. NoAttempt.pc = "none" /\ NoAttempt.worker = None /\ None \notin Workers
    BY SchedulerAssumption DEF NoAttempt
  <2>4. Holders(w)' = {} /\ Slot(w)' = 0
    BY <2>1, <2>2, <2>3 DEF Holders, Slot
  <2>5. Fits(w)'
    BY <2>1, <2>4, FS_EmptySet, SchedulerAssumption DEF Fits
  <2>6. ASSUME NEW v \in Workers, v # w PROVE Fits(v)'
    <3>1. Holders(v)' = Holders(v)
      BY <2>2, <2>3, <2>6 DEF Holders
    <3>2. Unmoved(v)
      BY <2>1, <2>6, <3>1 DEF Unmoved, Slot
    <3>3. QED
      BY <3>2, UnmovedFits, SlotsParts
  <2>7. \A k \in Leases : att'[k].pc = "none" => att'[k].worker = None
    BY <2>2, <2>3 DEF SlotsInv
  <2>8. QED
    BY <2>5, <2>6, <2>7 DEF SlotsInv, Fits
<1>4. QED
  BY <1>1, <1>2, <1>3 DEF ProcessStep

LEMMA AttemptSlots ==
  ASSUME TypeOK, WellFormed, SlotsInv, NEW l \in Leases, AttemptStep(l)
  PROVE  SlotsInv'
<1>1. UNCHANGED poll /\ att[l].pc # "none"
  BY DEF AttemptStep, Register, Begin, Renew, Return
<1>2. CASE EndAttempt(l)
  BY <1>1, <1>2, EndSlots
<1>3. CASE /\ UNCHANGED sem
           /\ \A k \in Leases : att'[k].worker = att[k].worker
                                /\ (att'[k].pc = "none" => att[k].pc = "none")
  BY <1>1, <1>3, SlotsKept
<1>4. att[l] \in Attempts
  BY DEF TypeOK
<1>5. CASE Register(l) \/ Renew(l)
  <2>1. /\ UNCHANGED sem
        /\ \A k \in Leases : att'[k].worker = att[k].worker
                             /\ (att'[k].pc = "none" => att[k].pc = "none")
    <3>1. UNCHANGED sem
      BY <1>5 DEF Register, Renew
    <3>2. PICK a : /\ att' = [att EXCEPT ![l] = a]
                   /\ a.worker = att[l].worker /\ a.pc # "none"
      <4>1. CASE Register(l)
        <5> DEFINE a == [att[l] EXCEPT !.pc = "registered"]
        <5>1. a.worker = att[l].worker /\ a.pc = "registered"
          BY <1>4 DEF Attempts
        <5>2. att' = [att EXCEPT ![l] = a]
          BY <4>1 DEF Register, TypeOK
        <5>3. QED
          BY <5>1, <5>2
      <4>2. CASE Renew(l)
        BY <1>1, <1>4, <4>2 DEF Renew, TypeOK, Attempts
      <4>3. QED
        BY <1>5, <4>1, <4>2
    <3>3. QED
      BY <3>1, <3>2 DEF TypeOK
  <2>2. QED
    BY <1>3, <2>1
<1>6. CASE Begin(l)
  <2>1. CASE /\ UNCHANGED sem
             /\ att' = [att EXCEPT ![l].pc = "running", ![l].beat = RenewInterval]
    <3>1. \A k \in Leases : att'[k].worker = att[k].worker
                            /\ (att'[k].pc = "none" => att[k].pc = "none")
      BY <1>4, <2>1 DEF TypeOK, Attempts
    <3>2. QED
      BY <1>3, <2>1, <3>1
  <2>2. QED
    BY <1>2, <1>6, <2>1 DEF Begin, Settle
<1>7. ASSUME NEW outcome \in Outcomes, Return(l, outcome) PROVE SlotsInv'
  BY <1>2, <1>7 DEF Return, Settle
<1>8. QED
  BY <1>5, <1>6, <1>7 DEF AttemptStep

(* "MaxConcurrency" (Config): the slots a process has taken are those of    *)
(* its attempts and of the claim it is at, and never exceed the limit.      *)
THEOREM SlotsTheorem == Spec => []SlotsAccounted
<1>1. Init => SlotsInv
  <2> SUFFICES ASSUME Init PROVE SlotsInv
    OBVIOUS
  <2>1. \A w \in Workers : Holders(w) = {} /\ Slot(w) = 0 /\ sem[w] = 0
    BY SchedulerAssumption DEF Init, Holders, Slot, NoAttempt, IdlePoll
  <2>2. \A w \in Workers : Fits(w)
    BY <2>1, FS_EmptySet, SchedulerAssumption DEF Fits
  <2>3. QED
    BY <2>2 DEF Init, NoAttempt, SlotsInv, Fits
<1>2. IInv /\ SlotsInv /\ [Next]_vars => SlotsInv'
  <2> SUFFICES ASSUME IInv, SlotsInv, [Next]_vars PROVE SlotsInv'
    OBVIOUS
  <2> USE DEF IInv
  <2>1. CASE UNCHANGED <<sem, poll, att>>
    BY <2>1, SlotsKept
  <2>2. ASSUME NEW c \in Callers, CancelStep(c) PROVE SlotsInv'
    <3>1. CASE CancelSignal(c)
      <4>1. \A l \in Leases : att'[l].pc = att[l].pc /\ att'[l].worker = att[l].worker
        BY <3>1 DEF CancelSignal, TypeOK, Attempts
      <4>2. QED
        BY <3>1, <4>1, SlotsKept DEF CancelSignal
    <3>2. QED
      BY <2>1, <2>2, <3>1
      DEF CancelStep, CancelReload, CancelUpdate, CancelReturn, CancelCall
  <2>3. CASE ServiceStep
    BY <2>1, <2>3 DEF ServiceStep, Schedule, Retry, Cleanup, Trim, Publish
  <2>4. CASE Tick
    <3>1. /\ \A l \in Leases : att'[l].pc = att[l].pc /\ att'[l].worker = att[l].worker
          /\ \A w \in Workers : poll'[w].pc = poll[w].pc
      <4>1. \A l \in Leases : att'[l].pc = att[l].pc /\ att'[l].worker = att[l].worker
        BY <2>4 DEF Tick, TypeOK, Attempts
      <4>2. \A w \in Workers : poll'[w].pc = poll[w].pc
        BY <2>4 DEF Tick, TypeOK, Polls
      <4>3. QED
        BY <4>1, <4>2
    <3>2. QED
      BY <2>4, <3>1, SlotsKept DEF Tick
  <2>5. QED
    BY <2>1, <2>2, <2>3, <2>4, PollSlots, ProcessSlots, AttemptSlots DEF Next, vars
<1>3. SlotsInv => SlotsAccounted
  BY DEF SlotsInv, SlotsAccounted, Holders, Slot
<1>4. QED
  BY <1>1, <1>2, <1>3, Invariance, PTL DEF Spec
----------------------------------------------------------------------------
(* A heartbeat in time keeps the job.                                       *)

(* What is left of a lease when the next heartbeat is due, at least. *)
Slack == LeaseDuration - MaxAge - RenewInterval

TimeLeft(j, l) ==
    /\ att[l].pc \in {"claimed", "registered"} => row[j].left >= LeaseDuration - MaxAge
    /\ LiveAttempt(l) => row[j].left >= att[l].beat + Slack
Margin == \A j \in Jobs, l \in Leases : row[j].lease = l => TimeLeft(j, l)

RowsFixed == \A j \in Jobs : row'[j] = row[j] \/ row'[j].lease = None
AttemptsFixed ==
    \A l \in Leases :
      /\ att'[l].pc \in {"claimed", "registered"} => att[l].pc \in {"claimed", "registered"}
      /\ LiveAttempt(l)' => LiveAttempt(l) /\ att'[l].beat = att[l].beat

LEMMA MarginKept ==
  ASSUME Margin, RowsFixed, AttemptsFixed
  PROVE  Margin'
<1> SUFFICES ASSUME NEW j \in Jobs, NEW l \in Leases, row'[j].lease = l
             PROVE  TimeLeft(j, l)'
  BY DEF Margin
<1>1. row'[j] = row[j]
  BY SchedulerAssumption DEF RowsFixed
<1>2. TimeLeft(j, l)
  BY <1>1 DEF Margin
<1>3. QED
  BY <1>1, <1>2 DEF TimeLeft, AttemptsFixed

LEMMA EndFixed ==
  ASSUME TypeOK, NEW l \in Leases, EndAttempt(l)
  PROVE  AttemptsFixed
BY DEF EndAttempt, NoAttempt, AttemptsFixed, LiveAttempt, TypeOK

LEMMA SettleFixed ==
  ASSUME TypeOK, WellFormed, NEW l \in Leases, att[l].pc # "none",
         NEW outcome \in Outcomes, NEW t \in Nat,
         row' = [row EXCEPT ![att[l].job] = Settled(l, @, outcome, t)]
  PROVE  RowsFixed
<1>1. att[l].job \in Jobs /\ row[att[l].job] \in Rows
  BY DEF WellFormed, TypeOK
<1>2. Settled(l, row[att[l].job], outcome, t).lease = None
  BY <1>1, SettledType
<1>3. QED
  BY <1>1, <1>2 DEF RowsFixed, TypeOK

LEMMA AttemptMargin ==
  ASSUME IInv, Margin, NEW l \in Leases, AttemptStep(l)
  PROVE  Margin'
<1> USE DEF IInv
<1>0. /\ LeaseDuration \in Nat /\ MaxAge \in Nat /\ RenewInterval \in Nat
      /\ att[l] \in Attempts
  BY SchedulerAssumption DEF TypeOK
<1>1. ASSUME UNCHANGED row PROVE RowsFixed
  BY <1>1 DEF RowsFixed
<1>2. ASSUME NEW outcome \in Outcomes, att[l].pc # "none", Settle(l, outcome)
      PROVE  Margin'
  BY <1>1, <1>2, SettleFixed, EndFixed, MarginKept, SchedulerAssumption DEF Settle
<1>3. ASSUME EndAttempt(l), UNCHANGED row PROVE Margin'
  BY <1>1, <1>3, EndFixed, MarginKept
<1>4. CASE Register(l)
  <2>1. AttemptsFixed
    BY <1>4 DEF Register, AttemptsFixed, LiveAttempt, TypeOK, Attempts
  <2>2. QED
    BY <1>1, <1>4, <2>1, MarginKept DEF Register
<1>5. CASE Begin(l)
  <2>1. att[l].pc = "registered" /\ "fail" \in Outcomes /\ 0 \in Nat
    BY <1>5 DEF Begin, Outcomes
  <2>2. CASE /\ UNCHANGED row
             /\ att' = [att EXCEPT ![l].pc = "running", ![l].beat = RenewInterval]
    <3>1. /\ att'[l].pc = "running" /\ att'[l].beat = RenewInterval
          /\ \A k \in Leases : k # l => att'[k] = att[k]
      BY <1>0, <2>2 DEF TypeOK, Attempts
    <3> SUFFICES ASSUME NEW j \in Jobs, NEW k \in Leases, row'[j].lease = k
                 PROVE  TimeLeft(j, k)'
      BY DEF Margin
    <3>2. TimeLeft(j, k) /\ row[j].left \in Int
      BY <2>2, SchedulerAssumption DEF Margin, TypeOK, Rows
    <3>3. CASE k = l
      BY <1>0, <2>1, <2>2, <3>1, <3>2, <3>3 DEF TimeLeft, Slack
    <3>4. CASE k # l
      BY <2>2, <3>1, <3>2, <3>4 DEF TimeLeft, LiveAttempt
    <3>5. QED
      BY <3>3, <3>4
  <2>3. CASE row' = [row EXCEPT ![att[l].job] = EndedRow(@, "failed")] /\ EndAttempt(l)
    <3>1. Settled(l, row[att[l].job], "fail", 0) = EndedRow(row[att[l].job], "failed")
      BY DEF Settled
    <3>2. QED
      BY <2>1, <2>3, <3>1, SettleFixed, EndFixed, MarginKept
  <2>4. QED
    BY <1>2, <1>3, <1>5, <2>1, <2>2, <2>3 DEF Begin
<1>6. CASE Renew(l)
  <2>1. CASE /\ Owns(l)
             /\ row' = [row EXCEPT ![att[l].job] = Renewed(@)]
             /\ att' = [att EXCEPT ![l].beat = RenewInterval]
    <3> DEFINE own == att[l].job
    <3>1. own \in Jobs /\ row[own] \in Rows /\ row[own].lease = l
      BY <1>6, <2>1 DEF Renew, Owns, WellFormed, TypeOK
    <3>2. /\ row'[own].left = LeaseDuration /\ row'[own].lease = l
          /\ \A i \in Jobs : i # own => row'[i] = row[i]
      BY <2>1, <3>1 DEF Renewed, TypeOK, Rows
    <3>3. /\ att'[l].pc = "running" /\ att'[l].beat = RenewInterval
          /\ \A k \in Leases : k # l => att'[k] = att[k]
      BY <1>0, <1>6, <2>1 DEF Renew, TypeOK, Attempts
    <3> SUFFICES ASSUME NEW j \in Jobs, NEW k \in Leases, row'[j].lease = k
                 PROVE  TimeLeft(j, k)'
      BY DEF Margin
    <3>4. CASE j = own
      BY <1>0, <3>2, <3>3, <3>4 DEF TimeLeft, Slack
    <3>5. CASE j # own
      <4>1. row'[j] = row[j] /\ row[j].lease = k /\ k # l
        BY <3>1, <3>2, <3>5, SchedulerAssumption DEF LeaseIdentifiesOwner
      <4>2. QED
        BY <3>3, <4>1 DEF Margin, TimeLeft, LiveAttempt
    <3>6. QED
      BY <3>4, <3>5
  <2>2. CASE /\ UNCHANGED row
             /\ att' = [att EXCEPT ![l].ctx = "cancelled", ![l].beat = RenewInterval]
    <3>1. AttemptsFixed
      BY <1>0, <2>2 DEF AttemptsFixed, LiveAttempt, TypeOK, Attempts
    <3>2. QED
      BY <1>1, <2>2, <3>1, MarginKept
  <2>3. QED
    BY <1>6, <2>1, <2>2 DEF Renew
<1>7. ASSUME NEW outcome \in Outcomes, Return(l, outcome) PROVE Margin'
  <2>1. att[l].pc # "none" /\ 0 \in Nat
    BY <1>7 DEF Return
  <2>2. QED
    BY <1>1, <1>2, <1>3, <1>7, <2>1, SettleFixed, EndFixed, MarginKept DEF Return
<1>8. QED
  BY <1>4, <1>5, <1>6, <1>7 DEF AttemptStep

LEMMA ClaimMargin ==
  ASSUME IInv, Margin, NEW w \in Workers, NEW j \in Jobs, NEW l \in Leases,
         ClaimHit(w, j, l)
  PROVE  Margin'
<1> USE DEF IInv
<1>1. /\ att[l].pc = "none" /\ \A i \in Jobs : row[i].lease # l
  BY DEF ClaimHit, Fresh
<1>2. /\ \A i \in Jobs : i # j => row'[i] = row[i]
      /\ row'[j].lease = l /\ row'[j].left = LeaseDuration - poll[w].age
  BY DEF ClaimHit, TypeOK, Rows
<1>3. /\ \A k \in Leases : k # l => att'[k] = att[k]
      /\ att'[l].pc = "claimed"
  BY DEF ClaimHit, TypeOK, NoAttempt
<1>4. poll[w].age \in 0 .. MaxAge /\ LeaseDuration \in Nat /\ MaxAge \in Nat
  BY SchedulerAssumption DEF TypeOK, Polls
<1> SUFFICES ASSUME NEW i \in Jobs, NEW k \in Leases, row'[i].lease = k
             PROVE  TimeLeft(i, k)'
  BY DEF Margin
<1>5. CASE i = j
  BY <1>2, <1>3, <1>4, <1>5 DEF TimeLeft, LiveAttempt
<1>6. CASE i # j
  BY <1>1, <1>2, <1>3, <1>6 DEF Margin, TimeLeft, LiveAttempt
<1>7. QED
  BY <1>5, <1>6

(* Time takes from the lease what it takes from the wait for the heartbeat. *)
LEMMA OneLess ==
  ASSUME NEW a \in Int, NEW b \in Int, NEW c \in Int, NEW t \in Int,
         a >= b - 1, b >= c + t
  PROVE  a >= (c - 1) + t
OBVIOUS

LEMMA TickMargin ==
  ASSUME IInv, Margin, Tick, Punctual, RenewInterval > 0
  PROVE  Margin'
<1> USE DEF IInv
<1> SUFFICES ASSUME NEW j \in Jobs, NEW l \in Leases, row'[j].lease = l
             PROVE  TimeLeft(j, l)'
  BY DEF Margin
<1>1. row[j].lease = l /\ row[j].status = "running" /\ row[j] \in Rows
  BY TickKept, SchedulerAssumption DEF RowsKept, LeaseIdentifiesOwner, TypeOK
<1>2. row'[j].left = Older(row[j].left)
  BY <1>1 DEF Tick, Rows
<1>3. row[j].left \in Int /\ MaxAge \in Nat /\ Slack \in Int
  BY <1>1, SchedulerAssumption DEF Rows, Slack
<1>4. row'[j].left >= row[j].left - 1
  BY <1>2, <1>3 DEF Older, AtLeast
<1>5. /\ att[l].pc \notin {"claimed", "registered"}
      /\ LiveAttempt(l) => att[l].beat > 0
  BY DEF Tick, OnTime
<1>6. /\ att'[l].pc = att[l].pc
      /\ LiveAttempt(l)' <=> LiveAttempt(l)
      /\ LiveAttempt(l) => att'[l].beat = AtLeast(att[l].beat - 1, 0)
  <2>1. att[l] \in Attempts
    BY DEF TypeOK
  <2>2. att'[l] = IF LiveAttempt(l) THEN [att[l] EXCEPT !.beat = AtLeast(@ - 1, 0)]
                  ELSE att[l]
    BY DEF Tick
  <2>3. /\ att'[l].pc = att[l].pc /\ att'[l].ctx = att[l].ctx
        /\ LiveAttempt(l) => att'[l].beat = AtLeast(att[l].beat - 1, 0)
    BY <2>1, <2>2 DEF Attempts
  <2>4. QED
    BY <2>3 DEF LiveAttempt
<1>7. att[l].beat \in Nat
  BY SchedulerAssumption DEF TypeOK, Attempts
<1>8. ASSUME LiveAttempt(l)' PROVE row'[j].left >= att'[l].beat + Slack
  <2>1. /\ row[j].left >= att[l].beat + Slack /\ att[l].beat > 0
        /\ att'[l].beat = att[l].beat - 1
    BY <1>1, <1>5, <1>6, <1>7, <1>8 DEF Margin, TimeLeft, AtLeast
  <2>2. row'[j].left \in Int
    BY <1>2, <1>3 DEF Older, AtLeast
  <2>3. row'[j].left >= (att[l].beat - 1) + Slack
    BY <1>3, <1>4, <1>7, <2>1, <2>2, OneLess
  <2>4. QED
    BY <2>1, <2>3
<1>9. QED
  BY <1>5, <1>6, <1>8 DEF TimeLeft

(* "Ensure the heartbeat renews before the lease expires" (NewService):     *)
(* when heartbeats and polls are on time, and a lease is as long as a batch *)
(* may wait and an interval between two heartbeats, no attempt that renews  *)
(* loses its job.                                                           *)
THEOREM NoTheftTheorem ==
  ASSUME Punctual, RenewInterval > 0, MaxAge + RenewInterval <= LeaseDuration
  PROVE  Spec => NoUnnecessaryTheft
<1> DEFINE Kept ==
      \A j \in Jobs, l \in Leases :
         row[j].lease = l /\ LiveAttempt(l) /\ att[l].beat > 0
           => row'[j].lease = l \/ row'[j].status # "running"
<1>1. Init => Margin
  BY SchedulerAssumption DEF Init, Margin, NoRow
<1>2. IInv /\ Margin /\ [Next]_vars => Margin'
  <2> SUFFICES ASSUME IInv, Margin, [Next]_vars PROVE Margin'
    OBVIOUS
  <2> USE DEF IInv
  <2>1. ASSUME UNCHANGED att PROVE AttemptsFixed
    BY <2>1 DEF AttemptsFixed, LiveAttempt
  <2>2. ASSUME UNCHANGED row PROVE RowsFixed
    BY <2>2 DEF RowsFixed
  <2>3. CASE UNCHANGED <<row, att>>
    BY <2>1, <2>2, <2>3, MarginKept
  <2>4. ASSUME NEW w \in Workers, PollStep(w) PROVE Margin'
    BY <2>3, <2>4, ClaimMargin DEF PollStep, Poll, AcquireSlot, AbandonBatch, ClaimMiss
  <2>5. ASSUME NEW w \in Workers, ProcessStep(w) PROVE Margin'
    <3>1. AttemptsFixed
      BY <2>5 DEF ProcessStep, Stop, StopDone, Crash, StartWorker, AttemptsFixed,
                  NoAttempt, LiveAttempt, TypeOK, Attempts
    <3>2. QED
      BY <2>2, <2>5, <3>1, MarginKept
      DEF ProcessStep, Stop, StopDone, Crash, StartWorker
  <2>6. ASSUME NEW c \in Callers, CancelStep(c) PROVE Margin'
    <3>1. CASE CancelSignal(c)
      <4>1. AttemptsFixed
        BY <3>1 DEF CancelSignal, AttemptsFixed, LiveAttempt, TypeOK, Attempts
      <4>2. QED
        BY <2>2, <3>1, <4>1, MarginKept DEF CancelSignal
    <3>2. CASE CancelUpdate(c)
      <4>1. op[c].job \in Jobs /\ row[op[c].job] \in Rows
        BY <3>2 DEF CancelUpdate, WellFormed, TypeOK
      <4>2. EndedRow(row[op[c].job], "canceled").lease = None
        BY <4>1 DEF EndedRow, Rows
      <4>3. RowsFixed
        BY <3>2, <4>1, <4>2 DEF CancelUpdate, RowsFixed, TypeOK
      <4>4. QED
        BY <2>1, <3>2, <4>3, MarginKept DEF CancelUpdate
    <3>3. QED
      BY <2>3, <2>6, <3>1, <3>2 DEF CancelStep, CancelReload, CancelReturn, CancelCall
  <2>7. CASE ServiceStep
    <3>1. ASSUME NEW j \in Jobs, NEW r, row' = [row EXCEPT ![j] = r], r.lease = None
          PROVE  RowsFixed
      BY <3>1 DEF RowsFixed, TypeOK
    <3>2. UNCHANGED att
      BY <2>7 DEF ServiceStep, Schedule, Retry, Cleanup, Trim, Publish
    <3>3. ASSUME NEW j \in Jobs, NEW d \in Deployments, NEW t \in ScheduleDelays,
                 Schedule(j, d, t)
          PROVE  RowsFixed
      <4>1. PendingRow([NoRow EXCEPT !.dep = d], t, 0).lease = None
        BY DEF PendingRow, NoRow
      <4>2. QED
        BY <3>1, <3>3, <4>1 DEF Schedule
    <3>4. ASSUME NEW j \in Jobs, Retry(j) \/ Cleanup(j) PROVE RowsFixed
      <4>1. PendingRow(row[j], 0, 0).lease = None /\ NoRow.lease = None
        BY DEF PendingRow, NoRow, TypeOK, Rows
      <4>2. QED
        BY <3>1, <3>4, <4>1 DEF Retry, Cleanup
    <3>5. RowsFixed
      BY <2>2, <2>7, <3>3, <3>4 DEF ServiceStep, Trim, Publish
    <3>6. QED
      BY <2>1, <3>2, <3>5, MarginKept
  <2>8. QED
    BY <2>3, <2>4, <2>5, <2>6, <2>7, AttemptMargin, TickMargin DEF Next, vars
<1>3. IInv /\ Margin /\ [Next]_vars => Kept
  <2> SUFFICES ASSUME IInv, Margin, [Next]_vars PROVE Kept
    OBVIOUS
  <2> USE DEF IInv
  <2>1. ASSUME RowsKept PROVE Kept
    BY <2>1 DEF RowsKept
  <2>2. CASE UNCHANGED row
    BY <2>2
  <2>3. ASSUME NEW w \in Workers, NEW i \in Jobs, NEW k \in Leases, ClaimHit(w, i, k)
        PROVE  Kept
    <3> SUFFICES ASSUME NEW j \in Jobs, NEW l \in Leases, row[j].lease = l,
                        LiveAttempt(l), att[l].beat > 0
                 PROVE  row'[j] = row[j]
      OBVIOUS
    <3>1. row[j].left >= att[l].beat + Slack /\ row[j].status = "running"
      BY SchedulerAssumption DEF Margin, TimeLeft, LeaseIdentifiesOwner
    <3>2. row[j].left \in Int /\ att[l].beat \in Nat /\ Slack \in Nat
      BY SchedulerAssumption DEF TypeOK, Rows, Attempts, Slack
    <3>3. row[j].left > 0
      BY <3>1, <3>2
    <3>4. j # i
      BY <2>3, <3>1, <3>2, <3>3, ClaimIsDue
    <3>5. QED
      BY <2>3, <3>4, ClaimIsDue
  <2>4. ASSUME NEW w \in Workers, PollStep(w) PROVE Kept
    BY <2>2, <2>3, <2>4 DEF PollStep, Poll, AcquireSlot, AbandonBatch, ClaimMiss
  <2>5. QED
    BY <2>1, <2>2, <2>4, ProcessKept, AttemptKept, CancelRows, ServiceKept, TickKept
    DEF Next, vars
<1>4. QED
  BY <1>1, <1>2, <1>3, Invariance, PTL DEF Spec, NoUnnecessaryTheft
=============================================================================
