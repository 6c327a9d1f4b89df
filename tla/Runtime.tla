------------------------------ MODULE Runtime ------------------------------
(***************************************************************************)
(* The JavaScript runtime (backend/internal/runtime): a call takes a root  *)
(* slot of the process without waiting for it, a root mutation then waits  *)
(* for the writing transaction, every call but a verification waits for a  *)
(* slot of the pool of its deployment, and a fresh virtual machine loads   *)
(* the bundle and runs the handler.  An action calls other functions,      *)
(* synchronously, each in a machine of its own and without a slot; a       *)
(* mutation it calls waits for a transaction of its own.  A call therefore *)
(* is a stack of frames, one per machine.                                  *)
(*                                                                         *)
(* The steps of one call are those between which it holds no lock: waiting *)
(* for a resource, a call of the observer, a return of user code.  User    *)
(* code is what it can do: return, throw, panic in a host function, call   *)
(* another function, catch what that one threw or pass it on.              *)
(*                                                                         *)
(* An operator X_Y is operator X with one fault put into it; the project   *)
(* uses them to show that the properties below can fail.                   *)
(***************************************************************************)
EXTENDS Integers, Sequences, FiniteSets

CONSTANTS
    Calls,          \* root invocations
    CallKinds,      \* what each of them may be
    None,
    MaxConcurrentExecutions, PoolSize,      \* Config
    MaxNestedDepth, MaxTotalWork,           \* constants of invocation.go
    MaxOthers,      \* bound: calls of other deployments at a time
    MaxPools        \* bound: pools ever made for the deployment

FunctionTypes == {"query", "mutation", "action", "httpAction"}
Pools == 1 .. MaxPools

ASSUME RuntimeAssumption ==
    /\ CallKinds \in [Calls -> SUBSET (FunctionTypes \cup {"migration", "verify"})]
    /\ None \notin Calls
    /\ MaxConcurrentExecutions \in Nat \ {0} /\ PoolSize \in Nat \ {0}
    /\ MaxNestedDepth \in Nat /\ MaxTotalWork \in Nat /\ MaxOthers \in Nat
    /\ MaxPools \in Nat \ {0}

VARIABLES
    pool,    \* the pool Manager.pools holds for the deployment, 0 for none
    made,    \* the number of pools made so far
    slots,   \* Manager.executionSlots in use
    others,  \* of those, slots held by calls of other deployments
    sem,     \* slots in use of each pool
    tx,      \* the call that holds the writing transaction of the database
    call,    \* the root invocations
    open,    \* executions the observer admitted and that have not ended, by call
    began,   \* calls a handler of which the observer admitted
    durable  \* mutations of each call that committed

vars == <<pool, made, slots, others, sem, tx, call, open, began, durable>>

(* A frame is one entry (a virtual machine) with the function it runs.
   outcome is what its invocation returns; "none" before. *)
Steps == {"tx", "load", "loading", "begin", "run", "end"}
Outcomes == {"ok", "failed", "refused", "started", "panic"}
Frame(type) == [type |-> type, step |-> IF type = "mutation" THEN "tx" ELSE "load",
                outcome |-> "none"]
RootFrame(type) == [Frame(type) EXCEPT !.step = "load"]

NoCall == [kind |-> "query", step |-> "idle", pool |-> 0, expired |-> FALSE,
           work |-> 0, stack |-> <<>>, answer |-> "none"]

TypeOK ==
    /\ pool \in 0 .. MaxPools /\ made \in 0 .. MaxPools
    /\ slots \in 0 .. MaxConcurrentExecutions /\ others \in 0 .. MaxOthers
    /\ sem \in [Pools -> 0 .. PoolSize]
    /\ tx \in Calls \cup {None}
    /\ call \in [Calls ->
         [kind : FunctionTypes \cup {"migration", "verify"},
          step : {"idle", "tx", "pool", "run", "finish", "done"},
          pool : 0 .. MaxPools, expired : BOOLEAN, work : 0 .. MaxTotalWork + 1,
          stack : Seq([type : FunctionTypes \cup {"migration", "verify"},
                       step : Steps, outcome : Outcomes \cup {"none"}]),
          answer : Outcomes \cup {"none"}]]
    /\ open \in [Calls -> Seq({"bundle", "handler", "migration"})]
    /\ began \subseteq Calls
    /\ durable \in [Calls -> Nat]

Init ==
    /\ pool = 0 /\ made = 0 /\ slots = 0 /\ others = 0
    /\ sem = [p \in Pools |-> 0]
    /\ tx = None
    /\ call = [c \in Calls |-> NoCall]
    /\ open = [c \in Calls |-> <<>>]
    /\ began = {}
    /\ durable = [c \in Calls |-> 0]

-----------------------------------------------------------------------------
(* The registry of pools. *)

(* A bundle whose fingerprint differs from the one held: a new pool, whose
   slots are all free.  Calls in flight keep the pool they looked up. *)
CompileDeployment ==
    /\ made < MaxPools
    /\ made' = made + 1 /\ pool' = made + 1
    /\ UNCHANGED <<slots, others, sem, tx, call, open, began, durable>>

Drop ==
    /\ pool # 0
    /\ pool' = 0
    /\ UNCHANGED <<made, slots, others, sem, tx, call, open, began, durable>>

-----------------------------------------------------------------------------
(* Admission of a root invocation. *)

Top(c) == call[c].stack[Len(call[c].stack)]
SetTop(c, f) == [call EXCEPT ![c].stack[Len(call[c].stack)] = f]
Nested(c) == Len(call[c].stack) > 1

Answered(c, a) == [call EXCEPT ![c].step = "done", ![c].answer = a]

(* The root slot, refused at once when none is free. *)
AcquireRoot(c, k, first) ==
    LET asked == [NoCall EXCEPT !.kind = k, !.pool = pool]
    IN  IF slots = MaxConcurrentExecutions
        THEN /\ call' = [call EXCEPT ![c] = [asked EXCEPT !.step = "done", !.answer = "refused"]]
             /\ UNCHANGED <<slots, tx>>
        ELSE /\ slots' = slots + 1
             /\ tx' = IF k = "migration" THEN c ELSE tx
             /\ call' = [call EXCEPT ![c] = [asked EXCEPT !.step = first,
                    !.stack = IF first = "run" THEN <<RootFrame(k)>> ELSE <<>>]]

NotCompiled(c) == call' = Answered(c, "failed") /\ UNCHANGED <<slots, tx>>

(* The pool is looked up first, and kept.  A root mutation is to run in the
   writing transaction, for which it waits with its root slot. *)
InvokeWithDatabase(c, k) ==
    /\ call[c].step = "idle" /\ k \in {"query", "mutation", "action"}
    /\ IF pool = 0 THEN NotCompiled(c)
       ELSE AcquireRoot(c, k, IF k = "mutation" THEN "tx" ELSE "pool")
    /\ UNCHANGED <<pool, made, others, sem, open, began, durable>>

InvokeHTTP(c) ==
    /\ call[c].step = "idle"
    /\ IF pool = 0 THEN NotCompiled(c) ELSE AcquireRoot(c, "httpAction", "pool")
    /\ UNCHANGED <<pool, made, others, sem, open, began, durable>>

(* The caller, an activation, holds the writing transaction already; a
   refusal makes it roll back. *)
InvokeMigration(c) ==
    /\ call[c].step = "idle" /\ tx = None
    /\ IF pool = 0 THEN NotCompiled(c) ELSE AcquireRoot(c, "migration", "pool")
    /\ UNCHANGED <<pool, made, others, sem, open, began, durable>>

(* A bundle is verified before it has a pool. *)
VerifyDeployment(c) ==
    /\ call[c].step = "idle"
    /\ AcquireRoot(c, "verify", "run")
    /\ UNCHANGED <<pool, made, others, sem, open, began, durable>>

Invoke(c, k) ==
    \/ InvokeWithDatabase(c, k)
    \/ k = "httpAction" /\ InvokeHTTP(c)
    \/ k = "migration" /\ InvokeMigration(c)
    \/ k = "verify" /\ VerifyDeployment(c)

(* The root slots are those of the whole process. *)
OtherCall ==
    /\ \/ slots < MaxConcurrentExecutions /\ others < MaxOthers
          /\ slots' = slots + 1 /\ others' = others + 1
       \/ others > 0 /\ slots' = slots - 1 /\ others' = others - 1
    /\ UNCHANGED <<pool, made, sem, tx, call, open, began, durable>>

(* The deadline of the call, or its caller gone away.  Every context of the
   call, of nested ones too, derives from this one. *)
Expire(c) ==
    /\ call[c].step \notin {"idle", "done"} /\ ~call[c].expired
    /\ call' = [call EXCEPT ![c].expired = TRUE]
    /\ UNCHANGED <<pool, made, slots, others, sem, tx, open, began, durable>>

(* RunInTransaction of a root mutation waits for the only writing connection,
   without looking at the context. *)
BeginTx(c) ==
    /\ call[c].step = "tx" /\ tx = None
    /\ tx' = c
    /\ call' = [call EXCEPT ![c].step = "pool"]
    /\ UNCHANGED <<pool, made, slots, others, sem, open, began, durable>>

AcquirePool(c) ==
    /\ call[c].step = "pool" /\ sem[call[c].pool] < PoolSize
    /\ sem' = [sem EXCEPT ![call[c].pool] = @ + 1]
    /\ call' = [call EXCEPT ![c].step = "run", ![c].stack = <<RootFrame(call[c].kind)>>]
    /\ UNCHANGED <<pool, made, slots, others, tx, open, began, durable>>

(* A waiter that looks at no context. *)
GiveUpPool_Never(c) == FALSE /\ call[c].step = "pool"

GiveUpPool(c) ==
    /\ call[c].step = "pool" /\ call[c].expired
    /\ call' = [call EXCEPT ![c].step = "finish", ![c].answer = "failed"]
    /\ UNCHANGED <<pool, made, slots, others, sem, tx, open, began, durable>>

-----------------------------------------------------------------------------
(* One frame: the bundle, then the handler, each an observed execution. *)

Running(c, s) == call[c].step = "run" /\ call[c].stack # <<>> /\ Top(c).step = s

Ended(c, outcome) == SetTop(c, [Top(c) EXCEPT !.step = "end", !.outcome = outcome])

Push(c, kind) == open' = [open EXCEPT ![c] = Append(@, kind)]
Pop(c) == open' = [open EXCEPT ![c] = SubSeq(@, 1, Len(@) - 1)]

(* The observer is asked unless the context has ended; it admits the
   execution, which is open from then on even if the context ended meanwhile,
   or refuses it. *)
BeginExecution(c, kind, next) ==
    \/ call[c].expired /\ call' = Ended(c, "failed") /\ UNCHANGED open
    \/ ~call[c].expired /\ call' = Ended(c, "refused") /\ UNCHANGED open
    \/ ~call[c].expired /\ call' = SetTop(c, next) /\ Push(c, kind)

LoadBundle(c) ==
    /\ Running(c, "load")
    /\ BeginExecution(c, "bundle", [Top(c) EXCEPT !.step = "loading"])
    /\ UNCHANGED <<pool, made, slots, others, sem, tx, began, durable>>

(* The program of the bundle ends, or is interrupted.  Then a verification
   compares what it registered; an invocation goes on to its handler. *)
RunBundle(c) ==
    /\ Running(c, "loading")
    /\ Pop(c)
    /\ \/ /\ ~call[c].expired
          /\ call' = IF call[c].kind = "verify" THEN Ended(c, "ok")
                     ELSE SetTop(c, [Top(c) EXCEPT !.step = "begin"])
       \/ call' = Ended(c, "failed")
       \/ call' = Ended(c, "panic")
    /\ UNCHANGED <<pool, made, slots, others, sem, tx, began, durable>>

(* An unknown function or bad arguments fail before the observer is asked. *)
BeginInvocation(c) ==
    /\ Running(c, "begin") /\ Top(c).type # "migration"
    /\ \/ call' = Ended(c, "failed") /\ UNCHANGED open
       \/ BeginExecution(c, "handler", [Top(c) EXCEPT !.step = "run"])
    /\ began' = IF open' # open THEN began \cup {c} ELSE began
    /\ UNCHANGED <<pool, made, slots, others, sem, tx, durable>>

BeginMigration(c) ==
    /\ Running(c, "begin") /\ Top(c).type = "migration"
    /\ \/ call' = Ended(c, "failed") /\ UNCHANGED open
       \/ BeginExecution(c, "migration", [Top(c) EXCEPT !.step = "run"])
    /\ began' = IF open' # open THEN began \cup {c} ELSE began
    /\ UNCHANGED <<pool, made, slots, others, sem, tx, durable>>

(* What the invocation returns: endExecution marks a refusal of a nested call
   that passes through an admitted parent as started. *)
Marked_Not(outcome) == outcome
Marked(outcome) == IF outcome = "refused" THEN "started" ELSE outcome

EndExecution(c, stack, outcome) ==
    /\ Pop(c)
    /\ call' = [call EXCEPT ![c].stack =
         [stack EXCEPT ![Len(stack)].step = "end", ![Len(stack)].outcome = Marked(outcome)]]

(* The handler returns and its result is valid; it throws or is interrupted;
   a host function panics. *)
Finish(c) ==
    /\ Running(c, "run")
    /\ \E outcome \in (IF call[c].expired THEN {} ELSE {"ok"}) \cup {"failed", "panic"} :
         EndExecution(c, call[c].stack, outcome)
    /\ UNCHANGED <<pool, made, slots, others, sem, tx, began, durable>>

-----------------------------------------------------------------------------
(* Nested calls. *)

(* Only an action may call, and not too deep.  The budget of the whole tree is
   charged before it is looked at, for a call of an httpAction too, which is
   never allowed, and is not given back. *)
MayCall(c) == Top(c).type \in {"action", "httpAction"} /\ Len(call[c].stack) <= MaxNestedDepth
CanRunNested(c, type) == call[c].work + 1 <= MaxTotalWork /\ type # "httpAction"

(* What is not allowed, not registered or has bad arguments is thrown into
   the handler, which goes on.  (A call that is not charged changes nothing and
   is left out.) *)
RunNested(c, type) ==
    /\ Running(c, "run") /\ MayCall(c)
    /\ call[c].work <= MaxTotalWork
    /\ \E called \in (IF CanRunNested(c, type) THEN BOOLEAN ELSE {FALSE}) :
         call' = [call EXCEPT ![c].work = @ + 1,
                              ![c].stack = IF called THEN Append(@, Frame(type)) ELSE @]
    /\ UNCHANGED <<pool, made, slots, others, sem, tx, open, began, durable>>

(* A nested mutation waits for the transaction as a root one does. *)
BeginNestedTx(c) ==
    /\ Running(c, "tx") /\ tx = None
    /\ tx' = c
    /\ call' = SetTop(c, [Top(c) EXCEPT !.step = "load"])
    /\ UNCHANGED <<pool, made, slots, others, sem, open, began, durable>>

(* A commit that does not look at the context. *)
Committed_Late(c, outcome) == outcome = "ok"

(* The transaction of a mutation commits when its invocation succeeded and
   the context has not ended by then; otherwise it is rolled back.  A COMMIT
   that fails without telling what became of it is left out. *)
Committed(c, outcome) == outcome = "ok" /\ ~call[c].expired
Settle(c, outcome) ==
    /\ tx' = None
    /\ durable' = [durable EXCEPT ![c] = IF Committed(c, outcome) THEN @ + 1 ELSE @]
AfterTx(c, outcome) == IF outcome = "ok" /\ call[c].expired THEN "failed" ELSE outcome

(* The frame of a nested call is left.  Its handler gets the result, or
   catches the error, or passes it on; a panic unwinds every frame. *)
ReturnNested(c) ==
    LET frame == Top(c)
        mutation == frame.type = "mutation"
        outcome == IF mutation THEN AfterTx(c, frame.outcome) ELSE frame.outcome
        parents == SubSeq(call[c].stack, 1, Len(call[c].stack) - 1)
    IN  /\ Running(c, "end") /\ Nested(c)
        /\ IF mutation THEN Settle(c, frame.outcome) ELSE UNCHANGED <<tx, durable>>
        /\ \/ /\ outcome # "panic"
              /\ call' = [call EXCEPT ![c].stack = parents]
              /\ UNCHANGED open
           \/ outcome # "ok" /\ EndExecution(c, parents, outcome)
        /\ UNCHANGED <<pool, made, slots, others, sem, began>>

-----------------------------------------------------------------------------
(* The root invocation returns: the slot of the pool first (its deferred
   release runs inside the transaction), then the transaction, then the root
   slot. *)

(* The pool the call looked up (with a fault: the one the deployment has). *)
Home_Current(c) == IF pool = 0 THEN call[c].pool ELSE pool
Home(c) == call[c].pool

ReleasePool(c) ==
    /\ Running(c, "end") /\ ~Nested(c)
    /\ sem' = IF call[c].kind = "verify" THEN sem ELSE [sem EXCEPT ![Home(c)] = @ - 1]
    /\ call' = [call EXCEPT ![c].step = "finish", ![c].answer = Top(c).outcome,
                            ![c].stack = <<>>]
    /\ UNCHANGED <<pool, made, slots, others, tx, open, began, durable>>

(* A migration leaves its transaction to the caller, who settles it once the
   last document is done; here that is the same step. *)
Return(c) ==
    LET mutation == call[c].kind = "mutation" IN
    /\ call[c].step = "finish"
    /\ CASE mutation -> Settle(c, call[c].answer)
         [] call[c].kind = "migration" -> tx' = None /\ UNCHANGED durable
         [] OTHER -> UNCHANGED <<tx, durable>>
    /\ slots' = slots - 1
    /\ call' = Answered(c, IF mutation THEN AfterTx(c, call[c].answer) ELSE call[c].answer)
    /\ UNCHANGED <<pool, made, others, sem, open, began>>

CallStep(c) ==
    \/ BeginTx(c) \/ AcquirePool(c) \/ GiveUpPool(c)
    \/ LoadBundle(c) \/ RunBundle(c) \/ BeginInvocation(c) \/ BeginMigration(c) \/ Finish(c)
    \/ BeginNestedTx(c) \/ ReturnNested(c) \/ ReleasePool(c) \/ Return(c)

Next ==
    \/ CompileDeployment \/ Drop \/ OtherCall
    \/ \E c \in Calls :
        \/ \E k \in CallKinds[c] : Invoke(c, k)
        \/ \E t \in FunctionTypes : RunNested(c, t)
        \/ Expire(c) \/ CallStep(c)

Spec == Init /\ [][Next]_vars

(* Deadlines come, and what holds no user code goes on; user code is only
   assumed to stop once the context has ended, when it is interrupted. *)
FairSpec ==
    /\ Spec
    /\ \A c \in Calls :
        /\ WF_vars(Expire(c))
        /\ WF_vars(call[c].expired /\ CallStep(c))

-----------------------------------------------------------------------------
(* Properties. *)

Holds(c, p) == /\ call[c].step = "run" /\ call[c].kind # "verify" /\ call[c].pool = p
Writing(c) ==
    \/ call[c].kind = "mutation" /\ call[c].step \in {"pool", "run", "finish"}
    \/ call[c].kind = "migration" /\ call[c].step \in {"pool", "run", "finish"}
    \/ /\ call[c].step = "run" /\ call[c].stack # <<>>
       /\ Nested(c) /\ Top(c).type = "mutation" /\ Top(c).step # "tx"

(* Every slot of the process, every slot of a pool and the transaction are
   held by a call that is on its way and will give them back, to the pool they
   came from, whatever was compiled or dropped meanwhile (runtime.go, Drop:
   "safe for in-flight callers: they hold the old pool"). *)
ResourcesAccounted ==
    /\ slots = others + Cardinality({c \in Calls : call[c].step \notin {"idle", "done"}})
    /\ \A p \in Pools : sem[p] = Cardinality({c \in Calls : Holds(c, p)})
    /\ \A c \in Calls : tx = c <=> Writing(c)

(* The answer of a root mutation tells what became of its writes, even when
   the deadline passes between its last statement and the commit
   (InvokeWithDatabase: "invalid returns, timeouts, and cancellations roll
   back all writes"); what runs in no transaction writes nothing. *)
AnswerTellsCommit ==
    \A c \in Calls :
        /\ call[c].kind = "mutation" =>
             durable[c] = (IF call[c].step = "done" /\ call[c].answer = "ok" THEN 1 ELSE 0)
        /\ call[c].kind \in {"query", "migration", "verify"} => durable[c] = 0

(* The runtime keeps what it promises an ExecutionObserver. *)
Observed == INSTANCE Executions WITH
    Calls <- Calls, open <- open, ran <- began,
    answer <- [c \in Calls |-> IF call[c].step = "done" THEN call[c].answer ELSE "none"]
ImplementsExecutions == Observed!Spec

(* Every call that was admitted is answered, although a root mutation waits
   for a pool slot while it holds the transaction and an action in that pool
   waits for the transaction while it holds the slot. *)
CallsReturn == \A c \in Calls : call[c].step # "idle" ~> call[c].step = "done"
=============================================================================
