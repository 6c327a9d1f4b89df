------------------------------ MODULE Hosting ------------------------------
(***************************************************************************)
(* Metering of executions by a hosting provider: the observer that admits  *)
(* and reports every execution (pbvex/hosting_observer.go), the client it  *)
(* calls the provider with (hosting/client.go) and the provider's side of  *)
(* the protocol (hosting/reference.go).                                    *)
(*                                                                         *)
(* A request of the client may be answered late or never; the client then  *)
(* gives up, and the provider may act on the request later.  net holds the *)
(* requests it has not acted on.  Every attempt at one exchange sends the  *)
(* same identifiers, so that the attempts at it are one element of net.    *)
(***************************************************************************)
EXTENDS Naturals, FiniteSets

CONSTANTS
    Execs,              \* executions the runtime asks the observer about
    MaxTracked,         \* maxTrackedExecutions
    MaxInFlight,        \* Config.MaxInFlight of the client
    AdmitAttempts, StartedAttempts, CompleteAttempts,
    MaxFaults           \* bound: answers that come too late, and crashes

ASSUME HostingAssumption ==
    /\ MaxTracked \in Nat /\ MaxInFlight \in Nat \ {0}
    /\ AdmitAttempts \in Nat \ {0} /\ StartedAttempts \in Nat \ {0}
    /\ CompleteAttempts \in Nat \ {0}
    /\ MaxFaults \in Nat

VARIABLES
    exec,       \* each execution, and what Begin or End is doing for it
    tracked,    \* keys of hostingExecutionObserver.inFlight
    unhealthy,  \* its latch
    external,   \* what the observer behind this one was told of an execution
    net,        \* requests the provider has not acted on
    policy,     \* whether the provider allows executions now
    admission,  \* the provider's state of the reservation of an execution
    events,     \* identities of the events it has recorded
    faults

vars == <<exec, tracked, unhealthy, external, net, policy, admission, events, faults>>

Exchanges == {"admit", "started", "completed"}
Steps == {"idle", "external", "track", "run", "close", "done", "gone"} \cup Exchanges

Entries == [step : Steps, waiting : BOOLEAN, attempt : Nat \ {0},
            uncertain : BOOLEAN, cancelled : BOOLEAN]

TypeOK ==
    /\ exec \in [Execs -> Entries]
    /\ tracked \subseteq Execs
    /\ unhealthy \in BOOLEAN
    /\ external \in [Execs -> {"none", "open", "ended"}]
    /\ net \subseteq Execs \X Exchanges \X Nat
    /\ policy \in BOOLEAN
    /\ admission \in [Execs -> {"none", "denied", "admitted", "started", "completed"}]
    /\ events \subseteq Execs \X Exchanges \X Nat
    /\ faults \in 0 .. MaxFaults

Init ==
    /\ exec = [e \in Execs |-> [step |-> "idle", waiting |-> FALSE, attempt |-> 1,
                                uncertain |-> FALSE, cancelled |-> FALSE]]
    /\ tracked = {} /\ unhealthy = FALSE
    /\ external = [e \in Execs |-> "none"]
    /\ net = {} /\ policy = TRUE
    /\ admission = [e \in Execs |-> "none"]
    /\ events = {}
    /\ faults = 0

provider == <<net, policy, admission, events, faults>>

Moved(x, step) == [step |-> step, waiting |-> FALSE, attempt |-> 1,
                   uncertain |-> x.uncertain, cancelled |-> x.cancelled]
GoTo(e, step) == [exec EXCEPT ![e] = Moved(exec[e], step)]

-----------------------------------------------------------------------------
(* Begin, up to the admission. *)

Begin(e) ==
    /\ exec[e].step = "idle"
    /\ exec' = GoTo(e, IF unhealthy \/ exec[e].cancelled THEN "done" ELSE "external")
    /\ UNCHANGED <<tracked, unhealthy, external, provider>>

(* The observer behind this one refuses, or admits without a context to go on
   with, or admits. *)
BeginExternal(e) ==
    /\ exec[e].step = "external"
    /\ \/ exec' = GoTo(e, "done") /\ UNCHANGED external
       \/ exec' = GoTo(e, "done") /\ external' = [external EXCEPT ![e] = "ended"]
       \/ exec' = GoTo(e, "track") /\ external' = [external EXCEPT ![e] = "open"]
    /\ UNCHANGED <<tracked, unhealthy, provider>>

(* A table that is full, or an identity the protocol has no label for, denies
   the execution. *)
Track(e) ==
    /\ exec[e].step = "track"
    /\ \/ exec' = GoTo(e, "close") /\ UNCHANGED tracked
       \/ /\ Cardinality(tracked) < MaxTracked
          /\ tracked' = tracked \cup {e}
          /\ exec' = GoTo(e, "admit")
    /\ UNCHANGED <<unhealthy, external, provider>>

(* Begin returns an error; the observer behind this one, who saw a successful
   Begin, is told the end (Close). *)
Forgotten(e) == tracked \ {e}
Deny(e) == exec' = GoTo(e, "close") /\ tracked' = Forgotten(e)

-----------------------------------------------------------------------------
(* One exchange with the provider: what becomes of an attempt. *)

Latch == unhealthy' = TRUE

Retried(x) == [step |-> x.step, waiting |-> FALSE, attempt |-> x.attempt + 1,
               uncertain |-> TRUE, cancelled |-> x.cancelled]
Again(e) ==
    /\ exec' = [exec EXCEPT ![e] = Retried(exec[e])]
    /\ UNCHANGED <<tracked, unhealthy>>

(* Whether a client without a free slot means that nothing was sent. *)
CleanlyBusy_Always(e, result) == result = "busy"
CleanlyBusy(e, result) == result = "busy" /\ ~exec[e].uncertain

Admitted(e, result) ==
    \/ /\ result = "ok"
       /\ exec' = GoTo(e, "started") /\ UNCHANGED <<tracked, unhealthy>>
    \/ /\ result = "denied" \/ CleanlyBusy(e, result)
       /\ Deny(e) /\ UNCHANGED unhealthy
    \/ /\ result = "error" /\ exec[e].attempt < AdmitAttempts
       /\ Again(e)
    \/ /\ \/ result = "error" /\ exec[e].attempt = AdmitAttempts
          \/ result = "busy" /\ ~CleanlyBusy(e, result)
       /\ Deny(e) /\ Latch

(* A start that is not acknowledged denies the execution; a completion that
   is not leaves the reservation to the provider. *)
Unacknowledged_Start(e, phase) ==
    exec' = GoTo(e, IF phase = "started" THEN "run" ELSE "close") /\ UNCHANGED tracked
Unacknowledged(e, phase) ==
    IF phase = "started" THEN Deny(e) ELSE exec' = GoTo(e, "close") /\ UNCHANGED tracked

Reported(e, phase, result) ==
    LET attempts == IF phase = "started" THEN StartedAttempts ELSE CompleteAttempts
    IN  \/ /\ result = "ok"
           /\ exec' = GoTo(e, IF phase = "started" THEN "run" ELSE "close")
           /\ UNCHANGED <<tracked, unhealthy>>
        \/ /\ result # "ok" /\ exec[e].attempt < attempts
           /\ Again(e)
        \/ /\ result # "ok" /\ exec[e].attempt = attempts
           /\ Latch /\ Unacknowledged(e, phase)

Returned(e, result) ==
    \/ exec[e].step = "admit" /\ Admitted(e, result)
    \/ exec[e].step \in {"started", "completed"} /\ Reported(e, exec[e].step, result)

-----------------------------------------------------------------------------
(* The client. *)

(* RequestID or EventID: the same for all attempts (with a fault: one each). *)
Identifier_Fresh(e) == exec[e].attempt
Identifier(e) == 0
Request(e) == <<e, exec[e].step, Identifier(e)>>

Calling(e) == exec[e].step \in Exchanges
Waiting == {e \in Execs : exec[e].waiting}

(* Only a completion goes on after the call was cancelled. *)
Call(e) ==
    /\ Calling(e) /\ ~exec[e].waiting
    /\ \/ /\ Cardinality(Waiting) = MaxInFlight
          /\ Returned(e, "busy") /\ UNCHANGED net
       \/ /\ Cardinality(Waiting) < MaxInFlight
          /\ IF exec[e].cancelled /\ exec[e].step # "completed"
             THEN Returned(e, "error") /\ UNCHANGED net
             ELSE /\ net' = net \cup {Request(e)}
                  /\ exec' = [exec EXCEPT ![e].waiting = TRUE]
                  /\ UNCHANGED <<tracked, unhealthy>>
    /\ UNCHANGED <<external, policy, admission, events, faults>>

(* The timeout of the client, a broken connection, or the caller gone away.
   The request may still arrive. *)
GiveUp(e) ==
    /\ exec[e].waiting
    /\ \/ exec[e].cancelled /\ exec[e].step # "completed" /\ UNCHANGED faults
       \/ faults < MaxFaults /\ faults' = faults + 1
    /\ Returned(e, "error")
    /\ UNCHANGED <<external, net, policy, admission, events>>

Cancel(e) ==
    /\ exec[e].step \notin {"done", "gone"} /\ ~exec[e].cancelled
    /\ exec' = [exec EXCEPT ![e].cancelled = TRUE]
    /\ UNCHANGED <<tracked, unhealthy, external, provider>>

-----------------------------------------------------------------------------
(* The provider. *)

SetPolicy ==
    /\ policy' = ~policy
    /\ UNCHANGED <<exec, tracked, unhealthy, external, net, admission, events, faults>>

(* A repeated admission gets the decision of the first; a repeated event is
   acknowledged and does nothing; one out of order is a conflict. *)
Repeated(m) == m \in events
Predecessor(phase) == IF phase = "started" THEN "admitted" ELSE "started"
Conflict(m) ==
    IF m[2] = "admit" THEN admission[m[1]] # "none" /\ ~Repeated(m)
    ELSE ~Repeated(m) /\ admission[m[1]] # Predecessor(m[2])

Decide(m, result) ==
    LET e == m[1] IN
    \/ /\ admission[e] = "none"     \* no room
       /\ result = "error" /\ UNCHANGED <<admission, events>>
    \/ /\ admission[e] = "none"
       /\ result = IF policy THEN "ok" ELSE "denied"
       /\ admission' = [admission EXCEPT ![e] = IF policy THEN "admitted" ELSE "denied"]
       /\ events' = events \cup {m}
    \/ /\ Repeated(m)
       /\ result = IF admission[e] = "denied" THEN "denied" ELSE "ok"
       /\ UNCHANGED <<admission, events>>
    \/ Conflict(m) /\ result = "error" /\ UNCHANGED <<admission, events>>

Record(m, result) ==
    \/ Repeated(m) /\ result = "ok" /\ UNCHANGED <<admission, events>>
    \/ Conflict(m) /\ result = "error" /\ UNCHANGED <<admission, events>>
    \/ /\ ~Repeated(m) /\ ~Conflict(m) /\ result = "ok"
       /\ admission' = [admission EXCEPT ![m[1]] = m[2]]
       /\ events' = events \cup {m}

(* The answer reaches the client if it still waits for it. *)
ServeHTTP(m) ==
    LET e == m[1]
        heard == exec[e].waiting /\ Request(e) = m
    IN  /\ m \in net /\ net' = net \ {m}
        /\ \E result \in {"ok", "denied", "error"} :
             /\ IF m[2] = "admit" THEN Decide(m, result) ELSE Record(m, result)
             /\ IF heard THEN Returned(e, result) ELSE UNCHANGED <<exec, tracked, unhealthy>>
        /\ UNCHANGED <<external, policy, faults>>

(* A request nobody waits for may also be lost. *)
Lose(m) ==
    /\ m \in net /\ ~(exec[m[1]].waiting /\ Request(m[1]) = m)
    /\ net' = net \ {m}
    /\ UNCHANGED <<exec, tracked, unhealthy, external, policy, admission, events, faults>>

-----------------------------------------------------------------------------
(* The end of an execution. *)

(* The runtime ends what Begin admitted once; whether the caller has gone
   away by then does not matter. *)
Completion_Cancelled(e) == IF exec[e].cancelled THEN "close" ELSE "completed"
Completion(e) == "completed"
End(e) ==
    /\ exec[e].step = "run"
    /\ exec' = GoTo(e, Completion(e))
    /\ tracked' = tracked \ {e}
    /\ UNCHANGED <<unhealthy, external, provider>>

Close(e) ==
    /\ exec[e].step = "close"
    /\ external' = [external EXCEPT ![e] = "ended"]
    /\ exec' = GoTo(e, "done")
    /\ UNCHANGED <<tracked, unhealthy, provider>>

(* A new process has a new session: what the old one began is the business of
   the provider. *)
Restart ==
    /\ faults < MaxFaults /\ faults' = faults + 1
    /\ exec' = [e \in Execs |-> IF exec[e].step = "idle" THEN exec[e]
                                ELSE [exec[e] EXCEPT !.step = "gone", !.waiting = FALSE]]
    /\ tracked' = {} /\ unhealthy' = FALSE
    /\ UNCHANGED <<external, net, policy, admission, events>>

Next ==
    \/ \E e \in Execs :
        \/ Begin(e) \/ BeginExternal(e) \/ Track(e) \/ Call(e) \/ GiveUp(e)
        \/ Cancel(e) \/ End(e) \/ Close(e)
    \/ \E m \in net : ServeHTTP(m) \/ Lose(m)
    \/ SetPolicy \/ Restart

Spec == Init /\ [][Next]_vars

(* The server goes on with what it began, user code has a deadline, and a
   request the client waits for is answered (or given up). *)
FairSpec ==
    /\ Spec
    /\ \A e \in Execs :
        WF_vars(\/ BeginExternal(e) \/ Track(e) \/ Call(e) \/ End(e) \/ Close(e)
                \/ exec[e].waiting /\ ServeHTTP(Request(e)))

-----------------------------------------------------------------------------
(* Properties. *)

(* User code runs only when the provider has recorded its start (Begin:
   "admission and the started report happen synchronously inside Begin,
   before any user code runs"), whatever was retried, late or cancelled. *)
RunsAreMetered == \A e \in Execs : exec[e].step = "run" => admission[e] = "started"

(* A reservation the provider still holds for an execution that this process
   is done with makes the observer reject new ones, even when the provider
   makes it only after the process gave up ("uncertainty after exhausted
   retries latches the observer unhealthy"). *)
UncertaintyLatches ==
    \A e \in Execs :
        exec[e].step \in {"close", "done"} /\ admission[e] \in {"admitted", "started"}
            => unhealthy

(* No request ever conflicts with what the provider has recorded: retries are
   recognised, and starts and completions arrive in order. *)
NoConflict == \A m \in net : ~Conflict(m)

(* What the provider reserved is completed, unless the observer has latched or
   its process has died. *)
ReservationsSettle ==
    \A e \in Execs :
        admission[e] \in {"admitted", "started"}
            ~> admission[e] = "completed" \/ unhealthy \/ exec[e].step = "gone"
=============================================================================
