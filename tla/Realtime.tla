------------------------------ MODULE Realtime ------------------------------
(***************************************************************************)
(* Realtime queries (backend/internal/realtime): a client opens an event   *)
(* stream for one query, or a session whose stream carries the queries     *)
(* that its control requests add and remove.  Each subscription runs its   *)
(* query in a goroutine of its own, pinned to the deployment it was        *)
(* admitted under, and runs it again when a committed write invalidates    *)
(* it.  A switch of deployments closes every stream.  The steps are those  *)
(* between which the code holds no lock.                                   *)
(*                                                                         *)
(* An operator X_Y is operator X with one fault put into it; the project   *)
(* uses them to show that the properties below can fail.                   *)
(***************************************************************************)
EXTENDS Integers, FiniteSets

CONSTANTS
    Sessions,   \* connections that open a multiplexed session
    Plains,     \* connections that carry one query
    Ids,        \* subscription ids
    Requests,   \* control requests: ids to unsubscribe, ids to subscribe
    None,       \* "no connection", "no subscription", "nothing sent"
    Refused,    \* the payload of a query that was refused execution
    MaxConnections, MaxConcurrentQueries, MaxSubscriptionsPerSession,  \* Config
    MaxSubs,    \* bound: subscription objects ever made
    MaxCalls, MaxSwitches, MaxWrites,  \* bounds: control requests, switches, writes
    MaxEvents   \* bound: all three together

Conns == Sessions \cup Plains
Subs == 1 .. MaxSubs        \* in the order in which they are made
Versions == 0 .. MaxWrites

ASSUME RealtimeAssumption ==
    /\ Sessions \cap Plains = {} /\ None \notin Conns \cup Ids
    /\ None \notin Int /\ Refused \notin Int /\ None # Refused
    /\ Requests \subseteq [drop : SUBSET Ids, add : SUBSET Ids]
    /\ MaxSubs \in Nat /\ MaxCalls \in Nat /\ MaxSwitches \in Nat /\ MaxWrites \in Nat
    /\ MaxEvents \in Nat
    /\ MaxConnections \in Nat \ {0} /\ MaxConcurrentQueries \in Nat \ {0}
    /\ MaxSubscriptionsPerSession \in Nat \ {0}
    /\ IsFiniteSet(Conns)

VARIABLES
    active,     \* the number of the switch that made the active deployment
    generation, \* Broadcaster.generation
    announced,  \* switches whose ReconnectAll has begun
    toCancel,   \* what the ReconnectAll of a switch has yet to cancel
    data,       \* the number of the last committed write
    told,       \* writes whose InvalidateAll has begun
    toNotify,   \* the subscriptions the InvalidateAll of a write has yet to notify
    registered, \* Broadcaster.subs
    sessions,   \* Broadcaster.sessions
    conn,       \* the handler of each connection
    listed,     \* session.subs
    call,       \* the control request of each session
    calls,      \* the number of control requests so far
    sub,        \* the subscriptions and their goroutines
    stream,     \* who holds the lock of an event stream
    shown,      \* subscriptions whose subscribe event was written
    seen        \* the last message written for each subscription that still runs

switchVars == <<active, generation, announced, toCancel>>
dataVars == <<data, told, toNotify>>
broadcastVars == <<registered, sessions>>
envVars == <<switchVars, dataVars, broadcastVars>>
callVars == <<call, calls, listed>>
clientVars == <<shown, seen>>
vars == <<envVars, conn, callVars, sub, stream, clientVars>>

NoSub == [pc |-> "free", conn |-> None, id |-> None, snap |-> 0, live |-> FALSE,
          notify |-> FALSE, paused |-> FALSE, last |-> None, result |-> None]
NoCall == [pc |-> "idle", gen |-> 0, drop |-> {}, add |-> {}, id |-> None,
           snap |-> 0, sub |-> None]
NoConn == [pc |-> "idle", gen |-> 0, snap |-> 0, live |-> FALSE]

Payloads == Versions \cup {Refused, None}
Handlers == [pc : {"idle", "admitted", "resolved", "open", "serving", "unlisted",
                   "waiting", "returned"},
             gen : Nat, snap : 0 .. MaxSwitches, live : BOOLEAN]
Controls == [pc : {"idle", "found", "work", "cancel", "add", "announce", "error"},
             gen : Nat, drop : SUBSET Ids, add : SUBSET Ids, id : Ids \cup {None},
             snap : 0 .. MaxSwitches, sub : Subs \cup {None}]
Subscriptions == [pc : {"free", "new", "ready", "query", "result", "send", "write",
                        "wait", "ended", "left", "done"},
                  conn : Conns \cup {None}, id : Ids \cup {None},
                  snap : 0 .. MaxSwitches, live : BOOLEAN, notify : BOOLEAN,
                  paused : BOOLEAN, last : Payloads, result : Payloads]

(* Every variable holds a value of its kind. *)
TypeOK ==
    /\ active \in 0 .. MaxSwitches /\ generation \in Nat
    /\ announced \subseteq 1 .. MaxSwitches
    /\ toCancel \in [1 .. MaxSwitches -> [subs : SUBSET Subs, sessions : SUBSET Sessions]]
    /\ data \in Versions /\ told \subseteq 1 .. MaxWrites
    /\ toNotify \in [1 .. MaxWrites -> SUBSET Subs]
    /\ registered \subseteq Subs /\ sessions \subseteq Sessions
    /\ conn \in [Conns -> Handlers]
    /\ listed \in [Sessions -> [Ids -> Subs \cup {None}]]
    /\ call \in [Sessions -> Controls]
    /\ calls \in 0 .. MaxCalls
    /\ sub \in [Subs -> Subscriptions]
    /\ stream \in [Conns -> {"free", "handler", "sub", "ping", "announce", "error"}]
    /\ shown \subseteq Subs
    /\ seen \in [Subs -> Payloads]

Init ==
    /\ active = 0 /\ generation = 0 /\ announced = {}
    /\ toCancel = [k \in 1 .. MaxSwitches |-> [subs |-> {}, sessions |-> {}]]
    /\ data = 0 /\ told = {} /\ toNotify = [w \in 1 .. MaxWrites |-> {}]
    /\ registered = {} /\ sessions = {}
    /\ conn = [c \in Conns |-> NoConn]
    /\ listed = [c \in Sessions |-> [i \in Ids |-> None]]
    /\ call = [c \in Sessions |-> NoCall]
    /\ calls = 0
    /\ sub = [x \in Subs |-> NoSub]
    /\ stream = [c \in Conns |-> "free"]
    /\ shown = {} /\ seen = [x \in Subs |-> None]

----------------------------------------------------------------------------
(* Helpers *)

(* The context of a subscription: derived from that of its connection. *)
Live_OwnOnly(x) == sub[x].live
Live(x) == sub[x].live /\ conn[sub[x].conn].live

StreamOf(x) == sub[x].conn
SubsOf(c) == {x \in Subs : sub[x].conn = c}
Querying == {x \in Subs : sub[x].pc \in {"query", "result", "send", "write"}}
Open == {c \in Conns : conn[c].pc \notin {"idle", "returned"}}

Room == active + data + calls < MaxEvents

At(x, pc) == sub[x].pc = pc
Goto(x, pc) == sub' = [sub EXCEPT ![x].pc = pc]
HandlerAt(c, pc) == conn[c].pc = pc
CallAt(c, pc) == call[c].pc = pc
Lock(c, who) == stream[c] = "free" /\ stream' = [stream EXCEPT ![c] = who]
Unlock(c, who) == stream[c] = who /\ stream' = [stream EXCEPT ![c] = "free"]

(* The context of the stream is cancelled. *)
Hang(c) == conn' = [conn EXCEPT ![c].live = FALSE]
(* A write to the stream succeeds, or fails and cancels the stream. *)
Delivered(c) == UNCHANGED conn
Broken(c) == Hang(c)

(* The next unused subscription object; all of them are used up at the bound. *)
Unused == {x \in Subs : At(x, "free")}
IsNext(x) == x \in Unused /\ \A y \in Unused : x <= y

(* subscribeWithFence and registerSession: no activation since gen was read. *)
Fence_Open(gen) == TRUE
Fence(gen) == generation = gen

Subscription(c, id, snap) ==
    [NoSub EXCEPT !.pc = "new", !.conn = c, !.id = id, !.snap = snap, !.live = TRUE]

(* A subscription whose goroutine has ended is garbage. *)
Gone(x) == [NoSub EXCEPT !.pc = "done", !.conn = sub[x].conn]
Dropped(X) ==
    /\ sub' = [x \in Subs |-> IF x \in X THEN Gone(x) ELSE sub[x]]
    /\ seen' = [x \in Subs |-> IF x \in X THEN None ELSE seen[x]]
    /\ toCancel' = [k \in 1 .. MaxSwitches |-> [toCancel[k] EXCEPT !.subs = @ \ X]]
    /\ toNotify' = [w \in 1 .. MaxWrites |-> toNotify[w] \ X]

----------------------------------------------------------------------------
(* Switches of deployments and committed writes *)

(* The transaction that makes another deployment the active one commits. *)
Activate ==
    /\ active < MaxSwitches /\ Room
    /\ active' = active + 1
    /\ UNCHANGED <<generation, announced, toCancel, dataVars, broadcastVars, conn,
                   callVars, sub, stream, clientVars>>

(* The generation advances and the streams to close are listed. *)
ReconnectAll(k) ==
    /\ k \in 1 .. active \ announced
    /\ announced' = announced \cup {k}
    /\ generation' = generation + 1
    /\ toCancel' = [toCancel EXCEPT ![k] = [subs |-> registered, sessions |-> sessions]]
    /\ UNCHANGED <<active, dataVars, broadcastVars, conn, callVars, sub, stream,
                   clientVars>>

(* Its loops: the subscriptions first, then the sessions.  A plain connection
   shares its context with its subscription. *)
CancelSub(k, x) ==
    /\ x \in toCancel[k].subs
    /\ toCancel' = [toCancel EXCEPT ![k].subs = @ \ {x}]
    /\ sub' = [sub EXCEPT ![x].live = FALSE]
    /\ IF StreamOf(x) \in Plains THEN Hang(StreamOf(x)) ELSE UNCHANGED conn
    /\ UNCHANGED <<active, generation, announced, dataVars, broadcastVars, callVars,
                   stream, clientVars>>

CancelSession(k, c) ==
    /\ toCancel[k].subs = {} /\ c \in toCancel[k].sessions
    /\ toCancel' = [toCancel EXCEPT ![k].sessions = @ \ {c}]
    /\ Hang(c)
    /\ UNCHANGED <<active, generation, announced, dataVars, broadcastVars, callVars,
                   sub, stream, clientVars>>

Commit ==
    /\ data < MaxWrites /\ Room
    /\ data' = data + 1
    /\ UNCHANGED <<switchVars, told, toNotify, broadcastVars, conn, callVars, sub,
                   stream, clientVars>>

(* The hooks after a write has succeeded list the subscriptions to notify. *)
InvalidateAll(w) ==
    /\ w \in 1 .. data \ told
    /\ told' = told \cup {w}
    /\ toNotify' = [toNotify EXCEPT ![w] = registered]
    /\ UNCHANGED <<switchVars, data, broadcastVars, conn, callVars, sub, stream,
                   clientVars>>

Notify_IfWaiting(w, x) ==
    /\ x \in toNotify[w]
    /\ toNotify' = [toNotify EXCEPT ![w] = @ \ {x}]
    /\ sub' = [sub EXCEPT ![x].notify = @ \/ At(x, "wait")]
    /\ UNCHANGED <<switchVars, data, told, broadcastVars, conn, callVars, stream,
                   clientVars>>
(* The channel holds one notification; another is dropped. *)
Notify(w, x) ==
    /\ x \in toNotify[w]
    /\ toNotify' = [toNotify EXCEPT ![w] = @ \ {x}]
    /\ sub' = [sub EXCEPT ![x].notify = TRUE]
    /\ UNCHANGED <<switchVars, data, told, broadcastVars, conn, callVars, stream,
                   clientVars>>

----------------------------------------------------------------------------
(* The handlers of connections *)

(* admitStream and admissionGeneration; a connection over the limit is refused. *)
Admit(c) ==
    /\ HandlerAt(c, "idle") /\ Cardinality(Open) < MaxConnections
    /\ conn' = [conn EXCEPT ![c] = [NoConn EXCEPT !.pc = "admitted", !.live = TRUE,
                                                  !.gen = generation]]
    /\ UNCHANGED <<envVars, callVars, sub, stream, clientVars>>

(* The client goes away: the context of its request is cancelled. *)
Disconnect(c) ==
    /\ conn[c].live
    /\ Hang(c)
    /\ UNCHANGED <<envVars, callVars, sub, stream, clientVars>>

Leave(c) == conn' = [conn EXCEPT ![c] = [NoConn EXCEPT !.pc = "returned"]]

(* A malformed request, an unknown function or a failed flush. *)
Reject(c) ==
    /\ conn[c].pc \in {"admitted", "resolved"}
    /\ Leave(c)
    /\ UNCHANGED <<envVars, callVars, sub, stream, clientVars>>

(* The query of a plain connection is resolved against the active deployment. *)
ResolvePlain(c) ==
    /\ c \in Plains /\ HandlerAt(c, "admitted")
    /\ conn' = [conn EXCEPT ![c].pc = "resolved", ![c].snap = active]
    /\ UNCHANGED <<envVars, callVars, sub, stream, clientVars>>

RegisterPlain(c) ==
    /\ c \in Plains /\ HandlerAt(c, "resolved")
    /\ IF Fence(conn[c].gen)
       THEN \E x \in Subs :
            /\ IsNext(x)
            /\ sub' = [sub EXCEPT ![x] = Subscription(c, None, conn[c].snap)]
            /\ registered' = registered \cup {x}
            /\ conn' = [conn EXCEPT ![c].pc = "open"]
       ELSE Leave(c) /\ UNCHANGED <<sub, registered>>
    /\ UNCHANGED <<switchVars, dataVars, sessions, callVars, stream, clientVars>>

RegisterSession(c) ==
    /\ c \in Sessions /\ HandlerAt(c, "admitted")
    /\ IF Fence(conn[c].gen)
       THEN sessions' = sessions \cup {c} /\ conn' = [conn EXCEPT ![c].pc = "open"]
       ELSE Leave(c) /\ UNCHANGED sessions
    /\ UNCHANGED <<switchVars, dataVars, registered, callVars, sub, stream, clientVars>>

(* The handler writes the first event, unless the stream is cancelled. *)
BeginOpen(c) ==
    /\ HandlerAt(c, "open") /\ Lock(c, "handler")
    /\ conn[c].live
    /\ UNCHANGED <<envVars, conn, callVars, sub, clientVars>>

(* A plain connection then starts its subscription: go sub.run(). *)
Started(c) == [x \in Subs |-> IF x \in SubsOf(c) /\ At(x, "new")
                              THEN [sub[x] EXCEPT !.pc = "ready"] ELSE sub[x]]

EndOpen(c) ==
    /\ HandlerAt(c, "open") /\ Unlock(c, "handler")
    /\ \/ /\ conn' = [conn EXCEPT ![c].pc = "serving"]
          /\ shown' = shown \cup SubsOf(c)
       \/ /\ conn' = [conn EXCEPT ![c].pc = "serving", ![c].live = FALSE]
          /\ UNCHANGED shown
    /\ sub' = Started(c)
    /\ UNCHANGED <<envVars, callVars, seen>>

SkipOpen(c) ==
    /\ HandlerAt(c, "open") /\ stream[c] = "free"
    /\ ~conn[c].live
    /\ conn' = [conn EXCEPT ![c].pc = "serving"]
    /\ sub' = Started(c)
    /\ UNCHANGED <<envVars, callVars, stream, clientVars>>

(* The handler of a session writes a ping, the goroutine of a plain one does. *)
BeginPing(c) ==
    /\ HandlerAt(c, "serving") /\ conn[c].live /\ Lock(c, "ping")
    /\ c \in Plains => \A x \in SubsOf(c) : At(x, "wait")
    /\ UNCHANGED <<envVars, conn, callVars, sub, clientVars>>

EndPing(c) ==
    /\ Unlock(c, "ping")
    /\ Delivered(c) \/ Broken(c)
    /\ UNCHANGED <<envVars, callVars, sub, clientVars>>

(* closeSession: the session leaves the broadcaster, ... *)
Unlist(c) ==
    /\ c \in Sessions /\ HandlerAt(c, "serving") /\ ~conn[c].live /\ stream[c] # "ping"
    /\ sessions' = sessions \ {c}
    /\ conn' = [conn EXCEPT ![c].pc = "unlisted"]
    /\ UNCHANGED <<switchVars, dataVars, registered, callVars, sub, stream, clientVars>>

(* ... takes no more subscriptions and is cancelled, ... *)
CloseSession(c) ==
    /\ HandlerAt(c, "unlisted")
    /\ conn' = [conn EXCEPT ![c].pc = "waiting", ![c].live = FALSE]
    /\ UNCHANGED <<envVars, callVars, sub, stream, clientVars>>

(* ... and waits for the goroutines of its subscriptions (session.wg). *)
ReturnSession(c) ==
    /\ HandlerAt(c, "waiting")
    /\ \A x \in SubsOf(c) : At(x, "done")
    /\ Leave(c)
    /\ UNCHANGED <<envVars, callVars, sub, stream, clientVars>>

(* Handle waits for its subscription, cancels it with the stream and drops it. *)
ReturnPlain(c) ==
    /\ c \in Plains /\ HandlerAt(c, "serving")
    /\ \A x \in SubsOf(c) : At(x, "ended")
    /\ registered' = registered \ SubsOf(c)
    /\ Dropped(SubsOf(c))
    /\ Leave(c)
    /\ UNCHANGED <<active, generation, announced, data, told, sessions, callVars,
                   stream, shown>>

----------------------------------------------------------------------------
(* The control requests of a session: one at a time, as the client sends them *)

(* The session is found; an unknown one is answered 404. *)
FindSession(c, r) ==
    /\ CallAt(c, "idle") /\ calls < MaxCalls /\ Room
    /\ conn[c].pc \in {"serving", "unlisted", "waiting", "returned"}
    /\ c \in sessions
    /\ call' = [call EXCEPT ![c] = [NoCall EXCEPT !.pc = "found", !.drop = r.drop,
                                                  !.add = r.add]]
    /\ calls' = calls + 1
    /\ UNCHANGED <<envVars, conn, listed, sub, stream, clientVars>>

(* admissionGeneration, before anything is resolved. *)
AdmitCall(c) ==
    /\ CallAt(c, "found")
    /\ call' = [call EXCEPT ![c].pc = "work", ![c].gen = generation]
    /\ UNCHANGED <<envVars, conn, calls, listed, sub, stream, clientVars>>

(* Unsubscribes apply first: the id is freed, then its subscription cancelled. *)
Remove(c, i) ==
    /\ CallAt(c, "work") /\ i \in call[c].drop
    /\ listed' = [listed EXCEPT ![c][i] = None]
    /\ LET x == listed[c][i] IN
       call' = [call EXCEPT ![c].drop = @ \ {i},
                            ![c].pc = IF x = None THEN "work" ELSE "cancel",
                            ![c].sub = x]
    /\ UNCHANGED <<envVars, conn, calls, sub, stream, clientVars>>

CancelRemoved(c) ==
    /\ CallAt(c, "cancel")
    /\ sub' = [sub EXCEPT ![call[c].sub].live = FALSE]
    /\ call' = [call EXCEPT ![c].pc = "work", ![c].sub = None]
    /\ UNCHANGED <<envVars, conn, calls, listed, stream, clientVars>>

(* resolveSubscription pins the active deployment, or the entry is in error. *)
Resolve(c, i) ==
    /\ CallAt(c, "work") /\ call[c].drop = {} /\ i \in call[c].add
    /\ \E pc \in {"add", "error"} :
         call' = [call EXCEPT ![c].pc = pc, ![c].add = @ \ {i}, ![c].id = i,
                              ![c].snap = active]
    /\ UNCHANGED <<envVars, conn, calls, listed, sub, stream, clientVars>>

Full(c) == Cardinality({i \in Ids : listed[c][i] # None}) >= MaxSubscriptionsPerSession
Closed(c) == conn[c].pc \in {"waiting", "returned"}
AddTo(c, pc) == call' = [call EXCEPT ![c].pc = pc]

(* addSessionSubscription gives up: the session is closed, or out of date. *)
AddRefused(c) ==
    /\ CallAt(c, "add")
    /\ \/ Closed(c) /\ UNCHANGED conn
       \/ /\ ~Closed(c) /\ listed[c][call[c].id] = None /\ ~Full(c)
          /\ ~Fence(call[c].gen) /\ Hang(c)
    /\ call' = [call EXCEPT ![c] = NoCall]
    /\ UNCHANGED <<envVars, calls, listed, sub, stream, clientVars>>

(* The id is subscribed already, or the session is at its limit. *)
AddSkipped(c) ==
    /\ CallAt(c, "add") /\ ~Closed(c)
    /\ \/ listed[c][call[c].id] # None /\ AddTo(c, "work")
       \/ listed[c][call[c].id] = None /\ Full(c) /\ AddTo(c, "error")
    /\ UNCHANGED <<envVars, conn, calls, listed, sub, stream, clientVars>>

(* Registered and listed in one step, under the locks of session and broadcaster. *)
Enlist(c) ==
    /\ CallAt(c, "add")
    /\ listed[c][call[c].id] = None /\ ~Full(c) /\ Fence(call[c].gen)
    /\ \E x \in Subs :
         /\ IsNext(x)
         /\ sub' = [sub EXCEPT ![x] = Subscription(c, call[c].id, call[c].snap)]
         /\ registered' = registered \cup {x}
         /\ listed' = [listed EXCEPT ![c][call[c].id] = x]
         /\ call' = [call EXCEPT ![c].pc = "announce", ![c].sub = x]
    /\ UNCHANGED <<switchVars, dataVars, sessions, conn, calls, stream, clientVars>>
Add_ClosedUnchecked(c) == Enlist(c)
Add(c) == ~Closed(c) /\ Enlist(c)

(* Announced before its first run: sendSubscribe, then go sub.run(). *)
BeginAnnounce(c) ==
    /\ CallAt(c, "announce") /\ Live(call[c].sub) /\ Lock(c, "announce")
    /\ UNCHANGED <<envVars, conn, callVars, sub, clientVars>>

Launch(c) ==
    /\ Goto(call[c].sub, "ready")
    /\ call' = [call EXCEPT ![c].pc = "work", ![c].sub = None]

EndAnnounce(c) ==
    /\ CallAt(c, "announce") /\ Unlock(c, "announce")
    /\ \/ Delivered(c) /\ shown' = shown \cup {call[c].sub}
       \/ Broken(c) /\ UNCHANGED shown
    /\ Launch(c)
    /\ UNCHANGED <<envVars, calls, listed, seen>>

SkipAnnounce(c) ==
    /\ CallAt(c, "announce") /\ ~Live(call[c].sub) /\ stream[c] = "free"
    /\ Launch(c)
    /\ UNCHANGED <<envVars, conn, calls, listed, stream, clientVars>>

(* sendError, on the stream of the session but outside its wait group. *)
BeginError(c) ==
    /\ CallAt(c, "error") /\ conn[c].live /\ Lock(c, "error")
    /\ UNCHANGED <<envVars, conn, callVars, sub, clientVars>>

EndError(c) ==
    /\ CallAt(c, "error") /\ Unlock(c, "error")
    /\ Delivered(c) \/ Broken(c)
    /\ AddTo(c, "work")
    /\ UNCHANGED <<envVars, calls, listed, sub, clientVars>>

SkipError(c) ==
    /\ CallAt(c, "error") /\ ~conn[c].live /\ stream[c] = "free"
    /\ AddTo(c, "work")
    /\ UNCHANGED <<envVars, conn, calls, listed, sub, stream, clientVars>>

Reply(c) ==
    /\ CallAt(c, "work") /\ call[c].drop = {} /\ call[c].add = {}
    /\ call' = [call EXCEPT ![c] = NoCall]
    /\ UNCHANGED <<envVars, conn, calls, listed, sub, stream, clientVars>>

----------------------------------------------------------------------------
(* The goroutine of a subscription: run, runOnce *)

Acquire(x) ==
    /\ At(x, "ready") /\ Live(x)
    /\ Cardinality(Querying) < MaxConcurrentQueries
    /\ Goto(x, "query")
    /\ UNCHANGED <<envVars, conn, callVars, stream, clientVars>>

GiveUp(x) ==
    /\ At(x, "ready") /\ ~Live(x)
    /\ Goto(x, "wait")
    /\ UNCHANGED <<envVars, conn, callVars, stream, clientVars>>

(* InvokeSnapshot reads the database; or it is refused, which pauses reruns. *)
Invoke(x) ==
    /\ At(x, "query")
    /\ \/ sub' = [sub EXCEPT ![x].pc = "result", ![x].result = data]
       \/ sub' = [sub EXCEPT ![x].pc = "result", ![x].result = Refused,
                             ![x].paused = TRUE]
    /\ UNCHANGED <<envVars, conn, callVars, stream, clientVars>>

(* A result that was sent already, or whose stream is cancelled, is dropped. *)
Compare(x) ==
    /\ At(x, "result")
    /\ sub' = IF Live(x) /\ sub[x].result # sub[x].last
              THEN [sub EXCEPT ![x].pc = "send", ![x].last = sub[x].result,
                               ![x].result = None]
              ELSE [sub EXCEPT ![x].pc = "wait", ![x].result = None]
    /\ UNCHANGED <<envVars, conn, callVars, stream, clientVars>>

(* eventStream.write: the context is looked at under the lock of the stream. *)
BeginWrite_Unchecked(x) ==
    /\ At(x, "send") /\ Lock(StreamOf(x), "sub")
    /\ Goto(x, "write")
    /\ UNCHANGED <<envVars, conn, callVars, clientVars>>
BeginWrite(x) ==
    /\ At(x, "send") /\ Live(x) /\ Lock(StreamOf(x), "sub")
    /\ Goto(x, "write")
    /\ UNCHANGED <<envVars, conn, callVars, clientVars>>

EndWrite(x) ==
    /\ At(x, "write") /\ Unlock(StreamOf(x), "sub")
    /\ \/ Delivered(StreamOf(x)) /\ seen' = [seen EXCEPT ![x] = sub[x].last]
       \/ Broken(StreamOf(x)) /\ UNCHANGED seen
    /\ Goto(x, "wait")
    /\ UNCHANGED <<envVars, callVars, shown>>

SkipWrite(x) ==
    /\ At(x, "send") /\ ~Live(x) /\ stream[StreamOf(x)] = "free"
    /\ Goto(x, "wait")
    /\ UNCHANGED <<envVars, conn, callVars, stream, clientVars>>

(* The goroutine waits in its select; a plain one may be writing a ping. *)
Waiting(x) == At(x, "wait") /\ (StreamOf(x) \in Plains => stream[StreamOf(x)] = "free")

Notice(x) ==
    /\ Waiting(x) /\ sub[x].notify
    /\ sub' = [sub EXCEPT ![x].notify = FALSE,
                          ![x].pc = IF sub[x].paused THEN "wait" ELSE "ready"]
    /\ UNCHANGED <<envVars, conn, callVars, stream, clientVars>>

Stop(x) ==
    /\ Waiting(x) /\ ~Live(x)
    /\ Goto(x, "ended")
    /\ UNCHANGED <<envVars, conn, callVars, stream, clientVars>>

(* In a session: unsubscribe, then forget, then the wait group. *)
Unsubscribe(x) ==
    /\ At(x, "ended") /\ StreamOf(x) \in Sessions
    /\ registered' = registered \ {x}
    /\ Goto(x, "left")
    /\ UNCHANGED <<switchVars, dataVars, sessions, conn, callVars, stream, clientVars>>

(* A subscription made since for the same id is left alone. *)
Forget(x) ==
    /\ At(x, "left")
    /\ listed' = [listed EXCEPT ![StreamOf(x)][sub[x].id] = IF @ = x THEN None ELSE @]
    /\ Dropped({x})
    /\ UNCHANGED <<active, generation, announced, data, told, broadcastVars, conn,
                   call, calls, stream, shown>>

----------------------------------------------------------------------------

(* Within the bounds nothing is left to do. *)
Finished ==
    /\ \A c \in Conns : HandlerAt(c, "returned")
    /\ \A c \in Sessions : CallAt(c, "idle")
    /\ ~(active < MaxSwitches /\ Room) /\ ~(data < MaxWrites /\ Room)
    /\ UNCHANGED vars

Broadcast ==
    \/ Activate \/ Commit
    \/ \E k \in 1 .. MaxSwitches :
         \/ ReconnectAll(k)
         \/ \E x \in Subs : CancelSub(k, x)
         \/ \E c \in Sessions : CancelSession(k, c)
    \/ \E w \in 1 .. MaxWrites :
         InvalidateAll(w) \/ \E x \in Subs : Notify(w, x)

(* What a client does, and the ticker. *)
Client(c) == Admit(c) \/ Disconnect(c) \/ Reject(c) \/ BeginPing(c)

Handle(c) ==
    \/ ResolvePlain(c) \/ RegisterPlain(c) \/ RegisterSession(c)
    \/ BeginOpen(c) \/ EndOpen(c) \/ SkipOpen(c) \/ EndPing(c)
    \/ Unlist(c) \/ CloseSession(c) \/ ReturnSession(c) \/ ReturnPlain(c)

HandleSessionControl(c) ==
    \/ AdmitCall(c) \/ CancelRemoved(c)
    \/ \E i \in Ids : Remove(c, i) \/ Resolve(c, i)
    \/ AddRefused(c) \/ AddSkipped(c) \/ Add(c)
    \/ BeginAnnounce(c) \/ EndAnnounce(c) \/ SkipAnnounce(c)
    \/ BeginError(c) \/ EndError(c) \/ SkipError(c)
    \/ Reply(c)

Run(x) ==
    \/ Acquire(x) \/ GiveUp(x) \/ Invoke(x) \/ Compare(x)
    \/ BeginWrite(x) \/ EndWrite(x) \/ SkipWrite(x)
    \/ Notice(x) \/ Stop(x) \/ Unsubscribe(x) \/ Forget(x)

(* The goroutines of the streams. *)
Serve ==
    \/ \E c \in Conns : Handle(c)
    \/ \E c \in Sessions : HandleSessionControl(c)
    \/ \E x \in Subs : Run(x)

Next ==
    \/ Broadcast
    \/ \E c \in Conns : Client(c)
    \/ \E c \in Sessions : \E r \in Requests : FindSession(c, r)
    \/ Serve
    \/ Finished

Spec == Init /\ [][Next]_vars

----------------------------------------------------------------------------
(* Properties *)

(* A subscription that can still be served runs on the active deployment,
   or on an older one only while a later switch has still to announce itself
   or to cancel it (subscribeWithFence, registerSession, ReconnectAll). *)
PinnedToActive ==
    \A x \in registered : Live(x) =>
        \A k \in sub[x].snap + 1 .. active :
            \/ k \notin announced
            \/ x \in toCancel[k].subs \/ StreamOf(x) \in toCancel[k].sessions

(* Once every committed write has been announced, a live subscription that
   waits without a notification has sent its client the result of a run that
   saw the last write, or has told it that it is paused (InvalidateAll and its
   channel of one, runOnce and its comparison with lastSent). *)
FreshWhenQuiet ==
    (told = 1 .. data) =>
        \A x \in Subs :
            Waiting(x) /\ Live(x) /\ ~sub[x].notify /\ (\A w \in told : x \notin toNotify[w])
                => seen[x] = IF sub[x].paused THEN Refused ELSE data

(* A live subscription of a session is the one its id stands for, so that a
   control request can reach it: no id has two, and none is forgotten but the
   one a request is about to cancel (session.remove, session.forget). *)
LiveIsListed ==
    \A x \in Subs : sub[x].pc # "free" /\ StreamOf(x) \in Sessions /\ Live(x) =>
        \/ listed[StreamOf(x)][sub[x].id] = x
        \/ CallAt(StreamOf(x), "cancel") /\ call[StreamOf(x)].sub = x

(* The messages of a subscription follow its subscribe event, and none follows
   the subscribe event of a later subscription for the same id on the stream
   (sendSubscribe before run, the context checked under the lock). *)
MessagesInOrder ==
    [][\A x \in Subs : seen'[x] \notin {seen[x], None} =>
         /\ x \in shown
         /\ \A y \in shown : y > x =>
              ~(sub[y].conn = sub[x].conn /\ sub[y].id = sub[x].id)]_vars

(* When the handler of a stream has returned, no goroutine of a subscription
   is left and nobody is writing to the response but, maybe, a control request
   that reports an error (closeSession, session.wg, Handle). *)
NothingOutlivesHandler ==
    \A c \in Conns : HandlerAt(c, "returned") =>
        /\ \A x \in SubsOf(c) : At(x, "done") /\ x \notin registered
        /\ stream[c] \in {"free", "error"}

(* What the goroutines that are there can do: the guards of the steps of Serve.
   A step that needs a new subscription object counts as possible at the bound. *)
CanHandle(c) ==
    \/ HandlerAt(c, "admitted") \/ HandlerAt(c, "unlisted") \/ stream[c] = "ping"
    \/ HandlerAt(c, "resolved") /\ c \in Plains
    \/ HandlerAt(c, "open") /\ stream[c] \in {"free", "handler"}
    \/ HandlerAt(c, "serving") /\ c \in Sessions /\ ~conn[c].live
    \/ HandlerAt(c, "serving") /\ c \in Plains /\ \A x \in SubsOf(c) : At(x, "ended")
    \/ HandlerAt(c, "waiting") /\ \A x \in SubsOf(c) : At(x, "done")

CanControl(c) ==
    \/ call[c].pc \in {"found", "cancel", "work", "add"}
    \/ CallAt(c, "announce") /\ stream[c] \in {"free", "announce"}
    \/ CallAt(c, "error") /\ stream[c] \in {"free", "error"}

CanRun(x) ==
    \/ At(x, "ready") /\ (Live(x) => Cardinality(Querying) < MaxConcurrentQueries)
    \/ sub[x].pc \in {"query", "result", "left"}
    \/ At(x, "send") /\ stream[StreamOf(x)] = "free"
    \/ At(x, "write") /\ stream[StreamOf(x)] = "sub"
    \/ Waiting(x) /\ (sub[x].notify \/ ~Live(x))
    \/ At(x, "ended") /\ StreamOf(x) \in Sessions

CanServe ==
    \/ \E c \in Conns : CanHandle(c)
    \/ \E c \in Sessions : CanControl(c)
    \/ \E x \in Subs : CanRun(x)

Rested ==
    /\ \A c \in Conns : conn[c].live \/ conn[c].pc \in {"idle", "returned"}
    /\ \A c \in Sessions : CallAt(c, "idle")

(* Goroutines never wait for each other for ever: when none of them can take a
   step, the handler of every cancelled stream has returned and has given back
   its slot, and no control request is left unanswered (Handle, closeSession,
   acquireQuery and its context, eventStream.write). *)
NeverStuck == ENABLED Serve \/ (Rested /\ ~CanServe)
=============================================================================
