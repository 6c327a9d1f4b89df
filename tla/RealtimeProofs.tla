--------------------------- MODULE RealtimeProofs ---------------------------
(***************************************************************************)
(* Proofs about the realtime endpoint for every number of connections,     *)
(* ids, control requests, switches and writes and every limit: the values  *)
(* its variables hold, the safety properties of Realtime, and, in place of *)
(* NeverStuck, which speaks of ENABLED, that the goroutines never all wait.*)
(* CanServe spells out the guards of their steps.                          *)
(*                                                                         *)
(* TypeOK is not inductive alone: a request that cancels or announces a    *)
(* subscription must name one, and the goroutine it starts must belong to  *)
(* the stream of the request.  WellFormedCalls and WellFormedSubs say how  *)
(* handlers, control requests, goroutines and the tables of the session    *)
(* and of the broadcaster fit together.                                    *)
(*                                                                         *)
(* The inductive invariant adds four parts to these.  Fenced is what an    *)
(* admission generation is worth: while it is the current one, no switch   *)
(* after the resolution has announced itself.  Locked says who is at work  *)
(* when the lock of a stream is held.  Ordered compares the subscriptions  *)
(* that follow each other under one id.  Fresh says what a subscription    *)
(* has sent while nothing is on its way.                                   *)
(***************************************************************************)
EXTENDS Realtime, TLAPS, FiniteSetTheorems

Used(x) == sub[x].pc # "free"

(* A session that was opened stays opened. *)
Opened == {"serving", "unlisted", "waiting", "returned"}

WellFormedCalls ==
    \A c \in Sessions :
      /\ call[c].pc \in {"cancel", "announce"} =>
           /\ call[c].sub \in Subs
           /\ Used(call[c].sub) /\ sub[call[c].sub].conn = c
      /\ call[c].pc = "announce" => sub[call[c].sub].pc = "new"
      /\ call[c].pc \in {"add", "error"} => call[c].id \in Ids
      /\ call[c].pc # "idle" => conn[c].pc \in Opened
      /\ \A i \in Ids : listed[c][i] # None =>
           /\ Used(listed[c][i])
           /\ sub[listed[c][i]].conn = c /\ sub[listed[c][i]].id = i

WellFormedSubs ==
    /\ \A x \in Subs :
         /\ sub[x].pc = "free" => ~sub[x].live /\ sub[x].conn = None
         /\ Used(x) => sub[x].conn \in Conns
         /\ sub[x].conn \in Sessions => /\ sub[x].pc = "done" \/ sub[x].id \in Ids
                                        /\ conn[sub[x].conn].pc \in Opened
         /\ sub[x].conn \in Plains => /\ sub[x].id = None
                                      /\ conn[sub[x].conn].pc \in {"open", "serving", "returned"}
         /\ sub[x].pc = "left" => sub[x].conn \in Sessions
         /\ sub[x].pc = "done" => ~sub[x].live
         /\ sub[x].pc \in {"free", "left", "done"} => x \notin registered
    /\ \A c \in Plains :
         conn[c].pc \in {"open", "serving"} => \E x \in Subs : sub[x].conn = c

----------------------------------------------------------------------------
(* Types.  Records written by the steps are of their kind. *)
LEMMA HandlerTypes ==
  ASSUME NEW h \in Handlers
  PROVE  /\ \A n \in Nat : [h EXCEPT !.pc = "admitted", !.live = TRUE, !.gen = n] \in Handlers
         /\ \A d \in 0 .. MaxSwitches : [h EXCEPT !.pc = "resolved", !.snap = d] \in Handlers
         /\ \A p \in {"open", "serving", "unlisted", "waiting", "returned"} :
              /\ [h EXCEPT !.pc = p] \in Handlers
              /\ [h EXCEPT !.pc = p, !.live = FALSE] \in Handlers
         /\ [h EXCEPT !.live = FALSE] \in Handlers
  BY DEF Handlers

LEMMA ControlTypes ==
  ASSUME NEW r \in Controls
  PROVE  /\ \A D, A \in SUBSET Ids : [r EXCEPT !.pc = "found", !.drop = D, !.add = A] \in Controls
         /\ \A n \in Nat : [r EXCEPT !.pc = "work", !.gen = n] \in Controls
         /\ \A p \in {"work", "cancel", "announce"}, x \in Subs \cup {None} :
              [r EXCEPT !.pc = p, !.sub = x] \in Controls
         /\ \A p \in {"work", "cancel"}, x \in Subs \cup {None}, i \in Ids :
              [r EXCEPT !.drop = r.drop \ {i}, !.pc = p, !.sub = x] \in Controls
         /\ \A p \in {"add", "error"}, i \in Ids, d \in 0 .. MaxSwitches :
              [r EXCEPT !.pc = p, !.add = r.add \ {i}, !.id = i, !.snap = d] \in Controls
         /\ \A p \in {"work", "error"} : [r EXCEPT !.pc = p] \in Controls
  BY DEF Controls

LEMMA SubscriptionTypes ==
  ASSUME NEW s \in Subscriptions
  PROVE  /\ \A c \in Conns \cup {None}, i \in Ids \cup {None}, d \in 0 .. MaxSwitches :
              [s EXCEPT !.pc = "new", !.conn = c, !.id = i, !.snap = d, !.live = TRUE]
                \in Subscriptions
         /\ \A c \in Conns \cup {None} : [s EXCEPT !.pc = "done", !.conn = c] \in Subscriptions
         /\ [s EXCEPT !.live = FALSE] \in Subscriptions
         /\ [s EXCEPT !.notify = TRUE] \in Subscriptions
         /\ \A p \in {"ready", "query", "result", "send", "write", "wait", "ended", "left"} :
              /\ [s EXCEPT !.pc = p] \in Subscriptions
              /\ [s EXCEPT !.notify = FALSE, !.pc = p] \in Subscriptions
              /\ \A v \in Payloads :
                   /\ [s EXCEPT !.pc = p, !.result = v] \in Subscriptions
                   /\ [s EXCEPT !.pc = p, !.result = v, !.paused = TRUE] \in Subscriptions
                   /\ [s EXCEPT !.pc = p, !.last = v, !.result = None] \in Subscriptions
<1>1. None \in Payloads
  BY DEF Payloads
<1>2. \A c \in Conns \cup {None}, i \in Ids \cup {None}, d \in 0 .. MaxSwitches :
        [s EXCEPT !.pc = "new", !.conn = c, !.id = i, !.snap = d, !.live = TRUE]
          \in Subscriptions
  BY DEF Subscriptions
<1>3. /\ \A c \in Conns \cup {None} : [s EXCEPT !.pc = "done", !.conn = c] \in Subscriptions
      /\ [s EXCEPT !.live = FALSE] \in Subscriptions
      /\ [s EXCEPT !.notify = TRUE] \in Subscriptions
  <2>1. \A c \in Conns \cup {None} : [s EXCEPT !.pc = "done", !.conn = c] \in Subscriptions
    BY DEF Subscriptions
  <2>2. /\ [s EXCEPT !.live = FALSE] \in Subscriptions
        /\ [s EXCEPT !.notify = TRUE] \in Subscriptions
    BY DEF Subscriptions
  <2> QED
    BY <2>1, <2>2
<1>4. ASSUME NEW p \in {"ready", "query", "result", "send", "write", "wait", "ended", "left"}
      PROVE  /\ [s EXCEPT !.pc = p] \in Subscriptions
             /\ [s EXCEPT !.notify = FALSE, !.pc = p] \in Subscriptions
             /\ \A v \in Payloads :
                  /\ [s EXCEPT !.pc = p, !.result = v] \in Subscriptions
                  /\ [s EXCEPT !.pc = p, !.result = v, !.paused = TRUE] \in Subscriptions
                  /\ [s EXCEPT !.pc = p, !.last = v, !.result = None] \in Subscriptions
  <2>1. /\ [s EXCEPT !.pc = p] \in Subscriptions
        /\ [s EXCEPT !.notify = FALSE, !.pc = p] \in Subscriptions
    BY DEF Subscriptions
  <2>2. ASSUME NEW v \in Payloads
        PROVE  /\ [s EXCEPT !.pc = p, !.result = v] \in Subscriptions
               /\ [s EXCEPT !.pc = p, !.result = v, !.paused = TRUE] \in Subscriptions
    BY DEF Subscriptions
  <2>3. ASSUME NEW v \in Payloads
        PROVE  [s EXCEPT !.pc = p, !.last = v, !.result = None] \in Subscriptions
    BY <1>1 DEF Subscriptions
  <2> QED
    BY <2>1, <2>2, <2>3
<1>5. QED
  BY <1>2, <1>3, <1>4

(* Updating one entry, if there is such an entry, keeps a function's range.  *)
LEMMA Updated ==
  ASSUME NEW S, NEW A, NEW f \in [S -> A], NEW c, NEW v, c \in S => v \in A
  PROVE  [f EXCEPT ![c] = v] \in [S -> A]
OBVIOUS

LEMMA InitialTypes == NoConn \in Handlers /\ NoCall \in Controls /\ NoSub \in Subscriptions
<1>1. MaxSwitches \in Nat
  BY RealtimeAssumption
<1>2. 0 \in 0 .. MaxSwitches /\ None \in Payloads
  BY <1>1 DEF Payloads
<1>3. NoConn \in Handlers
  BY <1>2 DEF Handlers, NoConn
<1>4. NoCall \in Controls
  BY <1>2 DEF Controls, NoCall
<1>5. NoSub \in Subscriptions
  BY <1>2 DEF Subscriptions, NoSub
<1>6. QED
  BY <1>3, <1>4, <1>5

LEMMA HangType ==
  ASSUME TypeOK, NEW c, Hang(c) \/ Leave(c) \/ UNCHANGED conn
  PROVE  conn' \in [Conns -> Handlers]
<1>1. CASE Hang(c)
  BY <1>1, HandlerTypes DEF Hang, TypeOK
<1>2. CASE Leave(c)
  <2>1. [NoConn EXCEPT !.pc = "returned"] \in Handlers
    BY HandlerTypes, InitialTypes
  <2>2. QED
    BY <1>2, <2>1 DEF Leave, TypeOK
<1>3. CASE UNCHANGED conn
  BY <1>3 DEF TypeOK
<1>4. QED
  BY <1>1, <1>2, <1>3

LEMMA FreshType ==
  ASSUME TypeOK, NEW c \in Conns, NEW i \in Ids \cup {None}, NEW d \in 0 .. MaxSwitches
  PROVE  Subscription(c, i, d) \in Subscriptions
  BY SubscriptionTypes, InitialTypes DEF Subscription

LEMMA GoneType ==
  ASSUME TypeOK, NEW X, Dropped(X)
  PROVE  /\ sub' \in [Subs -> Subscriptions]
         /\ seen' \in [Subs -> Payloads]
         /\ toCancel' \in [1 .. MaxSwitches -> [subs : SUBSET Subs, sessions : SUBSET Sessions]]
         /\ toNotify' \in [1 .. MaxWrites -> SUBSET Subs]
<1>1. \A x \in Subs : sub[x].conn \in Conns \cup {None}
  BY DEF TypeOK, Subscriptions
<1>2. \A x \in Subs : Gone(x) \in Subscriptions
  BY <1>1, SubscriptionTypes, InitialTypes DEF Gone
<1>3. sub' \in [Subs -> Subscriptions]
  BY <1>2 DEF Dropped, TypeOK
<1>4. seen' \in [Subs -> Payloads]
  BY DEF Dropped, TypeOK, Payloads
<1>5. toCancel' \in [1 .. MaxSwitches -> [subs : SUBSET Subs, sessions : SUBSET Sessions]]
  BY DEF Dropped, TypeOK
<1>6. toNotify' \in [1 .. MaxWrites -> SUBSET Subs]
  BY DEF Dropped, TypeOK
<1>7. QED
  BY <1>3, <1>4, <1>5, <1>6

LEMMA TypeStep ==
  ASSUME TypeOK, WellFormedCalls, WellFormedSubs, [Next]_vars
  PROVE  TypeOK'
<1> USE InitialTypes DEF switchVars, dataVars, broadcastVars, envVars, callVars,
   clientVars, At, HandlerAt, CallAt, StreamOf, Goto, Lock, Unlock, TypeOK
<1>0. MaxSwitches \in Nat /\ MaxWrites \in Nat /\ MaxCalls \in Nat
  BY RealtimeAssumption
<1>1. ASSUME Activate
      PROVE  TypeOK'
  BY <1>1, <1>0 DEF Activate
<1>2. ASSUME Commit
      PROVE  TypeOK'
  BY <1>2, <1>0 DEF Commit, Versions
<1>3. ASSUME NEW k \in 1 .. MaxSwitches, ReconnectAll(k)
      PROVE  TypeOK'
  BY <1>3 DEF ReconnectAll
<1>4. ASSUME NEW k \in 1 .. MaxSwitches, NEW x \in Subs, CancelSub(k, x)
      PROVE  TypeOK'
  <2>1. conn' \in [Conns -> Handlers]
    BY <1>4, HangType DEF CancelSub
  <2>2. sub' \in [Subs -> Subscriptions]
    BY <1>4, SubscriptionTypes DEF CancelSub
  <2> QED
    BY <1>4, <2>1, <2>2 DEF CancelSub
<1>5. ASSUME NEW k \in 1 .. MaxSwitches, NEW c \in Sessions, CancelSession(k, c)
      PROVE  TypeOK'
  <2>1. conn' \in [Conns -> Handlers]
    BY <1>5, HangType DEF CancelSession
  <2> QED
    BY <1>5, <2>1 DEF CancelSession
<1>6. ASSUME NEW w \in 1 .. MaxWrites, InvalidateAll(w)
      PROVE  TypeOK'
  BY <1>6 DEF InvalidateAll
<1>7. ASSUME NEW w \in 1 .. MaxWrites, NEW x \in Subs, Notify(w, x)
      PROVE  TypeOK'
  <2>1. sub' \in [Subs -> Subscriptions]
    BY <1>7, SubscriptionTypes DEF Notify
  <2> QED
    BY <1>7, <2>1 DEF Notify
<1>8. ASSUME NEW c \in Conns, Admit(c)
      PROVE  TypeOK'
  <2>1. conn' \in [Conns -> Handlers]
    BY <1>8, HandlerTypes DEF Admit
  <2> QED
    BY <1>8, <2>1 DEF Admit
<1>9. ASSUME NEW c \in Conns, Disconnect(c)
      PROVE  TypeOK'
  <2>1. conn' \in [Conns -> Handlers]
    BY <1>9, HangType DEF Disconnect
  <2> QED
    BY <1>9, <2>1 DEF Disconnect
<1>10. ASSUME NEW c \in Conns, Reject(c)
      PROVE  TypeOK'
  <2>1. conn' \in [Conns -> Handlers]
    BY <1>10, HangType DEF Reject
  <2> QED
    BY <1>10, <2>1 DEF Reject
<1>11. ASSUME NEW c \in Conns,
             \/ BeginPing(c) \/ BeginOpen(c)
      PROVE  TypeOK'
  BY <1>11 DEF BeginPing, BeginOpen
<1>12. ASSUME NEW c \in Conns, ResolvePlain(c)
      PROVE  TypeOK'
  <2>1. conn' \in [Conns -> Handlers]
    BY <1>12, HandlerTypes DEF ResolvePlain
  <2> QED
    BY <1>12, <2>1 DEF ResolvePlain
<1>13. ASSUME NEW c \in Conns, RegisterPlain(c)
      PROVE  TypeOK'
  <2>1. conn' \in [Conns -> Handlers]
    <3>1. [conn[c] EXCEPT !.pc = "open"] \in Handlers
      BY HandlerTypes DEF Conns
    <3>2. QED
      BY <1>13, <3>1, HangType DEF RegisterPlain
  <2>2. sub' \in [Subs -> Subscriptions]
    <3>1. conn[c].snap \in 0 .. MaxSwitches
      BY DEF Handlers
    <3>2. Subscription(c, None, conn[c].snap) \in Subscriptions
      BY <3>1, FreshType
    <3>3. QED
      BY <1>13, <3>2 DEF RegisterPlain
  <2> QED
    BY <1>13, <2>1, <2>2 DEF RegisterPlain
<1>14. ASSUME NEW c \in Conns, RegisterSession(c)
      PROVE  TypeOK'
  <2>1. conn' \in [Conns -> Handlers]
    <3>1. [conn[c] EXCEPT !.pc = "open"] \in Handlers
      BY HandlerTypes DEF Conns
    <3>2. QED
      BY <1>14, <3>1, HangType DEF RegisterSession
  <2> QED
    BY <1>14, <2>1 DEF RegisterSession
<1>15. ASSUME NEW c \in Conns, EndOpen(c)
      PROVE  TypeOK'
  <2>1. conn' \in [Conns -> Handlers]
    <3>1. /\ [conn[c] EXCEPT !.pc = "serving"] \in Handlers
          /\ [conn[c] EXCEPT !.pc = "serving", !.live = FALSE] \in Handlers
      BY HandlerTypes DEF Conns
    <3>2. QED
      BY <1>15, <3>1 DEF EndOpen
  <2>2. sub' \in [Subs -> Subscriptions]
    BY <1>15, SubscriptionTypes DEF EndOpen, Started
  <2>3. shown' \subseteq Subs
    BY <1>15 DEF EndOpen, SubsOf
  <2> QED
    BY <1>15, <2>1, <2>2, <2>3 DEF EndOpen
<1>16. ASSUME NEW c \in Conns, SkipOpen(c)
      PROVE  TypeOK'
  <2>1. conn' \in [Conns -> Handlers]
    BY <1>16, HandlerTypes DEF SkipOpen
  <2>2. sub' \in [Subs -> Subscriptions]
    BY <1>16, SubscriptionTypes DEF SkipOpen, Started
  <2> QED
    BY <1>16, <2>1, <2>2 DEF SkipOpen
<1>17. ASSUME NEW c \in Conns, EndPing(c)
      PROVE  TypeOK'
  <2>1. conn' \in [Conns -> Handlers]
    BY <1>17, HangType DEF EndPing, Delivered, Broken
  <2> QED
    BY <1>17, <2>1 DEF EndPing
<1>18. ASSUME NEW c \in Conns, Unlist(c)
      PROVE  TypeOK'
  <2>1. conn' \in [Conns -> Handlers]
    BY <1>18, HandlerTypes DEF Unlist
  <2> QED
    BY <1>18, <2>1 DEF Unlist
<1>19. ASSUME NEW c \in Conns, CloseSession(c)
      PROVE  TypeOK'
  <2>1. conn' \in [Conns -> Handlers]
    BY <1>19, HandlerTypes DEF CloseSession
  <2> QED
    BY <1>19, <2>1 DEF CloseSession
<1>20. ASSUME NEW c \in Conns, ReturnSession(c)
      PROVE  TypeOK'
  <2>1. conn' \in [Conns -> Handlers]
    BY <1>20, HangType DEF ReturnSession
  <2> QED
    BY <1>20, <2>1 DEF ReturnSession
<1>21. ASSUME NEW c \in Conns, ReturnPlain(c)
      PROVE  TypeOK'
  <2>1. conn' \in [Conns -> Handlers]
    BY <1>21, HangType DEF ReturnPlain
  <2>2. sub' \in [Subs -> Subscriptions]
    BY <1>21, GoneType DEF ReturnPlain
  <2>3. /\ seen' \in [Subs -> Payloads] /\ registered' \subseteq Subs
        /\ toCancel' \in [1 .. MaxSwitches -> [subs : SUBSET Subs, sessions : SUBSET Sessions]]
        /\ toNotify' \in [1 .. MaxWrites -> SUBSET Subs]
    BY <1>21, GoneType DEF ReturnPlain
  <2> QED
    BY <1>21, <2>1, <2>2, <2>3 DEF ReturnPlain
<1>22. ASSUME NEW c \in Sessions, NEW r \in Requests, FindSession(c, r)
      PROVE  TypeOK'
  <2>1. call' \in [Sessions -> Controls]
    <3>1. r.drop \in SUBSET Ids /\ r.add \in SUBSET Ids
      BY RealtimeAssumption
    <3>2. [NoCall EXCEPT !.pc = "found", !.drop = r.drop, !.add = r.add] \in Controls
      BY <3>1, ControlTypes
    <3>3. QED
      BY <1>22, <3>2 DEF FindSession
  <2> QED
    BY <1>22, <1>0, <2>1 DEF FindSession
<1>23. ASSUME NEW c \in Sessions, AdmitCall(c)
      PROVE  TypeOK'
  <2>1. call' \in [Sessions -> Controls]
    <3>1. [call[c] EXCEPT !.pc = "work", !.gen = generation] \in Controls
      BY ControlTypes
    <3>2. QED
      BY <1>23, <3>1 DEF AdmitCall
  <2> QED
    BY <1>23, <2>1 DEF AdmitCall
<1>24. ASSUME NEW c \in Sessions, CancelRemoved(c)
      PROVE  TypeOK'
  <2>1. call' \in [Sessions -> Controls]
    <3>1. [call[c] EXCEPT !.pc = "work", !.sub = None] \in Controls
      BY ControlTypes
    <3>2. QED
      BY <1>24, <3>1 DEF CancelRemoved
  <2>2. sub' \in [Subs -> Subscriptions]
    BY <1>24, SubscriptionTypes DEF CancelRemoved
  <2> QED
    BY <1>24, <2>1, <2>2 DEF CancelRemoved
<1>25. ASSUME NEW c \in Sessions, NEW i \in Ids, Remove(c, i)
      PROVE  TypeOK'
  <2>1. call' \in [Sessions -> Controls]
    <3>1. listed[c][i] \in Subs \cup {None} /\ call[c] \in Controls
      OBVIOUS
    <3>2. \A p \in {"work", "cancel"} :
            [call[c] EXCEPT !.drop = call[c].drop \ {i}, !.pc = p, !.sub = listed[c][i]] \in Controls
      BY <3>1, ControlTypes
    <3>3. QED
      BY <1>25, <3>2 DEF Remove
  <2> QED
    BY <1>25, <2>1 DEF Remove
<1>26. ASSUME NEW c \in Sessions, NEW i \in Ids, Resolve(c, i)
      PROVE  TypeOK'
  <2>1. call' \in [Sessions -> Controls]
    <3>1. active \in 0 .. MaxSwitches /\ call[c] \in Controls
      OBVIOUS
    <3>2. \A p \in {"add", "error"} :
            [call[c] EXCEPT !.pc = p, !.add = call[c].add \ {i}, !.id = i, !.snap = active]
              \in Controls
      BY <3>1, ControlTypes
    <3>3. PICK p \in {"add", "error"} :
            call' = [call EXCEPT ![c].pc = p, ![c].add = @ \ {i}, ![c].id = i, ![c].snap = active]
      BY <1>26 DEF Resolve
    <3>4. call' = [call EXCEPT ![c] = [call[c] EXCEPT !.pc = p, !.add = call[c].add \ {i},
                                                      !.id = i, !.snap = active]]
      BY <3>3
    <3>5. QED
      BY <3>2, <3>4
  <2> QED
    BY <1>26, <2>1 DEF Resolve
<1>27. ASSUME NEW c \in Sessions, AddRefused(c)
      PROVE  TypeOK'
  <2>1. conn' \in [Conns -> Handlers]
    BY <1>27, HangType DEF AddRefused
  <2>2. call' \in [Sessions -> Controls]
    BY <1>27, ControlTypes DEF AddRefused
  <2> QED
    BY <1>27, <2>1, <2>2 DEF AddRefused
<1>28. ASSUME NEW c \in Sessions, AddSkipped(c)
      PROVE  TypeOK'
  <2>1. call' \in [Sessions -> Controls]
    <3>1. \A p \in {"work", "error"} : [call[c] EXCEPT !.pc = p] \in Controls
      BY ControlTypes
    <3>2. QED
      BY <1>28, <3>1 DEF AddSkipped, AddTo
  <2> QED
    BY <1>28, <2>1 DEF AddSkipped
<1>29. ASSUME NEW c \in Sessions, Add(c)
      PROVE  TypeOK'
  <2>1. call' \in [Sessions -> Controls]
    <3>1. \A x \in Subs : [call[c] EXCEPT !.pc = "announce", !.sub = x] \in Controls
      BY ControlTypes
    <3>2. PICK x \in Subs : call' = [call EXCEPT ![c].pc = "announce", ![c].sub = x]
      BY <1>29 DEF Add, Enlist
    <3>3. call' = [call EXCEPT ![c] = [call[c] EXCEPT !.pc = "announce", !.sub = x]]
      BY <3>2
    <3>4. QED
      BY <3>1, <3>3
  <2>2. sub' \in [Subs -> Subscriptions]
    <3>1. call[c].snap \in 0 .. MaxSwitches /\ call[c].id \in Ids
      BY <1>29 DEF Add, Enlist, Controls, WellFormedCalls
    <3>2. Subscription(c, call[c].id, call[c].snap) \in Subscriptions
      BY <3>1, FreshType DEF Conns
    <3>3. QED
      BY <1>29, <3>2 DEF Add, Enlist
  <2>3. registered' \subseteq Subs /\ listed' \in [Sessions -> [Ids -> Subs \cup {None}]]
    <3>1. call[c].id \in Ids
      BY <1>29 DEF Add, Enlist, WellFormedCalls
    <3>2. PICK x \in Subs : /\ registered' = registered \cup {x}
                            /\ listed' = [listed EXCEPT ![c][call[c].id] = x]
      BY <1>29 DEF Add, Enlist
    <3>3. QED
      BY <3>1, <3>2
  <2> QED
    BY <1>29, <2>1, <2>2, <2>3
       DEF Add, Enlist
<1>30. ASSUME NEW c \in Sessions,
             \/ BeginAnnounce(c) \/ BeginError(c)
      PROVE  TypeOK'
  BY <1>30 DEF BeginAnnounce, BeginError
<1>31. ASSUME NEW c \in Sessions, EndAnnounce(c)
      PROVE  TypeOK'
  <2>1. conn' \in [Conns -> Handlers]
    BY <1>31, HangType DEF EndAnnounce, Delivered, Broken
  <2>2. call' \in [Sessions -> Controls]
    <3>1. [call[c] EXCEPT !.pc = "work", !.sub = None] \in Controls
      BY ControlTypes
    <3>2. QED
      BY <1>31, <3>1 DEF EndAnnounce, Launch
  <2>3. sub' \in [Subs -> Subscriptions]
    BY <1>31, SubscriptionTypes DEF EndAnnounce, Launch
  <2>4. shown' \subseteq Subs
    BY <1>31 DEF EndAnnounce, WellFormedCalls
  <2> QED
    BY <1>31, <2>1, <2>2, <2>3, <2>4 DEF EndAnnounce
<1>32. ASSUME NEW c \in Sessions, SkipAnnounce(c)
      PROVE  TypeOK'
  <2>1. call' \in [Sessions -> Controls]
    <3>1. [call[c] EXCEPT !.pc = "work", !.sub = None] \in Controls
      BY ControlTypes
    <3>2. QED
      BY <1>32, <3>1 DEF SkipAnnounce, Launch
  <2>2. sub' \in [Subs -> Subscriptions]
    BY <1>32, SubscriptionTypes DEF SkipAnnounce, Launch
  <2> QED
    BY <1>32, <2>1, <2>2 DEF SkipAnnounce
<1>33. ASSUME NEW c \in Sessions, EndError(c)
      PROVE  TypeOK'
  <2>1. conn' \in [Conns -> Handlers]
    BY <1>33, HangType DEF EndError, Delivered, Broken
  <2>2. call' \in [Sessions -> Controls]
    <3>1. [call[c] EXCEPT !.pc = "work"] \in Controls
      BY ControlTypes
    <3>2. QED
      BY <1>33, <3>1 DEF EndError, AddTo
  <2> QED
    BY <1>33, <2>1, <2>2 DEF EndError
<1>34. ASSUME NEW c \in Sessions, SkipError(c)
      PROVE  TypeOK'
  <2>1. call' \in [Sessions -> Controls]
    <3>1. [call[c] EXCEPT !.pc = "work"] \in Controls
      BY ControlTypes
    <3>2. QED
      BY <1>34, <3>1 DEF SkipError, AddTo
  <2> QED
    BY <1>34, <2>1 DEF SkipError
<1>35. ASSUME NEW c \in Sessions, Reply(c)
      PROVE  TypeOK'
  <2>1. call' \in [Sessions -> Controls]
    BY <1>35, ControlTypes DEF Reply
  <2> QED
    BY <1>35, <2>1 DEF Reply
<1>36. ASSUME NEW x \in Subs, Acquire(x)
      PROVE  TypeOK'
  <2>1. sub' \in [Subs -> Subscriptions]
    BY <1>36, SubscriptionTypes DEF Acquire
  <2> QED
    BY <1>36, <2>1 DEF Acquire
<1>37. ASSUME NEW x \in Subs, GiveUp(x)
      PROVE  TypeOK'
  <2>1. sub' \in [Subs -> Subscriptions]
    BY <1>37, SubscriptionTypes DEF GiveUp
  <2> QED
    BY <1>37, <2>1 DEF GiveUp
<1>38. ASSUME NEW x \in Subs, Invoke(x)
      PROVE  TypeOK'
  <2>1. sub' \in [Subs -> Subscriptions]
    <3>1. data \in Payloads /\ Refused \in Payloads
      BY DEF Payloads
    <3>2. sub[x] \in Subscriptions
      OBVIOUS
    <3>3. /\ [sub[x] EXCEPT !.pc = "result", !.result = data] \in Subscriptions
          /\ [sub[x] EXCEPT !.pc = "result", !.result = Refused, !.paused = TRUE]
               \in Subscriptions
      BY <3>1, <3>2, SubscriptionTypes
    <3>4. QED
      BY <1>38, <3>3 DEF Invoke
  <2> QED
    BY <1>38, <2>1 DEF Invoke
<1>39. ASSUME NEW x \in Subs, Compare(x)
      PROVE  TypeOK'
  <2>1. sub' \in [Subs -> Subscriptions]
    <3>1. sub[x].result \in Payloads /\ None \in Payloads
      BY DEF Subscriptions, Payloads
    <3>2. QED
      BY <1>39, <3>1, SubscriptionTypes DEF Compare
  <2> QED
    BY <1>39, <2>1 DEF Compare
<1>40. ASSUME NEW x \in Subs, BeginWrite(x)
      PROVE  TypeOK'
  <2>1. sub' \in [Subs -> Subscriptions]
    BY <1>40, SubscriptionTypes DEF BeginWrite
  <2> QED
    BY <1>40, <2>1 DEF BeginWrite
<1>41. ASSUME NEW x \in Subs, EndWrite(x)
      PROVE  TypeOK'
  <2>1. conn' \in [Conns -> Handlers]
    BY <1>41, HangType DEF EndWrite, Delivered, Broken
  <2>2. sub' \in [Subs -> Subscriptions]
    BY <1>41, SubscriptionTypes DEF EndWrite
  <2>3. seen' \in [Subs -> Payloads]
    BY <1>41 DEF EndWrite, Subscriptions
  <2> QED
    BY <1>41, <2>1, <2>2, <2>3 DEF EndWrite
<1>42. ASSUME NEW x \in Subs, SkipWrite(x)
      PROVE  TypeOK'
  <2>1. sub' \in [Subs -> Subscriptions]
    BY <1>42, SubscriptionTypes DEF SkipWrite
  <2> QED
    BY <1>42, <2>1 DEF SkipWrite
<1>43. ASSUME NEW x \in Subs, Notice(x)
      PROVE  TypeOK'
  <2>1. sub' \in [Subs -> Subscriptions]
    BY <1>43, SubscriptionTypes DEF Notice
  <2> QED
    BY <1>43, <2>1 DEF Notice
<1>44. ASSUME NEW x \in Subs, Stop(x)
      PROVE  TypeOK'
  <2>1. sub' \in [Subs -> Subscriptions]
    BY <1>44, SubscriptionTypes DEF Stop
  <2> QED
    BY <1>44, <2>1 DEF Stop
<1>45. ASSUME NEW x \in Subs, Unsubscribe(x)
      PROVE  TypeOK'
  <2>1. sub' \in [Subs -> Subscriptions]
    BY <1>45, SubscriptionTypes DEF Unsubscribe
  <2> QED
    BY <1>45, <2>1 DEF Unsubscribe
<1>46. ASSUME NEW x \in Subs, Forget(x)
      PROVE  TypeOK'
  <2>1. sub' \in [Subs -> Subscriptions]
    BY <1>46, GoneType DEF Forget
  <2>2. /\ seen' \in [Subs -> Payloads] /\ registered' \subseteq Subs
        /\ toCancel' \in [1 .. MaxSwitches -> [subs : SUBSET Subs, sessions : SUBSET Sessions]]
        /\ toNotify' \in [1 .. MaxWrites -> SUBSET Subs]
    BY <1>46, GoneType DEF Forget
  <2>3. listed' \in [Sessions -> [Ids -> Subs \cup {None}]]
    <3> DEFINE e == IF listed[StreamOf(x)][sub[x].id] = x THEN None
                    ELSE listed[StreamOf(x)][sub[x].id]
               l == [listed[StreamOf(x)] EXCEPT ![sub[x].id] = e]
    <3>1. listed' = [listed EXCEPT ![StreamOf(x)] = l]
      BY <1>46 DEF Forget
    <3>2. listed \in [Sessions -> [Ids -> Subs \cup {None}]]
      BY DEF TypeOK
    <3>3. StreamOf(x) \in Sessions => l \in [Ids -> Subs \cup {None}]
      <4> SUFFICES ASSUME StreamOf(x) \in Sessions PROVE l \in [Ids -> Subs \cup {None}]
        OBVIOUS
      <4>1. listed[StreamOf(x)] \in [Ids -> Subs \cup {None}]
        BY <3>2
      <4>2. sub[x].id \in Ids => e \in Subs \cup {None}
        BY <4>1
      <4> HIDE DEF e
      <4> PICK r \in [Ids -> Subs \cup {None}] : r = listed[StreamOf(x)]
        BY <4>1
      <4>3. [r EXCEPT ![sub[x].id] = e] \in [Ids -> Subs \cup {None}]
        BY <4>2
      <4> QED
        BY <4>3
    <3> HIDE DEF l
    <3>4. [listed EXCEPT ![StreamOf(x)] = l] \in [Sessions -> [Ids -> Subs \cup {None}]]
      BY <3>2, <3>3, Updated
    <3> QED
      BY <3>1, <3>4
  <2> QED
    BY <1>46, <2>1, <2>2, <2>3 DEF Forget
<1>47. CASE UNCHANGED vars
  BY <1>47 DEF vars
<1> QED
  BY <1>1, <1>2, <1>3, <1>4, <1>5, <1>6, <1>7, <1>8, <1>9, <1>10, <1>11, <1>12,
     <1>13, <1>14, <1>15, <1>16, <1>17, <1>18, <1>19, <1>20, <1>21, <1>22,
     <1>23, <1>24, <1>25, <1>26, <1>27, <1>28, <1>29, <1>30, <1>31, <1>32,
     <1>33, <1>34, <1>35, <1>36, <1>37, <1>38, <1>39, <1>40, <1>41, <1>42,
     <1>43, <1>44, <1>45, <1>46, <1>47 DEF Next, Broadcast, Client, Handle, HandleSessionControl, Run, Serve, Finished

----------------------------------------------------------------------------
(* What the steps that only cancel a stream leave alone. *)
LEMMA Hung ==
  ASSUME TypeOK, NEW c \in Conns, Hang(c) \/ Delivered(c) \/ Broken(c)
  PROVE  \A d \in Conns : /\ conn'[d].pc = conn[d].pc /\ conn'[d].gen = conn[d].gen
                          /\ conn'[d].snap = conn[d].snap
                          /\ conn'[d].live => conn[d].live
<1>1. CASE UNCHANGED conn
  BY <1>1
<1>2. CASE Hang(c)
  BY <1>2 DEF Hang
<1>3. QED
  BY <1>1, <1>2 DEF Delivered, Broken

(* Nor can a goroutine that goes on upset the tables. *)
LEMMA SubsKept ==
  ASSUME TypeOK, WellFormedSubs, UNCHANGED registered,
         \A d \in Conns : conn'[d].pc = conn[d].pc,
         \A y \in Subs :
           /\ sub'[y].conn = sub[y].conn /\ sub'[y].id = sub[y].id
           /\ sub'[y].live => sub[y].live
           /\ \/ sub'[y].pc = sub[y].pc
              \/ Used(y) /\ sub[y].pc # "done" /\ sub'[y].pc \notin {"free", "left", "done"}
  PROVE  WellFormedSubs'
<1>1. ASSUME NEW x \in Subs
      PROVE  /\ sub'[x].pc = "free" => ~sub'[x].live /\ sub'[x].conn = None
             /\ sub'[x].pc # "free" => sub'[x].conn \in Conns
             /\ sub'[x].conn \in Sessions => sub'[x].pc = "done" \/ sub'[x].id \in Ids
             /\ sub'[x].conn \in Plains => sub'[x].id = None
             /\ sub'[x].pc = "left" => sub'[x].conn \in Sessions
             /\ sub'[x].pc = "done" => ~sub'[x].live
             /\ sub'[x].pc \in {"free", "left", "done"} => x \notin registered'
  BY <1>1 DEF WellFormedSubs, Used
<1>2. ASSUME NEW x \in Subs
      PROVE  /\ sub'[x].conn \in Sessions => conn'[sub'[x].conn].pc \in Opened
             /\ sub'[x].conn \in Plains => conn'[sub'[x].conn].pc \in {"open", "serving", "returned"}
  BY <1>2 DEF WellFormedSubs, Conns
<1>3. ASSUME NEW c \in Plains, conn'[c].pc \in {"open", "serving"}
      PROVE  \E x \in Subs : sub'[x].conn = c
  BY <1>3 DEF WellFormedSubs, Conns
<1>4. QED
  BY <1>1, <1>2, <1>3 DEF WellFormedSubs, Used

LEMMA CallsKept ==
  ASSUME TypeOK, WellFormedCalls, UNCHANGED <<call, listed>>,
         \A d \in Sessions : conn[d].pc \in Opened => conn'[d].pc \in Opened,
         \A d \in Sessions : call[d].pc = "announce" => sub'[call[d].sub].pc = "new",
         \A y \in Subs : /\ sub'[y].conn = sub[y].conn
                         /\ Used(y) => sub'[y].pc # "free"
                         /\ sub[y].conn \in Sessions => sub'[y].id = sub[y].id
  PROVE  WellFormedCalls'
<1>1. ASSUME NEW c \in Sessions
      PROVE  /\ call'[c].pc \in {"cancel", "announce"} =>
                  /\ call'[c].sub \in Subs
                  /\ sub'[call'[c].sub].pc # "free" /\ sub'[call'[c].sub].conn = c
             /\ call'[c].pc = "announce" => sub'[call'[c].sub].pc = "new"
             /\ call'[c].pc \in {"add", "error"} => call'[c].id \in Ids
             /\ call'[c].pc # "idle" => conn'[c].pc \in Opened
  BY <1>1 DEF WellFormedCalls
<1>2. ASSUME NEW c \in Sessions, NEW i \in Ids, listed'[c][i] # None
      PROVE  /\ sub'[listed'[c][i]].pc # "free"
             /\ sub'[listed'[c][i]].conn = c /\ sub'[listed'[c][i]].id = i
  <2>1. listed[c][i] \in Subs
    BY <1>2 DEF TypeOK
  <2>2. QED
    BY <1>2, <2>1 DEF WellFormedCalls
<1>3. QED
  BY <1>1, <1>2 DEF WellFormedCalls, Used

(* A request that goes back to its work looks at nothing it has to know.     *)
LEMMA CallWorks ==
  ASSUME TypeOK, WellFormedCalls, NEW c \in Sessions, UNCHANGED listed,
         call[c].pc # "idle", call'[c].pc = "work",
         \A d \in Sessions \ {c} : call'[d] = call[d],
         \A d \in Conns : conn'[d].pc = conn[d].pc,
         \A y \in Subs : /\ sub'[y].conn = sub[y].conn /\ sub'[y].id = sub[y].id
                         /\ Used(y) => sub'[y].pc # "free"
                         /\ sub[y].conn # c => sub'[y].pc = sub[y].pc
  PROVE  WellFormedCalls'
<1>1. ASSUME NEW d \in Sessions
      PROVE  /\ call'[d].pc \in {"cancel", "announce"} =>
                  /\ call'[d].sub \in Subs
                  /\ sub'[call'[d].sub].pc # "free" /\ sub'[call'[d].sub].conn = d
             /\ call'[d].pc = "announce" => sub'[call'[d].sub].pc = "new"
             /\ call'[d].pc \in {"add", "error"} => call'[d].id \in Ids
             /\ call'[d].pc # "idle" => conn'[d].pc \in Opened
  <2>1. CASE d = c
    BY <2>1 DEF WellFormedCalls, Conns
  <2>2. CASE d # c
    BY <2>2 DEF WellFormedCalls, Conns
  <2>3. QED
    BY <2>1, <2>2
<1>2. ASSUME NEW d \in Sessions, NEW i \in Ids, listed'[d][i] # None
      PROVE  /\ sub'[listed'[d][i]].pc # "free"
             /\ sub'[listed'[d][i]].conn = d /\ sub'[listed'[d][i]].id = i
  <2>1. listed[d][i] \in Subs
    BY <1>2 DEF TypeOK
  <2>2. QED
    BY <1>2, <2>1 DEF WellFormedCalls
<1>3. QED
  BY <1>1, <1>2 DEF WellFormedCalls, Used

LEMMA SubsStep ==
  ASSUME TypeOK, WellFormedCalls, WellFormedSubs, [Next]_vars
  PROVE  WellFormedSubs'
<1> USE DEF switchVars, dataVars, broadcastVars, envVars, callVars, clientVars,
   At, HandlerAt, CallAt, StreamOf, Goto, Lock, Unlock, Conns
<1>0. /\ sub \in [Subs -> Subscriptions] /\ conn \in [Conns -> Handlers]
      /\ call \in [Sessions -> Controls]
      /\ listed \in [Sessions -> [Ids -> Subs \cup {None}]]
      /\ Sessions \cap Plains = {} /\ None \notin Conns \cup Ids \cup Int
  BY RealtimeAssumption DEF TypeOK
<1> USE <1>0
<1>1. ASSUME
             \/ Activate \/ Commit
      PROVE  WellFormedSubs'
  BY <1>1 DEF Activate, Commit, WellFormedSubs, Used
<1>2. ASSUME NEW k \in 1 .. MaxSwitches, ReconnectAll(k)
      PROVE  WellFormedSubs'
  BY <1>2 DEF ReconnectAll, WellFormedSubs, Used
<1>3. ASSUME NEW k \in 1 .. MaxSwitches, NEW x \in Subs, CancelSub(k, x)
      PROVE  WellFormedSubs'
  <2>1. \A d \in Conns : conn'[d].pc = conn[d].pc
    <3>1. StreamOf(x) \in Plains \/ UNCHANGED conn
      BY <1>3 DEF CancelSub
    <3>2. QED
      BY <1>3, <3>1, Hung DEF CancelSub
  <2>2. \A y \in Subs : /\ sub'[y].pc = sub[y].pc /\ sub'[y].conn = sub[y].conn
                        /\ sub'[y].id = sub[y].id
                        /\ sub'[y].live => sub[y].live
    BY <1>3 DEF CancelSub
  <2>3. UNCHANGED registered
    BY <1>3 DEF CancelSub
  <2>4. QED
    BY <2>1, <2>2, <2>3, SubsKept
<1>4. ASSUME NEW k \in 1 .. MaxSwitches, NEW c \in Sessions, CancelSession(k, c)
      PROVE  WellFormedSubs'
  BY <1>4 DEF CancelSession, WellFormedSubs, Hang, Used
<1>5. ASSUME NEW w \in 1 .. MaxWrites, InvalidateAll(w)
      PROVE  WellFormedSubs'
  BY <1>5 DEF InvalidateAll, WellFormedSubs, Used
<1>6. ASSUME NEW w \in 1 .. MaxWrites, NEW x \in Subs, Notify(w, x)
      PROVE  WellFormedSubs'
  BY <1>6 DEF Notify, WellFormedSubs, Used
<1>7. ASSUME NEW c \in Conns, Admit(c)
      PROVE  WellFormedSubs'
  BY <1>7 DEF Admit, WellFormedSubs, Used, Opened
<1>8. ASSUME NEW c \in Conns, Disconnect(c)
      PROVE  WellFormedSubs'
  BY <1>8 DEF Disconnect, WellFormedSubs, Hang, Used
<1>9. ASSUME NEW c \in Conns, Reject(c)
      PROVE  WellFormedSubs'
  BY <1>9 DEF Reject, WellFormedSubs, Leave, Used, Opened
<1>10. ASSUME NEW c \in Conns,
             \/ BeginPing(c) \/ BeginOpen(c)
      PROVE  WellFormedSubs'
  BY <1>10 DEF BeginPing, BeginOpen, WellFormedSubs, Used
<1>11. ASSUME NEW c \in Conns, ResolvePlain(c)
      PROVE  WellFormedSubs'
  BY <1>11 DEF ResolvePlain, WellFormedSubs, Used
<1>12. ASSUME NEW c \in Conns, RegisterPlain(c)
      PROVE  WellFormedSubs'
  <2>1. CASE Fence(conn[c].gen)
    <3>1. PICK x \in Subs :
            /\ At(x, "free")
            /\ sub' = [sub EXCEPT ![x] = Subscription(c, None, conn[c].snap)]
            /\ registered' = registered \cup {x}
      BY <1>12, <2>1 DEF RegisterPlain, IsNext, Unused
    <3>2. \A d \in Conns : conn'[d].pc = IF d = c THEN "open" ELSE conn[d].pc
      BY <1>12, <2>1 DEF RegisterPlain, Handlers
    <3>3. \A y \in Subs : y # x => sub'[y] = sub[y]
      BY <3>1
    <3>4. sub'[x].pc = "new" /\ sub'[x].conn = c /\ sub'[x].id = None
      BY <3>1 DEF Subscription
    <3>5. c \in Plains /\ conn[c].pc = "resolved"
      BY <1>12 DEF RegisterPlain
    <3>6. QED
      BY <3>1, <3>2, <3>3, <3>4, <3>5 DEF WellFormedSubs, Used
  <2>2. CASE ~Fence(conn[c].gen)
    <3>1. /\ \A d \in Conns : conn'[d].pc = IF d = c THEN "returned" ELSE conn[d].pc
          /\ UNCHANGED <<sub, registered>> /\ conn[c].pc = "resolved"
      BY <1>12, <2>2 DEF RegisterPlain, Leave, NoConn
    <3>2. QED
      BY <3>1 DEF WellFormedSubs, Used, Opened
  <2>3. QED
    BY <2>1, <2>2
<1>13. ASSUME NEW c \in Conns, RegisterSession(c)
      PROVE  WellFormedSubs'
  <2>1. \A d \in Conns \ {c} : conn'[d].pc = conn[d].pc
    BY <1>13 DEF RegisterSession, Leave
  <2>2. conn[c].pc = "admitted" /\ c \in Sessions /\ UNCHANGED <<sub, registered>>
    BY <1>13 DEF RegisterSession
  <2>3. QED
    BY <2>1, <2>2 DEF WellFormedSubs, Used, Opened
<1>14. ASSUME NEW c \in Conns, EndOpen(c)
      PROVE  WellFormedSubs'
  <2>1. /\ \A d \in Conns : conn'[d].pc = IF d = c THEN "serving" ELSE conn[d].pc
        /\ conn[c].pc = "open" /\ UNCHANGED registered
    BY <1>14 DEF EndOpen, Handlers
  <2>2. \A y \in Subs : /\ sub'[y].conn = sub[y].conn /\ sub'[y].id = sub[y].id
                        /\ sub'[y].live => sub[y].live
                        /\ \/ sub'[y].pc = sub[y].pc
                           \/ sub[y].pc = "new" /\ sub'[y].pc = "ready"
    BY <1>14 DEF EndOpen, Started
  <2>3. ASSUME NEW d \in Plains, conn'[d].pc \in {"open", "serving"}
        PROVE  \E x \in Subs : sub'[x].conn = d
    <3>1. conn[d].pc \in {"open", "serving"}
      BY <2>1, <2>3
    <3>2. PICK x \in Subs : sub[x].conn = d
      BY <3>1 DEF WellFormedSubs
    <3>3. QED
      BY <2>2, <3>2
  <2>4. ASSUME NEW y \in Subs
        PROVE  /\ sub'[y].conn \in Sessions => conn'[sub'[y].conn].pc \in Opened
               /\ sub'[y].conn \in Plains =>
                    conn'[sub'[y].conn].pc \in {"open", "serving", "returned"}
    BY <2>1, <2>2 DEF WellFormedSubs, Opened
  <2>5. QED
    BY <2>1, <2>2, <2>3, <2>4 DEF WellFormedSubs, Used
<1>15. ASSUME NEW c \in Conns, SkipOpen(c)
      PROVE  WellFormedSubs'
  BY <1>15 DEF SkipOpen, WellFormedSubs, Started, Used, Opened
<1>16. ASSUME NEW c \in Conns, EndPing(c)
      PROVE  WellFormedSubs'
  <2>1. \A d \in Conns : conn'[d].pc = conn[d].pc
    BY <1>16, Hung DEF EndPing
  <2>2. UNCHANGED <<sub, registered>>
    BY <1>16 DEF EndPing
  <2>3. QED
    BY <2>1, <2>2 DEF WellFormedSubs, Used
<1>17. ASSUME NEW c \in Conns, Unlist(c)
      PROVE  WellFormedSubs'
  BY <1>17 DEF Unlist, WellFormedSubs, Used, Opened
<1>18. ASSUME NEW c \in Conns, CloseSession(c)
      PROVE  WellFormedSubs'
  BY <1>18 DEF CloseSession, WellFormedSubs, Used, Opened
<1>19. ASSUME NEW c \in Conns, ReturnSession(c)
      PROVE  WellFormedSubs'
  BY <1>19 DEF ReturnSession, WellFormedSubs, Leave, Used, Opened
<1>20. ASSUME NEW c \in Conns, ReturnPlain(c)
      PROVE  WellFormedSubs'
  BY <1>20 DEF ReturnPlain, WellFormedSubs, Gone, Dropped, Leave, NoSub, NoConn,
     Used, Opened
<1>21. ASSUME NEW c \in Sessions, NEW r \in Requests, FindSession(c, r)
      PROVE  WellFormedSubs'
  BY <1>21 DEF FindSession, WellFormedSubs, Used
<1>22. ASSUME NEW c \in Sessions,
             \/ AdmitCall(c) \/ AddSkipped(c) \/ BeginAnnounce(c)
             \/ BeginError(c) \/ SkipError(c) \/ Reply(c)
      PROVE  WellFormedSubs'
  BY <1>22 DEF AdmitCall, AddSkipped, BeginAnnounce, BeginError, SkipError,
     Reply, WellFormedSubs, Used
<1>23. ASSUME NEW c \in Sessions, CancelRemoved(c)
      PROVE  WellFormedSubs'
  BY <1>23 DEF CancelRemoved, WellFormedSubs, Used
<1>24. ASSUME NEW c \in Sessions, NEW i \in Ids,
             \/ Remove(c, i) \/ Resolve(c, i)
      PROVE  WellFormedSubs'
  BY <1>24 DEF Remove, Resolve, WellFormedSubs, Used
<1>25. ASSUME NEW c \in Sessions, AddRefused(c)
      PROVE  WellFormedSubs'
  <2>1. \A d \in Conns : conn'[d].pc = conn[d].pc
    BY <1>25, Hung DEF AddRefused
  <2>2. UNCHANGED <<sub, registered>>
    BY <1>25 DEF AddRefused
  <2>3. QED
    BY <2>1, <2>2 DEF WellFormedSubs, Used
<1>26. ASSUME NEW c \in Sessions, Add(c)
      PROVE  WellFormedSubs'
  <2>1. PICK x \in Subs :
          /\ At(x, "free")
          /\ sub' = [sub EXCEPT ![x] = Subscription(c, call[c].id, call[c].snap)]
          /\ registered' = registered \cup {x}
    BY <1>26 DEF Add, Enlist, IsNext, Unused
  <2>2. UNCHANGED conn
    BY <1>26 DEF Add, Enlist
  <2>3. \A y \in Subs : y # x => sub'[y] = sub[y]
    BY <2>1
  <2>4. sub'[x].pc = "new" /\ sub'[x].conn = c /\ sub'[x].id = call[c].id
    BY <2>1 DEF Subscription
  <2>5. call[c].id \in Ids /\ conn[c].pc \in Opened
    BY <1>26 DEF Add, Enlist, WellFormedCalls
  <2>6. QED
    BY <2>1, <2>2, <2>3, <2>4, <2>5 DEF WellFormedSubs, Used
<1>27. ASSUME NEW c \in Sessions, EndAnnounce(c)
      PROVE  WellFormedSubs'
  <2>1. \A d \in Conns : conn'[d].pc = conn[d].pc
    BY <1>27, Hung DEF EndAnnounce
  <2>2. call[c].sub \in Subs /\ sub[call[c].sub].conn = c /\ sub[call[c].sub].pc = "new"
    BY <1>27 DEF EndAnnounce, WellFormedCalls
  <2>3. \A y \in Subs : /\ sub'[y].pc = IF y = call[c].sub THEN "ready" ELSE sub[y].pc
                        /\ sub'[y].conn = sub[y].conn /\ sub'[y].id = sub[y].id
                        /\ sub'[y].live = sub[y].live
    BY <1>27 DEF EndAnnounce, Launch
  <2>4. UNCHANGED registered
    BY <1>27 DEF EndAnnounce
  <2>5. QED
    BY <2>1, <2>2, <2>3, <2>4, SubsKept DEF Used
<1>28. ASSUME NEW c \in Sessions, SkipAnnounce(c)
      PROVE  WellFormedSubs'
  <2>1. \A d \in Conns : conn'[d].pc = conn[d].pc
    BY <1>28, Hung DEF SkipAnnounce
  <2>2. call[c].sub \in Subs /\ sub[call[c].sub].conn = c /\ sub[call[c].sub].pc = "new"
    BY <1>28 DEF SkipAnnounce, WellFormedCalls
  <2>3. \A y \in Subs : /\ sub'[y].pc = IF y = call[c].sub THEN "ready" ELSE sub[y].pc
                        /\ sub'[y].conn = sub[y].conn /\ sub'[y].id = sub[y].id
                        /\ sub'[y].live = sub[y].live
    BY <1>28 DEF SkipAnnounce, Launch
  <2>4. UNCHANGED registered
    BY <1>28 DEF SkipAnnounce
  <2>5. QED
    BY <2>1, <2>2, <2>3, <2>4, SubsKept DEF Used
<1>29. ASSUME NEW c \in Sessions, EndError(c)
      PROVE  WellFormedSubs'
  <2>1. \A d \in Conns : conn'[d].pc = conn[d].pc
    BY <1>29, Hung DEF EndError
  <2>2. UNCHANGED <<sub, registered>>
    BY <1>29 DEF EndError
  <2>3. QED
    BY <2>1, <2>2 DEF WellFormedSubs, Used
<1>30. ASSUME NEW x \in Subs, Acquire(x)
      PROVE  WellFormedSubs'
  BY <1>30 DEF Acquire, WellFormedSubs, Used
<1>31. ASSUME NEW x \in Subs, GiveUp(x)
      PROVE  WellFormedSubs'
  BY <1>31 DEF GiveUp, WellFormedSubs, Used
<1>32. ASSUME NEW x \in Subs, Invoke(x)
      PROVE  WellFormedSubs'
  <2>1. \A y \in Subs : /\ sub'[y].pc = IF y = x THEN "result" ELSE sub[y].pc
                        /\ sub'[y].conn = sub[y].conn /\ sub'[y].id = sub[y].id
                        /\ sub'[y].live = sub[y].live
    BY <1>32 DEF Invoke, Subscriptions
  <2>2. UNCHANGED <<conn, registered>> /\ At(x, "query")
    BY <1>32 DEF Invoke
  <2>3. QED
    BY <2>1, <2>2 DEF WellFormedSubs, Used
<1>33. ASSUME NEW x \in Subs, Compare(x)
      PROVE  WellFormedSubs'
  <2>1. \A d \in Conns : conn'[d].pc = conn[d].pc
    BY <1>33 DEF Compare
  <2>2. \A y \in Subs : /\ sub'[y].conn = sub[y].conn /\ sub'[y].id = sub[y].id
                        /\ sub'[y].live => sub[y].live
                        /\ \/ sub'[y].pc = sub[y].pc
                           \/ sub[y].pc = "result" /\ sub'[y].pc \in {"send", "wait", "ready"}
    BY <1>33 DEF Compare
  <2>3. UNCHANGED registered
    BY <1>33 DEF Compare
  <2>4. QED
    BY <2>1, <2>2, <2>3, SubsKept DEF Used
<1>34. ASSUME NEW x \in Subs, BeginWrite(x)
      PROVE  WellFormedSubs'
  BY <1>34 DEF BeginWrite, WellFormedSubs, Used
<1>35. ASSUME NEW x \in Subs, EndWrite(x)
      PROVE  WellFormedSubs'
  <2>1. \A d \in Conns : conn'[d].pc = conn[d].pc
    <3>1. StreamOf(x) \in Conns
      BY <1>35 DEF EndWrite, WellFormedSubs, Used
    <3>2. QED
      BY <1>35, <3>1, Hung DEF EndWrite
  <2>2. \A y \in Subs : /\ sub'[y].conn = sub[y].conn /\ sub'[y].id = sub[y].id
                        /\ sub'[y].live => sub[y].live
                        /\ \/ sub'[y].pc = sub[y].pc
                           \/ sub[y].pc = "write" /\ sub'[y].pc \in {"send", "wait", "ready"}
    BY <1>35 DEF EndWrite
  <2>3. UNCHANGED registered
    BY <1>35 DEF EndWrite
  <2>4. QED
    BY <2>1, <2>2, <2>3, SubsKept DEF Used
<1>36. ASSUME NEW x \in Subs, SkipWrite(x)
      PROVE  WellFormedSubs'
  BY <1>36 DEF SkipWrite, WellFormedSubs, Used
<1>37. ASSUME NEW x \in Subs, Notice(x)
      PROVE  WellFormedSubs'
  <2>1. \A d \in Conns : conn'[d].pc = conn[d].pc
    BY <1>37 DEF Notice
  <2>2. \A y \in Subs : /\ sub'[y].conn = sub[y].conn /\ sub'[y].id = sub[y].id
                        /\ sub'[y].live => sub[y].live
                        /\ \/ sub'[y].pc = sub[y].pc
                           \/ sub[y].pc = "wait" /\ sub'[y].pc \in {"send", "wait", "ready"}
    BY <1>37 DEF Notice, Waiting
  <2>3. UNCHANGED registered
    BY <1>37 DEF Notice
  <2>4. QED
    BY <2>1, <2>2, <2>3, SubsKept DEF Used
<1>38. ASSUME NEW x \in Subs, Stop(x)
      PROVE  WellFormedSubs'
  BY <1>38 DEF Stop, WellFormedSubs, Waiting, Used
<1>39. ASSUME NEW x \in Subs, Unsubscribe(x)
      PROVE  WellFormedSubs'
  BY <1>39 DEF Unsubscribe, WellFormedSubs, Used
<1>40. ASSUME NEW x \in Subs, Forget(x)
      PROVE  WellFormedSubs'
  BY <1>40 DEF Forget, WellFormedSubs, Gone, Dropped, NoSub, Used
<1>41. CASE UNCHANGED vars
  BY <1>41 DEF vars, WellFormedSubs, Used
<1> QED
  BY <1>1, <1>2, <1>3, <1>4, <1>5, <1>6, <1>7, <1>8, <1>9, <1>10, <1>11, <1>12,
     <1>13, <1>14, <1>15, <1>16, <1>17, <1>18, <1>19, <1>20, <1>21, <1>22,
     <1>23, <1>24, <1>25, <1>26, <1>27, <1>28, <1>29, <1>30, <1>31, <1>32,
     <1>33, <1>34, <1>35, <1>36, <1>37, <1>38, <1>39, <1>40, <1>41 DEF Next, Broadcast, Client, Handle, HandleSessionControl, Run, Serve, Finished

LEMMA CallsStep ==
  ASSUME TypeOK, WellFormedCalls, WellFormedSubs, [Next]_vars
  PROVE  WellFormedCalls'
<1> USE DEF switchVars, dataVars, broadcastVars, envVars, callVars, clientVars,
   At, HandlerAt, CallAt, StreamOf, Goto, Lock, Unlock, Conns
<1>0. /\ sub \in [Subs -> Subscriptions] /\ conn \in [Conns -> Handlers]
      /\ call \in [Sessions -> Controls]
      /\ listed \in [Sessions -> [Ids -> Subs \cup {None}]]
      /\ Sessions \cap Plains = {} /\ None \notin Conns \cup Ids \cup Int
  BY RealtimeAssumption DEF TypeOK
<1> USE <1>0
<1>1. ASSUME
             \/ Activate \/ Commit
      PROVE  WellFormedCalls'
  BY <1>1 DEF Activate, Commit, WellFormedCalls, Used
<1>2. ASSUME NEW k \in 1 .. MaxSwitches, ReconnectAll(k)
      PROVE  WellFormedCalls'
  BY <1>2 DEF ReconnectAll, WellFormedCalls, Used
<1>3. ASSUME NEW k \in 1 .. MaxSwitches, NEW x \in Subs, CancelSub(k, x)
      PROVE  WellFormedCalls'
  <2>1. \A d \in Conns : conn'[d].pc = conn[d].pc
    <3>1. StreamOf(x) \in Plains \/ UNCHANGED conn
      BY <1>3 DEF CancelSub
    <3>2. QED
      BY <1>3, <3>1, Hung DEF CancelSub
  <2>2. \A y \in Subs : /\ sub'[y].pc = sub[y].pc /\ sub'[y].conn = sub[y].conn
                        /\ sub'[y].id = sub[y].id
    BY <1>3 DEF CancelSub
  <2>3. UNCHANGED <<call, listed>>
    BY <1>3 DEF CancelSub
  <2>4. /\ \A d \in Sessions : conn[d].pc \in Opened => conn'[d].pc \in Opened
        /\ \A d \in Sessions : call[d].pc = "announce" => sub'[call[d].sub].pc = "new"
    BY <2>1, <2>2 DEF WellFormedCalls
  <2>5. QED
    BY <2>2, <2>3, <2>4, CallsKept DEF Used
<1>4. ASSUME NEW k \in 1 .. MaxSwitches, NEW c \in Sessions, CancelSession(k, c)
      PROVE  WellFormedCalls'
  BY <1>4 DEF CancelSession, WellFormedCalls, Hang, Used
<1>5. ASSUME NEW w \in 1 .. MaxWrites, InvalidateAll(w)
      PROVE  WellFormedCalls'
  BY <1>5 DEF InvalidateAll, WellFormedCalls, Used
<1>6. ASSUME NEW w \in 1 .. MaxWrites, NEW x \in Subs, Notify(w, x)
      PROVE  WellFormedCalls'
  BY <1>6 DEF Notify, WellFormedCalls, Used
<1>7. ASSUME NEW c \in Conns, Admit(c)
      PROVE  WellFormedCalls'
  BY <1>7 DEF Admit, WellFormedCalls, Used, Opened
<1>8. ASSUME NEW c \in Conns, Disconnect(c)
      PROVE  WellFormedCalls'
  BY <1>8 DEF Disconnect, WellFormedCalls, Hang, Used
<1>9. ASSUME NEW c \in Conns, Reject(c)
      PROVE  WellFormedCalls'
  BY <1>9 DEF Reject, WellFormedCalls, Leave, Used, Opened
<1>10. ASSUME NEW c \in Conns,
             \/ BeginPing(c) \/ BeginOpen(c)
      PROVE  WellFormedCalls'
  BY <1>10 DEF BeginPing, BeginOpen, WellFormedCalls, Used
<1>11. ASSUME NEW c \in Conns, ResolvePlain(c)
      PROVE  WellFormedCalls'
  BY <1>11 DEF ResolvePlain, WellFormedCalls, Used
<1>12. ASSUME NEW c \in Conns, RegisterPlain(c)
      PROVE  WellFormedCalls'
  <2>1. \A d \in Sessions : conn'[d].pc = conn[d].pc
    BY <1>12 DEF RegisterPlain, Leave
  <2>2. \A y \in Subs : Used(y) => sub'[y] = sub[y]
    BY <1>12 DEF RegisterPlain, IsNext, Unused, Used
  <2>3. UNCHANGED <<call, listed>>
    BY <1>12 DEF RegisterPlain
  <2>4. QED
    BY <2>1, <2>2, <2>3 DEF WellFormedCalls, Used
<1>13. ASSUME NEW c \in Conns, RegisterSession(c)
      PROVE  WellFormedCalls'
  <2>1. /\ \A d \in Sessions : conn[d].pc \in Opened => conn'[d].pc = conn[d].pc
        /\ UNCHANGED <<sub, call, listed>>
    BY <1>13 DEF RegisterSession, Leave, Opened
  <2>2. /\ \A d \in Sessions : conn[d].pc \in Opened => conn'[d].pc \in Opened
        /\ \A d \in Sessions : call[d].pc = "announce" => sub'[call[d].sub].pc = "new"
    BY <2>1 DEF WellFormedCalls
  <2>3. QED
    BY <2>1, <2>2, CallsKept DEF Used
<1>14. ASSUME NEW c \in Conns, EndOpen(c)
      PROVE  WellFormedCalls'
  <2>1. /\ \A d \in Sessions : conn[d].pc \in Opened => d # c /\ conn'[d].pc = conn[d].pc
        /\ UNCHANGED <<call, listed>>
    BY <1>14 DEF EndOpen, Opened
  <2>2. \A y \in Subs : /\ sub'[y].conn = sub[y].conn /\ sub'[y].id = sub[y].id
                        /\ Used(y) => sub'[y].pc # "free"
                        /\ sub[y].conn # c => sub'[y].pc = sub[y].pc
    BY <1>14 DEF EndOpen, Started, SubsOf, Used
  <2>3. \A d \in Sessions : call[d].pc = "announce" => sub'[call[d].sub].pc = "new"
    BY <2>1, <2>2 DEF WellFormedCalls
  <2>4. QED
    BY <2>1, <2>2, <2>3, CallsKept DEF WellFormedCalls
<1>15. ASSUME NEW c \in Conns, SkipOpen(c)
      PROVE  WellFormedCalls'
  BY <1>15 DEF SkipOpen, WellFormedCalls, Started, SubsOf, Used, Opened
<1>16. ASSUME NEW c \in Conns, EndPing(c)
      PROVE  WellFormedCalls'
  <2>1. \A d \in Conns : conn'[d].pc = conn[d].pc
    BY <1>16, Hung DEF EndPing
  <2>2. UNCHANGED <<sub, call, listed>>
    BY <1>16 DEF EndPing
  <2>3. /\ \A d \in Sessions : conn[d].pc \in Opened => conn'[d].pc \in Opened
        /\ \A d \in Sessions : call[d].pc = "announce" => sub'[call[d].sub].pc = "new"
    BY <2>1, <2>2 DEF WellFormedCalls
  <2>4. QED
    BY <2>2, <2>3, CallsKept DEF Used
<1>17. ASSUME NEW c \in Conns, Unlist(c)
      PROVE  WellFormedCalls'
  BY <1>17 DEF Unlist, WellFormedCalls, Used, Opened
<1>18. ASSUME NEW c \in Conns, CloseSession(c)
      PROVE  WellFormedCalls'
  BY <1>18 DEF CloseSession, WellFormedCalls, Used, Opened
<1>19. ASSUME NEW c \in Conns, ReturnSession(c)
      PROVE  WellFormedCalls'
  BY <1>19 DEF ReturnSession, WellFormedCalls, Leave, Used, Opened
<1>20. ASSUME NEW c \in Conns, ReturnPlain(c)
      PROVE  WellFormedCalls'
  <2>1. /\ \A d \in Sessions : conn'[d].pc = conn[d].pc
        /\ c \in Plains /\ UNCHANGED <<call, listed>>
    BY <1>20 DEF ReturnPlain, Leave
  <2>2. \A y \in Subs : /\ sub'[y].conn = sub[y].conn
                        /\ Used(y) => sub'[y].pc # "free"
                        /\ sub[y].conn \in Sessions => sub'[y] = sub[y]
    BY <1>20 DEF ReturnPlain, Dropped, Gone, SubsOf, NoSub, Used
  <2>3. QED
    BY <2>1, <2>2, CallsKept DEF WellFormedCalls
<1>21. ASSUME NEW c \in Sessions, NEW r \in Requests, FindSession(c, r)
      PROVE  WellFormedCalls'
  BY <1>21 DEF FindSession, WellFormedCalls, Used, Opened
<1>22. ASSUME NEW c \in Sessions, AdmitCall(c)
      PROVE  WellFormedCalls'
  BY <1>22 DEF AdmitCall, WellFormedCalls, Used
<1>23. ASSUME NEW c \in Sessions, CancelRemoved(c)
      PROVE  WellFormedCalls'
  <2>1. /\ call[c].pc = "cancel" /\ call'[c].pc = "work" /\ UNCHANGED <<conn, listed>>
        /\ \A d \in Sessions \ {c} : call'[d] = call[d]
    BY <1>23 DEF CancelRemoved, Controls
  <2>2. \A y \in Subs : /\ sub'[y].conn = sub[y].conn /\ sub'[y].id = sub[y].id
                        /\ sub'[y].pc = sub[y].pc
    BY <1>23 DEF CancelRemoved, Subscriptions
  <2>3. QED
    BY <2>1, <2>2, CallWorks DEF Used
<1>24. ASSUME NEW c \in Sessions, NEW i \in Ids, Remove(c, i)
      PROVE  WellFormedCalls'
  BY <1>24 DEF Remove, WellFormedCalls, Used
<1>25. ASSUME NEW c \in Sessions, NEW i \in Ids, Resolve(c, i)
      PROVE  WellFormedCalls'
  BY <1>25 DEF Resolve, WellFormedCalls, Used
<1>26. ASSUME NEW c \in Sessions, AddRefused(c)
      PROVE  WellFormedCalls'
  BY <1>26 DEF AddRefused, WellFormedCalls, Hang, NoCall, Used
<1>27. ASSUME NEW c \in Sessions, AddSkipped(c)
      PROVE  WellFormedCalls'
  <2>1. /\ \A d \in Sessions : call'[d].sub = call[d].sub /\ call'[d].id = call[d].id
        /\ \A d \in Sessions \ {c} : call'[d].pc = call[d].pc
        /\ call[c].pc = "add" /\ call'[c].pc \in {"work", "error"}
        /\ UNCHANGED <<conn, sub, listed>>
    BY <1>27 DEF AddSkipped, AddTo, Controls
  <2>2. QED
    BY <2>1 DEF WellFormedCalls, Used
<1>28. ASSUME NEW c \in Sessions, Add(c)
      PROVE  WellFormedCalls'
  BY <1>28 DEF Add, WellFormedCalls, IsNext, Unused, Subscription, Enlist, Used
<1>29. ASSUME NEW c \in Sessions,
             \/ BeginAnnounce(c) \/ BeginError(c)
      PROVE  WellFormedCalls'
  BY <1>29 DEF BeginAnnounce, BeginError, WellFormedCalls, Used
<1>30. ASSUME NEW c \in Sessions, EndAnnounce(c)
      PROVE  WellFormedCalls'
  <2>1. /\ call[c].pc = "announce" /\ call'[c].pc = "work" /\ UNCHANGED listed
        /\ \A d \in Sessions \ {c} : call'[d] = call[d]
    BY <1>30 DEF EndAnnounce, Launch, Controls
  <2>2. \A d \in Conns : conn'[d].pc = conn[d].pc
    BY <1>30, Hung DEF EndAnnounce
  <2>3. call[c].sub \in Subs /\ sub[call[c].sub].conn = c
    BY <2>1 DEF WellFormedCalls
  <2>4. \A y \in Subs : /\ sub'[y].conn = sub[y].conn /\ sub'[y].id = sub[y].id
                        /\ Used(y) => sub'[y].pc # "free"
                        /\ sub[y].conn # c => sub'[y].pc = sub[y].pc
    BY <1>30, <2>3 DEF EndAnnounce, Launch, Subscriptions, Used
  <2>5. QED
    BY <2>1, <2>2, <2>4, CallWorks
<1>31. ASSUME NEW c \in Sessions, SkipAnnounce(c)
      PROVE  WellFormedCalls'
  BY <1>31 DEF SkipAnnounce, WellFormedCalls, Launch, Used
<1>32. ASSUME NEW c \in Sessions, EndError(c)
      PROVE  WellFormedCalls'
  BY <1>32 DEF EndError, WellFormedCalls, Hang, Delivered, Broken, AddTo, Used,
     Opened, Handlers
<1>33. ASSUME NEW c \in Sessions, SkipError(c)
      PROVE  WellFormedCalls'
  BY <1>33 DEF SkipError, WellFormedCalls, AddTo, Used
<1>34. ASSUME NEW c \in Sessions, Reply(c)
      PROVE  WellFormedCalls'
  BY <1>34 DEF Reply, WellFormedCalls, NoCall, Used
<1>35. ASSUME NEW x \in Subs, Acquire(x)
      PROVE  WellFormedCalls'
  BY <1>35 DEF Acquire, WellFormedCalls, Used
<1>36. ASSUME NEW x \in Subs, GiveUp(x)
      PROVE  WellFormedCalls'
  BY <1>36 DEF GiveUp, WellFormedCalls, Used
<1>37. ASSUME NEW x \in Subs, Invoke(x)
      PROVE  WellFormedCalls'
  <2>1. \A y \in Subs : /\ sub'[y].pc = IF y = x THEN "result" ELSE sub[y].pc
                        /\ sub'[y].conn = sub[y].conn /\ sub'[y].id = sub[y].id
    BY <1>37 DEF Invoke, Subscriptions
  <2>2. UNCHANGED <<conn, call, listed>> /\ sub[x].pc = "query"
    BY <1>37 DEF Invoke
  <2>3. QED
    BY <2>1, <2>2, CallsKept DEF WellFormedCalls, Used
<1>38. ASSUME NEW x \in Subs, Compare(x)
      PROVE  WellFormedCalls'
  BY <1>38 DEF Compare, WellFormedCalls, Used
<1>39. ASSUME NEW x \in Subs, BeginWrite(x)
      PROVE  WellFormedCalls'
  BY <1>39 DEF BeginWrite, WellFormedCalls, Used
<1>40. ASSUME NEW x \in Subs, EndWrite(x)
      PROVE  WellFormedCalls'
  <2>1. StreamOf(x) \in Conns
    BY <1>40 DEF EndWrite, WellFormedSubs, Used
  <2>2. \A d \in Conns : conn'[d].pc = conn[d].pc
    BY <1>40, <2>1, Hung DEF EndWrite
  <2>3. \A y \in Subs : /\ sub'[y].conn = sub[y].conn /\ sub'[y].id = sub[y].id
                        /\ sub'[y].pc = IF y = x THEN "wait" ELSE sub[y].pc
    BY <1>40 DEF EndWrite
  <2>4. UNCHANGED <<call, listed>> /\ sub[x].pc = "write"
    BY <1>40 DEF EndWrite
  <2>5. /\ \A d \in Sessions : conn[d].pc \in Opened => conn'[d].pc \in Opened
        /\ \A d \in Sessions : call[d].pc = "announce" => sub'[call[d].sub].pc = "new"
    BY <2>2, <2>3, <2>4 DEF WellFormedCalls
  <2>6. QED
    BY <2>3, <2>4, <2>5, CallsKept DEF Used
<1>41. ASSUME NEW x \in Subs, SkipWrite(x)
      PROVE  WellFormedCalls'
  BY <1>41 DEF SkipWrite, WellFormedCalls, Used
<1>42. ASSUME NEW x \in Subs, Notice(x)
      PROVE  WellFormedCalls'
  BY <1>42 DEF Notice, WellFormedCalls, Waiting, Used
<1>43. ASSUME NEW x \in Subs, Stop(x)
      PROVE  WellFormedCalls'
  BY <1>43 DEF Stop, WellFormedCalls, Waiting, Used
<1>44. ASSUME NEW x \in Subs, Unsubscribe(x)
      PROVE  WellFormedCalls'
  BY <1>44 DEF Unsubscribe, WellFormedCalls, Used
<1>45. ASSUME NEW x \in Subs, Forget(x)
      PROVE  WellFormedCalls'
  <2>1. /\ UNCHANGED <<conn, call>> /\ sub[x].pc = "left"
    BY <1>45 DEF Forget
  <2>2. /\ \A y \in Subs : /\ sub'[y].conn = sub[y].conn
                           /\ Used(y) => sub'[y].pc # "free"
        /\ \A y \in Subs \ {x} : sub'[y] = sub[y]
    BY <1>45 DEF Forget, Dropped, Gone, NoSub, Used
  <2>3. \A d \in Sessions, i \in Ids :
          listed'[d][i] = IF d = sub[x].conn /\ i = sub[x].id /\ listed[d][i] = x
                          THEN None ELSE listed[d][i]
    BY <1>45 DEF Forget
  <2>4. \A d \in Sessions, i \in Ids : listed'[d][i] # None => listed'[d][i] = listed[d][i] /\ listed[d][i] # x
    BY <2>3 DEF WellFormedCalls
  <2>5. ASSUME NEW d \in Sessions
        PROVE  /\ call'[d].pc \in {"cancel", "announce"} =>
                    /\ call'[d].sub \in Subs
                    /\ sub'[call'[d].sub].pc # "free" /\ sub'[call'[d].sub].conn = d
               /\ call'[d].pc = "announce" => sub'[call'[d].sub].pc = "new"
               /\ call'[d].pc \in {"add", "error"} => call'[d].id \in Ids
               /\ call'[d].pc # "idle" => conn'[d].pc \in Opened
    <3>1. call[d].pc \in {"cancel", "announce"} =>
            call[d].sub \in Subs /\ Used(call[d].sub) /\ sub[call[d].sub].conn = d
      BY DEF WellFormedCalls
    <3>2. call[d].pc = "announce" => call[d].sub \in Subs \ {x} /\ sub[call[d].sub].pc = "new"
      BY <2>1, <3>1 DEF WellFormedCalls
    <3>3. /\ call[d].pc \in {"add", "error"} => call[d].id \in Ids
          /\ call[d].pc # "idle" => conn[d].pc \in Opened
      BY DEF WellFormedCalls
    <3>4. call' = call /\ conn' = conn
      BY <2>1
    <3>5. call[d].pc \in {"cancel", "announce"} =>
            sub'[call[d].sub].pc # "free" /\ sub'[call[d].sub].conn = d
      BY <2>2, <3>1
    <3>6. call[d].pc = "announce" => sub'[call[d].sub].pc = "new"
      BY <2>2, <3>2
    <3>7. QED
      BY <3>1, <3>3, <3>4, <3>5, <3>6
  <2>6. ASSUME NEW d \in Sessions, NEW i \in Ids, listed'[d][i] # None
        PROVE  /\ sub'[listed'[d][i]].pc # "free"
               /\ sub'[listed'[d][i]].conn = d /\ sub'[listed'[d][i]].id = i
    BY <2>2, <2>4, <2>6 DEF WellFormedCalls
  <2>7. QED
    BY <2>5, <2>6 DEF WellFormedCalls, Used
<1>46. CASE UNCHANGED vars
  BY <1>46 DEF vars, WellFormedCalls, Used
<1> QED
  BY <1>1, <1>2, <1>3, <1>4, <1>5, <1>6, <1>7, <1>8, <1>9, <1>10, <1>11, <1>12,
     <1>13, <1>14, <1>15, <1>16, <1>17, <1>18, <1>19, <1>20, <1>21, <1>22,
     <1>23, <1>24, <1>25, <1>26, <1>27, <1>28, <1>29, <1>30, <1>31, <1>32,
     <1>33, <1>34, <1>35, <1>36, <1>37, <1>38, <1>39, <1>40, <1>41, <1>42,
     <1>43, <1>44, <1>45, <1>46 DEF Next, Broadcast, Client, Handle, HandleSessionControl, Run, Serve, Finished

----------------------------------------------------------------------------
LEMMA Initially == Init => TypeOK /\ WellFormedCalls /\ WellFormedSubs
<1> SUFFICES ASSUME Init PROVE TypeOK /\ WellFormedCalls /\ WellFormedSubs
  OBVIOUS
<1>1. /\ MaxSwitches \in Nat /\ MaxWrites \in Nat /\ MaxCalls \in Nat
      /\ Sessions \cap Plains = {} /\ None \notin Conns
  BY RealtimeAssumption
<1>2. TypeOK
  <2>1. /\ conn \in [Conns -> Handlers] /\ call \in [Sessions -> Controls]
        /\ sub \in [Subs -> Subscriptions]
    BY InitialTypes DEF Init
  <2>2. QED
    BY <1>1, <2>1 DEF Init, TypeOK, Versions, Payloads
<1>3. WellFormedCalls
  BY DEF Init, WellFormedCalls, NoCall
<1>4. WellFormedSubs
  BY <1>1 DEF Init, WellFormedSubs, NoSub, NoConn, Used, Conns
<1>5. QED
  BY <1>2, <1>3, <1>4

(* Whatever the order of connections, control requests, writes and switches of
   deployments, every variable keeps a value of its kind, and handlers, requests
   and goroutines fit together: a request that is about to cancel or to announce
   a subscription names one of its own session, an id of a session stands for a
   subscription of that session that was made for it, and a goroutine that has
   left its tables is in none of them (serveSession, HandleSessionControl,
   addSessionSubscription, forget, unsubscribe). *)
THEOREM TypeCorrect == Spec => [](TypeOK /\ WellFormedCalls /\ WellFormedSubs)
<1>1. Init => TypeOK /\ WellFormedCalls /\ WellFormedSubs
  BY Initially
<1>2. TypeOK /\ WellFormedCalls /\ WellFormedSubs /\ [Next]_vars
        => (TypeOK /\ WellFormedCalls /\ WellFormedSubs)'
  BY TypeStep, CallsStep, SubsStep
<1>3. QED
  BY <1>1, <1>2, PTL DEF Spec

----------------------------------------------------------------------------
SameId(x, y) == sub[x].conn = sub[y].conn /\ sub[x].id = sub[y].id

Fenced ==
    /\ announced \subseteq 1 .. active
    /\ \A c \in Conns :
         /\ conn[c].gen <= generation
         /\ conn[c].pc = "resolved" /\ conn[c].gen = generation =>
              \A k \in conn[c].snap + 1 .. active : k \notin announced
    /\ \A c \in Sessions :
         /\ call[c].gen <= generation
         /\ call[c].pc = "add" /\ call[c].gen = generation =>
              \A k \in call[c].snap + 1 .. active : k \notin announced

Locked ==
    /\ \A c \in Conns :
         /\ stream[c] = "handler" => conn[c].pc = "open"
         /\ stream[c] = "ping" => /\ conn[c].pc = "serving"
                                  /\ c \in Plains => \A x \in SubsOf(c) : At(x, "wait")
         /\ stream[c] = "announce" => c \in Sessions /\ call[c].pc = "announce"
         /\ stream[c] = "error" => c \in Sessions /\ call[c].pc = "error"
         /\ stream[c] = "sub" => \E x \in SubsOf(c) : At(x, "write")
    /\ \A x \in Subs : At(x, "write") => stream[sub[x].conn] = "sub"
    /\ \A x, y \in Subs :
         At(x, "write") /\ At(y, "write") /\ sub[x].conn = sub[y].conn => x = y

Ordered ==
    /\ shown \subseteq {x \in Subs : Used(x)}
    /\ \A x, y \in Subs : x < y /\ Used(y) => Used(x)
    /\ \A x, y \in Subs : x < y /\ Used(y) /\ SameId(x, y) => ~Live(x)
    /\ \A x \in Subs : sub[x].pc \notin {"free", "new"} /\ Live(x) => x \in shown
    /\ \A x \in Subs : At(x, "write") =>
         /\ x \in shown
         /\ \A y \in shown : y > x => ~SameId(x, y)

(* Nothing more will come of the writes so far: all are announced, and the     *)
(* subscription has taken every notification.                                  *)
Quiet(x) == told = 1 .. data /\ ~sub[x].notify /\ \A w \in told : x \notin toNotify[w]
Expected(x) == IF sub[x].paused THEN Refused ELSE data

(* A subscription is registered until its goroutine leaves; one that is paused  *)
(* does not query; a live one has sent what it last compared with, but while    *)
(* it sends; and what it has read, or sends or has sent, is what the client     *)
(* should see, unless a notification is on its way that makes it query again.   *)
UpToDate(x) ==
    /\ sub[x].pc \notin {"free", "left", "done"} => x \in registered
    /\ sub[x].pc = "free" => seen[x] = None
    /\ sub[x].pc \in {"new", "ready", "query"} => ~sub[x].paused
    /\ Live(x) =>
         /\ sub[x].pc \in {"new", "ready", "query", "result", "wait"} => seen[x] = sub[x].last
         /\ sub[x].pc = "result" /\ (sub[x].paused \/ Quiet(x)) => sub[x].result = Expected(x)
         /\ sub[x].pc \in {"send", "write", "wait"} /\ (sub[x].paused \/ Quiet(x))
              => sub[x].last = Expected(x)
Fresh == told \subseteq 1 .. data /\ \A x \in Subs : UpToDate(x)

IInv ==
    /\ TypeOK /\ WellFormedCalls /\ WellFormedSubs /\ Fenced /\ Locked /\ Ordered
    /\ PinnedToActive /\ LiveIsListed /\ NothingOutlivesHandler /\ Fresh

----------------------------------------------------------------------------
(* What every step keeps of a subscription that was made. *)
Lasting(x) ==
    /\ sub'[x].pc # "free" /\ sub'[x].conn = sub[x].conn
    /\ sub'[x].live => sub[x].live
    /\ \/ sub'[x].id = sub[x].id /\ sub'[x].snap = sub[x].snap
       \/ sub'[x].pc = "done" /\ ~sub'[x].live /\ sub'[x].id = None

(* A stream that was cancelled stays cancelled. *)
LEMMA StreamsEnd ==
  ASSUME TypeOK, WellFormedSubs, [Next]_vars, NEW e \in Conns, conn[e].pc # "idle"
  PROVE  conn'[e].live => conn[e].live
<1> USE DEF switchVars, dataVars, broadcastVars, envVars, callVars, clientVars,
   At, HandlerAt, CallAt, StreamOf, Goto, Lock, Unlock, Conns
<1>0. /\ sub \in [Subs -> Subscriptions] /\ conn \in [Conns -> Handlers]
      /\ call \in [Sessions -> Controls]
      /\ Sessions \cap Plains = {} /\ None \notin Conns \cup Ids \cup Int
  BY RealtimeAssumption DEF TypeOK
<1> USE <1>0
<1>1. ASSUME
             \/ Activate \/ Commit
      PROVE  conn'[e].live => conn[e].live
  BY <1>1 DEF Activate, Commit
<1>2. ASSUME NEW k \in 1 .. MaxSwitches, ReconnectAll(k)
      PROVE  conn'[e].live => conn[e].live
  BY <1>2 DEF ReconnectAll
<1>3. ASSUME NEW k \in 1 .. MaxSwitches, NEW x \in Subs, CancelSub(k, x)
      PROVE  conn'[e].live => conn[e].live
  <2>1. StreamOf(x) \in Plains \/ UNCHANGED conn
    BY <1>3 DEF CancelSub
  <2>2. QED
    BY <1>3, <2>1, Hung DEF CancelSub
<1>4. ASSUME NEW k \in 1 .. MaxSwitches, NEW c \in Sessions, CancelSession(k, c)
      PROVE  conn'[e].live => conn[e].live
  BY <1>4 DEF CancelSession, Hang, Handlers
<1>5. ASSUME NEW w \in 1 .. MaxWrites, InvalidateAll(w)
      PROVE  conn'[e].live => conn[e].live
  BY <1>5 DEF InvalidateAll
<1>6. ASSUME NEW w \in 1 .. MaxWrites, NEW x \in Subs, Notify(w, x)
      PROVE  conn'[e].live => conn[e].live
  BY <1>6 DEF Notify
<1>7. ASSUME NEW c \in Conns, Admit(c)
      PROVE  conn'[e].live => conn[e].live
  BY <1>7 DEF Admit, NoConn, Handlers
<1>8. ASSUME NEW c \in Conns, Disconnect(c)
      PROVE  conn'[e].live => conn[e].live
  BY <1>8 DEF Disconnect, Hang, Handlers
<1>9. ASSUME NEW c \in Conns, Reject(c)
      PROVE  conn'[e].live => conn[e].live
  BY <1>9 DEF Reject, Leave, NoConn, Handlers
<1>10. ASSUME NEW c \in Conns,
             \/ BeginPing(c) \/ BeginOpen(c)
      PROVE  conn'[e].live => conn[e].live
  BY <1>10 DEF BeginPing, BeginOpen
<1>11. ASSUME NEW c \in Conns, ResolvePlain(c)
      PROVE  conn'[e].live => conn[e].live
  BY <1>11 DEF ResolvePlain, Handlers
<1>12. ASSUME NEW c \in Conns, RegisterPlain(c)
      PROVE  conn'[e].live => conn[e].live
  <2>1. CASE Fence(conn[c].gen)
    BY <1>12, <2>1 DEF RegisterPlain, Handlers
  <2>2. CASE ~Fence(conn[c].gen)
    BY <1>12, <2>2 DEF RegisterPlain, Leave, NoConn
  <2>3. QED
    BY <2>1, <2>2
<1>13. ASSUME NEW c \in Conns, RegisterSession(c)
      PROVE  conn'[e].live => conn[e].live
  <2>1. CASE Fence(conn[c].gen)
    BY <1>13, <2>1 DEF RegisterSession, Handlers
  <2>2. CASE ~Fence(conn[c].gen)
    BY <1>13, <2>2 DEF RegisterSession, Leave, NoConn
  <2>3. QED
    BY <2>1, <2>2
<1>14. ASSUME NEW c \in Conns, EndOpen(c)
      PROVE  conn'[e].live => conn[e].live
  BY <1>14 DEF EndOpen, Started, SubsOf, Handlers
<1>15. ASSUME NEW c \in Conns, SkipOpen(c)
      PROVE  conn'[e].live => conn[e].live
  BY <1>15 DEF SkipOpen, Started, SubsOf, Handlers
<1>16. ASSUME NEW c \in Conns, EndPing(c)
      PROVE  conn'[e].live => conn[e].live
  BY <1>16, Hung DEF EndPing
<1>17. ASSUME NEW c \in Conns, Unlist(c)
      PROVE  conn'[e].live => conn[e].live
  BY <1>17 DEF Unlist, Handlers
<1>18. ASSUME NEW c \in Conns, CloseSession(c)
      PROVE  conn'[e].live => conn[e].live
  BY <1>18 DEF CloseSession, Handlers
<1>19. ASSUME NEW c \in Conns, ReturnSession(c)
      PROVE  conn'[e].live => conn[e].live
  BY <1>19 DEF ReturnSession, Leave, SubsOf, NoConn, Handlers
<1>20. ASSUME NEW c \in Conns, ReturnPlain(c)
      PROVE  conn'[e].live => conn[e].live
  BY <1>20
     DEF ReturnPlain, Gone, Dropped, Leave, SubsOf, NoSub, NoConn, Handlers
<1>21. ASSUME NEW c \in Sessions, NEW r \in Requests, FindSession(c, r)
      PROVE  conn'[e].live => conn[e].live
  BY <1>21 DEF FindSession
<1>22. ASSUME NEW c \in Sessions,
             \/ AdmitCall(c) \/ CancelRemoved(c) \/ AddSkipped(c) \/ Add(c)
             \/ BeginAnnounce(c) \/ SkipAnnounce(c) \/ BeginError(c)
             \/ SkipError(c) \/ Reply(c)
      PROVE  conn'[e].live => conn[e].live
  BY <1>22 DEF AdmitCall, CancelRemoved, AddSkipped, Add, BeginAnnounce,
     SkipAnnounce, BeginError, SkipError, Reply, Enlist
<1>23. ASSUME NEW c \in Sessions, NEW i \in Ids,
             \/ Remove(c, i) \/ Resolve(c, i)
      PROVE  conn'[e].live => conn[e].live
  BY <1>23 DEF Remove, Resolve
<1>24. ASSUME NEW c \in Sessions, AddRefused(c)
      PROVE  conn'[e].live => conn[e].live
  BY <1>24, Hung DEF AddRefused
<1>25. ASSUME NEW c \in Sessions, EndAnnounce(c)
      PROVE  conn'[e].live => conn[e].live
  BY <1>25, Hung DEF EndAnnounce
<1>26. ASSUME NEW c \in Sessions, EndError(c)
      PROVE  conn'[e].live => conn[e].live
  BY <1>26, Hung DEF EndError
<1>27. ASSUME NEW x \in Subs,
             \/ Acquire(x) \/ GiveUp(x) \/ Invoke(x) \/ Compare(x)
             \/ BeginWrite(x) \/ SkipWrite(x) \/ Notice(x) \/ Stop(x)
             \/ Unsubscribe(x) \/ Forget(x)
      PROVE  conn'[e].live => conn[e].live
  BY <1>27 DEF Acquire, GiveUp, Invoke, Compare, BeginWrite, SkipWrite, Notice,
     Stop, Unsubscribe, Forget
<1>28. ASSUME NEW x \in Subs, EndWrite(x)
      PROVE  conn'[e].live => conn[e].live
  <2>1. StreamOf(x) \in Conns
    BY <1>28 DEF EndWrite, WellFormedSubs, Used
  <2>2. QED
    BY <1>28, <2>1, Hung DEF EndWrite
<1>29. CASE UNCHANGED vars
  BY <1>29 DEF vars
<1> QED
  BY <1>1, <1>2, <1>3, <1>4, <1>5, <1>6, <1>7, <1>8, <1>9, <1>10, <1>11, <1>12,
     <1>13, <1>14, <1>15, <1>16, <1>17, <1>18, <1>19, <1>20, <1>21, <1>22,
     <1>23, <1>24, <1>25, <1>26, <1>27, <1>28, <1>29 DEF Next, Broadcast,
     Client, Handle, HandleSessionControl, Run, Serve, Finished

(* A subscription that was made keeps its stream, its id and its deployment. *)
LEMMA SubsLast ==
  ASSUME TypeOK, WellFormedCalls, WellFormedSubs, [Next]_vars, NEW z \in Subs, Used(z)
  PROVE  Lasting(z)
<1> USE DEF switchVars, dataVars, broadcastVars, envVars, callVars, clientVars,
   At, HandlerAt, CallAt, StreamOf, Goto, Lock, Unlock, Conns
<1>0. /\ sub \in [Subs -> Subscriptions] /\ conn \in [Conns -> Handlers]
      /\ call \in [Sessions -> Controls]
      /\ listed \in [Sessions -> [Ids -> Subs \cup {None}]]
      /\ Sessions \cap Plains = {} /\ None \notin Conns \cup Ids \cup Int
  BY RealtimeAssumption DEF TypeOK
<1> USE <1>0
<1>1. ASSUME
             \/ Activate \/ Commit
      PROVE  Lasting(z)
  BY <1>1 DEF Activate, Commit, Lasting, Used
<1>2. ASSUME NEW k \in 1 .. MaxSwitches, ReconnectAll(k)
      PROVE  Lasting(z)
  BY <1>2 DEF ReconnectAll, Lasting, Used
<1>3. ASSUME NEW k \in 1 .. MaxSwitches, NEW x \in Subs, CancelSub(k, x)
      PROVE  Lasting(z)
  <2>1. /\ sub'[z].pc = sub[z].pc /\ sub'[z].conn = sub[z].conn
        /\ sub'[z].id = sub[z].id /\ sub'[z].snap = sub[z].snap
        /\ sub'[z].live => sub[z].live
    BY <1>3 DEF CancelSub, Subscriptions
  <2>2. QED
    BY <2>1 DEF Lasting, Used
<1>4. ASSUME NEW k \in 1 .. MaxSwitches, NEW c \in Sessions, CancelSession(k, c)
      PROVE  Lasting(z)
  BY <1>4 DEF CancelSession, Lasting, Used, Hang
<1>5. ASSUME NEW w \in 1 .. MaxWrites, InvalidateAll(w)
      PROVE  Lasting(z)
  BY <1>5 DEF InvalidateAll, Lasting, Used
<1>6. ASSUME NEW w \in 1 .. MaxWrites, NEW x \in Subs, Notify(w, x)
      PROVE  Lasting(z)
  BY <1>6 DEF Notify, Lasting, Used, Subscriptions
<1>7. ASSUME NEW c \in Conns,
             \/ Admit(c) \/ Disconnect(c) \/ Reject(c) \/ BeginPing(c)
             \/ ResolvePlain(c) \/ RegisterSession(c) \/ BeginOpen(c)
             \/ EndPing(c) \/ Unlist(c) \/ CloseSession(c) \/ ReturnSession(c)
      PROVE  Lasting(z)
  BY <1>7 DEF Admit, Disconnect, Reject, BeginPing, ResolvePlain,
     RegisterSession, BeginOpen, EndPing, Unlist, CloseSession, ReturnSession,
     Lasting, Used, Hang, Delivered, Broken
<1>8. ASSUME NEW c \in Conns, RegisterPlain(c)
      PROVE  Lasting(z)
  BY <1>8 DEF RegisterPlain, Lasting, Used, IsNext, Unused, Fence, Subscription,
     Leave, NoSub, NoConn, Subscriptions
<1>9. ASSUME NEW c \in Conns, EndOpen(c)
      PROVE  Lasting(z)
  BY <1>9 DEF EndOpen, Lasting, Used, Started, SubsOf, Subscriptions
<1>10. ASSUME NEW c \in Conns, SkipOpen(c)
      PROVE  Lasting(z)
  BY <1>10 DEF SkipOpen, Lasting, Used, Started, SubsOf, Subscriptions
<1>11. ASSUME NEW c \in Conns, ReturnPlain(c)
      PROVE  Lasting(z)
  BY <1>11 DEF ReturnPlain, Lasting, Used, Gone, Dropped, Leave, SubsOf, NoSub,
     NoConn, Subscriptions
<1>12. ASSUME NEW c \in Sessions, NEW r \in Requests, FindSession(c, r)
      PROVE  Lasting(z)
  BY <1>12 DEF FindSession, Lasting, Used
<1>13. ASSUME NEW c \in Sessions,
             \/ AdmitCall(c) \/ AddRefused(c) \/ AddSkipped(c)
             \/ BeginAnnounce(c) \/ BeginError(c) \/ EndError(c) \/ SkipError(c)
             \/ Reply(c)
      PROVE  Lasting(z)
  BY <1>13 DEF AdmitCall, AddRefused, AddSkipped, BeginAnnounce, BeginError,
     EndError, SkipError, Reply, Lasting, Used, Hang, Delivered, Broken
<1>14. ASSUME NEW c \in Sessions, CancelRemoved(c)
      PROVE  Lasting(z)
  BY <1>14 DEF CancelRemoved, Lasting, Used, Subscriptions
<1>15. ASSUME NEW c \in Sessions, NEW i \in Ids,
             \/ Remove(c, i) \/ Resolve(c, i)
      PROVE  Lasting(z)
  BY <1>15 DEF Remove, Resolve, Lasting, Used
<1>16. ASSUME NEW c \in Sessions, Add(c)
      PROVE  Lasting(z)
  BY <1>16 DEF Add, Lasting, Used, IsNext, Unused, Fence, Subscription, Enlist,
     Closed, NoSub, Subscriptions
<1>17. ASSUME NEW c \in Sessions, EndAnnounce(c)
      PROVE  Lasting(z)
  BY <1>17
     DEF EndAnnounce, Launch, Lasting, WellFormedCalls, Used, Subscriptions
<1>18. ASSUME NEW c \in Sessions, SkipAnnounce(c)
      PROVE  Lasting(z)
  BY <1>18
     DEF SkipAnnounce, Launch, Lasting, WellFormedCalls, Used, Subscriptions
<1>19. ASSUME NEW x \in Subs,
             \/ Acquire(x) \/ GiveUp(x) \/ SkipWrite(x) \/ Stop(x)
      PROVE  Lasting(z)
  BY <1>19 DEF Acquire, GiveUp, SkipWrite, Stop, Lasting, Used, Subscriptions,
     Waiting
<1>20. ASSUME NEW x \in Subs, Invoke(x)
      PROVE  Lasting(z)
  BY <1>20 DEF Invoke, Lasting, Used, Subscriptions
<1>21. ASSUME NEW x \in Subs, Compare(x)
      PROVE  Lasting(z)
  BY <1>21 DEF Compare, Lasting, Used, Subscriptions
<1>22. ASSUME NEW x \in Subs, BeginWrite(x)
      PROVE  Lasting(z)
  BY <1>22 DEF BeginWrite, Lasting, Used, Subscriptions
<1>23. ASSUME NEW x \in Subs, EndWrite(x)
      PROVE  Lasting(z)
  BY <1>23 DEF EndWrite, Lasting, Used, Hang, Delivered, Broken, Subscriptions
<1>24. ASSUME NEW x \in Subs, Notice(x)
      PROVE  Lasting(z)
  BY <1>24 DEF Notice, Lasting, Used, Waiting, Subscriptions
<1>25. ASSUME NEW x \in Subs, Unsubscribe(x)
      PROVE  Lasting(z)
  BY <1>25 DEF Unsubscribe, Lasting, Used, Subscriptions
<1>26. ASSUME NEW x \in Subs, Forget(x)
      PROVE  Lasting(z)
  BY <1>26 DEF Forget, Lasting, Used, Gone, Dropped, NoSub, Subscriptions
<1>27. CASE UNCHANGED vars
  BY <1>27 DEF vars, Lasting, Used
<1> QED
  BY <1>1, <1>2, <1>3, <1>4, <1>5, <1>6, <1>7, <1>8, <1>9, <1>10, <1>11, <1>12,
     <1>13, <1>14, <1>15, <1>16, <1>17, <1>18, <1>19, <1>20, <1>21, <1>22,
     <1>23, <1>24, <1>25, <1>26, <1>27 DEF Next, Broadcast, Client, Handle,
     HandleSessionControl, Run, Serve, Finished

LEMMA LivesOn ==
  ASSUME TypeOK, WellFormedCalls, WellFormedSubs, [Next]_vars, NEW x \in Subs, Used(x)
  PROVE  /\ sub'[x].pc # "free" /\ sub'[x].conn = sub[x].conn
         /\ Live(x)' => /\ Live(x)
                        /\ sub'[x].id = sub[x].id /\ sub'[x].snap = sub[x].snap
<1>1. Lasting(x)
  BY SubsLast
<1>2. sub[x].conn \in Conns /\ conn[sub[x].conn].pc # "idle"
  BY DEF WellFormedSubs, Used, Opened, Conns
<1>3. conn'[sub[x].conn].live => conn[sub[x].conn].live
  BY <1>2, StreamsEnd
<1>4. QED
  BY <1>1, <1>3 DEF Lasting, Live

----------------------------------------------------------------------------
LEMMA FencedStep ==
  ASSUME TypeOK, WellFormedCalls, WellFormedSubs, Fenced, [Next]_vars
  PROVE  Fenced'
<1> USE DEF switchVars, dataVars, broadcastVars, envVars, callVars, clientVars,
   At, HandlerAt, CallAt, StreamOf, Goto, Lock, Unlock, Conns
<1>0. /\ conn \in [Conns -> Handlers] /\ call \in [Sessions -> Controls]
      /\ active \in Nat /\ generation \in Nat /\ announced \subseteq 1 .. MaxSwitches
      /\ MaxSwitches \in Nat
  BY RealtimeAssumption DEF TypeOK
<1> USE <1>0
<1>1. ASSUME Activate
      PROVE  Fenced'
  BY <1>1 DEF Activate, Fenced
<1>2. ASSUME Commit
      PROVE  Fenced'
  BY <1>2 DEF Commit, Fenced
<1>3. ASSUME NEW k \in 1 .. MaxSwitches, ReconnectAll(k)
      PROVE  Fenced'
  <2>1. /\ \A c \in Conns : conn[c].gen \in Nat
        /\ \A c \in Sessions : call[c].gen \in Nat
    BY DEF Handlers, Controls
  <2>2. QED
    BY <1>3, <2>1 DEF ReconnectAll, Fenced
<1>4. ASSUME NEW k \in 1 .. MaxSwitches, NEW x \in Subs, CancelSub(k, x)
      PROVE  Fenced'
  BY <1>4 DEF CancelSub, Fenced, Hang, Handlers
<1>5. ASSUME NEW k \in 1 .. MaxSwitches, NEW c \in Sessions, CancelSession(k, c)
      PROVE  Fenced'
  BY <1>5 DEF CancelSession, Fenced, Hang, Handlers
<1>6. ASSUME NEW w \in 1 .. MaxWrites, InvalidateAll(w)
      PROVE  Fenced'
  BY <1>6 DEF InvalidateAll, Fenced
<1>7. ASSUME NEW w \in 1 .. MaxWrites, NEW x \in Subs, Notify(w, x)
      PROVE  Fenced'
  BY <1>7 DEF Notify, Fenced
<1>8. ASSUME NEW c \in Conns, Admit(c)
      PROVE  Fenced'
  BY <1>8 DEF Admit, Fenced, NoConn, Handlers
<1>9. ASSUME NEW c \in Conns, Disconnect(c)
      PROVE  Fenced'
  BY <1>9 DEF Disconnect, Fenced, Hang, Handlers
<1>10. ASSUME NEW c \in Conns, Reject(c)
      PROVE  Fenced'
  BY <1>10 DEF Reject, Fenced, Leave, NoConn, Handlers
<1>11. ASSUME NEW c \in Conns,
             \/ BeginPing(c) \/ BeginOpen(c)
      PROVE  Fenced'
  BY <1>11 DEF BeginPing, BeginOpen, Fenced
<1>12. ASSUME NEW c \in Conns, ResolvePlain(c)
      PROVE  Fenced'
  BY <1>12 DEF ResolvePlain, Fenced, Handlers
<1>13. ASSUME NEW c \in Conns, RegisterPlain(c)
      PROVE  Fenced'
  BY <1>13 DEF RegisterPlain, Fenced, IsNext, Unused, Fence, Subscription,
     Leave, NoSub, NoConn, Handlers
<1>14. ASSUME NEW c \in Conns, RegisterSession(c)
      PROVE  Fenced'
  BY <1>14 DEF RegisterSession, Fenced, Fence, Leave, NoConn, Handlers
<1>15. ASSUME NEW c \in Conns, EndOpen(c)
      PROVE  Fenced'
  BY <1>15 DEF EndOpen, Fenced, Started, SubsOf, Handlers
<1>16. ASSUME NEW c \in Conns, SkipOpen(c)
      PROVE  Fenced'
  BY <1>16 DEF SkipOpen, Fenced, Started, SubsOf, Handlers
<1>17. ASSUME NEW c \in Conns, EndPing(c)
      PROVE  Fenced'
  BY <1>17 DEF EndPing, Fenced, Hang, Delivered, Broken, Handlers
<1>18. ASSUME NEW c \in Conns, Unlist(c)
      PROVE  Fenced'
  BY <1>18 DEF Unlist, Fenced, Handlers
<1>19. ASSUME NEW c \in Conns, CloseSession(c)
      PROVE  Fenced'
  BY <1>19 DEF CloseSession, Fenced, Handlers
<1>20. ASSUME NEW c \in Conns, ReturnSession(c)
      PROVE  Fenced'
  BY <1>20 DEF ReturnSession, Fenced, Leave, SubsOf, NoConn, Handlers
<1>21. ASSUME NEW c \in Conns, ReturnPlain(c)
      PROVE  Fenced'
  <2>1. /\ \A d \in Conns \ {c} : conn'[d] = conn[d]
        /\ conn'[c].pc = "returned" /\ conn'[c].gen = 0
        /\ UNCHANGED <<call, active, generation, announced>>
    BY <1>21 DEF ReturnPlain, Leave, NoConn
  <2>2. QED
    BY <2>1 DEF Fenced
<1>22. ASSUME NEW c \in Sessions, NEW r \in Requests, FindSession(c, r)
      PROVE  Fenced'
  BY <1>22 DEF FindSession, Fenced, NoCall, Controls
<1>23. ASSUME NEW c \in Sessions, AdmitCall(c)
      PROVE  Fenced'
  BY <1>23 DEF AdmitCall, Fenced, Controls
<1>24. ASSUME NEW c \in Sessions, CancelRemoved(c)
      PROVE  Fenced'
  BY <1>24 DEF CancelRemoved, Fenced, Controls
<1>25. ASSUME NEW c \in Sessions, NEW i \in Ids, Remove(c, i)
      PROVE  Fenced'
  BY <1>25 DEF Remove, Fenced, Controls
<1>26. ASSUME NEW c \in Sessions, NEW i \in Ids, Resolve(c, i)
      PROVE  Fenced'
  BY <1>26 DEF Resolve, Fenced, Controls
<1>27. ASSUME NEW c \in Sessions, AddRefused(c)
      PROVE  Fenced'
  BY <1>27
     DEF AddRefused, Fenced, Hang, Fence, Closed, NoCall, Handlers, Controls
<1>28. ASSUME NEW c \in Sessions, AddSkipped(c)
      PROVE  Fenced'
  BY <1>28 DEF AddSkipped, Fenced, AddTo, Closed, Controls
<1>29. ASSUME NEW c \in Sessions, Add(c)
      PROVE  Fenced'
  BY <1>29 DEF Add, Fenced, IsNext, Unused, Fence, Subscription, Enlist, Closed,
     NoSub, Controls
<1>30. ASSUME NEW c \in Sessions,
             \/ BeginAnnounce(c) \/ BeginError(c)
      PROVE  Fenced'
  BY <1>30 DEF BeginAnnounce, BeginError, Fenced
<1>31. ASSUME NEW c \in Sessions, EndAnnounce(c)
      PROVE  Fenced'
  <2>1. \A d \in Conns : /\ conn'[d].pc = conn[d].pc /\ conn'[d].gen = conn[d].gen
                         /\ conn'[d].snap = conn[d].snap
    BY <1>31, Hung DEF EndAnnounce
  <2>2. /\ \A d \in Sessions : call'[d].gen = call[d].gen /\ call'[d].snap = call[d].snap
        /\ \A d \in Sessions \ {c} : call'[d].pc = call[d].pc
        /\ call'[c].pc = "work" /\ UNCHANGED <<active, generation, announced>>
    BY <1>31 DEF EndAnnounce, Launch, Controls
  <2>3. QED
    BY <2>1, <2>2 DEF Fenced
<1>32. ASSUME NEW c \in Sessions, SkipAnnounce(c)
      PROVE  Fenced'
  BY <1>32 DEF SkipAnnounce, Fenced, Launch, Controls
<1>33. ASSUME NEW c \in Sessions, EndError(c)
      PROVE  Fenced'
  <2>1. \A d \in Conns : /\ conn'[d].pc = conn[d].pc /\ conn'[d].gen = conn[d].gen
                         /\ conn'[d].snap = conn[d].snap
    BY <1>33, Hung DEF EndError
  <2>2. /\ \A d \in Sessions : call'[d].gen = call[d].gen /\ call'[d].snap = call[d].snap
        /\ \A d \in Sessions \ {c} : call'[d].pc = call[d].pc
        /\ call'[c].pc = "work" /\ UNCHANGED <<active, generation, announced>>
    BY <1>33 DEF EndError, AddTo, Controls
  <2>3. QED
    BY <2>1, <2>2 DEF Fenced
<1>34. ASSUME NEW c \in Sessions, SkipError(c)
      PROVE  Fenced'
  BY <1>34 DEF SkipError, Fenced, AddTo, Controls
<1>35. ASSUME NEW c \in Sessions, Reply(c)
      PROVE  Fenced'
  BY <1>35 DEF Reply, Fenced, NoCall, Controls
<1>36. ASSUME NEW x \in Subs,
             \/ Acquire(x) \/ GiveUp(x) \/ Invoke(x) \/ Compare(x)
             \/ BeginWrite(x) \/ SkipWrite(x) \/ Notice(x) \/ Stop(x)
             \/ Unsubscribe(x) \/ Forget(x)
      PROVE  Fenced'
  BY <1>36 DEF Acquire, GiveUp, Invoke, Compare, BeginWrite, SkipWrite, Notice,
     Stop, Unsubscribe, Forget, Fenced
<1>37. ASSUME NEW x \in Subs, EndWrite(x)
      PROVE  Fenced'
  BY <1>37 DEF EndWrite, Fenced, Hang, Delivered, Broken, Handlers
<1>38. CASE UNCHANGED vars
  BY <1>38 DEF vars, Fenced
<1> QED
  BY <1>1, <1>2, <1>3, <1>4, <1>5, <1>6, <1>7, <1>8, <1>9, <1>10, <1>11, <1>12,
     <1>13, <1>14, <1>15, <1>16, <1>17, <1>18, <1>19, <1>20, <1>21, <1>22,
     <1>23, <1>24, <1>25, <1>26, <1>27, <1>28, <1>29, <1>30, <1>31, <1>32,
     <1>33, <1>34, <1>35, <1>36, <1>37, <1>38 DEF Next, Broadcast, Client,
     Handle, HandleSessionControl, Run, Serve, Finished

LEMMA PinnedStep ==
  ASSUME TypeOK, WellFormedCalls, WellFormedSubs, Fenced, PinnedToActive, [Next]_vars
  PROVE  PinnedToActive'
<1> USE DEF switchVars, dataVars, broadcastVars, envVars, callVars, clientVars,
   At, HandlerAt, CallAt, StreamOf, Goto, Lock, Unlock, Conns
<1>0. /\ sub \in [Subs -> Subscriptions] /\ active \in Nat /\ announced \subseteq 1 .. MaxSwitches
      /\ toCancel \in [1 .. MaxSwitches -> [subs : SUBSET Subs, sessions : SUBSET Sessions]]
      /\ registered \subseteq Subs /\ conn \in [Conns -> Handlers]
  BY RealtimeAssumption DEF TypeOK
<1> USE <1>0
<1>a. \A y \in registered :
        /\ Used(y) /\ sub'[y].conn = sub[y].conn
        /\ Live(y)' => Live(y) /\ sub'[y].snap = sub[y].snap
  BY LivesOn DEF WellFormedSubs, Used
<1> USE <1>a
<1>1. ASSUME Activate
      PROVE  PinnedToActive'
  <2>1. active + 1 \notin announced
    BY DEF Fenced
  <2>2. UNCHANGED <<announced, toCancel, registered, sub, conn>> /\ active' = active + 1
    BY <1>1 DEF Activate
  <2>3. ASSUME NEW y \in registered, Live(y), NEW k \in sub[y].snap + 1 .. active + 1
        PROVE  \/ k \notin announced
               \/ y \in toCancel[k].subs \/ sub[y].conn \in toCancel[k].sessions
    <3>1. sub[y].snap \in Nat
      BY RealtimeAssumption DEF Subscriptions
    <3>2. k = active + 1 \/ k \in sub[y].snap + 1 .. active
      BY <3>1
    <3>3. QED
      BY <2>1, <2>3, <3>2 DEF PinnedToActive
  <2>4. QED
    BY <2>2, <2>3 DEF PinnedToActive, Live
<1>2. ASSUME Commit
      PROVE  PinnedToActive'
  BY <1>2 DEF Commit, PinnedToActive
<1>3. ASSUME NEW k \in 1 .. MaxSwitches, ReconnectAll(k)
      PROVE  PinnedToActive'
  BY <1>3 DEF ReconnectAll, PinnedToActive
<1>4. ASSUME NEW k \in 1 .. MaxSwitches, NEW x \in Subs, CancelSub(k, x)
      PROVE  PinnedToActive'
  <2>1. /\ UNCHANGED <<active, announced, registered>>
        /\ \A j \in 1 .. MaxSwitches : /\ toCancel[j].subs \subseteq toCancel'[j].subs \cup {x}
                                       /\ toCancel'[j].sessions = toCancel[j].sessions
    BY <1>4 DEF CancelSub
  <2>2. ~sub'[x].live
    BY <1>4 DEF CancelSub, Subscriptions
  <2>3. QED
    BY <2>1, <2>2 DEF PinnedToActive, Live
<1>5. ASSUME NEW k \in 1 .. MaxSwitches, NEW c \in Sessions, CancelSession(k, c)
      PROVE  PinnedToActive'
  <2>1. /\ UNCHANGED <<active, announced, registered>>
        /\ \A j \in 1 .. MaxSwitches :
             /\ toCancel[j].sessions \subseteq toCancel'[j].sessions \cup {c}
             /\ toCancel'[j].subs = toCancel[j].subs
    BY <1>5 DEF CancelSession
  <2>2. ~conn'[c].live
    BY <1>5 DEF CancelSession, Hang, Handlers
  <2>3. QED
    BY <2>1, <2>2 DEF PinnedToActive, Live
<1>6. ASSUME NEW w \in 1 .. MaxWrites, InvalidateAll(w)
      PROVE  PinnedToActive'
  BY <1>6 DEF InvalidateAll, PinnedToActive
<1>7. ASSUME NEW w \in 1 .. MaxWrites, NEW x \in Subs, Notify(w, x)
      PROVE  PinnedToActive'
  BY <1>7 DEF Notify, PinnedToActive
<1>8. ASSUME NEW c \in Conns,
             \/ Admit(c) \/ Disconnect(c) \/ Reject(c) \/ BeginPing(c)
             \/ ResolvePlain(c) \/ RegisterSession(c) \/ BeginOpen(c)
             \/ EndOpen(c) \/ SkipOpen(c) \/ EndPing(c) \/ Unlist(c)
             \/ CloseSession(c)
      PROVE  PinnedToActive'
  BY <1>8 DEF Admit, Disconnect, Reject, BeginPing, ResolvePlain,
     RegisterSession, BeginOpen, EndOpen, SkipOpen, EndPing, Unlist,
     CloseSession, PinnedToActive, Hang, Delivered, Broken
<1>9. ASSUME NEW c \in Conns, RegisterPlain(c)
      PROVE  PinnedToActive'
  <2>1. CASE Fence(conn[c].gen)
    <3>1. PICK x \in Subs :
            /\ registered' = registered \cup {x}
            /\ sub' = [sub EXCEPT ![x] = Subscription(c, None, conn[c].snap)]
      BY <1>9, <2>1 DEF RegisterPlain
    <3>2. UNCHANGED <<active, announced, toCancel>> /\ sub'[x].snap = conn[c].snap
      BY <1>9, <3>1 DEF RegisterPlain, Subscription, NoSub
    <3>3. \A k \in conn[c].snap + 1 .. active : k \notin announced
      BY <1>9, <2>1 DEF RegisterPlain, Fence, Fenced
    <3>4. QED
      BY <3>1, <3>2, <3>3 DEF PinnedToActive
  <2>2. CASE ~Fence(conn[c].gen)
    BY <1>9, <2>2 DEF RegisterPlain, PinnedToActive
  <2>3. QED
    BY <2>1, <2>2
<1>10. ASSUME NEW c \in Conns, ReturnSession(c)
      PROVE  PinnedToActive'
  BY <1>10 DEF ReturnSession, PinnedToActive
<1>11. ASSUME NEW c \in Conns, ReturnPlain(c)
      PROVE  PinnedToActive'
  <2>1. /\ UNCHANGED <<active, announced>>
        /\ registered' = registered \ SubsOf(c)
        /\ \A j \in 1 .. MaxSwitches : /\ toCancel[j].subs \subseteq toCancel'[j].subs \cup SubsOf(c)
                                       /\ toCancel'[j].sessions = toCancel[j].sessions
    BY <1>11 DEF ReturnPlain, Dropped
  <2>2. QED
    BY <2>1 DEF PinnedToActive
<1>12. ASSUME NEW c \in Sessions, NEW r \in Requests, FindSession(c, r)
      PROVE  PinnedToActive'
  BY <1>12 DEF FindSession, PinnedToActive
<1>13. ASSUME NEW c \in Sessions,
             \/ AdmitCall(c) \/ CancelRemoved(c) \/ AddRefused(c)
             \/ AddSkipped(c) \/ BeginAnnounce(c) \/ EndAnnounce(c)
             \/ SkipAnnounce(c) \/ BeginError(c) \/ EndError(c) \/ SkipError(c)
             \/ Reply(c)
      PROVE  PinnedToActive'
  BY <1>13 DEF AdmitCall, CancelRemoved, AddRefused, AddSkipped, BeginAnnounce,
     EndAnnounce, SkipAnnounce, BeginError, EndError, SkipError, Reply,
     PinnedToActive, Hang, Delivered, Broken
<1>14. ASSUME NEW c \in Sessions, NEW i \in Ids,
             \/ Remove(c, i) \/ Resolve(c, i)
      PROVE  PinnedToActive'
  BY <1>14 DEF Remove, Resolve, PinnedToActive
<1>15. ASSUME NEW c \in Sessions, Add(c)
      PROVE  PinnedToActive'
  <2>1. PICK x \in Subs :
          /\ registered' = registered \cup {x}
          /\ sub' = [sub EXCEPT ![x] = Subscription(c, call[c].id, call[c].snap)]
    BY <1>15 DEF Add, Enlist
  <2>2. UNCHANGED <<active, announced, toCancel>> /\ sub'[x].snap = call[c].snap
    BY <1>15, <2>1 DEF Add, Enlist, Subscription, NoSub
  <2>3. \A k \in call[c].snap + 1 .. active : k \notin announced
    BY <1>15 DEF Add, Enlist, Fence, Fenced
  <2>4. QED
    BY <2>1, <2>2, <2>3 DEF PinnedToActive
<1>16. ASSUME NEW x \in Subs,
             \/ Acquire(x) \/ GiveUp(x) \/ Invoke(x) \/ Compare(x)
             \/ BeginWrite(x) \/ EndWrite(x) \/ SkipWrite(x) \/ Notice(x)
             \/ Stop(x)
      PROVE  PinnedToActive'
  BY <1>16 DEF Acquire, GiveUp, Invoke, Compare, BeginWrite, EndWrite,
     SkipWrite, Notice, Stop, PinnedToActive, Hang, Delivered, Broken
<1>17. ASSUME NEW x \in Subs, Unsubscribe(x)
      PROVE  PinnedToActive'
  BY <1>17 DEF Unsubscribe, PinnedToActive
<1>18. ASSUME NEW x \in Subs, Forget(x)
      PROVE  PinnedToActive'
  <2>1. /\ UNCHANGED <<active, announced>>
        /\ registered' = registered \ {x}
        /\ \A j \in 1 .. MaxSwitches : /\ toCancel[j].subs \subseteq toCancel'[j].subs \cup {x}
                                       /\ toCancel'[j].sessions = toCancel[j].sessions
    BY <1>18 DEF Forget, Dropped, WellFormedSubs
  <2>2. QED
    BY <2>1 DEF PinnedToActive
<1>19. CASE UNCHANGED vars
  BY <1>19 DEF vars, PinnedToActive
<1> QED
  BY <1>1, <1>2, <1>3, <1>4, <1>5, <1>6, <1>7, <1>8, <1>9, <1>10, <1>11, <1>12,
     <1>13, <1>14, <1>15, <1>16, <1>17, <1>18, <1>19 DEF Next, Broadcast,
     Client, Handle, HandleSessionControl, Run, Serve, Finished

----------------------------------------------------------------------------
LEMMA ListedStep ==
  ASSUME TypeOK, WellFormedCalls, WellFormedSubs, LiveIsListed, [Next]_vars
  PROVE  LiveIsListed'
<1> USE DEF switchVars, dataVars, broadcastVars, envVars, callVars, clientVars,
   At, HandlerAt, CallAt, StreamOf, Goto, Lock, Unlock, Conns
<1>0. /\ sub \in [Subs -> Subscriptions] /\ conn \in [Conns -> Handlers]
      /\ call \in [Sessions -> Controls]
      /\ listed \in [Sessions -> [Ids -> Subs \cup {None}]]
      /\ Sessions \cap Plains = {} /\ None \notin Conns \cup Ids \cup Int
  BY RealtimeAssumption DEF TypeOK
<1> USE <1>0
<1>a. \A y \in Subs : Used(y) =>
        /\ sub'[y].pc # "free" /\ sub'[y].conn = sub[y].conn
        /\ Live(y)' => Live(y) /\ sub'[y].id = sub[y].id
  BY LivesOn
<1> USE <1>a
<1>1. ASSUME
             \/ Activate \/ Commit
      PROVE  LiveIsListed'
  BY <1>1 DEF Activate, Commit, LiveIsListed, Used
<1>2. ASSUME NEW k \in 1 .. MaxSwitches, ReconnectAll(k)
      PROVE  LiveIsListed'
  BY <1>2 DEF ReconnectAll, LiveIsListed, Used
<1>3. ASSUME NEW k \in 1 .. MaxSwitches, NEW x \in Subs, CancelSub(k, x)
      PROVE  LiveIsListed'
  BY <1>3 DEF CancelSub, LiveIsListed, Used, Hang, Subscriptions
<1>4. ASSUME NEW k \in 1 .. MaxSwitches, NEW c \in Sessions, CancelSession(k, c)
      PROVE  LiveIsListed'
  BY <1>4 DEF CancelSession, LiveIsListed, Used, Hang
<1>5. ASSUME NEW w \in 1 .. MaxWrites, InvalidateAll(w)
      PROVE  LiveIsListed'
  BY <1>5 DEF InvalidateAll, LiveIsListed, Used
<1>6. ASSUME NEW w \in 1 .. MaxWrites, NEW x \in Subs, Notify(w, x)
      PROVE  LiveIsListed'
  BY <1>6 DEF Notify, LiveIsListed, Used, Subscriptions
<1>7. ASSUME NEW c \in Conns,
             \/ Admit(c) \/ Disconnect(c) \/ Reject(c) \/ BeginPing(c)
             \/ ResolvePlain(c) \/ RegisterSession(c) \/ BeginOpen(c)
             \/ EndPing(c) \/ Unlist(c) \/ CloseSession(c) \/ ReturnSession(c)
      PROVE  LiveIsListed'
  BY <1>7 DEF Admit, Disconnect, Reject, BeginPing, ResolvePlain,
     RegisterSession, BeginOpen, EndPing, Unlist, CloseSession, ReturnSession,
     LiveIsListed, Used, Hang, Delivered, Broken
<1>8. ASSUME NEW c \in Conns, RegisterPlain(c)
      PROVE  LiveIsListed'
  <2>1. \A y \in Subs : sub'[y] = sub[y] \/ sub'[y].conn = c
    <3>1. CASE Fence(conn[c].gen)
      <4>1. PICK x \in Subs : sub' = [sub EXCEPT ![x] = Subscription(c, None, conn[c].snap)]
        BY <1>8, <3>1 DEF RegisterPlain
      <4>2. QED
        BY <4>1 DEF Subscription, NoSub
    <3>2. CASE ~Fence(conn[c].gen)
      BY <1>8, <3>2 DEF RegisterPlain
    <3>3. QED
      BY <3>1, <3>2
  <2>2. c \in Plains /\ UNCHANGED <<listed, call>>
    BY <1>8 DEF RegisterPlain
  <2>3. QED
    BY <2>1, <2>2 DEF LiveIsListed, Used
<1>9. ASSUME NEW c \in Conns, EndOpen(c)
      PROVE  LiveIsListed'
  BY <1>9 DEF EndOpen, LiveIsListed, Used, Started, SubsOf, Subscriptions
<1>10. ASSUME NEW c \in Conns, SkipOpen(c)
      PROVE  LiveIsListed'
  BY <1>10 DEF SkipOpen, LiveIsListed, Used, Started, SubsOf, Subscriptions
<1>11. ASSUME NEW c \in Conns, ReturnPlain(c)
      PROVE  LiveIsListed'
  <2>1. \A y \in Subs : sub'[y] = sub[y] \/ sub'[y].conn = c
    BY <1>11 DEF ReturnPlain, Dropped, Gone, SubsOf, NoSub
  <2>2. c \in Plains /\ UNCHANGED <<listed, call>>
    BY <1>11 DEF ReturnPlain
  <2>3. QED
    BY <2>1, <2>2 DEF LiveIsListed, Used
<1>12. ASSUME NEW c \in Sessions, NEW r \in Requests, FindSession(c, r)
      PROVE  LiveIsListed'
  BY <1>12 DEF FindSession, LiveIsListed, Used, NoCall, Controls
<1>13. ASSUME NEW c \in Sessions, AdmitCall(c)
      PROVE  LiveIsListed'
  BY <1>13 DEF AdmitCall, LiveIsListed, Used, Controls
<1>14. ASSUME NEW c \in Sessions, CancelRemoved(c)
      PROVE  LiveIsListed'
  <2>1. /\ \A y \in Subs \ {call[c].sub} : sub'[y] = sub[y]
        /\ \A d \in Sessions \ {c} : call'[d] = call[d]
        /\ UNCHANGED listed
    BY <1>14 DEF CancelRemoved
  <2>2. call[c].sub \in Subs /\ ~sub'[call[c].sub].live
    BY <1>14 DEF CancelRemoved, WellFormedCalls, Subscriptions
  <2>3. QED
    BY <2>1, <2>2 DEF LiveIsListed, Live, Used
<1>15. ASSUME NEW c \in Sessions, NEW i \in Ids, Remove(c, i)
      PROVE  LiveIsListed'
  BY <1>15 DEF Remove, LiveIsListed, Used, Controls
<1>16. ASSUME NEW c \in Sessions, NEW i \in Ids, Resolve(c, i)
      PROVE  LiveIsListed'
  BY <1>16 DEF Resolve, LiveIsListed, Used, Controls
<1>17. ASSUME NEW c \in Sessions, AddRefused(c)
      PROVE  LiveIsListed'
  BY <1>17
     DEF AddRefused, LiveIsListed, Used, Hang, Fence, Closed, NoCall, Controls
<1>18. ASSUME NEW c \in Sessions, AddSkipped(c)
      PROVE  LiveIsListed'
  <2>1. /\ \A d \in Sessions \ {c} : call'[d] = call[d]
        /\ call[c].pc = "add" /\ UNCHANGED <<sub, listed>>
    BY <1>18 DEF AddSkipped, AddTo
  <2>2. QED
    BY <2>1 DEF LiveIsListed, Used
<1>19. ASSUME NEW c \in Sessions, Add(c)
      PROVE  LiveIsListed'
  <2>1. PICK x \in Subs :
          /\ sub[x].pc = "free"
          /\ sub' = [sub EXCEPT ![x] = Subscription(c, call[c].id, call[c].snap)]
          /\ listed' = [listed EXCEPT ![c][call[c].id] = x]
    BY <1>19 DEF Add, Enlist, IsNext, Unused
  <2>2. /\ \A d \in Sessions \ {c} : call'[d] = call[d]
        /\ call[c].pc = "add" /\ call[c].id \in Ids /\ listed[c][call[c].id] = None
    BY <1>19 DEF Add, Enlist, WellFormedCalls
  <2>3. listed'[sub'[x].conn][sub'[x].id] = x
    BY <2>1, <2>2 DEF Subscription, NoSub
  <2>4. ASSUME NEW y \in Subs \ {x}, Used(y), sub[y].conn \in Sessions, Live(y)'
        PROVE  \/ listed'[sub[y].conn][sub[y].id] = y
               \/ call'[sub[y].conn].pc = "cancel" /\ call'[sub[y].conn].sub = y
    <3>1. \/ listed[sub[y].conn][sub[y].id] = y
          \/ call[sub[y].conn].pc = "cancel" /\ call[sub[y].conn].sub = y
      BY <2>4 DEF LiveIsListed, Used
    <3>2. y # None /\ sub[y].id \in Ids
      <4>1. sub[y].live
        BY <2>4 DEF Live
      <4>2. QED
        BY <2>4, <4>1 DEF Subs, WellFormedSubs
    <3>3. CASE listed[sub[y].conn][sub[y].id] = y
      <4>1. sub[y].conn # c \/ sub[y].id # call[c].id
        BY <2>2, <3>2, <3>3
      <4>2. listed'[sub[y].conn][sub[y].id] = listed[sub[y].conn][sub[y].id]
        BY <2>1, <2>2, <2>4, <3>2, <4>1
      <4>3. QED
        BY <3>3, <4>2
    <3>4. CASE call[sub[y].conn].pc = "cancel" /\ call[sub[y].conn].sub = y
      BY <2>2, <2>4, <3>4
    <3>5. QED
      BY <3>1, <3>3, <3>4
  <2>5. QED
    BY <2>1, <2>3, <2>4 DEF LiveIsListed, Used
<1>20. ASSUME NEW c \in Sessions,
             \/ BeginAnnounce(c) \/ BeginError(c)
      PROVE  LiveIsListed'
  BY <1>20 DEF BeginAnnounce, BeginError, LiveIsListed, Used
<1>21. ASSUME NEW c \in Sessions, EndAnnounce(c)
      PROVE  LiveIsListed'
  <2>1. /\ \A d \in Sessions \ {c} : call'[d] = call[d]
        /\ call[c].pc = "announce" /\ call[c].sub \in Subs /\ Used(call[c].sub)
        /\ UNCHANGED listed
    BY <1>21 DEF EndAnnounce, Launch, WellFormedCalls
  <2>2. \A y \in Subs \ {call[c].sub} : sub'[y] = sub[y]
    BY <1>21 DEF EndAnnounce, Launch
  <2>3. QED
    BY <2>1, <2>2 DEF LiveIsListed, Used
<1>22. ASSUME NEW c \in Sessions, SkipAnnounce(c)
      PROVE  LiveIsListed'
  <2>1. /\ \A d \in Sessions \ {c} : call'[d] = call[d]
        /\ call[c].pc = "announce" /\ call[c].sub \in Subs /\ Used(call[c].sub)
        /\ UNCHANGED listed
    BY <1>22 DEF SkipAnnounce, Launch, WellFormedCalls
  <2>2. \A y \in Subs \ {call[c].sub} : sub'[y] = sub[y]
    BY <1>22 DEF SkipAnnounce, Launch
  <2>3. QED
    BY <2>1, <2>2 DEF LiveIsListed, Used
<1>23. ASSUME NEW c \in Sessions, EndError(c)
      PROVE  LiveIsListed'
  BY <1>23
     DEF EndError, LiveIsListed, Used, Hang, Delivered, Broken, AddTo, Controls
<1>24. ASSUME NEW c \in Sessions, SkipError(c)
      PROVE  LiveIsListed'
  BY <1>24 DEF SkipError, LiveIsListed, Used, AddTo, Controls
<1>25. ASSUME NEW c \in Sessions, Reply(c)
      PROVE  LiveIsListed'
  BY <1>25 DEF Reply, LiveIsListed, Used, NoCall, Controls
<1>26. ASSUME NEW x \in Subs,
             \/ Acquire(x) \/ GiveUp(x) \/ SkipWrite(x) \/ Stop(x)
      PROVE  LiveIsListed'
  BY <1>26 DEF Acquire, GiveUp, SkipWrite, Stop, LiveIsListed, Used,
     Subscriptions, Waiting
<1>27. ASSUME NEW x \in Subs, Invoke(x)
      PROVE  LiveIsListed'
  BY <1>27 DEF Invoke, LiveIsListed, Used, Subscriptions
<1>28. ASSUME NEW x \in Subs, Compare(x)
      PROVE  LiveIsListed'
  <2>1. UNCHANGED <<call, listed>> /\ sub[x].pc = "result"
    BY <1>28 DEF Compare
  <2>2. \A y \in Subs : sub[y].pc # "free" <=> sub'[y].pc # "free"
    BY <1>28 DEF Compare, Subscriptions
  <2>3. QED
    BY <2>1, <2>2 DEF LiveIsListed, Used
<1>29. ASSUME NEW x \in Subs, BeginWrite(x)
      PROVE  LiveIsListed'
  BY <1>29 DEF BeginWrite, LiveIsListed, Used, Subscriptions
<1>30. ASSUME NEW x \in Subs, EndWrite(x)
      PROVE  LiveIsListed'
  BY <1>30
     DEF EndWrite, LiveIsListed, Used, Hang, Delivered, Broken, Subscriptions
<1>31. ASSUME NEW x \in Subs, Notice(x)
      PROVE  LiveIsListed'
  BY <1>31 DEF Notice, LiveIsListed, Used, Waiting, Subscriptions
<1>32. ASSUME NEW x \in Subs, Unsubscribe(x)
      PROVE  LiveIsListed'
  BY <1>32 DEF Unsubscribe, LiveIsListed, Used, Subscriptions
<1>33. ASSUME NEW x \in Subs, Forget(x)
      PROVE  LiveIsListed'
  <2>1. /\ \A y \in Subs \ {x} : sub'[y] = sub[y]
        /\ ~sub'[x].live /\ UNCHANGED call
    BY <1>33 DEF Forget, Dropped, Gone, NoSub
  <2>2. \A d \in Sessions, i \in Ids : listed[d][i] # x => listed'[d][i] = listed[d][i]
    BY <1>33 DEF Forget
  <2>3. \A y \in Subs : sub[y].conn \in Sessions /\ sub[y].live => sub[y].id \in Ids
    BY DEF WellFormedSubs
  <2>4. QED
    BY <2>1, <2>2, <2>3 DEF LiveIsListed, Live, Used
<1>34. CASE UNCHANGED vars
  BY <1>34 DEF vars, LiveIsListed, Used
<1> QED
  BY <1>1, <1>2, <1>3, <1>4, <1>5, <1>6, <1>7, <1>8, <1>9, <1>10, <1>11, <1>12,
     <1>13, <1>14, <1>15, <1>16, <1>17, <1>18, <1>19, <1>20, <1>21, <1>22,
     <1>23, <1>24, <1>25, <1>26, <1>27, <1>28, <1>29, <1>30, <1>31, <1>32,
     <1>33, <1>34 DEF Next, Broadcast, Client, Handle, HandleSessionControl,
     Run, Serve, Finished

----------------------------------------------------------------------------
LEMMA LockedKept ==
  ASSUME TypeOK, Locked, UNCHANGED stream,
         \A d \in Conns : conn'[d].pc = conn[d].pc,
         \A d \in Sessions : call'[d].pc = call[d].pc \/ stream[d] \notin {"announce", "error"},
         \A y \in Subs : /\ sub'[y].conn = sub[y].conn
                         /\ sub'[y].pc = "write" <=> sub[y].pc = "write"
                         /\ sub[y].pc = "wait" => sub'[y].pc = "wait"
  PROVE  Locked'
<1>1. ASSUME NEW c \in Conns
      PROVE  /\ stream'[c] = "handler" => conn'[c].pc = "open"
             /\ stream'[c] = "announce" => c \in Sessions /\ call'[c].pc = "announce"
             /\ stream'[c] = "error" => c \in Sessions /\ call'[c].pc = "error"
  BY <1>1 DEF Locked
<1>2. ASSUME NEW c \in Conns
      PROVE  /\ stream'[c] = "ping" =>
                  /\ conn'[c].pc = "serving"
                  /\ c \in Plains => \A x \in Subs : sub'[x].conn = c => sub'[x].pc = "wait"
             /\ stream'[c] = "sub" => \E x \in Subs : sub'[x].conn = c /\ sub'[x].pc = "write"
  BY <1>2 DEF Locked, SubsOf, At
<1>3. /\ \A x \in Subs : sub'[x].pc = "write" => stream'[sub'[x].conn] = "sub"
      /\ \A x, y \in Subs :
           sub'[x].pc = "write" /\ sub'[y].pc = "write" /\ sub'[x].conn = sub'[y].conn => x = y
  BY DEF Locked, At
<1>4. QED
  BY <1>1, <1>2, <1>3 DEF Locked, SubsOf, At

(* Nobody writes to a stream whose connection has not been registered. *)
LEMMA Unheld ==
  ASSUME TypeOK, WellFormedCalls, WellFormedSubs, Locked, NEW c \in Conns,
         conn[c].pc \in {"admitted", "resolved"}
  PROVE  SubsOf(c) = {} /\ stream[c] = "free"
<1>1. \A x \in Subs : sub[x].conn # c
  BY DEF WellFormedSubs, Conns, Opened
<1>2. SubsOf(c) = {}
  BY <1>1 DEF SubsOf
<1>3. c \in Sessions => call[c].pc = "idle"
  BY DEF WellFormedCalls, Opened
<1>4. stream[c] \in {"free", "handler", "sub", "ping", "announce", "error"}
  BY DEF TypeOK
<1>5. QED
  BY <1>2, <1>3, <1>4 DEF Locked

LEMMA LockedStep ==
  ASSUME TypeOK, WellFormedCalls, WellFormedSubs, Locked, [Next]_vars
  PROVE  Locked'
<1> USE DEF switchVars, dataVars, broadcastVars, envVars, callVars, clientVars,
   At, HandlerAt, CallAt, StreamOf, Goto, Lock, Unlock, Conns
<1>0. /\ sub \in [Subs -> Subscriptions] /\ conn \in [Conns -> Handlers]
      /\ call \in [Sessions -> Controls]
      /\ listed \in [Sessions -> [Ids -> Subs \cup {None}]]
      /\ Sessions \cap Plains = {} /\ None \notin Conns \cup Ids \cup Int
  BY RealtimeAssumption DEF TypeOK
<1> USE <1>0
<1>b. stream \in [Conns -> {"free", "handler", "sub", "ping", "announce", "error"}]
  BY DEF TypeOK
<1> USE <1>b
<1>1. ASSUME
             \/ Activate \/ Commit
      PROVE  Locked'
  BY <1>1 DEF Activate, Commit, Locked, SubsOf, WellFormedSubs, Used
<1>2. ASSUME NEW k \in 1 .. MaxSwitches, ReconnectAll(k)
      PROVE  Locked'
  BY <1>2 DEF ReconnectAll, Locked, SubsOf, WellFormedSubs, Used
<1>3. ASSUME NEW k \in 1 .. MaxSwitches, NEW x \in Subs, CancelSub(k, x)
      PROVE  Locked'
  BY <1>3 DEF CancelSub, Locked, SubsOf, WellFormedSubs, Used, Hang,
     Subscriptions, Handlers
<1>4. ASSUME NEW k \in 1 .. MaxSwitches, NEW c \in Sessions, CancelSession(k, c)
      PROVE  Locked'
  BY <1>4
     DEF CancelSession, Locked, SubsOf, WellFormedSubs, Used, Hang, Handlers
<1>5. ASSUME NEW w \in 1 .. MaxWrites, InvalidateAll(w)
      PROVE  Locked'
  BY <1>5 DEF InvalidateAll, Locked, SubsOf, WellFormedSubs, Used
<1>6. ASSUME NEW w \in 1 .. MaxWrites, NEW x \in Subs, Notify(w, x)
      PROVE  Locked'
  BY <1>6 DEF Notify, Locked, SubsOf, WellFormedSubs, Used, Subscriptions
<1>7. ASSUME NEW c \in Conns, Admit(c)
      PROVE  Locked'
  BY <1>7 DEF Admit, Locked, SubsOf, WellFormedSubs, Used, NoConn, Handlers
<1>8. ASSUME NEW c \in Conns, Disconnect(c)
      PROVE  Locked'
  BY <1>8 DEF Disconnect, Locked, SubsOf, WellFormedSubs, Used, Hang, Handlers
<1>9. ASSUME NEW c \in Conns, Reject(c)
      PROVE  Locked'
  BY <1>9
     DEF Reject, Locked, SubsOf, WellFormedSubs, Used, Leave, NoConn, Handlers
<1>10. ASSUME NEW c \in Conns, BeginPing(c)
      PROVE  Locked'
  BY <1>10 DEF BeginPing, Locked, SubsOf, WellFormedSubs, Used
<1>11. ASSUME NEW c \in Conns, ResolvePlain(c)
      PROVE  Locked'
  BY <1>11 DEF ResolvePlain, Locked, SubsOf, WellFormedSubs, Used, Handlers
<1>12. ASSUME NEW c \in Conns, RegisterPlain(c)
      PROVE  Locked'
  <2>1. /\ \A d \in Conns \ {c} : conn'[d].pc = conn[d].pc
        /\ c \in Plains /\ conn[c].pc = "resolved" /\ UNCHANGED <<stream, call>>
    BY <1>12 DEF RegisterPlain, Leave
  <2>2. \A y \in Subs : \/ sub'[y] = sub[y]
                        \/ sub[y].pc = "free" /\ sub'[y].pc = "new" /\ sub'[y].conn = c
    <3>1. CASE Fence(conn[c].gen)
      <4>1. PICK x \in Subs : /\ sub' = [sub EXCEPT ![x] = Subscription(c, None, conn[c].snap)]
                              /\ sub[x].pc = "free"
        BY <1>12, <3>1 DEF RegisterPlain, IsNext, Unused
      <4>2. QED
        BY <4>1 DEF Subscription, NoSub
    <3>2. CASE ~Fence(conn[c].gen)
      BY <1>12, <3>2 DEF RegisterPlain
    <3>3. QED
      BY <3>1, <3>2
  <2>3. stream[c] \notin {"handler", "ping", "sub"}
    BY <2>1 DEF Locked, SubsOf, WellFormedSubs
  <2>4. ASSUME NEW d \in Conns, stream[d] = "sub"
        PROVE  \E x \in Subs : sub'[x].conn = d /\ sub'[x].pc = "write"
    BY <2>2, <2>4 DEF Locked, SubsOf
  <2>5. /\ \A x \in Subs : sub'[x].pc = "write" => sub[x].pc = "write" /\ sub'[x] = sub[x]
        /\ \A x \in Subs : sub'[x].conn # c => sub'[x] = sub[x]
    BY <2>2
  <2>6. QED
    BY <2>1, <2>3, <2>4, <2>5 DEF Locked, SubsOf
<1>13. ASSUME NEW c \in Conns, RegisterSession(c)
      PROVE  Locked'
  <2>1. stream[c] = "free" /\ UNCHANGED <<sub, call, stream>>
    BY <1>13, Unheld DEF RegisterSession
  <2>2. \A d \in Conns : d # c => conn'[d] = conn[d]
    BY <1>13 DEF RegisterSession, Leave
  <2>3. QED
    BY <2>1, <2>2 DEF Locked, SubsOf
<1>14. ASSUME NEW c \in Conns, BeginOpen(c)
      PROVE  Locked'
  BY <1>14 DEF BeginOpen, Locked, SubsOf, WellFormedSubs, Used
<1>15. ASSUME NEW c \in Conns, EndOpen(c)
      PROVE  Locked'
  BY <1>15 DEF EndOpen, Locked, SubsOf, WellFormedSubs, Used, Started,
     Subscriptions, Handlers
<1>16. ASSUME NEW c \in Conns, SkipOpen(c)
      PROVE  Locked'
  BY <1>16 DEF SkipOpen, Locked, SubsOf, WellFormedSubs, Used, Started,
     Subscriptions, Handlers
<1>17. ASSUME NEW c \in Conns, EndPing(c)
      PROVE  Locked'
  BY <1>17 DEF EndPing, Locked, SubsOf, WellFormedSubs, Used, Hang, Delivered,
     Broken, Handlers
<1>18. ASSUME NEW c \in Conns, Unlist(c)
      PROVE  Locked'
  BY <1>18 DEF Unlist, Locked, SubsOf, WellFormedSubs, Used, Handlers
<1>19. ASSUME NEW c \in Conns, CloseSession(c)
      PROVE  Locked'
  BY <1>19 DEF CloseSession, Locked, SubsOf, WellFormedSubs, Used, Handlers
<1>20. ASSUME NEW c \in Conns, ReturnSession(c)
      PROVE  Locked'
  BY <1>20 DEF ReturnSession, Locked, SubsOf, WellFormedSubs, Used, Leave,
     NoConn, Handlers
<1>21. ASSUME NEW c \in Conns, ReturnPlain(c)
      PROVE  Locked'
  <2>1. /\ \A d \in Conns \ {c} : conn'[d].pc = conn[d].pc
        /\ c \in Plains /\ conn[c].pc = "serving" /\ UNCHANGED <<stream, call>>
    BY <1>21 DEF ReturnPlain, Leave
  <2>2. \A y \in Subs : IF sub[y].conn = c THEN /\ sub[y].pc = "ended" /\ sub'[y].pc = "done"
                                                /\ sub'[y].conn = c
                                           ELSE sub'[y] = sub[y]
    BY <1>21 DEF ReturnPlain, Dropped, Gone, SubsOf, NoSub
  <2>3. stream[c] \notin {"handler", "ping", "sub"}
    <3>1. PICK y \in Subs : sub[y].conn = c
      BY <2>1 DEF WellFormedSubs
    <3>2. QED
      BY <2>1, <2>2, <3>1 DEF Locked, SubsOf
  <2>4. ASSUME NEW d \in Conns, stream[d] = "sub"
        PROVE  \E x \in Subs : sub'[x].conn = d /\ sub'[x].pc = "write"
    BY <2>2, <2>4 DEF Locked, SubsOf
  <2>5. /\ \A x \in Subs : sub'[x].pc = "write" => sub[x].pc = "write" /\ sub'[x] = sub[x]
        /\ \A x \in Subs : sub'[x].conn # c => sub'[x] = sub[x]
    BY <2>2
  <2>6. QED
    BY <2>1, <2>3, <2>4, <2>5 DEF Locked, SubsOf
<1>22. ASSUME NEW c \in Sessions, NEW r \in Requests, FindSession(c, r)
      PROVE  Locked'
  BY <1>22
     DEF FindSession, Locked, SubsOf, WellFormedSubs, Used, NoCall, Controls
<1>23. ASSUME NEW c \in Sessions, AdmitCall(c)
      PROVE  Locked'
  BY <1>23 DEF AdmitCall, Locked, SubsOf, WellFormedSubs, Used, Controls
<1>24. ASSUME NEW c \in Sessions, CancelRemoved(c)
      PROVE  Locked'
  BY <1>24 DEF CancelRemoved, Locked, SubsOf, WellFormedSubs, Used,
     Subscriptions, Controls
<1>25. ASSUME NEW c \in Sessions, NEW i \in Ids, Remove(c, i)
      PROVE  Locked'
  BY <1>25 DEF Remove, Locked, SubsOf, WellFormedSubs, Used, Controls
<1>26. ASSUME NEW c \in Sessions, NEW i \in Ids, Resolve(c, i)
      PROVE  Locked'
  BY <1>26 DEF Resolve, Locked, SubsOf, WellFormedSubs, Used, Controls
<1>27. ASSUME NEW c \in Sessions, AddRefused(c)
      PROVE  Locked'
  BY <1>27 DEF AddRefused, Locked, SubsOf, WellFormedSubs, Used, Hang, Fence,
     Closed, NoCall, Handlers, Controls
<1>28. ASSUME NEW c \in Sessions, AddSkipped(c)
      PROVE  Locked'
  <2>1. /\ \A d \in Sessions \ {c} : call'[d] = call[d]
        /\ call[c].pc = "add" /\ UNCHANGED <<conn, sub, stream>>
    BY <1>28 DEF AddSkipped, AddTo
  <2>2. stream[c] \notin {"announce", "error"}
    BY <2>1 DEF Locked
  <2>3. QED
    BY <2>1, <2>2, LockedKept
<1>29. ASSUME NEW c \in Sessions, Add(c)
      PROVE  Locked'
  BY <1>29 DEF Add, Locked, SubsOf, WellFormedSubs, Used, IsNext, Unused, Fence,
     Subscription, Enlist, Closed, NoSub, Subscriptions, Controls
<1>30. ASSUME NEW c \in Sessions, BeginAnnounce(c)
      PROVE  Locked'
  BY <1>30 DEF BeginAnnounce, Locked, SubsOf, WellFormedSubs, Used
<1>31. ASSUME NEW c \in Sessions, EndAnnounce(c)
      PROVE  Locked'
  <2>1. /\ \A d \in Sessions \ {c} : call'[d] = call[d]
        /\ stream[c] = "announce" /\ stream' = [stream EXCEPT ![c] = "free"]
    BY <1>31 DEF EndAnnounce, Launch
  <2>2. \A d \in Conns : conn'[d].pc = conn[d].pc
    BY <1>31, Hung DEF EndAnnounce
  <2>3. \A y \in Subs : /\ sub'[y].conn = sub[y].conn
                        /\ \/ sub'[y].pc = sub[y].pc
                           \/ sub[y].pc = "new" /\ sub'[y].pc = "ready"
    BY <1>31 DEF EndAnnounce, Launch, WellFormedCalls, Subscriptions
  <2>4. ASSUME NEW d \in Conns \ {c}
        PROVE  /\ stream[d] = "sub" => \E x \in Subs : sub'[x].conn = d /\ sub'[x].pc = "write"
               /\ stream[d] = "ping" /\ d \in Plains =>
                    \A x \in Subs : sub'[x].conn = d => sub'[x].pc = "wait"
    BY <2>3 DEF Locked, SubsOf
  <2>5. \A x \in Subs : sub'[x].pc = "write" => sub[x].pc = "write"
    BY <2>3
  <2>6. \A x \in Subs : sub'[x].pc = "write" => sub'[x].conn \in Conns \ {c}
    BY <2>1, <2>3, <2>5 DEF Locked, WellFormedSubs, Used
  <2>7. QED
    BY <2>1, <2>2, <2>3, <2>4, <2>5, <2>6 DEF Locked, SubsOf
<1>32. ASSUME NEW c \in Sessions, SkipAnnounce(c)
      PROVE  Locked'
  <2>1. /\ \A d \in Sessions \ {c} : call'[d] = call[d]
        /\ stream[c] = "free" /\ UNCHANGED <<conn, stream>>
    BY <1>32 DEF SkipAnnounce, Launch
  <2>2. \A y \in Subs : /\ sub'[y].conn = sub[y].conn
                        /\ \/ sub'[y].pc = sub[y].pc
                           \/ sub[y].pc = "new" /\ sub'[y].pc = "ready"
    BY <1>32 DEF SkipAnnounce, Launch, WellFormedCalls, Subscriptions
  <2>3. QED
    BY <2>1, <2>2, LockedKept
<1>33. ASSUME NEW c \in Sessions, BeginError(c)
      PROVE  Locked'
  BY <1>33 DEF BeginError, Locked, SubsOf, WellFormedSubs, Used
<1>34. ASSUME NEW c \in Sessions, EndError(c)
      PROVE  Locked'
  BY <1>34 DEF EndError, Locked, SubsOf, WellFormedSubs, Used, Hang, Delivered,
     Broken, AddTo, Handlers, Controls
<1>35. ASSUME NEW c \in Sessions, SkipError(c)
      PROVE  Locked'
  BY <1>35 DEF SkipError, Locked, SubsOf, WellFormedSubs, Used, AddTo, Controls
<1>36. ASSUME NEW c \in Sessions, Reply(c)
      PROVE  Locked'
  BY <1>36 DEF Reply, Locked, SubsOf, WellFormedSubs, Used, NoCall, Controls
<1>37. ASSUME NEW x \in Subs, Acquire(x)
      PROVE  Locked'
  BY <1>37 DEF Acquire, Locked, SubsOf, WellFormedSubs, Used, Subscriptions
<1>38. ASSUME NEW x \in Subs, GiveUp(x)
      PROVE  Locked'
  BY <1>38 DEF GiveUp, Locked, SubsOf, WellFormedSubs, Used, Subscriptions
<1>39. ASSUME NEW x \in Subs, Invoke(x)
      PROVE  Locked'
  <2>1. \A y \in Subs : /\ sub'[y].conn = sub[y].conn
                        /\ \/ sub'[y].pc = sub[y].pc
                           \/ sub[y].pc = "query" /\ sub'[y].pc = "result"
    BY <1>39 DEF Invoke, Subscriptions
  <2>2. UNCHANGED <<conn, call, stream>>
    BY <1>39 DEF Invoke
  <2>3. QED
    BY <2>1, <2>2, LockedKept
<1>40. ASSUME NEW x \in Subs, Compare(x)
      PROVE  Locked'
  <2>1. \A y \in Subs : /\ sub'[y].conn = sub[y].conn
                        /\ \/ sub'[y].pc = sub[y].pc
                           \/ sub[y].pc = "result" /\ sub'[y].pc \in {"send", "wait"}
    BY <1>40 DEF Compare, Subscriptions
  <2>2. UNCHANGED <<conn, call, stream>>
    BY <1>40 DEF Compare
  <2>3. QED
    BY <2>1, <2>2, LockedKept
<1>41. ASSUME NEW x \in Subs, BeginWrite(x)
      PROVE  Locked'
  BY <1>41 DEF BeginWrite, Locked, SubsOf, WellFormedSubs, Used, Subscriptions
<1>42. ASSUME NEW x \in Subs, EndWrite(x)
      PROVE  Locked'
  BY <1>42 DEF EndWrite, Locked, SubsOf, WellFormedSubs, Used, Hang, Delivered,
     Broken, Subscriptions, Handlers
<1>43. ASSUME NEW x \in Subs, SkipWrite(x)
      PROVE  Locked'
  BY <1>43 DEF SkipWrite, Locked, SubsOf, WellFormedSubs, Used, Subscriptions
<1>44. ASSUME NEW x \in Subs, Notice(x)
      PROVE  Locked'
  BY <1>44
     DEF Notice, Locked, SubsOf, WellFormedSubs, Used, Waiting, Subscriptions
<1>45. ASSUME NEW x \in Subs, Stop(x)
      PROVE  Locked'
  BY <1>45
     DEF Stop, Locked, SubsOf, WellFormedSubs, Used, Waiting, Subscriptions
<1>46. ASSUME NEW x \in Subs, Unsubscribe(x)
      PROVE  Locked'
  BY <1>46 DEF Unsubscribe, Locked, SubsOf, WellFormedSubs, Used, Subscriptions
<1>47. ASSUME NEW x \in Subs, Forget(x)
      PROVE  Locked'
  <2>1. \A y \in Subs : /\ sub'[y].conn = sub[y].conn
                        /\ \/ sub'[y].pc = sub[y].pc
                           \/ sub[y].pc = "left" /\ sub'[y].pc = "done"
    BY <1>47 DEF Forget, Dropped, Gone, NoSub
  <2>2. UNCHANGED <<conn, call, stream>>
    BY <1>47 DEF Forget
  <2>3. QED
    BY <2>1, <2>2, LockedKept
<1>48. CASE UNCHANGED vars
  BY <1>48 DEF vars, Locked, SubsOf, WellFormedSubs, Used
<1> QED
  BY <1>1, <1>2, <1>3, <1>4, <1>5, <1>6, <1>7, <1>8, <1>9, <1>10, <1>11, <1>12,
     <1>13, <1>14, <1>15, <1>16, <1>17, <1>18, <1>19, <1>20, <1>21, <1>22,
     <1>23, <1>24, <1>25, <1>26, <1>27, <1>28, <1>29, <1>30, <1>31, <1>32,
     <1>33, <1>34, <1>35, <1>36, <1>37, <1>38, <1>39, <1>40, <1>41, <1>42,
     <1>43, <1>44, <1>45, <1>46, <1>47, <1>48 DEF Next, Broadcast, Client,
     Handle, HandleSessionControl, Run, Serve, Finished

(* A request that announces a subscription does so before the handler returns. *)
LEMMA Announcing ==
  ASSUME TypeOK, WellFormedCalls, NothingOutlivesHandler, NEW c \in Sessions,
         call[c].pc = "announce"
  PROVE  conn[c].pc # "returned"
  BY DEF WellFormedCalls, NothingOutlivesHandler, HandlerAt, SubsOf, At, Conns

(* Goroutines that move on elsewhere do not outlive what they did not before. *)
LEMMA OutliveKept ==
  ASSUME NothingOutlivesHandler, UNCHANGED <<registered, stream>>,
         \A d \in Conns : conn'[d].pc = conn[d].pc,
         \A y \in Subs : /\ sub'[y].conn = sub[y].conn
                         /\ sub[y].pc = "done" => sub'[y].pc = "done"
  PROVE  NothingOutlivesHandler'
BY DEF NothingOutlivesHandler, HandlerAt, SubsOf, At

LEMMA OutliveStep ==
  ASSUME TypeOK, WellFormedCalls, WellFormedSubs, Locked, NothingOutlivesHandler, [Next]_vars
  PROVE  NothingOutlivesHandler'
<1> USE DEF switchVars, dataVars, broadcastVars, envVars, callVars, clientVars,
   At, HandlerAt, CallAt, StreamOf, Goto, Lock, Unlock, Conns
<1>0. /\ sub \in [Subs -> Subscriptions] /\ conn \in [Conns -> Handlers]
      /\ call \in [Sessions -> Controls]
      /\ listed \in [Sessions -> [Ids -> Subs \cup {None}]]
      /\ Sessions \cap Plains = {} /\ None \notin Conns \cup Ids \cup Int
  BY RealtimeAssumption DEF TypeOK
<1> USE <1>0
<1>b. stream \in [Conns -> {"free", "handler", "sub", "ping", "announce", "error"}]
  BY DEF TypeOK
<1> USE <1>b
<1>1. ASSUME
             \/ Activate \/ Commit
      PROVE  NothingOutlivesHandler'
  BY <1>1
     DEF Activate, Commit, NothingOutlivesHandler, SubsOf, WellFormedSubs, Used
<1>2. ASSUME NEW k \in 1 .. MaxSwitches, ReconnectAll(k)
      PROVE  NothingOutlivesHandler'
  BY <1>2 DEF ReconnectAll, NothingOutlivesHandler, SubsOf, WellFormedSubs, Used
<1>3. ASSUME NEW k \in 1 .. MaxSwitches, NEW x \in Subs, CancelSub(k, x)
      PROVE  NothingOutlivesHandler'
  <2>1. UNCHANGED <<registered, stream>>
    BY <1>3 DEF CancelSub
  <2>2. \A d \in Conns : conn'[d].pc = conn[d].pc
    <3>1. (StreamOf(x) \in Plains /\ Hang(StreamOf(x))) \/ UNCHANGED conn
      BY <1>3 DEF CancelSub
    <3>2. QED
      BY <3>1, Hung
  <2>3. \A y \in Subs : sub'[y].conn = sub[y].conn /\ sub'[y].pc = sub[y].pc
    BY <1>3 DEF CancelSub, Subscriptions
  <2>4. QED
    BY <2>1, <2>2, <2>3, OutliveKept
<1>4. ASSUME NEW k \in 1 .. MaxSwitches, NEW c \in Sessions, CancelSession(k, c)
      PROVE  NothingOutlivesHandler'
  BY <1>4 DEF CancelSession, NothingOutlivesHandler, SubsOf, WellFormedSubs,
     Used, Hang, Handlers
<1>5. ASSUME NEW w \in 1 .. MaxWrites, InvalidateAll(w)
      PROVE  NothingOutlivesHandler'
  BY <1>5
     DEF InvalidateAll, NothingOutlivesHandler, SubsOf, WellFormedSubs, Used
<1>6. ASSUME NEW w \in 1 .. MaxWrites, NEW x \in Subs, Notify(w, x)
      PROVE  NothingOutlivesHandler'
  BY <1>6 DEF Notify, NothingOutlivesHandler, SubsOf, WellFormedSubs, Used,
     Subscriptions
<1>7. ASSUME NEW c \in Conns, Admit(c)
      PROVE  NothingOutlivesHandler'
  BY <1>7 DEF Admit, NothingOutlivesHandler, SubsOf, WellFormedSubs, Used,
     NoConn, Handlers
<1>8. ASSUME NEW c \in Conns, Disconnect(c)
      PROVE  NothingOutlivesHandler'
  BY <1>8 DEF Disconnect, NothingOutlivesHandler, SubsOf, WellFormedSubs, Used,
     Hang, Handlers
<1>9. ASSUME NEW c \in Conns, Reject(c)
      PROVE  NothingOutlivesHandler'
  <2>1. /\ \A d \in Conns \ {c} : conn'[d] = conn[d]
        /\ conn[c].pc \in {"admitted", "resolved"} /\ UNCHANGED <<sub, registered, stream>>
    BY <1>9 DEF Reject, Leave
  <2>2. SubsOf(c) = {} /\ stream[c] = "free"
    BY <2>1, Unheld
  <2>3. QED
    BY <2>1, <2>2 DEF NothingOutlivesHandler, SubsOf
<1>10. ASSUME NEW c \in Conns, BeginPing(c)
      PROVE  NothingOutlivesHandler'
  BY <1>10 DEF BeginPing, NothingOutlivesHandler, SubsOf, WellFormedSubs, Used
<1>11. ASSUME NEW c \in Conns, ResolvePlain(c)
      PROVE  NothingOutlivesHandler'
  BY <1>11 DEF ResolvePlain, NothingOutlivesHandler, SubsOf, WellFormedSubs,
     Used, Handlers
<1>12. ASSUME NEW c \in Conns, RegisterPlain(c)
      PROVE  NothingOutlivesHandler'
  <2>1. CASE Fence(conn[c].gen)
    <3>1. PICK x \in Subs :
            /\ sub' = [sub EXCEPT ![x] = Subscription(c, None, conn[c].snap)]
            /\ registered' = registered \cup {x}
      BY <1>12, <2>1 DEF RegisterPlain
    <3>2. /\ \A d \in Conns : conn'[d].pc = IF d = c THEN "open" ELSE conn[d].pc
          /\ UNCHANGED stream
      BY <1>12, <2>1 DEF RegisterPlain, Handlers
    <3>3. sub'[x].conn = c /\ \A y \in Subs \ {x} : sub'[y] = sub[y]
      BY <3>1 DEF Subscription, NoSub
    <3>4. QED
      BY <3>1, <3>2, <3>3 DEF NothingOutlivesHandler, SubsOf
  <2>2. CASE ~Fence(conn[c].gen)
    <3>1. /\ \A d \in Conns \ {c} : conn'[d] = conn[d]
          /\ conn[c].pc \in {"admitted", "resolved"} /\ UNCHANGED <<sub, registered, stream>>
      BY <1>12, <2>2 DEF RegisterPlain, Leave
    <3>2. SubsOf(c) = {} /\ stream[c] = "free"
      BY <3>1, Unheld
    <3>3. QED
      BY <3>1, <3>2 DEF NothingOutlivesHandler, SubsOf
  <2>3. QED
    BY <2>1, <2>2
<1>13. ASSUME NEW c \in Conns, RegisterSession(c)
      PROVE  NothingOutlivesHandler'
  <2>1. CASE Fence(conn[c].gen)
    <3>1. /\ \A d \in Conns : conn'[d].pc = IF d = c THEN "open" ELSE conn[d].pc
          /\ UNCHANGED <<sub, registered, stream>>
      BY <1>13, <2>1 DEF RegisterSession, Handlers
    <3>2. QED
      BY <3>1 DEF NothingOutlivesHandler, SubsOf
  <2>2. CASE ~Fence(conn[c].gen)
    <3>1. /\ \A d \in Conns \ {c} : conn'[d] = conn[d]
          /\ conn[c].pc \in {"admitted", "resolved"} /\ UNCHANGED <<sub, registered, stream>>
      BY <1>13, <2>2 DEF RegisterSession, Leave
    <3>2. SubsOf(c) = {} /\ stream[c] = "free"
      BY <3>1, Unheld
    <3>3. QED
      BY <3>1, <3>2 DEF NothingOutlivesHandler, SubsOf
  <2>3. QED
    BY <2>1, <2>2
<1>14. ASSUME NEW c \in Conns, BeginOpen(c)
      PROVE  NothingOutlivesHandler'
  BY <1>14 DEF BeginOpen, NothingOutlivesHandler, SubsOf, WellFormedSubs, Used
<1>15. ASSUME NEW c \in Conns, EndOpen(c)
      PROVE  NothingOutlivesHandler'
  BY <1>15 DEF EndOpen, NothingOutlivesHandler, SubsOf, WellFormedSubs, Used,
     Started, Subscriptions, Handlers
<1>16. ASSUME NEW c \in Conns, SkipOpen(c)
      PROVE  NothingOutlivesHandler'
  BY <1>16 DEF SkipOpen, NothingOutlivesHandler, SubsOf, WellFormedSubs, Used,
     Started, Subscriptions, Handlers
<1>17. ASSUME NEW c \in Conns, EndPing(c)
      PROVE  NothingOutlivesHandler'
  BY <1>17 DEF EndPing, NothingOutlivesHandler, SubsOf, WellFormedSubs, Used,
     Hang, Delivered, Broken, Handlers
<1>18. ASSUME NEW c \in Conns, Unlist(c)
      PROVE  NothingOutlivesHandler'
  BY <1>18
     DEF Unlist, NothingOutlivesHandler, SubsOf, WellFormedSubs, Used, Handlers
<1>19. ASSUME NEW c \in Conns, CloseSession(c)
      PROVE  NothingOutlivesHandler'
  BY <1>19 DEF CloseSession, NothingOutlivesHandler, SubsOf, WellFormedSubs,
     Used, Handlers
<1>20. ASSUME NEW c \in Conns, ReturnSession(c)
      PROVE  NothingOutlivesHandler'
  <2>1. /\ \A d \in Conns \ {c} : conn'[d] = conn[d]
        /\ conn[c].pc = "waiting" /\ UNCHANGED <<sub, registered, stream>>
        /\ \A x \in SubsOf(c) : sub[x].pc = "done"
    BY <1>20 DEF ReturnSession, Leave
  <2>2. stream[c] \in {"free", "error"}
    <3>1. stream[c] \notin {"handler", "ping", "sub"}
      BY <2>1 DEF Locked
    <3>2. stream[c] # "announce"
      BY <2>1 DEF Locked, WellFormedCalls, SubsOf
    <3>3. QED
      BY <3>1, <3>2
  <2>3. \A x \in SubsOf(c) : x \notin registered
    BY <2>1 DEF WellFormedSubs, SubsOf
  <2>4. QED
    BY <2>1, <2>2, <2>3 DEF NothingOutlivesHandler, SubsOf
<1>21. ASSUME NEW c \in Conns, ReturnPlain(c)
      PROVE  NothingOutlivesHandler'
  <2>1. /\ \A d \in Conns \ {c} : conn'[d] = conn[d]
        /\ c \in Plains /\ conn[c].pc = "serving" /\ UNCHANGED stream
        /\ registered' = registered \ SubsOf(c)
    BY <1>21 DEF ReturnPlain, Leave
  <2>2. \A y \in Subs : IF sub[y].conn = c THEN /\ sub[y].pc = "ended" /\ sub'[y].pc = "done"
                                                /\ sub'[y].conn = c
                                           ELSE sub'[y] = sub[y]
    BY <1>21 DEF ReturnPlain, Dropped, Gone, SubsOf, NoSub
  <2>3. stream[c] \in {"free", "error"}
    <3>1. PICK y \in Subs : sub[y].conn = c
      BY <2>1 DEF WellFormedSubs
    <3>2. stream[c] \notin {"handler", "ping", "sub", "announce"}
      BY <2>1, <2>2, <3>1 DEF Locked, SubsOf
    <3>3. QED
      BY <3>2
  <2>4. QED
    BY <2>1, <2>2, <2>3 DEF NothingOutlivesHandler, SubsOf
<1>22. ASSUME NEW c \in Sessions, NEW r \in Requests, FindSession(c, r)
      PROVE  NothingOutlivesHandler'
  BY <1>22 DEF FindSession, NothingOutlivesHandler, SubsOf, WellFormedSubs,
     Used, NoCall, Controls
<1>23. ASSUME NEW c \in Sessions, AdmitCall(c)
      PROVE  NothingOutlivesHandler'
  BY <1>23 DEF AdmitCall, NothingOutlivesHandler, SubsOf, WellFormedSubs, Used,
     Controls
<1>24. ASSUME NEW c \in Sessions, CancelRemoved(c)
      PROVE  NothingOutlivesHandler'
  BY <1>24 DEF CancelRemoved, NothingOutlivesHandler, SubsOf, WellFormedSubs,
     Used, Subscriptions, Controls
<1>25. ASSUME NEW c \in Sessions, NEW i \in Ids, Remove(c, i)
      PROVE  NothingOutlivesHandler'
  BY <1>25
     DEF Remove, NothingOutlivesHandler, SubsOf, WellFormedSubs, Used, Controls
<1>26. ASSUME NEW c \in Sessions, NEW i \in Ids, Resolve(c, i)
      PROVE  NothingOutlivesHandler'
  BY <1>26 DEF Resolve, NothingOutlivesHandler, SubsOf, WellFormedSubs, Used,
     Controls
<1>27. ASSUME NEW c \in Sessions, AddRefused(c)
      PROVE  NothingOutlivesHandler'
  <2>1. \A d \in Conns : conn'[d].pc = conn[d].pc
    BY <1>27, Hung DEF AddRefused
  <2>2. UNCHANGED <<sub, registered, stream>>
    BY <1>27 DEF AddRefused
  <2>3. QED
    BY <2>1, <2>2 DEF NothingOutlivesHandler, SubsOf
<1>28. ASSUME NEW c \in Sessions, AddSkipped(c)
      PROVE  NothingOutlivesHandler'
  BY <1>28 DEF AddSkipped, NothingOutlivesHandler, SubsOf, WellFormedSubs, Used,
     AddTo, Closed, Controls
<1>29. ASSUME NEW c \in Sessions, Add(c)
      PROVE  NothingOutlivesHandler'
  BY <1>29 DEF Add, NothingOutlivesHandler, SubsOf, WellFormedSubs, Used,
     IsNext, Unused, Fence, Subscription, Enlist, Closed, NoSub, Subscriptions,
     Controls
<1>30. ASSUME NEW c \in Sessions, BeginAnnounce(c)
      PROVE  NothingOutlivesHandler'
  <2>1. conn[c].pc # "returned"
    BY <1>30, Announcing DEF BeginAnnounce
  <2>2. QED
    BY <1>30, <2>1 DEF BeginAnnounce, NothingOutlivesHandler, SubsOf
<1>31. ASSUME NEW c \in Sessions, EndAnnounce(c)
      PROVE  NothingOutlivesHandler'
  <2>1. conn[c].pc # "returned"
    BY <1>31, Announcing DEF EndAnnounce
  <2>2. \A d \in Conns : conn'[d].pc = conn[d].pc
    BY <1>31, Hung DEF EndAnnounce
  <2>3. \A y \in Subs : /\ sub'[y].conn = sub[y].conn
                        /\ sub'[y].pc = sub[y].pc \/ sub[y].conn = c
    BY <1>31 DEF EndAnnounce, Launch, WellFormedCalls, Subscriptions
  <2>4. /\ UNCHANGED registered
        /\ \A d \in Conns \ {c} : stream'[d] = stream[d]
    BY <1>31 DEF EndAnnounce
  <2>5. QED
    BY <2>1, <2>2, <2>3, <2>4 DEF NothingOutlivesHandler, SubsOf
<1>32. ASSUME NEW c \in Sessions, SkipAnnounce(c)
      PROVE  NothingOutlivesHandler'
  <2>1. conn[c].pc # "returned"
    BY <1>32, Announcing DEF SkipAnnounce
  <2>2. \A d \in Conns : conn'[d].pc = conn[d].pc
    BY <1>32 DEF SkipAnnounce
  <2>3. \A y \in Subs : /\ sub'[y].conn = sub[y].conn
                        /\ sub'[y].pc = sub[y].pc \/ sub[y].conn = c
    BY <1>32 DEF SkipAnnounce, Launch, WellFormedCalls, Subscriptions
  <2>4. /\ UNCHANGED registered
        /\ \A d \in Conns \ {c} : stream'[d] = stream[d]
    BY <1>32 DEF SkipAnnounce
  <2>5. QED
    BY <2>1, <2>2, <2>3, <2>4 DEF NothingOutlivesHandler, SubsOf
<1>33. ASSUME NEW c \in Sessions, BeginError(c)
      PROVE  NothingOutlivesHandler'
  BY <1>33 DEF BeginError, NothingOutlivesHandler, SubsOf, WellFormedSubs, Used
<1>34. ASSUME NEW c \in Sessions, EndError(c)
      PROVE  NothingOutlivesHandler'
  BY <1>34 DEF EndError, NothingOutlivesHandler, SubsOf, WellFormedSubs, Used,
     Hang, Delivered, Broken, AddTo, Handlers, Controls
<1>35. ASSUME NEW c \in Sessions, SkipError(c)
      PROVE  NothingOutlivesHandler'
  BY <1>35 DEF SkipError, NothingOutlivesHandler, SubsOf, WellFormedSubs, Used,
     AddTo, Controls
<1>36. ASSUME NEW c \in Sessions, Reply(c)
      PROVE  NothingOutlivesHandler'
  BY <1>36 DEF Reply, NothingOutlivesHandler, SubsOf, WellFormedSubs, Used,
     NoCall, Controls
<1>37. ASSUME NEW x \in Subs, Acquire(x)
      PROVE  NothingOutlivesHandler'
  BY <1>37 DEF Acquire, NothingOutlivesHandler, SubsOf, WellFormedSubs, Used,
     Subscriptions
<1>38. ASSUME NEW x \in Subs, GiveUp(x)
      PROVE  NothingOutlivesHandler'
  BY <1>38 DEF GiveUp, NothingOutlivesHandler, SubsOf, WellFormedSubs, Used,
     Subscriptions
<1>39. ASSUME NEW x \in Subs, Invoke(x)
      PROVE  NothingOutlivesHandler'
  <2>1. UNCHANGED <<registered, conn, stream>>
    BY <1>39 DEF Invoke
  <2>2. \A y \in Subs : /\ sub'[y].conn = sub[y].conn
                        /\ sub[y].pc = "done" => sub'[y].pc = "done"
    <3>1. \A y \in Subs : y # x => sub'[y] = sub[y]
      BY <1>39 DEF Invoke
    <3>2. sub[x].pc # "done" /\ sub'[x].conn = sub[x].conn
      BY <1>39 DEF Invoke, Subscriptions
    <3>3. QED
      BY <3>1, <3>2
  <2>3. QED
    BY <2>1, <2>2, OutliveKept
<1>40. ASSUME NEW x \in Subs, Compare(x)
      PROVE  NothingOutlivesHandler'
  BY <1>40 DEF Compare, NothingOutlivesHandler, SubsOf, WellFormedSubs, Used,
     Subscriptions
<1>41. ASSUME NEW x \in Subs, BeginWrite(x)
      PROVE  NothingOutlivesHandler'
  BY <1>41 DEF BeginWrite, NothingOutlivesHandler, SubsOf, WellFormedSubs, Used,
     Subscriptions
<1>42. ASSUME NEW x \in Subs, EndWrite(x)
      PROVE  NothingOutlivesHandler'
  BY <1>42 DEF EndWrite, NothingOutlivesHandler, SubsOf, WellFormedSubs, Used,
     Hang, Delivered, Broken, Subscriptions, Handlers
<1>43. ASSUME NEW x \in Subs, SkipWrite(x)
      PROVE  NothingOutlivesHandler'
  BY <1>43 DEF SkipWrite, NothingOutlivesHandler, SubsOf, WellFormedSubs, Used,
     Subscriptions
<1>44. ASSUME NEW x \in Subs, Notice(x)
      PROVE  NothingOutlivesHandler'
  BY <1>44 DEF Notice, NothingOutlivesHandler, SubsOf, WellFormedSubs, Used,
     Waiting, Subscriptions
<1>45. ASSUME NEW x \in Subs, Stop(x)
      PROVE  NothingOutlivesHandler'
  BY <1>45 DEF Stop, NothingOutlivesHandler, SubsOf, WellFormedSubs, Used,
     Waiting, Subscriptions
<1>46. ASSUME NEW x \in Subs, Unsubscribe(x)
      PROVE  NothingOutlivesHandler'
  BY <1>46 DEF Unsubscribe, NothingOutlivesHandler, SubsOf, WellFormedSubs,
     Used, Subscriptions
<1>47. ASSUME NEW x \in Subs, Forget(x)
      PROVE  NothingOutlivesHandler'
  BY <1>47 DEF Forget, NothingOutlivesHandler, SubsOf, WellFormedSubs, Used,
     Gone, Dropped, NoSub, Subscriptions
<1>48. CASE UNCHANGED vars
  BY <1>48 DEF vars, NothingOutlivesHandler, SubsOf, WellFormedSubs, Used
<1> QED
  BY <1>1, <1>2, <1>3, <1>4, <1>5, <1>6, <1>7, <1>8, <1>9, <1>10, <1>11, <1>12,
     <1>13, <1>14, <1>15, <1>16, <1>17, <1>18, <1>19, <1>20, <1>21, <1>22,
     <1>23, <1>24, <1>25, <1>26, <1>27, <1>28, <1>29, <1>30, <1>31, <1>32,
     <1>33, <1>34, <1>35, <1>36, <1>37, <1>38, <1>39, <1>40, <1>41, <1>42,
     <1>43, <1>44, <1>45, <1>46, <1>47, <1>48 DEF Next, Broadcast, Client,
     Handle, HandleSessionControl, Run, Serve, Finished

----------------------------------------------------------------------------
(* A step that starts no goroutine and begins no write leaves the order of the
   subscriptions as it is. *)
Calm ==
    /\ \A x \in Subs :
         /\ sub[x].pc = "free" => sub'[x].pc = "free"
         /\ sub[x].pc = "new" => sub'[x].pc = "new"
         /\ sub'[x].pc = "write" => sub[x].pc = "write"
    /\ UNCHANGED shown

LEMMA SameIdBack ==
  ASSUME TypeOK, WellFormedCalls, WellFormedSubs, [Next]_vars, NEW x \in Subs, NEW y \in Subs,
         Used(x), Used(y), sub'[x].id = sub[x].id, sub[x].pc # "done",
         sub'[x].conn = sub'[y].conn, sub'[x].id = sub'[y].id
  PROVE  SameId(x, y)
<1>1. Lasting(x) /\ Lasting(y)
  BY SubsLast
<1>2. sub[x].conn = sub[y].conn
  BY <1>1 DEF Lasting
<1>3. CASE sub[x].conn \in Sessions
  <2>1. sub[x].id \in Ids /\ None \notin Ids
    BY <1>3, RealtimeAssumption DEF WellFormedSubs
  <2>2. sub'[y].id # None
    BY <2>1
  <2>3. sub'[y].id = sub[y].id
    BY <1>1, <2>2 DEF Lasting
  <2>4. QED
    BY <1>2, <2>3 DEF SameId
<1>4. CASE sub[x].conn \in Plains
  BY <1>1, <1>2, <1>4 DEF Lasting, SameId, WellFormedSubs
<1>5. QED
  BY <1>3, <1>4 DEF WellFormedSubs, Used, Conns

LEMMA OrderedKept ==
  ASSUME TypeOK, WellFormedCalls, WellFormedSubs, Ordered, [Next]_vars, Calm
  PROVE  Ordered'
<1>1. ASSUME NEW x \in Subs
      PROVE  Used(x) <=> sub'[x].pc # "free"
  <2>1. CASE Used(x)
    BY <2>1, SubsLast DEF Lasting
  <2>2. CASE ~Used(x)
    BY <2>2 DEF Calm, Used
  <2>3. QED
    BY <2>1, <2>2
<1>2. ASSUME NEW x \in Subs, NEW y \in Subs, x < y, Used(y), Live(x)',
             sub'[x].conn = sub'[y].conn, sub'[x].id = sub'[y].id
      PROVE  FALSE
  <2>1. Used(x)
    BY <1>2 DEF Ordered
  <2>2. Live(x) /\ sub'[x].id = sub[x].id
    BY <1>2, <2>1, LivesOn
  <2>3. SameId(x, y)
    BY <1>2, <2>1, <2>2, SameIdBack DEF WellFormedSubs, Live
  <2>4. QED
    BY <1>2, <2>2, <2>3 DEF Ordered
<1>3. ASSUME NEW x \in Subs, sub'[x].pc \notin {"free", "new"}, Live(x)'
      PROVE  x \in shown
  <2>1. Used(x) /\ sub[x].pc # "new"
    BY <1>1, <1>3 DEF Calm
  <2>2. Live(x)
    BY <1>3, <2>1, LivesOn
  <2>3. QED
    BY <2>1, <2>2 DEF Ordered, Used
<1>4. ASSUME NEW x \in Subs, sub'[x].pc = "write"
      PROVE  /\ x \in shown
             /\ \A y \in shown : y > x => ~(sub'[x].conn = sub'[y].conn /\ sub'[x].id = sub'[y].id)
  <2>1. sub[x].pc = "write" /\ Used(x)
    BY <1>4 DEF Calm, Used
  <2>2. sub'[x].id = sub[x].id
    BY <1>4, <2>1, SubsLast DEF Lasting
  <2>3. \A y \in shown : y \in Subs /\ Used(y)
    BY DEF Ordered
  <2>4. \A y \in shown : sub'[x].conn = sub'[y].conn /\ sub'[x].id = sub'[y].id => SameId(x, y)
    BY <2>1, <2>2, <2>3, SameIdBack
  <2>5. QED
    BY <2>1, <2>3, <2>4 DEF Ordered, At
<1>5. QED
  BY <1>1, <1>2, <1>3, <1>4 DEF Ordered, Calm, SameId, Used, At

(* A subscription that is made: no live one was made before it for its id. *)
LEMMA OrderedBorn ==
  ASSUME TypeOK, WellFormedCalls, WellFormedSubs, Ordered, [Next]_vars,
         NEW x \in Subs, IsNext(x), sub'[x].pc = "new", UNCHANGED shown,
         \A y \in Subs \ {x} : sub'[y] = sub[y],
         \A y \in Subs : Used(y) /\ sub[y].conn = sub'[x].conn /\ sub[y].id = sub'[x].id
                         => ~Live(y)
  PROVE  Ordered'
<1>1. ~Used(x) /\ \A y \in Subs : ~Used(y) => x <= y
  BY DEF IsNext, Unused, At, Used
<1>2. x \notin shown
  BY <1>1 DEF Ordered
<1>3. \A y \in Subs : Used(y) /\ Live(y)' => Live(y)
  BY LivesOn
<1>4. \A y, z \in Subs : y < z /\ sub'[z].pc # "free" => Used(y) /\ y # x
  <2>1. SUFFICES ASSUME NEW y \in Subs, NEW z \in Subs, y < z, sub'[z].pc # "free"
                 PROVE  Used(y) /\ y # x
    OBVIOUS
  <2>2. CASE z = x
    BY <1>1, <2>1, <2>2 DEF Subs
  <2>3. CASE z # x
    BY <1>1, <2>1, <2>3 DEF Ordered, Used
  <2>4. QED
    BY <2>2, <2>3
<1>5. ASSUME NEW y \in Subs, NEW z \in Subs, y < z, sub'[z].pc # "free",
             sub'[y].conn = sub'[z].conn, sub'[y].id = sub'[z].id
      PROVE  ~Live(y)'
  <2>1. Used(y) /\ y # x /\ sub'[y] = sub[y]
    BY <1>4, <1>5
  <2>2. CASE z = x
    BY <1>3, <1>5, <2>1, <2>2
  <2>3. CASE z # x
    BY <1>3, <1>5, <2>1, <2>3 DEF Ordered, SameId, Used
  <2>4. QED
    BY <2>2, <2>3
<1>6. \A y \in Subs : sub'[y].pc \notin {"free", "new"} /\ Live(y)' => y \in shown
  BY <1>3 DEF Ordered, Used
<1>7. ASSUME NEW y \in Subs, sub'[y].pc = "write"
      PROVE  /\ y \in shown
             /\ \A z \in shown : z > y => ~(sub'[y].conn = sub'[z].conn /\ sub'[y].id = sub'[z].id)
  BY <1>2, <1>7 DEF Ordered, SameId, At
<1>8. shown \subseteq {y \in Subs : sub'[y].pc # "free"}
  BY <1>2 DEF Ordered, Used
<1>9. QED
  BY <1>4, <1>5, <1>6, <1>7, <1>8 DEF Ordered, SameId, Used, At

(* The subscribe event is written, and the goroutine starts: it was written
   under the lock of the stream, so that no older subscription is writing. *)
LEMMA OrderedLaunched ==
  ASSUME TypeOK, WellFormedCalls, WellFormedSubs, Ordered, [Next]_vars,
         \A y \in Subs : /\ sub'[y].conn = sub[y].conn /\ sub'[y].id = sub[y].id
                         /\ \/ sub'[y].pc = sub[y].pc
                            \/ sub[y].pc = "new" /\ sub'[y].pc = "ready",
         shown \subseteq shown', shown' \subseteq {y \in Subs : Used(y)},
         \A y \in Subs : sub[y].pc = "new" /\ sub'[y].pc = "ready" /\ Live(y)' => y \in shown',
         \A y \in shown' \ shown : \A x \in Subs : sub[x].pc = "write" => sub[x].conn # sub[y].conn
  PROVE  Ordered'
<1>1. \A y \in Subs : Used(y) /\ Live(y)' => Live(y)
  BY LivesOn
<1>2. \A y \in Subs : Used(y) <=> sub'[y].pc # "free"
  BY DEF Used
<1>3. ASSUME NEW y \in Subs, NEW z \in Subs, y < z, Used(z), SameId(y, z)
      PROVE  ~Live(y)'
  BY <1>1, <1>3 DEF Ordered
<1>4. ASSUME NEW y \in Subs, sub'[y].pc \notin {"free", "new"}, Live(y)'
      PROVE  y \in shown'
  <2>1. CASE sub[y].pc = "new"
    BY <1>4, <2>1
  <2>2. CASE sub[y].pc # "new"
    BY <1>1, <1>4, <2>2 DEF Ordered, Used
  <2>3. QED
    BY <2>1, <2>2
<1>5. ASSUME NEW y \in Subs, sub'[y].pc = "write"
      PROVE  /\ y \in shown'
             /\ \A z \in shown' : z > y => ~SameId(y, z)
  BY <1>5 DEF Ordered, SameId, At
<1>6. \A y, z \in Subs : SameId(y, z) <=> sub'[y].conn = sub'[z].conn /\ sub'[y].id = sub'[z].id
  BY DEF SameId
<1>7. QED
  BY <1>2, <1>3, <1>4, <1>5, <1>6 DEF Ordered, SameId, Used, At

LEMMA OrderedStep ==
  ASSUME TypeOK, WellFormedCalls, WellFormedSubs, LiveIsListed, Locked, Ordered,
         [Next]_vars
  PROVE  Ordered'
<1> USE DEF switchVars, dataVars, broadcastVars, envVars, callVars, clientVars,
   At, HandlerAt, CallAt, StreamOf, Goto, Lock, Unlock, Conns
<1>0. /\ sub \in [Subs -> Subscriptions] /\ conn \in [Conns -> Handlers]
      /\ call \in [Sessions -> Controls]
      /\ listed \in [Sessions -> [Ids -> Subs \cup {None}]]
      /\ Sessions \cap Plains = {} /\ None \notin Conns \cup Ids \cup Int
  BY RealtimeAssumption DEF TypeOK
<1> USE <1>0
<1>1. ASSUME
             \/ Activate \/ Commit
      PROVE  Ordered'
  <2>1. Calm
    BY <1>1 DEF Activate, Commit, Calm
  <2>2. QED
    BY <2>1, OrderedKept
<1>2. ASSUME NEW k \in 1 .. MaxSwitches, ReconnectAll(k)
      PROVE  Ordered'
  <2>1. Calm
    BY <1>2 DEF ReconnectAll, Calm
  <2>2. QED
    BY <2>1, OrderedKept
<1>3. ASSUME NEW k \in 1 .. MaxSwitches, NEW x \in Subs, CancelSub(k, x)
      PROVE  Ordered'
  <2>1. Calm
    BY <1>3 DEF CancelSub, Calm, Subscriptions
  <2>2. QED
    BY <2>1, OrderedKept
<1>4. ASSUME NEW k \in 1 .. MaxSwitches, NEW c \in Sessions, CancelSession(k, c)
      PROVE  Ordered'
  <2>1. Calm
    BY <1>4 DEF CancelSession, Calm
  <2>2. QED
    BY <2>1, OrderedKept
<1>5. ASSUME NEW w \in 1 .. MaxWrites, InvalidateAll(w)
      PROVE  Ordered'
  <2>1. Calm
    BY <1>5 DEF InvalidateAll, Calm
  <2>2. QED
    BY <2>1, OrderedKept
<1>6. ASSUME NEW w \in 1 .. MaxWrites, NEW x \in Subs, Notify(w, x)
      PROVE  Ordered'
  <2>1. Calm
    BY <1>6 DEF Notify, Calm, Subscriptions
  <2>2. QED
    BY <2>1, OrderedKept
<1>7. ASSUME NEW c \in Conns,
             \/ Admit(c) \/ Disconnect(c) \/ Reject(c) \/ BeginPing(c)
             \/ ResolvePlain(c) \/ RegisterSession(c) \/ BeginOpen(c)
             \/ EndPing(c) \/ Unlist(c) \/ CloseSession(c) \/ ReturnSession(c)
      PROVE  Ordered'
  <2>1. Calm
    BY <1>7 DEF Admit, Disconnect, Reject, BeginPing, ResolvePlain,
       RegisterSession, BeginOpen, EndPing, Unlist, CloseSession, ReturnSession,
       Calm
  <2>2. QED
    BY <2>1, OrderedKept
<1>8. ASSUME NEW c \in Conns, RegisterPlain(c)
      PROVE  Ordered'
  <2>1. CASE Fence(conn[c].gen)
    <3>1. PICK x \in Subs : /\ IsNext(x)
                            /\ sub' = [sub EXCEPT ![x] = Subscription(c, None, conn[c].snap)]
      BY <1>8, <2>1 DEF RegisterPlain
    <3>2. conn[c].pc = "resolved" /\ UNCHANGED shown
      BY <1>8 DEF RegisterPlain
    <3>3. /\ sub'[x].pc = "new" /\ sub'[x].conn = c
          /\ \A y \in Subs \ {x} : sub'[y] = sub[y]
      BY <3>1 DEF Subscription, NoSub
    <3>4. \A y \in Subs : sub[y].conn # c
      BY <3>2, Unheld DEF SubsOf
    <3>5. QED
      BY <3>1, <3>2, <3>3, <3>4, OrderedBorn
  <2>2. CASE ~Fence(conn[c].gen)
    <3>1. Calm
      BY <1>8, <2>2 DEF RegisterPlain, Calm
    <3>2. QED
      BY <3>1, OrderedKept
  <2>3. QED
    BY <2>1, <2>2
<1>9. ASSUME NEW c \in Conns, EndOpen(c)
      PROVE  Ordered'
  <2>1. \A y \in Subs : /\ sub'[y].conn = sub[y].conn /\ sub'[y].id = sub[y].id
                        /\ \/ sub'[y].pc = sub[y].pc
                           \/ sub[y].pc = "new" /\ sub'[y].pc = "ready" /\ sub[y].conn = c
    BY <1>9 DEF EndOpen, Started, SubsOf, Subscriptions
  <2>2. /\ stream[c] = "handler" /\ shown \subseteq shown' /\ shown' \subseteq shown \cup SubsOf(c)
        /\ conn'[c].live => shown' = shown \cup SubsOf(c)
    BY <1>9 DEF EndOpen, Handlers
  <2>3. \A x \in Subs : sub[x].pc = "write" => sub[x].conn # c
    BY <2>2 DEF Locked
  <2>4. shown' \subseteq {y \in Subs : Used(y)}
    BY <2>2 DEF Ordered, SubsOf, WellFormedSubs, Used
  <2>5. \A y \in Subs : sub[y].pc = "new" /\ sub'[y].pc = "ready" /\ Live(y)' => y \in shown'
    BY <2>1, <2>2 DEF Live, SubsOf
  <2>6. \A y \in shown' \ shown : sub[y].conn = c
    BY <2>2 DEF SubsOf
  <2>7. QED
    BY <2>1, <2>2, <2>3, <2>4, <2>5, <2>6, OrderedLaunched
<1>10. ASSUME NEW c \in Conns, SkipOpen(c)
      PROVE  Ordered'
  <2>1. \A y \in Subs : /\ sub'[y].conn = sub[y].conn /\ sub'[y].id = sub[y].id
                        /\ \/ sub'[y].pc = sub[y].pc
                           \/ sub[y].pc = "new" /\ sub'[y].pc = "ready" /\ sub[y].conn = c
    BY <1>10 DEF SkipOpen, Started, SubsOf, Subscriptions
  <2>2. ~conn'[c].live /\ UNCHANGED shown
    BY <1>10 DEF SkipOpen, Handlers
  <2>3. shown \subseteq {y \in Subs : Used(y)}
    BY DEF Ordered
  <2>4. QED
    BY <2>1, <2>2, <2>3, OrderedLaunched DEF Live
<1>11. ASSUME NEW c \in Conns, ReturnPlain(c)
      PROVE  Ordered'
  <2>1. Calm
    BY <1>11 DEF ReturnPlain, Calm, Gone, Dropped, SubsOf, NoSub, Subscriptions
  <2>2. QED
    BY <2>1, OrderedKept
<1>12. ASSUME NEW c \in Sessions, NEW r \in Requests, FindSession(c, r)
      PROVE  Ordered'
  <2>1. Calm
    BY <1>12 DEF FindSession, Calm
  <2>2. QED
    BY <2>1, OrderedKept
<1>13. ASSUME NEW c \in Sessions,
             \/ AdmitCall(c) \/ AddRefused(c) \/ AddSkipped(c)
             \/ BeginAnnounce(c) \/ BeginError(c) \/ EndError(c) \/ SkipError(c)
             \/ Reply(c)
      PROVE  Ordered'
  <2>1. Calm
    BY <1>13 DEF AdmitCall, AddRefused, AddSkipped, BeginAnnounce, BeginError,
       EndError, SkipError, Reply, Calm
  <2>2. QED
    BY <2>1, OrderedKept
<1>14. ASSUME NEW c \in Sessions, CancelRemoved(c)
      PROVE  Ordered'
  <2>1. Calm
    BY <1>14 DEF CancelRemoved, Calm, Subscriptions
  <2>2. QED
    BY <2>1, OrderedKept
<1>15. ASSUME NEW c \in Sessions, NEW i \in Ids,
             \/ Remove(c, i) \/ Resolve(c, i)
      PROVE  Ordered'
  <2>1. Calm
    BY <1>15 DEF Remove, Resolve, Calm
  <2>2. QED
    BY <2>1, OrderedKept
<1>16. ASSUME NEW c \in Sessions, Add(c)
      PROVE  Ordered'
  <2>1. PICK x \in Subs :
          /\ IsNext(x)
          /\ sub' = [sub EXCEPT ![x] = Subscription(c, call[c].id, call[c].snap)]
    BY <1>16 DEF Add, Enlist
  <2>2. /\ call[c].pc = "add" /\ listed[c][call[c].id] = None /\ UNCHANGED shown
    BY <1>16 DEF Add, Enlist
  <2>3. /\ sub'[x].pc = "new" /\ sub'[x].conn = c /\ sub'[x].id = call[c].id
        /\ \A y \in Subs \ {x} : sub'[y] = sub[y]
    BY <2>1 DEF Subscription, NoSub
  <2>4. \A y \in Subs : y # None
    BY DEF Subs
  <2>5. \A y \in Subs : Used(y) /\ sub[y].conn = c /\ sub[y].id = call[c].id => ~Live(y)
    BY <2>2, <2>4 DEF LiveIsListed, Used
  <2>6. QED
    BY <2>1, <2>2, <2>3, <2>5, OrderedBorn
<1>17. ASSUME NEW c \in Sessions, EndAnnounce(c)
      PROVE  Ordered'
  <2>1. call[c].sub \in Subs /\ Used(call[c].sub) /\ sub[call[c].sub].conn = c
    BY <1>17 DEF EndAnnounce, WellFormedCalls
  <2>2. \A y \in Subs : /\ sub'[y].conn = sub[y].conn /\ sub'[y].id = sub[y].id
                        /\ \/ sub'[y].pc = sub[y].pc
                           \/ /\ sub[y].pc = "new" /\ sub'[y].pc = "ready"
                              /\ y = call[c].sub
    BY <1>17 DEF EndAnnounce, Launch, WellFormedCalls, Subscriptions
  <2>3. /\ stream[c] = "announce" /\ shown \subseteq shown'
        /\ shown' \subseteq shown \cup {call[c].sub}
        /\ conn'[c].live => shown' = shown \cup {call[c].sub}
    BY <1>17 DEF EndAnnounce, Delivered, Broken, Hang, Handlers
  <2>4. \A x \in Subs : sub[x].pc = "write" => sub[x].conn # c
    BY <2>3 DEF Locked
  <2>5. shown' \subseteq {y \in Subs : Used(y)}
    BY <2>1, <2>3 DEF Ordered
  <2>6. \A y \in Subs : sub[y].pc = "new" /\ sub'[y].pc = "ready" /\ Live(y)' => y \in shown'
    BY <2>1, <2>2, <2>3 DEF Live
  <2>7. QED
    BY <2>1, <2>2, <2>3, <2>4, <2>5, <2>6, OrderedLaunched
<1>18. ASSUME NEW c \in Sessions, SkipAnnounce(c)
      PROVE  Ordered'
  <2>1. PICK x \in Subs : x = call[c].sub /\ Used(x) /\ ~Live(x)
    BY <1>18 DEF SkipAnnounce, WellFormedCalls
  <2>2. \A y \in Subs : /\ sub'[y].conn = sub[y].conn /\ sub'[y].id = sub[y].id
                        /\ \/ sub'[y].pc = sub[y].pc
                           \/ sub[y].pc = "new" /\ sub'[y].pc = "ready" /\ y = x
    BY <1>18, <2>1 DEF SkipAnnounce, Launch, WellFormedCalls, Subscriptions
  <2>3. ~Live(x)' /\ UNCHANGED shown
    BY <1>18, <2>1, LivesOn DEF SkipAnnounce
  <2>4. shown \subseteq {y \in Subs : Used(y)}
    BY DEF Ordered
  <2>5. QED
    BY <2>2, <2>3, <2>4, OrderedLaunched
<1>19. ASSUME NEW x \in Subs,
             \/ Acquire(x) \/ GiveUp(x) \/ SkipWrite(x) \/ Stop(x)
      PROVE  Ordered'
  <2>1. Calm
    BY <1>19 DEF Acquire, GiveUp, SkipWrite, Stop, Calm, Subscriptions, Waiting
  <2>2. QED
    BY <2>1, OrderedKept
<1>20. ASSUME NEW x \in Subs, Invoke(x)
      PROVE  Ordered'
  <2>1. \A y \in Subs : sub'[y].pc = IF y = x THEN "result" ELSE sub[y].pc
    BY <1>20 DEF Invoke, Subscriptions
  <2>2. sub[x].pc = "query" /\ UNCHANGED shown
    BY <1>20 DEF Invoke
  <2>3. QED
    BY <2>1, <2>2, OrderedKept DEF Calm
<1>21. ASSUME NEW x \in Subs, Compare(x)
      PROVE  Ordered'
  <2>1. Calm
    BY <1>21 DEF Compare, Calm, Subscriptions
  <2>2. QED
    BY <2>1, OrderedKept
<1>22. ASSUME NEW x \in Subs, BeginWrite(x)
      PROVE  Ordered'
  <2>1. /\ sub[x].pc = "send" /\ Live(x) /\ UNCHANGED <<conn, shown>>
    BY <1>22 DEF BeginWrite
  <2>2. \A y \in Subs : /\ sub'[y].conn = sub[y].conn /\ sub'[y].id = sub[y].id
                        /\ sub'[y].live = sub[y].live
                        /\ sub'[y].pc = IF y = x THEN "write" ELSE sub[y].pc
    BY <1>22 DEF BeginWrite, Subscriptions
  <2>3. x \in shown /\ \A y \in shown : y > x => ~SameId(x, y)
    BY <2>1 DEF Ordered, Used
  <2>4. \A y, z \in Subs : SameId(y, z) <=> sub'[y].conn = sub'[z].conn /\ sub'[y].id = sub'[z].id
    BY <2>2 DEF SameId
  <2>5. /\ \A y \in Subs : Used(y) <=> sub'[y].pc # "free"
        /\ \A y \in Subs : Live(y)' => Live(y)
    BY <2>1, <2>2 DEF Used, Live
  <2>6. \A y \in Subs : sub'[y].pc = "write" => y \in shown /\ \A z \in shown : z > y => ~SameId(y, z)
    BY <2>2, <2>3 DEF Ordered
  <2>7. \A y \in Subs : sub'[y].pc \notin {"free", "new"} /\ Live(y)' => y \in shown
    BY <2>1, <2>2, <2>3, <2>5 DEF Ordered
  <2>8. QED
    BY <2>1, <2>4, <2>5, <2>6, <2>7 DEF Ordered, SameId, Used
<1>23. ASSUME NEW x \in Subs, EndWrite(x)
      PROVE  Ordered'
  <2>1. Calm
    BY <1>23 DEF EndWrite, Calm, Subscriptions
  <2>2. QED
    BY <2>1, OrderedKept
<1>24. ASSUME NEW x \in Subs, Notice(x)
      PROVE  Ordered'
  <2>1. Calm
    BY <1>24 DEF Notice, Calm, Waiting, Subscriptions
  <2>2. QED
    BY <2>1, OrderedKept
<1>25. ASSUME NEW x \in Subs, Unsubscribe(x)
      PROVE  Ordered'
  <2>1. Calm
    BY <1>25 DEF Unsubscribe, Calm, Subscriptions
  <2>2. QED
    BY <2>1, OrderedKept
<1>26. ASSUME NEW x \in Subs, Forget(x)
      PROVE  Ordered'
  <2>1. Calm
    BY <1>26 DEF Forget, Calm, Gone, Dropped, NoSub, Subscriptions
  <2>2. QED
    BY <2>1, OrderedKept
<1>27. CASE UNCHANGED vars
  BY <1>27, OrderedKept DEF vars, Calm
<1> QED
  BY <1>1, <1>2, <1>3, <1>4, <1>5, <1>6, <1>7, <1>8, <1>9, <1>10, <1>11, <1>12,
     <1>13, <1>14, <1>15, <1>16, <1>17, <1>18, <1>19, <1>20, <1>21, <1>22,
     <1>23, <1>24, <1>25, <1>26, <1>27 DEF Next, Broadcast, Client, Handle,
     HandleSessionControl, Run, Serve, Finished

(* seen[z] changes when a message of z is written, or when z is forgotten. *)
LEMMA MessageStep ==
  ASSUME TypeOK, WellFormedCalls, WellFormedSubs, Ordered, [Next]_vars,
         NEW z \in Subs, seen'[z] \notin {seen[z], None}
  PROVE  /\ z \in shown
         /\ \A y \in shown : y > z => ~(sub[y].conn = sub[z].conn /\ sub[y].id = sub[z].id)
<1> DEFINE Goal == /\ z \in shown
                   /\ \A y \in shown : y > z => ~(sub[y].conn = sub[z].conn /\ sub[y].id = sub[z].id)
<1> USE DEF switchVars, dataVars, broadcastVars, envVars, callVars, clientVars,
   At, HandlerAt, CallAt, StreamOf, Goto, Lock, Unlock
<1>0. seen \in [Subs -> Payloads]
  BY DEF TypeOK
<1>1. ASSUME
             \/ Activate \/ Commit
      PROVE  Goal
  BY <1>1 DEF Activate, Commit
<1>2. ASSUME NEW k \in 1 .. MaxSwitches, ReconnectAll(k)
      PROVE  Goal
  BY <1>2 DEF ReconnectAll
<1>3. ASSUME NEW k \in 1 .. MaxSwitches, NEW x \in Subs, CancelSub(k, x)
      PROVE  Goal
  BY <1>3 DEF CancelSub
<1>4. ASSUME NEW k \in 1 .. MaxSwitches, NEW c \in Sessions, CancelSession(k, c)
      PROVE  Goal
  BY <1>4 DEF CancelSession
<1>5. ASSUME NEW w \in 1 .. MaxWrites, InvalidateAll(w)
      PROVE  Goal
  BY <1>5 DEF InvalidateAll
<1>6. ASSUME NEW w \in 1 .. MaxWrites, NEW x \in Subs, Notify(w, x)
      PROVE  Goal
  BY <1>6 DEF Notify
<1>7. ASSUME NEW c \in Conns,
             \/ Admit(c) \/ Disconnect(c) \/ Reject(c) \/ BeginPing(c)
             \/ ResolvePlain(c) \/ RegisterPlain(c) \/ RegisterSession(c)
             \/ BeginOpen(c) \/ EndOpen(c) \/ SkipOpen(c) \/ EndPing(c)
             \/ Unlist(c)
      PROVE  Goal
  BY <1>7 DEF Admit, Disconnect, Reject, BeginPing, ResolvePlain, RegisterPlain,
     RegisterSession, BeginOpen, EndOpen, SkipOpen, EndPing, Unlist
<1>8. ASSUME NEW c \in Conns,
             \/ CloseSession(c) \/ ReturnSession(c)
      PROVE  Goal
  BY <1>8 DEF CloseSession, ReturnSession
<1>9. ASSUME NEW c \in Conns, ReturnPlain(c)
      PROVE  Goal
  BY <1>9, <1>0 DEF ReturnPlain, Dropped
<1>10. ASSUME NEW c \in Sessions, NEW r \in Requests, FindSession(c, r)
      PROVE  Goal
  BY <1>10 DEF FindSession
<1>11. ASSUME NEW c \in Sessions,
             \/ AdmitCall(c) \/ CancelRemoved(c) \/ AddRefused(c)
             \/ AddSkipped(c) \/ Add(c) \/ BeginAnnounce(c) \/ EndAnnounce(c)
             \/ SkipAnnounce(c) \/ BeginError(c) \/ EndError(c) \/ SkipError(c)
             \/ Reply(c)
      PROVE  Goal
  BY <1>11 DEF AdmitCall, CancelRemoved, AddRefused, AddSkipped, Add,
     BeginAnnounce, EndAnnounce, SkipAnnounce, BeginError, EndError, SkipError,
     Reply, Enlist
<1>12. ASSUME NEW c \in Sessions, NEW i \in Ids,
             \/ Remove(c, i) \/ Resolve(c, i)
      PROVE  Goal
  BY <1>12 DEF Remove, Resolve
<1>13. ASSUME NEW x \in Subs,
             \/ Acquire(x) \/ GiveUp(x) \/ Invoke(x) \/ Compare(x)
             \/ BeginWrite(x) \/ SkipWrite(x) \/ Notice(x) \/ Stop(x)
             \/ Unsubscribe(x)
      PROVE  Goal
  BY <1>13 DEF Acquire, GiveUp, Invoke, Compare, BeginWrite, SkipWrite, Notice,
     Stop, Unsubscribe
<1>14. ASSUME NEW x \in Subs, EndWrite(x)
      PROVE  Goal
  <2>1. z = x /\ sub[x].pc = "write"
    BY <1>14, <1>0 DEF EndWrite
  <2>2. QED
    BY <2>1 DEF Ordered, SameId
<1>15. ASSUME NEW x \in Subs, Forget(x)
      PROVE  Goal
  BY <1>15, <1>0 DEF Forget, Dropped
<1>16. CASE UNCHANGED vars
  BY <1>16 DEF vars
<1> QED
  BY <1>1, <1>2, <1>3, <1>4, <1>5, <1>6, <1>7, <1>8, <1>9, <1>10, <1>11, <1>12,
     <1>13, <1>14, <1>15, <1>16 DEF Next, Broadcast, Client, Handle,
     HandleSessionControl, Run, Serve, Finished

----------------------------------------------------------------------------
(* A step that leaves what a goroutine does, and starts it at most, leaves it up
   to date, if it makes nothing quiet that was not. *)
LEMMA UpToDateKept ==
  ASSUME TypeOK, WellFormedCalls, WellFormedSubs, [Next]_vars, NEW z \in Subs, UpToDate(z),
         Used(z) \/ sub'[z].live = sub[z].live,
         sub'[z].pc = sub[z].pc \/ (sub[z].pc = "new" /\ sub'[z].pc = "ready"),
         sub'[z].paused = sub[z].paused, sub'[z].last = sub[z].last,
         sub'[z].result = sub[z].result, seen'[z] = seen[z],
         z \in registered => z \in registered',
         Quiet(z)' /\ sub[z].pc \in {"result", "send", "write", "wait"}
           => Quiet(z) /\ data' = data
  PROVE  UpToDate(z)'
<1>1. Live(z)' => Live(z) /\ Used(z)
  <2>1. CASE Used(z)
    BY <2>1, LivesOn
  <2>2. CASE ~Used(z)
    BY <2>2 DEF WellFormedSubs, Used, Live
  <2>3. QED
    BY <2>1, <2>2
<1>2. sub'[z].pc \in {"result", "send", "write", "wait"} => sub'[z].pc = sub[z].pc
  OBVIOUS
<1>3. sub'[z].pc \notin {"free", "left", "done"} => z \in registered'
  BY DEF UpToDate
<1>4. /\ sub'[z].pc = "free" => seen'[z] = None
      /\ sub'[z].pc \in {"new", "ready", "query"} => ~sub'[z].paused
  BY DEF UpToDate
<1>5. Live(z)' /\ sub'[z].pc \in {"new", "ready", "query", "result", "wait"}
        => seen'[z] = sub'[z].last
  BY <1>1 DEF UpToDate
<1>6. Live(z)' /\ sub'[z].pc = "result" /\ (sub'[z].paused \/ Quiet(z)')
        => sub'[z].result = Expected(z)'
  BY <1>1, <1>2 DEF UpToDate, Expected
<1>7. Live(z)' /\ sub'[z].pc \in {"send", "write", "wait"} /\ (sub'[z].paused \/ Quiet(z)')
        => sub'[z].last = Expected(z)'
  BY <1>1, <1>2 DEF UpToDate, Expected
<1>8. QED
  BY <1>3, <1>4, <1>5, <1>6, <1>7 DEF UpToDate

LEMMA UpToDateAside ==
  ASSUME TypeOK, WellFormedCalls, WellFormedSubs, [Next]_vars, NEW z \in Subs, UpToDate(z),
         sub'[z] = sub[z], seen'[z] = seen[z], z \in registered => z \in registered',
         UNCHANGED dataVars
  PROVE  UpToDate(z)'
<1>1. Quiet(z)' => Quiet(z) /\ data' = data
  BY DEF dataVars, Quiet
<1>2. QED
  BY <1>1, UpToDateKept

LEMMA NewSubscription ==
  ASSUME NEW c, NEW i, NEW d
  PROVE  /\ Subscription(c, i, d).pc = "new" /\ Subscription(c, i, d).last = None
         /\ ~Subscription(c, i, d).paused
  BY DEF Subscription, NoSub

(* A subscription that is made, and the others. *)
LEMMA UpToDateBorn ==
  ASSUME TypeOK, WellFormedCalls, WellFormedSubs, [Next]_vars, NEW z \in Subs, UpToDate(z),
         NEW x \in Subs, IsNext(x), NEW c, NEW i, NEW d,
         sub' = [sub EXCEPT ![x] = Subscription(c, i, d)],
         registered' = registered \cup {x}, UNCHANGED <<seen, dataVars>>
  PROVE  UpToDate(z)'
<1>1. CASE z # x
  BY <1>1, UpToDateAside DEF TypeOK
<1>2. CASE z = x
  <2>1. sub[z].pc = "free" /\ sub'[z] = Subscription(c, i, d)
    BY <1>2 DEF IsNext, Unused, At, TypeOK
  <2>2. sub'[z].pc = "new" /\ sub'[z].last = None /\ ~sub'[z].paused
    BY <2>1, NewSubscription
  <2>3. seen'[z] = None /\ z \in registered'
    BY <1>2, <2>1 DEF UpToDate
  <2>4. QED
    BY <2>2, <2>3 DEF UpToDate
<1>3. QED
  BY <1>1, <1>2

(* Subscriptions that are dropped, and the others. *)
LEMMA UpToDateDropped ==
  ASSUME TypeOK, WellFormedCalls, WellFormedSubs, [Next]_vars, NEW z \in Subs, UpToDate(z),
         NEW X, Dropped(X), z \notin X /\ z \in registered => z \in registered',
         UNCHANGED <<data, told>>
  PROVE  UpToDate(z)'
<1>1. CASE z \in X
  <2>1. sub'[z] = Gone(z)
    BY <1>1 DEF Dropped
  <2>2. sub'[z].pc = "done" /\ ~sub'[z].live
    BY <2>1 DEF Gone, NoSub
  <2>3. QED
    BY <2>2 DEF UpToDate, Live
<1>2. CASE z \notin X
  <2>1. sub'[z] = sub[z] /\ seen'[z] = seen[z]
    BY <1>2 DEF Dropped
  <2>2. \A w \in 1 .. MaxWrites : z \in toNotify'[w] <=> z \in toNotify[w]
    BY <1>2 DEF Dropped, TypeOK
  <2>3. Quiet(z)' => Quiet(z)
    BY <2>1, <2>2 DEF Quiet, TypeOK
  <2>4. QED
    BY <1>2, <2>1, <2>3, UpToDateKept
<1>3. QED
  BY <1>1, <1>2

(* The goroutine of a subscription: what it compares, sends and waits with. *)
LEMMA UpToDateRun ==
  ASSUME TypeOK, WellFormedCalls, WellFormedSubs, [Next]_vars, NEW z \in Subs, UpToDate(z),
         Run(z)
  PROVE  UpToDate(z)'
<1> USE DEF envVars, dataVars, broadcastVars, clientVars, At, Goto
<1>0. sub \in [Subs -> Subscriptions] /\ seen \in [Subs -> Payloads]
  BY DEF TypeOK
<1>1. CASE Forget(z)
  BY <1>1, UpToDateDropped DEF Forget
<1>2. CASE Unsubscribe(z)
  <2>1. sub'[z].pc = "left"
    BY <1>2, <1>0 DEF Unsubscribe
  <2>2. QED
    BY <2>1 DEF UpToDate
<1>3. ASSUME ~Forget(z), ~Unsubscribe(z)
      PROVE  /\ UNCHANGED <<data, told, toNotify, registered>>
             /\ z \in registered /\ Used(z) /\ sub'[z].pc \notin {"free", "left", "done"}
             /\ Live(z)' => Live(z)
  <2>1. UNCHANGED <<data, told, toNotify, registered>>
    BY <1>3 DEF Run, Acquire, GiveUp, Invoke, Compare, BeginWrite, EndWrite, SkipWrite,
       Notice, Stop
  <2>2. sub[z].pc \in {"ready", "query", "result", "send", "write", "wait"}
    BY <1>3 DEF Run, Acquire, GiveUp, Invoke, Compare, BeginWrite, EndWrite, SkipWrite,
       Notice, Stop, Waiting
  <2>3. z \in registered /\ Used(z)
    BY <2>2 DEF UpToDate, Used
  <2>4. sub'[z].pc \in {"query", "wait", "result", "send", "write", "ready", "ended"}
    BY <1>3, <1>0 DEF Run, Acquire, GiveUp, Invoke, Compare, BeginWrite, EndWrite, SkipWrite,
       Notice, Stop, Subscriptions
  <2>5. QED
    BY <2>1, <2>3, <2>4, LivesOn
<1>4. ASSUME ~Forget(z), ~Unsubscribe(z), ~Live(z)
      PROVE  UpToDate(z)'
  <2>1. sub'[z].pc \in {"new", "ready", "query"} => ~sub'[z].paused
    <3>1. CASE Acquire(z)
      BY <3>1, <1>0 DEF Acquire, UpToDate, Subscriptions
    <3>2. CASE Notice(z)
      BY <3>2, <1>0 DEF Notice, Subscriptions
    <3>3. CASE ~Acquire(z) /\ ~Notice(z)
      <4>1. sub'[z].pc \notin {"new", "ready", "query"}
        BY <1>4, <3>3, <1>0 DEF Run, GiveUp, Invoke, Compare, BeginWrite, EndWrite,
           SkipWrite, Stop, Subscriptions
      <4>2. QED
        BY <4>1
    <3>4. QED
      BY <3>1, <3>2, <3>3
  <2>2. QED
    BY <1>3, <1>4, <2>1 DEF UpToDate
<1>5. CASE Acquire(z)
  <2>1. /\ sub[z].pc = "ready" /\ sub'[z].pc = "query" /\ UNCHANGED seen
        /\ sub'[z].last = sub[z].last /\ sub'[z].paused = sub[z].paused
    BY <1>5, <1>0 DEF Acquire, Subscriptions
  <2>2. ~Forget(z) /\ ~Unsubscribe(z)
    BY <2>1 DEF Forget, Unsubscribe
  <2>3. QED
    BY <1>3, <2>1, <2>2 DEF UpToDate
<1>6. CASE Invoke(z)
  <2>1. /\ sub[z].pc = "query" /\ sub'[z].pc = "result" /\ UNCHANGED seen
        /\ sub'[z].last = sub[z].last
        /\ \/ sub'[z].result = data /\ sub'[z].paused = sub[z].paused
           \/ sub'[z].result = Refused /\ sub'[z].paused
    BY <1>6, <1>0 DEF Invoke, Subscriptions
  <2>2. ~Forget(z) /\ ~Unsubscribe(z)
    BY <2>1 DEF Forget, Unsubscribe
  <2>3. sub'[z].result = Expected(z)'
    BY <1>3, <2>1, <2>2 DEF UpToDate, Expected
  <2>4. QED
    BY <1>3, <2>1, <2>2, <2>3 DEF UpToDate
<1>7. CASE Compare(z) /\ Live(z)
  <2>1. /\ sub[z].pc = "result" /\ UNCHANGED seen /\ sub'[z].notify = sub[z].notify
        /\ sub'[z].paused = sub[z].paused
        /\ \/ sub'[z].pc = "send" /\ sub'[z].last = sub[z].result
           \/ /\ sub'[z].pc = "wait" /\ sub'[z].last = sub[z].last
              /\ sub[z].result = sub[z].last
    BY <1>7, <1>0 DEF Compare, Subscriptions
  <2>2. ~Forget(z) /\ ~Unsubscribe(z)
    BY <2>1 DEF Forget, Unsubscribe
  <2>3. /\ Quiet(z)' <=> Quiet(z)
        /\ Expected(z)' = Expected(z)
    BY <1>3, <2>1, <2>2 DEF Quiet, Expected
  <2>4. seen[z] = sub[z].last
    BY <1>7, <2>1 DEF UpToDate
  <2>5. sub[z].paused \/ Quiet(z) => sub[z].result = Expected(z)
    BY <1>7, <2>1 DEF UpToDate
  <2>6. sub'[z].paused \/ Quiet(z)' => sub'[z].last = Expected(z)'
    BY <2>1, <2>3, <2>5
  <2>7. QED
    BY <1>3, <2>1, <2>2, <2>4, <2>6 DEF UpToDate
<1>8. CASE (BeginWrite(z) \/ EndWrite(z)) /\ Live(z)
  <2>1. /\ sub[z].pc \in {"send", "write"} /\ sub'[z].pc \in {"write", "wait"}
        /\ sub'[z].notify = sub[z].notify /\ sub'[z].paused = sub[z].paused
        /\ sub'[z].last = sub[z].last
    BY <1>8, <1>0 DEF BeginWrite, EndWrite, Subscriptions
  <2>2. ~Forget(z) /\ ~Unsubscribe(z)
    BY <2>1 DEF Forget, Unsubscribe
  <2>3. /\ Quiet(z)' <=> Quiet(z)
        /\ Expected(z)' = Expected(z)
    BY <1>3, <2>1, <2>2 DEF Quiet, Expected
  <2>4. Live(z)' /\ sub'[z].pc = "wait" => seen'[z] = sub'[z].last
    <3>1. ASSUME Broken(StreamOf(z)) PROVE ~Live(z)'
      <4>1. sub[z].conn \in Conns /\ sub'[z].conn = sub[z].conn
        BY <1>3, <2>2, LivesOn DEF WellFormedSubs
      <4>2. ~conn'[sub[z].conn].live
        BY <3>1, <4>1 DEF Broken, Hang, StreamOf, TypeOK, Handlers
      <4>3. QED
        BY <4>1, <4>2 DEF Live
    <3>2. CASE sub'[z].pc = "wait"
      <4>1. EndWrite(z)
        BY <1>8, <3>2, <1>0 DEF BeginWrite, Subscriptions
      <4>2. CASE seen' = [seen EXCEPT ![z] = sub[z].last]
        BY <2>1, <4>2, <1>0
      <4>3. QED
        BY <3>1, <4>1, <4>2 DEF EndWrite
    <3>3. QED
      BY <3>2
  <2>5. sub'[z].paused \/ Quiet(z)' => sub'[z].last = Expected(z)'
    BY <1>8, <2>1, <2>3 DEF UpToDate
  <2>6. QED
    BY <1>3, <2>1, <2>2, <2>4, <2>5 DEF UpToDate
<1>9. CASE Notice(z) /\ Live(z)
  <2>1. /\ sub[z].pc = "wait" /\ UNCHANGED seen /\ sub'[z].last = sub[z].last
        /\ sub'[z].paused = sub[z].paused
        /\ sub'[z].pc = IF sub[z].paused THEN "wait" ELSE "ready"
    BY <1>9, <1>0 DEF Notice, Waiting, Subscriptions
  <2>2. ~Forget(z) /\ ~Unsubscribe(z)
    BY <2>1 DEF Forget, Unsubscribe
  <2>3. seen[z] = sub[z].last /\ (sub[z].paused => sub[z].last = Refused)
    BY <1>9, <2>1 DEF UpToDate, Expected
  <2>4. QED
    BY <1>3, <2>1, <2>2, <2>3 DEF UpToDate, Expected
<1>10. ASSUME \/ GiveUp(z) \/ SkipWrite(z) \/ Stop(z)
              \/ /\ Compare(z) \/ BeginWrite(z) \/ EndWrite(z) \/ Notice(z)
                 /\ ~Live(z)
       PROVE  UpToDate(z)'
  <2>1. ~Live(z)
    BY <1>10 DEF GiveUp, SkipWrite, Stop
  <2>2. QED
    BY <1>1, <1>2, <1>4, <2>1
<1>11. QED
  BY <1>1, <1>2, <1>5, <1>6, <1>7, <1>8, <1>9, <1>10 DEF Run

LEMMA FreshStep ==
  ASSUME TypeOK, WellFormedCalls, WellFormedSubs, Fresh, [Next]_vars
  PROVE  Fresh'
<1> USE DEF switchVars, dataVars, broadcastVars, envVars, callVars, clientVars,
   At, HandlerAt, CallAt, StreamOf, Goto
<1>0. /\ sub \in [Subs -> Subscriptions] /\ data \in Nat /\ told \subseteq 1 .. MaxWrites
      /\ toNotify \in [1 .. MaxWrites -> SUBSET Subs]
  BY DEF TypeOK, Versions
<1>1. told' \subseteq 1 .. data'
  <2>1. CASE Commit
    BY <2>1, <1>0 DEF Commit, Fresh
  <2>2. CASE \E w \in 1 .. MaxWrites : InvalidateAll(w)
    BY <2>2 DEF InvalidateAll, Fresh
  <2>3. CASE UNCHANGED <<told, data>>
    BY <2>3 DEF Fresh
  <2>4. Commit \/ (\E w \in 1 .. MaxWrites : InvalidateAll(w)) \/ UNCHANGED <<told, data>>
    <3>1. ASSUME Broadcast PROVE Commit \/ (\E w \in 1 .. MaxWrites : InvalidateAll(w)) \/ UNCHANGED <<told, data>>
      BY <3>1 DEF Broadcast, Activate, ReconnectAll, CancelSub, CancelSession, Notify
    <3>2. ASSUME NEW c \in Conns, Client(c) \/ Handle(c) PROVE UNCHANGED <<told, data>>
      BY <3>2 DEF Client, Handle, Admit, Disconnect, Reject, BeginPing, ResolvePlain,
         RegisterPlain, RegisterSession, BeginOpen, EndOpen, SkipOpen, EndPing, Unlist,
         CloseSession, ReturnSession, ReturnPlain
    <3>3. ASSUME NEW c \in Sessions,
                 HandleSessionControl(c) \/ \E r \in Requests : FindSession(c, r)
          PROVE  UNCHANGED <<told, data>>
      BY <3>3 DEF HandleSessionControl, FindSession, AdmitCall, CancelRemoved, Remove,
         Resolve, AddRefused, AddSkipped, Add, Enlist, BeginAnnounce, EndAnnounce,
         SkipAnnounce, BeginError, EndError, SkipError, Reply
    <3>4. ASSUME NEW x \in Subs, Run(x) PROVE UNCHANGED <<told, data>>
      BY <3>4 DEF Run, Acquire, GiveUp, Invoke, Compare, BeginWrite, EndWrite, SkipWrite,
         Notice, Stop, Unsubscribe, Forget
    <3>5. UNCHANGED vars => UNCHANGED <<told, data>>
      BY DEF vars
    <3>6. QED
      BY <3>1, <3>2, <3>3, <3>4, <3>5 DEF Next, Serve, Finished
  <2>5. QED
    BY <2>1, <2>2, <2>3, <2>4
<1> SUFFICES ASSUME NEW z \in Subs PROVE UpToDate(z)'
  BY <1>1 DEF Fresh
<1>2. UpToDate(z)
  BY DEF Fresh
<1>3. ASSUME Activate \/ (\E k \in 1 .. MaxSwitches :
                 ReconnectAll(k) \/ \E c \in Sessions : CancelSession(k, c))
      PROVE  UpToDate(z)'
  BY <1>2, <1>3, UpToDateAside DEF Activate, ReconnectAll, CancelSession
<1>4. ASSUME NEW k \in 1 .. MaxSwitches, NEW x \in Subs, CancelSub(k, x)
      PROVE  UpToDate(z)'
  <2>1. sub' = [sub EXCEPT ![x].live = FALSE] /\ UNCHANGED <<dataVars, registered, seen>>
    BY <1>4 DEF CancelSub
  <2>2. Used(z) \/ sub'[z].live = sub[z].live
    <3>1. sub'[z].live = sub[z].live \/ sub'[z].live = FALSE
      BY <1>0, <2>1 DEF Subscriptions
    <3>2. ~Used(z) => sub[z].live = FALSE
      BY <1>0 DEF WellFormedSubs, Used, Subscriptions
    <3>3. QED
      BY <3>1, <3>2
  <2>3. /\ sub'[z].pc = sub[z].pc /\ sub'[z].paused = sub[z].paused
        /\ sub'[z].last = sub[z].last /\ sub'[z].result = sub[z].result
        /\ sub'[z].notify = sub[z].notify
    BY <1>0, <2>1 DEF Subscriptions
  <2>4. Quiet(z)' => Quiet(z)
    BY <2>1, <2>3 DEF Quiet
  <2>5. QED
    BY <1>2, <2>1, <2>2, <2>3, <2>4, UpToDateKept
<1>5. ASSUME Commit PROVE UpToDate(z)'
  <2>1. ~Quiet(z)'
    BY <1>5, <1>0 DEF Commit, Fresh, Quiet
  <2>2. QED
    BY <1>2, <1>5, <2>1, UpToDateKept DEF Commit
<1>6. ASSUME NEW w \in 1 .. MaxWrites, InvalidateAll(w) PROVE UpToDate(z)'
  <2>1. z \in registered => ~Quiet(z)'
    BY <1>6, <1>0 DEF InvalidateAll, Quiet
  <2>2. sub[z].pc \in {"result", "send", "write", "wait"} => z \in registered
    BY <1>2 DEF UpToDate
  <2>3. QED
    BY <1>2, <1>6, <2>1, <2>2, UpToDateKept DEF InvalidateAll
<1>7. ASSUME NEW w \in 1 .. MaxWrites, NEW x \in Subs, Notify(w, x) PROVE UpToDate(z)'
  <2>1. /\ sub' = [sub EXCEPT ![x].notify = TRUE]
        /\ UNCHANGED <<data, told, registered, seen>>
        /\ toNotify' = [toNotify EXCEPT ![w] = @ \ {x}]
    BY <1>7 DEF Notify
  <2>2. /\ sub'[z].pc = sub[z].pc /\ sub'[z].paused = sub[z].paused
        /\ sub'[z].last = sub[z].last /\ sub'[z].result = sub[z].result
        /\ sub'[z].live = sub[z].live
    BY <1>0, <2>1 DEF Subscriptions
  <2>3. Quiet(z)' => Quiet(z)
    <3>1. CASE z = x
      <4>1. sub'[z].notify
        BY <1>0, <2>1, <3>1 DEF Subscriptions
      <4>2. QED
        BY <4>1 DEF Quiet
    <3>2. CASE z # x
      <4>1. sub'[z] = sub[z] /\ \A v \in 1 .. MaxWrites : z \in toNotify[v] => z \in toNotify'[v]
        BY <1>0, <2>1, <3>2
      <4>2. QED
        BY <1>0, <2>1, <4>1 DEF Quiet
    <3>3. QED
      BY <3>1, <3>2
  <2>4. QED
    BY <1>2, <2>1, <2>2, <2>3, UpToDateKept
<1>8. ASSUME NEW c \in Conns,
             \/ Client(c) \/ ResolvePlain(c) \/ RegisterSession(c) \/ BeginOpen(c)
             \/ EndPing(c) \/ Unlist(c) \/ CloseSession(c) \/ ReturnSession(c)
      PROVE  UpToDate(z)'
  <2>1. UNCHANGED <<sub, seen, registered, dataVars>>
    BY <1>8 DEF Client, Admit, Disconnect, Reject, BeginPing, ResolvePlain,
       RegisterSession, BeginOpen, EndPing, Unlist, CloseSession, ReturnSession
  <2>2. QED
    BY <1>2, <2>1, UpToDateAside
<1>9. ASSUME NEW c \in Conns, RegisterPlain(c) PROVE UpToDate(z)'
  <2>1. CASE UNCHANGED <<sub, registered>>
    BY <1>2, <1>9, <2>1, UpToDateAside DEF RegisterPlain
  <2>2. CASE ~UNCHANGED <<sub, registered>>
    <3>1. PICK x \in Subs :
             /\ IsNext(x) /\ sub' = [sub EXCEPT ![x] = Subscription(c, None, conn[c].snap)]
             /\ registered' = registered \cup {x}
      BY <1>9, <2>2 DEF RegisterPlain
    <3>2. UNCHANGED <<seen, dataVars>>
      BY <1>9 DEF RegisterPlain
    <3>3. QED
      BY <1>2, <3>1, <3>2, UpToDateBorn
  <2>3. QED
    BY <2>1, <2>2
<1>10. ASSUME NEW c \in Conns, EndOpen(c) \/ SkipOpen(c) PROVE UpToDate(z)'
  <2>1. sub' = Started(c) /\ UNCHANGED <<dataVars, registered, seen>>
    BY <1>10 DEF EndOpen, SkipOpen
  <2>2. /\ sub'[z].pc = sub[z].pc \/ (sub[z].pc = "new" /\ sub'[z].pc = "ready")
        /\ sub'[z].paused = sub[z].paused /\ sub'[z].last = sub[z].last
        /\ sub'[z].result = sub[z].result /\ sub'[z].notify = sub[z].notify
        /\ sub'[z].live = sub[z].live
    BY <1>0, <2>1 DEF Started, Subscriptions
  <2>3. Quiet(z)' => Quiet(z)
    BY <2>1, <2>2 DEF Quiet
  <2>4. QED
    BY <1>2, <2>1, <2>2, <2>3, UpToDateKept
<1>11. ASSUME NEW c \in Conns, ReturnPlain(c) PROVE UpToDate(z)'
  <2>1. Dropped(SubsOf(c)) /\ registered' = registered \ SubsOf(c) /\ UNCHANGED <<data, told>>
    BY <1>11 DEF ReturnPlain
  <2>2. QED
    BY <1>2, <2>1, UpToDateDropped
<1>12. ASSUME NEW c \in Sessions,
              \/ \E r \in Requests : FindSession(c, r)
              \/ AdmitCall(c) \/ (\E i \in Ids : Remove(c, i) \/ Resolve(c, i))
              \/ AddRefused(c) \/ AddSkipped(c) \/ BeginAnnounce(c)
              \/ BeginError(c) \/ EndError(c) \/ SkipError(c) \/ Reply(c)
       PROVE  UpToDate(z)'
  <2>1. UNCHANGED <<sub, seen, registered, dataVars>>
    BY <1>12 DEF FindSession, AdmitCall, Remove, Resolve, AddRefused, AddSkipped,
       BeginAnnounce, BeginError, EndError, SkipError, Reply
  <2>2. QED
    BY <1>2, <2>1, UpToDateAside
<1>13. ASSUME NEW c \in Sessions, CancelRemoved(c) PROVE UpToDate(z)'
  <2>1. /\ sub' = [sub EXCEPT ![call[c].sub].live = FALSE]
        /\ UNCHANGED <<dataVars, registered, seen>>
    BY <1>13 DEF CancelRemoved
  <2>2. Used(z) \/ sub'[z].live = sub[z].live
    <3>1. sub'[z].live = sub[z].live \/ sub'[z].live = FALSE
      BY <1>0, <2>1 DEF Subscriptions
    <3>2. ~Used(z) => sub[z].live = FALSE
      BY <1>0 DEF WellFormedSubs, Used, Subscriptions
    <3>3. QED
      BY <3>1, <3>2
  <2>3. /\ sub'[z].pc = sub[z].pc /\ sub'[z].paused = sub[z].paused
        /\ sub'[z].last = sub[z].last /\ sub'[z].result = sub[z].result
        /\ sub'[z].notify = sub[z].notify
    BY <1>0, <2>1 DEF Subscriptions
  <2>4. Quiet(z)' => Quiet(z)
    BY <2>1, <2>3 DEF Quiet
  <2>5. QED
    BY <1>2, <2>1, <2>2, <2>3, <2>4, UpToDateKept
<1>14. ASSUME NEW c \in Sessions, Add(c) PROVE UpToDate(z)'
  <2>1. PICK x \in Subs :
           /\ IsNext(x) /\ sub' = [sub EXCEPT ![x] = Subscription(c, call[c].id, call[c].snap)]
           /\ registered' = registered \cup {x}
    BY <1>14 DEF Add, Enlist
  <2>2. UNCHANGED <<seen, dataVars>>
    BY <1>14 DEF Add, Enlist
  <2>3. QED
    BY <1>2, <2>1, <2>2, UpToDateBorn
<1>15. ASSUME NEW c \in Sessions, EndAnnounce(c) \/ SkipAnnounce(c) PROVE UpToDate(z)'
  <2>1. /\ sub' = [sub EXCEPT ![call[c].sub].pc = "ready"]
        /\ sub[call[c].sub].pc = "new" /\ UNCHANGED <<dataVars, registered, seen>>
    BY <1>15 DEF EndAnnounce, SkipAnnounce, Launch, WellFormedCalls
  <2>2. /\ sub'[z].pc = sub[z].pc \/ (sub[z].pc = "new" /\ sub'[z].pc = "ready")
        /\ sub'[z].paused = sub[z].paused /\ sub'[z].last = sub[z].last
        /\ sub'[z].result = sub[z].result /\ sub'[z].notify = sub[z].notify
        /\ sub'[z].live = sub[z].live
    BY <1>0, <2>1 DEF Subscriptions
  <2>3. Quiet(z)' => Quiet(z)
    BY <2>1, <2>2 DEF Quiet
  <2>4. QED
    BY <1>2, <2>1, <2>2, <2>3, UpToDateKept
<1>16. ASSUME NEW x \in Subs, Run(x) PROVE UpToDate(z)'
  <2>1. CASE z = x
    BY <1>2, <1>16, <2>1, UpToDateRun
  <2>2. CASE z # x /\ Forget(x)
    <3>1. Dropped({x}) /\ UNCHANGED <<registered, data, told>>
      BY <2>2 DEF Forget
    <3>2. QED
      BY <1>2, <3>1, UpToDateDropped
  <2>3. CASE z # x /\ ~Forget(x)
    <3>1. sub'[z] = sub[z]
      BY <1>0, <1>16, <2>3 DEF Run, Acquire, GiveUp, Invoke, Compare, BeginWrite, EndWrite,
         SkipWrite, Notice, Stop, Unsubscribe
    <3>2. seen'[z] = seen[z] /\ (z \in registered => z \in registered') /\ UNCHANGED dataVars
      BY <1>16, <2>3 DEF Run, Acquire, GiveUp, Invoke, Compare, BeginWrite, EndWrite,
         SkipWrite, Notice, Stop, Unsubscribe, TypeOK
    <3>3. QED
      BY <1>2, <3>1, <3>2, UpToDateAside
  <2>4. QED
    BY <2>1, <2>2, <2>3
<1>17. CASE UNCHANGED vars
  BY <1>2, <1>17, UpToDateAside DEF vars
<1>18. QED
  BY <1>3, <1>4, <1>5, <1>6, <1>7, <1>8, <1>9, <1>10, <1>11, <1>12, <1>13, <1>14, <1>15,
     <1>16, <1>17 DEF Next, Broadcast, Handle, HandleSessionControl, Serve, Finished

----------------------------------------------------------------------------
LEMMA IInvInit == Init => IInv
<1> SUFFICES ASSUME Init PROVE IInv
  OBVIOUS
<1>1. TypeOK /\ WellFormedCalls /\ WellFormedSubs
  BY Initially
<1>2. Fenced
  BY DEF Init, Fenced, NoConn, NoCall, Conns
<1>3. Locked
  BY DEF Init, Locked, NoSub, At
<1>4. Ordered
  BY DEF Init, Ordered, NoSub, Used, At
<1>5. PinnedToActive /\ LiveIsListed /\ NothingOutlivesHandler
  BY DEF Init, PinnedToActive, LiveIsListed, NothingOutlivesHandler, HandlerAt,
     NoSub, NoConn
<1>6. Fresh
  BY DEF Init, Fresh, UpToDate, NoSub, Live
<1>7. QED
  BY <1>1, <1>2, <1>3, <1>4, <1>5, <1>6 DEF IInv

LEMMA IInvNext == IInv /\ [Next]_vars => IInv'
<1> SUFFICES ASSUME IInv, [Next]_vars PROVE IInv'
  OBVIOUS
<1> USE DEF IInv
<1>1. TypeOK' /\ WellFormedCalls' /\ WellFormedSubs'
  BY TypeStep, CallsStep, SubsStep
<1>2. Fenced' /\ PinnedToActive'
  BY FencedStep, PinnedStep
<1>3. LiveIsListed' /\ Locked' /\ Ordered'
  BY ListedStep, LockedStep, OrderedStep
<1>4. NothingOutlivesHandler' /\ Fresh'
  BY OutliveStep, FreshStep
<1>5. QED
  BY <1>1, <1>2, <1>3, <1>4

(* A live subscription runs on the active deployment, or on an older one only
   while a later switch has still to announce itself or to cancel it, however
   admissions, control requests and switches interleave (subscribeWithFence,
   registerSession, addSessionSubscription, ReconnectAll). *)
THEOREM Pinned == Spec => []PinnedToActive
<1>1. IInv => PinnedToActive
  BY DEF IInv
<1>2. QED
  BY <1>1, IInvInit, IInvNext, PTL DEF Spec

(* No live subscription of a session is lost to its client: its id stands for
   it until a request of that session is about to cancel it (addSubscription,
   remove, forget). *)
THEOREM Listed == Spec => []LiveIsListed
<1>1. IInv => LiveIsListed
  BY DEF IInv
<1>2. QED
  BY <1>1, IInvInit, IInvNext, PTL DEF Spec

(* Once every committed write has been announced, a live subscription that waits
   without a notification has sent the result of a run that saw the last write, or
   that it is paused, however writes, runs and notifications interleave
   (InvalidateAll and its channel of one, runOnce and its lastSent). *)
THEOREM Freshness == Spec => []FreshWhenQuiet
<1>1. IInv => FreshWhenQuiet
  BY DEF IInv, Fresh, UpToDate, Expected, Quiet, Waiting, At, FreshWhenQuiet
<1>2. QED
  BY <1>1, IInvInit, IInvNext, PTL DEF Spec

(* When the handler of a stream has returned, no goroutine of a subscription is
   left, none is registered, and the lock of the stream is free or held by a
   request that reports an error (Handle, closeSession, session.wg). *)
THEOREM Outlived == Spec => []NothingOutlivesHandler
<1>1. IInv => NothingOutlivesHandler
  BY DEF IInv
<1>2. QED
  BY <1>1, IInvInit, IInvNext, PTL DEF Spec

(* A message follows the subscribe event of its subscription, and none is
   written once a later subscription for the same id has been announced on the
   stream (sendSubscribe, runOnce, eventStream.write). *)
THEOREM InOrder == Spec => MessagesInOrder
<1>1. IInv /\ [Next]_vars =>
        [\A x \in Subs : seen'[x] \notin {seen[x], None} =>
           /\ x \in shown
           /\ \A y \in shown : y > x =>
                ~(sub[y].conn = sub[x].conn /\ sub[y].id = sub[x].id)]_vars
  BY MessageStep DEF IInv
<1>2. QED
  BY <1>1, IInvInit, IInvNext, PTL DEF Spec, MessagesInOrder

----------------------------------------------------------------------------
(* Where goroutines that cannot go on by themselves are found: a new subscription
   is with the handler or the request that made it, one that is gone from a plain
   connection has been left by its handler, and a session that waits for its
   goroutines has been cancelled. *)
Placed ==
    /\ \A c \in Conns : /\ HandlerAt(c, "resolved") => c \in Plains
                        /\ HandlerAt(c, "waiting") => ~conn[c].live
    /\ \A x \in Subs :
         /\ At(x, "new") /\ sub[x].conn \in Plains => HandlerAt(sub[x].conn, "open")
         /\ At(x, "new") /\ sub[x].conn \in Sessions =>
              CallAt(sub[x].conn, "announce") /\ call[sub[x].conn].sub = x
         /\ At(x, "done") /\ sub[x].conn \in Plains => HandlerAt(sub[x].conn, "returned")

(* Steps that neither move a handler nor make, launch or end a subscription. *)
LEMMA PlacedKept ==
  ASSUME TypeOK, Placed,
         \A d \in Conns : conn'[d].pc = conn[d].pc /\ (conn'[d].live => conn[d].live),
         \A d \in Sessions : call[d].pc = "announce" =>
                               call'[d].pc = "announce" /\ call'[d].sub = call[d].sub,
         \A y \in Subs : \/ sub'[y].pc \notin {"new", "done"}
                         \/ sub'[y].pc = sub[y].pc /\ sub'[y].conn = sub[y].conn
  PROVE  Placed'
<1>1. \A d \in Conns : /\ conn'[d].pc = "resolved" => d \in Plains
                       /\ conn'[d].pc = "waiting" => ~conn'[d].live
  BY DEF Placed, HandlerAt
<1>2. ASSUME NEW x \in Subs, sub'[x].pc \in {"new", "done"}
      PROVE  /\ sub'[x].pc = "new" /\ sub'[x].conn \in Plains => conn'[sub'[x].conn].pc = "open"
             /\ sub'[x].pc = "new" /\ sub'[x].conn \in Sessions =>
                  call'[sub'[x].conn].pc = "announce" /\ call'[sub'[x].conn].sub = x
             /\ sub'[x].pc = "done" /\ sub'[x].conn \in Plains =>
                  conn'[sub'[x].conn].pc = "returned"
  BY <1>2 DEF Placed, HandlerAt, At, CallAt, Conns
<1>3. QED
  BY <1>1, <1>2 DEF Placed, HandlerAt, At, CallAt

LEMMA PlacedStep ==
  ASSUME TypeOK, WellFormedCalls, WellFormedSubs, Placed, [Next]_vars
  PROVE  Placed'
<1> USE DEF switchVars, dataVars, broadcastVars, envVars, callVars, clientVars,
   At, HandlerAt, CallAt, StreamOf, Goto, Lock, Unlock, Conns
<1>0. /\ sub \in [Subs -> Subscriptions] /\ conn \in [Conns -> Handlers]
      /\ call \in [Sessions -> Controls]
      /\ Sessions \cap Plains = {} /\ None \notin Conns \cup Ids \cup Int
  BY RealtimeAssumption DEF TypeOK
<1> USE <1>0
<1>1. ASSUME Activate \/ Commit
      PROVE  Placed'
  BY <1>1 DEF Activate, Commit, Placed
<1>2. ASSUME NEW k \in 1 .. MaxSwitches,
             ReconnectAll(k)
      PROVE  Placed'
  BY <1>2 DEF ReconnectAll, Placed
<1>3. ASSUME NEW k \in 1 .. MaxSwitches, NEW x \in Subs,
             CancelSub(k, x)
      PROVE  Placed'
  <2>1. \A y \in Subs : sub'[y].pc = sub[y].pc /\ sub'[y].conn = sub[y].conn
    BY <1>3 DEF CancelSub, Subscriptions
  <2>2. UNCHANGED call
    BY <1>3 DEF CancelSub
  <2>3. \A d \in Conns : conn'[d].pc = conn[d].pc /\ (conn'[d].live => conn[d].live)
    <3>1. UNCHANGED conn \/ (StreamOf(x) \in Plains /\ Hang(StreamOf(x)))
      BY <1>3 DEF CancelSub
    <3>2. QED
      BY <3>1, Hung
  <2>4. QED
    BY <2>1, <2>2, <2>3, PlacedKept
<1>4. ASSUME NEW k \in 1 .. MaxSwitches, NEW c \in Sessions,
             CancelSession(k, c)
      PROVE  Placed'
  <2>1. UNCHANGED <<call, sub>>
    BY <1>4 DEF CancelSession
  <2>2. QED
    BY <1>4, <2>1, Hung, PlacedKept DEF CancelSession
<1>5. ASSUME NEW w \in 1 .. MaxWrites,
             InvalidateAll(w)
      PROVE  Placed'
  BY <1>5 DEF InvalidateAll, Placed
<1>6. ASSUME NEW w \in 1 .. MaxWrites, NEW x \in Subs,
             Notify(w, x)
      PROVE  Placed'
  <2>1. \A y \in Subs : sub'[y].pc = sub[y].pc /\ sub'[y].conn = sub[y].conn
    BY <1>6 DEF Notify, Subscriptions
  <2>2. UNCHANGED <<conn, call>>
    BY <1>6 DEF Notify
  <2>3. QED
    BY <2>1, <2>2, PlacedKept
<1>7. ASSUME NEW c \in Conns,
             Disconnect(c) \/ EndPing(c)
      PROVE  Placed'
  <2>1. UNCHANGED <<call, sub>>
    BY <1>7 DEF Disconnect, EndPing
  <2>2. QED
    BY <1>7, <2>1, Hung, PlacedKept DEF Disconnect, EndPing
<1>8. ASSUME NEW c \in Conns,
             BeginPing(c) \/ BeginOpen(c)
      PROVE  Placed'
  BY <1>8 DEF BeginPing, BeginOpen, Placed
<1>9. ASSUME NEW c \in Conns,
             Admit(c)
      PROVE  Placed'
  <2>1. /\ \A d \in Conns \ {c} : conn'[d] = conn[d]
        /\ UNCHANGED <<call, sub>>
    BY <1>9 DEF Admit, NoConn
  <2>2. conn[c].pc = "idle" /\ conn'[c].pc = "admitted"
    BY <1>9 DEF Admit, NoConn, Handlers
  <2>3. \A y \in Subs : c \in Plains /\ sub[y].conn = c => sub[y].pc \notin {"new", "done"}
    BY <2>2 DEF Placed, WellFormedSubs
  <2>4. QED
    BY <2>1, <2>2, <2>3 DEF Placed
<1>10. ASSUME NEW c \in Conns,
             Reject(c)
      PROVE  Placed'
  <2>1. /\ \A d \in Conns \ {c} : conn'[d] = conn[d]
        /\ UNCHANGED <<call, sub>>
    BY <1>10 DEF Reject, Leave, NoConn
  <2>2. conn[c].pc \in {"admitted", "resolved"} /\ conn'[c].pc = "returned"
    BY <1>10 DEF Reject, Leave, NoConn, Handlers
  <2>3. \A y \in Subs : c \in Plains /\ sub[y].conn = c => sub[y].pc \notin {"new", "done"}
    BY <2>2 DEF Placed, WellFormedSubs
  <2>4. QED
    BY <2>1, <2>2, <2>3 DEF Placed
<1>11. ASSUME NEW c \in Conns,
             ResolvePlain(c)
      PROVE  Placed'
  <2>1. /\ \A d \in Conns \ {c} : conn'[d] = conn[d]
        /\ UNCHANGED <<call, sub>>
    BY <1>11 DEF ResolvePlain
  <2>2. c \in Plains /\ conn[c].pc = "admitted" /\ conn'[c].pc = "resolved"
    BY <1>11 DEF ResolvePlain, Handlers
  <2>3. \A y \in Subs : c \in Plains /\ sub[y].conn = c => sub[y].pc \notin {"new", "done"}
    BY <2>2 DEF Placed, WellFormedSubs
  <2>4. QED
    BY <2>1, <2>2, <2>3 DEF Placed
<1>12. ASSUME NEW c \in Conns,
             RegisterSession(c)
      PROVE  Placed'
  <2>1. /\ \A d \in Conns \ {c} : conn'[d] = conn[d]
        /\ UNCHANGED <<call, sub>>
    BY <1>12 DEF RegisterSession, Leave, NoConn
  <2>2. conn[c].pc = "admitted" /\ conn'[c].pc \in {"open", "returned"}
    BY <1>12 DEF RegisterSession, Leave, NoConn, Handlers
  <2>3. \A y \in Subs : c \in Plains /\ sub[y].conn = c => sub[y].pc \notin {"new", "done"}
    BY <2>2 DEF Placed, WellFormedSubs
  <2>4. QED
    BY <2>1, <2>2, <2>3 DEF Placed
<1>13. ASSUME NEW c \in Conns,
             Unlist(c) \/ CloseSession(c)
      PROVE  Placed'
  <2>1. /\ \A d \in Conns \ {c} : conn'[d] = conn[d]
        /\ UNCHANGED <<call, sub>>
    BY <1>13 DEF Unlist, CloseSession
  <2>2. /\ conn[c].pc \in {"serving", "unlisted"}
        /\ conn'[c].pc = "unlisted" \/ (conn'[c].pc = "waiting" /\ ~conn'[c].live)
    BY <1>13 DEF Unlist, CloseSession, Handlers
  <2>3. \A y \in Subs : c \in Plains /\ sub[y].conn = c => sub[y].pc \notin {"new", "done"}
    BY <2>2 DEF Placed, WellFormedSubs
  <2>4. QED
    BY <2>1, <2>2, <2>3 DEF Placed
<1>14. ASSUME NEW c \in Conns,
             ReturnSession(c)
      PROVE  Placed'
  <2>1. /\ \A d \in Conns \ {c} : conn'[d] = conn[d]
        /\ UNCHANGED <<call, sub>>
    BY <1>14 DEF ReturnSession, Leave, NoConn
  <2>2. conn[c].pc = "waiting" /\ conn'[c].pc = "returned"
    BY <1>14 DEF ReturnSession, Leave, NoConn, Handlers
  <2>3. \A y \in Subs : c \in Plains /\ sub[y].conn = c => sub[y].pc \notin {"new", "done"}
    BY <2>2 DEF Placed, WellFormedSubs
  <2>4. QED
    BY <2>1, <2>2, <2>3 DEF Placed
<1>15. ASSUME NEW c \in Conns,
             RegisterPlain(c)
      PROVE  Placed'
  <2>1. CASE Fence(conn[c].gen)
    <3>1. PICK x \in Subs : /\ sub' = [sub EXCEPT ![x] = Subscription(c, None, conn[c].snap)]
                            /\ conn' = [conn EXCEPT ![c].pc = "open"]
      BY <1>15, <2>1 DEF RegisterPlain
    <3>2. /\ sub'[x].pc = "new" /\ sub'[x].conn = c
          /\ \A y \in Subs \ {x} : sub'[y] = sub[y]
      BY <3>1 DEF Subscription, NoSub
    <3>3. /\ c \in Plains /\ conn[c].pc = "resolved" /\ UNCHANGED call
          /\ conn'[c].pc = "open" /\ \A d \in Conns \ {c} : conn'[d] = conn[d]
      BY <1>15, <3>1 DEF RegisterPlain, Handlers
    <3>4. \A y \in Subs : sub[y].conn # c
      BY <3>3 DEF WellFormedSubs, Opened
    <3>5. QED
      BY <3>2, <3>3, <3>4 DEF Placed
  <2>2. CASE ~Fence(conn[c].gen)
    <3>1. /\ c \in Plains /\ conn[c].pc = "resolved" /\ UNCHANGED <<call, sub>>
          /\ conn'[c].pc = "returned" /\ \A d \in Conns \ {c} : conn'[d] = conn[d]
      BY <1>15, <2>2 DEF RegisterPlain, Leave, NoConn
    <3>2. \A y \in Subs : sub[y].conn # c
      BY <3>1 DEF WellFormedSubs, Opened
    <3>3. QED
      BY <3>1, <3>2 DEF Placed
  <2>3. QED
    BY <2>1, <2>2
<1>16. ASSUME NEW c \in Conns,
             EndOpen(c) \/ SkipOpen(c)
      PROVE  Placed'
  <2>1. /\ conn[c].pc = "open" /\ conn'[c].pc = "serving" /\ UNCHANGED call
        /\ \A d \in Conns \ {c} : conn'[d] = conn[d]
    BY <1>16 DEF EndOpen, SkipOpen, Handlers
  <2>2. sub' = Started(c)
    BY <1>16 DEF EndOpen, SkipOpen
  <2>3. \A y \in Subs : \/ sub[y].conn = c /\ sub[y].pc = "new" /\ sub'[y].pc = "ready"
                        \/ sub'[y] = sub[y] /\ ~(sub[y].conn = c /\ sub[y].pc = "new")
    BY <2>2 DEF Started, SubsOf, Subscriptions
  <2>4. \A y \in Subs : sub[y].conn = c /\ c \in Plains => sub[y].pc # "done"
    BY <2>1 DEF Placed
  <2>5. QED
    BY <2>1, <2>3, <2>4 DEF Placed
<1>17. ASSUME NEW c \in Conns,
             ReturnPlain(c)
      PROVE  Placed'
  <2>1. /\ c \in Plains /\ conn[c].pc = "serving" /\ UNCHANGED call
        /\ conn'[c].pc = "returned" /\ \A d \in Conns \ {c} : conn'[d] = conn[d]
    BY <1>17 DEF ReturnPlain, Leave, NoConn
  <2>2. \A y \in Subs : \/ sub'[y].pc = "done" /\ sub'[y].conn = c
                        \/ sub'[y] = sub[y] /\ sub[y].conn # c
    BY <1>17 DEF ReturnPlain, Dropped, Gone, SubsOf, NoSub
  <2>3. QED
    BY <2>1, <2>2 DEF Placed
<1>18. ASSUME NEW c \in Sessions, NEW r \in Requests,
             FindSession(c, r)
      PROVE  Placed'
  <2>1. /\ UNCHANGED <<conn, sub>>
        /\ \A d \in Sessions : call[d].pc = "announce" => call'[d] = call[d]
    BY <1>18 DEF FindSession
  <2>2. QED
    BY <2>1, PlacedKept
<1>19. ASSUME NEW c \in Sessions,
             AdmitCall(c) \/ AddSkipped(c) \/ BeginAnnounce(c) \/ BeginError(c)
             \/ SkipError(c) \/ Reply(c)
      PROVE  Placed'
  <2>1. /\ UNCHANGED <<conn, sub>>
        /\ \A d \in Sessions : call[d].pc = "announce" => call'[d] = call[d]
    BY <1>19 DEF AdmitCall, AddSkipped, AddTo, BeginAnnounce, BeginError,
       SkipError, Reply
  <2>2. QED
    BY <2>1, PlacedKept
<1>20. ASSUME NEW c \in Sessions, NEW i \in Ids,
             Remove(c, i) \/ Resolve(c, i)
      PROVE  Placed'
  <2>1. /\ UNCHANGED <<conn, sub>>
        /\ \A d \in Sessions : call[d].pc = "announce" => call'[d] = call[d]
    BY <1>20 DEF Remove, Resolve
  <2>2. QED
    BY <2>1, PlacedKept
<1>21. ASSUME NEW c \in Sessions,
             AddRefused(c) \/ EndError(c)
      PROVE  Placed'
  <2>1. /\ UNCHANGED sub
        /\ \A d \in Sessions : call[d].pc = "announce" => call'[d] = call[d]
    BY <1>21 DEF AddRefused, EndError, AddTo
  <2>2. Hang(c) \/ Delivered(c) \/ Broken(c)
    BY <1>21 DEF AddRefused, EndError, AddTo, Delivered
  <2>3. QED
    BY <2>1, <2>2, Hung, PlacedKept
<1>22. ASSUME NEW c \in Sessions,
             CancelRemoved(c)
      PROVE  Placed'
  <2>1. /\ UNCHANGED conn
        /\ \A d \in Sessions : call[d].pc = "announce" => call'[d] = call[d]
    BY <1>22 DEF CancelRemoved
  <2>2. \A y \in Subs : sub'[y].pc = sub[y].pc /\ sub'[y].conn = sub[y].conn
    BY <1>22 DEF CancelRemoved, Subscriptions
  <2>3. QED
    BY <2>1, <2>2, PlacedKept
<1>23. ASSUME NEW c \in Sessions,
             Add(c)
      PROVE  Placed'
  <2>1. PICK x \in Subs :
          /\ sub' = [sub EXCEPT ![x] = Subscription(c, call[c].id, call[c].snap)]
          /\ call' = [call EXCEPT ![c].pc = "announce", ![c].sub = x]
    BY <1>23 DEF Add, Enlist
  <2>2. /\ sub'[x].pc = "new" /\ sub'[x].conn = c
        /\ \A y \in Subs \ {x} : sub'[y] = sub[y]
    BY <2>1 DEF Subscription, NoSub
  <2>3. /\ call[c].pc = "add" /\ UNCHANGED conn
        /\ call'[c].pc = "announce" /\ call'[c].sub = x
        /\ \A d \in Sessions \ {c} : call'[d] = call[d]
    BY <1>23, <2>1 DEF Add, Enlist, Controls
  <2>4. QED
    BY <2>2, <2>3 DEF Placed
<1>24. ASSUME NEW c \in Sessions,
             EndAnnounce(c) \/ SkipAnnounce(c)
      PROVE  Placed'
  <2>1. /\ sub' = [sub EXCEPT ![call[c].sub].pc = "ready"] /\ call[c].pc = "announce"
        /\ \A d \in Sessions \ {c} : call'[d] = call[d]
    BY <1>24 DEF EndAnnounce, SkipAnnounce, Launch
  <2>2. \A d \in Conns : conn'[d].pc = conn[d].pc /\ (conn'[d].live => conn[d].live)
    <3>1. UNCHANGED conn \/ Delivered(c) \/ Broken(c)
      BY <1>24 DEF EndAnnounce, SkipAnnounce
    <3>2. QED
      BY <3>1, Hung
  <2>3. call[c].sub \in Subs
    BY <2>1 DEF WellFormedCalls
  <2>4. \A y \in Subs : \/ y = call[c].sub /\ sub'[y].pc = "ready"
                        \/ y # call[c].sub /\ sub'[y] = sub[y]
    BY <2>1, <2>3 DEF Subscriptions
  <2>5. \A y \in Subs \ {call[c].sub} : sub[y].pc = "new" => sub[y].conn # c
    BY DEF Placed
  <2>6. QED
    BY <2>1, <2>2, <2>4, <2>5 DEF Placed
<1>25. ASSUME NEW x \in Subs,
             \/ Acquire(x) \/ GiveUp(x) \/ Invoke(x) \/ Compare(x) \/ BeginWrite(x)
             \/ SkipWrite(x) \/ Notice(x) \/ Stop(x) \/ Unsubscribe(x)
      PROVE  Placed'
  <2>1. UNCHANGED <<conn, call>>
    BY <1>25 DEF Acquire, GiveUp, Invoke, Compare, BeginWrite, SkipWrite, Notice, Stop,
       Unsubscribe
  <2>2. \A y \in Subs : \/ sub'[y].pc \notin {"new", "done"} \/ sub'[y] = sub[y]
    BY <1>25 DEF Acquire, GiveUp, Invoke, Compare, BeginWrite, SkipWrite, Notice, Stop,
       Unsubscribe, Waiting, Subscriptions
  <2>3. QED
    BY <2>1, <2>2, PlacedKept
<1>26. ASSUME NEW x \in Subs,
             EndWrite(x)
      PROVE  Placed'
  <2>1. UNCHANGED call /\ \A y \in Subs : sub'[y].pc = "wait" \/ sub'[y] = sub[y]
    BY <1>26 DEF EndWrite, Subscriptions
  <2>2. StreamOf(x) \in Conns
    BY <1>26 DEF EndWrite, WellFormedSubs, Used
  <2>3. Delivered(StreamOf(x)) \/ Broken(StreamOf(x))
    BY <1>26 DEF EndWrite
  <2>4. QED
    BY <2>1, <2>2, <2>3, Hung, PlacedKept
<1>27. ASSUME NEW x \in Subs,
             Forget(x)
      PROVE  Placed'
  <2>1. /\ UNCHANGED <<conn, call>> /\ sub[x].pc = "left"
        /\ \A y \in Subs \ {x} : sub'[y] = sub[y]
        /\ sub'[x].pc = "done" /\ sub'[x].conn = sub[x].conn
    BY <1>27 DEF Forget, Dropped, Gone, NoSub
  <2>2. sub[x].conn \in Sessions
    BY <2>1 DEF WellFormedSubs
  <2>3. QED
    BY <2>1, <2>2 DEF Placed
<1>28. CASE UNCHANGED vars
  BY <1>28 DEF vars, Placed
<1> QED
  BY <1>1, <1>2, <1>3, <1>4, <1>5, <1>6, <1>7, <1>8, <1>9, <1>10, <1>11, <1>12,
     <1>13, <1>14, <1>15, <1>16, <1>17, <1>18, <1>19, <1>20, <1>21, <1>22, <1>23,
     <1>24, <1>25, <1>26, <1>27, <1>28 DEF Next, Broadcast, Client, Handle,
     HandleSessionControl, Run, Serve, Finished

(* When no goroutine can take a step, no lock is held, no query runs, and every
   goroutine of a live stream waits for a notification: so nobody waits for
   anybody. *)
LEMMA NobodyWaits == IInv /\ Placed => CanServe \/ Rested
<1> SUFFICES ASSUME IInv, Placed, ~CanServe PROVE Rested
  OBVIOUS
<1> USE DEF At, HandlerAt, CallAt, StreamOf
<1>1. /\ TypeOK /\ WellFormedCalls /\ WellFormedSubs /\ Locked
      /\ \A c \in Conns : ~CanHandle(c)
      /\ \A c \in Sessions : ~CanControl(c)
      /\ \A x \in Subs : ~CanRun(x)
  BY DEF IInv, CanServe
<1>2. ASSUME NEW c \in Conns PROVE stream[c] = "free"
  <2>1. stream[c] \in {"free", "handler", "sub", "ping", "announce", "error"}
    BY <1>1 DEF TypeOK
  <2>2. stream[c] \notin {"ping", "handler"}
    BY <1>1 DEF Locked, CanHandle
  <2>3. stream[c] \notin {"announce", "error"}
    BY <1>1 DEF Locked, CanControl
  <2>4. ASSUME stream[c] = "sub" PROVE FALSE
    <3>1. PICK x \in Subs : sub[x].conn = c /\ sub[x].pc = "write"
      BY <1>1, <2>4 DEF Locked, SubsOf
    <3>2. QED
      BY <1>1, <2>4, <3>1 DEF CanRun
  <2>5. QED
    BY <2>1, <2>2, <2>3, <2>4
<1>3. ASSUME NEW x \in Subs PROVE sub[x].pc \notin {"query", "result", "send", "write", "left"}
  <2>1. Used(x) => sub[x].conn \in Conns
    BY <1>1 DEF WellFormedSubs
  <2>2. sub[x].pc \notin {"query", "result", "left"}
    BY <1>1 DEF CanRun
  <2>3. sub[x].pc # "send"
    BY <1>1, <1>2, <2>1 DEF CanRun, Used
  <2>4. sub[x].pc # "write"
    BY <1>1, <1>2, <2>1 DEF Locked, Used
  <2>5. QED
    BY <2>2, <2>3, <2>4
<1>4. ASSUME NEW x \in Subs PROVE sub[x].pc # "ready"
  <2>1. Querying = {}
    BY <1>3 DEF Querying
  <2>2. Cardinality(Querying) = 0
    BY <2>1, FS_EmptySet
  <2>3. 0 < MaxConcurrentQueries
    BY RealtimeAssumption
  <2>4. QED
    BY <1>1, <2>2, <2>3 DEF CanRun
<1>5. ASSUME NEW c \in Sessions PROVE call[c].pc = "idle"
  <2>1. call[c].pc \in {"idle", "found", "work", "cancel", "add", "announce", "error"}
    BY <1>1 DEF TypeOK, Controls
  <2>2. stream[c] = "free"
    BY <1>2 DEF Conns
  <2>3. QED
    BY <1>1, <2>1, <2>2 DEF CanControl
<1>6. ASSUME NEW c \in Conns PROVE conn[c].pc \in {"idle", "serving", "waiting", "returned"}
  <2>1. conn[c].pc \in {"idle", "admitted", "resolved", "open", "serving", "unlisted",
                        "waiting", "returned"}
    BY <1>1 DEF TypeOK, Handlers
  <2>2. conn[c].pc # "open"
    BY <1>1, <1>2 DEF CanHandle
  <2>3. conn[c].pc \notin {"admitted", "resolved", "unlisted"}
    BY <1>1 DEF CanHandle, Placed
  <2>4. QED
    BY <2>1, <2>2, <2>3
<1>7. ASSUME NEW x \in Subs, Used(x)
      PROVE  \/ sub[x].pc = "wait" /\ conn[sub[x].conn].live
             \/ sub[x].pc = "ended" /\ sub[x].conn \in Plains
             \/ sub[x].pc = "done"
  <2>1. sub[x].pc \in {"new", "wait", "ended", "done"}
    BY <1>1, <1>3, <1>4, <1>7 DEF TypeOK, Subscriptions, Used
  <2>2. sub[x].conn \in Conns
    BY <1>1, <1>7 DEF WellFormedSubs
  <2>3. sub[x].pc # "new"
    <3>1. CASE sub[x].conn \in Plains
      BY <1>6, <2>2, <3>1 DEF Placed
    <3>2. CASE sub[x].conn \in Sessions
      BY <1>5, <3>2 DEF Placed
    <3>3. QED
      BY <2>2, <3>1, <3>2 DEF Conns
  <2>4. sub[x].pc = "wait" => conn[sub[x].conn].live
    BY <1>1, <1>2, <2>2 DEF CanRun, Waiting, Live
  <2>5. sub[x].pc = "ended" => sub[x].conn \in Plains
    BY <1>1, <2>2 DEF CanRun, Conns
  <2>6. QED
    BY <2>1, <2>3, <2>4, <2>5
<1>8. ASSUME NEW c \in Conns, conn[c].pc = "waiting" PROVE FALSE
  <2>1. ~conn[c].live
    BY <1>8 DEF Placed
  <2>2. ASSUME NEW x \in Subs, sub[x].conn = c PROVE sub[x].pc = "done"
    <3>1. Used(x)
      BY <1>1, <2>2, RealtimeAssumption DEF WellFormedSubs, Used
    <3>2. c \notin Plains
      BY <1>1, <1>8, <2>2 DEF WellFormedSubs
    <3>3. QED
      BY <1>7, <2>1, <2>2, <3>1, <3>2
  <2>3. QED
    BY <1>1, <1>8, <2>2 DEF CanHandle, SubsOf
<1>9. ASSUME NEW c \in Conns, conn[c].pc = "serving" PROVE conn[c].live
  <2> SUFFICES ASSUME ~conn[c].live PROVE FALSE
    OBVIOUS
  <2>1. CASE c \in Sessions
    BY <1>1, <1>9, <2>1 DEF CanHandle
  <2>2. CASE c \in Plains
    <3>1. ASSUME NEW x \in Subs, sub[x].conn = c PROVE sub[x].pc = "ended"
      <4>1. Used(x)
        BY <1>1, <3>1, RealtimeAssumption DEF WellFormedSubs, Used
      <4>2. sub[x].pc # "done"
        BY <1>9, <2>2, <3>1 DEF Placed
      <4>3. QED
        BY <1>7, <3>1, <4>1, <4>2
    <3>2. QED
      BY <1>1, <1>9, <2>2, <3>1 DEF CanHandle, SubsOf
  <2>3. QED
    BY <2>1, <2>2 DEF Conns
<1>10. QED
  BY <1>5, <1>6, <1>8, <1>9 DEF Rested

(* Goroutines never wait for each other for ever: in every state that can be
   reached, at least one of them can take a step, or the handler of every
   cancelled stream has returned and no control request is left unanswered,
   whatever the limits on connections, queries and subscriptions (Handle,
   closeSession, acquireQuery, handleSessionControl, eventStream.write). *)
THEOREM NeverWaiting == Spec => [](CanServe \/ Rested)
<1>1. Init => Placed
  BY DEF Init, Placed, NoConn, NoSub, At, HandlerAt
<1>2. IInv /\ Placed /\ [Next]_vars => Placed'
  BY PlacedStep DEF IInv
<1>3. QED
  BY <1>1, <1>2, NobodyWaits, IInvInit, IInvNext, PTL DEF Spec
=============================================================================
