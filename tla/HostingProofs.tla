---------------------------- MODULE HostingProofs ----------------------------
(***************************************************************************)
(* Proofs about Hosting: user code runs metered, retries never conflict,   *)
(* and what the provider may still hold has latched the observer, for any  *)
(* number of executions, attempts and faults.                              *)
(***************************************************************************)
EXTENDS Hosting, TLAPS

Sent(e, x) == <<e, x, 0>> \in net

(* The provider has recorded exactly the events its state has passed. *)
Recorded ==
    /\ events \subseteq Execs \X Exchanges \X {0}
    /\ net \subseteq Execs \X Exchanges \X {0}
    /\ \A e \in Execs :
        /\ <<e, "admit", 0>> \in events <=> admission[e] # "none"
        /\ <<e, "started", 0>> \in events <=> admission[e] \in {"started", "completed"}
        /\ <<e, "completed", 0>> \in events <=> admission[e] = "completed"

(* A report is sent when the exchange before it was acknowledged. *)
InOrder ==
    \A e \in Execs :
        /\ Sent(e, "started") => admission[e] \in {"admitted", "started", "completed"}
        /\ Sent(e, "completed") => admission[e] \in {"started", "completed"}

(* What an execution knows of the provider, by its step. *)
Known(e) ==
    /\ exec[e].waiting => exec[e].step \in Exchanges
    /\ exec[e].step \in {"idle", "external", "track"} =>
         admission[e] = "none" /\ ~Sent(e, "admit") /\ ~exec[e].uncertain
    /\ exec[e].step = "admit" =>
         /\ admission[e] \in {"none", "denied", "admitted"} /\ ~Sent(e, "started")
         /\ ~exec[e].waiting /\ ~exec[e].uncertain =>
              admission[e] = "none" /\ ~Sent(e, "admit")
    /\ exec[e].step = "started" =>
         admission[e] \in {"admitted", "started"} /\ ~Sent(e, "completed")
    /\ exec[e].step = "run" => admission[e] = "started" /\ ~Sent(e, "completed")
    /\ exec[e].step = "completed" => admission[e] \in {"started", "completed"}
    /\ exec[e].step \in {"close", "done"} /\ ~unhealthy =>
         /\ admission[e] \in {"none", "denied", "completed"}
         /\ admission[e] = "none" => ~Sent(e, "admit")

IInv == TypeOK /\ Recorded /\ InOrder /\ \A e \in Execs : Known(e)

-----------------------------------------------------------------------------
(* Lemmas. *)

(* The entry of an execution that tries again. *)
LEMMA RetriedIs ==
    ASSUME NEW x \in Entries
    PROVE  /\ Retried(x) \in Entries /\ Retried(x).step = x.step
           /\ Retried(x).waiting = FALSE /\ Retried(x).uncertain = TRUE
  <1>1. x.step \in Steps /\ x.attempt + 1 \in Nat \ {0}
    BY DEF Entries
  <1> QED BY <1>1 DEF Entries, Retried

(* What GoTo makes of the table of executions. *)
LEMMA GoToIs ==
    ASSUME TypeOK, NEW e \in Execs, NEW next \in Steps, exec' = GoTo(e, next)
    PROVE  /\ exec' \in [Execs -> Entries]
           /\ exec'[e].step = next /\ exec'[e].waiting = FALSE
           /\ exec'[e].uncertain = exec[e].uncertain
           /\ \A f \in Execs : f # e => exec'[f] = exec[f]
  <1>1. exec \in [Execs -> Entries]
    BY DEF TypeOK
  <1>2. PICK x \in Entries : x = exec[e]
    BY <1>1
  <1>3. exec' = [exec EXCEPT ![e] = Moved(x, next)]
    BY <1>2 DEF GoTo
  <1>4. /\ Moved(x, next) \in Entries /\ Moved(x, next).step = next
        /\ Moved(x, next).waiting = FALSE /\ Moved(x, next).uncertain = x.uncertain
    <2>1. 1 \in Nat \ {0}
      OBVIOUS
    <2> QED BY <2>1 DEF Entries, Moved
  <1>5. /\ exec' \in [Execs -> Entries] /\ exec'[e] = Moved(x, next)
        /\ \A f \in Execs : f # e => exec'[f] = exec[f]
    BY <1>1, <1>3, <1>4
  <1> QED BY <1>2, <1>4, <1>5

(* What the answer to an attempt, or its absence, makes of an execution. *)
LEMMA ReturnedIs ==
    ASSUME TypeOK, NEW e \in Execs, NEW result, Returned(e, result)
    PROVE  /\ exec' \in [Execs -> Entries]
           /\ tracked' \subseteq Execs /\ unhealthy' \in BOOLEAN
           /\ \A f \in Execs : f # e => exec'[f] = exec[f]
           /\ exec'[e].waiting = FALSE /\ (unhealthy => unhealthy')
           /\ \/ /\ result = "ok"
                 /\ \/ exec[e].step = "admit" /\ exec'[e].step = "started"
                    \/ exec[e].step = "started" /\ exec'[e].step = "run"
                    \/ exec[e].step = "completed" /\ exec'[e].step = "close"
              \/ /\ exec[e].step = "admit" /\ exec'[e].step = "close"
                 /\ result = "denied" \/ (result = "busy" /\ ~exec[e].uncertain)
              \/ /\ result # "ok" /\ exec'[e].step = exec[e].step /\ exec'[e].uncertain = TRUE
              \/ result # "ok" /\ exec'[e].step = "close" /\ unhealthy'
  <1> DEFINE Table == [Execs -> Entries]
  <1>1. {"started", "run", "close"} \subseteq Steps /\ exec[e].step \in Steps
    BY DEF TypeOK, Steps, Exchanges, Entries
  <1>2. CASE result # "ok" /\ Again(e)
    <2>1. /\ exec' \in Table /\ exec'[e].step = exec[e].step /\ exec'[e].uncertain = TRUE
          /\ exec'[e].waiting = FALSE /\ \A f \in Execs : f # e => exec'[f] = exec[f]
      BY <1>1, <1>2, RetriedIs DEF TypeOK, Again
    <2>2. tracked' = tracked /\ unhealthy' = unhealthy
      BY <1>2 DEF Again
    <2> QED BY <2>1, <2>2, <1>2 DEF TypeOK
  <1>3. ASSUME NEW step \in Steps, exec' = GoTo(e, step)
        PROVE  /\ exec' \in Table /\ exec'[e].step = step /\ exec'[e].waiting = FALSE
               /\ \A f \in Execs : f # e => exec'[f] = exec[f]
    BY <1>3, GoToIs
  <1>4. CASE exec[e].step = "admit" /\ Admitted(e, result)
    <2>1. CASE result = "ok" /\ exec' = GoTo(e, "started") /\ UNCHANGED <<tracked, unhealthy>>
      BY <2>1, <1>1, <1>3, <1>4 DEF TypeOK
    <2>2. CASE (result = "denied" \/ CleanlyBusy(e, result)) /\ Deny(e) /\ UNCHANGED unhealthy
      BY <2>2, <1>1, <1>3, <1>4 DEF TypeOK, Deny, Forgotten, CleanlyBusy
    <2>3. CASE result # "ok" /\ Again(e)
      BY <2>3, <1>2
    <2>4. CASE result # "ok" /\ Deny(e) /\ Latch
      BY <2>4, <1>1, <1>3, <1>4 DEF TypeOK, Deny, Forgotten, Latch
    <2> QED BY <2>1, <2>2, <2>3, <2>4, <1>4 DEF Admitted, CleanlyBusy
  <1>5. CASE /\ exec[e].step \in {"started", "completed"}
             /\ Reported(e, exec[e].step, result)
    <2>1. CASE /\ result = "ok" /\ UNCHANGED <<tracked, unhealthy>>
               /\ exec' = GoTo(e, IF exec[e].step = "started" THEN "run" ELSE "close")
      BY <2>1, <1>1, <1>3, <1>5 DEF TypeOK
    <2>2. CASE result # "ok" /\ Again(e)
      BY <2>2, <1>2
    <2>3. CASE result # "ok" /\ Latch /\ Unacknowledged(e, exec[e].step)
      BY <2>3, <1>1, <1>3, <1>5 DEF TypeOK, Deny, Forgotten, Latch, Unacknowledged
    <2> QED BY <2>1, <2>2, <2>3, <1>5 DEF Reported
  <1> QED BY <1>4, <1>5 DEF Returned

(* Nothing is known of an execution that a step could invalidate without
   touching it, sending it a message or healing the observer. *)
LEMMA Others ==
    ASSUME NEW f \in Execs, Known(f), exec'[f] = exec[f], admission'[f] = admission[f],
           \A x \in Exchanges : <<f, x, 0>> \in net' => <<f, x, 0>> \in net,
           unhealthy => unhealthy'
    PROVE  Known(f)'
  BY DEF Known, Sent, Exchanges

(* A step of one execution that leaves the provider alone. *)
LEMMA Alone ==
    ASSUME IInv, NEW e \in Execs, exec' \in [Execs -> Entries],
           \A f \in Execs : f # e => exec'[f] = exec[f], Known(e)',
           tracked' \subseteq Execs, unhealthy' \in BOOLEAN, unhealthy => unhealthy',
           external' \in [Execs -> {"none", "open", "ended"}], faults' \in 0 .. MaxFaults,
           UNCHANGED <<net, policy, admission, events>>
    PROVE  IInv'
  <1>1. TypeOK' /\ Recorded' /\ InOrder'
    BY DEF IInv, TypeOK, Recorded, InOrder, Sent
  <1>2. ASSUME NEW f \in Execs PROVE Known(f)'
    <2>1. CASE f = e
      BY <2>1
    <2>2. CASE f # e
      BY <2>2, Others DEF IInv
    <2> QED BY <2>1, <2>2
  <1> QED BY <1>1, <1>2 DEF IInv

(* The answer to an attempt that was not sent, or that is given up. *)
LEMMA GivenUp ==
    ASSUME IInv, NEW e \in Execs, NEW result \in {"busy", "error"}, Calling(e),
           Returned(e, result), result = "busy" => ~exec[e].waiting,
           faults' \in 0 .. MaxFaults, UNCHANGED <<external, net, policy, admission, events>>
    PROVE  IInv'
  <1>1. TypeOK /\ Known(e) /\ InOrder /\ exec[e].step \in Exchanges
    BY DEF IInv, Calling
  <1>2. /\ exec' \in [Execs -> Entries] /\ tracked' \subseteq Execs /\ unhealthy' \in BOOLEAN
        /\ \A f \in Execs : f # e => exec'[f] = exec[f]
        /\ exec'[e].waiting = FALSE /\ (unhealthy => unhealthy')
        /\ \/ /\ exec[e].step = "admit" /\ exec'[e].step = "close"
              /\ result = "busy" /\ ~exec[e].uncertain
           \/ exec'[e].step = exec[e].step /\ exec'[e].uncertain = TRUE
           \/ exec'[e].step = "close" /\ unhealthy'
    BY <1>1, ReturnedIs
  <1>3. Known(e)'
    BY <1>1, <1>2 DEF Known, Sent, Exchanges, InOrder
  <1>4. external' \in [Execs -> {"none", "open", "ended"}]
    BY <1>1 DEF TypeOK
  <1> QED BY <1>2, <1>3, <1>4, Alone

(* What the provider does with a request, and answers. *)
LEMMA Served ==
    ASSUME IInv, NEW e \in Execs, NEW x \in Exchanges, NEW result \in {"ok", "denied", "error"},
           <<e, x, 0>> \in net, net' = net \ {<<e, x, 0>>},
           IF x = "admit" THEN Decide(<<e, x, 0>>, result) ELSE Record(<<e, x, 0>>, result)
    PROVE  /\ Recorded' /\ InOrder'
           /\ admission' \in [Execs -> {"none", "denied", "admitted", "started", "completed"}]
           /\ \A f \in Execs : f # e => admission'[f] = admission[f]
           /\ \/ x = "admit" /\ result = "error" /\ admission'[e] = "none" /\ admission[e] = "none"
              \/ /\ x = "admit" /\ admission[e] = "none"
                 /\ \/ admission'[e] = "denied" /\ result = "denied"
                    \/ admission'[e] = "admitted" /\ result = "ok"
              \/ /\ x = "admit" /\ admission[e] # "none" /\ admission'[e] = admission[e]
                 /\ result = IF admission[e] = "denied" THEN "denied" ELSE "ok"
              \/ /\ x = "started" /\ result = "ok" /\ admission[e] \in {"admitted", "started"}
                 /\ admission'[e] = "started"
              \/ /\ x \in {"started", "completed"} /\ result = "ok" /\ admission[e] = "completed"
                 /\ admission'[e] = "completed"
              \/ /\ x = "completed" /\ result = "ok" /\ admission[e] \in {"started", "completed"}
                 /\ admission'[e] = "completed"
  <1> DEFINE m == <<e, x, 0>>
  <1>1. TypeOK /\ Recorded /\ InOrder
    BY DEF IInv
  <1>2. m[1] = e /\ m[2] = x
    OBVIOUS
  <1>3. /\ \A f \in Execs, y \in Exchanges : <<f, y, 0>> = m <=> f = e /\ y = x
        /\ \A f \in Execs, y \in Exchanges : <<f, y, 0>> \in net' => <<f, y, 0>> \in net
    OBVIOUS
  <1>4. ~Conflict(m)
    BY <1>1, <1>2 DEF Conflict, Repeated, Predecessor, Recorded, InOrder, Sent, Exchanges
  <1>5. CASE UNCHANGED <<admission, events>>
    <2>1. Recorded' /\ InOrder'
      BY <1>1, <1>3, <1>5 DEF Recorded, InOrder, Sent, Exchanges
    <2>2. \/ x = "admit" /\ admission[e] = "none" /\ result = "error"
          \/ Repeated(m) /\ result = IF x = "admit" /\ admission[e] = "denied" THEN "denied" ELSE "ok"
      BY <1>1, <1>2, <1>4, <1>5 DEF Decide, Record, TypeOK, Recorded, Exchanges, Repeated
    <2>3. /\ Repeated(m) /\ x = "admit" => admission[e] # "none"
          /\ Repeated(m) /\ x = "started" => admission[e] \in {"started", "completed"}
          /\ Repeated(m) /\ x = "completed" => admission[e] = "completed"
      BY <1>1 DEF Recorded, Repeated
    <2> QED BY <1>1, <1>5, <2>1, <2>2, <2>3 DEF TypeOK, Exchanges
  <1>6. ASSUME NEW to \in {"denied", "admitted", "started", "completed"},
               admission' = [admission EXCEPT ![e] = to], events' = events \cup {m},
               \/ x = "admit" /\ admission[e] = "none" /\ to \in {"denied", "admitted"}
               \/ x = "started" /\ admission[e] = "admitted" /\ to = "started"
               \/ x = "completed" /\ admission[e] = "started" /\ to = "completed"
        PROVE  /\ Recorded' /\ InOrder' /\ admission'[e] = to
               /\ admission' \in [Execs -> {"none", "denied", "admitted", "started", "completed"}]
               /\ \A f \in Execs : f # e => admission'[f] = admission[f]
    <2>1. /\ admission'[e] = to
          /\ admission' \in [Execs -> {"none", "denied", "admitted", "started", "completed"}]
          /\ \A f \in Execs : f # e => admission'[f] = admission[f]
      BY <1>1, <1>6 DEF TypeOK
    <2>2. \A f \in Execs, y \in Exchanges :
             <<f, y, 0>> \in events' <=> <<f, y, 0>> \in events \/ (f = e /\ y = x)
      BY <1>3, <1>6
    <2>3. events' \subseteq Execs \X Exchanges \X {0} /\ net' \subseteq Execs \X Exchanges \X {0}
      BY <1>1, <1>6 DEF Recorded
    <2>4. \A f \in Execs :
            /\ <<f, "admit", 0>> \in events' <=> admission'[f] # "none"
            /\ <<f, "started", 0>> \in events' <=> admission'[f] \in {"started", "completed"}
            /\ <<f, "completed", 0>> \in events' <=> admission'[f] = "completed"
      BY <1>1, <1>6, <2>1, <2>2 DEF Recorded, Exchanges
    <2>5. InOrder'
      BY <1>1, <1>3, <1>6, <2>1 DEF InOrder, Sent, Exchanges
    <2> QED BY <2>1, <2>3, <2>4, <2>5 DEF Recorded
  <1>7. CASE x = "admit" /\ ~UNCHANGED <<admission, events>>
    <2>1. /\ admission[e] = "none" /\ result = IF policy THEN "ok" ELSE "denied"
          /\ admission' = [admission EXCEPT ![e] = IF policy THEN "admitted" ELSE "denied"]
          /\ events' = events \cup {m}
      BY <1>2, <1>7 DEF Decide
    <2> QED BY <1>6, <1>7, <2>1
  <1>8. CASE x # "admit" /\ ~UNCHANGED <<admission, events>>
    <2>1. /\ ~Repeated(m) /\ result = "ok"
          /\ admission' = [admission EXCEPT ![e] = x] /\ events' = events \cup {m}
      BY <1>2, <1>8 DEF Record
    <2>2. admission[e] = Predecessor(x)
      BY <1>2, <1>4, <1>8, <2>1 DEF Conflict
    <2> QED BY <1>6, <1>8, <2>1, <2>2 DEF Predecessor, Exchanges
  <1> QED BY <1>5, <1>7, <1>8

(* The request is acted on, and the answer heard or not. *)
LEMMA ServeStep ==
    ASSUME IInv, NEW m \in net, ServeHTTP(m)
    PROVE  IInv'
  <1>1. PICK e \in Execs, x \in Exchanges : m = <<e, x, 0>>
    BY DEF IInv, Recorded
  <1> DEFINE heard == exec[e].waiting /\ exec[e].step = x
  <1>2. PICK result \in {"ok", "denied", "error"} :
           /\ IF x = "admit" THEN Decide(m, result) ELSE Record(m, result)
           /\ IF heard THEN Returned(e, result) ELSE UNCHANGED <<exec, tracked, unhealthy>>
    BY <1>1 DEF ServeHTTP, Request, Identifier
  <1>3. /\ net' = net \ {<<e, x, 0>>} /\ UNCHANGED <<external, policy, faults>>
    BY <1>1 DEF ServeHTTP
  <1>4. TypeOK /\ Known(e) /\ InOrder /\ \A f \in Execs : Known(f)
    BY DEF IInv
  <1>5. /\ \A f \in Execs, y \in Exchanges : <<f, y, 0>> \in net' => <<f, y, 0>> \in net
        /\ <<e, x, 0>> \notin net'
    BY <1>3
  <1>6. /\ Recorded' /\ InOrder'
        /\ admission' \in [Execs -> {"none", "denied", "admitted", "started", "completed"}]
        /\ \A f \in Execs : f # e => admission'[f] = admission[f]
        /\ \/ x = "admit" /\ result = "error" /\ admission'[e] = "none" /\ admission[e] = "none"
           \/ /\ x = "admit" /\ admission[e] = "none"
              /\ \/ admission'[e] = "denied" /\ result = "denied"
                 \/ admission'[e] = "admitted" /\ result = "ok"
           \/ /\ x = "admit" /\ admission[e] # "none" /\ admission'[e] = admission[e]
              /\ result = IF admission[e] = "denied" THEN "denied" ELSE "ok"
           \/ /\ x = "started" /\ result = "ok" /\ admission[e] \in {"admitted", "started"}
              /\ admission'[e] = "started"
           \/ /\ x \in {"started", "completed"} /\ result = "ok" /\ admission[e] = "completed"
              /\ admission'[e] = "completed"
           \/ /\ x = "completed" /\ result = "ok" /\ admission[e] \in {"started", "completed"}
              /\ admission'[e] = "completed"
    BY <1>1, <1>2, <1>3, Served
  <1>7. /\ exec' \in [Execs -> Entries] /\ tracked' \subseteq Execs /\ unhealthy' \in BOOLEAN
        /\ \A f \in Execs : f # e => exec'[f] = exec[f]
        /\ unhealthy => unhealthy'
    <2>1. CASE heard
      BY <1>2, <1>4, <2>1, ReturnedIs
    <2>2. CASE ~heard
      BY <1>2, <1>4, <2>2 DEF TypeOK
    <2> QED BY <2>1, <2>2
  <1>8. Known(e)'
    <2>1. CASE ~heard
      <3>1. exec' = exec /\ unhealthy' = unhealthy
        BY <1>2, <2>1
      <3>2. /\ Sent(e, "admit") /\ x # "admit" => admission[e] # "none"
            /\ <<e, x, 0>> \in net
        BY <1>1, <1>4, <1>6 DEF InOrder, Sent
      <3> QED BY <1>4, <1>5, <1>6, <2>1, <3>1, <3>2 DEF Known, Sent, Exchanges
    <2>2. CASE heard
      <3>1. /\ exec'[e].waiting = FALSE
            /\ \/ /\ result = "ok"
                  /\ \/ exec[e].step = "admit" /\ exec'[e].step = "started"
                     \/ exec[e].step = "started" /\ exec'[e].step = "run"
                     \/ exec[e].step = "completed" /\ exec'[e].step = "close"
               \/ /\ exec[e].step = "admit" /\ exec'[e].step = "close" /\ result = "denied"
               \/ /\ result # "ok" /\ exec'[e].step = exec[e].step /\ exec'[e].uncertain = TRUE
               \/ result # "ok" /\ exec'[e].step = "close" /\ unhealthy'
        BY <1>2, <1>4, <2>2, ReturnedIs
      <3>2. /\ Sent(e, "started") => admission[e] # "none"
            /\ Sent(e, "completed") => admission[e] \in {"started", "completed"}
        BY <1>4 DEF InOrder
      <3> QED BY <1>4, <1>5, <1>6, <2>2, <3>1, <3>2 DEF Known, Sent, Exchanges
    <2> QED BY <2>1, <2>2
  <1>9. TypeOK'
    BY <1>3, <1>4, <1>6, <1>7 DEF TypeOK, Recorded
  <1>10. ASSUME NEW f \in Execs PROVE Known(f)'
    BY <1>4, <1>5, <1>6, <1>7, <1>8, Others
  <1> QED BY <1>6, <1>9, <1>10 DEF IInv

(* An attempt is sent, or cannot be. *)
LEMMA CallStep ==
    ASSUME IInv, NEW e \in Execs, Call(e)
    PROVE  IInv'
  <1>1. /\ TypeOK /\ Recorded /\ InOrder /\ Known(e) /\ \A f \in Execs : Known(f)
        /\ Calling(e) /\ exec[e].step \in Exchanges /\ ~exec[e].waiting
        /\ UNCHANGED <<external, policy, admission, events, faults>>
    BY DEF IInv, Call, Calling
  <1>2. CASE Returned(e, "busy") /\ UNCHANGED net
    BY <1>1, <1>2, GivenUp DEF TypeOK
  <1>3. CASE Returned(e, "error") /\ UNCHANGED net
    BY <1>1, <1>3, GivenUp DEF TypeOK
  <1>4. CASE /\ net' = net \cup {Request(e)} /\ exec' = [exec EXCEPT ![e].waiting = TRUE]
             /\ UNCHANGED <<tracked, unhealthy>>
    <2> DEFINE x == exec[e].step
    <2>1. net' = net \cup {<<e, x, 0>>}
      BY <1>4 DEF Request, Identifier
    <2>2. \A f \in Execs, y \in Exchanges :
             <<f, y, 0>> \in net' => <<f, y, 0>> \in net \/ (f = e /\ y = x)
      BY <2>1
    <2>3. /\ exec' \in [Execs -> Entries] /\ \A f \in Execs : f # e => exec'[f] = exec[f]
          /\ exec'[e].step = x /\ exec'[e].waiting = TRUE
          /\ exec'[e].uncertain = exec[e].uncertain
      <3>1. exec \in [Execs -> Entries] /\ exec[e] \in Entries
        BY <1>1 DEF TypeOK
      <3> QED BY <1>4, <3>1 DEF Entries
    <2>4. Recorded'
      BY <1>1, <2>1 DEF Recorded
    <2>5. InOrder'
      BY <1>1, <2>2 DEF InOrder, Sent, Known, Exchanges
    <2>6. Known(e)'
      BY <1>1, <1>4, <2>2, <2>3 DEF Known, Sent, Exchanges
    <2>7. ASSUME NEW f \in Execs PROVE Known(f)'
      <3>1. CASE f = e
        BY <2>6, <3>1
      <3>2. CASE f # e
        BY <1>1, <1>4, <2>2, <2>3, <3>2, Others
      <3> QED BY <3>1, <3>2
    <2>8. TypeOK'
      BY <1>1, <1>4, <2>3, <2>4 DEF TypeOK, Recorded
    <2> QED BY <2>4, <2>5, <2>7, <2>8 DEF IInv
  <1> QED BY <1>2, <1>3, <1>4 DEF Call

(* The invariant is inductive. *)
LEMMA Inductive == IInv /\ [Next]_vars => IInv'
  <1> SUFFICES ASSUME IInv, [Next]_vars PROVE IInv'
    OBVIOUS
  <1>1. TypeOK /\ Recorded /\ InOrder /\ \A f \in Execs : Known(f)
    BY DEF IInv
  <1>2. {"external", "track", "admit", "run", "close", "done", "completed"} \subseteq Steps
    BY DEF Steps, Exchanges
  <1>3. ASSUME NEW e \in Execs, NEW next \in Steps, exec' = GoTo(e, next)
        PROVE  /\ exec' \in [Execs -> Entries] /\ \A f \in Execs : f # e => exec'[f] = exec[f]
               /\ exec'[e].step = next /\ exec'[e].waiting = FALSE
               /\ exec'[e].uncertain = exec[e].uncertain
    BY <1>1, <1>3, GoToIs
  <1>4. ASSUME NEW e \in Execs, Begin(e) PROVE IInv'
    <2>1. PICK next \in {"external", "done"} :
             exec' = GoTo(e, next) /\ UNCHANGED <<tracked, unhealthy, external, provider>>
      BY <1>4 DEF Begin
    <2>2. Known(e)'
      BY <1>1, <1>2, <1>3, <1>4, <2>1 DEF Known, Sent, Begin, provider, Exchanges
    <2> QED BY <1>1, <1>2, <1>3, <2>1, <2>2, Alone DEF TypeOK, provider
  <1>5. ASSUME NEW e \in Execs, BeginExternal(e) PROVE IInv'
    <2>1. PICK next \in {"track", "done"} :
             /\ exec' = GoTo(e, next) /\ UNCHANGED <<tracked, unhealthy, provider>>
             /\ \/ UNCHANGED external
                \/ external' = [external EXCEPT ![e] = "ended"]
                \/ external' = [external EXCEPT ![e] = "open"]
      BY <1>5 DEF BeginExternal
    <2>2. Known(e)'
      BY <1>1, <1>2, <1>3, <1>5, <2>1 DEF Known, Sent, BeginExternal, provider, Exchanges
    <2>3. external' \in [Execs -> {"none", "open", "ended"}]
      BY <1>1, <2>1 DEF TypeOK
    <2> QED BY <1>1, <1>2, <1>3, <2>1, <2>2, <2>3, Alone DEF TypeOK, provider
  <1>6. ASSUME NEW e \in Execs, Track(e) PROVE IInv'
    <2>1. PICK next \in {"close", "admit"} :
             /\ exec' = GoTo(e, next) /\ UNCHANGED <<unhealthy, external, provider>>
             /\ tracked' = tracked \/ tracked' = tracked \cup {e}
      BY <1>6 DEF Track
    <2>2. Known(e)'
      BY <1>1, <1>2, <1>3, <1>6, <2>1 DEF Known, Sent, Track, provider, Exchanges, InOrder
    <2> QED BY <1>1, <1>2, <1>3, <2>1, <2>2, Alone DEF TypeOK, provider
  <1>7. ASSUME NEW e \in Execs, Call(e) PROVE IInv'
    BY <1>7, CallStep
  <1>8. ASSUME NEW e \in Execs, GiveUp(e) PROVE IInv'
    <2>1. /\ Calling(e) /\ Returned(e, "error")
          /\ UNCHANGED <<external, net, policy, admission, events>>
      BY <1>1, <1>8 DEF GiveUp, Calling, Known
    <2>2. faults' \in 0 .. MaxFaults
      BY <1>1, <1>8, HostingAssumption DEF GiveUp, TypeOK
    <2> QED BY <2>1, <2>2, GivenUp
  <1>9. ASSUME NEW e \in Execs, Cancel(e) PROVE IInv'
    <2>1. exec \in [Execs -> Entries] /\ exec[e] \in Entries
      BY <1>1 DEF TypeOK
    <2>2. /\ exec' = [exec EXCEPT ![e].cancelled = TRUE]
          /\ UNCHANGED <<tracked, unhealthy, external, provider>>
      BY <1>9 DEF Cancel
    <2>3. /\ exec' \in [Execs -> Entries] /\ \A f \in Execs : f # e => exec'[f] = exec[f]
          /\ exec'[e].step = exec[e].step /\ exec'[e].waiting = exec[e].waiting
          /\ exec'[e].uncertain = exec[e].uncertain
      BY <2>1, <2>2 DEF Entries
    <2>4. Known(e)'
      BY <1>1, <2>2, <2>3 DEF Known, Sent, provider
    <2> QED BY <1>1, <2>2, <2>3, <2>4, Alone DEF TypeOK, provider
  <1>10. ASSUME NEW e \in Execs, End(e) PROVE IInv'
    <2>1. /\ exec[e].step = "run" /\ exec' = GoTo(e, "completed") /\ tracked' = tracked \ {e}
          /\ UNCHANGED <<unhealthy, external, provider>>
      BY <1>10 DEF End, Completion
    <2>2. Known(e)'
      BY <1>1, <1>2, <1>3, <2>1 DEF Known, Sent, provider, Exchanges
    <2> QED BY <1>1, <1>2, <1>3, <2>1, <2>2, Alone DEF TypeOK, provider
  <1>11. ASSUME NEW e \in Execs, Close(e) PROVE IInv'
    <2>1. /\ exec[e].step = "close" /\ exec' = GoTo(e, "done")
          /\ external' = [external EXCEPT ![e] = "ended"]
          /\ UNCHANGED <<tracked, unhealthy, provider>>
      BY <1>11 DEF Close
    <2>2. Known(e)'
      BY <1>1, <1>2, <1>3, <2>1 DEF Known, Sent, provider, Exchanges
    <2>3. external' \in [Execs -> {"none", "open", "ended"}]
      BY <1>1, <2>1 DEF TypeOK
    <2> QED BY <1>1, <1>2, <1>3, <2>1, <2>2, <2>3, Alone DEF TypeOK, provider
  <1>12. ASSUME NEW m \in net, ServeHTTP(m) PROVE IInv'
    BY <1>12, ServeStep
  <1>13. ASSUME NEW m \in net, Lose(m) PROVE IInv'
    <2>1. /\ net' \subseteq net
          /\ UNCHANGED <<exec, tracked, unhealthy, external, policy, admission, events, faults>>
      BY <1>13 DEF Lose
    <2>2. TypeOK' /\ Recorded' /\ InOrder'
      BY <1>1, <2>1 DEF TypeOK, Recorded, InOrder, Sent
    <2>3. ASSUME NEW f \in Execs PROVE Known(f)'
      BY <1>1, <2>1, Others
    <2> QED BY <2>2, <2>3 DEF IInv
  <1>14. CASE SetPolicy
    <2>1. UNCHANGED <<exec, tracked, unhealthy, external, net, admission, events, faults>>
      BY <1>14 DEF SetPolicy
    <2>2. TypeOK' /\ Recorded' /\ InOrder'
      BY <1>1, <1>14, <2>1 DEF SetPolicy, TypeOK, Recorded, InOrder, Sent
    <2>3. ASSUME NEW f \in Execs PROVE Known(f)'
      BY <1>1, <2>1, Others
    <2> QED BY <2>2, <2>3 DEF IInv
  <1>15. CASE Restart
    <2>1. /\ exec' = [e \in Execs |-> IF exec[e].step = "idle" THEN exec[e]
                                      ELSE [exec[e] EXCEPT !.step = "gone", !.waiting = FALSE]]
          /\ tracked' = {} /\ unhealthy' = FALSE
          /\ UNCHANGED <<external, net, policy, admission, events>>
      BY <1>15 DEF Restart
    <2>2. faults' \in 0 .. MaxFaults
      <3>1. faults \in 0 .. MaxFaults /\ MaxFaults \in Nat
        BY <1>1, HostingAssumption DEF TypeOK
      <3>2. faults < MaxFaults /\ faults' = faults + 1
        BY <1>15 DEF Restart
      <3> QED BY <3>1, <3>2
    <2>3. ASSUME NEW f \in Execs
          PROVE  /\ exec'[f] \in Entries
                 /\ \/ exec[f].step = "idle" /\ exec'[f] = exec[f]
                    \/ exec'[f].step = "gone" /\ exec'[f].waiting = FALSE
      <3>1. exec[f] \in Entries /\ "gone" \in Steps
        BY <1>1 DEF TypeOK, Steps
      <3> QED BY <2>1, <3>1 DEF Entries
    <2>4. TypeOK' /\ Recorded' /\ InOrder'
      <3>1. exec' \in [Execs -> Entries]
        BY <2>1, <2>3
      <3> QED BY <1>1, <2>2, <2>1, <3>1 DEF TypeOK, Recorded, InOrder, Sent
    <2>5. ASSUME NEW f \in Execs PROVE Known(f)'
      BY <1>1, <2>1, <2>3 DEF Known, Sent, Exchanges
    <2> QED BY <2>4, <2>5 DEF IInv
  <1>16. CASE UNCHANGED vars
    BY <1>1, <1>16 DEF vars, IInv, TypeOK, Recorded, InOrder, Known, Sent
  <1> QED
    BY <1>4, <1>5, <1>6, <1>7, <1>8, <1>9, <1>10, <1>11, <1>12, <1>13, <1>14, <1>15, <1>16
    DEF Next

LEMMA Initially == Init => IInv
  <1> SUFFICES ASSUME Init PROVE IInv
    OBVIOUS
  <1>1. ASSUME NEW f \in Execs
        PROVE  /\ exec[f] \in Entries /\ exec[f].step = "idle" /\ exec[f].waiting = FALSE
               /\ exec[f].uncertain = FALSE
    BY DEF Init, Entries, Steps
  <1>2. exec \in [Execs -> Entries]
    BY <1>1 DEF Init
  <1>3. TypeOK
    <2>1. faults \in 0 .. MaxFaults
      BY HostingAssumption DEF Init
    <2>2. /\ external \in [Execs -> {"none", "open", "ended"}]
          /\ admission \in [Execs -> {"none", "denied", "admitted", "started", "completed"}]
          /\ tracked = {} /\ net = {} /\ events = {} /\ policy \in BOOLEAN /\ unhealthy \in BOOLEAN
      BY DEF Init
    <2> QED BY <1>2, <2>1, <2>2 DEF TypeOK
  <1>4. Recorded /\ InOrder
    BY DEF Init, Recorded, InOrder, Sent
  <1>5. \A f \in Execs : Known(f)
    BY <1>1 DEF Init, Known, Sent, Exchanges
  <1> QED BY <1>3, <1>4, <1>5 DEF IInv

-----------------------------------------------------------------------------
(* The theorems. *)

(* The invariant holds in every state, for every value of the constants. *)
THEOREM Invariance == Spec => []IInv
  BY Initially, Inductive, PTL DEF Spec

(* The variables of the observer, the client and the provider keep their
   types, however often an exchange is retried. *)
THEOREM TypeCorrect == Spec => []TypeOK
  <1>1. IInv => TypeOK
    BY DEF IInv
  <1> QED BY <1>1, Invariance, PTL

(* No handler runs before the provider has recorded its start, for any number
   of executions, attempts, slots and faults (Begin of the observer). *)
THEOREM MeteredTheorem == Spec => []RunsAreMetered
  <1>1. IInv => RunsAreMetered
    BY DEF IInv, Known, RunsAreMetered
  <1> QED BY <1>1, Invariance, PTL

(* An execution that ended here and is still reserved there has latched the
   observer, even if the provider acts only later (reportStart, Begin, End). *)
THEOREM LatchTheorem == Spec => []UncertaintyLatches
  <1>1. IInv => UncertaintyLatches
    BY DEF IInv, Known, UncertaintyLatches
  <1> QED BY <1>1, Invariance, PTL

(* Retries are recognised and events arrive in order: the provider never sees
   a conflict (identities of client.go). *)
THEOREM NoConflictTheorem == Spec => []NoConflict
  <1>1. ASSUME IInv PROVE NoConflict
    <2>1. Recorded /\ InOrder
      BY <1>1 DEF IInv
    <2>2. ASSUME NEW m \in net PROVE ~Conflict(m)
      <3>1. PICK e \in Execs, x \in Exchanges : m = <<e, x, 0>>
        BY <2>1 DEF Recorded
      <3>2. m[1] = e /\ m[2] = x
        BY <3>1
      <3> QED
        BY <2>1, <3>1, <3>2 DEF Conflict, Repeated, Predecessor, Recorded, InOrder, Sent, Exchanges
    <2> QED BY <2>2 DEF NoConflict
  <1> QED BY <1>1, Invariance, PTL
=============================================================================
