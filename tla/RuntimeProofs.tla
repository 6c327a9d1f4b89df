-------------------------- MODULE RuntimeProofs --------------------------
(***************************************************************************)
(* Proofs about the JavaScript runtime, for every finite or infinite set   *)
(* of calls, every depth of nesting and every size of the pools.           *)
(*                                                                         *)
(* The invariant has two halves.  Good says of one call what its stack of  *)
(* frames is: the frames below the top are callers inside their handlers,  *)
(* the root frame is of the kind of the call, and the executions that are  *)
(* open are those of the frames, in their order.  TxHeld, SlotsHeld and    *)
(* PoolsHeld say what calls hold together; they need Good, because a call  *)
(* holds the transaction for its own sake or for that of its top frame,    *)
(* never for both.                                                         *)
(***************************************************************************)
EXTENDS Runtime, FiniteSetTheorems, TLAPS

(* The types, one definition per variable.                                  *)
Types == FunctionTypes \cup {"migration", "verify"}
FrameRecord == [type : Types, step : Steps, outcome : Outcomes \cup {"none"}]
CallRecord == [kind : Types,
               step : {"idle", "tx", "pool", "run", "finish", "done"},
               pool : 0 .. MaxPools, expired : BOOLEAN,
               work : 0 .. MaxTotalWork + 1, stack : Seq(FrameRecord),
               answer : Outcomes \cup {"none"}]
Kinds == {"bundle", "handler", "migration"}

RegistryOK == pool \in 0 .. MaxPools /\ made \in 0 .. MaxPools
CallsOK    == call \in [Calls -> CallRecord]
OpenOK     == open \in [Calls -> Seq(Kinds)]
BeganOK    == began \subseteq Calls
DurableOK  == durable \in [Calls -> Nat]

Stack(c) == call[c].stack
Busy(c) == call[c].step \notin {"idle", "done"}
Caller == {"action", "httpAction"}

(* One call: a call not yet made has left no trace; it has frames exactly     *)
(* while it runs; the root frame is of its kind and waits for no transaction;  *)
(* frames below the top are callers in their handlers; a frame has an outcome *)
(* exactly at its end.                                                        *)
Idle(c) == call[c].step = "idle" => call[c] = NoCall /\ durable[c] = 0 /\ c \notin began
Stacked(c) == call[c].step = "run" <=> Len(Stack(c)) > 0
Rooted(c) == Len(Stack(c)) > 0 =>
    Stack(c)[1].type = call[c].kind /\ Stack(c)[1].step # "tx"
Callers(c) == \A i \in 1 .. Len(Stack(c)) - 1 :
    Stack(c)[i].type \in Caller /\ Stack(c)[i].step = "run"
Framed(c) == \A i \in 1 .. Len(Stack(c)) :
    /\ Stack(c)[i].outcome = "none" <=> Stack(c)[i].step # "end"
    /\ Stack(c)[i].step = "tx" => Stack(c)[i].type = "mutation"
    /\ i > 1 => Stack(c)[i].type \in {"query", "mutation", "action"}
(* Who looked up a pool has one; an answer is known when the frames are gone; *)
(* open executions are those of the frames; a call whose handler began is not *)
(* refused; what a root mutation wrote is told by its answer.                 *)
Housed(c) ==
    /\ call[c].step = "tx" => call[c].kind = "mutation"
    /\ call[c].step = "pool" => call[c].kind # "verify"
    /\ call[c].step \in {"tx", "pool", "run"} /\ call[c].kind # "verify" => call[c].pool \in Pools
Replied(c) == call[c].answer = "none" <=> call[c].step \notin {"finish", "done"}
Nesting(c) ==
    /\ Len(open[c]) = IF Len(Stack(c)) > 0 /\ Top(c).step \notin {"loading", "run"}
                      THEN Len(Stack(c)) - 1 ELSE Len(Stack(c))
    /\ \A i \in 1 .. Len(Stack(c)) - 1 : open[c][i] = "handler"
    /\ Len(Stack(c)) > 0 /\ Top(c).step = "run" /\ Top(c).type # "migration"
         => open[c][Len(Stack(c))] = "handler"
Unrefused(c) == c \in began =>
    /\ call[c].step \in {"run", "finish", "done"} /\ call[c].answer # "refused"
    /\ Len(Stack(c)) > 0 => Stack(c)[1].step \in {"run", "end"} /\ Stack(c)[1].outcome # "refused"
Written(c) ==
    /\ call[c].kind = "mutation" =>
         durable[c] = (IF call[c].step = "done" /\ call[c].answer = "ok" THEN 1 ELSE 0)
    /\ call[c].kind \in {"query", "migration", "verify"} => durable[c] = 0
Good(c) ==
    /\ Idle(c) /\ Stacked(c) /\ Rooted(c) /\ Callers(c) /\ Framed(c) /\ Housed(c)
    /\ Replied(c) /\ Nesting(c) /\ Unrefused(c) /\ Written(c)

(* All calls: the transaction, the root slots and the slots of each pool.     *)
TxHeld == /\ tx \in Calls \cup {None}
          /\ \A c \in Calls : tx = c <=> Writing(c)
Admitted == {c \in Calls : Busy(c)}
SlotsHeld ==
    /\ IsFiniteSet(Admitted) /\ others \in 0 .. MaxOthers
    /\ slots \in 0 .. MaxConcurrentExecutions
    /\ slots = others + Cardinality(Admitted)
Residents(p) == {c \in Calls : Holds(c, p)}
PoolHeld(p) ==
    /\ IsFiniteSet(Residents(p)) /\ sem[p] = Cardinality(Residents(p))
    /\ sem[p] \in 0 .. PoolSize
PoolsHeld == sem \in [Pools -> 0 .. PoolSize] /\ \A p \in Pools : PoolHeld(p)

Local == RegistryOK /\ CallsOK /\ OpenOK /\ BeganOK /\ DurableOK /\ \A c \in Calls : Good(c)
Inv == Local /\ TxHeld /\ SlotsHeld /\ PoolsHeld

-----------------------------------------------------------------------------
(* What the updates of a call do *)

LEMMA Tops ==
    ASSUME CallsOK, NEW c \in Calls, Len(Stack(c)) > 0, NEW f \in FrameRecord,
           call' = SetTop(c, f)
    PROVE  /\ CallsOK' /\ \A d \in Calls : d # c => call'[d] = call[d]
           /\ call'[c].kind = call[c].kind /\ call'[c].step = call[c].step
           /\ call'[c].pool = call[c].pool /\ call'[c].answer = call[c].answer
           /\ call'[c].expired = call[c].expired
           /\ Len(Stack(c)') = Len(Stack(c)) /\ Top(c)' = f
           /\ Stack(c)'[Len(Stack(c))] = f
           /\ \A i \in 1 .. Len(Stack(c)) - 1 : Stack(c)'[i] = Stack(c)[i]
  <1> DEFINE s == Stack(c)
             n == Len(s)
             t == [s EXCEPT ![n] = f]
             X == [call[c] EXCEPT !.stack = t]
  <1>1. s \in Seq(FrameRecord) /\ call[c] \in CallRecord
    BY DEF CallsOK, CallRecord, Stack
  <1>2. n \in Nat /\ n \in 1 .. n
    BY <1>1 DEF Stack
  <1>3. t \in Seq(FrameRecord) /\ Len(t) = n /\ t[n] = f
        /\ \A i \in 1 .. n - 1 : t[i] = s[i]
    BY <1>1, <1>2
  <1>4. /\ X \in CallRecord /\ X.stack = t /\ X.kind = call[c].kind
        /\ X.step = call[c].step /\ X.pool = call[c].pool
        /\ X.answer = call[c].answer /\ X.expired = call[c].expired
    BY <1>1, <1>3 DEF CallRecord
  <1>5. call' = [call EXCEPT ![c] = X]
    BY <1>1 DEF SetTop, Stack, CallsOK, CallRecord
  <1>6. call'[c] = X /\ CallsOK' /\ \A d \in Calls : d # c => call'[d] = call[d]
    BY <1>4, <1>5 DEF CallsOK
  <1> QED  BY <1>3, <1>4, <1>6 DEF Stack, Top

(* Beginning an execution adds it inside those that are open.               *)
LEMMA Pushes ==
    ASSUME OpenOK, NEW c \in Calls, NEW k \in Kinds, Push(c, k)
    PROVE  /\ OpenOK' /\ \A d \in Calls : d # c => open'[d] = open[d]
           /\ Len(open'[c]) = Len(open[c]) + 1 /\ open'[c][Len(open[c]) + 1] = k
           /\ \A i \in 1 .. Len(open[c]) : open'[c][i] = open[c][i]
           /\ open' # open
  <1>1. open[c] \in Seq(Kinds)
    BY DEF OpenOK
  <1>2. /\ Append(open[c], k) \in Seq(Kinds)
        /\ Len(Append(open[c], k)) = Len(open[c]) + 1
        /\ Append(open[c], k)[Len(open[c]) + 1] = k
        /\ \A i \in 1 .. Len(open[c]) : Append(open[c], k)[i] = open[c][i]
    BY <1>1
  <1>3. open'[c] = Append(open[c], k) /\ OpenOK'
        /\ \A d \in Calls : d # c => open'[d] = open[d]
    BY <1>2 DEF Push, OpenOK
  <1>4. Len(open'[c]) # Len(open[c])
    BY <1>1, <1>2, <1>3
  <1> QED  BY <1>2, <1>3, <1>4

(* Ending an execution leaves those around it.                              *)
LEMMA Pops ==
    ASSUME OpenOK, NEW c \in Calls, Len(open[c]) > 0, Pop(c)
    PROVE  /\ OpenOK' /\ \A d \in Calls : d # c => open'[d] = open[d]
           /\ Len(open'[c]) = Len(open[c]) - 1
           /\ \A i \in 1 .. Len(open[c]) - 1 : open'[c][i] = open[c][i]
  <1> DEFINE t == SubSeq(open[c], 1, Len(open[c]) - 1)
  <1>1. open[c] \in Seq(Kinds)
    BY DEF OpenOK
  <1>2. /\ t \in Seq(Kinds) /\ Len(t) = Len(open[c]) - 1
        /\ \A i \in 1 .. Len(open[c]) - 1 : t[i] = open[c][i]
    BY <1>1
  <1>3. open' = [open EXCEPT ![c] = t]
    BY DEF Pop
  <1> QED  BY <1>2, <1>3 DEF OpenOK

(* Calling another function adds a frame on top.                            *)
LEMMA Calling ==
    ASSUME CallsOK, NEW c \in Calls, NEW f \in FrameRecord,
           call[c].work <= MaxTotalWork,
           call' = [call EXCEPT ![c].work = @ + 1, ![c].stack = Append(@, f)]
    PROVE  /\ CallsOK' /\ \A d \in Calls : d # c => call'[d] = call[d]
           /\ call'[c].kind = call[c].kind /\ call'[c].step = call[c].step
           /\ call'[c].pool = call[c].pool /\ call'[c].answer = call[c].answer
           /\ Len(Stack(c)') = Len(Stack(c)) + 1 /\ Top(c)' = f
           /\ Stack(c)'[Len(Stack(c)) + 1] = f
           /\ \A i \in 1 .. Len(Stack(c)) : Stack(c)'[i] = Stack(c)[i]
  <1> DEFINE s == Stack(c)
             t == Append(s, f)
             w == call[c].work + 1
             X == [call[c] EXCEPT !.work = w, !.stack = t]
  <1>1. s \in Seq(FrameRecord) /\ call[c] \in CallRecord
    BY DEF CallsOK, CallRecord, Stack
  <1>2. t \in Seq(FrameRecord) /\ Len(t) = Len(s) + 1 /\ t[Len(s) + 1] = f
        /\ \A i \in 1 .. Len(s) : t[i] = s[i]
    BY <1>1
  <1>3. w \in 0 .. MaxTotalWork + 1
    BY <1>1, RuntimeAssumption DEF CallRecord
  <1>4. /\ X \in CallRecord /\ X.stack = t /\ X.kind = call[c].kind
        /\ X.step = call[c].step /\ X.pool = call[c].pool
        /\ X.answer = call[c].answer
    BY <1>1, <1>2, <1>3 DEF CallRecord
  <1>5. call' = [call EXCEPT ![c] = X]
    BY <1>1 DEF Stack, CallsOK, CallRecord
  <1>6. call'[c] = X /\ CallsOK' /\ \A d \in Calls : d # c => call'[d] = call[d]
    BY <1>4, <1>5 DEF CallsOK
  <1> HIDE DEF X, t
  <1>7. Stack(c)' = t /\ Len(t) = Len(s) + 1
    BY <1>2, <1>4, <1>6 DEF Stack
  <1>8. Top(c)' = f
    BY <1>2, <1>7 DEF Stack, Top
  <1> QED  BY <1>2, <1>4, <1>6, <1>7, <1>8

Parents(c) == SubSeq(Stack(c), 1, Len(Stack(c)) - 1)
(* Leaving a nested frame leaves its parents, but for the one it returns to.*)
LEMMA Leaving ==
    ASSUME CallsOK, NEW c \in Calls, Len(Stack(c)) > 1,
           NEW t \in Seq(FrameRecord), Len(t) = Len(Stack(c)) - 1,
           \A i \in 1 .. Len(Stack(c)) - 2 : t[i] = Stack(c)[i],
           call' = [call EXCEPT ![c].stack = t]
    PROVE  /\ CallsOK' /\ \A d \in Calls : d # c => call'[d] = call[d]
           /\ call'[c].kind = call[c].kind /\ call'[c].step = call[c].step
           /\ call'[c].pool = call[c].pool /\ call'[c].answer = call[c].answer
           /\ Stack(c)' = t /\ Top(c)' = t[Len(Stack(c)) - 1]
  <1> DEFINE X == [call[c] EXCEPT !.stack = t]
  <1>1. call[c] \in CallRecord
    BY DEF CallsOK
  <1>2. /\ X \in CallRecord /\ X.stack = t /\ X.kind = call[c].kind
        /\ X.step = call[c].step /\ X.pool = call[c].pool
        /\ X.answer = call[c].answer
    BY <1>1 DEF CallRecord
  <1>3. call' = [call EXCEPT ![c] = X]
    BY <1>1 DEF CallsOK, CallRecord
  <1>4. call'[c] = X /\ CallsOK' /\ \A d \in Calls : d # c => call'[d] = call[d]
    BY <1>2, <1>3 DEF CallsOK
  <1> QED  BY <1>2, <1>4 DEF Stack, Top

-----------------------------------------------------------------------------
(* What a step of one call leaves alone *)

LEMMA OthersGood ==
    ASSUME Local, NEW c \in Calls, Good(c)',
           \A d \in Calls : d # c =>
             /\ call'[d] = call[d] /\ open'[d] = open[d]
             /\ durable'[d] = durable[d] /\ (d \in began' <=> d \in began)
    PROVE  \A d \in Calls : Good(d)'
  <1> SUFFICES ASSUME NEW d \in Calls, d # c PROVE Good(d)'
    OBVIOUS
  <1>1. Good(d) /\ call'[d] = call[d] /\ open'[d] = open[d]
        /\ durable'[d] = durable[d] /\ (d \in began' <=> d \in began)
    BY DEF Local
  <1>2. Idle(d)' /\ Housed(d)' /\ Replied(d)' /\ Written(d)'
    BY <1>1 DEF Good, Idle, Housed, Replied, Written
  <1>3. Stacked(d)' /\ Rooted(d)' /\ Callers(d)' /\ Framed(d)'
    BY <1>1 DEF Good, Stacked, Rooted, Callers, Framed, Stack
  <1>4. Nesting(d)'
    BY <1>1 DEF Good, Nesting, Stack, Top
  <1>5. Unrefused(d)'
    BY <1>1 DEF Good, Unrefused, Stack
  <1> QED  BY <1>2, <1>3, <1>4, <1>5 DEF Good

(* Root slots, pool slots and the transaction stay with who held them.      *)
LEMMA SlotsStay ==
    ASSUME SlotsHeld, UNCHANGED <<slots, others>>,
           \A d \in Calls : Busy(d)' <=> Busy(d)
    PROVE  SlotsHeld'
  <1>1. Admitted' = Admitted
    BY DEF Admitted
  <1> QED  BY <1>1 DEF SlotsHeld

LEMMA PoolsStay ==
    ASSUME PoolsHeld, UNCHANGED sem,
           \A d \in Calls, p \in Pools : Holds(d, p)' <=> Holds(d, p)
    PROVE  PoolsHeld'
  <1>1. \A p \in Pools : Residents(p)' = Residents(p)
    BY DEF Residents
  <1> QED  BY <1>1 DEF PoolsHeld, PoolHeld

LEMMA TxStays ==
    ASSUME TxHeld, UNCHANGED tx, \A d \in Calls : Writing(d)' <=> Writing(d)
    PROVE  TxHeld'
  BY DEF TxHeld

(* A call that takes a root slot, and one that gives it back.               *)
LEMMA SlotTaken ==
    ASSUME SlotsHeld, NEW c \in Calls, ~Busy(c), Busy(c)',
           \A d \in Calls : d # c => (Busy(d)' <=> Busy(d)),
           slots # MaxConcurrentExecutions, slots' = slots + 1, UNCHANGED others
    PROVE  SlotsHeld'
  <1>1. Admitted' = Admitted \cup {c} /\ c \notin Admitted
    BY DEF Admitted
  <1>2. IsFiniteSet(Admitted') /\ Cardinality(Admitted') = Cardinality(Admitted) + 1
    BY <1>1, FS_AddElement DEF SlotsHeld
  <1>3. Cardinality(Admitted) \in Nat
    BY FS_CardinalityType DEF SlotsHeld
  <1> QED  BY <1>2, <1>3, RuntimeAssumption DEF SlotsHeld

LEMMA SlotReturned ==
    ASSUME SlotsHeld, NEW c \in Calls, Busy(c), ~Busy(c)',
           \A d \in Calls : d # c => (Busy(d)' <=> Busy(d)),
           slots' = slots - 1, UNCHANGED others
    PROVE  SlotsHeld'
  <1>1. Admitted' = Admitted \ {c} /\ c \in Admitted
    BY DEF Admitted
  <1>2. IsFiniteSet(Admitted') /\ Cardinality(Admitted') = Cardinality(Admitted) - 1
    BY <1>1, FS_RemoveElement DEF SlotsHeld
  <1>3. Cardinality(Admitted) \in Nat /\ Cardinality(Admitted') \in Nat
    BY <1>2, FS_CardinalityType DEF SlotsHeld
  <1> QED  BY <1>2, <1>3, RuntimeAssumption DEF SlotsHeld

(* A call that takes a slot of its pool, and one that gives it back.        *)
LEMMA PoolTaken ==
    ASSUME PoolsHeld, NEW c \in Calls, NEW q \in Pools, sem[q] < PoolSize,
           sem' = [sem EXCEPT ![q] = @ + 1], Holds(c, q)',
           \A p \in Pools : ~Holds(c, p),
           \A p \in Pools : p # q => ~Holds(c, p)',
           \A d \in Calls, p \in Pools : d # c => (Holds(d, p)' <=> Holds(d, p))
    PROVE  PoolsHeld'
  <1>1. Residents(q)' = Residents(q) \cup {c} /\ c \notin Residents(q)
    BY DEF Residents
  <1>2. \A p \in Pools : p # q => Residents(p)' = Residents(p) /\ sem'[p] = sem[p]
    BY DEF Residents, PoolsHeld
  <1>3. sem'[q] = sem[q] + 1 /\ sem'[q] \in 0 .. PoolSize
    BY RuntimeAssumption DEF PoolsHeld
  <1>4. /\ IsFiniteSet(Residents(q)')
        /\ Cardinality(Residents(q)') = Cardinality(Residents(q)) + 1
    BY <1>1, FS_AddElement DEF PoolsHeld, PoolHeld
  <1>5. PoolHeld(q)'
    BY <1>3, <1>4 DEF PoolsHeld, PoolHeld
  <1>6. \A p \in Pools : PoolHeld(p)'
    BY <1>2, <1>5 DEF PoolsHeld, PoolHeld
  <1> QED  BY <1>2, <1>3, <1>6 DEF PoolsHeld

LEMMA PoolReturned ==
    ASSUME PoolsHeld, NEW c \in Calls, NEW q \in Pools,
           sem' = [sem EXCEPT ![q] = @ - 1], Holds(c, q),
           \A p \in Pools : ~Holds(c, p)',
           \A p \in Pools : p # q => ~Holds(c, p),
           \A d \in Calls, p \in Pools : d # c => (Holds(d, p)' <=> Holds(d, p))
    PROVE  PoolsHeld'
  <1>1. Residents(q)' = Residents(q) \ {c} /\ c \in Residents(q)
    BY DEF Residents
  <1>2. \A p \in Pools : p # q => Residents(p)' = Residents(p) /\ sem'[p] = sem[p]
    BY DEF Residents, PoolsHeld
  <1>3. /\ IsFiniteSet(Residents(q)')
        /\ Cardinality(Residents(q)') = Cardinality(Residents(q)) - 1
    BY <1>1, FS_RemoveElement DEF PoolsHeld, PoolHeld
  <1>4. Cardinality(Residents(q)') \in Nat
    BY <1>3, FS_CardinalityType
  <1>5. sem'[q] = sem[q] - 1 /\ sem'[q] \in 0 .. PoolSize
    BY <1>3, <1>4, RuntimeAssumption DEF PoolsHeld, PoolHeld
  <1>6. PoolHeld(q)'
    BY <1>3, <1>5 DEF PoolsHeld, PoolHeld
  <1>7. \A p \in Pools : PoolHeld(p)'
    BY <1>2, <1>6 DEF PoolsHeld, PoolHeld
  <1> QED  BY <1>2, <1>5, <1>7 DEF PoolsHeld

(* The transaction is taken by one call, which then writes, and given back. *)
LEMMA TxTaken ==
    ASSUME TxHeld, NEW c \in Calls, tx = None, tx' = c, Writing(c)',
           \A d \in Calls : d # c => (Writing(d)' <=> Writing(d))
    PROVE  TxHeld'
  BY RuntimeAssumption DEF TxHeld

LEMMA TxReturned ==
    ASSUME TxHeld, NEW c \in Calls, Writing(c), tx' = None, ~Writing(c)',
           \A d \in Calls : d # c => (Writing(d)' <=> Writing(d))
    PROVE  TxHeld'
  BY RuntimeAssumption DEF TxHeld

(* Steps of the top frame hold what they held.                              *)
LEMMA TopStep ==
    ASSUME Inv, NEW c \in Calls, Len(Stack(c)) > 0, NEW f \in FrameRecord,
           f.type = Top(c).type, f.step # "tx", Top(c).step # "tx",
           call' = SetTop(c, f), UNCHANGED <<slots, others, sem, tx>>
    PROVE  TxHeld' /\ SlotsHeld' /\ PoolsHeld'
  <1>1. CallsOK
    BY DEF Inv, Local
  <1>2. /\ \A d \in Calls : d # c => call'[d] = call[d]
        /\ call'[c].kind = call[c].kind /\ call'[c].step = call[c].step
        /\ call'[c].pool = call[c].pool
        /\ Len(Stack(c)') = Len(Stack(c)) /\ Top(c)' = f
    BY <1>1, Tops
  <1>3. \A d \in Calls : Busy(d)' <=> Busy(d)
    BY <1>2 DEF Busy
  <1>4. \A d \in Calls, p \in Pools : Holds(d, p)' <=> Holds(d, p)
    BY <1>2 DEF Holds
  <1>5. call'[c].stack # <<>> /\ call[c].stack # <<>>
    BY <1>2 DEF Stack
  <1>6. \A d \in Calls : Writing(d)' <=> Writing(d)
    BY <1>2, <1>5 DEF Writing, Nested, Stack, Top
  <1> QED  BY <1>3, <1>4, <1>6, SlotsStay, PoolsStay, TxStays DEF Inv

(* For splitting on a stack of one frame.                                   *)
LEMMA NotOne == \A m \in Nat : m > 0 /\ m # 1 => m > 1
  OBVIOUS

(* The top frame of a call as the invariant has it.                         *)
LEMMA TopFrame ==
    ASSUME Local, NEW c \in Calls, call[c].step = "run"
    PROVE  /\ Len(Stack(c)) \in Nat /\ Len(Stack(c)) > 0
           /\ Top(c) \in FrameRecord /\ Top(c) = Stack(c)[Len(Stack(c))]
           /\ (Top(c).outcome = "none" <=> Top(c).step # "end")
           /\ Len(open[c]) = (IF Top(c).step \in {"loading", "run"}
                              THEN Len(Stack(c)) ELSE Len(Stack(c)) - 1)
           /\ Len(Stack(c)) = 1 => Top(c).type = call[c].kind /\ Top(c).step # "tx"
           /\ Len(Stack(c)) > 1 => /\ call[c].kind \in Caller
                                   /\ Top(c).type \in {"query", "mutation", "action"}
           /\ Len(Stack(c)) = 1 /\ c \in began => Top(c).step \in {"run", "end"}
           /\ call[c].answer = "none"
  <1>1. call[c] \in CallRecord /\ Stack(c) \in Seq(FrameRecord) /\ Good(c)
    BY DEF Local, CallsOK, CallRecord, Stack
  <1>2. Len(Stack(c)) \in Nat /\ Len(Stack(c)) > 0
    BY <1>1 DEF Good, Stacked
  <1>3. Top(c) \in FrameRecord /\ Top(c) = Stack(c)[Len(Stack(c))]
    BY <1>1, <1>2 DEF Top, Stack
  <1>4. Top(c).outcome = "none" <=> Top(c).step # "end"
    BY <1>1, <1>2, <1>3 DEF Good, Framed
  <1>5. Len(open[c]) = (IF Top(c).step \in {"loading", "run"}
                        THEN Len(Stack(c)) ELSE Len(Stack(c)) - 1)
    BY <1>1, <1>2 DEF Good, Nesting
  <1>6. Len(Stack(c)) = 1 => Top(c).type = call[c].kind /\ Top(c).step # "tx"
    BY <1>1, <1>3 DEF Good, Rooted
  <1>7. Len(Stack(c)) > 1 => Top(c).type \in {"query", "mutation", "action"}
    BY <1>1, <1>2, <1>3 DEF Good, Framed
  <1>8. Len(Stack(c)) > 1 => call[c].kind \in Caller
    BY <1>1, <1>2 DEF Good, Callers, Rooted
  <1>9. Len(Stack(c)) = 1 /\ c \in began => Top(c).step \in {"run", "end"}
    BY <1>1, <1>3 DEF Good, Unrefused
  <1>10. call[c].answer = "none"
    BY <1>1 DEF Good, Replied
  <1> QED  BY <1>2, <1>3, <1>4, <1>5, <1>6, <1>7, <1>8, <1>9, <1>10

(* A step of the top frame that opens and closes what it should.            *)
LEMMA TopKeeps ==
    ASSUME Inv, NEW c \in Calls, call[c].step = "run", Top(c).step # "tx",
           NEW f \in FrameRecord, f.type = Top(c).type, f.step # "tx",
           f.outcome = "none" <=> f.step # "end",
           call' = SetTop(c, f),
           UNCHANGED <<pool, made, slots, others, sem, tx, durable>>,
           OpenOK', \A d \in Calls : d # c => open'[d] = open[d],
           Len(open'[c]) = (IF f.step \in {"loading", "run"}
                            THEN Len(Stack(c)) ELSE Len(Stack(c)) - 1),
           \A i \in 1 .. Len(Stack(c)) - 1 : open'[c][i] = open[c][i],
           f.step = "run" /\ f.type # "migration" => open'[c][Len(Stack(c))] = "handler",
           began' = began \/ began' = began \cup {c},
           Len(Stack(c)) = 1 /\ c \in began'
             => f.step \in {"run", "end"} /\ f.outcome # "refused"
    PROVE  Inv'
  <1> DEFINE n == Len(Stack(c))
  <1>1. /\ Local /\ CallsOK /\ Good(c) /\ n \in Nat /\ n > 0
        /\ call[c].answer = "none"
    BY TopFrame DEF Inv, Local
  <1>2. /\ CallsOK' /\ \A d \in Calls : d # c => call'[d] = call[d]
        /\ call'[c].kind = call[c].kind /\ call'[c].step = call[c].step
        /\ call'[c].pool = call[c].pool /\ call'[c].answer = call[c].answer
        /\ Len(Stack(c)') = n /\ Top(c)' = f
        /\ Stack(c)'[n] = f
        /\ \A i \in 1 .. n - 1 : Stack(c)'[i] = Stack(c)[i]
    BY <1>1, Tops
  <1>3. Top(c) = Stack(c)[n]
    BY DEF Top, Stack
  <1>4. Idle(c)' /\ Stacked(c)' /\ Housed(c)' /\ Replied(c)'
    BY <1>1, <1>2 DEF Good, Idle, Stacked, Housed, Replied
  <1>5. Rooted(c)'
    BY <1>1, <1>2, <1>3 DEF Good, Rooted
  <1>6. Callers(c)'
    BY <1>1, <1>2 DEF Good, Callers
  <1>7. Framed(c)'
    BY <1>1, <1>2, <1>3 DEF Good, Framed
  <1>8. Nesting(c)'
    BY <1>1, <1>2 DEF Good, Nesting
  <1>9. Unrefused(c)'
    <2>1. n > 1 => Stack(c)'[1].step = "run" /\ Stack(c)'[1].outcome = "none"
      BY <1>1, <1>2 DEF Good, Callers, Framed
    <2>2. n = 1 => Stack(c)'[1] = f
      BY <1>2
    <2> QED  BY <1>1, <1>2, <2>1, <2>2 DEF Unrefused
  <1>10. Written(c)'
    BY <1>1, <1>2 DEF Good, Written
  <1>11. Good(c)'
    BY <1>4, <1>5, <1>6, <1>7, <1>8, <1>9, <1>10 DEF Good
  <1>12. \A d \in Calls : Good(d)'
    BY <1>1, <1>2, <1>11, OthersGood
  <1>13. RegistryOK' /\ BeganOK' /\ DurableOK'
    BY <1>1 DEF Local, RegistryOK, BeganOK, DurableOK
  <1>14. TxHeld' /\ SlotsHeld' /\ PoolsHeld'
    BY <1>1, TopStep
  <1> QED  BY <1>2, <1>12, <1>13, <1>14 DEF Inv, Local

Still == UNCHANGED <<pool, made, slots, others, sem, tx, durable>>

(* An execution that is not begun ends its frame.                           *)
LEMMA Quits ==
    ASSUME Inv, NEW c \in Calls, Running(c, "load") \/ Running(c, "begin"),
           NEW o \in {"failed", "refused"}, call' = Ended(c, o),
           UNCHANGED <<open, began>>, Still
    PROVE  Inv'
  <1> DEFINE f == [Top(c) EXCEPT !.step = "end", !.outcome = o]
  <1>1. Local /\ call[c].step = "run" /\ Top(c).step \in {"load", "begin"}
    BY DEF Inv, Running
  <1>2. /\ f \in FrameRecord /\ f.type = Top(c).type /\ f.step = "end"
        /\ f.outcome = o
    BY <1>1, TopFrame DEF FrameRecord, Steps, Outcomes
  <1>3. Len(open[c]) = Len(Stack(c)) - 1
    BY <1>1, TopFrame
  <1>4. Len(Stack(c)) = 1 => c \notin began
    BY <1>1, TopFrame
  <1>5. OpenOK'
    BY DEF Inv, Local, OpenOK
  <1> HIDE DEF f
  <1>6. call' = SetTop(c, f)
    BY DEF f, Ended
  <1> QED  BY <1>1, <1>2, <1>3, <1>4, <1>5, <1>6, TopKeeps DEF Still

(* An execution that is begun.                                              *)
LEMMA Enters ==
    ASSUME Inv, NEW c \in Calls, NEW t, NEW k,
           \/ Running(c, "load") /\ t = "loading" /\ k = "bundle" /\ UNCHANGED began
           \/ /\ Running(c, "begin") /\ t = "run" /\ began' = began \cup {c}
              /\ k = (IF Top(c).type = "migration" THEN "migration" ELSE "handler"),
           call' = SetTop(c, [Top(c) EXCEPT !.step = t]), Push(c, k), Still
    PROVE  Inv'
  <1> DEFINE f == [Top(c) EXCEPT !.step = t]
             n == Len(Stack(c))
  <1>1. /\ Local /\ call[c].step = "run" /\ Top(c).step \in {"load", "begin"}
        /\ OpenOK /\ k \in Kinds
    BY DEF Inv, Local, Running, Kinds
  <1>2. Top(c) \in FrameRecord /\ Top(c).outcome = "none" /\ n \in Nat /\ n > 0
        /\ Len(open[c]) = n - 1
    BY <1>1, TopFrame
  <1>3. /\ f \in FrameRecord /\ f.type = Top(c).type /\ f.step = t
        /\ f.outcome = "none"
    BY <1>2 DEF FrameRecord, Steps, Outcomes
  <1>4. /\ OpenOK' /\ \A d \in Calls : d # c => open'[d] = open[d]
        /\ Len(open'[c]) = n /\ open'[c][n] = k
        /\ \A i \in 1 .. n - 1 : open'[c][i] = open[c][i]
    BY <1>1, <1>2, Pushes
  <1>5. n = 1 /\ c \in began' => t = "run"
    BY <1>1, TopFrame
  <1> HIDE DEF f
  <1>6. call' = SetTop(c, f)
    BY DEF f
  <1> QED  BY <1>1, <1>2, <1>3, <1>4, <1>5, <1>6, TopKeeps DEF Still

(* An execution that ends, with its frame or before the handler begins.     *)
LEMMA Exits ==
    ASSUME Inv, NEW c \in Calls, NEW f,
           \/ Running(c, "loading") /\ f = [Top(c) EXCEPT !.step = "begin"]
           \/ \E o \in Outcomes \ {"refused"} :
                /\ Running(c, "loading") \/ Running(c, "run")
                /\ f = [Top(c) EXCEPT !.step = "end", !.outcome = o],
           call' = SetTop(c, f), Pop(c), UNCHANGED began, Still
    PROVE  Inv'
  <1> DEFINE n == Len(Stack(c))
  <1>1. /\ Local /\ call[c].step = "run" /\ Top(c).step \in {"loading", "run"}
        /\ OpenOK
    BY DEF Inv, Local, Running
  <1>2. Top(c) \in FrameRecord /\ Top(c).outcome = "none" /\ n \in Nat /\ n > 0
        /\ Len(open[c]) = n
    BY <1>1, TopFrame
  <1>3. /\ f \in FrameRecord /\ f.type = Top(c).type /\ f.step \in {"begin", "end"}
        /\ (f.outcome = "none" <=> f.step # "end") /\ f.outcome # "refused"
        /\ f.step = "begin" => Top(c).step = "loading"
    BY <1>2 DEF FrameRecord, Steps, Outcomes, Running
  <1>4. /\ OpenOK' /\ \A d \in Calls : d # c => open'[d] = open[d]
        /\ Len(open'[c]) = n - 1
        /\ \A i \in 1 .. n - 1 : open'[c][i] = open[c][i]
    BY <1>1, <1>2, Pops
  <1>5. n = 1 /\ c \in began' => f.step = "end"
    BY <1>1, <1>3, TopFrame
  <1> QED  BY <1>1, <1>2, <1>3, <1>4, <1>5, TopKeeps DEF Still

-----------------------------------------------------------------------------
(* Each action keeps the invariant: frames *)

LEMMA LoadBundleKeeps == ASSUME Inv, NEW c \in Calls, LoadBundle(c) PROVE Inv'
  <1> DEFINE next == [Top(c) EXCEPT !.step = "loading"]
  <1>1. /\ Running(c, "load") /\ BeginExecution(c, "bundle", next) /\ Still
        /\ UNCHANGED began
    <2>1. UNCHANGED durable
      BY DEF LoadBundle
    <2> QED  BY <2>1 DEF LoadBundle, Still
  <1>2. CASE call' = Ended(c, "failed") /\ UNCHANGED open
    BY <1>1, <1>2, Quits
  <1>3. CASE call' = Ended(c, "refused") /\ UNCHANGED open
    BY <1>1, <1>3, Quits
  <1>4. CASE call' = SetTop(c, next) /\ Push(c, "bundle")
    BY <1>1, <1>4, Enters
  <1> QED  BY <1>1, <1>2, <1>3, <1>4 DEF BeginExecution

LEMMA RunBundleKeeps == ASSUME Inv, NEW c \in Calls, RunBundle(c) PROVE Inv'
  <1>1. Running(c, "loading") /\ Pop(c) /\ Still /\ UNCHANGED began
    BY DEF RunBundle, Still
  <1>2. ASSUME NEW o \in Outcomes \ {"refused"}, call' = Ended(c, o) PROVE Inv'
    BY <1>1, <1>2, Exits DEF Ended
  <1>3. CASE call' = SetTop(c, [Top(c) EXCEPT !.step = "begin"])
    BY <1>1, <1>3, Exits
  <1>4. \/ \E o \in Outcomes \ {"refused"} : call' = Ended(c, o)
        \/ call' = SetTop(c, [Top(c) EXCEPT !.step = "begin"])
    BY DEF RunBundle, Outcomes
  <1> QED  BY <1>2, <1>3, <1>4

(* Both kinds of invocation begin alike.                                    *)
LEMMA Invocation ==
    ASSUME Inv, NEW c \in Calls, Running(c, "begin"), NEW k,
           k = (IF Top(c).type = "migration" THEN "migration" ELSE "handler"),
           \/ call' = Ended(c, "failed") /\ UNCHANGED open
           \/ BeginExecution(c, k, [Top(c) EXCEPT !.step = "run"]),
           began' = (IF open' # open THEN began \cup {c} ELSE began), Still
    PROVE  Inv'
  <1> DEFINE next == [Top(c) EXCEPT !.step = "run"]
  <1>1. CASE \E o \in {"failed", "refused"} : call' = Ended(c, o) /\ UNCHANGED open
    BY <1>1, Quits
  <1>2. CASE call' = SetTop(c, next) /\ Push(c, k)
    <2>1. open' # open
      BY <1>2, Pushes DEF Inv, Local, Kinds
    <2>2. Running(c, "begin") /\ began' = began \cup {c}
      BY <2>1
    <2> QED  BY <1>2, <2>2, Enters
  <1> QED  BY <1>1, <1>2 DEF BeginExecution

LEMMA BeginInvocationKeeps == ASSUME Inv, NEW c \in Calls, BeginInvocation(c) PROVE Inv'
  BY Invocation DEF BeginInvocation, Still

LEMMA BeginMigrationKeeps == ASSUME Inv, NEW c \in Calls, BeginMigration(c) PROVE Inv'
  BY Invocation DEF BeginMigration, Still

LEMMA FinishKeeps == ASSUME Inv, NEW c \in Calls, Finish(c) PROVE Inv'
  <1>1. PICK o \in {"ok", "failed", "panic"} : EndExecution(c, Stack(c), o)
    BY DEF Finish, Stack
  <1>2. Running(c, "run") /\ Still /\ UNCHANGED began
    BY DEF Finish, Still
  <1>3. Len(Stack(c)) > 0 /\ Stack(c) \in Seq(FrameRecord) /\ Top(c) \in FrameRecord
        /\ Top(c) = Stack(c)[Len(Stack(c))]
    BY <1>2, TopFrame DEF Inv, Local, Running, CallsOK, CallRecord, Stack
  <1> DEFINE f == [Top(c) EXCEPT !.step = "end", !.outcome = o]
             t == [Stack(c) EXCEPT ![Len(Stack(c))].step = "end",
                                   ![Len(Stack(c))].outcome = o]
  <1>4. t = [Stack(c) EXCEPT ![Len(Stack(c))] = f]
    BY <1>3 DEF FrameRecord
  <1>5. call' = [call EXCEPT ![c].stack = t] /\ Pop(c)
    BY <1>1 DEF EndExecution, Marked
  <1>6. call' = SetTop(c, f)
    BY <1>4, <1>5, <1>3 DEF SetTop, Stack, Inv, Local, CallsOK, CallRecord
  <1>7. o \in Outcomes \ {"refused"}
    BY DEF Outcomes
  <1> QED  BY <1>2, <1>5, <1>6, <1>7, Exits

-----------------------------------------------------------------------------
(* Nested calls *)

LEMMA RunNestedKeeps ==
    ASSUME Inv, NEW c \in Calls, NEW type \in FunctionTypes, RunNested(c, type)
    PROVE  Inv'
  <1> DEFINE f == Frame(type)
             n == Len(Stack(c))
  <1>1. /\ Local /\ CallsOK /\ Good(c) /\ call[c].step = "run" /\ Top(c).step = "run"
        /\ Top(c).type \in Caller /\ call[c].work <= MaxTotalWork
        /\ Still /\ UNCHANGED <<open, began>>
    BY DEF Inv, Local, RunNested, Running, MayCall, Caller, Still
  <1>2. n \in Nat /\ n > 0 /\ Top(c) = Stack(c)[n] /\ Len(open[c]) = n
        /\ call[c].kind \in Caller
    <2>1. n \in Nat /\ n > 0 /\ Top(c) = Stack(c)[n] /\ Len(open[c]) = n
      BY <1>1, TopFrame
    <2>2. n = 1 => call[c].kind \in Caller
      BY <1>1, TopFrame
    <2>3. n > 1 => call[c].kind \in Caller
      BY <1>1, TopFrame
    <2>4. n = 1 \/ n > 1
      BY <2>1, NotOne
    <2> QED  BY <2>1, <2>2, <2>3, <2>4
  <1>3. CASE /\ type # "httpAction"
             /\ call' = [call EXCEPT ![c].work = @ + 1, ![c].stack = Append(@, f)]
    <2>1. /\ f \in FrameRecord /\ f.type = type /\ f.outcome = "none"
          /\ f.step = (IF type = "mutation" THEN "tx" ELSE "load")
      BY DEF Frame, FrameRecord, Types, Steps
    <2> HIDE DEF f
    <2>2. /\ CallsOK' /\ \A d \in Calls : d # c => call'[d] = call[d]
          /\ call'[c].kind = call[c].kind /\ call'[c].step = call[c].step
          /\ call'[c].pool = call[c].pool /\ call'[c].answer = call[c].answer
          /\ Len(Stack(c)') = n + 1 /\ Top(c)' = f /\ Stack(c)'[n + 1] = f
          /\ \A i \in 1 .. n : Stack(c)'[i] = Stack(c)[i]
      BY <1>1, <1>3, <2>1, Calling
    <2>3. Idle(c)' /\ Stacked(c)' /\ Housed(c)' /\ Replied(c)'
      BY <1>1, <1>2, <2>2 DEF Good, Idle, Stacked, Housed, Replied
    <2>4. Rooted(c)'
      BY <1>1, <1>2, <2>2 DEF Good, Rooted
    <2>5. Callers(c)'
      BY <1>1, <1>2, <2>2 DEF Good, Callers
    <2>6. Framed(c)'
      BY <1>1, <1>2, <1>3, <2>1, <2>2 DEF Good, Framed, FunctionTypes
    <2>7. Nesting(c)'
      BY <1>1, <1>2, <2>1, <2>2 DEF Good, Nesting, Caller
    <2>8. Unrefused(c)'
      BY <1>1, <1>2, <2>2 DEF Good, Unrefused
    <2>9. Written(c)'
      BY <1>1, <2>2 DEF Good, Written, Still
    <2>10. Good(c)'
      BY <2>3, <2>4, <2>5, <2>6, <2>7, <2>8, <2>9 DEF Good
    <2>11. \A d \in Calls : Good(d)'
      BY <1>1, <2>2, <2>10, OthersGood DEF Still
    <2>12. SlotsHeld'
      BY <1>1, <2>2, SlotsStay DEF Inv, Busy, Still
    <2>13. PoolsHeld'
      BY <1>1, <2>2, PoolsStay DEF Inv, Holds, Still
    <2>14. Writing(c)' <=> Writing(c)
      BY <1>1, <1>2, <2>1, <2>2 DEF Writing, Caller
    <2>15. TxHeld'
      BY <1>1, <2>2, <2>14, TxStays DEF Inv, Writing, Nested, Top, Still
    <2> QED  BY <1>1, <2>2, <2>11, <2>12, <2>13, <2>15
             DEF Inv, Local, RegistryOK, OpenOK, BeganOK, DurableOK, Still
  <1>4. CASE call' = [call EXCEPT ![c].work = @ + 1, ![c].stack = @]
    <2> DEFINE w == call[c].work + 1
               X == [call[c] EXCEPT !.work = w]
    <2>1. call[c] \in CallRecord /\ w \in 0 .. MaxTotalWork + 1
      BY <1>1, RuntimeAssumption DEF CallsOK, CallRecord
    <2>2. X \in CallRecord
      BY <2>1 DEF CallRecord
    <2>3. call' = [call EXCEPT ![c] = X]
      BY <1>1, <1>4, <2>1 DEF CallsOK, CallRecord
    <2>4. /\ CallsOK' /\ \A d \in Calls : d # c => call'[d] = call[d]
          /\ call'[c].kind = call[c].kind /\ call'[c].step = call[c].step
          /\ call'[c].pool = call[c].pool /\ call'[c].answer = call[c].answer
          /\ call'[c].stack = call[c].stack
      BY <1>1, <2>1, <2>2, <2>3 DEF CallsOK, CallRecord
    <2>5. Good(c)'
      BY <1>1, <2>4 DEF Good, Idle, Stacked, Rooted, Callers, Framed, Housed,
          Replied, Nesting, Unrefused, Written, Stack, Top, Still
    <2>6. \A d \in Calls : Good(d)'
      BY <1>1, <2>4, <2>5, OthersGood DEF Still
    <2>7. SlotsHeld'
      BY <1>1, <2>4, SlotsStay DEF Inv, Busy, Still
    <2>8. PoolsHeld'
      BY <1>1, <2>4, PoolsStay DEF Inv, Holds, Still
    <2>9. TxHeld'
      BY <1>1, <2>4, TxStays DEF Inv, Writing, Nested, Top, Still
    <2> QED  BY <1>1, <2>4, <2>6, <2>7, <2>8, <2>9
             DEF Inv, Local, RegistryOK, OpenOK, BeganOK, DurableOK, Still
  <1> QED  BY <1>3, <1>4 DEF RunNested, CanRunNested

LEMMA BeginNestedTxKeeps == ASSUME Inv, NEW c \in Calls, BeginNestedTx(c) PROVE Inv'
  <1> DEFINE f == [Top(c) EXCEPT !.step = "load"]
             n == Len(Stack(c))
  <1>1. /\ Local /\ CallsOK /\ Good(c) /\ call[c].step = "run" /\ Top(c).step = "tx"
        /\ tx = None /\ tx' = c /\ call' = SetTop(c, f)
        /\ UNCHANGED <<pool, made, slots, others, sem, open, began, durable>>
    BY DEF Inv, Local, BeginNestedTx, Running
  <1>2. /\ n \in Nat /\ n > 1 /\ Top(c) \in FrameRecord /\ Top(c).outcome = "none"
        /\ Top(c) = Stack(c)[n] /\ Len(open[c]) = n - 1
    <2>1. /\ n \in Nat /\ n > 0 /\ Top(c) \in FrameRecord /\ Top(c).outcome = "none"
          /\ Top(c) = Stack(c)[n] /\ Len(open[c]) = n - 1 /\ n # 1
      BY <1>1, TopFrame
    <2>2. n > 1
      BY <2>1, NotOne
    <2> QED  BY <2>1, <2>2
  <1>3. Top(c).type = "mutation"
    BY <1>1, <1>2 DEF Good, Framed
  <1>4. /\ f \in FrameRecord /\ f.type = "mutation" /\ f.step = "load"
        /\ f.outcome = "none"
    BY <1>2, <1>3 DEF FrameRecord, Steps
  <1> HIDE DEF f
  <1>5. /\ CallsOK' /\ \A d \in Calls : d # c => call'[d] = call[d]
        /\ call'[c].kind = call[c].kind /\ call'[c].step = call[c].step
        /\ call'[c].pool = call[c].pool /\ call'[c].answer = call[c].answer
        /\ Len(Stack(c)') = n /\ Top(c)' = f /\ Stack(c)'[n] = f
        /\ \A i \in 1 .. n - 1 : Stack(c)'[i] = Stack(c)[i]
    BY <1>1, <1>2, <1>4, Tops
  <1>6. Idle(c)' /\ Stacked(c)' /\ Housed(c)' /\ Replied(c)' /\ Written(c)'
    BY <1>1, <1>2, <1>5 DEF Good, Idle, Stacked, Housed, Replied, Written
  <1>7. Rooted(c)' /\ Callers(c)'
    BY <1>1, <1>2, <1>5 DEF Good, Rooted, Callers
  <1>8. Framed(c)'
    BY <1>1, <1>2, <1>3, <1>4, <1>5 DEF Good, Framed
  <1>9. Nesting(c)'
    BY <1>1, <1>2, <1>4, <1>5 DEF Good, Nesting
  <1>10. Unrefused(c)'
    BY <1>1, <1>2, <1>5 DEF Good, Unrefused
  <1>11. Good(c)'
    BY <1>6, <1>7, <1>8, <1>9, <1>10 DEF Good
  <1>12. \A d \in Calls : Good(d)'
    BY <1>1, <1>5, <1>11, OthersGood
  <1>13. SlotsHeld'
    BY <1>1, <1>5, SlotsStay DEF Inv, Busy
  <1>14. PoolsHeld'
    BY <1>1, <1>5, PoolsStay DEF Inv, Holds
  <1>15. Writing(c)'
    <2>1. call'[c].stack # <<>> /\ Nested(c)'
      BY <1>2, <1>5 DEF Nested, Stack
    <2> QED  BY <1>1, <1>4, <1>5, <2>1 DEF Writing
  <1>16. \A d \in Calls : d # c => (Writing(d)' <=> Writing(d))
    BY <1>5 DEF Writing, Nested, Top
  <1>17. TxHeld'
    BY <1>1, <1>15, <1>16, TxTaken DEF Inv
  <1> QED  BY <1>1, <1>5, <1>12, <1>13, <1>14, <1>17
           DEF Inv, Local, RegistryOK, OpenOK, BeganOK, DurableOK

LEMMA ReturnNestedKeeps == ASSUME Inv, NEW c \in Calls, ReturnNested(c) PROVE Inv'
  <1> DEFINE s == Stack(c)
             n == Len(Stack(c))
             p == Parents(c)
             mutation == Top(c).type = "mutation"
             out == IF mutation THEN AfterTx(c, Top(c).outcome) ELSE Top(c).outcome
  <1>1. /\ Local /\ CallsOK /\ Good(c) /\ call[c].step = "run" /\ Top(c).step = "end"
        /\ Nested(c)
        /\ IF mutation THEN Settle(c, Top(c).outcome) ELSE UNCHANGED <<tx, durable>>
        /\ UNCHANGED <<pool, made, slots, others, sem, began>>
    BY DEF Inv, Local, ReturnNested, Running
  <1>2. /\ n \in Nat /\ n > 1 /\ Top(c) \in FrameRecord /\ Top(c).outcome # "none"
        /\ Top(c) = s[n] /\ Len(open[c]) = n - 1 /\ call[c].kind \in Caller
        /\ call[c].answer = "none"
    BY <1>1, TopFrame DEF Nested, Stack
  <1>3. /\ s \in Seq(FrameRecord) /\ p \in Seq(FrameRecord) /\ Len(p) = n - 1
        /\ \A i \in 1 .. n - 1 : p[i] = s[i]
    <2>1. s \in Seq(FrameRecord)
      BY <1>1 DEF CallsOK, CallRecord, Stack
    <2> QED  BY <1>2, <2>1 DEF Parents
  <1>4. \A i \in 1 .. n - 1 : /\ s[i].type \in Caller /\ s[i].step = "run"
                              /\ s[i].outcome = "none" /\ s[i] \in FrameRecord
    BY <1>1, <1>2, <1>3 DEF Good, Callers, Framed
  <1>5. PICK t \in Seq(FrameRecord) :
          /\ Len(t) = n - 1 /\ \A i \in 1 .. n - 2 : t[i] = s[i]
          /\ t[n - 1].type = s[n - 1].type
          /\ \/ t[n - 1].step = "run" /\ t[n - 1].outcome = "none" /\ UNCHANGED open
             \/ /\ t[n - 1].step = "end" /\ t[n - 1].outcome \in Outcomes \ {"refused"}
                /\ Pop(c)
          /\ call' = [call EXCEPT ![c].stack = t]
    <2>1. CASE UNCHANGED open /\ call' = [call EXCEPT ![c].stack = p]
      <3>1. n - 1 \in 1 .. n - 1 /\ \A i \in 1 .. n - 2 : i \in 1 .. n - 1
        BY <1>2
      <3>2. p[n - 1] = s[n - 1] /\ \A i \in 1 .. n - 2 : p[i] = s[i]
        BY <1>3, <3>1
      <3>3. s[n - 1].step = "run" /\ s[n - 1].outcome = "none"
        BY <1>4, <3>1
      <3> HIDE DEF p, s
      <3> QED  BY <1>3, <2>1, <3>2, <3>3
    <2>2. CASE EndExecution(c, p, out)
      <3> DEFINE o == Marked(out)
                 f == [s[n - 1] EXCEPT !.step = "end", !.outcome = o]
                 t == [p EXCEPT ![n - 1] = f]
      <3>1. o \in Outcomes \ {"refused"}
        BY <1>2 DEF Marked, AfterTx, FrameRecord, Outcomes
      <3>6. n - 1 \in 1 .. n - 1 /\ s[n - 1] \in FrameRecord /\ p[n - 1] = s[n - 1]
        <4>1. n - 1 \in 1 .. n - 1
          BY <1>2
        <4> QED  BY <1>3, <1>4, <4>1
      <3> HIDE DEF o
      <3>2. /\ f \in FrameRecord /\ f.type = s[n - 1].type /\ f.step = "end"
            /\ f.outcome = o
        BY <3>1, <3>6 DEF FrameRecord, Steps
      <3> HIDE DEF f
      <3>3. t \in Seq(FrameRecord) /\ Len(t) = n - 1 /\ t[n - 1] = f
            /\ \A i \in 1 .. n - 2 : t[i] = s[i]
        BY <1>2, <1>3, <3>2
      <3>4. t = [p EXCEPT ![n - 1].step = "end", ![n - 1].outcome = o]
        BY <1>3, <3>6 DEF FrameRecord, f
      <3>5. call' = [call EXCEPT ![c].stack = t] /\ Pop(c)
        BY <1>3, <2>2, <3>4 DEF EndExecution, o
      <3> HIDE DEF t
      <3> QED  BY <3>1, <3>2, <3>3, <3>5
    <2> QED  BY <2>1, <2>2 DEF ReturnNested, Parents, Stack
  <1>6. /\ CallsOK' /\ \A d \in Calls : d # c => call'[d] = call[d]
        /\ call'[c].kind = call[c].kind /\ call'[c].step = call[c].step
        /\ call'[c].pool = call[c].pool /\ call'[c].answer = call[c].answer
        /\ Stack(c)' = t /\ Top(c)' = t[n - 1]
    BY <1>1, <1>2, <1>5, Leaving
  <1>7. /\ OpenOK' /\ \A d \in Calls : d # c => open'[d] = open[d]
        /\ \/ Len(open'[c]) = n - 1 /\ open' = open /\ t[n - 1].step = "run"
           \/ Len(open'[c]) = n - 2 /\ t[n - 1].step = "end"
        /\ \A i \in 1 .. n - 2 : open'[c][i] = open[c][i]
    <2>1. OpenOK
      BY DEF Inv, Local
    <2>2. CASE UNCHANGED open /\ t[n - 1].step = "run"
      BY <1>2, <2>1, <2>2 DEF OpenOK
    <2>3. CASE Pop(c) /\ t[n - 1].step = "end"
      BY <1>2, <2>1, <2>3, Pops
    <2> QED  BY <1>5, <2>2, <2>3
  <1>8. Idle(c)' /\ Stacked(c)' /\ Housed(c)' /\ Replied(c)'
    BY <1>1, <1>2, <1>5, <1>6 DEF Good, Idle, Stacked, Housed, Replied
  <1>9. Rooted(c)' /\ Callers(c)'
    <2>1. \A i \in 1 .. n - 2 : t[i].type \in Caller /\ t[i].step = "run"
      BY <1>2, <1>4, <1>5
    <2>2. t[1].type = s[1].type /\ t[1].step # "tx"
      <3>1. CASE n = 2
        BY <1>5, <3>1
      <3>2. CASE n > 2
        <4>1. 1 \in 1 .. n - 2 /\ 1 \in 1 .. n - 1
          BY <1>2, <3>2
        <4> QED  BY <1>4, <1>5, <4>1
      <3>3. n = 2 \/ n > 2
        <4>1. \A m \in Nat : m > 1 => m = 2 \/ m > 2
          OBVIOUS
        <4> QED  BY <1>2, <4>1
      <3> QED  BY <3>1, <3>2, <3>3
    <2> QED  BY <1>1, <1>2, <1>5, <1>6, <2>1, <2>2 DEF Good, Rooted, Callers
  <1>10. Framed(c)'
    <2>1. \A i \in 1 .. n - 1 : i \in 1 .. n /\ (i \in 1 .. n - 2 \/ i = n - 1)
      BY <1>2
    <2>2. \A i \in 1 .. n - 1 :
            /\ t[i].type = s[i].type /\ t[i].step # "tx"
            /\ t[i].outcome = "none" <=> t[i].step # "end"
      BY <1>4, <1>5, <2>1 DEF Outcomes
    <2>3. \A i \in 1 .. n - 1 : i > 1 => s[i].type \in {"query", "mutation", "action"}
      BY <1>1, <2>1 DEF Good, Framed
    <2> QED  BY <1>5, <1>6, <2>2, <2>3 DEF Framed
  <1>11. Nesting(c)'
    <2>1. \A i \in 1 .. n - 1 : open[c][i] = "handler"
      BY <1>1 DEF Good, Nesting
    <2>2. \A i \in 1 .. n - 2 : open'[c][i] = "handler"
      <3>1. \A i \in 1 .. n - 2 : i \in 1 .. n - 1
        BY <1>2
      <3> QED  BY <1>7, <2>1, <3>1
    <2>3. t[n - 1].step = "run" => open'[c][n - 1] = "handler" /\ Len(open'[c]) = n - 1
      <3>1. n - 1 \in 1 .. n - 1
        BY <1>2
      <3> QED  BY <1>7, <2>1, <3>1
    <2>4. t[n - 1].step = "end" => Len(open'[c]) = n - 2
      BY <1>7
    <2> QED  BY <1>2, <1>5, <1>6, <2>2, <2>3, <2>4 DEF Nesting
  <1>12. Unrefused(c)'
    BY <1>1, <1>2, <1>4, <1>5, <1>6 DEF Good, Unrefused
  <1>13. Written(c)'
    BY <1>1, <1>2, <1>6 DEF Written, Caller
  <1>14. Good(c)'
    BY <1>8, <1>9, <1>10, <1>11, <1>12, <1>13 DEF Good
  <1>15. DurableOK' /\ \A d \in Calls : d # c => durable'[d] = durable[d]
    BY <1>1 DEF Local, DurableOK, Settle
  <1>16. \A d \in Calls : Good(d)'
    BY <1>1, <1>6, <1>7, <1>14, <1>15, OthersGood
  <1>17. SlotsHeld'
    BY <1>1, <1>6, SlotsStay DEF Inv, Busy
  <1>18. PoolsHeld'
    BY <1>1, <1>6, PoolsStay DEF Inv, Holds
  <1>19. \A d \in Calls : d # c => (Writing(d)' <=> Writing(d))
    BY <1>6 DEF Writing, Nested, Top
  <1>20. ~Writing(c)'
    <2>1. n - 1 \in 1 .. n - 1
      BY <1>2
    <2>2. Top(c)'.type \in Caller
      BY <1>4, <1>5, <1>6, <2>1
    <2>3. call'[c].kind \in Caller
      BY <1>2, <1>6
    <2> QED  BY <2>2, <2>3 DEF Writing, Caller
  <1>21. Writing(c) <=> mutation
    BY <1>1, <1>2 DEF Writing, Caller, Stack
  <1>22. TxHeld'
    <2>1. CASE mutation
      BY <1>1, <1>19, <1>20, <1>21, <2>1, TxReturned DEF Inv, Settle
    <2>2. CASE ~mutation
      BY <1>1, <1>19, <1>20, <1>21, <2>2, TxStays DEF Inv
    <2> QED  BY <2>1, <2>2
  <1> QED  BY <1>1, <1>6, <1>7, <1>15, <1>16, <1>17, <1>18, <1>22
           DEF Inv, Local, RegistryOK, BeganOK

-----------------------------------------------------------------------------
(* The beginning and the end of a root invocation *)

LEMMA Replaced ==
    ASSUME CallsOK, NEW c \in Calls, NEW X \in CallRecord, call' = [call EXCEPT ![c] = X]
    PROVE  CallsOK' /\ call'[c] = X /\ \A d \in Calls : d # c => call'[d] = call[d]
  BY DEF CallsOK

(* A step of one call that leaves what it does to the others alone.         *)
LEMMA Alone ==
    ASSUME Local, NEW c \in Calls, CallsOK', Good(c)',
           \A d \in Calls : d # c => call'[d] = call[d] /\ durable'[d] = durable[d],
           UNCHANGED <<pool, made, open, began>>, DurableOK'
    PROVE  Local'
  <1>1. \A d \in Calls : Good(d)'
    BY OthersGood
  <1> QED  BY <1>1 DEF Local, RegistryOK, OpenOK, BeganOK

LEMMA ReleasePoolKeeps == ASSUME Inv, NEW c \in Calls, ReleasePool(c) PROVE Inv'
  <1> DEFINE a == Top(c).outcome
             X == [call[c] EXCEPT !.step = "finish", !.answer = a, !.stack = <<>>]
  <1>1. /\ Local /\ CallsOK /\ Good(c) /\ call[c].step = "run" /\ Top(c).step = "end"
        /\ ~Nested(c) /\ call[c] \in CallRecord
        /\ UNCHANGED <<pool, made, slots, others, tx, open, began, durable>>
        /\ sem' = (IF call[c].kind = "verify" THEN sem
                   ELSE [sem EXCEPT ![call[c].pool] = @ - 1])
    BY DEF Inv, Local, CallsOK, ReleasePool, Running, Home
  <1>2. /\ Len(Stack(c)) \in Nat /\ Len(Stack(c)) > 0 /\ Top(c) \in FrameRecord
        /\ a # "none" /\ Top(c) = Stack(c)[Len(Stack(c))]
        /\ Len(open[c]) = Len(Stack(c)) - 1
    BY <1>1, TopFrame
  <1>3. Len(Stack(c)) = 1 /\ ~(Len(Stack(c)) > 1)
    BY <1>1, <1>2, NotOne DEF Nested, Stack
  <1>4. a \in Outcomes
    BY <1>2 DEF FrameRecord
  <1>5. c \in began => a # "refused"
    BY <1>1, <1>2, <1>3 DEF Good, Unrefused
  <1> HIDE DEF a
  <1>6. /\ X \in CallRecord /\ X.step = "finish" /\ X.answer = a /\ X.stack = <<>>
        /\ X.kind = call[c].kind /\ X.pool = call[c].pool
    <2>1. <<>> \in Seq(FrameRecord) /\ a \in Outcomes \cup {"none"}
      BY <1>4
    <2> QED  BY <1>1, <2>1 DEF CallRecord
  <1>7. call' = [call EXCEPT ![c] = X]
    BY <1>1 DEF ReleasePool, CallsOK, CallRecord, a
  <1> HIDE DEF X
  <1>8. CallsOK' /\ call'[c] = X /\ \A d \in Calls : d # c => call'[d] = call[d]
    BY <1>1, <1>6, <1>7, Replaced
  <1>9. Stack(c)' = <<>> /\ Len(Stack(c)') = 0
    BY <1>6, <1>8 DEF Stack
  <1>10. Idle(c)' /\ Stacked(c)' /\ Housed(c)' /\ Replied(c)'
    BY <1>4, <1>6, <1>8, <1>9 DEF Idle, Stacked, Housed, Replied, Outcomes
  <1>11. Rooted(c)' /\ Callers(c)' /\ Framed(c)'
    BY <1>9 DEF Rooted, Callers, Framed
  <1>12. Nesting(c)'
    BY <1>1, <1>2, <1>3, <1>9 DEF Nesting
  <1>13. Unrefused(c)' /\ Written(c)'
    BY <1>1, <1>5, <1>6, <1>8, <1>9 DEF Good, Unrefused, Written
  <1>14. Good(c)'
    BY <1>10, <1>11, <1>12, <1>13 DEF Good
  <1>15. Local'
    BY <1>1, <1>8, <1>14, Alone DEF Local, DurableOK
  <1>16. SlotsHeld'
    BY <1>1, <1>6, <1>8, SlotsStay DEF Inv, Busy
  <1>17. Writing(c)' <=> Writing(c)
    BY <1>1, <1>6, <1>8 DEF Writing
  <1>18. TxHeld'
    BY <1>1, <1>8, <1>17, TxStays DEF Inv, Writing, Nested, Top
  <1>19. PoolsHeld'
    <2>1. \A p \in Pools : ~Holds(c, p)'
      BY <1>6, <1>8 DEF Holds
    <2>2. \A d \in Calls, p \in Pools : d # c => (Holds(d, p)' <=> Holds(d, p))
      BY <1>8 DEF Holds
    <2>3. CASE call[c].kind = "verify"
      <3>1. \A p \in Pools : ~Holds(c, p)
        BY <2>3 DEF Holds
      <3>2. \A d \in Calls, p \in Pools : Holds(d, p)' <=> Holds(d, p)
        BY <2>1, <2>2, <3>1
      <3> QED  BY <1>1, <2>3, <3>2, PoolsStay DEF Inv
    <2>4. CASE call[c].kind # "verify"
      <3> DEFINE q == call[c].pool
      <3>1. q \in Pools
        BY <1>1, <2>4 DEF Good, Housed
      <3>2. Holds(c, q) /\ \A p \in Pools : p # q => ~Holds(c, p)
        BY <1>1, <2>4 DEF Holds
      <3>3. sem' = [sem EXCEPT ![q] = @ - 1]
        BY <1>1, <2>4
      <3> HIDE DEF q
      <3> QED  BY <2>1, <2>2, <3>1, <3>2, <3>3, PoolReturned DEF Inv
    <2> QED  BY <2>3, <2>4
  <1> QED  BY <1>15, <1>16, <1>18, <1>19 DEF Inv

LEMMA ReturnKeeps == ASSUME Inv, NEW c \in Calls, Return(c) PROVE Inv'
  <1> DEFINE mutation == call[c].kind = "mutation"
             a == IF mutation THEN AfterTx(c, call[c].answer) ELSE call[c].answer
             X == [call[c] EXCEPT !.step = "done", !.answer = a]
  <1>1. /\ Local /\ CallsOK /\ Good(c) /\ call[c].step = "finish"
        /\ call[c] \in CallRecord /\ slots' = slots - 1
        /\ UNCHANGED <<pool, made, others, sem, open, began>>
    BY DEF Inv, Local, CallsOK, Return
  <1>2. /\ mutation => Settle(c, call[c].answer)
        /\ call[c].kind = "migration" => tx' = None /\ UNCHANGED durable
        /\ ~mutation /\ call[c].kind # "migration" => UNCHANGED <<tx, durable>>
    <2>1. CASE mutation
      BY <2>1 DEF Return
    <2>2. CASE call[c].kind = "migration"
      BY <2>2 DEF Return
    <2>3. CASE ~mutation /\ call[c].kind # "migration"
      BY <2>3 DEF Return
    <2> QED  BY <2>1, <2>2, <2>3
  <1>3. call[c].answer \in Outcomes /\ a \in Outcomes
    BY <1>1 DEF Good, Replied, CallRecord, AfterTx, Outcomes
  <1>4. c \in began => a # "refused"
    BY <1>1 DEF Good, Unrefused, AfterTx
  <1>5. /\ durable[c] \in Nat
        /\ mutation => durable[c] = 0
        /\ call[c].kind \in {"query", "migration", "verify"} => durable[c] = 0
    BY <1>1 DEF Good, Written, Local, DurableOK
  <1>6. DurableOK' /\ \A d \in Calls : d # c => durable'[d] = durable[d]
    <2>1. CASE mutation
      <3>1. durable' = [durable EXCEPT ![c] = durable[c] + 1] \/ durable' = [durable EXCEPT ![c] = durable[c]]
        BY <1>2, <2>1 DEF Settle
      <3> QED  BY <1>1, <1>5, <3>1 DEF Local, DurableOK
    <2>2. CASE ~mutation
      BY <1>1, <1>2, <2>2 DEF Local, DurableOK
    <2> QED  BY <2>1, <2>2
  <1>7. mutation => durable'[c] = IF a = "ok" THEN 1 ELSE 0
    <2> SUFFICES ASSUME mutation PROVE durable'[c] = IF a = "ok" THEN 1 ELSE 0
      OBVIOUS
    <2>1. a = "ok" <=> Committed(c, call[c].answer)
      BY DEF AfterTx, Committed
    <2>2. durable'[c] = IF Committed(c, call[c].answer) THEN durable[c] + 1 ELSE durable[c]
      BY <1>1, <1>2 DEF Settle, Local, DurableOK
    <2> HIDE DEF a
    <2> QED  BY <1>5, <2>1, <2>2
  <1>8. ~mutation => durable'[c] = durable[c]
    BY <1>2
  <1> HIDE DEF a
  <1>9. /\ X \in CallRecord /\ X.step = "done" /\ X.answer = a
        /\ X.kind = call[c].kind /\ X.stack = call[c].stack
    BY <1>1, <1>3 DEF CallRecord
  <1>10. call' = [call EXCEPT ![c] = X]
    BY <1>1 DEF Return, Answered, CallsOK, CallRecord, a
  <1> HIDE DEF X
  <1>11. CallsOK' /\ call'[c] = X /\ \A d \in Calls : d # c => call'[d] = call[d]
    BY <1>1, <1>9, <1>10, Replaced
  <1>12. /\ Stack(c)' = Stack(c) /\ ~(Len(Stack(c)) > 0) /\ Len(Stack(c)) \in Nat
         /\ Len(Stack(c)) = 0
    <2>1. Stack(c)' = Stack(c) /\ ~(Len(Stack(c)) > 0) /\ Len(Stack(c)) \in Nat
      BY <1>1, <1>9, <1>11 DEF Stack, Good, Stacked, CallRecord
    <2>2. \A m \in Nat : m > 0 \/ m = 0
      OBVIOUS
    <2> QED  BY <2>1, <2>2
  <1>13. Idle(c)' /\ Stacked(c)' /\ Housed(c)' /\ Replied(c)'
    BY <1>3, <1>9, <1>11, <1>12 DEF Idle, Stacked, Housed, Replied, Outcomes
  <1>14. Rooted(c)' /\ Callers(c)' /\ Framed(c)'
    BY <1>12 DEF Rooted, Callers, Framed
  <1>15. Nesting(c)'
    BY <1>1, <1>12 DEF Good, Nesting
  <1>16. Unrefused(c)'
    BY <1>1, <1>4, <1>9, <1>11, <1>12 DEF Good, Unrefused
  <1>17. Written(c)'
    BY <1>5, <1>7, <1>8, <1>9, <1>11 DEF Written
  <1>18. Local'
    <2>1. Good(c)'
      BY <1>13, <1>14, <1>15, <1>16, <1>17 DEF Good
    <2> QED  BY <1>1, <1>6, <1>11, <2>1, Alone
  <1>19. SlotsHeld'
    BY <1>1, <1>9, <1>11, SlotReturned DEF Inv, Busy
  <1>20. PoolsHeld'
    BY <1>1, <1>9, <1>11, PoolsStay DEF Inv, Holds
  <1>21. ~Writing(c)' /\ \A d \in Calls : d # c => (Writing(d)' <=> Writing(d))
    BY <1>9, <1>11 DEF Writing, Nested, Top
  <1>22. TxHeld'
    <2>1. CASE call[c].kind \in {"mutation", "migration"}
      <3>1. Writing(c) /\ tx' = None
        BY <1>1, <1>2, <2>1 DEF Writing, Settle
      <3> QED  BY <1>21, <3>1, TxReturned DEF Inv
    <2>2. CASE call[c].kind \notin {"mutation", "migration"}
      <3>1. ~Writing(c) /\ UNCHANGED tx
        BY <1>1, <1>2, <2>2 DEF Writing
      <3> QED  BY <1>21, <3>1, TxStays DEF Inv
    <2> QED  BY <2>1, <2>2
  <1> QED  BY <1>18, <1>19, <1>20, <1>22 DEF Inv

-----------------------------------------------------------------------------
(* Admission *)

(* What a call is just after it was made.                                   *)
LEMMA Arrived ==
    ASSUME Local, NEW c \in Calls, call[c].step = "idle", NEW X \in CallRecord,
           call' = [call EXCEPT ![c] = X],
           UNCHANGED <<pool, made, open, began, durable>>,
           \/ /\ X.step \in {"tx", "pool"} /\ X.stack = <<>> /\ X.answer = "none"
              /\ X.pool \in Pools
              /\ X.step = "tx" => X.kind = "mutation"
              /\ X.kind # "verify"
           \/ X.step = "done" /\ X.stack = <<>> /\ X.answer \in {"failed", "refused"}
           \/ /\ X.step = "run" /\ X.stack = <<RootFrame("verify")>> /\ X.answer = "none"
              /\ X.kind = "verify"
    PROVE  Local' /\ call'[c] = X /\ \A d \in Calls : d # c => call'[d] = call[d]
  <1>1. CallsOK' /\ call'[c] = X /\ \A d \in Calls : d # c => call'[d] = call[d]
    BY Replaced DEF Local
  <1>2. /\ call[c].stack = <<>> /\ durable'[c] = 0 /\ c \notin began' /\ Good(c)
        /\ Len(open'[c]) = 0
    <2>1. /\ call[c].stack = <<>> /\ durable'[c] = 0 /\ c \notin began' /\ Good(c)
      BY DEF Local, Good, Idle, NoCall
    <2>2. ~(Len(Stack(c)) > 0) /\ Len(Stack(c)) = 0
      BY <2>1 DEF Stack
    <2> QED  BY <2>1, <2>2 DEF Good, Nesting
  <1>3. Idle(c)' /\ Housed(c)' /\ Replied(c)' /\ Unrefused(c)'
    BY <1>1, <1>2 DEF Idle, Housed, Replied, Unrefused
  <1>4. Written(c)'
    BY <1>1, <1>2 DEF Written
  <1>5. CASE X.stack = <<>>
    <2>1. Len(Stack(c)') = 0 /\ X.step # "run"
      BY <1>1, <1>5 DEF Stack
    <2>2. Stacked(c)' /\ Rooted(c)' /\ Callers(c)' /\ Framed(c)' /\ Nesting(c)'
      BY <1>1, <1>2, <2>1 DEF Stacked, Rooted, Callers, Framed, Nesting
    <2> QED  BY <1>1, <1>3, <1>4, <2>2, Alone DEF Good, Local, DurableOK
  <1>6. CASE X.step = "run" /\ X.stack = <<RootFrame("verify")>> /\ X.kind = "verify"
    <2> DEFINE f == RootFrame("verify")
    <2>1. f.type = "verify" /\ f.step = "load" /\ f.outcome = "none"
      BY DEF RootFrame, Frame
    <2> HIDE DEF f
    <2>2. Stack(c)' = <<f>> /\ Len(Stack(c)') = 1 /\ Stack(c)'[1] = f /\ Top(c)' = f
      <3>1. call'[c].stack = <<f>> /\ Len(<<f>>) = 1 /\ <<f>>[1] = f
        BY <1>1, <1>6 DEF f
      <3> QED  BY <3>1 DEF Stack, Top
    <2>3. Stacked(c)' /\ Rooted(c)' /\ Callers(c)' /\ Framed(c)'
      BY <1>1, <1>6, <2>1, <2>2 DEF Stacked, Rooted, Callers, Framed
    <2>4. Nesting(c)'
      BY <1>2, <2>1, <2>2 DEF Nesting
    <2> QED  BY <1>1, <1>3, <1>4, <2>3, <2>4, Alone DEF Good, Local, DurableOK
  <1> QED  BY <1>1, <1>5, <1>6

(* The three outcomes of an admission: no pool, no slot, admitted.          *)
LEMMA NotCompiledKeeps ==
    ASSUME Inv, NEW c \in Calls, call[c].step = "idle", NotCompiled(c),
           UNCHANGED <<pool, made, others, sem, open, began, durable>>
    PROVE  Inv'
  <1> DEFINE X == [NoCall EXCEPT !.step = "done", !.answer = "failed"]
  <1>1. Local /\ CallsOK /\ call[c] = NoCall
    BY DEF Inv, Local, Good, Idle
  <1>2. <<>> \in Seq(FrameRecord) /\ 0 \in 0 .. MaxPools /\ 0 \in 0 .. MaxTotalWork + 1
    BY RuntimeAssumption
  <1>3. /\ X \in CallRecord /\ X.step = "done" /\ X.stack = <<>> /\ X.answer = "failed"
    BY <1>2 DEF NoCall, CallRecord, Types, FunctionTypes, Outcomes
  <1>4. call' = [call EXCEPT ![c] = X]
    BY <1>1 DEF NotCompiled, Answered, CallsOK
  <1> HIDE DEF X
  <1>5. Local' /\ call'[c] = X /\ \A d \in Calls : d # c => call'[d] = call[d]
    BY <1>1, <1>3, <1>4, Arrived
  <1>6. SlotsHeld'
    BY <1>3, <1>5, SlotsStay DEF Inv, Busy, NotCompiled
  <1>7. PoolsHeld'
    BY <1>3, <1>5, PoolsStay DEF Inv, Holds
  <1>8. ~Writing(c) /\ ~Writing(c)'
    BY <1>3, <1>5 DEF Writing
  <1>9. TxHeld'
    BY <1>5, <1>8, TxStays DEF Inv, Writing, Nested, Top, NotCompiled
  <1> QED  BY <1>5, <1>6, <1>7, <1>9 DEF Inv

LEMMA RootKeeps ==
    ASSUME Inv, NEW c \in Calls, call[c].step = "idle", NEW k, NEW first,
           AcquireRoot(c, k, first),
           \/ first = "tx" /\ k = "mutation" /\ pool # 0
           \/ first = "pool" /\ k \in {"query", "action", "httpAction"} /\ pool # 0
           \/ first = "pool" /\ k = "migration" /\ pool # 0 /\ tx = None
           \/ first = "run" /\ k = "verify",
           UNCHANGED <<pool, made, others, sem, open, began, durable>>
    PROVE  Inv'
  <1> DEFINE asked == [NoCall EXCEPT !.kind = k, !.pool = pool]
  <1>1. Local /\ k \in Types /\ pool \in 0 .. MaxPools /\ ~Writing(c) /\ ~Busy(c)
        /\ \A p \in Pools : ~Holds(c, p)
    BY DEF Inv, Local, RegistryOK, Types, FunctionTypes, Writing, Busy, Holds
  <1>2. k # "verify" => pool \in Pools
    BY <1>1, RuntimeAssumption DEF Pools
  <1>3. <<>> \in Seq(FrameRecord) /\ 0 \in 0 .. MaxTotalWork + 1
    BY RuntimeAssumption
  <1>4. CASE slots = MaxConcurrentExecutions
    <2> DEFINE X == [asked EXCEPT !.step = "done", !.answer = "refused"]
    <2>1. X \in CallRecord /\ X.step = "done" /\ X.stack = <<>> /\ X.answer = "refused"
      BY <1>1, <1>3 DEF NoCall, CallRecord, Outcomes
    <2>2. call' = [call EXCEPT ![c] = X] /\ UNCHANGED <<slots, tx>>
      BY <1>4 DEF AcquireRoot
    <2> HIDE DEF X
    <2>3. Local' /\ call'[c] = X /\ \A d \in Calls : d # c => call'[d] = call[d]
      BY <1>1, <2>1, <2>2, Arrived
    <2>4. SlotsHeld'
      BY <2>1, <2>2, <2>3, SlotsStay DEF Inv, Busy
    <2>5. PoolsHeld'
      BY <2>1, <2>3, PoolsStay DEF Inv, Holds
    <2>6. ~Writing(c)'
      BY <2>1, <2>3 DEF Writing
    <2>7. TxHeld'
      BY <1>1, <2>2, <2>3, <2>6, TxStays DEF Inv, Writing, Nested, Top
    <2> QED  BY <2>3, <2>4, <2>5, <2>7 DEF Inv
  <1>5. CASE slots # MaxConcurrentExecutions
    <2> DEFINE st == IF first = "run" THEN <<RootFrame(k)>> ELSE <<>>
               X == [asked EXCEPT !.step = first, !.stack = st]
    <2>1. RootFrame(k) \in FrameRecord
      BY <1>1 DEF RootFrame, Frame, FrameRecord, Steps
    <2>2. st \in Seq(FrameRecord)
      BY <1>3, <2>1
    <2> HIDE DEF st
    <2>3. /\ X \in CallRecord /\ X.step = first /\ X.stack = st /\ X.answer = "none"
          /\ X.kind = k /\ X.pool = pool
      BY <1>1, <1>3, <2>2 DEF NoCall, CallRecord, Outcomes
    <2>4. /\ call' = [call EXCEPT ![c] = X] /\ slots' = slots + 1
          /\ tx' = (IF k = "migration" THEN c ELSE tx)
      BY <1>5 DEF AcquireRoot, st
    <2> HIDE DEF X
    <2>5. Local' /\ call'[c] = X /\ \A d \in Calls : d # c => call'[d] = call[d]
      <3>1. CASE first = "run"
        <4>1. X.stack = <<RootFrame("verify")>> /\ X.kind = "verify"
          BY <2>3, <3>1 DEF st
        <4> QED  BY <1>1, <2>3, <2>4, <3>1, <4>1, Arrived
      <3>2. CASE first # "run"
        <4>1. X.stack = <<>> /\ X.kind # "verify" /\ X.pool \in Pools
              /\ (X.step = "tx" => X.kind = "mutation") /\ X.step \in {"tx", "pool"}
          BY <1>2, <2>3, <3>2 DEF st
        <4> QED  BY <1>1, <2>3, <2>4, <4>1, Arrived
      <3> QED  BY <3>1, <3>2
    <2>6. SlotsHeld'
      BY <1>1, <1>5, <2>3, <2>4, <2>5, SlotTaken DEF Inv, Busy
    <2>7. PoolsHeld'
      <3>1. \A d \in Calls, p \in Pools : Holds(d, p)' <=> Holds(d, p)
        BY <1>1, <2>3, <2>5 DEF Holds
      <3> QED  BY <3>1, PoolsStay DEF Inv
    <2>8. \A d \in Calls : d # c => (Writing(d)' <=> Writing(d))
      BY <2>5 DEF Writing, Nested, Top
    <2>9. TxHeld'
      <3>1. CASE k = "migration"
        <4>1. Writing(c)'
          BY <2>3, <2>5, <3>1 DEF Writing
        <4> QED  BY <2>4, <2>8, <3>1, <4>1, TxTaken DEF Inv
      <3>2. CASE k # "migration"
        <4>1. ~Nested(c)'
          <5>1. CASE first = "run"
            <6>1. call'[c].stack = <<RootFrame(k)>>
              BY <2>3, <2>5, <5>1 DEF st
            <6>2. Len(<<RootFrame(k)>>) = 1
              OBVIOUS
            <6> QED  BY <6>1, <6>2 DEF Nested
          <5>2. CASE first # "run"
            BY <2>3, <2>5, <5>2 DEF Nested, st
          <5> QED  BY <5>1, <5>2
        <4>2. ~Writing(c)'
          BY <2>3, <2>5, <3>2, <4>1 DEF Writing
        <4> QED  BY <1>1, <2>4, <2>8, <3>2, <4>2, TxStays DEF Inv
      <3> QED  BY <3>1, <3>2
    <2> QED  BY <2>5, <2>6, <2>7, <2>9 DEF Inv
  <1> QED  BY <1>4, <1>5

LEMMA InvokeKeeps == ASSUME Inv, NEW c \in Calls, NEW k, Invoke(c, k) PROVE Inv'
  <1>1. CASE InvokeWithDatabase(c, k)
    <2>1. CASE pool = 0
      BY <1>1, <2>1, NotCompiledKeeps DEF InvokeWithDatabase
    <2>2. CASE pool # 0
      <3>1. CASE k = "mutation"
        BY <1>1, <2>2, <3>1, RootKeeps DEF InvokeWithDatabase
      <3>2. CASE k # "mutation"
        BY <1>1, <2>2, <3>2, RootKeeps DEF InvokeWithDatabase
      <3> QED  BY <3>1, <3>2
    <2> QED  BY <2>1, <2>2
  <1>2. CASE InvokeHTTP(c)
    BY <1>2, NotCompiledKeeps, RootKeeps DEF InvokeHTTP
  <1>3. CASE InvokeMigration(c)
    BY <1>3, NotCompiledKeeps, RootKeeps DEF InvokeMigration
  <1>4. CASE VerifyDeployment(c)
    BY <1>4, RootKeeps DEF VerifyDeployment
  <1> QED  BY <1>1, <1>2, <1>3, <1>4 DEF Invoke

-----------------------------------------------------------------------------
(* A call on its way to its frames *)

LEMMA ExpireKeeps == ASSUME Inv, NEW c \in Calls, Expire(c) PROVE Inv'
  <1> DEFINE X == [call[c] EXCEPT !.expired = TRUE]
  <1>1. /\ Local /\ CallsOK /\ Good(c) /\ call[c] \in CallRecord
        /\ call[c].step \notin {"idle", "done"}
        /\ UNCHANGED <<pool, made, slots, others, sem, tx, open, began, durable>>
    BY DEF Inv, Local, CallsOK, Expire
  <1>2. /\ X \in CallRecord /\ X.step = call[c].step /\ X.stack = call[c].stack
        /\ X.answer = call[c].answer /\ X.kind = call[c].kind /\ X.pool = call[c].pool
    BY <1>1 DEF CallRecord
  <1>3. call' = [call EXCEPT ![c] = X]
    BY <1>1 DEF Expire, CallsOK, CallRecord
  <1> HIDE DEF X
  <1>4. /\ CallsOK' /\ call'[c] = X /\ \A d \in Calls : d # c => call'[d] = call[d]
    BY <1>1, <1>2, <1>3, Replaced
  <1>5. Good(c)'
    <2>1. Stack(c)' = Stack(c) /\ Top(c)' = Top(c)
      BY <1>2, <1>4 DEF Stack, Top
    <2>2. Stacked(c)' /\ Rooted(c)' /\ Callers(c)' /\ Framed(c)'
      BY <1>1, <1>2, <1>4, <2>1 DEF Good, Stacked, Rooted, Callers, Framed
    <2>3. Nesting(c)' /\ Unrefused(c)'
      BY <1>1, <1>2, <1>4, <2>1 DEF Good, Nesting, Unrefused
    <2>4. Idle(c)' /\ Housed(c)' /\ Replied(c)' /\ Written(c)'
      BY <1>1, <1>2, <1>4 DEF Good, Idle, Housed, Replied, Written
    <2> QED  BY <2>2, <2>3, <2>4 DEF Good
  <1>6. Local'
    BY <1>1, <1>4, <1>5, Alone DEF Local, DurableOK
  <1>7. SlotsHeld'
    BY <1>1, <1>2, <1>4, SlotsStay DEF Inv, Busy
  <1>8. PoolsHeld'
    BY <1>1, <1>2, <1>4, PoolsStay DEF Inv, Holds
  <1>9. TxHeld'
    BY <1>1, <1>2, <1>4, TxStays DEF Inv, Writing, Nested, Top
  <1> QED  BY <1>6, <1>7, <1>8, <1>9 DEF Inv

(* A call that goes on to wait for its pool, or gives up.                   *)
LEMMA Moved ==
    ASSUME Local, NEW c \in Calls, call[c].step \in {"tx", "pool"}, NEW X \in CallRecord,
           call' = [call EXCEPT ![c] = X], X.stack = call[c].stack,
           X.kind = call[c].kind, X.pool = call[c].pool,
           \/ call[c].step = "tx" /\ X.step = "pool" /\ X.answer = call[c].answer
           \/ X.step = "finish" /\ X.answer = "failed",
           UNCHANGED <<pool, made, open, began, durable>>
    PROVE  Local' /\ call'[c] = X /\ \A d \in Calls : d # c => call'[d] = call[d]
  <1>1. CallsOK' /\ call'[c] = X /\ \A d \in Calls : d # c => call'[d] = call[d]
    BY Replaced DEF Local
  <1>2. Good(c) /\ Stack(c)' = Stack(c) /\ ~(Len(Stack(c)) > 0)
    BY <1>1 DEF Local, Good, Stacked, Stack
  <1>3. Idle(c)' /\ Stacked(c)' /\ Housed(c)' /\ Replied(c)' /\ Written(c)'
    BY <1>1, <1>2 DEF Good, Idle, Stacked, Housed, Replied, Written
  <1>4. Rooted(c)' /\ Callers(c)' /\ Framed(c)' /\ Nesting(c)' /\ Unrefused(c)'
    BY <1>1, <1>2 DEF Good, Rooted, Callers, Framed, Nesting, Unrefused
  <1> QED  BY <1>1, <1>3, <1>4, Alone DEF Good, Local, DurableOK

LEMMA BeginTxKeeps == ASSUME Inv, NEW c \in Calls, BeginTx(c) PROVE Inv'
  <1> DEFINE X == [call[c] EXCEPT !.step = "pool"]
  <1>1. /\ Local /\ CallsOK /\ Good(c) /\ call[c] \in CallRecord
        /\ call[c].step = "tx" /\ tx = None /\ tx' = c
        /\ UNCHANGED <<pool, made, slots, others, sem, open, began, durable>>
    BY DEF Inv, Local, CallsOK, BeginTx
  <1>2. /\ X \in CallRecord /\ X.step = "pool" /\ X.stack = call[c].stack
        /\ X.answer = call[c].answer /\ X.kind = call[c].kind /\ X.pool = call[c].pool
    BY <1>1 DEF CallRecord
  <1>3. call' = [call EXCEPT ![c] = X]
    BY <1>1 DEF BeginTx, CallsOK, CallRecord
  <1> HIDE DEF X
  <1>4. Local' /\ call'[c] = X /\ \A d \in Calls : d # c => call'[d] = call[d]
    BY <1>1, <1>2, <1>3, Moved
  <1>5. SlotsHeld'
    BY <1>1, <1>2, <1>4, SlotsStay DEF Inv, Busy
  <1>6. PoolsHeld'
    BY <1>1, <1>2, <1>4, PoolsStay DEF Inv, Holds
  <1>7. Writing(c)'
    BY <1>1, <1>2, <1>4 DEF Good, Housed, Writing
  <1>8. TxHeld'
    BY <1>1, <1>4, <1>7, TxTaken DEF Inv, Writing, Nested, Top
  <1> QED  BY <1>4, <1>5, <1>6, <1>8 DEF Inv

LEMMA GiveUpPoolKeeps == ASSUME Inv, NEW c \in Calls, GiveUpPool(c) PROVE Inv'
  <1> DEFINE X == [call[c] EXCEPT !.step = "finish", !.answer = "failed"]
  <1>1. /\ Local /\ CallsOK /\ Good(c) /\ call[c] \in CallRecord
        /\ call[c].step = "pool"
        /\ UNCHANGED <<pool, made, slots, others, sem, tx, open, began, durable>>
    BY DEF Inv, Local, CallsOK, GiveUpPool
  <1>2. /\ X \in CallRecord /\ X.step = "finish" /\ X.stack = call[c].stack
        /\ X.answer = "failed" /\ X.kind = call[c].kind /\ X.pool = call[c].pool
    BY <1>1 DEF CallRecord, Outcomes
  <1>3. call' = [call EXCEPT ![c] = X]
    BY <1>1 DEF GiveUpPool, CallsOK, CallRecord
  <1> HIDE DEF X
  <1>4. Local' /\ call'[c] = X /\ \A d \in Calls : d # c => call'[d] = call[d]
    BY <1>1, <1>2, <1>3, Moved
  <1>5. SlotsHeld'
    BY <1>1, <1>2, <1>4, SlotsStay DEF Inv, Busy
  <1>6. PoolsHeld'
    BY <1>1, <1>2, <1>4, PoolsStay DEF Inv, Holds
  <1>7. Writing(c)' <=> Writing(c)
    BY <1>1, <1>2, <1>4 DEF Writing
  <1>8. TxHeld'
    BY <1>1, <1>4, <1>7, TxStays DEF Inv, Writing, Nested, Top
  <1> QED  BY <1>4, <1>5, <1>6, <1>8 DEF Inv

LEMMA AcquirePoolKeeps == ASSUME Inv, NEW c \in Calls, AcquirePool(c) PROVE Inv'
  <1> DEFINE f == RootFrame(call[c].kind)
             X == [call[c] EXCEPT !.step = "run", !.stack = <<f>>]
             q == call[c].pool
  <1>1. /\ Local /\ CallsOK /\ Good(c) /\ call[c] \in CallRecord
        /\ call[c].step = "pool" /\ sem[q] < PoolSize /\ sem' = [sem EXCEPT ![q] = @ + 1]
        /\ UNCHANGED <<pool, made, slots, others, tx, open, began, durable>>
    BY DEF Inv, Local, CallsOK, AcquirePool
  <1>2. f \in FrameRecord /\ f.type = call[c].kind /\ f.step = "load" /\ f.outcome = "none"
    BY <1>1 DEF CallRecord, RootFrame, Frame, FrameRecord, Steps
  <1> HIDE DEF f
  <1>3. /\ X \in CallRecord /\ X.step = "run" /\ X.stack = <<f>>
        /\ X.answer = call[c].answer /\ X.kind = call[c].kind /\ X.pool = q
    <2>1. <<f>> \in Seq(FrameRecord)
      BY <1>2
    <2> QED  BY <1>1, <2>1 DEF CallRecord
  <1>4. call' = [call EXCEPT ![c] = X]
    BY <1>1 DEF AcquirePool, CallsOK, CallRecord, f
  <1> HIDE DEF X
  <1>5. CallsOK' /\ call'[c] = X /\ \A d \in Calls : d # c => call'[d] = call[d]
    BY <1>1, <1>3, <1>4, Replaced
  <1>6. /\ q \in Pools /\ call[c].kind # "verify" /\ c \notin began
        /\ ~(Len(Stack(c)) > 0) /\ Len(open[c]) = Len(Stack(c)) /\ Len(Stack(c)) \in Nat
    BY <1>1 DEF Good, Housed, Unrefused, Stacked, Nesting, CallRecord, Stack
  <1>7. Len(open[c]) = 0
    <2>1. \A m \in Nat : m > 0 \/ m = 0
      OBVIOUS
    <2> QED  BY <1>6, <2>1
  <1>8. Stack(c)' = <<f>> /\ Len(Stack(c)') = 1 /\ Stack(c)'[1] = f /\ Top(c)' = f
    <2>1. call'[c].stack = <<f>> /\ Len(<<f>>) = 1 /\ <<f>>[1] = f
      BY <1>3, <1>5
    <2> QED  BY <2>1 DEF Stack, Top
  <1>9. Idle(c)' /\ Housed(c)' /\ Replied(c)' /\ Written(c)' /\ Unrefused(c)'
    BY <1>1, <1>3, <1>5, <1>6 DEF Good, Idle, Housed, Replied, Written, Unrefused
  <1>10. Stacked(c)' /\ Rooted(c)' /\ Callers(c)' /\ Framed(c)'
    BY <1>2, <1>3, <1>5, <1>8 DEF Stacked, Rooted, Callers, Framed
  <1>11. Nesting(c)'
    BY <1>1, <1>2, <1>7, <1>8 DEF Nesting
  <1>12. Local'
    BY <1>1, <1>5, <1>9, <1>10, <1>11, Alone DEF Good, Local, DurableOK
  <1>13. SlotsHeld'
    BY <1>1, <1>3, <1>5, SlotsStay DEF Inv, Busy
  <1>14. PoolsHeld'
    <2> PICK r \in Pools : r = q
      BY <1>6
    <2>1. Holds(c, r)' /\ \A p \in Pools : p # r => ~Holds(c, p)'
      BY <1>3, <1>5, <1>6 DEF Holds
    <2>4. sem[r] < PoolSize /\ sem' = [sem EXCEPT ![r] = @ + 1]
      BY <1>1
    <2>2. \A p \in Pools : ~Holds(c, p)
      BY <1>1 DEF Holds
    <2>3. \A d \in Calls, p \in Pools : d # c => (Holds(d, p)' <=> Holds(d, p))
      BY <1>5 DEF Holds
    <2> HIDE DEF q
    <2> QED  BY <2>1, <2>2, <2>3, <2>4, PoolTaken DEF Inv
  <1>15. Writing(c)' <=> Writing(c)
    <2>1. ~Nested(c)'
      BY <1>8 DEF Nested, Stack
    <2> QED  BY <1>1, <1>3, <1>5, <2>1 DEF Writing
  <1>16. TxHeld'
    BY <1>1, <1>5, <1>15, TxStays DEF Inv, Writing, Nested, Top
  <1> QED  BY <1>12, <1>13, <1>14, <1>16 DEF Inv

(* What is about no call.                                                   *)
LEMMA Elsewhere ==
    ASSUME Inv, UNCHANGED <<sem, tx, call, open, began, durable>>, RegistryOK', SlotsHeld'
    PROVE  Inv'
  <1>1. \A d \in Calls : Good(d)'
    <2> SUFFICES ASSUME NEW d \in Calls PROVE Good(d)'
      OBVIOUS
    <2>1. Good(d)
      BY DEF Inv, Local
    <2> QED  BY <2>1 DEF Good, Idle, Stacked, Rooted, Callers, Framed, Housed, Replied,
                  Nesting, Unrefused, Written, Stack, Top
  <1>2. TxHeld'
    BY TxStays DEF Inv, Writing, Nested, Top
  <1>3. PoolsHeld'
    BY PoolsStay DEF Inv, Holds
  <1> QED  BY <1>1, <1>2, <1>3 DEF Inv, Local, CallsOK, OpenOK, BeganOK, DurableOK

LEMMA CompileDeploymentKeeps == ASSUME Inv, CompileDeployment PROVE Inv'
  <1>1. RegistryOK'
    BY RuntimeAssumption DEF Inv, Local, RegistryOK, CompileDeployment
  <1>2. SlotsHeld'
    BY SlotsStay DEF Inv, Busy, CompileDeployment
  <1> QED  BY <1>1, <1>2, Elsewhere DEF CompileDeployment

LEMMA DropKeeps == ASSUME Inv, Drop PROVE Inv'
  <1>1. RegistryOK'
    BY RuntimeAssumption DEF Inv, Local, RegistryOK, Drop
  <1>2. SlotsHeld'
    BY SlotsStay DEF Inv, Busy, Drop
  <1> QED  BY <1>1, <1>2, Elsewhere DEF Drop

LEMMA OtherCallKeeps == ASSUME Inv, OtherCall PROVE Inv'
  <1>1. RegistryOK'
    BY DEF Inv, Local, RegistryOK, OtherCall
  <1>2. Admitted' = Admitted
    BY DEF Admitted, Busy, OtherCall
  <1>3. Cardinality(Admitted) \in Nat
    BY FS_CardinalityType DEF Inv, SlotsHeld
  <1>4. SlotsHeld'
    <2> DEFINE k == Cardinality(Admitted)
    <2>1. /\ slots \in Nat /\ others \in Nat /\ k \in Nat /\ slots = others + k
          /\ others <= MaxOthers /\ slots <= MaxConcurrentExecutions
          /\ IsFiniteSet(Admitted')
      BY <1>2, <1>3, RuntimeAssumption DEF Inv, SlotsHeld
    <2>2. k = Cardinality(Admitted')
      BY <1>2
    <2> HIDE DEF k
    <2> QED  BY <2>1, <2>2, RuntimeAssumption DEF SlotsHeld, OtherCall
  <1> QED  BY <1>1, <1>4, Elsewhere DEF OtherCall

-----------------------------------------------------------------------------
(* The invariant *)

LEMMA InitInv == Init => Inv
  <1> SUFFICES ASSUME Init PROVE Inv
    OBVIOUS
  <1>1. <<>> \in Seq(FrameRecord) /\ <<>> \in Seq(Kinds) /\ 0 \in 0 .. MaxPools
        /\ 0 \in 0 .. MaxTotalWork + 1 /\ 0 \in 0 .. MaxConcurrentExecutions
        /\ 0 \in 0 .. MaxOthers /\ 0 \in 0 .. PoolSize
    BY RuntimeAssumption
  <1>2. NoCall \in CallRecord
    BY <1>1 DEF NoCall, CallRecord, Types, FunctionTypes
  <1>3. RegistryOK /\ CallsOK /\ OpenOK /\ BeganOK /\ DurableOK
    BY <1>1, <1>2 DEF Init, RegistryOK, CallsOK, OpenOK, BeganOK, DurableOK
  <1>4. ASSUME NEW c \in Calls PROVE Good(c) /\ ~Busy(c) /\ ~Writing(c) /\ \A p \in Pools : ~Holds(c, p)
    <2>1. call[c] = NoCall /\ open[c] = <<>> /\ durable[c] = 0 /\ c \notin began
      BY DEF Init
    <2>2. call[c].stack = <<>> /\ call[c].step = "idle" /\ call[c].answer = "none"
      BY <2>1 DEF NoCall
    <2>3. Idle(c) /\ Stacked(c) /\ Housed(c) /\ Replied(c) /\ Unrefused(c) /\ Written(c)
      BY <2>1, <2>2 DEF Idle, Stacked, Housed, Replied, Unrefused, Written, Stack
    <2>4. Rooted(c) /\ Callers(c) /\ Framed(c) /\ Nesting(c)
      BY <2>1, <2>2 DEF Rooted, Callers, Framed, Nesting, Stack
    <2> QED  BY <2>2, <2>3, <2>4 DEF Good, Busy, Writing, Holds
  <1>5. TxHeld
    BY <1>4, RuntimeAssumption DEF TxHeld, Init
  <1>6. SlotsHeld
    <2>1. Admitted = {}
      BY <1>4 DEF Admitted
    <2> QED  BY <1>1, <2>1, FS_EmptySet DEF SlotsHeld, Init
  <1>7. PoolsHeld
    <2>1. \A p \in Pools : Residents(p) = {} /\ sem[p] = 0
      BY <1>4 DEF Residents, Init
    <2> QED  BY <1>1, <2>1, FS_EmptySet DEF PoolsHeld, PoolHeld, Init
  <1> QED  BY <1>3, <1>4, <1>5, <1>6, <1>7 DEF Inv, Local

LEMMA StepInv == Inv /\ [Next]_vars => Inv'
  <1> SUFFICES ASSUME Inv, [Next]_vars PROVE Inv'
    OBVIOUS
  <1>1. CASE UNCHANGED vars
    <2>1. RegistryOK' /\ SlotsHeld'
      BY <1>1, SlotsStay DEF Inv, Local, RegistryOK, Busy, vars
    <2> QED  BY <1>1, <2>1, Elsewhere DEF vars
  <1>2. CASE CompileDeployment \/ Drop \/ OtherCall
    BY <1>2, CompileDeploymentKeeps, DropKeeps, OtherCallKeeps
  <1>3. ASSUME NEW c \in Calls, \E k \in CallKinds[c] : Invoke(c, k) PROVE Inv'
    BY <1>3, InvokeKeeps
  <1>4. ASSUME NEW c \in Calls, \E t \in FunctionTypes : RunNested(c, t) PROVE Inv'
    BY <1>4, RunNestedKeeps
  <1>5. ASSUME NEW c \in Calls, Expire(c) \/ CallStep(c) PROVE Inv'
    BY <1>5, ExpireKeeps, BeginTxKeeps, AcquirePoolKeeps, GiveUpPoolKeeps, LoadBundleKeeps,
       RunBundleKeeps, BeginInvocationKeeps, BeginMigrationKeeps, FinishKeeps,
       BeginNestedTxKeeps, ReturnNestedKeeps, ReleasePoolKeeps, ReturnKeeps DEF CallStep
  <1> QED  BY <1>1, <1>2, <1>3, <1>4, <1>5 DEF Next

(* At all times: types, every call as Good has it, and the transaction, the *)
(* root slots and the pool slots with the calls that hold them.             *)
THEOREM Invariance == Spec => []Inv
  <1> QED  BY InitInv, StepInv, PTL DEF Spec

(* TypeOK: every variable of the runtime keeps its type, for any number of  *)
(* calls and any depth of nesting.                                          *)
THEOREM TypeCorrect == Spec => []TypeOK
  <1>1. Inv => TypeOK
    BY DEF Inv, Local, RegistryOK, CallsOK, OpenOK, BeganOK, DurableOK, TxHeld, SlotsHeld,
       PoolsHeld, TypeOK, CallRecord, FrameRecord, Kinds, Types
  <1> QED  BY <1>1, Invariance, PTL

(* Every root slot, every slot of every pool and the transaction are held by*)
(* a call that will give them back, whatever is compiled, dropped, nested,  *)
(* thrown or timed out meanwhile.                                           *)
THEOREM ResourcesTheorem == Spec => []ResourcesAccounted
  <1>1. Inv => ResourcesAccounted
    <2>1. Admitted = {c \in Calls : call[c].step \notin {"idle", "done"}}
      BY DEF Admitted, Busy
    <2> QED  BY <2>1 DEF Inv, SlotsHeld, PoolsHeld, PoolHeld, TxHeld, Residents,
                 ResourcesAccounted
  <1> QED  BY <1>1, Invariance, PTL

(* The answer of a root mutation tells whether its writes were committed, and*)
(* what runs in no transaction commits nothing.                             *)
THEOREM AnswerTheorem == Spec => []AnswerTellsCommit
  <1>1. Inv => AnswerTellsCommit
    BY DEF Inv, Local, Good, Written, AnswerTellsCommit
  <1> QED  BY <1>1, Invariance, PTL

-----------------------------------------------------------------------------
(* The runtime implements Executions *)

Told(c) == IF call[c].step = "done" THEN call[c].answer ELSE "none"

(* Steps the observer sees nothing of.                                      *)
LEMMA Quiet ==
    ASSUME \A d \in Calls : Told(d)' = Told(d), UNCHANGED <<open, began>>
    PROVE  [Observed!Next]_(Observed!evars)
  <1>1. UNCHANGED Observed!evars
    BY DEF Observed!evars, Told
  <1> QED  BY <1>1

(* A change of the frames gives no answer.                                  *)
LEMMA Silent ==
    ASSUME CallsOK, NEW c \in Calls, NEW s, call' = [call EXCEPT ![c].stack = s]
    PROVE  \A d \in Calls : Told(d)' = Told(d)
  <1>1. call[c] \in CallRecord
    BY DEF CallsOK
  <1>2. call'[c].step = call[c].step /\ call'[c].answer = call[c].answer
        /\ \A d \in Calls : d # c => call'[d] = call[d]
    BY <1>1 DEF CallsOK, CallRecord
  <1> QED  BY <1>2 DEF Told

LEMMA SilentTop ==
    ASSUME CallsOK, NEW c \in Calls, NEW f, call' = SetTop(c, f)
    PROVE  \A d \in Calls : Told(d)' = Told(d)
  <1> DEFINE s == [Stack(c) EXCEPT ![Len(Stack(c))] = f]
  <1>1. call[c] \in CallRecord
    BY DEF CallsOK
  <1>2. call' = [call EXCEPT ![c].stack = s]
    BY <1>1 DEF SetTop, Stack, CallsOK, CallRecord
  <1> HIDE DEF s
  <1> QED  BY <1>2, Silent

(* An execution begins inside a handler or outside everything.              *)
LEMMA Begins ==
    ASSUME Inv, NEW c \in Calls, NEW k \in Kinds, Running(c, "load") \/ Running(c, "begin"),
           NEW f, call' = SetTop(c, f), Push(c, k),
           began' = IF k = "bundle" THEN began ELSE began \cup {c}
    PROVE  [Observed!Next]_(Observed!evars)
  <1> DEFINE n == Len(Stack(c))
  <1>1. /\ Local /\ Good(c) /\ CallsOK /\ call[c].step = "run"
        /\ Top(c).step \in {"load", "begin"} /\ open[c] \in Seq(Kinds)
    BY DEF Inv, Local, OpenOK, Running
  <1>2. n \in Nat /\ n > 0 /\ Len(open[c]) = n - 1
    BY <1>1, TopFrame
  <1>3. open[c] = <<>> \/ open[c][Len(open[c])] = "handler"
    <2>1. CASE n = 1
      <3>1. Len(open[c]) = 0
        BY <1>2, <2>1
      <3> QED  BY <1>1, <3>1
    <2>2. CASE n # 1
      <3>1. n - 1 \in 1 .. n - 1
        <4>1. n > 1
          BY <1>2, <2>2, NotOne
        <4> QED  BY <1>2, <4>1
      <3> QED  BY <1>1, <1>2, <3>1 DEF Good, Nesting
    <2> QED  BY <2>1, <2>2
  <1>4. Told(c) = "none"
    BY <1>1 DEF Told
  <1>5. \A d \in Calls : Told(d)' = Told(d)
    BY <1>1, SilentTop
  <1>6. Observed!Begin(c, k)
    BY <1>3, <1>4, <1>5 DEF Observed!Begin, Told, Push
  <1> QED  BY <1>6 DEF Observed!Next, Observed!Kinds, Kinds

(* What ends was open.                                                      *)
LEMMA Ends ==
    ASSUME Inv, NEW c \in Calls, Len(open[c]) > 0, Pop(c), UNCHANGED began,
           \A d \in Calls : Told(d)' = Told(d)
    PROVE  [Observed!Next]_(Observed!evars)
  <1>1. open[c] # <<>>
    OBVIOUS
  <1>2. Observed!End(c)
    BY <1>1 DEF Observed!End, Told, Pop
  <1> QED  BY <1>2 DEF Observed!Next

(* An answer is given when nothing is open.                                 *)
LEMMA Answers ==
    ASSUME Inv, NEW c \in Calls, NEW a \in Outcomes, call[c].step # "done",
           ~(Len(Stack(c)) > 0),
           a = "refused" => c \notin began, UNCHANGED <<open, began>>,
           Told(c)' = a, \A d \in Calls : d # c => Told(d)' = Told(d)
    PROVE  [Observed!Next]_(Observed!evars)
  <1>1. open[c] \in Seq(Kinds) /\ Good(c) /\ Stack(c) \in Seq(FrameRecord)
    BY DEF Inv, Local, OpenOK, CallsOK, CallRecord, Stack
  <1>2. Len(open[c]) = 0
    <2>1. Len(open[c]) = Len(Stack(c)) /\ Len(Stack(c)) \in Nat
      BY <1>1 DEF Good, Nesting
    <2>2. \A m \in Nat : m > 0 \/ m = 0
      OBVIOUS
    <2> QED  BY <2>1, <2>2
  <1>3. open[c] = <<>>
    BY <1>1, <1>2
  <1>4. Told(c) = "none"
    BY DEF Told
  <1>5. Observed!Answer(c, a)
    <2> DEFINE told == [d \in Calls |-> IF call[d].step = "done" THEN call[d].answer
                                        ELSE "none"]
    <2>1. told' = [told EXCEPT ![c] = a]
      BY DEF Told
    <2>2. told[c] = "none"
      BY <1>4 DEF Told
    <2> QED  BY <1>3, <2>1, <2>2 DEF Observed!Answer
  <1> QED  BY <1>5 DEF Observed!Next, Observed!Answers, Outcomes

(* Asking the observer: refused, not asked, or admitted.                    *)
LEMMA ExecutionObserved ==
    ASSUME Inv, NEW c \in Calls, NEW k \in Kinds, NEW next,
           Running(c, "load") \/ Running(c, "begin"),
           \/ \E o : call' = Ended(c, o) /\ UNCHANGED open
           \/ call' = SetTop(c, next) /\ Push(c, k),
           IF k = "bundle" THEN UNCHANGED began
           ELSE began' = IF open' # open THEN began \cup {c} ELSE began
    PROVE  [Observed!Next]_(Observed!evars)
  <1>1. CallsOK /\ OpenOK
    BY DEF Inv, Local
  <1>2. CASE \E o : call' = Ended(c, o) /\ UNCHANGED open
    <2>1. PICK f : call' = SetTop(c, f)
      BY <1>2 DEF Ended
    <2>2. \A d \in Calls : Told(d)' = Told(d)
      BY <1>1, <2>1, SilentTop
    <2> QED  BY <1>2, <2>2, Quiet
  <1>3. CASE call' = SetTop(c, next) /\ Push(c, k)
    <2>1. open' # open
      BY <1>1, <1>3, Pushes
    <2> QED  BY <1>3, <2>1, Begins
  <1> QED  BY <1>2, <1>3

(* Every action is a step of Executions or none.                            *)
LEMMA FrameImplements ==
    ASSUME Inv, NEW c \in Calls,
           LoadBundle(c) \/ RunBundle(c) \/ BeginInvocation(c) \/ BeginMigration(c)
             \/ Finish(c)
    PROVE  [Observed!Next]_(Observed!evars)
  <1>1. Local /\ CallsOK
    BY DEF Inv, Local
  <1>2. CASE LoadBundle(c)
    BY <1>2, ExecutionObserved DEF LoadBundle, BeginExecution, Kinds
  <1>3. CASE BeginInvocation(c)
    BY <1>3, ExecutionObserved DEF BeginInvocation, BeginExecution, Kinds
  <1>4. CASE BeginMigration(c)
    BY <1>4, ExecutionObserved DEF BeginMigration, BeginExecution, Kinds
  <1>5. CASE RunBundle(c)
    <2>1. Pop(c) /\ UNCHANGED began /\ call[c].step = "run" /\ Top(c).step = "loading"
      BY <1>5 DEF RunBundle, Running
    <2>2. PICK f : call' = SetTop(c, f)
      BY <1>5 DEF RunBundle, Ended
    <2>3. Len(open[c]) > 0
      BY <1>1, <2>1, TopFrame
    <2>4. \A d \in Calls : Told(d)' = Told(d)
      BY <1>1, <2>2, SilentTop
    <2> QED  BY <2>1, <2>3, <2>4, Ends
  <1>6. CASE Finish(c)
    <2>1. PICK s : Pop(c) /\ call' = [call EXCEPT ![c].stack = s]
      BY <1>6 DEF Finish, EndExecution
    <2>2. Len(open[c]) > 0 /\ UNCHANGED began
      BY <1>1, <1>6, TopFrame DEF Finish, Running
    <2>3. \A d \in Calls : Told(d)' = Told(d)
      BY <1>1, <2>1, Silent
    <2> QED  BY <2>1, <2>2, <2>3, Ends
  <1> QED  BY <1>2, <1>3, <1>4, <1>5, <1>6

LEMMA NestedImplements ==
    ASSUME Inv, NEW c \in Calls,
           \/ \E t \in FunctionTypes : RunNested(c, t)
           \/ BeginNestedTx(c) \/ ReturnNested(c)
    PROVE  [Observed!Next]_(Observed!evars)
  <1>1. Local /\ CallsOK /\ call[c] \in CallRecord
    BY DEF Inv, Local, CallsOK
  <1>2. ASSUME NEW t \in FunctionTypes, RunNested(c, t) PROVE [Observed!Next]_(Observed!evars)
    <2>1. PICK s : call' = [call EXCEPT ![c].work = @ + 1, ![c].stack = s]
      BY <1>2 DEF RunNested
    <2>2. call'[c].step = call[c].step /\ call'[c].answer = call[c].answer
          /\ \A d \in Calls : d # c => call'[d] = call[d]
      BY <1>1, <2>1 DEF CallsOK, CallRecord
    <2>3. \A d \in Calls : Told(d)' = Told(d)
      BY <2>2 DEF Told
    <2> QED  BY <1>2, <2>3, Quiet DEF RunNested
  <1>3. CASE BeginNestedTx(c)
    <2>1. \A d \in Calls : Told(d)' = Told(d)
      BY <1>1, <1>3, SilentTop DEF BeginNestedTx
    <2> QED  BY <1>3, <2>1, Quiet DEF BeginNestedTx
  <1>4. CASE ReturnNested(c)
    <2>1. PICK s : call' = [call EXCEPT ![c].stack = s] /\ (UNCHANGED open \/ Pop(c))
      BY <1>4 DEF ReturnNested, EndExecution
    <2>2. \A d \in Calls : Told(d)' = Told(d)
      BY <1>1, <2>1, Silent
    <2>3. CASE UNCHANGED open
      BY <1>4, <2>2, <2>3, Quiet DEF ReturnNested
    <2>4. CASE Pop(c)
      <3> DEFINE n == Len(Stack(c))
      <3>1. n \in Nat /\ n > 1 /\ Len(open[c]) = n - 1
        BY <1>1, <1>4, TopFrame DEF ReturnNested, Running, Nested, Stack
      <3>2. Len(open[c]) > 0
        BY <3>1
      <3> QED  BY <1>4, <2>2, <2>4, <3>2, Ends DEF ReturnNested
    <2> QED  BY <2>1, <2>3, <2>4
  <1> QED  BY <1>2, <1>3, <1>4

LEMMA AnswerImplements ==
    ASSUME Inv, NEW c \in Calls, Return(c) \/ \E k : Invoke(c, k)
    PROVE  [Observed!Next]_(Observed!evars)
  <1>1. Local /\ CallsOK /\ Good(c) /\ call[c] \in CallRecord
    BY DEF Inv, Local, CallsOK
  <1>2. CASE Return(c)
    <2> DEFINE a == IF call[c].kind = "mutation" THEN AfterTx(c, call[c].answer) ELSE call[c].answer
    <2>1. /\ call' = [call EXCEPT ![c].step = "done", ![c].answer = a]
          /\ call[c].step = "finish" /\ UNCHANGED <<open, began>>
      BY <1>2 DEF Return, Answered
    <2>2. call[c].answer \in Outcomes /\ ~(Len(Stack(c)) > 0)
      BY <1>1, <2>1 DEF Good, Replied, Stacked, CallRecord
    <2>3. a \in Outcomes /\ (a = "refused" => c \notin began)
      BY <1>1, <2>2 DEF Good, Unrefused, AfterTx, Outcomes
    <2> HIDE DEF a
    <2>4. Told(c)' = a /\ \A d \in Calls : d # c => Told(d)' = Told(d)
      BY <1>1, <2>1 DEF Told, CallsOK, CallRecord
    <2> QED  BY <2>1, <2>2, <2>3, <2>4, Answers
  <1>3. ASSUME NEW k, Invoke(c, k) PROVE [Observed!Next]_(Observed!evars)
    <2>1. call[c].step = "idle" /\ UNCHANGED <<open, began>>
      BY <1>3 DEF Invoke, InvokeWithDatabase, InvokeHTTP, InvokeMigration, VerifyDeployment
    <2>2. call[c].stack = <<>> /\ c \notin began /\ ~(Len(Stack(c)) > 0)
      BY <1>1, <2>1 DEF Good, Idle, NoCall, Stack
    <2>3. \/ NotCompiled(c) \/ \E j : \E first \in {"tx", "pool", "run"} : AcquireRoot(c, j, first)
      BY <1>3 DEF Invoke, InvokeWithDatabase, InvokeHTTP, InvokeMigration, VerifyDeployment
    <2>4. PICK X : /\ call' = [call EXCEPT ![c] = X]
                   /\ X.step = "done" => X.answer \in {"failed", "refused"}
      <3>1. CASE NotCompiled(c)
        <4> DEFINE X == [NoCall EXCEPT !.step = "done", !.answer = "failed"]
        <4>1. call[c] = NoCall
          BY <1>1, <2>1 DEF Good, Idle
        <4>2. call' = [call EXCEPT ![c] = X]
          BY <1>1, <3>1, <4>1 DEF NotCompiled, Answered, CallsOK
        <4>3. X.answer = "failed"
          BY DEF NoCall
        <4> HIDE DEF X
        <4> QED  BY <4>2, <4>3
      <3>2. ASSUME NEW first \in {"tx", "pool", "run"}, NEW j, AcquireRoot(c, j, first)
            PROVE \E X : /\ call' = [call EXCEPT ![c] = X]
                         /\ X.step = "done" => X.answer \in {"failed", "refused"}
        <4> DEFINE asked == [NoCall EXCEPT !.kind = j, !.pool = pool]
        <4>1. CASE slots = MaxConcurrentExecutions
          <5> DEFINE X == [asked EXCEPT !.step = "done", !.answer = "refused"]
          <5>1. call' = [call EXCEPT ![c] = X]
            BY <3>2, <4>1 DEF AcquireRoot
          <5>2. X.answer = "refused"
            BY DEF NoCall
          <5> HIDE DEF X
          <5> QED  BY <5>1, <5>2
        <4>2. CASE slots # MaxConcurrentExecutions
          <5> DEFINE s == IF first = "run" THEN <<RootFrame(j)>> ELSE <<>>
                     X == [asked EXCEPT !.step = first, !.stack = s]
          <5>1. call' = [call EXCEPT ![c] = X]
            BY <3>2, <4>2 DEF AcquireRoot
          <5> HIDE DEF s
          <5>2. X.step = first
            BY DEF NoCall
          <5> HIDE DEF X
          <5> QED  BY <5>1, <5>2
        <4> QED  BY <4>1, <4>2
      <3> QED  BY <2>3, <3>1, <3>2
    <2>5. call'[c] = X /\ \A d \in Calls : d # c => Told(d)' = Told(d)
      BY <1>1, <2>4 DEF CallsOK, Told
    <2>6. CASE X.step = "done"
      <3>1. Told(c)' = X.answer /\ X.answer \in Outcomes
        BY <2>4, <2>5, <2>6 DEF Told, Outcomes
      <3> QED  BY <2>1, <2>2, <2>5, <3>1, Answers
    <2>7. CASE X.step # "done"
      BY <2>1, <2>5, <2>7, Quiet DEF Told
    <2> QED  BY <2>6, <2>7
  <1> QED  BY <1>2, <1>3

LEMMA RootImplements ==
    ASSUME Inv, NEW c \in Calls,
           Expire(c) \/ BeginTx(c) \/ AcquirePool(c) \/ GiveUpPool(c) \/ ReleasePool(c)
    PROVE  [Observed!Next]_(Observed!evars)
  <1>1. CallsOK /\ call[c] \in CallRecord
    BY DEF Inv, Local, CallsOK
  <1>2. UNCHANGED <<open, began>>
    BY DEF Expire, BeginTx, AcquirePool, GiveUpPool, ReleasePool
  <1>3. \A d \in Calls : d # c => call'[d] = call[d]
    BY <1>1 DEF CallsOK, Expire, BeginTx, AcquirePool, GiveUpPool, ReleasePool
  <1>4. Told(c) = "none" /\ Told(c)' = "none"
    <2>1. call[c].step # "done"
      BY DEF Expire, BeginTx, AcquirePool, GiveUpPool, ReleasePool, Running
    <2>2. call'[c].step # "done"
      BY <1>1, <2>1 DEF CallsOK, CallRecord, Expire, BeginTx, AcquirePool, GiveUpPool, ReleasePool
    <2> QED  BY <2>1, <2>2 DEF Told
  <1>5. \A d \in Calls : Told(d)' = Told(d)
    BY <1>3, <1>4 DEF Told
  <1> QED  BY <1>2, <1>5, Quiet

(* The runtime implements Executions: what the observer is told of nested,  *)
(* unwound, refused and timed-out calls is a behaviour of the contract.     *)
THEOREM ObserverTheorem == Spec => ImplementsExecutions
  <1>1. Init => Observed!Init
    BY DEF Init, Observed!Init, NoCall
  <1>2. Inv /\ [Next]_vars => [Observed!Next]_(Observed!evars)
    <2> SUFFICES ASSUME Inv, [Next]_vars PROVE [Observed!Next]_(Observed!evars)
      OBVIOUS
    <2>1. CASE UNCHANGED vars
      BY <2>1, Quiet DEF vars, Told
    <2>2. CASE CompileDeployment \/ Drop \/ OtherCall
      BY <2>2, Quiet DEF CompileDeployment, Drop, OtherCall, Told
    <2>3. ASSUME NEW c \in Calls,
                 \/ \E k \in CallKinds[c] : Invoke(c, k)
                 \/ \E t \in FunctionTypes : RunNested(c, t)
                 \/ Expire(c) \/ CallStep(c)
          PROVE [Observed!Next]_(Observed!evars)
      BY <2>3, FrameImplements, NestedImplements, AnswerImplements, RootImplements
         DEF CallStep
    <2> QED  BY <2>1, <2>2, <2>3 DEF Next
  <1> QED  BY <1>1, <1>2, Invariance, PTL DEF Spec, ImplementsExecutions, Observed!Spec
=============================================================================
