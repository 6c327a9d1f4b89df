----------------------------- MODULE Executions -----------------------------
(***************************************************************************)
(* What the runtime promises an ExecutionObserver (runtime/execution.go,   *)
(* its doc comments): user code runs only inside an execution the observer *)
(* has admitted; executions of one call nest, a child inside its parent;   *)
(* End is called exactly once for an execution whose Begin succeeded, and  *)
(* before the call answers; a call that was refused before it started has  *)
(* run no handler.                                                         *)
(***************************************************************************)
EXTENDS Integers, Sequences

CONSTANTS Calls

VARIABLES
    open,    \* the executions of a call that have begun and not ended, outermost first
    ran,     \* the calls a handler of which has begun
    answer   \* what the call was answered, "none" before

evars == <<open, ran, answer>>

Kinds == {"bundle", "handler", "migration"}
Answers == {"ok", "failed", "refused", "started", "panic"}

Init == /\ open = [c \in Calls |-> <<>>]
        /\ ran = {}
        /\ answer = [c \in Calls |-> "none"]

(* A bundle load is a leaf: nothing begins inside it, nor inside a migration. *)
Begin(c, k) ==
    /\ answer[c] = "none"
    /\ open[c] = <<>> \/ open[c][Len(open[c])] = "handler"
    /\ open' = [open EXCEPT ![c] = Append(@, k)]
    /\ ran' = IF k = "bundle" THEN ran ELSE ran \cup {c}
    /\ UNCHANGED answer

End(c) ==
    /\ open[c] # <<>>
    /\ open' = [open EXCEPT ![c] = SubSeq(@, 1, Len(@) - 1)]
    /\ UNCHANGED <<ran, answer>>

Answer(c, a) ==
    /\ answer[c] = "none" /\ open[c] = <<>>
    /\ a = "refused" => c \notin ran
    /\ answer' = [answer EXCEPT ![c] = a]
    /\ UNCHANGED <<open, ran>>

Next == \E c \in Calls : \/ \E k \in Kinds : Begin(c, k)
                         \/ End(c)
                         \/ \E a \in Answers : Answer(c, a)

Spec == Init /\ [][Next]_evars
=============================================================================
