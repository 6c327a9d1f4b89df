---------------------------- MODULE NativeFiles ----------------------------
(***************************************************************************)
(* The byte quota of files that PocketBase itself keeps for a record       *)
(* (storage/nativequota.go, quota.go, quota_hosted.go), and the provider   *)
(* that holds the account (hosting/storagequota).  A save reserves the     *)
(* bytes it is going to write; PocketBase writes them and the row, and     *)
(* afterwards deletes the objects of names the save dropped; then the      *)
(* reservation is settled and the deleted bytes are credited, or, after a  *)
(* failed save, the reservation is released.                               *)
(*                                                                         *)
(* What PocketBase does is modelled from the hooks nativequota.go puts     *)
(* around it: Load, Write, Commit, RemoveOld and CleanUp.  The file a save *)
(* uploads has a fresh name; here it is the name of the save.              *)
(***************************************************************************)
EXTENDS Naturals, FiniteSets, FiniteSetsExt

CONSTANTS
    Saves,      \* updates of the record
    Old,        \* the file the record has at first, with a thumbnail
    Size,       \* bytes of each file
    ThumbSize,  \* bytes of the thumbnail
    Capacity,   \* capacityBytes of the provider
    Attempts,   \* quotaSettlementAttempts
    MaxFaults   \* bound: answers too late, storage errors, crashes

Names == Saves \cup {Old}
Objects == Names \X {"main", "thumb"}

ASSUME NativeFilesAssumption ==
    /\ Old \notin Saves /\ IsFiniteSet(Saves)
    /\ Size \in [Names -> Nat] /\ ThumbSize \in Nat
    /\ Capacity \in Nat /\ Size[Old] + ThumbSize <= Capacity
    /\ Attempts \in Nat \ {0} /\ MaxFaults \in Nat

VARIABLES
    row,         \* names the record stores
    disk,        \* objects that exist
    save,        \* each update, with what its hooks stash in the record
    net,         \* requests the provider has not acted on
    reservation, \* the provider's reservation of each update
    credits,     \* credit reports it has recorded
    used,        \* usedBytes of the provider
    floored,     \* history: what credits would have taken it below zero by
    faults

vars == <<row, disk, save, net, reservation, credits, used, floored, faults>>

Exchanges == {"reserve", "settle", "release", "credit"}
Steps == {"idle", "write", "commit", "stash", "remove", "confirm", "cleanup", "verify",
          "done", "gone"} \cup Exchanges

Bytes(objects) ==
    MapThenSumSet(LAMBDA o : IF o[2] = "thumb" THEN ThumbSize ELSE Size[o[1]], objects)
ObjectsOf(names) == {o \in disk : o[1] \in names}

TypeOK ==
    /\ row \subseteq Names /\ disk \subseteq Objects
    /\ save \in [Saves -> [step : Steps, waiting : BOOLEAN, attempt : 1 .. Attempts,
                           original : SUBSET Names, names : SUBSET Names,
                           removals : SUBSET Objects, freed : SUBSET Objects]]
    /\ net \subseteq Saves \X Exchanges
    /\ reservation \in [Saves -> {"none", "denied", "reserved", "settled", "released"}]
    /\ credits \subseteq Saves /\ used \in Nat /\ floored \in Nat /\ faults \in 0 .. MaxFaults

Init ==
    /\ row = {Old} /\ disk = {Old} \X {"main", "thumb"}
    /\ save = [s \in Saves |-> [step |-> "idle", waiting |-> FALSE, attempt |-> 1,
                                original |-> {}, names |-> {}, removals |-> {}, freed |-> {}]]
    /\ net = {}
    /\ reservation = [s \in Saves |-> "none"] /\ credits = {}
    /\ used = Size[Old] + ThumbSize /\ floored = 0
    /\ faults = 0

provider == <<net, reservation, credits, used, floored>>

Fault == faults < MaxFaults /\ faults' = faults + 1

At(s, step) == save[s].step = step /\ ~save[s].waiting
GoTo(s, step) == [save EXCEPT ![s].step = step, ![s].waiting = FALSE, ![s].attempt = 1]

Uploads(s) == save[s].names \ save[s].original
Dropped(s) == save[s].original \ save[s].names

-----------------------------------------------------------------------------
(* The save, up to its commit or failure. *)

Load(s) ==
    /\ At(s, "idle")
    /\ \E kept \in SUBSET row, new \in {{}, {s}} :
         save' = [save EXCEPT ![s].step = IF new = {} THEN "write" ELSE "reserve",
                              ![s].original = row, ![s].names = kept \cup new]
    /\ UNCHANGED <<row, disk, provider, faults>>

Write(s) ==
    /\ At(s, "write")
    /\ \/ /\ disk' = disk \cup (Uploads(s) \X {"main"})
          /\ save' = GoTo(s, "commit") /\ UNCHANGED faults
       \/ /\ Fault /\ save' = GoTo(s, "cleanup")
          /\ disk' \in {disk, disk \cup (Uploads(s) \X {"main"})}
    /\ UNCHANGED <<row, provider>>

Commit(s) ==
    /\ At(s, "commit")
    /\ \/ row' = save[s].names /\ save' = GoTo(s, "stash")
       \/ UNCHANGED row /\ save' = GoTo(s, "cleanup")
    /\ UNCHANGED <<disk, provider, faults>>

-----------------------------------------------------------------------------
(* After a commit: the sizes of what is going to be deleted, the deletion,
   the settlement, the credit. *)

(* File by file; one that cannot be measured is skipped, and its thumbnails
   are when only they cannot be listed. *)
StashDeleteSizes(s) ==
    /\ At(s, "stash")
    /\ LET there == ObjectsOf({n \in Dropped(s) : <<n, "main">> \in disk})
       IN  \E measured \in SUBSET there :
             /\ save' = [GoTo(s, "remove") EXCEPT ![s].removals = measured]
             /\ \/ measured = there /\ UNCHANGED faults
                \/ Fault /\ \A o \in measured : <<o[1], "main">> \in measured
    /\ UNCHANGED <<row, disk, provider>>

AfterRemoval_Unsettled(s) == "confirm"
AfterRemoval(s) == IF Uploads(s) = {} THEN "confirm" ELSE "settle"

RemoveOld(s) ==
    /\ At(s, "remove")
    /\ \/ disk' = disk \ ObjectsOf(Dropped(s)) /\ UNCHANGED faults
       \/ Fault /\ \E left \in SUBSET ObjectsOf(Dropped(s)) :
                       disk' = (disk \ ObjectsOf(Dropped(s))) \cup left
    /\ save' = GoTo(s, AfterRemoval(s))
    /\ UNCHANGED <<row, provider>>

(* A removal counts when nothing of what was measured is left. *)
Confirmed(s, o) ==
    /\ o \in save[s].removals /\ <<o[1], "main">> \notin disk
    /\ <<o[1], "thumb">> \in save[s].removals => <<o[1], "thumb">> \notin disk

(* Of each file, unless the check itself fails. *)
CreditConfirmedDeletes(s) ==
    /\ At(s, "confirm")
    /\ \E failed \in SUBSET {o[1] : o \in save[s].removals} :
         LET freed == {o \in save[s].removals : o[1] \notin failed /\ Confirmed(s, o)}
         IN  /\ save' = [GoTo(s, IF freed = {} THEN "done" ELSE "credit") EXCEPT ![s].freed = freed]
             /\ IF failed = {} THEN UNCHANGED faults ELSE Fault
    /\ UNCHANGED <<row, disk, provider>>

-----------------------------------------------------------------------------
(* After a failure: PocketBase deletes what it uploaded, and the reservation
   is released if none of it is there. *)

CleanUp(s) ==
    /\ At(s, "cleanup")
    /\ \/ disk' = disk \ ObjectsOf(Uploads(s)) /\ UNCHANGED faults
       \/ UNCHANGED disk /\ Fault
    /\ save' = GoTo(s, "verify")
    /\ UNCHANGED <<row, provider>>

Absent_Assumed(s) == TRUE
Absent(s) == ObjectsOf(Uploads(s)) = {}

HandleSaveError(s) ==
    /\ At(s, "verify")
    /\ \/ /\ save' = GoTo(s, IF Uploads(s) # {} /\ Absent(s) THEN "release" ELSE "done")
          /\ UNCHANGED faults
       \/ save' = GoTo(s, "done") /\ Fault
    /\ UNCHANGED <<row, disk, provider>>

-----------------------------------------------------------------------------
(* Requests to the provider.  A reservation is tried once and a failure aborts
   the save; reports are tried several times, with one identity. *)

(* The step after an exchange that ended well, or badly. *)
Following(step) == CASE step = "reserve" -> "write"
                 [] step = "settle" -> "confirm"
                 [] OTHER -> "done"
Unanswered(step) == IF step = "reserve" THEN "done" ELSE Following(step)

Returned(s, result) ==
    LET step == save[s].step
        tries == IF step = "reserve" THEN 1 ELSE Attempts
    IN  save' = IF result = "ok" THEN GoTo(s, Following(step))
                ELSE IF result = "denied" THEN GoTo(s, "done")
                ELSE IF save[s].attempt < tries
                     THEN [save EXCEPT ![s].waiting = FALSE, ![s].attempt = @ + 1]
                     ELSE GoTo(s, Unanswered(step))

Request(s) == <<s, save[s].step>>

Call(s) ==
    /\ save[s].step \in Exchanges /\ ~save[s].waiting
    /\ net' = net \cup {Request(s)}
    /\ save' = [save EXCEPT ![s].waiting = TRUE]
    /\ UNCHANGED <<row, disk, reservation, credits, used, floored, faults>>

(* The request may still arrive. *)
GiveUp(s) ==
    /\ save[s].waiting /\ Fault
    /\ Returned(s, "error")
    /\ UNCHANGED <<row, disk, provider>>

-----------------------------------------------------------------------------
(* The provider. *)

Reserved == {s \in Saves : reservation[s] = "reserved"}
Bound(s) == Bytes({s} \X {"main"})
InFlight == MapThenSumSet(Bound, Reserved)

Fits_Settled(s) == used + Bound(s) <= Capacity
Fits(s) == used + InFlight + Bound(s) <= Capacity

Reserve(s, result) ==
    \/ /\ reservation[s] = "none"
       /\ reservation' = [reservation EXCEPT ![s] = IF Fits(s) THEN "reserved" ELSE "denied"]
       /\ result = IF Fits(s) THEN "ok" ELSE "denied"
    \/ /\ reservation[s] # "none" /\ UNCHANGED reservation
       /\ result = IF reservation[s] = "denied" THEN "denied" ELSE "ok"

(* What the committed record stores of the uploads. *)
Stored(s) == Bytes((Uploads(s) \cap save[s].names) \X {"main"})

Settle(s, result) ==
    \/ /\ reservation[s] = "reserved" /\ result = "ok"
       /\ reservation' = [reservation EXCEPT ![s] = "settled"] /\ used' = used + Stored(s)
    \/ /\ reservation[s] # "reserved" /\ UNCHANGED <<reservation, used>>
       /\ result = IF reservation[s] = "settled" THEN "ok" ELSE "error"

Release(s, result) ==
    \/ /\ reservation[s] = "reserved" /\ result = "ok"
       /\ reservation' = [reservation EXCEPT ![s] = "released"]
    \/ /\ reservation[s] # "reserved" /\ UNCHANGED reservation
       /\ result = IF reservation[s] = "released" THEN "ok" ELSE "error"

(* Usage is never negative. *)
TakeOff(freed) ==
    IF freed > used THEN used' = 0 /\ floored' = floored + (freed - used)
    ELSE used' = used - freed /\ UNCHANGED floored

Credit(s) ==
    \/ s \in credits /\ UNCHANGED <<credits, used, floored>>
    \/ /\ s \notin credits /\ credits' = credits \cup {s}
       /\ TakeOff(Bytes(save[s].freed))

(* The answer reaches the save if it still waits for it; the provider does
   not forget, and may be short of room for another record. *)
ServeHTTP(m) ==
    LET s == m[1]
        heard == save[s].waiting /\ Request(s) = m
    IN  /\ m \in net /\ net' = net \ {m}
        /\ \E result \in {"ok", "denied", "error"} :
             /\ CASE m[2] = "reserve" -> Reserve(s, result) /\ UNCHANGED <<credits, used, floored>>
                  [] m[2] = "settle"  -> Settle(s, result) /\ UNCHANGED <<credits, floored>>
                  [] m[2] = "release" -> Release(s, result) /\ UNCHANGED <<credits, used, floored>>
                  [] m[2] = "credit"  -> Credit(s) /\ result = "ok" /\ UNCHANGED reservation
             /\ IF heard THEN Returned(s, result) ELSE UNCHANGED save
        /\ UNCHANGED <<row, disk, faults>>

Lose(m) ==
    /\ m \in net /\ ~(save[m[1]].waiting /\ Request(m[1]) = m)
    /\ net' = net \ {m}
    /\ UNCHANGED <<row, disk, save, reservation, credits, used, floored, faults>>

(* The process dies with all its saves. *)
Crash ==
    /\ Fault
    /\ save' = [s \in Saves |-> IF save[s].step \in {"idle", "done"} THEN save[s]
                                ELSE [save[s] EXCEPT !.step = "gone", !.waiting = FALSE]]
    /\ UNCHANGED <<row, disk, provider>>

Next ==
    \/ \E s \in Saves :
        \/ Load(s) \/ Write(s) \/ Commit(s)
        \/ StashDeleteSizes(s) \/ RemoveOld(s) \/ CreditConfirmedDeletes(s)
        \/ CleanUp(s) \/ HandleSaveError(s)
        \/ Call(s) \/ GiveUp(s)
    \/ \E m \in net : ServeHTTP(m) \/ Lose(m)
    \/ Crash

Spec == Init /\ [][Next]_vars

-----------------------------------------------------------------------------
(* Properties. *)

(* Two updates that drop the same file may both measure it before either
   deletes it, and both find it gone; each reports it under an identity of its
   own.  What was credited more than once: *)
CreditedTwice ==
    LET times(o) == Cardinality({s \in credits : o \in save[s].freed})
        twice == {o \in Objects : times(o) > 1}
    IN  MapThenSumSet(LAMBDA o : (times(o) - 1) * Bytes({o}), twice)

(* The account never falls below the bytes on disk but by that ("the bytes are
   never silently released on an uncertain outcome"): whatever fails, is late
   or is repeated, and wherever the process dies. *)
OnlyDoubleCreditsUndercount == Bytes(disk) <= used + InFlight + CreditedTwice

(* So the disk never holds more than the quota, but for the same bytes. *)
WithinCapacity == Bytes(disk) <= Capacity + CreditedTwice

(* When all saves have ended without a fault the account is exact, but for
   those bytes and for those a credit could not take off because it came before
   the settlement of what it credits: every reservation was settled or
   released, with the right number. *)
ExactWithoutFaults ==
    faults = 0 /\ (\A s \in Saves : save[s].step \in {"idle", "done"})
        => InFlight = 0 /\ used + CreditedTwice = Bytes(disk) + floored
=============================================================================
