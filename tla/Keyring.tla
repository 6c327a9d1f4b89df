------------------------------ MODULE Keyring ------------------------------
(***************************************************************************)
(* The keys that sign URLs of files (storage/keyring.go): rows of the      *)
(* database and a copy in memory under a lock.  A signer outside a         *)
(* transaction rotates a key that is too old, holding the lock while it    *)
(* writes; a mutation, which holds the writer of the database, takes the   *)
(* committed key; a visitor's URL is verified with the key it names; the   *)
(* cleanup worker rotates and prunes.  Time is a discrete clock: each key  *)
(* has an age, each URL the time it has left.                              *)
(***************************************************************************)
EXTENDS Naturals, FiniteSets, FiniteSetsExt

CONSTANTS
    Keys,       \* ids; one that is nowhere any more is used again
    Mutations,  \* signers in a transaction
    Signers,    \* signers outside one, whose context has a deadline
    Visitors,   \* verifications, without a deadline
    Cleaner,    \* the cleanup worker, without a deadline
    NoOne, NoKey,
    Rotation,   \* KeyRotationInterval
    Grace,      \* KeyGracePeriod
    TTL,        \* URLSigningTTL
    MaxDelay,   \* bound: ticks between the choice of a key and the expiry
    MaxFaults   \* bound: failed reads and writes, restarts

Procs == Mutations \cup Signers \cup Visitors \cup {Cleaner}
Life == Rotation + Grace

ASSUME KeyringAssumption ==
    /\ Rotation \in Nat \ {0} /\ TTL \in Nat \ {0} /\ MaxDelay \in Nat /\ MaxFaults \in Nat
    /\ Grace \in Nat /\ Grace >= TTL + 1
    /\ NoOne \notin Procs /\ NoKey \notin Keys

VARIABLES
    db,      \* keys that have a row
    age,     \* time since the creation of each key
    mem,     \* the struct: loaded, current, keys
    lock,    \* who holds k.mu across a write
    writer,  \* the mutation whose transaction is open
    pc, key, \* where each process is, and the key it chose
    delay,   \* ticks since it chose it
    url,     \* the longest time a URL signed with the key has left
    faults

vars == <<db, age, mem, lock, writer, pc, key, delay, url, faults>>

Init ==
    /\ db = {} /\ age = [k \in Keys |-> 0]
    /\ mem = [loaded |-> FALSE, current |-> NoKey, keys |-> {}]
    /\ lock = NoOne /\ writer = NoOne
    /\ pc = [p \in Procs |-> "idle"]
    /\ key = [p \in Procs |-> NoKey] /\ delay = [p \in Procs |-> 0]
    /\ url = [k \in Keys |-> 0]
    /\ faults = 0

GoTo(p, where) == pc' = [pc EXCEPT ![p] = where]
Fault == faults < MaxFaults /\ faults' = faults + 1

Expired(k) == age[k] > Life
IsValid(k) == k # NoKey /\ age[k] < Life
IsFresh(k) == IsValid(k) /\ age[k] < Rotation

Unlocked == lock = NoOne

-----------------------------------------------------------------------------
(* A mutation comes to ask for a URL. *)
Begin(m) ==
    /\ pc[m] = "idle" /\ mem.loaded
    /\ writer = NoOne /\ writer' = m /\ GoTo(m, "committed")
    /\ UNCHANGED <<db, age, mem, lock, key, delay, url, faults>>

(* The worker loads the keys when it starts, and that is all; later it asks
   for the current key in a pass, and prunes whether or not it gets one. *)
AfterLoad(p) == IF p \in Visitors THEN "get" ELSE IF mem.loaded THEN "read" ELSE "idle"
AfterFailure(p) == IF p = Cleaner /\ mem.loaded THEN "prune" ELSE "idle"

(* Others start here; requests arrive when Start has loaded the keys.
   LoadOrCreate: nothing to do when the current key is valid; otherwise the
   rows, if they can be read, and a new key under the same lock if all of
   them are too old. *)
LoadOrCreate(p) ==
    /\ p \notin Mutations /\ pc[p] = "idle" /\ Unlocked
    /\ mem.loaded \/ p = Cleaner
    /\ LET valid == {k \in db : ~Expired(k)}
           fresh == {k \in valid : age[k] < Rotation}
       IN  \/ /\ mem.loaded /\ IsValid(mem.current)
              /\ GoTo(p, AfterLoad(p)) /\ UNCHANGED <<mem, lock, faults>>
           \/ /\ ~(mem.loaded /\ IsValid(mem.current)) /\ Fault
              /\ GoTo(p, AfterFailure(p)) /\ UNCHANGED <<mem, lock>>
           \/ /\ ~(mem.loaded /\ IsValid(mem.current)) /\ fresh # {}
              /\ \E latest \in fresh :
                   /\ \A k \in fresh : age[latest] <= age[k]
                   /\ mem' = [loaded |-> TRUE, current |-> latest, keys |-> valid]
              /\ GoTo(p, AfterLoad(p)) /\ UNCHANGED <<lock, faults>>
           \/ /\ ~(mem.loaded /\ IsValid(mem.current)) /\ fresh = {}
              /\ mem' = [mem EXCEPT !.keys = valid]
              /\ lock' = p /\ GoTo(p, "create") /\ UNCHANGED faults
    /\ UNCHANGED <<db, age, writer, key, delay, url>>

(* The worker has no use for the key it gets. *)
Choose(p, k) ==
    /\ key' = [key EXCEPT ![p] = IF p = Cleaner THEN NoKey ELSE k]
    /\ delay' = [delay EXCEPT ![p] = 0]
    /\ GoTo(p, IF p = Cleaner THEN "prune" ELSE "sign")

(* Current, on its fast path. *)
ReadCurrent(p) ==
    /\ pc[p] = "read" /\ Unlocked
    /\ IF IsFresh(mem.current) THEN Choose(p, mem.current)
                               ELSE GoTo(p, "lock") /\ UNCHANGED <<key, delay>>
    /\ UNCHANGED <<db, age, mem, lock, writer, url, faults>>


(* Current, after it has the lock: another may have rotated. *)
Rotate(p) ==
    /\ pc[p] = "lock" /\ Unlocked
    /\ IF IsFresh(mem.current)
       THEN Choose(p, mem.current) /\ UNCHANGED lock
       ELSE lock' = p /\ GoTo(p, "rotate") /\ UNCHANGED <<key, delay>>
    /\ UNCHANGED <<db, age, mem, writer, url, faults>>

Unused == {k \in Keys : k \notin db \cup mem.keys \cup {mem.current} /\ url[k] = 0
                        /\ \A p \in Procs : key[p] # k}

(* generate waits for the writer with the lock held; the deferred unlock. *)
Generate(p) ==
    /\ pc[p] \in {"create", "rotate"} /\ writer = NoOne
    /\ Unused # {}
    /\ LET k == CHOOSE fresh \in Unused : TRUE IN
         /\ db' = db \cup {k} /\ age' = [age EXCEPT ![k] = 0]
         /\ mem' = [mem EXCEPT !.keys = @ \cup {k}, !.current = k,
                               !.loaded = @ \/ pc[p] = "create"]
         /\ IF pc[p] = "rotate" THEN Choose(p, k)
                                ELSE GoTo(p, AfterLoad(p)) /\ UNCHANGED <<key, delay>>
    /\ lock' = NoOne
    /\ UNCHANGED <<writer, url, faults>>

GenerateFails_NoUnlock(p) ==
    /\ pc[p] \in {"create", "rotate"} /\ writer = NoOne /\ Fault
    /\ GoTo(p, AfterFailure(p))
    /\ UNCHANGED <<db, age, mem, lock, writer, key, delay, url>>

(* The write fails, or the deadline of a signer passes while it waits.  The
   worker goes on to prune, unless it only starts. *)
GenerateFails(p) ==
    /\ pc[p] \in {"create", "rotate"}
    /\ \/ p \in Signers /\ writer # NoOne /\ UNCHANGED faults
       \/ writer = NoOne /\ Fault
    /\ lock' = NoOne /\ GoTo(p, AfterFailure(p))
    /\ UNCHANGED <<db, age, mem, writer, key, delay, url>>

-----------------------------------------------------------------------------
Committed_AnyValid == IsValid(mem.current)
Committed == IsValid(mem.current) /\ age[mem.current] + TTL < Life

(* CurrentCommitted: no write, but the lock. *)
CurrentCommitted(m) ==
    /\ pc[m] = "committed" /\ Unlocked
    /\ IF Committed THEN Choose(m, mem.current) ELSE GoTo(m, "end") /\ UNCHANGED <<key, delay>>
    /\ UNCHANGED <<db, age, mem, lock, writer, url, faults>>

(* signURL sets the expiry from the clock, after it has the key. *)
SignURL(p) ==
    /\ pc[p] = "sign"
    /\ url' = [url EXCEPT ![key[p]] = TTL]
    /\ key' = [key EXCEPT ![p] = NoKey] /\ delay' = [delay EXCEPT ![p] = 0]
    /\ GoTo(p, IF p \in Mutations THEN "end" ELSE "idle")
    /\ UNCHANGED <<db, age, mem, lock, writer, faults>>

(* The transaction ends; a URL its function returned is out either way. *)
EndMutation(m) ==
    /\ pc[m] = "end" /\ writer' = NoOne /\ GoTo(m, "idle")
    /\ UNCHANGED <<db, age, mem, lock, key, delay, url, faults>>

(* Get: the visitor is served, or told that the URL was tampered with. *)
Get(v) ==
    /\ pc[v] = "get" /\ Unlocked /\ GoTo(v, "idle")
    /\ UNCHANGED <<db, age, mem, lock, writer, key, delay, url, faults>>

-----------------------------------------------------------------------------
(* Prune: the rows one by one, without the lock; a failure, which may come
   after some of them are gone, ends the pass; then memory. *)
PruneRows ==
    /\ pc[Cleaner] = "prune" /\ writer = NoOne
    /\ LET stale == {k \in db : Expired(k)}
       IN  \/ db' = db \ stale /\ GoTo(Cleaner, "forget") /\ UNCHANGED faults
           \/ /\ Fault /\ GoTo(Cleaner, "idle")
              /\ \E gone \in SUBSET stale : db' = db \ gone
    /\ UNCHANGED <<age, mem, lock, writer, key, delay, url>>

Forgotten == {k \in mem.keys : Expired(k)}

PruneMemory ==
    /\ pc[Cleaner] = "forget" /\ Unlocked
    /\ mem' = [mem EXCEPT !.keys = @ \ Forgotten,
                          !.current = IF @ # NoKey /\ Expired(@) THEN NoKey ELSE @]
    /\ GoTo(Cleaner, "idle")
    /\ UNCHANGED <<db, age, lock, writer, key, delay, url, faults>>

-----------------------------------------------------------------------------
Tick ==
    /\ \A p \in Procs : pc[p] = "sign" => delay[p] < MaxDelay
    /\ age' = [k \in Keys |-> IF k \notin db \cup mem.keys \cup {mem.current} THEN 0
                              ELSE IF age[k] <= Life THEN age[k] + 1 ELSE age[k]]
    /\ url' = [k \in Keys |-> IF url[k] > 0 THEN url[k] - 1 ELSE 0]
    /\ delay' = [p \in Procs |-> IF pc[p] = "sign" THEN delay[p] + 1 ELSE 0]
    /\ UNCHANGED <<db, mem, lock, writer, pc, key, faults>>

(* Rows and the URLs that are out survive the process. *)
Restart ==
    /\ Fault
    /\ mem' = [loaded |-> FALSE, current |-> NoKey, keys |-> {}]
    /\ lock' = NoOne /\ writer' = NoOne
    /\ pc' = [p \in Procs |-> "idle"]
    /\ key' = [p \in Procs |-> NoKey] /\ delay' = [p \in Procs |-> 0]
    /\ UNCHANGED <<db, age, url>>

Step(p) ==
    \/ ReadCurrent(p) \/ Rotate(p) \/ Generate(p) \/ GenerateFails(p)
    \/ CurrentCommitted(p) \/ SignURL(p) \/ EndMutation(p) \/ Get(p)
    \/ p = Cleaner /\ (PruneRows \/ PruneMemory)

Next ==
    \/ \E m \in Mutations : Begin(m)
    \/ \E p \in Procs : LoadOrCreate(p) \/ Step(p)
    \/ Tick \/ Restart

Spec == Init /\ [][Next]_vars

(* A signer that can go on does (its deadline is one way), and the mutex hands
   itself to every mutation that waits for it in the end. *)
FairSpec ==
    /\ Spec
    /\ \A p \in Signers : WF_vars(Step(p))
    /\ \A m \in Mutations : SF_vars(CurrentCommitted(m))

-----------------------------------------------------------------------------
(* Properties. *)

TypeOK ==
    /\ db \subseteq Keys /\ age \in [Keys -> 0 .. Life + 1]
    /\ mem \in [loaded : BOOLEAN, current : Keys \cup {NoKey}, keys : SUBSET Keys]
    /\ lock \in Procs \cup {NoOne} /\ writer \in Mutations \cup {NoOne}
    /\ pc \in [Procs -> {"idle", "create", "read", "lock", "rotate", "committed",
                         "sign", "end", "get", "prune", "forget"}]
    /\ key \in [Procs -> Keys \cup {NoKey}] /\ delay \in [Procs -> 0 .. MaxDelay]
    /\ url \in [Keys -> 0 .. TTL] /\ faults \in 0 .. MaxFaults

(* What Get would find now: the copy in memory, or the rows if LoadOrCreate
   is going to read them first. *)
Verifies(k) ==
    /\ IsValid(k)
    /\ k \in IF mem.loaded /\ IsValid(mem.current) THEN mem.keys ELSE db

(* A URL that has not expired verifies, across rotations, prunes and restarts,
   whoever signed it; but for the time that passed between the choice of its
   key and its expiry, by which it can outlive a committed key. *)
SignedURLsVerify == \A k \in Keys : url[k] > MaxDelay => Verifies(k)

(* The worker or a visitor writes a key with the lock held and waits for the
   writer of the mutation that waits for the lock: neither has a deadline. *)
CircularWait(m) ==
    /\ pc[m] = "committed" /\ writer = m
    /\ lock \notin Signers \cup {NoOne} /\ pc[lock] \in {"create", "rotate"}

(* A mutation that asks for a URL goes on, unless it is caught in that wait:
   it needs no other process to get out of the way of its own transaction. *)
MutationsGoOn ==
    \A m \in Mutations : pc[m] = "committed" ~> (pc[m] # "committed" \/ CircularWait(m))
=============================================================================
