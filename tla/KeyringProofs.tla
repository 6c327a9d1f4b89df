---------------------------- MODULE KeyringProofs ----------------------------
(***************************************************************************)
(* Proof that URLs which are out keep verifying (SignedURLsVerify), for    *)
(* any number of keys and processes and all intervals the configuration    *)
(* admits.                                                                 *)
(***************************************************************************)
EXTENDS Keyring, TLAPS

(* Who is about to sign has a key that lasts, and is in both places. *)
Signing ==
    \A p \in Procs : pc[p] = "sign" =>
        /\ key[p] \in Keys /\ mem.loaded
        /\ age[key[p]] + TTL <= Life - 1 + delay[p]
        /\ TTL > MaxDelay => key[p] \in db /\ key[p] \in mem.keys

(* The current key is in both places until it is too old. *)
CurrentKept ==
    mem.current # NoKey /\ age[mem.current] <= Life => mem.current \in db \cap mem.keys

(* A URL that is out ends with its key, but for the delay, and its key is in
   both places until then; a worker that creates the first key has read it. *)
KeysLast ==
    \A k \in Keys :
        /\ url[k] > 0 => age[k] + url[k] <= Life - 1 + MaxDelay
        /\ url[k] > MaxDelay =>
             k \in db /\ (mem.loaded \/ pc[Cleaner] = "create" => k \in mem.keys)

(* Until the keys are loaded nobody but the worker is at work. *)
Started == ~mem.loaded => \A p \in Procs \ {Cleaner} : pc[p] = "idle"

IInv == TypeOK /\ Signing /\ CurrentKept /\ KeysLast /\ Started

-----------------------------------------------------------------------------
(* Lemmas. *)

Places == {"idle", "create", "read", "lock", "rotate", "committed",
           "sign", "end", "get", "prune", "forget"}

(* A key chosen while it is fresh, or with a time to live before it ends,
   lasts for the URL. *)
LEMMA FreshLasts ==
    ASSUME TypeOK, NEW k \in Keys, IsFresh(k)
    PROVE  age[k] + TTL <= Life - 1 /\ age[k] <= Life
  <1>1. age[k] \in Nat /\ age[k] < Rotation
    BY DEF TypeOK, IsFresh
  <1> QED BY <1>1, KeyringAssumption DEF Life

(* A key whose URL is out, or is about to be, and outlasts the delay has not
   expired. *)
LEMMA OutIsYoung ==
    ASSUME IInv, NEW k \in Keys, url[k] > MaxDelay
    PROVE  age[k] < Life /\ k \in db
  <1>1. age[k] \in Nat /\ url[k] \in Nat /\ MaxDelay \in Nat /\ Life \in Nat
    BY KeyringAssumption DEF IInv, TypeOK, Life
  <1>2. url[k] > 0
    BY <1>1
  <1>3. age[k] + url[k] <= Life - 1 + MaxDelay /\ k \in db
    BY <1>2 DEF IInv, KeysLast
  <1> QED BY <1>1, <1>3

LEMMA SigningIsYoung ==
    ASSUME IInv, NEW p \in Procs, pc[p] = "sign", TTL > MaxDelay
    PROVE  age[key[p]] < Life
  <1>1. /\ key[p] \in Keys /\ age[key[p]] + TTL <= Life - 1 + delay[p]
    BY DEF IInv, Signing
  <1>2. /\ age[key[p]] \in Nat /\ delay[p] \in Nat /\ delay[p] <= MaxDelay
        /\ MaxDelay \in Nat /\ Life \in Nat /\ TTL \in Nat
    BY <1>1, KeyringAssumption DEF IInv, TypeOK, Life
  <1> QED BY <1>1, <1>2

(* Who is at work, and is not the worker, has seen the keys loaded. *)
LEMMA AtWork ==
    ASSUME IInv, NEW p \in Procs, p # Cleaner, pc[p] # "idle"
    PROVE  mem.loaded
  BY DEF IInv, Started

Kept == Signing /\ CurrentKept /\ KeysLast /\ Started

(* A process that goes on without a choice, and the keys as they are. *)
LEMMA Moves ==
    ASSUME IInv, NEW p \in Procs, NEW where \in Places, GoTo(p, where),
           where \notin {"sign", "create"}, mem.loaded \/ p = Cleaner \/ where = "idle",
           UNCHANGED <<db, age, mem, key, delay, url>>
    PROVE  Kept' /\ pc' \in [Procs -> Places]
  <1>1. pc \in [Procs -> Places]
    BY DEF IInv, TypeOK, Places
  <1>2. pc' = [pc EXCEPT ![p] = where]
    BY DEF GoTo
  <1>3. pc' \in [Procs -> Places]
    BY <1>1, <1>2
  <1>4. \A q \in Procs : pc'[q] \in {"sign", "create"} => pc'[q] = pc[q]
    BY <1>1, <1>2
  <1>5. Signing'
    BY <1>4 DEF IInv, Signing, Life
  <1>6. CurrentKept'
    BY DEF IInv, CurrentKept, Life
  <1>7. KeysLast'
    <2>1. Cleaner \in Procs
      BY DEF Procs
    <2>2. pc'[Cleaner] = "create" => pc[Cleaner] = "create"
      BY <1>4, <2>1
    <2> QED BY <2>2 DEF IInv, KeysLast, Life
  <1>8. Started'
    BY <1>1, <1>2 DEF IInv, Started
  <1> QED BY <1>3, <1>5, <1>6, <1>7, <1>8 DEF Kept

(* A process that chooses the current key. *)
LEMMA Chosen ==
    ASSUME IInv, NEW p \in Procs, pc[p] # "idle", Choose(p, mem.current),
           mem.current \in Keys, age[mem.current] + TTL <= Life - 1,
           age[mem.current] <= Life,
           UNCHANGED <<db, age, mem, url>>
    PROVE  /\ Kept' /\ pc' \in [Procs -> Places]
           /\ key' \in [Procs -> Keys \cup {NoKey}] /\ delay' \in [Procs -> 0 .. MaxDelay]
  <1>1. /\ pc \in [Procs -> Places] /\ key \in [Procs -> Keys \cup {NoKey}]
        /\ delay \in [Procs -> 0 .. MaxDelay] /\ 0 \in 0 .. MaxDelay
    BY KeyringAssumption DEF IInv, TypeOK, Places
  <1> DEFINE where == IF p = Cleaner THEN "prune" ELSE "sign"
             chosen == IF p = Cleaner THEN NoKey ELSE mem.current
  <1>2. /\ pc' = [pc EXCEPT ![p] = where] /\ key' = [key EXCEPT ![p] = chosen]
        /\ delay' = [delay EXCEPT ![p] = 0]
    BY DEF Choose, GoTo
  <1>3. where \in Places /\ where \notin {"create", "idle"}
    BY DEF Places
  <1>4. /\ pc' \in [Procs -> Places] /\ key' \in [Procs -> Keys \cup {NoKey}]
        /\ delay' \in [Procs -> 0 .. MaxDelay]
    BY <1>1, <1>2, <1>3
  <1>5. Signing'
    <2> SUFFICES ASSUME NEW q \in Procs, pc'[q] = "sign"
                 PROVE  /\ key'[q] \in Keys /\ mem.loaded
                        /\ age[key'[q]] + TTL <= Life - 1 + delay'[q]
                        /\ TTL > MaxDelay => key'[q] \in db /\ key'[q] \in mem.keys
      BY DEF Signing, Life
    <2>1. CASE q = p
      <3>1. p # Cleaner
        BY <1>1, <1>2, <2>1
      <3>2. mem.loaded
        BY <3>1, AtWork
      <3>3. key'[q] = mem.current /\ delay'[q] = 0
        BY <1>1, <1>2, <2>1
      <3>4. mem.current # NoKey
        BY KeyringAssumption
      <3>5. mem.current \in db \cap mem.keys
        BY <3>4 DEF IInv, CurrentKept
      <3>6. age[mem.current] + TTL <= Life - 1 + 0
        BY KeyringAssumption DEF Life
      <3> QED BY <3>2, <3>3, <3>5, <3>6
    <2>2. CASE q # p
      <3>1. pc[q] = "sign" /\ key'[q] = key[q] /\ delay'[q] = delay[q]
        BY <1>1, <1>2, <2>2
      <3> QED BY <3>1 DEF IInv, Signing
    <2> QED BY <2>1, <2>2
  <1>6. CurrentKept'
    BY DEF IInv, CurrentKept, Life
  <1>7. KeysLast'
    <2>1. Cleaner \in Procs
      BY DEF Procs
    <2>2. pc'[Cleaner] = "create" => pc[Cleaner] = "create"
      BY <1>1, <1>2, <1>3, <2>1
    <2> QED BY <2>2 DEF IInv, KeysLast, Life
  <1>8. Started'
    <2>1. mem.loaded \/ p = Cleaner
      BY AtWork
    <2> QED BY <1>1, <1>2, <2>1 DEF IInv, Started
  <1> QED BY <1>4, <1>5, <1>6, <1>7, <1>8 DEF Kept
-----------------------------------------------------------------------------
(* Loading: the keys that have not expired, and the freshest of them or a new
   one. *)

Valid == {k \in db : ~Expired(k)}

(* Every key that must be in memory is among those that are read. *)
LEMMA LoadedKept ==
    ASSUME IInv
    PROVE  /\ \A k \in Keys : url[k] > MaxDelay => k \in Valid
           /\ \A p \in Procs : pc[p] = "sign" /\ TTL > MaxDelay => key[p] \in Valid
  <1>1. Life \in Nat /\ \A k \in Keys : age[k] \in Nat
    BY KeyringAssumption DEF IInv, TypeOK, Life
  <1>2. ASSUME NEW k \in Keys, url[k] > MaxDelay
        PROVE  k \in Valid
    BY <1>1, <1>2, OutIsYoung DEF Valid, Expired
  <1>3. ASSUME NEW p \in Procs, pc[p] = "sign", TTL > MaxDelay
        PROVE  key[p] \in Valid
    <2>1. key[p] \in Keys /\ key[p] \in db
      BY <1>3 DEF IInv, Signing
    <2>2. age[key[p]] < Life
      BY <1>3, SigningIsYoung
    <2> QED BY <1>1, <2>1, <2>2 DEF Valid, Expired
  <1> QED BY <1>2, <1>3

(* Reading the keys, with the current one kept or replaced by a key that was
   read, and the process ready to go on or to create one. *)
LEMMA Loading ==
    ASSUME IInv, NEW p \in Procs, pc[p] = "idle", mem.loaded \/ p = Cleaner,
           NEW where \in {"read", "get", "idle", "create"}, GoTo(p, where),
           mem'.keys = Valid, mem.loaded => mem'.loaded,
           mem'.current = mem.current \/ mem'.current \in Valid,
           UNCHANGED <<db, age, key, delay, url>>
    PROVE  Kept' /\ pc' \in [Procs -> Places]
  <1>1. pc \in [Procs -> Places] /\ pc' = [pc EXCEPT ![p] = where] /\ where \in Places
    BY DEF IInv, TypeOK, Places, GoTo
  <1>2. pc' \in [Procs -> Places]
    BY <1>1
  <1>3. \A q \in Procs : pc'[q] = "sign" => pc[q] = "sign"
    BY <1>1
  <1>4. Signing'
    <2> SUFFICES ASSUME NEW q \in Procs, pc'[q] = "sign"
                 PROVE  /\ key[q] \in Keys /\ mem'.loaded
                        /\ age[key[q]] + TTL <= Life - 1 + delay[q]
                        /\ TTL > MaxDelay => key[q] \in db /\ key[q] \in mem'.keys
      BY DEF Signing, Life
    <2>1. /\ key[q] \in Keys /\ mem.loaded
          /\ age[key[q]] + TTL <= Life - 1 + delay[q]
          /\ TTL > MaxDelay => key[q] \in db
      BY <1>3 DEF IInv, Signing
    <2>2. TTL > MaxDelay => key[q] \in Valid
      BY <1>3, LoadedKept
    <2> QED BY <2>1, <2>2
  <1>5. CurrentKept'
    <2> SUFFICES ASSUME mem'.current # NoKey, age[mem'.current] <= Life
                 PROVE  mem'.current \in db \cap Valid
      BY DEF CurrentKept, Life
    <2>1. CASE mem'.current = mem.current
      <3>1. mem.current \in db /\ mem.current \in Keys
        BY <2>1 DEF IInv, CurrentKept, TypeOK
      <3>2. ~Expired(mem.current)
        BY <2>1, <3>1, KeyringAssumption DEF Expired, Life, IInv, TypeOK
      <3> QED BY <2>1, <3>1, <3>2 DEF Valid
    <2>2. CASE mem'.current \in Valid
      BY <2>2 DEF Valid
    <2> QED BY <2>1, <2>2
  <1>6. KeysLast'
    <2> SUFFICES ASSUME NEW k \in Keys
                 PROVE  /\ url[k] > 0 => age[k] + url[k] <= Life - 1 + MaxDelay
                        /\ url[k] > MaxDelay => k \in db /\ k \in mem'.keys
      BY DEF KeysLast, Life
    <2> QED BY LoadedKept DEF IInv, KeysLast
  <1>7. Started'
    BY <1>1 DEF IInv, Started
  <1> QED BY <1>2, <1>4, <1>5, <1>6, <1>7 DEF Kept

LEMMA LoadStep ==
    ASSUME IInv, NEW p \in Procs, LoadOrCreate(p)
    PROVE  IInv'
  <1> USE DEF LoadOrCreate
  <1>1. AfterLoad(p) \in {"read", "get", "idle"}
    BY DEF AfterLoad
  <1>2. mem \in [loaded : BOOLEAN, current : Keys \cup {NoKey}, keys : SUBSET Keys]
    BY DEF IInv, TypeOK
  <1>3. Valid \subseteq Keys
    BY DEF Valid, IInv, TypeOK
  <1>4. faults' \in 0 .. MaxFaults
    BY KeyringAssumption DEF Fault, IInv, TypeOK
  <1>5. ASSUME NEW where \in {"read", "get", "idle", "prune"}, GoTo(p, where),
               UNCHANGED <<mem, lock>>
        PROVE  IInv'
    <2>1. Kept' /\ pc' \in [Procs -> Places]
      BY <1>5, Moves DEF Places
    <2> QED BY <1>4, <1>5, <2>1 DEF IInv, TypeOK, Kept, Places, Life
  <1>6. ASSUME NEW latest \in Valid, GoTo(p, AfterLoad(p)), UNCHANGED lock,
               mem' = [loaded |-> TRUE, current |-> latest, keys |-> Valid]
        PROVE  IInv'
    <2>1. mem'.keys = Valid /\ mem'.loaded /\ mem'.current \in Valid
      BY <1>6
    <2>2. Kept' /\ pc' \in [Procs -> Places]
      BY <1>1, <1>6, <2>1, Loading
    <2>3. mem' \in [loaded : BOOLEAN, current : Keys \cup {NoKey}, keys : SUBSET Keys]
      BY <1>3, <1>6
    <2> QED BY <1>4, <1>6, <2>2, <2>3 DEF IInv, TypeOK, Kept, Places, Life
  <1>7. CASE mem' = [mem EXCEPT !.keys = Valid] /\ lock' = p /\ GoTo(p, "create")
    <2>1. mem'.keys = Valid /\ mem'.loaded = mem.loaded /\ mem'.current = mem.current
      BY <1>2, <1>7
    <2>2. Kept' /\ pc' \in [Procs -> Places]
      BY <1>7, <2>1, Loading
    <2>3. mem' \in [loaded : BOOLEAN, current : Keys \cup {NoKey}, keys : SUBSET Keys]
      BY <1>2, <1>3, <1>7
    <2> QED BY <1>4, <1>7, <2>2, <2>3 DEF IInv, TypeOK, Kept, Places, Life
  <1>8. AfterFailure(p) \in {"idle", "prune"}
    BY DEF AfterFailure
  <1> QED BY <1>1, <1>5, <1>6, <1>7, <1>8 DEF Valid
-----------------------------------------------------------------------------
(* The actions that write. *)

(* A key that nobody uses becomes current; who rotated has chosen it. *)
LEMMA GenerateStep ==
    ASSUME IInv, NEW p \in Procs, Generate(p)
    PROVE  IInv'
  <1>1. PICK k \in Unused :
          /\ db' = db \cup {k} /\ age' = [age EXCEPT ![k] = 0]
          /\ mem' = [mem EXCEPT !.keys = @ \cup {k}, !.current = k,
                                !.loaded = @ \/ pc[p] = "create"]
          /\ IF pc[p] = "rotate" THEN Choose(p, k)
                                 ELSE GoTo(p, AfterLoad(p)) /\ UNCHANGED <<key, delay>>
    BY DEF Generate
  <1>2. /\ pc[p] \in {"create", "rotate"} /\ lock' = NoOne
        /\ UNCHANGED <<writer, url, faults>>
    BY DEF Generate
  <1>3. /\ k \in Keys /\ k \notin db /\ k \notin mem.keys /\ k # mem.current
        /\ url[k] = 0 /\ \A q \in Procs : key[q] # k
    BY <1>1 DEF Unused
  <1>4. /\ mem \in [loaded : BOOLEAN, current : Keys \cup {NoKey}, keys : SUBSET Keys]
        /\ pc \in [Procs -> Places] /\ key \in [Procs -> Keys \cup {NoKey}]
        /\ delay \in [Procs -> 0 .. MaxDelay] /\ age \in [Keys -> 0 .. Life + 1]
        /\ db \subseteq Keys
    BY DEF IInv, TypeOK, Places
  <1>5. /\ mem'.keys = mem.keys \cup {k} /\ mem'.current = k
        /\ mem'.loaded <=> (mem.loaded \/ pc[p] = "create")
    BY <1>1, <1>4
  <1>6. mem' \in [loaded : BOOLEAN, current : Keys \cup {NoKey}, keys : SUBSET Keys]
    BY <1>1, <1>3, <1>4
  <1>7. /\ age'[k] = 0 /\ age' \in [Keys -> 0 .. Life + 1]
        /\ \A j \in Keys : j # k => age'[j] = age[j]
    <2>1. 0 \in 0 .. Life + 1
      BY KeyringAssumption DEF Life
    <2> QED BY <1>1, <1>3, <1>4, <2>1
  <1>8. PICK where \in {"read", "get", "idle", "prune", "sign"} :
          /\ pc' = [pc EXCEPT ![p] = where]
          /\ where = "sign" => /\ p # Cleaner /\ pc[p] = "rotate"
                               /\ key' = [key EXCEPT ![p] = k]
                               /\ delay' = [delay EXCEPT ![p] = 0]
    BY <1>1 DEF Choose, GoTo, AfterLoad
  <1>9. /\ pc' \in [Procs -> Places]
        /\ \A q \in Procs : q # p => pc'[q] = pc[q]
        /\ pc'[p] = where
    BY <1>4, <1>8 DEF Places
  <1>10. /\ key' \in [Procs -> Keys \cup {NoKey}] /\ delay' \in [Procs -> 0 .. MaxDelay]
         /\ \A q \in Procs : q # p => key'[q] = key[q] /\ delay'[q] = delay[q]
    <2>1. 0 \in 0 .. MaxDelay
      BY KeyringAssumption
    <2> QED BY <1>1, <1>3, <1>4, <2>1 DEF Choose
  <1>11. TypeOK'
    BY <1>1, <1>2, <1>3, <1>4, <1>6, <1>7, <1>9, <1>10 DEF IInv, TypeOK, Places, Life
  <1>12. /\ mem.loaded => mem'.loaded
         /\ mem'.loaded => mem.loaded \/ (p = Cleaner /\ pc[Cleaner] = "create")
         /\ p # Cleaner => mem.loaded
    BY <1>2, <1>5, AtWork
  <1>13. Signing'
    <2> SUFFICES ASSUME NEW q \in Procs, pc'[q] = "sign"
                 PROVE  /\ key'[q] \in Keys /\ mem'.loaded
                        /\ age'[key'[q]] + TTL <= Life - 1 + delay'[q]
                        /\ TTL > MaxDelay => key'[q] \in db' /\ key'[q] \in mem'.keys
      BY DEF Signing, Life
    <2>1. CASE q = p
      <3>1. key'[q] = k /\ delay'[q] = 0
        BY <1>4, <1>8, <1>9, <2>1
      <3>2. 0 + TTL <= Life - 1 + 0
        BY KeyringAssumption DEF Life
      <3>3. mem'.loaded
        BY <1>8, <1>9, <1>12, <2>1
      <3> QED BY <1>1, <1>3, <1>5, <1>7, <3>1, <3>2, <3>3
    <2>2. CASE q # p
      <3>1. pc[q] = "sign" /\ key'[q] = key[q] /\ delay'[q] = delay[q] /\ key[q] # k
        BY <1>3, <1>9, <1>10, <2>2
      <3>2. /\ key[q] \in Keys /\ mem.loaded
            /\ age[key[q]] + TTL <= Life - 1 + delay[q]
            /\ TTL > MaxDelay => key[q] \in db /\ key[q] \in mem.keys
        BY <3>1 DEF IInv, Signing
      <3> QED BY <1>1, <1>5, <1>7, <1>12, <3>1, <3>2
    <2> QED BY <2>1, <2>2
  <1>14. CurrentKept'
    BY <1>1, <1>5 DEF CurrentKept
  <1>15. KeysLast'
    <2> SUFFICES ASSUME NEW j \in Keys
                 PROVE  /\ url[j] > 0 => age'[j] + url[j] <= Life - 1 + MaxDelay
                        /\ url[j] > MaxDelay =>
                             j \in db' /\ (mem'.loaded => j \in mem'.keys)
      <3>1. pc'[Cleaner] = "create" => mem'.loaded
        BY <1>8, <1>9, <1>12
      <3> QED BY <1>2, <3>1 DEF KeysLast, Life
    <2>1. CASE j = k
      BY <1>3, <2>1, KeyringAssumption
    <2>2. CASE j # k
      <3>1. /\ url[j] > 0 => age[j] + url[j] <= Life - 1 + MaxDelay
            /\ url[j] > MaxDelay =>
                 j \in db /\ (mem.loaded \/ pc[Cleaner] = "create" => j \in mem.keys)
        BY DEF IInv, KeysLast
      <3>2. mem'.loaded => mem.loaded \/ pc[Cleaner] = "create"
        BY <1>12
      <3> QED BY <1>1, <1>5, <1>7, <2>2, <3>1, <3>2
    <2> QED BY <2>1, <2>2
  <1>16. Started'
    <2> SUFFICES ASSUME ~mem'.loaded, NEW q \in Procs \ {Cleaner}
                 PROVE  pc'[q] = "idle"
      BY DEF Started
    <2> QED BY <1>9, <1>12 DEF IInv, Started
  <1> QED BY <1>11, <1>13, <1>14, <1>15, <1>16 DEF IInv
(* A URL is out, with the time its key was chosen for, less the delay. *)
LEMMA SignStep ==
    ASSUME IInv, NEW p \in Procs, SignURL(p)
    PROVE  IInv'
  <1>1. /\ pc[p] = "sign" /\ url' = [url EXCEPT ![key[p]] = TTL]
        /\ key' = [key EXCEPT ![p] = NoKey] /\ delay' = [delay EXCEPT ![p] = 0]
        /\ UNCHANGED <<db, age, mem, lock, writer, faults>>
    BY DEF SignURL
  <1>2. PICK where \in {"end", "idle"} : pc' = [pc EXCEPT ![p] = where]
    BY DEF SignURL, GoTo
  <1>3. /\ pc \in [Procs -> Places] /\ key \in [Procs -> Keys \cup {NoKey}]
        /\ delay \in [Procs -> 0 .. MaxDelay] /\ url \in [Keys -> 0 .. TTL]
    BY DEF IInv, TypeOK, Places
  <1>4. /\ key[p] \in Keys /\ mem.loaded /\ age[key[p]] + TTL <= Life - 1 + delay[p]
        /\ TTL > MaxDelay => key[p] \in db /\ key[p] \in mem.keys
    BY <1>1 DEF IInv, Signing
  <1>5. /\ url'[key[p]] = TTL /\ url' \in [Keys -> 0 .. TTL]
        /\ \A k \in Keys : k # key[p] => url'[k] = url[k]
    <2>1. TTL \in 0 .. TTL
      BY KeyringAssumption
    <2> QED BY <1>1, <1>3, <1>4, <2>1
  <1>6. /\ pc' \in [Procs -> Places] /\ key' \in [Procs -> Keys \cup {NoKey}]
        /\ delay' \in [Procs -> 0 .. MaxDelay]
        /\ \A q \in Procs : pc'[q] \in {"sign", "create"} =>
             pc'[q] = pc[q] /\ key'[q] = key[q] /\ delay'[q] = delay[q]
    <2>1. 0 \in 0 .. MaxDelay /\ where \in Places
      BY KeyringAssumption DEF Places
    <2> QED BY <1>1, <1>2, <1>3, <2>1
  <1>7. TypeOK'
    BY <1>1, <1>5, <1>6 DEF IInv, TypeOK, Places, Life
  <1>8. Signing'
    BY <1>1, <1>6 DEF IInv, Signing, Life
  <1>9. CurrentKept'
    BY <1>1 DEF IInv, CurrentKept, Life
  <1>10. KeysLast'
    <2> SUFFICES ASSUME NEW k \in Keys
                 PROVE  /\ url'[k] > 0 => age[k] + url'[k] <= Life - 1 + MaxDelay
                        /\ url'[k] > MaxDelay =>
                             k \in db /\ (mem.loaded => k \in mem.keys)
      BY <1>1, <1>4 DEF KeysLast, Life
    <2>1. CASE k = key[p]
      <3>1. /\ age[k] \in Nat /\ delay[p] \in Nat /\ delay[p] <= MaxDelay
            /\ MaxDelay \in Nat /\ Life \in Nat /\ TTL \in Nat
        BY <2>1, <1>4, KeyringAssumption DEF IInv, TypeOK, Life
      <3>2. age[k] + TTL <= Life - 1 + MaxDelay
        BY <1>4, <2>1, <3>1
      <3> QED BY <1>4, <1>5, <2>1, <3>2
    <2>2. CASE k # key[p]
      BY <1>5, <2>2 DEF IInv, KeysLast
    <2> QED BY <2>1, <2>2
  <1>11. Started'
    BY <1>1, <1>4 DEF Started
  <1> QED BY <1>7, <1>8, <1>9, <1>10, <1>11 DEF IInv

(* Only what has expired is pruned. *)
LEMMA RowsStep ==
    ASSUME IInv, PruneRows
    PROVE  IInv'
  <1>1. Cleaner \in Procs
    BY DEF Procs
  <1>2. PICK where \in {"forget", "idle"} : GoTo(Cleaner, where)
    BY DEF PruneRows
  <1>3. /\ pc \in [Procs -> Places] /\ pc' = [pc EXCEPT ![Cleaner] = where]
    BY <1>2 DEF IInv, TypeOK, Places, GoTo
  <1>4. /\ pc' \in [Procs -> Places]
        /\ \A q \in Procs : q # Cleaner => pc'[q] = pc[q]
        /\ pc'[Cleaner] \in {"forget", "idle"}
    BY <1>1, <1>3 DEF Places
  <1>5. UNCHANGED <<age, mem, lock, writer, key, delay, url>>
    BY DEF PruneRows
  <1>6. Valid \subseteq db' /\ db' \subseteq db
    BY DEF PruneRows, Valid
  <1>7. faults' \in 0 .. MaxFaults
    BY KeyringAssumption DEF PruneRows, Fault, IInv, TypeOK
  <1>8. TypeOK'
    BY <1>4, <1>5, <1>6, <1>7 DEF IInv, TypeOK, Places, Life
  <1>9. Signing'
    <2> SUFFICES ASSUME NEW q \in Procs, pc[q] = "sign"
                 PROVE  /\ key[q] \in Keys /\ mem.loaded
                        /\ age[key[q]] + TTL <= Life - 1 + delay[q]
                        /\ TTL > MaxDelay => key[q] \in Valid /\ key[q] \in mem.keys
      BY <1>4, <1>5, <1>6 DEF Signing, Life
    <2> QED BY LoadedKept DEF IInv, Signing
  <1>10. CurrentKept'
    <2>1. Life \in Nat
      BY KeyringAssumption DEF Life
    <2> SUFFICES ASSUME mem.current # NoKey, age[mem.current] <= Life
                 PROVE  mem.current \in Valid \cap mem.keys
      BY <1>5, <1>6 DEF CurrentKept, Life
    <2>2. mem.current \in Keys /\ mem.current \in db \cap mem.keys
      BY DEF IInv, CurrentKept, TypeOK
    <2>3. age[mem.current] \in Nat
      BY <2>2 DEF IInv, TypeOK
    <2> QED BY <2>1, <2>2, <2>3 DEF Valid, Expired
  <1>11. KeysLast'
    <2> SUFFICES ASSUME NEW k \in Keys
                 PROVE  /\ url[k] > 0 => age[k] + url[k] <= Life - 1 + MaxDelay
                        /\ url[k] > MaxDelay =>
                             k \in Valid /\ (mem.loaded => k \in mem.keys)
      BY <1>4, <1>5, <1>6 DEF KeysLast, Life
    <2> QED BY LoadedKept DEF IInv, KeysLast
  <1>12. Started'
    BY <1>4, <1>5 DEF IInv, Started
  <1> QED BY <1>8, <1>9, <1>10, <1>11, <1>12 DEF IInv

LEMMA MemoryStep ==
    ASSUME IInv, PruneMemory
    PROVE  IInv'
  <1>1. /\ Cleaner \in Procs
        /\ mem \in [loaded : BOOLEAN, current : Keys \cup {NoKey}, keys : SUBSET Keys]
        /\ pc \in [Procs -> Places] /\ key \in [Procs -> Keys \cup {NoKey}]
    BY DEF Procs, IInv, TypeOK, Places
  <1>2. /\ pc' = [pc EXCEPT ![Cleaner] = "idle"]
        /\ UNCHANGED <<db, age, lock, writer, key, delay, url, faults>>
    BY DEF PruneMemory, GoTo
  <1>3. /\ pc' \in [Procs -> Places] /\ key' \in [Procs -> Keys \cup {NoKey}]
        /\ pc'[Cleaner] = "idle"
        /\ \A q \in Procs : q # Cleaner => pc'[q] = pc[q] /\ key'[q] = key[q]
    BY <1>1, <1>2 DEF Places
  <1>4. /\ mem'.loaded = mem.loaded
        /\ mem'.keys = {k \in mem.keys : ~Expired(k)}
        /\ mem'.current = mem.current \/ mem'.current = NoKey
        /\ mem' \in [loaded : BOOLEAN, current : Keys \cup {NoKey}, keys : SUBSET Keys]
    BY <1>1 DEF PruneMemory, Forgotten
  <1>5. Life \in Nat /\ \A k \in Keys : age[k] \in Nat
    BY KeyringAssumption DEF IInv, TypeOK, Life
  <1>6. TypeOK'
    BY <1>2, <1>3, <1>4 DEF IInv, TypeOK, Places, Life
  <1>7. Signing'
    <2> SUFFICES ASSUME NEW q \in Procs, pc'[q] = "sign"
                 PROVE  /\ key'[q] \in Keys /\ mem'.loaded
                        /\ age[key'[q]] + TTL <= Life - 1 + delay[q]
                        /\ TTL > MaxDelay => key'[q] \in db /\ key'[q] \in mem'.keys
      BY <1>2 DEF Signing, Life
    <2>1. pc[q] = "sign" /\ key'[q] = key[q]
      BY <1>3
    <2>2. /\ key[q] \in Keys /\ mem.loaded /\ age[key[q]] + TTL <= Life - 1 + delay[q]
          /\ TTL > MaxDelay => key[q] \in db /\ key[q] \in mem.keys
      BY <2>1 DEF IInv, Signing
    <2>3. TTL > MaxDelay => ~Expired(key[q])
      BY <2>1, LoadedKept DEF Valid
    <2> QED BY <1>4, <2>1, <2>2, <2>3
  <1>8. CurrentKept'
    <2> SUFFICES ASSUME mem'.current # NoKey, age[mem'.current] <= Life
                 PROVE  mem'.current \in db \cap mem'.keys
      BY <1>2 DEF CurrentKept, Life
    <2>1. mem'.current = mem.current /\ mem.current \in Keys
      BY <1>1, <1>4
    <2>2. mem.current \in db \cap mem.keys
      BY <2>1 DEF IInv, CurrentKept
    <2> QED BY <1>4, <1>5, <2>1, <2>2 DEF Expired
  <1>9. KeysLast'
    <2> SUFFICES ASSUME NEW k \in Keys
                 PROVE  /\ url[k] > 0 => age[k] + url[k] <= Life - 1 + MaxDelay
                        /\ url[k] > MaxDelay =>
                             k \in db /\ (mem'.loaded => k \in mem'.keys)
      BY <1>2, <1>3 DEF KeysLast, Life
    <2>1. url[k] > MaxDelay => ~Expired(k)
      BY LoadedKept DEF Valid
    <2> QED BY <1>4, <2>1 DEF IInv, KeysLast
  <1>10. Started'
    BY <1>3, <1>4 DEF IInv, Started
  <1> QED BY <1>6, <1>7, <1>8, <1>9, <1>10 DEF IInv

(* A unit passes from the URL to its key. *)
LEMMA Older ==
    ASSUME NEW a \in Nat, NEW u \in Nat, NEW bound \in Int, a + (u + 1) <= bound
    PROVE  a + u <= bound /\ (a + 1) + u <= bound
  OBVIOUS

(* Keys grow older as URLs come to their end and delays grow. *)
LEMMA TickStep ==
    ASSUME IInv, Tick
    PROVE  IInv'
  <1>1. /\ \A p \in Procs : pc[p] = "sign" => delay[p] < MaxDelay
        /\ age' = [k \in Keys |-> IF k \notin db \cup mem.keys \cup {mem.current} THEN 0
                                  ELSE IF age[k] <= Life THEN age[k] + 1 ELSE age[k]]
        /\ url' = [k \in Keys |-> IF url[k] > 0 THEN url[k] - 1 ELSE 0]
        /\ delay' = [p \in Procs |-> IF pc[p] = "sign" THEN delay[p] + 1 ELSE 0]
        /\ UNCHANGED <<db, mem, lock, writer, pc, key, faults>>
    BY DEF Tick
  <1>2. /\ Life \in Nat /\ TTL \in Nat /\ MaxDelay \in Nat /\ TTL <= Life - 1
    BY KeyringAssumption DEF Life
  <1>3. /\ \A k \in Keys : age[k] \in Nat /\ age[k] <= Life + 1
        /\ \A k \in Keys : url[k] \in Nat /\ url[k] <= TTL
        /\ \A p \in Procs : delay[p] \in Nat /\ delay[p] <= MaxDelay
    BY <1>2 DEF IInv, TypeOK
  <1>4. ASSUME NEW k \in Keys
        PROVE  /\ age'[k] \in {0, age[k], age[k] + 1} /\ age'[k] \in 0 .. Life + 1
               /\ url'[k] \in 0 .. TTL
               /\ url'[k] > 0 => url[k] = url'[k] + 1
               /\ k \in db \cup mem.keys \cup {mem.current} /\ age'[k] <= Life =>
                    age[k] <= Life
    BY <1>1, <1>2, <1>3
  <1>5. \A p \in Procs : /\ delay'[p] \in 0 .. MaxDelay
                         /\ pc[p] = "sign" => delay'[p] = delay[p] + 1
    BY <1>1, <1>2, <1>3
  <1>6. TypeOK'
    <2>1. age' \in [Keys -> 0 .. Life + 1] /\ url' \in [Keys -> 0 .. TTL]
      BY <1>1, <1>4
    <2>2. delay' \in [Procs -> 0 .. MaxDelay]
      BY <1>1, <1>5
    <2> QED BY <1>1, <2>1, <2>2 DEF IInv, TypeOK, Life
  <1>7. Signing'
    <2> SUFFICES ASSUME NEW q \in Procs, pc[q] = "sign"
                 PROVE  /\ key[q] \in Keys /\ mem.loaded
                        /\ age'[key[q]] + TTL <= Life - 1 + delay'[q]
                        /\ TTL > MaxDelay => key[q] \in db /\ key[q] \in mem.keys
      BY <1>1 DEF Signing, Life
    <2>1. /\ key[q] \in Keys /\ mem.loaded /\ age[key[q]] + TTL <= Life - 1 + delay[q]
          /\ TTL > MaxDelay => key[q] \in db /\ key[q] \in mem.keys
      BY DEF IInv, Signing
    <2>2. /\ delay'[q] = delay[q] + 1 /\ age'[key[q]] \in {0, age[key[q]], age[key[q]] + 1}
      BY <1>4, <1>5, <2>1
    <2>3. age[key[q]] \in Nat /\ delay[q] \in Nat
      BY <1>3, <2>1
    <2>4. age'[key[q]] + TTL <= Life - 1 + delay'[q]
      BY <1>2, <2>1, <2>2, <2>3
    <2> QED BY <2>1, <2>4
  <1>8. CurrentKept'
    <2> SUFFICES ASSUME mem.current # NoKey, age'[mem.current] <= Life
                 PROVE  mem.current \in db \cap mem.keys
      BY <1>1 DEF CurrentKept, Life
    <2>1. mem.current \in Keys
      BY DEF IInv, TypeOK
    <2>2. age[mem.current] <= Life
      BY <1>4, <2>1
    <2> QED BY <2>2 DEF IInv, CurrentKept
  <1>9. KeysLast'
    <2> SUFFICES ASSUME NEW k \in Keys
                 PROVE  /\ url'[k] > 0 => age'[k] + url'[k] <= Life - 1 + MaxDelay
                        /\ url'[k] > MaxDelay =>
                             k \in db /\ (mem.loaded \/ pc[Cleaner] = "create" => k \in mem.keys)
      BY <1>1 DEF KeysLast, Life
    <2>1. /\ url[k] \in Nat /\ age[k] \in Nat /\ url[k] <= TTL
          /\ url'[k] \in Nat
          /\ url'[k] > 0 => url[k] = url'[k] + 1
          /\ age'[k] \in {0, age[k], age[k] + 1}
      BY <1>3, <1>4
    <2>2. /\ url[k] > 0 => age[k] + url[k] <= Life - 1 + MaxDelay
          /\ url[k] > MaxDelay =>
               k \in db /\ (mem.loaded \/ pc[Cleaner] = "create" => k \in mem.keys)
      BY DEF IInv, KeysLast
    <2>3. url'[k] > 0 => age'[k] + url'[k] <= Life - 1 + MaxDelay
      <3> SUFFICES ASSUME url'[k] > 0
                   PROVE  age'[k] + url'[k] <= Life - 1 + MaxDelay
        OBVIOUS
      <3>1. url[k] = url'[k] + 1 /\ url[k] > 0
        BY <1>4, <2>1
      <3>2. age[k] + url[k] <= Life - 1 + MaxDelay
        BY <2>2, <3>1
      <3>3. CASE age'[k] = 0
        <4>1. url'[k] \in Nat /\ url'[k] <= TTL
          BY <2>1, <1>4, <1>2
        <4>2. url'[k] <= Life - 1 + MaxDelay
          BY <1>2, <4>1
        <4> QED BY <1>2, <3>3, <4>1, <4>2
      <3>4. age[k] + url'[k] <= Life - 1 + MaxDelay
            /\ (age[k] + 1) + url'[k] <= Life - 1 + MaxDelay
        <4>1. url'[k] \in Nat /\ age[k] \in Nat /\ Life - 1 + MaxDelay \in Int
          BY <1>2, <2>1
        <4>2. age[k] + (url'[k] + 1) <= Life - 1 + MaxDelay
          BY <3>1, <3>2
        <4> QED BY <4>1, <4>2, Older
      <3>5. CASE age'[k] = age[k] \/ age'[k] = age[k] + 1
        BY <3>4, <3>5
      <3> QED BY <2>1, <3>3, <3>5
    <2>4. url'[k] > MaxDelay => url[k] > MaxDelay
      BY <1>2, <1>4, <2>1
    <2> QED BY <2>2, <2>3, <2>4
  <1>10. Started'
    BY <1>1 DEF IInv, Started
  <1> QED BY <1>6, <1>7, <1>8, <1>9, <1>10 DEF IInv

LEMMA RestartStep ==
    ASSUME IInv, Restart
    PROVE  IInv'
  <1>1. /\ mem' = [loaded |-> FALSE, current |-> NoKey, keys |-> {}]
        /\ lock' = NoOne /\ writer' = NoOne
        /\ pc' = [p \in Procs |-> "idle"] /\ key' = [p \in Procs |-> NoKey]
        /\ delay' = [p \in Procs |-> 0]
        /\ UNCHANGED <<db, age, url>> /\ Fault
    BY DEF Restart
  <1>2. faults' \in 0 .. MaxFaults
    BY <1>1, KeyringAssumption DEF Fault, IInv, TypeOK
  <1>3. /\ mem'.current = NoKey /\ ~mem'.loaded /\ Cleaner \in Procs /\ 0 \in 0 .. MaxDelay
        /\ mem' \in [loaded : BOOLEAN, current : Keys \cup {NoKey}, keys : SUBSET Keys]
    BY <1>1, KeyringAssumption DEF Procs
  <1>4. TypeOK'
    BY <1>1, <1>2, <1>3 DEF IInv, TypeOK, Life
  <1>5. Signing' /\ Started'
    BY <1>1 DEF Signing, Started
  <1>6. CurrentKept'
    BY <1>3 DEF CurrentKept
  <1>7. KeysLast'
    <2>1. pc'[Cleaner] # "create"
      BY <1>1, <1>3
    <2> QED BY <1>1, <1>3, <2>1 DEF IInv, KeysLast, Life
  <1> QED BY <1>4, <1>5, <1>6, <1>7 DEF IInv

-----------------------------------------------------------------------------
(* The rest of what a process does. *)

LEMMA ReadStep ==
    ASSUME IInv, NEW p \in Procs, ReadCurrent(p) \/ Rotate(p)
    PROVE  IInv'
  <1>1. pc[p] \in {"read", "lock"} /\ UNCHANGED <<db, age, mem, writer, url, faults>>
    BY DEF ReadCurrent, Rotate
  <1>2. lock' \in Procs \cup {NoOne}
    BY DEF ReadCurrent, Rotate, Choose, IInv, TypeOK
  <1>3. CASE IsFresh(mem.current) /\ Choose(p, mem.current)
    <2>1. mem.current \in Keys
      BY <1>3 DEF IsFresh, IsValid, IInv, TypeOK
    <2>2. age[mem.current] + TTL <= Life - 1 /\ age[mem.current] <= Life
      BY <1>3, <2>1, FreshLasts DEF IInv
    <2>3. /\ Kept' /\ pc' \in [Procs -> Places]
          /\ key' \in [Procs -> Keys \cup {NoKey}] /\ delay' \in [Procs -> 0 .. MaxDelay]
      BY <1>1, <1>3, <2>1, <2>2, Chosen
    <2> QED BY <1>1, <1>2, <2>3 DEF IInv, TypeOK, Kept, Places, Life
  <1>4. ASSUME NEW where \in {"lock", "rotate"}, GoTo(p, where), UNCHANGED <<key, delay>>
        PROVE  IInv'
    <2>1. mem.loaded \/ p = Cleaner
      BY <1>1, AtWork
    <2>2. Kept' /\ pc' \in [Procs -> Places]
      BY <1>1, <1>4, <2>1, Moves DEF Places
    <2> QED BY <1>1, <1>2, <1>4, <2>2 DEF IInv, TypeOK, Kept, Places, Life
  <1> QED BY <1>3, <1>4 DEF ReadCurrent, Rotate

LEMMA CommittedStep ==
    ASSUME IInv, NEW p \in Procs, CurrentCommitted(p)
    PROVE  IInv'
  <1>1. pc[p] = "committed" /\ UNCHANGED <<db, age, mem, lock, writer, url, faults>>
    BY DEF CurrentCommitted
  <1>2. CASE Committed /\ Choose(p, mem.current)
    <2>1. mem.current \in Keys
      BY <1>2 DEF Committed, IsValid, IInv, TypeOK
    <2>2. age[mem.current] + TTL <= Life - 1 /\ age[mem.current] <= Life
      <3>1. age[mem.current] \in Nat /\ TTL \in Nat /\ Life \in Nat
        BY <2>1, KeyringAssumption DEF IInv, TypeOK, Life
      <3> QED BY <1>2, <3>1 DEF Committed
    <2>3. /\ Kept' /\ pc' \in [Procs -> Places]
          /\ key' \in [Procs -> Keys \cup {NoKey}] /\ delay' \in [Procs -> 0 .. MaxDelay]
      BY <1>1, <1>2, <2>1, <2>2, Chosen
    <2> QED BY <1>1, <2>3 DEF IInv, TypeOK, Kept, Places, Life
  <1>3. CASE GoTo(p, "end") /\ UNCHANGED <<key, delay>>
    <2>1. mem.loaded \/ p = Cleaner
      BY <1>1, AtWork
    <2>2. Kept' /\ pc' \in [Procs -> Places]
      BY <1>1, <1>3, <2>1, Moves DEF Places
    <2> QED BY <1>1, <1>3, <2>2 DEF IInv, TypeOK, Kept, Places, Life
  <1> QED BY <1>2, <1>3 DEF CurrentCommitted

LEMMA FailStep ==
    ASSUME IInv, NEW p \in Procs, GenerateFails(p)
    PROVE  IInv'
  <1>1. lock' = NoOne /\ UNCHANGED <<db, age, mem, writer, key, delay, url>>
    BY DEF GenerateFails
  <1>2. PICK where \in {"prune", "idle"} :
          GoTo(p, where) /\ (p = Cleaner \/ where = "idle")
    BY DEF GenerateFails, AfterFailure
  <1>3. faults' \in 0 .. MaxFaults
    BY KeyringAssumption DEF GenerateFails, Fault, IInv, TypeOK
  <1>4. Kept' /\ pc' \in [Procs -> Places]
    BY <1>1, <1>2, Moves DEF Places
  <1> QED BY <1>1, <1>3, <1>4 DEF IInv, TypeOK, Kept, Places, Life

LEMMA EndStep ==
    ASSUME IInv, NEW p \in Procs, EndMutation(p) \/ Get(p)
    PROVE  IInv'
  <1>1. /\ GoTo(p, "idle") /\ writer' \in Mutations \cup {NoOne}
        /\ UNCHANGED <<db, age, mem, lock, key, delay, url, faults>>
    BY DEF EndMutation, Get, IInv, TypeOK
  <1>2. Kept' /\ pc' \in [Procs -> Places]
    BY <1>1, Moves DEF Places
  <1> QED BY <1>1, <1>2 DEF IInv, TypeOK, Kept, Places, Life

LEMMA BeginStep ==
    ASSUME IInv, NEW m \in Mutations, Begin(m)
    PROVE  IInv'
  <1>1. /\ m \in Procs /\ mem.loaded /\ GoTo(m, "committed") /\ writer' = m
        /\ UNCHANGED <<db, age, mem, lock, key, delay, url, faults>>
    BY DEF Begin, Procs
  <1>2. Kept' /\ pc' \in [Procs -> Places]
    BY <1>1, Moves DEF Places
  <1> QED BY <1>1, <1>2 DEF IInv, TypeOK, Kept, Places, Life

-----------------------------------------------------------------------------
(* The theorems. *)

LEMMA Initially == Init => IInv
  <1> SUFFICES ASSUME Init PROVE IInv
    OBVIOUS
  <1>1. /\ 0 \in 0 .. Life + 1 /\ 0 \in 0 .. MaxDelay /\ 0 \in 0 .. TTL
        /\ 0 \in 0 .. MaxFaults
    BY KeyringAssumption DEF Life
  <1>2. TypeOK
    BY <1>1 DEF Init, TypeOK
  <1>3. Signing /\ CurrentKept /\ Started
    BY DEF Init, Signing, CurrentKept, Started
  <1>4. KeysLast
    BY KeyringAssumption DEF Init, KeysLast
  <1> QED BY <1>2, <1>3, <1>4 DEF IInv

LEMMA Inductive == IInv /\ [Next]_vars => IInv'
  <1> SUFFICES ASSUME IInv, [Next]_vars PROVE IInv'
    OBVIOUS
  <1>1. ASSUME NEW m \in Mutations, Begin(m) PROVE IInv'
    BY <1>1, BeginStep
  <1>2. ASSUME NEW p \in Procs, LoadOrCreate(p) PROVE IInv'
    BY <1>2, LoadStep
  <1>3. ASSUME NEW p \in Procs, Step(p) PROVE IInv'
    <2>1. CASE ReadCurrent(p) \/ Rotate(p)
      BY <2>1, ReadStep
    <2>2. CASE Generate(p)
      BY <2>2, GenerateStep
    <2>3. CASE GenerateFails(p)
      BY <2>3, FailStep
    <2>4. CASE CurrentCommitted(p)
      BY <2>4, CommittedStep
    <2>5. CASE SignURL(p)
      BY <2>5, SignStep
    <2>6. CASE EndMutation(p) \/ Get(p)
      BY <2>6, EndStep
    <2>7. CASE PruneRows
      BY <2>7, RowsStep
    <2>8. CASE PruneMemory
      BY <2>8, MemoryStep
    <2> QED BY <1>3, <2>1, <2>2, <2>3, <2>4, <2>5, <2>6, <2>7, <2>8 DEF Step
  <1>4. CASE Tick
    BY <1>4, TickStep
  <1>5. CASE Restart
    BY <1>5, RestartStep
  <1>6. CASE UNCHANGED vars
    BY <1>6 DEF vars, IInv, TypeOK, Signing, CurrentKept, KeysLast, Started, Life
  <1> QED BY <1>1, <1>2, <1>3, <1>4, <1>5, <1>6 DEF Next

(* The invariant holds in every reachable state of the keyring. *)
THEOREM Invariance == Spec => []IInv
  BY Initially, Inductive, PTL DEF Spec

(* Every variable of the keyring keeps its type. *)
THEOREM TypeCorrect == Spec => []TypeOK
  <1>1. IInv => TypeOK
    BY DEF IInv
  <1> QED BY Invariance, <1>1, PTL

(* URLSigner and Get (storage/keyring.go, service.go): a URL that is out
   verifies until it expires, but for the delay. *)
THEOREM SignedURLsTheorem == Spec => []SignedURLsVerify
  <1>1. IInv => SignedURLsVerify
    <2> SUFFICES ASSUME IInv, NEW k \in Keys, url[k] > MaxDelay
                 PROVE  Verifies(k)
      BY DEF SignedURLsVerify
    <2>1. age[k] < Life /\ k \in db
      BY OutIsYoung
    <2>2. mem.loaded => k \in mem.keys
      BY DEF IInv, KeysLast
    <2> QED BY <2>1, <2>2, KeyringAssumption DEF Verifies, IsValid
  <1> QED BY Invariance, <1>1, PTL
=============================================================================
