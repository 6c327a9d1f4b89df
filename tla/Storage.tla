------------------------------ MODULE Storage ------------------------------
(***************************************************************************)
(* File storage (backend/internal/storage): an upload claims its single-   *)
(* use token, reserves a row and host quota, persists a staged blob under  *)
(* a renewed lease, commits the row as staged and finalizes it; a deletion *)
(* marks the row and erases the blobs after the commit; downloads create   *)
(* image variants; and a cleanup worker recovers what any of them left     *)
(* behind.  Rows and tokens live in the database, where a transaction is   *)
(* one step; blobs live in an object store that shares no transaction      *)
(* with it, so an access to it is a step of its own.  Accesses are merged  *)
(* where nobody can tell: those by which one call undoes its own attempt   *)
(* (RejectStored, CommitFails, RecoverUploading), a crash between them     *)
(* being one of their outcomes, and the listing of a prefix with its       *)
(* deletion (DeletePrefix), a variant written between the two being as one *)
(* written before or after both.                                           *)
(*                                                                         *)
(* An operator X_Y is operator X with one fault put into it; the project   *)
(* uses them to show that the properties below can fail.                   *)
(***************************************************************************)
EXTENDS Integers, FiniteSets

CONSTANTS
    Files,      \* storage ids, each with the upload token that names it
    Attempts,   \* attempt ids of Service.Upload (GenerateAttempt), used once
    None,       \* "no attempt", "no file"
    Cleaner,    \* the cleanup goroutine
    MaxFiles,   \* Config.MaxFiles
    MaxFaults,  \* bound: crashes, failed writes, missed renewals
    Overlap     \* FALSE: recoverStaged never meets an upload that finalizes

ASSUME StorageAssumption ==
    /\ None \notin Files \cup Attempts \cup {Cleaner}
    /\ Cleaner \notin Files \cup Attempts
    /\ Files \cap Attempts = {}
    \* the stage of an attempt is not the original or a variant
    /\ {"final", "thumb"} \cap (Attempts \cup {None}) = {}
    /\ None \notin Files \X (Attempts \cup {"final", "thumb"})
    /\ MaxFiles \in Nat \ {0} /\ MaxFaults \in Nat
    /\ Overlap \in BOOLEAN
    /\ IsFiniteSet(Files)

VARIABLES
    token,      \* the upload token of each storage id
    file,       \* the metadata row of each storage id
    blobs,      \* the object store: <<id, attempt>>, <<id, "final">>, <<id, "thumb">>
    up,         \* calls of Service.Upload
    fin,        \* calls of finalizeUpload, by an upload or by the cleaner
    era,        \* calls of deleteBlob, by Delete or by the cleaner
    view,       \* the download of each file that creates a variant
    cl,         \* the pass of the cleanup worker
    quota,      \* the byte reservation of each attempt, at the host
    credits,    \* the deletion reports the host received for each file
    acked,      \* files whose upload was answered with success
    requested,  \* files whose deletion was committed
    faults

vars == <<token, file, blobs, up, fin, era, view, cl, quota, credits, acked,
          requested, faults>>

Finalizers == Attempts \cup {Cleaner}
Erasers    == Files \cup {Cleaner}

NoToken == [state |-> "none", consumed |-> FALSE, claim |-> None, lapsed |-> FALSE]
NoFile  == [status |-> "absent", owner |-> None, lapsed |-> FALSE]
NoUpload == [pc |-> "idle", file |-> None]
NoFin   == [pc |-> "idle", file |-> None, stage |-> None]
NoEra   == [pc |-> "idle", file |-> None, freed |-> FALSE]
NoPass  == [phase |-> "idle", todo |-> {}, objs |-> {}, cur |-> None,
            owner |-> [f \in Files |-> None]]

Keys == Files \X (Attempts \cup {"final", "thumb"})

(* Every variable holds a value of its kind. *)
TypeOK ==
    /\ token \in [Files -> [state : {"none", "live", "expired", "gone"},
                            consumed : BOOLEAN, claim : Attempts \cup {None},
                            lapsed : BOOLEAN]]
    /\ file \in [Files -> [status : {"absent", "uploading", "staged", "active",
                                     "deleting", "deleted"},
                           owner : Attempts \cup {None}, lapsed : BOOLEAN]]
    /\ blobs \subseteq Keys
    /\ up \in [Attempts -> [pc : {"idle", "claimed", "reserved", "receiving",
                                  "persisted", "committed", "finalizing",
                                  "stored", "failed"},
                            file : Files \cup {None}]]
    /\ fin \in [Finalizers -> [pc : {"idle", "check", "copy", "unstage", "save", "lost"},
                               file : Files \cup {None}, stage : Attempts \cup {None}]]
    /\ era \in [Erasers -> [pc : {"idle", "purge", "save"},
                            file : Files \cup {None}, freed : BOOLEAN]]
    /\ view \in [Files -> {"idle", "write", "recheck"}]
    /\ cl \in [phase : {"idle", "uploading", "staged", "deleting", "orphans"},
               todo : SUBSET Files, objs : SUBSET Keys, cur : Keys \cup {None},
               owner : [Files -> Attempts \cup {None}]]
    /\ quota \in [Attempts -> {"none", "reserved", "settled", "released"}]
    /\ credits \in [Files -> SUBSET {"delete", "lost"}]
    /\ acked \subseteq Files /\ requested \subseteq Files
    /\ faults \in 0 .. MaxFaults

Init ==
    /\ token = [f \in Files |-> NoToken]
    /\ file = [f \in Files |-> NoFile]
    /\ blobs = {}
    /\ up = [a \in Attempts |-> NoUpload]
    /\ fin = [p \in Finalizers |-> NoFin]
    /\ era = [p \in Erasers |-> NoEra]
    /\ view = [f \in Files |-> "idle"]
    /\ cl = NoPass
    /\ quota = [a \in Attempts |-> "none"]
    /\ credits = [f \in Files |-> {}]
    /\ acked = {} /\ requested = {}
    /\ faults = 0

----------------------------------------------------------------------------
(* Helpers *)

(* Something fails: a process, a write whose error is ignored, a backend.  *)
Fault == faults < MaxFaults /\ faults' = faults + 1
(* The best-effort writes in the set "lost" fail. *)
MayLose(lost) == IF lost = {} THEN UNCHANGED faults ELSE Fault

At(a, pc) == up[a].pc = pc
MoveTo(a, pc) == up' = [up EXCEPT ![a].pc = pc]
Blobs(f) == {k \in blobs : k[1] = f}

(* Rows that count towards MaxFiles. *)
UsesCapacity(f) == file[f].status \in {"uploading", "staged", "active", "deleting"}

(* The WHERE clauses of the reservation's writes and of the token's writes. *)
OwnsRow(a) == file[up[a].file].status = "uploading" /\ file[up[a].file].owner = a
OwnsClaim(a) ==
    LET t == token[up[a].file] IN
    t.state \notin {"none", "gone"} /\ t.claim = a /\ ~t.consumed

(* What an upload that gives up leaves behind: its reservation and its      *)
(* claim are released, unless the write is lost.                           *)
Released(a, lost) ==
    IF OwnsRow(a) /\ "row" \notin lost
    THEN [file EXCEPT ![up[a].file] = NoFile] ELSE file
Unclaimed(a, lost) ==
    IF OwnsClaim(a) /\ "claim" \notin lost
    THEN [token EXCEPT ![up[a].file].claim = None, ![up[a].file].lapsed = FALSE]
    ELSE token
(* The staged blob of an upload that gives up, and its byte reservation,    *)
(* which goes back only when the blob is confirmed gone.                   *)
Unstaged(a, lost) ==
    IF "blob" \in lost THEN blobs ELSE blobs \ {<<up[a].file, a>>}
Refunded_Always(a, left) == [quota EXCEPT ![a] = "released"]
Refunded(a, left) ==
    IF <<up[a].file, a>> \in left THEN quota ELSE [quota EXCEPT ![a] = "released"]

----------------------------------------------------------------------------
(* Uploads *)

GenerateUploadURL(f) ==
    /\ token[f].state = "none"
    /\ token' = [token EXCEPT ![f].state = "live"]
    /\ UNCHANGED <<file, blobs, up, fin, era, view, cl, quota, credits, acked,
                   requested, faults>>

(* The compare-and-swap of an unconsumed, unexpired token that nobody has   *)
(* claimed, or whose claim has lapsed.                                     *)
ClaimToken(a, f) ==
    /\ At(a, "idle")
    /\ token[f].state = "live" /\ ~token[f].consumed
    /\ token[f].claim = None \/ token[f].lapsed
    /\ token' = [token EXCEPT ![f].claim = a, ![f].lapsed = FALSE]
    /\ up' = [up EXCEPT ![a] = [pc |-> "claimed", file |-> f]]
    /\ UNCHANGED <<file, blobs, fin, era, view, cl, quota, credits, acked,
                   requested, faults>>

(* The transaction that counts the files and creates the row "uploading";   *)
(* the storage id is unique among rows.                                    *)
ReserveUpload(a) ==
    /\ At(a, "claimed")
    /\ file[up[a].file].status = "absent"
    /\ Cardinality({f \in Files : UsesCapacity(f)}) < MaxFiles
    /\ file' = [file EXCEPT ![up[a].file] =
                  [status |-> "uploading", owner |-> a, lapsed |-> FALSE]]
    /\ MoveTo(a, "reserved")
    /\ UNCHANGED <<token, blobs, fin, era, view, cl, quota, credits, acked,
                   requested, faults>>

(* The file is refused: full, or the row exists, or the database failed. *)
RefuseUpload(a) ==
    /\ At(a, "claimed")
    /\ \E lost \in SUBSET {"claim"} :
         /\ token' = Unclaimed(a, lost)
         /\ \/ /\ \/ file[up[a].file].status # "absent"
                  \/ Cardinality({f \in Files : UsesCapacity(f)}) >= MaxFiles
               /\ MayLose(lost)
            \/ Fault
    /\ MoveTo(a, "failed")
    /\ UNCHANGED <<file, blobs, fin, era, view, cl, quota, credits, acked, requested>>

(* The host allows the bytes; the heartbeat of the row starts. *)
ReserveQuota(a) ==
    /\ At(a, "reserved")
    /\ quota' = [quota EXCEPT ![a] = "reserved"]
    /\ MoveTo(a, "receiving")
    /\ UNCHANGED <<token, file, blobs, fin, era, view, cl, credits, acked,
                   requested, faults>>

(* The host denies the bytes, or the request body or the image is rejected  *)
(* before anything reaches the object store.                               *)
GiveUpEarly(a) ==
    /\ up[a].pc \in {"reserved", "receiving"}
    /\ \E lost \in SUBSET {"row", "claim", "refund"} :
         /\ MayLose(lost)
         /\ file' = Released(a, lost)
         /\ token' = Unclaimed(a, lost)
         /\ quota' = IF At(a, "receiving") /\ "refund" \notin lost
                     THEN [quota EXCEPT ![a] = "released"] ELSE quota
    /\ MoveTo(a, "failed")
    /\ UNCHANGED <<blobs, fin, era, view, cl, credits, acked, requested>>

(* A tick of renewUploadLeaseLoop. *)
RenewLease(a) ==
    /\ At(a, "receiving") /\ OwnsRow(a)
    /\ file[up[a].file].lapsed
    /\ file' = [file EXCEPT ![up[a].file].lapsed = FALSE]
    /\ UNCHANGED <<token, blobs, up, fin, era, view, cl, quota, credits, acked,
                   requested, faults>>

PersistStagedBlob(a) ==
    /\ At(a, "receiving")
    /\ blobs' = blobs \cup {<<up[a].file, a>>}
    /\ MoveTo(a, "persisted")
    /\ UNCHANGED <<token, file, fin, era, view, cl, quota, credits, acked,
                   requested, faults>>

(* The object store fails, with or without a partial object; the bytes stay *)
(* reserved.                                                               *)
PersistFails(a) ==
    /\ At(a, "receiving")
    /\ Fault
    /\ \E written \in SUBSET {<<up[a].file, a>>} : blobs' = blobs \cup written
    /\ \E lost \in SUBSET {"row", "claim"} :
         file' = Released(a, lost) /\ token' = Unclaimed(a, lost)
    /\ MoveTo(a, "failed")
    /\ UNCHANGED <<fin, era, view, cl, quota, credits, acked, requested>>

(* The stored type is not allowed or cannot be read. *)
RejectStored(a) ==
    /\ At(a, "persisted")
    /\ \E lost \in SUBSET {"blob", "row", "claim"} :
         /\ MayLose(lost)
         /\ blobs' = Unstaged(a, lost)
         /\ quota' = Refunded(a, blobs')
         /\ file' = Released(a, lost)
         /\ token' = Unclaimed(a, lost)
    /\ MoveTo(a, "failed")
    /\ UNCHANGED <<fin, era, view, cl, credits, acked, requested>>

(* The transaction that consumes the token and stages the row, only while   *)
(* the claim and the reservation are still this attempt's.                 *)
CommitUpload_ClaimUnchecked(a) ==
    /\ At(a, "persisted")
    /\ file[up[a].file].status \in {"uploading", "staged"}
    /\ token' = [token EXCEPT ![up[a].file].consumed = TRUE,
                              ![up[a].file].claim = None, ![up[a].file].lapsed = FALSE]
    /\ file' = [file EXCEPT ![up[a].file].status = "staged"]
    /\ MoveTo(a, "committed")
    /\ UNCHANGED <<blobs, fin, era, view, cl, quota, credits, acked, requested, faults>>
CommitUpload(a) ==
    /\ At(a, "persisted")
    /\ OwnsClaim(a) /\ OwnsRow(a)
    /\ Overlap \/ cl.phase # "staged"
    /\ token' = [token EXCEPT ![up[a].file].consumed = TRUE,
                              ![up[a].file].claim = None, ![up[a].file].lapsed = FALSE]
    /\ file' = [file EXCEPT ![up[a].file].status = "staged"]
    /\ MoveTo(a, "committed")
    /\ UNCHANGED <<blobs, fin, era, view, cl, quota, credits, acked, requested, faults>>

(* The claim or the reservation was lost meanwhile (the claim is then left  *)
(* alone), or the transaction failed.                                      *)
CommitFails(a) ==
    /\ At(a, "persisted")
    /\ \E lost \in SUBSET {"blob", "row", "claim"} :
         /\ \/ ~(OwnsClaim(a) /\ OwnsRow(a)) /\ token' = token /\ MayLose(lost)
            \/ Fault /\ token' = Unclaimed(a, lost)
         /\ blobs' = Unstaged(a, lost)
         /\ quota' = Refunded(a, blobs')
         /\ file' = Released(a, lost)
    /\ MoveTo(a, "failed")
    /\ UNCHANGED <<fin, era, view, cl, credits, acked, requested>>

(* The reservation is settled to the stored size (best effort), the row is  *)
(* read again and finalized.                                               *)
SettleQuota(a) ==
    /\ At(a, "committed")
    /\ \E lost \in SUBSET {"settle"} :
         /\ MayLose(lost)
         /\ quota' = IF lost = {} THEN [quota EXCEPT ![a] = "settled"] ELSE quota
    /\ fin' = [fin EXCEPT ![a] = [pc |-> "check", file |-> up[a].file, stage |-> a]]
    /\ MoveTo(a, "finalizing")
    /\ UNCHANGED <<token, file, blobs, era, view, cl, credits, acked, requested>>

----------------------------------------------------------------------------
(* finalizeUpload, run by the upload itself or by the cleanup worker *)

(* The call by p ends; an upload answers its client. *)
FinalizeEnds(p, ok) ==
    /\ fin' = [fin EXCEPT ![p] = NoFin]
    /\ up' = IF p \in Attempts
             THEN [up EXCEPT ![p].pc = IF ok THEN "stored" ELSE "failed"] ELSE up
    /\ acked' = IF ok /\ p \in Attempts THEN acked \cup {fin[p].file} ELSE acked

FinalExists(p) ==
    /\ fin[p].pc = "check"
    /\ fin' = [fin EXCEPT ![p].pc =
                 IF <<fin[p].file, "final">> \in blobs THEN "unstage" ELSE "copy"]
    /\ UNCHANGED <<token, file, blobs, up, era, view, cl, quota, credits, acked,
                   requested, faults>>

CopyToFinal(p) ==
    /\ fin[p].pc = "copy"
    /\ IF <<fin[p].file, fin[p].stage>> \in blobs
       THEN /\ blobs' = blobs \cup {<<fin[p].file, "final">>}
            /\ fin' = [fin EXCEPT ![p].pc = "unstage"]
       ELSE fin' = [fin EXCEPT ![p].pc = "lost"] /\ UNCHANGED blobs
    /\ UNCHANGED <<token, file, up, era, view, cl, quota, credits, acked,
                   requested, faults>>

(* The row cannot be read, or the object store fails. *)
FinalizeFails(p) ==
    /\ fin[p].pc \in {"check", "copy"}
    /\ Fault
    /\ FinalizeEnds(p, FALSE)
    /\ UNCHANGED <<token, file, blobs, era, view, cl, quota, credits, requested>>

DeleteStage(p) ==
    /\ fin[p].pc = "unstage"
    /\ \E lost \in SUBSET {"blob"} :
         /\ MayLose(lost)
         /\ blobs' = IF lost = {} THEN blobs \ {<<fin[p].file, fin[p].stage>>} ELSE blobs
    /\ fin' = [fin EXCEPT ![p].pc = "save"]
    /\ UNCHANGED <<token, file, up, era, view, cl, quota, credits, acked, requested>>

(* The whole record that was read before finalizing is saved as active. *)
SaveActive(p) ==
    /\ fin[p].pc = "save"
    /\ \/ /\ file' = [file EXCEPT ![fin[p].file] =
                        [status |-> "active", owner |-> fin[p].stage, lapsed |-> FALSE]]
          /\ FinalizeEnds(p, TRUE) /\ UNCHANGED faults
       \/ Fault /\ FinalizeEnds(p, FALSE) /\ UNCHANGED file
    /\ UNCHANGED <<token, blobs, era, view, cl, quota, credits, requested>>

MarkFileLost(p) ==
    /\ fin[p].pc = "lost"
    /\ FinalizeEnds(p, FALSE)
    /\ \/ /\ file' = [file EXCEPT ![fin[p].file] =
                        [status |-> "deleted", owner |-> fin[p].stage, lapsed |-> FALSE]]
          /\ \E sent \in BOOLEAN :
               /\ credits' = IF sent THEN [credits EXCEPT ![fin[p].file] = @ \cup {"lost"}]
                             ELSE credits
               /\ IF sent THEN UNCHANGED faults ELSE Fault
       \/ Fault /\ UNCHANGED <<file, credits>>
    /\ UNCHANGED <<token, blobs, era, view, cl, quota, requested>>

----------------------------------------------------------------------------
(* Deletions: Delete commits the mark, deleteBlob erases, run by the call   *)
(* after its commit or by the cleanup worker                               *)

Delete(f) ==
    /\ file[f].status = "active"
    /\ era[f].pc = "idle"
    /\ file' = [file EXCEPT ![f].status = "deleting"]
    /\ era' = [era EXCEPT ![f] = [pc |-> "purge", file |-> f, freed |-> FALSE]]
    /\ requested' = requested \cup {f}
    /\ UNCHANGED <<token, blobs, up, fin, view, cl, quota, credits, acked, faults>>

DeletePrefix_ErrorsIgnored(p) ==
    /\ era[p].pc = "purge"
    /\ \E kept \in SUBSET Blobs(era[p].file) :
         /\ MayLose(kept)
         /\ blobs' = (blobs \ Blobs(era[p].file)) \cup kept
    /\ era' = [era EXCEPT ![p].pc = "save", ![p].freed = Blobs(era[p].file) # {}]
    /\ UNCHANGED <<token, file, up, fin, view, cl, quota, credits, acked, requested>>
(* The objects under the file's prefix are listed and deleted; an error     *)
(* leaves some of them, and the row, to the cleanup worker.                *)
DeletePrefix(p) ==
    /\ era[p].pc = "purge"
    /\ \/ /\ blobs' = blobs \ Blobs(era[p].file)
          /\ era' = [era EXCEPT ![p].pc = "save", ![p].freed = Blobs(era[p].file) # {}]
          /\ UNCHANGED faults
       \/ /\ Fault
          /\ \E some \in SUBSET Blobs(era[p].file) : blobs' = blobs \ some
          /\ era' = [era EXCEPT ![p] = NoEra]
    /\ UNCHANGED <<token, file, up, fin, view, cl, quota, credits, acked, requested>>

\* after the save the host is told what was freed, unless the listing before
\* the deletion failed or the report goes astray
SaveDeleted(p) ==
    /\ era[p].pc = "save"
    /\ \/ /\ file' = [file EXCEPT ![era[p].file].status = "deleted"]
          /\ \E sent \in BOOLEAN :
               /\ credits' = IF era[p].freed /\ sent
                             THEN [credits EXCEPT ![era[p].file] = @ \cup {"delete"}] ELSE credits
               /\ IF sent THEN UNCHANGED faults ELSE Fault
       \/ Fault /\ UNCHANGED <<file, credits>>
    /\ era' = [era EXCEPT ![p] = NoEra]
    /\ UNCHANGED <<token, blobs, up, fin, view, cl, quota, acked, requested>>

----------------------------------------------------------------------------
(* ensureThumb: a download creates an image variant *)

EncodeThumb(f) ==
    /\ view[f] = "idle"
    /\ file[f].status = "active"
    /\ <<f, "final">> \in blobs /\ <<f, "thumb">> \notin blobs
    /\ view' = [view EXCEPT ![f] = "write"]
    /\ UNCHANGED <<token, file, blobs, up, fin, era, cl, quota, credits, acked,
                   requested, faults>>

PersistThumb(f) ==
    /\ view[f] = "write"
    /\ blobs' = blobs \cup {<<f, "thumb">>}
    /\ view' = [view EXCEPT ![f] = "recheck"]
    /\ UNCHANGED <<token, file, up, fin, era, cl, quota, credits, acked,
                   requested, faults>>

(* The row is read again; a variant of a file no longer active is removed. *)
RecheckThumb(f) ==
    /\ view[f] = "recheck"
    /\ \E lost \in SUBSET {"blob"} :
         /\ MayLose(lost)
         /\ blobs' = IF file[f].status = "active" \/ lost # {}
                     THEN blobs ELSE blobs \ {<<f, "thumb">>}
    /\ view' = [view EXCEPT ![f] = "idle"]
    /\ UNCHANGED <<token, file, up, fin, era, cl, quota, credits, acked, requested>>

----------------------------------------------------------------------------
(* The cleanup worker: one pass lists and recovers uploading, staged and    *)
(* deleting rows, drops expired tokens and removes orphaned objects         *)

PhaseOver == cl.todo = {} /\ cl.objs = {} /\ cl.cur = None
                /\ fin[Cleaner].pc = "idle" /\ era[Cleaner].pc = "idle"
(* Rows of a phase, listed when the phase begins. *)
BeginPhase(phase, rows) ==
    cl' = [cl EXCEPT !.phase = phase, !.todo = rows,
                     !.owner = [f \in Files |-> file[f].owner]]
Listed(status) == {f \in Files : file[f].status = status}

ListUploading ==
    /\ cl.phase = "idle"
    /\ BeginPhase("uploading", {f \in Listed("uploading") : file[f].lapsed})
    /\ UNCHANGED <<token, file, blobs, up, fin, era, view, quota, credits, acked,
                   requested, faults>>

Reclaimable_AnyLease(f) == file[f].status = "uploading"
Reclaimable_ByOwner(f) == file[f].owner = cl.owner[f]
(* DeleteUploadingIfLeaseExpired: still uploading, same owner, not renewed. *)
Reclaimable(f) ==
    file[f].status = "uploading" /\ file[f].owner = cl.owner[f] /\ file[f].lapsed

RecoverUploading(f) ==
    /\ cl.phase = "uploading" /\ f \in cl.todo
    /\ cl' = [cl EXCEPT !.todo = @ \ {f}]
    /\ IF Reclaimable(f)
       THEN /\ file' = [file EXCEPT ![f] = NoFile]
            /\ \E lost \in SUBSET {"blob"} :
                 /\ MayLose(lost)
                 /\ blobs' = IF lost = {} THEN blobs \ {<<f, cl.owner[f]>>} ELSE blobs
       ELSE UNCHANGED <<file, blobs, faults>>
    /\ UNCHANGED <<token, up, fin, era, view, quota, credits, acked, requested>>

ListStaged ==
    /\ cl.phase = "uploading" /\ PhaseOver
    /\ Overlap \/ \A a \in Attempts : up[a].pc \notin {"committed", "finalizing"}
    /\ BeginPhase("staged", Listed("staged"))
    /\ UNCHANGED <<token, file, blobs, up, fin, era, view, quota, credits, acked,
                   requested, faults>>

RecoverStaged(f) ==
    /\ cl.phase = "staged" /\ f \in cl.todo
    /\ fin[Cleaner].pc = "idle"
    /\ fin' = [fin EXCEPT ![Cleaner] = [pc |-> "check", file |-> f, stage |-> cl.owner[f]]]
    /\ cl' = [cl EXCEPT !.todo = @ \ {f}]
    /\ UNCHANGED <<token, file, blobs, up, era, view, quota, credits, acked,
                   requested, faults>>

ListDeleting_None ==
    /\ cl.phase = "staged" /\ PhaseOver
    /\ BeginPhase("deleting", {})
    /\ UNCHANGED <<token, file, blobs, up, fin, era, view, quota, credits, acked,
                   requested, faults>>
ListDeleting ==
    /\ cl.phase = "staged" /\ PhaseOver
    /\ BeginPhase("deleting", Listed("deleting"))
    /\ UNCHANGED <<token, file, blobs, up, fin, era, view, quota, credits, acked,
                   requested, faults>>

RecoverDeleting(f) ==
    /\ cl.phase = "deleting" /\ f \in cl.todo
    /\ era[Cleaner].pc = "idle"
    /\ era' = [era EXCEPT ![Cleaner] = [pc |-> "purge", file |-> f, freed |-> FALSE]]
    /\ cl' = [cl EXCEPT !.todo = @ \ {f}]
    /\ UNCHANGED <<token, file, blobs, up, fin, view, quota, credits, acked,
                   requested, faults>>

(* DeleteExpiredTokens, then the objects are listed. *)
ListObjects ==
    /\ cl.phase = "deleting" /\ PhaseOver
    /\ token' = [f \in Files |-> IF token[f].state = "expired"
                                 THEN [NoToken EXCEPT !.state = "gone"] ELSE token[f]]
    /\ cl' = [cl EXCEPT !.phase = "orphans", !.objs = blobs,
                        !.owner = [f \in Files |-> None]]
    /\ UNCHANGED <<file, blobs, up, fin, era, view, quota, credits, acked,
                   requested, faults>>

HasToken(f) == token[f].state \in {"live", "expired"}
Orphaned_NoRowOnly(k) == file[k[1]].status = "absent" /\ ~HasToken(k[1])
(* An object nothing needs: a stage whose row is active or deleted, any     *)
(* object of a deleted row, and one without a row or a token.              *)
Orphaned(k) ==
    LET status == file[k[1]].status IN
    \/ k[2] \in Attempts /\ status \in {"active", "deleted"}
    \/ status = "deleted"
    \/ status = "absent" /\ ~HasToken(k[1])

JudgeObject(k) ==
    /\ cl.phase = "orphans" /\ k \in cl.objs /\ cl.cur = None
    /\ cl' = [cl EXCEPT !.objs = @ \ {k}, !.cur = IF Orphaned(k) THEN k ELSE None]
    /\ UNCHANGED <<token, file, blobs, up, fin, era, view, quota, credits, acked,
                   requested, faults>>

RemoveOrphan ==
    /\ cl.cur # None
    /\ \E lost \in SUBSET {"blob"} :
         /\ MayLose(lost)
         /\ blobs' = IF lost = {} THEN blobs \ {cl.cur} ELSE blobs
    /\ cl' = [cl EXCEPT !.cur = None]
    /\ UNCHANGED <<token, file, up, fin, era, view, quota, credits, acked, requested>>

EndPass ==
    /\ cl.phase = "orphans" /\ PhaseOver
    /\ cl' = NoPass
    /\ UNCHANGED <<token, file, blobs, up, fin, era, view, quota, credits, acked,
                   requested, faults>>

----------------------------------------------------------------------------
(* Time and crashes *)

(* The lease of an uploading row passes.  While the upload renews it this   *)
(* takes missed renewals; the cleaner compares with the time its phase      *)
(* began, so that a lease that passes later passes for the next pass.      *)
LeaseLapses(f) ==
    /\ file[f].status = "uploading" /\ ~file[f].lapsed
    /\ cl.phase # "uploading"
    /\ file' = [file EXCEPT ![f].lapsed = TRUE]
    /\ IF At(file[f].owner, "receiving") THEN Fault ELSE UNCHANGED faults
    /\ UNCHANGED <<token, blobs, up, fin, era, view, cl, quota, credits, acked, requested>>

ClaimLapses(f) ==
    /\ token[f].claim # None /\ ~token[f].lapsed
    /\ token' = [token EXCEPT ![f].lapsed = TRUE]
    /\ UNCHANGED <<file, blobs, up, fin, era, view, cl, quota, credits, acked,
                   requested, faults>>

TokenExpires(f) ==
    /\ token[f].state = "live"
    /\ token' = [token EXCEPT ![f].state = "expired"]
    /\ UNCHANGED <<file, blobs, up, fin, era, view, cl, quota, credits, acked,
                   requested, faults>>

(* The process ends; the database, the object store and the host remain. *)
Crash ==
    /\ Fault
    /\ up' = [a \in Attempts |-> IF up[a].pc \in {"idle", "stored", "failed"} THEN up[a]
                                 ELSE [up[a] EXCEPT !.pc = "failed"]]
    /\ fin' = [p \in Finalizers |-> NoFin]
    /\ era' = [p \in Erasers |-> NoEra]
    /\ view' = [f \in Files |-> "idle"]
    /\ cl' = NoPass
    /\ UNCHANGED <<token, file, blobs, quota, credits, acked, requested>>

----------------------------------------------------------------------------
UploadStep(a) ==
    \/ \E f \in Files : ClaimToken(a, f)
    \/ ReserveUpload(a) \/ RefuseUpload(a) \/ ReserveQuota(a) \/ GiveUpEarly(a)
    \/ RenewLease(a) \/ PersistStagedBlob(a) \/ PersistFails(a)
    \/ RejectStored(a) \/ CommitUpload(a) \/ CommitFails(a) \/ SettleQuota(a)
FinalizeStep(p) ==
    FinalExists(p) \/ CopyToFinal(p) \/ FinalizeFails(p) \/ DeleteStage(p) \/ SaveActive(p) \/ MarkFileLost(p)
EraseStep(p) == DeletePrefix(p) \/ SaveDeleted(p)
CleanerStep ==
    \/ ListUploading \/ ListStaged \/ ListDeleting \/ ListObjects \/ EndPass
    \/ \E f \in Files : RecoverUploading(f) \/ RecoverStaged(f) \/ RecoverDeleting(f)
    \/ \E k \in Keys : JudgeObject(k)
    \/ RemoveOrphan
ThumbStep(f) == PersistThumb(f) \/ RecheckThumb(f)
TimeStep(f) == LeaseLapses(f) \/ ClaimLapses(f) \/ TokenExpires(f)

Next ==
    \/ \E f \in Files : GenerateUploadURL(f) \/ Delete(f) \/ EncodeThumb(f)
                          \/ ThumbStep(f) \/ TimeStep(f)
    \/ \E a \in Attempts : UploadStep(a)
    \/ \E p \in Finalizers : FinalizeStep(p)
    \/ \E p \in Erasers : EraseStep(p)
    \/ CleanerStep
    \/ Crash

Spec == Init /\ [][Next]_vars

(* Goroutines that can run do run, the cleanup worker ticks, and time       *)
(* passes (strongly fair, as LeaseLapses waits for the phase in which the   *)
(* cleaner compares); clients are not forced to ask for anything.           *)
Fairness ==
    /\ \A a \in Attempts : WF_vars(UploadStep(a) /\ ~At(a, "idle"))
    /\ \A p \in Finalizers : WF_vars(FinalizeStep(p))
    /\ \A p \in Erasers : WF_vars(EraseStep(p))
    /\ \A f \in Files : WF_vars(ThumbStep(f)) /\ SF_vars(LeaseLapses(f))
    /\ WF_vars(CleanerStep)
FairSpec == Spec /\ Fairness
----------------------------------------------------------------------------
(* Properties *)

(* A token is single-use: of all the attempts that claim it, one after the  *)
(* other's claim lapsed included, at most one gets its upload committed.    *)
Committed(a) == up[a].pc \in {"committed", "finalizing", "stored"}
OneUploadPerToken ==
    \A a, b \in Attempts :
      a # b /\ Committed(a) /\ Committed(b) => up[a].file # up[b].file

(* "cleanup can never reclaim an upload that is still actively renewing"    *)
(* (recoverUploading): a reservation whose lease is in force ends by its    *)
(* own attempt's hand only.                                                *)
OnlyLapsedReclaimed ==
    [][\A f \in Files :
         file[f].status = "uploading" /\ ~file[f].lapsed /\ file'[f].status = "absent"
           => up[file[f].owner].pc # up'[file[f].owner].pc]_vars

(* Bytes are released at the host only if they are not in the object store: *)
(* on an uncertain write the reservation is kept (quota.go).               *)
NeverUndercounted ==
    \A a \in Attempts : quota[a] = "released"
        => \A f \in Files : <<f, a>> \notin blobs

(* "Public URLs remain valid until file deletion" (docs/guides/storage.md): *)
(* an upload answered with success stays downloadable until it is deleted.  *)
FilesLastUntilDeleted ==
    \A f \in acked \ requested :
      file[f].status = "active" /\ <<f, "final">> \in blobs

(* Freed bytes are reported once the original is gone, under one identity:  *)
(* a file is never credited twice, or while its bytes are stored.          *)
NeverOverCredited ==
    \A f \in Files : credits[f] # {}
        => credits[f] \in {{"delete"}, {"lost"}} /\ <<f, "final">> \notin blobs

(* Every upload and every deletion resolves, by its own call or by the      *)
(* cleanup worker: no row stays in a state that only a call in progress     *)
(* justifies.                                                              *)
RowsResolve ==
    \A f \in Files : file[f].status \in {"uploading", "staged", "deleting"}
        ~> file[f].status \notin {"uploading", "staged", "deleting"}

(* What crashed, rejected and late writers leave in the object store does   *)
(* not stay: an object of a deleted file is eventually removed.            *)
NoObjectOutlivesDeletion ==
    \A f \in Files : file[f].status = "deleted" ~> Blobs(f) = {}
=============================================================================
