-------------------------- MODULE StorageProofs --------------------------
(***************************************************************************)
(* Proofs about file storage, for every set of files and attempts and any  *)
(* number of faults.                                                       *)
(*                                                                         *)
(* Two invariants are inductive.  Inv says what holds however a cleanup    *)
(* pass and uploads overlap: the types, what each call works on, that a    *)
(* committed upload has spent its token (whence one upload per token) and  *)
(* that a stage in the object store belongs to an upload that received it  *)
(* and whose bytes are still reserved (whence the host is never told of    *)
(* bytes that are stored).  Serial needs Overlap = FALSE: finalizations    *)
(* are alone with their file, so an original stays from its copy until     *)
(* the deletion that was asked for, and a report follows its end.          *)
(***************************************************************************)
EXTENDS Storage, TLAPS

(* The types, one definition per variable.                                  *)
TokenRow == [state : {"none", "live", "expired", "gone"}, consumed : BOOLEAN,
             claim : Attempts \cup {None}, lapsed : BOOLEAN]
FileRow == [status : {"absent", "uploading", "staged", "active", "deleting", "deleted"},
            owner : Attempts \cup {None}, lapsed : BOOLEAN]
Upload == [pc : {"idle", "claimed", "reserved", "receiving", "persisted", "committed",
                 "finalizing", "stored", "failed"},
           file : Files \cup {None}]
Finalization == [pc : {"idle", "check", "copy", "unstage", "save", "lost"},
                 file : Files \cup {None}, stage : Attempts \cup {None}]
Erasure == [pc : {"idle", "purge", "save"}, file : Files \cup {None}, freed : BOOLEAN]
Pass == [phase : {"idle", "uploading", "staged", "deleting", "orphans"},
         todo : SUBSET Files, objs : SUBSET Keys, cur : Keys \cup {None},
         owner : [Files -> Attempts \cup {None}]]

TokensOK     == token \in [Files -> TokenRow]
FilesOK      == file \in [Files -> FileRow]
BlobsOK      == blobs \subseteq Keys
UploadsOK    == up \in [Attempts -> Upload]
FinalizersOK == fin \in [Finalizers -> Finalization]
ErasersOK    == era \in [Erasers -> Erasure]
ViewsOK      == view \in [Files -> {"idle", "write", "recheck"}]
PassOK       == cl \in Pass
QuotaOK      == quota \in [Attempts -> {"none", "reserved", "settled", "released"}]
CreditsOK    == credits \in [Files -> SUBSET {"delete", "lost"}]
AnswersOK    == acked \subseteq Files /\ requested \subseteq Files
FaultsOK     == faults \in 0 .. MaxFaults

(* What each call works on.                                                *)
CallsNamed == \A a \in Attempts : up[a].pc # "idle" => up[a].file \in Files
FinalizersNamed == \A p \in Finalizers : fin[p].pc # "idle" => fin[p].file \in Files
OwnFinalization == \A a \in Attempts :
    fin[a].pc # "idle" => up[a].pc = "finalizing" /\ fin[a].file = up[a].file
ErasersNamed == \A p \in Erasers : era[p].pc # "idle" => era[p].file \in Files

(* A committed upload has spent its token.  A stage was received by the     *)
(* upload it is named for, and bytes go back to the host at its end only.  *)
Spent == \A a \in Attempts : Committed(a) =>
    token[up[a].file].consumed \/ token[up[a].file].state = "gone"
Staged == \A a \in Attempts, f \in Files : <<f, a>> \in blobs =>
    /\ up[a].file = f /\ up[a].pc \notin {"idle", "claimed", "reserved", "receiving"}
    /\ quota[a] # "released"
Settled == \A a \in Attempts : quota[a] = "released" => up[a].pc = "failed"

Inv ==
    /\ TokensOK /\ FilesOK /\ BlobsOK /\ UploadsOK /\ FinalizersOK /\ ErasersOK
    /\ ViewsOK /\ PassOK /\ QuotaOK /\ CreditsOK /\ AnswersOK /\ FaultsOK
    /\ CallsNamed /\ FinalizersNamed /\ OwnFinalization /\ ErasersNamed
    /\ Spent /\ OneUploadPerToken /\ Staged /\ Settled

----------------------------------------------------------------------------
(* What the helpers of the model return *)

(* A fault is counted within its bound.                                     *)
LEMMA Faults ==
    ASSUME FaultsOK PROVE /\ Fault => FaultsOK'
                          /\ \A lost : MayLose(lost) => FaultsOK'
  <1>1. ASSUME Fault PROVE FaultsOK'
    BY <1>1, StorageAssumption DEF Fault, FaultsOK
  <1> QED  BY <1>1 DEF MayLose, FaultsOK

(* A step of an upload moves that upload and no other.                      *)
LEMMA Moves ==
    ASSUME UploadsOK, NEW a \in Attempts, NEW pc,
           pc \in {"claimed", "reserved", "receiving", "persisted", "committed",
                   "finalizing", "stored", "failed"},
           MoveTo(a, pc)
    PROVE  /\ UploadsOK'
           /\ up'[a].pc = pc /\ up'[a].file = up[a].file
           /\ \A b \in Attempts : b # a => up'[b] = up[b]
  <1>1. [up[a] EXCEPT !.pc = pc] \in Upload
    BY DEF UploadsOK, Upload
  <1>2. up' = [up EXCEPT ![a] = [up[a] EXCEPT !.pc = pc]]
    BY DEF MoveTo
  <1>3. up[a] \in Upload
    BY DEF UploadsOK
  <1> QED  BY <1>1, <1>2, <1>3 DEF UploadsOK, Upload

(* An upload that gives up releases a claim of its own: nobody's token is   *)
(* consumed, expires or comes back.                                        *)
LEMMA Unclaims ==
    ASSUME TokensOK, NEW a \in Attempts, up[a].file \in Files, NEW lost
    PROVE  /\ Unclaimed(a, lost) \in [Files -> TokenRow]
           /\ \A f \in Files : /\ Unclaimed(a, lost)[f].state = token[f].state
                               /\ Unclaimed(a, lost)[f].consumed = token[f].consumed
  <1> DEFINE f == up[a].file
             freed == [token[f] EXCEPT !.claim = None, !.lapsed = FALSE]
  <1>1. /\ freed \in TokenRow /\ freed.state = token[f].state
        /\ freed.consumed = token[f].consumed
    BY DEF TokensOK, TokenRow
  <1>2. \/ Unclaimed(a, lost) = token
        \/ Unclaimed(a, lost) = [token EXCEPT ![f] = freed]
    BY DEF Unclaimed, TokensOK, TokenRow
  <1> QED  BY <1>1, <1>2 DEF TokensOK

(* It removes its own reservation or leaves every row alone.                *)
LEMMA Releases ==
    ASSUME FilesOK, NEW a \in Attempts, up[a].file \in Files, NEW lost
    PROVE  /\ Released(a, lost) \in [Files -> FileRow]
           /\ \A f \in Files : \/ Released(a, lost)[f] = file[f]
                               \/ /\ f = up[a].file /\ OwnsRow(a)
                                  /\ Released(a, lost)[f] = NoFile
  <1>1. NoFile \in FileRow
    BY DEF NoFile, FileRow
  <1> QED  BY <1>1 DEF Released, FilesOK

(* It removes its own stage or nothing.                                     *)
LEMMA Unstages ==
    ASSUME NEW a, NEW lost
    PROVE  /\ Unstaged(a, lost) \subseteq blobs
           /\ \A k \in blobs : k \in Unstaged(a, lost) \/ k = <<up[a].file, a>>
  BY DEF Unstaged

(* The end of a finalization, of an upload or of the cleaner's.             *)
LEMMA Ends ==
    ASSUME UploadsOK, FinalizersOK, OwnFinalization, CallsNamed,
           FinalizersNamed, acked \subseteq Files,
           NEW p \in Finalizers, fin[p].pc # "idle", NEW ok \in BOOLEAN,
           FinalizeEnds(p, ok)
    PROVE  /\ UploadsOK' /\ FinalizersOK' /\ acked' \subseteq Files
           /\ fin'[p] = NoFin
           /\ \A q \in Finalizers : q # p => fin'[q] = fin[q]
           /\ \A a \in Attempts :
                \/ up'[a] = up[a] /\ a # p
                \/ /\ a = p /\ up[a].pc = "finalizing"
                   /\ up'[a].pc = (IF ok THEN "stored" ELSE "failed")
                   /\ up'[a].file = up[a].file
           /\ acked' \subseteq acked \cup {fin[p].file}
           /\ ~ok => acked' = acked
  <1>1. NoFin \in Finalization
    BY DEF NoFin, Finalization
  <1>2. FinalizersOK' /\ fin'[p] = NoFin
        /\ \A q \in Finalizers : q # p => fin'[q] = fin[q]
    BY <1>1 DEF FinalizeEnds, FinalizersOK
  <1>3. acked' \subseteq Files /\ acked' \subseteq acked \cup {fin[p].file}
        /\ (~ok => acked' = acked)
    BY DEF FinalizeEnds, FinalizersNamed
  <1>4. CASE p = Cleaner
    BY <1>2, <1>3, <1>4, StorageAssumption DEF FinalizeEnds, UploadsOK
  <1>5. CASE p # Cleaner
    <2>1. p \in Attempts
      BY <1>5 DEF Finalizers
    <2>2. up[p].pc = "finalizing"
      BY <2>1 DEF OwnFinalization
    <2>3. MoveTo(p, IF ok THEN "stored" ELSE "failed")
      BY <2>1 DEF FinalizeEnds, MoveTo
    <2> QED  BY <1>2, <1>3, <2>1, <2>2, <2>3, Moves
  <1> QED  BY <1>4, <1>5

----------------------------------------------------------------------------
(* Each action keeps the invariant: one step per conjunct that the action  *)
(* can disturb                                                             *)

LEMMA GenerateUploadURLKeeps ==
    ASSUME Inv, NEW f \in Files, GenerateUploadURL(f)
    PROVE  Inv'
  <1>1. TokensOK'
    BY DEF Inv, TokensOK, TokenRow, GenerateUploadURL
  <1>2. Spent'
    BY DEF Inv, Spent, CallsNamed, TokensOK, TokenRow, Committed,
        GenerateUploadURL
  <1> QED  BY <1>1, <1>2
      DEF Inv, FilesOK, BlobsOK, UploadsOK, FinalizersOK, ErasersOK, ViewsOK,
          PassOK, QuotaOK, CreditsOK, AnswersOK, FaultsOK, CallsNamed,
          FinalizersNamed, OwnFinalization, ErasersNamed, OneUploadPerToken,
          Committed, Staged, Settled, GenerateUploadURL

LEMMA DeleteKeeps ==
    ASSUME Inv, NEW f \in Files, Delete(f)
    PROVE  Inv'
  <1>1. FilesOK'
    BY DEF Inv, FilesOK, FileRow, Delete
  <1>2. ErasersOK'
    BY DEF Inv, ErasersOK, Erasure, Delete
  <1>3. AnswersOK'
    BY DEF Inv, AnswersOK, Delete
  <1>4. ErasersNamed'
    BY DEF Inv, ErasersNamed, ErasersOK, Erasure, Delete
  <1> QED  BY <1>1, <1>2, <1>3, <1>4
      DEF Inv, TokensOK, BlobsOK, UploadsOK, FinalizersOK, ViewsOK, PassOK,
          QuotaOK, CreditsOK, FaultsOK, CallsNamed, FinalizersNamed,
          OwnFinalization, Spent, Committed, OneUploadPerToken, Staged,
          Settled, Delete

LEMMA EncodeThumbKeeps ==
    ASSUME Inv, NEW f \in Files, EncodeThumb(f)
    PROVE  Inv'
  <1>1. ViewsOK'
    BY DEF Inv, ViewsOK, EncodeThumb
  <1> QED  BY <1>1
      DEF Inv, TokensOK, FilesOK, BlobsOK, UploadsOK, FinalizersOK, ErasersOK,
          PassOK, QuotaOK, CreditsOK, AnswersOK, FaultsOK, CallsNamed,
          FinalizersNamed, OwnFinalization, ErasersNamed, Spent, Committed,
          OneUploadPerToken, Staged, Settled, EncodeThumb

LEMMA PersistThumbKeeps ==
    ASSUME Inv, NEW f \in Files, PersistThumb(f)
    PROVE  Inv'
  <1>1. BlobsOK'
    BY DEF Inv, BlobsOK, Keys, PersistThumb
  <1>2. ViewsOK'
    BY DEF Inv, ViewsOK, PersistThumb
  <1>3. Staged'
    BY StorageAssumption DEF Inv, Staged, BlobsOK, Keys, PersistThumb
  <1> QED  BY <1>1, <1>2, <1>3
      DEF Inv, TokensOK, FilesOK, UploadsOK, FinalizersOK, ErasersOK, PassOK,
          QuotaOK, CreditsOK, AnswersOK, FaultsOK, CallsNamed,
          FinalizersNamed, OwnFinalization, ErasersNamed, Spent, Committed,
          OneUploadPerToken, Settled, PersistThumb

LEMMA RecheckThumbKeeps ==
    ASSUME Inv, NEW f \in Files, RecheckThumb(f)
    PROVE  Inv'
  <1>1. BlobsOK'
    BY DEF Inv, BlobsOK, Keys, RecheckThumb
  <1>2. ViewsOK'
    BY DEF Inv, ViewsOK, RecheckThumb
  <1>3. FaultsOK'
    BY Faults DEF Inv, RecheckThumb, FaultsOK
  <1>4. Staged'
    BY StorageAssumption DEF Inv, Staged, RecheckThumb
  <1> QED  BY <1>1, <1>2, <1>3, <1>4
      DEF Inv, TokensOK, FilesOK, UploadsOK, FinalizersOK, ErasersOK, PassOK,
          QuotaOK, CreditsOK, AnswersOK, CallsNamed, FinalizersNamed,
          OwnFinalization, ErasersNamed, Spent, Committed, OneUploadPerToken,
          Settled, RecheckThumb

LEMMA LeaseLapsesKeeps ==
    ASSUME Inv, NEW f \in Files, LeaseLapses(f)
    PROVE  Inv'
  <1>1. FilesOK'
    BY DEF Inv, FilesOK, FileRow, LeaseLapses
  <1>2. FaultsOK'
    BY Faults DEF Inv, LeaseLapses, FaultsOK
  <1> QED  BY <1>1, <1>2
      DEF Inv, TokensOK, BlobsOK, UploadsOK, FinalizersOK, ErasersOK, ViewsOK,
          PassOK, QuotaOK, CreditsOK, AnswersOK, CallsNamed, FinalizersNamed,
          OwnFinalization, ErasersNamed, Spent, Committed, OneUploadPerToken,
          Staged, Settled, LeaseLapses

LEMMA ClaimLapsesKeeps ==
    ASSUME Inv, NEW f \in Files, ClaimLapses(f)
    PROVE  Inv'
  <1>1. TokensOK'
    BY DEF Inv, TokensOK, TokenRow, ClaimLapses
  <1>2. Spent'
    BY DEF Inv, Spent, CallsNamed, TokensOK, TokenRow, Committed, ClaimLapses
  <1> QED  BY <1>1, <1>2
      DEF Inv, FilesOK, BlobsOK, UploadsOK, FinalizersOK, ErasersOK, ViewsOK,
          PassOK, QuotaOK, CreditsOK, AnswersOK, FaultsOK, CallsNamed,
          FinalizersNamed, OwnFinalization, ErasersNamed, OneUploadPerToken,
          Committed, Staged, Settled, ClaimLapses

LEMMA TokenExpiresKeeps ==
    ASSUME Inv, NEW f \in Files, TokenExpires(f)
    PROVE  Inv'
  <1>1. TokensOK'
    BY DEF Inv, TokensOK, TokenRow, TokenExpires
  <1>2. Spent'
    BY DEF Inv, Spent, CallsNamed, TokensOK, TokenRow, Committed, TokenExpires
  <1> QED  BY <1>1, <1>2
      DEF Inv, FilesOK, BlobsOK, UploadsOK, FinalizersOK, ErasersOK, ViewsOK,
          PassOK, QuotaOK, CreditsOK, AnswersOK, FaultsOK, CallsNamed,
          FinalizersNamed, OwnFinalization, ErasersNamed, OneUploadPerToken,
          Committed, Staged, Settled, TokenExpires

LEMMA ClaimTokenKeeps ==
    ASSUME Inv, NEW a \in Attempts, NEW f \in Files, ClaimToken(a, f)
    PROVE  Inv'
  <1>1. TokensOK'
    BY DEF Inv, TokensOK, TokenRow, ClaimToken
  <1>2. UploadsOK'
    BY DEF Inv, UploadsOK, Upload, ClaimToken
  <1>3. CallsNamed'
    BY DEF Inv, CallsNamed, UploadsOK, Upload, At, ClaimToken
  <1>4. OwnFinalization'
    BY DEF Inv, OwnFinalization, FinalizersOK, Finalization, At, ClaimToken
  <1>5. Spent'
    BY DEF Inv, Spent, CallsNamed, TokensOK, TokenRow, UploadsOK, Upload,
        Committed, At, ClaimToken
  <1>6. OneUploadPerToken'
    BY DEF Inv, OneUploadPerToken, UploadsOK, Upload, Committed, At,
        ClaimToken
  <1>7. Staged'
    BY StorageAssumption DEF Inv, Staged, UploadsOK, Upload, At, ClaimToken
  <1>8. Settled'
    BY DEF Inv, Settled, UploadsOK, Upload, At, ClaimToken
  <1> QED  BY <1>1, <1>2, <1>3, <1>4, <1>5, <1>6, <1>7, <1>8
      DEF Inv, FilesOK, BlobsOK, FinalizersOK, ErasersOK, ViewsOK, PassOK,
          QuotaOK, CreditsOK, AnswersOK, FaultsOK, FinalizersNamed,
          ErasersNamed, ClaimToken

LEMMA ReserveUploadKeeps ==
    ASSUME Inv, NEW a \in Attempts, ReserveUpload(a)
    PROVE  Inv'
  <1>1. up[a].file \in Files
    BY DEF Inv, CallsNamed, At, ReserveUpload
  <1>2. /\ UploadsOK' /\ up'[a].pc = "reserved" /\ up'[a].file = up[a].file
        /\ \A b \in Attempts : b # a => up'[b] = up[b]
    BY Moves DEF Inv, ReserveUpload
  <1>3. FilesOK'
    BY <1>1 DEF Inv, FilesOK, FileRow, ReserveUpload
  <1>4. UploadsOK'
    BY <1>2
  <1>5. CallsNamed'
    BY <1>1, <1>2 DEF Inv, CallsNamed, ReserveUpload
  <1>6. OwnFinalization'
    BY <1>2 DEF Inv, OwnFinalization, At, ReserveUpload
  <1>7. Spent'
    BY <1>1, <1>2 DEF Inv, Spent, Committed, CallsNamed, At, ReserveUpload
  <1>8. OneUploadPerToken'
    BY <1>2 DEF Inv, OneUploadPerToken, Committed, At, ReserveUpload
  <1>9. Staged'
    BY <1>1, <1>2 DEF Inv, Staged, At, BlobsOK, Keys, ReserveUpload
  <1>10. Settled'
    BY <1>2 DEF Inv, Settled, At, ReserveUpload
  <1> QED  BY <1>3, <1>4, <1>5, <1>6, <1>7, <1>8, <1>9, <1>10
      DEF Inv, TokensOK, BlobsOK, FinalizersOK, ErasersOK, ViewsOK, PassOK,
          QuotaOK, CreditsOK, AnswersOK, FaultsOK, FinalizersNamed,
          ErasersNamed, ReserveUpload

LEMMA RefuseUploadKeeps ==
    ASSUME Inv, NEW a \in Attempts, RefuseUpload(a)
    PROVE  Inv'
  <1>1. up[a].file \in Files
    BY DEF Inv, CallsNamed, At, RefuseUpload
  <1>2. /\ UploadsOK' /\ up'[a].pc = "failed" /\ up'[a].file = up[a].file
        /\ \A b \in Attempts : b # a => up'[b] = up[b]
    BY Moves DEF Inv, RefuseUpload
  <1>3. TokensOK'
    BY <1>1, Unclaims DEF Inv, TokensOK, RefuseUpload
  <1>4. UploadsOK'
    BY <1>2
  <1>5. FaultsOK'
    BY Faults DEF Inv, RefuseUpload, FaultsOK
  <1>6. CallsNamed'
    BY <1>1, <1>2 DEF Inv, CallsNamed, RefuseUpload
  <1>7. OwnFinalization'
    BY <1>2 DEF Inv, OwnFinalization, At, RefuseUpload
  <1>8. Spent'
    BY <1>1, <1>2, Unclaims DEF Inv, Spent, Committed, CallsNamed, At,
        TokensOK, RefuseUpload
  <1>9. OneUploadPerToken'
    BY <1>2 DEF Inv, OneUploadPerToken, Committed, At, RefuseUpload
  <1>10. Staged'
    BY <1>1, <1>2 DEF Inv, Staged, At, BlobsOK, Keys, RefuseUpload
  <1>11. Settled'
    BY <1>2 DEF Inv, Settled, At, RefuseUpload
  <1> QED  BY <1>3, <1>4, <1>5, <1>6, <1>7, <1>8, <1>9, <1>10, <1>11
      DEF Inv, FilesOK, BlobsOK, FinalizersOK, ErasersOK, ViewsOK, PassOK,
          QuotaOK, CreditsOK, AnswersOK, FinalizersNamed, ErasersNamed,
          RefuseUpload

LEMMA ReserveQuotaKeeps ==
    ASSUME Inv, NEW a \in Attempts, ReserveQuota(a)
    PROVE  Inv'
  <1>1. up[a].file \in Files
    BY DEF Inv, CallsNamed, At, ReserveQuota
  <1>2. /\ UploadsOK' /\ up'[a].pc = "receiving" /\ up'[a].file = up[a].file
        /\ \A b \in Attempts : b # a => up'[b] = up[b]
    BY Moves DEF Inv, ReserveQuota
  <1>3. UploadsOK'
    BY <1>2
  <1>4. QuotaOK'
    BY DEF Inv, QuotaOK, ReserveQuota
  <1>5. CallsNamed'
    BY <1>1, <1>2 DEF Inv, CallsNamed, ReserveQuota
  <1>6. OwnFinalization'
    BY <1>2 DEF Inv, OwnFinalization, At, ReserveQuota
  <1>7. Spent'
    BY <1>1, <1>2 DEF Inv, Spent, Committed, CallsNamed, At, ReserveQuota
  <1>8. OneUploadPerToken'
    BY <1>2 DEF Inv, OneUploadPerToken, Committed, At, ReserveQuota
  <1>9. Staged'
    BY <1>1, <1>2 DEF Inv, Staged, At, BlobsOK, Keys, QuotaOK, ReserveQuota
  <1>10. Settled'
    BY <1>2 DEF Inv, Settled, At, QuotaOK, ReserveQuota
  <1> QED  BY <1>3, <1>4, <1>5, <1>6, <1>7, <1>8, <1>9, <1>10
      DEF Inv, TokensOK, FilesOK, BlobsOK, FinalizersOK, ErasersOK, ViewsOK,
          PassOK, CreditsOK, AnswersOK, FaultsOK, FinalizersNamed,
          ErasersNamed, ReserveQuota

LEMMA GiveUpEarlyKeeps ==
    ASSUME Inv, NEW a \in Attempts, GiveUpEarly(a)
    PROVE  Inv'
  <1>1. up[a].file \in Files
    BY DEF Inv, CallsNamed, At, GiveUpEarly
  <1>2. /\ UploadsOK' /\ up'[a].pc = "failed" /\ up'[a].file = up[a].file
        /\ \A b \in Attempts : b # a => up'[b] = up[b]
    BY Moves DEF Inv, GiveUpEarly
  <1>3. TokensOK'
    BY <1>1, Unclaims DEF Inv, TokensOK, GiveUpEarly
  <1>4. FilesOK'
    BY <1>1, Releases DEF Inv, FilesOK, GiveUpEarly
  <1>5. UploadsOK'
    BY <1>2
  <1>6. QuotaOK'
    BY DEF Inv, QuotaOK, GiveUpEarly
  <1>7. FaultsOK'
    BY Faults DEF Inv, GiveUpEarly, FaultsOK
  <1>8. CallsNamed'
    BY <1>1, <1>2 DEF Inv, CallsNamed, GiveUpEarly
  <1>9. OwnFinalization'
    BY <1>2 DEF Inv, OwnFinalization, At, GiveUpEarly
  <1>10. Spent'
    BY <1>1, <1>2, Unclaims DEF Inv, Spent, Committed, CallsNamed, At,
        TokensOK, GiveUpEarly
  <1>11. OneUploadPerToken'
    BY <1>2 DEF Inv, OneUploadPerToken, Committed, At, GiveUpEarly
  <1>12. Staged'
    BY <1>1, <1>2 DEF Inv, Staged, At, BlobsOK, Keys, QuotaOK, GiveUpEarly
  <1>13. Settled'
    BY <1>2 DEF Inv, Settled, At, QuotaOK, GiveUpEarly
  <1> QED  BY <1>3, <1>4, <1>5, <1>6, <1>7, <1>8, <1>9, <1>10, <1>11, <1>12,
      <1>13
      DEF Inv, BlobsOK, FinalizersOK, ErasersOK, ViewsOK, PassOK, CreditsOK,
          AnswersOK, FinalizersNamed, ErasersNamed, GiveUpEarly

LEMMA RenewLeaseKeeps ==
    ASSUME Inv, NEW a \in Attempts, RenewLease(a)
    PROVE  Inv'
  <1>1. FilesOK'
    <2>1. up[a].file \in Files
      BY DEF Inv, CallsNamed, At, RenewLease
    <2>2. [file[up[a].file] EXCEPT !.lapsed = FALSE] \in FileRow
      BY <2>1 DEF Inv, FilesOK, FileRow
    <2>3. file' = [file EXCEPT ![up[a].file] =
                     [file[up[a].file] EXCEPT !.lapsed = FALSE]]
      BY DEF RenewLease
    <2> QED  BY <2>1, <2>2, <2>3 DEF Inv, FilesOK
  <1> QED  BY <1>1
      DEF Inv, TokensOK, BlobsOK, UploadsOK, FinalizersOK, ErasersOK, ViewsOK,
          PassOK, QuotaOK, CreditsOK, AnswersOK, FaultsOK, CallsNamed,
          FinalizersNamed, OwnFinalization, ErasersNamed, Spent, Committed,
          OneUploadPerToken, Staged, Settled, RenewLease

LEMMA PersistStagedBlobKeeps ==
    ASSUME Inv, NEW a \in Attempts, PersistStagedBlob(a)
    PROVE  Inv'
  <1>1. up[a].file \in Files
    BY DEF Inv, CallsNamed, At, PersistStagedBlob
  <1>2. /\ UploadsOK' /\ up'[a].pc = "persisted" /\ up'[a].file = up[a].file
        /\ \A b \in Attempts : b # a => up'[b] = up[b]
    BY Moves DEF Inv, PersistStagedBlob
  <1>3. BlobsOK'
    BY <1>1 DEF Inv, BlobsOK, Keys, PersistStagedBlob
  <1>4. UploadsOK'
    BY <1>2
  <1>5. CallsNamed'
    BY <1>1, <1>2 DEF Inv, CallsNamed, PersistStagedBlob
  <1>6. OwnFinalization'
    BY <1>2 DEF Inv, OwnFinalization, At, PersistStagedBlob
  <1>7. Spent'
    BY <1>1, <1>2 DEF Inv, Spent, Committed, CallsNamed, At, PersistStagedBlob
  <1>8. OneUploadPerToken'
    BY <1>2 DEF Inv, OneUploadPerToken, Committed, At, PersistStagedBlob
  <1>9. Staged'
    <2>1. quota[a] # "released"
      BY DEF Inv, Settled, At, PersistStagedBlob
    <2>2. up[a].pc = "receiving" /\ blobs' = blobs \cup {<<up[a].file, a>>}
          /\ quota' = quota
      BY DEF At, PersistStagedBlob
    <2> QED  BY <1>1, <1>2, <2>1, <2>2 DEF Inv, Staged
  <1>10. Settled'
    BY <1>2 DEF Inv, Settled, At, PersistStagedBlob
  <1> QED  BY <1>3, <1>4, <1>5, <1>6, <1>7, <1>8, <1>9, <1>10
      DEF Inv, TokensOK, FilesOK, FinalizersOK, ErasersOK, ViewsOK, PassOK,
          QuotaOK, CreditsOK, AnswersOK, FaultsOK, FinalizersNamed,
          ErasersNamed, PersistStagedBlob

LEMMA PersistFailsKeeps ==
    ASSUME Inv, NEW a \in Attempts, PersistFails(a)
    PROVE  Inv'
  <1>1. up[a].file \in Files
    BY DEF Inv, CallsNamed, At, PersistFails
  <1>2. /\ UploadsOK' /\ up'[a].pc = "failed" /\ up'[a].file = up[a].file
        /\ \A b \in Attempts : b # a => up'[b] = up[b]
    BY Moves DEF Inv, PersistFails
  <1>3. TokensOK'
    BY <1>1, Unclaims DEF Inv, TokensOK, PersistFails
  <1>4. FilesOK'
    BY <1>1, Releases DEF Inv, FilesOK, PersistFails
  <1>5. BlobsOK'
    BY <1>1 DEF Inv, BlobsOK, Keys, PersistFails
  <1>6. UploadsOK'
    BY <1>2
  <1>7. FaultsOK'
    BY Faults DEF Inv, PersistFails, FaultsOK
  <1>8. CallsNamed'
    BY <1>1, <1>2 DEF Inv, CallsNamed, PersistFails
  <1>9. OwnFinalization'
    BY <1>2 DEF Inv, OwnFinalization, At, PersistFails
  <1>10. Spent'
    BY <1>1, <1>2, Unclaims DEF Inv, Spent, Committed, CallsNamed, At,
        TokensOK, PersistFails
  <1>11. OneUploadPerToken'
    BY <1>2 DEF Inv, OneUploadPerToken, Committed, At, PersistFails
  <1>12. Staged'
    <2>1. quota[a] # "released"
      BY DEF Inv, Settled, At, PersistFails
    <2>2. up[a].pc = "receiving" /\ blobs' \subseteq blobs \cup {<<up[a].file, a>>}
          /\ quota' = quota
      BY DEF At, PersistFails
    <2> QED  BY <1>1, <1>2, <2>1, <2>2 DEF Inv, Staged
  <1>13. Settled'
    BY <1>2 DEF Inv, Settled, At, PersistFails
  <1> QED  BY <1>3, <1>4, <1>5, <1>6, <1>7, <1>8, <1>9, <1>10, <1>11, <1>12,
      <1>13
      DEF Inv, FinalizersOK, ErasersOK, ViewsOK, PassOK, QuotaOK, CreditsOK,
          AnswersOK, FinalizersNamed, ErasersNamed, PersistFails

LEMMA RejectStoredKeeps ==
    ASSUME Inv, NEW a \in Attempts, RejectStored(a)
    PROVE  Inv'
  <1>1. up[a].file \in Files
    BY DEF Inv, CallsNamed, At, RejectStored
  <1>2. /\ UploadsOK' /\ up'[a].pc = "failed" /\ up'[a].file = up[a].file
        /\ \A b \in Attempts : b # a => up'[b] = up[b]
    BY Moves DEF Inv, RejectStored
  <1>3. TokensOK'
    BY <1>1, Unclaims DEF Inv, TokensOK, RejectStored
  <1>4. FilesOK'
    BY <1>1, Releases DEF Inv, FilesOK, RejectStored
  <1>5. BlobsOK'
    BY <1>1, Unstages DEF Inv, BlobsOK, Keys, RejectStored
  <1>6. UploadsOK'
    BY <1>2
  <1>7. QuotaOK'
    BY DEF Inv, QuotaOK, Refunded, RejectStored
  <1>8. FaultsOK'
    BY Faults DEF Inv, RejectStored, FaultsOK
  <1>9. CallsNamed'
    BY <1>1, <1>2 DEF Inv, CallsNamed, RejectStored
  <1>10. OwnFinalization'
    BY <1>2 DEF Inv, OwnFinalization, At, RejectStored
  <1>11. Spent'
    BY <1>1, <1>2, Unclaims DEF Inv, Spent, Committed, CallsNamed, At,
        TokensOK, RejectStored
  <1>12. OneUploadPerToken'
    BY <1>2 DEF Inv, OneUploadPerToken, Committed, At, RejectStored
  <1>13. Staged'
    BY <1>1, <1>2, Unstages DEF Inv, Staged, At, BlobsOK, Keys, QuotaOK,
        Refunded, RejectStored
  <1>14. Settled'
    BY <1>2, Unstages DEF Inv, Settled, At, QuotaOK, Refunded, RejectStored
  <1> QED  BY <1>3, <1>4, <1>5, <1>6, <1>7, <1>8, <1>9, <1>10, <1>11, <1>12,
      <1>13, <1>14
      DEF Inv, FinalizersOK, ErasersOK, ViewsOK, PassOK, CreditsOK, AnswersOK,
          FinalizersNamed, ErasersNamed, RejectStored

LEMMA CommitUploadKeeps ==
    ASSUME Inv, NEW a \in Attempts, CommitUpload(a)
    PROVE  Inv'
  <1>1. up[a].file \in Files
    BY DEF Inv, CallsNamed, At, CommitUpload
  <1>2. /\ UploadsOK' /\ up'[a].pc = "committed" /\ up'[a].file = up[a].file
        /\ \A b \in Attempts : b # a => up'[b] = up[b]
    BY Moves DEF Inv, CommitUpload
  <1>3. TokensOK'
    <2> DEFINE f == up[a].file
               spent == [token[f] EXCEPT !.consumed = TRUE, !.claim = None,
                                         !.lapsed = FALSE]
    <2>1. spent \in TokenRow
      BY <1>1 DEF Inv, TokensOK, TokenRow
    <2>2. token' = [token EXCEPT ![f] = spent]
      BY <1>1 DEF Inv, TokensOK, TokenRow, CommitUpload
    <2> QED  BY <1>1, <2>1, <2>2 DEF Inv, TokensOK
  <1>4. FilesOK'
    BY <1>1 DEF Inv, FilesOK, FileRow, CommitUpload
  <1>5. UploadsOK'
    BY <1>2
  <1>6. CallsNamed'
    BY <1>1, <1>2 DEF Inv, CallsNamed, CommitUpload
  <1>7. OwnFinalization'
    BY <1>2 DEF Inv, OwnFinalization, At, CommitUpload
  <1>8. Spent'
    BY <1>1, <1>2 DEF Inv, Spent, Committed, CallsNamed, At, TokensOK,
        CommitUpload
  <1>9. OneUploadPerToken'
    BY <1>2 DEF Inv, OneUploadPerToken, Committed, Spent, OwnsClaim,
        CommitUpload
  <1>10. Staged'
    BY <1>1, <1>2 DEF Inv, Staged, At, BlobsOK, Keys, CommitUpload
  <1>11. Settled'
    BY <1>2 DEF Inv, Settled, At, CommitUpload
  <1> QED  BY <1>3, <1>4, <1>5, <1>6, <1>7, <1>8, <1>9, <1>10, <1>11
      DEF Inv, BlobsOK, FinalizersOK, ErasersOK, ViewsOK, PassOK, QuotaOK,
          CreditsOK, AnswersOK, FaultsOK, FinalizersNamed, ErasersNamed,
          CommitUpload

LEMMA CommitFailsKeeps ==
    ASSUME Inv, NEW a \in Attempts, CommitFails(a)
    PROVE  Inv'
  <1>1. up[a].file \in Files
    BY DEF Inv, CallsNamed, At, CommitFails
  <1>2. /\ UploadsOK' /\ up'[a].pc = "failed" /\ up'[a].file = up[a].file
        /\ \A b \in Attempts : b # a => up'[b] = up[b]
    BY Moves DEF Inv, CommitFails
  <1>3. TokensOK'
    BY <1>1, Unclaims DEF Inv, TokensOK, CommitFails
  <1>4. FilesOK'
    BY <1>1, Releases DEF Inv, FilesOK, CommitFails
  <1>5. BlobsOK'
    BY <1>1, Unstages DEF Inv, BlobsOK, Keys, CommitFails
  <1>6. UploadsOK'
    BY <1>2
  <1>7. QuotaOK'
    BY DEF Inv, QuotaOK, Refunded, CommitFails
  <1>8. FaultsOK'
    BY Faults DEF Inv, CommitFails, FaultsOK
  <1>9. CallsNamed'
    BY <1>1, <1>2 DEF Inv, CallsNamed, CommitFails
  <1>10. OwnFinalization'
    BY <1>2 DEF Inv, OwnFinalization, At, CommitFails
  <1>11. Spent'
    BY <1>1, <1>2, Unclaims DEF Inv, Spent, Committed, CallsNamed, At,
        TokensOK, CommitFails
  <1>12. OneUploadPerToken'
    BY <1>2 DEF Inv, OneUploadPerToken, Committed, At, CommitFails
  <1>13. Staged'
    BY <1>1, <1>2, Unstages DEF Inv, Staged, At, BlobsOK, Keys, QuotaOK,
        Refunded, CommitFails
  <1>14. Settled'
    BY <1>2, Unstages DEF Inv, Settled, At, QuotaOK, Refunded, CommitFails
  <1> QED  BY <1>3, <1>4, <1>5, <1>6, <1>7, <1>8, <1>9, <1>10, <1>11, <1>12,
      <1>13, <1>14
      DEF Inv, FinalizersOK, ErasersOK, ViewsOK, PassOK, CreditsOK, AnswersOK,
          FinalizersNamed, ErasersNamed, CommitFails

LEMMA SettleQuotaKeeps ==
    ASSUME Inv, NEW a \in Attempts, SettleQuota(a)
    PROVE  Inv'
  <1>1. up[a].file \in Files
    BY DEF Inv, CallsNamed, At, SettleQuota
  <1>2. /\ UploadsOK' /\ up'[a].pc = "finalizing" /\ up'[a].file = up[a].file
        /\ \A b \in Attempts : b # a => up'[b] = up[b]
    BY Moves DEF Inv, SettleQuota
  <1>3. UploadsOK'
    BY <1>2
  <1>4. FinalizersOK'
    BY <1>1 DEF Inv, FinalizersOK, Finalization, SettleQuota
  <1>5. QuotaOK'
    BY DEF Inv, QuotaOK, SettleQuota
  <1>6. FaultsOK'
    BY Faults DEF Inv, SettleQuota, FaultsOK
  <1>7. CallsNamed'
    BY <1>1, <1>2 DEF Inv, CallsNamed, SettleQuota
  <1>8. FinalizersNamed'
    BY <1>1 DEF Inv, FinalizersNamed, FinalizersOK, SettleQuota
  <1>9. OwnFinalization'
    BY <1>2 DEF Inv, OwnFinalization, At, SettleQuota
  <1>10. Spent'
    BY <1>1, <1>2 DEF Inv, Spent, Committed, CallsNamed, At, SettleQuota
  <1>11. OneUploadPerToken'
    BY <1>2 DEF Inv, OneUploadPerToken, Committed, At, SettleQuota
  <1>12. Staged'
    BY <1>1, <1>2 DEF Inv, Staged, At, BlobsOK, Keys, QuotaOK, SettleQuota
  <1>13. Settled'
    BY <1>2 DEF Inv, Settled, At, QuotaOK, SettleQuota
  <1> QED  BY <1>3, <1>4, <1>5, <1>6, <1>7, <1>8, <1>9, <1>10, <1>11, <1>12,
      <1>13
      DEF Inv, TokensOK, FilesOK, BlobsOK, ErasersOK, ViewsOK, PassOK,
          CreditsOK, AnswersOK, ErasersNamed, SettleQuota

LEMMA FinalExistsKeeps ==
    ASSUME Inv, NEW p \in Finalizers, FinalExists(p)
    PROVE  Inv'
  <1>1. FinalizersOK'
    BY DEF Inv, FinalizersOK, Finalization, FinalExists
  <1>2. FinalizersNamed'
    BY DEF Inv, FinalizersNamed, FinalizersOK, Finalization, FinalExists
  <1>3. OwnFinalization'
    BY DEF Inv, OwnFinalization, FinalizersOK, Finalization, FinalExists
  <1> QED  BY <1>1, <1>2, <1>3
      DEF Inv, TokensOK, FilesOK, BlobsOK, UploadsOK, ErasersOK, ViewsOK,
          PassOK, QuotaOK, CreditsOK, AnswersOK, FaultsOK, CallsNamed,
          ErasersNamed, Spent, Committed, OneUploadPerToken, Staged, Settled,
          FinalExists

LEMMA CopyToFinalKeeps ==
    ASSUME Inv, NEW p \in Finalizers, CopyToFinal(p)
    PROVE  Inv'
  <1>1. BlobsOK'
    BY DEF Inv, BlobsOK, Keys, FinalizersOK, Finalization, FinalizersNamed,
        CopyToFinal
  <1>2. FinalizersOK'
    BY DEF Inv, FinalizersOK, Finalization, CopyToFinal
  <1>3. FinalizersNamed'
    BY DEF Inv, FinalizersNamed, FinalizersOK, Finalization, CopyToFinal
  <1>4. OwnFinalization'
    <2>1. /\ fin'[p].pc # "idle" => fin[p].pc # "idle"
          /\ fin'[p].file = fin[p].file
          /\ \A q \in Finalizers : q # p => fin'[q] = fin[q]
      BY DEF Inv, FinalizersOK, Finalization, CopyToFinal
    <2> QED  BY <2>1 DEF Inv, OwnFinalization, Finalizers, CopyToFinal
  <1>5. Staged'
    BY StorageAssumption DEF Inv, Staged, BlobsOK, Keys, CopyToFinal
  <1> QED  BY <1>1, <1>2, <1>3, <1>4, <1>5
      DEF Inv, TokensOK, FilesOK, UploadsOK, ErasersOK, ViewsOK, PassOK,
          QuotaOK, CreditsOK, AnswersOK, FaultsOK, CallsNamed, ErasersNamed,
          Spent, Committed, OneUploadPerToken, Settled, CopyToFinal

LEMMA FinalizeFailsKeeps ==
    ASSUME Inv, NEW p \in Finalizers, FinalizeFails(p)
    PROVE  Inv'
  <1>1. /\ UploadsOK' /\ FinalizersOK' /\ acked' \subseteq Files
        /\ fin'[p] = NoFin
        /\ \A q \in Finalizers : q # p => fin'[q] = fin[q]
        /\ \A a \in Attempts :
             \/ up'[a] = up[a] /\ a # p
             \/ /\ a = p /\ up[a].pc = "finalizing"
                /\ up'[a].pc \in {"stored", "failed"} /\ up'[a].file = up[a].file
    <2>1. PICK ok \in BOOLEAN : fin[p].pc # "idle" /\ FinalizeEnds(p, ok)
      BY DEF FinalizeFails
    <2>2. UploadsOK /\ FinalizersOK /\ OwnFinalization /\ CallsNamed
          /\ FinalizersNamed /\ acked \subseteq Files
      BY DEF Inv, AnswersOK
    <2> QED  BY <2>1, <2>2, Ends
  <1>2. UploadsOK'
    BY <1>1
  <1>3. FinalizersOK'
    BY <1>1
  <1>4. AnswersOK'
    BY <1>1 DEF Inv, AnswersOK, FinalizeFails
  <1>5. FaultsOK'
    BY Faults DEF Inv, FinalizeFails, FaultsOK
  <1>6. CallsNamed'
    BY <1>1 DEF Inv, CallsNamed, FinalizeFails
  <1>7. FinalizersNamed'
    BY <1>1 DEF Inv, FinalizersNamed, NoFin, FinalizeFails
  <1>8. OwnFinalization'
    BY <1>1 DEF Inv, OwnFinalization, NoFin, Finalizers, FinalizeFails
  <1>9. Spent'
    BY <1>1 DEF Inv, Spent, Committed, FinalizeFails
  <1>10. OneUploadPerToken'
    BY <1>1 DEF Inv, OneUploadPerToken, Committed, FinalizeFails
  <1>11. Staged'
    BY <1>1 DEF Inv, Staged, FinalizeFails
  <1>12. Settled'
    BY <1>1 DEF Inv, Settled, FinalizeFails
  <1> QED  BY <1>2, <1>3, <1>4, <1>5, <1>6, <1>7, <1>8, <1>9, <1>10, <1>11,
      <1>12
      DEF Inv, TokensOK, FilesOK, BlobsOK, ErasersOK, ViewsOK, PassOK,
          QuotaOK, CreditsOK, ErasersNamed, FinalizeFails

LEMMA DeleteStageKeeps ==
    ASSUME Inv, NEW p \in Finalizers, DeleteStage(p)
    PROVE  Inv'
  <1>1. BlobsOK'
    BY DEF Inv, BlobsOK, Keys, FinalizersOK, Finalization, FinalizersNamed,
        DeleteStage
  <1>2. FinalizersOK'
    BY DEF Inv, FinalizersOK, Finalization, DeleteStage
  <1>3. FaultsOK'
    BY Faults DEF Inv, DeleteStage, FaultsOK
  <1>4. FinalizersNamed'
    BY DEF Inv, FinalizersNamed, FinalizersOK, Finalization, DeleteStage
  <1>5. OwnFinalization'
    BY DEF Inv, OwnFinalization, FinalizersOK, Finalization, DeleteStage
  <1>6. Staged'
    BY StorageAssumption DEF Inv, Staged, DeleteStage
  <1> QED  BY <1>1, <1>2, <1>3, <1>4, <1>5, <1>6
      DEF Inv, TokensOK, FilesOK, UploadsOK, ErasersOK, ViewsOK, PassOK,
          QuotaOK, CreditsOK, AnswersOK, CallsNamed, ErasersNamed, Spent,
          Committed, OneUploadPerToken, Settled, DeleteStage

LEMMA SaveActiveKeeps ==
    ASSUME Inv, NEW p \in Finalizers, SaveActive(p)
    PROVE  Inv'
  <1>1. /\ UploadsOK' /\ FinalizersOK' /\ acked' \subseteq Files
        /\ fin'[p] = NoFin
        /\ \A q \in Finalizers : q # p => fin'[q] = fin[q]
        /\ \A a \in Attempts :
             \/ up'[a] = up[a] /\ a # p
             \/ /\ a = p /\ up[a].pc = "finalizing"
                /\ up'[a].pc \in {"stored", "failed"} /\ up'[a].file = up[a].file
    <2>1. PICK ok \in BOOLEAN : fin[p].pc # "idle" /\ FinalizeEnds(p, ok)
      BY DEF SaveActive
    <2>2. UploadsOK /\ FinalizersOK /\ OwnFinalization /\ CallsNamed
          /\ FinalizersNamed /\ acked \subseteq Files
      BY DEF Inv, AnswersOK
    <2> QED  BY <2>1, <2>2, Ends
  <1>2. FilesOK'
    <2> DEFINE row == [status |-> "active", owner |-> fin[p].stage, lapsed |-> FALSE]
    <2>1. row \in FileRow
      BY DEF Inv, FinalizersOK, Finalization, FileRow
    <2>2. file' = file \/ file' = [file EXCEPT ![fin[p].file] = row]
      BY DEF SaveActive
    <2> QED  BY <2>1, <2>2 DEF Inv, FilesOK
  <1>3. UploadsOK'
    BY <1>1
  <1>4. FinalizersOK'
    BY <1>1
  <1>5. AnswersOK'
    BY <1>1 DEF Inv, AnswersOK, SaveActive
  <1>6. FaultsOK'
    BY Faults DEF Inv, SaveActive, FaultsOK
  <1>7. CallsNamed'
    BY <1>1 DEF Inv, CallsNamed, SaveActive
  <1>8. FinalizersNamed'
    BY <1>1 DEF Inv, FinalizersNamed, NoFin, SaveActive
  <1>9. OwnFinalization'
    BY <1>1 DEF Inv, OwnFinalization, NoFin, Finalizers, SaveActive
  <1>10. Spent'
    BY <1>1 DEF Inv, Spent, Committed, SaveActive
  <1>11. OneUploadPerToken'
    BY <1>1 DEF Inv, OneUploadPerToken, Committed, SaveActive
  <1>12. Staged'
    BY <1>1 DEF Inv, Staged, SaveActive
  <1>13. Settled'
    BY <1>1 DEF Inv, Settled, SaveActive
  <1> QED  BY <1>2, <1>3, <1>4, <1>5, <1>6, <1>7, <1>8, <1>9, <1>10, <1>11,
      <1>12, <1>13
      DEF Inv, TokensOK, BlobsOK, ErasersOK, ViewsOK, PassOK, QuotaOK,
          CreditsOK, ErasersNamed, SaveActive

LEMMA MarkFileLostKeeps ==
    ASSUME Inv, NEW p \in Finalizers, MarkFileLost(p)
    PROVE  Inv'
  <1>1. /\ UploadsOK' /\ FinalizersOK' /\ acked' \subseteq Files
        /\ fin'[p] = NoFin
        /\ \A q \in Finalizers : q # p => fin'[q] = fin[q]
        /\ \A a \in Attempts :
             \/ up'[a] = up[a] /\ a # p
             \/ /\ a = p /\ up[a].pc = "finalizing"
                /\ up'[a].pc \in {"stored", "failed"} /\ up'[a].file = up[a].file
    <2>1. PICK ok \in BOOLEAN : fin[p].pc # "idle" /\ FinalizeEnds(p, ok)
      BY DEF MarkFileLost
    <2>2. UploadsOK /\ FinalizersOK /\ OwnFinalization /\ CallsNamed
          /\ FinalizersNamed /\ acked \subseteq Files
      BY DEF Inv, AnswersOK
    <2> QED  BY <2>1, <2>2, Ends
  <1>2. FilesOK'
    <2> DEFINE row == [status |-> "deleted", owner |-> fin[p].stage, lapsed |-> FALSE]
    <2>1. row \in FileRow
      BY DEF Inv, FinalizersOK, Finalization, FileRow
    <2>2. file' = file \/ file' = [file EXCEPT ![fin[p].file] = row]
      BY DEF MarkFileLost
    <2> QED  BY <2>1, <2>2 DEF Inv, FilesOK
  <1>3. UploadsOK'
    BY <1>1
  <1>4. FinalizersOK'
    BY <1>1
  <1>5. CreditsOK'
    BY DEF Inv, CreditsOK, FinalizersNamed, MarkFileLost
  <1>6. AnswersOK'
    BY <1>1 DEF Inv, AnswersOK, MarkFileLost
  <1>7. FaultsOK'
    BY Faults DEF Inv, MarkFileLost, FaultsOK
  <1>8. CallsNamed'
    BY <1>1 DEF Inv, CallsNamed, MarkFileLost
  <1>9. FinalizersNamed'
    BY <1>1 DEF Inv, FinalizersNamed, NoFin, MarkFileLost
  <1>10. OwnFinalization'
    BY <1>1 DEF Inv, OwnFinalization, NoFin, Finalizers, MarkFileLost
  <1>11. Spent'
    BY <1>1 DEF Inv, Spent, Committed, MarkFileLost
  <1>12. OneUploadPerToken'
    BY <1>1 DEF Inv, OneUploadPerToken, Committed, MarkFileLost
  <1>13. Staged'
    BY <1>1 DEF Inv, Staged, MarkFileLost
  <1>14. Settled'
    BY <1>1 DEF Inv, Settled, MarkFileLost
  <1> QED  BY <1>2, <1>3, <1>4, <1>5, <1>6, <1>7, <1>8, <1>9, <1>10, <1>11,
      <1>12, <1>13, <1>14
      DEF Inv, TokensOK, BlobsOK, ErasersOK, ViewsOK, PassOK, QuotaOK,
          ErasersNamed, MarkFileLost

LEMMA DeletePrefixKeeps ==
    ASSUME Inv, NEW p \in Erasers, DeletePrefix(p)
    PROVE  Inv'
  <1>1. BlobsOK'
    BY DEF Inv, BlobsOK, Keys, Blobs, DeletePrefix
  <1>2. ErasersOK'
    <2> DEFINE some == Blobs(era[p].file) # {}
               over == [era[p] EXCEPT !.pc = "save", !.freed = some]
    <2>1. over \in Erasure /\ NoEra \in Erasure
      BY DEF Inv, ErasersOK, Erasure, NoEra
    <2>2. era' = [era EXCEPT ![p] = over] \/ era' = [era EXCEPT ![p] = NoEra]
      BY DEF Inv, ErasersOK, Erasure, DeletePrefix
    <2> QED  BY <2>1, <2>2 DEF Inv, ErasersOK
  <1>3. FaultsOK'
    BY Faults DEF Inv, DeletePrefix, FaultsOK
  <1>4. ErasersNamed'
    BY DEF Inv, ErasersNamed, ErasersOK, Erasure, NoEra, DeletePrefix
  <1>5. Staged'
    BY StorageAssumption DEF Inv, Staged, Blobs, DeletePrefix
  <1> QED  BY <1>1, <1>2, <1>3, <1>4, <1>5
      DEF Inv, TokensOK, FilesOK, UploadsOK, FinalizersOK, ViewsOK, PassOK,
          QuotaOK, CreditsOK, AnswersOK, CallsNamed, FinalizersNamed,
          OwnFinalization, Spent, Committed, OneUploadPerToken, Settled,
          DeletePrefix

LEMMA SaveDeletedKeeps ==
    ASSUME Inv, NEW p \in Erasers, SaveDeleted(p)
    PROVE  Inv'
  <1>1. FilesOK'
    BY DEF Inv, FilesOK, FileRow, ErasersNamed, SaveDeleted
  <1>2. ErasersOK'
    BY DEF Inv, ErasersOK, Erasure, NoEra, SaveDeleted
  <1>3. CreditsOK'
    BY DEF Inv, CreditsOK, ErasersNamed, SaveDeleted
  <1>4. FaultsOK'
    BY Faults DEF Inv, SaveDeleted, FaultsOK
  <1>5. ErasersNamed'
    BY DEF Inv, ErasersNamed, ErasersOK, Erasure, NoEra, SaveDeleted
  <1> QED  BY <1>1, <1>2, <1>3, <1>4, <1>5
      DEF Inv, TokensOK, BlobsOK, UploadsOK, FinalizersOK, ViewsOK, PassOK,
          QuotaOK, AnswersOK, CallsNamed, FinalizersNamed, OwnFinalization,
          Spent, Committed, OneUploadPerToken, Staged, Settled, SaveDeleted

LEMMA ListUploadingKeeps ==
    ASSUME Inv, ListUploading
    PROVE  Inv'
  <1>1. PassOK'
    BY DEF Inv, PassOK, Pass, Keys, FilesOK, FileRow, Listed, ListUploading,
        BeginPhase
  <1> QED  BY <1>1
      DEF Inv, TokensOK, FilesOK, BlobsOK, UploadsOK, FinalizersOK, ErasersOK,
          ViewsOK, QuotaOK, CreditsOK, AnswersOK, FaultsOK, CallsNamed,
          FinalizersNamed, OwnFinalization, ErasersNamed, Spent, Committed,
          OneUploadPerToken, Staged, Settled, ListUploading

LEMMA ListStagedKeeps ==
    ASSUME Inv, ListStaged
    PROVE  Inv'
  <1>1. PassOK'
    BY DEF Inv, PassOK, Pass, Keys, FilesOK, FileRow, Listed, ListStaged,
        BeginPhase
  <1> QED  BY <1>1
      DEF Inv, TokensOK, FilesOK, BlobsOK, UploadsOK, FinalizersOK, ErasersOK,
          ViewsOK, QuotaOK, CreditsOK, AnswersOK, FaultsOK, CallsNamed,
          FinalizersNamed, OwnFinalization, ErasersNamed, Spent, Committed,
          OneUploadPerToken, Staged, Settled, ListStaged

LEMMA ListDeletingKeeps ==
    ASSUME Inv, ListDeleting
    PROVE  Inv'
  <1>1. PassOK'
    BY DEF Inv, PassOK, Pass, Keys, FilesOK, FileRow, Listed, ListDeleting,
        BeginPhase
  <1> QED  BY <1>1
      DEF Inv, TokensOK, FilesOK, BlobsOK, UploadsOK, FinalizersOK, ErasersOK,
          ViewsOK, QuotaOK, CreditsOK, AnswersOK, FaultsOK, CallsNamed,
          FinalizersNamed, OwnFinalization, ErasersNamed, Spent, Committed,
          OneUploadPerToken, Staged, Settled, ListDeleting

LEMMA ListObjectsKeeps ==
    ASSUME Inv, ListObjects
    PROVE  Inv'
  <1>1. TokensOK'
    BY DEF Inv, TokensOK, TokenRow, NoToken, ListObjects
  <1>2. PassOK'
    BY DEF Inv, PassOK, Pass, Keys, BlobsOK, ListObjects
  <1>3. Spent'
    BY DEF Inv, Spent, CallsNamed, TokensOK, TokenRow, Committed, NoToken,
        ListObjects
  <1> QED  BY <1>1, <1>2, <1>3
      DEF Inv, FilesOK, BlobsOK, UploadsOK, FinalizersOK, ErasersOK, ViewsOK,
          QuotaOK, CreditsOK, AnswersOK, FaultsOK, CallsNamed,
          FinalizersNamed, OwnFinalization, ErasersNamed, OneUploadPerToken,
          Committed, Staged, Settled, ListObjects

LEMMA EndPassKeeps ==
    ASSUME Inv, EndPass
    PROVE  Inv'
  <1>1. PassOK'
    BY DEF Inv, PassOK, Pass, Keys, NoPass, EndPass
  <1> QED  BY <1>1
      DEF Inv, TokensOK, FilesOK, BlobsOK, UploadsOK, FinalizersOK, ErasersOK,
          ViewsOK, QuotaOK, CreditsOK, AnswersOK, FaultsOK, CallsNamed,
          FinalizersNamed, OwnFinalization, ErasersNamed, Spent, Committed,
          OneUploadPerToken, Staged, Settled, EndPass

LEMMA RemoveOrphanKeeps ==
    ASSUME Inv, RemoveOrphan
    PROVE  Inv'
  <1>1. BlobsOK'
    BY DEF Inv, BlobsOK, Keys, RemoveOrphan
  <1>2. PassOK'
    BY DEF Inv, PassOK, Pass, Keys, RemoveOrphan
  <1>3. FaultsOK'
    BY Faults DEF Inv, RemoveOrphan, FaultsOK
  <1>4. Staged'
    BY StorageAssumption DEF Inv, Staged, RemoveOrphan
  <1> QED  BY <1>1, <1>2, <1>3, <1>4
      DEF Inv, TokensOK, FilesOK, UploadsOK, FinalizersOK, ErasersOK, ViewsOK,
          QuotaOK, CreditsOK, AnswersOK, CallsNamed, FinalizersNamed,
          OwnFinalization, ErasersNamed, Spent, Committed, OneUploadPerToken,
          Settled, RemoveOrphan

LEMMA CrashKeeps ==
    ASSUME Inv, Crash
    PROVE  Inv'
  <1>1. UploadsOK'
    BY DEF Inv, UploadsOK, Upload, Crash
  <1>2. FinalizersOK'
    BY DEF Inv, FinalizersOK, Finalization, NoFin, Crash
  <1>3. ErasersOK'
    BY DEF Inv, ErasersOK, Erasure, NoEra, Crash
  <1>4. ViewsOK'
    BY DEF Inv, ViewsOK, Crash
  <1>5. PassOK'
    BY DEF Inv, PassOK, Pass, Keys, NoPass, Crash
  <1>6. FaultsOK'
    BY Faults DEF Inv, Crash, FaultsOK
  <1>7. CallsNamed'
    BY DEF Inv, CallsNamed, UploadsOK, Upload, Crash
  <1>8. FinalizersNamed'
    BY DEF Inv, FinalizersNamed, FinalizersOK, Finalization, NoFin, Crash
  <1>9. OwnFinalization'
    BY DEF Inv, OwnFinalization, FinalizersOK, Finalization, Finalizers,
        NoFin, Crash
  <1>10. ErasersNamed'
    BY DEF Inv, ErasersNamed, ErasersOK, Erasure, NoEra, Crash
  <1>11. Spent'
    BY DEF Inv, Spent, CallsNamed, TokensOK, TokenRow, Committed, Crash
  <1>12. OneUploadPerToken'
    BY DEF Inv, OneUploadPerToken, UploadsOK, Upload, Committed, Crash
  <1>13. Staged'
    BY StorageAssumption DEF Inv, Staged, Crash
  <1>14. Settled'
    BY DEF Inv, Settled, Crash
  <1> QED  BY <1>1, <1>2, <1>3, <1>4, <1>5, <1>6, <1>7, <1>8, <1>9, <1>10,
      <1>11, <1>12, <1>13, <1>14
      DEF Inv, TokensOK, FilesOK, BlobsOK, QuotaOK, CreditsOK, AnswersOK,
          Crash

LEMMA RecoverUploadingKeeps ==
    ASSUME Inv, NEW f \in Files, RecoverUploading(f)
    PROVE  Inv'
  <1>1. FilesOK'
    <2>1. NoFile \in FileRow
      BY DEF NoFile, FileRow
    <2>2. file' = file \/ file' = [file EXCEPT ![f] = NoFile]
      BY DEF RecoverUploading
    <2> QED  BY <2>1, <2>2 DEF Inv, FilesOK
  <1>2. BlobsOK'
    BY DEF Inv, BlobsOK, Keys, RecoverUploading
  <1>3. PassOK'
    BY DEF Inv, PassOK, Pass, Keys, RecoverUploading
  <1>4. FaultsOK'
    BY Faults DEF Inv, RecoverUploading, FaultsOK
  <1>5. Staged'
    BY StorageAssumption DEF Inv, Staged, RecoverUploading
  <1> QED  BY <1>1, <1>2, <1>3, <1>4, <1>5
      DEF Inv, TokensOK, UploadsOK, FinalizersOK, ErasersOK, ViewsOK, QuotaOK,
          CreditsOK, AnswersOK, CallsNamed, FinalizersNamed, OwnFinalization,
          ErasersNamed, Spent, Committed, OneUploadPerToken, Settled,
          RecoverUploading

LEMMA RecoverStagedKeeps ==
    ASSUME Inv, NEW f \in Files, RecoverStaged(f)
    PROVE  Inv'
  <1>1. FinalizersOK'
    BY StorageAssumption DEF Inv, FinalizersOK, Finalization, PassOK, Pass,
        Finalizers, RecoverStaged
  <1>2. PassOK'
    BY DEF Inv, PassOK, Pass, Keys, RecoverStaged
  <1>3. FinalizersNamed'
    BY StorageAssumption DEF Inv, FinalizersNamed, FinalizersOK, Finalization,
        PassOK, Pass, RecoverStaged
  <1>4. OwnFinalization'
    BY StorageAssumption DEF Inv, OwnFinalization, FinalizersOK, Finalization,
        Finalizers, RecoverStaged
  <1> QED  BY <1>1, <1>2, <1>3, <1>4
      DEF Inv, TokensOK, FilesOK, BlobsOK, UploadsOK, ErasersOK, ViewsOK,
          QuotaOK, CreditsOK, AnswersOK, FaultsOK, CallsNamed, ErasersNamed,
          Spent, Committed, OneUploadPerToken, Staged, Settled, RecoverStaged

LEMMA RecoverDeletingKeeps ==
    ASSUME Inv, NEW f \in Files, RecoverDeleting(f)
    PROVE  Inv'
  <1>1. ErasersOK'
    BY StorageAssumption DEF Inv, ErasersOK, Erasure, PassOK, Pass, Erasers,
        RecoverDeleting
  <1>2. PassOK'
    BY DEF Inv, PassOK, Pass, Keys, RecoverDeleting
  <1>3. ErasersNamed'
    BY StorageAssumption DEF Inv, ErasersNamed, ErasersOK, Erasure, PassOK,
        Pass, RecoverDeleting
  <1> QED  BY <1>1, <1>2, <1>3
      DEF Inv, TokensOK, FilesOK, BlobsOK, UploadsOK, FinalizersOK, ViewsOK,
          QuotaOK, CreditsOK, AnswersOK, FaultsOK, CallsNamed,
          FinalizersNamed, OwnFinalization, Spent, Committed,
          OneUploadPerToken, Staged, Settled, RecoverDeleting

LEMMA JudgeObjectKeeps ==
    ASSUME Inv, NEW k \in Keys, JudgeObject(k)
    PROVE  Inv'
  <1>1. PassOK'
    BY DEF Inv, PassOK, Pass, Keys, JudgeObject
  <1> QED  BY <1>1
      DEF Inv, TokensOK, FilesOK, BlobsOK, UploadsOK, FinalizersOK, ErasersOK,
          ViewsOK, QuotaOK, CreditsOK, AnswersOK, FaultsOK, CallsNamed,
          FinalizersNamed, OwnFinalization, ErasersNamed, Spent, Committed,
          OneUploadPerToken, Staged, Settled, JudgeObject

----------------------------------------------------------------------------
(* The invariant holds, and what it implies                                *)

(* Every step of the specification keeps the invariant.                     *)
LEMMA Start == Init => Inv
  <1> SUFFICES ASSUME Init PROVE Inv
    OBVIOUS
  <1>1. NoToken \in TokenRow /\ NoFile \in FileRow /\ NoUpload \in Upload
        /\ NoFin \in Finalization /\ NoEra \in Erasure /\ NoPass \in Pass
    BY DEF NoToken, NoFile, NoUpload, NoFin, NoEra, NoPass, TokenRow, FileRow,
        Upload, Finalization, Erasure, Pass
  <1>2. TokensOK /\ FilesOK /\ UploadsOK /\ FinalizersOK /\ ErasersOK /\ PassOK
    BY <1>1 DEF Init, TokensOK, FilesOK, UploadsOK, FinalizersOK, ErasersOK,
        PassOK
  <1>3. BlobsOK /\ ViewsOK /\ QuotaOK /\ CreditsOK /\ AnswersOK /\ FaultsOK
    BY StorageAssumption DEF Init, BlobsOK, ViewsOK, QuotaOK, CreditsOK,
        AnswersOK, FaultsOK
  <1>4. CallsNamed /\ FinalizersNamed /\ OwnFinalization /\ ErasersNamed
    BY DEF Init, CallsNamed, FinalizersNamed, OwnFinalization, ErasersNamed,
        NoUpload, NoFin, NoEra, Finalizers
  <1>5. Spent /\ OneUploadPerToken /\ Staged /\ Settled
    BY DEF Init, Spent, OneUploadPerToken, Staged, Settled, Committed, NoUpload
  <1> QED  BY <1>2, <1>3, <1>4, <1>5 DEF Inv

LEMMA Steps == Inv /\ [Next]_vars => Inv'
  <1> SUFFICES ASSUME Inv, [Next]_vars PROVE Inv'
    OBVIOUS
  <1>1. CASE UNCHANGED vars
    BY <1>1 DEF Inv, TokensOK, FilesOK, BlobsOK, UploadsOK, FinalizersOK,
        ErasersOK, ViewsOK, PassOK, QuotaOK, CreditsOK, AnswersOK, FaultsOK,
        CallsNamed, FinalizersNamed, OwnFinalization, ErasersNamed, Spent,
        OneUploadPerToken, Committed, Staged, Settled, vars
  <1>2. ASSUME NEW f \in Files,
               \/ GenerateUploadURL(f) \/ Delete(f) \/ EncodeThumb(f)
               \/ ThumbStep(f) \/ TimeStep(f)
        PROVE  Inv'
    BY <1>2, GenerateUploadURLKeeps, DeleteKeeps, EncodeThumbKeeps,
        PersistThumbKeeps, RecheckThumbKeeps, LeaseLapsesKeeps,
        ClaimLapsesKeeps, TokenExpiresKeeps
       DEF ThumbStep, TimeStep
  <1>3. ASSUME NEW a \in Attempts, UploadStep(a) PROVE Inv'
    BY <1>3, ClaimTokenKeeps, ReserveUploadKeeps, RefuseUploadKeeps,
        ReserveQuotaKeeps, GiveUpEarlyKeeps, RenewLeaseKeeps,
        PersistStagedBlobKeeps, PersistFailsKeeps, RejectStoredKeeps,
        CommitUploadKeeps, CommitFailsKeeps, SettleQuotaKeeps
       DEF UploadStep
  <1>4. ASSUME NEW p \in Finalizers, FinalizeStep(p) PROVE Inv'
    BY <1>4, FinalExistsKeeps, CopyToFinalKeeps, FinalizeFailsKeeps,
        DeleteStageKeeps, SaveActiveKeeps, MarkFileLostKeeps
       DEF FinalizeStep
  <1>5. ASSUME NEW p \in Erasers, EraseStep(p) PROVE Inv'
    BY <1>5, DeletePrefixKeeps, SaveDeletedKeeps DEF EraseStep
  <1>6. CASE CleanerStep
    BY <1>6, ListUploadingKeeps, ListStagedKeeps, ListDeletingKeeps,
        ListObjectsKeeps, EndPassKeeps, RecoverUploadingKeeps,
        RecoverStagedKeeps, RecoverDeletingKeeps, JudgeObjectKeeps,
        RemoveOrphanKeeps
       DEF CleanerStep
  <1>7. CASE Crash
    BY <1>7, CrashKeeps
  <1> QED  BY <1>1, <1>2, <1>3, <1>4, <1>5, <1>6, <1>7 DEF Next

(* At all times: types, the calls and what they work on, spent tokens, one  *)
(* committed upload per token, stages and their reservations.              *)
THEOREM Invariance == Spec => []Inv
  BY Start, Steps, PTL DEF Spec

(* TypeOK: every variable of the storage service keeps its type, for any    *)
(* number of files, attempts and faults.                                   *)
THEOREM TypeCorrect == Spec => []TypeOK
  <1>1. Inv => TypeOK
    BY DEF Inv, TypeOK, TokensOK, FilesOK, BlobsOK, UploadsOK, FinalizersOK,
        ErasersOK, ViewsOK, PassOK, QuotaOK, CreditsOK, AnswersOK, FaultsOK,
        TokenRow, FileRow, Upload, Finalization, Erasure, Pass
  <1> QED  BY <1>1, Invariance, PTL

(* However claims lapse and are taken over while uploads are under way, at  *)
(* most one attempt per token gets its upload committed.                   *)
THEOREM OneUploadTheorem == Spec => []OneUploadPerToken
  <1>1. Inv => OneUploadPerToken
    BY DEF Inv
  <1> QED  BY <1>1, Invariance, PTL

(* The host never gets bytes back that are still in the object store,       *)
(* whatever writes, refunds and deletions are lost.                        *)
THEOREM NeverUndercountedTheorem == Spec => []NeverUndercounted
  <1>1. Inv => NeverUndercounted
    BY DEF Inv, Staged, NeverUndercounted
  <1> QED  BY <1>1, Invariance, PTL

(* A reservation whose lease is in force ends by its own attempt's hand     *)
(* only: the cleanup never reclaims it.                                    *)
THEOREM OnlyLapsedTheorem == Spec => OnlyLapsedReclaimed
  <1> DEFINE Owned == \A f \in Files :
               file[f].status = "uploading" /\ ~file[f].lapsed /\ file'[f].status = "absent"
                 => up[file[f].owner].pc # up'[file[f].owner].pc
  <1>1. Inv /\ [Next]_vars => Owned
    <2> SUFFICES ASSUME Inv, [Next]_vars, NEW f \in Files,
                        file[f].status = "uploading", ~file[f].lapsed,
                        file'[f].status = "absent"
                 PROVE  up[file[f].owner].pc # up'[file[f].owner].pc
      OBVIOUS
    <2>1. PICK a \in Attempts :
             GiveUpEarly(a) \/ PersistFails(a) \/ RejectStored(a) \/ CommitFails(a)
      <3>1. ASSUME NEW a \in Attempts, ReserveUpload(a) PROVE FALSE
        BY <3>1 DEF Inv, FilesOK, FileRow, CallsNamed, At, ReserveUpload
      <3>2. ASSUME NEW a \in Attempts,
                   RenewLease(a) \/ CommitUpload(a)
            PROVE  FALSE
        BY <3>2 DEF Inv, FilesOK, FileRow, RenewLease, CommitUpload, OwnsRow, At
      <3>3. ASSUME NEW a \in Attempts,
                   \/ \E g \in Files : ClaimToken(a, g)
                   \/ RefuseUpload(a) \/ ReserveQuota(a) \/ PersistStagedBlob(a)
                   \/ SettleQuota(a)
            PROVE  FALSE
        BY <3>3 DEF ClaimToken, RefuseUpload, ReserveQuota, PersistStagedBlob,
            SettleQuota
      <3>4. ASSUME NEW g \in Files, Delete(g) \/ LeaseLapses(g) PROVE FALSE
        BY <3>4 DEF Inv, FilesOK, FileRow, Delete, LeaseLapses
      <3>5. ASSUME NEW g \in Files,
                   \/ GenerateUploadURL(g) \/ EncodeThumb(g) \/ ThumbStep(g)
                   \/ ClaimLapses(g) \/ TokenExpires(g)
            PROVE  FALSE
        BY <3>5 DEF GenerateUploadURL, EncodeThumb, ThumbStep, PersistThumb,
            RecheckThumb, ClaimLapses, TokenExpires
      <3>6. ASSUME NEW p \in Finalizers, FinalizeStep(p) PROVE FALSE
        <4>1. file' = file \/ \E row : /\ row.status # "absent"
                                     /\ file' = [file EXCEPT ![fin[p].file] = row]
          BY <3>6 DEF FinalizeStep, FinalExists, CopyToFinal, FinalizeFails,
              DeleteStage, SaveActive, MarkFileLost
        <4> QED  BY <4>1 DEF Inv, FilesOK
      <3>7. ASSUME NEW p \in Erasers, EraseStep(p) PROVE FALSE
        BY <3>7 DEF Inv, FilesOK, FileRow, EraseStep, DeletePrefix, SaveDeleted
      <3>8. ASSUME CleanerStep PROVE FALSE
        <4>1. ASSUME NEW g \in Files, RecoverUploading(g) PROVE FALSE
          BY <4>1 DEF Inv, FilesOK, FileRow, RecoverUploading, Reclaimable
        <4> QED  BY <3>8, <4>1 DEF CleanerStep, ListUploading, ListStaged,
                ListDeleting, ListObjects, EndPass, RecoverStaged,
                RecoverDeleting, JudgeObject, RemoveOrphan
      <3>9. ~Crash /\ ~(UNCHANGED vars)
        BY DEF Crash, vars
      <3> QED  BY <3>1, <3>2, <3>3, <3>4, <3>5, <3>6, <3>7, <3>8, <3>9
               DEF Next, UploadStep, TimeStep
    <2>2. up[a].file \in Files /\ up[a].pc # "failed" /\ MoveTo(a, "failed")
          /\ \E lost : file' = Released(a, lost)
      BY <2>1 DEF Inv, CallsNamed, At, GiveUpEarly, PersistFails, RejectStored,
          CommitFails
    <2>3. OwnsRow(a) /\ f = up[a].file
      BY <2>2, Releases DEF Inv
    <2>4. up'[a].pc = "failed"
      BY <2>2, Moves DEF Inv
    <2> QED  BY <2>2, <2>3, <2>4 DEF OwnsRow
  <1> QED  BY <1>1, Invariance, PTL DEF Spec, OnlyLapsedReclaimed

----------------------------------------------------------------------------
(* What the overlap of a cleanup pass with an upload that finalizes would   *)
(* break: with Overlap = FALSE, finalizing is serial                       *)

Final(f) == <<f, "final">> \in blobs
Lasting(f) == file[f].status \in {"staged", "active", "deleting", "deleted"}

(* One finalization per file: the cleaner's phase of staged rows meets no   *)
(* committed upload, and whoever finalizes works on a staged row.          *)
PhaseQuiet == cl.phase = "staged" =>
    \A a \in Attempts : up[a].pc \notin {"committed", "finalizing"}
CleanerSole == fin[Cleaner].pc # "idle" =>
    /\ cl.phase = "staged" /\ fin[Cleaner].file \notin cl.todo
    /\ file[fin[Cleaner].file].status = "staged"
CommittedStaged == \A a \in Attempts :
    up[a].pc \in {"committed", "finalizing"} => file[up[a].file].status = "staged"
TodoStaged == cl.phase = "staged" => \A f \in cl.todo : file[f].status = "staged"

(* Only what Delete marked is erased.                                       *)
AskedRows == \A f \in requested : file[f].status \in {"deleting", "deleted"}
ErasersAsked == \A p \in Erasers : era[p].pc # "idle" => era[p].file \in requested
TodoAsked == cl.phase = "deleting" => cl.todo \subseteq requested
DeletingAsked == \A f \in Files : file[f].status = "deleting" => f \in requested

(* The original of a file exists from its copy until its deletion.          *)
FinalRows == \A f \in Files : Final(f) => Lasting(f)
ActiveFinal == \A f \in Files : file[f].status = "active" => Final(f)
CopiedFinal == \A p \in Finalizers :
    fin[p].pc \in {"unstage", "save"} => Final(fin[p].file)
ObjectRows == \A f \in Files : <<f, "final">> \in cl.objs => Lasting(f)
OrphanFinal == \A f \in Files :
    cl.cur = <<f, "final">> => file[f].status = "deleted"
AckedActive == \A f \in acked \ requested : file[f].status = "active"

(* A report to the host follows the end of the bytes it is about.           *)
UncopiedFinal == \A p \in Finalizers :
    fin[p].pc \in {"copy", "lost"} => ~Final(fin[p].file)
ErasedFinal == \A p \in Erasers : era[p].pc = "save" => ~Final(era[p].file)
CreditedGone == \A f \in Files :
    credits[f] # {} => file[f].status = "deleted" /\ ~Final(f)
CreditedOnce == \A f \in Files : credits[f] \in {{}, {"delete"}, {"lost"}}
AskedNotLost == \A f \in requested : "lost" \notin credits[f]

Serial ==
    /\ PhaseQuiet /\ CleanerSole /\ CommittedStaged /\ TodoStaged
    /\ AskedRows /\ ErasersAsked /\ TodoAsked /\ DeletingAsked
    /\ FinalRows /\ ActiveFinal /\ CopiedFinal /\ ObjectRows /\ OrphanFinal
    /\ AckedActive
    /\ UncopiedFinal /\ ErasedFinal /\ CreditedGone /\ CreditedOnce
    /\ AskedNotLost

(* Whoever finalizes a file does so alone.                                  *)
LEMMA Sole ==
    ASSUME Inv, Serial, NEW p \in Finalizers, fin[p].pc # "idle"
    PROVE  /\ fin[p].file \in Files /\ file[fin[p].file].status = "staged"
           /\ \A q \in Finalizers : q # p /\ fin[q].pc # "idle"
                => fin[q].file # fin[p].file
           /\ \A a \in Attempts : a # p /\ up[a].pc \in {"committed", "finalizing"}
                => up[a].file # fin[p].file
           /\ cl.phase = "staged" => fin[p].file \notin cl.todo
  <1>1. fin[p].file \in Files
    BY DEF Inv, FinalizersNamed
  <1>2. CASE p = Cleaner
    <2>1. cl.phase = "staged" /\ fin[p].file \notin cl.todo
          /\ file[fin[p].file].status = "staged"
      BY <1>2 DEF Serial, CleanerSole
    <2>2. \A a \in Attempts : up[a].pc \notin {"committed", "finalizing"}
      BY <2>1 DEF Serial, PhaseQuiet
    <2>3. \A a \in Attempts : fin[a].pc = "idle"
      BY <2>2 DEF Inv, OwnFinalization
    <2> QED  BY <1>1, <1>2, <2>1, <2>2, <2>3 DEF Finalizers
  <1>3. CASE p # Cleaner
    <2>1. p \in Attempts /\ up[p].pc = "finalizing" /\ fin[p].file = up[p].file
      BY <1>3 DEF Finalizers, Inv, OwnFinalization
    <2>2. file[fin[p].file].status = "staged"
      BY <2>1 DEF Serial, CommittedStaged
    <2>3. cl.phase # "staged"
      BY <2>1 DEF Serial, PhaseQuiet
    <2>4. fin[Cleaner].pc = "idle"
      BY <2>3 DEF Serial, CleanerSole
    <2>5. \A a \in Attempts : a # p /\ up[a].pc \in {"committed", "finalizing"}
            => up[a].file # up[p].file
      BY <2>1 DEF Inv, OneUploadPerToken, Committed
    <2>6. \A q \in Finalizers : q # p /\ fin[q].pc # "idle" => fin[q].file # fin[p].file
      BY <2>1, <2>4, <2>5 DEF Inv, OwnFinalization, Finalizers
    <2> QED  BY <1>1, <2>1, <2>2, <2>3, <2>5, <2>6
  <1> QED  BY <1>2, <1>3

(* A step that moves no row past its upload, no original and no commit.     *)
Early == {"absent", "uploading"}
LEMMA QuietSteps ==
    ASSUME Inv, Serial,
           \A f \in Files : \/ file'[f].status = file[f].status
                            \/ file[f].status \in Early /\ file'[f].status \in Early,
           \A f \in Files : (<<f, "final">> \in blobs') <=> (<<f, "final">> \in blobs),
           \A a \in Attempts : up'[a].pc \in {"committed", "finalizing"}
             => up[a].pc \in {"committed", "finalizing"} /\ up'[a].file = up[a].file,
           UNCHANGED <<fin, era, cl, credits, acked, requested>>
    PROVE  Serial'
  <1>2. PhaseQuiet'
    BY DEF Serial, PhaseQuiet
  <1>3. CleanerSole'
    BY DEF Serial, CleanerSole, Inv, FinalizersNamed, Finalizers, Early
  <1>4. CommittedStaged'
    BY DEF Serial, CommittedStaged, Inv, CallsNamed, Early
  <1>5. TodoStaged'
    BY DEF Serial, TodoStaged, Inv, PassOK, Pass, Early
  <1>6. AskedRows'
    BY DEF Serial, AskedRows, Inv, AnswersOK, Early
  <1>7. ErasersAsked'
    BY DEF Serial, ErasersAsked
  <1>8. TodoAsked'
    BY DEF Serial, TodoAsked
  <1>9. DeletingAsked'
    BY DEF Serial, DeletingAsked, Early
  <1>10. FinalRows'
    BY DEF Serial, FinalRows, Final, Lasting, Early
  <1>11. ActiveFinal'
    BY DEF Serial, ActiveFinal, Final, Early
  <1>12. CopiedFinal'
    BY DEF Serial, CopiedFinal, Final, Inv, FinalizersNamed
  <1>13. ObjectRows'
    BY DEF Serial, ObjectRows, Lasting, Early
  <1>14. OrphanFinal'
    BY DEF Serial, OrphanFinal, Early
  <1>15. AckedActive'
    BY DEF Serial, AckedActive, Inv, AnswersOK, Early
  <1>16. UncopiedFinal'
    BY DEF Serial, UncopiedFinal, Final, Inv, FinalizersNamed
  <1>17. ErasedFinal'
    BY DEF Serial, ErasedFinal, Final, Inv, ErasersNamed
  <1>18. CreditedGone'
    BY DEF Serial, CreditedGone, Final, Early
  <1>19. CreditedOnce'
    BY DEF Serial, CreditedOnce
  <1>20. AskedNotLost'
    BY DEF Serial, AskedNotLost
  <1> QED  BY <1>2, <1>3, <1>4, <1>5, <1>6, <1>7, <1>8, <1>9, <1>10, <1>11,
      <1>12, <1>13, <1>14, <1>15, <1>16, <1>17, <1>18, <1>19, <1>20 DEF Serial

----------------------------------------------------------------------------
(* The actions that finalize, commit, delete or clean nothing are quiet    *)

LEMMA GenerateUploadURLSerial ==
    ASSUME Inv, Serial, NEW f \in Files, GenerateUploadURL(f)
    PROVE  Serial'
  <1>1. \A g \in Files :
          \/ file'[g].status = file[g].status
          \/ file[g].status \in Early /\ file'[g].status \in Early
    BY DEF GenerateUploadURL
  <1>2. \A g \in Files : (<<g, "final">> \in blobs') <=> (<<g, "final">> \in blobs)
    BY DEF GenerateUploadURL
  <1>3. \A b \in Attempts : up'[b].pc \in {"committed", "finalizing"}
          => up[b].pc \in {"committed", "finalizing"} /\ up'[b].file = up[b].file
    BY DEF GenerateUploadURL
  <1> QED  BY <1>1, <1>2, <1>3, QuietSteps DEF GenerateUploadURL

LEMMA EncodeThumbSerial ==
    ASSUME Inv, Serial, NEW f \in Files, EncodeThumb(f)
    PROVE  Serial'
  <1>1. \A g \in Files :
          \/ file'[g].status = file[g].status
          \/ file[g].status \in Early /\ file'[g].status \in Early
    BY DEF EncodeThumb
  <1>2. \A g \in Files : (<<g, "final">> \in blobs') <=> (<<g, "final">> \in blobs)
    BY DEF EncodeThumb
  <1>3. \A b \in Attempts : up'[b].pc \in {"committed", "finalizing"}
          => up[b].pc \in {"committed", "finalizing"} /\ up'[b].file = up[b].file
    BY DEF EncodeThumb
  <1> QED  BY <1>1, <1>2, <1>3, QuietSteps DEF EncodeThumb

LEMMA PersistThumbSerial ==
    ASSUME Inv, Serial, NEW f \in Files, PersistThumb(f)
    PROVE  Serial'
  <1>1. \A g \in Files :
          \/ file'[g].status = file[g].status
          \/ file[g].status \in Early /\ file'[g].status \in Early
    BY DEF PersistThumb
  <1>2. \A g \in Files : (<<g, "final">> \in blobs') <=> (<<g, "final">> \in blobs)
    BY StorageAssumption DEF PersistThumb
  <1>3. \A b \in Attempts : up'[b].pc \in {"committed", "finalizing"}
          => up[b].pc \in {"committed", "finalizing"} /\ up'[b].file = up[b].file
    BY DEF PersistThumb
  <1> QED  BY <1>1, <1>2, <1>3, QuietSteps DEF PersistThumb

LEMMA RecheckThumbSerial ==
    ASSUME Inv, Serial, NEW f \in Files, RecheckThumb(f)
    PROVE  Serial'
  <1>1. \A g \in Files :
          \/ file'[g].status = file[g].status
          \/ file[g].status \in Early /\ file'[g].status \in Early
    BY DEF RecheckThumb
  <1>2. \A g \in Files : (<<g, "final">> \in blobs') <=> (<<g, "final">> \in blobs)
    BY StorageAssumption DEF RecheckThumb
  <1>3. \A b \in Attempts : up'[b].pc \in {"committed", "finalizing"}
          => up[b].pc \in {"committed", "finalizing"} /\ up'[b].file = up[b].file
    BY DEF RecheckThumb
  <1> QED  BY <1>1, <1>2, <1>3, QuietSteps DEF RecheckThumb

LEMMA LeaseLapsesSerial ==
    ASSUME Inv, Serial, NEW f \in Files, LeaseLapses(f)
    PROVE  Serial'
  <1>1. \A g \in Files :
          \/ file'[g].status = file[g].status
          \/ file[g].status \in Early /\ file'[g].status \in Early
    BY DEF Inv, FilesOK, FileRow, Early, LeaseLapses
  <1>2. \A g \in Files : (<<g, "final">> \in blobs') <=> (<<g, "final">> \in blobs)
    BY DEF LeaseLapses
  <1>3. \A b \in Attempts : up'[b].pc \in {"committed", "finalizing"}
          => up[b].pc \in {"committed", "finalizing"} /\ up'[b].file = up[b].file
    BY DEF LeaseLapses
  <1> QED  BY <1>1, <1>2, <1>3, QuietSteps DEF LeaseLapses

LEMMA ClaimLapsesSerial ==
    ASSUME Inv, Serial, NEW f \in Files, ClaimLapses(f)
    PROVE  Serial'
  <1>1. \A g \in Files :
          \/ file'[g].status = file[g].status
          \/ file[g].status \in Early /\ file'[g].status \in Early
    BY DEF ClaimLapses
  <1>2. \A g \in Files : (<<g, "final">> \in blobs') <=> (<<g, "final">> \in blobs)
    BY DEF ClaimLapses
  <1>3. \A b \in Attempts : up'[b].pc \in {"committed", "finalizing"}
          => up[b].pc \in {"committed", "finalizing"} /\ up'[b].file = up[b].file
    BY DEF ClaimLapses
  <1> QED  BY <1>1, <1>2, <1>3, QuietSteps DEF ClaimLapses

LEMMA TokenExpiresSerial ==
    ASSUME Inv, Serial, NEW f \in Files, TokenExpires(f)
    PROVE  Serial'
  <1>1. \A g \in Files :
          \/ file'[g].status = file[g].status
          \/ file[g].status \in Early /\ file'[g].status \in Early
    BY DEF TokenExpires
  <1>2. \A g \in Files : (<<g, "final">> \in blobs') <=> (<<g, "final">> \in blobs)
    BY DEF TokenExpires
  <1>3. \A b \in Attempts : up'[b].pc \in {"committed", "finalizing"}
          => up[b].pc \in {"committed", "finalizing"} /\ up'[b].file = up[b].file
    BY DEF TokenExpires
  <1> QED  BY <1>1, <1>2, <1>3, QuietSteps DEF TokenExpires

LEMMA ClaimTokenSerial ==
    ASSUME Inv, Serial, NEW a \in Attempts, NEW f \in Files, ClaimToken(a, f)
    PROVE  Serial'
  <1>1. \A g \in Files :
          \/ file'[g].status = file[g].status
          \/ file[g].status \in Early /\ file'[g].status \in Early
    BY DEF ClaimToken
  <1>2. \A g \in Files : (<<g, "final">> \in blobs') <=> (<<g, "final">> \in blobs)
    BY DEF ClaimToken
  <1>3. \A b \in Attempts : up'[b].pc \in {"committed", "finalizing"}
          => up[b].pc \in {"committed", "finalizing"} /\ up'[b].file = up[b].file
    BY DEF Inv, UploadsOK, Upload, ClaimToken
  <1> QED  BY <1>1, <1>2, <1>3, QuietSteps DEF ClaimToken

LEMMA ReserveUploadSerial ==
    ASSUME Inv, Serial, NEW a \in Attempts, ReserveUpload(a)
    PROVE  Serial'
  <1>1. \A g \in Files :
          \/ file'[g].status = file[g].status
          \/ file[g].status \in Early /\ file'[g].status \in Early
    BY DEF Inv, FilesOK, CallsNamed, At, Early, ReserveUpload
  <1>2. \A g \in Files : (<<g, "final">> \in blobs') <=> (<<g, "final">> \in blobs)
    BY DEF ReserveUpload
  <1>3. \A b \in Attempts : up'[b].pc \in {"committed", "finalizing"}
          => up[b].pc \in {"committed", "finalizing"} /\ up'[b].file = up[b].file
    BY Moves DEF Inv, ReserveUpload
  <1> QED  BY <1>1, <1>2, <1>3, QuietSteps DEF ReserveUpload

LEMMA RefuseUploadSerial ==
    ASSUME Inv, Serial, NEW a \in Attempts, RefuseUpload(a)
    PROVE  Serial'
  <1>1. \A g \in Files :
          \/ file'[g].status = file[g].status
          \/ file[g].status \in Early /\ file'[g].status \in Early
    BY DEF RefuseUpload
  <1>2. \A g \in Files : (<<g, "final">> \in blobs') <=> (<<g, "final">> \in blobs)
    BY DEF RefuseUpload
  <1>3. \A b \in Attempts : up'[b].pc \in {"committed", "finalizing"}
          => up[b].pc \in {"committed", "finalizing"} /\ up'[b].file = up[b].file
    BY Moves DEF Inv, RefuseUpload
  <1> QED  BY <1>1, <1>2, <1>3, QuietSteps DEF RefuseUpload

LEMMA ReserveQuotaSerial ==
    ASSUME Inv, Serial, NEW a \in Attempts, ReserveQuota(a)
    PROVE  Serial'
  <1>1. \A g \in Files :
          \/ file'[g].status = file[g].status
          \/ file[g].status \in Early /\ file'[g].status \in Early
    BY DEF ReserveQuota
  <1>2. \A g \in Files : (<<g, "final">> \in blobs') <=> (<<g, "final">> \in blobs)
    BY DEF ReserveQuota
  <1>3. \A b \in Attempts : up'[b].pc \in {"committed", "finalizing"}
          => up[b].pc \in {"committed", "finalizing"} /\ up'[b].file = up[b].file
    BY Moves DEF Inv, ReserveQuota
  <1> QED  BY <1>1, <1>2, <1>3, QuietSteps DEF ReserveQuota

LEMMA GiveUpEarlySerial ==
    ASSUME Inv, Serial, NEW a \in Attempts, GiveUpEarly(a)
    PROVE  Serial'
  <1>1. \A g \in Files :
          \/ file'[g].status = file[g].status
          \/ file[g].status \in Early /\ file'[g].status \in Early
    <2>1. up[a].file \in Files /\ \E lost : file' = Released(a, lost)
      BY DEF Inv, CallsNamed, At, GiveUpEarly
    <2> QED  BY <2>1, Releases DEF Inv, OwnsRow, NoFile, Early
  <1>2. \A g \in Files : (<<g, "final">> \in blobs') <=> (<<g, "final">> \in blobs)
    BY DEF GiveUpEarly
  <1>3. \A b \in Attempts : up'[b].pc \in {"committed", "finalizing"}
          => up[b].pc \in {"committed", "finalizing"} /\ up'[b].file = up[b].file
    BY Moves DEF Inv, GiveUpEarly
  <1> QED  BY <1>1, <1>2, <1>3, QuietSteps DEF GiveUpEarly

LEMMA PersistStagedBlobSerial ==
    ASSUME Inv, Serial, NEW a \in Attempts, PersistStagedBlob(a)
    PROVE  Serial'
  <1>1. \A g \in Files :
          \/ file'[g].status = file[g].status
          \/ file[g].status \in Early /\ file'[g].status \in Early
    BY DEF PersistStagedBlob
  <1>2. \A g \in Files : (<<g, "final">> \in blobs') <=> (<<g, "final">> \in blobs)
    BY StorageAssumption DEF PersistStagedBlob
  <1>3. \A b \in Attempts : up'[b].pc \in {"committed", "finalizing"}
          => up[b].pc \in {"committed", "finalizing"} /\ up'[b].file = up[b].file
    BY Moves DEF Inv, PersistStagedBlob
  <1> QED  BY <1>1, <1>2, <1>3, QuietSteps DEF PersistStagedBlob

LEMMA PersistFailsSerial ==
    ASSUME Inv, Serial, NEW a \in Attempts, PersistFails(a)
    PROVE  Serial'
  <1>1. \A g \in Files :
          \/ file'[g].status = file[g].status
          \/ file[g].status \in Early /\ file'[g].status \in Early
    <2>1. up[a].file \in Files /\ \E lost : file' = Released(a, lost)
      BY DEF Inv, CallsNamed, At, PersistFails
    <2> QED  BY <2>1, Releases DEF Inv, OwnsRow, NoFile, Early
  <1>2. \A g \in Files : (<<g, "final">> \in blobs') <=> (<<g, "final">> \in blobs)
    BY StorageAssumption DEF PersistFails
  <1>3. \A b \in Attempts : up'[b].pc \in {"committed", "finalizing"}
          => up[b].pc \in {"committed", "finalizing"} /\ up'[b].file = up[b].file
    BY Moves DEF Inv, PersistFails
  <1> QED  BY <1>1, <1>2, <1>3, QuietSteps DEF PersistFails

LEMMA RejectStoredSerial ==
    ASSUME Inv, Serial, NEW a \in Attempts, RejectStored(a)
    PROVE  Serial'
  <1>1. \A g \in Files :
          \/ file'[g].status = file[g].status
          \/ file[g].status \in Early /\ file'[g].status \in Early
    <2>1. up[a].file \in Files /\ \E lost : file' = Released(a, lost)
      BY DEF Inv, CallsNamed, At, RejectStored
    <2> QED  BY <2>1, Releases DEF Inv, OwnsRow, NoFile, Early
  <1>2. \A g \in Files : (<<g, "final">> \in blobs') <=> (<<g, "final">> \in blobs)
    BY StorageAssumption, Unstages DEF RejectStored
  <1>3. \A b \in Attempts : up'[b].pc \in {"committed", "finalizing"}
          => up[b].pc \in {"committed", "finalizing"} /\ up'[b].file = up[b].file
    BY Moves DEF Inv, RejectStored
  <1> QED  BY <1>1, <1>2, <1>3, QuietSteps DEF RejectStored

LEMMA CommitFailsSerial ==
    ASSUME Inv, Serial, NEW a \in Attempts, CommitFails(a)
    PROVE  Serial'
  <1>1. \A g \in Files :
          \/ file'[g].status = file[g].status
          \/ file[g].status \in Early /\ file'[g].status \in Early
    <2>1. up[a].file \in Files /\ \E lost : file' = Released(a, lost)
      BY DEF Inv, CallsNamed, At, CommitFails
    <2> QED  BY <2>1, Releases DEF Inv, OwnsRow, NoFile, Early
  <1>2. \A g \in Files : (<<g, "final">> \in blobs') <=> (<<g, "final">> \in blobs)
    BY StorageAssumption, Unstages DEF CommitFails
  <1>3. \A b \in Attempts : up'[b].pc \in {"committed", "finalizing"}
          => up[b].pc \in {"committed", "finalizing"} /\ up'[b].file = up[b].file
    BY Moves DEF Inv, CommitFails
  <1> QED  BY <1>1, <1>2, <1>3, QuietSteps DEF CommitFails

LEMMA RenewLeaseSerial ==
    ASSUME Inv, Serial, NEW a \in Attempts, RenewLease(a)
    PROVE  Serial'
  <1>1. \A g \in Files :
          \/ file'[g].status = file[g].status
          \/ file[g].status \in Early /\ file'[g].status \in Early
    BY DEF Inv, FilesOK, FileRow, Early, RenewLease
  <1>2. \A g \in Files : (<<g, "final">> \in blobs') <=> (<<g, "final">> \in blobs)
    BY DEF RenewLease
  <1>3. \A b \in Attempts : up'[b].pc \in {"committed", "finalizing"}
          => up[b].pc \in {"committed", "finalizing"} /\ up'[b].file = up[b].file
    BY DEF RenewLease
  <1> QED  BY <1>1, <1>2, <1>3, QuietSteps DEF RenewLease

----------------------------------------------------------------------------
(* The others, again with one step per conjunct they can disturb           *)

LEMMA CommitUploadSerial ==
    ASSUME ~Overlap, Inv, Serial, NEW a \in Attempts, CommitUpload(a)
    PROVE  Serial'
  <1>1. up[a].file \in Files /\ file[up[a].file].status = "uploading" /\ file'[up[a].file].status = "staged"
        /\ \A g \in Files : g # up[a].file => file'[g] = file[g]
    BY DEF Inv, FilesOK, FileRow, CallsNamed, At, OwnsRow, CommitUpload
  <1>2. up'[a].file = up[a].file /\ \A b \in Attempts : b # a => up'[b] = up[b]
    BY Moves DEF Inv, CommitUpload
  <1>3. cl.phase # "staged"
    BY DEF CommitUpload
  <1>4. PhaseQuiet'
    BY <1>1, <1>2, <1>3 DEF Serial, PhaseQuiet, Inv, CallsNamed, AnswersOK,
        CommitUpload
  <1>5. CleanerSole'
    BY <1>1, <1>2, <1>3 DEF Serial, CleanerSole, Inv, CallsNamed, AnswersOK,
        CommitUpload
  <1>6. CommittedStaged'
    BY <1>1, <1>2, <1>3 DEF Serial, CommittedStaged, Inv, CallsNamed,
        AnswersOK, CommitUpload
  <1>7. TodoStaged'
    BY <1>1, <1>2, <1>3 DEF Serial, TodoStaged, Inv, CallsNamed, AnswersOK,
        CommitUpload
  <1>8. AskedRows'
    BY <1>1, <1>2, <1>3 DEF Serial, AskedRows, Inv, CallsNamed, AnswersOK,
        CommitUpload
  <1>9. DeletingAsked'
    BY <1>1, <1>2, <1>3 DEF Serial, DeletingAsked, Inv, CallsNamed, AnswersOK,
        CommitUpload
  <1>10. FinalRows'
    BY <1>1, <1>2, <1>3 DEF Serial, FinalRows, Final, Lasting, Inv,
        CallsNamed, AnswersOK, CommitUpload
  <1>11. ActiveFinal'
    BY <1>1, <1>2, <1>3 DEF Serial, ActiveFinal, Final, Inv, CallsNamed,
        AnswersOK, CommitUpload
  <1>12. ObjectRows'
    BY <1>1, <1>2, <1>3 DEF Serial, ObjectRows, Lasting, Inv, CallsNamed,
        AnswersOK, CommitUpload
  <1>13. OrphanFinal'
    BY <1>1, <1>2, <1>3 DEF Serial, OrphanFinal, Inv, CallsNamed, AnswersOK,
        CommitUpload
  <1>14. AckedActive'
    BY <1>1, <1>2, <1>3 DEF Serial, AckedActive, Inv, CallsNamed, AnswersOK,
        CommitUpload
  <1>15. CreditedGone'
    BY <1>1, <1>2, <1>3 DEF Serial, CreditedGone, Final, Inv, CallsNamed,
        AnswersOK, CommitUpload
  <1> QED  BY <1>4, <1>5, <1>6, <1>7, <1>8, <1>9, <1>10, <1>11, <1>12, <1>13,
      <1>14, <1>15
      DEF Serial, ErasersAsked, TodoAsked, CopiedFinal, Final, UncopiedFinal,
          ErasedFinal, CreditedOnce, AskedNotLost, CommitUpload

LEMMA SettleQuotaSerial ==
    ASSUME Inv, Serial, NEW a \in Attempts, SettleQuota(a)
    PROVE  Serial'
  <1>1. up[a].pc = "committed" /\ up'[a].pc = "finalizing" /\ up'[a].file = up[a].file
        /\ \A b \in Attempts : b # a => up'[b] = up[b]
    BY Moves DEF Inv, At, SettleQuota
  <1>2. fin'[a].pc = "check" /\ \A q \in Finalizers : q # a => fin'[q] = fin[q]
    BY DEF Inv, FinalizersOK, Finalizers, SettleQuota
  <1>3. PhaseQuiet'
    BY <1>1, <1>2 DEF Serial, PhaseQuiet, Finalizers, SettleQuota
  <1>4. CleanerSole'
    BY <1>2, StorageAssumption DEF Serial, CleanerSole, Finalizers, SettleQuota
  <1>5. CommittedStaged'
    BY <1>1, <1>2 DEF Serial, CommittedStaged, Finalizers, SettleQuota
  <1>6. CopiedFinal'
    BY <1>1, <1>2 DEF Serial, CopiedFinal, Final, Finalizers, SettleQuota
  <1>7. UncopiedFinal'
    BY <1>1, <1>2 DEF Serial, UncopiedFinal, Final, Finalizers, SettleQuota
  <1> QED  BY <1>3, <1>4, <1>5, <1>6, <1>7
      DEF Serial, TodoStaged, AskedRows, ErasersAsked, TodoAsked,
          DeletingAsked, FinalRows, Final, Lasting, ActiveFinal, ObjectRows,
          OrphanFinal, AckedActive, ErasedFinal, CreditedGone, CreditedOnce,
          AskedNotLost, SettleQuota

LEMMA FinalExistsSerial ==
    ASSUME Inv, Serial, NEW p \in Finalizers, FinalExists(p)
    PROVE  Serial'
  <1>1. /\ fin[p].file \in Files /\ file[fin[p].file].status = "staged"
        /\ \A q \in Finalizers : q # p /\ fin[q].pc # "idle"
             => fin[q].file # fin[p].file
        /\ \A a \in Attempts : a # p /\ up[a].pc \in {"committed", "finalizing"}
             => up[a].file # fin[p].file
        /\ cl.phase = "staged" => fin[p].file \notin cl.todo
    BY Sole DEF FinalExists
  <1>2. fin[p].pc # "idle" /\ fin'[p].file = fin[p].file
        /\ \A q \in Finalizers : q # p => fin'[q] = fin[q]
    BY DEF Inv, FinalizersOK, Finalization, FinalExists
  <1>3. CleanerSole'
    BY <1>1, <1>2 DEF Serial, CleanerSole, FinalExists
  <1>4. CopiedFinal'
    BY <1>1, <1>2 DEF Serial, CopiedFinal, Final, Inv, FinalizersOK,
        Finalization, FinalExists
  <1>5. UncopiedFinal'
    BY <1>1, <1>2 DEF Serial, UncopiedFinal, Final, Inv, FinalizersOK,
        Finalization, FinalExists
  <1> QED  BY <1>3, <1>4, <1>5
      DEF Serial, PhaseQuiet, CommittedStaged, TodoStaged, AskedRows,
          ErasersAsked, TodoAsked, DeletingAsked, FinalRows, Final, Lasting,
          ActiveFinal, ObjectRows, OrphanFinal, AckedActive, ErasedFinal,
          CreditedGone, CreditedOnce, AskedNotLost, FinalExists

LEMMA CopyToFinalSerial ==
    ASSUME Inv, Serial, NEW p \in Finalizers, CopyToFinal(p)
    PROVE  Serial'
  <1>1. /\ fin[p].file \in Files /\ file[fin[p].file].status = "staged"
        /\ \A q \in Finalizers : q # p /\ fin[q].pc # "idle"
             => fin[q].file # fin[p].file
        /\ \A a \in Attempts : a # p /\ up[a].pc \in {"committed", "finalizing"}
             => up[a].file # fin[p].file
        /\ cl.phase = "staged" => fin[p].file \notin cl.todo
    BY Sole DEF CopyToFinal
  <1>2. fin[p].pc # "idle" /\ fin'[p].file = fin[p].file
        /\ \A q \in Finalizers : q # p => fin'[q] = fin[q]
    BY DEF Inv, FinalizersOK, Finalization, CopyToFinal
  <1>3. CleanerSole'
    BY <1>2, StorageAssumption DEF Serial, CleanerSole, Finalizers, CopyToFinal
  <1>4. FinalRows'
    BY <1>1, <1>2 DEF Serial, FinalRows, Final, Lasting, CopyToFinal
  <1>5. ActiveFinal'
    BY <1>1, <1>2 DEF Serial, ActiveFinal, Final, CopyToFinal
  <1>6. CopiedFinal'
    BY <1>1, <1>2 DEF Serial, CopiedFinal, Final, Inv, FinalizersOK,
        Finalization, CopyToFinal
  <1>7. UncopiedFinal'
    BY <1>1, <1>2 DEF Serial, UncopiedFinal, Final, Inv, FinalizersOK,
        Finalization, CopyToFinal
  <1>8. ErasedFinal'
    BY <1>1, <1>2 DEF Serial, ErasedFinal, Final, ErasersAsked, AskedRows,
        CopyToFinal
  <1>9. CreditedGone'
    BY <1>1, <1>2 DEF Serial, CreditedGone, Final, CopyToFinal
  <1> QED  BY <1>3, <1>4, <1>5, <1>6, <1>7, <1>8, <1>9
      DEF Serial, PhaseQuiet, CommittedStaged, TodoStaged, AskedRows,
          ErasersAsked, TodoAsked, DeletingAsked, ObjectRows, Lasting,
          OrphanFinal, AckedActive, CreditedOnce, AskedNotLost, CopyToFinal

LEMMA FinalizeFailsSerial ==
    ASSUME Inv, Serial, NEW p \in Finalizers, FinalizeFails(p)
    PROVE  Serial'
  <1>1. /\ fin[p].file \in Files /\ file[fin[p].file].status = "staged"
        /\ \A q \in Finalizers : q # p /\ fin[q].pc # "idle"
             => fin[q].file # fin[p].file
        /\ \A a \in Attempts : a # p /\ up[a].pc \in {"committed", "finalizing"}
             => up[a].file # fin[p].file
        /\ cl.phase = "staged" => fin[p].file \notin cl.todo
    BY Sole DEF FinalizeFails
  <1>2. /\ fin'[p].pc = "idle" /\ \A q \in Finalizers : q # p => fin'[q] = fin[q]
        /\ \A a \in Attempts :
             \/ up'[a] = up[a] /\ a # p
             \/ a = p /\ up'[a].pc \in {"stored", "failed"}
        /\ acked' \subseteq acked \cup {fin[p].file}
    <2>1. PICK ok \in BOOLEAN : fin[p].pc # "idle" /\ FinalizeEnds(p, ok)
      BY DEF FinalizeFails
    <2>2. UploadsOK /\ FinalizersOK /\ OwnFinalization /\ CallsNamed
          /\ FinalizersNamed /\ acked \subseteq Files
      BY DEF Inv, AnswersOK
    <2> QED  BY <2>1, <2>2, Ends DEF NoFin
  <1>3. fin[p].pc # "idle" /\ acked' = acked
    BY DEF FinalizeFails, FinalizeEnds
  <1>4. PhaseQuiet'
    BY <1>1, <1>2, <1>3 DEF Serial, PhaseQuiet, FinalizeFails
  <1>5. CleanerSole'
    BY <1>1, <1>2, <1>3 DEF Serial, CleanerSole, Finalizers, FinalizeFails
  <1>6. CommittedStaged'
    BY <1>1, <1>2, <1>3 DEF Serial, CommittedStaged, FinalizeFails
  <1>7. CopiedFinal'
    BY <1>1, <1>2, <1>3 DEF Serial, CopiedFinal, Final, FinalizeFails
  <1>8. AckedActive'
    BY <1>1, <1>2, <1>3 DEF Serial, AckedActive, FinalizeFails
  <1>9. UncopiedFinal'
    BY <1>1, <1>2, <1>3 DEF Serial, UncopiedFinal, Final, FinalizeFails
  <1> QED  BY <1>4, <1>5, <1>6, <1>7, <1>8, <1>9
      DEF Serial, TodoStaged, AskedRows, ErasersAsked, TodoAsked,
          DeletingAsked, FinalRows, Final, Lasting, ActiveFinal, ObjectRows,
          OrphanFinal, ErasedFinal, CreditedGone, CreditedOnce, AskedNotLost,
          FinalizeFails

LEMMA DeleteStageSerial ==
    ASSUME Inv, Serial, NEW p \in Finalizers, DeleteStage(p)
    PROVE  Serial'
  <1>1. /\ fin[p].file \in Files /\ file[fin[p].file].status = "staged"
        /\ \A q \in Finalizers : q # p /\ fin[q].pc # "idle"
             => fin[q].file # fin[p].file
        /\ \A a \in Attempts : a # p /\ up[a].pc \in {"committed", "finalizing"}
             => up[a].file # fin[p].file
        /\ cl.phase = "staged" => fin[p].file \notin cl.todo
    BY Sole DEF DeleteStage
  <1>2. fin[p].pc # "idle" /\ fin'[p].file = fin[p].file
        /\ \A q \in Finalizers : q # p => fin'[q] = fin[q]
    BY DEF Inv, FinalizersOK, Finalization, DeleteStage
  <1>3. \A g \in Files : (<<g, "final">> \in blobs') <=> (<<g, "final">> \in blobs)
    BY StorageAssumption DEF Inv, FinalizersOK, Finalization, DeleteStage
  <1>4. CleanerSole'
    BY <1>1, <1>2, <1>3 DEF Serial, CleanerSole, DeleteStage
  <1>5. FinalRows'
    BY <1>1, <1>2, <1>3 DEF Serial, FinalRows, Final, Lasting, DeleteStage
  <1>6. ActiveFinal'
    BY <1>1, <1>2, <1>3 DEF Serial, ActiveFinal, Final, DeleteStage
  <1>7. CopiedFinal'
    BY <1>1, <1>2, <1>3 DEF Serial, CopiedFinal, Final, Inv, FinalizersOK,
        Finalization, DeleteStage
  <1>8. UncopiedFinal'
    BY <1>1, <1>2, <1>3 DEF Serial, UncopiedFinal, Final, Inv, FinalizersOK,
        Finalization, DeleteStage
  <1>9. ErasedFinal'
    BY <1>1, <1>2, <1>3 DEF Serial, ErasedFinal, Final, DeleteStage
  <1>10. CreditedGone'
    BY <1>1, <1>2, <1>3 DEF Serial, CreditedGone, Final, DeleteStage
  <1> QED  BY <1>4, <1>5, <1>6, <1>7, <1>8, <1>9, <1>10
      DEF Serial, PhaseQuiet, CommittedStaged, TodoStaged, AskedRows,
          ErasersAsked, TodoAsked, DeletingAsked, ObjectRows, Lasting,
          OrphanFinal, AckedActive, CreditedOnce, AskedNotLost, DeleteStage

LEMMA SaveActiveSerial ==
    ASSUME Inv, Serial, NEW p \in Finalizers, SaveActive(p)
    PROVE  Serial'
  <1>1. /\ fin[p].file \in Files /\ file[fin[p].file].status = "staged"
        /\ \A q \in Finalizers : q # p /\ fin[q].pc # "idle"
             => fin[q].file # fin[p].file
        /\ \A a \in Attempts : a # p /\ up[a].pc \in {"committed", "finalizing"}
             => up[a].file # fin[p].file
        /\ cl.phase = "staged" => fin[p].file \notin cl.todo
    BY Sole DEF SaveActive
  <1>2. /\ fin'[p].pc = "idle" /\ \A q \in Finalizers : q # p => fin'[q] = fin[q]
        /\ \A a \in Attempts :
             \/ up'[a] = up[a] /\ a # p
             \/ a = p /\ up'[a].pc \in {"stored", "failed"}
        /\ acked' \subseteq acked \cup {fin[p].file}
    <2>1. PICK ok \in BOOLEAN : fin[p].pc # "idle" /\ FinalizeEnds(p, ok)
      BY DEF SaveActive
    <2>2. UploadsOK /\ FinalizersOK /\ OwnFinalization /\ CallsNamed
          /\ FinalizersNamed /\ acked \subseteq Files
      BY DEF Inv, AnswersOK
    <2> QED  BY <2>1, <2>2, Ends DEF NoFin
  <1>3. \/ file' = file
        \/ /\ file'[fin[p].file].status = "active"
           /\ \A g \in Files : g # fin[p].file => file'[g] = file[g]
    <2> DEFINE row == [status |-> "active", owner |-> fin[p].stage, lapsed |-> FALSE]
    <2>1. file' = file \/ file' = [file EXCEPT ![fin[p].file] = row]
      BY DEF SaveActive
    <2> QED  BY <1>1, <2>1 DEF Inv, FilesOK
  <1>4. fin[p].pc = "save" /\ blobs' = blobs /\ cl' = cl /\ requested' = requested
        /\ credits' = credits /\ (acked' = acked \/ file'[fin[p].file].status = "active")
    BY <1>1 DEF Inv, FilesOK, SaveActive, FinalizeEnds
  <1>5. PhaseQuiet'
    BY <1>1, <1>2, <1>3, <1>4 DEF Serial, PhaseQuiet, Inv, CallsNamed,
        FinalizersNamed, PassOK, Pass, AnswersOK
  <1>6. CleanerSole'
    BY <1>1, <1>2, <1>3, <1>4 DEF Serial, CleanerSole, Inv, FinalizersNamed,
        Finalizers
  <1>7. CommittedStaged'
    BY <1>1, <1>2, <1>3, <1>4 DEF Serial, CommittedStaged, Inv, CallsNamed
  <1>8. TodoStaged'
    BY <1>1, <1>2, <1>3, <1>4 DEF Serial, TodoStaged, Inv, PassOK, Pass
  <1>9. AskedRows'
    BY <1>1, <1>2, <1>3, <1>4 DEF Serial, AskedRows, Inv, AnswersOK
  <1>10. DeletingAsked'
    BY <1>1, <1>2, <1>3, <1>4 DEF Serial, DeletingAsked
  <1>11. FinalRows'
    BY <1>1, <1>2, <1>3, <1>4 DEF Serial, FinalRows, Final, Lasting
  <1>12. ActiveFinal'
    BY <1>1, <1>2, <1>3, <1>4 DEF Serial, ActiveFinal, Final, CopiedFinal
  <1>13. CopiedFinal'
    BY <1>1, <1>2, <1>3, <1>4 DEF Serial, CopiedFinal, Final, Inv, CallsNamed,
        FinalizersNamed, PassOK, Pass, AnswersOK
  <1>14. ObjectRows'
    BY <1>1, <1>2, <1>3, <1>4 DEF Serial, ObjectRows, Lasting
  <1>15. OrphanFinal'
    BY <1>1, <1>2, <1>3, <1>4 DEF Serial, OrphanFinal
  <1>16. AckedActive'
    BY <1>1, <1>2, <1>3, <1>4 DEF Serial, AckedActive, Inv, AnswersOK
  <1>17. UncopiedFinal'
    BY <1>1, <1>2, <1>3, <1>4 DEF Serial, UncopiedFinal, Final, Inv,
        CallsNamed, FinalizersNamed, PassOK, Pass, AnswersOK
  <1>18. CreditedGone'
    BY <1>1, <1>2, <1>3, <1>4 DEF Serial, CreditedGone, Final, UncopiedFinal
  <1> QED  BY <1>5, <1>6, <1>7, <1>8, <1>9, <1>10, <1>11, <1>12, <1>13, <1>14,
      <1>15, <1>16, <1>17, <1>18
      DEF Serial, ErasersAsked, TodoAsked, ErasedFinal, Final, CreditedOnce,
          AskedNotLost, SaveActive

LEMMA MarkFileLostSerial ==
    ASSUME Inv, Serial, NEW p \in Finalizers, MarkFileLost(p)
    PROVE  Serial'
  <1>1. /\ fin[p].file \in Files /\ file[fin[p].file].status = "staged"
        /\ \A q \in Finalizers : q # p /\ fin[q].pc # "idle"
             => fin[q].file # fin[p].file
        /\ \A a \in Attempts : a # p /\ up[a].pc \in {"committed", "finalizing"}
             => up[a].file # fin[p].file
        /\ cl.phase = "staged" => fin[p].file \notin cl.todo
    BY Sole DEF MarkFileLost
  <1>2. /\ fin'[p].pc = "idle" /\ \A q \in Finalizers : q # p => fin'[q] = fin[q]
        /\ \A a \in Attempts :
             \/ up'[a] = up[a] /\ a # p
             \/ a = p /\ up'[a].pc \in {"stored", "failed"}
        /\ acked' \subseteq acked \cup {fin[p].file}
    <2>1. PICK ok \in BOOLEAN : fin[p].pc # "idle" /\ FinalizeEnds(p, ok)
      BY DEF MarkFileLost
    <2>2. UploadsOK /\ FinalizersOK /\ OwnFinalization /\ CallsNamed
          /\ FinalizersNamed /\ acked \subseteq Files
      BY DEF Inv, AnswersOK
    <2> QED  BY <2>1, <2>2, Ends DEF NoFin
  <1>3. \/ file' = file
        \/ /\ file'[fin[p].file].status = "deleted"
           /\ \A g \in Files : g # fin[p].file => file'[g] = file[g]
    <2> DEFINE row == [status |-> "deleted", owner |-> fin[p].stage, lapsed |-> FALSE]
    <2>1. file' = file \/ file' = [file EXCEPT ![fin[p].file] = row]
      BY DEF MarkFileLost
    <2> QED  BY <1>1, <2>1 DEF Inv, FilesOK
  <1>4. /\ \A g \in Files : g # fin[p].file => credits'[g] = credits[g]
        /\ \/ credits'[fin[p].file] = credits[fin[p].file]
           \/ /\ credits'[fin[p].file] = credits[fin[p].file] \cup {"lost"}
              /\ file'[fin[p].file].status = "deleted"
    BY <1>1 DEF Inv, CreditsOK, FilesOK, MarkFileLost
  <1>5. fin[p].pc = "lost" /\ blobs' = blobs /\ cl' = cl /\ requested' = requested
        /\ acked' = acked
    BY DEF MarkFileLost, FinalizeEnds
  <1>6. PhaseQuiet'
    BY <1>1, <1>2, <1>3, <1>4, <1>5 DEF Serial, PhaseQuiet, Inv, CallsNamed,
        FinalizersNamed, PassOK, Pass, AnswersOK
  <1>7. CleanerSole'
    BY <1>1, <1>2, <1>3, <1>4, <1>5 DEF Serial, CleanerSole, Inv,
        FinalizersNamed, Finalizers
  <1>8. CommittedStaged'
    BY <1>1, <1>2, <1>3, <1>4, <1>5 DEF Serial, CommittedStaged, Inv,
        CallsNamed
  <1>9. TodoStaged'
    BY <1>1, <1>2, <1>3, <1>4, <1>5 DEF Serial, TodoStaged, Inv, PassOK, Pass
  <1>10. AskedRows'
    BY <1>1, <1>2, <1>3, <1>4, <1>5 DEF Serial, AskedRows, Inv, AnswersOK
  <1>11. DeletingAsked'
    BY <1>1, <1>2, <1>3, <1>4, <1>5 DEF Serial, DeletingAsked
  <1>12. FinalRows'
    BY <1>1, <1>2, <1>3, <1>4, <1>5 DEF Serial, FinalRows, Final, Lasting
  <1>13. ActiveFinal'
    BY <1>1, <1>2, <1>3, <1>4, <1>5 DEF Serial, ActiveFinal, Final,
        CopiedFinal
  <1>14. CopiedFinal'
    BY <1>1, <1>2, <1>3, <1>4, <1>5 DEF Serial, CopiedFinal, Final, Inv,
        CallsNamed, FinalizersNamed, PassOK, Pass, AnswersOK
  <1>15. ObjectRows'
    BY <1>1, <1>2, <1>3, <1>4, <1>5 DEF Serial, ObjectRows, Lasting
  <1>16. OrphanFinal'
    BY <1>1, <1>2, <1>3, <1>4, <1>5 DEF Serial, OrphanFinal
  <1>17. AckedActive'
    BY <1>1, <1>2, <1>3, <1>4, <1>5 DEF Serial, AckedActive, Inv, AnswersOK
  <1>18. UncopiedFinal'
    BY <1>1, <1>2, <1>3, <1>4, <1>5 DEF Serial, UncopiedFinal, Final, Inv,
        CallsNamed, FinalizersNamed, PassOK, Pass, AnswersOK
  <1>19. CreditedGone'
    BY <1>1, <1>2, <1>3, <1>4, <1>5 DEF Serial, CreditedGone, Final,
        UncopiedFinal
  <1>20. CreditedOnce'
    BY <1>1, <1>2, <1>3, <1>4, <1>5 DEF Serial, CreditedOnce, CreditedGone
  <1>21. AskedNotLost'
    BY <1>1, <1>2, <1>3, <1>4, <1>5 DEF Serial, AskedNotLost, AskedRows, Inv,
        AnswersOK
  <1> QED  BY <1>6, <1>7, <1>8, <1>9, <1>10, <1>11, <1>12, <1>13, <1>14,
      <1>15, <1>16, <1>17, <1>18, <1>19, <1>20, <1>21
      DEF Serial, ErasersAsked, TodoAsked, ErasedFinal, Final, MarkFileLost

LEMMA DeleteSerial ==
    ASSUME Inv, Serial, NEW f \in Files, Delete(f)
    PROVE  Serial'
  <1>1. f \in Files /\ file[f].status = "active" /\ file'[f].status = "deleting"
        /\ \A g \in Files : g # f => file'[g] = file[g]
    BY DEF Inv, FilesOK, FileRow, Delete
  <1>2. era'[f].pc = "purge" /\ era'[f].file = f /\ \A q \in Erasers : q # f => era'[q] = era[q]
    BY DEF Inv, ErasersOK, Erasers, Delete
  <1>3. CleanerSole'
    BY <1>1, <1>2 DEF Serial, CleanerSole, Delete
  <1>4. CommittedStaged'
    BY <1>1, <1>2 DEF Serial, CommittedStaged, Delete
  <1>5. TodoStaged'
    BY <1>1, <1>2 DEF Serial, TodoStaged, Delete
  <1>6. AskedRows'
    BY <1>1, <1>2 DEF Serial, AskedRows, Delete
  <1>7. ErasersAsked'
    BY <1>1, <1>2 DEF Serial, ErasersAsked, Delete
  <1>8. TodoAsked'
    BY <1>1, <1>2 DEF Serial, TodoAsked, Delete
  <1>9. DeletingAsked'
    BY <1>1, <1>2 DEF Serial, DeletingAsked, Delete
  <1>10. FinalRows'
    BY <1>1, <1>2 DEF Serial, FinalRows, Final, Lasting, Delete
  <1>11. ActiveFinal'
    BY <1>1, <1>2 DEF Serial, ActiveFinal, Final, Delete
  <1>12. ObjectRows'
    BY <1>1, <1>2 DEF Serial, ObjectRows, Lasting, Delete
  <1>13. OrphanFinal'
    BY <1>1, <1>2 DEF Serial, OrphanFinal, Delete
  <1>14. AckedActive'
    BY <1>1, <1>2 DEF Serial, AckedActive, Inv, AnswersOK, Delete
  <1>15. ErasedFinal'
    BY <1>1, <1>2 DEF Serial, ErasedFinal, Final, Delete
  <1>16. CreditedGone'
    BY <1>1, <1>2 DEF Serial, CreditedGone, Final, Delete
  <1>17. AskedNotLost'
    BY <1>1, <1>2 DEF Serial, AskedNotLost, CreditedGone, Delete
  <1> QED  BY <1>3, <1>4, <1>5, <1>6, <1>7, <1>8, <1>9, <1>10, <1>11, <1>12,
      <1>13, <1>14, <1>15, <1>16, <1>17
      DEF Serial, PhaseQuiet, CopiedFinal, Final, UncopiedFinal, CreditedOnce,
          Delete

LEMMA DeletePrefixSerial ==
    ASSUME Inv, Serial, NEW p \in Erasers, DeletePrefix(p)
    PROVE  Serial'
  <1>1. era[p].pc = "purge" /\ era[p].file \in Files /\ era[p].file \in requested
        /\ file[era[p].file].status \in {"deleting", "deleted"}
    BY DEF Inv, ErasersNamed, Serial, ErasersAsked, AskedRows, DeletePrefix
  <1>2. /\ blobs' \subseteq blobs
        /\ \A g \in Files : g # era[p].file
             => ((<<g, "final">> \in blobs') <=> (<<g, "final">> \in blobs))
    BY DEF Blobs, DeletePrefix
  <1>3. /\ \A q \in Erasers : q # p => era'[q] = era[q]
        /\ \/ era'[p].pc = "idle"
           \/ era'[p].file = era[p].file /\ <<era[p].file, "final">> \notin blobs'
    BY DEF Inv, ErasersOK, Erasure, NoEra, Blobs, DeletePrefix
  <1>4. file' = file /\ fin' = fin /\ cl' = cl /\ credits' = credits
        /\ requested' = requested
    BY DEF DeletePrefix
  <1>5. ErasersAsked'
    BY <1>1, <1>2, <1>3, <1>4 DEF Serial, ErasersAsked
  <1>6. FinalRows'
    BY <1>1, <1>2, <1>3, <1>4 DEF Serial, FinalRows, Final, Lasting
  <1>7. ActiveFinal'
    BY <1>1, <1>2, <1>3, <1>4 DEF Serial, ActiveFinal, Final
  <1>8. CopiedFinal'
    <2>1. \A q \in Finalizers : fin[q].pc # "idle"
            => fin[q].file \in Files /\ file[fin[q].file].status = "staged"
      BY Sole
    <2> QED  BY <1>1, <1>2, <1>4, <2>1 DEF Serial, CopiedFinal, Final
  <1>9. UncopiedFinal'
    BY <1>1, <1>2, <1>3, <1>4 DEF Serial, UncopiedFinal, Final
  <1>10. ErasedFinal'
    BY <1>1, <1>2, <1>3, <1>4 DEF Serial, ErasedFinal, Final
  <1>11. CreditedGone'
    BY <1>1, <1>2, <1>3, <1>4 DEF Serial, CreditedGone, Final
  <1> QED  BY <1>5, <1>6, <1>7, <1>8, <1>9, <1>10, <1>11
      DEF Serial, PhaseQuiet, CleanerSole, CommittedStaged, TodoStaged,
          AskedRows, TodoAsked, DeletingAsked, ObjectRows, Lasting,
          OrphanFinal, AckedActive, CreditedOnce, AskedNotLost, DeletePrefix

LEMMA SaveDeletedSerial ==
    ASSUME Inv, Serial, NEW p \in Erasers, SaveDeleted(p)
    PROVE  Serial'
  <1>1. era[p].pc = "save" /\ era[p].file \in Files /\ era[p].file \in requested
        /\ file[era[p].file].status \in {"deleting", "deleted"}
        /\ <<era[p].file, "final">> \notin blobs
    BY DEF Inv, ErasersNamed, Serial, ErasersAsked, AskedRows, ErasedFinal,
        Final, SaveDeleted
  <1>2. /\ era'[p].pc = "idle"
        /\ \A q \in Erasers : q # p => era'[q] = era[q]
    BY DEF Inv, ErasersOK, NoEra, SaveDeleted
  <1>3. /\ \A g \in Files : g # era[p].file => file'[g] = file[g]
        /\ \A g \in Files : g # era[p].file => credits'[g] = credits[g]
        /\ \/ file' = file /\ credits' = credits
           \/ /\ file'[era[p].file].status = "deleted"
              /\ \/ credits'[era[p].file] = credits[era[p].file]
                 \/ credits'[era[p].file] = credits[era[p].file] \cup {"delete"}
    BY <1>1 DEF Inv, FilesOK, FileRow, CreditsOK, SaveDeleted
  <1>4. blobs' = blobs /\ up' = up /\ fin' = fin /\ cl' = cl /\ acked' = acked
        /\ requested' = requested
    BY DEF SaveDeleted
  <1>5. CleanerSole'
    BY <1>1, <1>2, <1>3, <1>4 DEF Serial, CleanerSole, Inv, FinalizersNamed,
        Finalizers
  <1>6. CommittedStaged'
    BY <1>1, <1>2, <1>3, <1>4 DEF Serial, CommittedStaged, Inv, CallsNamed
  <1>7. TodoStaged'
    BY <1>1, <1>2, <1>3, <1>4 DEF Serial, TodoStaged, Inv, PassOK, Pass
  <1>8. AskedRows'
    BY <1>1, <1>2, <1>3, <1>4 DEF Serial, AskedRows, Inv, AnswersOK
  <1>9. ErasersAsked'
    BY <1>1, <1>2, <1>3, <1>4 DEF Serial, ErasersAsked
  <1>10. DeletingAsked'
    BY <1>1, <1>2, <1>3, <1>4 DEF Serial, DeletingAsked
  <1>11. FinalRows'
    BY <1>1, <1>2, <1>3, <1>4 DEF Serial, FinalRows, Final, Lasting
  <1>12. ActiveFinal'
    BY <1>1, <1>2, <1>3, <1>4 DEF Serial, ActiveFinal, Final
  <1>13. ObjectRows'
    BY <1>1, <1>2, <1>3, <1>4 DEF Serial, ObjectRows, Lasting
  <1>14. OrphanFinal'
    BY <1>1, <1>2, <1>3, <1>4 DEF Serial, OrphanFinal
  <1>15. AckedActive'
    BY <1>1, <1>2, <1>3, <1>4 DEF Serial, AckedActive, Inv, AnswersOK
  <1>16. ErasedFinal'
    BY <1>1, <1>2, <1>3, <1>4 DEF Serial, ErasedFinal, Final
  <1>17. CreditedGone'
    BY <1>1, <1>2, <1>3, <1>4 DEF Serial, CreditedGone, Final
  <1>18. CreditedOnce'
    BY <1>1, <1>2, <1>3, <1>4 DEF Serial, CreditedOnce, AskedNotLost
  <1>19. AskedNotLost'
    BY <1>1, <1>2, <1>3, <1>4 DEF Serial, AskedNotLost, Inv, AnswersOK
  <1> QED  BY <1>5, <1>6, <1>7, <1>8, <1>9, <1>10, <1>11, <1>12, <1>13, <1>14,
      <1>15, <1>16, <1>17, <1>18, <1>19
      DEF Serial, PhaseQuiet, TodoAsked, CopiedFinal, Final, UncopiedFinal,
          SaveDeleted

LEMMA ListUploadingSerial ==
    ASSUME Inv, Serial, ListUploading
    PROVE  Serial'
  <1>1. cl'.phase = "uploading" /\ cl'.objs = cl.objs /\ cl'.cur = cl.cur
        /\ cl.phase = "idle"
    BY DEF Inv, PassOK, Pass, BeginPhase, ListUploading
  <1>2. PhaseQuiet'
    BY <1>1 DEF Serial, PhaseQuiet, ListUploading
  <1>3. CleanerSole'
    BY <1>1 DEF Serial, CleanerSole, ListUploading
  <1>4. TodoStaged'
    BY <1>1 DEF Serial, TodoStaged, ListUploading
  <1>5. TodoAsked'
    BY <1>1 DEF Serial, TodoAsked, ListUploading
  <1>6. ObjectRows'
    BY <1>1 DEF Serial, ObjectRows, Lasting, ListUploading
  <1>7. OrphanFinal'
    BY <1>1 DEF Serial, OrphanFinal, ListUploading
  <1> QED  BY <1>2, <1>3, <1>4, <1>5, <1>6, <1>7
      DEF Serial, CommittedStaged, AskedRows, ErasersAsked, DeletingAsked,
          FinalRows, Final, Lasting, ActiveFinal, CopiedFinal, AckedActive,
          UncopiedFinal, ErasedFinal, CreditedGone, CreditedOnce,
          AskedNotLost, ListUploading

LEMMA RecoverUploadingSerial ==
    ASSUME Inv, Serial, NEW f \in Files, RecoverUploading(f)
    PROVE  Serial'
  <1>1. \A g \in Files :
          \/ file'[g].status = file[g].status
          \/ file[g].status = "uploading" /\ file'[g].status = "absent"
    BY DEF Inv, FilesOK, Reclaimable, NoFile, RecoverUploading
  <1>2. \A g \in Files : (<<g, "final">> \in blobs') <=> (<<g, "final">> \in blobs)
    BY StorageAssumption DEF Inv, PassOK, Pass, RecoverUploading
  <1>3. cl'.phase = "uploading" /\ cl.phase = "uploading"
        /\ cl'.objs = cl.objs /\ cl'.cur = cl.cur
    BY DEF Inv, PassOK, Pass, RecoverUploading
  <1>4. up' = up /\ fin' = fin /\ era' = era /\ credits' = credits /\ acked' = acked
        /\ requested' = requested
    BY DEF RecoverUploading
  <1>5. PhaseQuiet'
    BY <1>1, <1>2, <1>3, <1>4 DEF Serial, PhaseQuiet
  <1>6. CleanerSole'
    BY <1>1, <1>2, <1>3, <1>4 DEF Serial, CleanerSole, Inv, FinalizersNamed,
        Finalizers
  <1>7. CommittedStaged'
    BY <1>1, <1>2, <1>3, <1>4 DEF Serial, CommittedStaged, Inv, CallsNamed
  <1>8. TodoStaged'
    BY <1>1, <1>2, <1>3, <1>4 DEF Serial, TodoStaged
  <1>9. AskedRows'
    BY <1>1, <1>2, <1>3, <1>4 DEF Serial, AskedRows, Inv, AnswersOK
  <1>10. TodoAsked'
    BY <1>1, <1>2, <1>3, <1>4 DEF Serial, TodoAsked
  <1>11. DeletingAsked'
    BY <1>1, <1>2, <1>3, <1>4 DEF Serial, DeletingAsked
  <1>12. FinalRows'
    BY <1>1, <1>2, <1>3, <1>4 DEF Serial, FinalRows, Final, Lasting
  <1>13. ActiveFinal'
    BY <1>1, <1>2, <1>3, <1>4 DEF Serial, ActiveFinal, Final
  <1>14. CopiedFinal'
    BY <1>1, <1>2, <1>3, <1>4 DEF Serial, CopiedFinal, Final, Inv,
        FinalizersNamed
  <1>15. ObjectRows'
    BY <1>1, <1>2, <1>3, <1>4 DEF Serial, ObjectRows, Lasting
  <1>16. OrphanFinal'
    BY <1>1, <1>2, <1>3, <1>4 DEF Serial, OrphanFinal
  <1>17. AckedActive'
    BY <1>1, <1>2, <1>3, <1>4 DEF Serial, AckedActive, Inv, AnswersOK
  <1>18. UncopiedFinal'
    BY <1>1, <1>2, <1>3, <1>4 DEF Serial, UncopiedFinal, Final, Inv,
        FinalizersNamed
  <1>19. ErasedFinal'
    BY <1>1, <1>2, <1>3, <1>4 DEF Serial, ErasedFinal, Final, Inv,
        ErasersNamed
  <1>20. CreditedGone'
    BY <1>1, <1>2, <1>3, <1>4 DEF Serial, CreditedGone, Final
  <1> QED  BY <1>5, <1>6, <1>7, <1>8, <1>9, <1>10, <1>11, <1>12, <1>13, <1>14,
      <1>15, <1>16, <1>17, <1>18, <1>19, <1>20
      DEF Serial, ErasersAsked, CreditedOnce, AskedNotLost, RecoverUploading

LEMMA ListStagedSerial ==
    ASSUME ~Overlap, Inv, Serial, ListStaged
    PROVE  Serial'
  <1>1. /\ cl'.phase = "staged" /\ cl'.todo = Listed("staged")
        /\ cl'.objs = cl.objs /\ cl'.cur = cl.cur
    BY DEF Inv, PassOK, Pass, BeginPhase, ListStaged
  <1>2. fin[Cleaner].pc = "idle" /\ \A a \in Attempts : up[a].pc \notin {"committed", "finalizing"}
    BY DEF PhaseOver, ListStaged
  <1>3. PhaseQuiet'
    BY <1>1, <1>2 DEF Serial, PhaseQuiet, ListStaged
  <1>4. CleanerSole'
    BY <1>1, <1>2 DEF Serial, CleanerSole, ListStaged
  <1>5. TodoStaged'
    BY <1>1, <1>2 DEF Serial, TodoStaged, Listed, ListStaged
  <1>6. TodoAsked'
    BY <1>1, <1>2 DEF Serial, TodoAsked, ListStaged
  <1>7. ObjectRows'
    BY <1>1, <1>2 DEF Serial, ObjectRows, Lasting, ListStaged
  <1>8. OrphanFinal'
    BY <1>1, <1>2 DEF Serial, OrphanFinal, ListStaged
  <1> QED  BY <1>3, <1>4, <1>5, <1>6, <1>7, <1>8
      DEF Serial, CommittedStaged, AskedRows, ErasersAsked, DeletingAsked,
          FinalRows, Final, Lasting, ActiveFinal, CopiedFinal, AckedActive,
          UncopiedFinal, ErasedFinal, CreditedGone, CreditedOnce,
          AskedNotLost, ListStaged

LEMMA RecoverStagedSerial ==
    ASSUME Inv, Serial, NEW f \in Files, RecoverStaged(f)
    PROVE  Serial'
  <1>1. /\ cl.phase = "staged" /\ cl'.phase = "staged" /\ cl'.todo = cl.todo \ {f}
        /\ cl'.objs = cl.objs /\ cl'.cur = cl.cur /\ f \in cl.todo
    BY DEF Inv, PassOK, Pass, RecoverStaged
  <1>2. /\ fin'[Cleaner].pc = "check" /\ fin'[Cleaner].file = f
        /\ \A q \in Finalizers : q # Cleaner => fin'[q] = fin[q]
    BY DEF Inv, FinalizersOK, Finalizers, RecoverStaged
  <1>3. PhaseQuiet'
    BY <1>1, <1>2 DEF Serial, PhaseQuiet, RecoverStaged
  <1>4. CleanerSole'
    BY <1>1, <1>2 DEF Serial, CleanerSole, TodoStaged, RecoverStaged
  <1>5. TodoStaged'
    BY <1>1, <1>2 DEF Serial, TodoStaged, RecoverStaged
  <1>6. TodoAsked'
    BY <1>1, <1>2 DEF Serial, TodoAsked, RecoverStaged
  <1>7. CopiedFinal'
    BY <1>1, <1>2 DEF Serial, CopiedFinal, Final, RecoverStaged
  <1>8. ObjectRows'
    BY <1>1, <1>2 DEF Serial, ObjectRows, Lasting, RecoverStaged
  <1>9. OrphanFinal'
    BY <1>1, <1>2 DEF Serial, OrphanFinal, RecoverStaged
  <1>10. UncopiedFinal'
    BY <1>1, <1>2 DEF Serial, UncopiedFinal, Final, RecoverStaged
  <1> QED  BY <1>3, <1>4, <1>5, <1>6, <1>7, <1>8, <1>9, <1>10
      DEF Serial, CommittedStaged, AskedRows, ErasersAsked, DeletingAsked,
          FinalRows, Final, Lasting, ActiveFinal, AckedActive, ErasedFinal,
          CreditedGone, CreditedOnce, AskedNotLost, RecoverStaged

LEMMA ListDeletingSerial ==
    ASSUME Inv, Serial, ListDeleting
    PROVE  Serial'
  <1>1. /\ cl'.phase = "deleting" /\ cl'.todo = Listed("deleting")
        /\ cl'.objs = cl.objs /\ cl'.cur = cl.cur
    BY DEF Inv, PassOK, Pass, BeginPhase, ListDeleting
  <1>2. fin[Cleaner].pc = "idle"
    BY DEF PhaseOver, ListDeleting
  <1>3. PhaseQuiet'
    BY <1>1, <1>2 DEF Serial, PhaseQuiet, ListDeleting
  <1>4. CleanerSole'
    BY <1>1, <1>2 DEF Serial, CleanerSole, ListDeleting
  <1>5. TodoStaged'
    BY <1>1, <1>2 DEF Serial, TodoStaged, ListDeleting
  <1>6. TodoAsked'
    BY <1>1, <1>2 DEF Serial, TodoAsked, Listed, DeletingAsked, ListDeleting
  <1>7. ObjectRows'
    BY <1>1, <1>2 DEF Serial, ObjectRows, Lasting, ListDeleting
  <1>8. OrphanFinal'
    BY <1>1, <1>2 DEF Serial, OrphanFinal, ListDeleting
  <1> QED  BY <1>3, <1>4, <1>5, <1>6, <1>7, <1>8
      DEF Serial, CommittedStaged, AskedRows, ErasersAsked, DeletingAsked,
          FinalRows, Final, Lasting, ActiveFinal, CopiedFinal, AckedActive,
          UncopiedFinal, ErasedFinal, CreditedGone, CreditedOnce,
          AskedNotLost, ListDeleting

LEMMA RecoverDeletingSerial ==
    ASSUME Inv, Serial, NEW f \in Files, RecoverDeleting(f)
    PROVE  Serial'
  <1>1. /\ cl.phase = "deleting" /\ cl'.phase = "deleting" /\ cl'.todo = cl.todo \ {f}
        /\ cl'.objs = cl.objs /\ cl'.cur = cl.cur /\ f \in cl.todo
    BY DEF Inv, PassOK, Pass, RecoverDeleting
  <1>2. /\ era'[Cleaner].pc = "purge" /\ era'[Cleaner].file = f
        /\ \A q \in Erasers : q # Cleaner => era'[q] = era[q]
    BY DEF Inv, ErasersOK, Erasers, RecoverDeleting
  <1>3. PhaseQuiet'
    BY <1>1, <1>2 DEF Serial, PhaseQuiet, RecoverDeleting
  <1>4. CleanerSole'
    BY <1>1, <1>2 DEF Serial, CleanerSole, RecoverDeleting
  <1>5. TodoStaged'
    BY <1>1, <1>2 DEF Serial, TodoStaged, RecoverDeleting
  <1>6. ErasersAsked'
    BY <1>1, <1>2 DEF Serial, ErasersAsked, TodoAsked, RecoverDeleting
  <1>7. TodoAsked'
    BY <1>1, <1>2 DEF Serial, TodoAsked, RecoverDeleting
  <1>8. ObjectRows'
    BY <1>1, <1>2 DEF Serial, ObjectRows, Lasting, RecoverDeleting
  <1>9. OrphanFinal'
    BY <1>1, <1>2 DEF Serial, OrphanFinal, RecoverDeleting
  <1>10. ErasedFinal'
    BY <1>1, <1>2 DEF Serial, ErasedFinal, Final, RecoverDeleting
  <1> QED  BY <1>3, <1>4, <1>5, <1>6, <1>7, <1>8, <1>9, <1>10
      DEF Serial, CommittedStaged, AskedRows, DeletingAsked, FinalRows, Final,
          Lasting, ActiveFinal, CopiedFinal, AckedActive, UncopiedFinal,
          CreditedGone, CreditedOnce, AskedNotLost, RecoverDeleting

LEMMA ListObjectsSerial ==
    ASSUME Inv, Serial, ListObjects
    PROVE  Serial'
  <1>1. cl'.phase = "orphans" /\ cl'.objs = blobs /\ cl'.cur = cl.cur
    BY DEF Inv, PassOK, Pass, ListObjects
  <1>2. fin[Cleaner].pc = "idle"
    BY DEF PhaseOver, ListObjects
  <1>3. PhaseQuiet'
    BY <1>1, <1>2 DEF Serial, PhaseQuiet, ListObjects
  <1>4. CleanerSole'
    BY <1>1, <1>2 DEF Serial, CleanerSole, ListObjects
  <1>5. TodoStaged'
    BY <1>1, <1>2 DEF Serial, TodoStaged, ListObjects
  <1>6. TodoAsked'
    BY <1>1, <1>2 DEF Serial, TodoAsked, ListObjects
  <1>7. ObjectRows'
    BY <1>1, <1>2 DEF Serial, ObjectRows, Lasting, FinalRows, Final,
        ListObjects
  <1>8. OrphanFinal'
    BY <1>1, <1>2 DEF Serial, OrphanFinal, ListObjects
  <1> QED  BY <1>3, <1>4, <1>5, <1>6, <1>7, <1>8
      DEF Serial, CommittedStaged, AskedRows, ErasersAsked, DeletingAsked,
          FinalRows, Final, Lasting, ActiveFinal, CopiedFinal, AckedActive,
          UncopiedFinal, ErasedFinal, CreditedGone, CreditedOnce,
          AskedNotLost, ListObjects

LEMMA JudgeObjectSerial ==
    ASSUME Inv, Serial, NEW k \in Keys, JudgeObject(k)
    PROVE  Serial'
  <1>1. /\ cl'.phase = "orphans" /\ cl'.objs \subseteq cl.objs /\ k \in cl.objs
        /\ (cl'.cur = None \/ (cl'.cur = k /\ Orphaned(k)))
        /\ cl.phase = "orphans"
    BY DEF Inv, PassOK, Pass, JudgeObject
  <1>2. PhaseQuiet'
    BY <1>1 DEF Serial, PhaseQuiet, JudgeObject
  <1>3. CleanerSole'
    BY <1>1 DEF Serial, CleanerSole, JudgeObject
  <1>4. TodoStaged'
    BY <1>1 DEF Serial, TodoStaged, JudgeObject
  <1>5. TodoAsked'
    BY <1>1 DEF Serial, TodoAsked, JudgeObject
  <1>6. ObjectRows'
    BY <1>1 DEF Serial, ObjectRows, Lasting, JudgeObject
  <1>7. OrphanFinal'
    <2> SUFFICES ASSUME NEW f \in Files, cl'.cur = <<f, "final">>
                 PROVE  file[f].status = "deleted"
      BY DEF OrphanFinal, JudgeObject
    <2>1. k = <<f, "final">> /\ Orphaned(k)
      BY <1>1, StorageAssumption
    <2>2. file[f].status # "absent"
      BY <1>1, <2>1 DEF Serial, ObjectRows, Lasting
    <2> QED  BY <2>1, <2>2, StorageAssumption DEF Orphaned
  <1> QED  BY <1>2, <1>3, <1>4, <1>5, <1>6, <1>7
      DEF Serial, CommittedStaged, AskedRows, ErasersAsked, DeletingAsked,
          FinalRows, Final, Lasting, ActiveFinal, CopiedFinal, AckedActive,
          UncopiedFinal, ErasedFinal, CreditedGone, CreditedOnce,
          AskedNotLost, JudgeObject

LEMMA RemoveOrphanSerial ==
    ASSUME Inv, Serial, RemoveOrphan
    PROVE  Serial'
  <1>1. /\ cl'.phase = cl.phase /\ cl'.todo = cl.todo /\ cl'.objs = cl.objs
        /\ cl'.cur = None
    BY DEF Inv, PassOK, Pass, RemoveOrphan
  <1>2. /\ blobs' \subseteq blobs
        /\ \A g \in Files : file[g].status # "deleted"
             => ((<<g, "final">> \in blobs') <=> (<<g, "final">> \in blobs))
    BY DEF Serial, OrphanFinal, RemoveOrphan
  <1>3. file' = file /\ fin' = fin /\ era' = era /\ credits' = credits
        /\ requested' = requested /\ up' = up
    BY DEF RemoveOrphan
  <1>4. PhaseQuiet'
    BY <1>1, <1>2, <1>3 DEF Serial, PhaseQuiet
  <1>5. CleanerSole'
    BY <1>1, <1>2, <1>3 DEF Serial, CleanerSole
  <1>6. TodoStaged'
    BY <1>1, <1>2, <1>3 DEF Serial, TodoStaged
  <1>7. TodoAsked'
    BY <1>1, <1>2, <1>3 DEF Serial, TodoAsked
  <1>8. FinalRows'
    BY <1>1, <1>2, <1>3 DEF Serial, FinalRows, Final, Lasting
  <1>9. ActiveFinal'
    BY <1>1, <1>2, <1>3 DEF Serial, ActiveFinal, Final
  <1>10. CopiedFinal'
    <2>1. \A q \in Finalizers : fin[q].pc # "idle"
            => fin[q].file \in Files /\ file[fin[q].file].status = "staged"
      BY Sole
    <2> QED  BY <1>2, <1>3, <2>1 DEF Serial, CopiedFinal, Final
  <1>11. ObjectRows'
    BY <1>1, <1>2, <1>3 DEF Serial, ObjectRows, Lasting
  <1>12. OrphanFinal'
    BY <1>1, <1>2, <1>3, StorageAssumption DEF Serial, OrphanFinal
  <1>13. UncopiedFinal'
    BY <1>1, <1>2, <1>3 DEF Serial, UncopiedFinal, Final
  <1>14. ErasedFinal'
    BY <1>1, <1>2, <1>3 DEF Serial, ErasedFinal, Final
  <1>15. CreditedGone'
    BY <1>1, <1>2, <1>3 DEF Serial, CreditedGone, Final
  <1> QED  BY <1>4, <1>5, <1>6, <1>7, <1>8, <1>9, <1>10, <1>11, <1>12, <1>13,
      <1>14, <1>15
      DEF Serial, CommittedStaged, AskedRows, ErasersAsked, DeletingAsked,
          AckedActive, CreditedOnce, AskedNotLost, RemoveOrphan

LEMMA EndPassSerial ==
    ASSUME Inv, Serial, EndPass
    PROVE  Serial'
  <1>1. cl'.phase = "idle" /\ cl'.objs = {} /\ cl'.cur = None
    BY DEF NoPass, EndPass
  <1>2. fin[Cleaner].pc = "idle"
    BY DEF PhaseOver, EndPass
  <1>3. PhaseQuiet'
    BY <1>1, <1>2 DEF Serial, PhaseQuiet, EndPass
  <1>4. CleanerSole'
    BY <1>1, <1>2 DEF Serial, CleanerSole, EndPass
  <1>5. TodoStaged'
    BY <1>1, <1>2 DEF Serial, TodoStaged, EndPass
  <1>6. TodoAsked'
    BY <1>1, <1>2 DEF Serial, TodoAsked, EndPass
  <1>7. ObjectRows'
    BY <1>1, <1>2 DEF Serial, ObjectRows, Lasting, EndPass
  <1>8. OrphanFinal'
    BY <1>1, <1>2, StorageAssumption DEF Serial, OrphanFinal, EndPass
  <1> QED  BY <1>3, <1>4, <1>5, <1>6, <1>7, <1>8
      DEF Serial, CommittedStaged, AskedRows, ErasersAsked, DeletingAsked,
          FinalRows, Final, Lasting, ActiveFinal, CopiedFinal, AckedActive,
          UncopiedFinal, ErasedFinal, CreditedGone, CreditedOnce,
          AskedNotLost, EndPass

LEMMA CrashSerial ==
    ASSUME Inv, Serial, Crash
    PROVE  Serial'
  <1>1. \A p \in Finalizers : fin'[p].pc = "idle"
    BY DEF NoFin, Crash
  <1>2. \A p \in Erasers : era'[p].pc = "idle"
    BY DEF NoEra, Crash
  <1>3. cl'.phase = "idle" /\ cl'.objs = {} /\ cl'.cur = None
    BY DEF NoPass, Crash
  <1>4. \A a \in Attempts : up'[a].pc \notin {"committed", "finalizing"}
    BY DEF Inv, UploadsOK, Upload, Crash
  <1>5. UNCHANGED <<token, file, blobs, quota, credits, acked, requested>>
    BY DEF Crash
  <1>6. PhaseQuiet'
    BY <1>1, <1>2, <1>3, <1>4, <1>5 DEF Serial, PhaseQuiet
  <1>7. CleanerSole'
    BY <1>1, <1>2, <1>3, <1>4, <1>5 DEF Serial, CleanerSole, Finalizers
  <1>8. CommittedStaged'
    BY <1>1, <1>2, <1>3, <1>4, <1>5 DEF Serial, CommittedStaged
  <1>9. TodoStaged'
    BY <1>1, <1>2, <1>3, <1>4, <1>5 DEF Serial, TodoStaged
  <1>10. ErasersAsked'
    BY <1>1, <1>2, <1>3, <1>4, <1>5 DEF Serial, ErasersAsked
  <1>11. TodoAsked'
    BY <1>1, <1>2, <1>3, <1>4, <1>5 DEF Serial, TodoAsked
  <1>12. CopiedFinal'
    BY <1>1, <1>2, <1>3, <1>4, <1>5 DEF Serial, CopiedFinal, Final
  <1>13. ObjectRows'
    BY <1>1, <1>2, <1>3, <1>4, <1>5 DEF Serial, ObjectRows, Lasting
  <1>14. OrphanFinal'
    BY <1>1, <1>2, <1>3, <1>4, <1>5, StorageAssumption DEF Serial, OrphanFinal
  <1>15. UncopiedFinal'
    BY <1>1, <1>2, <1>3, <1>4, <1>5 DEF Serial, UncopiedFinal, Final
  <1>16. ErasedFinal'
    BY <1>1, <1>2, <1>3, <1>4, <1>5 DEF Serial, ErasedFinal, Final
  <1> QED  BY <1>6, <1>7, <1>8, <1>9, <1>10, <1>11, <1>12, <1>13, <1>14,
      <1>15, <1>16
      DEF Serial, AskedRows, DeletingAsked, FinalRows, Final, Lasting,
          ActiveFinal, AckedActive, CreditedGone, CreditedOnce, AskedNotLost,
          Crash

----------------------------------------------------------------------------
(* The serial invariant holds, and what it implies                         *)

(* Every step keeps the serial part of the invariant.                       *)
LEMMA SerialStart == Init => Serial
  <1> SUFFICES ASSUME Init PROVE Serial
    OBVIOUS
  <1>1. PhaseQuiet /\ CleanerSole /\ CommittedStaged /\ TodoStaged
    BY StorageAssumption DEF Init, PhaseQuiet, CleanerSole, CommittedStaged, TodoStaged, NoPass,
        NoFin, NoUpload, Finalizers
  <1>2. AskedRows /\ ErasersAsked /\ TodoAsked /\ DeletingAsked
    BY DEF Init, AskedRows, ErasersAsked, TodoAsked, DeletingAsked, NoEra,
        NoPass, NoFile
  <1>3. FinalRows /\ ActiveFinal /\ CopiedFinal /\ ObjectRows /\ AckedActive
    BY DEF Init, FinalRows, ActiveFinal, CopiedFinal, ObjectRows, AckedActive,
        Final, NoFile, NoFin, NoPass
  <1>4. OrphanFinal
    BY StorageAssumption DEF Init, OrphanFinal, NoPass
  <1>5. /\ UncopiedFinal /\ ErasedFinal /\ CreditedGone /\ CreditedOnce
        /\ AskedNotLost
    BY DEF Init, UncopiedFinal, ErasedFinal, CreditedGone, CreditedOnce,
        AskedNotLost, NoFin, NoEra
  <1> QED  BY <1>1, <1>2, <1>3, <1>4, <1>5 DEF Serial

LEMMA SerialSteps ==
    ASSUME ~Overlap PROVE Inv /\ Serial /\ [Next]_vars => Serial'
  <1> SUFFICES ASSUME Inv, Serial, [Next]_vars PROVE Serial'
    OBVIOUS
  <1>1. CASE UNCHANGED vars
    BY <1>1 DEF Serial, PhaseQuiet, CleanerSole, CommittedStaged, TodoStaged,
        AskedRows, ErasersAsked, TodoAsked, DeletingAsked, FinalRows, Final,
        Lasting, ActiveFinal, CopiedFinal, ObjectRows, OrphanFinal,
        AckedActive, UncopiedFinal, ErasedFinal, CreditedGone, CreditedOnce,
        AskedNotLost, vars
  <1>2. ASSUME NEW f \in Files,
               \/ GenerateUploadURL(f) \/ Delete(f) \/ EncodeThumb(f)
               \/ ThumbStep(f) \/ TimeStep(f)
        PROVE  Serial'
    BY <1>2, GenerateUploadURLSerial, DeleteSerial, EncodeThumbSerial,
        PersistThumbSerial, RecheckThumbSerial, LeaseLapsesSerial,
        ClaimLapsesSerial, TokenExpiresSerial
       DEF ThumbStep, TimeStep
  <1>3. ASSUME NEW a \in Attempts, UploadStep(a) PROVE Serial'
    BY <1>3, ClaimTokenSerial, ReserveUploadSerial, RefuseUploadSerial,
        ReserveQuotaSerial, GiveUpEarlySerial, RenewLeaseSerial,
        PersistStagedBlobSerial, PersistFailsSerial, RejectStoredSerial,
        CommitUploadSerial, CommitFailsSerial, SettleQuotaSerial
       DEF UploadStep
  <1>4. ASSUME NEW p \in Finalizers, FinalizeStep(p) PROVE Serial'
    BY <1>4, FinalExistsSerial, CopyToFinalSerial, FinalizeFailsSerial,
        DeleteStageSerial, SaveActiveSerial, MarkFileLostSerial
       DEF FinalizeStep
  <1>5. ASSUME NEW p \in Erasers, EraseStep(p) PROVE Serial'
    BY <1>5, DeletePrefixSerial, SaveDeletedSerial DEF EraseStep
  <1>6. CASE CleanerStep
    BY <1>6, ListUploadingSerial, ListStagedSerial, ListDeletingSerial,
        ListObjectsSerial, EndPassSerial, RecoverUploadingSerial,
        RecoverStagedSerial, RecoverDeletingSerial, JudgeObjectSerial,
        RemoveOrphanSerial
       DEF CleanerStep
  <1>7. CASE Crash
    BY <1>7, CrashSerial
  <1> QED  BY <1>1, <1>2, <1>3, <1>4, <1>5, <1>6, <1>7 DEF Next

(* With Overlap = FALSE: finalizations are serial, erasures were asked for, *)
(* originals exist from copy to deletion, reports follow the bytes.        *)
THEOREM SerialInvariance == ASSUME ~Overlap PROVE Spec => []Serial
  BY SerialStart, SerialSteps, Invariance, PTL DEF Spec

(* An upload answered with success stays active and downloadable until its  *)
(* deletion is committed, across crashes, lost writes and cleanup passes,   *)
(* as long as no cleanup pass meets an upload that finalizes.              *)
THEOREM FilesLastTheorem == ASSUME ~Overlap PROVE Spec => []FilesLastUntilDeleted
  <1>1. Inv /\ Serial => FilesLastUntilDeleted
    BY DEF Inv, AnswersOK, Serial, AckedActive, ActiveFinal, Final,
        FilesLastUntilDeleted
  <1> QED  BY <1>1, Invariance, SerialInvariance, PTL

(* A file is credited at the host under one identity at most, and never     *)
(* while its original is stored, under the same condition.                 *)
THEOREM NeverOverCreditedTheorem == ASSUME ~Overlap PROVE Spec => []NeverOverCredited
  <1>1. Serial => NeverOverCredited
    BY DEF Serial, CreditedGone, CreditedOnce, Final, NeverOverCredited
  <1> QED  BY <1>1, SerialInvariance, PTL
============================================================================
