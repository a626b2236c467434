---------------------------- MODULE FolderSyncProps ----------------------------
(***************************************************************************)
(* What a sync pass promises about the mirror of one folder.               *)
(***************************************************************************)
EXTENDS FolderSync

Batch == [uids : SUBSET Uids, seen : SUBSET Uids]

Passes ==
  [opt : Options, sel : [validity : Nat, next : Nat, highest : Nat],
   replay : [answer : {"none", "complete", "partial", "refused"}, changed : Batch,
             vanished : SUBSET Uids],
   todo : SUBSET Uids, batches : Nat, read : Batch, reached : Nat, hit : BOOLEAN,
   applied : BOOLEAN, fallback : BOOLEAN, due : BOOLEAN, scanned : BOOLEAN,
   list : SUBSET Uids, window : SUBSET Uids, attempted : BOOLEAN, complete : BOOLEAN,
   clean : BOOLEAN]

Folders ==
  [validity : Nat \cup {None}, next : Nat \cup {None}, last : Nat, complete : BOOLEAN,
   target : Nat \cup {None}, oldest : Nat \cup {None}, highest : Nat \cup {None},
   qresync : Nat \cup {None}, clean : BOOLEAN, due : BOOLEAN]

(* Every variable keeps its type, and a row is never both live and         *)
(* tombstoned (the deleted_in_provider column of repository.ts).           *)
TypeOK ==
  /\ pValidity \in Nat /\ pNext \in Nat \ {0} /\ pHighest \in Nat
  /\ pHere \in SUBSET Uids /\ pOld \in SUBSET pHere /\ pSeen \in SUBSET pHere
  /\ pMod \in [Uids -> Nat]
  /\ folder \in Folders /\ pass \in Passes /\ head \in [validity : Nat, next : Nat, top : Nat]
  /\ live \in SUBSET Uids /\ missing \in SUBSET Uids /\ live \cap missing = {}
  /\ seen \in SUBSET Uids

(* The folder row and its snapshot are of the mailbox's current generation. *)
Current == folder.validity \in {None, pValidity} /\ head.validity = pValidity

(* Mail the live lane owes a row: inside the window, or new since the      *)
(* initial snapshot whatever its date.  The rest is the history lane's.    *)
Owed == {u \in pHere : u \notin pOld \/ u > head.top}

(* Incremental sync starts above last_uid, so no owed message at or below  *)
(* it may be without a row, however passes are cut, resumed or capped      *)
(* (syncFolder, spec 10.4 and 10.5).                                       *)
NothingSkipped ==
  Current /\ folder.complete => \A u \in Owed : u <= folder.last => u \in Mirrored

(* A stored UIDNEXT promises that nothing below it is still unfetched new  *)
(* mail (reachedUidNext).                                                  *)
UidNextPromise ==
  Current /\ folder.complete => \A u \in Owed : u < folder.next => u \in Mirrored

(* While the initial sync runs, what lies between the watermark and the    *)
(* snapshot's top, and between the snapshot and the live head, is mirrored *)
(* (runInitialSyncBatch: a crash resumes without a gap).                   *)
InitialGapFree ==
  Current /\ ~folder.complete /\ folder.target # None =>
    \A u \in Owed : \/ u > Larger(folder.target, folder.last)
                    \/ u < folder.oldest /\ u <= folder.target
                    \/ u \in Mirrored

(* A stored highest_modseq means every flag change up to it is in the      *)
(* mirror, for rows inside the window (the four reasons to read flags).    *)
FlagCursorHonest ==
  Current /\ folder.highest # None =>
    \A u \in live \cap InWindow :
      u <= folder.last /\ pMod[u] <= folder.highest => (u \in seen <=> u \in pSeen)

(* A stored qresync_highest_modseq means every expunge up to it is in the  *)
(* mirror, rows committed above last_uid by a failed pass included.        *)
ExpungeCursorHonest ==
  Current /\ folder.qresync # None => \A u \in live \ pHere : pMod[u] > folder.qresync

(* markFoldersVerifiedUnchanged, against the status the server reports     *)
(* now: the cursors still match and the last exact audit was clean.        *)
VerifiedUnchanged_ReplayOnly ==
  /\ folder.complete /\ folder.clean /\ folder.validity = pValidity /\ folder.next = pNext
  /\ folder.qresync = pHighest
VerifiedUnchanged ==
  /\ folder.complete /\ folder.clean /\ folder.validity = pValidity /\ folder.next = pNext
  /\ folder.highest = pHighest /\ folder.qresync = pHighest

(* When a LIST-STATUS answer proves a folder unchanged, the mirror holds   *)
(* no expunged message, shows the window's flags, and misses no owed       *)
(* message if the initial snapshot was of this generation                  *)
(* (recordUnchangedFolders).                                               *)
UnchangedProofSound ==
  VerifiedUnchanged =>
    /\ live \subseteq pHere
    /\ head.validity = pValidity => Owed \subseteq Mirrored
    /\ \A u \in live \cap InWindow : u \in seen <=> u \in pSeen

(* The reconcile and the replay tombstone no message the provider still    *)
(* has, unless the listing was short and an expunge after SELECT made its  *)
(* size match (reconcileFolderUids: "or nothing changes").                 *)
ExpungedSinceSelect == \E u \in Uids : u < pNext /\ u \notin pHere /\ pMod[u] > pass.sel.highest
NoWrongTombstone ==
  [][(Tombstone \/ markVanishedMessages) /\ ~ExpungedSinceSelect
       => live \cap pHere \subseteq live']_vars

-------------------------------------------------------------------------------
(* What passes bring about.  Fairness: the worker keeps stepping a running *)
(* pass, time passes, and the rotation keeps giving the folder a pass with *)
(* a reconcile slot (getFoldersDueForSync and the pass's reconcile budget). *)
Fairness ==
  /\ WF_vars(PassStep) /\ WF_vars(AuditFallsDue)
  /\ SF_vars(StartPass /\ pass'.opt.allowReconcile)
FairSpec == Spec /\ Fairness

(* A pass is cut off when it ends by a step its own code does not explain. *)
CutOff == Fail /\ ~PassStep
Interrupted == CutOff \/ \E u \in live : markMessageGone(u)
CutShort == (Tombstone /\ ~pass'.complete) \/ (Revive /\ Revivable \cap missing' # {})

(* Once passes stop failing and reconciles finish their writes, the mirror *)
(* of a quiet mailbox ends up exact: no expunged row stays live and no     *)
(* window message stays without a live row, a wrong tombstone included.    *)
MirrorConverges ==
  <>[][~Interrupted /\ ~CutShort]_vars => <>[](live \subseteq pHere /\ InWindow \subseteq live)

(* Flags follow too, without a reconcile ever having to finish.            *)
FlagsConverge ==
  <>[][~Interrupted]_vars => <>[](\A u \in live \cap InWindow : u \in seen <=> u \in pSeen)

(* Mail does not need the reconcile: any pass that runs to its end takes   *)
(* at least one batch, so every owed message gets its row.                 *)
MailArrives == <>[][~CutOff]_vars => <>[](Owed \subseteq Mirrored)

-------------------------------------------------------------------------------
(* The documents' stronger sentences, which the code does not keep.        *)

(* ADR 0039: a UID at or above the UIDNEXT of the first snapshot is new    *)
(* mail whatever its date, so one at or below last_uid has a row.          *)
NewUidIsNewMail ==
  Current /\ folder.complete =>
    \A u \in pHere : head.next <= u /\ u <= folder.last => u \in Mirrored

(* "UIDVALIDITY changes invalidate prior UID references for that folder":  *)
(* a completed initial sync used a snapshot of the generation it mirrors.  *)
SnapshotOfGeneration == folder.complete => head.validity = folder.validity
===============================================================================
