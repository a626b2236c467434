------------------------------ MODULE FolderSync ------------------------------
(***************************************************************************)
(* One tracked folder of one Mailbox Account against its IMAP mailbox.     *)
(*                                                                         *)
(* The provider's mailbox changes on its own: mail arrives, other clients  *)
(* change flags and expunge, the mailbox is recreated under a new          *)
(* UIDVALIDITY.  SupaMail runs at most one sync pass at a time over the    *)
(* folder (the account lock, module AccountLock); a pass reads the         *)
(* provider and commits rows and cursors in separate transactions, and may *)
(* die between any two of them.  Beside the pass, the body lane tombstones *)
(* a row whose body fetch came back empty.                                 *)
(*                                                                         *)
(* A step of this module is one provider response or one committed         *)
(* transaction of syncFolder / runInitialSyncBatch; the provider may move  *)
(* between any two steps.                                                  *)
(***************************************************************************)
EXTENDS Integers, FiniteSets

CONSTANTS
  MaxUid,          \* UIDs of one mailbox generation are 1..MaxUid
  MaxValidity,     \* bound on mailbox generations (UIDVALIDITY values)
  MaxModseq,       \* bound on provider changes within one generation
  Changes,         \* the kinds of provider change explored besides new mail
  PassOptions,     \* the options syncAccount passes to syncFolder
  InitialBatch,    \* INITIAL_SYNC_BATCH_SIZE
  IncrementalBatch,\* INCREMENTAL_SYNC_BATCH_SIZE
  BatchesPerPass,  \* MAX_INCREMENTAL_BATCHES_PER_PASS
  MissingLimit,    \* RECONCILE_MISSING_UID_LIMIT
  ShortLists,      \* the provider may answer SEARCH ALL with part of the folder
  TransientMisses  \* a body fetch may miss a message that still exists

ASSUME BoundsAssumption ==
  /\ MaxUid \in Nat /\ MaxValidity \in Nat /\ MaxModseq \in Nat
  /\ InitialBatch \in Nat \ {0} /\ IncrementalBatch \in Nat \ {0}
  /\ BatchesPerPass \in Nat \ {0} /\ MissingLimit \in Nat \ {0}
  /\ Changes \subseteq {"oldMail", "flag", "expunge", "age"}
  /\ ShortLists \in BOOLEAN /\ TransientMisses \in BOOLEAN

Options == [allowReconcile : BOOLEAN, allowFlagScan : BOOLEAN, allowFlagDelta : BOOLEAN,
            qresyncCatchUp : BOOLEAN, forceReconcile : BOOLEAN,
            forceAuthoritativeReconcile : BOOLEAN, forceFlagScan : BOOLEAN,
            enforceLockDeadline : BOOLEAN]

ASSUME OptionsAssumption == PassOptions \subseteq Options

Uids == 1..MaxUid
None == -1          \* SQL NULL of a numeric column

VARIABLES
  \* the provider's mailbox
  pValidity,        \* UIDVALIDITY
  pNext,            \* UIDNEXT
  pHere,            \* UIDs in the mailbox
  pOld,             \* UIDs whose INTERNALDATE is before the account's window
  pSeen,            \* UIDs whose flag is set
  pMod,             \* MODSEQ of each UID's last change, its expunge included
  pHighest,         \* HIGHESTMODSEQ
  \* the mirror
  folder,           \* the imap_folders row
  live,             \* UIDs of this generation with a row not deleted_in_provider
  missing,          \* UIDs of this generation tombstoned RECONCILE_MISSING
  seen,             \* UIDs whose row has the flag
  \* the pass
  pc, pass,
  \* history, read by no action: the generation, UIDNEXT and highest UID of the
  \* initial snapshot
  head

provider == <<pValidity, pNext, pHere, pOld, pSeen, pMod, pHighest>>
rows     == <<live, missing, seen>>
vars     == <<provider, folder, rows, pc, pass, head>>

InWindow == pHere \ pOld        \* what SEARCH SINCE windowCutoff answers
Mirrored == live \cup missing

IsMax(m, S) == m \in S /\ \A x \in S : x <= m

(* b is the next batch of at most n UIDs of S, in the order the pass takes *)
(* them: oldest first, or newest first.                                    *)
OldestFirst(b, S, n) ==
  /\ b # {} /\ \A x \in b, y \in S \ b : x < y
  /\ Cardinality(b) = IF Cardinality(S) < n THEN Cardinality(S) ELSE n
NewestFirst(b, S, n) ==
  /\ b # {} /\ \A x \in b, y \in S \ b : x > y
  /\ Cardinality(b) = IF Cardinality(S) < n THEN Cardinality(S) ELSE n

Larger(a, b) == IF a >= b THEN a ELSE b

(* The UIDNEXT a pass that mirrored everything up to lastUid may store.    *)
reachedUidNext(uidNext, lastUid) == IF lastUid >= uidNext - 1 THEN uidNext ELSE lastUid + 1

NoRead == [uids |-> {}, seen |-> {}]
NoReplay == [answer |-> "none", changed |-> NoRead, vanished |-> {}]
NoSelect == [validity |-> 0, next |-> 1, highest |-> 0]
NoOptions == [o \in {"allowReconcile", "allowFlagScan", "allowFlagDelta", "qresyncCatchUp",
                     "forceReconcile", "forceAuthoritativeReconcile", "forceFlagScan",
                     "enforceLockDeadline"} |-> FALSE]

(* The local variables of syncFolder and runInitialSyncBatch.              *)
NewPass(o) ==
  [opt |-> o, sel |-> NoSelect, replay |-> NoReplay,
   todo |-> {},          \* listed UIDs this pass has not written yet
   batches |-> 0,        \* incremental batches done
   read |-> NoRead,      \* the last provider answer, not written yet
   reached |-> 0,        \* lastProcessedUid
   hit |-> FALSE,        \* hitLockBudget
   applied |-> FALSE,    \* qresyncApplied
   fallback |-> FALSE,   \* qresyncFallbackRequired
   due |-> FALSE,        \* scheduledReconcileDue
   scanned |-> FALSE,    \* flagScanAttempted
   list |-> {},          \* SEARCH ALL of the reconcile
   window |-> {},        \* SEARCH SINCE of the reconcile, and of the initial pass
   attempted |-> FALSE,  \* reconcileAttempted
   complete |-> FALSE,   \* reconcile.complete and not truncated
   clean |-> FALSE]      \* reconcileClean

NoPass == NewPass(NoOptions)

NoHead == [validity |-> 0, next |-> 1, top |-> 0]

NewFolder ==
  [validity |-> None, next |-> None, last |-> 0, complete |-> FALSE,
   target |-> None, oldest |-> None, highest |-> None, qresync |-> None,
   clean |-> FALSE, due |-> TRUE]

Init ==
  /\ pValidity = 1 /\ pNext = 1 /\ pHere = {} /\ pOld = {} /\ pSeen = {}
  /\ pMod = [u \in Uids |-> 0] /\ pHighest = 0
  /\ folder = NewFolder /\ live = {} /\ missing = {} /\ seen = {}
  /\ pc = "idle" /\ pass = NoPass /\ head = NoHead

-------------------------------------------------------------------------------
(* The provider (external): what an IMAP server with CONDSTORE may do.     *)

Touch(u) ==
  /\ pHighest < MaxModseq
  /\ pHighest' = pHighest + 1
  /\ pMod' = [pMod EXCEPT ![u] = pHighest + 1]

(* A message arrives: new mail, or old-dated mail moved or copied here.    *)
Arrive ==
  /\ pNext <= MaxUid /\ Touch(pNext)
  /\ pNext' = pNext + 1 /\ pHere' = pHere \cup {pNext}
  /\ \/ pOld' = pOld
     \/ "oldMail" \in Changes /\ pOld' = pOld \cup {pNext}
  /\ \/ pSeen' = pSeen
     \/ "flag" \in Changes /\ pSeen' = pSeen \cup {pNext}
  /\ UNCHANGED <<pValidity, folder, rows, pc, pass, head>>

Expunge(u) ==
  /\ "expunge" \in Changes /\ Touch(u)
  /\ pHere' = pHere \ {u} /\ pSeen' = pSeen \ {u} /\ pOld' = pOld \ {u}
  /\ UNCHANGED <<pValidity, pNext, folder, rows, pc, pass, head>>

ChangeFlag(u) ==
  /\ "flag" \in Changes /\ Touch(u)
  /\ pSeen' = IF u \in pSeen THEN pSeen \ {u} ELSE pSeen \cup {u}
  /\ UNCHANGED <<pValidity, pNext, pHere, pOld, folder, rows, pc, pass, head>>

(* The window's cutoff date passes a message.                              *)
AgeOut(u) ==
  /\ "age" \in Changes /\ u \notin pOld
  /\ pOld' = pOld \cup {u}
  /\ UNCHANGED <<pValidity, pNext, pHere, pSeen, pMod, pHighest, folder, rows, pc, pass, head>>

(* The mailbox is recreated while no session has it selected.              *)
Recreate ==
  /\ pc \in {"idle", "select"} /\ pValidity < MaxValidity
  /\ pValidity' = pValidity + 1 /\ pNext' = 1 /\ pHere' = {} /\ pOld' = {} /\ pSeen' = {}
  /\ pMod' = [u \in Uids |-> 0] /\ pHighest' = 0
  /\ UNCHANGED <<folder, rows, pc, pass, head>>

Provider == Arrive \/ Recreate \/ \E u \in pHere : Expunge(u) \/ ChangeFlag(u) \/ AgeOut(u)

-------------------------------------------------------------------------------
(* Transactions that several steps share.                                  *)

(* upsertMessages: insert or overwrite the batch's rows, live again, under *)
(* the folder's generation.                                                *)
GenerationHeld == folder.validity \in {None, pass.sel.validity}
Upsert(batch) ==
  /\ GenerationHeld
  /\ live' = live \cup batch.uids /\ missing' = missing \ batch.uids
  /\ seen' = (seen \ batch.uids) \cup batch.seen

(* applyFlagScan: overwrite the flags of the rows that are live.           *)
WriteFlags(batch) ==
  seen' = (seen \ (batch.uids \cap live)) \cup (batch.seen \cap live)

Flags(S) == [uids |-> S, seen |-> S \cap pSeen]

EndPass == pc' = "idle" /\ pass' = NoPass

(* fetchMessageMetadata goes on only with every UID it asked for; one that *)
(* was expunged since the listing ends the pass (FetchIncomplete).         *)
Answered(batch) == batch \subseteq pHere

-------------------------------------------------------------------------------
(* The start of a pass.                                                    *)

StartPass ==
  /\ pc = "idle"
  /\ \E o \in PassOptions : pass' = NewPass(o)
  /\ pc' = "select"
  /\ UNCHANGED <<provider, folder, rows, head>>

qresyncWanted(o) ==
  /\ o.qresyncCatchUp \/ o.allowReconcile
  /\ folder.complete /\ folder.validity # None /\ folder.qresync # None

(* What a QRESYNC SELECT reports since the stored cursor.  The mirror      *)
(* names 1..knownUidHigh, its last_uid or its highest stored row; some     *)
(* servers report expunges only for named UIDs, and some report a complete *)
(* replay without the flag changes.                                        *)
KnownUids_Committed == {u \in Uids : u <= folder.last}
KnownUids == {u \in Uids : u <= folder.last \/ \E v \in Mirrored : u <= v}
Changed(modseq) == {u \in pHere : pMod[u] > modseq}
Vanished(modseq) == {u \in KnownUids : u < pNext /\ u \notin pHere /\ pMod[u] > modseq}
Replays ==
  {[answer |-> "complete", changed |-> Flags(S), vanished |-> Vanished(folder.qresync)] :
     S \in {{}, Changed(folder.qresync)}}
  \cup {[NoReplay EXCEPT !.answer = a] : a \in {"partial", "refused"}}

(* SELECT, with the replay it carries.  "refused" also stands for a client *)
(* that does not ask because QRESYNC is known unavailable.                 *)
Select ==
  /\ pc = "select"
  /\ \E r \in IF qresyncWanted(pass.opt) /\ folder.validity = pValidity THEN Replays ELSE {NoReplay} :
       pass' = [pass EXCEPT !.sel = [validity |-> pValidity, next |-> pNext, highest |-> pHighest],
                            !.replay = r]
  /\ pc' = IF folder.validity \notin {None, pValidity} THEN "reset"
           ELSE IF folder.complete THEN "search"
           ELSE IF folder.target = None THEN "snapshot" ELSE "candidates"
  /\ UNCHANGED <<provider, folder, rows, head>>

(* handleUidValidityReset: the rows of the old generation are tombstoned   *)
(* for good and every cursor of it is cleared; uid_next, the audit result  *)
(* and the audit schedule stay.                                            *)
Forgotten == [folder EXCEPT !.last = 0, !.complete = FALSE, !.target = None, !.oldest = None,
                            !.highest = None, !.qresync = None]
handleUidValidityReset ==
  /\ pc = "reset"
  /\ folder' = [Forgotten EXCEPT !.validity = pass.sel.validity]
  /\ live' = {} /\ missing' = {} /\ seen' = {} /\ head' = NoHead
  /\ EndPass
  /\ UNCHANGED provider

-------------------------------------------------------------------------------
(* runInitialSyncBatch: freeze a snapshot of the window, then mirror it    *)
(* newest first below a watermark while the live head takes new mail.      *)

SnapshotSearch ==
  /\ pc = "snapshot"
  /\ pass' = [pass EXCEPT !.window = InWindow]
  /\ pc' = "snapshotWrite"
  /\ UNCHANGED <<provider, folder, rows, head>>

(* The snapshot, the watermark above it and the live head commit together. *)
Watermark_OffByOne(target) == IF pass.window = {} THEN 0 ELSE target
Watermark(target) == IF pass.window = {} THEN 0 ELSE target + 1
setInitialSyncSnapshot ==
  /\ pc = "snapshotWrite" /\ GenerationHeld
  /\ \E target \in {0} \cup Uids :
       /\ IF pass.window = {} THEN target = 0 ELSE IsMax(target, pass.window)
       /\ folder' = [folder EXCEPT !.target = target,
                                   !.oldest = Watermark(target),
                                   !.last = Larger(folder.last, pass.sel.next - 1)]
       /\ head' = [validity |-> pass.sel.validity, next |-> pass.sel.next,
                   top |-> Larger(target, pass.sel.next - 1)]
  /\ pc' = IF pass.window = {} THEN "initialDone" ELSE "candidates"
  /\ UNCHANGED <<provider, rows, pass>>

Candidates ==
  /\ pc = "candidates"
  /\ pass' = [pass EXCEPT !.window = InWindow]
  /\ pc' = "headSearch"
  /\ UNCHANGED <<provider, folder, rows, head>>

(* New mail above the live head, whatever its date, one batch.             *)
HeadCandidates == {u \in pHere : Larger(folder.target, folder.last) < u /\ u < pass.sel.next}
HeadSearch ==
  /\ pc = "headSearch"
  /\ IF HeadCandidates = {}
     THEN pc' = "backfill" /\ UNCHANGED pass
     ELSE /\ \E b \in SUBSET HeadCandidates :
               OldestFirst(b, HeadCandidates, IncrementalBatch) /\ pass' = [pass EXCEPT !.todo = b]
          /\ pc' = "headFetch"
  /\ UNCHANGED <<provider, folder, rows, head>>

HeadFetch ==
  /\ pc = "headFetch"
  /\ Answered(pass.todo) /\ pass' = [pass EXCEPT !.read = Flags(pass.todo)]
  /\ pc' = "headWrite"
  /\ UNCHANGED <<provider, folder, rows, head>>

HeadWrite ==
  /\ pc = "headWrite" /\ Upsert(pass.read)
  /\ folder' = [folder EXCEPT !.validity = pass.sel.validity]
  /\ pc' = "headAdvance"
  /\ UNCHANGED <<provider, pass, head>>

advanceInitialSyncLiveHead ==
  /\ pc = "headAdvance" /\ folder.validity = pass.sel.validity
  /\ \E m \in pass.todo : IsMax(m, pass.todo) /\ folder' = [folder EXCEPT !.last = Larger(@, m)]
  /\ pass' = [pass EXCEPT !.todo = {}, !.read = NoRead]
  /\ pc' = "backfill"
  /\ UNCHANGED <<provider, rows, head>>

(* The unsynced part of the snapshot, as the re-search listed it.          *)
Below == {u \in pass.window : u <= folder.target /\ u < folder.oldest}
Backfill ==
  /\ pc = "backfill"
  /\ IF Below = {}
     THEN pc' = "initialDone" /\ UNCHANGED pass
     ELSE /\ \E b \in SUBSET Below :
               NewestFirst(b, Below, InitialBatch) /\ pass' = [pass EXCEPT !.todo = b]
          /\ pc' = "backfillFetch"
  /\ UNCHANGED <<provider, folder, rows, head>>

BackfillFetch ==
  /\ pc = "backfillFetch"
  /\ Answered(pass.todo) /\ pass' = [pass EXCEPT !.read = Flags(pass.todo)]
  /\ pc' = "backfillWrite"
  /\ UNCHANGED <<provider, folder, rows, head>>

BackfillWrite ==
  /\ pc = "backfillWrite" /\ Upsert(pass.read)
  /\ folder' = [folder EXCEPT !.validity = pass.sel.validity]
  /\ pc' = "backfillAdvance"
  /\ UNCHANGED <<provider, pass, head>>

(* The watermark moves to the batch's oldest UID; the pass ends here       *)
(* unless that was the last batch.                                         *)
advanceInitialSyncWatermark ==
  /\ pc = "backfillAdvance" /\ folder.validity = pass.sel.validity
  /\ \E m \in pass.todo :
       /\ \A u \in pass.todo : m <= u
       /\ folder' = [folder EXCEPT !.oldest = m]
       /\ IF \E u \in pass.window : u <= folder.target /\ u < m
          THEN EndPass
          ELSE pc' = "initialDone" /\ pass' = [pass EXCEPT !.todo = {}, !.read = NoRead]
  /\ UNCHANGED <<provider, rows, head>>

InitialDone ==
  /\ pc = "initialDone" /\ GenerationHeld
  /\ LET last == Larger(folder.target, folder.last) IN
       folder' = [folder EXCEPT !.validity = pass.sel.validity, !.complete = TRUE, !.last = last,
                                !.next = reachedUidNext(pass.sel.next, last)]
  /\ EndPass
  /\ UNCHANGED <<provider, rows, head>>

-------------------------------------------------------------------------------
(* syncFolder once the initial sync is complete: new mail first.           *)

(* folderHitLockBudget: only a pass over a non-priority folder stops.      *)
LockBudget == IF pass.opt.enforceLockDeadline THEN BOOLEAN ELSE {FALSE}

AfterNewMail == IF pass.replay.answer = "complete" THEN "replay" ELSE "flags"

Incoming ==
  LET floor == folder.last + 1
  IN {u \in pHere : floor <= u /\ u <= Larger(floor, pass.sel.next - 1)}
Search ==
  /\ pc = "search"
  /\ pass' = [pass EXCEPT !.todo = Incoming]
  /\ pc' = IF Incoming = {} THEN AfterNewMail ELSE "incremental"
  /\ UNCHANGED <<provider, folder, rows, head>>

(* The next batch, oldest UID first.                                       *)
Incremental ==
  /\ pc = "incremental"
  /\ \E b \in SUBSET pass.todo :
       /\ OldestFirst(b, pass.todo, IncrementalBatch) /\ Answered(b)
       /\ pass' = [pass EXCEPT !.read = Flags(b)]
  /\ pc' = "incrementalWrite"
  /\ UNCHANGED <<provider, folder, rows, head>>

(* The batch commits; the pass stops taking batches when none is left, at  *)
(* its lock budget, or at its cap.                                         *)
IncrementalWrite ==
  /\ pc = "incrementalWrite" /\ Upsert(pass.read)
  /\ folder' = [folder EXCEPT !.validity = pass.sel.validity]
  /\ \E m \in pass.read.uids, hit \in LockBudget :
       LET left == pass.todo \ pass.read.uids
           more == left # {} /\ ~hit /\ pass.batches + 1 < BatchesPerPass
       IN /\ IsMax(m, pass.read.uids)
          /\ pass' = [pass EXCEPT !.todo = left, !.reached = m, !.read = NoRead, !.hit = hit,
                                  !.batches = IF more THEN @ + 1 ELSE 0]
          /\ pc' = IF more THEN "incremental" ELSE AfterNewMail
  /\ UNCHANGED <<provider, head>>

(* A complete replay is applied: flags, then tombstones.                   *)
ReplayFlags ==
  /\ pc = "replay" /\ WriteFlags(pass.replay.changed)
  /\ pc' = "replayGone"
  /\ UNCHANGED <<provider, folder, live, missing, pass, head>>

markVanishedMessages ==
  /\ pc = "replayGone"
  /\ live' = live \ pass.replay.vanished
  /\ missing' = missing \cup (live \cap pass.replay.vanished)
  /\ pass' = [pass EXCEPT !.applied = TRUE, !.replay = NoReplay]
  /\ pc' = "flags"
  /\ UNCHANGED <<provider, folder, seen, head>>

-------------------------------------------------------------------------------
(* The flag read and its four reasons.                                     *)

qresyncFallbackRequired ==
  \/ pass.replay.answer = "partial"
  \/ /\ qresyncWanted(pass.opt) /\ ~pass.applied
     /\ pass.opt.qresyncCatchUp \/ pass.opt.forceReconcile \/ pass.opt.forceFlagScan

CursorBehind  == folder.highest # None /\ pass.sel.highest > folder.highest
CursorCurrent == folder.highest = pass.sel.highest
flagDeltaDue  == CursorBehind /\ pass.opt.allowFlagDelta
BackstopDue(due) == due /\ pass.opt.allowReconcile

(* next_flag_scan_at may have passed or not, so a routine scan may be due  *)
(* or not unless the fallback or the caller asks for it.                   *)
RoutineDue ==
  IF ~pass.opt.allowFlagScan THEN {FALSE}
  ELSE IF qresyncFallbackRequired \/ pass.opt.forceFlagScan THEN {TRUE} ELSE BOOLEAN

(* What one window scan covers.  It must cover the whole window to set the *)
(* first cursor; a backstop-only scan is newest first and may stop half    *)
(* way; a routine scan covers the last FLAG_DIFF_WINDOW_DAYS, some subset. *)
WindowScans_NoFirst(due) ==
  IF BackstopDue(due) THEN {{u \in InWindow : u >= k} : k \in 1..(MaxUid + 1)}
  ELSE IF pass.opt.forceFlagScan THEN {InWindow} ELSE SUBSET InWindow
WindowScans(due) ==
  IF folder.highest = None THEN {InWindow}
  ELSE IF BackstopDue(due) THEN {{u \in InWindow : u >= k} : k \in 1..(MaxUid + 1)}
  ELSE IF pass.opt.forceFlagScan THEN {InWindow} ELSE SUBSET InWindow

(* The lock budget, scheduledReconcileDue and the fallback are evaluated,  *)
(* then flags are read: CHANGEDSINCE the stored cursor if it is behind,    *)
(* else the window if a window scan is due, else nothing.                  *)
FlagsWanted(routine, hit) ==
  ~hit /\ (flagDeltaDue \/ BackstopDue(folder.due) \/ routine \/ CursorCurrent)
Decided(hit, wanted) ==
  [pass EXCEPT !.hit = hit, !.due = folder.due, !.fallback = qresyncFallbackRequired,
               !.replay = NoReplay, !.scanned = wanted]
FlagScan ==
  /\ pc = "flags"
  /\ \E routine \in RoutineDue, budget \in LockBudget :
       LET hit    == pass.hit \/ budget
           wanted == FlagsWanted(routine, hit)
           window == BackstopDue(folder.due) \/ (routine /\ ~CursorCurrent)
       IN IF wanted /\ CursorBehind
          THEN /\ pass' = [Decided(hit, wanted) EXCEPT !.read = Flags(Changed(folder.highest))]
               /\ pc' = "deltaWrite"
          ELSE IF wanted /\ window
          THEN /\ \E S \in WindowScans(folder.due) :
                    pass' = [Decided(hit, wanted) EXCEPT !.read = Flags(S)]
               /\ pc' = "windowWrite"
          ELSE pass' = Decided(hit, wanted) /\ pc' = "reconcile"
  /\ UNCHANGED <<provider, folder, rows, head>>

(* The delta's flags; a backstop then still reads the window.              *)
DeltaWrite ==
  /\ pc = "deltaWrite" /\ WriteFlags(pass.read)
  /\ IF BackstopDue(pass.due)
     THEN /\ \E S \in WindowScans(pass.due) : pass' = [pass EXCEPT !.read = Flags(S)]
          /\ pc' = "windowWrite"
     ELSE pass' = [pass EXCEPT !.read = NoRead] /\ pc' = "reconcile"
  /\ UNCHANGED <<provider, folder, live, missing, head>>

WindowWrite ==
  /\ pc = "windowWrite" /\ WriteFlags(pass.read)
  /\ pass' = [pass EXCEPT !.read = NoRead]
  /\ pc' = "reconcile"
  /\ UNCHANGED <<provider, folder, live, missing, head>>

-------------------------------------------------------------------------------
(* The exact reconcile.                                                    *)

reconcileDue ==
  \/ pass.fallback \/ pass.due \/ pass.opt.forceAuthoritativeReconcile
  \/ ~pass.applied /\ pass.opt.forceReconcile

(* SEARCH ALL.  A provider that answers with part of the folder leaves out *)
(* one UID here.                                                           *)
Listings == {pHere} \cup IF ShortLists THEN {pHere \ {u} : u \in pHere} ELSE {}
Reconcile ==
  /\ pc = "reconcile"
  /\ \E hit \in LockBudget, list \in Listings :
       IF ~pass.hit /\ ~hit /\ pass.opt.allowReconcile /\ reconcileDue
       THEN pass' = [pass EXCEPT !.attempted = TRUE, !.list = list] /\ pc' = "listed"
       ELSE pass' = [pass EXCEPT !.hit = @ \/ hit] /\ pc' = "finish"
  /\ UNCHANGED <<provider, folder, rows, head>>

(* SEARCH SINCE, then the message count the session holds: a list of       *)
(* another size proves nothing and changes nothing.                        *)
ListProven_Assumed == TRUE
ListProven == Cardinality(pass.list) = Cardinality(pHere)
CheckList ==
  /\ pc = "listed"
  /\ IF ListProven
     THEN pass' = [pass EXCEPT !.window = InWindow, !.complete = TRUE] /\ pc' = "tombstone"
     ELSE pass' = [pass EXCEPT !.list = {}] /\ pc' = "finish"
  /\ UNCHANGED <<provider, folder, rows, head>>

(* Rows whose UID is gone, in UID order; the deadline may stop the writes. *)
Doomed == {u \in live : u < pass.sel.next /\ u \notin pass.list}
Tombstone ==
  /\ pc = "tombstone" /\ folder.validity = pass.sel.validity
  /\ \E stop \in 0..MaxUid :
       LET written == {u \in Doomed : u <= stop} IN
         /\ live' = live \ written /\ missing' = missing \cup written
         /\ pass' = [pass EXCEPT !.complete = (written = Doomed)]
  /\ pc' = "revive"
  /\ UNCHANGED <<provider, folder, seen, head>>

(* Reconcile's own tombstones outside the window come back; inside it, the *)
(* listed UIDs without a live row are fetched again, up to a limit.        *)
Revivable == {u \in missing \cap pass.list : u \notin pass.window}
Gap_NoRow == (pass.list \cap pass.window) \ Mirrored
Gap == (pass.list \cap pass.window) \ live
Revive ==
  /\ pc = "revive"
  /\ \E stop \in IF pass.complete THEN 0..MaxUid ELSE {0} :
       LET revived == {u \in Revivable : u <= stop} IN
          /\ live' = live \cup revived /\ missing' = missing \ revived
          /\ \E first \in SUBSET Gap :
               /\ IF Gap = {} THEN first = {} ELSE NewestFirst(first, Gap, MissingLimit)
               /\ pass' = [pass EXCEPT !.complete = @ /\ revived = Revivable /\ first = Gap,
                                       !.window = first, !.list = {}]
  /\ pc' = "gap"
  /\ UNCHANGED <<provider, folder, seen, head>>

GapFetch ==
  /\ pc = "gap"
  /\ IF pass.window = {} \/ pass.hit
     THEN /\ pass' = [pass EXCEPT !.clean = ~pass.hit /\ pass.complete, !.window = {}]
          /\ pc' = "finish"
     ELSE /\ \E b \in SUBSET pass.window :
               /\ NewestFirst(b, pass.window, IncrementalBatch) /\ Answered(b)
               /\ pass' = [pass EXCEPT !.read = Flags(b)]
          /\ pc' = "gapWrite"
  /\ UNCHANGED <<provider, folder, rows, head>>

GapWrite ==
  /\ pc = "gapWrite" /\ Upsert(pass.read)
  /\ \E hit \in LockBudget :
       pass' = [pass EXCEPT !.window = @ \ pass.read.uids, !.read = NoRead, !.hit = hit]
  /\ pc' = "gap"
  /\ UNCHANGED <<provider, folder, head>>

-------------------------------------------------------------------------------
(* The one write that records what the pass proved.                        *)

StoredLast_SelectEnd == pass.sel.next - 1
StoredLast == IF pass.reached # 0 THEN pass.reached ELSE folder.last
StoredHighest == IF pass.scanned THEN pass.sel.highest ELSE folder.highest
storesQresync == pass.applied \/ (pass.scanned /\ pass.attempted /\ pass.clean)
Finish ==
  /\ pc = "finish" /\ GenerationHeld
  /\ folder' =
       [folder EXCEPT
          !.validity = pass.sel.validity, !.complete = TRUE,
          !.last = StoredLast,
          !.next = IF pass.todo = {} THEN pass.sel.next
                   ELSE reachedUidNext(pass.sel.next, StoredLast),
          !.highest = StoredHighest,
          !.qresync = IF storesQresync THEN pass.sel.highest ELSE @,
          !.clean = IF pass.attempted THEN pass.clean ELSE @,
          !.due = IF pass.attempted /\ (pass.due \/ ~pass.clean) THEN FALSE ELSE @]
  /\ EndPass
  /\ UNCHANGED <<provider, rows, head>>

(* A requested UID is missing from a metadata answer: the pass fails.      *)
FetchIncomplete ==
  /\ \/ pc \in {"headFetch", "backfillFetch"} /\ ~Answered(pass.todo)
     \/ /\ pc = "incremental"
        /\ \E b \in SUBSET pass.todo :
             OldestFirst(b, pass.todo, IncrementalBatch) /\ ~Answered(b)
     \/ /\ pc = "gap" /\ ~pass.hit
        /\ \E b \in SUBSET pass.window :
             NewestFirst(b, pass.window, IncrementalBatch) /\ ~Answered(b)
  /\ EndPass
  /\ UNCHANGED <<provider, folder, rows, head>>

(* A deadline, a lost connection, a failed statement or a worker crash:    *)
(* the pass is gone, what it committed stays.                              *)
Fail ==
  /\ pc # "idle" /\ EndPass
  /\ UNCHANGED <<provider, folder, rows, head>>

(* next_reconcile_at passes.                                               *)
AuditFallsDue ==
  /\ ~folder.due /\ folder' = [folder EXCEPT !.due = TRUE]
  /\ UNCHANGED <<provider, rows, pc, pass, head>>

(* The body lane, beside the account lock: a fetch of the row's UID came   *)
(* back empty.                                                             *)
markMessageGone(u) ==
  /\ u \notin pHere \/ TransientMisses
  /\ live' = live \ {u} /\ missing' = missing \cup {u}
  /\ UNCHANGED <<provider, folder, seen, pc, pass, head>>

Initial == SnapshotSearch \/ setInitialSyncSnapshot \/ Candidates \/ HeadSearch \/ HeadFetch
           \/ HeadWrite \/ advanceInitialSyncLiveHead \/ Backfill \/ BackfillFetch
           \/ BackfillWrite \/ advanceInitialSyncWatermark \/ InitialDone
Steady  == Search \/ Incremental \/ IncrementalWrite \/ ReplayFlags \/ markVanishedMessages
           \/ FlagScan \/ DeltaWrite \/ WindowWrite \/ Reconcile \/ CheckList
           \/ Tombstone \/ Revive \/ GapFetch \/ GapWrite \/ Finish
PassStep == Select \/ handleUidValidityReset \/ Initial \/ Steady \/ FetchIncomplete
Mirror   == StartPass \/ PassStep \/ Fail \/ AuditFallsDue \/ \E u \in live : markMessageGone(u)
Next == Provider \/ Mirror

Spec == Init /\ [][Next]_vars
===============================================================================
