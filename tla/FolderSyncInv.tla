----------------------------- MODULE FolderSyncInv -----------------------------
(***************************************************************************)
(* The inductive invariants behind NothingSkipped, UidNextPromise,         *)
(* InitialGapFree, ExpungeCursorHonest, FlagCursorHonest and               *)
(* NoWrongTombstone: what a pass knows at each of its program counters.    *)
(***************************************************************************)
EXTENDS FolderSyncProps

Resting == {"idle", "select"}
InitialPcs == {"snapshot", "snapshotWrite", "candidates", "headSearch", "headFetch", "headWrite",
               "headAdvance", "backfill", "backfillFetch", "backfillWrite", "backfillAdvance",
               "initialDone"}
ResumedPcs == InitialPcs \ {"snapshot", "snapshotWrite"}
SteadyPcs == {"search", "incremental", "incrementalWrite", "replay", "replayGone", "flags",
              "deltaWrite", "windowWrite", "reconcile", "listed", "tombstone", "revive", "gap",
              "gapWrite", "finish"}
AllPcs == Resting \cup {"reset"} \cup InitialPcs \cup SteadyPcs

(* UIDs and MODSEQs the provider has handed out bound everything that was  *)
(* read from it; generations only grow.                                    *)
Provided ==
  /\ \A u \in pHere : u < pNext
  /\ \A u \in Uids : pMod[u] <= pHighest
  /\ folder.validity <= pValidity /\ head.validity <= pValidity

(* After SELECT the generation is fixed until the pass ends.               *)
Selected ==
  pc \notin Resting =>
    /\ pass.sel.validity = pValidity /\ pass.sel.next <= pNext /\ pass.sel.highest <= pHighest
    /\ \A u \in Uids : pass.sel.next <= u /\ u < pNext => pMod[u] > pass.sel.highest
    /\ pc # "reset" => folder.validity \in {None, pValidity}

(* The pass is where the folder row says it is.                            *)
Stages ==
  /\ pc \in AllPcs
  /\ pc \in Resting => pass = NewPass(pass.opt)
  /\ folder.complete => folder.validity # None
  /\ pc \in SteadyPcs => folder.complete
  /\ pc \in InitialPcs => ~folder.complete
  /\ pc \in {"snapshot", "snapshotWrite"} => folder.target = None
  /\ pc \in ResumedPcs => folder.target # None
  /\ folder.target = None => folder.last = 0 /\ ~folder.complete
  /\ folder.target # None => folder.oldest # None

-------------------------------------------------------------------------------
(* Mail.  Nothing the mirror recorded lies above what the mailbox issued.  *)
Recorded ==
  Current =>
    /\ folder.last < pNext /\ folder.target < pNext
    /\ folder.target <= head.top
    /\ folder.complete => folder.next <= pNext

(* The frozen snapshot still holds every window message up to its maximum. *)
SnapshotHeld ==
  pc = "snapshotWrite" =>
    /\ \A u \in pass.window : u < pNext
    /\ \A u \in InWindow : u \in pass.window \/ (u >= pass.sel.next /\ \A v \in pass.window : v < u)

(* The re-search lists every window message up to the snapshot's maximum.  *)
WindowHeld ==
  Current /\ pc \in ResumedPcs \ {"candidates"} =>
    \A u \in InWindow : u <= folder.target => u \in pass.window

(* The live-head batch is the next new mail above the head.                *)
HeadBatch ==
  /\ pc \in {"headFetch", "headWrite", "headAdvance"} =>
       /\ pass.todo # {}
       /\ \A u \in pass.todo : Larger(folder.target, folder.last) < u /\ u < pass.sel.next
       /\ \A u \in pHere, m \in pass.todo :
            Larger(folder.target, folder.last) < u /\ u <= m => u \in pass.todo
  /\ pc = "headWrite" => pass.read.uids = pass.todo
  /\ pc = "headAdvance" => pass.todo \subseteq Mirrored

(* The backfill batch is the top of the unsynced part of the snapshot.     *)
BackfillBatch ==
  /\ pc \in {"backfillFetch", "backfillWrite", "backfillAdvance"} =>
       /\ pass.todo # {} /\ pass.todo \subseteq Below
       /\ \A x \in pass.todo, y \in Below \ pass.todo : x > y
  /\ pc = "backfillWrite" => pass.read.uids = pass.todo
  /\ pc = "backfillAdvance" => pass.todo \subseteq Mirrored
  /\ pc = "initialDone" => Below = {}

(* New mail between last_uid and the pass's end is mirrored or still to do, *)
(* and the mirrored part comes first.                                      *)
NewMail ==
  pc \in SteadyPcs \ {"search"} =>
    /\ \A u \in pHere : folder.last < u /\ (u < pass.sel.next \/ u <= pass.reached)
         => u \in Mirrored \/ u \in pass.todo
    /\ \A u \in pass.todo : folder.last < u /\ (u < pass.sel.next \/ u = folder.last + 1)
    /\ \A u \in pass.todo : pass.reached < u /\ u < pNext
    /\ pass.reached # 0 => folder.last < pass.reached /\ pass.reached < pNext

IncrementalBatchHeld ==
  /\ pc = "incrementalWrite" =>
       /\ pass.read.uids # {} /\ pass.read.uids \subseteq pass.todo
       /\ \A x \in pass.read.uids, y \in pass.todo \ pass.read.uids : x < y
  /\ pc = "incremental" => pass.todo # {}
  /\ pc \in {"search"} \cup Resting \cup InitialPcs => pass.reached = 0

MailInv ==
  /\ Provided /\ Selected /\ Stages
  /\ Recorded /\ SnapshotHeld /\ WindowHeld /\ HeadBatch /\ BackfillBatch
  /\ NewMail /\ IncrementalBatchHeld
  /\ NothingSkipped /\ UidNextPromise /\ InitialGapFree

-------------------------------------------------------------------------------
(* Expunges.  Still here, or gone after SELECT: what the pass read after   *)
(* SELECT may be written without falling behind its HIGHESTMODSEQ.         *)
Fresh(S) == \A u \in S : u \in pHere \/ pMod[u] > pass.sel.highest

QresyncBounded ==
  /\ folder.qresync # None => folder.validity # None
  /\ folder.qresync # None /\ folder.validity = pValidity => folder.qresync <= pHighest
  /\ pc \notin Resting \cup {"reset"} /\ folder.qresync # None => folder.qresync <= pass.sel.highest

RowsIssued ==
  /\ folder.validity = None => live = {}
  /\ folder.validity = pValidity => \A u \in live : u < pNext

ReadsFresh ==
  /\ Fresh(pass.list)
  /\ pc \in {"headWrite", "backfillWrite", "incrementalWrite", "gapWrite"} =>
       Fresh(pass.read.uids) /\ \A u \in pass.read.uids : u < pNext
  /\ \A u \in pass.list : u < pNext

(* A complete replay names every expunge since the stored cursor, and only *)
(* a complete one is applied.                                              *)
ReplayComplete ==
  /\ pc \notin Resting /\ pass.replay.answer = "complete" => Fresh(live \ pass.replay.vanished)
  /\ pc \in {"replay", "replayGone"} => pass.replay.answer = "complete"

(* What stores the QRESYNC cursor proved it.                               *)
ExpungesApplied ==
  /\ pc \notin Resting /\ (pass.applied \/ pass.clean) => Fresh(live)
  /\ pc \in {"revive", "gap", "gapWrite"} /\ pass.complete => Fresh(live)

ExpungeHonest ==
  folder.qresync # None /\ folder.validity = pValidity =>
    \A u \in live \ pHere : pMod[u] > folder.qresync

ExpungeInv ==
  /\ Provided /\ Selected /\ Stages
  /\ QresyncBounded /\ RowsIssued /\ ReadsFresh /\ ReplayComplete /\ ExpungesApplied
  /\ ExpungeHonest

-------------------------------------------------------------------------------
(* Flags.  The window's rows of S show every flag change up to MODSEQ m.   *)
Shown(S, m) == \A u \in S \cap InWindow : pMod[u] <= m => (u \in seen <=> u \in pSeen)
Synced == {u \in live : u <= folder.last}

FlagsBounded ==
  /\ folder.highest # None => folder.complete
  /\ folder.highest # None /\ folder.validity = pValidity => folder.highest <= pHighest
  /\ pc \notin Resting \cup {"reset"} /\ folder.highest # None => folder.highest <= pass.sel.highest

FlagHonest ==
  folder.highest # None /\ folder.validity = pValidity => Shown(Synced, folder.highest)

(* An answer the pass has not written yet is right about what has not      *)
(* changed since SELECT.                                                   *)
Truthful(batch) ==
  /\ batch.seen \subseteq batch.uids
  /\ \A u \in batch.uids \cap pHere :
       pMod[u] <= pass.sel.highest => (u \in batch.seen <=> u \in pSeen)
ReadsTruthful == pc \notin Resting => Truthful(pass.read) /\ Truthful(pass.replay.changed)

(* A stored UIDNEXT above last_uid spans no message of the mailbox.        *)
NextReached ==
  folder.complete /\ folder.validity = pValidity =>
    folder.next <= pNext /\ \A u \in pHere : u < folder.next => u <= folder.last

(* The new mail of this pass was written with its flags, and what is left  *)
(* to do has no hole.                                                      *)
Listed(u) == u < pass.sel.next \/ \E v \in pass.todo : u <= v
NewMailShown ==
  pc \in SteadyPcs \ {"search"} =>
    /\ Shown({u \in live : folder.last < u /\ u <= pass.reached}, pass.sel.highest)
    /\ \A u \in pHere : folder.last < u /\ pass.reached < u /\ Listed(u) => u \in pass.todo

(* Once flags were read, what the read does not cover was right already.   *)
ScanPcs == {"deltaWrite", "windowWrite"}
ScannedPcs == {"reconcile", "listed", "tombstone", "revive", "gap", "gapWrite", "finish"}
ScanShown ==
  /\ pc \in ScanPcs => pass.scanned /\ Shown(Synced \ pass.read.uids, pass.sel.highest)
  /\ pc \in ScannedPcs /\ pass.scanned => Shown(Synced, pass.sel.highest)

(* The reconcile revives nothing inside the window.                        *)
ListedWindow ==
  pc \in {"tombstone", "revive"} => pass.list \cap InWindow \subseteq pass.window

(* What the replay or the listing leaves out is gone, as far as the count  *)
(* can prove it.                                                           *)
VanishedGone == pc \notin Resting => \A u \in pass.replay.vanished : u \notin pHere /\ u < pNext
ListExact ==
  pc = "tombstone" /\ ~ExpungedSinceSelect => \A u \in pHere : u < pass.sel.next => u \in pass.list

FlagInv ==
  /\ FlagsBounded /\ FlagHonest /\ NextReached /\ ReadsTruthful /\ NewMailShown /\ ScanShown
  /\ ListedWindow /\ VanishedGone /\ ListExact
===============================================================================
