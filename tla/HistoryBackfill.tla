---------------------------- MODULE HistoryBackfill ----------------------------
(***************************************************************************)
(* The history lane of one Mailbox Account: after the live folders of a    *)
(* pass it snapshots, once for each folder, the UIDs older than the live   *)
(* window and walks them downwards in bounded UID ranges, a batch at a     *)
(* time.  The window moves with the calendar, mail comes and goes, a       *)
(* folder is renumbered, and a batch may end between any two writes.       *)
(* Discovery and the live lane (modules FolderLifecycle and FolderSync)    *)
(* appear with what they promise: HotPass.                                 *)
(***************************************************************************)
EXTENDS Naturals, FiniteSets, FiniteSetsExt

CONSTANTS
  HistoryFolders,  \* 1..n, in the order of sync_priority, path
  MaxHistoryUid,
  HistoryBatchSize,
  RateLimit,       \* historyBatchLimit: batches in a pass
  MaxMailEvents,   \* arrivals, removals, renumberings
  MaxHistoryFaults,
  Unset            \* NULL

ASSUME HistoryAssumption ==
  /\ HistoryFolders \subseteq Nat /\ {MaxHistoryUid, HistoryBatchSize, RateLimit} \subseteq Nat \ {0}
  /\ {MaxMailEvents, MaxHistoryFaults} \subseteq Nat /\ Unset \notin Nat

VARIABLES
  server,   \* of a folder: gen, next and held, the UIDs it holds
  old,      \* of a folder: the UIDs whose date is before the window's start
  folder,   \* imap_folders: gen, initial, last, target, oldest, count, walking, pending
  mirrored, \* of a folder: the live rows of its generation
  turn,     \* the lane of the running pass
  mailEvents, faults

historyVars == <<server, old, folder, mirrored, turn, mailEvents, faults>>

NoTurn == [pc |-> "idle", of |-> Unset, left |-> 0, lower |-> 0, batch |-> {}]
Blank(g) == [gen |-> g, initial |-> FALSE, last |-> 0, target |-> Unset, oldest |-> Unset, count |-> Unset, walking |-> FALSE, pending |-> FALSE]
Event == mailEvents < MaxMailEvents /\ mailEvents' = mailEvents + 1
Fault == faults < MaxHistoryFaults /\ faults' = faults + 1

HistoryInit ==
  /\ server = [f \in HistoryFolders |-> [gen |-> 1, next |-> MaxHistoryUid, held |-> 1..(MaxHistoryUid - 1)]]
  /\ old \in [HistoryFolders -> SUBSET (1..(MaxHistoryUid - 1))]
  /\ folder = [f \in HistoryFolders |-> Blank(1)]
  /\ mirrored = [f \in HistoryFolders |-> {}] /\ turn = NoTurn /\ mailEvents = 0 /\ faults = 0

-------------------------------------------------------------------------------
(* The mailbox.  A selected folder is not renumbered under the session.    *)

Arrives(f) ==
  /\ Event /\ server[f].next <= MaxHistoryUid
  /\ server' = [server EXCEPT ![f].next = @ + 1, ![f].held = @ \cup {server[f].next}]
  /\ \E dated \in {{}, {server[f].next}} : old' = [old EXCEPT ![f] = @ \cup dated]
  /\ UNCHANGED <<folder, mirrored, turn, faults>>
Removed(f, u) ==
  /\ Event /\ u \in server[f].held /\ server' = [server EXCEPT ![f].held = @ \ {u}]
  /\ UNCHANGED <<old, folder, mirrored, turn, faults>>
Renumbered(f) ==
  /\ Event /\ turn.of # f /\ server[f].gen = 1
  /\ server' = [server EXCEPT ![f] = [gen |-> 2, next |-> Cardinality(server[f].held) + 1, held |-> 1..Cardinality(server[f].held)]]
  /\ old' = [old EXCEPT ![f] = {u \in 1..Cardinality(server[f].held) : \E v \in @ \cap server[f].held : Cardinality({w \in server[f].held : w <= v}) = u}]
  /\ UNCHANGED <<folder, mirrored, turn, faults>>
(* Days pass: the window's start moves over a mail.                        *)
getWindowCutoff(f) ==
  /\ \E u \in server[f].held \ old[f] : old' = [old EXCEPT ![f] = @ \cup {u}]
  /\ UNCHANGED <<server, folder, mirrored, turn, mailEvents, faults>>

(* handleUidValidityReset                                                  *)
HistoryReset_KeepsCount(f) == folder' = [folder EXCEPT ![f] = [Blank(server[f].gen) EXCEPT !.count = folder[f].count]]
HistoryReset(f) == folder' = [folder EXCEPT ![f] = Blank(server[f].gen)]
(* Discovery and the live lane: a folder found missing is seen again; mail *)
(* of the window, and everything new, is mirrored.                         *)
HotPass(f) ==
  /\ turn.pc = "idle"
  /\ IF folder[f].gen # server[f].gen
     THEN HistoryReset(f) /\ mirrored' = [mirrored EXCEPT ![f] = {}]
     ELSE /\ folder' = [folder EXCEPT ![f].initial = TRUE, ![f].pending = FALSE, ![f].last = server[f].next - 1]
          /\ mirrored' = [mirrored EXCEPT ![f] = (@ \cap server[f].held) \cup
               {u \in server[f].held : IF folder[f].initial THEN u > folder[f].last ELSE u \notin old[f]}]
  /\ UNCHANGED <<server, old, turn, mailEvents, faults>>

-------------------------------------------------------------------------------
(* The lane.                                                               *)

Listed(f) == folder[f].initial /\ ~folder[f].pending /\ (folder[f].walking \/ folder[f].count = Unset)
(* ORDER BY backfill_in_progress DESC, sync_priority, path LIMIT 1         *)
getHistoryBacklog ==
  LET walking == {f \in HistoryFolders : Listed(f) /\ folder[f].walking}
      first == IF walking # {} THEN walking ELSE {f \in HistoryFolders : Listed(f)}
  IN {f \in first : \A g \in first : f <= g}

(* runHistoryLane, of a pass in the backfill window of an account whose    *)
(* mode is not off; the lock budget may end it before any batch.           *)
TurnIs(record) == turn' = record
Next1(left) == IF left = 0 THEN NoTurn ELSE [NoTurn EXCEPT !.pc = "pick", !.left = left]
StartTurn ==
  /\ turn.pc = "idle" /\ getHistoryBacklog # {} /\ TurnIs(Next1(RateLimit))
  /\ UNCHANGED <<server, old, folder, mirrored, mailEvents, faults>>
Pick ==
  /\ turn.pc = "pick"
  /\ TurnIs(IF getHistoryBacklog = {} THEN NoTurn
            ELSE [turn EXCEPT !.pc = "select", !.of = CHOOSE f \in getHistoryBacklog : TRUE])
  /\ UNCHANGED <<server, old, folder, mirrored, mailEvents, faults>>
(* SELECT: a renumbered folder is reset; a missing one is left to          *)
(* discovery and ends the lane.                                            *)
SelectHistory ==
  /\ turn.pc = "select"
  /\ LET f == turn.of IN
     \/ /\ folder[f].gen # server[f].gen /\ HistoryReset(f) /\ mirrored' = [mirrored EXCEPT ![f] = {}]
        /\ TurnIs(Next1(turn.left - 1)) /\ UNCHANGED faults
     \/ /\ folder[f].gen = server[f].gen /\ UNCHANGED <<folder, mirrored, faults>>
        /\ TurnIs([turn EXCEPT !.pc = IF folder[f].count = Unset THEN "snapshot" ELSE "scan"])
     \/ Fault /\ folder' = [folder EXCEPT ![f].pending = TRUE] /\ TurnIs(NoTurn) /\ UNCHANGED mirrored
  /\ UNCHANGED <<server, old, mailEvents>>

OldHeld(f) == server[f].held \cap old[f]
setHistoryBackfillSnapshot(f, uids) ==
  folder' = [folder EXCEPT ![f].count = Cardinality(uids), ![f].walking = uids # {},
                           ![f].target = Max(uids \cup {0}), ![f].oldest = IF uids = {} THEN 0 ELSE Max(uids) + 1]
Snapshot ==
  /\ turn.pc = "snapshot"
  /\ setHistoryBackfillSnapshot(turn.of, OldHeld(turn.of))
  /\ TurnIs(IF OldHeld(turn.of) = {} THEN Next1(turn.left - 1) ELSE [turn EXCEPT !.pc = "scan"])
  /\ UNCHANGED <<server, old, mirrored, mailEvents, faults>>

(* The next bounded range below the watermark.                             *)
ScanUpper_Skips(f) == Min({folder[f].target, folder[f].oldest}) - 1
ScanUpper(f) == Min({folder[f].target, folder[f].oldest - 1})
ScanLower(upper) == IF upper > HistoryBatchSize THEN upper - HistoryBatchSize + 1 ELSE 1
(* Not reached: a walk is complete with its last range.                   *)
markHistoryBackfillComplete(f) == folder' = [folder EXCEPT ![f].walking = FALSE]
getLiveMessageUids(f) == mirrored[f]
Scan ==
  /\ turn.pc = "scan"
  /\ LET f == turn.of
         upper == ScanUpper(f)
         range == {u \in OldHeld(f) : ScanLower(upper) <= u /\ u <= upper}
     IN IF upper < 1 THEN markHistoryBackfillComplete(f) /\ TurnIs(Next1(turn.left - 1))
        ELSE /\ Cardinality(range) <= HistoryBatchSize
             /\ TurnIs([turn EXCEPT !.pc = "fetch", !.lower = ScanLower(upper), !.batch = range \ getLiveMessageUids(f)])
             /\ UNCHANGED folder
  /\ UNCHANGED <<server, old, mirrored, mailEvents, faults>>
(* FETCH and upsert, then the watermark, each a transaction.               *)
FetchHistory ==
  /\ turn.pc = "fetch"
  /\ mirrored' = [mirrored EXCEPT ![turn.of] = @ \cup (turn.batch \cap server[turn.of].held)]
  /\ TurnIs([turn EXCEPT !.pc = "advance"])
  /\ UNCHANGED <<server, old, folder, mailEvents, faults>>
advanceHistoryBackfillWatermark ==
  /\ turn.pc = "advance"
  /\ folder' = [folder EXCEPT ![turn.of].oldest = turn.lower, ![turn.of].walking = @ /\ turn.lower > 1]
  /\ TurnIs(Next1(turn.left - 1))
  /\ UNCHANGED <<server, old, mirrored, mailEvents, faults>>
(* An error, the lock budget, a shutdown or a crash ends the lane.         *)
EndTurn ==
  /\ turn.pc # "idle" /\ Fault /\ TurnIs(NoTurn)
  /\ UNCHANGED <<server, old, folder, mirrored, mailEvents>>

Batches == Pick \/ SelectHistory \/ Snapshot \/ Scan \/ FetchHistory \/ advanceHistoryBackfillWatermark
HistoryNext ==
  \/ StartTurn \/ Batches \/ EndTurn
  \/ \E f \in HistoryFolders :
       Arrives(f) \/ Renumbered(f) \/ getWindowCutoff(f) \/ HotPass(f) \/ \E u \in server[f].held : Removed(f, u)

(* Passes recur: each runs every live folder, then the lane to its end.    *)
HistoryFairness ==
  /\ WF_historyVars(StartTurn \/ Batches) /\ \A f \in HistoryFolders : SF_historyVars(HotPass(f))

-------------------------------------------------------------------------------
(* Properties.                                                             *)

Current(f) == folder[f].gen = server[f].gen /\ folder[f].initial
(* Above its watermark a walk has left nothing out, and a folder whose     *)
(* history is done has every old mail that was there before: the snapshot  *)
(* and the ranges see a window start that moved since the live lane read   *)
(* it, and rows and watermark are written apart (runHistoryBatch).         *)
ArchiveHasNoGap ==
  \A f \in HistoryFolders : Current(f) /\ folder[f].count # Unset =>
    \A u \in OldHeld(f) \ mirrored[f] :
      \/ u > folder[f].last     \* the next live pass takes it
      \/ folder[f].walking /\ u < folder[f].oldest
(* When the faults and changes end, every folder's archive is mirrored     *)
(* ("resumable batches").                                                  *)
ArchiveArrives == <>[](\A f \in HistoryFolders : server[f].held \subseteq mirrored[f])
===============================================================================
