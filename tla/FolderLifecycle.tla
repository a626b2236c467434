--------------------------- MODULE FolderLifecycle ---------------------------
(***************************************************************************)
(* One ordinary folder between the provider's LIST, discovery, a missing-  *)
(* mailbox error, an operator's opt-in and the history lane.  Discovery    *)
(* runs inside a full pass, under the account lock; each of its statements *)
(* commits alone, and trackFolder takes no lock, so it falls between any   *)
(* two of them.  Inbox is always listed and needs no model; the rest of    *)
(* the account matters through the folder-count cap.                       *)
(*                                                                         *)
(* "in" and "old" mail is inside and below the live window; each is live   *)
(* or dead with the reason its tombstone gives, or purged.                 *)
(***************************************************************************)
EXTENDS Naturals

CONSTANTS MaxIncidents \* bound on what the provider, the operator and the cap do

ASSUME LifecycleAssumption == MaxIncidents \in Nat

VARIABLES
  exists,  \* the provider has the folder
  capped,  \* LIST reaches the folder-count threshold
  row,     \* the imap_folders row
  mail,    \* the rows of its messages, inside and below the window
  disc,    \* the running discovery: its step, what LIST answered, the override it read
  askDiscovery, \* next_folder_discovery_at has passed
  opted,   \* history: an operator's opt-in stands (no loss of the folder since)
  unburied, \* history: a discovery ended between MISSING and the tombstones
  incidents
lifecycleVars == <<exists, capped, row, mail, disc, askDiscovery, opted, unburied, incidents>>

Ages == {"no", "fresh", "expired"}
Idle == [step |-> "idle", listed |-> FALSE, cap |-> FALSE, manual |-> FALSE]

LifecycleTypeOK ==
  /\ exists \in BOOLEAN /\ capped \in BOOLEAN /\ askDiscovery \in BOOLEAN /\ opted \in BOOLEAN /\ unburied \in BOOLEAN
  /\ row \in [tracked : BOOLEAN, status : {"ABSENT", "PENDING", "ACTIVE", "MISSING", "PENDING_VERIFICATION"},
              missing : Ages, note : {"none", "manual", "history", "verification"}, audited : BOOLEAN]
  /\ mail \in [{"in", "old"} -> {"none", "live", "FOLDER_MISSING", "RECONCILE_MISSING", "purged"}]
  /\ disc \in [step : {"idle", "overrides", "upsert", "missing", "tombstone", "stamp"},
               listed : BOOLEAN, cap : BOOLEAN, manual : BOOLEAN]
  /\ incidents \in 0..MaxIncidents

LifecycleInit ==
  /\ exists = TRUE /\ capped \in BOOLEAN /\ askDiscovery = TRUE /\ opted = FALSE /\ unburied = FALSE /\ incidents = 0
  /\ row = [tracked |-> FALSE, status |-> "ABSENT", missing |-> "no", note |-> "none", audited |-> FALSE]
  /\ mail = [a \in {"in", "old"} |-> "none"] /\ disc = Idle

(* The condition that every reader of the working set repeats.             *)
Eligible == row.tracked /\ row.missing = "no" /\ row.status \notin {"ABSENT", "MISSING", "PENDING_VERIFICATION"}
Incident == incidents < MaxIncidents /\ incidents' = incidents + 1

-------------------------------------------------------------------------------
(* discoverFolders and upsertDiscoveredFolders.                            *)

(* A LIST may leave out a folder that exists.                              *)
List ==
  /\ disc.step = "idle" /\ askDiscovery
  /\ \E listed \in BOOLEAN :
       /\ listed => exists
       /\ IF exists /\ ~listed THEN Incident ELSE UNCHANGED incidents
       /\ disc' = [Idle EXCEPT !.step = "overrides", !.listed = listed, !.cap = capped]
  /\ UNCHANGED <<exists, capped, row, mail, askDiscovery, opted, unburied>>
ReadOverrides ==
  /\ disc.step = "overrides"
  /\ disc' = [disc EXCEPT !.step = "upsert", !.manual = row.tracked /\ row.note = "manual"]
  /\ UNCHANGED <<exists, capped, row, mail, askDiscovery, opted, unburied, incidents>>
Upserted_KeepsMissing(r, tracked) ==
  [r EXCEPT !.tracked = tracked,
     !.status = IF r.status = "ABSENT" THEN (IF tracked THEN "PENDING" ELSE "ACTIVE")
                ELSE IF r.status \in {"MISSING", "PENDING_VERIFICATION"} THEN "PENDING" ELSE @]
Upserted(r, tracked) ==
  [r EXCEPT !.tracked = tracked, !.missing = "no",
     !.status = IF r.status = "ABSENT" THEN (IF tracked THEN "PENDING" ELSE "ACTIVE")
                ELSE IF r.status \in {"MISSING", "PENDING_VERIFICATION"} THEN "PENDING" ELSE @]
UpsertListed ==
  /\ disc.step = "upsert" /\ disc' = [disc EXCEPT !.step = "missing"]
  /\ row' = IF disc.listed THEN Upserted(row, disc.manual \/ ~disc.cap) ELSE row
  /\ UNCHANGED <<exists, capped, mail, askDiscovery, opted, unburied, incidents>>
MarkMissing ==
  /\ disc.step = "missing"
  /\ LET gone == ~disc.listed /\ row.missing = "expired" /\ row.status \notin {"ABSENT", "MISSING"} IN
     /\ row' = IF gone THEN [row EXCEPT !.status = "MISSING", !.tracked = FALSE] ELSE row
     /\ disc' = [disc EXCEPT !.step = IF gone THEN "tombstone" ELSE "stamp"]
     /\ opted' = (opted /\ ~gone)
  /\ UNCHANGED <<exists, capped, mail, askDiscovery, unburied, incidents>>
Bury_InWindow(m) == [m EXCEPT !["in"] = IF @ = "live" THEN "FOLDER_MISSING" ELSE @]
Bury(m) == [a \in {"in", "old"} |->
  IF m[a] # "live" THEN m[a] ELSE IF a = "in" THEN "FOLDER_MISSING" ELSE "RECONCILE_MISSING"]
Tombstone ==
  /\ disc.step = "tombstone" /\ disc' = [disc EXCEPT !.step = "stamp"]
  /\ mail' = Bury(mail)
  /\ UNCHANGED <<exists, capped, row, askDiscovery, opted, unburied, incidents>>
Stamp ==
  /\ disc.step = "stamp" /\ disc' = Idle /\ askDiscovery' = FALSE
  /\ row' = IF ~disc.listed /\ row.missing = "no" /\ row.status \notin {"ABSENT", "MISSING"}
            THEN [row EXCEPT !.missing = "fresh"] ELSE row
  /\ UNCHANGED <<exists, capped, mail, opted, unburied, incidents>>
(* The pass dies or a statement fails: what committed stays, and the next  *)
(* pass lists again, since the schedule moves last.                        *)
DiscoveryFails ==
  /\ disc.step # "idle" /\ Incident /\ disc' = Idle
  /\ unburied' = (unburied \/ disc.step = "tombstone")
  /\ UNCHANGED <<exists, capped, row, mail, askDiscovery, opted>>

-------------------------------------------------------------------------------
(* Passes over the folder.                                                 *)

(* syncFolder marks the folder ACTIVE; a reconcile restores its mail: rows *)
(* missing inside the window are fetched again, below it RECONCILE_MISSING *)
(* ones are revived.                                                       *)
Sync ==
  /\ disc.step = "idle" /\ Eligible /\ exists
  /\ \E reconcile \in BOOLEAN :
       /\ row' = [row EXCEPT !.status = "ACTIVE", !.audited = @ \/ reconcile]
       /\ mail' = IF ~reconcile THEN [a \in {"in", "old"} |-> IF mail[a] = "none" THEN "live" ELSE mail[a]]
                  ELSE [in |-> "live", old |-> IF mail["old"] \in {"none", "RECONCILE_MISSING"} THEN "live" ELSE mail["old"]]
  /\ UNCHANGED <<exists, capped, disc, askDiscovery, opted, unburied, incidents>>
(* A missing-mailbox answer: markFolderPendingVerification.                *)
SyncMissing ==
  /\ disc.step = "idle" /\ Eligible /\ ~exists
  /\ row' = [row EXCEPT !.status = "PENDING_VERIFICATION", !.missing = "fresh", !.note = "verification"]
  /\ askDiscovery' = TRUE
  /\ UNCHANGED <<exists, capped, mail, disc, opted, unburied, incidents>>
(* setHistoryBackfillSnapshot, advance, complete: progress notes.          *)
Backfill ==
  /\ disc.step = "idle" /\ Eligible /\ exists /\ row.status = "ACTIVE"
  /\ row' = [row EXCEPT !.note = "history"]
  /\ UNCHANGED <<exists, capped, mail, disc, askDiscovery, opted, unburied, incidents>>

(* trackFolder, by an operator, at any moment.                             *)
TrackFolder ==
  /\ row.status # "ABSENT" /\ Incident
  /\ row' = [row EXCEPT !.tracked = TRUE, !.missing = "no", !.note = "manual",
       !.status = IF @ \in {"MISSING", "PENDING_VERIFICATION"} THEN "PENDING" ELSE @]
  /\ opted' = TRUE
  /\ UNCHANGED <<exists, capped, mail, disc, askDiscovery, unburied>>

(* runPurgeJob, thirty days after the tombstone.                           *)
Purge ==
  /\ mail["in"] = "FOLDER_MISSING" /\ mail' = [mail EXCEPT !["in"] = "purged"]
  /\ UNCHANGED <<exists, capped, row, disc, askDiscovery, opted, unburied, incidents>>

-------------------------------------------------------------------------------
GraceEnds ==
  /\ row.missing = "fresh" /\ row' = [row EXCEPT !.missing = "expired"]
  /\ UNCHANGED <<exists, capped, mail, disc, askDiscovery, opted, unburied, incidents>>
DiscoveryDue ==
  /\ ~askDiscovery /\ askDiscovery' = TRUE
  /\ UNCHANGED <<exists, capped, row, mail, disc, opted, unburied, incidents>>
FolderChanges ==
  /\ Incident
  /\ \/ exists' = ~exists /\ UNCHANGED capped
     \/ capped' = ~capped /\ UNCHANGED exists
  /\ opted' = (opted /\ exists')
  /\ UNCHANGED <<row, mail, disc, askDiscovery, unburied>>

LifecycleNext ==
  \/ List \/ ReadOverrides \/ UpsertListed \/ MarkMissing \/ Tombstone \/ Stamp \/ DiscoveryFails
  \/ Sync \/ SyncMissing \/ Backfill \/ TrackFolder \/ Purge
  \/ GraceEnds \/ DiscoveryDue \/ FolderChanges

LifecycleFairness ==
  /\ WF_lifecycleVars(List \/ ReadOverrides \/ UpsertListed \/ MarkMissing \/ Tombstone \/ Stamp)
  /\ WF_lifecycleVars(DiscoveryDue) /\ WF_lifecycleVars(GraceEnds)
  /\ SF_lifecycleVars(Sync /\ row'.audited /\ mail'["in"] = "live") /\ SF_lifecycleVars(SyncMissing)
LifecycleSpec == LifecycleInit /\ [][LifecycleNext]_lifecycleVars /\ LifecycleFairness

-------------------------------------------------------------------------------
(* Mail of a folder that the provider keeps comes back to readers, whatever *)
(* glitches, deletions, purges and opt-ins went before: no interleaving of *)
(* discovery with trackFolder leaves a tracked folder with dead rows.      *)
MailReturns == <>[](exists /\ ~capped) => <>[](Eligible /\ mail["in"] = "live" /\ mail["old"] = "live")

(* A folder that the provider lost leaves the mirror in the end, its mail  *)
(* included, unless a discovery was cut between its two statements for it. *)
LostIsBuried ==
  <>[](~exists /\ ~unburied) => <>[](~Eligible /\ \A a \in {"in", "old"} : mail[a] # "live")

(* repository.ts:1948 "Every row of a gone folder leaves reads and search" *)
GoneLeavesSearch == <>[](~exists) => <>[](\A a \in {"in", "old"} : mail[a] # "live")

(* repository-safety.test.ts:162 "persists manual folder opt-ins across    *)
(* folder-count cap rediscovery": an opt-in stands against the cap until   *)
(* the provider loses the folder.                                          *)
OptInPersists == opted /\ disc.step = "idle" => row.tracked
===============================================================================
