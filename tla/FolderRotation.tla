---------------------------- MODULE FolderRotation ----------------------------
(***************************************************************************)
(* Which ordinary folders a full pass works on and which of them may spend *)
(* its reconcile slots.  Paths are numbers, so a folder's number is its    *)
(* place in the ORDER BY path.  Priority folders are selected whenever     *)
(* they are due; they matter here as what uses up the slots or the lock    *)
(* budget before the ordinary folders, which is bounded (MaxChanges) like  *)
(* every other disturbance: a reconcile recurs every six hours, passes     *)
(* every few minutes.                                                      *)
(***************************************************************************)
EXTENDS Naturals, Sequences, FiniteSets, SequencesExt

CONSTANTS
  Folders,    \* ordinary folder paths, numbers
  PerCycle,   \* MAX_RR_FOLDERS_PER_CYCLE
  Slots,      \* MAX_RECONCILES_PER_CYCLE
  MaxChanges  \* bound on the disturbances

ASSUME RotationAssumption ==
  /\ Folders \subseteq Nat /\ IsFiniteSet(Folders)
  /\ PerCycle \in Nat \ {0} /\ Slots \in Nat \ {0} /\ MaxChanges \in Nat

VARIABLES
  eligible, \* tracked, not missing, not pending verification
  due,      \* next_sync_due_at has passed
  audits,   \* folders whose next_reconcile_at has passed, earliest first
  cursor,   \* folder_rr_cursor
  fresh,    \* folders that the discovery of this pass began to track
  batch,    \* folders the running pass still has to sync
  slots,    \* remainingReconciles
  changes
rotationVars == <<eligible, due, audits, cursor, fresh, batch, slots, changes>>

RotationTypeOK ==
  /\ eligible \subseteq Folders /\ due \subseteq Folders /\ fresh \subseteq Folders
  /\ Range(audits) \subseteq Folders /\ IsInjective(audits)
  /\ Range(batch) \subseteq Folders /\ IsInjective(batch)
  /\ cursor \in 0..Cardinality(Folders) /\ slots \in 0..Slots /\ changes \in 0..MaxChanges

RotationInit ==
  /\ eligible \in SUBSET Folders /\ due = Folders /\ audits = <<>> /\ cursor = 0 /\ fresh = {}
  /\ batch = <<>> /\ slots = 0 /\ changes = 0

Disturb == changes < MaxChanges /\ changes' = changes + 1

-------------------------------------------------------------------------------
(* getFoldersDueForSync.                                                   *)

Sorted(S, Key(_)) ==
  [i \in 1..Cardinality(S) |-> CHOOSE f \in S : Cardinality({g \in S : Key(g) < Key(f)}) = i - 1]
ByPath(S) == Sorted(S, LAMBDA f : f)
From(s, n) == IF s = <<>> THEN s
              ELSE LET k == n % Len(s) IN SubSeq(s, k + 1, Len(s)) \o SubSeq(s, 1, k)
Keep(s, S) == SelectSeq(s, LAMBDA f : f \in S)

Preferred == Keep(ByPath(fresh), eligible \cap due)
DueInTurn == Keep(From(ByPath(eligible), cursor), due)
Selected ==
  LET all == Preferred \o Keep(DueInTurn, Folders \ fresh)
  IN SubSeq(all, 1, IF Len(all) < PerCycle THEN Len(all) ELSE PerCycle)
(* The cursor moves past the last folder that its turn brought in.         *)
Moved_NotStored(selected) == cursor
Moved(selected) ==
  LET turn == Keep(selected, Folders \ fresh)
  IN IF turn = <<>> THEN cursor ELSE Cardinality({f \in eligible : f <= Last(turn)}) % Cardinality(eligible)
(* Execution order: preferred folders, then the earliest reconcile first.  *)
Rank(f) == IF f \in Range(audits) THEN CHOOSE i \in 1..Len(audits) : audits[i] = f ELSE Len(audits) + 1
Position(s, f) == CHOOSE i \in 1..Len(s) : s[i] = f
InOrder_AsSelected(s) == s
InOrder(s) ==
  LET wide == Cardinality(Folders) + 2 IN
  Sorted(Range(s), LAMBDA f :
    (IF f \in fresh THEN 0 ELSE wide * wide) + wide * Rank(f) + Position(s, f))

(* A pass starts; folders proven changed by LIST-STATUS come first and do  *)
(* not move the cursor.                                                    *)
StartPass(extra, left) ==
  /\ batch = <<>>
  /\ \E selected \in {Selected} :
     /\ extra \cap Range(selected) = {} /\ Cardinality(extra) <= PerCycle
     /\ batch' = ByPath(extra) \o InOrder(selected)
     /\ cursor' = Moved(selected)
  /\ slots' = left /\ fresh' = {}
  /\ UNCHANGED <<eligible, due, audits>>
OrdinaryPass == StartPass({}, Slots) /\ UNCHANGED changes
DisturbedPass ==
  /\ batch = <<>> /\ Disturb
  /\ \E extra \in SUBSET eligible, left \in 0..Slots : StartPass(extra, left)

-------------------------------------------------------------------------------
(* The loop over the folders.                                              *)

(* syncFolder and markFolderSynced: a due reconcile runs while slots last; *)
(* one that stays unclean is due again at the next cadence.                *)
SyncNext ==
  /\ batch # <<>> /\ batch' = Tail(batch)
  /\ LET f == Head(batch) IN
     /\ due' = due \ {f}
     /\ IF f \in Range(audits) /\ slots > 0
        THEN audits' = Keep(audits, Folders \ {f}) /\ slots' = slots - 1
        ELSE UNCHANGED <<audits, slots>>
  /\ UNCHANGED <<eligible, cursor, fresh, changes>>
(* A folder that fails stays due; its reconcile attempt was spent.         *)
FailNext ==
  /\ batch # <<>> /\ batch' = Tail(batch) /\ Disturb
  /\ slots' \in {slots} \cup (IF Head(batch) \in Range(audits) /\ slots > 0 THEN {slots - 1} ELSE {})
  /\ UNCHANGED <<eligible, due, audits, cursor, fresh>>
(* The lock budget or a lost connection ends the pass.                     *)
StopPass ==
  /\ batch # <<>> /\ batch' = <<>> /\ Disturb
  /\ UNCHANGED <<eligible, due, audits, cursor, fresh, slots>>

-------------------------------------------------------------------------------
(* Time and the account's folders.                                         *)

FallDue(f) ==
  /\ f \notin due /\ due' = due \cup {f}
  /\ UNCHANGED <<eligible, audits, cursor, fresh, batch, slots, changes>>
AuditDue(f) ==
  /\ f \notin Range(audits) /\ audits' = Append(audits, f)
  /\ UNCHANGED <<eligible, due, cursor, fresh, batch, slots, changes>>
(* Discovery runs at the start of a pass.                                  *)
Appear(f) ==
  /\ batch = <<>> /\ f \notin eligible /\ Disturb
  /\ eligible' = eligible \cup {f} /\ fresh' = fresh \cup {f} /\ due' = due \cup {f}
  /\ UNCHANGED <<audits, cursor, batch, slots>>
Vanish(f) ==
  /\ batch = <<>> /\ f \in eligible /\ Disturb
  /\ eligible' = eligible \ {f} /\ fresh' = fresh \ {f}
  /\ UNCHANGED <<due, audits, cursor, batch, slots>>

RotationNext ==
  \/ OrdinaryPass \/ DisturbedPass
  \/ SyncNext \/ FailNext \/ StopPass
  \/ \E f \in Folders : FallDue(f) \/ AuditDue(f) \/ Appear(f) \/ Vanish(f)

RotationFairness ==
  /\ WF_rotationVars(OrdinaryPass) /\ WF_rotationVars(SyncNext)
  /\ \A f \in Folders : WF_rotationVars(FallDue(f))
RotationSpec == RotationInit /\ [][RotationNext]_rotationVars /\ RotationFairness

-------------------------------------------------------------------------------
(* A due folder is synced in the end however the list grows and shrinks    *)
(* and however often the others fall due again, unless it leaves the list. *)
DueIsServed == \A f \in Folders :
  (f \in eligible /\ f \in due) ~> (f \notin eligible \/ f \notin due)

(* So is the reconcile of a folder, although a pass has slots for fewer    *)
(* folders than it syncs.                                                  *)
AuditIsServed == \A f \in Folders :
  (f \in eligible /\ f \in Range(audits)) ~> (f \notin eligible \/ f \notin Range(audits))
===============================================================================
