----------------------------- MODULE MCFolderSync -----------------------------
(* Small instances of FolderSync for TLC. *)
EXTENDS FolderSyncInv

(* The callers of syncFolder: a full sweep with a reconcile slot, a full   *)
(* sweep without one, a LIST-STATUS catch-up, a Sent-only pass, and a live *)
(* pass with a host's recovery barrier.                                    *)
SweepWithSlot == [o \in DOMAIN NoOptions |->
  o \in {"allowReconcile", "allowFlagScan", "allowFlagDelta", "enforceLockDeadline"}]
SweepNoSlot == [o \in DOMAIN NoOptions |-> o \in {"allowFlagDelta", "enforceLockDeadline"}]
CatchUp == [o \in DOMAIN NoOptions |->
  o \in {"allowFlagDelta", "qresyncCatchUp", "enforceLockDeadline"}]
SentOnly == NoOptions
Barrier == [o \in DOMAIN NoOptions |->
  o \in {"allowReconcile", "allowFlagScan", "allowFlagDelta", "forceReconcile",
         "forceAuthoritativeReconcile", "forceFlagScan"}]
InboxCallers == {SweepWithSlot, CatchUp, Barrier}
InboxSweep == [SweepWithSlot EXCEPT !.enforceLockDeadline = FALSE]
InboxAndSent == {InboxSweep, SentOnly}
SweepAndSent == {SweepWithSlot, SentOnly}
===============================================================================
