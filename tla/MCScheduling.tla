----------------------------- MODULE MCScheduling -----------------------------
(***************************************************************************)
(* Three parts of the schedule that share no state: whether a pass of an   *)
(* account may start, which folders of its working set it takes, and       *)
(* whether a folder is in the working set at all.  A behaviour moves one.  *)
(***************************************************************************)
EXTENDS FolderRotation, FolderLifecycle, AccountHealth

VARIABLE part
vars == <<part, rotationVars, lifecycleVars, healthVars>>
Rotation == part = "rotation"
Lifecycle == part = "lifecycle"
Health == part = "health"

Init ==
  /\ part \in {"rotation", "lifecycle", "health"} /\ RotationInit /\ LifecycleInit /\ HealthInit
  /\ ~Rotation => eligible = {}
  /\ ~Lifecycle => capped = FALSE
  /\ ~Health => provider = "up"
Next ==
  \/ Rotation /\ RotationNext /\ UNCHANGED <<part, lifecycleVars, healthVars>>
  \/ Lifecycle /\ LifecycleNext /\ UNCHANGED <<part, rotationVars, healthVars>>
  \/ Health /\ HealthNext /\ UNCHANGED <<part, rotationVars, lifecycleVars>>

Spec == Init /\ [][Next]_vars

(* Each part runs under the fairness of its own specification, which       *)
(* stands with the property that needs it.                                 *)

(* Every due folder is synced and every due reconcile gets a slot in the   *)
(* end; the mail of a folder that the provider keeps comes back, and a     *)
(* folder that it lost is buried (getFoldersDueForSync, discovery,         *)
(* trackFolder and reconcile together).                                    *)
FoldersServed ==
  /\ Rotation /\ RotationFairness => DueIsServed /\ AuditIsServed
  /\ Lifecycle /\ LifecycleFairness => MailReturns /\ LostIsBuried
(* An account that the provider serves again heals, unless it waits for a  *)
(* human, and it waits for one only with a reason (AccountHealth).         *)
Heals == []BrokenIsMarked /\ (Health /\ HealthFairness => AccountHeals)
===============================================================================
