-------------------------------- MODULE MCLanes --------------------------------
(***************************************************************************)
(* Components that share no state, each in its own behaviours.             *)
(***************************************************************************)
EXTENDS HistoryBackfill, ActionSessions, WorkerRuntime, TargetScheduler, MessageEvidence

(* What a FETCH and a read of a body may find of a message.                *)
MCMetas == {[env |-> 1, hdrs |-> {}], [env |-> 1, hdrs |-> Keys], [env |-> 2, hdrs |-> Keys]}
ReadOf(bytes, truncated, raw, its, complete) ==
  [hdrs |-> Keys, bytes |-> bytes, truncated |-> truncated, raw |-> raw, items |-> its, complete |-> complete]
MCBodies ==
  {ReadOf(1, FALSE, TRUE, {"i"}, TRUE), ReadOf(1, FALSE, FALSE, {"i"}, TRUE), ReadOf(1, TRUE, FALSE, {}, TRUE),
   ReadOf(1, FALSE, FALSE, {"i", "j"}, FALSE), ReadOf(2, FALSE, FALSE, {"j"}, TRUE)}

VARIABLE part
smallVars == <<sessionVars, workerVars, schedulerVars, evidenceVars>>
vars == <<part, historyVars, smallVars>>
History == part = "history"
OfActions == part = "sessions"
Worker == part = "worker"
Scheduler == part = "scheduler"
Evidence == part = "evidence"

(* A component that does not move stands at one initial state.             *)
Init ==
  /\ part \in {"history", "sessions", "worker", "scheduler", "evidence"}
  /\ HistoryInit /\ SessionsInit /\ WorkerInit /\ SchedulerInit /\ EvidenceInit
  /\ \A f \in HistoryFolders : f # 1 \/ ~History => old[f] = {1}
  /\ ~Scheduler => pending = {} /\ target = [t \in Tasks |-> CHOOSE x \in Targets : TRUE]
(* The second folder's mail stays as it is, and so do the bodies of a      *)
(* generation that came after a reset.                                     *)
Next ==
  \/ /\ History /\ HistoryNext /\ \A f \in HistoryFolders \ {1} : server'[f] = server[f] /\ old'[f] = old[f]
     /\ UNCHANGED <<part, smallVars>>
  \/ /\ OfActions /\ SessionsNext
     /\ UNCHANGED <<part, historyVars, workerVars, schedulerVars, evidenceVars>>
  \/ /\ Worker /\ WorkerNext
     /\ UNCHANGED <<part, historyVars, sessionVars, schedulerVars, evidenceVars>>
  \/ /\ Scheduler /\ SchedulerNext
     /\ UNCHANGED <<part, historyVars, sessionVars, workerVars, evidenceVars>>
  \/ /\ Evidence /\ EvidenceNext
     /\ \A r \in {2} \X Uids : body'[r] = body[r] /\ (message'[r] # Null => message'[r].env = 2)
     /\ UNCHANGED <<part, historyVars, sessionVars, workerVars, schedulerVars>>

(* The fairness of each component's own specification, where it moves.     *)
Fairness ==
  /\ WF_historyVars(History /\ (StartTurn \/ Batches)) /\ \A f \in HistoryFolders : SF_historyVars(History /\ HotPass(f))
  /\ \A a \in Actions : WF_sessionVars(OfActions /\ Proceeds(a))
  /\ WF_schedulerVars(Scheduler /\ PumpStart) /\ \A t \in Tasks : WF_schedulerVars(Scheduler /\ RunEnds(t))
Spec == Init /\ [][Next]_vars /\ Fairness

(* When the changes end, every folder's archive is mirrored.               *)
Archived == History => ArchiveArrives
(* An action ends whatever the server and the caller do.                   *)
ActionsEnd == OfActions => LetsGo
(* The scheduler's promise settles, with one answer for each task.         *)
TargetsSettle == Scheduler => []AnsweredOnce /\ Settles
===============================================================================
