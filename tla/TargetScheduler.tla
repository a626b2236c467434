---------------------------- MODULE TargetScheduler ----------------------------
(***************************************************************************)
(* runRuntimeTargetTasks: a host runs one task for each of several mail    *)
(* targets, at most Global at once and PerTarget of one target, until the  *)
(* last one has answered; targets that are paused or whose schema is not   *)
(* the runtime's are skipped, and an abort skips what has not started.     *)
(***************************************************************************)
EXTENDS Naturals, FiniteSets

CONSTANTS
  Tasks,            \* 1..n, in the order given
  Targets,
  Global, PerTarget

ASSUME SchedulerAssumption == Tasks \subseteq Nat /\ IsFiniteSet(Tasks) /\ {Global, PerTarget} \subseteq Nat \ {0}

VARIABLES
  target,      \* of a task
  pending, running,
  answers,     \* of a task: how many results it has
  completed, totalRunnable,
  signal, settled

schedulerVars == <<target, pending, running, answers, completed, totalRunnable, signal, settled>>

(* Public migration ids: a number and a name; 0 is not an id.              *)
ADDITIVE_SINCE_SEQUENCE == 29
isSchemaVersionReady(current, required) ==
  /\ current.seq # 0
  /\ IF current.seq = required.seq THEN current = required
     ELSE current.seq > required.seq /\ required.seq >= ADDITIVE_SINCE_SEQUENCE
SchemaIds == [seq : {0, 28, 29, 30}, name : {"x", "y"}]
getSkipReason(status, current, required) == status # "active" \/ ~isSchemaVersionReady(current, required)

(* The call: tasks that may not run are answered at once.                  *)
RunnableTasks == {t \in Tasks : \E status \in {"active", "paused", "needs_attention"}, c, r \in SchemaIds :
               r.seq # 0 /\ ~getSkipReason(status, c, r)}
SchedulerInit ==
  /\ target \in [Tasks -> Targets] /\ pending \in SUBSET RunnableTasks
  /\ running = {} /\ completed = 0 /\ totalRunnable = Cardinality(pending)
  /\ answers = [t \in Tasks |-> IF t \in pending THEN 0 ELSE 1]
  /\ signal = FALSE /\ settled = (pending = {})

maybeResolve(done) == settled' = (settled \/ done = totalRunnable)
Answer(ts) == answers' = [t \in Tasks |-> answers[t] + IF t \in ts THEN 1 ELSE 0]
Startable(ts) == {t \in ts : Cardinality({r \in running : target[r] = target[t]}) < PerTarget}

(* One turn of pump's loop; the event loop runs nothing in between but the *)
(* tasks it started, whose answers come later.                             *)
PumpStart ==
  /\ ~signal /\ Cardinality(running) < Global
  /\ LET next == Startable(pending) IN
     \E t \in next :
       /\ \A u \in next : t <= u
       /\ pending' = pending \ {t} /\ running' = running \cup {t}
  /\ UNCHANGED <<target, answers, completed, totalRunnable, signal, settled>>
(* A task's run ends, with a value or an error; when the signal is aborted *)
(* its finally skips the rest.                                             *)
TaskEnds_Unfinished(t) == settled' = settled
TaskEnds(t) == maybeResolve(completed')
RunEnds(t) ==
  /\ t \in running /\ running' = running \ {t} /\ Answer({t}) /\ completed' = completed + 1
  /\ TaskEnds(t) /\ UNCHANGED <<target, pending, totalRunnable, signal>>
(* skipPendingForAbort                                                     *)
Skipped_Uncounted(ts) == 0
Skipped(ts) == Cardinality(ts)
skipPendingForAbort ==
  /\ ~signal /\ ~settled /\ signal' = TRUE
  /\ Answer(pending) /\ completed' = completed + Skipped(pending) /\ pending' = {}
  /\ maybeResolve(completed') /\ UNCHANGED <<target, running, totalRunnable>>

SchedulerNext == PumpStart \/ skipPendingForAbort \/ \E t \in Tasks : RunEnds(t)
SchedulerFairness == WF_schedulerVars(PumpStart) /\ \A t \in Tasks : WF_schedulerVars(RunEnds(t))

-------------------------------------------------------------------------------
(* Properties.                                                             *)

(* The promise settles once every task has exactly one answer and no       *)
(* earlier, an abort at any moment included.                               *)
AnsweredOnce ==
  /\ \A t \in Tasks : answers[t] <= 1
  /\ settled <=> \A t \in Tasks : answers[t] = 1
(* And it does settle, whatever caps and targets the host gave.            *)
Settles == <>settled
===============================================================================
