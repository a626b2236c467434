---------------------------- MODULE ThreadRunsProps ----------------------------
(* What the threading runs of an account promise.                            *)
EXTENDS ThreadRuns, TLC

Assignment == [conv : Messages \cup {0, NoMessage}, from : Evidence \cup {"s", "absent"}, weak : BOOLEAN]

(* Every variable keeps its type, and the account's pointers the statuses    *)
(* imap_thread_assert_scope demands of them.                                 *)
TypeOK ==
  /\ mail \in [Messages -> Evidence \cup {"absent"}] /\ gap \subseteq Present
  /\ state.cursor \in 0..4 /\ state.paused \in BOOLEAN
  /\ state.active # NoRun => run[state.active].status = "active"
  /\ state.previous # NoRun => run[state.previous].status \in {"standby", "rolled_back", "archived"}
  /\ state.building # NoRun => run[state.building].status \in {"building", "ready"}
  /\ \A r \in Runs : /\ run[r].asg \in [Messages -> Assignment]
                     /\ run[r].queue \in [Messages -> {"none", "ready", "later"}]
                     /\ run[r].subjects \subseteq {"subject", "sentinel"}

(* What one pass over the whole mailbox would assign.                        *)
Whole ==
  LET bucket == {m \in Present : Shown(m) \in {"s", "r"}}
  IN Compute(Present, Cardinality(bucket) <= MaxBucket)
(* As that pass, but for a subject that groups less than it could: a message *)
(* that leaves an ambiguous subject does not put the subject back to work.   *)
AsWhole(asg, m) ==
  \/ asg[m] = Whole[m]
  \/ Whole[m].weak /\ asg[m] = [conv |-> m, from |-> Shown(m), weak |-> FALSE]
Faithful(p) == \A m \in Messages : IF m \in Present THEN AsWhole(p.asg, m) ELSE p.asg[m] = Unassigned

(* A run that readers see or may go back to, with nothing left to do, groups *)
(* the mailbox as threading all of it at once would: bounded passes over     *)
(* dirty messages, closures, subjects and deletions keep no stale merge and  *)
(* lose no proved one.  Not so once an operator took back a change of it.    *)
ProjectionFaithful ==
  \A r \in Runs :
    run[r].status \in {"active", "standby", "ready"} /\ r \in Referenced /\ ~HasWork(run[r]) /\ ~run[r].undone
        /\ Missing(run[r]) = {} => Faithful(run[r])

(* Whatever becomes what readers see, by activation or by going back, shows  *)
(* every message of the mailbox as it is now.                                *)
SwitchIsCurrent ==
  [][state'.active # state.active /\ state'.active # NoRun /\ ~run'[state'.active].undone
       => Faithful(run'[state'.active])]_vars

(* A build that may run waits for at most one round of the schedule however  *)
(* busy mail keeps the other runs: every pass they get, and do something     *)
(* with, brings the build's turn of RUN_FAIRNESS_SCHEDULE closer.            *)
TurnsLeft(cursor) == (4 - cursor) % 5
BuildWaits == state.building # NoRun /\ ~run[state.building].waits /\ run[state.building].version \in Versions
Answered(r) == run'[r].asg # run[r].asg /\ run'[r].status = run[r].status
Serves ==
  /\ BuildWaits /\ state'.building = state.building /\ mail' = mail /\ ~state.paused /\ ~state'.paused
  /\ \E r \in {state.active, state.previous} \ {NoRun} : Answered(r)
RolloutNotStarved == [][Serves => TurnsLeft(state'.cursor) < TurnsLeft(state.cursor)]_vars

(* The worker's query lists an account when a drain of it does something,  *)
(* and every drain of a listed account does: no work is overlooked and no  *)
(* account is drained for nothing.  Exceptions: a candidate has its turn   *)
(* even if only live runs have work, once until theirs, for the schedule   *)
(* is at its head then; the candidate that is ready and misses messages    *)
(* takes them at once, their backoff set aside, when another run's work    *)
(* brings a pass, but their own does not bring one before it ends; and,    *)
(* where first runs are activated automatically, one that is ready but     *)
(* whose work all waits for its backoff is listed at every tick until      *)
(* then, while one that waits itself would be activated before it is       *)
(* listed.  A build that cannot start, for a candidate no pointer names,   *)
(* is the subject of CandidateIsReferenced.                                *)
CandidateIdles(w, turn) == state.cursor # 0 /\ turn = [run |-> w.building, cursor |-> 0]
MissingWaits ==
  /\ state.building # NoRun /\ run[state.building].status = "ready"
  /\ \E m \in Missing(run[state.building]) : run[state.building].queue[m] = "later"
FirstIsReady == state.building # NoRun /\ FirstReady(run[state.building])
FirstOwes == FirstIsReady /\ HasWork(run[state.building]) /\ ~HasReadyWork(run[state.building])
FirstWaits == FirstIsReady /\ run[state.building].waits
WorkIsFound ==
  \A v \in Versions : Executes(v) /\ ~state.paused /\ QueuedGaps = {} =>
    \A w \in NewBuild(v) :
      LET turn == Scheduled(w, v)
      IN \A left \in Outcomes(w, turn.run), auto \in {FALSE, AutoActivate} :
           LET changes == left.run # run \/ (auto /\ ActivatesFirst(v, turn.run, left.run))
           IN /\ Listed(v, auto) => changes \/ CandidateIdles(w, turn) \/ (auto /\ FirstOwes)
              /\ changes => Listed(v, auto) \/ MissingWaits \/ (auto /\ FirstWaits)

(* reliability-invariants.md: a candidate is told of every change.           *)
CandidateIsReferenced == Candidates \subseteq Referenced

(* Runs are told apart by their roles only.                                  *)
Symmetric == Permutations(Runs)
===============================================================================
