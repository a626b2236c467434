------------------------------ MODULE ThreadRuns ------------------------------
(***************************************************************************)
(* The threading runs of one Mailbox Account: versioned projections of its *)
(* messages into conversations, built beside the active one, reviewed,     *)
(* activated, rolled back, retired and pruned, while mail is written and   *)
(* deleted and every referenced run is told of it by database triggers.    *)
(*                                                                         *)
(* A message's evidence is "a", when references or body digests prove it   *)
(* part of one conversation, or "s" and "r", a new message and a "Re:"     *)
(* without references, which only their subject can group.  A conversation *)
(* is named by the message that starts it, 0 for the proved one.  An       *)
(* assignment keeps the evidence it was computed from, as the closure      *)
(* edges do.                                                               *)
(*                                                                         *)
(* Every action is one transaction that holds the state row; the row lock  *)
(* also excludes the triggers.  Counters that are only compared with an    *)
(* earlier reading (the evidence clock, a run's generation) are modelled   *)
(* by dropping the reading when the counter moves.                         *)
(***************************************************************************)
EXTENDS Integers, FiniteSets, Sequences, FiniteSetsExt

CONSTANTS
  Messages,   \* physical message ids, numbers: pages follow their order
  Runs,       \* run ids; a pruned run's id may be used again
  Evidence,   \* what a message may show of its conversation
  Versions,   \* algorithm versions of the binaries deployed at the same time
  MaxBucket,  \* subject buckets above it are left alone
  MaxEvents,  \* bound on changes of the mail and failed passes, together
  Legacy,     \* a binary that stores bodies without evidence digests is alive
  AutoActivate, \* some worker runs with THREADING_AUTO_ACTIVATE_INITIAL
  NoRun, NoMessage

ASSUME ThreadAssumption ==
  /\ Messages \subseteq Nat \ {0} /\ IsFiniteSet(Messages) /\ Evidence \subseteq {"a", "s", "r"}
  /\ Versions \subseteq Nat /\ MaxBucket \in Nat \ {0}
  /\ MaxEvents \in Nat /\ Legacy \in BOOLEAN /\ AutoActivate \in BOOLEAN /\ NoRun \notin Runs /\ NoMessage \notin Messages

VARIABLES
  mail,   \* evidence of each message of the mirror, or "absent"
  events, \* counts the changes of the mail and the failed passes
  gap,    \* messages whose body waits for its evidence digest
  state,  \* imap_thread_state
  run,    \* imap_thread_runs, with each run's assignments and work
  certs,  \* comparison certificates whose revision and generations still hold
  undo    \* the history rows of the latest incremental operation

vars == <<mail, events, gap, state, run, certs, undo>>

Live == {"active", "ready", "standby"}
Unassigned == [conv |-> NoMessage, from |-> "absent", weak |-> FALSE]
NoUndo == [run |-> NoRun, before |-> [m \in {} |-> Unassigned]]
NoSuchRun == [status |-> "absent", stage |-> "ready", version |-> 0, after |-> 0, waits |-> FALSE, caughtUp |-> FALSE,
  from |-> NoRun, asg |-> [m \in Messages |-> Unassigned], queue |-> [m \in Messages |-> "none"],
  subjects |-> {}, undone |-> FALSE, initial |-> FALSE]

Init ==
  /\ mail \in [Messages -> Evidence \cup {"absent"}] /\ events = 0 /\ gap = {}
  /\ state = [active |-> NoRun, previous |-> NoRun, building |-> NoRun, cursor |-> 0, paused |-> FALSE]
  /\ run = [r \in Runs |-> NoSuchRun]
  /\ certs = {} /\ undo = NoUndo

Present == {m \in Messages : mail[m] # "absent"}
Referenced == {state.active, state.previous, state.building} \ {NoRun}
Terminal == {"archived", "failed", "rolled_back"}
Told_NotStandby == {r \in Referenced \ {state.previous} : run[r].status \notin Terminal}
Told == {r \in Referenced : run[r].status \notin Terminal}
HasWork(p) == p.subjects # {} \/ \E m \in Messages : p.queue[m] # "none"
HasReadyWork(p) == p.subjects # {} \/ \E m \in Messages : p.queue[m] = "ready"
Candidates == {r \in Runs : run[r].status \in {"building", "ready"}}
Assigned(p) == {m \in Messages : p.asg[m] # Unassigned}
(* Nothing reads a terminal run again: only its status is kept.            *)
Ended(p, status) == [NoSuchRun EXCEPT !.status = status, !.version = p.version]

-------------------------------------------------------------------------------
(* Threading a set of messages.                                            *)

(* What the stored evidence shows: without its digest a body proves nothing. *)
Shown(m) == IF m \in gap THEN "s" ELSE mail[m]
(* The subject groups a reply with the only message it can answer.        *)
Compute(ids, fallback) ==
  LET starts == {n \in ids : Shown(n) = "s"}
      replies == {n \in ids : Shown(n) = "r"}
      weak == IF fallback /\ Cardinality(starts) = 1 /\ replies # {} THEN starts \cup replies ELSE {}
  IN [m \in ids |-> [conv |-> IF Shown(m) = "a" THEN 0 ELSE IF m \in weak THEN Min(starts) ELSE m,
                      from |-> Shown(m), weak |-> m \in weak]]

(* expandClosure: what shares a conversation or an evidence key with the   *)
(* ids, by the run's stored assignments and by theirs computed now.        *)
Criteria(p, ids) ==
  LET now == Compute(ids, FALSE)
  IN [convs |-> {p.asg[m].conv : m \in ids} \cup {now[m].conv : m \in ids},
      proved |-> \E m \in ids : "a" \in {p.asg[m].from, now[m].from}]
Reached(p, ids) ==
  LET c == Criteria(p, ids)
  IN ids \cup {n \in Assigned(p) : p.asg[n].conv \in c.convs \/ (c.proved /\ p.asg[n].from = "a")}
Closure(p, seeds) ==
  LET grow[i \in 0..Cardinality(Messages)] == IF i = 0 THEN seeds ELSE Reached(p, grow[i - 1])
  IN grow[Cardinality(Messages)]

Changed(p, ids, fallback) == {m \in ids : p.asg[m] # Compute(ids, fallback)[m]}

(* persistAssignments of a closure; a changed row that its subject may     *)
(* group, or did group, puts the subject on the run's work list.           *)
Groupable(assignment) == assignment.from \in {"s", "r"}
Upserted(p, new) == [p EXCEPT !.asg = [m \in Messages |-> IF m \in DOMAIN new THEN new[m] ELSE @[m]]]
Persist(p, ids, fallback, enqueues) ==
  LET new == Compute(ids, fallback)
      regroups == \E m \in Changed(p, ids, fallback) : Groupable(new[m]) \/ p.asg[m].weak
  IN [Upserted(p, new) EXCEPT !.subjects = @ \cup IF enqueues /\ regroups THEN {"subject"} ELSE {}]
Dequeue(p, ids) == [p EXCEPT !.queue = [m \in Messages |-> IF m \in ids THEN "none" ELSE @[m]]]

-------------------------------------------------------------------------------
(* The database's evidence triggers.                                       *)

Queued(p, ids) == [p EXCEPT !.queue = [m \in Messages |-> IF m \in ids THEN "ready" ELSE @[m]]]
(* Every referenced run is told of a message; no reading of the evidence   *)
(* clock holds.                                                            *)
Tell(m) ==
  /\ run' = [r \in Runs |-> [(IF r \in Told THEN Queued(run[r], {m}) ELSE run[r]) EXCEPT !.caughtUp = FALSE]]
  /\ certs' = {}

Event == events < MaxEvents /\ events' = events + 1
WriteMail(m, e) ==
  /\ Event
  /\ \E late \in {FALSE, Legacy} : gap' = (gap \ {m}) \cup (IF late THEN {m} ELSE {})
  /\ <<mail[m], m \in gap>> # <<e, m \in gap'>>
  /\ mail' = [mail EXCEPT ![m] = e]
  /\ Tell(m)
  /\ UNCHANGED <<state, undo>>

(* One survivor of the message's stored conversation is enough to find the *)
(* rest; the sentinel lets every run acknowledge the deletion.             *)
Survivor(p, m) ==
  LET kin == {n \in Assigned(p) \ {m} : p.asg[n].conv = p.asg[m].conv}
  IN IF m \in Assigned(p) /\ kin # {} THEN {Min(kin)} ELSE {}
Forget(p, m) ==
  [Queued(Dequeue(p, {m}), Survivor(p, m)) EXCEPT
    !.asg[m] = Unassigned,
    !.subjects = @ \cup {"sentinel"} \cup (IF Groupable(p.asg[m]) THEN {"subject"} ELSE {})]
DeleteMail(m) ==
  /\ m \in Present /\ Event
  /\ mail' = [mail EXCEPT ![m] = "absent"] /\ gap' = gap \ {m}
  /\ run' = [r \in Runs |-> [(IF r \in Told THEN Forget(run[r], m)
                              ELSE Dequeue([run[r] EXCEPT !.asg[m] = Unassigned], {m})) EXCEPT !.caughtUp = FALSE]]
  /\ certs' = {}
  /\ UNCHANGED <<state, undo>>

(* The digest pass before a drain's transaction: queued messages first.    *)
QueuedGaps == {m \in gap : \E r \in Runs : run[r].status \in Live \cup {"building"} /\ run[r].queue[m] # "none"}
LegacyGaps == IF QueuedGaps = {} THEN gap ELSE {}
BackfillBodyEvidence ==
  \E m \in QueuedGaps \cup LegacyGaps :
    /\ gap' = gap \ {m}
    /\ Tell(m)
    /\ UNCHANGED <<mail, events, state, undo>>

-------------------------------------------------------------------------------
(* One bounded pass over a run: what processLiveRun and the stage handlers *)
(* leave of the run, one message, one closure or one subject at a time.    *)

Page(p) == {m \in Present : m > p.after}
First(p) == IF Page(p) = {} THEN {} ELSE {Min(Page(p))}
Stage(p, stage) == [p EXCEPT !.stage = stage, !.after = 0]

BodyEvidencePage(p) == IF Page(p) = {} THEN Stage(p, "strong") ELSE [p EXCEPT !.after = Min(Page(p))]

StrongPage(p) ==
  IF Page(p) = {} THEN Stage(p, "subject")
  ELSE LET ids == Closure(p, First(p))
       IN [Dequeue(Persist(p, ids, FALSE, TRUE), ids) EXCEPT !.after = Min(Page(p))]

(* The messages of the subject, and those the subject grouped before.      *)
Bucket(p) == {m \in Messages : Groupable(p.asg[m])}
Grouped(p) == {m \in Bucket(p) : p.asg[m].weak}
Inert(p) == {key \in p.subjects : key = "sentinel" \/ (Grouped(p) = {} /\ Cardinality(Bucket(p)) < 2)}
Done(p) == [p EXCEPT !.subjects = @ \ {"subject"}]

SubjectWork(p) ==
  CASE Inert(p) # {} -> [p EXCEPT !.subjects = @ \ {CHOOSE key \in Inert(p) : TRUE}]
    [] Inert(p) = {} /\ p.subjects = {} -> IF p.status = "building" /\ p.stage = "subject" THEN Stage(p, "catchup") ELSE p
    [] Inert(p) = {} /\ p.subjects # {} /\ Cardinality(Bucket(p)) > MaxBucket ->
         IF Grouped(p) = {} THEN Done(p)
         ELSE LET q == Persist(p, Closure(p, {Min(Grouped(p))}), FALSE, FALSE)
              IN IF Grouped(q) = {} THEN Done(q) ELSE q
    [] OTHER -> Done(Persist(p, Closure(p, Bucket(p)), TRUE, FALSE))

DirtyQueue(p, ids) == LET reached == Closure(p, ids) IN Dequeue(Persist(p, reached, FALSE, TRUE), reached)
ReadyQueue(p) == {m \in Messages : p.queue[m] = "ready"}
Missing(p) == Present \ Assigned(p)

Ready(p) == [p EXCEPT !.status = "ready", !.stage = "ready", !.after = 0, !.caughtUp = TRUE]
Catchup(p, m) ==
  CASE m \in Messages -> DirtyQueue(p, {m})
    [] HasReadyWork(p) /\ ReadyQueue(p) = {} -> SubjectWork(p)
    [] HasWork(p) /\ ~HasReadyWork(p) -> p
    [] OTHER -> IF Missing(p) # {} THEN DirtyQueue(p, {Min(Missing(p))}) ELSE Ready(p)

LiveRun(p, m) ==
  CASE m \in Messages -> DirtyQueue(p, {m})
    [] p.subjects # {} /\ ReadyQueue(p) = {} -> SubjectWork(p)
    [] p.status = "ready" /\ ~HasReadyWork(p) /\ Missing(p) # {} -> DirtyQueue(p, {Min(Missing(p))})
    [] OTHER -> p

(* m is the queued message the pass takes, if there is one.                *)
Processed(p, m) ==
  IF p.status \in Live THEN LiveRun(p, m)
  ELSE CASE p.stage = "body_evidence" -> BodyEvidencePage(p)
         [] p.stage = "strong"        -> StrongPage(p)
         [] p.stage = "subject"       -> SubjectWork(p)
         [] OTHER                     -> Catchup(p, m)
UsesQueue(p) == p.status \in Live \/ p.stage = "catchup"
Attempted(p, m) ==
  IF UsesQueue(p) /\ m \in Messages THEN {m}
  ELSE IF p.status = "building" /\ p.stage = "strong" THEN First(p)
  ELSE IF p.subjects # {} THEN Bucket(p) ELSE {}

(* After a pass: backoff forgotten, the evidence clock acknowledged.       *)
AfterPass(p, q) == [q EXCEPT !.waits = FALSE, !.caughtUp = @ \/ (p.status \in Live /\ ~HasWork(q))]

-------------------------------------------------------------------------------
(* drainAccount.                                                           *)

Executable(v, r, statuses) == r # NoRun /\ run[r].status \in statuses => run[r].version <= v
Executes(v) ==
  /\ Executable(v, state.active, {"active"}) /\ Executable(v, state.previous, {"standby"})
  /\ Executable(v, state.building, {"building", "ready"})

(* A candidate that is none any more, or of an older algorithm, is dropped *)
(* and a build starts when the active run is missing or older.             *)
NewRun(v, initial) ==
  [NoSuchRun EXCEPT !.status = "building", !.stage = "body_evidence", !.version = v, !.initial = initial]
Obsolete(v) == state.building # NoRun /\ (run[state.building].version < v \/ state.building \notin Candidates)
Needed(v) ==
  /\ state.building = NoRun \/ Obsolete(v)
  /\ state.active # NoRun => run[state.active].version < v
Dropped(v) == IF Obsolete(v) THEN [run EXCEPT ![state.building] = Ended(@, "failed")] ELSE run
NewBuild(v) ==
  IF ~Needed(v) THEN {[building |-> IF Obsolete(v) THEN NoRun ELSE state.building, run |-> Dropped(v)]}
  ELSE {[building |-> r, run |-> [Dropped(v) EXCEPT ![r] = NewRun(v, state.active = NoRun)]] :
          r \in {r \in Runs : run[r].status = "absent" /\ Candidates \subseteq {state.building}}}

(* RUN_FAIRNESS_SCHEDULE: the next turn whose run has work and may run     *)
(* now, or else has work.                                                  *)
Schedule == <<"active", "active", "standby", "active", "building">>
Turn_ActiveFirst(cursor, waiting) ==
  IF waiting = {} THEN <<>>
  ELSE <<IF "active" \in waiting THEN "active" ELSE CHOOSE role \in waiting : TRUE, cursor>>
Turn(cursor, waiting) ==
  LET turns == {i \in 0..4 : Schedule[((cursor + i) % 5) + 1] \in waiting}
  IN IF turns = {} THEN <<>> ELSE LET t == (cursor + Min(turns)) % 5 IN <<Schedule[t + 1], (t + 1) % 5>>
RunOf(role, w) == CASE role = "active" -> state.active [] role = "standby" -> state.previous [] OTHER -> w.building
Candidate(role, w, v) ==
  LET r == RunOf(role, w)
  IN /\ r # NoRun
     /\ IF role = "building" THEN w.run[r].version = v
        ELSE ~state.paused /\ w.run[r].status = role /\ w.run[r].version <= v /\ HasReadyWork(w.run[r])
Scheduled(w, v) ==
  LET waiting == {role \in {"active", "standby", "building"} : Candidate(role, w, v)}
      now == {role \in waiting : ~w.run[RunOf(role, w)].waits}
      turn == Turn(state.cursor, IF now # {} THEN now ELSE waiting)
  IN IF turn # <<>> THEN [run |-> RunOf(turn[1], w), cursor |-> turn[2]]
     ELSE [run |-> IF ~state.paused /\ state.active # NoRun THEN state.active ELSE NoRun, cursor |-> state.cursor]

Picks(p) == IF UsesQueue(p) /\ ReadyQueue(p) # {} THEN ReadyQueue(p) ELSE {NoMessage}
Material(p, q) == p.asg # q.asg

(* Only the latest material change of the active run can be taken back.    *)
History(r, p, q) ==
  IF p.status = "active" /\ Material(p, q)
  THEN [run |-> r, before |-> [m \in {m \in Messages : p.asg[m] # q.asg[m]} |-> p.asg[m]]] ELSE undo
CertsAfter(r, p, q) == IF Material(p, q) THEN {c \in certs : r \notin {c.baseline, c.candidate}} ELSE certs

(* What a pass can leave: a run that waits, or none, is left alone.        *)
Outcomes(w, r) ==
  LET p == w.run[r]
  IN IF r = NoRun \/ p.waits THEN {[run |-> w.run, certs |-> certs, undo |-> undo]}
     ELSE {LET q == Processed(p, m)
           IN [run |-> [w.run EXCEPT ![r] = AfterPass(p, q)], certs |-> CertsAfter(r, p, q), undo |-> History(r, p, q)] :
             m \in Picks(p)}
Drain(v) ==
  /\ QueuedGaps = {} /\ Executes(v)
  /\ \E w \in NewBuild(v) :
       LET turn == Scheduled(w, v)
       IN /\ state' = [state EXCEPT !.building = w.building, !.cursor = turn.cursor]
          /\ \E left \in Outcomes(w, turn.run) : run' = left.run /\ certs' = left.certs /\ undo' = left.undo
  /\ UNCHANGED <<mail, events, gap>>

(* activateRun: what it asks of the run itself, and the switch it makes of *)
(* the runs and of the pointers.  Nothing reads the mode of a run that was *)
(* activated.                                                              *)
UpToDate_WithWork(v, p) == p.version = v /\ p.status = "ready" /\ p.stage = "ready" /\ Missing(p) = {}
UpToDate(v, p) ==
  /\ p.version = v /\ p.status = "ready" /\ p.stage = "ready"
  /\ ~HasWork(p) /\ p.caughtUp /\ Missing(p) = {}
Switched(runs, r) ==
  [s \in Runs |-> CASE s = r -> [runs[s] EXCEPT !.status = "active", !.from = state.active, !.initial = FALSE]
                    [] s = state.active -> [runs[s] EXCEPT !.status = "standby"]
                    [] s = state.previous /\ s # state.active -> Ended(runs[s], "archived")
                    [] OTHER -> runs[s]]
SwitchTo(r) == [state EXCEPT !.active = r, !.previous = state.active, !.building = NoRun, !.paused = FALSE]

(* A drain by a worker with the option goes on, in a transaction of its    *)
(* own, to activate the first run that the pass found or left ready.  If   *)
(* the run is not current the drain fails there and only its pass stays,   *)
(* as after a crash; a change that comes between meets ActivateRun.        *)
FirstReady(p) == state.active = NoRun /\ p.status = "ready" /\ p.initial
ActivatesFirst(v, r, runs) == AutoActivate /\ r # NoRun /\ FirstReady(runs[r]) /\ UpToDate(v, runs[r])
DrainActivates(v) ==
  /\ state.active = NoRun /\ QueuedGaps = {} /\ Executes(v)
  /\ \E w \in NewBuild(v) :
       LET turn == Scheduled(w, v)
       IN \E left \in Outcomes(w, turn.run) :
            /\ ActivatesFirst(v, turn.run, left.run)
            /\ run' = Switched(left.run, turn.run) /\ certs' = left.certs
            /\ state' = [SwitchTo(turn.run) EXCEPT !.cursor = turn.cursor]
  /\ undo' = NoUndo
  /\ UNCHANGED <<mail, events, gap>>

(* listAccountsNeedingWork: what makes the worker drain the account; auto  *)
(* is the worker's option.                                                 *)
Advances_OnlyWithWork(p, auto) ==
  \/ p.status = "building" /\ (p.stage = "catchup" => HasReadyWork(p))
  \/ p.status = "ready" /\ HasReadyWork(p)
  \/ auto /\ FirstReady(p)
Advances_NoFirst(p, auto) ==
  \/ p.status = "building" /\ (p.stage = "catchup" => HasReadyWork(p) \/ ~HasWork(p))
  \/ p.status = "ready" /\ HasReadyWork(p)
Advances(p, auto) ==
  \/ p.status = "building" /\ (p.stage = "catchup" => HasReadyWork(p) \/ ~HasWork(p))
  \/ p.status = "ready" /\ HasReadyWork(p)
  \/ auto /\ FirstReady(p)
Workable(r, status) == r # NoRun /\ run[r].status = status /\ ~run[r].waits /\ HasReadyWork(run[r])
Listed(v, auto) ==
  /\ ~state.paused /\ Executes(v)
  /\ \/ Needed(v) \/ Obsolete(v)
     \/ state.building # NoRun /\ ~run[state.building].waits /\ Advances(run[state.building], auto)
     \/ Workable(state.active, "active") \/ Workable(state.previous, "standby")

(* The pass rolled back, and its failure recorded: what it attempted waits,*)
(* and so does the run unless the batch can be made smaller.  The turn is  *)
(* not taken: the schedule's cursor rolled back too.                       *)
DrainFails(v) ==
  /\ QueuedGaps = {} /\ Executes(v) /\ Event
  /\ \E w \in NewBuild(v) :
     LET r == Scheduled(w, v).run
         p == run[r]
     IN /\ r # NoRun /\ p.status # "absent" /\ ~p.waits
        /\ \E m \in Picks(p), waits \in BOOLEAN :
             /\ waits \/ (UsesQueue(p) /\ m # NoMessage)
             /\ run' = [run EXCEPT ![r].waits = waits,
                  ![r].queue = [n \in Messages |-> IF n \in Attempted(p, m) THEN "later" ELSE @[n]]]
  /\ UNCHANGED <<mail, gap, state, certs, undo>>

(* Time: a backoff ends.                                                   *)
RunDue(r) == run[r].waits /\ run' = [run EXCEPT ![r].waits = FALSE] /\ UNCHANGED <<mail, events, gap, state, certs, undo>>
WorkDue(r, m) ==
  /\ run[r].queue[m] = "later"
  /\ run' = [run EXCEPT ![r].queue[m] = "ready"] /\ UNCHANGED <<mail, events, gap, state, certs, undo>>

-------------------------------------------------------------------------------
(* What an operator asks for.                                              *)

(* A candidate at work is reused; any other makes room for a new one.      *)
StartRebuild(v) ==
  /\ Executes(v) /\ (state.active # NoRun => run[state.active].version <= v)
  /\ LET old == state.building
         reused == old # NoRun /\ run[old].status = "building" /\ run[old].version = v
         left == IF old = NoRun THEN run
                 ELSE [run EXCEPT ![old] = Ended(@, IF @.status = "ready" THEN "archived" ELSE "failed")]
     IN /\ ~reused /\ Candidates \subseteq {old}
        /\ \E r \in Runs :
             /\ run[r].status = "absent"
             /\ run' = [left EXCEPT ![r] = NewRun(v, FALSE)]
             /\ state' = [state EXCEPT !.building = r]
  /\ UNCHANGED <<mail, events, gap, certs, undo>>

(* A certificate of what a reviewer saw; it passed the thresholds.         *)
CompareRuns(r) ==
  /\ state.active # NoRun /\ run[r].status = "ready" /\ run[state.active].stage = "ready"
  /\ \A s \in {r, state.active} : ~HasWork(run[s]) /\ run[s].caughtUp
  /\ certs' = certs \cup {[baseline |-> state.active, candidate |-> r]}
  /\ UNCHANGED <<mail, events, gap, state, run, undo>>

Certified(r) == state.active # NoRun => \E c \in certs : c.baseline = state.active /\ c.candidate = r
Activatable(v, r) == UpToDate(v, run[r]) /\ Executable(v, state.active, {"active"}) /\ Certified(r)
ActivateRun(v, r) ==
  /\ Activatable(v, r)
  /\ run' = Switched(run, r) /\ state' = SwitchTo(r)
  /\ undo' = NoUndo
  /\ UNCHANGED <<mail, events, gap, certs>>

(* The pointers swap back if the standby still follows the mail.           *)
Returnable(v, r) == ~HasWork(run[r]) /\ run[r].status = "standby" /\ run[r].version <= v /\ run[r].caughtUp
RollbackActivation(v) ==
  /\ state.active # NoRun
  /\ LET back == run[state.active].from
     IN /\ back # NoRun => Returnable(v, back)
        /\ run' = [s \in Runs |-> CASE s = state.active -> Ended(run[s], "rolled_back")
                                    [] s = back -> [run[s] EXCEPT !.status = "active"]
                                    [] OTHER -> run[s]]
        /\ state' = [state EXCEPT !.active = back, !.previous = state.active, !.building = NoRun, !.paused = TRUE]
  /\ undo' = NoUndo
  /\ UNCHANGED <<mail, events, gap, certs>>

(* The rows of the latest material change get their former values back;    *)
(* the run stays as it is until it is rebuilt.                             *)
RollbackIncremental ==
  /\ undo.run # NoRun /\ undo.run = state.active
  /\ DOMAIN undo.before \subseteq Assigned(run[undo.run])
  /\ LET p == run[undo.run]
         q == [p EXCEPT !.asg = [m \in Messages |-> IF m \in DOMAIN undo.before THEN undo.before[m] ELSE @[m]], !.undone = TRUE]
     IN run' = [run EXCEPT ![undo.run] = q] /\ certs' = CertsAfter(undo.run, p, q)
  /\ undo' = NoUndo
  /\ state' = [state EXCEPT !.paused = TRUE]
  /\ UNCHANGED <<mail, events, gap>>

-------------------------------------------------------------------------------
(* Retention, for runs superseded longer ago than the window.              *)

RetireStandby ==
  /\ state.previous # NoRun /\ run[state.previous].status = "standby"
  /\ run' = [run EXCEPT ![state.previous] = Ended(@, "archived")]
  /\ state' = [state EXCEPT !.previous = NoRun]
  /\ UNCHANGED <<mail, events, gap, certs, undo>>

Prunable(r) == run[r].status \in Terminal /\ r \notin Referenced
PruneRun(r) ==
  /\ Prunable(r)
  /\ run' = [s \in Runs |-> IF s = r THEN NoSuchRun ELSE IF run[s].from = r THEN [run[s] EXCEPT !.from = s] ELSE run[s]]
  /\ certs' = {c \in certs : r \notin {c.baseline, c.candidate}}
  /\ UNCHANGED <<mail, events, gap, state, undo>>

Next ==
  \/ \E m \in Messages, e \in Evidence : WriteMail(m, e)
  \/ \E m \in Messages : DeleteMail(m)
  \/ BackfillBodyEvidence
  \/ \E v \in Versions : Drain(v) \/ DrainActivates(v) \/ DrainFails(v) \/ StartRebuild(v) \/ RollbackActivation(v)
  \/ \E r \in Runs : RunDue(r) \/ CompareRuns(r) \/ PruneRun(r) \/ \E m \in Messages : WorkDue(r, m)
  \/ \E v \in Versions, r \in Runs : ActivateRun(v, r)
  \/ RollbackIncremental \/ RetireStandby

Spec == Init /\ [][Next]_vars
===============================================================================
