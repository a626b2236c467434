---------------------------- MODULE ThreadRunsProof ----------------------------
(***************************************************************************)
(* For any messages, runs and versions of the deployed binaries: the       *)
(* account's pointers name runs that play their role; a rebuild gets its   *)
(* turn; a run that readers see shows the mailbox as threading it at once  *)
(* would; what is activated or gone back to is current; and the worker's   *)
(* query finds every account with work.                                    *)
(***************************************************************************)
EXTENDS ThreadRunsProps, FiniteSetTheorems, TLAPS

Fields == {"status", "stage", "version", "after", "waits", "caughtUp", "from", "asg", "queue", "subjects", "undone", "initial"}
RunLike(p) == DOMAIN p = Fields

(* The account's pointers name runs of the status that their role demands, *)
(* so they are distinct (imap_thread_assert_scope); a run went before the  *)
(* active one only if its id is one.                                       *)
PointersFit ==
  /\ state.active # NoRun => run[state.active].status = "active"
  /\ state.previous # NoRun => run[state.previous].status \in {"standby", "rolled_back", "archived"}
  /\ state.building # NoRun => run[state.building].status \in {"building", "ready"}
StateTypeOK ==
  state \in [active : Runs \cup {NoRun}, previous : Runs \cup {NoRun}, building : Runs \cup {NoRun},
             cursor : 0..4, paused : BOOLEAN]
RunsOK == DOMAIN run = Runs /\ \A r \in Runs : RunLike(run[r]) /\ run[r].from \in Runs \cup {NoRun}
MailOK == DOMAIN mail = Messages
PointerInv == StateTypeOK /\ RunsOK /\ PointersFit

-------------------------------------------------------------------------------
(* What a pass leaves of a run. *)

(* q is what p may become under a pass: same run, perhaps ready now.       *)
Passed(p, q) ==
  /\ RunLike(q) /\ q.from = p.from /\ q.version = p.version
  /\ q.status = p.status \/ (p.status = "building" /\ q.status = "ready")

LEMMA PassedOn == ASSUME NEW p, NEW q, NEW r, Passed(p, q), Passed(q, r) PROVE Passed(p, r)
  BY DEF Passed
LEMMA PassedNot == ASSUME NEW p, RunLike(p) PROVE Passed(p, p)
  BY DEF Passed
LEMMA DequeuePasses == ASSUME NEW p, RunLike(p), NEW ids PROVE Passed(p, Dequeue(p, ids))
  BY DEF Passed, RunLike, Fields, Dequeue
LEMMA StagePasses == ASSUME NEW p, RunLike(p), NEW stage PROVE Passed(p, Stage(p, stage))
  BY DEF Passed, RunLike, Fields, Stage
LEMMA UpsertedPasses == ASSUME NEW p, RunLike(p), NEW new PROVE Passed(p, Upserted(p, new))
  BY DEF Passed, RunLike, Fields, Upserted
LEMMA SubjectsPass == ASSUME NEW p, RunLike(p), NEW S PROVE Passed(p, [p EXCEPT !.subjects = @ \cup S])
  BY DEF Passed, RunLike, Fields
LEMMA PersistPasses ==
  ASSUME NEW p, RunLike(p), NEW ids, NEW fallback, NEW enqueues
  PROVE  Passed(p, Persist(p, ids, fallback, enqueues))
  <1> DEFINE new == Compute(ids, fallback)
  <1> DEFINE S == IF enqueues /\ \E m \in Changed(p, ids, fallback) : Groupable(new[m]) \/ p.asg[m].weak THEN {"subject"} ELSE {}
  <1> DEFINE u == Upserted(p, new)
  <1>1. Passed(p, u) BY UpsertedPasses
  <1>2. Persist(p, ids, fallback, enqueues) = [u EXCEPT !.subjects = @ \cup S] BY DEF Persist
  <1> HIDE DEF u, S, new
  <1>a. RunLike(u) BY <1>1 DEF Passed
  <1>3. Passed(u, [u EXCEPT !.subjects = @ \cup S]) BY <1>a, SubjectsPass
  <1> QED BY <1>1, <1>2, <1>3, PassedOn DEF u
LEMMA DirtyPasses == ASSUME NEW p, RunLike(p), NEW ids PROVE Passed(p, DirtyQueue(p, ids))
  <1> DEFINE q == Persist(p, Closure(p, ids), FALSE, TRUE)
  <1>1. Passed(p, q) BY PersistPasses
  <1>2. RunLike(q) BY <1>1 DEF Passed
  <1>3. DirtyQueue(p, ids) = Dequeue(q, Closure(p, ids)) BY DEF DirtyQueue
  <1> HIDE DEF q
  <1>4. Passed(q, DirtyQueue(p, ids)) BY <1>2, <1>3, DequeuePasses
  <1> QED BY <1>1, <1>4, PassedOn
LEMMA DonePasses == ASSUME NEW p, RunLike(p), NEW S PROVE Passed(p, [p EXCEPT !.subjects = @ \ S])
  BY DEF Passed, RunLike, Fields
LEMMA SubjectPasses == ASSUME NEW p, RunLike(p) PROVE Passed(p, SubjectWork(p))
  <1>1. CASE Inert(p) # {}
    <2>1. SubjectWork(p) = [p EXCEPT !.subjects = @ \ {CHOOSE key \in Inert(p) : TRUE}] BY <1>1 DEF SubjectWork
    <2> QED BY <2>1, DonePasses
  <1>2. CASE Inert(p) = {} /\ p.subjects = {}
    <2>1. SubjectWork(p) = IF p.status = "building" /\ p.stage = "subject" THEN Stage(p, "catchup") ELSE p BY <1>2 DEF SubjectWork
    <2> QED BY <2>1, StagePasses, PassedNot
  <1>3. CASE Inert(p) = {} /\ p.subjects # {} /\ Cardinality(Bucket(p)) > MaxBucket
    <2> DEFINE q == Persist(p, Closure(p, {Min(Grouped(p))}), FALSE, FALSE)
    <2>1. SubjectWork(p) = IF Grouped(p) = {} THEN Done(p) ELSE IF Grouped(q) = {} THEN Done(q) ELSE q BY <1>3 DEF SubjectWork
    <2>2. Passed(p, q) BY PersistPasses
    <2> HIDE DEF q
    <2>3. Passed(p, Done(p)) BY DonePasses DEF Done
    <2>4. Passed(q, Done(q)) BY <2>2, DonePasses DEF Done, Passed
    <2> QED BY <2>1, <2>2, <2>3, <2>4, PassedOn
  <1>4. CASE Inert(p) = {} /\ p.subjects # {} /\ ~(Cardinality(Bucket(p)) > MaxBucket)
    <2> DEFINE q == Persist(p, Closure(p, Bucket(p)), TRUE, FALSE)
    <2>1. SubjectWork(p) = Done(q) BY <1>4 DEF SubjectWork
    <2>2. Passed(p, q) BY PersistPasses
    <2> HIDE DEF q
    <2>3. Passed(q, Done(q)) BY <2>2, DonePasses DEF Done, Passed
    <2> QED BY <2>1, <2>2, <2>3, PassedOn
  <1> QED BY <1>1, <1>2, <1>3, <1>4
LEMMA StrongPasses == ASSUME NEW p, RunLike(p) PROVE Passed(p, StrongPage(p))
  <1>1. CASE Page(p) = {} BY <1>1, StagePasses DEF StrongPage
  <1>2. CASE Page(p) # {}
    <2> DEFINE q == Persist(p, Closure(p, First(p)), FALSE, TRUE)
    <2> DEFINE d == Dequeue(q, Closure(p, First(p)))
    <2>1. StrongPage(p) = [d EXCEPT !.after = Min(Page(p))] BY <1>2 DEF StrongPage
    <2>2. Passed(p, q) BY PersistPasses
    <2>3. Passed(q, d) BY <2>2, DequeuePasses DEF Passed
    <2>4. Passed(p, d) BY <2>2, <2>3, PassedOn
    <2> HIDE DEF d, q
    <2>5. Passed(d, [d EXCEPT !.after = Min(Page(p))]) BY <2>4 DEF Passed, RunLike, Fields
    <2> QED BY <2>1, <2>4, <2>5, PassedOn
  <1> QED BY <1>1, <1>2
LEMMA ReadyPasses ==
  ASSUME NEW p, RunLike(p), p.status \in {"building", "ready"}
  PROVE  Passed(p, Ready(p))
  BY DEF Passed, RunLike, Fields, Ready
LEMMA CatchupPasses ==
  ASSUME NEW p, RunLike(p), p.status = "building", NEW m
  PROVE  Passed(p, Catchup(p, m))
  <1>1. Catchup(p, m) \in {DirtyQueue(p, {m}), SubjectWork(p), p, DirtyQueue(p, {Min(Missing(p))}), Ready(p)} BY DEF Catchup
  <1> QED BY <1>1, DirtyPasses, SubjectPasses, PassedNot, ReadyPasses
LEMMA LiveRunPasses == ASSUME NEW p, RunLike(p), NEW m PROVE Passed(p, LiveRun(p, m))
  <1>1. LiveRun(p, m) \in {DirtyQueue(p, {m}), SubjectWork(p), p, DirtyQueue(p, {Min(Missing(p))})} BY DEF LiveRun
  <1> QED BY <1>1, DirtyPasses, SubjectPasses, PassedNot
LEMMA PassKeeps ==
  ASSUME NEW p, RunLike(p), p.status \in Live \cup {"building"}, NEW m
  PROVE  Passed(p, AfterPass(p, Processed(p, m)))
  <1> DEFINE q == Processed(p, m)
  <1>1. ASSUME p.status \in Live PROVE Passed(p, q) BY <1>1, LiveRunPasses DEF Processed
  <1>2. ASSUME p.status = "building" PROVE Passed(p, q)
    <2>1. p.status \notin Live BY <1>2 DEF Live
    <2>2. CASE p.stage = "body_evidence"
      <3>1. q = BodyEvidencePage(p) BY <2>1, <2>2 DEF Processed
      <3>2. Passed(p, [p EXCEPT !.after = Min(Page(p))]) BY DEF Passed, RunLike, Fields
      <3> QED BY <3>1, <3>2, StagePasses DEF BodyEvidencePage
    <2>3. CASE p.stage = "strong" BY <2>1, <2>3, StrongPasses DEF Processed
    <2>4. CASE p.stage = "subject" BY <2>1, <2>4, SubjectPasses DEF Processed
    <2>5. CASE p.stage \notin {"body_evidence", "strong", "subject"}
      <3>1. q = Catchup(p, m) BY <2>1, <2>5 DEF Processed
      <3> QED BY <1>2, <3>1, CatchupPasses
    <2> QED BY <2>2, <2>3, <2>4, <2>5
  <1>3. Passed(p, q) BY <1>1, <1>2
  <1> HIDE DEF q
  <1>4. Passed(q, AfterPass(p, q)) BY <1>3 DEF Passed, RunLike, Fields, AfterPass
  <1> QED BY <1>3, <1>4, PassedOn DEF q

-------------------------------------------------------------------------------
(* The schedule.                                                           *)

LEMMA ModFive == \A x \in 0..4 : x % 5 = x
  OBVIOUS
LEMMA ModTypes == \A x \in Nat : x % 5 \in 0..4
  OBVIOUS
LEMMA TurnTaken ==
  ASSUME NEW c \in 0..4, NEW waiting
  PROVE  \/ Turn(c, waiting) = <<>> /\ \A i \in 0..4 : Schedule[((c + i) % 5) + 1] \notin waiting
         \/ \E i \in 0..4 : /\ Schedule[((c + i) % 5) + 1] \in waiting
                            /\ \A j \in 0..4 : Schedule[((c + j) % 5) + 1] \in waiting => i <= j
                            /\ Turn(c, waiting) = <<Schedule[((c + i) % 5) + 1], (((c + i) % 5) + 1) % 5>>
  <1> DEFINE turns == {i \in 0..4 : Schedule[((c + i) % 5) + 1] \in waiting}
  <1>1. CASE turns = {} BY <1>1 DEF Turn
  <1>2. CASE turns # {}
    <2> HIDE DEF turns
    <2>1. turns \subseteq 0..4 BY DEF turns
    <2>2. \E i \in turns : \A j \in turns : i <= j
      <3>1. CASE 0 \in turns BY <2>1, <3>1
      <3>2. CASE 0 \notin turns /\ 1 \in turns BY <2>1, <3>2
      <3>3. CASE 0 \notin turns /\ 1 \notin turns /\ 2 \in turns BY <2>1, <3>3
      <3>4. CASE 0 \notin turns /\ 1 \notin turns /\ 2 \notin turns /\ 3 \in turns BY <2>1, <3>4
      <3>5. CASE 0 \notin turns /\ 1 \notin turns /\ 2 \notin turns /\ 3 \notin turns
        <4>1. PICK x \in turns : TRUE BY <1>2
        <4>2. x \in 0..4 /\ x \notin {0, 1, 2, 3} BY <2>1, <3>5
        <4>3. x = 4 BY <4>2
        <4> QED BY <2>1, <3>5, <4>3
      <3> QED BY <3>1, <3>2, <3>3, <3>4, <3>5
    <2>3. Min(turns) \in turns /\ \A j \in turns : Min(turns) <= j BY <2>2 DEF Min
    <2>4. Turn(c, waiting) = <<Schedule[((c + Min(turns)) % 5) + 1], (((c + Min(turns)) % 5) + 1) % 5>>
      BY <1>2 DEF Turn, turns
    <2> DEFINE k == Min(turns)
    <2>5. k \in turns /\ (\A j \in turns : k <= j)
          /\ Turn(c, waiting) = <<Schedule[((c + k) % 5) + 1], (((c + k) % 5) + 1) % 5>> BY <2>3, <2>4
    <2> HIDE DEF k
    <2>6. k \in 0..4 /\ Schedule[((c + k) % 5) + 1] \in waiting BY <2>5 DEF turns
    <2>7. \A j \in 0..4 : Schedule[((c + j) % 5) + 1] \in waiting => k <= j BY <2>5 DEF turns
    <2> QED BY <2>5, <2>6, <2>7
  <1> QED BY <1>1, <1>2

LEMMA BuildHasTurn ==
  ASSUME NEW c \in 0..4, NEW waiting, "building" \in waiting
  PROVE  Turn(c, waiting) # <<>> /\ \E k \in 0..4 : Schedule[((c + k) % 5) + 1] \in waiting
  <1> DEFINE k == 4 - c
  <1>1. k \in 0..4 /\ c + k = 4 OBVIOUS
  <1>2. Schedule[((c + k) % 5) + 1] = "building" BY <1>1, ModFive DEF Schedule
  <1> HIDE DEF k
  <1>a. \E i \in 0..4 : Schedule[((c + i) % 5) + 1] \in waiting BY <1>1, <1>2
  <1>3. \E i \in 0..4 : Turn(c, waiting) = <<Schedule[((c + i) % 5) + 1], (((c + i) % 5) + 1) % 5>>
    BY <1>a, TurnTaken
  <1>4. Turn(c, waiting) # <<>> BY <1>3
  <1> QED BY <1>a, <1>4

(* A turn that passes over a waiting build brings it nearer.               *)
LEMMA BuildNearer ==
  ASSUME NEW c \in 0..4, NEW waiting, "building" \in waiting, Turn(c, waiting)[1] # "building"
  PROVE  Turn(c, waiting) # <<>> /\ TurnsLeft(Turn(c, waiting)[2]) < TurnsLeft(c)
  <1>1. 4 - c \in 0..4 /\ c + (4 - c) = 4 OBVIOUS
  <1>2. Schedule[((c + (4 - c)) % 5) + 1] = "building" BY <1>1, ModFive DEF Schedule
  <1>3. PICK i \in 0..4 : /\ Schedule[((c + i) % 5) + 1] \in waiting
                          /\ \A j \in 0..4 : Schedule[((c + j) % 5) + 1] \in waiting => i <= j
                          /\ Turn(c, waiting) = <<Schedule[((c + i) % 5) + 1], (((c + i) % 5) + 1) % 5>>
    BY BuildHasTurn, TurnTaken
  <1>4. i <= 4 - c BY <1>1, <1>2, <1>3
  <1>5. Schedule[((c + i) % 5) + 1] # "building" BY <1>3
  <1>6. i # 4 - c BY <1>2, <1>5
  <1>7. c + i \in 0..4 /\ c + i + 1 \in 0..4 BY <1>4, <1>6
  <1>8. (c + i) % 5 = c + i /\ (c + i + 1) % 5 = c + i + 1 BY <1>7, ModFive
  <1>9. Turn(c, waiting)[2] = c + i + 1 BY <1>3, <1>8
  <1>10. TurnsLeft(c + i + 1) = 4 - (c + i + 1) /\ TurnsLeft(c) = 4 - c
    <2>1. 4 - (c + i + 1) \in 0..4 BY <1>7
    <2> QED BY <1>1, <2>1, ModFive DEF TurnsLeft
  <1>11. Turn(c, waiting) # <<>> BY <1>3
  <1> QED BY <1>9, <1>10, <1>11

LEMMA TurnCursor ==
  ASSUME NEW c \in 0..4, NEW waiting, Turn(c, waiting) # <<>>
  PROVE  Turn(c, waiting)[1] \in waiting /\ Turn(c, waiting)[2] \in 0..4
  <1>1. PICK i \in 0..4 : /\ Schedule[((c + i) % 5) + 1] \in waiting
                          /\ Turn(c, waiting) = <<Schedule[((c + i) % 5) + 1], (((c + i) % 5) + 1) % 5>>
    BY TurnTaken
  <1>2. (c + i) % 5 \in 0..4 BY ModTypes
  <1>3. (((c + i) % 5) + 1) % 5 \in 0..4 BY <1>2, ModTypes
  <1> QED BY <1>1, <1>3

LEMMA EmptyLike == RunLike(NoSuchRun) /\ NoSuchRun.from = NoRun /\ NoSuchRun.status = "absent"
  BY DEF RunLike, Fields, NoSuchRun
LEMMA EndedLike == ASSUME NEW p, NEW status PROVE RunLike(Ended(p, status)) /\ Ended(p, status).from = NoRun /\ Ended(p, status).status = status
  <1> HIDE DEF NoSuchRun
  <1> QED BY EmptyLike DEF RunLike, Fields, Ended
LEMMA NewLike ==
  ASSUME NEW v, NEW initial
  PROVE  RunLike(NewRun(v, initial)) /\ NewRun(v, initial).from = NoRun /\ NewRun(v, initial).status = "building"
  BY EmptyLike DEF RunLike, Fields, NewRun

(* The build that a drain goes on with, and the runs it leaves alone.      *)
RunsLike(rs) == DOMAIN rs = Runs /\ \A r \in Runs : RunLike(rs[r]) /\ rs[r].from \in Runs \cup {NoRun}
LEMMA BuildFits ==
  ASSUME PointerInv, NEW v, NEW w \in NewBuild(v)
  PROVE  /\ w.building \in Runs \cup {NoRun} /\ RunsLike(w.run)
         /\ \A r \in {state.active, state.previous} \ {NoRun} : w.run[r] = run[r]
         /\ w.building # NoRun => w.run[w.building].status \in {"building", "ready"}
         /\ w.building = state.building /\ state.building # NoRun => w.run = run /\ ~Obsolete(v)
  <1>1. state.building \in Runs \cup {NoRun} /\ state.active \in Runs \cup {NoRun} /\ state.previous \in Runs \cup {NoRun}
    BY DEF PointerInv, StateTypeOK
  <1>2. RunsLike(run) BY DEF PointerInv, RunsOK, RunsLike
  <1>3. RunsLike(Dropped(v)) /\ \A r \in Runs \ {state.building} : Dropped(v)[r] = run[r]
    BY <1>1, <1>2, EndedLike DEF Dropped, RunsLike
  <1>4. \A r \in {state.active, state.previous} \ {NoRun} : r \in Runs /\ r # state.building /\ run[r].status # "absent"
    BY <1>1, ThreadAssumption DEF PointerInv, PointersFit
  <1>5. CASE ~Needed(v)
    <2>1. w = [building |-> IF Obsolete(v) THEN NoRun ELSE state.building, run |-> Dropped(v)] BY <1>5 DEF NewBuild
    <2>2. w.building = (IF Obsolete(v) THEN NoRun ELSE state.building) /\ w.run = Dropped(v) BY <2>1
    <2>3. ~Obsolete(v) => Dropped(v) = run BY DEF Dropped
    <2> QED BY <1>1, <1>2, <1>3, <1>4, <2>2, <2>3 DEF PointerInv, PointersFit
  <1>6. CASE Needed(v)
    <2> DEFINE new == NewRun(v, state.active = NoRun)
    <2>1. PICK r \in Runs : run[r].status = "absent" /\ w = [building |-> r, run |-> [Dropped(v) EXCEPT ![r] = new]]
      BY <1>6 DEF NewBuild
    <2>8. RunLike(new) /\ new.from = NoRun /\ new.status = "building" BY NewLike
    <2> HIDE DEF new
    <2>2. w.building = r /\ w.run = [Dropped(v) EXCEPT ![r] = new] BY <2>1
    <2>3. RunsLike(w.run) BY <1>3, <2>2, <2>8 DEF RunsLike
    <2>4. \A s \in Runs \ {r} : w.run[s] = Dropped(v)[s] BY <1>3, <2>2 DEF RunsLike
    <2>5. w.run[r] = new BY <1>3, <2>2 DEF RunsLike
    <2>6. state.building # NoRun => r # state.building BY <2>1 DEF PointerInv, PointersFit
    <2>7. \A s \in {state.active, state.previous} \ {NoRun} : w.run[s] = run[s]
      BY <1>3, <1>4, <2>1, <2>4
    <2> QED BY <2>2, <2>3, <2>5, <2>6, <2>7, <2>8
  <1> QED BY <1>5, <1>6

Waiting(w, v) == {role \in {"active", "standby", "building"} : Candidate(role, w, v)}
Now(w, v) == {role \in Waiting(w, v) : ~w.run[RunOf(role, w)].waits}
Chosen(w, v) == Turn(state.cursor, IF Now(w, v) # {} THEN Now(w, v) ELSE Waiting(w, v))
LEMMA ScheduledIs ==
  ASSUME NEW w, NEW v
  PROVE  Scheduled(w, v) = IF Chosen(w, v) # <<>> THEN [run |-> RunOf(Chosen(w, v)[1], w), cursor |-> Chosen(w, v)[2]]
                           ELSE [run |-> IF ~state.paused /\ state.active # NoRun THEN state.active ELSE NoRun, cursor |-> state.cursor]
  BY DEF Scheduled, Chosen, Now, Waiting
LEMMA ScheduledFits ==
  ASSUME PointerInv, NEW v, NEW w \in NewBuild(v)
  PROVE  /\ Scheduled(w, v).cursor \in 0..4
         /\ Scheduled(w, v).run # NoRun =>
              /\ Scheduled(w, v).run \in Runs /\ Scheduled(w, v).run \in {state.active, state.previous, w.building}
              /\ w.run[Scheduled(w, v).run].status \in Live \cup {"building"}
  <1> DEFINE W == IF Now(w, v) # {} THEN Now(w, v) ELSE Waiting(w, v)
  <1> DEFINE turn == Chosen(w, v)
  <1>1. state.cursor \in 0..4 /\ state.active \in Runs \cup {NoRun} /\ state.previous \in Runs \cup {NoRun}
        /\ w.building \in Runs \cup {NoRun} BY BuildFits DEF PointerInv, StateTypeOK
  <1>2. CASE turn # <<>>
    <2>1. turn[1] \in W /\ turn[2] \in 0..4 BY <1>1, <1>2, TurnCursor DEF Chosen
    <2>2. turn[1] \in Waiting(w, v) BY <2>1 DEF Now
    <2>3. PICK role \in {"active", "standby", "building"} : role = turn[1] /\ Candidate(role, w, v) BY <2>2 DEF Waiting
    <2>4. Scheduled(w, v).run = RunOf(role, w) /\ Scheduled(w, v).cursor = turn[2] BY <1>2, <2>3, ScheduledIs
    <2>5. RunOf(role, w) # NoRun BY <2>3 DEF Candidate
    <2>6. RunOf(role, w) \in {state.active, state.previous, w.building} /\ RunOf(role, w) \in Runs BY <1>1, <2>5 DEF RunOf
    <2>7. CASE role = "building"
      <3>1. RunOf(role, w) = w.building BY <2>7 DEF RunOf
      <3> QED BY <2>1, <2>4, <2>5, <2>6, <3>1, BuildFits DEF Live
    <2>8. CASE role # "building"
      <3>1. w.run[RunOf(role, w)].status = role BY <2>3, <2>8 DEF Candidate
      <3> QED BY <2>1, <2>3, <2>4, <2>6, <2>8, <3>1 DEF Live
    <2> QED BY <2>7, <2>8
  <1>3. CASE turn = <<>>
    <2>1. Scheduled(w, v).run = (IF ~state.paused /\ state.active # NoRun THEN state.active ELSE NoRun)
          /\ Scheduled(w, v).cursor = state.cursor BY <1>3, ScheduledIs
    <2>2. state.active # NoRun => w.run[state.active].status = "active" BY BuildFits DEF PointerInv, PointersFit
    <2> QED BY <1>1, <2>1, <2>2 DEF Live
  <1> QED BY <1>2, <1>3

(* What a drain leaves.                                                    *)
Leaves(w, r, m) == [w.run EXCEPT ![r] = AfterPass(w.run[r], Processed(w.run[r], m))]
(* What a pass may leave, whichever message it takes.                      *)
LEMMA OutcomeIs ==
  ASSUME NEW w, NEW r, NEW left \in Outcomes(w, r)
  PROVE  \/ (r = NoRun \/ w.run[r].waits) /\ left.run = w.run
         \/ ~(r = NoRun \/ w.run[r].waits) /\ \E m \in Picks(w.run[r]) : left.run = Leaves(w, r, m)
  <1>1. CASE r = NoRun \/ w.run[r].waits
    <2>1. left = [run |-> w.run, certs |-> certs, undo |-> undo] BY <1>1 DEF Outcomes
    <2> QED BY <1>1, <2>1
  <1>2. CASE ~(r = NoRun \/ w.run[r].waits)
    <2>1. PICK m \in Picks(w.run[r]) :
            left = [run |-> Leaves(w, r, m),
                    certs |-> CertsAfter(r, w.run[r], Processed(w.run[r], m)), undo |-> History(r, w.run[r], Processed(w.run[r], m))]
      BY <1>2 DEF Outcomes, Leaves
    <2>2. left.run = Leaves(w, r, m) BY <2>1
    <2> QED BY <1>2, <2>2
  <1> QED BY <1>1, <1>2
LEMMA DrainParts ==
  ASSUME NEW v, Drain(v)
  PROVE  \E w \in NewBuild(v) :
           /\ state' = [state EXCEPT !.building = w.building, !.cursor = Scheduled(w, v).cursor]
           /\ \/ run' = w.run
              \/ Scheduled(w, v).run # NoRun /\ \E m : run' = Leaves(w, Scheduled(w, v).run, m)
  <1>1. PICK w \in NewBuild(v) :
          /\ state' = [state EXCEPT !.building = w.building, !.cursor = Scheduled(w, v).cursor]
          /\ \E left \in Outcomes(w, Scheduled(w, v).run) : run' = left.run
    BY DEF Drain
  <1> DEFINE r == Scheduled(w, v).run
  <1>2. PICK left \in Outcomes(w, r) : run' = left.run BY <1>1
  <1> HIDE DEF r
  <1>3. CASE r = NoRun \/ w.run[r].waits
    <2>1. left = [run |-> w.run, certs |-> certs, undo |-> undo] BY <1>2, <1>3 DEF Outcomes
    <2> QED BY <1>1, <1>2, <2>1
  <1>4. CASE ~(r = NoRun \/ w.run[r].waits)
    <2>1. PICK m \in Picks(w.run[r]) :
            left = [run |-> Leaves(w, r, m),
                    certs |-> CertsAfter(r, w.run[r], Processed(w.run[r], m)), undo |-> History(r, w.run[r], Processed(w.run[r], m))]
      BY <1>2, <1>4 DEF Outcomes, Leaves
    <2>2. run' = Leaves(w, r, m) BY <1>2, <2>1
    <2> QED BY <1>1, <1>4, <2>2 DEF r
  <1> QED BY <1>3, <1>4

-------------------------------------------------------------------------------
(* The pointers keep fitting. *)

(* The runs and the candidate that a drain's pass ends with play the roles *)
(* of the pointers, which it leaves alone but for the candidate's.         *)
RunsFit(rs, b) ==
  /\ RunsLike(rs) /\ b \in Runs \cup {NoRun}
  /\ state.active # NoRun => rs[state.active].status = "active"
  /\ state.previous # NoRun => rs[state.previous].status \in {"standby", "rolled_back", "archived"}
  /\ b # NoRun => rs[b].status \in {"building", "ready"}
LEMMA OutcomeFits ==
  ASSUME PointerInv, NEW v, NEW w \in NewBuild(v), NEW left \in Outcomes(w, Scheduled(w, v).run)
  PROVE  RunsFit(left.run, w.building)
  <1> DEFINE r == Scheduled(w, v).run
  <1>1. /\ w.building \in Runs \cup {NoRun} /\ RunsLike(w.run)
        /\ \A s \in {state.active, state.previous} \ {NoRun} : w.run[s] = run[s]
        /\ w.building # NoRun => w.run[w.building].status \in {"building", "ready"}
    BY BuildFits
  <1>2. r # NoRun => r \in Runs /\ w.run[r].status \in Live \cup {"building"} BY ScheduledFits
  <1>3. state.active \in Runs \cup {NoRun} /\ state.previous \in Runs \cup {NoRun} BY DEF PointerInv, StateTypeOK
  <1>4. /\ state.active # NoRun => w.run[state.active].status = "active"
        /\ state.previous # NoRun => w.run[state.previous].status \in {"standby", "rolled_back", "archived"}
    BY <1>1 DEF PointerInv, PointersFit
  <1>5. \/ left.run = w.run
        \/ r # NoRun /\ \E m : left.run = Leaves(w, r, m)
    BY OutcomeIs
  <1> HIDE DEF r
  <1>6. CASE left.run = w.run BY <1>1, <1>4, <1>6 DEF RunsFit
  <1>7. ASSUME r # NoRun, NEW m, left.run = Leaves(w, r, m) PROVE RunsFit(left.run, w.building)
    <2> DEFINE rs == left.run
    <2>1. RunLike(w.run[r]) /\ r \in Runs /\ w.run[r].from \in Runs \cup {NoRun} BY <1>1, <1>2, <1>7 DEF RunsLike
    <2>2. Passed(w.run[r], AfterPass(w.run[r], Processed(w.run[r], m))) BY <1>2, <1>7, <2>1, PassKeeps
    <2>3. DOMAIN rs = Runs /\ \A s \in Runs \ {r} : rs[s] = w.run[s] BY <1>1, <1>7 DEF Leaves, RunsLike
    <2>4. rs[r] = AfterPass(w.run[r], Processed(w.run[r], m)) BY <1>1, <1>7, <2>1 DEF Leaves, RunsLike
    <2> HIDE DEF rs
    <2>5. RunLike(rs[r]) /\ rs[r].from = w.run[r].from
          /\ (rs[r].status = w.run[r].status \/ (w.run[r].status = "building" /\ rs[r].status = "ready"))
      BY <2>2, <2>4 DEF Passed
    <2>6. RunsLike(rs) BY <1>1, <2>1, <2>3, <2>5 DEF RunsLike
    <2>7. \A s \in Runs : rs[s].status = w.run[s].status \/ (w.run[s].status = "building" /\ rs[s].status = "ready")
      BY <2>3, <2>5
    <2>8. RunsFit(rs, w.building) BY <1>1, <1>3, <1>4, <2>6, <2>7 DEF RunsFit
    <2> QED BY <2>8 DEF rs
  <1> QED BY <1>5, <1>6, <1>7
LEMMA DrainKeeps == ASSUME PointerInv, NEW v, Drain(v) PROVE PointerInv'
  <1>1. PICK w \in NewBuild(v) :
          /\ state' = [state EXCEPT !.building = w.building, !.cursor = Scheduled(w, v).cursor]
          /\ \E left \in Outcomes(w, Scheduled(w, v).run) : run' = left.run
    BY DEF Drain
  <1>2. RunsFit(run', w.building) BY <1>1, OutcomeFits
  <1>3. Scheduled(w, v).cursor \in 0..4 BY ScheduledFits
  <1>4. StateTypeOK' /\ state'.active = state.active /\ state'.previous = state.previous /\ state'.building = w.building
    BY <1>1, <1>2, <1>3 DEF PointerInv, StateTypeOK, RunsFit
  <1> QED BY <1>2, <1>4 DEF PointerInv, RunsOK, RunsLike, PointersFit, RunsFit

(* A step that keeps each run but for its work, and perhaps its answers.   *)
Stays(p, q) == RunLike(q) /\ q.status = p.status /\ q.from = p.from
RunsStay == DOMAIN run' = Runs /\ \A r \in Runs : Stays(run[r], run'[r])
SameAnswers == \A r \in Runs : run'[r].asg = run[r].asg
LEMMA StayKeeps == ASSUME PointerInv, RunsStay, UNCHANGED state PROVE PointerInv'
  <1>1. RunsOK' BY DEF PointerInv, RunsOK, RunsStay, Stays
  <1>2. StateTypeOK' BY DEF PointerInv, StateTypeOK
  <1>3. PointersFit' BY DEF PointerInv, StateTypeOK, PointersFit, RunsStay, Stays
  <1> QED BY <1>1, <1>2, <1>3 DEF PointerInv

LEMMA TellStays == ASSUME PointerInv, NEW m, Tell(m) PROVE RunsStay /\ SameAnswers
  <1>1. DOMAIN run' = Runs BY DEF Tell
  <1>2. ASSUME NEW r \in Runs PROVE Stays(run[r], run'[r]) /\ run'[r].asg = run[r].asg
    <2> DEFINE q == IF r \in Told THEN Queued(run[r], {m}) ELSE run[r]
    <2>1. RunLike(run[r]) BY DEF PointerInv, RunsOK
    <2>2. RunLike(q) /\ q.status = run[r].status /\ q.from = run[r].from /\ q.asg = run[r].asg
      BY <2>1 DEF Queued, RunLike, Fields
    <2>3. run'[r] = [q EXCEPT !.caughtUp = FALSE] BY DEF Tell
    <2> HIDE DEF q
    <2> QED BY <2>2, <2>3 DEF Stays, RunLike, Fields
  <1> QED BY <1>1, <1>2 DEF RunsStay, SameAnswers

LEMMA DeleteStays == ASSUME PointerInv, NEW m, DeleteMail(m) PROVE RunsStay
  <1>1. DOMAIN run' = Runs BY DEF DeleteMail
  <1>2. ASSUME NEW r \in Runs PROVE Stays(run[r], run'[r])
    <2> DEFINE p == run[r]
    <2> DEFINE q == IF r \in Told THEN Forget(p, m) ELSE Dequeue([p EXCEPT !.asg[m] = Unassigned], {m})
    <2>1. RunLike(p) BY DEF PointerInv, RunsOK
    <2>2. run'[r] = [q EXCEPT !.caughtUp = FALSE] BY DEF DeleteMail
    <2> HIDE DEF p
    <2>3. Stays(p, Forget(p, m)) 
      <3> DEFINE d == Dequeue(p, {m})
      <3> DEFINE e == Queued(d, Survivor(p, m))
      <3>1. Stays(p, d) BY <2>1 DEF Dequeue, Stays, RunLike, Fields
      <3> HIDE DEF d
      <3>2. Stays(d, e) BY <3>1 DEF Queued, Stays, RunLike, Fields
      <3> HIDE DEF e
      <3> DEFINE S == {"sentinel"} \cup (IF Groupable(p.asg[m]) THEN {"subject"} ELSE {})
      <3>3. Forget(p, m) = [e EXCEPT !.asg[m] = Unassigned, !.subjects = @ \cup S] BY DEF Forget, d, e
      <3> HIDE DEF S
      <3> QED BY <3>1, <3>2, <3>3 DEF Stays, RunLike, Fields
    <2>4. Stays(p, Dequeue([p EXCEPT !.asg[m] = Unassigned], {m})) BY <2>1 DEF Dequeue, Stays, RunLike, Fields
    <2>5. Stays(p, q) BY <2>3, <2>4
    <2> HIDE DEF q
    <2>6. Stays(q, [q EXCEPT !.caughtUp = FALSE]) BY <2>5 DEF Stays, RunLike, Fields
    <2> QED BY <2>2, <2>5, <2>6 DEF Stays, p
  <1> QED BY <1>1, <1>2 DEF RunsStay

LEMMA FailureStays == ASSUME PointerInv, NEW v, DrainFails(v) PROVE RunsStay /\ SameAnswers
  <1>0. PICK w \in NewBuild(v) :
          LET r == Scheduled(w, v).run
              p == run[r]
          IN /\ r # NoRun /\ p.status # "absent" /\ ~p.waits
             /\ \E m \in Picks(p), waits \in BOOLEAN :
                  /\ waits \/ (UsesQueue(p) /\ m # NoMessage)
                  /\ run' = [run EXCEPT ![r].waits = waits,
                       ![r].queue = [n \in Messages |-> IF n \in Attempted(p, m) THEN "later" ELSE @[n]]]
    BY DEF DrainFails
  <1> DEFINE r == Scheduled(w, v).run
  <1>b. PICK m \in Picks(run[r]), waits \in BOOLEAN :
          run' = [run EXCEPT ![r].waits = waits,
                    ![r].queue = [n \in Messages |-> IF n \in Attempted(run[r], m) THEN "later" ELSE @[n]]]
    BY <1>0
  <1> DEFINE ids == Attempted(run[r], m)
  <1>1. run' = [run EXCEPT ![r].waits = waits, ![r].queue = [n \in Messages |-> IF n \in ids THEN "later" ELSE @[n]]]
    BY <1>b
  <1> HIDE DEF r, ids
  <1>2. DOMAIN run = Runs /\ \A s \in Runs : RunLike(run[s]) BY DEF PointerInv, RunsOK
  <1>3. DOMAIN run' = Runs BY <1>1, <1>2
  <1>4. ASSUME NEW s \in Runs PROVE Stays(run[s], run'[s]) /\ run'[s].asg = run[s].asg
    <2>1. CASE s = r
      <3> DEFINE mid == [run EXCEPT ![r].waits = waits]
      <3>1. mid[r] = [run[r] EXCEPT !.waits = waits] /\ DOMAIN mid = Runs BY <1>2, <2>1
      <3>2. run'[r] = [mid[r] EXCEPT !.queue = [n \in Messages |-> IF n \in ids THEN "later" ELSE @[n]]] BY <1>1, <1>2, <2>1, <3>1
      <3> HIDE DEF mid
      <3> QED BY <1>2, <2>1, <3>1, <3>2 DEF Stays, RunLike, Fields
    <2>2. CASE s # r
      <3>1. run'[s] = run[s] BY <1>1, <1>2, <2>2
      <3> QED BY <1>2, <3>1 DEF Stays
    <2> QED BY <2>1, <2>2
  <1> QED BY <1>3, <1>4 DEF RunsStay, SameAnswers

LEMMA DueStays ==
  ASSUME PointerInv, NEW r \in Runs, RunDue(r) \/ \E m \in Messages : WorkDue(r, m)
  PROVE  RunsStay /\ SameAnswers
  <1>1. DOMAIN run = Runs /\ \A s \in Runs : RunLike(run[s]) BY DEF PointerInv, RunsOK
  <1>2. CASE RunDue(r) BY <1>1, <1>2 DEF RunDue, RunsStay, SameAnswers, Stays, RunLike, Fields
  <1>3. ASSUME NEW m \in Messages, WorkDue(r, m) PROVE RunsStay /\ SameAnswers
    BY <1>1, <1>3 DEF WorkDue, RunsStay, SameAnswers, Stays, RunLike, Fields
  <1> QED BY <1>2, <1>3

LEMMA RebuildKeeps == ASSUME PointerInv, NEW v, StartRebuild(v) PROVE PointerInv'
  <1> DEFINE old == state.building
  <1> DEFINE left == IF old = NoRun THEN run
                     ELSE [run EXCEPT ![old] = Ended(@, IF @.status = "ready" THEN "archived" ELSE "failed")]
  <1>1. PICK r \in Runs : run[r].status = "absent" /\ run' = [left EXCEPT ![r] = NewRun(v, FALSE)] /\ state' = [state EXCEPT !.building = r]
    BY DEF StartRebuild
  <1>2. old \in Runs \cup {NoRun} /\ state.active \in Runs \cup {NoRun} /\ state.previous \in Runs \cup {NoRun}
    BY DEF PointerInv, StateTypeOK
  <1>3. RunsLike(left) /\ \A s \in Runs \ {old} : left[s] = run[s]
    BY <1>2, EndedLike DEF PointerInv, RunsOK, RunsLike
  <1> HIDE DEF left
  <1>4. \A s \in Runs \ {r} : run'[s] = left[s] BY <1>1, <1>3 DEF RunsLike
  <1>5. run'[r] = NewRun(v, FALSE) BY <1>1, <1>3 DEF RunsLike
  <1>6. RunsOK' BY <1>1, <1>3, <1>4, <1>5, NewLike DEF RunsOK, RunsLike
  <1>7. StateTypeOK' /\ state'.active = state.active /\ state'.previous = state.previous /\ state'.building = r
    BY <1>1 DEF PointerInv, StateTypeOK
  <1>8. \A s \in {state.active, state.previous} \ {NoRun} : s # old /\ s # r /\ s \in Runs
    BY <1>1, <1>2, ThreadAssumption DEF PointerInv, PointersFit
  <1>9. \A s \in {state.active, state.previous} \ {NoRun} : run'[s] = run[s] BY <1>3, <1>4, <1>8
  <1>10. run'[r].status = "building" BY <1>5, NewLike
  <1> QED BY <1>6, <1>7, <1>9, <1>10 DEF PointerInv, PointersFit

(* The pointers switch to a run that is ready.                             *)
LEMMA SwitchKeeps ==
  ASSUME PointerInv, NEW rs, NEW b, RunsFit(rs, b), NEW r \in Runs, rs[r].status = "ready", run' = Switched(rs, r),
         StateTypeOK', state'.active = r, state'.previous = state.active, state'.building = NoRun
  PROVE  PointerInv'
  <1>1. state.active \in Runs \cup {NoRun} BY DEF PointerInv, StateTypeOK
  <1>2. DOMAIN run' = Runs /\ run'[r] = [rs[r] EXCEPT !.status = "active", !.from = state.active, !.initial = FALSE]
    <2>1. r # state.active /\ r # state.previous BY ThreadAssumption DEF RunsFit
    <2> QED BY <2>1 DEF Switched
  <1>3. ASSUME NEW s \in Runs \ {r}
        PROVE  run'[s] = [rs[s] EXCEPT !.status = "standby"] \/ run'[s] = Ended(rs[s], "archived") \/ run'[s] = rs[s]
    <2>1. CASE s = state.active BY <2>1 DEF Switched
    <2>2. CASE s # state.active /\ s = state.previous BY <2>2 DEF Switched
    <2>3. CASE s # state.active /\ s # state.previous BY <2>3 DEF Switched
    <2> QED BY <2>1, <2>2, <2>3
  <1>4. \A s \in Runs \ {r} : s = state.active => run'[s] = [rs[s] EXCEPT !.status = "standby"] BY DEF Switched
  <1>5. \A s \in Runs : RunLike(rs[s]) /\ rs[s].from \in Runs \cup {NoRun} BY DEF RunsFit, RunsLike
  <1>6. RunLike(run'[r]) /\ run'[r].from \in Runs \cup {NoRun} /\ run'[r].status = "active"
    BY <1>1, <1>2, <1>5 DEF RunLike, Fields
  <1>7. ASSUME NEW s \in Runs \ {r} PROVE RunLike(run'[s]) /\ run'[s].from \in Runs \cup {NoRun}
    <2>1. LET q == [rs[s] EXCEPT !.status = "standby"] IN RunLike(q) /\ q.from = rs[s].from BY <1>5 DEF RunLike, Fields
    <2>2. CASE run'[s] = [rs[s] EXCEPT !.status = "standby"] BY <1>5, <2>1, <2>2
    <2>3. CASE run'[s] = Ended(rs[s], "archived") BY <2>3, EndedLike
    <2>4. CASE run'[s] = rs[s] BY <1>5, <2>4
    <2> QED BY <1>3, <2>2, <2>3, <2>4
  <1>8. RunsOK' BY <1>2, <1>6, <1>7 DEF RunsOK
  <1>9. state.active # NoRun => run'[state.active].status = "standby"
    <2>1. state.active # NoRun => state.active \in Runs \ {r} BY <1>1 DEF RunsFit
    <2> QED BY <1>4, <1>5, <2>1 DEF RunLike, Fields
  <1> QED BY <1>6, <1>8, <1>9 DEF PointerInv, PointersFit
LEMMA ActivationKeeps == ASSUME PointerInv, NEW v, NEW r \in Runs, ActivateRun(v, r) PROVE PointerInv'
  <1>1. run[r].status = "ready" /\ run' = Switched(run, r) /\ state' = SwitchTo(r) BY DEF ActivateRun, Activatable, UpToDate
  <1>2. StateTypeOK' /\ state'.active = r /\ state'.previous = state.active /\ state'.building = NoRun
    BY <1>1 DEF PointerInv, StateTypeOK, SwitchTo
  <1>3. RunsFit(run, state.building) BY DEF PointerInv, StateTypeOK, RunsOK, PointersFit, RunsFit, RunsLike
  <1> QED BY <1>1, <1>2, <1>3, SwitchKeeps

(* The pass of a drain that goes on to activate the first run.             *)
LEMMA FirstActivates ==
  ASSUME PointerInv, NEW v, DrainActivates(v)
  PROVE  \E w \in NewBuild(v), r \in Runs : \E left \in Outcomes(w, Scheduled(w, v).run) :
           /\ r = Scheduled(w, v).run /\ UpToDate(v, left.run[r]) /\ run' = Switched(left.run, r)
           /\ StateTypeOK' /\ state'.active = r /\ state'.previous = state.active /\ state'.building = NoRun
  <1>1. PICK w \in NewBuild(v) : \E left \in Outcomes(w, Scheduled(w, v).run) :
          /\ ActivatesFirst(v, Scheduled(w, v).run, left.run) /\ run' = Switched(left.run, Scheduled(w, v).run)
          /\ state' = [SwitchTo(Scheduled(w, v).run) EXCEPT !.cursor = Scheduled(w, v).cursor]
    BY DEF DrainActivates
  <1> DEFINE r == Scheduled(w, v).run
  <1> DEFINE c == Scheduled(w, v).cursor
  <1>2. PICK left \in Outcomes(w, r) : ActivatesFirst(v, r, left.run) /\ run' = Switched(left.run, r)
          /\ state' = [SwitchTo(r) EXCEPT !.cursor = c]
    BY <1>1
  <1>3. r \in Runs /\ c \in 0..4 BY <1>2, ScheduledFits DEF ActivatesFirst
  <1>4. UpToDate(v, left.run[r]) BY <1>2 DEF ActivatesFirst
  <1> HIDE DEF c
  <1>5. StateTypeOK' /\ state'.active = r /\ state'.previous = state.active /\ state'.building = NoRun
    BY <1>2, <1>3 DEF PointerInv, StateTypeOK, SwitchTo
  <1> QED BY <1>2, <1>3, <1>4, <1>5
LEMMA FirstKeeps == ASSUME PointerInv, NEW v, DrainActivates(v) PROVE PointerInv'
  <1>a. PICK w \in NewBuild(v), r \in Runs : \E left \in Outcomes(w, Scheduled(w, v).run) :
           /\ UpToDate(v, left.run[r]) /\ run' = Switched(left.run, r)
           /\ StateTypeOK' /\ state'.active = r /\ state'.previous = state.active /\ state'.building = NoRun
    BY FirstActivates
  <1>1. PICK left \in Outcomes(w, Scheduled(w, v).run) :
           /\ UpToDate(v, left.run[r]) /\ run' = Switched(left.run, r)
           /\ StateTypeOK' /\ state'.active = r /\ state'.previous = state.active /\ state'.building = NoRun
    BY <1>a
  <1>2. RunsFit(left.run, w.building) BY OutcomeFits
  <1>3. left.run[r].status = "ready" BY <1>1 DEF UpToDate
  <1> QED BY <1>1, <1>2, <1>3, SwitchKeeps

LEMMA RollbackKeeps == ASSUME PointerInv, NEW v, RollbackActivation(v) PROVE PointerInv'
  <1> DEFINE back == run[state.active].from
  <1>1. state.active \in Runs BY DEF RollbackActivation, PointerInv, StateTypeOK
  <1>2. back \in Runs \cup {NoRun} /\ (\A s \in Runs : RunLike(run[s]) /\ run[s].from \in Runs \cup {NoRun})
    BY <1>1 DEF PointerInv, RunsOK
  <1>3. back # NoRun => run[back].status = "standby" BY DEF RollbackActivation, Returnable
  <1>4. run[state.active].status = "active" BY DEF RollbackActivation, PointerInv, PointersFit
  <1>5. /\ DOMAIN run' = Runs
        /\ \A s \in Runs : run'[s] = IF s = state.active THEN Ended(run[s], "rolled_back")
                                     ELSE IF s = back THEN [run[s] EXCEPT !.status = "active"] ELSE run[s]
        /\ state' = [state EXCEPT !.active = back, !.previous = state.active, !.building = NoRun, !.paused = TRUE]
    <2>1. \A s \in Runs : s = back => s # state.active BY <1>3, <1>4, ThreadAssumption
    <2> QED BY <2>1 DEF RollbackActivation
  <1> HIDE DEF back
  <1>6. StateTypeOK' /\ state'.active = back /\ state'.previous = state.active /\ state'.building = NoRun
    BY <1>1, <1>2, <1>5 DEF PointerInv, StateTypeOK
  <1>7. ASSUME NEW s \in Runs
        PROVE  /\ RunLike(run'[s]) /\ run'[s].from \in Runs \cup {NoRun}
               /\ s # state.active /\ s = back => run'[s].status = "active"
    <2>1. LET q == [run[s] EXCEPT !.status = "active"] IN RunLike(q) /\ q.from = run[s].from /\ q.status = "active"
      BY <1>2 DEF RunLike, Fields
    <2>2. CASE s = state.active BY <1>5, <2>2, EndedLike
    <2>3. CASE s # state.active /\ s = back BY <1>2, <1>5, <2>1, <2>3
    <2>4. CASE s # state.active /\ s # back
      <3>1. run'[s] = run[s] BY <1>5, <2>4
      <3> QED BY <1>2, <2>4, <3>1
    <2> QED BY <2>2, <2>3, <2>4
  <1>8. run'[state.active].status = "rolled_back" BY <1>1, <1>5, EndedLike
  <1>9. back # NoRun => back # state.active BY <1>3, <1>4
  <1>10. RunsOK' BY <1>5, <1>7 DEF RunsOK
  <1> QED BY <1>2, <1>6, <1>7, <1>8, <1>9, <1>10 DEF PointerInv, PointersFit

LEMMA UndoStays == ASSUME PointerInv, RollbackIncremental PROVE RunsStay
  <1>1. PICK asg : run' = [run EXCEPT ![undo.run] = [run[undo.run] EXCEPT !.asg = asg, !.undone = TRUE]]
    BY DEF RollbackIncremental
  <1>2. DOMAIN run = Runs /\ \A s \in Runs : RunLike(run[s]) BY DEF PointerInv, RunsOK
  <1> QED BY <1>1, <1>2 DEF RunsStay, Stays, RunLike, Fields
LEMMA UndoKeeps == ASSUME PointerInv, RollbackIncremental PROVE PointerInv'
  <1>1. RunsStay BY UndoStays
  <1>2. state' = [state EXCEPT !.paused = TRUE] BY DEF RollbackIncremental
  <1>3. StateTypeOK' /\ state'.active = state.active /\ state'.previous = state.previous /\ state'.building = state.building
    BY <1>2 DEF PointerInv, StateTypeOK
  <1>4. RunsOK' BY <1>1 DEF PointerInv, RunsOK, RunsStay, Stays
  <1>5. PointersFit' BY <1>1, <1>3 DEF PointerInv, StateTypeOK, PointersFit, RunsStay, Stays
  <1> QED BY <1>3, <1>4, <1>5 DEF PointerInv

LEMMA RetireKeeps == ASSUME PointerInv, RetireStandby PROVE PointerInv'
  <1>1. state.previous \in Runs /\ run[state.previous].status = "standby"
    BY DEF RetireStandby, PointerInv, StateTypeOK
  <1>2. run' = [run EXCEPT ![state.previous] = Ended(@, "archived")] /\ state' = [state EXCEPT !.previous = NoRun]
    BY DEF RetireStandby
  <1>3. DOMAIN run' = Runs /\ (\A s \in Runs \ {state.previous} : run'[s] = run[s]) /\ run'[state.previous] = Ended(run[state.previous], "archived")
    BY <1>1, <1>2 DEF PointerInv, RunsOK
  <1>4. RunsOK' BY <1>3, EndedLike DEF PointerInv, RunsOK
  <1>5. StateTypeOK' /\ state'.active = state.active /\ state'.previous = NoRun /\ state'.building = state.building
    BY <1>2 DEF PointerInv, StateTypeOK
  <1>6. \A s \in {state.active, state.building} \ {NoRun} : s \in Runs \ {state.previous}
    BY <1>1 DEF PointerInv, StateTypeOK, PointersFit
  <1> QED BY <1>3, <1>4, <1>5, <1>6 DEF PointerInv, PointersFit

LEMMA PruneKeeps == ASSUME PointerInv, NEW r \in Runs, PruneRun(r) PROVE PointerInv'
  <1>1. /\ DOMAIN run' = Runs
        /\ \A s \in Runs : run'[s] = IF s = r THEN NoSuchRun ELSE IF run[s].from = r THEN [run[s] EXCEPT !.from = s] ELSE run[s]
        /\ UNCHANGED state /\ r \notin Referenced
    BY DEF PruneRun, Prunable
  <1>2. ASSUME NEW s \in Runs PROVE RunLike(run'[s]) /\ run'[s].from \in Runs \cup {NoRun}
    <2>1. RunLike(run[s]) /\ run[s].from \in Runs \cup {NoRun} BY DEF PointerInv, RunsOK
    <2>2. LET q == [run[s] EXCEPT !.from = s] IN RunLike(q) /\ q.from = s BY <2>1 DEF RunLike, Fields
    <2> QED BY <1>1, <2>1, <2>2, EmptyLike
  <1>3. ASSUME NEW s \in Runs \ {r} PROVE run'[s].status = run[s].status
    BY <1>1 DEF PointerInv, RunsOK, RunLike, Fields
  <1>4. RunsOK' BY <1>1, <1>2 DEF RunsOK
  <1>5. \A s \in {state.active, state.previous, state.building} \ {NoRun} : s \in Runs \ {r}
    BY <1>1 DEF PointerInv, StateTypeOK, Referenced
  <1>6. PointersFit' BY <1>1, <1>3, <1>5 DEF PointerInv, PointersFit
  <1>7. StateTypeOK' BY <1>1 DEF PointerInv, StateTypeOK
  <1> QED BY <1>4, <1>6, <1>7 DEF PointerInv

(* Every action but these keeps the runs as they are, but for their work.  *)
LEMMA PointerInvSteps == ASSUME PointerInv, Next PROVE PointerInv'
  <1>1. ASSUME NEW m \in Messages, NEW e \in Evidence, WriteMail(m, e) PROVE PointerInv'
    BY <1>1, TellStays, StayKeeps DEF WriteMail
  <1>2. ASSUME NEW m \in Messages, DeleteMail(m) PROVE PointerInv'
    BY <1>2, DeleteStays, StayKeeps DEF DeleteMail
  <1>3. CASE BackfillBodyEvidence BY <1>3, TellStays, StayKeeps DEF BackfillBodyEvidence
  <1>4. ASSUME NEW v \in Versions, Drain(v) \/ DrainActivates(v) \/ DrainFails(v) \/ StartRebuild(v) \/ RollbackActivation(v) PROVE PointerInv'
    <2>1. CASE DrainFails(v) BY <2>1, FailureStays, StayKeeps DEF DrainFails
    <2> QED BY <1>4, <2>1, DrainKeeps, FirstKeeps, RebuildKeeps, RollbackKeeps
  <1>5. ASSUME NEW r \in Runs, RunDue(r) \/ CompareRuns(r) \/ PruneRun(r) \/ \E m \in Messages : WorkDue(r, m) PROVE PointerInv'
    <2>1. CASE RunDue(r) \/ \E m \in Messages : WorkDue(r, m) BY <2>1, DueStays, StayKeeps DEF RunDue, WorkDue
    <2>2. CASE CompareRuns(r)
      <3>1. UNCHANGED <<state, run>> BY <2>2 DEF CompareRuns
      <3> QED BY <3>1 DEF PointerInv, StateTypeOK, RunsOK, PointersFit
    <2> QED BY <1>5, <2>1, <2>2, PruneKeeps
  <1>6. ASSUME NEW v \in Versions, NEW r \in Runs, ActivateRun(v, r) PROVE PointerInv' BY <1>6, ActivationKeeps
  <1> QED BY <1>1, <1>2, <1>3, <1>4, <1>5, <1>6, UndoKeeps, RetireKeeps DEF Next

LEMMA MailInvariant == Spec => []MailOK
<1>1. Init => MailOK BY DEF Init, MailOK
<1>2. MailOK /\ [Next]_vars => MailOK'
  <2>1. ASSUME MailOK, Next PROVE MailOK'
    <3>1. ASSUME UNCHANGED mail PROVE MailOK' BY <2>1, <3>1 DEF MailOK
    <3> QED BY <2>1, <3>1 DEF MailOK, Next, WriteMail, DeleteMail, BackfillBodyEvidence, Drain, DrainActivates, DrainFails, StartRebuild,
         RollbackActivation, RunDue, CompareRuns, PruneRun, WorkDue, ActivateRun, RollbackIncremental, RetireStandby
  <2>2. ASSUME MailOK, UNCHANGED vars PROVE MailOK' BY <2>2 DEF vars, MailOK
  <2> QED BY <2>1, <2>2
<1> QED BY <1>1, <1>2, PTL DEF Spec

(* At every moment the pointers of imap_thread_state name runs that play   *)
(* their role, and no run plays two (imap_thread_assert_scope).            *)
THEOREM PointerInvariant == Spec => []PointerInv
<1>1. Init => PointerInv
  <2> SUFFICES ASSUME Init PROVE PointerInv OBVIOUS
  <2>1. state = [active |-> NoRun, previous |-> NoRun, building |-> NoRun, cursor |-> 0, paused |-> FALSE] BY DEF Init
  <2>2. StateTypeOK BY <2>1 DEF StateTypeOK
  <2>3. RunsOK BY EmptyLike DEF Init, RunsOK
  <2>4. PointersFit BY <2>1 DEF PointersFit
  <2> QED BY <2>2, <2>3, <2>4 DEF PointerInv
<1>2. PointerInv /\ [Next]_vars => PointerInv'
  <2>1. ASSUME PointerInv, UNCHANGED vars PROVE PointerInv'
    BY <2>1 DEF vars, PointerInv, StateTypeOK, RunsOK, PointersFit
  <2> QED BY <2>1, PointerInvSteps
<1> QED BY <1>1, <1>2, PTL DEF Spec

-------------------------------------------------------------------------------
(* The build's turn.                                                       *)

(* A drain that served a live run passed over the build's turn.            *)
LEMMA DrainServes ==
  ASSUME PointerInv, NEW v \in Versions, Drain(v), Serves
  PROVE  TurnsLeft(state'.cursor) < TurnsLeft(state.cursor)
  <1>1. PICK w \in NewBuild(v) :
          /\ state' = [state EXCEPT !.building = w.building, !.cursor = Scheduled(w, v).cursor]
          /\ \/ run' = w.run
             \/ Scheduled(w, v).run # NoRun /\ \E m : run' = Leaves(w, Scheduled(w, v).run, m)
    BY DrainParts
  <1> DEFINE b == state.building
  <1> DEFINE r == Scheduled(w, v).run
  <1>2. state'.building = w.building /\ state'.cursor = Scheduled(w, v).cursor
    BY <1>1 DEF PointerInv, StateTypeOK
  <1>3. w.building = b /\ b # NoRun /\ b \in Runs BY <1>2 DEF Serves, BuildWaits, PointerInv, StateTypeOK
  <1>4. w.run = run /\ ~Obsolete(v) BY <1>3, BuildFits
  <1>5. run[b].version = v
    <2>1. run[b].status \in {"building", "ready"} BY <1>3 DEF PointerInv, PointersFit
    <2>2. run[b].version <= v BY <1>3, <2>1 DEF Drain, Executes, Executable
    <2>3. ~(run[b].version < v) BY <1>3, <1>4 DEF Obsolete
    <2>4. run[b].version \in Nat /\ v \in Nat BY ThreadAssumption DEF Serves, BuildWaits
    <2> QED BY <2>2, <2>3, <2>4
  <1>6. Candidate("building", w, v) /\ RunOf("building", w) = b BY <1>3, <1>4, <1>5 DEF Candidate, RunOf
  <1>7. "building" \in Now(w, v) BY <1>4, <1>6 DEF Now, Waiting, Serves, BuildWaits
  <1>8. PICK s \in {state.active, state.previous} \ {NoRun} : run'[s].asg # run[s].asg BY DEF Serves, Answered
  <1>9. s \in Runs /\ s # b BY <1>3, <1>8 DEF PointerInv, StateTypeOK, PointersFit
  <1>10. r = s
    <2>1. PICK m : run' = Leaves(w, r, m) BY <1>1, <1>4, <1>8
    <2> HIDE DEF r
    <2>2. r # s => run'[s] = run[s] BY <1>4, <1>9, <2>1 DEF Leaves, PointerInv, RunsOK
    <2> QED BY <1>8, <2>2
  <1>11. Chosen(w, v) = Turn(state.cursor, Now(w, v)) BY <1>7 DEF Chosen
  <1>12. state.cursor \in 0..4 BY DEF PointerInv, StateTypeOK
  <1>13. Chosen(w, v) # <<>> BY <1>7, <1>11, <1>12, BuildHasTurn
  <1>14. r = RunOf(Chosen(w, v)[1], w) /\ Scheduled(w, v).cursor = Chosen(w, v)[2] BY <1>13, ScheduledIs
  <1>15. Chosen(w, v)[1] # "building" BY <1>6, <1>9, <1>10, <1>14
  <1>16. TurnsLeft(Turn(state.cursor, Now(w, v))[2]) < TurnsLeft(state.cursor)
    BY <1>7, <1>11, <1>12, <1>15, BuildNearer
  <1> QED BY <1>2, <1>11, <1>14, <1>16

LEMMA OnlyDrainServes ==
  ASSUME PointerInv, MailOK, Next, Serves
  PROVE  \E v \in Versions : Drain(v)
  <1>1. \E r \in Runs : Answered(r) BY DEF Serves, PointerInv, StateTypeOK
  <1>2. ~SameAnswers BY <1>1 DEF SameAnswers, Answered
  <1>3. state'.building # NoRun /\ ~state'.paused BY DEF Serves, BuildWaits
  <1>4. ASSUME NEW m \in Messages, NEW e \in Evidence, WriteMail(m, e) PROVE FALSE BY <1>2, <1>4, TellStays DEF WriteMail
  <1>5. ASSUME NEW m \in Messages, DeleteMail(m) PROVE FALSE
    <2>1. m \in Present /\ mail' = [mail EXCEPT ![m] = "absent"] /\ mail' = mail BY <1>5 DEF DeleteMail, Serves
    <2> QED BY <2>1 DEF Present, MailOK
  <1>6. CASE BackfillBodyEvidence BY <1>2, <1>6, TellStays DEF BackfillBodyEvidence
  <1>7. ASSUME NEW v \in Versions, DrainFails(v) PROVE FALSE BY <1>2, <1>7, FailureStays
  <1>8. ASSUME NEW v \in Versions, StartRebuild(v) PROVE FALSE
    <2>1. PICK r \in Runs : run[r].status = "absent" /\ state' = [state EXCEPT !.building = r] BY <1>8 DEF StartRebuild
    <2>2. state'.building = r BY <2>1 DEF PointerInv, StateTypeOK
    <2>3. run[state.building].status \in {"building", "ready"} BY DEF Serves, BuildWaits, PointerInv, PointersFit
    <2> QED BY <2>1, <2>2, <2>3 DEF Serves
  <1>9. ASSUME NEW v \in Versions, RollbackActivation(v) PROVE FALSE
    <2>1. \E back : state' = [state EXCEPT !.active = back, !.previous = state.active, !.building = NoRun, !.paused = TRUE]
      BY <1>9 DEF RollbackActivation
    <2> QED BY <1>3, <2>1 DEF PointerInv, StateTypeOK
  <1>10. ASSUME NEW v \in Versions, NEW r \in Runs, ActivateRun(v, r) PROVE FALSE
    <2>1. state'.building = NoRun BY <1>10 DEF ActivateRun, SwitchTo, PointerInv, StateTypeOK
    <2> QED BY <1>3, <2>1
  <1>11. ASSUME NEW r \in Runs, RunDue(r) \/ \E m \in Messages : WorkDue(r, m) PROVE FALSE BY <1>2, <1>11, DueStays
  <1>16. ASSUME NEW v \in Versions, DrainActivates(v) PROVE FALSE BY <1>3, <1>16, FirstActivates
  <1>12. ASSUME NEW r \in Runs, CompareRuns(r) PROVE FALSE BY <1>1, <1>12 DEF CompareRuns, Answered
  <1>13. ASSUME NEW r \in Runs, PruneRun(r) PROVE FALSE
    <2>1. PICK s \in {state.active, state.previous} \ {NoRun} : Answered(s) BY DEF Serves
    <2>2. s \in Runs /\ s # r BY <1>13, <2>1 DEF PruneRun, Prunable, Referenced, PointerInv, StateTypeOK
    <2>3. run'[s] = IF run[s].from = r THEN [run[s] EXCEPT !.from = s] ELSE run[s] BY <1>13, <2>2 DEF PruneRun
    <2>4. run'[s].asg = run[s].asg BY <2>2, <2>3 DEF PointerInv, RunsOK, RunLike, Fields
    <2> QED BY <2>1, <2>4 DEF Answered
  <1>14. CASE RollbackIncremental
    <2>1. state'.paused = TRUE BY <1>14 DEF RollbackIncremental, PointerInv, StateTypeOK
    <2> QED BY <1>3, <2>1
  <1>15. CASE RetireStandby
    <2>1. PICK s \in {state.active, state.previous} \ {NoRun} : Answered(s) BY DEF Serves
    <2>2. run' = [run EXCEPT ![state.previous] = Ended(@, "archived")] /\ run[state.previous].status = "standby" BY <1>15 DEF RetireStandby
    <2>3. s \in Runs BY <2>1 DEF PointerInv, StateTypeOK
    <2>4. CASE s = state.previous
      <3>1. run'[s].status = "archived" BY <2>2, <2>3, <2>4, EndedLike DEF PointerInv, RunsOK
      <3> QED BY <2>1, <2>2, <2>4, <3>1 DEF Answered
    <2>5. CASE s # state.previous
      <3>1. run'[s] = run[s] BY <2>2, <2>3, <2>5 DEF PointerInv, RunsOK
      <3> QED BY <2>1, <3>1 DEF Answered
    <2> QED BY <2>4, <2>5
  <1> QED BY <1>4, <1>5, <1>6, <1>7, <1>8, <1>9, <1>10, <1>11, <1>12, <1>13, <1>14, <1>15, <1>16 DEF Next

(* A build that may run waits for at most one round of the schedule,       *)
(* whatever keeps the live runs busy (RUN_FAIRNESS_SCHEDULE).              *)
THEOREM RolloutNotStarvedHolds == Spec => RolloutNotStarved
<1>1. PointerInv /\ MailOK /\ [Next]_vars =>
        [Serves => TurnsLeft(state'.cursor) < TurnsLeft(state.cursor)]_vars
  BY DrainServes, OnlyDrainServes
<1>2. Spec => [][Serves => TurnsLeft(state'.cursor) < TurnsLeft(state.cursor)]_vars
  BY <1>1, PointerInvariant, MailInvariant, PTL DEF Spec
<1> QED BY <1>2 DEF RolloutNotStarved
-------------------------------------------------------------------------------
(* Least numbers: what induction over the rounds of a closure needs.       *)

LEMMA LeastNumber == ASSUME NEW S, S \subseteq Nat, S # {} PROVE \E x \in S : \A y \in S : x <= y
  <1> DEFINE Below(x) == 0..(x - 1)
  <1> DEFINE T == {Below(x) : x \in S}
  <1>1. T \subseteq FiniteSubsetsOf(Nat)
    <2> SUFFICES ASSUME NEW x \in S PROVE Below(x) \in FiniteSubsetsOf(Nat) OBVIOUS
    <2>1. IsFiniteSet(Below(x)) BY FS_Interval
    <2>2. Below(x) \subseteq Nat OBVIOUS
    <2> QED BY <2>1, <2>2 DEF FiniteSubsetsOf
  <1>2. T # {} OBVIOUS
  <1>3. PICK t \in T : \A u \in T : ~(<<u, t>> \in StrictSubsetOrdering(Nat))
    <2> HIDE DEF T
    <2> QED BY <1>1, <1>2, WFMin, FS_StrictSubsetOrderingWellFounded
  <1>4. PICK x \in S : t = Below(x) BY <1>3
  <1>5. ASSUME NEW y \in S, y < x PROVE FALSE
    <2>1. Below(y) \subseteq Below(x) /\ y - 0 \in Below(x) /\ y \notin Below(y) BY <1>5
    <2>2. Below(y) # Below(x) BY <2>1
    <2>3. Below(y) \in SUBSET Nat /\ Below(x) \in SUBSET Nat OBVIOUS
    <2>4. <<Below(y), Below(x)>> \in StrictSubsetOrdering(Nat) BY <2>1, <2>2, <2>3 DEF StrictSubsetOrdering
    <2> QED BY <1>3, <1>4, <2>4
  <1> QED BY <1>5
LEMMA MinIn == ASSUME NEW S, S \subseteq Nat, S # {} PROVE Min(S) \in S /\ \A y \in S : Min(S) <= y
  BY LeastNumber DEF Min

(* A closure holds what it started from, and beyond that stored messages.  *)
LEMMA ReachedBounds == ASSUME NEW p, NEW ids PROVE ids \subseteq Reached(p, ids) /\ Reached(p, ids) \subseteq ids \cup Assigned(p)
  BY DEF Reached
Grows(p, seeds, n, g) == g = [i \in 0..n |-> IF i = 0 THEN seeds ELSE Reached(p, g[i - 1])]
LEMMA GrowExists == ASSUME NEW p, NEW seeds PROVE \A n \in Nat : \E g : Grows(p, seeds, n, g)
  <1> DEFINE S == {n \in Nat : ~ \E g : Grows(p, seeds, n, g)}
  <1>1. ASSUME S # {} PROVE FALSE
    <2>1. PICK n \in S : \A k \in S : n <= k
      <3> HIDE DEF S
      <3>1. S \subseteq Nat BY DEF S
      <3> QED BY <1>1, <3>1, LeastNumber
    <2>2. CASE n = 0
      <3>1. Grows(p, seeds, 0, [i \in 0..0 |-> seeds]) BY DEF Grows
      <3> QED BY <2>1, <2>2, <3>1
    <2>3. CASE n # 0
      <3>1. n - 1 \in Nat /\ n - 1 \notin S BY <2>1, <2>3
      <3>2. PICK g : Grows(p, seeds, n - 1, g) BY <3>1
      <3> DEFINE h == [i \in 0..n |-> IF i < n THEN g[i] ELSE Reached(p, g[n - 1])]
      <3>3. \A i \in 0..n : h[i] = IF i = 0 THEN seeds ELSE Reached(p, h[i - 1])
        <4> TAKE i \in 0..n
        <4>1. \A j \in 0..(n - 1) : g[j] = IF j = 0 THEN seeds ELSE Reached(p, g[j - 1]) BY <3>1, <3>2 DEF Grows
        <4>2. CASE i < n BY <2>1, <3>1, <4>1, <4>2
        <4>3. CASE i = n
          <5>1. h[n] = Reached(p, g[n - 1]) /\ h[n - 1] = g[n - 1] BY <2>1, <3>1
          <5> QED BY <2>3, <4>3, <5>1
        <4> QED BY <2>1, <4>2, <4>3
      <3>4. h = [i \in 0..n |-> IF i = 0 THEN seeds ELSE Reached(p, h[i - 1])]
        <4> HIDE DEF S
        <4>1. h = [i \in 0..n |-> h[i]] OBVIOUS
        <4> HIDE DEF h
        <4> QED BY <3>3, <4>1
      <3> HIDE DEF h
      <3>5. Grows(p, seeds, n, h) BY <3>4 DEF Grows
      <3> QED BY <2>1, <3>5
    <2> QED BY <2>2, <2>3
  <1> QED BY <1>1
LEMMA ClosureGrows == ASSUME NEW p, NEW seeds PROVE \E g : Grows(p, seeds, Cardinality(Messages), g) /\ Closure(p, seeds) = g[Cardinality(Messages)]
  <1> DEFINE N == Cardinality(Messages)
  <1> DEFINE grow == CHOOSE g : Grows(p, seeds, N, g)
  <1>1. N \in Nat BY FS_CardinalityType, ThreadAssumption
  <1>2. \E g : Grows(p, seeds, N, g) BY <1>1, GrowExists
  <1>3. Grows(p, seeds, N, grow) BY <1>2
  <1>4. Closure(p, seeds) = grow[N] BY DEF Closure, Grows
  <1> HIDE DEF grow
  <1> QED BY <1>3, <1>4
LEMMA ClosureBounds ==
  ASSUME NEW p, NEW seeds
  PROVE  seeds \subseteq Closure(p, seeds) /\ Closure(p, seeds) \subseteq seeds \cup Assigned(p)
  <1> DEFINE N == Cardinality(Messages)
  <1>1. PICK g : Grows(p, seeds, N, g) /\ Closure(p, seeds) = g[N] BY ClosureGrows
  <1>2. N \in Nat BY FS_CardinalityType, ThreadAssumption
  <1> DEFINE Fine(n) == seeds \subseteq g[n] /\ g[n] \subseteq seeds \cup Assigned(p)
  <1> DEFINE S == {n \in 0..N : ~Fine(n)}
  <1> HIDE DEF N
  <1>3. ASSUME S # {} PROVE FALSE
    <2>1. PICK n \in S : \A k \in S : n <= k
      <3> HIDE DEF S
      <3>1. S \subseteq Nat BY <1>2 DEF S
      <3> QED BY <1>3, <3>1, LeastNumber
    <2>2. g[n] = IF n = 0 THEN seeds ELSE Reached(p, g[n - 1]) BY <1>1, <2>1 DEF Grows
    <2>3. n # 0 BY <2>1, <2>2
    <2>4. n - 1 \in 0..N /\ n - 1 \notin S BY <1>2, <2>1, <2>3
    <2>5. Fine(n - 1) BY <2>4
    <2>6. Fine(n) BY <2>2, <2>3, <2>5, ReachedBounds
    <2> QED BY <2>1, <2>6
  <1>4. Fine(N) BY <1>2, <1>3
  <1> QED BY <1>1, <1>4
-------------------------------------------------------------------------------
(* What a run shows of the mailbox.                                        *)

Statuses == {"absent", "building", "ready", "active", "standby", "archived", "failed", "rolled_back"}
Stages == {"body_evidence", "strong", "subject", "catchup", "ready"}
Kinds == {"a", "s", "r"}
Row == [conv : Messages \cup {0, NoMessage}, from : Kinds \cup {"absent"}, weak : BOOLEAN]
RunRecord ==
  [status : Statuses, stage : Stages, version : Nat, after : Nat, waits : BOOLEAN, caughtUp : BOOLEAN,
   from : Runs \cup {NoRun}, asg : [Messages -> Row], queue : [Messages -> {"none", "ready", "later"}],
   subjects : SUBSET {"subject", "sentinel"}, undone : BOOLEAN, initial : BOOLEAN]

(* What may be stored of a message: nothing, itself alone, the proved      *)
(* conversation, or a weak link to the message that starts its subject.    *)
Alone(m, e) == [conv |-> IF e = "a" THEN 0 ELSE m, from |-> e, weak |-> FALSE]
Linked(s, e) == [conv |-> s, from |-> e, weak |-> TRUE]
Rows(m) == {Unassigned} \cup {Alone(m, e) : e \in Kinds} \cup {Linked(s, e) : s \in Messages, e \in {"s", "r"}}
Showing == [m \in Messages |-> Shown(m)]

Good(p, here) ==
  /\ p \in RunRecord
  /\ \A m \in Messages : p.asg[m] \in Rows(m)
  /\ \A m \in Messages \ here : p.asg[m] = Unassigned /\ p.queue[m] = "none"

(* What is not queued is stored as it reads; a run that readers may see    *)
(* misses only what is queued; and the weak links it holds are those of one *)
(* unambiguous subject, unless the subject or one of them is to be looked  *)
(* at again.                                                               *)
Current(p, here, shown) == \A m \in here : p.queue[m] = "none" => p.asg[m] = Unassigned \/ p.asg[m].from = shown[m]
Covered(p, here) == p.status \in Live => \A m \in here : p.queue[m] = "none" => p.asg[m] # Unassigned
OneSubject(p) ==
  /\ Cardinality(Bucket(p)) <= MaxBucket
  /\ \E s, t \in Bucket(p) :
       /\ p.asg[s].from = "s" /\ p.asg[t].from = "r"
       /\ \A m \in Bucket(p) : p.asg[m].weak /\ p.asg[m].conv = s /\ (p.asg[m].from = "s" => m = s)
Regrouped(p) ==
  \/ "subject" \in p.subjects
  \/ \E m \in Grouped(p) : p.queue[m] # "none"
  \/ Grouped(p) = {}
  \/ OneSubject(p)
Knows(p, here, shown) == Current(p, here, shown) /\ Covered(p, here) /\ Regrouped(p)

MailTypes == mail \in [Messages -> Evidence \cup {"absent"}] /\ gap \subseteq Present
UndoTypes == DOMAIN undo.before \subseteq Messages /\ \A m \in DOMAIN undo.before : undo.before[m] \in Rows(m)
(* A run is told of the mail while a pointer names it; one that was        *)
(* forgotten still shows the mail until the next change.                   *)
Followed(p, told) == (told \/ p.caughtUp) /\ p.status \in Live \cup {"building"} /\ ~p.undone
Settled(p, told) == told /\ p.status \in Live => p.caughtUp \/ HasWork(p)
Finished(p) == p.status \in Live => p.stage = "ready"
Fine(p, here, shown, told) ==
  /\ Good(p, here)
  /\ Followed(p, told) => Knows(p, here, shown)
  /\ p.undone => p.status \notin {"building", "ready"}
  /\ p.status = "building" => p.stage # "ready"
  /\ Settled(p, told) /\ Finished(p)
RunOK(r) == Fine(run[r], Present, Showing, r \in Referenced)
ProjectionInv == MailTypes /\ UndoTypes /\ run \in [Runs -> RunRecord] /\ \A r \in Runs : RunOK(r)

-------------------------------------------------------------------------------
(* What a computation stores.                                              *)

LEMMA ShownKinds == ASSUME MailTypes, NEW m \in Present PROVE Shown(m) \in Kinds /\ Showing[m] = Shown(m) /\ m \in Messages
  BY ThreadAssumption DEF MailTypes, Present, Shown, Showing, Kinds
LEMMA AloneRow ==
  ASSUME NEW m \in Messages, NEW e \in Kinds
  PROVE  Alone(m, e) \in Rows(m) /\ Alone(m, e) # Unassigned /\ Alone(m, e).from = e /\ Alone(m, e).weak = FALSE
  <1>1. Alone(m, e).from = e /\ Alone(m, e).weak = FALSE BY DEF Alone
  <1>2. Unassigned.from = "absent" /\ e # "absent" BY DEF Unassigned, Kinds
  <1>3. Alone(m, e) \in Rows(m) BY DEF Rows
  <1> QED BY <1>1, <1>2, <1>3
LEMMA RowKinds ==
  ASSUME NEW m \in Messages, NEW x \in Rows(m)
  PROVE  /\ x \in Row
         /\ x # Unassigned => x.from \in Kinds
         /\ x.weak => x.from \in {"s", "r"} /\ x = Linked(x.conv, x.from)
         /\ ~x.weak /\ x # Unassigned => x = Alone(m, x.from)
  <1>1. CASE x = Unassigned
    <2>1. Unassigned \in Row /\ Unassigned.weak = FALSE BY DEF Row, Unassigned
    <2> QED BY <1>1, <2>1
  <1>2. ASSUME NEW e \in Kinds, x = Alone(m, e)
        PROVE  x \in Row /\ x.from \in Kinds /\ ~x.weak /\ x = Alone(m, x.from)
    <2>1. x \in Row BY <1>2 DEF Alone, Row, Kinds
    <2> QED BY <1>2, <2>1, AloneRow
  <1>3. ASSUME NEW s \in Messages, NEW e \in {"s", "r"}, x = Linked(s, e)
        PROVE  x \in Row /\ x.from \in {"s", "r"} /\ x.weak /\ x = Linked(x.conv, x.from)
    <2>1. x \in Row BY <1>3 DEF Linked, Row, Kinds
    <2>2. x.from = e /\ x.weak = TRUE /\ x.conv = s BY <1>3 DEF Linked
    <2> QED BY <1>3, <2>1, <2>2
  <1>4. x = Unassigned \/ (\E e \in Kinds : x = Alone(m, e)) \/ (\E s \in Messages, e \in {"s", "r"} : x = Linked(s, e))
    BY DEF Rows
  <1>5. {"s", "r"} \subseteq Kinds BY DEF Kinds
  <1> QED BY <1>1, <1>2, <1>3, <1>4, <1>5

Starts(ids) == {n \in ids : Shown(n) = "s"}
Replies(ids) == {n \in ids : Shown(n) = "r"}
Groups(ids, fallback) == fallback /\ Cardinality(Starts(ids)) = 1 /\ Replies(ids) # {}
LEMMA ComputeIs ==
  ASSUME MailTypes, NEW ids, ids \subseteq Present, NEW fallback \in BOOLEAN
  PROVE  /\ DOMAIN Compute(ids, fallback) = ids
         /\ Groups(ids, fallback) => \E s \in ids :
              /\ Starts(ids) = {s} /\ Shown(s) = "s"
              /\ \A m \in ids : Compute(ids, fallback)[m] =
                   IF Shown(m) \in {"s", "r"} THEN Linked(s, Shown(m)) ELSE Alone(m, Shown(m))
         /\ ~Groups(ids, fallback) => \A m \in ids : Compute(ids, fallback)[m] = Alone(m, Shown(m))
  <1> DEFINE weak == IF Groups(ids, fallback) THEN Starts(ids) \cup Replies(ids) ELSE {}
  <1>1. Compute(ids, fallback) =
          [m \in ids |-> [conv |-> IF Shown(m) = "a" THEN 0 ELSE IF m \in weak THEN Min(Starts(ids)) ELSE m,
                          from |-> Shown(m), weak |-> m \in weak]]
    BY DEF Compute, Groups, Starts, Replies
  <1>2. ASSUME NEW m \in ids PROVE Shown(m) \in Kinds BY ShownKinds
  <1>3. ASSUME ~Groups(ids, fallback), NEW m \in ids PROVE Compute(ids, fallback)[m] = Alone(m, Shown(m))
    <2>1. weak = {} BY <1>3
    <2> HIDE DEF weak
    <2>2. Compute(ids, fallback)[m] = [conv |-> IF Shown(m) = "a" THEN 0 ELSE m, from |-> Shown(m), weak |-> FALSE]
      <3>1. (m \in weak) = FALSE BY <2>1
      <3> QED BY <1>1, <3>1, <1>3
    <2> QED BY <2>2 DEF Alone
  <1>4. ASSUME Groups(ids, fallback)
        PROVE  \E s \in ids :
                 /\ Starts(ids) = {s} /\ Shown(s) = "s"
                 /\ \A m \in ids : Compute(ids, fallback)[m] =
                      IF Shown(m) \in {"s", "r"} THEN Linked(s, Shown(m)) ELSE Alone(m, Shown(m))
    <2>1. Starts(ids) \subseteq Messages BY ShownKinds DEF Starts
    <2>2. IsFiniteSet(Starts(ids)) BY <2>1, FS_Subset, ThreadAssumption
    <2>3. PICK s : Starts(ids) = {s} BY <1>4, <2>2, FS_Singleton DEF Groups
    <2>4. s \in ids /\ Shown(s) = "s" /\ s \in Nat
      <3>1. s \in Starts(ids) BY <2>3
      <3> QED BY <2>1, <3>1, ThreadAssumption DEF Starts
    <2>5. Min(Starts(ids)) = s BY <2>1, <2>3, MinIn, ThreadAssumption
    <2>6. ASSUME NEW m \in ids
          PROVE  Compute(ids, fallback)[m] = IF Shown(m) \in {"s", "r"} THEN Linked(s, Shown(m)) ELSE Alone(m, Shown(m))
      <3>1. m \in weak <=> Shown(m) \in {"s", "r"} BY <1>4, <2>6 DEF Starts, Replies
      <3> HIDE DEF weak
      <3>2. Compute(ids, fallback)[m] = [conv |-> IF Shown(m) = "a" THEN 0 ELSE IF m \in weak THEN s ELSE m,
                                         from |-> Shown(m), weak |-> m \in weak]
        BY <1>1, <2>5, <2>6
      <3>3. CASE Shown(m) \in {"s", "r"}
        <4>1. (m \in weak) = TRUE BY <3>1, <3>3
        <4> QED BY <3>2, <3>3, <4>1 DEF Linked
      <3>4. CASE Shown(m) = "a"
        <4>1. (m \in weak) = FALSE BY <3>1, <3>4
        <4> QED BY <3>2, <3>4, <4>1 DEF Alone
      <3> QED BY <1>2, <2>6, <3>3, <3>4 DEF Kinds
    <2> QED BY <2>3, <2>4, <2>6
  <1>5. DOMAIN Compute(ids, fallback) = ids BY <1>1
  <1> QED BY <1>3, <1>4, <1>5

LEMMA ComputeRows ==
  ASSUME MailTypes, NEW ids, ids \subseteq Present, NEW fallback \in BOOLEAN, NEW m \in ids
  PROVE  /\ Compute(ids, fallback)[m] \in Rows(m) /\ Compute(ids, fallback)[m] # Unassigned
         /\ Compute(ids, fallback)[m].from = Shown(m)
         /\ ~fallback => Compute(ids, fallback)[m] = Alone(m, Shown(m))
  <1>1. m \in Messages /\ Shown(m) \in Kinds /\ \A s \in ids : s \in Messages BY ShownKinds
  <1>2. ~fallback => ~Groups(ids, fallback) BY DEF Groups
  <1>3. CASE Groups(ids, fallback)
    <2>1. PICK s \in ids : Compute(ids, fallback)[m] = IF Shown(m) \in {"s", "r"} THEN Linked(s, Shown(m)) ELSE Alone(m, Shown(m))
      BY <1>3, ComputeIs
    <2>2. fallback BY <1>3 DEF Groups
    <2>3. CASE Shown(m) \in {"s", "r"}
      <3>1. s \in Messages /\ m \in Messages BY <1>1
      <3>2. Compute(ids, fallback)[m] = Linked(s, Shown(m)) BY <2>1, <2>3
      <3> HIDE DEF Linked
      <3>3. Linked(s, Shown(m)) \in Rows(m) /\ Linked(s, Shown(m)) # Unassigned /\ Linked(s, Shown(m)).from = Shown(m)
        <4> DEFINE e == Shown(m)
        <4>1. e \in {"s", "r"} BY <2>3
        <4> HIDE DEF e
        <4>2. Linked(s, e) \in Rows(m) BY <3>1, <4>1 DEF Rows
        <4>3. Linked(s, e).from = e BY DEF Linked
        <4>4. Unassigned.from = "absent" BY DEF Unassigned
        <4> QED BY <4>1, <4>2, <4>3, <4>4 DEF e
      <3> QED BY <2>2, <3>2, <3>3
    <2>4. CASE Shown(m) \notin {"s", "r"}
      <3>1. Compute(ids, fallback)[m] = Alone(m, Shown(m)) BY <2>1, <2>4
      <3> QED BY <1>1, <3>1, AloneRow
    <2> QED BY <2>3, <2>4
  <1>4. CASE ~Groups(ids, fallback)
    <2>1. Compute(ids, fallback)[m] = Alone(m, Shown(m)) BY <1>4, ComputeIs
    <2> QED BY <1>1, <2>1, AloneRow
  <1> QED BY <1>3, <1>4

LEMMA AssignedHere == ASSUME NEW p, NEW here, Good(p, here) PROVE Assigned(p) \subseteq here \cap Messages
  BY DEF Good, Assigned

(* What persistAssignments leaves of a run.                                *)
Kept(p, q) ==
  /\ q.status = p.status /\ q.stage = p.stage /\ q.version = p.version /\ q.waits = p.waits
  /\ q.caughtUp = p.caughtUp /\ q.from = p.from /\ q.undone = p.undone
Regroups(p, ids, fallback) ==
  \E m \in ids : p.asg[m] # Compute(ids, fallback)[m] /\ (Groupable(Compute(ids, fallback)[m]) \/ p.asg[m].weak)
Persisted(p, q, ids, fallback, enqueues) ==
  /\ Good(q, Present) /\ Kept(p, q) /\ q.after = p.after /\ q.queue = p.queue
  /\ \A m \in Messages : q.asg[m] = IF m \in ids THEN Compute(ids, fallback)[m] ELSE p.asg[m]
  /\ q.subjects = p.subjects \cup (IF enqueues /\ Regroups(p, ids, fallback) THEN {"subject"} ELSE {})
LEMMA PersistIs ==
  ASSUME MailTypes, NEW p, Good(p, Present), NEW ids, ids \subseteq Present, NEW fallback \in BOOLEAN, NEW enqueues \in BOOLEAN
  PROVE  Persisted(p, Persist(p, ids, fallback, enqueues), ids, fallback, enqueues)
  <1> DEFINE new == Compute(ids, fallback)
  <1> DEFINE S == IF enqueues /\ Regroups(p, ids, fallback) THEN {"subject"} ELSE {}
  <1> DEFINE asg == [m \in Messages |-> IF m \in ids THEN new[m] ELSE p.asg[m]]
  <1> DEFINE q == Persist(p, ids, fallback, enqueues)
  <1>1. DOMAIN new = ids BY ComputeIs
  <1>2. \A m \in ids : m \in Messages /\ new[m] \in Rows(m) /\ new[m] \in Row BY ComputeRows, ShownKinds, RowKinds
  <1>3. p \in RunRecord BY DEF Good
  <1>4. asg \in [Messages -> Row]
    <2>1. \A m \in Messages : p.asg[m] \in Row BY <1>3 DEF RunRecord
    <2> HIDE DEF new
    <2> QED BY <1>2, <2>1
  <1>5. q = [[p EXCEPT !.asg = asg] EXCEPT !.subjects = @ \cup S]
    <2>1. (\E m \in Changed(p, ids, fallback) : Groupable(new[m]) \/ p.asg[m].weak) <=> Regroups(p, ids, fallback)
      BY DEF Changed, Regroups
    <2>2. Upserted(p, new) = [p EXCEPT !.asg = asg]
      <3>1. p.asg = [m \in Messages |-> p.asg[m]] BY <1>3 DEF RunRecord
      <3> HIDE DEF new
      <3> QED BY <1>1 DEF Upserted
    <2> HIDE DEF asg
    <2> QED BY <2>1, <2>2 DEF Persist
  <1>6. S \subseteq {"subject"} OBVIOUS
  <1> HIDE DEF asg, S, q
  <1>7. q \in RunRecord /\ Kept(p, q) /\ q.after = p.after /\ q.queue = p.queue /\ q.asg = asg /\ q.subjects = p.subjects \cup S
    BY <1>3, <1>4, <1>5, <1>6 DEF RunRecord, Kept
  <1>8. \A m \in Messages : q.asg[m] = IF m \in ids THEN new[m] ELSE p.asg[m]
    <2> HIDE DEF new
    <2> QED BY <1>7 DEF asg
  <1>9. Good(q, Present)
    <2> HIDE DEF new
    <2> QED BY <1>2, <1>7, <1>8 DEF Good
  <1> SUFFICES Persisted(p, q, ids, fallback, enqueues) BY DEF q
  <1> QED BY <1>7, <1>8, <1>9 DEF S, Persisted

-------------------------------------------------------------------------------
(* What one pass leaves.                                                   *)

LEMMA ClosureHere ==
  ASSUME NEW p, Good(p, Present), NEW seeds, seeds \subseteq Present
  PROVE  seeds \subseteq Closure(p, seeds) /\ Closure(p, seeds) \subseteq Present
         /\ \A m \in Closure(p, seeds) : m \in seeds \/ p.asg[m] # Unassigned
  BY ClosureBounds, AssignedHere DEF Assigned

Drained(p, q, ids) ==
  /\ Good(q, Present) /\ Kept(p, q) /\ q.after = p.after
  /\ \A m \in Messages : q.asg[m] = IF m \in ids THEN Alone(m, Shown(m)) ELSE p.asg[m]
  /\ \A m \in Messages : q.queue[m] = IF m \in ids THEN "none" ELSE p.queue[m]
  /\ q.subjects = p.subjects \cup (IF Regroups(p, ids, FALSE) THEN {"subject"} ELSE {})
LEMMA DirtyIs ==
  ASSUME MailTypes, NEW p, Good(p, Present), NEW seeds, seeds \subseteq Present
  PROVE  Drained(p, DirtyQueue(p, seeds), Closure(p, seeds))
  <1> DEFINE ids == Closure(p, seeds)
  <1> DEFINE u == Persist(p, ids, FALSE, TRUE)
  <1> DEFINE q == DirtyQueue(p, seeds)
  <1>1. ids \subseteq Present BY ClosureHere
  <1>2. q = Dequeue(u, ids) BY DEF DirtyQueue
  <1>3. \A m \in ids : Compute(ids, FALSE)[m] = Alone(m, Shown(m)) BY <1>1, ComputeRows
  <1>4. /\ Good(u, Present) /\ Kept(p, u) /\ u.after = p.after /\ u.queue = p.queue
        /\ \A m \in Messages : u.asg[m] = IF m \in ids THEN Compute(ids, FALSE)[m] ELSE p.asg[m]
        /\ u.subjects = p.subjects \cup (IF Regroups(p, ids, FALSE) THEN {"subject"} ELSE {})
    <2>1. Persisted(p, u, ids, FALSE, TRUE) BY <1>1, PersistIs
    <2> HIDE DEF u, ids
    <2> QED BY <2>1 DEF Persisted
  <1> SUFFICES Drained(p, q, ids) OBVIOUS
  <1> HIDE DEF ids, u, q
  <1> DEFINE queue == [m \in Messages |-> IF m \in ids THEN "none" ELSE u.queue[m]]
  <1>5. u \in RunRecord BY <1>4 DEF Good
  <1>6. queue \in [Messages -> {"none", "ready", "later"}] BY <1>5 DEF RunRecord
  <1>7. q = [u EXCEPT !.queue = queue] BY <1>2 DEF Dequeue
  <1> HIDE DEF queue
  <1>8. q \in RunRecord /\ Kept(u, q) /\ q.after = u.after /\ q.asg = u.asg /\ q.subjects = u.subjects /\ q.queue = queue
    BY <1>5, <1>6, <1>7 DEF RunRecord, Kept
  <1>9. \A m \in Messages : q.queue[m] = IF m \in ids THEN "none" ELSE p.queue[m] BY <1>4, <1>8 DEF queue
  <1>10. Good(q, Present) BY <1>4, <1>8, <1>9 DEF Good
  <1>11. Kept(p, q) BY <1>4, <1>8 DEF Kept
  <1>12. \A m \in Messages : q.asg[m] = IF m \in ids THEN Alone(m, Shown(m)) ELSE p.asg[m] BY <1>3, <1>4, <1>8
  <1> QED BY <1>4, <1>8, <1>9, <1>10, <1>11, <1>12 DEF Drained

LEMMA RegroupsIs ==
  ASSUME MailTypes, NEW p, Good(p, Present), NEW ids, ids \subseteq Present, ~Regroups(p, ids, FALSE), NEW m \in ids
  PROVE  ~p.asg[m].weak /\ (p.asg[m] = Alone(m, Shown(m)) \/ Shown(m) = "a")
  <1>1. m \in Messages /\ Shown(m) \in Kinds BY ShownKinds
  <1>2. Compute(ids, FALSE)[m] = Alone(m, Shown(m)) BY ComputeRows
  <1>3. Alone(m, Shown(m)).weak = FALSE /\ Alone(m, Shown(m)).from = Shown(m) BY <1>1, AloneRow
  <1>4. p.asg[m] = Alone(m, Shown(m)) \/ (~Groupable(Alone(m, Shown(m))) /\ ~p.asg[m].weak) BY <1>2 DEF Regroups
  <1>5. ~Groupable(Alone(m, Shown(m))) => Shown(m) = "a" BY <1>1, <1>3 DEF Groupable, Kinds
  <1> QED BY <1>3, <1>4, <1>5

(* Rows a pass leaves alone, and the subject's messages with them.         *)
LEMMA DirtyRegrouped ==
  ASSUME MailTypes, NEW p, Good(p, Present), NEW seeds, seeds \subseteq Present, Regrouped(p)
  PROVE  Regrouped(DirtyQueue(p, seeds))
  <1> DEFINE ids == Closure(p, seeds)
  <1> DEFINE q == DirtyQueue(p, seeds)
  <1>1. ids \subseteq Present /\ ids \subseteq Messages BY ClosureHere DEF Present
  <1>2. /\ Good(q, Present)
        /\ \A m \in Messages : q.asg[m] = IF m \in ids THEN Alone(m, Shown(m)) ELSE p.asg[m]
        /\ \A m \in Messages : q.queue[m] = IF m \in ids THEN "none" ELSE p.queue[m]
        /\ q.subjects = p.subjects \cup (IF Regroups(p, ids, FALSE) THEN {"subject"} ELSE {})
    <2>1. Drained(p, q, ids) BY DirtyIs
    <2> HIDE DEF q, ids
    <2> QED BY <2>1 DEF Drained
  <1> SUFFICES Regrouped(q) OBVIOUS
  <1> HIDE DEF q, ids
  <1>3. CASE Regroups(p, ids, FALSE) \/ "subject" \in p.subjects BY <1>2, <1>3 DEF Regrouped
  <1>4. CASE ~Regroups(p, ids, FALSE) /\ "subject" \notin p.subjects
    <2>1. \A m \in ids : ~p.asg[m].weak /\ (p.asg[m] = Alone(m, Shown(m)) \/ Shown(m) = "a") BY <1>1, <1>4, RegroupsIs
    <2>2. \A m \in ids : Alone(m, Shown(m)).weak = FALSE /\ Alone(m, Shown(m)).from = Shown(m)
      BY <1>1, ShownKinds, AloneRow
    <2>3. \A m \in Messages : m \in Bucket(q) => m \in Bucket(p) /\ q.asg[m] = p.asg[m]
      BY <1>2, <2>1, <2>2 DEF Bucket, Groupable
    <2>4. Grouped(q) = Grouped(p)
      <3>1. \A m \in Grouped(q) : m \in Grouped(p) BY <2>3 DEF Grouped, Bucket
      <3>2. \A m \in Grouped(p) : m \in Messages \ ids BY <2>1 DEF Grouped, Bucket
      <3>3. \A m \in Grouped(p) : m \in Grouped(q) BY <1>2, <3>2 DEF Grouped, Bucket
      <3> QED BY <3>1, <3>3
    <2>5. CASE \E m \in Grouped(p) : p.queue[m] # "none"
      <3>1. PICK m \in Grouped(p) : p.queue[m] # "none" BY <2>5
      <3>2. m \in Messages \ ids BY <2>1, <3>1 DEF Grouped, Bucket
      <3> QED BY <1>2, <2>4, <3>1, <3>2 DEF Regrouped
    <2>6. CASE Grouped(p) = {} BY <2>4, <2>6 DEF Regrouped
    <2>7. CASE OneSubject(p)
      <3>1. \A m \in Bucket(p) : p.asg[m].weak BY <2>7 DEF OneSubject
      <3>2. \A m \in Bucket(p) : m \in Messages \ ids BY <2>1, <3>1 DEF Bucket
      <3>3. \A m \in Bucket(p) : m \in Bucket(q) /\ q.asg[m] = p.asg[m] BY <1>2, <3>2 DEF Bucket
      <3>4. Bucket(q) = Bucket(p)
        <4>1. \A m \in Bucket(q) : m \in Bucket(p) BY <2>3 DEF Bucket
        <4> QED BY <3>3, <4>1
      <3>5. OneSubject(q) BY <2>7, <3>3, <3>4 DEF OneSubject
      <3> QED BY <3>5 DEF Regrouped
    <2> QED BY <1>4, <2>5, <2>6, <2>7 DEF Regrouped
  <1> QED BY <1>3, <1>4

LEMMA DirtyKnows ==
  ASSUME MailTypes, NEW p, Good(p, Present), NEW seeds, seeds \subseteq Present, Knows(p, Present, Showing)
  PROVE  Knows(DirtyQueue(p, seeds), Present, Showing)
  <1> DEFINE ids == Closure(p, seeds)
  <1> DEFINE q == DirtyQueue(p, seeds)
  <1>1. ids \subseteq Present BY ClosureHere
  <1>2. /\ Kept(p, q)
        /\ \A m \in Messages : q.asg[m] = IF m \in ids THEN Alone(m, Shown(m)) ELSE p.asg[m]
        /\ \A m \in Messages : q.queue[m] = IF m \in ids THEN "none" ELSE p.queue[m]
    <2>1. Drained(p, q, ids) BY DirtyIs
    <2> HIDE DEF q, ids
    <2> QED BY <2>1 DEF Drained
  <1>3. Regrouped(q) BY DirtyRegrouped DEF Knows
  <1> HIDE DEF q, ids
  <1>4. \A m \in Present : m \in Messages /\ Showing[m] = Shown(m) /\ Shown(m) \in Kinds BY ShownKinds
  <1>5. \A m \in Present : Alone(m, Shown(m)).from = Shown(m) /\ Alone(m, Shown(m)) # Unassigned BY <1>4, AloneRow
  <1>6. Current(q, Present, Showing) BY <1>2, <1>4, <1>5 DEF Knows, Current
  <1>7. Covered(q, Present) BY <1>2, <1>4, <1>5 DEF Knows, Covered, Kept
  <1> QED BY <1>3, <1>6, <1>7 DEF Knows, q

LEMMA SameKnows ==
  ASSUME NEW p, NEW q, q.asg = p.asg, q.queue = p.queue, q.status = p.status, Knows(p, Present, Showing), Regrouped(q)
  PROVE  Knows(q, Present, Showing)
  <1>1. Current(q, Present, Showing) BY DEF Knows, Current
  <1>2. Covered(q, Present) BY DEF Knows, Covered
  <1> QED BY <1>1, <1>2 DEF Knows
LEMMA SameRegrouped ==
  ASSUME NEW p, NEW q, q.asg = p.asg, q.queue = p.queue, Regrouped(p), "subject" \in p.subjects => "subject" \in q.subjects
  PROVE  Regrouped(q)
  <1>1. Bucket(q) = Bucket(p) BY DEF Bucket
  <1>2. Grouped(q) = Grouped(p) BY <1>1 DEF Grouped
  <1>3. OneSubject(p) => OneSubject(q) BY <1>1 DEF OneSubject
  <1> QED BY <1>2, <1>3 DEF Regrouped
LEMMA DropsIs ==
  ASSUME NEW p, Good(p, Present), NEW key, NEW q, q = [p EXCEPT !.subjects = @ \ {key}]
  PROVE  /\ Good(q, Present) /\ Kept(p, q) /\ q.asg = p.asg /\ q.queue = p.queue
         /\ q.subjects = p.subjects \ {key} /\ q.after = p.after
  BY DEF Good, RunRecord, Kept
LEMMA StageIs ==
  ASSUME NEW p, Good(p, Present), NEW stage \in Stages
  PROVE  LET q == Stage(p, stage)
         IN /\ Good(q, Present) /\ q.status = p.status /\ q.version = p.version /\ q.waits = p.waits
            /\ q.caughtUp = p.caughtUp /\ q.from = p.from /\ q.undone = p.undone
            /\ q.asg = p.asg /\ q.queue = p.queue /\ q.subjects = p.subjects /\ q.stage = stage /\ q.after = 0
  BY DEF Good, RunRecord, Stage

(* A subject that groups what was computed for it just now.                *)
LEMMA GroupedNow ==
  ASSUME MailTypes, NEW p, Good(p, Present), Current(p, Present, Showing), Cardinality(Bucket(p)) <= MaxBucket,
         NEW u, Persisted(p, u, Closure(p, Bucket(p)), TRUE, FALSE)
  PROVE  \/ \E m \in Grouped(u) : u.queue[m] # "none"
         \/ Grouped(u) = {}
         \/ OneSubject(u)
  <1> DEFINE ids == Closure(p, Bucket(p))
  <1>1. Bucket(p) \subseteq Present
    <2>1. Unassigned.from = "absent" BY DEF Unassigned
    <2> QED BY <2>1 DEF Good, Bucket, Groupable
  <1>2. Bucket(p) \subseteq ids /\ ids \subseteq Present /\ (\A m \in ids : m \in Bucket(p) \/ p.asg[m] # Unassigned)
    BY <1>1, ClosureHere
  <1>3. /\ u.queue = p.queue
        /\ \A m \in Messages : u.asg[m] = IF m \in ids THEN Compute(ids, TRUE)[m] ELSE p.asg[m]
    BY DEF Persisted
  <1>4. \A m \in Present : m \in Messages /\ Shown(m) \in Kinds /\ Showing[m] = Shown(m) BY ShownKinds
  <1> HIDE DEF ids
  <1>5. \A m \in Bucket(u) : m \in ids /\ u.asg[m] = Compute(ids, TRUE)[m] BY <1>2, <1>3 DEF Bucket
  <1>6. CASE ~Groups(ids, TRUE)
    <2>1. \A m \in ids : Compute(ids, TRUE)[m] = Alone(m, Shown(m)) BY <1>2, <1>6, ComputeIs
    <2>2. \A m \in ids : Alone(m, Shown(m)).weak = FALSE BY <1>2, <1>4, AloneRow
    <2>3. Grouped(u) = {} BY <1>5, <2>1, <2>2 DEF Grouped
    <2> QED BY <2>3
  <1>7. CASE Groups(ids, TRUE)
    <2>1. PICK s \in ids :
            /\ Starts(ids) = {s} /\ Shown(s) = "s"
            /\ \A m \in ids : Compute(ids, TRUE)[m] =
                 IF Shown(m) \in {"s", "r"} THEN Linked(s, Shown(m)) ELSE Alone(m, Shown(m))
      BY <1>2, <1>7, ComputeIs
    <2>2. PICK t \in ids : Shown(t) = "r" BY <1>7 DEF Groups, Replies
    <2>3. ASSUME NEW m \in ids, Shown(m) \in {"s", "r"}
          PROVE  /\ m \in Bucket(u) /\ u.asg[m].weak = TRUE /\ u.asg[m].conv = s /\ u.asg[m].from = Shown(m)
                 /\ u.asg[m].from = "s" => m = s
      <3>1. u.asg[m] = Linked(s, Shown(m)) /\ m \in Messages /\ s \in Messages BY <1>2, <1>3, <1>4, <2>1, <2>3
      <3>a. /\ Linked(s, Shown(m)).weak = TRUE /\ Linked(s, Shown(m)).conv = s
            /\ Linked(s, Shown(m)).from = Shown(m)
        BY DEF Linked
      <3>2. u.asg[m].weak = TRUE /\ u.asg[m].conv = s /\ u.asg[m].from = Shown(m) BY <3>1, <3>a
      <3>3. Shown(m) = "s" => m = s BY <2>1 DEF Starts
      <3> QED BY <2>3, <3>1, <3>2, <3>3 DEF Bucket, Groupable
    <2>4. ASSUME NEW m \in Bucket(u) PROVE m \in ids /\ Shown(m) \in {"s", "r"}
      <3>1. m \in ids /\ u.asg[m] = Compute(ids, TRUE)[m] BY <1>5
      <3>2. Shown(m) \notin {"s", "r"} => u.asg[m] = Alone(m, Shown(m)) BY <2>1, <3>1
      <3>3. Alone(m, Shown(m)).from = Shown(m) BY <1>2, <1>4, <3>1, AloneRow
      <3>4. u.asg[m].from \in {"s", "r"} BY DEF Bucket, Groupable
      <3> QED BY <3>1, <3>2, <3>3, <3>4
    <2>5. CASE Bucket(u) \subseteq Bucket(p)
      <3>1. IsFiniteSet(Bucket(p)) BY FS_Subset, ThreadAssumption DEF Bucket
      <3>2. Cardinality(Bucket(u)) <= Cardinality(Bucket(p)) BY <2>5, <3>1, FS_Subset
      <3>3. Cardinality(Bucket(u)) \in Nat /\ Cardinality(Bucket(p)) \in Nat BY <2>5, <3>1, FS_Subset, FS_CardinalityType
      <3>4. Cardinality(Bucket(u)) <= MaxBucket BY <3>2, <3>3, ThreadAssumption
      <3>5. s \in Bucket(u) /\ u.asg[s].from = "s" /\ t \in Bucket(u) /\ u.asg[t].from = "r" BY <2>1, <2>2, <2>3
      <3>6. \A m \in Bucket(u) : u.asg[m].weak /\ u.asg[m].conv = s /\ (u.asg[m].from = "s" => m = s) BY <2>3, <2>4
      <3>7. OneSubject(u) BY <3>4, <3>5, <3>6 DEF OneSubject
      <3> QED BY <3>7
    <2>6. ASSUME NEW m \in Bucket(u), m \notin Bucket(p) PROVE \E n \in Grouped(u) : u.queue[n] # "none"
      <3>1. m \in ids /\ Shown(m) \in {"s", "r"} /\ u.asg[m].weak BY <2>3, <2>4, <2>6
      <3>2. p.asg[m] # Unassigned /\ p.asg[m].from # Shown(m)
        <4>1. m \in Messages BY <1>2, <1>4, <3>1
        <4> QED BY <1>2, <2>6, <3>1, <4>1 DEF Bucket, Groupable
      <3>3. p.queue[m] # "none" BY <1>2, <1>4, <3>1, <3>2 DEF Current
      <3> QED BY <1>3, <2>6, <3>1, <3>3 DEF Grouped
    <2> QED BY <2>5, <2>6
  <1> QED BY <1>6, <1>7

(* A pass over the subject.                                                *)
Advanced(p, q) ==
  /\ q.queue = p.queue
  /\ p.subjects = {} => q = IF p.status = "building" /\ p.stage = "subject" THEN Stage(p, "catchup") ELSE p
  /\ p.subjects # {} => q.stage = p.stage /\ (q.subjects # p.subjects \/ q.asg # p.asg)
SubjectLeaves(p, q) ==
  /\ Good(q, Present)
  /\ Knows(p, Present, Showing) => Knows(q, Present, Showing)
  /\ q.status = p.status /\ q.caughtUp = p.caughtUp /\ q.undone = p.undone /\ q.stage \in {p.stage, "catchup"}
  /\ Advanced(p, q)
LEMMA PersistKnows ==
  ASSUME MailTypes, NEW p, Good(p, Present), NEW ids, ids \subseteq Present, NEW fallback \in BOOLEAN, NEW enqueues \in BOOLEAN,
         NEW u, Persisted(p, u, ids, fallback, enqueues), Knows(p, Present, Showing)
  PROVE  Current(u, Present, Showing) /\ Covered(u, Present)
  <1>1. /\ Kept(p, u) /\ u.queue = p.queue
        /\ \A m \in Messages : u.asg[m] = IF m \in ids THEN Compute(ids, fallback)[m] ELSE p.asg[m]
    BY DEF Persisted
  <1>2. \A m \in Present : m \in Messages /\ Showing[m] = Shown(m) BY ShownKinds
  <1>3. \A m \in ids : Compute(ids, fallback)[m] # Unassigned /\ Compute(ids, fallback)[m].from = Shown(m) BY ComputeRows
  <1>4. Current(u, Present, Showing) BY <1>1, <1>2, <1>3 DEF Knows, Current
  <1>5. Covered(u, Present) BY <1>1, <1>2, <1>3 DEF Knows, Covered, Kept
  <1> QED BY <1>4, <1>5

LEMMA SubjectIs ==
  ASSUME MailTypes, NEW p, Good(p, Present)
  PROVE  SubjectLeaves(p, SubjectWork(p))
  <1> DEFINE q == SubjectWork(p)
  <1>0. p.subjects \subseteq {"subject", "sentinel"} BY DEF Good, RunRecord
  <1>1. CASE Inert(p) # {}
    <2> DEFINE key == CHOOSE key \in Inert(p) : TRUE
    <2>1. q = [p EXCEPT !.subjects = @ \ {key}] BY <1>1 DEF SubjectWork
    <2>2. key \in Inert(p) BY <1>1
    <2> HIDE DEF key
    <2>3. Good(q, Present) /\ Kept(p, q) /\ q.asg = p.asg /\ q.queue = p.queue /\ q.subjects = p.subjects \ {key}
      <3> HIDE DEF q
      <3> QED BY <2>1, DropsIs
    <2>a. SUFFICES SubjectLeaves(p, q) OBVIOUS
    <2> HIDE DEF q
    <2>4. key \in p.subjects /\ (key # "sentinel" => Grouped(p) = {}) BY <2>2 DEF Inert
    <2>5. ASSUME Knows(p, Present, Showing) PROVE Regrouped(q)
      <3>1. CASE key = "sentinel"
        <4>1. "subject" \in p.subjects => "subject" \in q.subjects BY <2>3, <3>1
        <4>2. Regrouped(p) BY <2>5 DEF Knows
        <4> QED BY <2>3, <4>1, <4>2, SameRegrouped
      <3>2. CASE key # "sentinel"
        <4>1. Grouped(q) = {} BY <2>3, <2>4, <3>2 DEF Grouped, Bucket
        <4> QED BY <4>1 DEF Regrouped
      <3> QED BY <3>1, <3>2
    <2>6. Knows(p, Present, Showing) => Knows(q, Present, Showing) BY <2>3, <2>5, SameKnows DEF Kept
    <2>7. Advanced(p, q) BY <2>3, <2>4 DEF Advanced, Kept
    <2> QED BY <2>3, <2>6, <2>7 DEF SubjectLeaves, Kept
  <1>2. CASE Inert(p) = {} /\ p.subjects = {}
    <2>1. q = IF p.status = "building" /\ p.stage = "subject" THEN Stage(p, "catchup") ELSE p BY <1>2 DEF SubjectWork
    <2>a. SUFFICES SubjectLeaves(p, q) OBVIOUS
    <2>2. ASSUME q = p PROVE SubjectLeaves(p, q) BY <1>2, <2>1, <2>2 DEF SubjectLeaves, Advanced
    <2>3. ASSUME q = Stage(p, "catchup") PROVE SubjectLeaves(p, q)
      <3>1. "catchup" \in Stages BY DEF Stages
      <3>2. LET z == Stage(p, "catchup")
            IN /\ Good(z, Present) /\ z.status = p.status /\ z.caughtUp = p.caughtUp /\ z.undone = p.undone
               /\ z.asg = p.asg /\ z.queue = p.queue /\ z.subjects = p.subjects /\ z.stage = "catchup"
        BY <3>1, StageIs
      <3>3. /\ Good(q, Present) /\ q.status = p.status /\ q.caughtUp = p.caughtUp /\ q.undone = p.undone
            /\ q.asg = p.asg /\ q.queue = p.queue /\ q.subjects = p.subjects /\ q.stage = "catchup"
        BY <2>3, <3>2
      <3>a. Advanced(p, q) BY <1>2, <2>1, <3>3 DEF Advanced
      <3> HIDE DEF q
      <3>4. Knows(p, Present, Showing) => Knows(q, Present, Showing) BY <3>3, SameKnows, SameRegrouped DEF Knows
      <3> QED BY <3>3, <3>4, <3>a DEF SubjectLeaves
    <2> QED BY <2>1, <2>2, <2>3
  <1>3. CASE Inert(p) = {} /\ p.subjects # {} /\ Cardinality(Bucket(p)) > MaxBucket
    <2> DEFINE ids == Closure(p, {Min(Grouped(p))})
    <2> DEFINE u == Persist(p, ids, FALSE, FALSE)
    <2>1. q = IF Grouped(p) = {} THEN Done(p) ELSE IF Grouped(u) = {} THEN Done(u) ELSE u BY <1>3 DEF SubjectWork
    <2>2. "subject" \in p.subjects BY <1>0, <1>3 DEF Inert
    <2>3. CASE Grouped(p) = {}
      <3>1. q = [p EXCEPT !.subjects = @ \ {"subject"}] BY <2>1, <2>3 DEF Done
      <3>2. Good(q, Present) /\ Kept(p, q) /\ q.asg = p.asg /\ q.queue = p.queue /\ q.subjects = p.subjects \ {"subject"}
        <4> HIDE DEF q
        <4> QED BY <3>1, DropsIs
      <3> SUFFICES SubjectLeaves(p, q) OBVIOUS
      <3> HIDE DEF q
      <3>3. Grouped(q) = {} BY <2>3, <3>2 DEF Grouped, Bucket
      <3>4. Regrouped(q) BY <3>3 DEF Regrouped
      <3>5. Knows(p, Present, Showing) => Knows(q, Present, Showing) BY <3>2, <3>4, SameKnows DEF Kept
      <3>6. Advanced(p, q) BY <2>2, <3>2 DEF Advanced, Kept
      <3> QED BY <3>2, <3>5, <3>6 DEF SubjectLeaves, Kept
    <2>4. CASE Grouped(p) # {}
      <3> DEFINE m == Min(Grouped(p))
      <3>1. m \in Grouped(p)
        <4>1. Grouped(p) \subseteq Nat BY ThreadAssumption DEF Grouped, Bucket
        <4> QED BY <2>4, <4>1, MinIn
      <3>2. m \in Messages /\ p.asg[m].weak BY <3>1 DEF Grouped, Bucket
      <3>3. m \in Present
        <4>1. Unassigned.weak = FALSE BY DEF Unassigned
        <4> QED BY <3>2, <4>1 DEF Good
      <3> HIDE DEF m
      <3>4. {m} \subseteq Present BY <3>3
      <3>5. m \in ids /\ ids \subseteq Present
        <4>1. {m} \subseteq Closure(p, {m}) /\ Closure(p, {m}) \subseteq Present BY <3>4, ClosureHere
        <4> QED BY <4>1 DEF m
      <3>6. Persisted(p, u, ids, FALSE, FALSE) BY <3>5, PersistIs
      <3>7. u.asg[m] # p.asg[m]
        <4>1. u.asg[m] = Compute(ids, FALSE)[m] BY <3>2, <3>5, <3>6 DEF Persisted
        <4>2. Compute(ids, FALSE)[m] = Alone(m, Shown(m)) BY <3>5, ComputeRows
        <4>3. Alone(m, Shown(m)).weak = FALSE BY <3>3, ShownKinds, AloneRow
        <4> QED BY <3>2, <4>1, <4>2, <4>3
      <3>8. q = IF Grouped(u) = {} THEN Done(u) ELSE u BY <2>1, <2>4
      <3> SUFFICES SubjectLeaves(p, q) OBVIOUS
      <3> HIDE DEF u, ids, q
      <3>9. Good(u, Present) /\ Kept(p, u) /\ u.queue = p.queue /\ u.subjects = p.subjects BY <3>6 DEF Persisted
      <3>10. Knows(p, Present, Showing) => Current(u, Present, Showing) /\ Covered(u, Present)
        BY <3>5, <3>6, PersistKnows
      <3>11. CASE Grouped(u) # {}
        <4>1. q = u BY <3>8, <3>11
        <4>2. Regrouped(u) BY <2>2, <3>9 DEF Regrouped
        <4>3. Advanced(p, u) BY <1>3, <3>7, <3>9 DEF Advanced, Kept
        <4> QED BY <3>9, <3>10, <4>1, <4>2, <4>3 DEF SubjectLeaves, Kept, Knows
      <3>12. CASE Grouped(u) = {}
        <4>1. q = [u EXCEPT !.subjects = @ \ {"subject"}] BY <3>8, <3>12 DEF Done
        <4>2. Good(q, Present) /\ Kept(u, q) /\ q.asg = u.asg /\ q.queue = u.queue /\ q.subjects = u.subjects \ {"subject"}
          BY <3>9, <4>1, DropsIs
        <4>3. Grouped(q) = {} BY <3>12, <4>2 DEF Grouped, Bucket
        <4>4. Regrouped(q) BY <4>3 DEF Regrouped
        <4>5. Knows(p, Present, Showing) => Current(q, Present, Showing) /\ Covered(q, Present)
          BY <3>10, <4>2 DEF Current, Covered, Kept
        <4>6. Advanced(p, q) BY <1>3, <3>7, <3>9, <4>2 DEF Advanced, Kept
        <4> QED BY <3>9, <4>2, <4>4, <4>5, <4>6 DEF SubjectLeaves, Kept, Knows
      <3> QED BY <3>11, <3>12
    <2> QED BY <2>3, <2>4
  <1>4. CASE Inert(p) = {} /\ p.subjects # {} /\ ~(Cardinality(Bucket(p)) > MaxBucket)
    <2> DEFINE ids == Closure(p, Bucket(p))
    <2> DEFINE u == Persist(p, ids, TRUE, FALSE)
    <2>1. q = [u EXCEPT !.subjects = @ \ {"subject"}] BY <1>4 DEF SubjectWork, Done
    <2>2. "subject" \in p.subjects BY <1>0, <1>4 DEF Inert
    <2>3. Cardinality(Bucket(p)) <= MaxBucket
      <3>1. IsFiniteSet(Bucket(p)) BY FS_Subset, ThreadAssumption DEF Bucket
      <3>2. Cardinality(Bucket(p)) \in Nat BY <3>1, FS_CardinalityType
      <3> QED BY <1>4, <3>2, ThreadAssumption
    <2>4. ids \subseteq Present
      <3>1. Unassigned.from = "absent" BY DEF Unassigned
      <3>2. Bucket(p) \subseteq Present BY <3>1 DEF Good, Bucket, Groupable
      <3> QED BY <3>2, ClosureHere
    <2>5. Persisted(p, u, ids, TRUE, FALSE) BY <2>4, PersistIs
    <2>6. ASSUME Knows(p, Present, Showing)
          PROVE  \/ \E m \in Grouped(u) : u.queue[m] # "none"
                 \/ Grouped(u) = {}
                 \/ OneSubject(u)
      <3>1. Current(p, Present, Showing) BY <2>6 DEF Knows
      <3> HIDE DEF u
      <3> QED BY <2>3, <2>5, <3>1, GroupedNow
    <2> SUFFICES SubjectLeaves(p, q) OBVIOUS
    <2> HIDE DEF u, ids, q
    <2>7. Good(u, Present) /\ Kept(p, u) /\ u.queue = p.queue /\ u.subjects = p.subjects BY <2>5 DEF Persisted
    <2>8. Good(q, Present) /\ Kept(u, q) /\ q.asg = u.asg /\ q.queue = u.queue /\ q.subjects = u.subjects \ {"subject"}
      BY <2>1, <2>7, DropsIs
    <2>9. ASSUME Knows(p, Present, Showing) PROVE Knows(q, Present, Showing)
      <3>1. Current(u, Present, Showing) /\ Covered(u, Present) BY <2>4, <2>5, <2>9, PersistKnows
      <3>2. Current(q, Present, Showing) BY <2>8, <3>1 DEF Current
      <3>3. Covered(q, Present) BY <2>8, <3>1 DEF Covered, Kept
      <3>4. Bucket(q) = Bucket(u) BY <2>8 DEF Bucket
      <3>5. Grouped(q) = Grouped(u) BY <2>8, <3>4 DEF Grouped
      <3>6. OneSubject(u) => OneSubject(q) BY <2>8, <3>4 DEF OneSubject
      <3>7. Regrouped(q) BY <2>6, <2>8, <2>9, <3>5, <3>6 DEF Regrouped
      <3> QED BY <3>2, <3>3, <3>7 DEF Knows
    <2>10. Advanced(p, q) BY <2>2, <2>7, <2>8 DEF Advanced, Kept
    <2> QED BY <2>7, <2>8, <2>9, <2>10 DEF SubjectLeaves, Kept
  <1> QED BY <1>1, <1>2, <1>3, <1>4

LEMMA LeastPage == ASSUME NEW p, Page(p) # {} PROVE Min(Page(p)) \in Page(p) /\ First(p) = {Min(Page(p))} /\ First(p) \subseteq Present
  <1>1. Page(p) \subseteq Nat BY ThreadAssumption DEF Page, Present
  <1>2. Min(Page(p)) \in Page(p) BY <1>1, MinIn
  <1> QED BY <1>2 DEF First, Page
LEMMA LeastMissing == ASSUME NEW p, Missing(p) # {} PROVE Min(Missing(p)) \in Missing(p) /\ {Min(Missing(p))} \subseteq Present
  <1>1. Missing(p) \subseteq Nat BY ThreadAssumption DEF Missing, Present
  <1>2. Min(Missing(p)) \in Missing(p) BY <1>1, MinIn
  <1> QED BY <1>2 DEF Missing

(* A pass over a live run or a build, whatever it takes.                   *)
PassLeaves(p, q) ==
  /\ Good(q, Present)
  /\ Knows(p, Present, Showing) => Knows(q, Present, Showing)
  /\ q.undone = p.undone
  /\ q.status = p.status \/ (p.status = "building" /\ q.status = "ready")
  /\ q.status = "building" /\ q.stage = "ready" => p.status = "building" /\ p.stage = "ready"
  /\ q.caughtUp = p.caughtUp \/ (q.status = "ready" /\ q.caughtUp)
  /\ q.status \in Live => p.status \in Live \/ q.caughtUp
  /\ Finished(p) => Finished(q)
LEMMA DirtyLeaves ==
  ASSUME MailTypes, NEW p, Good(p, Present), NEW seeds, seeds \subseteq Present
  PROVE  PassLeaves(p, DirtyQueue(p, seeds))
  <1> DEFINE q == DirtyQueue(p, seeds)
  <1>1. Knows(p, Present, Showing) => Knows(q, Present, Showing) BY DirtyKnows
  <1>2. Good(q, Present) /\ Kept(p, q)
    <2>1. Drained(p, q, Closure(p, seeds)) BY DirtyIs
    <2> HIDE DEF q
    <2> QED BY <2>1 DEF Drained
  <1> HIDE DEF q
  <1>3. PassLeaves(p, q) BY <1>1, <1>2 DEF PassLeaves, Kept, Finished
  <1> QED BY <1>3 DEF q
LEMMA SubjectPassLeaves ==
  ASSUME MailTypes, NEW p, Good(p, Present)
  PROVE  PassLeaves(p, SubjectWork(p))
  <1>1. SubjectLeaves(p, SubjectWork(p)) BY SubjectIs
  <1> HIDE DEF SubjectWork
  <1>2. Finished(p) => Finished(SubjectWork(p))
    <2>1. CASE p.subjects = {} /\ p.status \in Live BY <1>1, <2>1 DEF SubjectLeaves, Advanced, Live
    <2>2. CASE p.subjects # {} BY <1>1, <2>2 DEF SubjectLeaves, Advanced, Finished
    <2> QED BY <1>1, <2>1, <2>2 DEF SubjectLeaves, Finished
  <1> QED BY <1>1, <1>2 DEF SubjectLeaves, PassLeaves
LEMMA NothingLeaves == ASSUME NEW p, Good(p, Present) PROVE PassLeaves(p, p)
  BY DEF PassLeaves
LEMMA AfterIs ==
  ASSUME NEW p, Good(p, Present), NEW n \in Nat
  PROVE  LET q == [p EXCEPT !.after = n] IN Good(q, Present) /\ Kept(p, q) /\ q.asg = p.asg /\ q.queue = p.queue /\ q.subjects = p.subjects /\ q.after = n
  BY DEF Good, RunRecord, Kept
LEMMA StageLeaves ==
  ASSUME NEW p, Good(p, Present), p.status = "building", NEW stage \in Stages \ {"ready"}
  PROVE  PassLeaves(p, Stage(p, stage))
  <1> DEFINE q == Stage(p, stage)
  <1>1. /\ Good(q, Present) /\ q.status = p.status /\ q.caughtUp = p.caughtUp /\ q.undone = p.undone
        /\ q.asg = p.asg /\ q.queue = p.queue /\ q.subjects = p.subjects /\ q.stage = stage
    BY StageIs
  <1> HIDE DEF q
  <1>2. Knows(p, Present, Showing) => Knows(q, Present, Showing) BY <1>1, SameKnows, SameRegrouped DEF Knows
  <1>3. PassLeaves(p, q) BY <1>1, <1>2 DEF PassLeaves, Finished, Live
  <1> QED BY <1>3 DEF q
LEMMA BodyLeaves == ASSUME NEW p, Good(p, Present), p.status = "building" PROVE PassLeaves(p, BodyEvidencePage(p))
  <1>1. CASE Page(p) = {} BY <1>1, StageLeaves DEF BodyEvidencePage, Stages
  <1>2. CASE Page(p) # {}
    <2> DEFINE n == Min(Page(p))
    <2>1. n \in Nat BY <1>2, LeastPage, ThreadAssumption DEF Page, Present
    <2> DEFINE q == [p EXCEPT !.after = n]
    <2>2. BodyEvidencePage(p) = q BY <1>2 DEF BodyEvidencePage
    <2> HIDE DEF n
    <2>3. Good(q, Present) /\ Kept(p, q) /\ q.asg = p.asg /\ q.queue = p.queue /\ q.subjects = p.subjects BY <2>1, AfterIs
    <2> HIDE DEF q
    <2>4. Knows(p, Present, Showing) => Knows(q, Present, Showing) BY <2>3, SameKnows, SameRegrouped DEF Knows, Kept
    <2>5. PassLeaves(p, q) BY <2>3, <2>4 DEF PassLeaves, Kept, Finished
    <2> QED BY <2>2, <2>5
  <1> QED BY <1>1, <1>2
LEMMA StrongLeaves == ASSUME MailTypes, NEW p, Good(p, Present), p.status = "building" PROVE PassLeaves(p, StrongPage(p))
  <1>1. CASE Page(p) = {} BY <1>1, StageLeaves DEF StrongPage, Stages
  <1>2. CASE Page(p) # {}
    <2> DEFINE n == Min(Page(p))
    <2>1. n \in Nat /\ First(p) \subseteq Present BY <1>2, LeastPage, ThreadAssumption DEF Page, Present
    <2> DEFINE u == DirtyQueue(p, First(p))
    <2> DEFINE q == [u EXCEPT !.after = n]
    <2>2. StrongPage(p) = q BY <1>2 DEF StrongPage, DirtyQueue
    <2>3. PassLeaves(p, u) BY <2>1, DirtyLeaves
    <2> HIDE DEF n, u
    <2>4. Good(u, Present) BY <2>3 DEF PassLeaves
    <2>5. Good(q, Present) /\ Kept(u, q) /\ q.asg = u.asg /\ q.queue = u.queue /\ q.subjects = u.subjects BY <2>1, <2>4, AfterIs
    <2> HIDE DEF q
    <2>6. Knows(u, Present, Showing) => Knows(q, Present, Showing) BY <2>5, SameKnows, SameRegrouped DEF Knows, Kept
    <2>7. PassLeaves(p, q) BY <2>3, <2>5, <2>6 DEF PassLeaves, Kept, Finished
    <2> QED BY <2>2, <2>7
  <1> QED BY <1>1, <1>2
LEMMA ReadyIs ==
  ASSUME NEW p, Good(p, Present)
  PROVE  LET q == Ready(p)
         IN /\ Good(q, Present) /\ q.status = "ready" /\ q.stage = "ready" /\ q.caughtUp = TRUE /\ q.undone = p.undone
            /\ q.asg = p.asg /\ q.queue = p.queue /\ q.subjects = p.subjects
  BY DEF Good, RunRecord, Ready, Statuses, Stages
LEMMA ReadyLeaves ==
  ASSUME NEW p, Good(p, Present), p.status \in {"building", "ready"}, Missing(p) = {}
  PROVE  PassLeaves(p, Ready(p))
  <1> DEFINE q == Ready(p)
  <1>1. /\ Good(q, Present) /\ q.status = "ready" /\ q.stage = "ready" /\ q.caughtUp = TRUE /\ q.undone = p.undone
        /\ q.asg = p.asg /\ q.queue = p.queue /\ q.subjects = p.subjects
    BY ReadyIs
  <1> HIDE DEF q
  <1>2. ASSUME Knows(p, Present, Showing) PROVE Knows(q, Present, Showing)
    <2>1. Regrouped(q) BY <1>1, <1>2, SameRegrouped DEF Knows
    <2>2. Current(q, Present, Showing) BY <1>1, <1>2 DEF Knows, Current
    <2>3. Covered(q, Present) BY <1>1 DEF Covered, Missing, Assigned, Present
    <2> QED BY <2>1, <2>2, <2>3 DEF Knows
  <1>3. PassLeaves(p, q) BY <1>1, <1>2 DEF PassLeaves, Finished
  <1> QED BY <1>3 DEF q

LEMMA PicksHere == ASSUME NEW p, Good(p, Present), NEW m \in Picks(p) PROVE m \in Messages => {m} \subseteq Present
  BY ThreadAssumption DEF Picks, ReadyQueue, Good
LEMMA ProcessedLeaves ==
  ASSUME MailTypes, NEW p, Good(p, Present), p.status \in Live \cup {"building"}, NEW m \in Picks(p)
  PROVE  PassLeaves(p, Processed(p, m))
  <1>1. m \in Messages => PassLeaves(p, DirtyQueue(p, {m})) BY PicksHere, DirtyLeaves
  <1>2. Missing(p) # {} => PassLeaves(p, DirtyQueue(p, {Min(Missing(p))})) BY LeastMissing, DirtyLeaves
  <1>3. PassLeaves(p, SubjectWork(p)) /\ PassLeaves(p, p) BY SubjectPassLeaves, NothingLeaves
  <1>4. CASE p.status \in Live
    <2>1. Processed(p, m) = LiveRun(p, m) BY <1>4 DEF Processed
    <2>2. \/ m \in Messages /\ LiveRun(p, m) = DirtyQueue(p, {m})
          \/ LiveRun(p, m) \in {SubjectWork(p), p}
          \/ Missing(p) # {} /\ LiveRun(p, m) = DirtyQueue(p, {Min(Missing(p))})
      <3> HIDE DEF SubjectWork, DirtyQueue, Missing
      <3> QED BY DEF LiveRun
    <2> QED BY <1>1, <1>2, <1>3, <2>1, <2>2
  <1>5. CASE p.status = "building"
    <2>1. p.status \notin Live BY <1>5 DEF Live
    <2>2. CASE p.stage = "body_evidence"
      <3>1. Processed(p, m) = BodyEvidencePage(p) BY <2>1, <2>2 DEF Processed
      <3> QED BY <1>5, <3>1, BodyLeaves
    <2>3. CASE p.stage = "strong"
      <3>1. Processed(p, m) = StrongPage(p) BY <2>1, <2>3 DEF Processed
      <3> QED BY <1>5, <3>1, StrongLeaves
    <2>4. CASE p.stage = "subject"
      <3>1. Processed(p, m) = SubjectWork(p) BY <2>1, <2>4 DEF Processed
      <3> QED BY <1>3, <3>1
    <2>5. CASE p.stage \notin {"body_evidence", "strong", "subject"}
      <3>1. Processed(p, m) = Catchup(p, m) BY <2>1, <2>5 DEF Processed
      <3>2. \/ m \in Messages /\ Catchup(p, m) = DirtyQueue(p, {m})
            \/ Catchup(p, m) \in {SubjectWork(p), p}
            \/ Missing(p) # {} /\ Catchup(p, m) = DirtyQueue(p, {Min(Missing(p))})
            \/ Missing(p) = {} /\ Catchup(p, m) = Ready(p)
        BY DEF Catchup
      <3>3. Missing(p) = {} => PassLeaves(p, Ready(p)) BY <1>5, ReadyLeaves
      <3> QED BY <1>1, <1>2, <1>3, <3>1, <3>2, <3>3
    <2> QED BY <2>2, <2>3, <2>4, <2>5
  <1> QED BY <1>4, <1>5

(* And once it is acknowledged.                                            *)
RunLeaves(p, q) ==
  /\ Good(q, Present)
  /\ Knows(p, Present, Showing) => Knows(q, Present, Showing)
  /\ q.undone = p.undone
  /\ q.status = p.status \/ (p.status = "building" /\ q.status = "ready")
  /\ q.status = "building" /\ q.stage = "ready" => p.status = "building" /\ p.stage = "ready"
  /\ q.status \in Live => q.caughtUp \/ HasWork(q)
  /\ Finished(p) => Finished(q)
LEMMA PassIs ==
  ASSUME MailTypes, NEW p, Good(p, Present), p.status \in Live \cup {"building"}, NEW m \in Picks(p)
  PROVE  RunLeaves(p, AfterPass(p, Processed(p, m)))
  <1> DEFINE u == Processed(p, m)
  <1> DEFINE q == AfterPass(p, u)
  <1>1. PassLeaves(p, u) BY ProcessedLeaves
  <1> HIDE DEF u
  <1>2. Good(u, Present) BY <1>1 DEF PassLeaves
  <1> DEFINE c == u.caughtUp \/ (p.status \in Live /\ ~HasWork(u))
  <1>a. c \in BOOLEAN BY <1>2 DEF Good, RunRecord
  <1>3. q = [[u EXCEPT !.waits = FALSE] EXCEPT !.caughtUp = c]
    <2>1. u \in RunRecord BY <1>2 DEF Good
    <2> QED BY <2>1 DEF AfterPass, RunRecord
  <1> SUFFICES RunLeaves(p, q) BY DEF u
  <1>b. (u.caughtUp => c) /\ (p.status \in Live /\ ~HasWork(u) => c) OBVIOUS
  <1> HIDE DEF c, q
  <1>4. /\ q \in RunRecord /\ q.status = u.status /\ q.undone = u.undone /\ q.asg = u.asg /\ q.queue = u.queue
        /\ q.subjects = u.subjects /\ q.caughtUp = c /\ q.stage = u.stage
    BY <1>2, <1>3, <1>a DEF Good, RunRecord
  <1>5. Good(q, Present) BY <1>2, <1>4 DEF Good
  <1>6. Knows(u, Present, Showing) => Knows(q, Present, Showing) BY <1>4, SameKnows, SameRegrouped DEF Knows
  <1>7. HasWork(q) <=> HasWork(u) BY <1>4 DEF HasWork
  <1>8. q.status \in Live => q.caughtUp \/ HasWork(q) BY <1>1, <1>4, <1>7, <1>b DEF PassLeaves
  <1> QED BY <1>1, <1>4, <1>5, <1>6, <1>8 DEF PassLeaves, RunLeaves, Finished

-------------------------------------------------------------------------------
(* What each step leaves.                                                  *)

LEMMA FineWhenToldLess ==
  ASSUME NEW p, NEW here, NEW shown, NEW told \in BOOLEAN, NEW more \in BOOLEAN,
         Fine(p, here, shown, more), told => more \/ p.caughtUp
  PROVE  Fine(p, here, shown, told)
  BY DEF Fine, Followed, Settled, Finished
LEMMA EmptyIs ==
  /\ NoSuchRun \in RunRecord /\ NoSuchRun.status = "absent" /\ NoSuchRun.undone = FALSE /\ NoSuchRun.caughtUp = FALSE
  /\ \A m \in Messages : NoSuchRun.asg[m] = Unassigned /\ NoSuchRun.queue[m] = "none"
  BY DEF NoSuchRun, RunRecord, Statuses, Stages, Row, Unassigned
LEMMA EndedFine ==
  ASSUME NEW p \in RunRecord, NEW status \in Terminal, NEW here, NEW shown, NEW told
  PROVE  Fine(Ended(p, status), here, shown, told)
  <1> DEFINE q == Ended(p, status)
  <1>1. p.version \in Nat /\ status \in Statuses BY DEF RunRecord, Terminal, Statuses
  <1>2. /\ q \in RunRecord /\ q.status = status /\ q.undone = FALSE
        /\ \A m \in Messages : q.asg[m] = Unassigned /\ q.queue[m] = "none"
    <2> HIDE DEF NoSuchRun
    <2> QED BY <1>1, EmptyIs DEF Ended, RunRecord
  <1>3. q.status \notin Live \cup {"building"} BY <1>2 DEF Terminal, Live
  <1> HIDE DEF q
  <1>4. Good(q, here) BY <1>2 DEF Good, Rows
  <1>5. Fine(q, here, shown, told) BY <1>2, <1>3, <1>4 DEF Fine, Followed, Settled, Finished
  <1> QED BY <1>5 DEF q
LEMMA EmptyFine == ASSUME NEW here, NEW shown, NEW told PROVE Fine(NoSuchRun, here, shown, told)
  <1>1. NoSuchRun.status \notin Live \cup {"building"} BY EmptyIs DEF Live
  <1> HIDE DEF NoSuchRun
  <1>2. Good(NoSuchRun, here) BY EmptyIs DEF Good, Rows
  <1> QED BY <1>1, <1>2, EmptyIs DEF Fine, Followed, Settled, Finished
LEMMA NewFine ==
  ASSUME NEW v \in Nat, NEW initial \in BOOLEAN, NEW here, here \subseteq Messages, NEW shown, NEW told
  PROVE  Fine(NewRun(v, initial), here, shown, told)
  <1> DEFINE q == NewRun(v, initial)
  <1>1. /\ q \in RunRecord /\ q.status = "building" /\ q.undone = FALSE
        /\ q.stage = "body_evidence" /\ \A m \in Messages : q.asg[m] = Unassigned /\ q.queue[m] = "none"
    <2> HIDE DEF NoSuchRun
    <2> QED BY EmptyIs DEF NewRun, RunRecord, Statuses, Stages
  <1> HIDE DEF q
  <1>2. q.status \notin Live BY <1>1 DEF Live
  <1>3. Good(q, here) BY <1>1 DEF Good, Rows
  <1>4. Grouped(q) = {}
    <2>1. Unassigned.weak = FALSE BY DEF Unassigned
    <2> QED BY <1>1, <2>1 DEF Grouped, Bucket
  <1>5. Knows(q, here, shown) BY <1>1, <1>2, <1>4 DEF Knows, Current, Covered, Regrouped
  <1>6. Fine(q, here, shown, told) BY <1>1, <1>2, <1>3, <1>5 DEF Fine, Settled, Finished
  <1> QED BY <1>6 DEF q

(* More is queued, or a backoff ends: what a run shows stays.              *)
Raised(p, q) ==
  /\ q.asg = p.asg /\ q.subjects = p.subjects /\ q.status = p.status /\ q.stage = p.stage /\ q.undone = p.undone
  /\ \A m \in Messages : p.queue[m] # "none" => q.queue[m] # "none"
LEMMA RaisedKnows ==
  ASSUME NEW p, NEW q, Raised(p, q), NEW here, here \subseteq Messages, NEW shown, Knows(p, here, shown)
  PROVE  Knows(q, here, shown)
  <1>1. Bucket(q) = Bucket(p) BY DEF Raised, Bucket
  <1>2. Grouped(q) = Grouped(p) /\ Grouped(p) \subseteq Messages BY <1>1 DEF Raised, Grouped, Bucket
  <1>3. OneSubject(p) => OneSubject(q) BY <1>1 DEF Raised, OneSubject
  <1>4. Regrouped(q) BY <1>2, <1>3 DEF Raised, Knows, Regrouped
  <1>5. Current(q, here, shown) BY DEF Raised, Knows, Current
  <1>6. Covered(q, here) BY DEF Raised, Knows, Covered
  <1> QED BY <1>4, <1>5, <1>6 DEF Knows
LEMMA RaisedFine ==
  ASSUME NEW p, NEW q, Raised(p, q), q.caughtUp = p.caughtUp, NEW here, here \subseteq Messages, NEW shown, NEW told,
         Good(q, here), Fine(p, here, shown, told)
  PROVE  Fine(q, here, shown, told)
  <1>1. HasWork(p) => HasWork(q) BY DEF Raised, HasWork
  <1>2. Followed(q, told) <=> Followed(p, told) BY DEF Raised, Followed
  <1>3. Settled(q, told) BY <1>1 DEF Raised, Fine, Settled
  <1>4. Followed(q, told) => Knows(q, here, shown) BY <1>2, RaisedKnows DEF Fine
  <1> QED BY <1>3, <1>4 DEF Raised, Fine, Finished

LEMMA ToldFine ==
  ASSUME NEW p, NEW here, NEW next, NEW shown, NEW now, NEW told, NEW m \in next, here \subseteq next, next \subseteq here \cup {m},
         next \subseteq Messages, \A n \in here \ {m} : now[n] = shown[n], Fine(p, here, shown, told)
  PROVE  /\ Fine([Queued(p, {m}) EXCEPT !.caughtUp = FALSE], next, now, told)
         /\ ~told \/ p.status \in Terminal => Fine([p EXCEPT !.caughtUp = FALSE], next, now, told)
  <1> DEFINE queue == [n \in Messages |-> IF n \in {m} THEN "ready" ELSE p.queue[n]]
  <1> DEFINE u == [p EXCEPT !.queue = queue]
  <1> DEFINE q == [u EXCEPT !.caughtUp = FALSE]
  <1> DEFINE s == [p EXCEPT !.caughtUp = FALSE]
  <1>1. p \in RunRecord /\ Good(p, here) BY DEF Fine, Good
  <1>2. queue \in [Messages -> {"none", "ready", "later"}] BY <1>1 DEF RunRecord
  <1>3. [Queued(p, {m}) EXCEPT !.caughtUp = FALSE] = q BY <1>1 DEF Queued, RunRecord
  <1>4. \A n \in Messages : queue[n] = IF n = m THEN "ready" ELSE p.queue[n] OBVIOUS
  <1> HIDE DEF queue
  <1>a. /\ u \in RunRecord /\ u.queue = queue /\ u.asg = p.asg /\ u.subjects = p.subjects
        /\ u.status = p.status /\ u.stage = p.stage /\ u.undone = p.undone
    BY <1>1, <1>2 DEF RunRecord
  <1> HIDE DEF u
  <1>5. /\ q \in RunRecord /\ q.queue = queue /\ q.caughtUp = FALSE /\ Raised(p, q)
    BY <1>a, <1>4 DEF RunRecord, Raised
  <1>6. s \in RunRecord /\ s.queue = p.queue /\ s.caughtUp = FALSE /\ s.asg = p.asg /\ s.status = p.status /\ s.stage = p.stage /\ s.undone = p.undone
    BY <1>1 DEF RunRecord
  <1> HIDE DEF q, s
  <1>7. Good(q, next) BY <1>1, <1>4, <1>5 DEF Good, Raised
  <1>8. Good(s, next) BY <1>1, <1>6 DEF Good
  <1>9. HasWork(q) BY <1>4, <1>5 DEF HasWork
  <1>10. ASSUME Followed(q, told) PROVE Knows(q, next, now)
    <2>1. Followed(p, told) BY <1>5, <1>10 DEF Followed, Raised
    <2>2. Knows(p, here, shown) BY <2>1 DEF Fine
    <2>3. Knows(q, here \cap Messages, shown) 
      <3>1. here \cap Messages = here OBVIOUS
      <3> QED BY <1>5, <2>2, <3>1, RaisedKnows
    <2>4. Current(q, next, now) BY <1>4, <1>5, <2>2 DEF Knows, Current, Raised
    <2>5. Covered(q, next) BY <1>4, <1>5, <2>2 DEF Knows, Covered, Raised
    <2> QED BY <2>3, <2>4, <2>5 DEF Knows
  <1>11. Fine(q, next, now, told) BY <1>5, <1>7, <1>9, <1>10 DEF Fine, Settled, Raised, Finished
  <1>12. ASSUME ~told \/ p.status \in Terminal PROVE Fine(s, next, now, told)
    <2>1. ~Followed(s, told) /\ Settled(s, told) BY <1>6, <1>12 DEF Followed, Settled, Terminal, Live
    <2> QED BY <1>6, <1>8, <2>1 DEF Fine, Finished
  <1>13. ~told \/ p.status \in Terminal => Fine([p EXCEPT !.caughtUp = FALSE], next, now, told) BY <1>12 DEF s
  <1> QED BY <1>3, <1>11, <1>13
LEMMA TellFine ==
  ASSUME ProjectionInv, NEW m \in Present', Tell(m), UNCHANGED state, Present \subseteq Present', Present' \subseteq Present \cup {m},
         \A n \in Present \ {m} : Showing'[n] = Showing[n]
  PROVE  run' \in [Runs -> RunRecord] /\ \A r \in Runs : RunOK(r)'
  <1>1. Present' \subseteq Messages /\ Referenced' = Referenced BY DEF Present, Referenced
  <1>2. ASSUME NEW r \in Runs PROVE Fine(run'[r], Present', Showing', r \in Referenced')
    <2> DEFINE p == run[r]
    <2> DEFINE told == r \in Referenced
    <2>1. Fine(p, Present, Showing, told) BY DEF ProjectionInv, RunOK
    <2>2. run'[r] = [(IF r \in Told THEN Queued(p, {m}) ELSE p) EXCEPT !.caughtUp = FALSE] BY DEF Tell
    <2>3. r \in Told <=> told /\ p.status \notin Terminal BY DEF Told
    <2> HIDE DEF p, told
    <2> DEFINE q == [Queued(p, {m}) EXCEPT !.caughtUp = FALSE]
    <2> DEFINE s == [p EXCEPT !.caughtUp = FALSE]
    <2>4. /\ Fine(q, Present', Showing', told)
          /\ ~told \/ p.status \in Terminal => Fine(s, Present', Showing', told)
      BY <1>1, <2>1, ToldFine
    <2>5. run'[r] = IF r \in Told THEN q ELSE s BY <2>2
    <2> HIDE DEF q, s
    <2>6. Fine(run'[r], Present', Showing', told) BY <2>3, <2>4, <2>5
    <2> QED BY <1>1, <2>6 DEF told
  <1>3. \A r \in Runs : RunOK(r)' BY <1>2 DEF RunOK
  <1>4. \A r \in Runs : run'[r] \in RunRecord BY <1>2 DEF Fine, Good
  <1>5. run' = [r \in Runs |-> run'[r]]
    <2> DEFINE F(r) == [(IF r \in Told THEN Queued(run[r], {m}) ELSE run[r]) EXCEPT !.caughtUp = FALSE]
    <2>1. run' = [r \in Runs |-> F(r)] BY DEF Tell
    <2> HIDE DEF F
    <2> QED BY <2>1
  <1> QED BY <1>3, <1>4, <1>5

LEMMA SurvivorHere ==
  ASSUME NEW p, NEW here, Good(p, here), NEW m PROVE Survivor(p, m) \subseteq (here \cap Messages) \ {m}
  <1> DEFINE kin == {n \in Assigned(p) \ {m} : p.asg[n].conv = p.asg[m].conv}
  <1>1. kin \subseteq (here \cap Messages) \ {m} BY AssignedHere
  <1>2. kin # {} => Min(kin) \in kin
    <2>1. kin \subseteq Nat BY <1>1, ThreadAssumption
    <2> HIDE DEF kin
    <2> QED BY <2>1, MinIn
  <1>3. Survivor(p, m) \subseteq IF kin # {} THEN {Min(kin)} ELSE {} BY DEF Survivor
  <1> HIDE DEF kin
  <1> QED BY <1>1, <1>2, <1>3
LEMMA ForgetFine ==
  ASSUME NEW p, NEW here, here \subseteq Messages, NEW shown, NEW now, NEW told, NEW m \in Messages,
         \A n \in here \ {m} : now[n] = shown[n], Fine(p, here, shown, told)
  PROVE  /\ Fine([Forget(p, m) EXCEPT !.caughtUp = FALSE], here \ {m}, now, told)
         /\ ~told \/ p.status \in Terminal =>
              Fine([Dequeue([p EXCEPT !.asg[m] = Unassigned], {m}) EXCEPT !.caughtUp = FALSE], here \ {m}, now, told)
  <1> DEFINE kin == Survivor(p, m)
  <1> DEFINE asg == [p.asg EXCEPT ![m] = Unassigned]
  <1> DEFINE none == [n \in Messages |-> IF n \in {m} THEN "none" ELSE p.queue[n]]
  <1> DEFINE queue == [n \in Messages |-> IF n \in kin THEN "ready" ELSE none[n]]
  <1> DEFINE S == {"sentinel"} \cup (IF Groupable(p.asg[m]) THEN {"subject"} ELSE {})
  <1> DEFINE a == [p EXCEPT !.queue = none]
  <1> DEFINE b == [a EXCEPT !.queue = queue]
  <1> DEFINE c == [b EXCEPT !.asg[m] = Unassigned, !.subjects = @ \cup S]
  <1> DEFINE q == [c EXCEPT !.caughtUp = FALSE]
  <1> DEFINE d == [p EXCEPT !.asg[m] = Unassigned]
  <1> DEFINE e == [d EXCEPT !.queue = none]
  <1> DEFINE s == [e EXCEPT !.caughtUp = FALSE]
  <1>1. p \in RunRecord /\ Good(p, here) BY DEF Fine, Good
  <1>2. kin \subseteq here \ {m} BY <1>1, SurvivorHere
  <1>3. asg \in [Messages -> Row] /\ none \in [Messages -> {"none", "ready", "later"}]
    <2>1. Unassigned \in Row BY DEF Unassigned, Row
    <2> QED BY <1>1, <2>1 DEF RunRecord
  <1>4. queue \in [Messages -> {"none", "ready", "later"}] BY <1>3
  <1>5. S \subseteq {"subject", "sentinel"} /\ "sentinel" \in S /\ (Groupable(p.asg[m]) => "subject" \in S) OBVIOUS
  <1>6. \A n \in Messages : asg[n] = IF n = m THEN Unassigned ELSE p.asg[n] BY <1>1 DEF RunRecord
  <1>7. \A n \in Messages : none[n] = IF n = m THEN "none" ELSE p.queue[n] OBVIOUS
  <1>8. \A n \in Messages : queue[n] = IF n \in kin THEN "ready" ELSE none[n] OBVIOUS
  <1>9. [Forget(p, m) EXCEPT !.caughtUp = FALSE] = q
    <2>1. Dequeue(p, {m}) = a BY <1>1 DEF Dequeue, RunRecord
    <2>2. a.queue = none BY <1>1 DEF RunRecord
    <2>3. Queued(a, kin) = b BY <1>1, <2>2 DEF Queued, RunRecord
    <2>4. Forget(p, m) = c BY <2>1, <2>3 DEF Forget
    <2> QED BY <2>4
  <1>10. [Dequeue(d, {m}) EXCEPT !.caughtUp = FALSE] = s
    <2>1. d.queue = p.queue /\ DOMAIN d = DOMAIN p BY <1>1 DEF RunRecord
    <2>2. Dequeue(d, {m}) = e BY <1>1, <2>1 DEF Dequeue, RunRecord
    <2> QED BY <2>2
  <1> HIDE DEF queue, none, S, kin
  <1>11. /\ q \in RunRecord /\ q.asg = asg /\ q.queue = queue /\ q.subjects = p.subjects \cup S /\ q.status = p.status /\ q.stage = p.stage
         /\ q.undone = p.undone /\ q.caughtUp = FALSE
    <2>1. a \in RunRecord /\ a.asg = p.asg /\ a.subjects = p.subjects /\ a.status = p.status /\ a.stage = p.stage /\ a.undone = p.undone
      BY <1>1, <1>3 DEF RunRecord
    <2> HIDE DEF a
    <2>2. b \in RunRecord /\ b.asg = p.asg /\ b.queue = queue /\ b.subjects = p.subjects /\ b.status = p.status /\ b.stage = p.stage /\ b.undone = p.undone
      BY <1>4, <2>1 DEF RunRecord
    <2> HIDE DEF b
    <2>3. /\ c \in RunRecord /\ c.asg = asg /\ c.queue = queue /\ c.subjects = p.subjects \cup S /\ c.status = p.status /\ c.stage = p.stage
          /\ c.undone = p.undone
      BY <1>3, <1>5, <2>2 DEF RunRecord
    <2> HIDE DEF c
    <2> QED BY <2>3 DEF RunRecord
  <1>12. /\ s \in RunRecord /\ s.asg = asg /\ s.queue = none /\ s.status = p.status /\ s.stage = p.stage /\ s.undone = p.undone /\ s.caughtUp = FALSE
    <2>1. d \in RunRecord /\ d.asg = asg /\ d.status = p.status /\ d.stage = p.stage /\ d.undone = p.undone BY <1>1, <1>3 DEF RunRecord
    <2> HIDE DEF d
    <2>2. e \in RunRecord /\ e.asg = asg /\ e.queue = none /\ e.status = p.status /\ e.stage = p.stage /\ e.undone = p.undone BY <1>3, <2>1 DEF RunRecord
    <2> HIDE DEF e
    <2> QED BY <2>2 DEF RunRecord
  <1> HIDE DEF asg, q, s
  <1>13. Good(q, here \ {m}) BY <1>1, <1>2, <1>6, <1>7, <1>8, <1>11 DEF Good, Rows
  <1>14. Good(s, here \ {m}) BY <1>1, <1>6, <1>7, <1>12 DEF Good, Rows
  <1>15. ASSUME Knows(p, here, shown) PROVE Knows(q, here \ {m}, now)
    <2>1. Current(q, here \ {m}, now) BY <1>2, <1>6, <1>7, <1>8, <1>11, <1>15 DEF Knows, Current
    <2>2. Covered(q, here \ {m}) BY <1>2, <1>6, <1>7, <1>8, <1>11, <1>15 DEF Knows, Covered
    <2>3. Regrouped(q)
      <3>1. CASE Groupable(p.asg[m]) BY <1>5, <1>11, <3>1 DEF Regrouped
      <3>2. CASE ~Groupable(p.asg[m])
        <4>0. ~Groupable(Unassigned) BY DEF Unassigned, Groupable
        <4>1. \A n \in Messages : Groupable(q.asg[n]) <=> Groupable(p.asg[n]) BY <1>6, <1>11, <3>2, <4>0
        <4>2. Bucket(q) = Bucket(p) /\ \A n \in Bucket(p) : q.asg[n] = p.asg[n] /\ n # m
          BY <1>6, <1>11, <3>2, <4>1 DEF Bucket
        <4>3. Grouped(q) = Grouped(p) BY <4>2 DEF Grouped
        <4>4. OneSubject(p) => OneSubject(q) BY <4>2 DEF OneSubject
        <4>5. \A n \in Grouped(p) : p.queue[n] # "none" => q.queue[n] # "none"
          BY <1>7, <1>8, <1>11, <4>2 DEF Grouped, Bucket
        <4> QED BY <1>11, <1>15, <4>3, <4>4, <4>5 DEF Knows, Regrouped
      <3> QED BY <3>1, <3>2
    <2> QED BY <2>1, <2>2, <2>3 DEF Knows
  <1>16. HasWork(q) BY <1>5, <1>11 DEF HasWork
  <1>17. Followed(q, told) => Followed(p, told) BY <1>11 DEF Followed
  <1>18. Fine(q, here \ {m}, now, told) BY <1>11, <1>13, <1>15, <1>16, <1>17 DEF Fine, Settled, Finished
  <1>19. ASSUME ~told \/ p.status \in Terminal PROVE Fine(s, here \ {m}, now, told)
    <2>1. ~Followed(s, told) /\ Settled(s, told) BY <1>12, <1>19 DEF Followed, Settled, Terminal, Live
    <2> QED BY <1>12, <1>14, <2>1 DEF Fine, Finished
  <1> QED BY <1>9, <1>10, <1>18, <1>19

(* The mail's types.                                                       *)
LEMMA MailTypesKept == ASSUME MailTypes, Next PROVE MailTypes'
  <1>1. ASSUME NEW m \in Messages, NEW e \in Evidence, WriteMail(m, e) PROVE MailTypes'
    <2>1. mail' = [mail EXCEPT ![m] = e] BY <1>1 DEF WriteMail
    <2>2. PICK late \in {FALSE, Legacy} : gap' = (gap \ {m}) \cup (IF late THEN {m} ELSE {}) BY <1>1 DEF WriteMail
    <2>3. e # "absent" BY ThreadAssumption
    <2> QED BY <2>1, <2>2, <2>3 DEF MailTypes, Present
  <1>2. ASSUME NEW m \in Messages, DeleteMail(m) PROVE MailTypes'
    BY <1>2 DEF DeleteMail, MailTypes, Present
  <1>3. CASE BackfillBodyEvidence BY <1>3 DEF BackfillBodyEvidence, MailTypes, Present
  <1>4. CASE UNCHANGED <<mail, gap>> BY <1>4 DEF MailTypes, Present
  <1> QED BY <1>1, <1>2, <1>3, <1>4 DEF Next, Drain, DrainActivates, DrainFails, StartRebuild, RollbackActivation, RunDue, CompareRuns, PruneRun,
       WorkDue, ActivateRun, RollbackIncremental, RetireStandby

LEMMA WriteFine ==
  ASSUME ProjectionInv, NEW m \in Messages, NEW e \in Evidence, WriteMail(m, e)
  PROVE  run' \in [Runs -> RunRecord] /\ \A r \in Runs : RunOK(r)'
  <1>1. mail' = [mail EXCEPT ![m] = e] /\ Tell(m) /\ UNCHANGED state BY DEF WriteMail
  <1>2. PICK late \in {FALSE, Legacy} : gap' = (gap \ {m}) \cup (IF late THEN {m} ELSE {}) BY DEF WriteMail
  <1>3. e # "absent" BY ThreadAssumption
  <1>4. m \in Present' /\ Present \subseteq Present' /\ Present' \subseteq Present \cup {m}
    BY <1>1, <1>3 DEF ProjectionInv, MailTypes, Present
  <1>5. \A n \in Present \ {m} : Showing'[n] = Showing[n]
    BY <1>1, <1>2 DEF ProjectionInv, MailTypes, Present, Showing, Shown
  <1> QED BY <1>1, <1>4, <1>5, TellFine
LEMMA BackfillFine ==
  ASSUME ProjectionInv, BackfillBodyEvidence
  PROVE  run' \in [Runs -> RunRecord] /\ \A r \in Runs : RunOK(r)'
  <1>1. PICK m \in QueuedGaps \cup LegacyGaps : gap' = gap \ {m} /\ Tell(m) /\ UNCHANGED <<mail, events, state, undo>>
    BY DEF BackfillBodyEvidence
  <1>2. m \in gap BY DEF QueuedGaps, LegacyGaps
  <1>3. m \in Present' /\ Present \subseteq Present' /\ Present' \subseteq Present \cup {m}
    BY <1>1, <1>2 DEF ProjectionInv, MailTypes, Present
  <1>4. \A n \in Present \ {m} : Showing'[n] = Showing[n]
    BY <1>1 DEF Present, Showing, Shown
  <1> QED BY <1>1, <1>3, <1>4, TellFine
LEMMA DeleteFine ==
  ASSUME ProjectionInv, NEW m \in Messages, DeleteMail(m)
  PROVE  run' \in [Runs -> RunRecord] /\ \A r \in Runs : RunOK(r)'
  <1>1. mail' = [mail EXCEPT ![m] = "absent"] /\ gap' = gap \ {m} /\ UNCHANGED state BY DEF DeleteMail
  <1>2. Present' = Present \ {m} /\ Present \subseteq Messages /\ Referenced' = Referenced
    BY <1>1 DEF ProjectionInv, MailTypes, Present, Referenced
  <1>3. \A n \in Present \ {m} : Showing'[n] = Showing[n]
    BY <1>1 DEF ProjectionInv, MailTypes, Present, Showing, Shown
  <1>4. ASSUME NEW r \in Runs PROVE Fine(run'[r], Present', Showing', r \in Referenced')
    <2> DEFINE p == run[r]
    <2> DEFINE told == r \in Referenced
    <2>1. Fine(p, Present, Showing, told) BY DEF ProjectionInv, RunOK
    <2>2. run'[r] = [(IF r \in Told THEN Forget(p, m) ELSE Dequeue([p EXCEPT !.asg[m] = Unassigned], {m})) EXCEPT !.caughtUp = FALSE]
      BY DEF DeleteMail
    <2>3. r \in Told <=> told /\ p.status \notin Terminal BY DEF Told
    <2> HIDE DEF p, told
    <2> DEFINE q == [Forget(p, m) EXCEPT !.caughtUp = FALSE]
    <2> DEFINE s == [Dequeue([p EXCEPT !.asg[m] = Unassigned], {m}) EXCEPT !.caughtUp = FALSE]
    <2>4. /\ Fine(q, Present \ {m}, Showing', told)
          /\ ~told \/ p.status \in Terminal => Fine(s, Present \ {m}, Showing', told)
      BY <1>2, <1>3, <2>1, ForgetFine
    <2>5. run'[r] = IF r \in Told THEN q ELSE s BY <2>2
    <2> HIDE DEF q, s
    <2>6. Fine(run'[r], Present \ {m}, Showing', told) BY <2>3, <2>4, <2>5
    <2> QED BY <1>2, <2>6 DEF told
  <1>5. \A r \in Runs : RunOK(r)' BY <1>4 DEF RunOK
  <1>6. \A r \in Runs : run'[r] \in RunRecord BY <1>4 DEF Fine, Good
  <1>7. run' = [r \in Runs |-> run'[r]]
    <2> DEFINE F(r) == [(IF r \in Told THEN Forget(run[r], m)
                         ELSE Dequeue([run[r] EXCEPT !.asg[m] = Unassigned], {m})) EXCEPT !.caughtUp = FALSE]
    <2>1. run' = [r \in Runs |-> F(r)] BY DEF DeleteMail
    <2> HIDE DEF F
    <2> QED BY <2>1
  <1> QED BY <1>5, <1>6, <1>7

(* Steps that leave the mail as it is.                                     *)
AllFine == run \in [Runs -> RunRecord] /\ \A r \in Runs : RunOK(r)
IsRuns(f) == f = [r \in Runs |-> f[r]]
LEMMA Quiet == ASSUME UNCHANGED <<mail, gap>> PROVE Present' = Present /\ Showing' = Showing
  BY DEF Present, Showing, Shown
LEMMA FineRuns ==
  ASSUME UNCHANGED <<mail, gap>>, IsRuns(run'),
         \A r \in Runs : Fine(run'[r], Present, Showing, r \in Referenced')
  PROVE  AllFine'
  <1>1. Present' = Present /\ Showing' = Showing BY Quiet
  <1>2. \A r \in Runs : RunOK(r)' BY <1>1 DEF RunOK
  <1>3. \A r \in Runs : run'[r] \in RunRecord BY DEF Fine, Good
  <1> QED BY <1>2, <1>3 DEF AllFine, IsRuns
LEMMA RunsFine ==
  ASSUME ProjectionInv, NEW r \in Runs
  PROVE  /\ Fine(run[r], Present, Showing, r \in Referenced) /\ run[r] \in RunRecord /\ Good(run[r], Present) /\ IsRuns(run)
         /\ Present \subseteq Messages /\ MailTypes
  BY DEF ProjectionInv, RunOK, Fine, Good, IsRuns, Present

LEMMA BuildFine ==
  ASSUME ProjectionInv, PointerInv, NEW v \in Nat, NEW w \in NewBuild(v)
  PROVE  /\ IsRuns(w.run)
         /\ \A s \in Runs : Fine(w.run[s], Present, Showing, s \in {state.active, state.previous, w.building} \ {NoRun})
  <1> DEFINE told(s) == s \in {state.active, state.previous, w.building} \ {NoRun}
  <1>1. \A s \in Runs : Fine(run[s], Present, Showing, s \in Referenced) /\ run[s] \in RunRecord BY RunsFine
  <1>2. DOMAIN run = Runs /\ IsRuns(run) /\ Present \subseteq Messages BY DEF ProjectionInv, IsRuns, Present
  <1>3. Obsolete(v) => state.building \in Runs BY DEF Obsolete, PointerInv, StateTypeOK
  <1>4. IsRuns(Dropped(v)) /\ DOMAIN Dropped(v) = Runs BY <1>2 DEF Dropped, IsRuns
  <1>5. \A s \in Runs : Dropped(v)[s] = IF Obsolete(v) /\ s = state.building THEN Ended(run[s], "failed") ELSE run[s]
    BY <1>2, <1>3 DEF Dropped
  <1>6. ASSUME NEW s \in Runs, told(s) => s \in Referenced \/ (Obsolete(v) /\ s = state.building)
        PROVE  Fine(Dropped(v)[s], Present, Showing, told(s))
    <2>1. CASE Obsolete(v) /\ s = state.building
      <3>1. "failed" \in Terminal BY DEF Terminal
      <3>2. Dropped(v)[s] = Ended(run[s], "failed") BY <1>5, <2>1
      <3> QED BY <1>1, <3>1, <3>2, EndedFine
    <2>2. CASE ~(Obsolete(v) /\ s = state.building)
      <3>1. Dropped(v)[s] = run[s] BY <1>5, <2>2
      <3> DEFINE more == s \in Referenced
      <3>2. Fine(run[s], Present, Showing, more) BY <1>1
      <3>3. told(s) => more BY <1>6, <2>2
      <3> HIDE DEF told, more
      <3>4. Fine(run[s], Present, Showing, s \in Referenced) BY <1>1
      <3>5. told(s) \in BOOLEAN BY DEF told
      <3>6. more \in BOOLEAN BY DEF more
      <3>7. Fine(run[s], Present, Showing, told(s)) BY <3>2, <3>3, <3>5, <3>6, FineWhenToldLess
      <3> QED BY <3>1, <3>7
    <2> QED BY <2>1, <2>2
  <1>7. CASE ~Needed(v)
    <2>1. w = [building |-> IF Obsolete(v) THEN NoRun ELSE state.building, run |-> Dropped(v)] BY <1>7 DEF NewBuild
    <2>2. w.building = (IF Obsolete(v) THEN NoRun ELSE state.building) /\ w.run = Dropped(v) BY <2>1
    <2>3. \A s \in Runs : told(s) => s \in Referenced \/ (Obsolete(v) /\ s = state.building) BY <2>2 DEF Referenced
    <2> HIDE DEF told
    <2>4. \A s \in Runs : Fine(w.run[s], Present, Showing, told(s)) BY <1>6, <2>2, <2>3
    <2> QED BY <1>4, <2>2, <2>4 DEF told
  <1>8. CASE Needed(v)
    <2> DEFINE new == NewRun(v, state.active = NoRun)
    <2>1. PICK r \in Runs : run[r].status = "absent" /\ w = [building |-> r, run |-> [Dropped(v) EXCEPT ![r] = new]]
      BY <1>8 DEF NewBuild
    <2>a. (state.active = NoRun) \in BOOLEAN OBVIOUS
    <2>b. Fine(new, Present, Showing, told(r)) BY <1>2, <2>a, NewFine
    <2> HIDE DEF new
    <2>2. w.building = r /\ w.run = [Dropped(v) EXCEPT ![r] = new] BY <2>1
    <2>3. IsRuns(w.run) /\ w.run[r] = new /\ \A s \in Runs \ {r} : w.run[s] = Dropped(v)[s] BY <1>4, <2>2 DEF IsRuns
    <2>4. \A s \in Runs \ {r} : told(s) => s \in Referenced BY <2>2 DEF Referenced
    <2> HIDE DEF told
    <2>6. \A s \in Runs : Fine(w.run[s], Present, Showing, told(s)) BY <1>6, <2>3, <2>4, <2>b
    <2> QED BY <2>3, <2>6 DEF told
  <1> QED BY <1>7, <1>8

LEMMA RunPassFine ==
  ASSUME MailTypes, NEW p, Fine(p, Present, Showing, TRUE), p.status \in Live \cup {"building"}, NEW m \in Picks(p)
  PROVE  Fine(AfterPass(p, Processed(p, m)), Present, Showing, TRUE)
  <1> DEFINE q == AfterPass(p, Processed(p, m))
  <1>1. RunLeaves(p, q) BY PassIs DEF Fine
  <1> HIDE DEF q
  <1>2. Followed(q, TRUE) => Followed(p, TRUE) BY <1>1 DEF RunLeaves, Followed
  <1>3. Settled(q, TRUE) BY <1>1 DEF RunLeaves, Settled
  <1>4. Fine(q, Present, Showing, TRUE) BY <1>1, <1>2, <1>3 DEF RunLeaves, Fine
  <1> QED BY <1>4 DEF q

(* Each run that a drain's pass ends with is fine, told of the mail if a   *)
(* pointer that the drain leaves names it.                                 *)
RunsAreFine(rs, b) ==
  IsRuns(rs) /\ \A s \in Runs : Fine(rs[s], Present, Showing, s \in {state.active, state.previous, b} \ {NoRun})
LEMMA OutcomeFine ==
  ASSUME ProjectionInv, PointerInv, NEW v \in Nat, NEW w \in NewBuild(v), NEW left \in Outcomes(w, Scheduled(w, v).run)
  PROVE  RunsAreFine(left.run, w.building)
  <1> DEFINE r == Scheduled(w, v).run
  <1> DEFINE told(s) == s \in {state.active, state.previous, w.building} \ {NoRun}
  <1>1. IsRuns(w.run) /\ \A s \in Runs : Fine(w.run[s], Present, Showing, told(s)) BY BuildFine
  <1>2. r # NoRun => r \in Runs /\ told(r) /\ w.run[r].status \in Live \cup {"building"} BY ScheduledFits
  <1>3. left.run = w.run \/ (r # NoRun /\ \E m \in Picks(w.run[r]) : left.run = Leaves(w, r, m)) BY OutcomeIs
  <1> HIDE DEF r
  <1>4. CASE left.run = w.run BY <1>1, <1>4 DEF RunsAreFine
  <1>5. ASSUME r # NoRun, NEW m \in Picks(w.run[r]), left.run = Leaves(w, r, m) PROVE RunsAreFine(left.run, w.building)
    <2> DEFINE p == w.run[r]
    <2> DEFINE q == AfterPass(p, Processed(p, m))
    <2> DEFINE rs == left.run
    <2>a. told(r) = TRUE BY <1>2, <1>5
    <2>1. Fine(p, Present, Showing, told(r)) /\ MailTypes BY <1>1, <1>2, <1>5 DEF ProjectionInv
    <2>2. Fine(p, Present, Showing, TRUE) BY <2>1, <2>a
    <2>3. Fine(q, Present, Showing, TRUE) BY <1>2, <1>5, <2>1, <2>2, RunPassFine
    <2>4. IsRuns(rs) /\ rs[r] = q /\ \A s \in Runs \ {r} : rs[s] = w.run[s] BY <1>1, <1>2, <1>5 DEF IsRuns, Leaves
    <2> HIDE DEF q, rs, told
    <2>5. Fine(q, Present, Showing, told(r)) BY <2>3, <2>a
    <2>6. \A s \in Runs : Fine(rs[s], Present, Showing, told(s)) BY <1>1, <2>4, <2>5
    <2> QED BY <2>4, <2>6 DEF RunsAreFine, rs, told
  <1> QED BY <1>3, <1>4, <1>5
LEMMA HistoryTypes ==
  ASSUME UndoTypes, NEW r, NEW p, Good(p, Present), NEW q
  PROVE  /\ DOMAIN History(r, p, q).before \subseteq Messages
         /\ \A m \in DOMAIN History(r, p, q).before : History(r, p, q).before[m] \in Rows(m)
  <1>1. CASE p.status = "active" /\ Material(p, q)
    <2> DEFINE S == {m \in Messages : p.asg[m] # q.asg[m]}
    <2>1. History(r, p, q) = [run |-> r, before |-> [m \in S |-> p.asg[m]]] BY <1>1 DEF History
    <2>2. \A m \in S : p.asg[m] \in Rows(m) BY DEF Good
    <2>3. S \subseteq Messages OBVIOUS
    <2> HIDE DEF S
    <2> QED BY <2>1, <2>2, <2>3
  <1>2. CASE ~(p.status = "active" /\ Material(p, q)) BY <1>2 DEF History, UndoTypes
  <1> QED BY <1>1, <1>2
LEMMA DrainFine ==
  ASSUME ProjectionInv, PointerInv, NEW v \in Versions, Drain(v)
  PROVE  AllFine' /\ UndoTypes'
  <1>1. PICK w \in NewBuild(v) :
          /\ state' = [state EXCEPT !.building = w.building, !.cursor = Scheduled(w, v).cursor]
          /\ \E left \in Outcomes(w, Scheduled(w, v).run) : run' = left.run /\ undo' = left.undo
    BY DEF Drain
  <1> DEFINE r == Scheduled(w, v).run
  <1> DEFINE p == w.run[r]
  <1>2. PICK left \in Outcomes(w, r) : run' = left.run /\ undo' = left.undo BY <1>1
  <1>3. UNCHANGED <<mail, gap>> /\ v \in Nat BY ThreadAssumption DEF Drain
  <1>4. RunsAreFine(left.run, w.building) BY <1>2, <1>3, OutcomeFine
  <1>5. Referenced' = {state.active, state.previous, w.building} \ {NoRun}
    BY <1>1 DEF PointerInv, StateTypeOK, Referenced
  <1>6. AllFine' BY <1>2, <1>3, <1>4, <1>5, FineRuns DEF RunsAreFine
  <1>7. r # NoRun => Good(p, Present)
    <2>1. r # NoRun => r \in Runs BY <1>1, ScheduledFits
    <2> HIDE DEF r
    <2> QED BY <1>1, <1>3, <2>1, BuildFine DEF Fine
  <1> HIDE DEF r, p
  <1>8. UndoTypes /\ (left.undo = undo \/ (r # NoRun /\ \E q : left.undo = History(r, p, q)))
    <2>1. CASE r = NoRun \/ w.run[r].waits
      <3>1. left = [run |-> w.run, certs |-> certs, undo |-> undo] BY <1>2, <2>1 DEF Outcomes
      <3> QED BY <3>1 DEF ProjectionInv
    <2>2. CASE ~(r = NoRun \/ w.run[r].waits)
      <3>1. PICK m \in Picks(w.run[r]) :
              left = [run |-> Leaves(w, r, m),
                      certs |-> CertsAfter(r, w.run[r], Processed(w.run[r], m)), undo |-> History(r, w.run[r], Processed(w.run[r], m))]
        BY <1>2, <2>2 DEF Outcomes, Leaves
      <3>2. left.undo = History(r, w.run[r], Processed(w.run[r], m)) BY <3>1
      <3> QED BY <2>2, <3>2 DEF ProjectionInv, p
    <2> QED BY <2>1, <2>2
  <1>9. CASE left.undo = undo
    <2>1. undo' = undo BY <1>2, <1>9
    <2> QED BY <1>6, <1>8, <2>1 DEF UndoTypes
  <1>10. ASSUME r # NoRun, NEW q, left.undo = History(r, p, q) PROVE UndoTypes'
    <2>1. /\ DOMAIN History(r, p, q).before \subseteq Messages
          /\ \A n \in DOMAIN History(r, p, q).before : History(r, p, q).before[n] \in Rows(n)
      BY <1>7, <1>8, <1>10, HistoryTypes
    <2> QED BY <1>2, <1>10, <2>1 DEF UndoTypes
  <1> QED BY <1>6, <1>8, <1>9, <1>10

(* A failed pass keeps what the run shows, and queues what it attempted.   *)
LEMMA AttemptedHere == ASSUME NEW p, Good(p, Present), NEW m \in Picks(p) PROVE Attempted(p, m) \subseteq Present
  <1>1. Bucket(p) \subseteq Present
    <2>1. Unassigned.from = "absent" BY DEF Unassigned
    <2> QED BY <2>1 DEF Good, Bucket, Groupable
  <1>2. First(p) \subseteq Present BY LeastPage DEF First
  <1> QED BY <1>1, <1>2, PicksHere DEF Attempted
LEMMA FailedFine ==
  ASSUME NEW p, NEW told \in BOOLEAN, Fine(p, Present, Showing, told),
         NEW waits \in BOOLEAN, NEW ids, ids \subseteq Present
  PROVE  Fine([[p EXCEPT !.waits = waits] EXCEPT !.queue = [n \in Messages |-> IF n \in ids THEN "later" ELSE @[n]]],
              Present, Showing, told)
  <1> DEFINE queue == [n \in Messages |-> IF n \in ids THEN "later" ELSE p.queue[n]]
  <1> DEFINE u == [p EXCEPT !.waits = waits]
  <1> DEFINE q == [u EXCEPT !.queue = queue]
  <1>1. p \in RunRecord /\ Good(p, Present) BY DEF Fine, Good
  <1>2. queue \in [Messages -> {"none", "ready", "later"}] BY <1>1 DEF RunRecord
  <1>3. \A n \in Messages : queue[n] = IF n \in ids THEN "later" ELSE p.queue[n] OBVIOUS
  <1>4. [u EXCEPT !.queue = [n \in Messages |-> IF n \in ids THEN "later" ELSE @[n]]] = q
    <2>1. u.queue = p.queue BY <1>1 DEF RunRecord
    <2> QED BY <2>1
  <1> HIDE DEF queue
  <1>5. u \in RunRecord /\ u.asg = p.asg /\ u.subjects = p.subjects /\ u.status = p.status /\ u.stage = p.stage /\ u.undone = p.undone /\ u.caughtUp = p.caughtUp
    BY <1>1 DEF RunRecord
  <1> HIDE DEF u
  <1>6. q \in RunRecord /\ q.queue = queue /\ q.caughtUp = p.caughtUp /\ Raised(p, q) BY <1>2, <1>3, <1>5 DEF RunRecord, Raised
  <1> HIDE DEF q
  <1>7. Good(q, Present) BY <1>1, <1>3, <1>6 DEF Good, Raised
  <1>8. Present \subseteq Messages BY DEF Present
  <1>9. Fine(q, Present, Showing, told) BY <1>6, <1>7, <1>8, RaisedFine
  <1> QED BY <1>4, <1>9 DEF u
LEMMA FailureFine ==
  ASSUME ProjectionInv, PointerInv, NEW v \in Versions, DrainFails(v)
  PROVE  AllFine'
  <1>1. PICK w \in NewBuild(v) :
          LET r == Scheduled(w, v).run
              p == run[r]
          IN /\ r # NoRun /\ p.status # "absent" /\ ~p.waits
             /\ \E m \in Picks(p), waits \in BOOLEAN :
                  /\ waits \/ (UsesQueue(p) /\ m # NoMessage)
                  /\ run' = [run EXCEPT ![r].waits = waits,
                       ![r].queue = [n \in Messages |-> IF n \in Attempted(p, m) THEN "later" ELSE @[n]]]
    BY DEF DrainFails
  <1> DEFINE r == Scheduled(w, v).run
  <1>2. PICK m \in Picks(run[r]), waits \in BOOLEAN :
          run' = [run EXCEPT ![r].waits = waits,
                    ![r].queue = [n \in Messages |-> IF n \in Attempted(run[r], m) THEN "later" ELSE @[n]]]
    BY <1>1
  <1>3. r \in Runs BY <1>1, ScheduledFits
  <1>4. UNCHANGED <<mail, gap, state>> BY DEF DrainFails
  <1> DEFINE ids == Attempted(run[r], m)
  <1>a. run' = [run EXCEPT ![r].waits = waits, ![r].queue = [n \in Messages |-> IF n \in ids THEN "later" ELSE @[n]]] BY <1>2
  <1> HIDE DEF r
  <1>5. ids \subseteq Present BY <1>2, <1>3, RunsFine, AttemptedHere
  <1> HIDE DEF ids
  <1>6. Referenced' = Referenced BY <1>4 DEF Referenced
  <1> DEFINE q == [[run[r] EXCEPT !.waits = waits] EXCEPT !.queue = [n \in Messages |-> IF n \in ids THEN "later" ELSE @[n]]]
  <1>7. IsRuns(run') /\ run'[r] = q /\ \A s \in Runs \ {r} : run'[s] = run[s]
    <2>1. IsRuns(run) /\ DOMAIN run = Runs BY <1>3, RunsFine DEF ProjectionInv
    <2> DEFINE mid == [run EXCEPT ![r].waits = waits]
    <2>2. mid[r] = [run[r] EXCEPT !.waits = waits] /\ DOMAIN mid = Runs /\ \A s \in Runs \ {r} : mid[s] = run[s] BY <1>3, <2>1
    <2>3. run' = [mid EXCEPT ![r].queue = [n \in Messages |-> IF n \in ids THEN "later" ELSE @[n]]] BY <1>a
    <2> HIDE DEF mid
    <2>4. DOMAIN run' = Runs /\ (\A s \in Runs \ {r} : run'[s] = mid[s]) BY <2>2, <2>3
    <2>5. run'[r] = [mid[r] EXCEPT !.queue = [n \in Messages |-> IF n \in ids THEN "later" ELSE @[n]]] BY <1>3, <2>2, <2>3
    <2>6. IsRuns(run') BY <2>2, <2>3, <2>4 DEF IsRuns
    <2> QED BY <2>2, <2>4, <2>5, <2>6
  <1> DEFINE told == r \in Referenced
  <1>8. Fine(q, Present, Showing, told)
    <2>1. Fine(run[r], Present, Showing, told) BY <1>3, RunsFine
    <2>2. told \in BOOLEAN OBVIOUS
    <2> HIDE DEF told
    <2> QED BY <1>5, <2>1, <2>2, FailedFine
  <1> HIDE DEF q
  <1>9. ASSUME NEW s \in Runs PROVE Fine(run'[s], Present, Showing, s \in Referenced')
    <2>1. Fine(run[s], Present, Showing, s \in Referenced) BY RunsFine
    <2>2. CASE s = r BY <1>6, <1>7, <1>8, <2>2
    <2>3. CASE s # r
      <3>1. run'[s] = run[s] BY <1>7, <2>3
      <3> QED BY <1>6, <2>1, <3>1
    <2> QED BY <2>2, <2>3
  <1> QED BY <1>4, <1>7, <1>9, FineRuns
LEMMA DueFine ==
  ASSUME ProjectionInv, NEW r \in Runs, RunDue(r) \/ \E m \in Messages : WorkDue(r, m)
  PROVE  AllFine'
  <1> DEFINE p == run[r]
  <1>1. UNCHANGED <<mail, gap, state>> BY DEF RunDue, WorkDue
  <1>2. Referenced' = Referenced BY <1>1 DEF Referenced
  <1>3. p \in RunRecord /\ Good(p, Present) /\ Present \subseteq Messages /\ IsRuns(run) /\ Fine(p, Present, Showing, r \in Referenced)
    BY RunsFine
  <1>4. IsRuns(run') /\ (\A s \in Runs \ {r} : run'[s] = run[s]) /\ Good(run'[r], Present) /\ Raised(p, run'[r]) /\ run'[r].caughtUp = p.caughtUp
    <2>1. CASE RunDue(r)
      <3>1. IsRuns(run') /\ run'[r] = [p EXCEPT !.waits = FALSE] /\ \A s \in Runs \ {r} : run'[s] = run[s]
        BY <1>3, <2>1 DEF RunDue, IsRuns
      <3> HIDE DEF p
      <3> QED BY <1>3, <3>1 DEF Good, RunRecord, Raised
    <2>2. ASSUME NEW m \in Messages, WorkDue(r, m)
          PROVE  IsRuns(run') /\ (\A s \in Runs \ {r} : run'[s] = run[s]) /\ Good(run'[r], Present) /\ Raised(p, run'[r]) /\ run'[r].caughtUp = p.caughtUp
      <3>1. IsRuns(run') /\ run'[r] = [p EXCEPT !.queue[m] = "ready"] /\ \A s \in Runs \ {r} : run'[s] = run[s]
        BY <1>3, <2>2 DEF WorkDue, IsRuns
      <3>2. p.queue[m] = "later" BY <2>2 DEF WorkDue
      <3> HIDE DEF p
      <3> DEFINE q == [p EXCEPT !.queue[m] = "ready"]
      <3>3. /\ q \in RunRecord /\ q.asg = p.asg /\ q.subjects = p.subjects /\ q.status = p.status /\ q.stage = p.stage /\ q.undone = p.undone
            /\ q.caughtUp = p.caughtUp /\ \A n \in Messages : q.queue[n] = IF n = m THEN "ready" ELSE p.queue[n]
        BY <1>3 DEF RunRecord
      <3> HIDE DEF q
      <3>4. Good(q, Present) BY <1>3, <3>2, <3>3 DEF Good
      <3>5. Raised(p, q) BY <3>2, <3>3 DEF Raised
      <3> QED BY <3>1, <3>3, <3>4, <3>5 DEF q
    <2> QED BY <2>1, <2>2
  <1>5. Fine(run'[r], Present, Showing, r \in Referenced)
    <2> HIDE DEF p
    <2> QED BY <1>3, <1>4, RaisedFine
  <1>6. ASSUME NEW s \in Runs PROVE Fine(run'[s], Present, Showing, s \in Referenced')
    <2>1. Fine(run[s], Present, Showing, s \in Referenced) BY RunsFine
    <2>2. CASE s = r BY <1>2, <1>5, <2>2
    <2>3. CASE s # r
      <3>1. run'[s] = run[s] BY <1>4, <2>3
      <3> QED BY <1>2, <2>1, <3>1
    <2> QED BY <2>2, <2>3
  <1> QED BY <1>1, <1>4, <1>6, FineRuns

LEMMA RebuildFine ==
  ASSUME ProjectionInv, PointerInv, NEW v \in Versions, StartRebuild(v)
  PROVE  AllFine'
  <1> DEFINE old == state.building
  <1> DEFINE left == IF old = NoRun THEN run
                     ELSE [run EXCEPT ![old] = Ended(@, IF @.status = "ready" THEN "archived" ELSE "failed")]
  <1>1. PICK r \in Runs : run[r].status = "absent" /\ run' = [left EXCEPT ![r] = NewRun(v, FALSE)] /\ state' = [state EXCEPT !.building = r]
    BY DEF StartRebuild
  <1>2. UNCHANGED <<mail, gap>> /\ v \in Nat BY ThreadAssumption DEF StartRebuild
  <1>3. old \in Runs \cup {NoRun} BY DEF PointerInv, StateTypeOK
  <1>4. state'.active = state.active /\ state'.previous = state.previous /\ state'.building = r
    BY <1>1 DEF PointerInv, StateTypeOK
  <1>5. IsRuns(run) /\ DOMAIN run = Runs /\ Present \subseteq Messages BY DEF ProjectionInv, IsRuns, Present
  <1>6. IsRuns(left) /\ DOMAIN left = Runs /\ (\A s \in Runs : s # old => left[s] = run[s])
        /\ (old # NoRun => \E end \in Terminal : left[old] = Ended(run[old], end))
    <2>1. {"archived", "failed"} \subseteq Terminal BY DEF Terminal
    <2>2. CASE old = NoRun BY <1>5, <2>2
    <2>3. CASE old # NoRun
      <3> DEFINE end == IF run[old].status = "ready" THEN "archived" ELSE "failed"
      <3>1. left = [run EXCEPT ![old] = Ended(@, end)] /\ end \in Terminal BY <2>1, <2>3
      <3> HIDE DEF end, left
      <3> QED BY <1>3, <1>5, <2>3, <3>1 DEF IsRuns
    <2> QED BY <2>2, <2>3
  <1> HIDE DEF left
  <1>7. IsRuns(run') /\ run'[r] = NewRun(v, FALSE) /\ (\A s \in Runs \ {r} : run'[s] = left[s]) BY <1>1, <1>6 DEF IsRuns
  <1>8. ASSUME NEW s \in Runs PROVE Fine(run'[s], Present, Showing, s \in Referenced')
    <2> DEFINE told == s \in Referenced'
    <2> DEFINE more == s \in Referenced
    <2>1. CASE s = r
      <3>1. run'[s] = NewRun(v, FALSE) BY <1>7, <2>1
      <3> QED BY <1>2, <1>5, <3>1, NewFine
    <2>2. CASE s # r /\ s = old
      <3>1. old # NoRun BY <2>2, ThreadAssumption
      <3>2. PICK end \in Terminal : run'[s] = Ended(run[s], end) BY <1>6, <1>7, <2>2, <3>1
      <3> QED BY <3>2, RunsFine, EndedFine
    <2>3. CASE s # r /\ s # old
      <3>1. run'[s] = run[s] BY <1>6, <1>7, <2>3
      <3>2. told => more BY <1>4, <2>3 DEF Referenced
      <3>3. Fine(run[s], Present, Showing, more) BY RunsFine
      <3>4. told \in BOOLEAN /\ more \in BOOLEAN OBVIOUS
      <3> HIDE DEF told, more
      <3>5. Fine(run'[s], Present, Showing, told) BY <3>1, <3>2, <3>3, <3>4, FineWhenToldLess
      <3> QED BY <3>5 DEF told
    <2> QED BY <2>1, <2>2, <2>3
  <1> QED BY <1>2, <1>7, <1>8, FineRuns

(* A ready run becomes the active one, and the active one its standby.     *)
LEMMA StatusFine ==
  ASSUME NEW p, NEW told, NEW more \in BOOLEAN, Fine(p, Present, Showing, more), told = TRUE, p.caughtUp \/ more = TRUE,
         p.status \in Live, NEW q, Good(q, Present), q.status \in Live \ {"ready"}, q.undone = p.undone, q.caughtUp = p.caughtUp,
         q.stage = p.stage,
         q.asg = p.asg, q.queue = p.queue, q.subjects = p.subjects
  PROVE  Fine(q, Present, Showing, told)
  <1>1. Followed(q, told) => Followed(p, more) BY DEF Followed
  <1>2. ASSUME Followed(q, told) PROVE Knows(q, Present, Showing)
    <2>1. Knows(p, Present, Showing) BY <1>1, <1>2 DEF Fine
    <2>2. Regrouped(q) BY <2>1, SameRegrouped DEF Knows
    <2>3. Current(q, Present, Showing) BY <2>1 DEF Knows, Current
    <2>4. Covered(q, Present) BY <2>1 DEF Knows, Covered
    <2> QED BY <2>2, <2>3, <2>4 DEF Knows
  <1>3. HasWork(p) <=> HasWork(q) BY DEF HasWork
  <1>4. Settled(q, told) BY <1>3 DEF Fine, Settled
  <1> QED BY <1>2, <1>4 DEF Fine, Finished, Live
LEMMA StatusIs ==
  ASSUME NEW p, Good(p, Present), NEW status \in Live
  PROVE  LET q == [p EXCEPT !.status = status]
         IN /\ Good(q, Present) /\ q.status = status /\ q.undone = p.undone /\ q.caughtUp = p.caughtUp
            /\ q.stage = p.stage /\ q.asg = p.asg /\ q.queue = p.queue /\ q.subjects = p.subjects
  BY DEF Good, RunRecord, Live, Statuses
LEMMA SwitchFine ==
  ASSUME PointerInv, NEW rs, NEW b, RunsFit(rs, b), RunsAreFine(rs, b), NEW r \in Runs, rs[r].status = "ready", rs[r].caughtUp,
         run' = Switched(rs, r), state'.active = r, state'.previous = state.active, state'.building = NoRun, UNCHANGED <<mail, gap>>
  PROVE  AllFine'
  <1>1. Referenced' = {r, state.active} \ {NoRun} BY DEF Referenced
  <1>2. r # state.active /\ r # state.previous BY ThreadAssumption DEF RunsFit
  <1>3. state.active \in Runs => rs[state.active].status = "active" BY ThreadAssumption DEF RunsFit
  <1>4. state.active \in Runs \cup {NoRun} BY DEF PointerInv, StateTypeOK
  <1>5. IsRuns(run')
    <2> DEFINE F(s) == CASE s = r -> [rs[s] EXCEPT !.status = "active", !.from = state.active, !.initial = FALSE]
                         [] s = state.active -> [rs[s] EXCEPT !.status = "standby"]
                         [] s = state.previous /\ s # state.active -> Ended(rs[s], "archived")
                         [] OTHER -> rs[s]
    <2>1. run' = [s \in Runs |-> F(s)] BY DEF Switched
    <2> HIDE DEF F
    <2> QED BY <2>1 DEF IsRuns
  <1>6. ASSUME NEW s \in Runs PROVE Fine(run'[s], Present, Showing, s \in Referenced')
    <2> DEFINE told == s \in Referenced'
    <2> DEFINE more == s \in {state.active, state.previous, b} \ {NoRun}
    <2> DEFINE p == rs[s]
    <2>1. Fine(p, Present, Showing, more) /\ Good(p, Present) /\ p \in RunRecord /\ told \in BOOLEAN /\ more \in BOOLEAN
      BY DEF RunsAreFine, Fine, Good
    <2>2. CASE s = r
      <3> DEFINE q == [p EXCEPT !.status = "active", !.from = state.active, !.initial = FALSE]
      <3>1. run'[s] = q BY <1>2, <2>2 DEF Switched
      <3>2. told = TRUE BY <1>1, <2>2, ThreadAssumption
      <3>3. p.caughtUp /\ p.status \in Live BY <2>2 DEF Live
      <3>4. "active" \in Live /\ "active" \in Live \ {"ready"} BY DEF Live
      <3>a. q = [p EXCEPT !.status = "active", !.from = state.active, !.initial = FALSE] OBVIOUS
      <3> HIDE DEF p, q, told, more
      <3>5. /\ Good(q, Present) /\ q.status = "active" /\ q.undone = p.undone /\ q.caughtUp = p.caughtUp
            /\ q.stage = p.stage /\ q.asg = p.asg /\ q.queue = p.queue /\ q.subjects = p.subjects
        BY <1>4, <2>1, <3>a DEF Good, RunRecord, Statuses
      <3>6. Fine(q, Present, Showing, told) BY <2>1, <3>2, <3>3, <3>4, <3>5, StatusFine
      <3> QED BY <3>1, <3>6 DEF told
    <2>3. CASE s = state.active
      <3> DEFINE q == [p EXCEPT !.status = "standby"]
      <3>1. run'[s] = q BY <1>2, <2>3 DEF Switched
      <3>2. told = TRUE /\ more = TRUE BY <1>1, <2>3, ThreadAssumption
      <3>3. p.status \in Live BY <1>3, <2>3 DEF Live
      <3>4. "standby" \in Live /\ "standby" \in Live \ {"ready"} BY DEF Live
      <3> HIDE DEF p, told, more
      <3>5. /\ Good(q, Present) /\ q.status = "standby" /\ q.undone = p.undone /\ q.caughtUp = p.caughtUp
            /\ q.stage = p.stage /\ q.asg = p.asg /\ q.queue = p.queue /\ q.subjects = p.subjects
        BY <2>1, <3>4, StatusIs
      <3> HIDE DEF q
      <3>6. Fine(q, Present, Showing, told) BY <2>1, <3>2, <3>3, <3>4, <3>5, StatusFine
      <3> QED BY <3>1, <3>6 DEF told
    <2>4. CASE s # r /\ s # state.active /\ s = state.previous
      <3>1. run'[s] = Ended(p, "archived") BY <2>4 DEF Switched
      <3>2. "archived" \in Terminal BY DEF Terminal
      <3> QED BY <2>1, <3>1, <3>2, EndedFine
    <2>5. CASE s # r /\ s # state.active /\ s # state.previous
      <3>1. run'[s] = p BY <2>5 DEF Switched
      <3>2. ~told BY <1>1, <2>5
      <3> HIDE DEF p, told, more
      <3>3. Fine(p, Present, Showing, told) BY <2>1, <3>2, FineWhenToldLess
      <3> QED BY <3>1, <3>3 DEF told
    <2> QED BY <2>2, <2>3, <2>4, <2>5
  <1> QED BY <1>5, <1>6, FineRuns
LEMMA ActivationFine ==
  ASSUME ProjectionInv, PointerInv, NEW v \in Versions, NEW r \in Runs, ActivateRun(v, r)
  PROVE  AllFine'
  <1>1. /\ run[r].status = "ready" /\ run[r].caughtUp /\ run' = Switched(run, r) /\ state' = SwitchTo(r)
        /\ UNCHANGED <<mail, gap>>
    BY DEF ActivateRun, Activatable, UpToDate
  <1>2. state'.active = r /\ state'.previous = state.active /\ state'.building = NoRun
    BY <1>1 DEF PointerInv, StateTypeOK, SwitchTo
  <1>3. RunsFit(run, state.building) BY DEF PointerInv, StateTypeOK, RunsOK, PointersFit, RunsFit, RunsLike
  <1>4. RunsAreFine(run, state.building) BY RunsFine DEF RunsAreFine, Referenced
  <1> QED BY <1>1, <1>2, <1>3, <1>4, SwitchFine
LEMMA FirstFine ==
  ASSUME ProjectionInv, PointerInv, NEW v \in Versions, DrainActivates(v)
  PROVE  AllFine'
  <1>a. PICK w \in NewBuild(v), r \in Runs : \E left \in Outcomes(w, Scheduled(w, v).run) :
           /\ UpToDate(v, left.run[r]) /\ run' = Switched(left.run, r)
           /\ state'.active = r /\ state'.previous = state.active /\ state'.building = NoRun
    BY FirstActivates
  <1>1. PICK left \in Outcomes(w, Scheduled(w, v).run) :
           /\ UpToDate(v, left.run[r]) /\ run' = Switched(left.run, r)
           /\ state'.active = r /\ state'.previous = state.active /\ state'.building = NoRun
    BY <1>a
  <1>2. v \in Nat /\ UNCHANGED <<mail, gap>> BY ThreadAssumption DEF DrainActivates
  <1>3. RunsFit(left.run, w.building) BY OutcomeFits
  <1>4. RunsAreFine(left.run, w.building) BY <1>2, OutcomeFine
  <1>5. left.run[r].status = "ready" /\ left.run[r].caughtUp BY <1>1 DEF UpToDate
  <1> QED BY <1>1, <1>2, <1>3, <1>4, <1>5, SwitchFine
LEMMA RollbackFine ==
  ASSUME ProjectionInv, PointerInv, NEW v \in Versions, RollbackActivation(v)
  PROVE  AllFine'
  <1> DEFINE back == run[state.active].from
  <1>1. UNCHANGED <<mail, gap>> /\ state.active \in Runs BY DEF RollbackActivation, PointerInv, StateTypeOK
  <1>2. back \in Runs \cup {NoRun} BY <1>1 DEF PointerInv, RunsOK
  <1>3. back # NoRun => run[back].status = "standby" /\ run[back].caughtUp BY DEF RollbackActivation, Returnable
  <1>4. run[state.active].status = "active" BY DEF RollbackActivation, PointerInv, PointersFit
  <1>5. /\ IsRuns(run')
        /\ \A s \in Runs : run'[s] = IF s = state.active THEN Ended(run[s], "rolled_back")
                                     ELSE IF s = back THEN [run[s] EXCEPT !.status = "active"] ELSE run[s]
        /\ state' = [state EXCEPT !.active = back, !.previous = state.active, !.building = NoRun, !.paused = TRUE]
    <2>1. \A s \in Runs : s = back => s # state.active BY <1>3, <1>4, ThreadAssumption
    <2> DEFINE F(s) == CASE s = state.active -> Ended(run[s], "rolled_back")
                         [] s = back -> [run[s] EXCEPT !.status = "active"]
                         [] OTHER -> run[s]
    <2>2. run' = [s \in Runs |-> F(s)] /\ state' = [state EXCEPT !.active = back, !.previous = state.active, !.building = NoRun, !.paused = TRUE]
      BY DEF RollbackActivation
    <2>3. \A s \in Runs : F(s) = IF s = state.active THEN Ended(run[s], "rolled_back")
                                 ELSE IF s = back THEN [run[s] EXCEPT !.status = "active"] ELSE run[s]
      BY <2>1
    <2> HIDE DEF F, back
    <2>4. IsRuns(run') /\ \A s \in Runs : run'[s] = F(s) BY <2>2 DEF IsRuns
    <2> QED BY <2>2, <2>3, <2>4
  <1> HIDE DEF back
  <1>6. Referenced' = {back, state.active} \ {NoRun}
    <2>1. state'.active = back /\ state'.previous = state.active /\ state'.building = NoRun
      BY <1>5 DEF PointerInv, StateTypeOK
    <2> QED BY <2>1 DEF Referenced
  <1>7. ASSUME NEW s \in Runs PROVE Fine(run'[s], Present, Showing, s \in Referenced')
    <2> DEFINE told == s \in Referenced'
    <2> DEFINE more == s \in Referenced
    <2> DEFINE p == run[s]
    <2>1. Fine(p, Present, Showing, more) /\ Good(p, Present) /\ p \in RunRecord /\ told \in BOOLEAN /\ more \in BOOLEAN
      BY RunsFine
    <2>2. CASE s = state.active
      <3>1. run'[s] = Ended(p, "rolled_back") BY <1>5, <2>2
      <3>2. "rolled_back" \in Terminal BY DEF Terminal
      <3> QED BY <2>1, <3>1, <3>2, EndedFine
    <2>3. CASE s # state.active /\ s = back
      <3>1. run'[s] = [p EXCEPT !.status = "active"] BY <1>5, <2>3
      <3>2. told = TRUE BY <1>6, <2>3, ThreadAssumption
      <3>3. p.caughtUp /\ p.status \in Live BY <1>3, <2>3, ThreadAssumption DEF Live
      <3> DEFINE q == [p EXCEPT !.status = "active"]
      <3>4. "active" \in Live /\ "active" \in Live \ {"ready"} BY DEF Live
      <3> HIDE DEF p, told, more
      <3>5. /\ Good(q, Present) /\ q.status = "active" /\ q.undone = p.undone /\ q.caughtUp = p.caughtUp
            /\ q.stage = p.stage /\ q.asg = p.asg /\ q.queue = p.queue /\ q.subjects = p.subjects
        BY <2>1, <3>4, StatusIs
      <3> HIDE DEF q
      <3>6. Fine(q, Present, Showing, told) BY <2>1, <3>2, <3>3, <3>4, <3>5, StatusFine
      <3> QED BY <3>1, <3>6 DEF q, told
    <2>4. CASE s # state.active /\ s # back
      <3>1. run'[s] = p BY <1>5, <2>4
      <3>2. ~told BY <1>6, <2>4
      <3> HIDE DEF p, told, more
      <3>3. Fine(p, Present, Showing, told) BY <2>1, <3>2, FineWhenToldLess
      <3> QED BY <3>1, <3>3 DEF told
    <2> QED BY <2>2, <2>3, <2>4
  <1> QED BY <1>1, <1>5, <1>7, FineRuns

(* An operator takes back a change: the run no longer shows the mail.      *)
LEMMA UndoFine ==
  ASSUME ProjectionInv, PointerInv, RollbackIncremental
  PROVE  AllFine'
  <1> DEFINE r == undo.run
  <1> DEFINE p == run[r]
  <1> DEFINE asg == [m \in Messages |-> IF m \in DOMAIN undo.before THEN undo.before[m] ELSE p.asg[m]]
  <1> DEFINE q == [p EXCEPT !.asg = asg, !.undone = TRUE]
  <1>1. UNCHANGED <<mail, gap>> /\ r \in Runs /\ r = state.active /\ DOMAIN undo.before \subseteq Assigned(p)
    BY DEF RollbackIncremental, PointerInv, StateTypeOK
  <1>2. /\ p \in RunRecord /\ Good(p, Present) /\ IsRuns(run) /\ DOMAIN run = Runs
        /\ Fine(p, Present, Showing, r \in Referenced)
    BY <1>1, RunsFine DEF IsRuns
  <1>3. run' = [run EXCEPT ![r] = q]
    <2>1. run' = [run EXCEPT ![r] = [p EXCEPT !.asg = [m \in Messages |-> IF m \in DOMAIN undo.before THEN undo.before[m] ELSE @[m]], !.undone = TRUE]]
      BY DEF RollbackIncremental
    <2> QED BY <2>1
  <1>4. p.status = "active" BY <1>1, ThreadAssumption DEF PointerInv, PointersFit
  <1>5. state' = [state EXCEPT !.paused = TRUE] BY DEF RollbackIncremental
  <1>6. Referenced' = Referenced BY <1>5 DEF Referenced, PointerInv, StateTypeOK
  <1>7. asg \in [Messages -> Row] /\ \A m \in Messages : asg[m] \in Rows(m) /\ (m \notin Present => asg[m] = Unassigned)
    <2>1. \A m \in DOMAIN undo.before : m \in Present /\ undo.before[m] \in Rows(m)
      BY <1>1, <1>2, AssignedHere DEF ProjectionInv, UndoTypes
    <2>2. \A m \in Messages : p.asg[m] \in Rows(m) /\ (m \notin Present => p.asg[m] = Unassigned) BY <1>2 DEF Good
    <2>3. \A m \in Messages : asg[m] \in Rows(m) /\ (m \notin Present => asg[m] = Unassigned)
      <3> HIDE DEF p
      <3> QED BY <2>1, <2>2
    <2> HIDE DEF asg, p
    <2>4. \A m \in Messages : asg[m] \in Row BY <2>3, RowKinds
    <2>5. asg = [m \in Messages |-> asg[m]] BY DEF asg
    <2> QED BY <2>3, <2>4, <2>5
  <1> HIDE DEF asg, p, r
  <1>8. q \in RunRecord /\ q.asg = asg /\ q.queue = p.queue /\ q.subjects = p.subjects /\ q.status = "active" /\ q.stage = p.stage /\ q.undone = TRUE /\ q.caughtUp = p.caughtUp
    BY <1>2, <1>4, <1>7 DEF RunRecord
  <1>9. IsRuns(run') /\ run'[r] = q /\ \A s \in Runs \ {r} : run'[s] = run[s] BY <1>1, <1>2, <1>3 DEF IsRuns
  <1> HIDE DEF q
  <1>10. Good(q, Present) BY <1>2, <1>7, <1>8 DEF Good
  <1>11. Fine(q, Present, Showing, r \in Referenced)
    <2>1. HasWork(p) <=> HasWork(q) BY <1>8 DEF HasWork
    <2>2. Settled(q, r \in Referenced) BY <1>2, <1>4, <1>8, <2>1 DEF Fine, Settled
    <2> QED BY <1>2, <1>4, <1>8, <1>10, <2>2 DEF Fine, Followed, Finished, Live
  <1>12. ASSUME NEW s \in Runs PROVE Fine(run'[s], Present, Showing, s \in Referenced')
    <2>1. Fine(run[s], Present, Showing, s \in Referenced) BY RunsFine
    <2>2. CASE s = r BY <1>6, <1>9, <1>11, <2>2
    <2>3. CASE s # r
      <3>1. run'[s] = run[s] BY <1>9, <2>3
      <3> QED BY <1>6, <2>1, <3>1
    <2> QED BY <2>2, <2>3
  <1> QED BY <1>1, <1>9, <1>12, FineRuns
LEMMA RetireFine ==
  ASSUME ProjectionInv, PointerInv, RetireStandby
  PROVE  AllFine'
  <1> DEFINE r == state.previous
  <1>1. UNCHANGED <<mail, gap>> /\ r \in Runs BY DEF RetireStandby, PointerInv, StateTypeOK
  <1>2. run' = [run EXCEPT ![r] = Ended(@, "archived")] /\ state' = [state EXCEPT !.previous = NoRun] BY DEF RetireStandby
  <1>3. IsRuns(run) /\ DOMAIN run = Runs BY <1>1, RunsFine DEF IsRuns
  <1>4. IsRuns(run') /\ run'[r] = Ended(run[r], "archived") /\ \A s \in Runs \ {r} : run'[s] = run[s] BY <1>1, <1>2, <1>3 DEF IsRuns
  <1>5. \A s \in Runs : s \in Referenced' => s \in Referenced BY <1>2 DEF Referenced, PointerInv, StateTypeOK
  <1> HIDE DEF r
  <1>6. ASSUME NEW s \in Runs PROVE Fine(run'[s], Present, Showing, s \in Referenced')
    <2> DEFINE told == s \in Referenced'
    <2> DEFINE more == s \in Referenced
    <2>1. Fine(run[s], Present, Showing, more) /\ run[s] \in RunRecord /\ told \in BOOLEAN /\ more \in BOOLEAN BY RunsFine
    <2>2. CASE s = r
      <3>1. "archived" \in Terminal BY DEF Terminal
      <3>2. run'[s] = Ended(run[s], "archived") BY <1>4, <2>2
      <3> QED BY <2>1, <3>1, <3>2, EndedFine
    <2>3. CASE s # r
      <3>1. run'[s] = run[s] /\ (told => more) BY <1>4, <1>5, <2>3
      <3> HIDE DEF told, more
      <3>2. Fine(run'[s], Present, Showing, told) BY <2>1, <3>1, FineWhenToldLess
      <3> QED BY <3>2 DEF told
    <2> QED BY <2>2, <2>3
  <1> QED BY <1>1, <1>4, <1>6, FineRuns
LEMMA PruneFine ==
  ASSUME ProjectionInv, PointerInv, NEW r \in Runs, PruneRun(r)
  PROVE  AllFine'
  <1>1. UNCHANGED <<mail, gap, state>> BY DEF PruneRun
  <1>2. Referenced' = Referenced BY <1>1 DEF Referenced
  <1>3. IsRuns(run') /\ \A s \in Runs : run'[s] = IF s = r THEN NoSuchRun ELSE IF run[s].from = r THEN [run[s] EXCEPT !.from = s] ELSE run[s]
    <2> DEFINE F(s) == IF s = r THEN NoSuchRun ELSE IF run[s].from = r THEN [run[s] EXCEPT !.from = s] ELSE run[s]
    <2>1. run' = [s \in Runs |-> F(s)] BY DEF PruneRun
    <2>2. \A s \in Runs : F(s) = IF s = r THEN NoSuchRun ELSE IF run[s].from = r THEN [run[s] EXCEPT !.from = s] ELSE run[s] OBVIOUS
    <2> HIDE DEF F
    <2>3. IsRuns(run') /\ \A s \in Runs : run'[s] = F(s) BY <2>1 DEF IsRuns
    <2> QED BY <2>2, <2>3
  <1>4. ASSUME NEW s \in Runs PROVE Fine(run'[s], Present, Showing, s \in Referenced')
    <2> DEFINE p == run[s]
    <2> DEFINE told == s \in Referenced
    <2>1. Fine(p, Present, Showing, told) /\ Good(p, Present) /\ p \in RunRecord /\ Present \subseteq Messages BY RunsFine
    <2>2. CASE s = r
      <3>1. run'[s] = NoSuchRun BY <1>3, <2>2
      <3> QED BY <3>1, EmptyFine
    <2>3. CASE s # r /\ run[s].from = r
      <3> DEFINE q == [p EXCEPT !.from = s]
      <3>1. run'[s] = q BY <1>3, <2>3
      <3> HIDE DEF p
      <3>2. q \in RunRecord /\ q.caughtUp = p.caughtUp /\ q.queue = p.queue /\ Raised(p, q) BY <2>1 DEF RunRecord, Raised
      <3> HIDE DEF q, told
      <3>3. Good(q, Present) BY <2>1, <3>2 DEF Good, Raised
      <3>4. Fine(q, Present, Showing, told) BY <2>1, <3>2, <3>3, RaisedFine
      <3> QED BY <1>2, <3>1, <3>4 DEF told
    <2>4. CASE s # r /\ run[s].from # r
      <3>1. run'[s] = run[s] BY <1>3, <2>4
      <3> QED BY <1>2, <2>1, <3>1
    <2> QED BY <2>2, <2>3, <2>4
  <1> QED BY <1>1, <1>3, <1>4, FineRuns

LEMMA ProjectionSteps == ASSUME ProjectionInv, PointerInv, Next PROVE ProjectionInv'
  <1>1. MailTypes' BY MailTypesKept DEF ProjectionInv
  <1>2. UndoTypes
    BY DEF ProjectionInv
  <1>3. ASSUME UNCHANGED undo \/ undo' = NoUndo PROVE UndoTypes'
    <2>1. CASE UNCHANGED undo BY <1>2, <2>1 DEF UndoTypes
    <2>2. CASE undo' = NoUndo BY <2>2 DEF NoUndo, UndoTypes
    <2> QED BY <1>3, <2>1, <2>2
  <1>4. ASSUME AllFine', UndoTypes' PROVE ProjectionInv' BY <1>1, <1>4 DEF AllFine, ProjectionInv
  <1>5. ASSUME NEW m \in Messages, NEW e \in Evidence, WriteMail(m, e) PROVE ProjectionInv'
    <2>1. AllFine' BY <1>5, WriteFine DEF AllFine
    <2> QED BY <1>3, <1>4, <1>5, <2>1 DEF WriteMail
  <1>6. ASSUME NEW m \in Messages, DeleteMail(m) PROVE ProjectionInv'
    <2>1. AllFine' BY <1>6, DeleteFine DEF AllFine
    <2> QED BY <1>3, <1>4, <1>6, <2>1 DEF DeleteMail
  <1>7. CASE BackfillBodyEvidence
    <2>1. AllFine' BY <1>7, BackfillFine DEF AllFine
    <2> QED BY <1>3, <1>4, <1>7, <2>1 DEF BackfillBodyEvidence
  <1>8. ASSUME NEW v \in Versions, Drain(v) PROVE ProjectionInv' BY <1>4, <1>8, DrainFine
  <1>9. ASSUME NEW v \in Versions, DrainFails(v) PROVE ProjectionInv'
    BY <1>3, <1>4, <1>9, FailureFine DEF DrainFails
  <1>10. ASSUME NEW v \in Versions, StartRebuild(v) PROVE ProjectionInv'
    BY <1>3, <1>4, <1>10, RebuildFine DEF StartRebuild
  <1>11. ASSUME NEW v \in Versions, RollbackActivation(v) PROVE ProjectionInv'
    BY <1>3, <1>4, <1>11, RollbackFine DEF RollbackActivation
  <1>12. ASSUME NEW r \in Runs, RunDue(r) \/ \E m \in Messages : WorkDue(r, m) PROVE ProjectionInv'
    BY <1>3, <1>4, <1>12, DueFine DEF RunDue, WorkDue
  <1>13. ASSUME NEW r \in Runs, CompareRuns(r) PROVE ProjectionInv'
    <2>1. UNCHANGED <<mail, gap, state, run, undo>> BY <1>13 DEF CompareRuns
    <2>2. Referenced' = Referenced BY <2>1 DEF Referenced
    <2>3. \A s \in Runs : RunOK(s)'
      <3>1. Present' = Present /\ Showing' = Showing BY <2>1, Quiet
      <3> QED BY <2>1, <2>2, <3>1 DEF ProjectionInv, RunOK
    <2> QED BY <1>1, <1>3, <2>1, <2>3 DEF ProjectionInv
  <1>14. ASSUME NEW r \in Runs, PruneRun(r) PROVE ProjectionInv'
    BY <1>3, <1>4, <1>14, PruneFine DEF PruneRun
  <1>15. ASSUME NEW v \in Versions, NEW r \in Runs, ActivateRun(v, r) PROVE ProjectionInv'
    BY <1>3, <1>4, <1>15, ActivationFine DEF ActivateRun
  <1>16. CASE RollbackIncremental BY <1>3, <1>4, <1>16, UndoFine DEF RollbackIncremental
  <1>17. CASE RetireStandby BY <1>3, <1>4, <1>17, RetireFine DEF RetireStandby
  <1>18. ASSUME NEW v \in Versions, DrainActivates(v) PROVE ProjectionInv'
    BY <1>3, <1>4, <1>18, FirstFine DEF DrainActivates
  <1> QED BY <1>5, <1>6, <1>7, <1>8, <1>9, <1>10, <1>11, <1>12, <1>13, <1>14, <1>15, <1>16, <1>17, <1>18 DEF Next

(* At every moment each referenced run is stored as the mail reads, but    *)
(* for what it has queued or misses.                                       *)
THEOREM ProjectionInvariant == Spec => []ProjectionInv
<1>1. Init => ProjectionInv
  <2> SUFFICES ASSUME Init PROVE ProjectionInv OBVIOUS
  <2>1. MailTypes BY DEF Init, MailTypes, Present
  <2>2. undo = NoUndo /\ run = [r \in Runs |-> NoSuchRun] BY DEF Init
  <2>3. UndoTypes BY <2>2 DEF NoUndo, UndoTypes
  <2>4. run \in [Runs -> RunRecord] /\ \A r \in Runs : run[r] = NoSuchRun
    <3> HIDE DEF NoSuchRun
    <3> QED BY <2>2, EmptyIs
  <2>5. \A r \in Runs : RunOK(r) BY <2>4, EmptyFine DEF RunOK
  <2> QED BY <2>1, <2>3, <2>4, <2>5 DEF ProjectionInv
<1>2. ProjectionInv /\ PointerInv /\ [Next]_vars => ProjectionInv'
  <2>1. ASSUME ProjectionInv, UNCHANGED vars PROVE ProjectionInv'
    <3>1. UNCHANGED <<mail, gap, state, run, undo>> BY <2>1 DEF vars
    <3>2. Referenced' = Referenced BY <3>1 DEF Referenced
    <3>3. Present' = Present /\ Showing' = Showing BY <3>1, Quiet
    <3>4. \A s \in Runs : RunOK(s)' BY <2>1, <3>1, <3>2, <3>3 DEF ProjectionInv, RunOK
    <3> QED BY <2>1, <3>1, <3>3, <3>4 DEF ProjectionInv, MailTypes, UndoTypes
  <2> QED BY <2>1, ProjectionSteps
<1> QED BY <1>1, <1>2, PointerInvariant, PTL DEF Spec

-------------------------------------------------------------------------------
(* What a run shows with nothing left to do.                               *)

LEMMA FaithfulRun ==
  ASSUME MailTypes, NEW p, Good(p, Present), Knows(p, Present, Showing), ~HasWork(p), Missing(p) = {}
  PROVE  Faithful(p)
  <1> DEFINE bucket == {m \in Present : Shown(m) \in {"s", "r"}}
  <1> DEFINE few == Cardinality(bucket) <= MaxBucket
  <1>1. Whole = Compute(Present, few) /\ few \in BOOLEAN BY DEF Whole
  <1>2. \A m \in Present : m \in Messages /\ Shown(m) \in Kinds /\ Showing[m] = Shown(m) BY ShownKinds
  <1>3. \A m \in Messages : p.queue[m] = "none" BY DEF HasWork
  <1>4. \A m \in Present : p.asg[m] # Unassigned /\ p.asg[m].from = Shown(m)
    BY <1>2, <1>3 DEF Missing, Assigned, Knows, Current
  <1>5. Bucket(p) = bucket
    <2>1. Unassigned.from = "absent" BY DEF Unassigned
    <2>2. \A m \in Messages : m \notin Present => p.asg[m] = Unassigned BY DEF Good
    <2> QED BY <1>2, <1>4, <2>1, <2>2 DEF Bucket, Groupable
  <1>6. Grouped(p) = {} \/ OneSubject(p)
    <2>1. p.subjects = {} BY DEF HasWork
    <2> QED BY <1>3, <2>1 DEF Knows, Regrouped, Grouped, Bucket
  <1>7. \A m \in Present : p.asg[m].weak => p.asg[m] = Linked(p.asg[m].conv, Shown(m)) /\ Shown(m) \in {"s", "r"}
    BY <1>2, <1>4, RowKinds DEF Good
  <1>8. \A m \in Present : ~p.asg[m].weak => p.asg[m] = Alone(m, Shown(m))
    BY <1>2, <1>4, RowKinds DEF Good
  <1> HIDE DEF few
  <1>9. ASSUME NEW m \in Present PROVE AsWhole(p.asg, m)
    <2>1. CASE Grouped(p) = {}
      <3>1. ~p.asg[m].weak
        <4>1. p.asg[m].weak => m \in Bucket(p) BY <1>2, <1>5, <1>7, <1>9
        <4> QED BY <2>1, <4>1 DEF Grouped
      <3>2. p.asg[m] = Alone(m, Shown(m)) BY <1>8, <3>1
      <3>3. CASE ~Groups(Present, few)
        <4>1. Whole[m] = Alone(m, Shown(m)) BY <1>1, <3>3, ComputeIs
        <4> QED BY <3>2, <4>1 DEF AsWhole
      <3>4. CASE Groups(Present, few)
        <4>1. PICK s \in Present : Whole[m] = IF Shown(m) \in {"s", "r"} THEN Linked(s, Shown(m)) ELSE Alone(m, Shown(m))
          BY <1>1, <3>4, ComputeIs
        <4>2. CASE Shown(m) \in {"s", "r"}
          <5>1. Whole[m].weak BY <4>1, <4>2 DEF Linked
          <5>2. p.asg[m] = [conv |-> m, from |-> Shown(m), weak |-> FALSE] BY <3>2, <4>2 DEF Alone
          <5> QED BY <5>1, <5>2 DEF AsWhole
        <4>3. CASE Shown(m) \notin {"s", "r"} BY <3>2, <4>1, <4>3 DEF AsWhole
        <4> QED BY <4>2, <4>3
      <3> QED BY <3>3, <3>4
    <2>2. CASE OneSubject(p)
      <3>1. few BY <1>5, <2>2 DEF OneSubject, few
      <3>2. PICK s \in Bucket(p), t \in Bucket(p) :
              /\ p.asg[s].from = "s" /\ p.asg[t].from = "r"
              /\ \A n \in Bucket(p) : p.asg[n].weak /\ p.asg[n].conv = s /\ (p.asg[n].from = "s" => n = s)
        BY <2>2 DEF OneSubject
      <3>3. s \in Present /\ t \in Present /\ Shown(s) = "s" /\ Shown(t) = "r" BY <1>4, <1>5, <3>2
      <3>4. Starts(Present) = {s}
        <4>1. \A n \in Starts(Present) : n = s BY <1>4, <1>5, <3>2 DEF Starts
        <4> QED BY <3>3, <4>1 DEF Starts
      <3>5. Groups(Present, few)
        <4>1. Cardinality(Starts(Present)) = 1 BY <3>4, FS_Singleton
        <4> QED BY <3>1, <3>3, <4>1 DEF Groups, Replies
      <3>6. Whole[m] = IF Shown(m) \in {"s", "r"} THEN Linked(s, Shown(m)) ELSE Alone(m, Shown(m))
        <4>1. PICK z \in Present :
                /\ Starts(Present) = {z}
                /\ \A n \in Present : Whole[n] = IF Shown(n) \in {"s", "r"} THEN Linked(z, Shown(n)) ELSE Alone(n, Shown(n))
          BY <1>1, <3>5, ComputeIs
        <4>2. z = s BY <3>4, <4>1
        <4> QED BY <4>1, <4>2
      <3>7. CASE Shown(m) \in {"s", "r"}
        <4>1. m \in Bucket(p) BY <1>5, <3>7
        <4>2. p.asg[m].weak /\ p.asg[m].conv = s BY <3>2, <4>1
        <4>3. p.asg[m] = Linked(s, Shown(m)) BY <1>7, <4>2
        <4> QED BY <3>6, <3>7, <4>3 DEF AsWhole
      <3>8. CASE Shown(m) \notin {"s", "r"}
        <4>1. p.asg[m] = Alone(m, Shown(m)) BY <1>7, <1>8, <3>8
        <4> QED BY <3>6, <3>8, <4>1 DEF AsWhole
      <3> QED BY <3>7, <3>8
    <2> QED BY <1>6, <2>1, <2>2
  <1>10. \A m \in Messages : m \notin Present => p.asg[m] = Unassigned BY DEF Good
  <1> QED BY <1>9, <1>10 DEF Faithful

(* A run that readers see or may go back to, with nothing left to do,      *)
(* groups the mailbox as threading all of it at once would                 *)
(* (processLiveRun and the evidence triggers).                             *)
THEOREM ProjectionFaithfulHolds == Spec => []ProjectionFaithful
<1>1. ProjectionInv => ProjectionFaithful
  <2> SUFFICES ASSUME ProjectionInv, NEW r \in Runs, run[r].status \in {"active", "standby", "ready"}, r \in Referenced,
                      ~HasWork(run[r]), ~run[r].undone, Missing(run[r]) = {}
               PROVE  Faithful(run[r])
    BY DEF ProjectionFaithful
  <2>1. Fine(run[r], Present, Showing, r \in Referenced) /\ Good(run[r], Present) /\ MailTypes BY RunsFine
  <2>2. Followed(run[r], r \in Referenced) BY DEF Followed, Live
  <2>3. Knows(run[r], Present, Showing) BY <2>1, <2>2 DEF Fine
  <2> QED BY <2>1, <2>3, FaithfulRun
<1> QED BY <1>1, ProjectionInvariant, PTL

LEMMA CurrentIsFaithful ==
  ASSUME MailTypes, NEW p, NEW told, Fine(p, Present, Showing, told), p.status \in Live, p.caughtUp, ~HasWork(p), ~p.undone
  PROVE  Faithful(p)
  <1>1. Good(p, Present) BY DEF Fine
  <1>2. Followed(p, told) BY DEF Followed
  <1>3. Knows(p, Present, Showing) BY <1>2 DEF Fine
  <1>4. Missing(p) = {} BY <1>3 DEF Knows, Covered, Missing, Assigned, HasWork, Present
  <1> QED BY <1>1, <1>3, <1>4, FaithfulRun
LEMMA SameFaithful == ASSUME NEW p, NEW q, q.asg = p.asg, Faithful(p) PROVE Faithful(q)
  BY DEF Faithful, AsWhole
SwitchStep == state'.active # state.active /\ state'.active # NoRun /\ ~run'[state'.active].undone => Faithful(run'[state'.active])
LEMMA SwitchesFaithful ==
  ASSUME MailTypes, NEW rs, NEW b, RunsFit(rs, b), NEW r \in Runs, NEW told, Fine(rs[r], Present, Showing, told),
         NEW v, UpToDate(v, rs[r]), run' = Switched(rs, r), state'.active = r
  PROVE  SwitchStep
  <1>a. r # state.active /\ r # state.previous BY ThreadAssumption DEF RunsFit, UpToDate
  <1>1. rs[r].status \in Live /\ rs[r].caughtUp /\ ~HasWork(rs[r]) BY DEF UpToDate, Live
  <1>2. run'[r] = [rs[r] EXCEPT !.status = "active", !.from = state.active, !.initial = FALSE] BY <1>a DEF Switched
  <1>3. rs[r] \in RunRecord BY DEF Fine, Good
  <1>4. run'[r].asg = rs[r].asg /\ run'[r].undone = rs[r].undone BY <1>2, <1>3 DEF RunRecord
  <1>5. ~rs[r].undone => Faithful(rs[r]) BY <1>1, CurrentIsFaithful
  <1> QED BY <1>4, <1>5, SameFaithful DEF SwitchStep
LEMMA SwitchSteps == ASSUME ProjectionInv, PointerInv, Next PROVE SwitchStep
  <1>1. ASSUME state'.active = state.active PROVE SwitchStep BY <1>1 DEF SwitchStep
  <1>2. ASSUME UNCHANGED state PROVE SwitchStep BY <1>1, <1>2
  <1>3. ASSUME NEW v \in Versions, Drain(v) PROVE SwitchStep
    <2>1. \E b, c : state' = [state EXCEPT !.building = b, !.cursor = c] BY <1>3 DEF Drain
    <2> QED BY <1>1, <2>1 DEF PointerInv, StateTypeOK
  <1>4. ASSUME NEW v \in Versions, StartRebuild(v) PROVE SwitchStep
    <2>1. \E r \in Runs : state' = [state EXCEPT !.building = r] BY <1>4 DEF StartRebuild
    <2> QED BY <1>1, <2>1 DEF PointerInv, StateTypeOK
  <1>5. ASSUME NEW v \in Versions, RollbackActivation(v) PROVE SwitchStep
    <2> DEFINE back == run[state.active].from
    <2>1. state.active \in Runs BY <1>5 DEF RollbackActivation, PointerInv, StateTypeOK
    <2>2. back \in Runs \cup {NoRun} BY <2>1 DEF PointerInv, RunsOK
    <2>3. back # NoRun => Returnable(v, back) BY <1>5 DEF RollbackActivation
    <2>4. /\ state' = [state EXCEPT !.active = back, !.previous = state.active, !.building = NoRun, !.paused = TRUE]
          /\ run' = [s \in Runs |-> CASE s = state.active -> Ended(run[s], "rolled_back")
                                      [] s = back -> [run[s] EXCEPT !.status = "active"]
                                      [] OTHER -> run[s]]
      BY <1>5 DEF RollbackActivation
    <2>5. run[state.active].status = "active" BY <2>1, ThreadAssumption DEF PointerInv, PointersFit
    <2> HIDE DEF back
    <2>6. state'.active = back BY <2>4 DEF PointerInv, StateTypeOK
    <2>7. ASSUME back # NoRun, ~run'[back].undone PROVE Faithful(run'[back])
      <3>1. back \in Runs /\ back # state.active /\ run[back].status \in Live /\ run[back].caughtUp /\ ~HasWork(run[back])
        BY <2>2, <2>3, <2>5, <2>7 DEF Returnable, Live
      <3>2. run'[back] = [run[back] EXCEPT !.status = "active"] BY <2>4, <3>1
      <3>3. Fine(run[back], Present, Showing, back \in Referenced) /\ run[back] \in RunRecord /\ MailTypes BY <3>1, RunsFine
      <3>4. run'[back].asg = run[back].asg /\ run'[back].undone = run[back].undone BY <3>2, <3>3 DEF RunRecord
      <3>5. Faithful(run[back]) BY <2>7, <3>1, <3>3, <3>4, CurrentIsFaithful
      <3> QED BY <3>4, <3>5, SameFaithful
    <2> QED BY <2>6, <2>7 DEF SwitchStep
  <1>6. ASSUME NEW v \in Versions, NEW r \in Runs, ActivateRun(v, r) PROVE SwitchStep
    <2>1. run' = Switched(run, r) /\ state' = SwitchTo(r) /\ UpToDate(v, run[r]) BY <1>6 DEF ActivateRun, Activatable
    <2>2. state'.active = r BY <2>1 DEF PointerInv, StateTypeOK, SwitchTo
    <2>3. RunsFit(run, state.building) BY DEF PointerInv, StateTypeOK, RunsOK, PointersFit, RunsFit, RunsLike
    <2> QED BY <2>1, <2>2, <2>3, RunsFine, SwitchesFaithful
  <1>9. ASSUME NEW v \in Versions, DrainActivates(v) PROVE SwitchStep
    <2>1. PICK w \in NewBuild(v), r \in Runs : \E left \in Outcomes(w, Scheduled(w, v).run) :
             UpToDate(v, left.run[r]) /\ run' = Switched(left.run, r) /\ state'.active = r
      BY <1>9, FirstActivates
    <2>2. PICK left \in Outcomes(w, Scheduled(w, v).run) :
             UpToDate(v, left.run[r]) /\ run' = Switched(left.run, r) /\ state'.active = r
      BY <2>1
    <2>3. v \in Nat /\ MailTypes BY ThreadAssumption DEF ProjectionInv
    <2>4. RunsAreFine(left.run, w.building) /\ RunsFit(left.run, w.building) BY <2>3, OutcomeFine, OutcomeFits
    <2> QED BY <2>2, <2>3, <2>4, SwitchesFaithful DEF RunsAreFine
  <1>7. CASE RollbackIncremental BY <1>1, <1>7 DEF RollbackIncremental, PointerInv, StateTypeOK
  <1>8. CASE RetireStandby BY <1>1, <1>8 DEF RetireStandby, PointerInv, StateTypeOK
  <1> QED BY <1>2, <1>3, <1>4, <1>5, <1>6, <1>7, <1>8, <1>9 DEF Next, WriteMail, DeleteMail, BackfillBodyEvidence, DrainFails, RunDue,
       CompareRuns, PruneRun, WorkDue

(* Whatever becomes what readers see, by activation or by going back,      *)
(* shows every message as it is now (activateRun, rollbackActivation).     *)
THEOREM SwitchIsCurrentHolds == Spec => SwitchIsCurrent
<1>1. ProjectionInv /\ PointerInv /\ [Next]_vars => [SwitchStep]_vars BY SwitchSteps
<1>2. Spec => [][SwitchStep]_vars BY <1>1, ProjectionInvariant, PointerInvariant, PTL DEF Spec
<1> QED BY <1>2 DEF SwitchIsCurrent, SwitchStep

-------------------------------------------------------------------------------
(* The worker's query finds what a pass would do.                          *)

(* A pass that changes one of these is not lost on its acknowledgement.    *)
Differs(p, q) ==
  \/ q.asg # p.asg
  \/ q.queue # p.queue
  \/ q.subjects # p.subjects
  \/ q.stage # p.stage
  \/ q.after # p.after
  \/ q.status # p.status
LEMMA AfterDiffers == ASSUME NEW p, NEW q, Good(q, Present), Differs(p, q) PROVE AfterPass(p, q) # p
  <1>1. q \in RunRecord BY DEF Good
  <1> DEFINE z == AfterPass(p, q)
  <1>2. /\ z.asg = q.asg /\ z.queue = q.queue /\ z.subjects = q.subjects /\ z.stage = q.stage /\ z.after = q.after
        /\ z.status = q.status
    BY <1>1 DEF AfterPass, RunRecord
  <1> HIDE DEF z
  <1>3. z # p BY <1>2 DEF Differs
  <1> QED BY <1>3 DEF z
LEMMA AfterNothing ==
  ASSUME NEW p, p \in RunRecord, ~p.waits, p.status \in Live => p.caughtUp \/ HasWork(p)
  PROVE  AfterPass(p, p) = p
  <1>1. (p.waits) = FALSE BY DEF RunRecord
  <1>2. (p.caughtUp \/ (p.status \in Live /\ ~HasWork(p))) = p.caughtUp BY DEF RunRecord
  <1> DEFINE c == p.caughtUp \/ (p.status \in Live /\ ~HasWork(p))
  <1>3. c = p.caughtUp BY <1>2
  <1>4. AfterPass(p, p) = [p EXCEPT !.waits = FALSE, !.caughtUp = c] BY DEF AfterPass, RunRecord
  <1> HIDE DEF c
  <1>5. [p EXCEPT !.waits = p.waits, !.caughtUp = p.caughtUp] = p BY DEF RunRecord
  <1> QED BY <1>1, <1>3, <1>4, <1>5

LEMMA DirtyDiffers ==
  ASSUME MailTypes, NEW p, Good(p, Present), NEW m \in Present, p.queue[m] # "none" \/ p.asg[m] = Unassigned
  PROVE  Good(DirtyQueue(p, {m}), Present) /\ Differs(p, DirtyQueue(p, {m}))
  <1> DEFINE ids == Closure(p, {m})
  <1> DEFINE q == DirtyQueue(p, {m})
  <1>1. {m} \subseteq Present /\ m \in Messages /\ Shown(m) \in Kinds BY ShownKinds
  <1>2. m \in ids BY <1>1, ClosureHere
  <1>3. Drained(p, q, ids) BY <1>1, DirtyIs
  <1>4. Alone(m, Shown(m)) # Unassigned BY <1>1, AloneRow
  <1> SUFFICES Good(q, Present) /\ Differs(p, q) OBVIOUS
  <1> HIDE DEF ids, q
  <1>5. q.asg[m] = Alone(m, Shown(m)) /\ q.queue[m] = "none" BY <1>1, <1>2, <1>3 DEF Drained
  <1>6. q.asg # p.asg \/ q.queue # p.queue BY <1>4, <1>5
  <1> QED BY <1>3, <1>6 DEF Drained, Differs
LEMMA SubjectDiffers ==
  ASSUME MailTypes, NEW p, Good(p, Present), p.subjects # {} \/ (p.status = "building" /\ p.stage = "subject")
  PROVE  Good(SubjectWork(p), Present) /\ Differs(p, SubjectWork(p))
  <1> DEFINE q == SubjectWork(p)
  <1>1. SubjectLeaves(p, q) BY SubjectIs
  <1> SUFFICES Good(q, Present) /\ Differs(p, q) OBVIOUS
  <1> HIDE DEF q
  <1>2. CASE p.subjects # {} BY <1>1, <1>2 DEF SubjectLeaves, Advanced, Differs
  <1>3. CASE p.subjects = {} /\ p.status = "building" /\ p.stage = "subject"
    <2>1. q = Stage(p, "catchup") BY <1>1, <1>3 DEF SubjectLeaves, Advanced
    <2>2. q.stage = "catchup" BY <2>1, StageIs DEF Stages
    <2> QED BY <1>1, <1>3, <2>2 DEF SubjectLeaves, Differs
  <1> QED BY <1>2, <1>3
LEMMA ReadyWorkIs == ASSUME NEW p, HasReadyWork(p) PROVE ReadyQueue(p) # {} \/ p.subjects # {}
  BY DEF HasReadyWork, ReadyQueue
LEMMA PickReady ==
  ASSUME NEW p, Good(p, Present), UsesQueue(p), ReadyQueue(p) # {}, NEW m \in Picks(p)
  PROVE  m \in Messages /\ m \in Present /\ p.queue[m] = "ready"
  BY PicksHere DEF Picks, ReadyQueue
LEMMA PickNone ==
  ASSUME NEW p, ~UsesQueue(p) \/ ReadyQueue(p) = {}, NEW m \in Picks(p)
  PROVE  m = NoMessage /\ m \notin Messages
  BY ThreadAssumption DEF Picks

LEMMA LiveAdvances ==
  ASSUME MailTypes, NEW p, Good(p, Present), p.status \in Live, HasReadyWork(p), NEW m \in Picks(p)
  PROVE  AfterPass(p, Processed(p, m)) # p
  <1> DEFINE q == Processed(p, m)
  <1>1. q = LiveRun(p, m) /\ UsesQueue(p) BY DEF Processed, UsesQueue
  <1>2. Good(q, Present) /\ Differs(p, q)
    <2>1. CASE ReadyQueue(p) # {}
      <3>1. m \in Messages /\ m \in Present /\ p.queue[m] = "ready" BY <1>1, <2>1, PickReady
      <3>2. q = DirtyQueue(p, {m}) BY <1>1, <2>1, <3>1 DEF LiveRun
      <3> QED BY <3>1, <3>2, DirtyDiffers
    <2>2. CASE ReadyQueue(p) = {}
      <3>1. m \notin Messages /\ p.subjects # {} BY <2>2, PickNone, ReadyWorkIs
      <3>2. q = SubjectWork(p) BY <1>1, <2>2, <3>1 DEF LiveRun
      <3> QED BY <3>1, <3>2, SubjectDiffers
    <2> QED BY <2>1, <2>2
  <1> HIDE DEF q
  <1>3. AfterPass(p, q) # p BY <1>2, AfterDiffers
  <1> QED BY <1>3 DEF q
LEMMA CatchupDiffers ==
  ASSUME MailTypes, NEW p, Good(p, Present), p.status = "building", p.stage = "catchup", HasReadyWork(p) \/ ~HasWork(p), NEW m \in Picks(p)
  PROVE  Good(Catchup(p, m), Present) /\ Differs(p, Catchup(p, m))
  <1>1. UsesQueue(p) BY DEF UsesQueue
  <1>2. CASE ReadyQueue(p) # {}
    <2>1. m \in Messages /\ m \in Present /\ p.queue[m] = "ready" BY <1>1, <1>2, PickReady
    <2>a. HasReadyWork(p) BY <2>1 DEF HasReadyWork
    <2>2. Catchup(p, m) = DirtyQueue(p, {m}) BY <1>2, <2>1, <2>a DEF Catchup
    <2> QED BY <2>1, <2>2, DirtyDiffers
  <1>3. CASE ReadyQueue(p) = {} /\ HasReadyWork(p)
    <2>1. m \notin Messages /\ p.subjects # {} BY <1>3, PickNone, ReadyWorkIs
    <2>2. Catchup(p, m) = SubjectWork(p) BY <1>3, <2>1 DEF Catchup
    <2> QED BY <2>1, <2>2, SubjectDiffers
  <1>4. CASE ReadyQueue(p) = {} /\ ~HasReadyWork(p)
    <2>1. m \notin Messages BY <1>4, PickNone
    <2>2. Catchup(p, m) = IF Missing(p) # {} THEN DirtyQueue(p, {Min(Missing(p))}) ELSE Ready(p) BY <1>4, <2>1 DEF Catchup
    <2>3. CASE Missing(p) # {}
      <3> DEFINE n == Min(Missing(p))
      <3>1. n \in Missing(p) BY <2>3, LeastMissing
      <3>2. Catchup(p, m) = DirtyQueue(p, {n}) BY <2>2, <2>3
      <3> HIDE DEF n
      <3>3. n \in Present /\ p.asg[n] = Unassigned BY <3>1 DEF Missing, Assigned, Present
      <3> QED BY <3>2, <3>3, DirtyDiffers
    <2>4. CASE Missing(p) = {}
      <3>1. Good(Ready(p), Present) /\ Ready(p).status = "ready" BY ReadyIs
      <3> HIDE DEF Ready
      <3> QED BY <2>2, <2>4, <3>1 DEF Differs
    <2> QED BY <2>3, <2>4
  <1> QED BY <1>2, <1>3, <1>4
LEMMA PageDiffers ==
  ASSUME MailTypes, NEW p, Good(p, Present), p.status = "building", p.stage \in {"body_evidence", "strong"}, NEW q,
         \/ p.stage = "body_evidence" /\ q = BodyEvidencePage(p)
         \/ p.stage = "strong" /\ q = StrongPage(p)
  PROVE  Good(q, Present) /\ Differs(p, q)
  <1>1. Good(q, Present)
    <2>1. PassLeaves(p, BodyEvidencePage(p)) /\ PassLeaves(p, StrongPage(p)) BY BodyLeaves, StrongLeaves
    <2> QED BY <2>1 DEF PassLeaves
  <1>2. CASE Page(p) = {}
    <2>a. BodyEvidencePage(p) = Stage(p, "strong") BY <1>2 DEF BodyEvidencePage
    <2>b. StrongPage(p) = Stage(p, "subject") BY <1>2 DEF StrongPage
    <2>1. (q = Stage(p, "strong") /\ p.stage = "body_evidence") \/ (q = Stage(p, "subject") /\ p.stage = "strong")
      BY <2>a, <2>b
    <2>2. Stage(p, "strong").stage = "strong" /\ Stage(p, "subject").stage = "subject" BY StageIs DEF Stages
    <2> HIDE DEF Stage
    <2> QED BY <1>1, <2>1, <2>2 DEF Differs
  <1>3. CASE Page(p) # {}
    <2> DEFINE n == Min(Page(p))
    <2>1. n \in Nat /\ n > p.after /\ First(p) \subseteq Present BY <1>3, LeastPage, ThreadAssumption DEF Page, Present
    <2> DEFINE u == DirtyQueue(p, First(p))
    <2>a. BodyEvidencePage(p) = [p EXCEPT !.after = n] BY <1>3 DEF BodyEvidencePage
    <2>b. StrongPage(p) = [u EXCEPT !.after = n] BY <1>3 DEF StrongPage, DirtyQueue
    <2>2. q = [p EXCEPT !.after = n] \/ q = [u EXCEPT !.after = n] BY <2>a, <2>b
    <2>3. Good(u, Present)
      <3>1. PassLeaves(p, u) BY <2>1, DirtyLeaves
      <3> HIDE DEF u
      <3> QED BY <3>1 DEF PassLeaves
    <2> HIDE DEF n, u
    <2>4. [p EXCEPT !.after = n].after = n /\ [u EXCEPT !.after = n].after = n BY <2>1, <2>3, AfterIs
    <2>5. q.after = n BY <2>2, <2>4
    <2>6. p.after \in Nat BY DEF Good, RunRecord
    <2>7. q.after # p.after BY <2>1, <2>5, <2>6
    <2> QED BY <1>1, <2>7 DEF Differs
  <1> QED BY <1>2, <1>3
LEMMA BuildAdvances ==
  ASSUME MailTypes, NEW p, Good(p, Present), p.status \in {"building", "ready"}, p.status = "building" => p.stage # "ready",
         Advances(p, FALSE), NEW m \in Picks(p)
  PROVE  AfterPass(p, Processed(p, m)) # p
  <1>1. CASE p.status = "ready"
    <2>1. HasReadyWork(p) /\ p.status \in Live BY <1>1 DEF Advances, Live
    <2> QED BY <2>1, LiveAdvances
  <1>2. CASE p.status = "building"
    <2> DEFINE q == Processed(p, m)
    <2>1. p.status \notin Live BY <1>2 DEF Live
    <2>2. p.stage \in {"body_evidence", "strong", "subject", "catchup"} BY <1>2 DEF Good, RunRecord, Stages
    <2>3. Good(q, Present) /\ Differs(p, q)
      <3>1. CASE p.stage \in {"body_evidence", "strong"}
        <4>1. \/ p.stage = "body_evidence" /\ q = BodyEvidencePage(p)
              \/ p.stage = "strong" /\ q = StrongPage(p)
          BY <2>1, <3>1 DEF Processed
        <4> HIDE DEF q
        <4> QED BY <1>2, <3>1, <4>1, PageDiffers
      <3>2. CASE p.stage = "subject"
        <4>1. q = SubjectWork(p) BY <2>1, <3>2 DEF Processed
        <4> QED BY <1>2, <3>2, <4>1, SubjectDiffers
      <3>3. CASE p.stage = "catchup"
        <4>1. q = Catchup(p, m) BY <2>1, <3>3 DEF Processed
        <4>2. HasReadyWork(p) \/ ~HasWork(p) BY <1>2, <3>3 DEF Advances
        <4> QED BY <1>2, <3>3, <4>1, <4>2, CatchupDiffers
      <3> QED BY <2>2, <3>1, <3>2, <3>3
    <2> HIDE DEF q
    <2>4. AfterPass(p, q) # p BY <2>3, AfterDiffers
    <2> QED BY <2>4 DEF q
  <1> QED BY <1>1, <1>2

(* A pass over a run that has nothing to do now leaves it as it is.        *)
LEMMA LiveRests ==
  ASSUME NEW p, Good(p, Present), p.status \in Live, Settled(p, TRUE), ~p.waits, ~HasReadyWork(p),
         p.status = "ready" => Missing(p) = {}, NEW m \in Picks(p)
  PROVE  AfterPass(p, Processed(p, m)) = p
  <1>1. ReadyQueue(p) = {} /\ p.subjects = {} BY DEF HasReadyWork, ReadyQueue
  <1>2. m \notin Messages BY <1>1, PickNone
  <1>3. Processed(p, m) = LiveRun(p, m) BY DEF Processed
  <1>4. LiveRun(p, m) = p BY <1>1, <1>2 DEF LiveRun
  <1>5. p \in RunRecord /\ (p.caughtUp \/ HasWork(p)) BY DEF Good, Settled
  <1>6. AfterPass(p, p) = p BY <1>5, AfterNothing
  <1> QED BY <1>3, <1>4, <1>6
LEMMA BuildRests ==
  ASSUME NEW p, Good(p, Present), p.status = "building", ~p.waits, ~Advances(p, FALSE), NEW m \in Picks(p)
  PROVE  AfterPass(p, Processed(p, m)) = p
  <1>1. p.stage = "catchup" /\ ~HasReadyWork(p) /\ HasWork(p) /\ p.status \notin Live BY DEF Advances, Live
  <1>2. ReadyQueue(p) = {} BY <1>1 DEF HasReadyWork, ReadyQueue
  <1>3. m \notin Messages BY <1>2, PickNone
  <1>4. Processed(p, m) = Catchup(p, m) BY <1>1 DEF Processed
  <1>5. Catchup(p, m) = p BY <1>1, <1>3 DEF Catchup
  <1>6. AfterPass(p, p) = p BY <1>1, AfterNothing DEF Good
  <1> QED BY <1>4, <1>5, <1>6

(* The schedule gives every role a turn.                                   *)
LEMMA EveryTurn ==
  ASSUME NEW c \in 0..4, NEW waiting, waiting \cap {"active", "standby", "building"} # {}
  PROVE  Turn(c, waiting) # <<>>
  <1>1. ASSUME NEW n \in 0..4 PROVE \E i \in 0..4 : (c + i) % 5 = n
    <2>1. CASE n >= c
      <3>1. n - c \in 0..4 /\ c + (n - c) = n BY <2>1
      <3>2. (c + (n - c)) % 5 = n BY <3>1, ModFive
      <3> QED BY <3>1, <3>2
    <2>2. CASE n < c
      <3>1. n - c + 5 \in 0..4 /\ c + (n - c + 5) = n + 5 BY <2>2
      <3>2. (n + 5) % 5 = n OBVIOUS
      <3> QED BY <3>1, <3>2
    <2> QED BY <2>1, <2>2
  <1>2. \E n \in 0..4 : Schedule[n + 1] \in waiting
    <2>1. Schedule[0 + 1] = "active" /\ Schedule[2 + 1] = "standby" /\ Schedule[4 + 1] = "building" BY DEF Schedule
    <2>2. 0 \in 0..4 /\ 2 \in 0..4 /\ 4 \in 0..4 OBVIOUS
    <2> QED BY <2>1, <2>2
  <1>3. \E i \in 0..4 : Schedule[((c + i) % 5) + 1] \in waiting
    <2>1. PICK n \in 0..4 : Schedule[n + 1] \in waiting BY <1>2
    <2>2. PICK i \in 0..4 : (c + i) % 5 = n BY <1>1
    <2> QED BY <2>1, <2>2
  <1>4. \/ Turn(c, waiting) = <<>> /\ \A i \in 0..4 : Schedule[((c + i) % 5) + 1] \notin waiting
        \/ \E i \in 0..4 : Turn(c, waiting) = <<Schedule[((c + i) % 5) + 1], (((c + i) % 5) + 1) % 5>>
    BY TurnTaken
  <1>5. \E i \in 0..4 : Turn(c, waiting) = <<Schedule[((c + i) % 5) + 1], (((c + i) % 5) + 1) % 5>> BY <1>3, <1>4
  <1> QED BY <1>5
(* The build's turn is the last: a live run that waits is served before it *)
(* when the schedule is at its head.                                       *)
LEMMA BuildLast ==
  ASSUME NEW c \in 0..4, NEW waiting, Turn(c, waiting) # <<>>, Turn(c, waiting)[1] = "building"
  PROVE  /\ Turn(c, waiting)[2] = 0
         /\ c = 0 => "active" \notin waiting /\ "standby" \notin waiting
  <1>1. PICK i \in 0..4 :
          /\ Schedule[((c + i) % 5) + 1] \in waiting
          /\ \A j \in 0..4 : Schedule[((c + j) % 5) + 1] \in waiting => i <= j
          /\ Turn(c, waiting) = <<Schedule[((c + i) % 5) + 1], (((c + i) % 5) + 1) % 5>>
    BY TurnTaken
  <1>2. Schedule[((c + i) % 5) + 1] = "building" BY <1>1
  <1>3. (c + i) % 5 \in 0..4 BY ModTypes
  <1>4. (c + i) % 5 = 4 BY <1>2, <1>3 DEF Schedule
  <1>5. Turn(c, waiting)[2] = 5 % 5 BY <1>1, <1>4
  <1>6. ASSUME c = 0 PROVE "active" \notin waiting /\ "standby" \notin waiting
    <2>1. i = 4 BY <1>4, <1>6, ModFive
    <2>2. Schedule[((c + 0) % 5) + 1] = "active" /\ Schedule[((c + 2) % 5) + 1] = "standby" BY <1>6, ModFive DEF Schedule
    <2>3. ~(4 <= 0) /\ ~(4 <= 2) /\ 0 \in 0..4 /\ 2 \in 0..4 OBVIOUS
    <2> QED BY <1>1, <2>1, <2>2, <2>3
  <1> QED BY <1>5, <1>6

(* A build that starts, or a candidate dropped, shows in the runs.         *)
LEMMA BuildStarts ==
  ASSUME ProjectionInv, PointerInv, NEW v \in Nat, Needed(v) \/ Obsolete(v), NEW w \in NewBuild(v)
  PROVE  \E s \in Runs : /\ w.run[s].status \in {"building", "failed"} /\ w.run[s].status # run[s].status
                         /\ w.run[s].status = "building" => run[s].status \notin {"building", "ready"}
  <1>1. DOMAIN run = Runs BY DEF ProjectionInv
  <1>2. CASE Needed(v)
    <2> DEFINE new == NewRun(v, state.active = NoRun)
    <2>1. PICK r \in Runs : run[r].status = "absent" /\ w = [building |-> r, run |-> [Dropped(v) EXCEPT ![r] = new]]
      BY <1>2 DEF NewBuild
    <2>5. new.status = "building" BY NewLike
    <2> HIDE DEF new
    <2>2. w.run = [Dropped(v) EXCEPT ![r] = new] BY <2>1
    <2>3. DOMAIN Dropped(v) = Runs BY <1>1 DEF Dropped
    <2>4. w.run[r] = new BY <2>2, <2>3
    <2>6. w.run[r].status = "building" /\ run[r].status = "absent" BY <2>1, <2>4, <2>5
    <2> QED BY <2>6
  <1>3. CASE ~Needed(v) /\ Obsolete(v)
    <2> DEFINE b == state.building
    <2>1. w = [building |-> IF Obsolete(v) THEN NoRun ELSE b, run |-> Dropped(v)] BY <1>3 DEF NewBuild
    <2>2. w.run = Dropped(v) BY <2>1
    <2>3. b \in Runs /\ run[b].status \in {"building", "ready"} BY <1>3 DEF Obsolete, PointerInv, StateTypeOK, PointersFit
    <2>4. w.run[b] = Ended(run[b], "failed") BY <1>1, <1>3, <2>2, <2>3 DEF Dropped
    <2>5. w.run[b].status = "failed" BY <2>4, EndedLike
    <2> QED BY <2>3, <2>5
  <1> QED BY <1>2, <1>3

LEMMA StartsDiffer ==
  ASSUME ProjectionInv, PointerInv, NEW v \in Nat, Needed(v) \/ Obsolete(v), NEW w \in NewBuild(v),
         NEW left \in Outcomes(w, Scheduled(w, v).run)
  PROVE  left.run # run
  <1> DEFINE r == Scheduled(w, v).run
  <1>1. PICK s \in Runs : /\ w.run[s].status \in {"building", "failed"} /\ w.run[s].status # run[s].status
                          /\ w.run[s].status = "building" => run[s].status \notin {"building", "ready"}
    BY BuildStarts
  <1>2. RunsLike(w.run) BY BuildFits
  <1>3. r # NoRun => r \in Runs /\ w.run[r].status \in Live \cup {"building"} BY ScheduledFits
  <1>4. \/ left.run = w.run
        \/ r # NoRun /\ \E m : left.run = Leaves(w, r, m)
    BY OutcomeIs
  <1> HIDE DEF r
  <1>5. CASE left.run = w.run BY <1>1, <1>5
  <1>6. ASSUME r # NoRun, NEW m, left.run = Leaves(w, r, m) PROVE left.run # run
    <2> DEFINE q == AfterPass(w.run[r], Processed(w.run[r], m))
    <2>1. left.run[r] = q /\ \A x \in Runs \ {r} : left.run[x] = w.run[x] BY <1>2, <1>3, <1>6 DEF Leaves, RunsLike
    <2>2. Passed(w.run[r], q) BY <1>2, <1>3, <1>6, PassKeeps DEF RunsLike
    <2> HIDE DEF q
    <2>3. CASE s = r
      <3>1. q.status = w.run[r].status \/ (w.run[r].status = "building" /\ q.status = "ready") BY <2>2 DEF Passed
      <3>2. q.status # run[s].status BY <1>1, <2>3, <3>1
      <3> QED BY <2>1, <2>3, <3>2
    <2>4. CASE s # r
      <3>1. left.run[s] = w.run[s] BY <2>1, <2>4
      <3> QED BY <1>1, <3>1
    <2> QED BY <2>3, <2>4
  <1> QED BY <1>4, <1>5, <1>6

(* No build to start, none to drop: the pass goes on with the candidate.   *)
LEMMA SameBuild ==
  ASSUME NEW v, ~Needed(v), ~Obsolete(v), NEW w \in NewBuild(v)
  PROVE  w.building = state.building /\ w.run = run
  <1>1. w = [building |-> IF Obsolete(v) THEN NoRun ELSE state.building, run |-> Dropped(v)] BY DEF NewBuild
  <1>2. Dropped(v) = run BY DEF Dropped
  <1> QED BY <1>1, <1>2
LEMMA BuildVersion ==
  ASSUME PointerInv, ProjectionInv, NEW v \in Nat, Executes(v), ~Obsolete(v), state.building # NoRun
  PROVE  run[state.building].version = v
  <1>1. state.building \in Runs /\ run[state.building].status \in {"building", "ready"} BY DEF PointerInv, StateTypeOK, PointersFit
  <1>2. run[state.building].version <= v BY <1>1 DEF Executes, Executable
  <1>3. ~(run[state.building].version < v) BY DEF Obsolete
  <1>4. run[state.building].version \in Nat BY <1>1, RunsFine DEF RunRecord
  <1> QED BY <1>2, <1>3, <1>4

(* The candidate that is ready misses at most what waits for its backoff.  *)
LEMMA ReadyCovers ==
  ASSUME ProjectionInv, PointerInv, state.building # NoRun, run[state.building].status = "ready",
         ~HasReadyWork(run[state.building]), ~MissingWaits
  PROVE  Missing(run[state.building]) = {}
  <1> DEFINE r == state.building
  <1>1. r \in Runs /\ r \in Referenced BY DEF PointerInv, StateTypeOK, Referenced
  <1>2. Fine(run[r], Present, Showing, r \in Referenced) BY <1>1, RunsFine
  <1>3. run[r].status \in Live BY DEF Live
  <1>4. Followed(run[r], r \in Referenced) BY <1>1, <1>2, <1>3 DEF Fine, Followed
  <1>5. Covered(run[r], Present) /\ Good(run[r], Present) BY <1>2, <1>4 DEF Fine, Knows
  <1>6. ASSUME NEW n \in Missing(run[r]) PROVE FALSE
    <2>1. n \in Present /\ n \in Messages /\ run[r].asg[n] = Unassigned BY <1>6 DEF Missing, Assigned, Present
    <2>2. run[r].queue[n] # "none" BY <1>3, <1>5, <2>1 DEF Covered
    <2>3. run[r].queue[n] \in {"none", "ready", "later"} BY <1>5, <2>1 DEF Good, RunRecord
    <2>4. run[r].queue[n] # "ready" BY <2>1 DEF HasReadyWork
    <2>5. run[r].queue[n] = "later" BY <2>2, <2>3, <2>4
    <2> QED BY <1>6, <2>5 DEF MissingWaits
  <1> QED BY <1>6

(* A listed account's pass does something, unless its candidate idles.     *)
LEMMA ListedWorks ==
  ASSUME ProjectionInv, PointerInv, NEW v \in Nat, Executes(v), ~state.paused, NEW w \in NewBuild(v),
         NEW left \in Outcomes(w, Scheduled(w, v).run), Listed(v, FALSE)
  PROVE  left.run # run \/ CandidateIdles(w, Scheduled(w, v))
  <1>1. CASE Needed(v) \/ Obsolete(v) BY <1>1, StartsDiffer
  <1>2. CASE ~Needed(v) /\ ~Obsolete(v)
    <2> DEFINE c == state.cursor
    <2> DEFINE b == state.building
    <2> DEFINE turn == Chosen(w, v)
    <2> DEFINE r == Scheduled(w, v).run
    <2>1. w.building = b /\ w.run = run BY <1>2, SameBuild
    <2>2. c \in 0..4 /\ b \in Runs \cup {NoRun} /\ state.active \in Runs \cup {NoRun} /\ state.previous \in Runs \cup {NoRun}
      BY DEF PointerInv, StateTypeOK
    <2>3. Workable(state.active, "active") => "active" \in Now(w, v)
      BY <2>1 DEF Workable, Now, Waiting, Candidate, RunOf, Executes, Executable
    <2>4. Workable(state.previous, "standby") => "standby" \in Now(w, v)
      BY <2>1 DEF Workable, Now, Waiting, Candidate, RunOf, Executes, Executable
    <2>5. b # NoRun => run[b].version = v BY <1>2, BuildVersion
    <2>6. b # NoRun /\ ~run[b].waits => "building" \in Now(w, v) BY <2>1, <2>5 DEF Now, Waiting, Candidate, RunOf
    <2>7. Now(w, v) # {} /\ Now(w, v) \subseteq {"active", "standby", "building"}
      BY <1>2, <2>3, <2>4, <2>6 DEF Listed, Now, Waiting
    <2>8. turn = Turn(c, Now(w, v)) BY <2>7 DEF Chosen
    <2>9. turn # <<>> BY <2>2, <2>7, <2>8, EveryTurn
    <2>10. turn[1] \in Now(w, v) BY <2>2, <2>8, <2>9, TurnCursor
    <2>11. Scheduled(w, v) = [run |-> RunOf(turn[1], w), cursor |-> turn[2]] BY <2>9, ScheduledIs
    <2> DEFINE role == turn[1]
    <2>12. r = RunOf(role, w) /\ Candidate(role, w, v) /\ ~run[r].waits /\ r # NoRun /\ role \in {"active", "standby", "building"}
      BY <2>1, <2>10, <2>11 DEF Now, Waiting, Candidate
    <2>13. r \in Runs BY <2>1, <2>2, <2>12 DEF RunOf
    <2>14. PICK m \in Picks(run[r]) : left.run = Leaves(w, r, m) BY <2>1, <2>12, OutcomeIs
    <2>15. left.run[r] = AfterPass(run[r], Processed(run[r], m)) BY <2>1, <2>13, <2>14 DEF Leaves, ProjectionInv
    <2>16. Fine(run[r], Present, Showing, r \in Referenced) /\ Good(run[r], Present) /\ MailTypes BY <2>13, RunsFine
    <2>17. CASE role \in {"active", "standby"}
      <3>1. run[r].status = role /\ HasReadyWork(run[r]) BY <2>1, <2>12, <2>17 DEF Candidate
      <3>2. run[r].status \in Live BY <2>17, <3>1 DEF Live
      <3> HIDE DEF r, turn
      <3>3. left.run[r] # run[r] BY <2>14, <2>15, <2>16, <3>1, <3>2, LiveAdvances
      <3> QED BY <3>3
    <2>18. CASE role = "building"
      <3>1. r = b /\ b # NoRun BY <2>1, <2>12, <2>18 DEF RunOf
      <3>2. CASE Advances(run[b], FALSE)
        <4>1. run[b].status \in {"building", "ready"} /\ (run[b].status = "building" => run[b].stage # "ready")
          BY <2>16, <3>1 DEF PointerInv, PointersFit, Fine
        <4> HIDE DEF r, b, turn
        <4>2. left.run[r] # run[r] BY <2>14, <2>15, <2>16, <3>1, <3>2, <4>1, BuildAdvances
        <4> QED BY <4>2
      <3>3. CASE ~Advances(run[b], FALSE)
        <4>1. Workable(state.active, "active") \/ Workable(state.previous, "standby") BY <1>2, <3>3 DEF Listed
        <4>2. "active" \in Now(w, v) \/ "standby" \in Now(w, v) BY <2>3, <2>4, <4>1
        <4>3. turn[2] = 0 /\ c # 0 BY <2>2, <2>8, <2>9, <2>18, <4>2, BuildLast
        <4>4. Scheduled(w, v) = [run |-> w.building, cursor |-> 0] BY <2>11, <2>18, <4>3 DEF RunOf
        <4> QED BY <4>3, <4>4 DEF CandidateIdles
      <3> QED BY <3>2, <3>3
    <2> QED BY <2>12, <2>17, <2>18
  <1> QED BY <1>1, <1>2

(* The pass of an account that is not listed leaves its runs as they are.  *)
LEMMA OthersRest ==
  ASSUME ProjectionInv, PointerInv, NEW v \in Nat, Executes(v), ~state.paused, NEW w \in NewBuild(v),
         NEW left \in Outcomes(w, Scheduled(w, v).run), ~Listed(v, FALSE), ~MissingWaits
  PROVE  left.run = run
  <1> DEFINE b == state.building
  <1> DEFINE turn == Chosen(w, v)
  <1> DEFINE r == Scheduled(w, v).run
  <1>1. ~Needed(v) /\ ~Obsolete(v) BY DEF Listed
  <1>2. w.building = b /\ w.run = run BY <1>1, SameBuild
  <1>3. state.cursor \in 0..4 /\ b \in Runs \cup {NoRun} /\ state.active \in Runs \cup {NoRun} /\ state.previous \in Runs \cup {NoRun}
    BY DEF PointerInv, StateTypeOK
  <1>4. CASE r = NoRun \/ run[r].waits BY <1>2, <1>4, OutcomeIs
  <1>5. CASE ~(r = NoRun \/ run[r].waits)
    <2>1. PICK m \in Picks(run[r]) : left.run = Leaves(w, r, m) BY <1>2, <1>5, OutcomeIs
    <2>2. r \in Runs /\ r \in Referenced BY <1>2, <1>5, ScheduledFits DEF Referenced
    <2>3. Fine(run[r], Present, Showing, r \in Referenced) /\ Good(run[r], Present) BY <2>2, RunsFine
    <2>4. Settled(run[r], TRUE)
      <3>1. Settled(run[r], r \in Referenced) BY <2>3 DEF Fine
      <3> QED BY <2>2, <3>1 DEF Settled
    <2>5. \/ \E role \in {"active", "standby"} : Candidate(role, w, v) /\ r = RunOf(role, w)
          \/ r = b
          \/ r = state.active /\ ~Candidate("active", w, v)
      <3>1. CASE turn # <<>>
        <4>1. turn[1] \in Waiting(w, v) BY <1>3, <3>1, TurnCursor DEF Chosen, Now
        <4>2. r = RunOf(turn[1], w) BY <3>1, ScheduledIs
        <4>3. turn[1] = "building" => r = b BY <1>2, <4>2 DEF RunOf
        <4> QED BY <4>1, <4>2, <4>3 DEF Waiting
      <3>2. CASE turn = <<>>
        <4>1. Now(w, v) \subseteq Waiting(w, v) /\ Waiting(w, v) \subseteq {"active", "standby", "building"} BY DEF Now, Waiting
        <4>2. Waiting(w, v) = {}
          <5>1. ASSUME Waiting(w, v) # {} PROVE FALSE
            <6> DEFINE W == IF Now(w, v) # {} THEN Now(w, v) ELSE Waiting(w, v)
            <6>1. W \cap {"active", "standby", "building"} # {} BY <4>1, <5>1
            <6>2. turn = Turn(state.cursor, W) BY DEF Chosen
            <6> HIDE DEF W
            <6> QED BY <1>3, <3>2, <6>1, <6>2, EveryTurn
          <5> QED BY <5>1
        <4>3. ~Candidate("active", w, v) BY <4>2 DEF Waiting
        <4>4. r = state.active BY <1>5, <3>2, ScheduledIs
        <4> QED BY <4>3, <4>4
      <3> QED BY <3>1, <3>2
    <2>6. ASSUME NEW role \in {"active", "standby"}, Candidate(role, w, v), r = RunOf(role, w) PROVE FALSE
      <3>1. r # NoRun /\ run[r].status = role /\ HasReadyWork(run[r]) /\ ~run[r].waits BY <1>2, <1>5, <2>6 DEF Candidate
      <3>2. role = "active" => Workable(state.active, "active") BY <2>6, <3>1 DEF Workable, RunOf
      <3>3. role = "standby" => Workable(state.previous, "standby") BY <2>6, <3>1 DEF Workable, RunOf
      <3> QED BY <3>2, <3>3 DEF Listed
    <2>7. CASE r = state.active /\ ~Candidate("active", w, v)
      <3>1. run[r].status = "active" BY <1>5, <2>7 DEF PointerInv, PointersFit
      <3>2. run[r].version <= v BY <1>5, <2>7, <3>1 DEF Executes, Executable
      <3>3. ~HasReadyWork(run[r]) BY <1>2, <1>5, <2>7, <3>1, <3>2 DEF Candidate, RunOf
      <3>4. run[r].status \in Live /\ run[r].status # "ready" BY <3>1 DEF Live
      <3> HIDE DEF r
      <3>5. AfterPass(run[r], Processed(run[r], m)) = run[r] BY <1>5, <2>1, <2>3, <2>4, <3>3, <3>4, LiveRests
      <3>6. left.run = [run EXCEPT ![r] = run[r]] BY <1>2, <2>1, <3>5 DEF Leaves
      <3> QED BY <3>6 DEF ProjectionInv
    <2>8. CASE r = b
      <3>1. run[b].status \in {"building", "ready"} /\ ~Advances(run[b], FALSE)
        BY <1>5, <2>8 DEF PointerInv, PointersFit, Listed
      <3>2. CASE run[b].status = "building"
        <4> HIDE DEF r
        <4>1. AfterPass(run[r], Processed(run[r], m)) = run[r] BY <1>5, <2>1, <2>3, <2>8, <3>1, <3>2, BuildRests
        <4>2. left.run = [run EXCEPT ![r] = run[r]] BY <1>2, <2>1, <4>1 DEF Leaves
        <4> QED BY <4>2 DEF ProjectionInv
      <3>3. CASE run[b].status = "ready"
        <4>1. ~HasReadyWork(run[r]) /\ run[r].status \in Live BY <2>8, <3>1, <3>3 DEF Advances, Live
        <4>2. Missing(run[r]) = {} BY <1>5, <2>8, <3>3, <4>1, ReadyCovers
        <4> HIDE DEF r
        <4>3. AfterPass(run[r], Processed(run[r], m)) = run[r] BY <1>5, <2>1, <2>3, <2>4, <4>1, <4>2, LiveRests
        <4>4. left.run = [run EXCEPT ![r] = run[r]] BY <1>2, <2>1, <4>3 DEF Leaves
        <4> QED BY <4>4 DEF ProjectionInv
      <3> QED BY <3>1, <3>2, <3>3
    <2> QED BY <2>5, <2>6, <2>7, <2>8
  <1> QED BY <1>4, <1>5

(* An account listed for its first run only: the pass has nothing to do,   *)
(* and the run is activated unless it still owes work.                     *)
LEMMA FirstListed ==
  ASSUME ProjectionInv, PointerInv, NEW v \in Nat, Executes(v), ~state.paused, NEW w \in NewBuild(v),
         NEW left \in Outcomes(w, Scheduled(w, v).run), Listed(v, TRUE), ~Listed(v, FALSE), AutoActivate
  PROVE  ActivatesFirst(v, Scheduled(w, v).run, left.run) \/ FirstOwes
  <1> DEFINE b == state.building
  <1> DEFINE r == Scheduled(w, v).run
  <1>1. ~Needed(v) /\ ~Obsolete(v) /\ ~Workable(state.active, "active") /\ ~Workable(state.previous, "standby") BY DEF Listed
  <1>2. b # NoRun /\ ~run[b].waits /\ Advances(run[b], TRUE) /\ ~Advances(run[b], FALSE) BY <1>1 DEF Listed
  <1>3. FirstReady(run[b]) /\ ~HasReadyWork(run[b]) BY <1>2 DEF Advances, FirstReady
  <1>4. w.building = b /\ w.run = run BY <1>1, SameBuild
  <1>5. state.cursor \in 0..4 /\ b \in Runs /\ b \in Referenced BY <1>2 DEF PointerInv, StateTypeOK, Referenced
  <1>6. run[b].version = v BY <1>1, <1>2, BuildVersion
  <1>7. Now(w, v) = {"building"}
    <2>1. "building" \in Now(w, v) BY <1>2, <1>4, <1>6 DEF Now, Waiting, Candidate, RunOf
    <2>2. "active" \notin Now(w, v) BY <1>3 DEF Now, Waiting, Candidate, RunOf, FirstReady
    <2>3. "standby" \notin Now(w, v) BY <1>1, <1>4 DEF Now, Waiting, Candidate, RunOf, Workable
    <2> QED BY <2>1, <2>2, <2>3 DEF Now, Waiting
  <1>8. r = b
    <2> DEFINE turn == Chosen(w, v)
    <2>1. turn = Turn(state.cursor, {"building"}) BY <1>7 DEF Chosen
    <2>2. turn # <<>> BY <1>5, <2>1, EveryTurn
    <2>3. turn[1] \in {"building"} BY <1>5, <2>1, <2>2, TurnCursor
    <2> QED BY <1>4, <2>2, <2>3, ScheduledIs DEF RunOf
  <1>9. CASE HasWork(run[b]) BY <1>2, <1>3, <1>9 DEF FirstOwes, FirstIsReady
  <1>10. CASE ~HasWork(run[b])
    <2> DEFINE p == run[b]
    <2>1. Fine(p, Present, Showing, b \in Referenced) /\ Good(p, Present) BY <1>5, RunsFine
    <2>2. p.status = "ready" /\ p.status \in Live /\ state.active = NoRun BY <1>3 DEF FirstReady, Live
    <2>3. ~MissingWaits BY <1>10 DEF MissingWaits, HasWork, Missing, Present
    <2>4. Missing(p) = {} BY <1>2, <1>3, <2>2, <2>3, ReadyCovers
    <2>5. Settled(p, TRUE) /\ p.stage = "ready"
      <3>1. Settled(p, b \in Referenced) /\ Finished(p) BY <2>1 DEF Fine
      <3> QED BY <1>5, <2>2, <3>1 DEF Settled, Finished
    <2>6. UpToDate(v, p) BY <1>6, <1>10, <2>2, <2>4, <2>5 DEF UpToDate, Settled
    <2>7. PICK m \in Picks(p) : left.run = Leaves(w, b, m) BY <1>2, <1>4, <1>8, OutcomeIs
    <2>8. left.run = [run EXCEPT ![b] = AfterPass(p, Processed(p, m))] BY <1>4, <2>7 DEF Leaves
    <2> HIDE DEF p
    <2>9. AfterPass(p, Processed(p, m)) = p BY <1>2, <1>3, <2>1, <2>2, <2>4, <2>5, <2>7, LiveRests DEF p
    <2>10. left.run = run BY <2>8, <2>9 DEF ProjectionInv, p
    <2> QED BY <1>2, <1>3, <1>8, <2>6, <2>10 DEF ActivatesFirst, p
  <1> QED BY <1>9, <1>10
(* No first run is activated that the account is not listed for, unless it *)
(* waits itself.                                                           *)
LEMMA OthersNotFirst ==
  ASSUME ProjectionInv, PointerInv, NEW v \in Nat, Executes(v), ~state.paused, NEW w \in NewBuild(v),
         NEW left \in Outcomes(w, Scheduled(w, v).run), ~Listed(v, TRUE), left.run = run, ~FirstWaits
  PROVE  ~ActivatesFirst(v, Scheduled(w, v).run, left.run)
  <1> DEFINE r == Scheduled(w, v).run
  <1>1. SUFFICES ASSUME r # NoRun, FirstReady(run[r]) PROVE FALSE BY DEF ActivatesFirst
  <1>2. ~Needed(v) /\ ~Obsolete(v) BY DEF Listed
  <1>3. w.building = state.building /\ w.run = run BY <1>2, SameBuild
  <1>4. r \in {state.active, state.previous, state.building} BY <1>1, <1>3, ScheduledFits
  <1>5. r = state.building BY <1>1, <1>4 DEF FirstReady, PointerInv, PointersFit
  <1>6. ~run[r].waits BY <1>1, <1>5 DEF FirstWaits, FirstIsReady
  <1>7. Advances(run[r], TRUE) BY <1>1 DEF Advances
  <1> QED BY <1>1, <1>5, <1>6, <1>7 DEF Listed

(* No work is overlooked and no account is drained for nothing, with and   *)
(* without automatic activation, but for the exceptions that WorkIsFound   *)
(* names (listAccountsNeedingWork, drainAccount).                          *)
THEOREM WorkIsFoundHolds == Spec => []WorkIsFound
<1>1. ProjectionInv /\ PointerInv => WorkIsFound
  <2> SUFFICES ASSUME ProjectionInv, PointerInv, NEW v \in Versions, Executes(v), ~state.paused,
                      NEW w \in NewBuild(v), NEW left \in Outcomes(w, Scheduled(w, v).run), NEW auto \in {FALSE, AutoActivate}
               PROVE  LET changes == left.run # run \/ (auto /\ ActivatesFirst(v, Scheduled(w, v).run, left.run))
                      IN /\ Listed(v, auto) => changes \/ CandidateIdles(w, Scheduled(w, v)) \/ (auto /\ FirstOwes)
                         /\ changes => Listed(v, auto) \/ MissingWaits \/ (auto /\ FirstWaits)
    BY DEF WorkIsFound
  <2>1. v \in Nat BY ThreadAssumption
  <2>2. Listed(v, FALSE) => left.run # run \/ CandidateIdles(w, Scheduled(w, v)) BY <2>1, ListedWorks
  <2>3. left.run # run => Listed(v, FALSE) \/ MissingWaits BY <2>1, OthersRest
  <2>4. CASE auto = FALSE BY <2>2, <2>3, <2>4
  <2>5. CASE auto = TRUE /\ AutoActivate
    <3>1. Listed(v, TRUE) =>
            left.run # run \/ ActivatesFirst(v, Scheduled(w, v).run, left.run) \/ CandidateIdles(w, Scheduled(w, v)) \/ FirstOwes
      BY <2>1, <2>2, <2>5, FirstListed
    <3>2. Listed(v, FALSE) => Listed(v, TRUE) BY DEF Listed, Advances
    <3>3. ~Listed(v, TRUE) /\ left.run = run /\ ~FirstWaits => ~ActivatesFirst(v, Scheduled(w, v).run, left.run)
      BY <2>1, OthersNotFirst
    <3> QED BY <2>3, <2>5, <3>1, <3>2, <3>3
  <2> QED BY <2>4, <2>5, ThreadAssumption
<1> QED BY <1>1, ProjectionInvariant, PointerInvariant, PTL
===============================================================================
