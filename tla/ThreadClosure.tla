---------------------------- MODULE ThreadClosure ----------------------------
(***************************************************************************)
(* One threading run kept up to date while mail arrives, gains evidence    *)
(* and is deleted: a drain recomputes only the messages that evidence or a *)
(* stored conversation ties to the queued ones, then the exact subjects    *)
(* that those changes may group.  Runs beside each other, their switching, *)
(* failures and the cap on a subject's bucket are the concern of           *)
(* ThreadRuns; here the evidence and the algorithm are the code's own.     *)
(***************************************************************************)
EXTENDS Threading

CONSTANTS
  Ids,        \* physical message ids
  Scenes,     \* for each scene, what each message may say in its life
  Versions,   \* algorithm versions a run may have
  MaxChanges, \* bound on changes of the mail
  AnyVictim,  \* FALSE: a message that is purged ties to no other conversation
  Execute(_, _, _),  \* the executor of a version: ThreadAccount
  Fingerprints(_, _),\* the fingerprints of a message: ClosureFingerprints
  Collapse(_, _),    \* the deliveries of a mailbox: Deliveries
  Owed        \* the view while a change waits for its recomputation

ASSUME ClosureAssumption ==
  Ids \subseteq Nat /\ IsFiniteSet(Ids) /\ Versions \subseteq 1..3 /\ MaxChanges \in Nat /\ AnyVictim \in BOOLEAN /\ Window \in Nat

VARIABLES
  scene, version, \* chosen at the start
  changes,
  mail,     \* the mirror's messages, None where there is none
  stored,   \* imap_thread_assignments
  queue,    \* imap_thread_work_queue
  subjects  \* imap_thread_subject_work

vars == <<scene, version, changes, mail, stored, queue, subjects>>

Init ==
  /\ scene \in Scenes /\ version \in Versions /\ changes = 0
  /\ mail = [i \in Ids |-> None] /\ stored = [i \in Ids |-> None]
  /\ queue = {} /\ subjects = {}

Present(rows) == LET present == {i \in DOMAIN rows : rows[i] # None} IN [i \in present |-> rows[i]]
Stored == {i \in Ids : stored[i] # None}

(* imap_thread_closure_edges: the evidence an assignment can be found by.  *)
Edges(a) ==
  {<<"conversation", a.conversation>>, <<"delivery", a.key>>}
  \cup {<<"reference", t>> : t \in ({a.mid, a.root, a.parent} \cup ToSet(a.refs)) \ {None}}
  \cup {<<"provider_thread", t>> : t \in {a.thread} \ {None}}
  \cup {<<"delivery_fingerprint", f>> : f \in a.prints}
AssignmentRecord(i, assignment) ==
  [f \in DOMAIN assignment \cup {"prints"} |->
     IF f = "prints" THEN Fingerprints(mail[i], version) ELSE assignment[f]]
Compute(ids, fallback) ==
  LET new == Execute(Present([i \in ids |-> mail[i]]), version, fallback)
  IN [i \in DOMAIN new |-> AssignmentRecord(i, new[i])]

(* What ties to the messages, as they are stored and as they read now; the *)
(* criteria of every round stay.                                           *)
Criteria_AsTheyRead(ids) ==
  LET now == Compute(ids, FALSE) IN UNION {Edges(now[i]) : i \in DOMAIN now}
Criteria(ids) ==
  LET now == Compute(ids, FALSE)
  IN UNION ({Edges(stored[i]) : i \in ids \cap Stored} \cup {Edges(now[i]) : i \in DOMAIN now})
Tied(criteria) == {i \in Stored : Edges(stored[i]) \cap criteria # {}}
ExpandClosure(seeds) ==
  LET grown(last) ==
        LET criteria == last.criteria \cup Criteria(last.ids)
        IN [before |-> last.ids, ids |-> last.ids \cup Tied(criteria), criteria |-> criteria]
      grow[k \in 0..Cardinality(Ids)] ==
        IF k = 0 THEN [before |-> {}, ids |-> seeds, criteria |-> {}]
        ELSE LET last == grow[k - 1] IN IF last.before = last.ids THEN last ELSE grown(last)
  IN grow[Cardinality(Ids)].ids

(* A subject is looked at again when a changed message may join it by its  *)
(* subject, or did.                                                        *)
SubjectKeys_OfArrivals(new) ==
  {new[i].base : i \in {j \in DOMAIN new : stored[j] = None /\ new[j].eligible}}
  \cup {stored[i].base : i \in {j \in DOMAIN new : stored[j] # None /\ stored[j] # new[j] /\ stored[j].method = "subject_fallback"}}
SubjectKeys(new) ==
  LET changed == {i \in DOMAIN new : stored[i] # new[i]}
  IN {new[i].base : i \in {j \in changed : new[j].eligible}}
     \cup {stored[i].base : i \in {j \in changed : stored[j] # None /\ stored[j].method = "subject_fallback"}}
Persist(new) == stored' = [i \in Ids |-> IF i \in DOMAIN new THEN new[i] ELSE stored[i]]

-------------------------------------------------------------------------------
(* The mirror changes; its triggers queue what the run must look at.       *)

WriteMail(i, message) ==
  /\ changes < MaxChanges /\ mail[i] # message
  /\ changes' = changes + 1
  /\ mail' = [mail EXCEPT ![i] = message] /\ queue' = queue \cup {i}
  /\ UNCHANGED <<scene, version, stored, subjects>>

(* The retention purge removes a message for good: every survivor of its   *)
(* conversation is queued, and its subject.                                *)
Kin(i) == IF i \in Stored THEN {j \in Stored \ {i} : stored[j].conversation = stored[i].conversation} ELSE {}
Purge(i) ==
  /\ changes < MaxChanges /\ mail[i] # None
  /\ ~AnyVictim /\ i \in Stored => Tied(Edges(stored[i])) \subseteq {i} \cup Kin(i)
  /\ changes' = changes + 1
  /\ queue' = (queue \ {i}) \cup Kin(i)
  /\ subjects' = subjects \cup (IF i \in Stored THEN {stored[i].base} \ {None} ELSE {})
  /\ mail' = [mail EXCEPT ![i] = None] /\ stored' = [stored EXCEPT ![i] = None]
  /\ UNCHANGED <<scene, version>>

ProcessDirtyQueue ==
  \E batch \in SUBSET queue \ {{}} :
    LET closure == ExpandClosure(batch)
        new == Compute(closure, FALSE)
    IN /\ DOMAIN new = closure \* an executor that omits a message throws
       /\ Persist(new)
       /\ subjects' = subjects \cup SubjectKeys(new)
       /\ queue' = queue \ DOMAIN new
       /\ UNCHANGED <<scene, version, changes, mail>>

(* A bucket that cannot produce an edge is dropped unread.                 *)
Inert(base) ==
  LET bucket == {i \in Stored : stored[i].base = base}
  IN /\ \A i \in bucket : stored[i].method # "subject_fallback"
     /\ Cardinality({stored[i].key : i \in {j \in bucket : stored[j].eligible}}) < 2
ProcessSubjectWork ==
  \E base \in subjects :
    /\ queue = {}
    /\ IF Inert(base) THEN UNCHANGED stored
       ELSE LET closure == ExpandClosure({i \in Stored : stored[i].base = base})
                new == Compute(closure, TRUE)
            IN DOMAIN new = closure /\ Persist(new)
    /\ subjects' = subjects \ {base}
    /\ UNCHANGED <<scene, version, changes, mail, queue>>

Next ==
  \/ \E i \in Ids : \E message \in scene[i] : WriteMail(i, message)
  \/ \E i \in Ids : Purge(i)
  \/ ProcessDirtyQueue \/ ProcessSubjectWork
Spec == Init /\ [][Next]_vars

-------------------------------------------------------------------------------
(* What a reader of conversations sees of a set of assignments, weak links *)
(* apart: the delivery, its parent and its conversation.                   *)
Protocol(assignments) ==
  Table([i \in DOMAIN assignments |->
           LET a == assignments[i]
           IN [key |-> a.key, parent |-> a.parentDelivery,
               kin |-> IF a.method \in {"standalone", "subject_fallback"} THEN a.copies
                       ELSE {j \in DOMAIN assignments : assignments[j].conversation = a.conversation}]])
View == IF queue = {} THEN Protocol(Table([i \in Stored |-> stored[i]])) ELSE Owed
Whole(v, rows) == Protocol(Execute(Present(rows), v, FALSE))

(* The incremental drain implements the recomputation of the whole mailbox: *)
(* a closure is never too small, and a drained queue leaves no stale       *)
(* conversation behind (reliability-invariants, "incremental drain and     *)
(* full rebuild").                                                         *)
Full == INSTANCE ThreadView WITH view <- View, Threads <- Whole
DrainIsRebuild == Full!Spec

(* Hostile reply headers never make the parents of messages a circle.      *)
ParentsEnd ==
  LET above == [k \in {stored[i].key : i \in Stored} |-> {stored[i].parentDelivery : i \in {j \in Stored : stored[j].key = k}} \ {None}]
      up[n \in 0..Cardinality(Ids), k \in DOMAIN above] ==
        IF n = 0 THEN above[k] ELSE UNION {up[n - 1, j] : j \in above[k] \cap DOMAIN above}
  IN queue = {} => \A k \in DOMAIN above : up[Cardinality(Ids), k] = {}

(* Only evidence joins: two messages share a conversation when a chain of  *)
(* deliveries ties them, each to the next by an identity only one delivery *)
(* has, or by the provider's thread; never through a forward, a reused     *)
(* Message-ID or a copy whose digests contradict.                          *)
Tokens(ds, d) ==
  LET refs == ds[d].refs
      cut == {n \in 1..Len(refs) : ds[d].chain[n] \in ForwardNodes(ds, version)}
      own == SubSeq(refs, IF cut = {} THEN 1 ELSE Max(cut), Len(refs))
  IN {t \in ({ds[d].mid} \cup ToSet(own)) \ {None} : Cardinality(Owners(ds, t)) <= 1}
Evidence(rows) ==
  LET ds == Collapse(rows, version)
      threaded == {d \in DOMAIN ds : ds[d].thread # None /\ ds[d].node \notin ForwardNodes(ds, version)}
      ids(S) == UNION {ds[d].ids : d \in S}
  IN JoinAll({ds[d].ids : d \in DOMAIN ds},
             {ids({d \in DOMAIN ds : t \in Tokens(ds, d)}) : t \in UNION {Tokens(ds, d) : d \in DOMAIN ds}}
             \cup {ids({d \in threaded : ds[d].thread = t}) : t \in {ds[d].thread : d \in threaded}})
OnlyEvidenceJoins ==
  queue = {} =>
    /\ \A i \in Stored : \E tied \in Evidence(Present(mail)) : View[i].kin \subseteq tied
    /\ \A i, j \in Stored :
         stored[i].key = stored[j].key /\ mail[i].provider = None /\ version = 3
           => Cardinality({mail[i].authored, mail[j].authored} \ {None}) <= 1

(* A weak link stands only while the whole mailbox would make it: once     *)
(* nothing waits, no reply is joined to one of several roots.              *)
WeakIsCertain ==
  queue = {} /\ subjects = {} =>
    LET whole == Execute(Present(mail), version, TRUE)
    IN \A i, j \in Stored :
         stored[i].method = "subject_fallback" /\ stored[i].conversation = stored[j].conversation
           => whole[i].conversation = whole[j].conversation

(* The comment of the purge trigger (0014:576): one survivor of the stored *)
(* component is enough to repair what a purge leaves, roots and copies of  *)
(* other components included.                                              *)
PurgeRepairs ==
  queue = {} /\ subjects = {} =>
    LET whole == Execute(Present(mail), version, FALSE) IN \A i \in Stored : stored[i].key = whole[i].key
===============================================================================
