---------------------------- MODULE MailboxActions ----------------------------
(***************************************************************************)
(* The direct actions on one Mailbox Account (flag, move, delete, save a   *)
(* revised draft) and the body downloads, over the provider's folders and  *)
(* the mirror's rows.  A pass of a folder is one step here (module         *)
(* FolderSync has its steps): it holds the account lock, as an action      *)
(* does; only the body download reads the provider beside it.              *)
(*                                                                         *)
(* A mail is identified by its content.  Other clients move, remove and    *)
(* renumber mail, commands fail, processes die and locks are lost, up to   *)
(* MaxChanges of these.                                                    *)
(***************************************************************************)
EXTENDS Naturals, FiniteSets, Functions

CONSTANTS
  Folders, Drafts, Trash, \* the tracked folders, and what two of them are for
  Old,        \* mail that is there already
  Calls,      \* calls of an action; a call is also the identity of the draft it composes
  Kinds,      \* flag, move (moveMessages), thread (moveThread), trash, expunge, update
  Rows,       \* row ids, 1..n
  MaxChanges,
  NoRow, NoPlace, NoMail, NoOne

Mails == Old \cup Calls
Places == [folder : Folders, gen : Nat, uid : Nat]
MessageRows == [at : Places, mail : Mails, live : BOOLEAN, seen : BOOLEAN,
                body : {"none", "evidence", "stored", "done"}, text : Mails \cup {NoMail}]
ASSUME ActionAssumption ==
  /\ {Drafts, Trash} \subseteq Folders /\ Old \cap Calls = {} /\ NoOne \notin Calls
  /\ IsFiniteSet(Old) /\ Rows \subseteq Nat /\ MaxChanges \in Nat
  /\ Kinds \subseteq {"flag", "flags", "move", "thread", "trash", "expunge", "update"}
  /\ NoRow \notin MessageRows /\ NoPlace \notin Places /\ NoMail \notin Mails

VARIABLES
  box,      \* what the provider holds: [folder, uid, mail]
  gen,      \* UIDVALIDITY of each folder
  next,     \* UIDNEXT of each folder
  flagged,  \* mails with the flag that flag actions set
  rows,     \* imap_messages, by id
  known,    \* the UIDVALIDITY that the mirror has of each folder
  due,      \* folders whose next_reconcile_at has passed
  lock,     \* the account lock
  call,     \* the local variables of each action
  run,      \* the body run
  foreign,  \* history: folders somebody else changed since their last pass
  removed,  \* history: mail that another client removed
  changes

mailbox == <<box, gen, next, flagged>>
mirror == <<rows, known, due>>
history == <<foreign, removed>>
actionVars == <<mailbox, mirror, lock, call, run, history, changes>>

Place(f, g, u) == [folder |-> f, gen |-> g, uid |-> u]
PlaceOf(e) == Place(e.folder, gen[e.folder], e.uid)
Held(at) == {e \in box : PlaceOf(e) = at}
Existing == {r \in Rows : rows[r] # NoRow}
LiveRows == {r \in Existing : rows[r].live}

NoCall == [pc |-> "new", kind |-> "none", dest |-> Drafts, todo |-> {}, changed |-> {}, moved |-> {}, named |-> {},
           filed |-> NoPlace, lost |-> FALSE, silent |-> FALSE]
NoRun == [pc |-> "idle", unit |-> {}, got |-> {}]

Disturb == changes < MaxChanges /\ changes' = changes + 1
MayDisturb(bad) == IF bad THEN Disturb ELSE UNCHANGED changes

-------------------------------------------------------------------------------
(* The mirror's rows.                                                      *)

RowAt(at) == {r \in Existing : rows[r].at = at}
Fresh(e) == [at |-> PlaceOf(e), mail |-> e.mail, live |-> TRUE, seen |-> e.mail \in flagged, body |-> "none", text |-> NoMail]
(* A body is stored in this order, a transaction each: the search and      *)
(* threading evidence, the payload, the completion.                        *)
storeBodyEvidence(row, mail) == [row EXCEPT !.body = "evidence", !.text = mail]
storeBodyPayload(row, mail) == [storeBodyEvidence(row, mail) EXCEPT !.body = "stored"]
completeBodyStorage(row, mail) == [storeBodyPayload(row, mail) EXCEPT !.body = "done"]
Filled(row, stage, mail) ==
  CASE stage = "none" -> row [] stage = "evidence" -> storeBodyEvidence(row, mail)
    [] stage = "stored" -> storeBodyPayload(row, mail) [] stage = "done" -> completeBodyStorage(row, mail)

(* upsertMessages: a row at the same place is read again, else a new id    *)
(* from the table's sequence.                                              *)
LastId == CHOOSE n \in Existing \cup {0} : \A r \in Existing : r <= n
NewIds(es) ==
  LET new == {e \in es : RowAt(PlaceOf(e)) = {}}
  IN [e \in new |-> LastId + 1 + Cardinality({d \in new : d.uid < e.uid})]
Upserted_FlagsKept(es) ==
  LET id == NewIds(es)
  IN [r \in Rows |-> IF \E e \in es : r \in RowAt(PlaceOf(e)) THEN [rows[r] EXCEPT !.live = TRUE]
                     ELSE IF \E e \in DOMAIN id : id[e] = r THEN Fresh(CHOOSE e \in DOMAIN id : id[e] = r) ELSE rows[r]]
Upserted(es) ==
  LET id == NewIds(es)
  IN [r \in Rows |-> IF \E e \in es : r \in RowAt(PlaceOf(e))
                     THEN [rows[r] EXCEPT !.live = TRUE, !.seen = rows[r].mail \in flagged]
                     ELSE IF \E e \in DOMAIN id : id[e] = r THEN Fresh(CHOOSE e \in DOMAIN id : id[e] = r) ELSE rows[r]]
Tombstone(rs, S) == [r \in Rows |-> IF r \in S THEN [rs[r] EXCEPT !.live = FALSE] ELSE rs[r]]

markFoldersForReconcile(paths) == due' = due \cup paths

(* relocateMovedMessage: only the row still at the source, into a tracked  *)
(* generation, where no row is yet.                                        *)
Relocatable(t) ==
  /\ t.new # NoPlace /\ rows[t.id] # NoRow /\ rows[t.id].at = t.at
  /\ known[t.new.folder] = t.new.gen /\ RowAt(t.new) = {}

ActionInit ==
  /\ next = [f \in Folders |-> Cardinality(Old) + 1]
  /\ \E there \in (SUBSET Old) \ {{}}, where \in [Old -> Folders] :
       LET uid == CHOOSE b \in Bijection(there, 1..Cardinality(there)) : TRUE
           at == AntiFunction(uid)
       IN
       /\ box = {[folder |-> where[m], uid |-> uid[m], mail |-> m] : m \in there} /\ removed = Old \ there
       /\ rows = [r \in Rows |-> IF r \notin DOMAIN at THEN NoRow
            ELSE [at |-> Place(where[at[r]], 1, r), mail |-> at[r], live |-> TRUE, seen |-> FALSE, body |-> "none", text |-> NoMail]]
  /\ gen = [f \in Folders |-> 1] /\ flagged = {} /\ known = gen /\ due = {} /\ lock = NoOne
  /\ call = [a \in Calls |-> NoCall] /\ run = NoRun /\ foreign = {} /\ changes = 0

-------------------------------------------------------------------------------
(* The provider's side, and the passes that mirror it.                     *)

(* Another client moves or removes a mail, or the server renumbers.        *)
MovedTo(es, dest) ==
  {[folder |-> dest, uid |-> next[dest] + Cardinality({d \in es : d.uid < e.uid}), mail |-> e.mail] : e \in es}
Elsewhere ==
  /\ Disturb
  /\ \E e \in box :
       \/ \E dest \in Folders \ {e.folder} :
            /\ box' = (box \ {e}) \cup MovedTo({e}, dest) /\ next' = [next EXCEPT ![dest] = @ + 1]
            /\ foreign' = foreign \cup {e.folder, dest} /\ UNCHANGED removed
       \/ box' = box \ {e} /\ removed' = removed \cup {e.mail} /\ foreign' = foreign \cup {e.folder} /\ UNCHANGED next
  /\ UNCHANGED <<gen, flagged, mirror, lock, call, run>>
Renumber ==
  /\ Disturb
  /\ \E f \in Folders, uid \in [Old -> 1..Cardinality(Old)] :
       LET here == {e \in box : e.folder = f} IN
       /\ IsInjective(uid) /\ here # {} /\ {e.mail : e \in here} \subseteq Old
       /\ box' = (box \ here) \cup {[e EXCEPT !.uid = uid[e.mail]] : e \in here}
       /\ gen' = [gen EXCEPT ![f] = @ + 1] /\ next' = [next EXCEPT ![f] = Cardinality(Old) + 1]
       /\ foreign' = foreign \cup {f}
  /\ UNCHANGED <<flagged, mirror, lock, call, run, removed>>

(* A pass of a folder: a reset, or an exact reconcile.  Every folder falls *)
(* due by itself after six hours, so a pass may come at any time.          *)
Reset(f) ==
  /\ rows' = Tombstone(rows, {r \in LiveRows : rows[r].at.folder = f})
  /\ known' = [known EXCEPT ![f] = gen[f]]
  /\ UNCHANGED <<due, foreign>>
Reconcile(f) ==
  LET gone == {r \in LiveRows : rows[r].at.folder = f /\ Held(rows[r].at) = {}}
  IN /\ rows' = Tombstone(Upserted({e \in box : e.folder = f}), gone)
     /\ due' = due \ {f} /\ foreign' = foreign \ {f} /\ UNCHANGED known
Sync(f) ==
  /\ lock = NoOne
  /\ IF known[f] # gen[f] THEN Reset(f) ELSE Reconcile(f)
  /\ UNCHANGED <<mailbox, lock, call, run, removed, changes>>

-------------------------------------------------------------------------------
(* A direct action.                                                        *)

At(a, stage) == call[a].pc = stage
Becomes(a, record) == call' = [call EXCEPT ![a] = record]
Release(a) == lock' = IF lock = a THEN NoOne ELSE lock
Ended(a) == [NoCall EXCEPT !.pc = "ended", !.kind = call[a].kind, !.named = call[a].named, !.silent = call[a].silent]
Targets(ids) == {[id |-> r, at |-> rows[r].at] : r \in ids}
In(ts) == {t.at.folder : t \in ts}

(* What each verb takes on, and the folders it makes due under the lock    *)
(* before its first provider command.  A move leaves out what is in its    *)
(* destination already.                                                    *)
Request(todo, dest, paths) == [todo |-> todo, dest |-> dest, changed |-> paths]
setMessageFlags(ts) == Request(ts, Trash, {})
setThreadFlags(ts) == Request(ts, Trash, {})
Away(ts, dest) == {t \in ts : t.at.folder # dest}
moveMessages(ts, dest) == Request(Away(ts, dest), dest, In(Away(ts, dest)) \cup {dest})
moveThread(ts, dest) == Request(Away(ts, dest), dest, In(Away(ts, dest)) \cup {dest})
deleteMessage_Moved(ts, hard) == Request(ts, Trash, IF hard THEN {} ELSE In(ts) \cup {Trash})
deleteMessage(ts, hard) == Request(ts, Trash, IF hard THEN In(ts) ELSE In(ts) \cup {Trash})
updateDraft(ts) == Request(ts, Trash, {Drafts})

(* Before the lock: loadMessageAndAccount, or resolveThreadTargets, whose  *)
(* conversation may be any live rows.                                      *)
Single == {"flag", "trash", "expunge", "update"}
Requested(k, ids, dest) ==
  LET ts == Targets(ids) IN
  CASE k = "flag"    -> setMessageFlags(ts)
    [] k = "flags"   -> setThreadFlags(ts)
    [] k = "move"    -> moveMessages(ts, dest)
    [] k = "thread"  -> moveThread(ts, dest)
    [] k = "trash"   -> deleteMessage(ts, FALSE)
    [] k = "expunge" -> deleteMessage(ts, TRUE)
    [] k = "update"  -> updateDraft(ts)
Start(a) ==
  /\ At(a, "new")
  /\ \E k \in Kinds, ids \in (SUBSET LiveRows) \ {{}}, dest \in Folders :
       /\ k \in Single => Cardinality(ids) = 1
       /\ k \notin {"move", "thread"} => dest = Trash
       /\ k = "update" => \A r \in ids : rows[r].at.folder = Drafts
       /\ LET req == Requested(k, ids, dest)
          IN /\ req.todo # {}
             /\ Becomes(a, [NoCall EXCEPT !.pc = "wait", !.kind = k, !.dest = dest, !.todo = req.todo,
                                          !.changed = req.changed, !.named = {rows[r].mail : r \in ids}])
  /\ UNCHANGED <<mailbox, mirror, lock, run, history, changes>>

(* A delete of what is in Trash already ends at once.                      *)
AlreadyInTrash(a) == call[a].kind = "trash" /\ In(call[a].todo) = {Trash}
Acquire(a) ==
  /\ At(a, "wait") /\ lock = NoOne
  /\ IF AlreadyInTrash(a)
     THEN Becomes(a, Ended(a)) /\ UNCHANGED <<lock, due>>
     ELSE /\ lock' = a /\ markFoldersForReconcile(call[a].changed)
          /\ Becomes(a, [call[a] EXCEPT !.pc = IF call[a].kind = "update" THEN "append" ELSE "command"])
  /\ UNCHANGED <<mailbox, rows, known, run, history, changes>>
Busy(a) ==
  /\ At(a, "wait") /\ lock # NoOne /\ Becomes(a, Ended(a))
  /\ UNCHANGED <<mailbox, mirror, lock, run, history, changes>>

(* One provider command: moveMessages sends one for each folder, the       *)
(* others one for each message.                                            *)
Batch(a, t) == IF call[a].kind = "move"
               THEN {o \in call[a].todo : o.at.folder = t.at.folder /\ o.at.gen = t.at.gen} ELSE {t}
(* withUidScope *)
UidScope_Trusting(t) == TRUE
UidScope(t) == gen[t.at.folder] = t.at.gen
Hits(batch) == {e \in box : \E t \in batch : e.folder = t.at.folder /\ e.uid = t.at.uid}
Hit(t) == \E e \in box : e.folder = t.at.folder /\ e.uid = t.at.uid
NewPlace(batch, t, dest) ==
  Place(dest, gen[dest], next[dest] + Cardinality({e \in Hits(batch) : e.uid < t.at.uid}))

(* What the command changed besides its own folders' due marks is foreign  *)
(* when the lock was gone.                                                 *)
Touched(a, paths) == foreign' = IF call[a].lost THEN foreign \cup paths ELSE foreign
Written(a, batch, new(_)) ==
  Becomes(a, [call[a] EXCEPT !.pc = "write", !.todo = @ \ batch, !.silent = @ \/ \E t \in batch : ~Hit(t),
                             !.moved = {[id |-> t.id, at |-> t.at, new |-> new(t)] : t \in batch}])

StoreFlag(a, t) ==
  /\ call[a].kind \in {"flag", "flags"} /\ UidScope(t)
  /\ flagged' = flagged \cup {e.mail : e \in Hits({t})}
  /\ Written(a, {t}, LAMBDA x : NoPlace)
  /\ UNCHANGED <<box, gen, next, history, changes>>
Move(a, t) ==
  LET batch == Batch(a, t) dest == call[a].dest IN
  /\ call[a].kind \in {"move", "thread", "trash"} /\ UidScope(t)
  /\ box' = (box \ Hits(batch)) \cup MovedTo(Hits(batch), dest)
  /\ next' = [next EXCEPT ![dest] = @ + Cardinality(Hits(batch))]
  /\ Touched(a, {t.at.folder, dest})
  /\ \E copyuid \in BOOLEAN :
       Written(a, batch, LAMBDA x : IF copyuid /\ Hit(x) THEN NewPlace(batch, x, dest) ELSE NoPlace)
  /\ UNCHANGED <<gen, flagged, removed, changes>>
Expunge(a, t) ==
  /\ call[a].kind \in {"expunge", "update"} /\ UidScope(t)
  /\ box' = box \ Hits({t}) /\ Touched(a, {t.at.folder})
  /\ Written(a, {t}, LAMBDA x : NoPlace)
  /\ UNCHANGED <<gen, next, flagged, removed, changes>>

(* A refused or failed command.  moveMessages goes on with the next        *)
(* folder; the others end.  A MOVE may also fail after its COPY.           *)
Fails(a, t) ==
  /\ ~UidScope(t) \/ changes < MaxChanges
  /\ MayDisturb(UidScope(t))
  /\ LET left == call[a].todo \ Batch(a, t)
     IN IF call[a].kind = "move" /\ left # {} THEN Becomes(a, [call[a] EXCEPT !.todo = left]) /\ UNCHANGED lock
        ELSE Becomes(a, Ended(a)) /\ Release(a)
  /\ \/ UNCHANGED <<mailbox, history>>
     \/ /\ UidScope(t) /\ call[a].kind \in {"move", "thread", "trash"}
        /\ box' = box \cup MovedTo(Hits(Batch(a, t)), call[a].dest)
        /\ next' = [next EXCEPT ![call[a].dest] = @ + Cardinality(Hits(Batch(a, t)))]
        /\ Touched(a, {t.at.folder, call[a].dest}) /\ UNCHANGED <<gen, flagged, removed>>

Command(a) ==
  /\ At(a, "command")
  /\ \E t \in call[a].todo :
       \/ (StoreFlag(a, t) \/ Move(a, t) \/ Expunge(a, t)) /\ UNCHANGED lock
       \/ Fails(a, t)
  /\ UNCHANGED <<mirror, run>>

(* Writing one confirmed message through.  A write that fails, or whose    *)
(* lock is gone (fenceWrites), is only logged.                             *)
Follows(a, t) == call[a].kind \in {"move", "thread"} /\ Relocatable(t)
applyMessageFlags(S) == [r \in Rows |-> IF r \in S THEN [rows[r] EXCEPT !.seen = TRUE] ELSE rows[r]]
relocateMovedMessage(moved) ==
  [r \in Rows |-> IF \E t \in moved : t.id = r
                  THEN [rows[r] EXCEPT !.live = TRUE, !.at = (CHOOSE t \in moved : t.id = r).new] ELSE rows[r]]
markMessageRemovedByProvider(rs, ts) == Tombstone(rs, UNION {RowAt(t.at) : t \in ts})
WrittenThrough(a, ok) ==
  LET moved == {t \in ok : Follows(a, t)}
  IN IF call[a].kind \in {"flag", "flags"} THEN applyMessageFlags({t.id : t \in ok})
     ELSE markMessageRemovedByProvider(relocateMovedMessage(moved), ok \ moved)
(* A batch is written message by message; some writes may fail, or the     *)
(* process may die before them.                                            *)
Write(a) ==
  /\ At(a, "write")
  /\ \E ok \in SUBSET call[a].moved, dies \in BOOLEAN :
       /\ call[a].lost => ok = {} /\ ~dies
       /\ MayDisturb(dies \/ (ok # call[a].moved /\ ~call[a].lost))
       /\ rows' = WrittenThrough(a, ok)
       /\ IF dies \/ call[a].todo = {} THEN Becomes(a, Ended(a)) /\ Release(a)
          ELSE Becomes(a, [call[a] EXCEPT !.moved = {}, !.pc = "command"]) /\ UNCHANGED lock
  /\ UNCHANGED <<mailbox, known, due, run, history>>

(* updateDraft: file the revised draft, mirror it from its APPENDUID, then *)
(* load the old one again, mark its folder and remove it.                  *)
Append(a) ==
  /\ At(a, "append")
  /\ LET e == [folder |-> Drafts, uid |-> next[Drafts], mail |-> a] IN
     /\ box' = box \cup {e} /\ next' = [next EXCEPT ![Drafts] = @ + 1] /\ Touched(a, {Drafts})
     /\ \E uid \in BOOLEAN : Becomes(a, [call[a] EXCEPT !.pc = "mirror", !.filed = IF uid THEN PlaceOf(e) ELSE NoPlace])
  /\ UNCHANGED <<gen, flagged, mirror, lock, run, removed, changes>>
mirrorFiledMessage(a) ==
  LET at == call[a].filed
      qualifies == at # NoPlace /\ known[Drafts] = at.gen /\ Held(at) # {} /\ ~call[a].lost
  IN
  /\ At(a, "mirror")
  /\ IF ~qualifies THEN UNCHANGED <<rows, changes>>
     ELSE \E stage \in {"none", "evidence", "stored", "done"} :
            /\ MayDisturb(stage # "done")
            /\ rows' = [r \in Rows |-> LET row == Upserted(Held(at))[r] IN
                 IF row # NoRow /\ row.at = at THEN Filled(row, stage, a) ELSE row]
  /\ Becomes(a, [call[a] EXCEPT !.pc = "reload"])
  /\ UNCHANGED <<mailbox, known, due, lock, run, history>>
Reload(a) ==
  /\ At(a, "reload")
  /\ LET r == (CHOOSE t \in call[a].todo : TRUE).id IN
     IF r \in LiveRows /\ ~call[a].lost
     THEN /\ Becomes(a, [call[a] EXCEPT !.pc = "command", !.todo = Targets({r})])
          /\ markFoldersForReconcile({rows[r].at.folder}) /\ UNCHANGED lock
     ELSE Becomes(a, Ended(a)) /\ Release(a) /\ UNCHANGED due
  /\ UNCHANGED <<mailbox, rows, known, run, history, changes>>

(* The process dies, the caller aborts, or the session that holds the lock *)
(* is lost while the action goes on.                                       *)
Crash(a) ==
  /\ call[a].pc \in {"command", "append", "mirror", "reload"} /\ Disturb /\ Becomes(a, Ended(a)) /\ Release(a)
  /\ UNCHANGED <<mailbox, mirror, run, history>>
LoseLock(a) ==
  /\ lock = a /\ Disturb /\ lock' = NoOne /\ Becomes(a, [call[a] EXCEPT !.lost = TRUE])
  /\ UNCHANGED <<mailbox, mirror, run, history>>

Act(a) == Command(a) \/ Write(a) \/ Append(a) \/ mirrorFiledMessage(a) \/ Reload(a)

-------------------------------------------------------------------------------
(* The body run: one at a time, downloads beside the account lock.         *)

RunBecomes(record) == run' = record
Backlog_Unsearched == {r \in LiveRows : rows[r].body = "none"}
Backlog == {r \in LiveRows : rows[r].body # "done"}
(* One message, or a batch of one folder.                                  *)
nextBodyUnit(ids) == \A r, s \in ids : rows[r].at.folder = rows[s].at.folder
BodyStart ==
  /\ run.pc = "idle"
  /\ \E ids \in (SUBSET Backlog) \ {{}} :
       nextBodyUnit(ids) /\ RunBecomes([NoRun EXCEPT !.pc = "fetch", !.unit = Targets(ids)])
  /\ UNCHANGED <<mailbox, mirror, lock, call, history, changes>>
(* A UID that a batch FETCH leaves out is asked for alone; only that says  *)
(* that it is gone.  A folder renumbered under the row ends the unit.      *)
fetchFullMessageBody(t) == [id |-> t.id, at |-> t.at, mail |-> IF Held(t.at) = {} THEN NoMail ELSE (CHOOSE e \in Held(t.at) : TRUE).mail]
downloadBodyUnit ==
  /\ run.pc = "fetch"
  /\ \E t \in run.unit :
       IF ~UidScope(t) THEN RunBecomes(NoRun)
       ELSE RunBecomes([run EXCEPT !.unit = @ \ {t}, !.got = @ \cup {fetchFullMessageBody(t)},
                                   !.pc = IF run.unit = {t} THEN "commit" ELSE "fetch"])
  /\ UNCHANGED <<mailbox, mirror, lock, call, history, changes>>
(* commitBodies, in one hold of the lock: what came back gone, then every  *)
(* evidence, then payload and completion message by message.  A crash      *)
(* leaves some of them half way.                                           *)
markMessageGone_ById(g) == g.mail = NoMail /\ g.id \in LiveRows
markMessageGone(g) == g.mail = NoMail /\ g.id \in LiveRows /\ rows[g.id].at = g.at
Storable(g) == g.mail # NoMail /\ g.id \in Backlog
commitBodies ==
  /\ run.pc = "commit" /\ lock = NoOne
  /\ LET gone == {g.id : g \in {h \in run.got : markMessageGone(h)}}
         good == {g \in run.got : Storable(g)}
     IN \E cut \in SUBSET good, stage \in {"evidence", "stored"} :
          /\ MayDisturb(cut # {}) /\ (cut = {} => stage = "stored")
          /\ rows' = [r \in Rows |->
               IF r \in gone THEN [rows[r] EXCEPT !.live = FALSE]
               ELSE IF \E g \in good : g.id = r
               THEN LET g == CHOOSE h \in good : h.id = r IN Filled(rows[r], IF g \in cut THEN stage ELSE "done", g.mail)
               ELSE rows[r]]
  /\ RunBecomes(NoRun)
  /\ UNCHANGED <<mailbox, known, due, lock, call, history>>
(* The run fails, stops at its budget, finds the lock busy, or dies.       *)
BodyStops ==
  /\ run.pc # "idle" /\ RunBecomes(NoRun)
  /\ MayDisturb(~(run.pc = "commit" /\ lock # NoOne))
  /\ UNCHANGED <<mailbox, mirror, lock, call, history>>

Bodies == BodyStart \/ downloadBodyUnit
ActionNext ==
  \/ Elsewhere \/ Renumber \/ Bodies \/ commitBodies \/ BodyStops
  \/ \E f \in Folders : Sync(f)
  \/ \E a \in Calls : Start(a) \/ Acquire(a) \/ Busy(a) \/ Act(a) \/ Crash(a) \/ LoseLock(a)

(* A process runs on, a waiting action is granted the lock or told that    *)
(* the account is busy; passes and body runs recur.                        *)
ActionFairness ==
  /\ WF_actionVars(\E a \in Calls : Act(a) \/ Acquire(a) \/ Busy(a))
  /\ \A f \in Folders : WF_actionVars(Sync(f))
  /\ WF_actionVars(Bodies \/ commitBodies)

-------------------------------------------------------------------------------
(* Properties.                                                             *)

(* A row's id, as long as it is live, names the mail it was made for: no   *)
(* move, renumbering or download may attach it to another one.             *)
IdsKeepTheirMail ==
  /\ \A r \in LiveRows : \A e \in Held(rows[r].at) : e.mail = rows[r].mail
  /\ \A r, s \in Existing : rows[r].at = rows[s].at => r = s
(* What the mirror calls gone is gone from that UID.                       *)
GoneIsGone == \A r \in Existing \ LiveRows : Held(rows[r].at) = {}
(* A body belongs to its row's mail.                                       *)
BodiesAreTheirs == \A r \in Existing : rows[r].body # "none" => rows[r].text = rows[r].mail

(* The mirror never says what the provider never held: a live id names its *)
(* mail, a tombstone a vacant UID, and a body the mail of its row, however *)
(* actions, passes, downloads and other clients interleave                 *)
(* (relocateMovedMessage, commitBodies, withUidScope).                     *)
MirrorTrue == IdsKeepTheirMail /\ GoneIsGone /\ BodiesAreTheirs

(* Mail leaves the provider only when another client removed it, or an     *)
(* action was asked to delete that very mail; a draft only once its        *)
(* revision is filed (withUidScope, updateDraft).                          *)
Present == {e.mail : e \in box}
Asked == UNION {call[a].named : a \in {c \in Calls : call[c].kind \in {"expunge", "update"}}}
OnlyAskedIsRemoved ==
  \A m \in Old \ (Present \cup removed) : \E a \in Calls :
    /\ m \in call[a].named
    /\ \/ call[a].kind = "expunge"
       \/ call[a].kind = "update" /\ a \in Present \cup removed \cup Asked

(* An action neither loses mail nor makes the mirror tell of mail that is  *)
(* not there: both at once, whatever fails or interleaves.                 *)
NothingLostNorInvented == MirrorTrue /\ OnlyAskedIsRemoved

(* After an action, however it ended, a folder whose membership the mirror *)
(* does not have right is durably due, unless somebody outside the lock    *)
(* changed it ("durably due before the provider command").                 *)
Mirrored(f) == {rows[r].at : r \in {s \in LiveRows : rows[s].at.folder = f}}
DueCovers ==
  lock \notin Calls =>
    \A f \in Folders \ (due \cup foreign) : Mirrored(f) = {PlaceOf(e) : e \in {d \in box : d.folder = f}}

(* When the disturbances end, the mirror has the provider's mail with its  *)
(* flags, and every body.                                                  *)
Agrees ==
  /\ known = gen /\ \A f \in Folders : Mirrored(f) = {PlaceOf(e) : e \in {d \in box : d.folder = f}}
  /\ \A r \in LiveRows : rows[r].seen <=> rows[r].mail \in flagged
Complete == \A r \in LiveRows : rows[r].body = "done"

(* What a comment says of the actions: callers and the write-through never *)
(* proceed on a silent no-op.                                              *)
NoSilentNoOp == \A a \in Calls : ~call[a].silent
===============================================================================
