------------------------------ MODULE InboxFeed ------------------------------
(***************************************************************************)
(* The change feed of a reusable Inbox IDLE session and the session itself *)
(* (inbox-idle.ts): what the provider tells or answers about each mailbox, *)
(* what the feed keeps as its baseline, as a pending change and as a       *)
(* recovery marker, and the live pass that peeks at the feed, works and    *)
(* acknowledges (sync-engine.ts).  The host that calls wait, the live pass *)
(* and verifyMailboxChanges in turn is external (docs/spec-conformance.md  *)
(* and ADR 0032 say what it does).                                         *)
(*                                                                         *)
(* A mailbox is three counters: messages arrived, messages gone, flag      *)
(* changes.  Its STATUS is derived from them.  The field "flags" of a      *)
(* status is HIGHESTMODSEQ on a server with CONDSTORE and UNSEEN on one    *)
(* without, which SELECT does not answer.  When the session opens, every   *)
(* folder is seeded with its persisted cursor; INBOX is not, so its first  *)
(* status becomes its baseline.                                            *)
(***************************************************************************)
EXTENDS Integers, FiniteSets

CONSTANTS
  Inbox, Folders,  \* INBOX and the other tracked paths
  Servers,         \* what a server may be: [condstore, qresync, notify, listed]
  Batch,           \* MAX_PRIORITY_FOLDERS_PER_CYCLE + MAX_RR_FOLDERS_PER_CYCLE
  MaxChanges,      \* bound on provider changes
  MaxFaults        \* bound on failures, lost events, overflows, early ends of IDLE

Paths == Folders \cup {Inbox}
ASSUME FeedAssumption ==
  /\ Inbox \notin Folders /\ IsFiniteSet(Folders) /\ Batch \in Nat \ {0}
  /\ MaxChanges \in Nat /\ MaxFaults \in Nat
  /\ Servers \subseteq [condstore : BOOLEAN, qresync : BOOLEAN, notify : BOOLEAN, listed : BOOLEAN]

VARIABLES
  server,    \* the server of this session; listed is listStatusEnabled
  provider,  \* per path: arrived, gone, flagged
  mirror,    \* per path: the provider counters that the database has proved
  known,     \* history: per path, the counters the session was told about
  taken,     \* history: per path, what a first status made the baseline unasked
  baseline,  \* the feed's baseline per path
  pending,   \* the feed's pending change per path, or NoChange
  marks,     \* unverifiableReconcilePaths, unverifiableEventFlagPaths, unverifiedFlagStatusPaths
  phase,     \* who drives the session
  duty,      \* what the host owes next: "wait", "pass" or "verify"
  deferred,  \* deferredNotifyWake and deferredEventWake that are set
  queued,    \* a wake waits for its microtask
  overflow,  \* reconnectAfterNotifyOverflow
  probe,     \* probeCursor: the folders that this round of bounded STATUS has still to read
  snap,      \* statuses read and not yet observed
  pass,      \* the live pass: changes still held, folders to do, results; and the selected mailbox
  budget     \* changes and faults used
feedVars == <<baseline, pending, marks, known, taken>>
sessionVars == <<phase, duty, deferred, queued, overflow, probe, snap>>
vars == <<server, provider, mirror, feedVars, sessionVars, pass, budget>>

Unknown == -1
NoChange == [reconcile |-> FALSE, scan |-> FALSE, observed |-> <<>>]
Counters == [arrived |-> 1, gone |-> 0, flagged |-> 0]
Modseq(c) == c.arrived + c.gone + c.flagged
StatusOf(c) ==
  [next |-> c.arrived, messages |-> c.arrived - c.gone, cursor |-> FALSE,
   flags |-> IF server.condstore THEN Modseq(c) ELSE c.arrived - c.flagged]
(* What SELECT shows: no UNSEEN.                                           *)
SelectOf(c) == [StatusOf(c) EXCEPT !.flags = IF server.condstore THEN @ ELSE Unknown]
Nothing == [next |-> Unknown, messages |-> Unknown, flags |-> Unknown, cursor |-> FALSE]
NoPass == [held |-> {}, todo |-> {}, selected |-> {}, seen |-> <<>>]
Dirty == {p \in Paths : pending[p] # NoChange}
Notifying == server.notify /\ ~overflow
Alive == phase # "closed"
Fault == budget.faults < MaxFaults /\ budget' = [budget EXCEPT !.faults = @ + 1]

-------------------------------------------------------------------------------
(* SessionMailboxChangeFeed.                                               *)

Differs(a, b) == a # Unknown /\ b # Unknown /\ a # b
SameKnown(a, b) ==
  ~Differs(a.next, b.next) /\ ~Differs(a.messages, b.messages) /\ ~Differs(a.flags, b.flags)
(* The fields of b where they are known, else those of a.                  *)
Over(a, b) ==
  [f \in DOMAIN a |-> IF f # "cursor" /\ b[f] # Unknown THEN b[f] ELSE a[f]]
Detected(base, seen) ==
  [reconcile |-> Differs(base.next, seen.next) \/ Differs(base.messages, seen.messages)
                 \/ (server.condstore /\ base.messages = Unknown /\ Differs(base.flags, seen.flags)),
   scan |-> Differs(base.flags, seen.flags), observed |-> seen]
Latest(p) == IF pending[p] = NoChange THEN baseline[p] ELSE Over(baseline[p], pending[p].observed)
Also(change, old) ==
  [change EXCEPT !.reconcile = @ \/ old.reconcile, !.scan = @ \/ old.scan]

(* observe without a baseline: the status is the baseline, in silence      *)
(* unless a change was pending already.                                    *)
First_Settles(old, status) == [base |-> status, told |-> FALSE, change |-> NoChange]
First(old, status) ==
  [base |-> status, told |-> old # NoChange,
   change |-> IF old = NoChange THEN NoChange ELSE [old EXCEPT !.observed = status]]
(* observe: the new baseline and pending change of p; "told" when observe  *)
(* returns a change.                                                       *)
Observed(p, status, initializing) ==
  LET base == baseline[p]  old == pending[p]
      seen == [Over(Latest(p), status) EXCEPT !.cursor = FALSE]
      found == Detected(base, seen)
      comparable == base.flags # Unknown /\ seen.flags # Unknown /\ server.condstore
      current == server.qresync /\ server.condstore /\ seen.flags = Modseq(Counters)
  IN IF base = Nothing THEN First(pending[p], status)
     ELSE IF old # NoChange /\ SameKnown(old.observed, seen)
       THEN [base |-> base, told |-> FALSE,
             change |-> IF initializing THEN [old EXCEPT !.observed = seen] ELSE old]
     ELSE IF old = NoChange /\ base.cursor /\ ~current
       THEN [base |-> base, told |-> TRUE,
             change |-> [found EXCEPT !.reconcile = TRUE, !.scan = @ \/ ~comparable]]
     ELSE IF old = NoChange /\ SameKnown(base, seen)
       THEN [base |-> seen, told |-> FALSE, change |-> NoChange]
     ELSE [base |-> base, told |-> TRUE, change |-> Also(found, old)]

(* signal: the pending change after reconcile, scan and status are added.  *)
Signalled(p, reconcile, scan, status) ==
  Also([reconcile |-> reconcile, scan |-> scan, observed |-> Over(Latest(p), status)], pending[p])
(* signalEvent: what the data of an event says.                            *)
EventStatus(p, kind, c) ==
  CASE kind = "exists" -> [Nothing EXCEPT !.messages = c.arrived - c.gone]
    [] kind = "expunge" -> [Nothing EXCEPT !.messages =
         LET m == Latest(p).messages IN IF m = Unknown THEN m ELSE IF m = 0 THEN 0 ELSE m - 1]
    [] kind = "flags" -> [Nothing EXCEPT !.flags = IF server.condstore THEN Modseq(c) ELSE Unknown]
SignalEvent(p, kind, c) ==
  /\ pending' = [pending EXCEPT ![p] = Signalled(p, kind = "expunge", kind = "flags", EventStatus(p, kind, c))]
  /\ marks' = IF kind = "flags" /\ ~server.condstore THEN [marks EXCEPT !.event = @ \cup {p}] ELSE marks
  /\ UNCHANGED <<baseline, taken>>

(* acknowledgeWithStatuses: the baseline accepts a field only when the     *)
(* pass proved it, and leaves a marker for what it did not prove.          *)
Acknowledged(p, done) ==
  LET was == pending[p].observed IN
  [next |-> done.status.next, cursor |-> was.cursor,
   messages |-> IF done.reconciled THEN done.status.messages ELSE was.messages,
   flags |-> IF done.scanned /\ done.status.flags # Unknown THEN done.status.flags ELSE was.flags]
Unproved_Trusted(handled, seen) ==
  [reconcile |-> marks.reconcile \ handled,
   event |-> IF server.condstore THEN marks.event \ handled ELSE marks.event,
   status |-> marks.status \ {p \in handled : seen[p].scanned}]
Compared(seen, p) == seen[p].scanned /\ seen[p].status.flags # Unknown
Unproved(handled, seen) ==
  LET reconciled == {p \in handled : seen[p].reconciled}  scanned == {p \in handled : Compared(seen, p)}
  IN [reconcile |-> (marks.reconcile \ reconciled) \cup (handled \ reconciled),
      event |-> IF server.condstore THEN marks.event \ scanned ELSE marks.event,
      status |-> (marks.status \ scanned) \cup (handled \ scanned)]

(* What the session now knows of p, from a status or from an event.        *)
LearnAll(k, c) ==
  [arrived |-> IF k.arrived < c.arrived THEN c.arrived ELSE k.arrived,
   gone |-> IF k.gone < c.gone THEN c.gone ELSE k.gone,
   flagged |-> IF server.condstore /\ k.flagged < c.flagged THEN c.flagged ELSE k.flagged]
Learn(k, c, kind) ==
  [k EXCEPT !.arrived = IF kind = "exists" THEN c.arrived ELSE @,
            !.gone = IF kind = "expunge" THEN c.gone ELSE @,
            !.flagged = IF kind = "flags" THEN c.flagged ELSE @]

Higher(a, b) == IF a < b THEN b ELSE a
(* The first status of p is observed while c is what the mailbox has:      *)
(* nothing will ask for what it shows, but for what a change asks already. *)
Take(p, c) ==
  IF baseline[p] # Nothing THEN taken[p]
  ELSE [arrived |-> IF pending[p] = NoChange THEN Higher(taken[p].arrived, c.arrived) ELSE taken[p].arrived,
        gone |-> IF pending[p] = NoChange THEN Higher(taken[p].gone, c.gone) ELSE taken[p].gone,
        flagged |-> IF pending[p].scan THEN taken[p].flagged ELSE Higher(taken[p].flagged, c.flagged)]
(* What nobody owes any more: the mirror has it, or it was taken.          *)
Covered(p) ==
  [arrived |-> Higher(mirror[p].arrived, taken[p].arrived),
   gone |-> Higher(mirror[p].gone, taken[p].gone), flagged |-> Higher(mirror[p].flagged, taken[p].flagged)]

-------------------------------------------------------------------------------
FeedInit ==
  /\ server \in Servers
  /\ provider = [p \in Paths |-> Counters] /\ mirror = provider /\ known = provider /\ taken = provider
  /\ baseline = [p \in Paths |-> Nothing] /\ pending = [p \in Paths |-> NoChange]
  /\ marks = [reconcile |-> {}, event |-> {}, status |-> {}]
  /\ phase = "away" /\ duty = "wait" /\ deferred = {} /\ queued = FALSE /\ overflow = FALSE
  /\ probe = Folders /\ snap = <<>> /\ pass = NoPass /\ budget = [changes |-> 0, faults |-> 0]

Kinds(c) == {"exists"} \cup (IF c.gone < c.arrived THEN {"expunge"} ELSE {})
                       \cup (IF c.flagged < c.arrived THEN {"flags"} ELSE {})
After(c, kind) == CASE kind = "exists" -> [c EXCEPT !.arrived = @ + 1]
                    [] kind = "expunge" -> [c EXCEPT !.gone = @ + 1]
                    [] kind = "flags" -> [c EXCEPT !.flagged = @ + 1]
(* wake, onStatus: a wake is queued while the session idles, else deferred. *)
Hint(why) == IF phase = "idle" THEN queued' = TRUE /\ UNCHANGED deferred
             ELSE deferred' = deferred \cup {why} /\ UNCHANGED queued

(* A mailbox changes; the session hears of it as an event of the selected  *)
(* mailbox, as an unsolicited STATUS of NOTIFY, or not at all.             *)
Changes(p, kind) ==
  /\ budget.changes < MaxChanges /\ kind \in Kinds(provider[p])
  /\ provider' = [provider EXCEPT ![p] = After(@, kind)]
Heard(p, kind) ==
  /\ p \in pass.selected /\ Alive /\ Changes(p, kind) /\ budget' = [budget EXCEPT !.changes = @ + 1]
  /\ SignalEvent(p, kind, provider'[p]) /\ known' = [known EXCEPT ![p] = Learn(@, provider'[p], kind)]
  /\ Hint("event") /\ pass' = [pass EXCEPT !.held = @ \ {p}]
  /\ UNCHANGED <<server, mirror, phase, duty, overflow, probe, snap>>
Notified(p, kind) ==
  /\ p \in Folders \ pass.selected /\ Notifying /\ Alive /\ phase # "away"
  /\ Changes(p, kind) /\ budget' = [budget EXCEPT !.changes = @ + 1]
  /\ LET o == Observed(p, StatusOf(provider'[p]), phase = "opening") IN
     /\ baseline' = [baseline EXCEPT ![p] = o.base] /\ pending' = [pending EXCEPT ![p] = o.change]
     /\ IF o.told THEN Hint("notify") /\ pass' = [pass EXCEPT !.held = @ \ {p}]
                  ELSE UNCHANGED <<deferred, queued, pass>>
  /\ known' = [known EXCEPT ![p] = LearnAll(@, provider'[p])]
  /\ UNCHANGED <<server, mirror, taken, marks, phase, duty, overflow, probe, snap>>
(* Nothing is selected that would tell, or the event is lost.              *)
Unheard(p, kind) ==
  /\ Changes(p, kind) /\ ~(p \in Folders /\ Notifying /\ phase # "away")
  /\ budget' = [changes |-> budget.changes + 1, faults |-> budget.faults + (IF p \in pass.selected THEN 1 ELSE 0)]
  /\ budget'.faults <= MaxFaults
  /\ UNCHANGED <<server, mirror, feedVars, sessionVars, pass>>

-------------------------------------------------------------------------------
(* openInboxIdleSession and initialize: the persisted cursors of the       *)
(* folders are their baseline (getTrackedFoldersForWake leaves INBOX out), *)
(* NOTIFY is armed, every folder's status is read and observed.            *)
Open ==
  /\ phase = "away" /\ phase' = "opening"
  /\ baseline' = [p \in Paths |-> IF p = Inbox THEN Nothing
                                  ELSE [SelectOf(Counters) EXCEPT !.messages = Unknown, !.cursor = TRUE]]
  /\ snap' = [p \in Folders |-> provider[p]]
  /\ UNCHANGED <<server, provider, mirror, known, taken, pending, marks, duty, deferred, queued, overflow, probe, pass, budget>>
(* observe for every status of S that was read.                            *)
ObserveAll(S, initializing) ==
  /\ baseline' = [p \in Paths |-> IF p \in S THEN Observed(p, StatusOf(snap[p]), initializing).base ELSE baseline[p]]
  /\ pending' = [p \in Paths |-> IF p \in S THEN Observed(p, StatusOf(snap[p]), initializing).change ELSE pending[p]]
  /\ known' = [p \in Paths |-> IF p \in S THEN LearnAll(known[p], snap[p]) ELSE known[p]]
  /\ taken' = [p \in Paths |-> IF p \in S THEN Take(p, snap[p]) ELSE taken[p]]
Initialized ==
  /\ phase = "opening" /\ phase' = "host"
  /\ ObserveAll(DOMAIN snap, TRUE) /\ snap' = <<>>
  /\ duty' = IF \E p \in Paths : pending'[p] # NoChange THEN "pass" ELSE "wait"
  /\ UNCHANGED <<server, provider, mirror, marks, deferred, queued, overflow, probe, pass, budget>>
(* A STATUS that failed makes its folder dirty.                            *)
InitializedFailed(p) ==
  /\ phase = "opening" /\ Fault /\ snap' = [q \in DOMAIN snap \ {p} |-> snap[q]] /\ p \in DOMAIN snap
  /\ pending' = [pending EXCEPT ![p] = Signalled(p, TRUE, TRUE, Nothing)]
  /\ UNCHANGED <<server, provider, mirror, known, taken, baseline, marks, phase, duty, deferred, queued, overflow, probe, pass>>

-------------------------------------------------------------------------------
(* wait and runWait.                                                       *)

(* takeDeferredWake: whether there is a wake, the session must go, or none. *)
Deferred(dirty) ==
  IF overflow THEN (IF dirty # {} THEN "wake" ELSE "close")
  ELSE IF dirty # {} /\ deferred # {} THEN "wake" ELSE "none"
StillDeferred(dirty) ==
  IF overflow \/ (dirty # {} /\ "notify" \in deferred) THEN deferred \ {"notify"} ELSE {}
DirtyThen == {p \in Paths : pending'[p] # NoChange}

Close == phase' = "closed"
(* wait: a deferred wake answers at once, else INBOX is selected.          *)
Wait ==
  /\ phase = "host" /\ duty = "wait" /\ deferred' = StillDeferred(Dirty)
  /\ CASE Deferred(Dirty) = "wake" -> duty' = "pass" /\ UNCHANGED <<phase, snap, pass>>
       [] Deferred(Dirty) = "close" -> Close /\ UNCHANGED <<duty, snap, pass>>
       [] Deferred(Dirty) = "none" ->
            /\ phase' = "selecting" /\ snap' = [p \in {Inbox} |-> provider[p]]
            /\ pass' = [pass EXCEPT !.selected = {Inbox}] /\ UNCHANGED duty
  /\ UNCHANGED <<server, provider, mirror, feedVars, queued, overflow, probe, budget>>
(* INBOX is selected: observe it, look for deferred wakes, then idle.  A   *)
(* change that this observation finds is pending but wakes nobody.         *)
SelectedInbox ==
  /\ phase = "selecting" /\ snap' = <<>>
  /\ LET o == Observed(Inbox, SelectOf(snap[Inbox]), FALSE) IN
     baseline' = [baseline EXCEPT ![Inbox] = o.base] /\ pending' = [pending EXCEPT ![Inbox] = o.change]
  /\ known' = [known EXCEPT ![Inbox] = LearnAll(@, snap[Inbox])]
  /\ taken' = [taken EXCEPT ![Inbox] = Take(Inbox, snap[Inbox])]
  /\ deferred' = StillDeferred(DirtyThen)
  /\ CASE Deferred(DirtyThen) = "wake" -> phase' = "host" /\ duty' = "pass"
       [] Deferred(DirtyThen) = "close" -> Close /\ UNCHANGED duty
       [] Deferred(DirtyThen) = "none" -> phase' = "idle" /\ UNCHANGED duty
  /\ UNCHANGED <<server, provider, mirror, marks, queued, overflow, probe, pass, budget>>
(* The microtask of enqueueWake; a wake that comes too late is dropped.    *)
Deliver ==
  /\ queued /\ queued' = FALSE
  /\ IF phase = "idle" THEN phase' = "host" /\ duty' = "pass" ELSE UNCHANGED <<phase, duty>>
  /\ UNCHANGED <<server, provider, mirror, feedVars, deferred, overflow, probe, snap, pass, budget>>
(* idle() ends by itself, or because the host wants the connection.        *)
Renew ==
  /\ phase = "idle" /\ Fault /\ phase' = "host" /\ duty' = "wait"
  /\ UNCHANGED <<server, provider, mirror, feedVars, deferred, queued, overflow, probe, snap, pass>>
(* onNotificationOverflow: the subscription is gone, everything is dirty.  *)
Overflow ==
  /\ Notifying /\ Alive /\ phase \notin {"away", "opening"} /\ Fault /\ overflow' = TRUE
  /\ pending' = [p \in Paths |-> Signalled(p, TRUE, TRUE, Nothing)]
  /\ Hint("notify") /\ pass' = [pass EXCEPT !.held = {}]
  /\ UNCHANGED <<server, provider, mirror, known, taken, baseline, marks, phase, duty, probe, snap>>
(* The connection closes, or a command times out or is aborted.            *)
Disconnect ==
  /\ Alive /\ phase # "away" /\ Fault /\ Close
  /\ UNCHANGED <<server, provider, mirror, feedVars, duty, deferred, queued, overflow, probe, snap, pass>>

-------------------------------------------------------------------------------
(* probeMailboxChanges and runMailboxVerification.                         *)

(* statusProbePaths: the folders of the next bounded round.                *)
Window(W) ==
  /\ W \subseteq Folders /\ Cardinality(W) = IF Cardinality(Folders) < Batch THEN Cardinality(Folders) ELSE Batch
  /\ W \subseteq probe \/ probe \subseteq W
Rotated(W) == LET left == probe \ W IN IF left = {} THEN Folders \ (IF probe \subseteq W THEN W \ probe ELSE {}) ELSE left
Told(p, status) == Observed(p, status, FALSE).told
(* The probe timer fires while the session idles.                          *)
Probe ==
  /\ phase = "idle" /\ phase' = "probing"
  /\ snap' = IF ~Notifying /\ server.listed THEN [p \in Folders |-> provider[p]] ELSE <<>>
  /\ UNCHANGED <<server, provider, mirror, feedVars, duty, deferred, queued, overflow, probe, pass, budget>>
Answer(wake) == phase' = "host" /\ duty' = (IF wake THEN "pass" ELSE "wait")
ProbedNotify ==
  /\ phase = "probing" /\ Notifying /\ Answer(Dirty # {})
  /\ UNCHANGED <<server, provider, mirror, feedVars, deferred, queued, overflow, probe, snap, pass, budget>>
ProbedList ==
  /\ phase = "probing" /\ ~Notifying /\ server.listed /\ snap # <<>>
  /\ ObserveAll(DOMAIN snap, FALSE) /\ Answer(DirtyThen # {}) /\ snap' = <<>>
  /\ UNCHANGED <<server, provider, mirror, marks, deferred, queued, overflow, probe, pass, budget>>
(* LIST-STATUS is refused, fails or is incomplete: bounded STATUS from now on. *)
ListRefused ==
  /\ phase = "probing" /\ ~Notifying /\ server.listed /\ snap # <<>> /\ Fault
  /\ server' = [server EXCEPT !.listed = FALSE] /\ snap' = <<>>
  /\ UNCHANGED <<provider, mirror, feedVars, phase, duty, deferred, queued, overflow, probe, pass>>
(* Bounded STATUS stops at the first folder that has changed.              *)
ProbedStatus ==
  /\ phase = "probing" /\ ~Notifying /\ ~(server.listed /\ snap # <<>>)
  /\ \E W \in SUBSET Folders : Window(W) /\ \E p \in W :
       LET o == Observed(p, StatusOf(provider[p]), FALSE) IN
       /\ o.told \/ \A q \in W : ~Told(q, StatusOf(provider[q]))
       /\ probe' = Rotated(IF o.told THEN {p} ELSE W)
       /\ baseline' = [baseline EXCEPT ![p] = o.base] /\ pending' = [pending EXCEPT ![p] = o.change]
       /\ known' = [known EXCEPT ![p] = LearnAll(@, provider[p])]
  /\ Answer(DirtyThen # {})
  /\ UNCHANGED <<server, provider, mirror, taken, marks, deferred, queued, overflow, snap, pass, budget>>
ProbedFailed(p) ==
  /\ phase = "probing" /\ ~Notifying /\ ~(server.listed /\ snap # <<>>) /\ p \in probe /\ Fault
  /\ pending' = [pending EXCEPT ![p] = Signalled(p, TRUE, TRUE, Nothing)] /\ Answer(TRUE)
  /\ probe' = Rotated({p})
  /\ UNCHANGED <<server, provider, mirror, known, taken, baseline, marks, deferred, queued, overflow, snap, pass>>

(* verifyMailboxChanges after a wake-driven sync: INBOX and the folders.   *)
Verify ==
  /\ phase = "host" /\ duty = "verify" /\ phase' = "verifying"
  /\ \E W \in SUBSET Folders :
       /\ IF server.listed THEN W = Folders /\ UNCHANGED probe ELSE Window(W) /\ probe' = Rotated(W)
       /\ snap' = [p \in W \cup {Inbox} |-> provider[p]]
  /\ UNCHANGED <<server, provider, mirror, feedVars, duty, deferred, queued, overflow, pass, budget>>
VerifyFailed(p) ==
  /\ phase = "verifying" /\ ~server.listed /\ p \in DOMAIN snap /\ Fault
  /\ snap' = [q \in DOMAIN snap \ {p} |-> snap[q]]
  /\ pending' = [pending EXCEPT ![p] = Signalled(p, TRUE, TRUE, Nothing)]
  /\ UNCHANGED <<server, provider, mirror, known, taken, baseline, marks, phase, duty, deferred, queued, overflow, probe, pass>>
(* markAuthoritativelyProbed for every status that brought no change.      *)
Probed == LET same == {p \in DOMAIN snap : ~Told(p, StatusOf(snap[p]))} IN
  [marks EXCEPT !.status = @ \ same, !.event = IF server.condstore THEN @ \ same ELSE @]
(* takeUnverifiableChange: one marker becomes a pending change.            *)
Takeable(m) == IF m.reconcile # {} THEN m.reconcile ELSE IF m.event # {} THEN m.event ELSE m.status
Verified ==
  /\ phase = "verifying" /\ snap' = <<>>
  /\ \E left \in {Probed}, all \in {[p \in Paths |-> IF p \in DOMAIN snap THEN Observed(p, StatusOf(snap[p]), FALSE)
                                                   ELSE [base |-> baseline[p], change |-> pending[p]]]} :
     LET then == [p \in Paths |-> all[p].change] IN
     /\ baseline' = [p \in Paths |-> all[p].base]
     /\ known' = [p \in Paths |-> IF p \in DOMAIN snap THEN LearnAll(known[p], snap[p]) ELSE known[p]]
     /\ taken' = [p \in Paths |-> IF p \in DOMAIN snap THEN Take(p, snap[p]) ELSE taken[p]]
     /\ IF Takeable(left) = {} THEN pending' = then /\ marks' = left
        ELSE \E p \in Takeable(left) :
          LET latest == IF then[p] = NoChange THEN all[p].base ELSE then[p].observed IN
          /\ pending' = [then EXCEPT ![p] = Also([reconcile |-> p \in left.reconcile, observed |-> latest,
                                                  scan |-> p \in left.event \cup left.status], then[p])]
          /\ marks' = [reconcile |-> left.reconcile \ {p}, event |-> left.event \ {p},
                       status |-> IF p \in left.event THEN left.status ELSE left.status \ {p}]
  /\ Answer(DirtyThen # {})
  /\ UNCHANGED <<server, provider, mirror, deferred, queued, overflow, probe, pass, budget>>

-------------------------------------------------------------------------------
(* The live pass of sync-engine.ts on this session's connection.           *)

(* peekMailboxChanges: INBOX first, at most Batch changes.                 *)
StartPass ==
  /\ phase = "host" /\ duty = "pass" /\ phase' = "pass"
  /\ \E S \in SUBSET Dirty :
       /\ Cardinality(S) = (IF Cardinality(Dirty) < Batch THEN Cardinality(Dirty) ELSE Batch)
       /\ Inbox \in Dirty => Inbox \in S
       /\ pass' = [pass EXCEPT !.held = S, !.todo = S, !.seen = <<>>]
  /\ UNCHANGED <<server, provider, mirror, feedVars, duty, deferred, queued, overflow, probe, snap, budget>>
SelectFolder(p) ==
  /\ phase = "pass" /\ p \in pass.todo /\ snap = <<>>
  /\ snap' = [q \in {p} |-> provider[q]] /\ pass' = [pass EXCEPT !.selected = {p}]
  /\ UNCHANGED <<server, provider, mirror, feedVars, phase, duty, deferred, queued, overflow, probe, budget>>
(* The folder is synced up to what SELECT said, reconciled and scanned or  *)
(* not; the change counts as handled when what it forces was done.         *)
ReadFolder(p, reconciled, scanned) ==
  /\ phase = "pass" /\ p \in DOMAIN snap /\ p \in pass.todo /\ snap' = <<>>
  /\ mirror' = [mirror EXCEPT ![p] =
       [arrived |-> snap[p].arrived, gone |-> IF reconciled THEN snap[p].gone ELSE @.gone,
        flagged |-> IF scanned THEN snap[p].flagged ELSE @.flagged]]
  /\ IF (pending[p].reconcile => reconciled) /\ (pending[p].scan => scanned)
     THEN /\ LET done == [status |-> SelectOf(snap[p]), reconciled |-> reconciled, scanned |-> scanned]
             IN pass' = [pass EXCEPT !.todo = @ \ {p},
                                     !.seen = [q \in DOMAIN @ \cup {p} |-> IF q = p THEN done ELSE @[q]]]
          /\ UNCHANGED budget
     ELSE pass' = [pass EXCEPT !.todo = @ \ {p}] /\ Fault
  /\ UNCHANGED <<server, provider, feedVars, phase, duty, deferred, queued, overflow, probe>>
Handled_Any == DOMAIN pass.seen
Handled == {p \in DOMAIN pass.seen : p \in pass.held}
EndPass ==
  /\ phase = "pass" /\ pass.todo = {} /\ snap = <<>> /\ phase' = "host" /\ duty' = "verify"
  /\ baseline' = [p \in Paths |-> IF p \in Handled THEN Acknowledged(p, pass.seen[p]) ELSE baseline[p]]
  /\ pending' = [p \in Paths |-> IF p \in Handled THEN NoChange ELSE pending[p]]
  /\ marks' = Unproved(Handled, pass.seen)
  /\ pass' = [NoPass EXCEPT !.selected = pass.selected]
  /\ UNCHANGED <<server, provider, mirror, known, taken, deferred, queued, overflow, probe, snap, budget>>
FailPass ==
  /\ phase = "pass" /\ Fault /\ phase' = "host" /\ duty' = "wait" /\ snap' = <<>>
  /\ pass' = [NoPass EXCEPT !.selected = pass.selected]
  /\ UNCHANGED <<server, provider, mirror, feedVars, deferred, queued, overflow, probe>>

-------------------------------------------------------------------------------
FeedNext ==
  \/ \E p \in Paths, kind \in {"exists", "expunge", "flags"} : Heard(p, kind) \/ Notified(p, kind) \/ Unheard(p, kind)
  \/ Open \/ Initialized \/ Wait \/ SelectedInbox \/ Deliver \/ Renew \/ Overflow \/ Disconnect
  \/ \E p \in Paths : InitializedFailed(p) \/ ProbedFailed(p) \/ VerifyFailed(p) \/ SelectFolder(p)
  \/ Probe \/ ProbedNotify \/ ProbedList \/ ListRefused \/ ProbedStatus \/ Verify \/ Verified
  \/ \E p \in Paths, reconciled, scanned \in BOOLEAN : ReadFolder(p, reconciled, scanned)
  \/ StartPass \/ EndPass \/ FailPass

(* The host keeps calling wait, the pass and verify; commands are answered *)
(* or time out; the probe timer and microtasks run.                        *)
Progress ==
  \/ Open \/ Initialized \/ Wait \/ SelectedInbox \/ Probe \/ ProbedNotify \/ ProbedList \/ ProbedStatus
  \/ Verify \/ Verified \/ StartPass \/ EndPass
  \/ \E p \in Paths : SelectFolder(p)
  \/ \E p \in Paths, reconciled, scanned \in BOOLEAN : ReadFolder(p, reconciled, scanned)
FeedSpec == FeedInit /\ [][FeedNext]_vars /\ WF_vars(Progress) /\ WF_vars(Deliver)

-------------------------------------------------------------------------------
(* What the session was told of a mailbox is in the mirror, or is still    *)
(* owed: as a pending change, or as a recovery marker; a flag change that  *)
(* was told needs a change that forces the scan.  The one exception is     *)
(* what the first status of INBOX showed while no change was pending.  An  *)
(* acknowledgement must not forget a newer observation (inbox-idle.ts      *)
(* acknowledgeWithStatuses) nor accept an unproved field, and a status     *)
(* that is dropped because it matches what is known already must tell      *)
(* nothing new.                                                            *)
ToldIsKept ==
  Alive => \A p \in Paths :
    LET change == pending[p]  has == Covered(p) IN
    /\ known[p].arrived <= has.arrived \/ change # NoChange
    /\ known[p].gone <= has.gone \/ change # NoChange \/ p \in marks.reconcile
    /\ known[p].flagged <= has.flagged \/ change.scan \/ p \in marks.event \cup marks.status

(* Whatever the provider does, told or not, the mirror converges while the *)
(* session lives (flag changes on servers with CONDSTORE: UNSEEN cannot    *)
(* show them all).  What a first status of INBOX took as the baseline is   *)
(* left to later syncs, but whatever comes on top of it converges with it. *)
(* A session whose NOTIFY subscription overflowed hears nothing more: it   *)
(* drains what is dirty and then closes.                                   *)
Converged(has, is) == has.arrived = is.arrived /\ has.gone = is.gone /\ (server.condstore => has.flagged = is.flagged)
Mirrored == \A p \in Paths : Converged(Covered(p), provider[p])
FeedConverges == <>[](~Alive \/ (Mirrored /\ ~overflow))
===============================================================================
