# SupaMail: formal models

TLA+ models of the mail-sync backend in `apps/api` (TypeScript, Postgres, IMAP, SMTP), checked with
TLC on small instances and, where marked, proved with TLAPS for every value of the constants. Line
numbers below refer to files under `src/apps/api/src/` unless a longer path is given.

## 1. The system

SupaMail keeps a Postgres mirror of IMAP mailboxes ("Mailbox Accounts"). Worker processes sync the
accounts; API, CLI and MCP hosts read the mirror and run direct actions (send, move, flag, delete)
against the provider and write the result through to the mirror.

| Component | State it keeps | Operations | Talks to | Modules |
|---|---|---|---|---|
| **Folder sync engine** (`sync-engine.ts`, sync writes of `repository.ts`) | the `imap_folders` row: `uidvalidity`, `uid_next`, `last_uid`, initial-sync target and watermark, `highest_modseq`, `qresync_highest_modseq`, `reconcile_clean`; message rows | `syncFolder`, `runInitialSyncBatch`, flag scans, reconcile, QRESYNC replay, `recordUnchangedFolders` | IMAP client; runs under the account lock | `FolderSync*` |
| **Account lock and runs** (`locks.ts`, `db.ts`, the frame of `syncAccount`) | Postgres sessions, session-level advisory lock, `mail_accounts.sync_started_by/currently_syncing/last_heartbeat_at`, `imap_sync_runs` | `withAccountLock`, `LockedSession`, heartbeats, startup sweep, pooler takeover | every writer of an account | `AccountLock*` |
| **Send and draft ledger** (`send-operations.ts`, `send.ts`, `smtp-client.ts`, `drafts.ts`, `filed-message.ts`) | the host's operation records, SMTP outcome, the Sent/Drafts copy | keyed send, reconcile, draft save | SMTP server, account lock | `SendOperations*` |
| **Folder rotation** (`getFoldersDueForSync`) | round-robin cursor, wake set, reconcile due times | choosing the folders of a pass | syncAccount | `FolderRotation` |
| **Account health** (`markAccountSync*`) | failure counts, backoff, terminal state, UIDVALIDITY reset count | outcome writes, `getRunnableAccounts` | syncAccount, worker | `AccountHealth` |
| **Folder lifecycle** (`upsertDiscoveredFolders`, `trackFolder`, `markFolderPendingVerification`, `runPurgeJob`) | folder tracking, missing-since grace, pending verification | discovery, tracking, purge | IMAP LIST | `FolderLifecycle` |
| **Inbox IDLE feed** (`inbox-idle.ts`, the peek and acknowledgement in `sync-engine.ts`) | baseline, pending change and recovery markers per watched folder, wakes | observe, signal, probe, verify, acknowledge | live passes, the host | `InboxFeed` |
| **Mailbox mutations** (`mailbox-mutations.ts`) | none of its own; folders marked for reconcile | flag, move, delete, draft update, with write-through | IMAP, lock, mirror | `MailboxActions` |
| **Bodies lane** (`syncBodies`, `storeBody*`) | body status and stored evidence | download beside the lock, commit under it | IMAP FETCH, sync engine rows | `MailboxActions`, `MessageEvidence` |
| **Message rows and evidence** (`upsertMessages`, `storeBodyEvidence`, triggers) | row, body and evidence rows of a message, the folder's count, the threading queue | metadata batches, body reads | sync engine, bodies lane, threading | `MessageEvidence` |
| **History lane** (`runHistoryLane`, `runHistoryBatch`) | history watermark below the window | backfill | IMAP, account lock | `HistoryBackfill` |
| **IMAP sessions of actions** (`imap-connect.ts`, `action-session-store`) | parked sessions | connect, abort, hand over, check, park | direct actions | `ActionSessions` |
| **Worker runtime** (`worker-runtime.ts`, `target-scheduler.ts`, `schema-readiness`) | stage, lanes, running targets, stop flag | loop, tick, startup, bounded concurrency | all lanes | `WorkerRuntime`, `TargetScheduler` |
| **Thread runs** (`threading-repository.ts` and its triggers) | threading queue, runs (active, standby, building), closure edges | drain, rebuild, compare, activate, rollback, retire | worker lane | `ThreadRuns*`, `ThreadClosure` |
| **Threading algorithm** (`threading.ts`) | none: a function of the messages | `computeThreadAssignments` v1 to v3 | thread runs | `Threading` |
| MIME and content, search, API/CLI/MCP, crypto and settings, web/eval/scripts | none that interleaves | conversions, I/O | n/a | none |

**What is hard.** Every account write must happen under one advisory lock, yet the lock lives on a
Postgres session that may end, freeze or be abandoned at any moment. A pass commits rows and
cursors in separate transactions and may die between any two of them while the provider keeps
changing. Several stored cursors (`last_uid`, `uid_next`, `highest_modseq`,
`qresync_highest_modseq`, the watermarks) are later used as proof that nothing has to be fetched, so
a cursor that runs ahead loses mail, flags or expunges silently. Sends cannot be undone. What an IDLE
session was told exists only in memory until a pass proves it. Threading is incremental: it
recomputes a bounded part of a mailbox, in several projections at once, while mail keeps changing.
`PROJECT.json` lists the hazards at the line where each bites.

**What makes each component correct.** Sync engine: cursors never pass what the mirror owes, no
present message is tombstoned, the mirror converges. Lock: one writer, no lock left behind, nobody
else's projection or run touched. Send ledger: a key is submitted at most once per known outcome and
a delivered mail is never reported as retryable. Rotation: every tracked folder gets its turn.
Health: an account that heals is not pinned, a terminal one is not retried. Lifecycle: a folder
seen again gets its mail back, one that is gone is buried. IDLE: what was told is mirrored or still
owed. Mutations and bodies: no mail is lost or invented, and a wrong row lies in a folder marked for
repair. Evidence: digests are of what is stored, and nothing a drain must see again is missed.
History: no gap above the watermark. Sessions: one user at a time. Worker: full sweeps start and
stops end in time. Thread runs: a run shows what threading the mailbox at once would show, at every
switch. Algorithm: parents end, only evidence joins, weak links are certain.

## 2. Modules

| Module | What it is |
|---|---|
| `FolderSync` | one tracked folder, its provider mailbox, its mirror rows and a sync pass |
| `FolderSyncProps`, `FolderSyncInv` | its properties; the inductive invariants behind them |
| `FolderSyncProof` | proofs: types; mail cursors; expunge cursor; flag cursor, the unchanged proof, tombstones |
| `AccountLock`, `AccountLockProps`, `AccountLockInv`, `AccountLockProof` | sessions, the lock, calls that take it, sweeps and takeovers; properties, invariants, proofs |
| `SendOperations`, `SendOperationsProps`, `SendOperationsInv`, `SendOperationsProof` | keyed sends and draft saves over the host's ledger, SMTP, the Sent copy and the Drafts lookup; properties, invariant, proofs |
| `FolderRotation`, `FolderLifecycle`, `AccountHealth`, `MCScheduling` | the schedule of one account's passes, in three parts; their composition |
| `InboxFeed`, `InboxProof`, `MCInbox` | one Inbox IDLE session; its proof; the kinds of server |
| `MailboxActions`, `MCActions`, `MailboxActionsProof` | direct actions and body downloads; the scenes that TLC explores; the proofs |
| `HistoryBackfill`, `ActionSessions`, `WorkerRuntime`, `TargetScheduler`, `MessageEvidence` | five components that share no state |
| `MCLanes`, `LanesProof` | their composition; their proofs, and the one about `AccountHealth` |
| `ThreadRuns`, `ThreadRunsProps`, `ThreadRunsProof` | the versioned projections of an account and their switching; proofs about their pointers, turns, contents and the query that finds their work |
| `Threading`, `ThreadingProof` | the threading algorithm as a function; proofs about its parent forest and its joins |
| `ThreadClosure`, `MCThreading` | the incremental drain over the algorithm; its mailboxes |
| `AccountTurn`, `SendPromise`, `ThreadView` | the abstract specifications that `AccountLock`, `SendOperations` and `ThreadClosure` implement |
| `MCFolderSync`, `MCAccountLock` | further instances for TLC |

### FolderSync

*Provider variables* (`pValidity`, `pNext`, `pHere`, `pOld`, `pSeen`, `pMod`, `pHighest`) are an IMAP
mailbox with CONDSTORE/QRESYNC: UIDVALIDITY, UIDNEXT, the UIDs present, which of them are older than
the account's window, which have the flag, the MODSEQ of the last change of each UID (its expunge
included) and HIGHESTMODSEQ. *Mirror variables*: `folder` is the `imap_folders` row, `live` and
`missing` the UIDs whose row of this generation is not, or is, `deleted_in_provider`, `seen` the rows'
flag. *Pass variables*: `pc` and `pass`, whose fields are the local variables of `syncFolder` and
`runInitialSyncBatch` (the field comments name them). `head` is history that only properties read.

One action is one provider response or one committed transaction; the provider may move between any
two. Order of a pass, as in the code: `StartPass` (the caller's options) → `Select` (QRESYNC SELECT
and its replay) → `handleUidValidityReset` → either the initial sync (`SnapshotSearch`,
`setInitialSyncSnapshot`, `Candidates`, the live-head batch `HeadSearch/HeadFetch/HeadWrite/
advanceInitialSyncLiveHead`, the backfill batch `Backfill…advanceInitialSyncWatermark`,
`InitialDone`) or the steady pass (`Search`, `Incremental`/`IncrementalWrite` per batch, `ReplayFlags`,
`markVanishedMessages`, `FlagScan` with `DeltaWrite` or `WindowWrite`, `Reconcile`, `CheckList`,
`Tombstone`, `Revive`, `GapFetch`, `GapWrite`) → `Finish` (`markFolderSynced`). `Fail` ends a pass
anywhere. `FetchIncomplete` is a fetch that returns fewer messages than asked. `markMessageGone` is the
body lane, which needs no lock.

Abstractions, and why they are safe for the properties:
- the server always reports UIDNEXT and HIGHESTMODSEQ; the paths for servers without them store
  nothing that these properties read;
- a flag read in several batches is one read and one write. The read and the write stay separate
  steps, so a change between them is explored;
- one flag stands for the flag set; a message's content is its UID;
- rows of older generations leave the state when the reset tombstones them; the reset counter and
  `markAccountBroken` belong to `AccountHealth`;
- host mutations are excluded from the pass's interleavings because they take the same account lock
  (module `AccountLock` is the reason this is sound, see `OneWriterHolds`);
- a rejected existence search is folded into an unproven list; `Fail` is unbounded;
- `FlagCursorHonest` speaks of rows inside the window, since the first flag scan reads the window
  only (`sync-engine.ts:1679`).

### AccountLock

`session` is a pooled client with its Postgres backend: `free` (in the pool), `used`, `dead` (backend
ended, client unaware), `gone` (client destroyed or vanished, backend still there); how often it holds
the advisory lock (session locks are re-entrant); and the statement an abandoned call may still have
in flight. `account` is the projection (`sync_started_by`, freshness of `last_heartbeat_at`), `run` the
age class of each open `imap_sync_runs` row, `call` the local state of each `withAccountLock` call,
`sweep` a startup sweep. A call is a full pass (`full`), a Sent pass (`sent`), a live Inbox pass
(`live`) or a direct action (`act`): a full or Sent pass tries once, the others wait. The steps follow
`withAccountLock`: `Connect`, `TryLock` or `Grant`/`WaitReturns`/`WaitTimesOut`, `Beat`, then the pass
(`startSyncRun` … `Finalize`) or the action (`Prove`, `Deliver`, `WriteThrough`), `UnlockSession`, and
for a pass `CancellationCleanup` and `finishSyncRun` outside the lock. `Abandon`/`LateCommit` are a statement given up at its deadline that may still commit.
`StrayIssued/StrayTurn/StrayDone` are statements the callback issued without awaiting. `FindStale` …
`CloseStaleRuns` is the takeover behind a pooler; `StartSweep` … `SweepClose` the startup sweep (on a
direct connection it ends no session and begins with the reset).

Abstractions: `pg_backend_pid` setup is part of `Beat`/`Lost`; the orphan guard's minute and the stale
threshold are one age class; run ids are reused and terminal statuses not told apart; waiters are not
ordered; a crashed client leaves no statement in flight; pid reuse is covered, and
over-approximated, by reusing session slots; provider commands are not fenced, in the model as in the
code; retryable and final proof failures are one failure.

### SendOperations

One idempotency key. `row` is the host's ledger record of the key (`absent`, `submitting`, `succeeded`,
`not_delivered`, `unknown`, and the request its first claim fixed), `accepted` how often the SMTP server
took a request, `late` what the client gave up on and the server may still accept, `sent` the copy in
Sent (`none`, `filed`, or `seen` by a lookup through the mirror), `drafts` the copies of the key's draft
and the APPENDs given up on, `lock` the holder of the account lock, `call` the local state of each host's
call. A host calls with any of the requests the caller may use the key for, again and again.

Before the submission: `replaySendOperation` or `replayDraftSaveOperation` → `Refresh` → `Get` → `Lookup`
(the pre-claim search in Sent) → `Start` (the atomic claim); `Resolve` is `resolveExistingOperation`,
`StoreFails` any of these answers lost, the claim committed or not. Submission of mail: `Lock`,
`NotSubmitted` (every failure before DATA), `Transmit`, then `Accept`, `Refuse` or `ReplyLost`
(`classifySmtpFailure`), `Receipt`, `FileSent` (`fileSentCopy`). A draft: `Lock`, `Find`
(`findByMessageId`), `Mark` (`markFoldersForReconcile`, fenced by the lock), `Append`, `AppendLost`. After
it: `Finish`, `FinishFails`, `Check` (`reconcileOperation`), `Return`. The environment: `Crash`, `LoseLock`
(the session under the call ends), `LateAccept`, `LateAppend`, `Expire`, `MirrorSent`.

The store is an interface that the host implements: `Claimed`, `Finished` and `Expire` follow the
contract stated at `send-operations.ts:20` and are the part of the model that this repository does not
execute. Requests that share a key but differ are told apart by `Same` (`sameIntent`). `Earlier` are sends
delivered before the ledger was kept. `raced` is history: an APPEND took effect outside the lock under which
the draft's absence was checked, because the session ended between lookup and APPEND, or because an APPEND
that was given up completed later. `fileDraft` is atomic per account only without it, so
`DraftFiledOnce` is stated under `~raced`.

Abstractions: the lookups in Sent and Drafts are exact (the code searches by Message-ID, and compares
the newest messages where SEARCH is not trusted); `unknown` covers every SMTP stage that is not proof of
non-delivery; a failed filing of the Sent copy and a filed but not yet mirrored one are outcomes of the
same step.

### FolderRotation, FolderLifecycle, AccountHealth

`FolderRotation` is `getFoldersDueForSync` and the folder loop of a full pass: `eligible` and `due`
folders, `audits` (due reconciles, earliest first), the rotation `cursor`, the folders that discovery
just added (`fresh`), the `batch` left of the running pass and its reconcile `slots`. Paths are numbers.
`FolderLifecycle` is one folder's `row` and `mail` beside a discovery whose statements commit one by one
(`disc`), an operator's `trackFolder`, missing-mailbox errors, the grace and the purge; `opted` and
`unburied` are history. `AccountHealth` is the account row (`acct`: state, reason, failures, retry),
the age of the last success (`anchor`), the folders' health, the projection's `owner`, the `lock`, and
each worker's `pass`, against a provider that works, wavers, fails or refuses the login. `MCScheduling`
composes them; they share no state, so a behaviour moves one part.

Abstractions: priority folders are what uses up slots and time; backoff lengths, lag figures and
dates are kept as far as they are compared.

### InboxFeed

A mailbox is three counters (arrived, gone, flagged); a STATUS is derived from them, by what the `server`
can do (CONDSTORE, QRESYNC, NOTIFY, LIST-STATUS). `provider` is the truth, `mirror` what the database has
proved, `known` what the session was ever told. `baseline`, `pending` and `marks` are the maps of
`SessionMailboxChangeFeed`; `phase`, `deferred`, `queued`, `overflow`, `probe` and `snap` the session;
`duty` is what the host owes next, `pass` the live pass that peeks, reads and acknowledges, `budget`
bounds changes and faults. One action is one provider answer, event or callback.

When a session opens, the folders' baselines are their persisted cursors. INBOX has none
(`getTrackedFoldersForWake` leaves it out, `repository.ts:2231`): its first status, from SELECT or from a
verification, becomes its baseline without a change (`inbox-idle.ts:241-254`, `First`). What
that status shows beyond the mirror nobody owes to this session; the history variable `taken` records it, and
`Covered`, the mirror or `taken`, is what the properties compare with. Only INBOX can differ, and only by what
came before its first status. Syncs outside this session's passes bring it: the pass that runs while
the session opens, reconciles that the host forces and full syncs (`sync-engine.ts:370-375, 708-715, 787-793`).

Abstractions: every folder has a persisted cursor when the session opens, and the set of tracked folders is
fixed while it lives; the host is external and verifies after the passes that wakes drive, as ADR 0032 says;
NOTIFY is reliable except for an overflow, INBOX events may be lost.

### MailboxActions

`box`, `gen`, `next` and `flagged` are the provider, `rows`, `known` and `due` the mirror, `lock` the account
lock, `call` the locals of each action, `run` the body run; `foreign` and `removed` are history. A verb
resolves its targets before the lock, marks the folders due, commands the provider, writes through, and
may fail or crash between any two; a pass of a folder is one step here. Bodies are downloaded beside the
lock and committed under it in three transactions (evidence, payload, completion).

Abstractions: mail is identified by content; a command that takes effect after its lock is gone counts as
another client's change; folder CRUD, backoff times and forced refetches are left out.

### HistoryBackfill, ActionSessions, WorkerRuntime, TargetScheduler, MessageEvidence

`HistoryBackfill`: `server` and `old` are the folders' mailboxes and which mail has left the window,
`folder` the history columns of `imap_folders`, `mirrored` the rows, `turn` the lane of the running pass; the
live lane appears with what it promises (`HotPass`). `ActionSessions`: `socket`, `key`, `store` (parked
sessions), `act` (each action's locals), `aborted`, `credential`. `WorkerRuntime`: `stage` is what the
process awaits, `timer`, `spent`, `sinceFull`, `fullTook` and `sinceStop` are a clock in ticks, `todo` the
threading lane's drains, whose deadline starts when the query that lists the accounts
(`listAccountsNeedingWork`, stage `list`) has answered. `TargetScheduler`: `pending`, `running`, `answers`, `completed`, `signal`, `settled` of
`runRuntimeTargetTasks`. `MessageEvidence`: the `folderRow` and its lock (`holder`), `message`, `body`,
`items` (evidence rows), the threading `queue`, `unread` (rows changed since a run last read them),
and the batches that run (`writer`), with the triggers as operators of the same step.

Abstractions: closed sessions are reused as identities; a retention job in flight at a stop, attachments
and purge are left out; what a read of a body may find is a small set of records.

### ThreadRuns, Threading, ThreadClosure, ThreadView

`ThreadRuns`: `mail` is the evidence each message shows, `gap` bodies that wait for a digest, `state`
`imap_thread_state`, `run` the runs with their assignments, queue and subject work, `certs` the comparison
certificates that still hold, `undo` the history rows of the last operation. Every transaction holds the
state row. `AutoActivate` says that some worker runs with `THREADING_AUTO_ACTIVATE_INITIAL`: its drain goes on to
activate the first run (`DrainActivates`), and its listing asks for a ready first run even without work
(`Listed(v, TRUE)`); a run's `initial` is its mode, which no code reads once it was activated. The algorithm is small here (a proved conversation, and subjects), so that the protocol can be
explored. `Threading` is `computeThreadAssignments` itself, in its three versions, over parsed
messages; `ThreadClosure` is one run that is kept up to date with it through closure edges and subject
work (`stored`, `queue`, `subjects`), while mail comes, gains evidence and goes. `ThreadView` says what this
promises: after each change the conversations are owed, then they are those of one computation over the
whole mailbox. `DrainIsRebuild` is `INSTANCE ThreadView` with that mapping.

Abstractions: headers are token sequences; a delivery key is the evidence hashed into it, and hash order is
the lowest id; size limits and truncation read as conflict; limits, backoff and the delivery-evidence
bridge's queue are left out (repaired evidence arrives as a write of the mail). `Execute`, `Fingerprints`
and `Collapse` are constants that the cfg binds to the algorithm's operators, which keeps TLC's coverage
from expanding every application.

## 3. Runs

All runs are in `PROJECT.json`; each property has a mutant of a mapped definition that breaks it.

| Run | Question | States |
|---|---|---|
| `FolderCursors` | new and old-dated mail, expunges, ageing, a recreated mailbox, capped passes, crashes: does a cursor ever pass what the mirror owes? | 1.6M |
| `FolderMirror` | sweeps, catch-ups and barriers with flag changes, expunges, partial replays, short lists: is the flag cursor honest, the unchanged proof sound, no present message tombstoned? | 4.8M |
| `FolderConverges` | once passes stop failing, do membership, flags and mail become exact, body-lane misses included? | 0.2M |
| `LockBoth` | two full passes with stray statements, abandoned transactions, ended sessions, crashes, beside sweeps: one writer, clean pool, the pass at work keeps its projection and run? | 0.8M |
| `LockReleases` | is a held lock always released, behind a pooler too? | 0.4M |
| `SendKeys` | two hosts, one key, retries after every kind of failure: one submission, truthful answers, one draft, the abstract ledger `SendPromise` implemented, and a recorded result in the end? | 0.05M |
| `Scheduling` | is every due folder served, does mail come back or get buried, does an account heal or wait for a human with a reason? | 0.16M |
| `FeedConverge` | is whatever the session was told, but for INBOX's first status, mirrored or still owed, and does the mirror reach the provider? | 0.29M |
| `ActionsHeal` | do actions and body downloads lose or invent nothing, is a wrong row always in a due folder, does the mirror heal in every scene? | 0.08M |
| `Lanes` | history: no gap, and the archive arrives; sessions: one owner, actions end; worker: prompt; scheduler: settles once; evidence: true and kept | 0.26M |
| `ThreadSwitch` | builds, switches, rollbacks and pruning beside changing mail: do runs show what threading at once would, is work found, does no rollout starve? | 1.3M |
| `ThreadDrain` | nine mailboxes of four messages that come in any order and change, three versions: does the bounded drain show what a rebuild would, do parents end, does only evidence join, are weak links certain? | 0.02M |

**Bounds.** Folder: two UIDs per generation give every order of two messages, one below and one above
any cursor, in either batch (`InitialBatch`, `IncrementalBatch`, `BatchesPerPass` are 1, so a pass is
capped with mail pending); two generations make one recreation; `MaxModseq` bounds changes after
arrival: 3 (`FolderMirror`) leaves a change before, inside and after one pass; 2 (`FolderCursors`, with two
generations) an expunge of either message in any of them. `MissingLimit` 1 makes the gap fetch
truncate. Each cfg explores the changes and callers its properties tell apart: the mail and expunge
cursors do not read flags, the flag cursor does not read ages. Lock: two calls and two sessions are one
holder and one rival, and a session can be reused after its owner left it; two runs make "mine" and
"another's"; `MaxFolders` 1 is one loop turn. `LockReleases` has a single caller that meets the sessions
its crashed or abandoned predecessors left. Behind a pooler `OneWriter` rests on its theorem, as direct
actions next to passes do; the TLC run has full passes on direct connections. Send: two hosts are two
rivals for one key; one pre-ledger send, one new send with and one without Sent evidence and one draft are
the kinds of request that the code tells apart; `MaxLate` 1 leaves one given-up APPEND.

Scheduling: three ordinary folders, two per pass and one reconcile slot leave one folder waiting for
each; two workers make a stale choice; `Threshold` 2 leaves a failure on either side of it; `MaxIncidents` 3
is a loss, a false LIST and an opt-in in one behaviour. Feed: INBOX and one other folder, two changes and one
fault, on a bare server, one with LIST-STATUS and one with CONDSTORE, QRESYNC and NOTIFY; `Batch` 1 makes
probes rotate. Actions: `MCActions` lists five scenes (two verbs racing for one mail, a batch of two from one
folder or from two, an action and the body run over one mail or two), with one disturbance each; its fairness
is that of the actions as each scene has them, so a scene without a body run is not asked to run one. History:
two folders, UIDs up to 4 in batches of 2, two batches a pass. Worker: intervals 8 and 3 with passes of up to
14 ticks put a pass across several polls; `StepTime` 2 lets the listing and each drain outlast a tick, and a stop
fall into either. Scheduler: four tasks of two targets, two at once and one per target.
Evidence: one UID in two generations and two batches, FETCH answers and body reads that find less or more than
the last. Thread runs: three messages and runs make active, standby and building; `MaxBucket` 2 is reached
and passed. Thread drain: each scene of `MCThreading` brings one kind of evidence into conflict; in the
instance a message that is purged ties to no other conversation (`AnyVictim = FALSE`, see section 4).
What the bounds leave out, the theorems of section 5 cover.

**Deadlock** is checked in every run whose cfg does not switch it off: those stop where the modelled
changes are used up and all work is done.

**Fairness.** None is given to faults, to sweeps, to other clients or to an operator.
`FolderSync`: weak fairness of pass steps (the worker runs a pass's code on), weak fairness
of the reconcile becoming due (time), and strong fairness of starting a pass that has a reconcile slot
(the rotation of `getFoldersDueForSync` and the per-pass budget, `sync-engine.ts` 700 to 760). The premises
`~Interrupted`, `~CutShort`, `~CutOff` are explicit: nothing is promised while every pass fails.
`AccountLock`: a live worker's call keeps stepping, since each step is a statement or provider command
with a deadline; Postgres grants a free lock; the server notices vanished clients (the keepalive
settings of `createPool`, `db.ts:90`); time passes. Stray statements are excluded from the liveness run
because fairness is given per call, not per statement.
`SendOperations`: a host runs its call on (its steps have deadlines) and is granted the lock for which it
queues (strong fairness of `Lock`: Postgres serves waiters in order), abandoned claims expire, syncs mirror
Sent, and a caller retries with the key (strong fairness of `Invoke`: the errors tell it to). `KeySettles`
has the premise that failing steps stop, and speaks of sends whose copy reached Sent and of drafts:
without evidence an unknown send stays unknown, by design.
`AccountHealth`: retry times pass; a worker's sweep chooses a runnable account again and again and gets the
lock again and again (strong, the list is read without the lock); running passes end and, while the provider
serves, do not fail for ever. `FolderRotation`: passes keep coming (the worker's loop), work through their
batch, and time makes folders due. `FolderLifecycle`: discovery is due in time and its statements run on, the
grace ends, and eligible folders are audited (`FoldersServed` is what justifies it). In `MCScheduling` each
part's fairness is the antecedent of its property.
`InboxFeed`: the session's own callbacks and the host's turns run on, an event that was sent is delivered.
`MailboxActions`: an action's steps have deadlines, every folder is synced again and again, body runs recur where
the scene has them (`MCActions` restates this fairness for the steps that the scene allows).
`HistoryBackfill`: passes recur and run on, and hot passes succeed again and again (strong, a pass may find
the folder busy). `ActionSessions`: every await has a deadline. `TargetScheduler`: pump's loop runs and
every task ends. The worker's promise is a clock bound, not fairness.

## 4. Where code and documents disagree

No run of section 3 expects a violation. The configurations below are kept for the reader; run them with
`tlc -config X.cfg M`. The checked properties are stated so that these are visible as conditions
(`Current`, `head.top`, `~GrantRace`, `~Pooler`, `AnyVictim`), not hidden.

| cfg, module, property | What it shows |
|---|---|
| `FolderFindSnapshot`, `MCFolderSync`, `SnapshotOfGeneration` | `setInitialSyncSnapshot` (`repository.ts:2344`) stores no `uidvalidity`; a crash before the first batch and a recreated mailbox resume on the old generation's snapshot. `docs/agent/reliability-invariants.md:130` says UIDVALIDITY changes invalidate prior UID references |
| the same, `NewUidIsNewMail` | the snapshot SEARCH (`sync-engine.ts:2089`) runs after SELECT reported UIDNEXT; old-dated mail that arrives in between lies below the snapshot's maximum and the live lane skips it. `reliability-invariants.md:157`: "A new UID is new mail whatever its date" |
| `FolderFindOptIn`, `FolderLifecycle`, `OptInPersists` | the note that remembers an opt-in past the folder cap (`repository.ts:1858`) is overwritten by the history lane, a verification or a discovery that read it before; `docs/schema.md:117` says it persists |
| the same with `MaxIncidents = 3`, `GoneLeavesSearch` | `status = 'MISSING'` commits before the tombstones (`repository.ts:1930`); a crash between leaves the rows live for good. `repository.ts:1948`: "Every row of a gone folder leaves reads and search" |
| `LockFindOrphan`, `MCAccountLock`, `OrphansAreVanished` | `finishSyncRun` (`sync-engine.ts:1053`) is written after the unlock, so the next pass can reap a run that is only about to finish; `sync-engine.ts:636` says such a run is a vanished worker's |
| the same with `Kinds = {"live"}`, `GrantRace = TRUE`, `PoolClean` | if a session lock can be granted in the instant the statement timeout fires (`locks.ts:297`), it survives the rollback and the client returns to the pool holding it, which `locks.ts:482` rules out |
| the same with `Pooler = TRUE`, `Faults = {"sweep"}`, `LiveLeftRunning` | behind a pooler the sweep resets by heartbeat age alone at the time of its UPDATE (`locks.ts:872`); `reliability-invariants.md:114`: "A live account is left running" |
| `ThreadFindOrphan`, `ThreadRunsProps`, `CandidateIsReferenced` | rolling an activation back clears `building_run_id` (`threading-repository.ts:2069`) without ending the run it names, which then refuses every later build |
| `ThreadFindStale`, `MCThreading`, `PurgeRepairs` | purging one owner of a reused Message-ID queues the survivors of its own stored conversation only (`repository.ts:1662`); the other owner keeps a stale variant key. `reliability-invariants.md:43`: "retain a pathological fan-out rather than leave known-stale survivors" |

Noted without a configuration: `setMessageFlags`, `moveMessages` and `deleteMessage` read a UID before the
lock; if the action ahead of them moved the message, the server answers OK to a command without effect and
the call reports success (`mailbox-mutations.ts:517`, against 115 to 118; the repair is what `DueCovers` and
`MirrorHeals` promise, and a flag set this way waits for the next flag scan). A server with NOTIFY but without
CONDSTORE may leave a pending change with unknown fields after a failed initial STATUS; a notification that
matches it in the middle of a pass is acknowledged with it (`inbox-idle.ts` 271 to 276, 390 to 396), which is
the hypothesis of the theorem `ToldIsKeptHolds`. An account folder whose history batch fails is chosen first
every pass and holds the others back. Two metadata-only components of equal fingerprints make
`computeAssignments` throw for as long as both are in the mailbox.

## 5. Proofs

The theorems hold for every number of UIDs, generations, changes, batch sizes, options, calls, sessions,
runs, folders, tasks, actions and rows, under the named assumptions on the constants, and any hypothesis
that a theorem states itself (the lock's `~GrantRace` and `~Pooler`, the feed's on its servers).

*FolderSync.* `TypeCorrect` gives types. `NothingSkipped`, `UidNextPromise` and `InitialGapFree` are not
inductive: what a step writes depends on what the pass read earlier. `MailInv` adds what the pass knows
at each program counter: `Provided` (issued UIDs bound what was read), `Selected` (the generation is
fixed after SELECT; later arrivals have larger UIDs), `Stages` (where a pass can be given the row),
`Recorded`, `SnapshotHeld`, `WindowHeld` (frozen and re-searched snapshots still list the window),
`HeadBatch`, `BackfillBatch`, `NewMail`, `IncrementalBatchHeld` (a batch is the next piece of what is
unmirrored). `MailInvariant` proves it inductive; the three properties are conjuncts.
`ExpungeCursorHonest` follows from `ExpungeInv`: everything read after SELECT is `Fresh` (still present,
or expunged with a MODSEQ above the one SELECT reported), a complete replay names every expunge, and
only a complete replay or a clean reconcile stores the cursor (`ReplayComplete`, `ExpungesApplied`).
`FlagCursorHonest` needs `FlagInv`: what a pass read after SELECT is right up to SELECT's HIGHESTMODSEQ
(`ReadsTruthful`), what it still owes is known at each counter (`NewMailShown`, `ScanShown`), a UIDNEXT above
`last_uid` spans no message (`NextReached`), only rows outside the window are revived unread, and a list is
proved complete by its length (`ListExact`). `UnchangedProofSound` and `NoWrongTombstone` follow from it
with the invariants above.

*AccountLock.* `LockInv`: a call has a session to itself from connect to unlock (`Backends`), holds the lock
once past acquisition while its backend lives (`LockCounted`), pooled and ended sessions hold nothing
(`Quiet`), at most one session holds it (`Mutex`), a late statement runs on the holding session
(`LateHeld`), strays stay inside the fence. Private backends and `Mutex` give `OneWriterHolds`;
`PoolCleanHolds` and `ConfirmedStandsHolds` are direct. All assume `~GrantRace`, because section 4
shows what the race does. `OwnerInv` adds `RunsIssued` and, for direct connections (`~Pooler`, for the
same reason), `NoTakeover`; it gives `OwnerShownHolds` and `LiveLeftRunningHolds`.

`TurnsTakenHolds`: on direct connections `AccountLock` implements `AccountTurn`, in which one session at a time
has the turn, a pass begins within it by naming itself in the account row, and the row changes beside that only
while no pass works. The mapping is `holders <- Holders`, `working <- AtWork`, `shown <- account.startedBy`; a
direct action is a turn in which no pass begins. A step concerns one session (`OneSession`), so `Mutex` before
and after it excludes a handover; a pass is at work only after a step that named it (`WorkContinues`); and
whatever else writes the row, an abandoned statement, a cleanup after the unlock or a sweep, moves no lock and
finds nobody at work or the row its own (`RowMoves`). The property is not among those of `LockBoth`: TLC
confirms it on that instance, but evaluating the mapping at every step adds half of the run's time.

*SendOperations.* `SendInv`: a call past its claim is of the request that the ledger holds (`Kinded`); at
most one call owns the claim, the key cannot be claimed while it lives, and until the server accepts,
nothing of its request was accepted or is on its way (`Owned`); mail from before the ledger is found
before a claim (`EarlierFound`); evidence of delivery is evidence (`Proven`); what may still be accepted
counts as accepted (`Counted`); the lock holder that found no draft still finds none (`DraftAbsent`).
`Owned` is why a `not_delivered` verdict can come only from the attempt it is about, and `Counted` why a
late acceptance is never a second one. Every safety property of the run follows, and
`NotDeliveredIsSafeHolds` from the one step that speaks the verdict.

`PromiseKeptHolds`: `SendOperations` implements `SendPromise`, the ledger as its callers may think of it, in
which a key is claimed, mail is accepted, given up on or filed, and a verdict is spoken only when it is true
for good. The mapping is `record <- row`, `accepted` itself, `pending <- Pending` (what a server may still
take) and `filed <- HasDraft`; hosts, locks, the pass through Sent and all lost answers disappear. A lost
claim or finish that committed maps to the claim or the verdict, one that did not to a stutter. `SendInv` alone
does not carry the step that writes `unknown`: a host that gave up on its own attempt could in principle write
it over a key that another host had made retryable. `DoubtInvariant` excludes this: the attempt given up was
the last there is (`DoubtLasts`), and no draft's key is ever retracted (`DraftsOfKey`).

*InboxFeed.* `ToldIsKept` says what the session was told and is not covered is pending, marked, held by the pass
or still to be verified. `FeedInv` explains why an acknowledgement may forget a change. The feed drops
a status only when it matches the baseline or the pending change; so the proof tracks what each can match:
never more than is covered at the two points that can still be observed, the provider now and the
snapshot on its way. With CONDSTORE a status stands for one point of the mailbox's life
(`MODSEQ` counts every change); without it, arrivals and removals are told apart by UIDNEXT and
MESSAGES, and flags by the recovery markers. A change that the pass holds was told nothing that the
pass's own SELECT did not show. A path without a baseline needs an argument of its own (`Unasked`): only INBOX
lacks one, and a change of it that is pending then forces the scan, because single events come only while a
mailbox is selected, and INBOX is selected either for the status that gives it its baseline or because it was
dirty. So an acknowledgement never makes a baseline out of an event alone. The hypothesis, NOTIFY only with CONDSTORE, is explained in section 4.

*MailboxActions.* A place (folder, generation, UID) that was issued only ever loses its mail, and a row keeps
the mail it was made for. `ActionInv` states this of everything that is held across a wait: rows name issued
places of generations the mirror has seen (`RowsKnown`), a call's targets, moved pairs and filed copy, and the
body run's units and downloads, name places that hold no other mail than the row's (`CallOK`, `RunOK`), and no
two targets of a call share a row or a place. That gives `NothingLostNorInvented`. For `DueCovers` a call that
may still touch the provider or the mirror has every folder within its reach marked, unless the lock was lost
(`DueFirst`), and a folder that is neither due nor changed by others is mirrored exactly (`DueInv`). That theorem assumes
`Rows = Nat \ {0}`: row ids come from a sequence that does not end, and with finitely many a pass could find no
id for new mail.

*Lanes.* `HistoryInv`: for each folder what the live lane promises below its cursor, a watermark at most one
above the target, and nothing owed above it (`FolderOK`); the running batch is the part just below the
watermark (`LaneOK`). `SessionsInv`: a session held by an action is neither parked nor held by another
(`Attached`, `OneOwner`). `WorkerInv` bounds, stage by stage, how long a stop and a full sweep may still
take (`StopBounds`, `SweepBounds`), the listing of the lane included, and `WorkerPrompt` adds them up. `SchedulerInv` counts what is left
against `completed`. `EvidenceInv`: the folder row's lock admits one batch and what it read stays true
(`Locked`), rows are of the folder's generation (`RowsOfGeneration`), a body has a row (`BodyHasRow`), and
the three parts of `EvidenceTrue`; `IdentityHolds` is the action property that no write unsets an identity.

*AccountHealth.* Every outcome of a pass rewrites the account's state, reason and retry time together.
`BrokenIsMarkedHolds` shows that each of them, applied to any row that is marked right, leaves one that is.

*ThreadRuns.* `PointerInv`: the active, previous and building pointers name runs of the status that their role
demands, so no run plays two roles, whatever builds, activations, rollbacks, retirements and prunings went
before. Then only a drain can serve a live run while the build that waits stays the same, the drain's binary is
of the build's version, so the build is among the runs whose turn it may be, and a turn that is not its own
lies before it (`BuildNearer`). The theorem speaks of a build that the drain keeps: with binaries of two
versions deployed, the newer one replaces an older build and starts over.

What a run shows is a longer story. `ProjectionInv`: a run that a pointer names stores each message that is not
queued as its evidence reads (`Current`); an active, standby or ready run misses only what is queued (`Covered`);
and the weak links it holds are those of one unambiguous subject of at most `MaxBucket` messages, unless the
subject is to be looked at again or a linked message is queued (`Regrouped`). The rest keeps this going: rows are
of the four kinds that a computation stores (`Good`), a run that lost its pointer stays right until the mail next
changes (`Followed`), and a live run is caught up or has work (`Settled`). `ProjectionSteps` has one step for each
action; a pass goes through one lemma for each of its stages. What a closure returns is a fixed
iteration, of which the proof needs only that it holds its seeds and otherwise stored messages
(`ClosureBounds`). That is induction over rounds, done without an induction theorem: a least number of a set
exists because strict inclusion is well founded on the finite sets (`LeastNumber`). With nothing queued, no
subject and nothing missing, such a run is the computation over the whole mailbox (`FaithfulRun`): that is
`ProjectionFaithfulHolds`, and `SwitchIsCurrentHolds` from the one step of `activateRun` and `rollbackOperation`.

`WorkIsFoundHolds` compares the query with the pass in both directions. Listed: some run has a step, the schedule
gives the turn to one that has, and every outcome of its pass changes something (`LiveAdvances`, `BuildAdvances`,
`AfterDiffers`). Not listed: a live run rests (`LiveRests`; by `Settled` its acknowledgement changes
nothing either), a build rests, and no build begins. With automatic activation, the activation after the pass is one
more change: an account listed for its first run alone activates it (`FirstListed`), and no drain activates one that
its account is not listed for (`OthersNotFirst`). Four exceptions are part of
the property. `CandidateIdles`: a listed account may spend one turn of the schedule on a candidate that only waits.
`MissingWaits`: a ready candidate takes a missing message whose backoff has not ended when other work brings a pass.
`FirstWaits`: a first run that waits for its own backoff is not listed, though a drain would activate it.
`FirstOwes`: with automatic activation, a ready first run whose work all waits for its backoff is listed at every tick,
and each drain of it ends without progress (the query does not ask for ready work, `drainAccount` does). `ThreadSwitch`
reaches `FirstWaits`; each other one needs two changes of mail, one more than it allows, so they are reached by the
theorem and not by the run.

*Threading.* The algorithm's loops are folds over reference chains, deliveries and links, which TLC only
evaluates on the mailboxes of `MCThreading`. `ParentsAcyclic` says of `Parents`, for any deliveries, chains,
times and forward boundaries, that no node is its own ancestor. The walk of `wouldCreateCycle` is a number of
rounds; the proof shows that as many rounds as there are nodes reach every ancestor (each round that is not the
last adds a node), that what they reach is the least set closed under the parent step (`AboveClosed`), and
hence that a link the test lets pass closes no circle (`AttachKeeps`); then each delivery's chain and each
further delivery keeps the forest. `JoinsConnected` says of `JoinAll` what the union-find is for: the groups stay
apart and lose nothing, each link ends up within one group, and a set that cuts through no link and no initial
group cuts through no final one, so nothing is joined that no chain of links ties. Both are induction by
cardinality, on a recursive function that is shown to exist. Their hypotheses (deliveries are numbered and
finite, times are integers or missing, chains are sequences) hold of what `Deliveries` builds, which TLC confirmed
on the scenes of `ThreadDrain`; the prover has no facts about the `SelectSeq` it is built with.

*Only model-checked.* All liveness properties, and `DrainIsRebuild`: liveness under fairness and ENABLED are
beyond the prover. `ParentsEnd`, `OnlyEvidenceJoins` and `WeakIsCertain` (`ThreadClosure`) speak of
stored rows that several computations over different parts of the mailbox have written; the theorems of
`ThreadingProof` give the forest and the joins of one computation, not what header parsing and fingerprints feed
into it. Every other safety property of the runs is a theorem.

## 6. Plan

Done: the twelve runs, and a theorem for every safety property of theirs but the three above. Left, beyond this
prover: the algorithm from headers to assignments for every mailbox (its forest and its joins are proved), and liveness. Left to model: what section 7 lists.

## 7. Not modelled

The components marked `partly` or `not_modelled` in `PROJECT.json` carry the reason. MIME, content extraction,
search compilation, crypto and configuration are stateless conversions; API, CLI and MCP are I/O around the
components; the web site, evaluation and smoke scripts hold no protocol. Left out of modelled components: the
size of the connection pool (`locks.ts:276`: a waiter holds a client that the holder's other statements may
need), folder CRUD, attachments, `sendDraft`'s removal of the draft, the token bucket, the IMAP login
dialogue, the metrics and retention timers. Postgres and the IMAP and SMTP servers are modelled only as the
code uses them.
