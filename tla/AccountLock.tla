----------------------------- MODULE AccountLock -----------------------------
(***************************************************************************)
(* The advisory lock of one Mailbox Account and what runs under it: sync   *)
(* passes, and direct mailbox actions such as a send.                      *)
(*                                                                         *)
(* A call takes a session from the pool, takes the lock on that session,   *)
(* proves its heartbeat, runs fenced (every mirror and account write goes  *)
(* through the locked session), unlocks, and gives the session back or     *)
(* destroys it.  A pass records its end after the unlock, through another  *)
(* connection.  Sessions end at any moment, workers crash or freeze, a     *)
(* heartbeat grows stale, waiters time out, startup sweeps and, behind a   *)
(* session pooler, stale-heartbeat takeovers run beside all of it.         *)
(*                                                                         *)
(* A step is one statement or one client-side decision of withAccountLock, *)
(* syncAccount, sendMessage or a sweep.                                    *)
(***************************************************************************)
EXTENDS Integers, FiniteSets

CONSTANTS
  Calls,       \* operations in flight, each with its own session while it runs
  Sessions,    \* Postgres sessions of the pool
  Runs,        \* imap_sync_runs ids; a closed run's id may be used again
  Kinds,       \* the kinds of call explored
  MaxFolders,  \* bound on folders per pass
  Pooler,      \* DATABASE_URL is a Supabase session pooler
  GrantRace,   \* a wait may be cancelled in the instant its lock is granted
  Faults,      \* what else may happen: stray statements, sweeps...
  NoSession, NoRun

ASSUME LockAssumption ==
  /\ Kinds \subseteq {"full", "sent", "live", "act"} /\ MaxFolders \in Nat
  /\ Pooler \in BOOLEAN /\ GrantRace \in BOOLEAN
  /\ Faults \subseteq {"stray", "abandon", "end", "crash", "sweep"}
  /\ NoSession \notin Sessions /\ NoRun \notin Runs

VARIABLES
  session,   \* state, times it holds the lock, abandoned statement in flight
  account,   \* sync_started_by (with currently_syncing), fresh last_heartbeat_at
  run,       \* imap_sync_runs: closed, or open and new, a minute old, an hour old
  call,      \* the local variables of each call
  sweep      \* the startup sweep of some worker

vars == <<session, account, run, call, sweep>>

NoLate == [do |-> "none", run |-> NoRun]
NewSession == [state |-> "free", held |-> 0, late |-> NoLate]

NoCall ==
  [pc |-> "idle", kind |-> "none", sess |-> NoSession, run |-> NoRun,
   granted |-> FALSE,   \* the server granted a waited lock, the client has not seen it
   left |-> 0,          \* folders still to sync
   stray |-> "none",    \* a statement issued through the session, not awaited
   abandoned |-> FALSE, \* LockedSession.abandoned
   confirmed |-> FALSE, \* irreversibleConfirmed
   failed |-> FALSE,    \* callbackFailed
   cleanup |-> FALSE,   \* cancellationCleanupRequired
   retried |-> FALSE, target |-> NoSession, seen |-> NoRun]

Init ==
  /\ session = [s \in Sessions |-> NewSession]
  /\ account = [startedBy |-> NoRun, fresh |-> FALSE]
  /\ run = [r \in Runs |-> "closed"]
  /\ call = [c \in Calls |-> NoCall]
  /\ sweep = [pc |-> "idle", pids |-> {}]

Held(s) == session[s].held > 0
Unlocked == \A s \in Sessions : ~Held(s)

(* The call's backend answers, and LockedSession lets it be used, one      *)
(* statement at a time.                                                    *)
Alive(c) == session[call[c].sess].state = "used"
Answers(c) == session[call[c].sess].state # "dead"
Live(c) == Answers(c) /\ ~call[c].abandoned /\ call[c].stray # "running"
Closed(c) == call[c].pc \in {"unlock", "cleanup", "finish", "report"}
At(c, stages) == call[c].pc \in stages
Goto(c, pc) == call' = [call EXCEPT ![c].pc = pc]
EndCall(c)  == call' = [call EXCEPT ![c] = NoCall]
Waiters == {c \in Calls : At(c, {"wait"}) /\ Alive(c) /\ ~call[c].granted}

-------------------------------------------------------------------------------
(* Acquisition: one try for full and Sent passes, a bounded wait for live  *)
(* passes and direct actions.                                              *)

Connect(c) ==
  /\ At(c, {"idle", "reconnect"})
  /\ \E s \in Sessions, k \in Kinds :
       /\ session[s].state = "free" /\ (At(c, {"reconnect"}) => k = call[c].kind)
       /\ session' = [session EXCEPT ![s].state = "used"]
       /\ call' = [call EXCEPT ![c] =
            [NoCall EXCEPT !.kind = k, !.sess = s, !.retried = call[c].retried,
                           !.left = MaxFolders,
                           !.pc = IF k \in {"live", "act"} THEN "wait" ELSE "try"]]
  /\ UNCHANGED <<account, run, sweep>>

(* Postgres grants the lock: again to a session that holds it, otherwise   *)
(* when no other session does; a try also yields to the waiters' queue.    *)
Grantable(s) == Held(s) \/ \A t \in Sessions \ {s} : ~Held(t)

(* The lock is held elsewhere: the client goes back to the pool as it is.  *)
(* Only a full pass behind a session pooler looks for a stale holder.      *)
Busy(c) ==
  /\ session' = [session EXCEPT ![call[c].sess].state = "free"]
  /\ IF Pooler /\ call[c].kind = "full" /\ ~call[c].retried
     THEN call' = [call EXCEPT ![c].pc = "recover", ![c].sess = NoSession]
     ELSE EndCall(c)

TryLock(c) ==
  /\ At(c, {"try"}) /\ Alive(c)
  /\ LET s == call[c].sess IN
       IF Grantable(s) /\ (Held(s) \/ Waiters = {})
       THEN session' = [session EXCEPT ![s].held = @ + 1] /\ Goto(c, "beat")
       ELSE Busy(c)
  /\ UNCHANGED <<account, run, sweep>>

Grant(c) ==
  /\ c \in Waiters /\ Grantable(call[c].sess)
  /\ session' = [session EXCEPT ![call[c].sess].held = @ + 1]
  /\ call' = [call EXCEPT ![c].granted = TRUE]
  /\ UNCHANGED <<account, run, sweep>>

WaitReturns(c) ==
  /\ At(c, {"wait"}) /\ Alive(c) /\ call[c].granted
  /\ Goto(c, "beat")
  /\ UNCHANGED <<session, account, run, sweep>>

(* 57014: the wait's statement timeout.  A session-level lock granted in   *)
(* that instant survives the statement's rollback.                         *)
WaitTimesOut(c) ==
  /\ At(c, {"wait"}) /\ Alive(c) /\ (call[c].granted => GrantRace)
  /\ Busy(c)
  /\ UNCHANGED <<account, run, sweep>>

AcquireLost(c) ==
  /\ At(c, {"try", "wait"}) /\ ~Alive(c)
  /\ session' = [session EXCEPT ![call[c].sess].state = "free"]
  /\ EndCall(c)
  /\ UNCHANGED <<account, run, sweep>>

-------------------------------------------------------------------------------
(* Under the lock.                                                         *)

(* The initial heartbeat, before anything else runs.                       *)
Beat(c) ==
  /\ At(c, {"beat"}) /\ Live(c)
  /\ account' = [account EXCEPT !.fresh = TRUE]
  /\ Goto(c, IF call[c].kind = "act" THEN "prove" ELSE "start")
  /\ UNCHANGED <<session, run, sweep>>

(* A heartbeat or proof fails on a live session, retries included.         *)
ProofFails(c) ==
  /\ At(c, {"beat", "prove"}) /\ Live(c)
  /\ call' = [call EXCEPT ![c].pc = "unlock", ![c].failed = TRUE]
  /\ UNCHANGED <<session, account, run, sweep>>

(* startSyncRun: a new row.  The id of a row nothing refers to any more is  *)
(* used again; one that stayed open for over an hour is left to retention. *)
Reusable(r) == /\ run[r] \in {"closed", "hour"} /\ account.startedBy # r
               /\ \A c \in Calls : r \notin {call[c].run, call[c].seen}
               /\ \A s \in Sessions : session[s].late.run # r
startSyncRun(c) ==
  /\ At(c, {"start"}) /\ Live(c)
  /\ \E r \in Runs :
       /\ Reusable(r)
       /\ run' = [run EXCEPT ![r] = "new"]
       /\ call' = [call EXCEPT ![c].pc = "mark", ![c].run = r]
  /\ UNCHANGED <<session, account, sweep>>

Marked(r) == [startedBy |-> r, fresh |-> TRUE]
markAccountSyncStarted(c) ==
  /\ At(c, {"mark"}) /\ Live(c)
  /\ account' = Marked(call[c].run)
  /\ Goto(c, IF call[c].kind = "full" THEN "reap" ELSE "folders")
  /\ UNCHANGED <<session, run, sweep>>

(* Open runs of other passes, one minute to one hour old.                  *)
Reaped(gone) == [r \in Runs |-> IF r \in gone THEN "closed" ELSE run[r]]
OrphansOf(c) == {r \in Runs \ {call[c].run} : run[r] = "minute"}
closeOrphanedSyncRuns(c) ==
  /\ At(c, {"reap"}) /\ Live(c)
  /\ run' = Reaped(OrphansOf(c))
  /\ Goto(c, "folders")
  /\ UNCHANGED <<session, account, sweep>>

(* assertLive before a folder, then the folder's writes.                   *)
assertLive(c) ==
  /\ At(c, {"folders"}) /\ Live(c) /\ call[c].left > 0
  /\ account' = [account EXCEPT !.fresh = TRUE]
  /\ call' = [call EXCEPT ![c].pc = "write", ![c].left = @ - 1]
  /\ UNCHANGED <<session, run, sweep>>

WriteFolder(c) ==
  /\ At(c, {"write"}) /\ Live(c)
  /\ Goto(c, "folders")
  /\ UNCHANGED <<session, account, run, sweep>>

FoldersDone(c) ==
  /\ At(c, {"folders"})
  /\ call' = [call EXCEPT ![c].pc = "finalize", ![c].left = 0]
  /\ UNCHANGED <<session, account, run, sweep>>

(* The scheduler's abort signal: the pass returns, its cleanup waits for   *)
(* the unlock.                                                             *)
Interrupt(c) ==
  /\ At(c, {"mark", "reap", "folders", "write"})
  /\ call' = [call EXCEPT ![c].pc = "unlock", ![c].cleanup = ~At(c, {"mark"}), ![c].left = 0]
  /\ UNCHANGED <<session, account, run, sweep>>

(* markAccountSyncSucceeded, Partial, Failed, AuthFailed and Yielded: all  *)
(* clear the projection only for its owner; they beat unless a full pass   *)
(* failed.                                                                 *)
Cleared_AnyOwner(r, beats) == [startedBy |-> NoRun, fresh |-> beats \/ account.fresh]
Cleared(r, beats) ==
  IF account.startedBy = r THEN [startedBy |-> NoRun, fresh |-> beats \/ account.fresh]
  ELSE account
Finalize(c) ==
  /\ At(c, {"finalize"}) /\ Live(c)
  /\ \E beats \in BOOLEAN : (call[c].kind # "full" => beats) /\ account' = Cleared(call[c].run, beats)
  /\ Goto(c, "unlock")
  /\ UNCHANGED <<session, run, sweep>>

(* A write hits its deadline or the abort signal: its lease is released    *)
(* with an error, which abandons the session.  The statement may still     *)
(* commit while the backend lives.  A folder's write fails that folder     *)
(* only; the pass stops at the next statement.                             *)
Abandon(c) ==
  /\ "abandon" \in Faults /\ At(c, {"mark", "write", "finalize"}) /\ Live(c)
  /\ session' = [session EXCEPT ![call[c].sess].late = [do |-> call[c].pc, run |-> call[c].run]]
  /\ \E aborted \in BOOLEAN :
       call' = [call EXCEPT ![c].pc = IF At(c, {"write"}) /\ ~aborted THEN "folders" ELSE "unlock",
                            ![c].abandoned = TRUE,
                            ![c].failed = ~aborted /\ ~At(c, {"write"}),
                            ![c].cleanup = aborted /\ ~At(c, {"mark"})]
  /\ UNCHANGED <<account, run, sweep>>

(* The proof of an abandoned session fails: a full pass writes no account  *)
(* state, a supplemental one fails trying to.                              *)
ProvenLoss(c) ==
  /\ At(c, {"folders", "finalize"}) /\ call[c].abandoned
  /\ call' = [call EXCEPT ![c].pc = "unlock", ![c].failed = call[c].kind # "full"]
  /\ UNCHANGED <<session, account, run, sweep>>

LateCommit(s) ==
  /\ session[s].late # NoLate
  /\ LET late == session[s].late IN
       \/ late.do = "mark" /\ account' = Marked(late.run)
       \/ late.do = "write" /\ UNCHANGED account
       \/ late.do = "finalize" /\ \E beats \in BOOLEAN : account' = Cleared(late.run, beats)
  /\ session' = [session EXCEPT ![s].late = NoLate]
  /\ UNCHANGED <<run, call, sweep>>

(* A direct action proves the lock, crosses its irreversible provider      *)
(* command, and writes through.  What fails after that is a warning.       *)
Prove(c) ==
  /\ At(c, {"prove"}) /\ Live(c)
  /\ account' = [account EXCEPT !.fresh = TRUE]
  /\ Goto(c, "deliver")
  /\ UNCHANGED <<session, run, sweep>>

Deliver(c) ==
  /\ At(c, {"deliver"})
  /\ \/ call' = [call EXCEPT ![c].pc = "through", ![c].confirmed = TRUE]
     \/ call' = [call EXCEPT ![c].pc = "unlock", ![c].failed = TRUE]
  /\ UNCHANGED <<session, account, run, sweep>>

HeartbeatTick(c) ==
  /\ At(c, {"deliver", "through"}) /\ Live(c)
  /\ account' = [account EXCEPT !.fresh = TRUE]
  /\ UNCHANGED <<session, run, call, sweep>>

WriteThrough(c) ==
  /\ At(c, {"through"}) /\ Live(c)
  /\ Goto(c, "unlock")
  /\ UNCHANGED <<session, account, run, sweep>>

(* The session ended under the call: the next statement fails.             *)
Lost(c) ==
  /\ At(c, {"beat", "start", "mark", "reap", "folders", "write", "finalize", "prove", "through"})
  /\ ~Alive(c) /\ ~call[c].abandoned
  /\ call' = [call EXCEPT ![c].pc = "unlock", ![c].failed = ~call[c].confirmed]
  /\ UNCHANGED <<session, account, run, sweep>>

-------------------------------------------------------------------------------
(* Statements issued through the session but not awaited (LockedSession).  *)

Usable_IgnoresClose(c) == ~call[c].abandoned
Usable(c) == ~call[c].abandoned /\ ~Closed(c)

StrayIssued(c) ==
  /\ "stray" \in Faults /\ call[c].sess # NoSession /\ ~At(c, {"try", "wait"})
  /\ call[c].stray = "none" /\ Usable(c)
  /\ call' = [call EXCEPT ![c].stray = "queued"]
  /\ UNCHANGED <<session, account, run, sweep>>

StrayTurn(c) ==
  /\ call[c].stray = "queued"
  /\ call' = [call EXCEPT ![c].stray =
                IF Usable(c) /\ Answers(c) THEN "running" ELSE "none"]
  /\ UNCHANGED <<session, account, run, sweep>>

StrayDone(c) ==
  /\ call[c].stray = "running"
  /\ call' = [call EXCEPT ![c].stray = "none"]
  /\ UNCHANGED <<session, account, run, sweep>>

-------------------------------------------------------------------------------
(* The end of a call.                                                      *)

(* unlockSession waits for the statements before it.  Only a proven unlock *)
(* returns the client to the pool; else the client is destroyed and its    *)
(* backend ends on its own.                                                *)
Evicted_Pooled(s) == [session[s] EXCEPT !.state = "free"]
Evicted(s) ==
  IF session[s].state = "dead" THEN NewSession ELSE [session[s] EXCEPT !.state = "gone"]

UnlockFails(c) == call[c].failed \/ ~call[c].confirmed

(* What the callback's outcome becomes, and what the pass does next.  Its  *)
(* locals are gone, and a closed session needs no other mark (Usable).     *)
AfterUnlock(c, failed) ==
  call' = [call EXCEPT ![c].failed = failed, ![c].left = 0, ![c].cleanup = FALSE, ![c].abandoned = FALSE,
                       ![c].pc = IF call[c].run = NoRun THEN "report"
                                 ELSE IF call[c].cleanup /\ ~failed THEN "cleanup" ELSE "finish"]

UnlockSession(c) ==
  /\ At(c, {"unlock"}) /\ call[c].stray = "none"
  /\ LET s == call[c].sess IN
       IF call[c].abandoned
       THEN session' = [session EXCEPT ![s] = Evicted(s)] /\ AfterUnlock(c, call[c].failed)
       ELSE \/ /\ Alive(c)
               /\ session' = [session EXCEPT ![s].held = @ - 1, ![s].state = "free"]
               /\ AfterUnlock(c, call[c].failed)
            \/ /\ session' = [session EXCEPT ![s] = Evicted(s)]
               /\ AfterUnlock(c, UnlockFails(c))
  /\ UNCHANGED <<account, run, sweep>>

(* After the unlock, through the base pool: the interrupted pass clears    *)
(* its own projection, best effort.                                        *)
CancellationCleanup(c) ==
  /\ At(c, {"cleanup"})
  /\ account' \in {account, Cleared(call[c].run, TRUE)}
  /\ Goto(c, "finish")
  /\ UNCHANGED <<session, run, sweep>>

(* finishSyncRun overwrites the row by id, reaped or not; when the write   *)
(* fails the row stays as it is.                                           *)
finishSyncRun(c) ==
  /\ At(c, {"finish"})
  /\ run' \in {run, [run EXCEPT ![call[c].run] = "closed"]}
  /\ EndCall(c)
  /\ UNCHANGED <<session, account, sweep>>

(* The caller hears the result.                                            *)
Report(c) ==
  /\ At(c, {"report"}) /\ EndCall(c)
  /\ UNCHANGED <<session, account, run, sweep>>

-------------------------------------------------------------------------------
(* Recovery.                                                               *)

StaleHolders == {s \in Sessions : Held(s) /\ ~account.fresh}
Ended(s) ==
  IF session[s].state = "used" THEN [NewSession EXCEPT !.state = "dead"]
  ELSE IF session[s].state = "dead" THEN session[s] ELSE NewSession

(* clearOrphanedLockForAccount, statement by statement.                    *)
FindStale(c) ==
  /\ At(c, {"recover"})
  /\ IF StaleHolders = {} THEN EndCall(c)
     ELSE \E s \in StaleHolders :
            call' = [call EXCEPT ![c].pc = "kill", ![c].target = s, ![c].seen = account.startedBy]
  /\ UNCHANGED <<session, account, run, sweep>>

KillHolder(c) ==
  /\ At(c, {"kill"})
  /\ session' = [session EXCEPT ![call[c].target] = Ended(call[c].target)]
  /\ Goto(c, "resetOwner")
  /\ UNCHANGED <<account, run, sweep>>

ResetOwner(c) ==
  /\ At(c, {"resetOwner"})
  /\ account' = [account EXCEPT !.startedBy = IF @ = call[c].seen THEN NoRun ELSE @]
  /\ Goto(c, "closeRuns")
  /\ UNCHANGED <<session, run, sweep>>

OldRuns == {r \in Runs : run[r] \in {"minute", "hour"}}
CloseStaleRuns(c) ==
  /\ At(c, {"closeRuns"})
  /\ run' = Reaped(OldRuns)
  /\ call' = [call EXCEPT ![c] = [NoCall EXCEPT !.pc = "reconnect", !.kind = "full", !.retried = TRUE]]
  /\ UNCHANGED <<session, account, sweep>>

RecoveryFails(c) ==
  /\ At(c, {"recover", "kill", "resetOwner", "closeRuns"}) /\ EndCall(c)
  /\ UNCHANGED <<session, account, run, sweep>>

(* clearOrphanedLocks: on a direct connection it touches only an account   *)
(* whose heartbeat is stale and whose lock nobody holds, and the reset is  *)
(* its first statement; the takeover ends the stale holders first and then *)
(* asks for the stale heartbeat only.                                      *)
StartSweep ==
  /\ "sweep" \in Faults /\ Pooler /\ sweep.pc = "idle"
  /\ sweep' = [pc |-> "kill", pids |-> StaleHolders]
  /\ UNCHANGED <<session, account, run, call>>

SweepKill ==
  /\ sweep.pc = "kill"
  /\ \/ /\ sweep.pids = {} /\ sweep' = [sweep EXCEPT !.pc = "reset"]
        /\ UNCHANGED session
     \/ \E s \in sweep.pids :
          /\ session' \in {session, [session EXCEPT ![s] = Ended(s)]}
          /\ sweep' = [sweep EXCEPT !.pids = @ \ {s}]
  /\ UNCHANGED <<account, run, call>>

Sweepable_StaleOnly == ~account.fresh
Sweepable == ~account.fresh /\ (Pooler \/ Unlocked)
SweepReset ==
  /\ "sweep" \in Faults /\ sweep.pc = IF Pooler THEN "reset" ELSE "idle"
  /\ account' = [account EXCEPT !.startedBy = IF Sweepable THEN NoRun ELSE @]
  /\ sweep' = [sweep EXCEPT !.pc = "close"]
  /\ UNCHANGED <<session, run, call>>

SweepClose ==
  /\ sweep.pc = "close"
  /\ run' = IF Sweepable THEN Reaped(OldRuns) ELSE run
  /\ sweep' = [sweep EXCEPT !.pc = "idle"]
  /\ UNCHANGED <<session, account, call>>

-------------------------------------------------------------------------------
(* The environment.                                                        *)

(* A backend ends: failover, network loss, pg_terminate_backend of an      *)
(* abandoned session, the pool's idle timeout.                             *)
EndSession(s) ==
  /\ "end" \in Faults /\ session[s] # Ended(s) /\ session[s].state # "gone"
  /\ session' = [session EXCEPT ![s] = Ended(s)]
  /\ UNCHANGED <<account, run, call, sweep>>

(* The server notices that a client is gone (createPool's TCP settings, or *)
(* its closed socket).                                                     *)
ReapSession(s) ==
  /\ session[s].state = "gone"
  /\ session' = [session EXCEPT ![s] = NewSession]
  /\ UNCHANGED <<account, run, call, sweep>>

(* The worker process of a call vanishes.                                  *)
Crash(c) ==
  /\ "crash" \in Faults /\ ~At(c, {"idle"})
  /\ LET s == call[c].sess IN
       session' = IF s # NoSession /\ ~At(c, {"cleanup", "finish", "report"})
                  THEN [session EXCEPT ![s] = Evicted(s)] ELSE session
  /\ EndCall(c)
  /\ UNCHANGED <<account, run, sweep>>

HeartbeatAges ==
  /\ account.fresh /\ account' = [account EXCEPT !.fresh = FALSE]
  /\ UNCHANGED <<session, run, call, sweep>>

(* A run grows older than the guards' minute (and the stale threshold),    *)
(* then older than an hour.                                                *)
RunAges(r) ==
  /\ \/ run[r] = "new" /\ run' = [run EXCEPT ![r] = "minute"]
     \/ run[r] = "minute" /\ run' = [run EXCEPT ![r] = "hour"]
  /\ UNCHANGED <<session, account, call, sweep>>

Acquire(c) == Connect(c) \/ TryLock(c) \/ Grant(c) \/ WaitReturns(c) \/ WaitTimesOut(c) \/ AcquireLost(c)
PassStep(c) == startSyncRun(c) \/ markAccountSyncStarted(c) \/ closeOrphanedSyncRuns(c) \/ assertLive(c)
               \/ WriteFolder(c) \/ FoldersDone(c) \/ Interrupt(c) \/ Finalize(c) \/ Abandon(c)
               \/ ProvenLoss(c)
ActStep(c) == Prove(c) \/ Deliver(c) \/ HeartbeatTick(c) \/ WriteThrough(c)
EndStep(c) == UnlockSession(c) \/ CancellationCleanup(c) \/ finishSyncRun(c) \/ Report(c)
Stray(c) == StrayIssued(c) \/ StrayTurn(c) \/ StrayDone(c)
Recover(c) == FindStale(c) \/ KillHolder(c) \/ ResetOwner(c) \/ CloseStaleRuns(c) \/ RecoveryFails(c)
CallStep(c) == Acquire(c) \/ Beat(c) \/ ProofFails(c) \/ PassStep(c) \/ ActStep(c) \/ Lost(c)
               \/ EndStep(c) \/ Stray(c) \/ Recover(c) \/ Crash(c)
Sweep == StartSweep \/ SweepKill \/ SweepReset \/ SweepClose
SessionStep(s) == LateCommit(s) \/ EndSession(s) \/ ReapSession(s)

Next ==
  \/ \E c \in Calls : CallStep(c)
  \/ \E s \in Sessions : SessionStep(s)
  \/ Sweep \/ HeartbeatAges \/ \E r \in Runs : RunAges(r)

Spec == Init /\ [][Next]_vars
===============================================================================
