--------------------------- MODULE AccountLockProps ---------------------------
(***************************************************************************)
(* What the account lock promises to the passes and actions that take it.  *)
(***************************************************************************)
EXTENDS AccountLock

Stages == {"idle", "try", "wait", "beat", "start", "mark", "reap", "folders", "write", "finalize",
           "prove", "deliver", "through", "unlock", "cleanup", "finish", "report",
           "recover", "kill", "resetOwner", "closeRuns", "reconnect"}
Lates == [do : {"none", "mark", "write", "finalize"}, run : Runs \cup {NoRun}]
CallRecords ==
  [pc : Stages, kind : Kinds \cup {"none", "full"}, sess : Sessions \cup {NoSession},
   run : Runs \cup {NoRun}, granted : BOOLEAN, left : 0..MaxFolders,
   stray : {"none", "queued", "running"}, abandoned : BOOLEAN, confirmed : BOOLEAN,
   failed : BOOLEAN, cleanup : BOOLEAN, retried : BOOLEAN,
   target : Sessions \cup {NoSession}, seen : Runs \cup {NoRun}]

(* Every variable keeps its type; a session holds the lock at most once,   *)
(* since no pooled session ever holds it.                                  *)
TypeOK ==
  /\ session \in [Sessions -> [state : {"free", "used", "dead", "gone"}, held : {0, 1}, late : Lates]]
  /\ account \in [startedBy : Runs \cup {NoRun}, fresh : BOOLEAN]
  /\ run \in [Runs -> {"closed", "new", "minute", "hour"}]
  /\ call \in [Calls -> CallRecords]
  /\ sweep \in [pc : {"idle", "kill", "reset", "close"}, pids : SUBSET Sessions]

(* A call whose next fenced statement would commit: its backend lives and  *)
(* LockedSession lets the statement through, or already did.               *)
CanCommit(c) ==
  /\ call[c].sess # NoSession /\ Answers(c)
  /\ \/ At(c, {"start", "mark", "reap", "write", "finalize", "through"}) /\ ~call[c].abandoned
     \/ call[c].stray = "running"

(* One mirror-changing operation per account at a time: no two calls can   *)
(* commit fenced writes in the same state, however one of them was frozen, *)
(* abandoned, taken over or left statements behind (withAccountLock with   *)
(* fenceWrites, LockedSession); an abandoned statement is no exception.    *)
OneWriter ==
  /\ \A c, d \in Calls : CanCommit(c) /\ CanCommit(d) => c = d
  /\ \A s \in Sessions : session[s].late # NoLate =>
       \A c \in Calls : CanCommit(c) => call[c].sess = s

(* A pass at work: started, its session alive and still its own.           *)
Working(c) == At(c, {"reap", "folders", "write", "finalize"}) /\ Alive(c) /\ ~call[c].abandoned

(* While a pass works the account row names it: no cleanup of an earlier   *)
(* pass, late statement or startup sweep takes the projection from it      *)
(* (expectedSyncOwner, clearOrphanedLocks on a direct connection).         *)
OwnerShown == \A c \in Calls : Working(c) => account.startedBy = call[c].run

(* The account's turns, on direct connections: the lock is never handed    *)
(* over, a pass works only under it, begins by naming itself in the        *)
(* account row, and the row changes beside it only while no pass works.    *)
Holders == {s \in Sessions : Held(s)}
AtWork == {call[c].run : c \in {d \in Calls : Working(d)}}
Turn == INSTANCE AccountTurn WITH holders <- Holders, working <- AtWork, shown <- account.startedBy
TurnsTaken == Turn!Spec

(* A session waiting in the pool never holds the lock: a later call on it  *)
(* would re-enter the lock and leave it held (withAccountLock, releaseError). *)
PoolClean == \A s \in Sessions : session[s].state = "free" => session[s].held = 0

(* Once the provider confirmed the irreversible command, no fault of the   *)
(* lock turns the result into a failure that invites a second send.        *)
ConfirmedStands == \A c \in Calls : call[c].confirmed => ~call[c].failed

(* "A live account is left running": a startup sweep takes neither the     *)
(* projection nor the open run of a pass at work.                          *)
LiveLeftRunning ==
  [][Sweep => \A c \in Calls : Working(c)' =>
       /\ account.startedBy = call[c].run => account'.startedBy = call[c].run
       /\ run[call[c].run] # "closed" => run'[call[c].run] # "closed"]_vars

-------------------------------------------------------------------------------
(* Fairness: a live worker's calls keep stepping (a step of its own code   *)
(* is a bounded statement or a bounded provider command), Postgres grants  *)
(* a free lock, the server notices vanished clients (createPool), and time *)
(* passes.                                                                 *)
Working_Steps(c) == Grant(c) \/ WaitReturns(c) \/ AcquireLost(c) \/ Beat(c)
                    \/ PassStep(c) \/ Prove(c) \/ Deliver(c) \/ WriteThrough(c) \/ Lost(c)
                    \/ EndStep(c) \/ StrayTurn(c) \/ StrayDone(c)
Fairness ==
  /\ \A c \in Calls : WF_vars(Working_Steps(c))
  /\ \A s \in Sessions : WF_vars(ReapSession(s))
  /\ \A r \in Runs : WF_vars(RunAges(r))
FairSpec == Spec /\ Fairness

(* A held lock is released: no path through a failed unlock, an abandoned  *)
(* session or a vanished worker keeps an account locked for good.          *)
LockIsReleased == ~Unlocked ~> Unlocked

-------------------------------------------------------------------------------
(* The documents' stronger sentence, which the code does not keep.         *)

(* "Holding the lock proves no other sync of this account is live, so any  *)
(* run still open is a vanished worker's orphan" (syncAccount).            *)
OrphansAreVanished ==
  [][\A c \in Calls : closeOrphanedSyncRuns(c) =>
       \A d \in Calls : call[d].run \notin OrphansOf(c)]_vars
===============================================================================
