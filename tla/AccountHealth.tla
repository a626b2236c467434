---------------------------- MODULE AccountHealth ----------------------------
(***************************************************************************)
(* The health of one Mailbox Account: which passes of which workers may    *)
(* start, and what each outcome writes to sync_state, the counters and the *)
(* retry time.  Full passes record an outcome, Sent and live Inbox passes  *)
(* only yield.  A pass is chosen from a list read without the lock and     *)
(* starts when its turn comes; the lock only excludes another pass at that *)
(* moment.                                                                 *)
(*                                                                         *)
(* Times are kept as far as they are compared: the retry time has passed,  *)
(* is within the exponential backoff or the calm interval; the last time   *)
(* the priority folders succeeded is recent, a day or a week ago.  How     *)
(* long the backoff is (it doubles, and three successes reset it) decides  *)
(* nothing else and is left out.                                           *)
(***************************************************************************)
EXTENDS Naturals

CONSTANTS
  Workers,    \* processes that run passes, one at a time each
  Threshold,  \* BROKEN_FAILURE_THRESHOLD
  MaxEvents,  \* bound on what the environment and the operator do
  NoWorker

ASSUME HealthAssumption ==
  /\ NoWorker \notin Workers
  /\ Threshold \in Nat \ {0} /\ MaxEvents \in Nat

VARIABLES
  acct,     \* the account row: state, reason, failure count, retry time
  anchor,   \* age of last_priority_sync_succeeded_at, or of the account
  folders,  \* what folder_health and folder_cap conclude from the folders
  owner,    \* sync_started_by while currently_syncing
  lock,     \* holder of the account's advisory lock
  pass,     \* each worker's pass
  provider, \* how the mail server answers
  events
healthVars == <<acct, anchor, folders, owner, lock, pass, provider, events>>

Kinds == {"full", "supplemental"}   \* supplemental: a Sent or a live Inbox pass
NoPass == [phase |-> "idle", kind |-> "full"]
NeedsHuman == {"auth", "resets", "stuckTerminal"}
Terminal == acct.state = "BROKEN" /\ acct.reason \in NeedsHuman

HealthTypeOK ==
  /\ acct \in [state : {"INITIAL_SYNC", "HEALTHY", "DEGRADED", "BROKEN"},
       reason : NeedsHuman \cup {"none", "folders", "error", "stuck24h", "credentials"},
       failures : 0..Threshold,
       retry : {"none", "backoff", "calm", "passed"}]
  /\ anchor \in {"recent", "day", "week"} /\ folders \in {"incomplete", "unhealthy", "well"}
  /\ owner \in Workers \cup {NoWorker} /\ lock \in Workers \cup {NoWorker}
  /\ pass \in [Workers -> [phase : {"idle", "chosen", "running", "cleanup"}, kind : Kinds]]
  /\ provider \in {"up", "flaky", "down", "refuses"} /\ events \in 0..MaxEvents

HealthInit ==
  /\ acct = [state |-> "INITIAL_SYNC", reason |-> "none", failures |-> 0, retry |-> "none"]
  /\ anchor = "recent" /\ folders = "incomplete" /\ owner = NoWorker /\ lock = NoWorker
  /\ pass = [w \in Workers |-> NoPass] /\ provider \in {"up", "flaky", "down", "refuses"} /\ events = 0

-------------------------------------------------------------------------------
(* Who may start a pass.                                                   *)

Runnable_NotBroken ==
  /\ acct.state # "BROKEN" /\ acct.retry \in {"none", "passed"}
  /\ owner = NoWorker \/ lock = NoWorker
Runnable ==
  /\ acct.state # "BROKEN" \/ acct.retry # "none"
  /\ acct.retry \in {"none", "passed"}
  /\ owner = NoWorker \/ lock = NoWorker
Watchable ==
  /\ acct.state # "INITIAL_SYNC" \/ folders # "incomplete"
  /\ acct.state # "BROKEN" \/ acct.retry # "none"
  /\ acct.retry \in {"none", "passed"}

Choose(w) ==
  /\ pass[w].phase = "idle"
  /\ \E k \in Kinds :
       /\ Runnable \/ (k # "full" /\ Watchable)
       /\ pass' = [pass EXCEPT ![w] = [phase |-> "chosen", kind |-> k]]
  /\ UNCHANGED <<acct, anchor, folders, owner, lock, provider, events>>

(* markAccountSyncStarted under the lock, or a deferred pass.              *)
Begin(w) ==
  /\ pass[w].phase = "chosen"
  /\ IF lock = NoWorker
     THEN lock' = w /\ owner' = w /\ pass' = [pass EXCEPT ![w].phase = "running"]
     ELSE pass' = [pass EXCEPT ![w] = NoPass] /\ UNCHANGED <<lock, owner>>
  /\ UNCHANGED <<acct, anchor, folders, provider, events>>

-------------------------------------------------------------------------------
(* What the outcomes write.                                                *)

AtMost(n, bound) == IF n < bound THEN n ELSE bound

(* The counters after a pass whose priority folders succeeded; a pass cut  *)
(* short by the lock budget leaves them alone.                             *)
Counted(a, counts) == IF counts THEN [a EXCEPT !.failures = 0, !.retry = "none"] ELSE a
Succeeded(a, counts, condition) ==
  [Counted(a, counts) EXCEPT
     !.state = IF condition = "incomplete" THEN "INITIAL_SYNC"
               ELSE IF condition = "unhealthy" THEN "DEGRADED" ELSE "HEALTHY",
     !.reason = IF condition = "well" THEN "none" ELSE "folders"]
Partial(a, counts) == [Counted(a, counts) EXCEPT !.state = "DEGRADED", !.reason = "error"]

AuthFailed(a) ==
  [a EXCEPT !.state = "BROKEN", !.reason = "auth", !.failures = AtMost(@ + 1, Threshold), !.retry = "none"]
MarkBroken(a) == [a EXCEPT !.state = "BROKEN", !.reason = "resets", !.retry = "none"]

(* DEGRADED, or already escalated: then a day or a week without a success  *)
(* of the priority folders decides instead of the count.                   *)
Eligible24h(a) == a.state = "DEGRADED" \/ (a.state = "BROKEN" /\ a.reason = "stuck24h")
Stuck_Retries(a, age) == [a EXCEPT !.state = "BROKEN",
  !.reason = IF age = "week" THEN "stuckTerminal" ELSE "stuck24h", !.retry = "calm"]
Stuck(a, age) == [a EXCEPT !.state = "BROKEN",
  !.reason = IF age = "week" THEN "stuckTerminal" ELSE "stuck24h",
  !.retry = IF age = "week" THEN "none" ELSE "calm"]
CountedFailure(a) ==
  LET broken == a.failures + 1 >= Threshold IN
  [a EXCEPT !.state = IF broken THEN "BROKEN" ELSE "DEGRADED", !.reason = "error",
            !.failures = AtMost(@ + 1, Threshold), !.retry = IF broken THEN "calm" ELSE "backoff"]
Failed(a, age) == IF Eligible24h(a) /\ age # "recent" THEN Stuck(a, age) ELSE CountedFailure(a)

(* What a full pass may come to, by how the provider answers it.           *)
Outcomes ==
  CASE provider = "up"      -> {"success"}
    [] provider = "flaky"   -> {"success", "partial", "failed", "resets"}
    [] provider = "down"    -> {"failed"}
    [] provider = "refuses" -> {"auth"}

(* A full pass nears the folders' health unless the budget cut it short.   *)
Nearer(condition) == IF condition = "incomplete" THEN "unhealthy" ELSE "well"

EndFull(w, cut) ==
  /\ pass[w].phase = "running" /\ pass[w].kind = "full"
  /\ \E o \in Outcomes :
       /\ folders' = IF o = "success" /\ ~cut THEN Nearer(folders) ELSE folders
       /\ anchor' = IF o \in {"success", "partial"} THEN "recent" ELSE anchor
       /\ acct' = CASE o = "success" -> Succeeded(acct, ~cut, folders')
                    [] o = "partial" -> Partial(acct, ~cut)
                    [] o = "failed"  -> Failed(acct, anchor)
                    [] o = "auth"    -> AuthFailed(acct)
                    [] o = "resets"  -> MarkBroken(acct)
  /\ owner' = NoWorker /\ lock' = NoWorker /\ pass' = [pass EXCEPT ![w] = NoPass]
  /\ UNCHANGED <<provider, events>>

(* A supplemental pass yields whatever its outcome.                        *)
EndSupplemental(w) ==
  /\ pass[w].phase = "running" /\ pass[w].kind = "supplemental"
  /\ owner' = NoWorker /\ lock' = NoWorker /\ pass' = [pass EXCEPT ![w] = NoPass]
  /\ UNCHANGED <<acct, anchor, folders, provider, events>>

(* A cancelled pass releases the lock first and clears its mark after, if  *)
(* the row still names it.  A pass that lost its lock writes nothing.      *)
Interrupt(w) ==
  /\ pass[w].phase = "running" /\ events < MaxEvents /\ events' = events + 1
  /\ lock' = NoWorker /\ pass' = [pass EXCEPT ![w].phase = "cleanup"]
  /\ UNCHANGED <<acct, anchor, folders, owner, provider>>
Cleanup(w) ==
  /\ pass[w].phase = "cleanup"
  /\ owner' = IF owner = w THEN NoWorker ELSE owner
  /\ pass' = [pass EXCEPT ![w] = NoPass]
  /\ UNCHANGED <<acct, anchor, folders, lock, provider, events>>
LoseLock(w) ==
  /\ pass[w].phase = "running" /\ events < MaxEvents /\ events' = events + 1
  /\ lock' = NoWorker /\ pass' = [pass EXCEPT ![w] = NoPass]
  /\ UNCHANGED <<acct, anchor, folders, owner, provider>>

-------------------------------------------------------------------------------
(* updateAccountCredentials takes the lock, or is told to retry.           *)
UpdateCredentials ==
  /\ lock = NoWorker /\ events < MaxEvents /\ events' = events + 1
  /\ acct' = [state |-> "DEGRADED", reason |-> "credentials", failures |-> 0, retry |-> "none"]
  /\ owner' = NoWorker
  /\ provider' \in {provider, "up"}
  /\ UNCHANGED <<anchor, folders, lock, pass>>

RetryDue ==
  /\ acct.retry \in {"backoff", "calm"} /\ acct' = [acct EXCEPT !.retry = "passed"]
  /\ UNCHANGED <<anchor, folders, owner, lock, pass, provider, events>>
Age ==
  /\ anchor # "week" /\ anchor' = IF anchor = "recent" THEN "day" ELSE "week"
  /\ UNCHANGED <<acct, folders, owner, lock, pass, provider, events>>
ProviderChanges ==
  /\ events < MaxEvents /\ events' = events + 1
  /\ provider' \in {"up", "flaky", "down", "refuses"} \ {provider}
  /\ folders' \in {folders, "incomplete", "unhealthy"}
  /\ UNCHANGED <<acct, anchor, owner, lock, pass>>

HealthNext ==
  \/ \E w \in Workers : Choose(w) \/ Begin(w) \/ (\E cut \in BOOLEAN : EndFull(w, cut)) \/ EndSupplemental(w)
                        \/ Interrupt(w) \/ Cleanup(w) \/ LoseLock(w)
  \/ UpdateCredentials \/ RetryDue \/ Age \/ ProviderChanges

HealthFairness ==
  /\ WF_healthVars(RetryDue)
  /\ \A w \in Workers :
       /\ SF_healthVars(Choose(w) /\ pass'[w].kind = "full")
       /\ SF_healthVars(pass[w].kind = "full" /\ Begin(w) /\ lock' = w)
       /\ WF_healthVars(Begin(w)) /\ WF_healthVars(EndSupplemental(w))
       /\ WF_healthVars(Cleanup(w))
       /\ WF_healthVars(\E cut \in BOOLEAN : EndFull(w, cut)) /\ SF_healthVars(EndFull(w, FALSE))
HealthSpec == HealthInit /\ [][HealthNext]_healthVars /\ HealthFairness

-------------------------------------------------------------------------------
(* An account that is BROKEN without a retry time waits for a human, and   *)
(* only then: no other path may pin it, and no path may schedule a retry   *)
(* of refused credentials, of the reset cap or of the last escalation      *)
(* (getRunnableAccounts takes backoff_until as the mark of self-healing).  *)
BrokenIsMarked ==
  /\ acct.state = "BROKEN" => (acct.retry = "none" <=> acct.reason \in NeedsHuman)
  /\ acct.reason \in NeedsHuman \cup {"stuck24h"} => acct.state = "BROKEN"

(* Once the provider works again every account that needs no human comes   *)
(* back to HEALTHY, whatever series of failures it has behind it.          *)
AccountHeals == <>[](provider = "up") => []<>(acct.state = "HEALTHY" \/ Terminal)
===============================================================================
