----------------------------- MODULE WorkerRuntime -----------------------------
(***************************************************************************)
(* The sync worker's process: the startup gates, the loop that chooses     *)
(* between a full sweep and a pass over Sent, the threading lane after     *)
(* each of them, the sleep between passes, and stop, which a host or a     *)
(* signal may call at any time.  Time passes in ticks; what a pass or a    *)
(* step may take is bounded by the constants.                              *)
(***************************************************************************)
EXTENDS Integers, FiniteSetsExt

CONSTANTS
  SyncInterval, SentInterval,
  PassTime,        \* an unsignalled pass of the engine ends by then
  AbortGrace,      \* and a signalled one this long after the signal
  LaneBudget,      \* THREADING_LANE_BUDGET_MS
  StepTime,        \* one drain of an account, its listing, one startup query
  LaneSteps,       \* accounts times THREADING_STEPS_PER_ACCOUNT_TICK
  MaxAttempts      \* of the lock self-test

ASSUME WorkerAssumption ==
  {SyncInterval, SentInterval, PassTime, AbortGrace, LaneBudget, StepTime, LaneSteps, MaxAttempts} \subseteq Nat \ {0}

VARIABLES
  stage,       \* what the process awaits
  attempt,     \* of the self-test
  timer,       \* ticks until the running timer fires: a sleep, the Sent pass's cut, the lane's deadline
  spent,       \* ticks of the running step, or of a pass since its signal
  lane,        \* of the running tick
  todo,        \* drains the lane may still make
  sinceFull,   \* ticks since lastFullSyncStartedAtMs; -1 for null
  fullTook,    \* ticks from the last full sweep's start to the end of its lane
  stopping, sinceStop

workerVars == <<stage, attempt, timer, spent, lane, todo, sinceFull, fullTook, stopping, sinceStop>>

WorkerInit ==
  /\ stage = "selfTest" /\ attempt = 1 /\ timer = 0 /\ spent = 0 /\ lane = "full" /\ todo = 0
  /\ sinceFull = -1 /\ fullTook = 0 /\ stopping = FALSE /\ sinceStop = 0

Awaits(s) == stage' = s /\ spent' = 0
Gates == <<"selfTest", "rollout", "sweep", "cap", "retention", "loop">>
Kept == UNCHANGED <<sinceFull, fullTook, stopping, sinceStop>>

workerPollIntervalMs == Min({SyncInterval, SentInterval})
selectSyncLane == IF sinceFull = -1 \/ sinceFull >= SyncInterval THEN "full" ELSE "sent"

(* Startup.  Every gate's await is followed by a look at stopping.         *)
PassGate ==
  /\ \E i \in 1..5 : stage = Gates[i] /\ Awaits(IF stopping THEN "ended" ELSE Gates[i + 1])
  /\ UNCHANGED <<attempt, timer, lane, todo>> /\ Kept
FailGate ==
  /\ \E i \in 1..5 : stage = Gates[i]
  /\ IF stage = "selfTest" /\ stopping THEN Awaits("ended") ELSE Awaits("failed")
  /\ UNCHANGED <<attempt, timer, lane, todo>> /\ Kept
(* runLockSelfTestWithRetry and waitForStartupRetry: the delay doubles.    *)
RetryDelay == Min({2 ^ (attempt - 1), StepTime * 2})
RetryLater ==
  /\ stage = "selfTest" /\ ~stopping /\ attempt < MaxAttempts
  /\ Awaits("backoff") /\ attempt' = attempt + 1 /\ timer' = RetryDelay
  /\ UNCHANGED <<lane, todo>> /\ Kept
RetryNow ==
  /\ stage = "backoff" /\ (timer = 0 \/ stopping)
  /\ Awaits(IF stopping THEN "ended" ELSE "selfTest")
  /\ UNCHANGED <<attempt, timer, lane, todo>> /\ Kept

(* The head of the loop, and tick up to the engine's call.                 *)
sentLaneSignal_Parent == timer' = PassTime
sentLaneSignal == timer' = Max({1, SyncInterval - sinceFull})
StartSweep ==
  /\ stage = "loop" /\ ~stopping /\ lane' = selectSyncLane /\ Awaits("pass")
  /\ IF lane' = "full" THEN sinceFull' = 0 /\ timer' = PassTime ELSE sentLaneSignal /\ UNCHANGED sinceFull
  /\ UNCHANGED <<attempt, todo, fullTook, stopping, sinceStop>>
LoopEnds ==
  /\ stage = "loop" /\ stopping /\ Awaits("ended")
  /\ UNCHANGED <<attempt, timer, lane, todo>> /\ Kept
Signalled == stopping \/ (lane = "sent" /\ timer = 0)
(* The engine returns, or it throws and the lane is left out.              *)
EndPass ==
  /\ stage = "pass"
  /\ (~stopping /\ Awaits("list")) \/ Awaits("close")
  /\ UNCHANGED <<attempt, timer, lane, todo>> /\ Kept

(* drainThreadingLane: one query lists the accounts, or fails and ends the *)
(* lane; only its answer starts the deadline.  The deadline and stop are   *)
(* looked at between drains.                                               *)
listAccountsNeedingWork ==
  /\ stage = "list"
  /\ \/ Awaits("drain") /\ timer' = LaneBudget /\ \E n \in 0..LaneSteps : todo' = n
     \/ Awaits("close") /\ UNCHANGED <<timer, todo>>
  /\ UNCHANGED <<attempt, lane>> /\ Kept
Drain ==
  /\ stage = "drain" /\ todo > 0 /\ timer > 0 /\ ~stopping /\ Awaits("drainAccount")
  /\ UNCHANGED <<attempt, timer, lane, todo>> /\ Kept
drainAccount ==
  /\ stage = "drainAccount" /\ Awaits("drain") /\ todo' = todo - 1
  /\ UNCHANGED <<attempt, timer, lane>> /\ Kept
DrainEnds ==
  /\ stage = "drain" /\ (todo = 0 \/ timer = 0 \/ stopping) /\ Awaits("close")
  /\ UNCHANGED <<attempt, timer, lane, todo>> /\ Kept

(* The foot of the loop.                                                   *)
pollDelay ==
  IF lane = "sent" THEN Min({workerPollIntervalMs, Max({0, SyncInterval - sinceFull})}) ELSE workerPollIntervalMs
Sleep ==
  /\ stage = "close" /\ Awaits(IF stopping THEN "ended" ELSE "sleep") /\ timer' = pollDelay
  /\ fullTook' = IF lane = "full" THEN sinceFull ELSE fullTook
  /\ UNCHANGED <<attempt, lane, todo, sinceFull, stopping, sinceStop>>
Woken_ByTimer == timer = 0
Woken == timer = 0 \/ stopping
Wake ==
  /\ stage = "sleep" /\ Woken /\ Awaits("loop")
  /\ UNCHANGED <<attempt, timer, lane, todo>> /\ Kept

(* stop: of the host, of a signal, of a fatal process event.               *)
Over == stage \in {"ended", "failed"}
stop ==
  /\ ~stopping /\ ~Over /\ stopping' = TRUE /\ sinceStop' = 0
  /\ spent' = IF stage = "pass" /\ ~Signalled THEN 0 ELSE spent
  /\ UNCHANGED <<stage, attempt, timer, lane, todo, sinceFull, fullTook>>

(* Nothing that the process does without waiting takes time.               *)
Waiting ==
  CASE stage = "pass"                -> spent < IF Signalled THEN AbortGrace ELSE PassTime
    [] stage \in {"loop", "drain", "close"} -> FALSE
    [] stage = "backoff"             -> timer > 0 /\ ~stopping
    [] stage = "sleep"               -> ~Woken
    [] OTHER                         -> spent < StepTime
Tick ==
  /\ ~Over /\ Waiting
  /\ timer' = Max({0, timer - 1})
  /\ spent' = IF stage = "pass" /\ lane = "sent" /\ timer = 1 /\ ~stopping THEN 0 ELSE spent + 1
  /\ sinceFull' = IF sinceFull = -1 THEN -1 ELSE sinceFull + 1
  /\ sinceStop' = IF stopping THEN sinceStop + 1 ELSE 0
  /\ UNCHANGED <<stage, attempt, lane, todo, fullTook, stopping>>

WorkerNext ==
  \/ PassGate \/ FailGate \/ RetryLater \/ RetryNow \/ StartSweep \/ LoopEnds
  \/ EndPass \/ listAccountsNeedingWork \/ Drain \/ drainAccount \/ DrainEnds \/ Sleep \/ Wake \/ stop \/ Tick

-------------------------------------------------------------------------------
(* Properties.                                                             *)

(* A full sweep is late by at most the end of one Sent pass, the listing   *)
(* of its lane, the lane's budget and the drain that overruns it: Sent     *)
(* passes, that run far more often, never push it further back             *)
(* (sentLaneSignal, drainThreadingLane, loop).                             *)
SweepEnd == Max({SyncInterval, fullTook + workerPollIntervalMs})
FullSweepOnTime ==
  sinceFull # -1 /\ ~Over /\ ~(stage \in {"pass", "list", "drain", "drainAccount", "close"} /\ lane = "full") =>
    sinceFull <= SweepEnd + AbortGrace + StepTime + LaneBudget + StepTime
(* Wherever stop finds the process, it ends within one answer of what it   *)
(* awaits (stop, sleep, drainThreadingLane, finishStoppedRuntime).         *)
StopIsPrompt == ~Over => sinceStop <= Max({AbortGrace, StepTime})
(* The process is on time, for its sweeps and for its end.                 *)
WorkerIsPrompt == FullSweepOnTime /\ StopIsPrompt
===============================================================================
