---------------------------- MODULE AccountLockInv ----------------------------
(***************************************************************************)
(* Why the account lock holds: the inductive invariants behind the         *)
(* theorems of AccountLockProof.                                           *)
(***************************************************************************)
EXTENDS AccountLockProps

Acquiring == {"try", "wait"}
Fenced == {"beat", "start", "mark", "reap", "folders", "write", "finalize",
           "prove", "deliver", "through", "unlock"}
Ending == {"cleanup", "finish", "report"}
Recovering == {"recover", "kill", "resetOwner", "closeRuns", "reconnect"}

HasBackend(c) == At(c, Acquiring \cup Fenced)
HoldsLock(c) == At(c, Fenced) \/ (At(c, {"wait"}) /\ call[c].granted)

(* From the connect to the unlock a call has a session of its own.         *)
Backends ==
  \A c \in Calls :
    /\ HasBackend(c) => /\ call[c].sess \in Sessions
                        /\ session[call[c].sess].state \in {"used", "dead"}
                        /\ \A d \in Calls : HasBackend(d) /\ call[d].sess = call[c].sess => d = c
    /\ call[c].sess # NoSession => At(c, Acquiring \cup Fenced \cup Ending)

(* While its backend lives, a call past the acquisition holds the lock     *)
(* once and a call before it does not.                                     *)
LockCounted ==
  \A c \in Calls : HasBackend(c) /\ Alive(c) =>
    session[call[c].sess].held = IF HoldsLock(c) THEN 1 ELSE 0

(* Pooled clients and ended backends hold nothing and run nothing.         *)
Quiet == \A s \in Sessions : session[s].state \in {"free", "dead"} =>
           session[s].held = 0 /\ session[s].late = NoLate

Mutex == \A s, t \in Sessions : Held(s) /\ Held(t) => s = t

(* A statement still in flight runs on the session that holds the lock,    *)
(* and the call it was abandoned by issues no other.                       *)
LateHeld ==
  \A s \in Sessions : session[s].late # NoLate =>
    /\ Held(s)
    /\ \A c \in Calls : HasBackend(c) /\ call[c].sess = s => At(c, Fenced) /\ call[c].abandoned

StraysFenced == \A c \in Calls : call[c].stray # "none" => At(c, Fenced)

(* A failure ends the call; a confirmed call does not fail.                *)
Confirmations ==
  \A c \in Calls :
    /\ call[c].failed => At(c, {"unlock"} \cup Ending)
    /\ call[c].confirmed => ~call[c].failed /\ At(c, {"through", "unlock"} \cup Ending)

LockInv == TypeOK /\ Backends /\ LockCounted /\ Quiet /\ Mutex /\ LateHeld /\ StraysFenced /\ Confirmations

(* On direct connections no pass takes over a lock, so only the pass that  *)
(* holds it and the cleanup of a run of its own change the projection.     *)
NoTakeover == \A c \in Calls : ~At(c, Recovering)

(* A pass keeps the id of its run to its end, and no other call has it.    *)
WithRun == {"mark", "reap", "folders", "write", "finalize", "cleanup"}
RunsIssued ==
  \A c \in Calls :
    /\ At(c, WithRun) => call[c].run # NoRun
    /\ call[c].run # NoRun => \A d \in Calls : call[d].run = call[c].run => d = c

OwnerInv == LockInv /\ NoTakeover /\ RunsIssued /\ OwnerShown
===============================================================================
