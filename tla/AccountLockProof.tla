--------------------------- MODULE AccountLockProof ---------------------------
(***************************************************************************)
(* The account lock admits one writer, whatever the number of calls,       *)
(* sessions, runs and folders.                                             *)
(***************************************************************************)
EXTENDS AccountLockInv, TLAPS

-------------------------------------------------------------------------------
(* Types. *)

LEMMA NoCallType == NoCall \in CallRecords
  BY LockAssumption DEF NoCall, CallRecords, Stages

LEMMA NewSessionType == NewSession.state = "free" /\ NewSession.held = 0 /\ NewSession.late = NoLate
                        /\ NewSession \in [state : {"free", "used", "dead", "gone"}, held : {0, 1}, late : Lates]
  BY DEF NewSession, NoLate, Lates

LEMMA EvictedType ==
  ASSUME TypeOK, NEW s \in Sessions
  PROVE  /\ Evicted(s) \in [state : {"free", "used", "dead", "gone"}, held : {0, 1}, late : Lates]
         /\ Ended(s) \in [state : {"free", "used", "dead", "gone"}, held : {0, 1}, late : Lates]
  <1>1. session[s] \in [state : {"free", "used", "dead", "gone"}, held : {0, 1}, late : Lates] BY DEF TypeOK
  <1>2. [session[s] EXCEPT !.state = "gone"] \in [state : {"free", "used", "dead", "gone"}, held : {0, 1}, late : Lates]
    BY <1>1
  <1>3. [NewSession EXCEPT !.state = "dead"] \in [state : {"free", "used", "dead", "gone"}, held : {0, 1}, late : Lates]
    BY NewSessionType
  <1> QED BY <1>1, <1>2, <1>3, NewSessionType DEF Evicted, Ended

(* The updates of a call's record.                                         *)
LEMMA CallType ==
  ASSUME TypeOK, NEW c \in Calls, NEW new \in CallRecords, call' = [call EXCEPT ![c] = new]
  PROVE  call' \in [Calls -> CallRecords]
  BY DEF TypeOK

LEMMA ZeroLeft == 0 \in 0..MaxFolders
  BY LockAssumption

LEMMA OutcomeType ==
  ASSUME TypeOK, NEW c \in Calls, NEW p \in Stages, NEW a \in BOOLEAN, NEW f \in BOOLEAN, NEW g \in BOOLEAN,
         call' = [call EXCEPT ![c].pc = p, ![c].abandoned = a, ![c].failed = f, ![c].cleanup = g]
  PROVE  call' \in [Calls -> CallRecords]
  <1>1. call[c] \in CallRecords BY DEF TypeOK
  <1>2. call' = [call EXCEPT ![c] = [call[c] EXCEPT !.pc = p, !.abandoned = a, !.failed = f, !.cleanup = g]]
    BY DEF TypeOK
  <1>3. [call[c] EXCEPT !.pc = p, !.abandoned = a, !.failed = f, !.cleanup = g] \in CallRecords
    BY <1>1 DEF CallRecords
  <1> QED BY <1>1, <1>2, <1>3, CallType

LEMMA FailedType ==
  ASSUME TypeOK, NEW c \in Calls, NEW p \in Stages, NEW f \in BOOLEAN,
         call' = [call EXCEPT ![c].pc = p, ![c].failed = f]
  PROVE  call' \in [Calls -> CallRecords]
  <1>1. call[c] \in CallRecords BY DEF TypeOK
  <1>2. call' = [call EXCEPT ![c] = [call[c] EXCEPT !.pc = p, !.failed = f]] BY DEF TypeOK
  <1>3. [call[c] EXCEPT !.pc = p, !.failed = f] \in CallRecords BY <1>1 DEF CallRecords
  <1> QED BY <1>1, <1>2, <1>3, CallType

LEMMA CleanupType ==
  ASSUME TypeOK, NEW c \in Calls, NEW p \in Stages, NEW g \in BOOLEAN,
         call' = [call EXCEPT ![c].pc = p, ![c].cleanup = g, ![c].left = 0]
  PROVE  call' \in [Calls -> CallRecords]
  <1>1. call[c] \in CallRecords BY DEF TypeOK
  <1>2. call' = [call EXCEPT ![c] = [call[c] EXCEPT !.pc = p, !.cleanup = g, !.left = 0]] BY DEF TypeOK
  <1>3. [call[c] EXCEPT !.pc = p, !.cleanup = g, !.left = 0] \in CallRecords BY <1>1, ZeroLeft DEF CallRecords
  <1> QED BY <1>1, <1>2, <1>3, CallType

LEMMA LeftType ==
  ASSUME TypeOK, NEW c \in Calls, NEW p \in Stages, call' = [call EXCEPT ![c].pc = p, ![c].left = 0]
  PROVE  call' \in [Calls -> CallRecords]
  <1>1. call[c] \in CallRecords BY DEF TypeOK
  <1>2. call' = [call EXCEPT ![c] = [call[c] EXCEPT !.pc = p, !.left = 0]] BY DEF TypeOK
  <1>3. [call[c] EXCEPT !.pc = p, !.left = 0] \in CallRecords BY <1>1, ZeroLeft DEF CallRecords
  <1> QED BY <1>1, <1>2, <1>3, CallType

LEMMA StageType ==
  ASSUME TypeOK, NEW c \in Calls, NEW p \in Stages, call' = [call EXCEPT ![c].pc = p]
  PROVE  call' \in [Calls -> CallRecords]
  <1>1. call[c] \in CallRecords BY DEF TypeOK
  <1>2. call' = [call EXCEPT ![c] = [call[c] EXCEPT !.pc = p]] BY DEF TypeOK
  <1>3. [call[c] EXCEPT !.pc = p] \in CallRecords BY <1>1 DEF CallRecords
  <1> QED BY <1>1, <1>2, <1>3, CallType

LEMMA ConnectedType ==
  ASSUME NEW r \in CallRecords, NEW s \in Sessions, NEW k \in Kinds, NEW b \in BOOLEAN, NEW p \in Stages
  PROVE  [r EXCEPT !.kind = k, !.sess = s, !.retried = b, !.left = MaxFolders, !.pc = p] \in CallRecords
  <1>1. MaxFolders \in 0..MaxFolders BY LockAssumption
  <1> QED BY <1>1 DEF CallRecords

LEMMA TypeAcquire ==
  ASSUME LockInv, NEW c \in Calls, Acquire(c) PROVE TypeOK'
  <1> DEFINE Rec == [state : {"free", "used", "dead", "gone"}, held : {0, 1}, late : Lates]
  <1> USE DEF At, Goto, EndCall
  <1>0. TypeOK /\ call[c] \in CallRecords BY DEF LockInv, TypeOK
  <1>1. CASE Connect(c)
    <2>1. PICK s \in Sessions, k \in Kinds :
             /\ session' = [session EXCEPT ![s].state = "used"]
             /\ call' = [call EXCEPT ![c] =
                  [NoCall EXCEPT !.kind = k, !.sess = s, !.retried = call[c].retried, !.left = MaxFolders,
                                 !.pc = IF k \in {"live", "act"} THEN "wait" ELSE "try"]]
      BY <1>1 DEF Connect
    <2>2. call' \in [Calls -> CallRecords]
      <3> DEFINE new == [NoCall EXCEPT !.kind = k, !.sess = s, !.retried = call[c].retried, !.left = MaxFolders,
                                       !.pc = IF k \in {"live", "act"} THEN "wait" ELSE "try"]
      <3>1. (IF k \in {"live", "act"} THEN "wait" ELSE "try") \in Stages BY DEF Stages
      <3>2. call[c].retried \in BOOLEAN BY <1>0 DEF CallRecords
      <3>3. new \in CallRecords BY <3>1, <3>2, NoCallType, ConnectedType
      <3> QED BY <1>0, <2>1, <3>3, CallType
    <2>3. session' \in [Sessions -> Rec] BY <1>0, <2>1 DEF TypeOK
    <2> QED BY <1>0, <1>1, <2>2, <2>3 DEF TypeOK, Connect
  <1>2. ASSUME Busy(c), HasBackend(c), UNCHANGED <<account, run, sweep>> PROVE TypeOK'
    <2>1. call[c].sess \in Sessions BY <1>2 DEF LockInv, Backends
    <2>2. session' \in [Sessions -> Rec] BY <1>0, <1>2, <2>1 DEF Busy, TypeOK
    <2>3. call' \in [Calls -> CallRecords] BY <1>0, <1>2, NoCallType DEF Busy, TypeOK, CallRecords, Stages
    <2> QED BY <1>0, <1>2, <2>2, <2>3 DEF TypeOK
  <1>3. CASE TryLock(c)
    <2>1. HasBackend(c) /\ Alive(c) /\ ~HoldsLock(c) BY <1>3 DEF TryLock, HasBackend, Acquiring, HoldsLock, Fenced
    <2>2. call[c].sess \in Sessions /\ session[call[c].sess].held = 0 BY <2>1 DEF LockInv, Backends, LockCounted
    <2>3. CASE session' = [session EXCEPT ![call[c].sess].held = @ + 1] /\ Goto(c, "beat")
      <3>1. session' \in [Sessions -> Rec] BY <1>0, <2>2, <2>3 DEF TypeOK
      <3>2. call' = [call EXCEPT ![c].pc = "beat"] /\ "beat" \in Stages BY <2>3 DEF Stages
      <3>3. call' \in [Calls -> CallRecords] BY <1>0, <3>2, StageType
      <3> QED BY <1>0, <1>3, <3>1, <3>3 DEF TypeOK, TryLock
    <2> QED BY <1>2, <1>3, <2>1, <2>3 DEF TryLock
  <1>4. CASE Grant(c)
    <2>1. HasBackend(c) /\ Alive(c) /\ ~HoldsLock(c)
      BY <1>4 DEF Grant, Waiters, HasBackend, Acquiring, HoldsLock, Fenced
    <2>2. call[c].sess \in Sessions /\ session[call[c].sess].held = 0 BY <2>1 DEF LockInv, Backends, LockCounted
    <2>3. session' \in [Sessions -> Rec] BY <1>0, <1>4, <2>2 DEF TypeOK, Grant
    <2>4. call' \in [Calls -> CallRecords]
      <3>1. call' = [call EXCEPT ![c] = [call[c] EXCEPT !.granted = TRUE]] BY <1>0, <1>4 DEF TypeOK, Grant
      <3>2. [call[c] EXCEPT !.granted = TRUE] \in CallRecords BY <1>0 DEF CallRecords
      <3> QED BY <1>0, <3>1, <3>2, CallType
    <2> QED BY <1>0, <1>4, <2>3, <2>4 DEF TypeOK, Grant
  <1>5. CASE WaitReturns(c)
    <2>1. call' = [call EXCEPT ![c].pc = "beat"] /\ "beat" \in Stages BY <1>5 DEF WaitReturns, Stages
    <2>2. call' \in [Calls -> CallRecords] BY <1>0, <2>1, StageType
    <2> QED BY <1>0, <1>5, <2>2 DEF TypeOK, WaitReturns
  <1>6. CASE WaitTimesOut(c)
    BY <1>2, <1>6 DEF WaitTimesOut, HasBackend, Acquiring
  <1>7. CASE AcquireLost(c)
    <2>1. call[c].sess \in Sessions BY <1>7 DEF LockInv, Backends, HasBackend, Acquiring, AcquireLost
    <2>2. session' \in [Sessions -> Rec] BY <1>0, <1>7, <2>1 DEF AcquireLost, TypeOK
    <2>3. call' \in [Calls -> CallRecords] BY <1>0, <1>7, NoCallType DEF AcquireLost, TypeOK
    <2> QED BY <1>0, <1>7, <2>2, <2>3 DEF TypeOK, AcquireLost
  <1> QED BY <1>1, <1>3, <1>4, <1>5, <1>6, <1>7 DEF Acquire

(* The steps under the lock, bar Abandon, change the call, the account row *)
(* and the runs only.                                                      *)
FencedStep(c) ==
  \/ Beat(c) \/ ProofFails(c) \/ startSyncRun(c) \/ markAccountSyncStarted(c) \/ closeOrphanedSyncRuns(c)
  \/ assertLive(c) \/ WriteFolder(c) \/ FoldersDone(c) \/ Interrupt(c) \/ Finalize(c) \/ ProvenLoss(c)
  \/ Prove(c) \/ Deliver(c) \/ WriteThrough(c) \/ Lost(c) \/ Stray(c)

LEMMA ClearedType ==
  ASSUME TypeOK, NEW r, NEW beats \in BOOLEAN
  PROVE  Cleared(r, beats) \in [startedBy : Runs \cup {NoRun}, fresh : BOOLEAN]
  BY DEF TypeOK, Cleared

LEMMA ReapedType ==
  ASSUME TypeOK, NEW gone \in SUBSET Runs
  PROVE  Reaped(gone) \in [Runs -> {"closed", "new", "minute", "hour"}]
  BY DEF TypeOK, Reaped

LEMMA TypeFenced ==
  ASSUME LockInv, NEW c \in Calls, FencedStep(c) PROVE TypeOK'
  <1> DEFINE Row == [startedBy : Runs \cup {NoRun}, fresh : BOOLEAN]
             RunRow == [Runs -> {"closed", "new", "minute", "hour"}]
  <1> USE DEF At, Goto
  <1>0. TypeOK /\ call[c] \in CallRecords BY DEF LockInv, TypeOK
  <1>1. account \in Row /\ run \in RunRow /\ [account EXCEPT !.fresh = TRUE] \in Row /\ call[c].run \in Runs \cup {NoRun}
    BY <1>0 DEF TypeOK, CallRecords
  <1>2. ASSUME call' \in [Calls -> CallRecords], account' \in Row, run' \in RunRow, UNCHANGED <<session, sweep>>
        PROVE  TypeOK'
    BY <1>0, <1>2 DEF TypeOK
  <1>3. CASE Beat(c)
    <2>1. call' \in [Calls -> CallRecords] 
      <3>1. (IF call[c].kind = "act" THEN "prove" ELSE "start") \in Stages BY DEF Stages
      <3> QED BY <1>0, <1>3, <3>1, StageType DEF Beat
    <2> QED BY <1>1, <1>2, <1>3, <2>1 DEF Beat
  <1>4. CASE ProofFails(c)
    <2>1. call' \in [Calls -> CallRecords] 
      <3>1. "unlock" \in Stages BY DEF Stages
      <3> QED BY <1>0, <1>4, <3>1, FailedType DEF ProofFails
    <2> QED BY <1>1, <1>2, <1>4, <2>1 DEF ProofFails
  <1>5. CASE startSyncRun(c)
    <2>1. call' \in [Calls -> CallRecords] 
      <3>1. PICK r \in Runs : call' = [call EXCEPT ![c].pc = "mark", ![c].run = r] BY <1>5 DEF startSyncRun
      <3>2. call' = [call EXCEPT ![c] = [call[c] EXCEPT !.pc = "mark", !.run = r]] BY <1>0, <3>1 DEF TypeOK
      <3>3. [call[c] EXCEPT !.pc = "mark", !.run = r] \in CallRecords BY <1>0 DEF CallRecords, Stages
      <3> QED BY <1>0, <3>2, <3>3, CallType
    <2>2. run' \in RunRow BY <1>1, <1>5 DEF startSyncRun
    <2> QED BY <1>1, <1>2, <1>5, <2>1, <2>2 DEF startSyncRun
  <1>6. CASE markAccountSyncStarted(c)
    <2>1. call' \in [Calls -> CallRecords] BY <1>0, <1>6 DEF markAccountSyncStarted, TypeOK, CallRecords, Stages
    <2>2. account' \in Row BY <1>1, <1>6 DEF markAccountSyncStarted, Marked
    <2> QED BY <1>1, <1>2, <1>6, <2>1, <2>2 DEF markAccountSyncStarted
  <1>7. CASE closeOrphanedSyncRuns(c)
    <2>1. call' \in [Calls -> CallRecords]
      <3>1. call' = [call EXCEPT ![c].pc = "folders"] /\ "folders" \in Stages
        BY <1>7 DEF closeOrphanedSyncRuns, Stages
      <3> QED BY <1>0, <3>1, StageType
    <2>2. run' \in RunRow BY <1>0, <1>7, ReapedType DEF closeOrphanedSyncRuns, OrphansOf
    <2> QED BY <1>1, <1>2, <1>7, <2>1, <2>2 DEF closeOrphanedSyncRuns
  <1>8. CASE assertLive(c)
    <2>1. call[c].left - 1 \in 0..MaxFolders BY <1>0, <1>8, LockAssumption DEF assertLive, CallRecords
    <2>2. call' \in [Calls -> CallRecords] BY <1>0, <1>8, <2>1 DEF assertLive, TypeOK, CallRecords, Stages
    <2> QED BY <1>1, <1>2, <1>8, <2>2 DEF assertLive
  <1>9. CASE WriteFolder(c)
    <2>1. call' \in [Calls -> CallRecords] BY <1>0, <1>9 DEF WriteFolder, TypeOK, CallRecords, Stages
    <2> QED BY <1>1, <1>2, <1>9, <2>1 DEF WriteFolder
  <1>10. CASE FoldersDone(c)
    <2>1. call' \in [Calls -> CallRecords]
      <3>1. "finalize" \in Stages BY DEF Stages
      <3> QED BY <1>0, <1>10, <3>1, LeftType DEF FoldersDone
    <2> QED BY <1>1, <1>2, <1>10, <2>1 DEF FoldersDone
  <1>11. CASE Interrupt(c)
    <2>1. call' \in [Calls -> CallRecords] 
      <3>1. "unlock" \in Stages /\ (~At(c, {"mark"})) \in BOOLEAN BY DEF Stages
      <3> QED BY <1>0, <1>11, <3>1, CleanupType DEF Interrupt
    <2> QED BY <1>1, <1>2, <1>11, <2>1 DEF Interrupt
  <1>12. CASE Finalize(c)
    <2>1. call' \in [Calls -> CallRecords] BY <1>0, <1>12 DEF Finalize, TypeOK, CallRecords, Stages
    <2>2. account' \in Row BY <1>0, <1>12, ClearedType DEF Finalize
    <2> QED BY <1>1, <1>2, <1>12, <2>1, <2>2 DEF Finalize
  <1>13. CASE ProvenLoss(c)
    <2>1. call' \in [Calls -> CallRecords] 
      <3>1. "unlock" \in Stages /\ (call[c].kind # "full") \in BOOLEAN BY DEF Stages
      <3> QED BY <1>0, <1>13, <3>1, FailedType DEF ProvenLoss
    <2> QED BY <1>1, <1>2, <1>13, <2>1 DEF ProvenLoss
  <1>14. CASE Prove(c)
    <2>1. call' \in [Calls -> CallRecords] BY <1>0, <1>14 DEF Prove, TypeOK, CallRecords, Stages
    <2> QED BY <1>1, <1>2, <1>14, <2>1 DEF Prove
  <1>15. CASE Deliver(c)
    <2>1. CASE call' = [call EXCEPT ![c].pc = "through", ![c].confirmed = TRUE]
      <3>1. call' = [call EXCEPT ![c] = [call[c] EXCEPT !.pc = "through", !.confirmed = TRUE]]
        BY <1>0, <2>1 DEF TypeOK
      <3>2. [call[c] EXCEPT !.pc = "through", !.confirmed = TRUE] \in CallRecords
        BY <1>0 DEF CallRecords, Stages
      <3>3. call' \in [Calls -> CallRecords] BY <1>0, <3>1, <3>2, CallType
      <3> QED BY <1>1, <1>2, <1>15, <3>3 DEF Deliver
    <2>2. CASE call' = [call EXCEPT ![c].pc = "unlock", ![c].failed = TRUE]
      <3>1. "unlock" \in Stages /\ TRUE \in BOOLEAN BY DEF Stages
      <3>2. call' \in [Calls -> CallRecords] BY <1>0, <2>2, <3>1, FailedType
      <3> QED BY <1>1, <1>2, <1>15, <3>2 DEF Deliver
    <2> QED BY <1>15, <2>1, <2>2 DEF Deliver
  <1>16. CASE WriteThrough(c)
    <2>1. call' \in [Calls -> CallRecords] BY <1>0, <1>16 DEF WriteThrough, TypeOK, CallRecords, Stages
    <2> QED BY <1>1, <1>2, <1>16, <2>1 DEF WriteThrough
  <1>17. CASE Lost(c)
    <2>1. call' \in [Calls -> CallRecords] 
      <3>1. "unlock" \in Stages /\ (~call[c].confirmed) \in BOOLEAN BY DEF Stages
      <3> QED BY <1>0, <1>17, <3>1, FailedType DEF Lost
    <2> QED BY <1>1, <1>2, <1>17, <2>1 DEF Lost
  <1>18. CASE Stray(c)
    <2>1. call' \in [Calls -> CallRecords]
      BY <1>0, <1>18 DEF Stray, StrayIssued, StrayTurn, StrayDone, TypeOK, CallRecords, Stages
    <2> QED BY <1>1, <1>2, <1>18, <2>1 DEF Stray, StrayIssued, StrayTurn, StrayDone
  <1> QED BY <1>3, <1>4, <1>5, <1>6, <1>7, <1>8, <1>9, <1>10, <1>11, <1>12, <1>13, <1>14, <1>15, <1>16,
             <1>17, <1>18 DEF FencedStep

LEMMA TypeAbandon ==
  ASSUME LockInv, NEW c \in Calls, Abandon(c) PROVE TypeOK'
  <1> DEFINE Rec == [state : {"free", "used", "dead", "gone"}, held : {0, 1}, late : Lates]
  <1>0. TypeOK /\ call[c] \in CallRecords BY DEF LockInv, TypeOK
  <1>1. call[c].pc \in {"mark", "write", "finalize"} /\ call[c].run \in Runs \cup {NoRun}
    BY <1>0 DEF Abandon, At, CallRecords
  <1>2. call[c].sess \in Sessions BY <1>1 DEF LockInv, Backends, HasBackend, At, Fenced
  <1>3. [do |-> call[c].pc, run |-> call[c].run] \in Lates BY <1>1 DEF Lates
  <1>4. session' \in [Sessions -> Rec] BY <1>0, <1>2, <1>3 DEF Abandon, TypeOK
  <1>5. PICK aborted \in BOOLEAN :
          call' = [call EXCEPT ![c].pc = IF At(c, {"write"}) /\ ~aborted THEN "folders" ELSE "unlock",
                               ![c].abandoned = TRUE, ![c].failed = ~aborted /\ ~At(c, {"write"}),
                               ![c].cleanup = aborted /\ ~At(c, {"mark"})]
    BY DEF Abandon
  <1>6. /\ (IF At(c, {"write"}) /\ ~aborted THEN "folders" ELSE "unlock") \in Stages
        /\ (~aborted /\ ~At(c, {"write"})) \in BOOLEAN /\ (aborted /\ ~At(c, {"mark"})) \in BOOLEAN
    BY DEF Stages
  <1>7. call' \in [Calls -> CallRecords] BY <1>0, <1>5, <1>6, OutcomeType
  <1> QED BY <1>0, <1>4, <1>7 DEF TypeOK, Abandon

LEMMA TypeUnlock ==
  ASSUME LockInv, NEW c \in Calls, UnlockSession(c) PROVE TypeOK'
  <1> DEFINE Rec == [state : {"free", "used", "dead", "gone"}, held : {0, 1}, late : Lates]
  <1>0. TypeOK /\ call[c] \in CallRecords BY DEF LockInv, TypeOK
  <1>1. At(c, Fenced) BY DEF UnlockSession, At, Fenced
  <1>2. HasBackend(c) /\ HoldsLock(c) BY <1>1 DEF HasBackend, HoldsLock, At
  <1>3. call[c].sess \in Sessions BY <1>2 DEF LockInv, Backends
  <1>4. ASSUME NEW failed \in BOOLEAN, AfterUnlock(c, failed) PROVE call' \in [Calls -> CallRecords]
    <2> DEFINE p == IF call[c].run = NoRun THEN "report"
                    ELSE IF call[c].cleanup /\ ~failed THEN "cleanup" ELSE "finish"
    <2>1. p \in Stages BY DEF Stages
    <2> DEFINE new == [call[c] EXCEPT !.failed = failed, !.left = 0, !.cleanup = FALSE, !.abandoned = FALSE,
                                      !.pc = p]
    <2>2. call' = [call EXCEPT ![c].failed = failed, ![c].left = 0, ![c].cleanup = FALSE, ![c].abandoned = FALSE,
                               ![c].pc = p]
      BY <1>4 DEF AfterUnlock
    <2> HIDE DEF p
    <2>3. call' = [call EXCEPT ![c] = new] BY <1>0, <2>2 DEF TypeOK
    <2>4. new \in CallRecords BY <1>0, <2>1, ZeroLeft DEF CallRecords
    <2> QED BY <1>0, <2>3, <2>4, CallType
  <1>5. call[c].failed \in BOOLEAN /\ UnlockFails(c) \in BOOLEAN BY <1>0 DEF CallRecords, UnlockFails
  <1>6. call' \in [Calls -> CallRecords] BY <1>4, <1>5 DEF UnlockSession
  <1>7. CASE session' = [session EXCEPT ![call[c].sess] = Evicted(call[c].sess)]
    <2>1. session' \in [Sessions -> Rec] BY <1>0, <1>3, <1>7, EvictedType DEF TypeOK
    <2> QED BY <1>0, <1>6, <2>1 DEF TypeOK, UnlockSession
  <1>8. CASE Alive(c) /\ session' = [session EXCEPT ![call[c].sess].held = @ - 1, ![call[c].sess].state = "free"]
    <2>1. session[call[c].sess].held = 1 BY <1>2, <1>8 DEF LockInv, LockCounted
    <2>2. session' \in [Sessions -> Rec] BY <1>0, <1>3, <1>8, <2>1 DEF TypeOK
    <2> QED BY <1>0, <1>6, <2>2 DEF TypeOK, UnlockSession
  <1> QED BY <1>7, <1>8 DEF UnlockSession

(* What follows the unlock, and the recovery, beside the lock.             *)
OutsideStep(c) == CancellationCleanup(c) \/ finishSyncRun(c) \/ Report(c) \/ Recover(c)

LEMMA TypeOutside ==
  ASSUME LockInv, NEW c \in Calls, OutsideStep(c) PROVE TypeOK'
  <1> DEFINE Rec == [state : {"free", "used", "dead", "gone"}, held : {0, 1}, late : Lates]
             Row == [startedBy : Runs \cup {NoRun}, fresh : BOOLEAN]
             RunRow == [Runs -> {"closed", "new", "minute", "hour"}]
  <1>0. TypeOK /\ call[c] \in CallRecords BY DEF LockInv, TypeOK
  <1>1. account \in Row /\ run \in RunRow /\ session \in [Sessions -> Rec] BY <1>0 DEF TypeOK
  <1>2. ASSUME EndCall(c) PROVE call' \in [Calls -> CallRecords]
    BY <1>0, <1>2, NoCallType, CallType DEF EndCall
  <1>3. ASSUME NEW p \in Stages, Goto(c, p) PROVE call' \in [Calls -> CallRecords]
    BY <1>0, <1>3, StageType DEF Goto
  <1>4. ASSUME call' \in [Calls -> CallRecords], account' \in Row, run' \in RunRow,
               session' \in [Sessions -> Rec], UNCHANGED sweep
        PROVE  TypeOK'
    BY <1>0, <1>4 DEF TypeOK
  <1>5. CASE CancellationCleanup(c)
    <2>1. call' \in [Calls -> CallRecords] BY <1>3, <1>5 DEF CancellationCleanup, Stages
    <2>2. Cleared(call[c].run, TRUE) \in Row BY <1>0, ClearedType
    <2>3. account' \in Row BY <1>1, <1>5, <2>2 DEF CancellationCleanup
    <2> QED BY <1>1, <1>4, <1>5, <2>1, <2>3 DEF CancellationCleanup
  <1>6. CASE finishSyncRun(c)
    <2>1. run' \in RunRow BY <1>1, <1>6 DEF finishSyncRun
    <2> QED BY <1>1, <1>2, <1>4, <1>6, <2>1 DEF finishSyncRun
  <1>7. CASE Report(c) \/ RecoveryFails(c) BY <1>1, <1>2, <1>4, <1>7 DEF Report, RecoveryFails
  <1>8. CASE FindStale(c)
    <2>1. CASE EndCall(c) BY <1>1, <1>2, <1>4, <1>8, <2>1 DEF FindStale
    <2>2. ASSUME NEW s \in StaleHolders,
                 call' = [call EXCEPT ![c].pc = "kill", ![c].target = s, ![c].seen = account.startedBy]
          PROVE  TypeOK'
      <3>1. call' = [call EXCEPT ![c] = [call[c] EXCEPT !.pc = "kill", !.target = s, !.seen = account.startedBy]]
        BY <1>0, <2>2 DEF TypeOK
      <3>2. s \in Sessions /\ account.startedBy \in Runs \cup {NoRun} BY <1>1, <2>2 DEF StaleHolders
      <3>3. [call[c] EXCEPT !.pc = "kill", !.target = s, !.seen = account.startedBy] \in CallRecords
        <4>1. call[c] \in CallRecords BY <1>0
        <4>2. "kill" \in Stages BY DEF Stages
        <4> QED BY ONLY <3>2, <4>1, <4>2 DEF CallRecords
      <3>4. call' \in [Calls -> CallRecords] BY <1>0, <3>1, <3>3, CallType
      <3> QED BY <1>1, <1>4, <1>8, <3>4 DEF FindStale
    <2> QED BY <1>8, <2>1, <2>2 DEF FindStale
  <1>9. CASE KillHolder(c)
    <2>1. call' \in [Calls -> CallRecords] BY <1>3, <1>9 DEF KillHolder, Stages
    <2>2. session' \in [Sessions -> Rec] BY <1>0, <1>1, <1>9, EvictedType DEF KillHolder
    <2> QED BY <1>1, <1>4, <1>9, <2>1, <2>2 DEF KillHolder
  <1>10. CASE ResetOwner(c)
    <2>1. call' \in [Calls -> CallRecords] BY <1>3, <1>10 DEF ResetOwner, Stages
    <2>2. account' \in Row BY <1>1, <1>10 DEF ResetOwner
    <2> QED BY <1>1, <1>4, <1>10, <2>1, <2>2 DEF ResetOwner
  <1>11. CASE CloseStaleRuns(c)
    <2>1. [NoCall EXCEPT !.pc = "reconnect", !.kind = "full", !.retried = TRUE] \in CallRecords
      <3>1. [NoCall EXCEPT !.pc = "reconnect", !.kind = "full"] \in CallRecords
        BY NoCallType DEF CallRecords, Stages
      <3>2. \A b \in BOOLEAN, r \in CallRecords : [r EXCEPT !.retried = b] \in CallRecords BY DEF CallRecords
      <3> QED BY <3>1, <3>2
    <2>2. call' \in [Calls -> CallRecords] BY <1>0, <1>11, <2>1, CallType DEF CloseStaleRuns
    <2>3. run' \in RunRow BY <1>0, <1>11, ReapedType DEF CloseStaleRuns, OldRuns
    <2> QED BY <1>1, <1>4, <1>11, <2>2, <2>3 DEF CloseStaleRuns
  <1> QED BY <1>5, <1>6, <1>7, <1>8, <1>9, <1>10, <1>11 DEF OutsideStep, Recover

LEMMA TypeCrash ==
  ASSUME LockInv, NEW c \in Calls, Crash(c) PROVE TypeOK'
  <1> DEFINE Rec == [state : {"free", "used", "dead", "gone"}, held : {0, 1}, late : Lates]
             s == call[c].sess
  <1>0. TypeOK /\ s \in Sessions \cup {NoSession} BY DEF LockInv, TypeOK, CallRecords
  <1>1. call' \in [Calls -> CallRecords] BY <1>0, NoCallType, CallType DEF Crash, EndCall
  <1>2. session' \in [Sessions -> Rec]
    <2>1. CASE session' = session BY <1>0, <2>1 DEF TypeOK
    <2>2. CASE s \in Sessions /\ session' = [session EXCEPT ![s] = Evicted(s)]
      BY <1>0, <2>2, EvictedType DEF TypeOK
    <2> QED BY <1>0, <2>1, <2>2 DEF Crash
  <1> QED BY <1>0, <1>1, <1>2 DEF TypeOK, Crash

(* What needs no call: late statements, ended sessions, sweeps and time.   *)
Environment ==
  (\E s \in Sessions : SessionStep(s)) \/ Sweep \/ HeartbeatAges \/ (\E r \in Runs : RunAges(r))
  \/ (\E c \in Calls : HeartbeatTick(c))

LEMMA TypeEnvironment ==
  ASSUME LockInv, Environment PROVE TypeOK'
  <1> DEFINE Rec == [state : {"free", "used", "dead", "gone"}, held : {0, 1}, late : Lates]
             Row == [startedBy : Runs \cup {NoRun}, fresh : BOOLEAN]
             RunRow == [Runs -> {"closed", "new", "minute", "hour"}]
             SweepRow == [pc : {"idle", "kill", "reset", "close"}, pids : SUBSET Sessions]
  <1>0. TypeOK BY DEF LockInv
  <1>1. account \in Row /\ run \in RunRow /\ session \in [Sessions -> Rec] /\ sweep \in SweepRow
        /\ NoRun \in Runs \cup {NoRun} /\ call \in [Calls -> CallRecords]
    BY <1>0 DEF TypeOK
  <1>2. ASSUME account' \in Row, run' \in RunRow, session' \in [Sessions -> Rec], sweep' \in SweepRow,
               UNCHANGED call
        PROVE  TypeOK'
    BY <1>1, <1>2 DEF TypeOK
  <1>3. ASSUME NEW s \in Sessions, LateCommit(s) PROVE TypeOK'
    <2>1. session[s].late.run \in Runs \cup {NoRun} BY <1>1 DEF Lates
    <2>2. account' \in Row
      <3>1. Marked(session[s].late.run) \in Row BY <2>1 DEF Marked
      <3>2. \A beats \in BOOLEAN : Cleared(session[s].late.run, beats) \in Row BY <1>0, ClearedType
      <3> QED BY <1>1, <1>3, <3>1, <3>2 DEF LateCommit
    <2>3. session' \in [Sessions -> Rec] BY <1>1, <1>3, NewSessionType DEF LateCommit
    <2> QED BY <1>1, <1>2, <1>3, <2>2, <2>3 DEF LateCommit
  <1>4. ASSUME NEW s \in Sessions, EndSession(s) \/ ReapSession(s) PROVE TypeOK'
    <2>1. session' \in [Sessions -> Rec]
      BY <1>0, <1>1, <1>4, EvictedType, NewSessionType DEF EndSession, ReapSession
    <2> QED BY <1>1, <1>2, <1>4, <2>1 DEF EndSession, ReapSession
  <1>5. CASE StartSweep
    <2>1. sweep' \in SweepRow BY <1>1, <1>5 DEF StartSweep, StaleHolders
    <2> QED BY <1>1, <1>2, <1>5, <2>1 DEF StartSweep
  <1>6. CASE SweepKill
    <2>1. sweep' \in SweepRow BY <1>1, <1>6 DEF SweepKill
    <2>2. session' \in [Sessions -> Rec] BY <1>0, <1>1, <1>6, EvictedType DEF SweepKill
    <2> QED BY <1>1, <1>2, <1>6, <2>1, <2>2 DEF SweepKill
  <1>7. CASE SweepReset
    <2>1. sweep' \in SweepRow /\ account' \in Row BY <1>1, <1>7 DEF SweepReset
    <2> QED BY <1>1, <1>2, <1>7, <2>1 DEF SweepReset
  <1>8. CASE SweepClose
    <2>1. run' \in RunRow BY <1>0, <1>1, <1>8, ReapedType DEF SweepClose, OldRuns
    <2>2. sweep' \in SweepRow BY <1>1, <1>8 DEF SweepClose
    <2> QED BY <1>1, <1>2, <1>8, <2>1, <2>2 DEF SweepClose
  <1>9. CASE HeartbeatAges
    <2>1. account' \in Row BY <1>1, <1>9 DEF HeartbeatAges
    <2> QED BY <1>1, <1>2, <1>9, <2>1 DEF HeartbeatAges
  <1>10. ASSUME NEW r \in Runs, RunAges(r) PROVE TypeOK'
    <2>1. run' \in RunRow BY <1>1, <1>10 DEF RunAges
    <2> QED BY <1>1, <1>2, <1>10, <2>1 DEF RunAges
  <1>11. ASSUME NEW c \in Calls, HeartbeatTick(c) PROVE TypeOK'
    <2>1. account' \in Row BY <1>1, <1>11 DEF HeartbeatTick
    <2> QED BY <1>1, <1>2, <1>11, <2>1 DEF HeartbeatTick
  <1> QED BY <1>3, <1>4, <1>5, <1>6, <1>7, <1>8, <1>9, <1>10, <1>11 DEF Environment, SessionStep, Sweep

(* Every step is one of these.                                             *)
LEMMA StepKinds ==
  ASSUME Next
  PROVE  \/ \E c \in Calls : Acquire(c) \/ FencedStep(c) \/ Abandon(c) \/ UnlockSession(c) \/ OutsideStep(c)
                               \/ Crash(c)
         \/ Environment
  BY DEF Next, CallStep, PassStep, ActStep, EndStep, FencedStep, OutsideStep, Environment

LEMMA TypeStep == LockInv /\ [Next]_vars => TypeOK'
  <1>1. CASE UNCHANGED vars BY <1>1 DEF vars, LockInv, TypeOK
  <1> QED BY <1>1, StepKinds, TypeAcquire, TypeFenced, TypeAbandon, TypeUnlock, TypeOutside, TypeCrash,
             TypeEnvironment

-------------------------------------------------------------------------------
(* The lock. *)

(* What a step under the lock does to the calls.                           *)
LEMMA FencedEffect ==
  ASSUME LockInv, NEW c \in Calls, FencedStep(c)
  PROVE  /\ UNCHANGED session /\ \A d \in Calls \ {c} : call'[d] = call[d]
         /\ call[c].pc \in Fenced /\ call'[c].pc \in Fenced /\ call'[c].sess = call[c].sess
         /\ call'[c].abandoned = call[c].abandoned
         /\ call'[c].failed => call'[c].pc = "unlock"
         /\ call'[c].confirmed => ~call'[c].failed /\ call'[c].pc \in {"through", "unlock"}
  <1>0. call \in [Calls -> CallRecords] /\ call[c] \in CallRecords BY DEF LockInv, TypeOK
  <1>1. UNCHANGED session /\ \A d \in Calls \ {c} : call'[d] = call[d]
    BY <1>0 DEF FencedStep, Beat, ProofFails, startSyncRun, markAccountSyncStarted, closeOrphanedSyncRuns,
                assertLive, WriteFolder, FoldersDone, Interrupt, Finalize, ProvenLoss, Prove, Deliver,
                WriteThrough, Lost, Stray, StrayIssued, StrayTurn, StrayDone, Goto
  <1>2. /\ call[c].failed => call[c].pc \in {"unlock"} \cup Ending
        /\ call[c].confirmed => ~call[c].failed /\ call[c].pc \in {"through", "unlock"} \cup Ending
    BY DEF LockInv, Confirmations, At
  <1>3. CASE Stray(c)
    <2>1. call[c].pc \in Fenced
      BY <1>3 DEF Stray, StrayIssued, StrayTurn, StrayDone, LockInv, Backends, StraysFenced, At, Usable, Closed,
                  Acquiring, Ending, Fenced
    <2>2. /\ call'[c].pc = call[c].pc /\ call'[c].sess = call[c].sess /\ call'[c].abandoned = call[c].abandoned
          /\ call'[c].failed = call[c].failed /\ call'[c].confirmed = call[c].confirmed
      BY <1>0, <1>3 DEF Stray, StrayIssued, StrayTurn, StrayDone, CallRecords
    <2> QED BY <1>1, <1>2, <2>1, <2>2 DEF Fenced, Ending
  <1>4. CASE ~Stray(c)
    <2>1. call[c].pc \in Fenced \ {"unlock"} /\ call'[c].pc \in Fenced
      BY <1>0, <1>4 DEF FencedStep, Beat, ProofFails, startSyncRun, markAccountSyncStarted, closeOrphanedSyncRuns,
                assertLive, WriteFolder, FoldersDone, Interrupt, Finalize, ProvenLoss, Prove, Deliver,
                WriteThrough, Lost, Goto, At, Fenced, CallRecords
    <2>2. call'[c].sess = call[c].sess /\ call'[c].abandoned = call[c].abandoned
      BY <1>0, <1>4 DEF FencedStep, Beat, ProofFails, startSyncRun, markAccountSyncStarted, closeOrphanedSyncRuns,
                assertLive, WriteFolder, FoldersDone, Interrupt, Finalize, ProvenLoss, Prove, Deliver,
                WriteThrough, Lost, Goto, CallRecords
    <2>3. ~call[c].failed /\ (call[c].confirmed => call[c].pc = "through")
      BY <1>2, <2>1 DEF Fenced, Ending
    <2> DEFINE Outcome ==
          /\ call'[c].failed => call'[c].pc = "unlock"
          /\ call'[c].confirmed => ~call'[c].failed /\ call'[c].pc \in {"through", "unlock"}
    <2>4. Outcome
      <3>1. CASE ProofFails(c)
        BY <1>0, <2>3, <3>1 DEF ProofFails, At
      <3>2. CASE Interrupt(c)
        BY <1>0, <2>3, <3>2 DEF Interrupt, At
      <3>3. CASE ProvenLoss(c)
        BY <1>0, <2>3, <3>3 DEF ProvenLoss, At
      <3>4. CASE Deliver(c)
        <4>1. CASE call' = [call EXCEPT ![c].pc = "through", ![c].confirmed = TRUE]
          <5>1. call'[c].failed = call[c].failed /\ call'[c].pc = "through" BY <1>0, <4>1
          <5> QED BY <2>3, <5>1
        <4>2. CASE call' = [call EXCEPT ![c].pc = "unlock", ![c].failed = TRUE]
          <5>1. call'[c].confirmed = call[c].confirmed /\ call[c].pc = "deliver" /\ call'[c].pc = "unlock"
            BY <1>0, <3>4, <4>2 DEF Deliver, At
          <5> QED BY <2>3, <5>1
        <4> QED BY <3>4, <4>1, <4>2 DEF Deliver
      <3>5. CASE Lost(c)
        <4>1. call'[c].confirmed = call[c].confirmed /\ call'[c].failed = ~call[c].confirmed /\ call'[c].pc = "unlock"
          BY <1>0, <3>5 DEF Lost
        <4> QED BY <4>1
      <3>6. CASE WriteThrough(c)
        BY <1>0, <2>3, <3>6 DEF WriteThrough, At, Goto
      <3>7. ASSUME call'[c].failed = call[c].failed, call'[c].confirmed = call[c].confirmed, call[c].pc # "through"
            PROVE  Outcome
        BY <2>3, <3>7
      <3>8. CASE startSyncRun(c) BY <1>0, <3>7, <3>8 DEF startSyncRun, At
      <3>9. CASE assertLive(c) BY <1>0, <3>7, <3>9 DEF assertLive, At
      <3>10. CASE Beat(c) BY <1>0, <3>7, <3>10 DEF Beat, At, Goto
      <3>11. CASE markAccountSyncStarted(c) BY <1>0, <3>7, <3>11 DEF markAccountSyncStarted, At, Goto
      <3>12. CASE closeOrphanedSyncRuns(c) BY <1>0, <3>7, <3>12 DEF closeOrphanedSyncRuns, At, Goto
      <3>13. CASE WriteFolder(c) BY <1>0, <3>7, <3>13 DEF WriteFolder, At, Goto
      <3>14. CASE FoldersDone(c) BY <1>0, <3>7, <3>14 DEF FoldersDone, At, Goto
      <3>15. CASE Finalize(c) BY <1>0, <3>7, <3>15 DEF Finalize, At, Goto
      <3>16. CASE Prove(c) BY <1>0, <3>7, <3>16 DEF Prove, At, Goto
      <3> QED BY <1>4, <3>1, <3>2, <3>3, <3>4, <3>5, <3>6, <3>8, <3>9, <3>10, <3>11, <3>12, <3>13, <3>14,
             <3>15, <3>16 DEF FencedStep
    <2> QED BY <1>1, <2>1, <2>2, <2>4
  <1> QED BY <1>3, <1>4

LEMMA LockFenced ==
  ASSUME LockInv, NEW c \in Calls, FencedStep(c), TypeOK' PROVE LockInv'
  <1> DEFINE b(d) == call[d].pc \in Acquiring \cup Fenced
             h(d) == call[d].pc \in Fenced \/ (call[d].pc = "wait" /\ call[d].granted)
  <1>1. /\ UNCHANGED session /\ \A d \in Calls \ {c} : call'[d] = call[d]
        /\ call[c].pc \in Fenced /\ call'[c].pc \in Fenced /\ call'[c].sess = call[c].sess
        /\ call'[c].abandoned = call[c].abandoned
        /\ call'[c].failed => call'[c].pc = "unlock"
        /\ call'[c].confirmed => ~call'[c].failed /\ call'[c].pc \in {"through", "unlock"}
    BY FencedEffect
  <1>2. \A d \in Calls : HasBackend(d)' = HasBackend(d) /\ HoldsLock(d)' = HoldsLock(d)
    BY <1>1 DEF HasBackend, HoldsLock, At
  <1>3. \A d \in Calls : call'[d].sess = call[d].sess /\ Alive(d)' = Alive(d) BY <1>1 DEF Alive
  <1>4. Backends' BY <1>1, <1>2, <1>3 DEF LockInv, Backends, At, HasBackend
  <1>5. LockCounted' BY <1>1, <1>2, <1>3 DEF LockInv, LockCounted
  <1>6. Quiet' /\ Mutex' BY <1>1 DEF LockInv, Quiet, Mutex, Held
  <1>7. LateHeld' BY <1>1, <1>2, <1>3 DEF LockInv, LateHeld, Held, At
  <1>8. StraysFenced' BY <1>1 DEF LockInv, StraysFenced, At
  <1>9. Confirmations' BY <1>1 DEF LockInv, Confirmations, At
  <1> QED BY <1>4, <1>5, <1>6, <1>7, <1>8, <1>9 DEF LockInv

(* A step that ends the use of no session and grants no lock: calls change *)
(* outside the lock, or not at all, while backends end.                    *)
LEMMA LockOutside ==
  ASSUME LockInv, TypeOK', NEW dead \in SUBSET Sessions,
         session' = [s \in Sessions |-> IF s \in dead THEN Ended(s) ELSE session[s]],
         \A d \in Calls :
           \/ call'[d] = call[d]
           \/ /\ ~HasBackend(d) /\ ~At(d, Acquiring \cup Fenced)'
              /\ call'[d].sess # NoSession => At(d, Ending)'
              /\ call'[d].stray = call[d].stray \/ call'[d].stray = "none"
              /\ call'[d].failed => call[d].failed /\ At(d, Ending)'
              /\ call'[d].confirmed => call[d].confirmed /\ At(d, Ending)'
  PROVE  LockInv'
  <1>1. \A d \in Calls : HasBackend(d)' => HasBackend(d) /\ call'[d] = call[d]
    BY DEF HasBackend, At
  <1>2. \A d \in Calls : HasBackend(d)' => (HoldsLock(d)' = HoldsLock(d)) /\ call'[d].sess \in Sessions
    BY <1>1 DEF HoldsLock, At, LockInv, Backends
  <1>3. \A s \in Sessions : /\ session'[s] = session[s] \/ session'[s] = Ended(s)
                            /\ session[s].state \in {"free", "used", "dead", "gone"}
    BY DEF LockInv, TypeOK
  <1>4. \A s \in Sessions :
          Ended(s).held = 0 /\ Ended(s).late = NoLate
          /\ (session[s].state \in {"used", "dead"} => Ended(s).state = "dead")
    BY <1>3 DEF LockInv, Quiet, Ended, NewSession
  <1>5. Backends'
    <2>1. ASSUME NEW d \in Calls, HasBackend(d)' PROVE session'[call'[d].sess].state \in {"used", "dead"}
      BY <1>1, <1>2, <1>3, <1>4, <2>1 DEF LockInv, Backends
    <2>2. \A d, e \in Calls : HasBackend(d)' /\ HasBackend(e)' /\ call'[e].sess = call'[d].sess => e = d
      BY <1>1 DEF LockInv, Backends
    <2>3. \A d \in Calls : call'[d].sess # NoSession => At(d, Acquiring \cup Fenced \cup Ending)'
      BY DEF LockInv, Backends, At
    <2> QED BY <1>2, <2>1, <2>2, <2>3 DEF Backends
  <1>6. LockCounted'
    <2> SUFFICES ASSUME NEW d \in Calls, HasBackend(d)', Alive(d)'
                 PROVE  session'[call'[d].sess].held = IF HoldsLock(d)' THEN 1 ELSE 0
      BY DEF LockCounted
    <2>1. HasBackend(d) /\ call'[d] = call[d] /\ call[d].sess \in Sessions /\ session[call[d].sess].state \in {"used", "dead"}
      BY <1>1 DEF LockInv, Backends
    <2>2. session'[call[d].sess] = session[call[d].sess]
      BY <1>3, <1>4, <2>1 DEF Alive
    <2> QED BY <1>2, <2>1, <2>2 DEF LockInv, LockCounted, Alive
  <1>7. Quiet' BY <1>3, <1>4 DEF LockInv, Quiet
  <1>8. \A s \in Sessions : (Held(s)' => Held(s)) /\ (session'[s].late # NoLate => session'[s] = session[s])
    BY <1>3, <1>4 DEF Held
  <1>9. Mutex' BY <1>8 DEF LockInv, Mutex
  <1>10. LateHeld' BY <1>1, <1>8 DEF LockInv, LateHeld, Held, At
  <1>11. StraysFenced'
    BY DEF LockInv, StraysFenced, HasBackend, At
  <1>12. Confirmations' BY DEF LockInv, Confirmations, At, Ending
  <1> QED BY <1>5, <1>6, <1>7, <1>9, <1>10, <1>11, <1>12 DEF LockInv

LEMMA LockLeft ==
  ASSUME LockInv, TypeOK', NEW c \in Calls, NEW dead \in SUBSET Sessions,
         session' = [s \in Sessions |-> IF s \in dead THEN Ended(s) ELSE session[s]],
         \A d \in Calls \ {c} : call'[d] = call[d], ~HasBackend(c), ~At(c, Acquiring \cup Fenced)',
         call'[c].sess # NoSession => At(c, Ending)', call'[c].stray = "none",
         call'[c].failed => call[c].failed /\ At(c, Ending)',
         call'[c].confirmed => call[c].confirmed /\ At(c, Ending)'
  PROVE  LockInv'
  <1>1. \A d \in Calls :
           \/ call'[d] = call[d]
           \/ /\ ~HasBackend(d) /\ ~At(d, Acquiring \cup Fenced)'
              /\ call'[d].sess # NoSession => At(d, Ending)'
              /\ call'[d].stray = call[d].stray \/ call'[d].stray = "none"
              /\ call'[d].failed => call[d].failed /\ At(d, Ending)'
              /\ call'[d].confirmed => call[d].confirmed /\ At(d, Ending)'
    OBVIOUS
  <1> QED BY <1>1, LockOutside

(* A call lets go of its session, which holds no more than before.         *)
LEMMA LockReleased ==
  ASSUME LockInv, TypeOK', NEW c \in Calls, HasBackend(c), NEW x,
         session' = [session EXCEPT ![call[c].sess] = x], \A d \in Calls \ {c} : call'[d] = call[d],
         ~At(c, Acquiring \cup Fenced)', call'[c].sess # NoSession => At(c, Ending)',
         call'[c].stray = "none", call'[c].failed => At(c, Ending)',
         call'[c].confirmed => ~call'[c].failed /\ At(c, Ending)',
         x.state \in {"free", "dead"} => x.held = 0 /\ x.late = NoLate,
         x.held > 0 => Held(call[c].sess), x.late # NoLate => x.held > 0
  PROVE  LockInv'
  <1> DEFINE s == call[c].sess
  <1>1. /\ s \in Sessions /\ session \in [Sessions -> [state : {"free", "used", "dead", "gone"}, held : {0, 1}, late : Lates]]
        /\ \A d \in Calls : HasBackend(d) /\ call[d].sess = s => d = c
    BY DEF LockInv, Backends, TypeOK
  <1>2. \A d \in Calls : HasBackend(d)' => d # c /\ HasBackend(d) /\ call'[d] = call[d] /\ call[d].sess \in Sessions \ {s}
    BY <1>1 DEF HasBackend, At, LockInv, Backends
  <1>3. session'[s] = x /\ \A t \in Sessions \ {s} : session'[t] = session[t] BY <1>1
  <1>4. \A d \in Calls : HasBackend(d)' => HoldsLock(d)' = HoldsLock(d) BY <1>2 DEF HoldsLock, At
  <1>5. Backends'
    <2>1. ASSUME NEW d \in Calls, HasBackend(d)'
          PROVE  call'[d].sess \in Sessions /\ session'[call'[d].sess].state \in {"used", "dead"}
      BY <1>2, <1>3, <2>1 DEF LockInv, Backends
    <2>2. \A d, e \in Calls : HasBackend(d)' /\ HasBackend(e)' /\ call'[e].sess = call'[d].sess => e = d
      BY <1>2 DEF LockInv, Backends
    <2>3. \A d \in Calls : call'[d].sess # NoSession => At(d, Acquiring \cup Fenced \cup Ending)'
      BY DEF LockInv, Backends, At
    <2> QED BY <2>1, <2>2, <2>3 DEF Backends
  <1>6. LockCounted' BY <1>2, <1>3, <1>4 DEF LockInv, LockCounted, Alive
  <1>7. Quiet' BY <1>1, <1>3 DEF LockInv, Quiet
  <1>8. \A t \in Sessions : Held(t)' => Held(t) BY <1>1, <1>3 DEF Held
  <1>9. Mutex' BY <1>8 DEF LockInv, Mutex
  <1>10. LateHeld'
    <2> SUFFICES ASSUME NEW t \in Sessions, session'[t].late # NoLate
                 PROVE  Held(t)' /\ \A d \in Calls : HasBackend(d)' /\ call'[d].sess = t => At(d, Fenced)' /\ call'[d].abandoned
      BY DEF LateHeld
    <2>1. CASE t = s BY <1>2, <1>3, <2>1 DEF Held
    <2>2. CASE t # s BY <1>2, <1>3, <2>2 DEF LockInv, LateHeld, Held, At
    <2> QED BY <2>1, <2>2
  <1>11. StraysFenced' BY DEF LockInv, StraysFenced, At
  <1>12. Confirmations' BY DEF LockInv, Confirmations, At
  <1> QED BY <1>5, <1>6, <1>7, <1>9, <1>10, <1>11, <1>12 DEF LockInv

LEMMA LockReleasedIdle ==
  ASSUME LockInv, TypeOK', NEW c \in Calls, HasBackend(c), NEW x,
         session' = [session EXCEPT ![call[c].sess] = x], \A d \in Calls \ {c} : call'[d] = call[d],
         call'[c] = NoCall,
         x.state \in {"free", "dead"} => x.held = 0 /\ x.late = NoLate,
         x.held > 0 => Held(call[c].sess), x.late # NoLate => x.held > 0
  PROVE  LockInv'
  <1>1. NoCall.pc = "idle" /\ NoCall.sess = NoSession /\ NoCall.stray = "none" BY DEF NoCall
  <1>2. ~NoCall.failed /\ ~NoCall.confirmed BY DEF NoCall
  <1>3. ~At(c, Acquiring \cup Fenced)' BY <1>1 DEF At, Acquiring, Fenced
  <1>4. call'[c].sess # NoSession => At(c, Ending)' BY <1>1
  <1>5. call'[c].stray = "none" /\ (call'[c].failed => At(c, Ending)') BY <1>1, <1>2
  <1>6. call'[c].confirmed => ~call'[c].failed /\ At(c, Ending)' BY <1>2
  <1> QED BY <1>3, <1>4, <1>5, <1>6, LockReleased

(* A call at try or wait takes the lock: nothing held it before.           *)
LEMMA LockTaken ==
  ASSUME LockInv, TypeOK', NEW c \in Calls, At(c, Acquiring), Alive(c), ~HoldsLock(c), Grantable(call[c].sess),
         session' = [session EXCEPT ![call[c].sess].held = @ + 1], \A d \in Calls \ {c} : call'[d] = call[d],
         At(c, Acquiring \cup {"beat"})', HoldsLock(c)', call'[c].sess = call[c].sess,
         call'[c].stray = call[c].stray, call'[c].failed = call[c].failed, call'[c].confirmed = call[c].confirmed
  PROVE  LockInv'
  <1> DEFINE s == call[c].sess
  <1>1. /\ HasBackend(c) /\ s \in Sessions /\ session[s].held = 0 /\ session[s].state = "used"
        /\ \A d \in Calls : HasBackend(d) /\ call[d].sess = s => d = c
    BY DEF LockInv, Backends, LockCounted, HasBackend, Alive, At
  <1>2. session \in [Sessions -> [state : {"free", "used", "dead", "gone"}, held : {0, 1}, late : Lates]]
    BY DEF LockInv, TypeOK
  <1>3. \A t \in Sessions : ~Held(t) BY <1>1 DEF Grantable, Held
  <1>4. \A t \in Sessions : session[t].late = NoLate BY <1>3 DEF LockInv, LateHeld
  <1>5. /\ session'[s].held = 1 /\ \A t \in Sessions \ {s} : session'[t] = session[t]
        /\ \A t \in Sessions : session'[t].state = session[t].state /\ session'[t].late = session[t].late
    BY <1>1, <1>2
  <1>6. HasBackend(c)' BY DEF HasBackend, At, Acquiring, Fenced
  <1>7. \A d \in Calls : HasBackend(d)' = HasBackend(d) /\ call'[d].sess = call[d].sess
    BY <1>1, <1>6 DEF HasBackend, At
  <1>8. \A d \in Calls \ {c} : HoldsLock(d)' = HoldsLock(d) BY DEF HoldsLock, At
  <1>9. Backends'
    <2>1. \A d \in Calls : call'[d].sess # NoSession => At(d, Acquiring \cup Fenced \cup Ending)'
      BY <1>6 DEF LockInv, Backends, At, HasBackend
    <2>2. ASSUME NEW d \in Calls, HasBackend(d)'
          PROVE  call'[d].sess \in Sessions /\ session'[call'[d].sess].state \in {"used", "dead"}
      BY <1>5, <1>7, <2>2 DEF LockInv, Backends
    <2>3. \A d, e \in Calls : HasBackend(d)' /\ HasBackend(e)' /\ call'[e].sess = call'[d].sess => e = d
      BY <1>7 DEF LockInv, Backends
    <2> QED BY <2>1, <2>2, <2>3 DEF Backends
  <1>10. LockCounted'
    <2> SUFFICES ASSUME NEW d \in Calls, HasBackend(d)', Alive(d)'
                 PROVE  session'[call'[d].sess].held = IF HoldsLock(d)' THEN 1 ELSE 0
      BY DEF LockCounted
    <2>1. CASE d = c BY <1>5, <2>1
    <2>2. CASE d # c
      <3>1. HasBackend(d) /\ call'[d].sess = call[d].sess /\ call[d].sess \in Sessions \ {s}
        BY <1>1, <1>7, <2>2 DEF LockInv, Backends
      <3> QED BY <1>5, <1>8, <2>2, <3>1 DEF LockInv, LockCounted, Alive
    <2> QED BY <2>1, <2>2
  <1>11. Quiet' BY <1>1, <1>5 DEF LockInv, Quiet
  <1>12. Mutex' BY <1>3, <1>5 DEF Mutex, Held
  <1>13. LateHeld' BY <1>4, <1>5 DEF LateHeld
  <1>14. call[c].stray = "none" /\ ~call[c].failed /\ ~call[c].confirmed
    BY DEF LockInv, StraysFenced, Confirmations, At, Acquiring, Fenced, Ending
  <1>15. StraysFenced' BY <1>14 DEF LockInv, StraysFenced, At
  <1>16. Confirmations' BY <1>14 DEF LockInv, Confirmations, At
  <1> QED BY <1>9, <1>10, <1>11, <1>12, <1>13, <1>15, <1>16 DEF LockInv

LEMMA Records ==
  ASSUME LockInv, NEW c \in Calls
  PROVE  call \in [Calls -> CallRecords] /\ call[c] \in CallRecords
  BY DEF LockInv, TypeOK

LEMMA LockBusy ==
  ASSUME LockInv, TypeOK', NEW c \in Calls, At(c, Acquiring), Alive(c), ~HoldsLock(c), Busy(c)
  PROVE  LockInv'
  <1> DEFINE x == [session[call[c].sess] EXCEPT !.state = "free"]
  <1>0. call \in [Calls -> CallRecords] /\ call[c] \in CallRecords BY Records
  <1>1. HasBackend(c) /\ call[c].sess \in Sessions BY DEF HasBackend, At, LockInv, Backends
  <1>2. session[call[c].sess] \in [state : {"free", "used", "dead", "gone"}, held : {0, 1}, late : Lates]
    BY <1>1 DEF LockInv, TypeOK
  <1>3. session[call[c].sess].held = 0 BY <1>1 DEF LockInv, LockCounted
  <1>4. session[call[c].sess].late = NoLate BY <1>1 DEF LockInv, LateHeld, At, Acquiring, Fenced
  <1>5. session' = [session EXCEPT ![call[c].sess] = x] BY <1>1 DEF Busy, LockInv, TypeOK
  <1>6. x.held = 0 /\ x.late = NoLate BY <1>2, <1>3, <1>4
  <1>7. call[c].stray = "none" /\ ~call[c].failed /\ ~call[c].confirmed
    BY DEF LockInv, StraysFenced, Confirmations, At, Acquiring, Fenced, Ending
  <1>8. CASE EndCall(c)
    <2>1. call'[c] = NoCall /\ \A d \in Calls \ {c} : call'[d] = call[d] BY <1>0, <1>8 DEF EndCall
    <2> HIDE DEF x
    <2>2. /\ x.state \in {"free", "dead"} => x.held = 0 /\ x.late = NoLate
          /\ x.held > 0 => Held(call[c].sess)
          /\ x.late # NoLate => x.held > 0
      BY <1>6
    <2> QED BY <1>1, <1>5, <2>1, <2>2, LockReleasedIdle
  <1>9. CASE call' = [call EXCEPT ![c].pc = "recover", ![c].sess = NoSession]
    <2>1. /\ \A d \in Calls \ {c} : call'[d] = call[d]
          /\ call'[c].sess = NoSession /\ call'[c].pc = "recover" /\ call'[c].stray = call[c].stray
      BY <1>0, <1>9
    <2>2. call'[c].failed = call[c].failed /\ call'[c].confirmed = call[c].confirmed BY <1>0, <1>9
    <2>3. ~At(c, Acquiring \cup Fenced)' BY <2>1 DEF At, Acquiring, Fenced
    <2> HIDE DEF x
    <2>4. /\ x.state \in {"free", "dead"} => x.held = 0 /\ x.late = NoLate
          /\ x.held > 0 => Held(call[c].sess)
          /\ x.late # NoLate => x.held > 0
      BY <1>6
    <2> QED BY <1>1, <1>5, <1>7, <2>1, <2>2, <2>3, <2>4, LockReleased
  <1> QED BY <1>8, <1>9 DEF Busy

LEMMA LockConnect ==
  ASSUME LockInv, TypeOK', NEW c \in Calls, Connect(c) PROVE LockInv'
  <1>0. call \in [Calls -> CallRecords] /\ call[c] \in CallRecords BY Records
  <1>1. PICK s \in Sessions, k \in Kinds :
          /\ session[s].state = "free" /\ session' = [session EXCEPT ![s].state = "used"]
          /\ call' = [call EXCEPT ![c] =
               [NoCall EXCEPT !.kind = k, !.sess = s, !.retried = call[c].retried, !.left = MaxFolders,
                              !.pc = IF k \in {"live", "act"} THEN "wait" ELSE "try"]]
    BY DEF Connect
  <1>2. session \in [Sessions -> [state : {"free", "used", "dead", "gone"}, held : {0, 1}, late : Lates]]
    BY DEF LockInv, TypeOK
  <1>3. /\ session'[s].state = "used" /\ session'[s].held = 0 /\ session'[s].late = NoLate
        /\ \A t \in Sessions \ {s} : session'[t] = session[t]
    BY <1>1, <1>2 DEF LockInv, Quiet
  <1>4. /\ \A d \in Calls \ {c} : call'[d] = call[d] /\ call'[c].sess = s
        /\ call'[c].pc \in Acquiring /\ call'[c].stray = "none"
    BY <1>0, <1>1 DEF NoCall, Acquiring
  <1>5. ~call'[c].granted /\ ~call'[c].failed /\ ~call'[c].confirmed BY <1>0, <1>1 DEF NoCall
  <1>6. \A d \in Calls : HasBackend(d) => d # c /\ call[d].sess \in Sessions \ {s}
    BY <1>1 DEF LockInv, Backends, HasBackend, At, Connect, Acquiring, Fenced
  <1>7. \A d \in Calls \ {c} : HasBackend(d)' = HasBackend(d) /\ HoldsLock(d)' = HoldsLock(d)
    BY <1>4 DEF HasBackend, HoldsLock, At
  <1>8. call'[c].sess = s
    BY <1>0, <1>1 DEF NoCall
  <1>9. HasBackend(c)' /\ ~HoldsLock(c)' BY <1>4, <1>5, <1>8 DEF HasBackend, HoldsLock, At, Acquiring, Fenced
  <1>10. Backends'
    <2>1. ASSUME NEW d \in Calls, HasBackend(d)'
          PROVE  call'[d].sess \in Sessions /\ session'[call'[d].sess].state \in {"used", "dead"}
      BY <1>3, <1>4, <1>6, <1>7, <1>8, <2>1 DEF LockInv, Backends
    <2>2. \A d, e \in Calls : HasBackend(d)' /\ HasBackend(e)' /\ call'[e].sess = call'[d].sess => e = d
      BY <1>4, <1>6, <1>7, <1>8 DEF LockInv, Backends
    <2>3. \A d \in Calls : call'[d].sess # NoSession => At(d, Acquiring \cup Fenced \cup Ending)'
      BY <1>4, <1>9 DEF LockInv, Backends, At, HasBackend
    <2> QED BY <2>1, <2>2, <2>3 DEF Backends
  <1>11. LockCounted'
    <2> SUFFICES ASSUME NEW d \in Calls, HasBackend(d)', Alive(d)'
                 PROVE  session'[call'[d].sess].held = IF HoldsLock(d)' THEN 1 ELSE 0
      BY DEF LockCounted
    <2>1. CASE d = c BY <1>3, <1>8, <1>9, <2>1
    <2>2. CASE d # c BY <1>3, <1>4, <1>6, <1>7, <2>2 DEF LockInv, LockCounted, Alive
    <2> QED BY <2>1, <2>2
  <1>12. Quiet' BY <1>3 DEF LockInv, Quiet
  <1>13. Mutex' BY <1>3 DEF LockInv, Mutex, Held
  <1>14. LateHeld'
    <2> SUFFICES ASSUME NEW t \in Sessions, session'[t].late # NoLate
                 PROVE  Held(t)' /\ \A d \in Calls : HasBackend(d)' /\ call'[d].sess = t => At(d, Fenced)' /\ call'[d].abandoned
      BY DEF LateHeld
    <2>1. t # s /\ session'[t] = session[t] BY <1>3
    <2>2. \A d \in Calls : HasBackend(d)' /\ call'[d].sess = t => d # c BY <1>8, <2>1
    <2> QED BY <1>4, <1>7, <2>1, <2>2 DEF LockInv, LateHeld, Held, At
  <1>15. StraysFenced' BY <1>4, <1>1, <1>0 DEF LockInv, StraysFenced, At, NoCall
  <1>16. Confirmations' BY <1>4, <1>5 DEF LockInv, Confirmations, At
  <1> QED BY <1>10, <1>11, <1>12, <1>13, <1>14, <1>15, <1>16 DEF LockInv

LEMMA LockAcquire ==
  ASSUME LockInv, TypeOK', ~GrantRace, NEW c \in Calls, Acquire(c) PROVE LockInv'
  <1>0. call \in [Calls -> CallRecords] /\ call[c] \in CallRecords BY Records
  <1>1. CASE Connect(c) BY <1>1, LockConnect
  <1>2. CASE TryLock(c)
    <2>1. At(c, Acquiring) /\ Alive(c) /\ ~HoldsLock(c) BY <1>2 DEF TryLock, At, Acquiring, HoldsLock, Fenced
    <2>2. CASE Busy(c) BY <2>1, <2>2, LockBusy
    <2>3. CASE /\ Grantable(call[c].sess) /\ Goto(c, "beat")
               /\ session' = [session EXCEPT ![call[c].sess].held = @ + 1]
      <3>1. /\ \A d \in Calls \ {c} : call'[d] = call[d] 
            /\ call'[c].pc = "beat" /\ call'[c].sess = call[c].sess /\ call'[c].stray = call[c].stray
            /\ call'[c].failed = call[c].failed /\ call'[c].confirmed = call[c].confirmed
        BY <1>0, <2>3 DEF Goto
      <3>2. At(c, Acquiring \cup {"beat"})' /\ HoldsLock(c)' BY <3>1 DEF At, HoldsLock, Fenced
      <3> QED BY <2>1, <2>3, <3>1, <3>2, LockTaken
    <2> QED BY <1>2, <2>2, <2>3 DEF TryLock
  <1>3. CASE Grant(c)
    <2>1. At(c, Acquiring) /\ At(c, {"wait"}) /\ Alive(c) /\ ~HoldsLock(c)
      BY <1>3 DEF Grant, Waiters, At, Acquiring, HoldsLock, Fenced
    <2>2. /\ \A d \in Calls \ {c} : call'[d] = call[d] 
          /\ call'[c].pc = call[c].pc /\ call'[c].sess = call[c].sess /\ call'[c].stray = call[c].stray
          /\ call'[c].failed = call[c].failed /\ call'[c].confirmed = call[c].confirmed
      BY <1>0, <1>3 DEF Grant
    <2>3. call'[c].granted BY <1>0, <1>3 DEF Grant
    <2>4. At(c, Acquiring \cup {"beat"})' /\ HoldsLock(c)' BY <2>1, <2>2, <2>3 DEF At, HoldsLock
    <2> QED BY <1>3, <2>1, <2>2, <2>4, LockTaken DEF Grant
  <1>4. CASE WaitReturns(c)
    <2>1. /\ UNCHANGED session /\ \A d \in Calls \ {c} : call'[d] = call[d]
          /\ call[c].pc = "wait" /\ call'[c].pc = "beat" /\ call'[c].sess = call[c].sess
          /\ call'[c].stray = call[c].stray /\ call'[c].abandoned = call[c].abandoned
      BY <1>0, <1>4 DEF WaitReturns, Goto, At
    <2>2. call[c].granted /\ Alive(c) BY <1>4 DEF WaitReturns
    <2>3. ~call[c].failed /\ ~call[c].confirmed /\ call[c].stray = "none"
      BY <2>1 DEF LockInv, Confirmations, StraysFenced, At, Fenced, Ending
    <2>4. call'[c].failed = call[c].failed /\ call'[c].confirmed = call[c].confirmed BY <1>0, <1>4 DEF WaitReturns, Goto
    <2>5. HasBackend(c) /\ HasBackend(c)' /\ HoldsLock(c) /\ HoldsLock(c)'
      BY <2>1, <2>2 DEF HasBackend, HoldsLock, At, Acquiring, Fenced
    <2>6. \A d \in Calls : /\ HasBackend(d)' = HasBackend(d) /\ HoldsLock(d)' = HoldsLock(d)
                           /\ call'[d].sess = call[d].sess /\ Alive(d)' = Alive(d)
      BY <2>1, <2>5 DEF HasBackend, HoldsLock, At, Alive
    <2>7. Backends'
      <3>1. \A d \in Calls : call'[d].sess # NoSession => At(d, Acquiring \cup Fenced \cup Ending)'
        BY <2>5, <2>1 DEF LockInv, Backends, At, HasBackend
      <3>2. \A d \in Calls : HasBackend(d)' => session'[call'[d].sess] = session[call[d].sess] BY <2>1, <2>6
      <3> QED BY <2>6, <3>1, <3>2 DEF LockInv, Backends
    <2>8. LockCounted' BY <2>1, <2>6 DEF LockInv, LockCounted
    <2>9. Quiet' /\ Mutex' BY <2>1 DEF LockInv, Quiet, Mutex, Held
    <2>10. LateHeld' BY <2>1, <2>5, <2>6 DEF LockInv, LateHeld, Held, At, Fenced
    <2>11. StraysFenced' BY <2>1, <2>3 DEF LockInv, StraysFenced, At
    <2>12. Confirmations' BY <2>1, <2>3, <2>4 DEF LockInv, Confirmations, At
    <2> QED BY <2>7, <2>8, <2>9, <2>10, <2>11, <2>12 DEF LockInv
  <1>5. CASE WaitTimesOut(c)
    <2>1. At(c, Acquiring) /\ Alive(c) /\ ~HoldsLock(c) BY <1>5 DEF WaitTimesOut, At, Acquiring, HoldsLock, Fenced
    <2> QED BY <1>5, <2>1, LockBusy DEF WaitTimesOut
  <1>6. CASE AcquireLost(c)
    <2> DEFINE x == [session[call[c].sess] EXCEPT !.state = "free"]
    <2>1. HasBackend(c) /\ call[c].sess \in Sessions /\ session[call[c].sess].state = "dead"
      BY <1>6 DEF AcquireLost, HasBackend, At, Acquiring, LockInv, Backends, Alive
    <2>2. session[call[c].sess] \in [state : {"free", "used", "dead", "gone"}, held : {0, 1}, late : Lates]
      BY <2>1 DEF LockInv, TypeOK
    <2>3. x.held = 0 /\ x.late = NoLate BY <2>1, <2>2 DEF LockInv, Quiet
    <2>4. session' = [session EXCEPT ![call[c].sess] = x] BY <1>6, <2>1 DEF AcquireLost, LockInv, TypeOK
    <2>5. call'[c] = NoCall /\ \A d \in Calls \ {c} : call'[d] = call[d] BY <1>0, <1>6 DEF AcquireLost, EndCall
    <2> HIDE DEF x
    <2>6. /\ x.state \in {"free", "dead"} => x.held = 0 /\ x.late = NoLate
          /\ x.held > 0 => Held(call[c].sess)
          /\ x.late # NoLate => x.held > 0
      BY <2>3
    <2> QED BY <2>1, <2>4, <2>5, <2>6, LockReleasedIdle
  <1> QED BY <1>1, <1>2, <1>3, <1>4, <1>5, <1>6 DEF Acquire

LEMMA LockAbandon ==
  ASSUME LockInv, TypeOK', NEW c \in Calls, Abandon(c) PROVE LockInv'
  <1> DEFINE s == call[c].sess
  <1>0. call \in [Calls -> CallRecords] /\ call[c] \in CallRecords BY Records
  <1>1. call[c].pc \in {"mark", "write", "finalize"} /\ Live(c) BY DEF Abandon, At
  <1>2. /\ HasBackend(c) /\ HoldsLock(c) /\ s \in Sessions /\ session[s].state \in {"used", "dead"}
        /\ \A d \in Calls : HasBackend(d) /\ call[d].sess = s => d = c
    BY <1>1 DEF HasBackend, HoldsLock, At, Fenced, LockInv, Backends
  <1>3. session[s].state = "used" /\ session[s].held = 1
    BY <1>1, <1>2 DEF Live, Answers, LockInv, LockCounted, Alive
  <1>4. session \in [Sessions -> [state : {"free", "used", "dead", "gone"}, held : {0, 1}, late : Lates]]
    BY DEF LockInv, TypeOK
  <1>5. /\ \A t \in Sessions : session'[t].state = session[t].state /\ session'[t].held = session[t].held
        /\ \A t \in Sessions \ {s} : session'[t] = session[t]
    BY <1>2, <1>4 DEF Abandon
  <1>6. /\ \A d \in Calls \ {c} : call'[d] = call[d]
        /\ call'[c].pc \in {"folders", "unlock"} /\ call'[c].sess = s /\ call'[c].stray = call[c].stray
    BY <1>0 DEF Abandon
  <1>7. call'[c].abandoned BY <1>0 DEF Abandon
  <1>8. ~call[c].confirmed BY <1>1 DEF LockInv, Confirmations, At, Ending
  <1>9. call'[c].confirmed = call[c].confirmed BY <1>0 DEF Abandon
  <1>10. call'[c].failed => call'[c].pc = "unlock" BY <1>0 DEF Abandon
  <1>11. \A d \in Calls : /\ HasBackend(d)' = HasBackend(d) /\ HoldsLock(d)' = HoldsLock(d)
                          /\ call'[d].sess = call[d].sess /\ Alive(d) = Alive(d)'
    <2>1. HasBackend(c)' /\ HoldsLock(c)' BY <1>6 DEF HasBackend, HoldsLock, At, Fenced
    <2>2. ASSUME NEW d \in Calls PROVE Alive(d)' = Alive(d)
      <3>1. CASE call[d].sess \in Sessions BY <1>5, <1>6, <3>1 DEF Alive
      <3>2. CASE call[d].sess \notin Sessions
        <4>1. session'[call[d].sess] = session[call[d].sess] BY <1>2, <3>2 DEF Abandon
        <4> QED BY <1>6, <4>1 DEF Alive
      <3> QED BY <3>1, <3>2
    <2> QED BY <1>2, <1>6, <2>1, <2>2 DEF HasBackend, HoldsLock, At
  <1>12. Backends'
    <2>1. \A d \in Calls : call'[d].sess # NoSession => At(d, Acquiring \cup Fenced \cup Ending)'
      BY <1>6 DEF LockInv, Backends, At, Fenced
    <2>2. ASSUME NEW d \in Calls, HasBackend(d)'
          PROVE  call'[d].sess \in Sessions /\ session'[call'[d].sess].state \in {"used", "dead"}
      BY <1>5, <1>11, <2>2 DEF LockInv, Backends
    <2>3. \A d, e \in Calls : HasBackend(d)' /\ HasBackend(e)' /\ call'[e].sess = call'[d].sess => e = d
      BY <1>11 DEF LockInv, Backends
    <2> QED BY <2>1, <2>2, <2>3 DEF Backends
  <1>13. LockCounted'
    <2> SUFFICES ASSUME NEW d \in Calls, HasBackend(d)', Alive(d)'
                 PROVE  session'[call'[d].sess].held = IF HoldsLock(d)' THEN 1 ELSE 0
      BY DEF LockCounted
    <2>1. HasBackend(d) /\ Alive(d) /\ call[d].sess \in Sessions BY <1>11 DEF LockInv, Backends
    <2> QED BY <1>5, <1>11, <2>1 DEF LockInv, LockCounted
  <1>14. Quiet' BY <1>3, <1>5 DEF LockInv, Quiet
  <1>15. Mutex' BY <1>5 DEF LockInv, Mutex, Held
  <1>16. LateHeld'
    <2> SUFFICES ASSUME NEW t \in Sessions, session'[t].late # NoLate
                 PROVE  Held(t)' /\ \A d \in Calls : HasBackend(d)' /\ call'[d].sess = t => At(d, Fenced)' /\ call'[d].abandoned
      BY DEF LateHeld
    <2>1. CASE t = s BY <1>2, <1>3, <1>5, <1>6, <1>7, <1>11, <2>1 DEF Held, At, Fenced
    <2>2. CASE t # s
      <3>1. session'[t] = session[t] /\ \A d \in Calls : call'[d].sess = t => d # c BY <1>5, <1>6, <2>2
      <3> QED BY <1>6, <1>11, <3>1 DEF LockInv, LateHeld, Held, At
    <2> QED BY <2>1, <2>2
  <1>17. StraysFenced' BY <1>6 DEF LockInv, StraysFenced, At, Fenced
  <1>18. Confirmations' BY <1>6, <1>8, <1>9, <1>10 DEF LockInv, Confirmations, At
  <1> QED BY <1>12, <1>13, <1>14, <1>15, <1>16, <1>17, <1>18 DEF LockInv

(* The eviction of a client leaves at most a lock nobody uses any more.    *)
LEMMA EvictedHolds ==
  ASSUME LockInv, NEW s \in Sessions
  PROVE  /\ Evicted(s).state \in {"free", "dead"} => Evicted(s).held = 0 /\ Evicted(s).late = NoLate
         /\ Evicted(s).held > 0 => Held(s)
         /\ Evicted(s).late # NoLate => Evicted(s).held > 0
  <1>1. session[s] \in [state : {"free", "used", "dead", "gone"}, held : {0, 1}, late : Lates]
    BY DEF LockInv, TypeOK
  <1>2. CASE session[s].state = "dead"
    BY <1>2, NewSessionType DEF Evicted
  <1>3. CASE session[s].state # "dead"
    <2>1. Evicted(s).state = "gone" /\ Evicted(s).held = session[s].held /\ Evicted(s).late = session[s].late
      BY <1>1, <1>3 DEF Evicted
    <2> QED BY <2>1 DEF LockInv, LateHeld, Held
  <1> QED BY <1>2, <1>3

LEMMA LockUnlock ==
  ASSUME LockInv, TypeOK', NEW c \in Calls, UnlockSession(c) PROVE LockInv'
  <1> DEFINE s == call[c].sess
  <1>0. call \in [Calls -> CallRecords] /\ call[c] \in CallRecords BY Records
  <1>1. call[c].pc = "unlock" /\ call[c].stray = "none" BY DEF UnlockSession, At
  <1>2. HasBackend(c) /\ HoldsLock(c) /\ s \in Sessions
    BY <1>1 DEF HasBackend, HoldsLock, At, Fenced, LockInv, Backends
  <1>3. session[s] \in [state : {"free", "used", "dead", "gone"}, held : {0, 1}, late : Lates]
    BY <1>2 DEF LockInv, TypeOK
  <1>4. PICK failed \in BOOLEAN : AfterUnlock(c, failed) /\ failed \in {call[c].failed, UnlockFails(c)}
    <2>1. call[c].failed \in BOOLEAN /\ UnlockFails(c) \in BOOLEAN BY <1>0 DEF CallRecords, UnlockFails
    <2> QED BY <2>1 DEF UnlockSession
  <1>5. call[c].confirmed => ~call[c].failed BY DEF LockInv, Confirmations
  <1>6. call[c].confirmed => ~failed BY <1>4, <1>5 DEF UnlockFails
  <1>7. /\ \A d \in Calls \ {c} : call'[d] = call[d]
        /\ call'[c].pc \in Ending /\ call'[c].stray = "none"
    BY <1>0, <1>1, <1>4 DEF AfterUnlock, Ending
  <1>8. call'[c].confirmed = call[c].confirmed /\ call'[c].failed = failed
    BY <1>0, <1>4 DEF AfterUnlock
  <1>9. At(c, Ending)' /\ ~At(c, Acquiring \cup Fenced)' BY <1>7 DEF At, Ending, Acquiring, Fenced
  <1>10. call'[c].confirmed => ~call'[c].failed BY <1>6, <1>8
  <1>11. ASSUME NEW x, session' = [session EXCEPT ![s] = x],
                x.state \in {"free", "dead"} => x.held = 0 /\ x.late = NoLate,
                x.held > 0 => Held(s), x.late # NoLate => x.held > 0
         PROVE  LockInv'
    BY <1>2, <1>7, <1>9, <1>10, <1>11, LockReleased
  <1>12. CASE session' = [session EXCEPT ![s] = Evicted(s)]
    BY <1>2, <1>11, <1>12, EvictedHolds
  <1>13. CASE /\ ~call[c].abandoned /\ Alive(c)
              /\ session' = [session EXCEPT ![s].held = @ - 1, ![s].state = "free"]
    <2> DEFINE x == [session[s] EXCEPT !.held = @ - 1, !.state = "free"]
    <2>1. session' = [session EXCEPT ![s] = x]
      <3>1. session' = [session EXCEPT ![s].held = session[s].held - 1, ![s].state = "free"] BY <1>13
      <3>2. session \in [Sessions -> [state : {"free", "used", "dead", "gone"}, held : {0, 1}, late : Lates]]
        BY DEF LockInv, TypeOK
      <3> QED BY <1>2, <3>1, <3>2
    <2>2. session[s].held = 1 BY <1>2, <1>13 DEF LockInv, LockCounted
    <2>3. session[s].late = NoLate BY <1>2, <1>13 DEF LockInv, LateHeld
    <2>4. x.held = 0 /\ x.late = NoLate BY <1>3, <2>2, <2>3
    <2> HIDE DEF x
    <2>5. /\ x.state \in {"free", "dead"} => x.held = 0 /\ x.late = NoLate
          /\ x.held > 0 => Held(call[c].sess)
          /\ x.late # NoLate => x.held > 0
      BY <2>4
    <2> QED BY <1>11, <2>1, <2>5
  <1> QED BY <1>12, <1>13 DEF UnlockSession

LEMMA LockUnmoved ==
  ASSUME LockInv, TypeOK', UNCHANGED <<session, call>> PROVE LockInv'
  <1>1. \A d \in Calls : /\ HasBackend(d)' = HasBackend(d) /\ HoldsLock(d)' = HoldsLock(d)
                         /\ Alive(d)' = Alive(d)
    BY DEF HasBackend, HoldsLock, At, Alive
  <1>2. Backends' BY <1>1 DEF LockInv, Backends, At
  <1>3. LockCounted' BY <1>1 DEF LockInv, LockCounted
  <1>4. Quiet' /\ Mutex' /\ StraysFenced' /\ Confirmations'
    BY DEF LockInv, Quiet, Mutex, Held, StraysFenced, Confirmations, At
  <1>5. LateHeld' BY <1>1 DEF LockInv, LateHeld, Held, At
  <1> QED BY <1>2, <1>3, <1>4, <1>5 DEF LockInv

(* A session loses a statement in flight, or is reaped by the server.      *)
LEMMA LockSettles ==
  ASSUME LockInv, TypeOK', NEW s \in Sessions, LateCommit(s) \/ ReapSession(s) PROVE LockInv'
  <1>1. session \in [Sessions -> [state : {"free", "used", "dead", "gone"}, held : {0, 1}, late : Lates]]
    BY DEF LockInv, TypeOK
  <1>2. /\ UNCHANGED call /\ \A t \in Sessions \ {s} : session'[t] = session[t]
        /\ session'[s].late = NoLate /\ session'[s].held \in {0, session[s].held}
    BY <1>1, NewSessionType DEF LateCommit, ReapSession
  <1>3. session[s].state # "gone" => session'[s].state = session[s].state /\ session'[s].held = session[s].held
    BY <1>1 DEF LateCommit, ReapSession
  <1>4. session[s].state = "gone" => session'[s].state = "gone" \/ session'[s] = NewSession
    BY <1>1 DEF LateCommit, ReapSession
  <1>5. \A d \in Calls : HasBackend(d)' = HasBackend(d) /\ HoldsLock(d)' = HoldsLock(d)
    BY <1>2 DEF HasBackend, HoldsLock, At
  <1>6. ASSUME NEW d \in Calls, HasBackend(d)
        PROVE  /\ call[d].sess \in Sessions /\ session'[call[d].sess].state = session[call[d].sess].state
               /\ session'[call[d].sess].held = session[call[d].sess].held
    BY <1>2, <1>3, <1>6 DEF LockInv, Backends
  <1>7. Backends' BY <1>2, <1>5, <1>6 DEF LockInv, Backends, At
  <1>8. LockCounted' BY <1>2, <1>5, <1>6 DEF LockInv, LockCounted, Alive
  <1>9. Quiet' BY <1>2, <1>3, <1>4, NewSessionType DEF LockInv, Quiet
  <1>10. \A t \in Sessions : Held(t)' => Held(t) BY <1>1, <1>2 DEF Held
  <1>11. Mutex' BY <1>10 DEF LockInv, Mutex
  <1>12. LateHeld' BY <1>2, <1>5 DEF LockInv, LateHeld, Held, At
  <1>13. StraysFenced' /\ Confirmations' BY <1>2 DEF LockInv, StraysFenced, Confirmations, At
  <1> QED BY <1>7, <1>8, <1>9, <1>11, <1>12, <1>13 DEF LockInv

LEMMA LockEnds ==
  ASSUME LockInv, TypeOK', NEW s \in Sessions, session' = [session EXCEPT ![s] = Ended(s)], UNCHANGED call
  PROVE  LockInv'
  <1>1. session' = [t \in Sessions |-> IF t \in {s} THEN Ended(t) ELSE session[t]] BY DEF LockInv, TypeOK
  <1>2. {s} \in SUBSET Sessions OBVIOUS
  <1> HIDE DEF Ended
  <1> QED BY <1>1, <1>2, LockOutside

LEMMA LockEnvironment ==
  ASSUME LockInv, TypeOK', Environment PROVE LockInv'
  <1>1. ASSUME NEW s \in Sessions, SessionStep(s) PROVE LockInv'
    BY <1>1, LockSettles, LockEnds DEF SessionStep, EndSession
  <1>2. CASE Sweep
    <2>1. CASE SweepKill
      <3>1. sweep.pids \subseteq Sessions BY DEF LockInv, TypeOK
      <3> QED BY <2>1, <3>1, LockUnmoved, LockEnds DEF SweepKill
    <2> QED BY <1>2, <2>1, LockUnmoved DEF Sweep, StartSweep, SweepReset, SweepClose
  <1>3. CASE HeartbeatAges BY <1>3, LockUnmoved DEF HeartbeatAges
  <1>4. ASSUME NEW r \in Runs, RunAges(r) PROVE LockInv' BY <1>4, LockUnmoved DEF RunAges
  <1>5. ASSUME NEW c \in Calls, HeartbeatTick(c) PROVE LockInv' BY <1>5, LockUnmoved DEF HeartbeatTick
  <1> QED BY <1>1, <1>2, <1>3, <1>4, <1>5 DEF Environment

(* The stages of a call without a backend, and what its steps leave.       *)
LEMMA LockOutsideStep ==
  ASSUME LockInv, TypeOK', NEW c \in Calls, OutsideStep(c) PROVE LockInv'
  <1> DEFINE Off == Ending \cup Recovering
  <1>0. call \in [Calls -> CallRecords] /\ call[c] \in CallRecords BY Records
  <1>1. call[c].pc \in Off /\ \A d \in Calls \ {c} : call'[d] = call[d]
    BY <1>0 DEF OutsideStep, CancellationCleanup, finishSyncRun, Report, Recover, FindStale, KillHolder, ResetOwner,
                CloseStaleRuns, RecoveryFails, EndCall, Goto, At, Ending, Recovering
  <1>2. ~HasBackend(c) /\ call[c].stray = "none"
    BY <1>1 DEF HasBackend, At, Acquiring, Fenced, Ending, Recovering, LockInv, StraysFenced
  <1>3. PICK dead \in SUBSET Sessions :
          session' = [s \in Sessions |-> IF s \in dead THEN Ended(s) ELSE session[s]]
    <2>1. CASE KillHolder(c)
      <3>1. session' = [session EXCEPT ![call[c].target] = Ended(call[c].target)] BY <2>1 DEF KillHolder
      <3>2. session' = [s \in Sessions |-> IF s \in ({call[c].target} \cap Sessions) THEN Ended(s) ELSE session[s]]
        BY <3>1 DEF LockInv, TypeOK
      <3>3. {call[c].target} \cap Sessions \in SUBSET Sessions OBVIOUS
      <3> QED BY <3>2, <3>3
    <2>2. CASE ~KillHolder(c)
      <3>1. session' = session
        BY <2>2 DEF OutsideStep, CancellationCleanup, finishSyncRun, Report, Recover, FindStale, ResetOwner,
                    CloseStaleRuns, RecoveryFails
      <3>2. session' = [s \in Sessions |-> IF s \in {} THEN Ended(s) ELSE session[s]]
        BY <3>1 DEF LockInv, TypeOK
      <3>3. {} \in SUBSET Sessions OBVIOUS
      <3> QED BY <3>2, <3>3
    <2> QED BY <2>1, <2>2
  <1>4. /\ call[c].sess # NoSession => At(c, Ending)
        /\ call[c].failed => At(c, Ending)
        /\ call[c].confirmed => At(c, Ending)
    BY <1>1 DEF LockInv, Backends, Confirmations, At, Acquiring, Fenced, Ending, Recovering
  <1> DEFINE Left ==
        /\ ~At(c, Acquiring \cup Fenced)'
        /\ call'[c].sess # NoSession => At(c, Ending)'
        /\ call'[c].stray = "none"
        /\ call'[c].failed => call[c].failed /\ At(c, Ending)'
        /\ call'[c].confirmed => call[c].confirmed /\ At(c, Ending)'
  <1>5. Left
    <2>1. CASE EndCall(c)
      <3>1. call'[c] = NoCall BY <1>0, <2>1 DEF EndCall
      <3>2. NoCall.pc = "idle" /\ NoCall.sess = NoSession /\ NoCall.stray = "none" BY DEF NoCall
      <3>3. ~NoCall.failed /\ ~NoCall.confirmed BY DEF NoCall
      <3> QED BY <3>1, <3>2, <3>3 DEF At, Acquiring, Fenced
    <2>2. CASE CloseStaleRuns(c)
      <3>1. call'[c] = [NoCall EXCEPT !.pc = "reconnect", !.kind = "full", !.retried = TRUE]
        BY <1>0, <2>2 DEF CloseStaleRuns
      <3>2. call'[c].pc = "reconnect" /\ call'[c].sess = NoSession /\ call'[c].stray = "none" BY <3>1 DEF NoCall
      <3>3. ~call'[c].failed /\ ~call'[c].confirmed BY <3>1 DEF NoCall
      <3> QED BY <3>2, <3>3 DEF At, Acquiring, Fenced
    <2>3. CASE CancellationCleanup(c)
      <3>1. /\ call'[c].pc = "finish" /\ call'[c].stray = call[c].stray
            /\ call'[c].failed = call[c].failed /\ call'[c].confirmed = call[c].confirmed
        BY <1>0, <2>3 DEF CancellationCleanup, Goto
      <3> QED BY <1>2, <3>1 DEF At, Acquiring, Fenced, Ending
    <2>4. ASSUME call[c].pc \in Recovering, call'[c].pc \in Recovering, call'[c].stray = call[c].stray,
                 call'[c].sess = call[c].sess, call'[c].failed = call[c].failed,
                 call'[c].confirmed = call[c].confirmed
          PROVE  Left
      <3>1. call[c].sess = NoSession /\ ~call[c].failed /\ ~call[c].confirmed
        BY <1>4, <2>4 DEF At, Ending, Recovering
      <3> QED BY <1>2, <2>4, <3>1 DEF At, Acquiring, Fenced, Recovering
    <2>5. CASE KillHolder(c) BY <1>0, <2>4, <2>5 DEF KillHolder, Goto, At, Recovering
    <2>6. CASE ResetOwner(c) BY <1>0, <2>4, <2>6 DEF ResetOwner, Goto, At, Recovering
    <2>7. CASE FindStale(c) /\ ~EndCall(c)
      <3>1. PICK s \in StaleHolders :
              call' = [call EXCEPT ![c].pc = "kill", ![c].target = s, ![c].seen = account.startedBy]
        BY <2>7 DEF FindStale
      <3>2. /\ call'[c].pc = "kill" /\ call'[c].stray = call[c].stray /\ call'[c].sess = call[c].sess
            /\ call'[c].failed = call[c].failed /\ call'[c].confirmed = call[c].confirmed
        BY <1>0, <3>1
      <3>3. call[c].pc = "recover" BY <2>7 DEF FindStale, At
      <3> HIDE DEF Left
      <3> QED BY <2>4, <3>2, <3>3 DEF Recovering
    <2> QED BY <2>1, <2>2, <2>3, <2>5, <2>6, <2>7 DEF OutsideStep, Recover, finishSyncRun, Report, RecoveryFails
  <1> QED BY <1>1, <1>2, <1>3, <1>5, LockLeft

LEMMA LockCrash ==
  ASSUME LockInv, TypeOK', NEW c \in Calls, Crash(c) PROVE LockInv'
  <1>0. call \in [Calls -> CallRecords] /\ call[c] \in CallRecords BY Records
  <1>1. call'[c] = NoCall /\ \A d \in Calls \ {c} : call'[d] = call[d] BY <1>0 DEF Crash, EndCall
  <1>2. CASE HasBackend(c)
    <2>1. call[c].sess \in Sessions BY <1>2 DEF LockInv, Backends
    <2>2. session' = [session EXCEPT ![call[c].sess] = Evicted(call[c].sess)]
      BY <1>2, <2>1, LockAssumption DEF Crash, At, HasBackend, Acquiring, Fenced
    <2> HIDE DEF Evicted
    <2> QED BY <1>1, <1>2, <2>1, <2>2, EvictedHolds, LockReleasedIdle
  <1>3. CASE ~HasBackend(c)
    <2>1. session' = session BY <1>3 DEF Crash, At, HasBackend, LockInv, Backends, Ending
    <2>2. session' = [s \in Sessions |-> IF s \in {} THEN Ended(s) ELSE session[s]]
      BY <2>1 DEF LockInv, TypeOK
    <2>3. NoCall.pc = "idle" /\ NoCall.sess = NoSession /\ NoCall.stray = "none" BY DEF NoCall
    <2>4. ~NoCall.failed /\ ~NoCall.confirmed BY DEF NoCall
    <2>5. ~At(c, Acquiring \cup Fenced)' BY <1>1, <2>3 DEF At, Acquiring, Fenced
    <2>6. /\ call'[c].sess # NoSession => At(c, Ending)'
          /\ call'[c].failed => call[c].failed /\ At(c, Ending)'
          /\ call'[c].confirmed => call[c].confirmed /\ At(c, Ending)'
          /\ call'[c].stray = "none"
      BY <1>1, <2>3, <2>4
    <2>7. {} \in SUBSET Sessions /\ call[c].stray = call[c].stray OBVIOUS
    <2> QED BY <1>1, <1>3, <2>2, <2>5, <2>6, <2>7, LockLeft
  <1> QED BY <1>2, <1>3

LEMMA LockStep == ~GrantRace /\ LockInv /\ [Next]_vars => LockInv'
  <1> SUFFICES ASSUME ~GrantRace, LockInv, [Next]_vars PROVE LockInv' OBVIOUS
  <1>1. TypeOK' BY TypeStep
  <1>2. CASE UNCHANGED vars BY <1>1, <1>2, LockUnmoved DEF vars
  <1> QED BY <1>1, <1>2, StepKinds, LockAcquire, LockFenced, LockAbandon, LockUnlock, LockOutsideStep, LockCrash,
             LockEnvironment

LEMMA LockInit == Init => LockInv
  <1> SUFFICES ASSUME Init PROVE LockInv OBVIOUS
  <1>1. \A c \in Calls : call[c] = NoCall BY DEF Init
  <1>2. \A s \in Sessions : session[s] = NewSession BY DEF Init
  <1>3. NoCall.pc = "idle" /\ NoCall.sess = NoSession /\ NoCall.stray = "none" BY DEF NoCall
  <1>4. ~NoCall.failed /\ ~NoCall.confirmed BY DEF NoCall
  <1>5. TypeOK BY NoCallType, NewSessionType DEF Init, TypeOK
  <1>6. \A c \in Calls : ~HasBackend(c) BY <1>1, <1>3 DEF HasBackend, At, Acquiring, Fenced
  <1>7. Backends /\ LockCounted BY <1>1, <1>3, <1>6 DEF Backends, LockCounted
  <1>8. Quiet /\ Mutex /\ LateHeld BY <1>2, NewSessionType DEF Quiet, Mutex, LateHeld, Held
  <1>9. StraysFenced /\ Confirmations BY <1>1, <1>3, <1>4 DEF StraysFenced, Confirmations
  <1> QED BY <1>5, <1>7, <1>8, <1>9 DEF LockInv

(* The invariant of the lock, when no wait is cancelled in the instant its *)
(* lock is granted (withAccountLock, LockedSession).                       *)
THEOREM LockInvariant == ~GrantRace => (Spec => []LockInv)
  <1> SUFFICES ASSUME ~GrantRace PROVE Spec => []LockInv OBVIOUS
  <1>1. LockInv /\ [Next]_vars => LockInv' BY LockStep
  <1> QED BY <1>1, LockInit, PTL DEF Spec

LEMMA WorkingHolds ==
  ASSUME LockInv, NEW c \in Calls, At(c, Fenced), Alive(c)
  PROVE  /\ call[c].sess \in Sessions /\ Held(call[c].sess)
         /\ \A d \in Calls : At(d, Fenced) /\ Alive(d) => d = c
  <1>1. \A d \in Calls : At(d, Fenced) => HasBackend(d) /\ HoldsLock(d) BY DEF HasBackend, HoldsLock, At
  <1>2. \A d \in Calls : At(d, Fenced) /\ Alive(d) => call[d].sess \in Sessions /\ Held(call[d].sess)
    BY <1>1 DEF LockInv, Backends, LockCounted, Held
  <1> QED BY <1>1, <1>2 DEF LockInv, Mutex, Backends

LEMMA WriterHolds ==
  ASSUME LockInv, NEW c \in Calls, CanCommit(c)
  PROVE  At(c, Fenced) /\ Alive(c) /\ (~call[c].abandoned \/ call[c].stray = "running")
  <1>1. At(c, Fenced) BY DEF CanCommit, LockInv, StraysFenced, At, Fenced
  <1>2. session[call[c].sess].state \in {"used", "dead"} BY <1>1 DEF LockInv, Backends, HasBackend, At
  <1> QED BY <1>1, <1>2 DEF CanCommit, Answers, Alive

(* Every variable keeps its type; a session holds the lock at most once.   *)
THEOREM TypeCorrect == ~GrantRace => (Spec => []TypeOK)
  <1>1. LockInv => TypeOK BY DEF LockInv
  <1> QED BY <1>1, LockInvariant, PTL

(* No two calls commit fenced writes in the same state (LockedSession).    *)
THEOREM OneWriterHolds == ~GrantRace => (Spec => []OneWriter)
  <1> SUFFICES ASSUME ~GrantRace PROVE Spec => []OneWriter OBVIOUS
  <1>1. ASSUME LockInv PROVE OneWriter
    <2>1. \A c, d \in Calls : CanCommit(c) /\ CanCommit(d) => c = d BY <1>1, WriterHolds, WorkingHolds
    <2>2. ASSUME NEW s \in Sessions, session[s].late # NoLate, NEW c \in Calls, CanCommit(c)
          PROVE  call[c].sess = s
      <3>1. Held(s) BY <1>1, <2>2 DEF LockInv, LateHeld
      <3> QED BY <1>1, <2>2, <3>1, WriterHolds, WorkingHolds DEF LockInv, Mutex
    <2> QED BY <2>1, <2>2 DEF OneWriter
  <1>2. LockInv => OneWriter BY <1>1
  <1> QED BY <1>2, LockInvariant, PTL

(* A client in the pool never holds the lock (withAccountLock).            *)
THEOREM PoolCleanHolds == ~GrantRace => (Spec => []PoolClean)
  <1>1. LockInv => PoolClean BY DEF LockInv, Quiet, PoolClean
  <1> QED BY <1>1, LockInvariant, PTL

(* A confirmed provider command is never reported as a failure             *)
(* (confirmIrreversible).                                                  *)
THEOREM ConfirmedStandsHolds == ~GrantRace => (Spec => []ConfirmedStands)
  <1>1. LockInv => ConfirmedStands BY DEF LockInv, Confirmations, ConfirmedStands
  <1> QED BY <1>1, LockInvariant, PTL

-------------------------------------------------------------------------------
(* The account row on direct connections. *)

(* A step that gives no call a pass at work, and changes the owner of the  *)
(* row under none.                                                         *)
LEMMA OwnerKept ==
  ASSUME OwnerInv, LockInv',
         \A d \in Calls :
           /\ ~At(d, Recovering)'
           /\ call'[d].run \in {call[d].run, NoRun}
           /\ At(d, WithRun)' => call'[d].run # NoRun
           /\ Working(d)' => /\ Working(d) /\ call'[d].run = call[d].run
                             /\ account'.startedBy = account.startedBy
  PROVE  OwnerInv'
  <1>1. RunsIssued' BY DEF OwnerInv, RunsIssued
  <1>2. OwnerShown' BY DEF OwnerInv, OwnerShown
  <1> QED BY <1>1, <1>2 DEF OwnerInv, NoTakeover

(* A backend that is used now was used before, or waited in the pool.      *)
LEMMA UsedBefore ==
  ASSUME LockInv, Next, NEW s \in Sessions, session'[s].state = "used"
  PROVE  session[s].state \in {"used", "free"}
  <1>1. session \in [Sessions -> [state : {"free", "used", "dead", "gone"}, held : {0, 1}, late : Lates]]
    BY DEF LockInv, TypeOK
  <1>2. \A t \in Sessions : Ended(t).state # "used" /\ Evicted(t).state # "used"
    BY <1>1, NewSessionType DEF Ended, Evicted
  <1> HIDE DEF Ended, Evicted
  <1>3. CASE UNCHANGED session BY <1>3
  <1>4. ASSUME NEW c \in Calls, Acquire(c) PROVE session[s].state \in {"used", "free"}
    <2>1. CASE Connect(c) BY <1>1, <2>1 DEF Connect
    <2>2. CASE Busy(c) BY <1>1, <2>2 DEF Busy
    <2>3. CASE session' = [session EXCEPT ![call[c].sess].held = @ + 1] BY <1>1, <2>3
    <2>4. CASE AcquireLost(c) BY <1>1, <2>4 DEF AcquireLost
    <2> QED BY <1>3, <1>4, <2>1, <2>2, <2>3, <2>4 DEF Acquire, TryLock, Grant, WaitReturns, WaitTimesOut
  <1>5. ASSUME NEW c \in Calls, FencedStep(c) PROVE session[s].state \in {"used", "free"}
    BY <1>3, <1>5, FencedEffect
  <1>6. ASSUME NEW c \in Calls, Abandon(c) PROVE session[s].state \in {"used", "free"} BY <1>1, <1>6 DEF Abandon
  <1>7. ASSUME NEW c \in Calls, UnlockSession(c) PROVE session[s].state \in {"used", "free"}
    BY <1>1, <1>2, <1>7 DEF UnlockSession
  <1>8. ASSUME NEW c \in Calls, OutsideStep(c) PROVE session[s].state \in {"used", "free"}
    <2>1. CASE KillHolder(c) BY <1>1, <1>2, <2>1 DEF KillHolder
    <2>2. CASE ~KillHolder(c)
      BY <1>3, <1>8, <2>2 DEF OutsideStep, CancellationCleanup, finishSyncRun, Report, Recover, FindStale, ResetOwner,
                              CloseStaleRuns, RecoveryFails
    <2> QED BY <2>1, <2>2
  <1>9. ASSUME NEW c \in Calls, Crash(c) PROVE session[s].state \in {"used", "free"} BY <1>1, <1>2, <1>9 DEF Crash
  <1>10. CASE Environment
    <2>1. ASSUME NEW t \in Sessions, SessionStep(t) PROVE session[s].state \in {"used", "free"}
      BY <1>1, <1>2, <2>1, NewSessionType DEF SessionStep, LateCommit, EndSession, ReapSession
    <2>2. CASE SweepKill BY <1>1, <1>2, <2>2 DEF SweepKill
    <2>3. CASE UNCHANGED session BY <2>3
    <2> QED BY <1>10, <2>1, <2>2, <2>3 DEF Environment, Sweep, StartSweep, SweepReset, SweepClose, HeartbeatAges, RunAges,
                                        HeartbeatTick
  <1> QED BY <1>4, <1>5, <1>6, <1>7, <1>8, <1>9, <1>10, StepKinds

(* A call the step leaves alone works only if it did before.               *)
LEMMA WorkedBefore ==
  ASSUME LockInv, Next, NEW d \in Calls, call'[d] = call[d], Working(d)'
  PROVE  Working(d)
  <1>1. At(d, {"reap", "folders", "write", "finalize"}) /\ ~call[d].abandoned BY DEF Working, At
  <1>2. call[d].sess \in Sessions /\ session[call[d].sess].state \in {"used", "dead"}
    BY <1>1 DEF LockInv, Backends, HasBackend, At, Fenced
  <1>3. session'[call[d].sess].state = "used" BY DEF Working, Alive
  <1> QED BY <1>1, <1>2, <1>3, UsedBefore DEF Working, Alive

(* Steps that leave the other calls and the account row's owner alone, and *)
(* put their own call at no work.                                          *)
LEMMA OwnerLeft ==
  ASSUME OwnerInv, LockInv', Next, NEW c \in Calls, \A d \in Calls \ {c} : call'[d] = call[d],
         ~At(c, Recovering)', call'[c].run \in {call[c].run, NoRun}, At(c, WithRun)' => call'[c].run # NoRun,
         Working(c)' => Working(c) /\ call'[c].run = call[c].run,
         account'.startedBy = account.startedBy
  PROVE  OwnerInv'
  <1>1. \A d \in Calls \ {c} : Working(d)' => Working(d) BY WorkedBefore DEF OwnerInv
  <1>2. \A d \in Calls \ {c} : ~At(d, Recovering)' /\ (At(d, WithRun)' => call'[d].run # NoRun)
    BY DEF OwnerInv, NoTakeover, RunsIssued, At
  <1>3. \A d \in Calls :
           /\ ~At(d, Recovering)'
           /\ call'[d].run \in {call[d].run, NoRun}
           /\ At(d, WithRun)' => call'[d].run # NoRun
           /\ Working(d)' => /\ Working(d) /\ call'[d].run = call[d].run
                             /\ account'.startedBy = account.startedBy
    BY <1>1, <1>2
  <1> QED BY <1>3, OwnerKept

(* Where the steps of a call lead.                                         *)
LEMMA AcquireStages ==
  ASSUME LockInv, ~Pooler, NEW c \in Calls, Acquire(c)
  PROVE  /\ \A d \in Calls \ {c} : call'[d] = call[d]
         /\ call'[c].pc \in {"try", "wait", "beat", "idle"} /\ call'[c].run \in {call[c].run, NoRun}
  <1>0. call \in [Calls -> CallRecords] /\ call[c] \in CallRecords BY Records
  <1>1. NoCall.run = NoRun /\ NoCall.pc = "idle" BY DEF NoCall
  <1>2. CASE EndCall(c) BY <1>0, <1>1, <1>2 DEF EndCall
  <1>3. CASE Connect(c) BY <1>0, <1>1, <1>3 DEF Connect, NoCall
  <1>4. CASE Goto(c, "beat") BY <1>0, <1>4 DEF Goto
  <1>5. CASE Grant(c) BY <1>0, <1>5 DEF Grant, Waiters, At
  <1> QED BY <1>2, <1>3, <1>4, <1>5 DEF Acquire, TryLock, Busy, WaitReturns, WaitTimesOut, AcquireLost

LEMMA EndStages ==
  ASSUME LockInv, NEW c \in Calls, UnlockSession(c) \/ finishSyncRun(c) \/ Report(c) \/ Crash(c)
  PROVE  /\ \A d \in Calls \ {c} : call'[d] = call[d]
         /\ call'[c].pc \in {"idle"} \cup Ending /\ call'[c].run \in {call[c].run, NoRun}
         /\ call'[c].pc = "cleanup" => call'[c].run # NoRun
  <1> DEFINE Left == /\ \A d \in Calls \ {c} : call'[d] = call[d]
                     /\ call'[c].pc \in {"idle"} \cup Ending /\ call'[c].run \in {call[c].run, NoRun}
                     /\ call'[c].pc = "cleanup" => call'[c].run # NoRun
  <1>0. call \in [Calls -> CallRecords] /\ call[c] \in CallRecords BY Records
  <1>1. NoCall.run = NoRun /\ NoCall.pc = "idle" BY DEF NoCall
  <1>2. CASE EndCall(c) BY <1>0, <1>1, <1>2 DEF EndCall
  <1>3. ASSUME NEW failed, AfterUnlock(c, failed) PROVE Left BY <1>0, <1>3 DEF AfterUnlock, Ending
  <1> QED BY <1>2, <1>3 DEF UnlockSession, finishSyncRun, Report, Crash

LEMMA FencedRow ==
  ASSUME LockInv, NEW c \in Calls, FencedStep(c), ~markAccountSyncStarted(c), ~Finalize(c)
  PROVE  account'.startedBy = account.startedBy
  <1>1. account' \in {account, [account EXCEPT !.fresh = TRUE]}
    BY DEF FencedStep, Beat, ProofFails, startSyncRun, closeOrphanedSyncRuns, assertLive, WriteFolder, FoldersDone,
           Interrupt, ProvenLoss, Prove, Deliver, WriteThrough, Lost, Stray, StrayIssued, StrayTurn, StrayDone
  <1> QED BY <1>1 DEF LockInv, TypeOK

LEMMA FencedStages ==
  ASSUME LockInv, NEW c \in Calls, FencedStep(c), ~Stray(c), ~startSyncRun(c), ~markAccountSyncStarted(c), ~Finalize(c)
  PROVE  /\ call'[c].run = call[c].run
         /\ \/ call'[c].pc \in {"prove", "start", "unlock", "deliver", "through"}
            \/ call[c].pc \in {"reap", "folders", "write", "finalize"}
  <1>0. call \in [Calls -> CallRecords] /\ call[c] \in CallRecords BY Records
  <1>1. CASE Beat(c) BY <1>0, <1>1 DEF Beat, At, Goto
  <1>2. CASE ProofFails(c) BY <1>0, <1>2 DEF ProofFails, At
  <1>3. CASE closeOrphanedSyncRuns(c) BY <1>0, <1>3 DEF closeOrphanedSyncRuns, At, Goto
  <1>4. CASE assertLive(c) BY <1>0, <1>4 DEF assertLive, At
  <1>5. CASE WriteFolder(c) BY <1>0, <1>5 DEF WriteFolder, At, Goto
  <1>6. CASE FoldersDone(c) BY <1>0, <1>6 DEF FoldersDone, At, Goto
  <1>7. CASE Interrupt(c) BY <1>0, <1>7 DEF Interrupt, At
  <1>8. CASE ProvenLoss(c) BY <1>0, <1>8 DEF ProvenLoss, At
  <1>9. CASE Prove(c) BY <1>0, <1>9 DEF Prove, At, Goto
  <1>10. CASE Deliver(c)
    <2>1. CASE call' = [call EXCEPT ![c].pc = "through", ![c].confirmed = TRUE] BY <1>0, <2>1
    <2>2. CASE call' = [call EXCEPT ![c].pc = "unlock", ![c].failed = TRUE] BY <1>0, <2>2
    <2> QED BY <1>10, <2>1, <2>2 DEF Deliver
  <1>11. CASE WriteThrough(c) BY <1>0, <1>11 DEF WriteThrough, At, Goto
  <1>12. CASE Lost(c) BY <1>0, <1>12 DEF Lost, At
  <1> QED BY <1>1, <1>2, <1>3, <1>4, <1>5, <1>6, <1>7, <1>8, <1>9, <1>10, <1>11, <1>12 DEF FencedStep

LEMMA OwnerAcquire ==
  ASSUME OwnerInv, LockInv', Next, ~Pooler, NEW c \in Calls, Acquire(c) PROVE OwnerInv'
  <1>0. call \in [Calls -> CallRecords] /\ call[c] \in CallRecords BY Records DEF OwnerInv
  <1>2. /\ \A d \in Calls \ {c} : call'[d] = call[d]
        /\ call'[c].pc \in {"try", "wait", "beat", "idle"} /\ call'[c].run \in {call[c].run, NoRun}
    BY AcquireStages DEF OwnerInv
  <1>3. account' = account
    BY DEF Acquire, Connect, TryLock, Grant, WaitReturns, WaitTimesOut, AcquireLost
  <1>4. ~At(c, Recovering)' /\ ~At(c, WithRun)' /\ ~Working(c)' BY <1>2 DEF At, Recovering, WithRun, Working
  <1> QED BY <1>2, <1>3, <1>4, OwnerLeft

(* Steps that end the call or hand it on to its end.                       *)
LEMMA OwnerEnd ==
  ASSUME OwnerInv, LockInv', Next, NEW c \in Calls,
         UnlockSession(c) \/ finishSyncRun(c) \/ Report(c) \/ Crash(c)
  PROVE  OwnerInv'
  <1>2. /\ \A d \in Calls \ {c} : call'[d] = call[d]
        /\ call'[c].pc \in {"idle"} \cup Ending /\ call'[c].run \in {call[c].run, NoRun}
        /\ call'[c].pc = "cleanup" => call'[c].run # NoRun
    BY EndStages DEF OwnerInv
  <1>3. account' = account BY DEF UnlockSession, finishSyncRun, Report, Crash
  <1>4. ~At(c, Recovering)' /\ ~Working(c)' BY <1>2 DEF At, Recovering, Ending, Working
  <1>5. At(c, WithRun)' => call'[c].run # NoRun BY <1>2 DEF At, WithRun, Ending
  <1> QED BY <1>2, <1>3, <1>4, <1>5, OwnerLeft

LEMMA OwnerFenced ==
  ASSUME OwnerInv, LockInv', Next, NEW c \in Calls, FencedStep(c) PROVE OwnerInv'
  <1>0. call \in [Calls -> CallRecords] /\ call[c] \in CallRecords /\ LockInv BY Records DEF OwnerInv
  <1>1. \A d \in Calls \ {c} : call'[d] = call[d] BY <1>0, FencedEffect
  <1>2. /\ At(c, WithRun) => call[c].run # NoRun
        /\ call'[c].pc \in Fenced /\ call'[c].sess = call[c].sess /\ UNCHANGED session
        /\ call'[c].abandoned = call[c].abandoned
    BY <1>0, FencedEffect DEF OwnerInv, RunsIssued
  <1>3. ~At(c, Recovering)' BY <1>2 DEF At, Fenced, Recovering
  <1>4. Alive(c)' = Alive(c) BY <1>2 DEF Alive
  <1>5. CASE startSyncRun(c)
    <2>1. PICK r \in Runs : Reusable(r) /\ call' = [call EXCEPT ![c].pc = "mark", ![c].run = r]
      BY <1>5 DEF startSyncRun
    <2>2. call'[c].pc = "mark" /\ call'[c].run = r /\ account' = account /\ r # NoRun
      <3>1. call'[c].pc = "mark" /\ call'[c].run = r BY <1>0, <2>1
      <3>2. account' = account BY <1>5 DEF startSyncRun
      <3>3. r # NoRun BY LockAssumption
      <3> QED BY <3>1, <3>2, <3>3
    <2>3. \A d \in Calls \ {c} : call'[d].run # r BY <1>1, <2>1 DEF Reusable
    <2>4. RunsIssued' BY <1>1, <2>2, <2>3 DEF OwnerInv, RunsIssued, At, WithRun
    <2>5. NoTakeover' BY <1>1, <1>3 DEF OwnerInv, NoTakeover, At
    <2>6. \A d \in Calls : Working(d)' => Working(d) /\ d # c
      BY <1>0, <1>1, <2>2, WorkedBefore DEF Working, At
    <2>7. OwnerShown' BY <1>1, <2>2, <2>6 DEF OwnerInv, OwnerShown
    <2> QED BY <2>4, <2>5, <2>7 DEF OwnerInv
  <1>6. CASE markAccountSyncStarted(c)
    <2>1. call'[c].pc \in {"reap", "folders"} /\ call'[c].run = call[c].run
      BY <1>0, <1>6 DEF markAccountSyncStarted, Goto
    <2>2. account'.startedBy = call[c].run BY <1>6 DEF markAccountSyncStarted, Marked
    <2>3. At(c, Fenced) /\ Alive(c) /\ At(c, WithRun)
      BY <1>6, <1>0 DEF markAccountSyncStarted, At, Fenced, WithRun, Live, Answers, Alive, LockInv, Backends, HasBackend
    <2>4. \A d \in Calls : Working(d)' => d = c
      <3> SUFFICES ASSUME NEW d \in Calls \ {c}, Working(d)' PROVE FALSE OBVIOUS
      <3>1. At(d, Fenced) /\ Alive(d) BY <1>0, <1>1, WorkedBefore DEF Working, At, Fenced
      <3> QED BY <1>0, <2>3, <3>1, WorkingHolds
    <2>5. RunsIssued'
      <3>1. \A d \in Calls : call'[d].run = call[d].run BY <1>1, <2>1
      <3>2. \A d \in Calls : At(d, WithRun)' => At(d, WithRun) BY <1>1, <2>3 DEF At
      <3> QED BY <3>1, <3>2 DEF OwnerInv, RunsIssued
    <2>6. NoTakeover' BY <1>1, <1>3 DEF OwnerInv, NoTakeover, At
    <2>7. OwnerShown' BY <2>1, <2>2, <2>4 DEF OwnerShown
    <2> QED BY <2>5, <2>6, <2>7 DEF OwnerInv
  <1>7. CASE Finalize(c)
    <2>1. call'[c].pc = "unlock" /\ call'[c].run = call[c].run BY <1>0, <1>7 DEF Finalize, Goto
    <2>2. At(c, Fenced) /\ Alive(c)
      BY <1>7, <1>0 DEF Finalize, At, Fenced, Live, Answers, Alive, LockInv, Backends, HasBackend
    <2>3. \A d \in Calls : ~Working(d)'
      <3> SUFFICES ASSUME NEW d \in Calls, Working(d)' PROVE FALSE OBVIOUS
      <3>1. d # c BY <2>1 DEF Working, At
      <3>2. At(d, Fenced) /\ Alive(d) BY <1>0, <1>1, <3>1, WorkedBefore DEF Working, At, Fenced
      <3> QED BY <1>0, <2>2, <3>1, <3>2, WorkingHolds
    <2>4. \A d \in Calls : /\ ~At(d, Recovering)' /\ call'[d].run \in {call[d].run, NoRun}
                           /\ (At(d, WithRun)' => call'[d].run # NoRun)
      BY <1>1, <1>3, <2>1 DEF OwnerInv, NoTakeover, RunsIssued, At, WithRun
    <2> QED BY <2>3, <2>4, OwnerKept
  <1>8. CASE ~startSyncRun(c) /\ ~markAccountSyncStarted(c) /\ ~Finalize(c)
    <2>1. account'.startedBy = account.startedBy BY <1>0, <1>8, FencedRow
    <2>2. CASE Stray(c)
      <3>1. call'[c].pc = call[c].pc /\ call'[c].run = call[c].run
        <4>1. CASE StrayIssued(c) BY <1>0, <4>1 DEF StrayIssued
        <4>2. CASE StrayTurn(c) BY <1>0, <4>2 DEF StrayTurn
        <4>3. CASE StrayDone(c) BY <1>0, <4>3 DEF StrayDone
        <4> QED BY <2>2, <4>1, <4>2, <4>3 DEF Stray
      <3>2. Working(c)' => Working(c) BY <1>2, <1>4, <3>1 DEF Working, At
      <3>3. At(c, WithRun)' => call'[c].run # NoRun BY <1>2, <3>1 DEF At
      <3> QED BY <1>1, <1>3, <2>1, <3>1, <3>2, <3>3, OwnerLeft
    <2>3. CASE ~Stray(c)
      <3> DEFINE Same == /\ call'[c].run = call[c].run
                         /\ \/ call'[c].pc \in {"prove", "start", "unlock", "deliver", "through"}
                            \/ call[c].pc \in {"reap", "folders", "write", "finalize"}
      <3>1. Same BY <1>0, <1>8, <2>3, FencedStages
      <3>2. /\ At(c, WithRun)' => At(c, WithRun)
            /\ At(c, {"reap", "folders", "write", "finalize"})' => At(c, {"reap", "folders", "write", "finalize"})
        BY <3>1 DEF At, WithRun
      <3>3. Working(c)' => Working(c) BY <1>2, <1>4, <3>2 DEF Working
      <3>4. At(c, WithRun)' => call'[c].run # NoRun BY <1>2, <3>1, <3>2
      <3> QED BY <1>1, <1>3, <2>1, <3>1, <3>3, <3>4, OwnerLeft
    <2> QED BY <2>2, <2>3
  <1> QED BY <1>5, <1>6, <1>7, <1>8

LEMMA OwnerAbandon ==
  ASSUME OwnerInv, LockInv', Next, NEW c \in Calls, Abandon(c) PROVE OwnerInv'
  <1>0. call \in [Calls -> CallRecords] /\ call[c] \in CallRecords BY Records DEF OwnerInv
  <1>1. /\ \A d \in Calls \ {c} : call'[d] = call[d]
        /\ call'[c].pc \in {"folders", "unlock"} /\ call'[c].run = call[c].run /\ account' = account
    BY <1>0 DEF Abandon
  <1>2. call'[c].abandoned BY <1>0 DEF Abandon
  <1>3. call[c].run # NoRun BY DEF Abandon, OwnerInv, RunsIssued, At, WithRun
  <1>4. ~At(c, Recovering)' /\ ~Working(c)' BY <1>1, <1>2 DEF At, Recovering, Working
  <1>5. call'[c].run # NoRun BY <1>1, <1>3
  <1> QED BY <1>1, <1>4, <1>5, OwnerLeft

(* The cleanup of an interrupted pass, after its unlock, spares the row of *)
(* a later one.                                                            *)
LEMMA OwnerCleanup ==
  ASSUME OwnerInv, LockInv', Next, NEW c \in Calls, CancellationCleanup(c) PROVE OwnerInv'
  <1>0. call \in [Calls -> CallRecords] /\ call[c] \in CallRecords /\ LockInv BY Records DEF OwnerInv
  <1>1. /\ \A d \in Calls \ {c} : call'[d] = call[d]
        /\ call'[c].pc = "finish" /\ call'[c].run = call[c].run
    BY <1>0 DEF CancellationCleanup, Goto
  <1>2. call[c].run # NoRun BY DEF CancellationCleanup, OwnerInv, RunsIssued, At, WithRun
  <1>3. ASSUME NEW d \in Calls, Working(d)' PROVE Working(d) /\ call'[d] = call[d] /\ account' = account
    <2>1. d # c BY <1>1, <1>3 DEF Working, At
    <2>2. Working(d) /\ call'[d] = call[d] BY <1>0, <1>1, <1>3, <2>1, WorkedBefore
    <2>3. account.startedBy # call[c].run BY <1>2, <2>1, <2>2 DEF OwnerInv, OwnerShown, RunsIssued
    <2> QED BY <2>2, <2>3 DEF CancellationCleanup, Cleared
  <1>4. \A d \in Calls : /\ ~At(d, Recovering)' /\ call'[d].run \in {call[d].run, NoRun}
                         /\ (At(d, WithRun)' => call'[d].run # NoRun)
    BY <1>1 DEF OwnerInv, NoTakeover, RunsIssued, At, Recovering, WithRun
  <1> QED BY <1>3, <1>4, OwnerKept

LEMMA OwnerEnvironment ==
  ASSUME OwnerInv, LockInv', Next, ~Pooler, Environment PROVE OwnerInv'
  <1>0. LockInv /\ UNCHANGED call
    BY DEF OwnerInv, Environment, SessionStep, LateCommit, EndSession, ReapSession, Sweep, StartSweep, SweepKill,
           SweepReset, SweepClose, HeartbeatAges, RunAges, HeartbeatTick
  <1>1. \A d \in Calls : Working(d)' => Working(d) BY <1>0, WorkedBefore
  <1>2. \A d \in Calls : Working(d) => At(d, Fenced) /\ Alive(d) /\ ~call[d].abandoned
    BY DEF Working, At, Fenced
  <1>3. ASSUME \A d \in Calls : Working(d) => account'.startedBy = account.startedBy PROVE OwnerInv'
    BY <1>0, <1>1, <1>3, OwnerKept DEF OwnerInv, NoTakeover, RunsIssued, At
  <1>4. CASE account'.startedBy = account.startedBy BY <1>3, <1>4
  <1>5. ASSUME NEW s \in Sessions, LateCommit(s) PROVE OwnerInv'
    <2>1. \A d \in Calls : ~Working(d)
      <3> SUFFICES ASSUME NEW d \in Calls, Working(d) PROVE FALSE OBVIOUS
      <3>1. session[s].late # NoLate BY <1>5 DEF LateCommit
      <3>2. Held(s) BY <1>0, <3>1 DEF LockInv, LateHeld
      <3>3. call[d].sess = s BY <1>0, <1>2, <3>2, WorkingHolds DEF LockInv, Mutex
      <3>4. HasBackend(d) BY <1>2 DEF HasBackend, At
      <3> QED BY <1>0, <1>2, <3>1, <3>3, <3>4 DEF LockInv, LateHeld
    <2> QED BY <1>3, <2>1
  <1>6. CASE SweepReset
    <2>1. ASSUME NEW d \in Calls, Working(d) PROVE account'.startedBy = account.startedBy
      <3>1. call[d].sess \in Sessions /\ Held(call[d].sess) BY <1>0, <1>2, <2>1, WorkingHolds
      <3>2. ~Sweepable BY <3>1 DEF Sweepable, Unlocked
      <3> QED BY <1>0, <1>6, <3>2 DEF SweepReset, LockInv, TypeOK
    <2> QED BY <1>3, <2>1
  <1>7. CASE HeartbeatAges \/ \E c \in Calls : HeartbeatTick(c)
    BY <1>0, <1>4, <1>7 DEF HeartbeatAges, HeartbeatTick, LockInv, TypeOK
  <1>8. CASE UNCHANGED account BY <1>4, <1>8
  <1> QED BY <1>5, <1>6, <1>7, <1>8 DEF Environment, SessionStep, EndSession, ReapSession, Sweep, StartSweep, SweepKill,
                                      SweepClose, RunAges

LEMMA OwnerStep == ~GrantRace /\ ~Pooler /\ OwnerInv /\ [Next]_vars => OwnerInv'
  <1> SUFFICES ASSUME ~GrantRace, ~Pooler, OwnerInv, [Next]_vars PROVE OwnerInv' OBVIOUS
  <1>1. LockInv /\ LockInv' BY LockStep DEF OwnerInv
  <1>2. CASE UNCHANGED vars
    BY <1>1, <1>2, OwnerKept DEF vars, OwnerInv, NoTakeover, RunsIssued, Working, At, Alive
  <1>3. ASSUME NEW c \in Calls, OutsideStep(c), Next PROVE OwnerInv'
    BY <1>1, <1>3, OwnerCleanup, OwnerEnd
       DEF OutsideStep, Recover, OwnerInv, NoTakeover, At, Recovering, FindStale, KillHolder, ResetOwner,
           CloseStaleRuns, RecoveryFails
  <1> QED BY <1>1, <1>2, <1>3, StepKinds, OwnerAcquire, OwnerFenced, OwnerAbandon, OwnerEnd, OwnerEnvironment

LEMMA OwnerInit == Init => OwnerInv
  <1> SUFFICES ASSUME Init PROVE OwnerInv OBVIOUS
  <1>1. \A c \in Calls : call[c].pc = "idle" /\ call[c].run = NoRun BY DEF Init, NoCall
  <1> QED BY <1>1, LockInit DEF OwnerInv, NoTakeover, RunsIssued, OwnerShown, Working, At, Recovering, WithRun

(* On direct connections the account row names the pass at work, whatever  *)
(* earlier passes, late statements and sweeps do (expectedSyncOwner).      *)
THEOREM OwnerShownHolds == ~GrantRace /\ ~Pooler => (Spec => []OwnerShown)
  <1> SUFFICES ASSUME ~GrantRace, ~Pooler PROVE Spec => []OwnerShown OBVIOUS
  <1>1. OwnerInv /\ [Next]_vars => OwnerInv' BY OwnerStep
  <1>2. OwnerInv => OwnerShown BY DEF OwnerInv
  <1> QED BY <1>1, <1>2, OwnerInit, PTL DEF Spec

(* On direct connections a startup sweep takes nothing from a pass at work *)
(* (clearOrphanedLocks).                                                   *)
THEOREM LiveLeftRunningHolds == ~GrantRace /\ ~Pooler => (Spec => LiveLeftRunning)
  <1> SUFFICES ASSUME ~GrantRace, ~Pooler PROVE Spec => LiveLeftRunning OBVIOUS
  <1> DEFINE Left == \A c \in Calls : Working(c)' =>
                       /\ account.startedBy = call[c].run => account'.startedBy = call[c].run
                       /\ run[call[c].run] # "closed" => run'[call[c].run] # "closed"
  <1>1. ASSUME LockInv, Next, Sweep, NEW c \in Calls, Working(c)'
        PROVE  UNCHANGED run /\ account'.startedBy = account.startedBy
    <2>1. UNCHANGED call BY <1>1 DEF Sweep, StartSweep, SweepKill, SweepReset, SweepClose
    <2>2. At(c, Fenced) /\ Alive(c) BY <1>1, <2>1, WorkedBefore DEF Working, At, Fenced
    <2>3. call[c].sess \in Sessions /\ Held(call[c].sess) BY <1>1, <2>2, WorkingHolds
    <2>4. ~Sweepable BY <2>3 DEF Sweepable, Unlocked
    <2> QED BY <1>1, <2>4 DEF Sweep, StartSweep, SweepKill, SweepReset, SweepClose, LockInv, TypeOK
  <1>2. LockInv /\ [Next]_vars => [Sweep => Left]_vars BY <1>1
  <1> QED BY <1>2, LockInvariant, PTL DEF Spec, LiveLeftRunning

-------------------------------------------------------------------------------
(* The turns of AccountTurn. *)

(* A step concerns one session.                                            *)
LEMMA OneSession ==
  ASSUME LockInv, Next, NEW s \in Sessions, NEW t \in Sessions, session'[s] # session[s], session'[t] # session[t]
  PROVE  s = t
  <1>1. session \in [Sessions -> [state : {"free", "used", "dead", "gone"}, held : {0, 1}, late : Lates]]
    BY DEF LockInv, TypeOK
  <1>2. session' # session OBVIOUS
  <1>3. ASSUME NEW u, NEW e, session' = [session EXCEPT ![u] = e] PROVE s = t BY <1>1, <1>3
  <1>4. ASSUME NEW c \in Calls, Acquire(c) PROVE s = t
    <2>1. CASE Connect(c) BY <1>1, <2>1 DEF Connect
    <2>2. CASE session' = [session EXCEPT ![call[c].sess].state = "free"] BY <1>1, <2>2
    <2>3. CASE session' = [session EXCEPT ![call[c].sess].held = @ + 1] BY <1>1, <2>3
    <2> QED BY <1>2, <1>4, <2>1, <2>2, <2>3 DEF Acquire, TryLock, Grant, WaitReturns, WaitTimesOut, Busy, AcquireLost
  <1>5. ASSUME NEW c \in Calls, FencedStep(c) PROVE s = t BY <1>2, <1>5, FencedEffect
  <1>6. ASSUME NEW c \in Calls, Abandon(c) PROVE s = t BY <1>1, <1>6 DEF Abandon
  <1>7. ASSUME NEW c \in Calls, UnlockSession(c) PROVE s = t
    <2>1. CASE session' = [session EXCEPT ![call[c].sess] = Evicted(call[c].sess)] BY <1>3, <2>1
    <2>2. CASE session' = [session EXCEPT ![call[c].sess].held = @ - 1, ![call[c].sess].state = "free"]
      BY <1>1, <2>2
    <2> QED BY <1>7, <2>1, <2>2 DEF UnlockSession
  <1>8. ASSUME NEW c \in Calls, OutsideStep(c) PROVE s = t
    <2>1. CASE KillHolder(c) BY <1>3, <2>1 DEF KillHolder
    <2> QED BY <1>2, <1>8, <2>1 DEF OutsideStep, CancellationCleanup, finishSyncRun, Report, Recover, FindStale,
                                   ResetOwner, CloseStaleRuns, RecoveryFails
  <1>9. ASSUME NEW c \in Calls, Crash(c) PROVE s = t BY <1>2, <1>3, <1>9 DEF Crash
  <1>10. CASE Environment
    <2>1. ASSUME NEW u \in Sessions, SessionStep(u) PROVE s = t
      BY <1>1, <1>3, <2>1 DEF SessionStep, LateCommit, EndSession, ReapSession
    <2>2. CASE SweepKill BY <1>2, <1>3, <2>2 DEF SweepKill
    <2> QED BY <1>2, <1>10, <2>1, <2>2 DEF Environment, Sweep, StartSweep, SweepReset, SweepClose, HeartbeatAges,
                                          RunAges, HeartbeatTick
  <1> QED BY <1>4, <1>5, <1>6, <1>7, <1>8, <1>9, <1>10, StepKinds

(* So the lock is never handed over within a step.                         *)
LEMMA NoHandover ==
  ASSUME LockInv, LockInv', Next, NEW s \in Sessions, NEW t \in Sessions, Held(s), Held(t)'
  PROVE  s = t
  <1>1. CASE session'[s] = session[s] BY <1>1 DEF LockInv, Mutex, Held
  <1>2. CASE session'[t] = session[t] BY <1>2 DEF LockInv, Mutex, Held
  <1> QED BY <1>1, <1>2, OneSession

LEMMA HolderMoves ==
  ASSUME LockInv, LockInv', Next
  PROVE  \/ Holders' = Holders
         \/ Holders = {} /\ \E s \in Sessions : Holders' = {s}
         \/ Holders # {} /\ Holders' = {}
  <1>1. \A s, t \in Sessions : Held(s) /\ Held(t)' => s = t BY NoHandover
  <1>2. \A s, t \in Sessions : (Held(s) /\ Held(t) => s = t) /\ (Held(s)' /\ Held(t)' => s = t)
    BY DEF LockInv, Mutex
  <1> DEFINE Before == \E s \in Sessions : Held(s)
             After == \E s \in Sessions : Held(s)'
  <1>3. Holders = {s \in Sessions : Held(s)} /\ Holders' = {s \in Sessions : Held(s)'} BY DEF Holders
  <1> HIDE DEF Holders
  <1>4. CASE Before /\ After
    <2>1. PICK s \in Sessions : Held(s) BY <1>4
    <2>2. PICK t \in Sessions : Held(t)' BY <1>4
    <2> QED BY <1>1, <1>2, <1>3, <2>1, <2>2
  <1>5. CASE Before /\ ~After BY <1>3, <1>5
  <1>6. CASE ~Before /\ After BY <1>2, <1>3, <1>6
  <1>7. CASE ~Before /\ ~After BY <1>3, <1>7
  <1> QED BY <1>4, <1>5, <1>6, <1>7

(* A pass comes to work by naming itself, and in no other way.             *)
LEMMA WorkContinues ==
  ASSUME OwnerInv, ~Pooler, Next, NEW d \in Calls, Working(d)', ~markAccountSyncStarted(d)
  PROVE  Working(d) /\ call'[d].run = call[d].run
  <1>0. LockInv /\ call \in [Calls -> CallRecords] /\ call[d] \in CallRecords BY Records DEF OwnerInv
  <1>1. SUFFICES ASSUME call'[d] # call[d] PROVE Working(d) /\ call'[d].run = call[d].run BY <1>0, WorkedBefore
  <1>2. /\ call'[d].pc \in {"reap", "folders", "write", "finalize"} /\ ~call'[d].abandoned
        /\ session'[call'[d].sess].state = "used"
    BY DEF Working, At, Alive
  <1>3. ASSUME NEW c \in Calls, Acquire(c) PROVE FALSE BY <1>0, <1>1, <1>2, <1>3, AcquireStages
  <1>4. ASSUME NEW c \in Calls, FencedStep(c) PROVE Working(d) /\ call'[d].run = call[d].run
    <2>1. /\ c = d /\ UNCHANGED session /\ call'[c].sess = call[c].sess /\ call'[c].abandoned = call[c].abandoned
      BY <1>0, <1>1, <1>4, FencedEffect
    <2>2. call[d].pc \in {"reap", "folders", "write", "finalize"} => Working(d) BY <1>2, <2>1 DEF Working, Alive, At
    <2>3. CASE Stray(c)
      <3>1. call'[d].pc = call[d].pc /\ call'[d].run = call[d].run
        <4>1. CASE StrayIssued(c) BY <1>0, <2>1, <4>1 DEF StrayIssued
        <4>2. CASE StrayTurn(c) BY <1>0, <2>1, <4>2 DEF StrayTurn
        <4>3. CASE StrayDone(c) BY <1>0, <2>1, <4>3 DEF StrayDone
        <4> QED BY <2>3, <4>1, <4>2, <4>3 DEF Stray
      <3> QED BY <1>2, <2>2, <3>1
    <2>4. ASSUME startSyncRun(c) PROVE FALSE
      <3>1. PICK r \in Runs : call' = [call EXCEPT ![c].pc = "mark", ![c].run = r] BY <2>4 DEF startSyncRun
      <3>2. call'[c].pc = "mark" BY <1>0, <2>1, <3>1
      <3> QED BY <1>2, <2>1, <3>2
    <2>5. ASSUME Finalize(c) PROVE FALSE
      <3>1. call'[c].pc = "unlock" BY <1>0, <2>1, <2>5 DEF Finalize, Goto
      <3> QED BY <1>2, <2>1, <3>1
    <2> QED BY <1>0, <1>2, <1>4, <2>1, <2>2, <2>3, <2>4, <2>5, FencedStages
  <1>5. ASSUME NEW c \in Calls, Abandon(c) PROVE FALSE
    <2>1. c = d BY <1>0, <1>1, <1>5 DEF Abandon
    <2> QED BY <1>0, <1>2, <1>5, <2>1 DEF Abandon
  <1>6. ASSUME NEW c \in Calls, UnlockSession(c) \/ finishSyncRun(c) \/ Report(c) \/ Crash(c) PROVE FALSE
    BY <1>0, <1>1, <1>2, <1>6, EndStages DEF Ending
  <1>7. ASSUME NEW c \in Calls, CancellationCleanup(c) PROVE FALSE
    BY <1>0, <1>1, <1>2, <1>7 DEF CancellationCleanup, Goto
  <1>8. \A c \in Calls : ~Recover(c)
    BY DEF Recover, OwnerInv, NoTakeover, At, Recovering, FindStale, KillHolder, ResetOwner, CloseStaleRuns,
           RecoveryFails
  <1>9. ~Environment
    BY <1>1 DEF Environment, SessionStep, LateCommit, EndSession, ReapSession, Sweep, StartSweep, SweepKill,
               SweepReset, SweepClose, HeartbeatAges, RunAges, HeartbeatTick
  <1> QED BY <1>3, <1>4, <1>5, <1>6, <1>7, <1>8, <1>9, StepKinds DEF OutsideStep

(* Otherwise the row stays or is cleared, or a beginning that was given up *)
(* takes effect; none of these moves the lock.                             *)
LEMMA RowMoves ==
  ASSUME OwnerInv, ~Pooler, Next, \A c \in Calls : ~markAccountSyncStarted(c), account'.startedBy # account.startedBy
  PROVE  /\ Holders' = Holders
         /\ account'.startedBy = NoRun \/ (Holders # {} /\ \A d \in Calls : ~Working(d))
  <1>0. LockInv /\ account \in [startedBy : Runs \cup {NoRun}, fresh : BOOLEAN] BY DEF OwnerInv, LockInv, TypeOK
  <1> DEFINE Goal == /\ Holders' = Holders
                     /\ account'.startedBy = NoRun \/ (Holders # {} /\ \A d \in Calls : ~Working(d))
  <1>1. UNCHANGED session => Holders' = Holders BY DEF Holders, Held
  <1>2. ASSUME NEW r, NEW beats, account' = Cleared(r, beats) PROVE account'.startedBy = NoRun
    BY <1>0, <1>2 DEF Cleared
  <1>3. ASSUME NEW c \in Calls, Acquire(c) \/ Abandon(c) \/ UnlockSession(c) \/ finishSyncRun(c) \/ Report(c) \/ Crash(c)
        PROVE  FALSE
    BY <1>3 DEF Acquire, Connect, TryLock, Grant, WaitReturns, WaitTimesOut, AcquireLost, Abandon, UnlockSession,
                finishSyncRun, Report, Crash
  <1>4. ASSUME NEW c \in Calls, FencedStep(c) PROVE Goal
    <2>1. Finalize(c) BY <1>0, <1>4, FencedRow
    <2> QED BY <1>1, <1>2, <2>1 DEF Finalize
  <1>5. ASSUME NEW c \in Calls, CancellationCleanup(c) PROVE Goal
    BY <1>1, <1>2, <1>5 DEF CancellationCleanup
  <1>6. \A c \in Calls : ~Recover(c)
    BY DEF Recover, OwnerInv, NoTakeover, At, Recovering, FindStale, KillHolder, ResetOwner, CloseStaleRuns,
           RecoveryFails
  <1>7. ASSUME NEW s \in Sessions, LateCommit(s) PROVE Goal
    <2>1. session[s].late # NoLate /\ Held(s) BY <1>0, <1>7 DEF LateCommit, LockInv, LateHeld
    <2>2. \A d \in Calls : ~Working(d)
      <3> SUFFICES ASSUME NEW d \in Calls, Working(d) PROVE FALSE OBVIOUS
      <3>1. At(d, Fenced) /\ Alive(d) /\ ~call[d].abandoned BY DEF Working, At, Fenced
      <3>2. call[d].sess = s BY <1>0, <2>1, <3>1, WorkingHolds DEF LockInv, Mutex
      <3> QED BY <1>0, <2>1, <3>1, <3>2 DEF LockInv, LateHeld, HasBackend, At
    <2>3. \A t \in Sessions : session'[t].held = session[t].held BY <1>0, <1>7 DEF LateCommit, LockInv, TypeOK
    <2> QED BY <2>1, <2>2, <2>3 DEF Holders, Held
  <1>8. CASE SweepReset BY <1>0, <1>1, <1>8 DEF SweepReset
  <1>9. CASE HeartbeatAges \/ \E c \in Calls : HeartbeatTick(c) BY <1>0, <1>9 DEF HeartbeatAges, HeartbeatTick
  <1>10. CASE Environment
    BY <1>7, <1>8, <1>9, <1>10 DEF Environment, SessionStep, EndSession, ReapSession, Sweep, StartSweep, SweepKill,
                                   SweepClose, RunAges
  <1> QED BY <1>3, <1>4, <1>5, <1>6, <1>10, StepKinds DEF OutsideStep

(* At most one pass is at work: the one that the row names.                *)
OnePass ==
  /\ AtWork \in {{}, {account.startedBy}}
  /\ AtWork # {} => Holders # {} /\ account.startedBy \in Runs

LEMMA AtWorkShown == OwnerInv => OnePass
  <1> SUFFICES ASSUME OwnerInv PROVE OnePass OBVIOUS
  <1>1. AtWork \subseteq {account.startedBy} BY DEF OwnerInv, OwnerShown, AtWork
  <1>2. ASSUME AtWork # {} PROVE Holders # {} /\ account.startedBy \in Runs
    <2>1. PICK c \in Calls : Working(c) BY <1>2 DEF AtWork
    <2>2. At(c, Fenced) /\ Alive(c) /\ At(c, WithRun) BY <2>1 DEF Working, At, Fenced, WithRun
    <2>3. call[c].sess \in Sessions /\ Held(call[c].sess) BY <2>2, WorkingHolds DEF OwnerInv
    <2>4. account.startedBy # NoRun BY <2>1, <2>2 DEF OwnerInv, OwnerShown, RunsIssued
    <2> QED BY <2>3, <2>4 DEF Holders, OwnerInv, LockInv, TypeOK
  <1> QED BY <1>1, <1>2 DEF OnePass

LEMMA TurnBegins ==
  ASSUME OwnerInv, OwnerInv', ~Pooler, Next, NEW c \in Calls, markAccountSyncStarted(c)
  PROVE  \E r \in Runs : Turn!Begin(r)
  <1>0. LockInv /\ call \in [Calls -> CallRecords] /\ call[c] \in CallRecords BY Records DEF OwnerInv
  <1>1. At(c, Fenced) /\ Alive(c) /\ ~call[c].abandoned
    BY <1>0 DEF markAccountSyncStarted, At, Fenced, Live, Answers, Alive, LockInv, Backends, HasBackend
  <1>2. Holders # {} BY <1>0, <1>1, WorkingHolds DEF Holders
  <1>3. AtWork = {}
    <2>1. ASSUME NEW d \in Calls, Working(d) PROVE FALSE
      <3>1. At(d, Fenced) /\ Alive(d) /\ d # c BY <2>1 DEF Working, At, Fenced, markAccountSyncStarted
      <3> QED BY <1>0, <1>1, <3>1, WorkingHolds
    <2> QED BY <2>1 DEF AtWork
  <1>4. UNCHANGED session /\ Holders' = Holders BY DEF markAccountSyncStarted, Holders, Held
  <1>5. Working(c)'
    <2>1. /\ call'[c].pc \in {"reap", "folders"} /\ call'[c].sess = call[c].sess
          /\ call'[c].abandoned = call[c].abandoned
      BY <1>0 DEF markAccountSyncStarted, Goto
    <2> QED BY <1>1, <1>4, <2>1 DEF Working, At, Alive
  <1>6. AtWork' # {} BY <1>5 DEF AtWork
  <1>7. OnePass' BY AtWorkShown, PTL
  <1>8. AtWork' = {account'.startedBy} /\ account'.startedBy \in Runs BY <1>6, <1>7 DEF OnePass
  <1> QED BY <1>2, <1>3, <1>4, <1>8 DEF Turn!Begin

(* Every other step gives the turn back or takes it, ends the work, or     *)
(* touches the row while nobody works.                                     *)
LEMMA TurnElsewhere ==
  ASSUME OwnerInv, OwnerInv', ~Pooler, Next, \A c \in Calls : ~markAccountSyncStarted(c)
  PROVE  [Turn!Next]_<<Holders, AtWork, account.startedBy>>
  <1> DEFINE shown == account.startedBy
  <1>0. LockInv /\ LockInv' BY DEF OwnerInv
  <1>1. AtWork' \subseteq AtWork
    <2>1. \A d \in Calls : Working(d)' => Working(d) /\ call'[d].run = call[d].run BY WorkContinues
    <2> QED BY <2>1 DEF AtWork
  <1>2. OnePass /\ OnePass' BY AtWorkShown, PTL
  <1>3. AtWork' = AtWork \/ (AtWork # {} /\ AtWork' = {}) BY <1>1, <1>2 DEF OnePass
  <1>4. CASE shown' # shown
    <2>1. Holders' = Holders /\ (shown' = NoRun \/ (Holders # {} /\ \A d \in Calls : ~Working(d)))
      BY <1>4, RowMoves
    <2>2. AtWork' = {} BY <1>2, <1>3, <1>4 DEF OnePass
    <2>3. CASE AtWork # {}
      <3>1. shown' = NoRun BY <2>1, <2>3 DEF AtWork
      <3>2. Turn!End BY <2>1, <2>2, <2>3, <3>1 DEF Turn!End
      <3> QED BY <3>2 DEF Turn!Next
    <2>4. CASE AtWork = {} /\ shown' = NoRun
      <3>1. Turn!Clear BY <2>1, <2>2, <2>4 DEF Turn!Clear
      <3> QED BY <3>1 DEF Turn!Next
    <2>5. CASE AtWork = {} /\ shown' # NoRun
      <3>1. shown' \in Runs BY <1>0, <2>5 DEF LockInv, TypeOK
      <3>2. Turn!BeginLate(shown') BY <2>1, <2>2, <2>5 DEF Turn!BeginLate
      <3> QED BY <3>1, <3>2 DEF Turn!Next
    <2> QED BY <2>3, <2>4, <2>5
  <1>5. CASE shown' = shown
    <2>1. CASE Holders' = Holders
      <3>1. CASE AtWork' = AtWork BY <1>5, <2>1, <3>1
      <3>2. CASE AtWork # {} /\ AtWork' = {}
        <4>1. Turn!End BY <1>5, <2>1, <3>2 DEF Turn!End
        <4> QED BY <4>1 DEF Turn!Next
      <3> QED BY <1>3, <3>1, <3>2
    <2>2. CASE Holders = {} /\ \E s \in Sessions : Holders' = {s}
      <3>1. PICK s \in Sessions : Holders' = {s} BY <2>2
      <3>2. AtWork = {} /\ AtWork' = AtWork BY <1>2, <1>3, <2>2 DEF OnePass
      <3>3. Turn!Take(s) BY <1>5, <2>2, <3>1, <3>2 DEF Turn!Take
      <3> QED BY <3>3 DEF Turn!Next
    <2>3. CASE Holders # {} /\ Holders' = {}
      <3>1. AtWork' = {} BY <1>2, <2>3 DEF OnePass
      <3>2. Turn!Release BY <1>5, <2>3, <3>1 DEF Turn!Release
      <3> QED BY <3>2 DEF Turn!Next
    <2>4. \/ Holders' = Holders
          \/ Holders = {} /\ \E s \in Sessions : Holders' = {s}
          \/ Holders # {} /\ Holders' = {}
      BY <1>0, HolderMoves
    <2> QED BY <2>1, <2>2, <2>3, <2>4
  <1> QED BY <1>4, <1>5

LEMMA TurnStep ==
  ~GrantRace /\ ~Pooler /\ OwnerInv /\ [Next]_vars => [Turn!Next]_<<Holders, AtWork, account.startedBy>>
  <1> SUFFICES ASSUME ~GrantRace, ~Pooler, OwnerInv, [Next]_vars
               PROVE  [Turn!Next]_<<Holders, AtWork, account.startedBy>>
    OBVIOUS
  <1>1. CASE UNCHANGED vars BY <1>1 DEF vars, Holders, Held, AtWork, Working, At, Alive
  <1>2. CASE Next
    <2>1. OwnerInv' BY OwnerStep
    <2>2. ASSUME NEW c \in Calls, markAccountSyncStarted(c) PROVE Turn!Next
      BY <1>2, <2>1, <2>2, TurnBegins DEF Turn!Next
    <2> QED BY <1>2, <2>1, <2>2, TurnElsewhere
  <1> QED BY <1>1, <1>2

LEMMA TurnInit == Init => Turn!Init
  <1> SUFFICES ASSUME Init PROVE Turn!Init OBVIOUS
  <1>1. Holders = {} BY DEF Init, Holders, Held, NewSession
  <1>2. AtWork = {} BY DEF Init, AtWork, Working, At, NoCall
  <1>3. account.startedBy = NoRun BY DEF Init
  <1> QED BY <1>1, <1>2, <1>3 DEF Turn!Init

(* The lock's protocol implements turns: it is never handed over, and the  *)
(* account row goes with the pass that it lets work (withAccountLock,      *)
(* markAccountSyncStarted, expectedSyncOwner).                             *)
THEOREM TurnsTakenHolds == ~GrantRace /\ ~Pooler => (Spec => TurnsTaken)
  <1> SUFFICES ASSUME ~GrantRace, ~Pooler PROVE Spec => TurnsTaken OBVIOUS
  <1>1. OwnerInv /\ [Next]_vars => OwnerInv' BY OwnerStep
  <1>2. OwnerInv /\ [Next]_vars => [Turn!Next]_<<Holders, AtWork, account.startedBy>> BY TurnStep
  <1> QED BY <1>1, <1>2, OwnerInit, TurnInit, PTL DEF Spec, TurnsTaken, Turn!Spec
===============================================================================
