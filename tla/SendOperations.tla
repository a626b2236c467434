---------------------------- MODULE SendOperations ----------------------------
(***************************************************************************)
(* One idempotency key of the durable send policy: hosts that call         *)
(* runSendOperation or runDraftSaveOperation with it, at the same time and *)
(* again and again, over the host's ledger, the SMTP server, the Sent      *)
(* folder and the Drafts folder.                                           *)
(*                                                                         *)
(* Hosts crash, every ledger call may fail or lose its answer, the SMTP    *)
(* reply or the APPEND reply may be lost, and what was given up may still  *)
(* take effect later.  A step is one ledger call, one lookup, or one       *)
(* exchange with the provider.                                             *)
(***************************************************************************)
EXTENDS Integers, FiniteSets

CONSTANTS
  Hosts,      \* concurrent calls with the key
  Sends,      \* send requests the key may be used for
  Drafts,     \* draft-save requests the key may be used for
  Provable,   \* sends whose host looks for the delivered copy in Sent
  Earlier,    \* sends delivered before the ledger was kept
  MaxLate,    \* bound on given-up APPENDs that may still take effect
  NoRequest, NoHost

Requests == Sends \cup Drafts

ASSUME SendAssumption ==
  /\ Sends \cap Drafts = {} /\ NoRequest \notin Requests /\ NoHost \notin Hosts
  /\ Provable \subseteq Sends /\ Earlier \subseteq Provable /\ MaxLate \in Nat

VARIABLES
  row,        \* the ledger's record of the key
  accepted,   \* how often the SMTP server took responsibility for a request
  late,       \* transmissions the client gave up on and the server may still accept
  sent,       \* the copy in Sent: none, filed, or seen by the host's lookup
  drafts,     \* copies of the key's draft in Drafts, and APPENDs given up on
  lock,       \* the call holding the account lock (module AccountLock)
  call,       \* the local variables of each call
  raced       \* history: an APPEND took effect outside its account lock

vars == <<row, accepted, late, sent, drafts, lock, call, raced>>
mail == <<accepted, late, sent>>

Absent == [status |-> "absent", request |-> NoRequest]
NoCall == [pc |-> "idle", req |-> NoRequest, recovered |-> FALSE, verdict |-> "none", outcome |-> "none"]

Init ==
  /\ row = Absent
  /\ accepted = [q \in Sends |-> IF q \in Earlier THEN 1 ELSE 0]
  /\ late = [q \in Sends |-> 0]
  /\ sent = [q \in Sends |-> IF q \in Earlier THEN "seen" ELSE "none"]
  /\ drafts = [filed |-> 0, late |-> 0]
  /\ lock = NoHost /\ call = [h \in Hosts |-> NoCall] /\ raced = FALSE

At(h, stages) == call[h].pc \in stages
Asks(h) == call[h].req
Becomes(h, record) == call' = [call EXCEPT ![h] = record]
Goes(h, pc) == [call[h] EXCEPT !.pc = pc]
Ends(h, outcome) == [call[h] EXCEPT !.pc = "done", !.outcome = outcome]
Concludes(h, verdict) == [call[h] EXCEPT !.pc = "finish", !.verdict = verdict]
Release(h) == lock' = IF lock = h THEN NoHost ELSE lock

IsDraft(h) == Asks(h) \in Drafts
Same_AnyIdentity(h) == row.request # NoRequest
Same(h) == row.request = Asks(h)
Claimable_Unknown(h) == row = Absent \/ (Same(h) /\ row.status \in {"not_delivered", "unknown"})
Claimable(h) == row = Absent \/ (Same(h) /\ row.status = "not_delivered")

-------------------------------------------------------------------------------
(* The ledger before a submission.                                         *)

(* A host replays the key first, or runs it at once.                       *)
Invoke(h, q) ==
  /\ At(h, {"idle"})
  /\ \E replays \in BOOLEAN :
       Becomes(h, [NoCall EXCEPT !.req = q, !.pc = IF replays THEN "replay"
                                                   ELSE IF q \in Drafts THEN "start" ELSE "get"])
  /\ UNCHANGED <<row, mail, drafts, lock, raced>>

(* resolveExistingOperation, for the status the caller read.               *)
Uncertain_NoLookup(h) == Ends(h, "unknown")
Uncertain(h) == IF Asks(h) \in Provable THEN Goes(h, "check") ELSE Ends(h, "unknown")
Resolve(h) ==
  CASE row.status = "succeeded" -> Ends(h, "result")
    [] row.status = "unknown"   -> Uncertain(h)
    [] OTHER                    -> Ends(h, "inProgress")

replayDraftSaveOperation(h) ==
  /\ At(h, {"replay"}) /\ IsDraft(h)
  /\ Becomes(h, IF row = Absent THEN Goes(h, "start")
                ELSE IF ~Same(h) THEN Ends(h, "conflict")
                ELSE IF row.status = "succeeded" THEN Ends(h, "result") ELSE Goes(h, "start"))
  /\ UNCHANGED <<row, mail, drafts, lock, raced>>

replaySendOperation(h) ==
  /\ At(h, {"replay"}) /\ ~IsDraft(h)
  /\ Becomes(h, IF Claimable(h) THEN Goes(h, "get")
                ELSE IF ~Same(h) THEN Ends(h, "conflict")
                ELSE IF row.status = "submitting" THEN Goes(h, "refresh") ELSE Resolve(h))
  /\ UNCHANGED <<row, mail, drafts, lock, raced>>

Refresh(h) ==
  /\ At(h, {"refresh"})
  /\ Becomes(h, IF row.status = "not_delivered" THEN Goes(h, "get") ELSE Resolve(h))
  /\ UNCHANGED <<row, mail, drafts, lock, raced>>

(* runSendOperation looks for Sent evidence before a claim it may get.     *)
LooksFirst(h) == Claimable(h) /\ Asks(h) \in Provable
Get(h) ==
  /\ At(h, {"get"})
  /\ Becomes(h, IF row # Absent /\ ~Same(h) THEN Ends(h, "conflict")
                ELSE IF LooksFirst(h) THEN Goes(h, "lookup") ELSE Goes(h, "start"))
  /\ UNCHANGED <<row, mail, drafts, lock, raced>>

Lookup(h) ==
  /\ At(h, {"lookup"})
  /\ Becomes(h, [Goes(h, "start") EXCEPT !.recovered = sent[Asks(h)] = "seen"])
  /\ UNCHANGED <<row, mail, drafts, lock, raced>>

(* store.start: an atomic claim of an absent or not_delivered key.         *)
Claimed(h) == IF Claimable(h) THEN [status |-> "submitting", request |-> Asks(h)] ELSE row
Start(h) ==
  /\ At(h, {"start"})
  /\ row' = Claimed(h)
  /\ Becomes(h, IF Claimable(h)
                THEN IF call[h].recovered THEN Concludes(h, "succeeded") ELSE Goes(h, "lock")
                ELSE IF ~Same(h) THEN Ends(h, "conflict")
                ELSE IF IsDraft(h) /\ row.status # "succeeded" THEN Goes(h, "lock") ELSE Resolve(h))
  /\ UNCHANGED <<mail, drafts, lock, raced>>

(* The ledger or the lookup is unavailable; a claim may have committed.    *)
StoreFails(h) ==
  /\ At(h, {"replay", "refresh", "get", "lookup", "start"})
  /\ row' \in {row} \cup IF At(h, {"start"}) THEN {Claimed(h)} ELSE {}
  /\ Becomes(h, Ends(h, "failed"))
  /\ UNCHANGED <<mail, drafts, lock, raced>>

-------------------------------------------------------------------------------
(* The submission: sendMessage and sendDraft, under the account lock.      *)

Lock(h) ==
  /\ At(h, {"lock"}) /\ lock = NoHost
  /\ lock' = h
  /\ Becomes(h, Goes(h, IF IsDraft(h) THEN "find" ELSE "deliver"))
  /\ UNCHANGED <<row, mail, drafts, raced>>

(* Busy account, abort, refused address, unproven lock, connection or      *)
(* authentication failure, or a negative reply before DATA.                *)
NotSubmitted(h) ==
  /\ At(h, {"lock", "deliver"}) /\ ~IsDraft(h)
  /\ Becomes(h, Concludes(h, "not_delivered"))
  /\ Release(h)
  /\ UNCHANGED <<row, mail, drafts, raced>>

Transmit(h) ==
  /\ At(h, {"deliver"})
  /\ Becomes(h, Goes(h, "reply"))
  /\ UNCHANGED <<row, mail, drafts, lock, raced>>

(* The server accepts; some providers file the Sent copy themselves.       *)
Filed(q) == {sent} \cup IF sent[q] = "none" THEN {[sent EXCEPT ![q] = "filed"]} ELSE {}
Accept(h) ==
  /\ At(h, {"reply"})
  /\ accepted' = [accepted EXCEPT ![Asks(h)] = @ + 1]
  /\ sent' \in Filed(Asks(h))
  /\ Becomes(h, Goes(h, "accepted"))
  /\ UNCHANGED <<row, late, drafts, lock, raced>>

(* A complete negative reply to DATA.                                      *)
Refuse(h) ==
  /\ At(h, {"reply"})
  /\ Becomes(h, Concludes(h, "not_delivered"))
  /\ Release(h)
  /\ UNCHANGED <<row, mail, drafts, raced>>

(* classifySmtpFailure of a socket or timeout error once DATA was sent;    *)
(* the server may accept after the client gave up.                         *)
ClassifiedLoss_Retryable == "not_delivered"
ClassifiedLoss == "unknown"
Abandoned(h) == {late} \cup IF At(h, {"reply"}) THEN {[late EXCEPT ![Asks(h)] = @ + 1]} ELSE {}
ReplyLost(h) ==
  /\ At(h, {"reply", "accepted"})
  /\ late' \in Abandoned(h)
  /\ Becomes(h, Concludes(h, ClassifiedLoss))
  /\ Release(h)
  /\ UNCHANGED <<row, accepted, sent, drafts, raced>>

Receipt(h) ==
  /\ At(h, {"accepted"})
  /\ Becomes(h, Goes(h, "file"))
  /\ UNCHANGED <<row, mail, drafts, lock, raced>>

(* fileSentCopy: the copy may be filed and mirrored, filed only, or not    *)
(* filed; a lock that is lost files nothing.  Nothing here fails the send. *)
FileSent(h) ==
  /\ At(h, {"file"})
  /\ sent' \in IF lock = h THEN Filed(Asks(h)) \cup {[sent EXCEPT ![Asks(h)] = "seen"]} ELSE {sent}
  /\ Becomes(h, Concludes(h, "succeeded"))
  /\ Release(h)
  /\ UNCHANGED <<row, accepted, late, drafts, raced>>

-------------------------------------------------------------------------------
(* A draft save: saveDraft, under the account lock.                        *)

(* fileDraft finds an earlier copy by the key's Message-ID.                *)
Finds_Nothing == FALSE
Finds == drafts.filed > 0
Find(h) ==
  /\ At(h, {"find"})
  /\ IF Finds THEN Becomes(h, Concludes(h, "succeeded")) /\ Release(h)
              ELSE Becomes(h, Goes(h, "mark")) /\ UNCHANGED lock
  /\ UNCHANGED <<row, mail, drafts, raced>>

(* markFoldersForReconcile, fenced: without the lock it fails the save.    *)
Marked(h) == IF lock = h THEN Goes(h, "append") ELSE Ends(h, "failed")
Mark(h) ==
  /\ At(h, {"mark"})
  /\ Becomes(h, Marked(h))
  /\ UNCHANGED <<row, mail, drafts, lock, raced>>

Append(h) ==
  /\ At(h, {"append"})
  /\ drafts' = [drafts EXCEPT !.filed = @ + 1]
  /\ raced' = (raced \/ lock # h)
  /\ Becomes(h, Concludes(h, "succeeded"))
  /\ Release(h)
  /\ UNCHANGED <<row, mail>>

GivenUp(h) == {drafts} \cup IF At(h, {"append"}) /\ drafts.late < MaxLate
                            THEN {[drafts EXCEPT !.late = @ + 1]} ELSE {}

(* The APPEND's answer is lost: it took effect, did not, or still may.     *)
AppendLost(h) ==
  /\ At(h, {"append"})
  /\ \/ /\ drafts' = [drafts EXCEPT !.filed = @ + 1] /\ raced' = (raced \/ lock # h)
     \/ drafts' \in GivenUp(h) /\ UNCHANGED raced
  /\ Becomes(h, Ends(h, "failed"))
  /\ Release(h)
  /\ UNCHANGED <<row, mail>>

DraftFails(h) ==
  /\ At(h, {"lock", "find", "mark"}) /\ IsDraft(h)
  /\ Becomes(h, Ends(h, "failed"))
  /\ Release(h)
  /\ UNCHANGED <<row, mail, drafts, raced>>

-------------------------------------------------------------------------------
(* The ledger after a submission.                                          *)

(* store.finish keeps a recorded success.                                  *)
Finished(h) == IF row.status = "succeeded" THEN row ELSE [row EXCEPT !.status = call[h].verdict]

(* What the caller hears when the ledger adds nothing.                     *)
Conclusion(h) ==
  CASE call[h].verdict = "succeeded"     -> Ends(h, "result")
    [] call[h].verdict = "not_delivered" -> Ends(h, "notDelivered")
    [] call[h].verdict = "unknown"       -> Uncertain(h)

Finish(h) ==
  /\ At(h, {"finish"})
  /\ row' = Finished(h)
  /\ Becomes(h, IF row.status = "succeeded" THEN Ends(h, "result") ELSE Conclusion(h))
  /\ UNCHANGED <<mail, drafts, lock, raced>>

FinishFails(h) ==
  /\ At(h, {"finish"})
  /\ row' \in {row, Finished(h)}
  /\ Becomes(h, Conclusion(h))
  /\ UNCHANGED <<mail, drafts, lock, raced>>

(* reconcileOperation after an unknown outcome.                            *)
Check(h) ==
  /\ At(h, {"check"})
  /\ Becomes(h, IF sent[Asks(h)] = "seen" THEN Concludes(h, "succeeded") ELSE Ends(h, "unknown"))
  /\ UNCHANGED <<row, mail, drafts, lock, raced>>

CheckFails(h) ==
  /\ At(h, {"check"})
  /\ Becomes(h, Ends(h, "unknown"))
  /\ UNCHANGED <<row, mail, drafts, lock, raced>>

Return(h) ==
  /\ At(h, {"done"})
  /\ Becomes(h, NoCall)
  /\ UNCHANGED <<row, mail, drafts, lock, raced>>

-------------------------------------------------------------------------------
(* The environment.                                                        *)

(* The host's process vanishes, and with it its session and its sockets.   *)
Crash(h) ==
  /\ ~At(h, {"idle"})
  /\ late' \in Abandoned(h)
  /\ drafts' \in GivenUp(h)
  /\ Becomes(h, NoCall)
  /\ Release(h)
  /\ UNCHANGED <<row, accepted, sent, raced>>

(* The session that holds the account lock ends under the call.            *)
LoseLock ==
  /\ lock # NoHost /\ lock' = NoHost
  /\ UNCHANGED <<row, mail, drafts, call, raced>>

LateAccept(q) ==
  /\ late[q] > 0
  /\ late' = [late EXCEPT ![q] = @ - 1]
  /\ accepted' = [accepted EXCEPT ![q] = @ + 1]
  /\ sent' \in Filed(q)
  /\ UNCHANGED <<row, drafts, lock, call, raced>>

LateAppend ==
  /\ drafts.late > 0
  /\ drafts' = [filed |-> drafts.filed + 1, late |-> drafts.late - 1]
  /\ raced' = TRUE
  /\ UNCHANGED <<row, mail, lock, call>>

(* The ledger: an abandoned claim becomes unknown, never retryable.        *)
Expire ==
  /\ row.status = "submitting"
  /\ row' = [row EXCEPT !.status = "unknown"]
  /\ UNCHANGED <<mail, drafts, lock, call, raced>>

(* A sync mirrors the Sent copy.                                           *)
MirrorSent(q) ==
  /\ sent[q] = "filed"
  /\ sent' = [sent EXCEPT ![q] = "seen"]
  /\ UNCHANGED <<row, accepted, late, drafts, lock, call, raced>>

Ledger(h) == replayDraftSaveOperation(h) \/ replaySendOperation(h) \/ Refresh(h) \/ Get(h) \/ Lookup(h) \/ Start(h)
Submission(h) == Lock(h) \/ Transmit(h) \/ Accept(h) \/ Receipt(h) \/ FileSent(h)
Refusal(h) == NotSubmitted(h) \/ Refuse(h) \/ ReplyLost(h)
Saving(h) == Find(h) \/ Mark(h) \/ Append(h)
Ending(h) == Finish(h) \/ Check(h) \/ Return(h)
CallStep(h) == Ledger(h) \/ Submission(h) \/ Refusal(h) \/ Saving(h) \/ Ending(h)
Failure(h) == StoreFails(h) \/ DraftFails(h) \/ AppendLost(h) \/ FinishFails(h) \/ CheckFails(h) \/ Crash(h)

Next ==
  \/ \E h \in Hosts : CallStep(h) \/ Failure(h) \/ \E q \in Requests : Invoke(h, q)
  \/ LoseLock \/ LateAppend \/ Expire \/ \E q \in Sends : LateAccept(q) \/ MirrorSent(q)

Spec == Init /\ [][Next]_vars
===============================================================================
