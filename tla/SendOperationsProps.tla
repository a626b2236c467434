------------------------- MODULE SendOperationsProps -------------------------
(***************************************************************************)
(* What the durable send policy promises for one key.                      *)
(***************************************************************************)
EXTENDS SendOperations

Statuses == {"absent", "submitting", "succeeded", "not_delivered", "unknown"}
Stages == {"idle", "replay", "refresh", "get", "lookup", "start", "lock", "deliver", "reply", "accepted",
           "file", "find", "mark", "append", "finish", "check", "done"}
CallRecords ==
  [pc : Stages, req : Requests \cup {NoRequest}, recovered : BOOLEAN,
   verdict : {"none", "succeeded", "not_delivered", "unknown"},
   outcome : {"none", "result", "notDelivered", "unknown", "inProgress", "conflict", "failed"}]

(* Every variable keeps its type, and a call past its invocation knows     *)
(* what it was asked.                                                      *)
TypeOK ==
  /\ row \in [status : Statuses, request : Requests \cup {NoRequest}]
  /\ row.status = "absent" <=> row.request = NoRequest
  /\ accepted \in [Sends -> Nat] /\ late \in [Sends -> Nat]
  /\ sent \in [Sends -> {"none", "filed", "seen"}]
  /\ drafts \in [filed : Nat, late : Nat]
  /\ lock \in Hosts \cup {NoHost} /\ raced \in BOOLEAN
  /\ call \in [Hosts -> CallRecords]
  /\ \A h \in Hosts : At(h, {"idle"}) <=> Asks(h) = NoRequest

(* However often a key is used, by however many hosts, after whatever      *)
(* failures, the SMTP server accepts each email at most once, and the key  *)
(* submits no second email (runSendOperation).                             *)
AtMostOnce ==
  \A p, q \in Sends : /\ accepted[q] <= 1
                      /\ accepted[p] > 0 /\ accepted[q] > 0 /\ {p, q} \cap Earlier = {} => p = q

(* The ledger never says retryable of an email that was or may yet be      *)
(* accepted, and never says success of one that was not (store.finish,     *)
(* reconcileOperation).                                                    *)
TruthfulLedger ==
  row.request \in Sends =>
    /\ row.status = "not_delivered" => accepted[row.request] = 0 /\ late[row.request] = 0
    /\ row.status = "succeeded" => accepted[row.request] > 0

(* A call that reports a result reports its own email or draft, not        *)
(* another one filed under the key (sameSendOperation, reconcile).         *)
TruthfulAnswers ==
  \A h \in Hosts : At(h, {"done"}) /\ call[h].outcome = "result" =>
    IF IsDraft(h) THEN drafts.filed > 0 ELSE accepted[Asks(h)] > 0

(* A caller that hears the typed non-delivery may send again: nothing was  *)
(* accepted and nothing is on its way (safeFailure).                       *)
NotDeliveredIsSafe ==
  [][\A h \in Hosts : call'[h].outcome = "notDelivered" /\ call[h].outcome # "notDelivered" =>
       accepted[Asks(h)] = 0 /\ late[Asks(h)] = 0]_vars

(* A key files one draft, unless an APPEND took effect outside the lock    *)
(* under which its absence was checked (fileDraft).                        *)
DraftFiledOnce == ~raced => drafts.filed <= 1

(* What the promise speaks of: the ledger as its callers read it, and of   *)
(* what was given up only whether it may still take effect.                *)
Pending == {q \in Sends : late[q] > 0}
HasDraft == drafts.filed > 0
Promise == INSTANCE SendPromise WITH record <- row, pending <- Pending, filed <- HasDraft

(* The ledger, the mail and the draft of a key go only through the steps   *)
(* that SendPromise allows, whatever the hosts, the stores and the servers *)
(* do (runSendOperation, runDraftSaveOperation, the store's contract).     *)
PromiseKept == Promise!Spec

-------------------------------------------------------------------------------
(* Fairness: a host runs its call on, Postgres grants the account lock in  *)
(* the order of the waits, the ledger expires abandoned claims, syncs      *)
(* mirror Sent, and the caller retries with the same key until it hears of *)
(* a result ("You can retry with the same idempotency_key").               *)
Fairness ==
  /\ \A h \in Hosts : WF_vars(CallStep(h)) /\ SF_vars(Lock(h))
  /\ WF_vars(Expire) /\ \A q \in Sends : WF_vars(MirrorSent(q))
  /\ \A q \in Requests : SF_vars(\E h \in Hosts : Invoke(h, q))
FairSpec == Spec /\ Fairness

(* A failure is a step that no step of a call explains.                    *)
Failing == (LoseLock \/ \E h \in Hosts : Failure(h)) /\ ~\E h \in Hosts : CallStep(h)

(* Once failures stop, a key whose delivered copy reached Sent, or whose   *)
(* draft can be filed, ends up with its result recorded.                   *)
KeySettles ==
  <>[][~Failing]_vars =>
    \A q \in Provable \cup Drafts :
      (row.request = q /\ (q \in Provable => sent[q] # "none")) ~> row.status = "succeeded"
===============================================================================
