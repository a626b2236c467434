------------------------- MODULE SendOperationsProof -------------------------
(***************************************************************************)
(* A key submits once, for any hosts, requests, crashes and late answers.  *)
(***************************************************************************)
EXTENDS SendOperationsInv, TLAPS

-------------------------------------------------------------------------------
(* How a call moves on. *)

Verdicts == {"none", "succeeded", "not_delivered", "unknown"}
Outcomes == {"none", "result", "notDelivered", "unknown", "inProgress", "conflict", "failed"}

(* One call moves, to a record of its type.                                *)
Only(h) ==
  /\ call' \in [Hosts -> CallRecords]
  /\ \A d \in Hosts : d # h => call'[d] = call[d]
  /\ \A d \in Hosts : call'[d].pc = "idle" <=> call'[d].req = NoRequest

(* It moves to a stage, a verdict or an answer and keeps the rest.         *)
Reaches(h, p, v, o) ==
  /\ Only(h) /\ call'[h].pc = p /\ call'[h].req = call[h].req
  /\ call'[h].recovered = call[h].recovered /\ call'[h].verdict = v /\ call'[h].outcome = o

LEMMA Records ==
  ASSUME TypeOK, NEW h \in Hosts
  PROVE  /\ call[h] \in CallRecords /\ NoCall \in CallRecords
         /\ NoCall.pc = "idle" /\ NoCall.req = NoRequest /\ NoCall.verdict = "none"
         /\ NoCall.outcome = "none" /\ ~NoCall.recovered
  BY DEF TypeOK, NoCall, CallRecords, Stages

LEMMA Becoming ==
  ASSUME TypeOK, NEW h \in Hosts, NEW r \in CallRecords, Becomes(h, r), r.pc = "idle" <=> r.req = NoRequest
  PROVE  Only(h) /\ call'[h] = r
  BY DEF TypeOK, Becomes, At, Asks, Only

LEMMA Going ==
  ASSUME TypeOK, NEW h \in Hosts, ~At(h, {"idle"}), NEW p \in Stages, p # "idle", Becomes(h, Goes(h, p))
  PROVE  Reaches(h, p, call[h].verdict, call[h].outcome)
  <1> DEFINE r == Goes(h, p)
  <1>1. /\ r \in CallRecords /\ r.pc = p /\ r.req = call[h].req /\ r.recovered = call[h].recovered
        /\ r.verdict = call[h].verdict /\ r.outcome = call[h].outcome
    BY Records DEF Goes, CallRecords
  <1>2. r.pc = "idle" <=> r.req = NoRequest BY <1>1 DEF TypeOK, At, Asks
  <1> QED BY <1>1, <1>2, Becoming DEF Reaches

LEMMA Answering ==
  ASSUME TypeOK, NEW h \in Hosts, ~At(h, {"idle"}), NEW o \in Outcomes, Becomes(h, Ends(h, o))
  PROVE  Reaches(h, "done", call[h].verdict, o)
  <1> DEFINE r == Ends(h, o)
  <1>1. /\ r \in CallRecords /\ r.pc = "done" /\ r.req = call[h].req /\ r.recovered = call[h].recovered
        /\ r.verdict = call[h].verdict /\ r.outcome = o
    BY Records DEF Ends, CallRecords, Stages, Outcomes
  <1>2. r.pc = "idle" <=> r.req = NoRequest BY <1>1 DEF TypeOK, At, Asks
  <1> QED BY <1>1, <1>2, Becoming DEF Reaches

LEMMA Concluding ==
  ASSUME TypeOK, NEW h \in Hosts, ~At(h, {"idle"}), NEW v \in Verdicts, Becomes(h, Concludes(h, v))
  PROVE  Reaches(h, "finish", v, call[h].outcome)
  <1> DEFINE r == Concludes(h, v)
  <1>1. /\ r \in CallRecords /\ r.pc = "finish" /\ r.req = call[h].req /\ r.recovered = call[h].recovered
        /\ r.verdict = v /\ r.outcome = call[h].outcome
    BY Records DEF Concludes, CallRecords, Stages, Verdicts
  <1>2. r.pc = "idle" <=> r.req = NoRequest BY <1>1 DEF TypeOK, At, Asks
  <1> QED BY <1>1, <1>2, Becoming DEF Reaches

LEMMA Vanishing ==
  ASSUME TypeOK, NEW h \in Hosts, Becomes(h, NoCall)
  PROVE  Only(h) /\ call'[h] = NoCall
  BY Records, Becoming

(* What a caller is told of a recorded status, and of its own verdict.     *)
LEMMA Resolving ==
  ASSUME TypeOK, NEW h \in Hosts, ~At(h, {"idle"}), Becomes(h, Resolve(h))
  PROVE  \/ row.status = "succeeded" /\ Reaches(h, "done", call[h].verdict, "result")
         \/ Asks(h) \in Provable /\ Reaches(h, "check", call[h].verdict, call[h].outcome)
         \/ \E o \in {"unknown", "inProgress"} : Reaches(h, "done", call[h].verdict, o)
  <1>1. CASE row.status = "succeeded"
    <2>1. Becomes(h, Ends(h, "result")) BY <1>1 DEF Resolve
    <2> QED BY <1>1, <2>1, Answering DEF Outcomes
  <1>2. CASE row.status = "unknown" /\ Asks(h) \in Provable
    <2>1. Becomes(h, Goes(h, "check")) BY <1>2 DEF Resolve, Uncertain
    <2> QED BY <1>2, <2>1, Going DEF Stages
  <1>3. CASE row.status = "unknown" /\ Asks(h) \notin Provable
    <2>1. Becomes(h, Ends(h, "unknown")) BY <1>3 DEF Resolve, Uncertain
    <2> QED BY <2>1, Answering DEF Outcomes
  <1>4. CASE row.status \notin {"succeeded", "unknown"}
    <2>1. Becomes(h, Ends(h, "inProgress")) BY <1>4 DEF Resolve
    <2> QED BY <2>1, Answering DEF Outcomes
  <1> QED BY <1>1, <1>2, <1>3, <1>4

LEMMA Reporting ==
  ASSUME TypeOK, NEW h \in Hosts, ~At(h, {"idle"}), call[h].verdict # "none", Becomes(h, Conclusion(h))
  PROVE  \/ call[h].verdict = "succeeded" /\ Reaches(h, "done", call[h].verdict, "result")
         \/ call[h].verdict = "not_delivered" /\ Reaches(h, "done", call[h].verdict, "notDelivered")
         \/ Asks(h) \in Provable /\ call[h].verdict = "unknown" /\ Reaches(h, "check", call[h].verdict, call[h].outcome)
         \/ call[h].verdict = "unknown" /\ Reaches(h, "done", call[h].verdict, "unknown")
  <1>0. call[h].verdict \in Verdicts BY Records DEF CallRecords, Verdicts
  <1>1. CASE call[h].verdict = "succeeded"
    <2>1. Becomes(h, Ends(h, "result")) BY <1>1 DEF Conclusion
    <2> QED BY <1>1, <2>1, Answering DEF Outcomes
  <1>2. CASE call[h].verdict = "not_delivered"
    <2>1. Becomes(h, Ends(h, "notDelivered")) BY <1>2 DEF Conclusion
    <2> QED BY <1>2, <2>1, Answering DEF Outcomes
  <1>3. CASE call[h].verdict = "unknown" /\ Asks(h) \in Provable
    <2>1. Becomes(h, Goes(h, "check")) BY <1>3 DEF Conclusion, Uncertain
    <2> QED BY <1>3, <2>1, Going DEF Stages
  <1>4. CASE call[h].verdict = "unknown" /\ Asks(h) \notin Provable
    <2>1. Becomes(h, Ends(h, "unknown")) BY <1>4 DEF Conclusion, Uncertain
    <2> QED BY <1>4, <2>1, Answering DEF Outcomes
  <1> QED BY <1>0, <1>1, <1>2, <1>3, <1>4 DEF Verdicts

-------------------------------------------------------------------------------
(* Frames. *)

(* A step that leaves row, mail and drafts alone needs only its own call.  *)
LEMMA CallOnly ==
  ASSUME SendInv, NEW h \in Hosts, Only(h), UNCHANGED <<row, mail, drafts, raced>>,
         lock' \in Hosts \cup {NoHost}, \A d \in Hosts : d # h /\ lock' = d => lock = d, CallInv(h)'
  PROVE  SendInv'
  <1> USE DEF At, Asks, Same, IsDraft, mail
  <1>1. TypeOK' BY DEF SendInv, TypeOK, Only
  <1>2. ASSUME NEW d \in Hosts PROVE CallInv(d)'
    <2>1. CASE d = h BY <2>1
    <2>2. CASE d # h
      <3>1. CallInv(d) /\ call'[d] = call[d] BY <2>2 DEF SendInv, Only
      <3>2. Owns(d)' = Owns(d) BY <3>1 DEF Owns
      <3>3. ASSUME Owns(d)', NEW e \in Hosts, Owns(e)' PROVE e = d
        <4>1. CASE e = h BY <3>3, <4>1, <2>2 DEF CallInv, Owned
        <4>2. CASE e # h BY <3>1, <3>2, <3>3, <4>2 DEF CallInv, Owned, Owns, Only
        <4> QED BY <4>1, <4>2
      <3>4. Owned(d)' BY <3>1, <3>2, <3>3 DEF CallInv, Owned
      <3>5. Kinded(d)' /\ Proven(d)' BY <3>1 DEF CallInv, Kinded, Proven, Delivered
      <3>6. EarlierFound(d)' BY <3>1 DEF CallInv, EarlierFound, Claimable, Absent
      <3>7. DraftAbsent(d)' BY <3>1, <2>2 DEF CallInv, DraftAbsent
      <3> QED BY <3>4, <3>5, <3>6, <3>7 DEF CallInv
    <2> QED BY <2>1, <2>2
  <1>3. Counted' /\ TruthfulLedger' /\ DraftFiledOnce' BY DEF SendInv, Counted, TruthfulLedger, DraftFiledOnce
  <1> QED BY <1>1, <1>2, <1>3 DEF SendInv

(* Ownership that a call keeps, short of the server's acceptance.          *)
LEMMA StillOwned ==
  ASSUME SendInv, NEW h \in Hosts, Only(h), UNCHANGED <<row, mail>>, call'[h].req = call[h].req,
         Owns(h)' => Owns(h), Owns(h)' /\ At(h, {"accepted", "file"}) => At(h, {"accepted", "file"})'
  PROVE  Owned(h)'
  <1> SUFFICES ASSUME Owns(h)' PROVE Owned(h)' BY DEF Owned
  <1> USE DEF At, Asks, Same, IsDraft, mail
  <1>1. Owned(h) /\ Owns(h) BY DEF SendInv, CallInv
  <1>2. ASSUME NEW d \in Hosts, Owns(d)' PROVE d = h BY <1>1, <1>2 DEF Owned, Owns, Only
  <1> QED BY <1>1, <1>2 DEF Owned

-------------------------------------------------------------------------------
(* Steps that read. *)

(* A stage that owes nothing: nothing was claimed, marked or proved here.  *)
LEMMA Unclaimed ==
  ASSUME SendInv, NEW h \in Hosts, Only(h), UNCHANGED <<row, mail, drafts, raced>>,
         lock' \in Hosts \cup {NoHost}, \A d \in Hosts : d # h /\ lock' = d => lock = d,
         call'[h].pc \in {"idle", "replay", "get", "done"} \/ (call'[h].pc = "start" /\ Asks(h)' \notin Earlier),
         call'[h].pc = "get" => ~IsDraft(h)',
         call'[h].recovered => call[h].recovered /\ Asks(h)' = Asks(h),
         call'[h].pc = "done" /\ call'[h].outcome = "result" => Delivered(h)'
  PROVE  SendInv'
  <1> USE DEF At, Asks, Same, IsDraft, mail
  <1>1. Kinded(h) /\ Proven(h) BY DEF SendInv, CallInv
  <1>2. Kinded(h)' BY <1>1 DEF Kinded, Owing, Claiming
  <1>3. Owned(h)' /\ DraftAbsent(h)' BY DEF Owned, Owns, Claiming, DraftAbsent
  <1>4. EarlierFound(h)' BY DEF EarlierFound
  <1>5. Proven(h)' BY <1>1 DEF Proven, Delivered
  <1> QED BY <1>2, <1>3, <1>4, <1>5, CallOnly DEF CallInv

LEMMA RecordedIsDelivered ==
  ASSUME SendInv, NEW h \in Hosts, ~At(h, {"idle"}), Same(h), row.status = "succeeded"
  PROVE  Delivered(h)
  <1>1. Asks(h) \in Requests BY DEF SendInv, TypeOK, At, Asks, CallRecords
  <1> QED BY <1>1 DEF SendInv, Counted, TruthfulLedger, Delivered, Requests, IsDraft, Same

(* The answer to a recorded status is safe for a call of its request.      *)
LEMMA ResolveSafe ==
  ASSUME SendInv, NEW h \in Hosts, ~At(h, {"idle"}), Same(h), Becomes(h, Resolve(h)),
         UNCHANGED <<row, mail, drafts, lock, raced>>
  PROVE  SendInv'
  <1>0. TypeOK BY DEF SendInv
  <1> USE DEF At, Asks, Same, IsDraft, mail
  <1>1. CASE row.status = "succeeded" /\ Reaches(h, "done", call[h].verdict, "result")
    <2>1. Delivered(h)' BY <1>1, RecordedIsDelivered DEF Reaches, Delivered
    <2> QED BY <1>0, <1>1, <2>1, Unclaimed DEF Reaches, TypeOK
  <1>2. CASE Asks(h) \in Provable /\ Reaches(h, "check", call[h].verdict, call[h].outcome)
    <2>1. Kinded(h) /\ Proven(h) BY DEF SendInv, CallInv
    <2>2. Kinded(h)' BY <1>2, <2>1, SendAssumption DEF Kinded, Owing, Claiming, Reaches
    <2>3. Owned(h)' /\ DraftAbsent(h)' /\ EarlierFound(h)'
      BY <1>2 DEF Owned, Owns, Claiming, DraftAbsent, Reaches, EarlierFound
    <2>4. Proven(h)' BY <1>2, <2>1 DEF Proven, Delivered, Reaches
    <2> QED BY <1>0, <1>2, <2>2, <2>3, <2>4, CallOnly DEF CallInv, Reaches, TypeOK
  <1>3. CASE \E o \in {"unknown", "inProgress"} : Reaches(h, "done", call[h].verdict, o)
    BY <1>0, <1>3, Unclaimed DEF Reaches, TypeOK
  <1> QED BY <1>0, <1>1, <1>2, <1>3, Resolving

LEMMA InvokeSafe == ASSUME SendInv, NEW h \in Hosts, NEW q \in Requests, Invoke(h, q) PROVE SendInv'
  <1>0. TypeOK BY DEF SendInv
  <1> USE DEF At, Asks, Same, IsDraft, mail
  <1>1. PICK p \in {"replay", "start", "get"} :
           Becomes(h, [NoCall EXCEPT !.req = q, !.pc = p]) /\ (p = "get" => q \notin Drafts) /\ (p = "start" => q \in Drafts)
    BY DEF Invoke
  <1> DEFINE r == [NoCall EXCEPT !.req = q, !.pc = p]
  <1>2. r \in CallRecords /\ r.pc = p /\ r.req = q /\ ~r.recovered /\ r.outcome = "none"
    BY <1>0, Records DEF CallRecords, Stages, NoCall
  <1>3. Only(h) /\ call'[h] = r BY <1>0, <1>1, <1>2, Becoming, SendAssumption
  <1>4. p = "start" => q \notin Earlier BY <1>1, SendAssumption
  <1> HIDE DEF r
  <1>5. UNCHANGED <<row, mail, drafts, lock, raced>> BY DEF Invoke
  <1> QED BY <1>0, <1>1, <1>2, <1>3, <1>4, <1>5, Unclaimed DEF Invoke, TypeOK

LEMMA ReplayDraftSafe == ASSUME SendInv, NEW h \in Hosts, replayDraftSaveOperation(h) PROVE SendInv'
  <1>0. TypeOK BY DEF SendInv
  <1> USE DEF At, Asks, Same, IsDraft, mail
  <1>1. call[h].pc = "replay" /\ call[h].req \in Drafts /\ call[h].req \notin Earlier
    BY SendAssumption DEF replayDraftSaveOperation
  <1>2. UNCHANGED <<row, mail, drafts, lock, raced>> BY DEF replayDraftSaveOperation
  <1>3. CASE Becomes(h, Goes(h, "start"))
    <2>1. Reaches(h, "start", call[h].verdict, call[h].outcome) BY <1>0, <1>1, <1>3, Going DEF Stages
    <2> QED BY <1>0, <1>1, <1>2, <2>1, Unclaimed DEF Reaches, TypeOK
  <1>4. CASE Becomes(h, Ends(h, "conflict"))
    <2>1. Reaches(h, "done", call[h].verdict, "conflict") BY <1>0, <1>1, <1>4, Answering DEF Outcomes
    <2> QED BY <1>0, <1>2, <2>1, Unclaimed DEF Reaches, TypeOK
  <1>5. CASE Same(h) /\ row.status = "succeeded" /\ Becomes(h, Ends(h, "result"))
    <2>1. Reaches(h, "done", call[h].verdict, "result") BY <1>0, <1>1, <1>5, Answering DEF Outcomes
    <2>2. Delivered(h)' BY <1>1, <1>2, <1>5, <2>1, RecordedIsDelivered DEF Reaches, Delivered
    <2> QED BY <1>0, <1>2, <2>1, <2>2, Unclaimed DEF Reaches, TypeOK
  <1> QED BY <1>3, <1>4, <1>5 DEF replayDraftSaveOperation

LEMMA ReplaySendSafe == ASSUME SendInv, NEW h \in Hosts, replaySendOperation(h) PROVE SendInv'
  <1>0. TypeOK BY DEF SendInv
  <1> USE DEF At, Asks, IsDraft, mail
  <1>1. call[h].pc = "replay" /\ call[h].req \notin Drafts BY DEF replaySendOperation
  <1>2. UNCHANGED <<row, mail, drafts, lock, raced>> BY DEF replaySendOperation
  <1>3. CASE Becomes(h, Goes(h, "get"))
    <2>1. Reaches(h, "get", call[h].verdict, call[h].outcome) BY <1>0, <1>1, <1>3, Going DEF Stages
    <2> QED BY <1>0, <1>1, <1>2, <2>1, Unclaimed DEF Reaches, TypeOK
  <1>4. CASE Becomes(h, Ends(h, "conflict"))
    <2>1. Reaches(h, "done", call[h].verdict, "conflict") BY <1>0, <1>1, <1>4, Answering DEF Outcomes
    <2> QED BY <1>0, <1>2, <2>1, Unclaimed DEF Reaches, TypeOK
  <1>5. CASE Same(h) /\ Becomes(h, Goes(h, "refresh"))
    <2>1. Reaches(h, "refresh", call[h].verdict, call[h].outcome) BY <1>0, <1>1, <1>5, Going DEF Stages
    <2>2. Kinded(h) /\ Proven(h) BY DEF SendInv, CallInv
    <2>3. Kinded(h)' BY <1>1, <1>2, <1>5, <2>1, <2>2 DEF Kinded, Owing, Claiming, Reaches, Same
    <2>4. Owned(h)' /\ DraftAbsent(h)' /\ EarlierFound(h)' /\ Proven(h)'
      BY <1>2, <2>1, <2>2 DEF Owned, Owns, Claiming, DraftAbsent, Reaches, EarlierFound, Proven, Delivered
    <2> QED BY <1>0, <1>2, <2>1, <2>3, <2>4, CallOnly DEF CallInv, Reaches, TypeOK
  <1>6. CASE Same(h) /\ Becomes(h, Resolve(h)) BY <1>1, <1>2, <1>6, ResolveSafe
  <1> QED BY <1>3, <1>4, <1>5, <1>6 DEF replaySendOperation

LEMMA RefreshSafe == ASSUME SendInv, NEW h \in Hosts, Refresh(h) PROVE SendInv'
  <1>0. TypeOK BY DEF SendInv
  <1> USE DEF At, Asks, IsDraft, mail
  <1>1. call[h].pc = "refresh" /\ call[h].req \notin Drafts /\ Same(h)
    BY DEF Refresh, SendInv, CallInv, Kinded, Owing
  <1>2. UNCHANGED <<row, mail, drafts, lock, raced>> BY DEF Refresh
  <1>3. CASE Becomes(h, Goes(h, "get"))
    <2>1. Reaches(h, "get", call[h].verdict, call[h].outcome) BY <1>0, <1>1, <1>3, Going DEF Stages
    <2> QED BY <1>0, <1>1, <1>2, <2>1, Unclaimed DEF Reaches, TypeOK
  <1>4. CASE Becomes(h, Resolve(h)) BY <1>1, <1>2, <1>4, ResolveSafe
  <1> QED BY <1>3, <1>4 DEF Refresh

LEMMA GetSafe == ASSUME SendInv, NEW h \in Hosts, Get(h) PROVE SendInv'
  <1>0. TypeOK /\ Kinded(h) /\ Proven(h) BY DEF SendInv, CallInv
  <1> USE DEF At, Asks, IsDraft, mail
  <1>1. call[h].pc = "get" /\ call[h].req \notin Drafts BY <1>0 DEF Get, Kinded
  <1>2. UNCHANGED <<row, mail, drafts, lock, raced>> BY DEF Get
  <1>3. CASE Becomes(h, Ends(h, "conflict"))
    <2>1. Reaches(h, "done", call[h].verdict, "conflict") BY <1>0, <1>1, <1>3, Answering DEF Outcomes
    <2> QED BY <1>0, <1>2, <2>1, Unclaimed DEF Reaches, TypeOK
  <1>4. CASE LooksFirst(h) /\ Becomes(h, Goes(h, "lookup"))
    <2>1. Reaches(h, "lookup", call[h].verdict, call[h].outcome) BY <1>0, <1>1, <1>4, Going DEF Stages
    <2>2. Kinded(h)' BY <1>0, <1>1, <1>2, <1>4, <2>1, SendAssumption DEF Kinded, Owing, Claiming, Reaches, LooksFirst, Same
    <2>3. Owned(h)' /\ DraftAbsent(h)' /\ EarlierFound(h)' /\ Proven(h)'
      BY <1>0, <1>2, <2>1 DEF Owned, Owns, Claiming, DraftAbsent, Reaches, EarlierFound, Proven, Delivered
    <2> QED BY <1>0, <1>2, <2>1, <2>2, <2>3, CallOnly DEF CallInv, Reaches, TypeOK
  <1>5. CASE ~LooksFirst(h) /\ Becomes(h, Goes(h, "start"))
    <2>1. Reaches(h, "start", call[h].verdict, call[h].outcome) BY <1>0, <1>1, <1>5, Going DEF Stages
    <2>2. Kinded(h)' BY <1>0, <1>1, <2>1 DEF Kinded, Owing, Claiming, Reaches
    <2>3. Owned(h)' /\ DraftAbsent(h)' /\ Proven(h)'
      BY <1>0, <1>2, <2>1 DEF Owned, Owns, Claiming, DraftAbsent, Reaches, Proven, Delivered
    <2>4. EarlierFound(h)' BY <1>2, <1>5, <2>1, SendAssumption DEF EarlierFound, Reaches, LooksFirst, Claimable, Same, Absent
    <2> QED BY <1>0, <1>2, <2>1, <2>2, <2>3, <2>4, CallOnly DEF CallInv, Reaches, TypeOK
  <1> QED BY <1>3, <1>4, <1>5 DEF Get

LEMMA LookupSafe == ASSUME SendInv, NEW h \in Hosts, Lookup(h) PROVE SendInv'
  <1>0. TypeOK /\ Kinded(h) /\ Proven(h) BY DEF SendInv, CallInv
  <1> USE DEF At, Asks, IsDraft, mail
  <1>1. call[h].pc = "lookup" /\ call[h].req \notin Drafts /\ call[h].req \in Provable BY <1>0 DEF Lookup, Kinded
  <1>2. UNCHANGED <<row, mail, drafts, lock, raced>> BY DEF Lookup
  <1> DEFINE r == [Goes(h, "start") EXCEPT !.recovered = sent[Asks(h)] = "seen"]
  <1>3. /\ r \in CallRecords /\ r.pc = "start" /\ r.req = call[h].req /\ r.verdict = call[h].verdict
        /\ r.recovered = (sent[call[h].req] = "seen")
    BY <1>0, Records DEF Goes, CallRecords, Stages
  <1>4. call[h].req # NoRequest BY <1>0, <1>1 DEF TypeOK
  <1>5. Only(h) /\ call'[h] = r BY <1>0, <1>3, <1>4, Becoming DEF Lookup
  <1>6. Kinded(h)' BY <1>1, <1>3, <1>5, SendAssumption DEF Kinded, Owing, Claiming
  <1>7. Owned(h)' /\ DraftAbsent(h)' BY <1>3, <1>5 DEF Owned, Owns, Claiming, DraftAbsent
  <1>8. EarlierFound(h)' BY <1>3, <1>5, SendAssumption DEF EarlierFound, SendInv, Counted
  <1>9. Proven(h)'
    <2>1. sent[call[h].req] = "seen" => accepted[call[h].req] > 0 BY <1>1, SendAssumption DEF SendInv, Counted
    <2> QED BY <1>1, <1>2, <1>3, <1>5, <2>1 DEF Proven, Delivered
  <1> QED BY <1>0, <1>2, <1>5, <1>6, <1>7, <1>8, <1>9, CallOnly DEF CallInv, TypeOK

-------------------------------------------------------------------------------
(* The claim. *)

(* A key that may be claimed has no owner, and nothing of it was accepted  *)
(* or may yet be, but for mail from before the ledger.                     *)
LEMMA NobodyOwns ==
  ASSUME SendInv, NEW h \in Hosts, Claimable(h)
  PROVE  /\ \A d \in Hosts : ~Owns(d) /\ (row = Absent => ~At(d, Owing))
         /\ \A q \in Sends \ Earlier : q = Asks(h) => accepted[q] = 0 /\ late[q] = 0
         /\ \A q \in Sends \ Earlier : accepted[q] + late[q] > 0 => q = Asks(h)
         /\ row.request \in {NoRequest, Asks(h)}
  <1> USE DEF At, Asks, Same, IsDraft
  <1>0. TypeOK BY DEF SendInv
  <1>1. CASE row = Absent
    <2>1. \A d \in Hosts : ~At(d, Owing)
      BY <1>0, <1>1 DEF SendInv, CallInv, Kinded, Owing, Claiming, TypeOK, Absent
    <2>2. \A q \in Sends \ Earlier : accepted[q] + late[q] = 0
      <3> SUFFICES ASSUME NEW q \in Sends \ Earlier PROVE accepted[q] + late[q] = 0 OBVIOUS
      <3>1. q # NoRequest BY SendAssumption DEF Requests
      <3>2. accepted[q] \in Nat /\ late[q] \in Nat BY <1>0 DEF TypeOK
      <3> QED BY <1>1, <3>1, <3>2 DEF SendInv, Counted, Absent
    <2>3. \A q \in Sends : accepted[q] \in Nat /\ late[q] \in Nat BY <1>0 DEF TypeOK
    <2> QED BY <1>1, <2>1, <2>2, <2>3 DEF Owns, Owing, Claiming, Absent
  <1>2. CASE row # Absent
    <2>1. Same(h) /\ row.status = "not_delivered" BY <1>2 DEF Claimable
    <2>2. \A d \in Hosts : ~Owns(d) BY <2>1 DEF SendInv, CallInv, Owned
    <2>3. \A q \in Sends \ Earlier : q = Asks(h) => accepted[q] = 0 /\ late[q] = 0
      BY <2>1 DEF SendInv, TruthfulLedger
    <2>4. \A q \in Sends \ Earlier : accepted[q] + late[q] > 0 => q = Asks(h) BY <2>1 DEF SendInv, Counted
    <2> QED BY <1>2, <2>1, <2>2, <2>3, <2>4
  <1> QED BY <1>1, <1>2

(* The claim fixes the request and makes its send the owner.               *)
LEMMA ClaimSafe ==
  ASSUME SendInv, NEW h \in Hosts, At(h, {"start"}), Claimable(h), Only(h), row' = Claimed(h),
         UNCHANGED <<mail, drafts, lock, raced>>,
         call'[h].req = call[h].req, call'[h].recovered = call[h].recovered,
         \/ call[h].recovered /\ call'[h].pc = "finish" /\ call'[h].verdict = "succeeded"
         \/ ~call[h].recovered /\ call'[h].pc = "lock"
         \/ call'[h].pc = "done" /\ call'[h].outcome = "failed"
  PROVE  SendInv'
  <1> USE DEF At, Asks, Same, IsDraft, mail
  <1>0. TypeOK /\ Kinded(h) /\ Proven(h) /\ EarlierFound(h) BY DEF SendInv, CallInv
  <1>1. row'.status = "submitting" /\ row'.request = call[h].req /\ row' # Absent BY DEF Claimed, Absent
  <1>2. call[h].req \in Requests BY <1>0 DEF TypeOK, CallRecords
  <1>3. TypeOK'
    <2>1. row' \in [status : Statuses, request : Requests \cup {NoRequest}] BY <1>2 DEF Claimed, Statuses
    <2>2. row'.status = "absent" <=> row'.request = NoRequest BY <1>1, <1>2, SendAssumption
    <2> QED BY <1>0, <2>1, <2>2 DEF TypeOK, Only
  <1>4. ASSUME NEW d \in Hosts, d # h PROVE CallInv(d)'
    <2>0. CallInv(d) /\ call'[d] = call[d] BY <1>4 DEF SendInv, Only
    <2>1. Kinded(d)' BY <1>1, <2>0, NobodyOwns DEF Claimable, CallInv, Kinded
    <2>2. Owned(d)' BY <2>0, NobodyOwns DEF Owned, Owns
    <2>3. EarlierFound(d)' BY <1>1, <2>0 DEF EarlierFound, Claimable
    <2>4. Proven(d)' /\ DraftAbsent(d)' BY <2>0 DEF CallInv, Proven, Delivered, DraftAbsent
    <2> QED BY <2>1, <2>2, <2>3, <2>4 DEF CallInv
  <1>5. CallInv(h)'
    <2>1. Kinded(h)' BY <1>0, <1>1 DEF Kinded, Owing, Claiming
    <2>2. ASSUME Owns(h)' PROVE Owned(h)'
      <3>1. ~call[h].recovered /\ call[h].req \notin Drafts BY <2>2 DEF Owns, Claiming
      <3>2. call[h].req \in Sends \ Earlier BY <1>0, <1>2, <3>1 DEF EarlierFound, Requests
      <3>3. \A d \in Hosts : Owns(d)' => d = h BY NobodyOwns DEF Owns, Only
      <3> QED BY <1>1, <3>2, <3>3, NobodyOwns DEF Owned
    <2>3. Owned(h)' BY <2>2 DEF Owned
    <2>4. EarlierFound(h)' /\ DraftAbsent(h)' BY DEF EarlierFound, DraftAbsent
    <2>5. Proven(h)' BY <1>0 DEF Proven, Delivered
    <2> QED BY <2>1, <2>3, <2>4, <2>5 DEF CallInv
  <1>6. Counted' BY <1>1, NobodyOwns DEF SendInv, Counted
  <1>7. TruthfulLedger' /\ DraftFiledOnce' BY <1>1 DEF SendInv, TruthfulLedger, DraftFiledOnce
  <1> QED BY <1>3, <1>4, <1>5, <1>6, <1>7 DEF SendInv

LEMMA StartSafe == ASSUME SendInv, NEW h \in Hosts, Start(h) PROVE SendInv'
  <1>0. TypeOK /\ Kinded(h) /\ Proven(h) BY DEF SendInv, CallInv
  <1> USE DEF At, Asks, IsDraft, mail
  <1>1. call[h].pc = "start" /\ UNCHANGED <<mail, drafts, lock, raced>> /\ row' = Claimed(h) BY DEF Start
  <1>2. ~Claimable(h) => row' = row BY <1>1 DEF Claimed
  <1>3. CASE Claimable(h) /\ call[h].recovered
    <2>1. Becomes(h, Concludes(h, "succeeded")) BY <1>3 DEF Start
    <2>2. Reaches(h, "finish", "succeeded", call[h].outcome) BY <1>0, <1>1, <2>1, Concluding DEF Verdicts
    <2> QED BY <1>1, <1>3, <2>2, ClaimSafe DEF Reaches
  <1>4. CASE Claimable(h) /\ ~call[h].recovered
    <2>1. Becomes(h, Goes(h, "lock")) BY <1>4 DEF Start
    <2>2. Reaches(h, "lock", call[h].verdict, call[h].outcome) BY <1>0, <1>1, <2>1, Going DEF Stages
    <2> QED BY <1>1, <1>4, <2>2, ClaimSafe DEF Reaches
  <1>5. CASE ~Claimable(h) /\ ~Same(h)
    <2>1. Becomes(h, Ends(h, "conflict")) BY <1>5 DEF Start
    <2>2. Reaches(h, "done", call[h].verdict, "conflict") BY <1>0, <1>1, <2>1, Answering DEF Outcomes
    <2> QED BY <1>0, <1>1, <1>2, <1>5, <2>2, Unclaimed DEF Reaches, TypeOK
  <1>6. CASE ~Claimable(h) /\ Same(h) /\ IsDraft(h) /\ row.status # "succeeded"
    <2>1. Becomes(h, Goes(h, "lock")) BY <1>6 DEF Start
    <2>2. Reaches(h, "lock", call[h].verdict, call[h].outcome) BY <1>0, <1>1, <2>1, Going DEF Stages
    <2>3. Kinded(h)' BY <1>0, <1>2, <1>6, <2>2 DEF Kinded, Reaches, Same
    <2>4. Owned(h)' /\ DraftAbsent(h)' /\ EarlierFound(h)' /\ Proven(h)'
      BY <1>0, <1>1, <1>6, <2>2 DEF Owned, Owns, DraftAbsent, Reaches, EarlierFound, Proven, Delivered
    <2> QED BY <1>0, <1>1, <1>2, <1>6, <2>2, <2>3, <2>4, CallOnly DEF CallInv, Reaches, TypeOK
  <1>7. CASE ~Claimable(h) /\ Same(h) /\ ~(IsDraft(h) /\ row.status # "succeeded")
    <2>1. Becomes(h, Resolve(h)) BY <1>7 DEF Start
    <2> QED BY <1>1, <1>2, <1>7, <2>1, ResolveSafe
  <1> QED BY <1>3, <1>4, <1>5, <1>6, <1>7

LEMMA StoreFailsSafe == ASSUME SendInv, NEW h \in Hosts, StoreFails(h) PROVE SendInv'
  <1>0. TypeOK BY DEF SendInv
  <1> USE DEF At, mail
  <1>1. UNCHANGED <<mail, drafts, lock, raced>> /\ call[h].pc # "idle" BY DEF StoreFails
  <1>2. Becomes(h, Ends(h, "failed")) BY DEF StoreFails
  <1>3. Reaches(h, "done", call[h].verdict, "failed") BY <1>0, <1>1, <1>2, Answering DEF Outcomes
  <1>4. CASE row' = row BY <1>0, <1>1, <1>3, <1>4, Unclaimed DEF Reaches, TypeOK, Asks
  <1>5. CASE row' # row
    <2>1. call[h].pc = "start" /\ row' = Claimed(h) /\ Claimable(h) BY <1>5 DEF StoreFails, Claimed
    <2> QED BY <1>1, <1>3, <2>1, ClaimSafe DEF Reaches
  <1> QED BY <1>4, <1>5

-------------------------------------------------------------------------------
(* The submission. *)

LEMMA Releasing ==
  ASSUME TypeOK, NEW h \in Hosts, Release(h)
  PROVE  lock' \in Hosts \cup {NoHost} /\ lock' # h /\ \A d \in Hosts : lock' = d => lock = d
  BY SendAssumption DEF TypeOK, Release

(* A send that moves on as the owner, or from owner to none.               *)
LEMMA OwnerMoves ==
  ASSUME SendInv, NEW h \in Hosts, ~IsDraft(h), At(h, Owing), NEW p, NEW v, NEW o, Reaches(h, p, v, o),
         UNCHANGED <<row, mail, drafts, raced>>,
         lock' \in Hosts \cup {NoHost}, \A d \in Hosts : d # h /\ lock' = d => lock = d,
         p \in {"deliver", "reply", "accepted", "file"} \/ (p = "finish" /\ v # "none"),
         p = "finish" /\ v = "succeeded" => Delivered(h),
         p \in {"accepted", "file"} => At(h, {"accepted", "file"}),
         At(h, {"accepted", "file"}) => p \in {"file"} \/ (p = "finish" /\ v # "not_delivered"),
         p # "finish" \/ v = "not_delivered" => Owns(h)
  PROVE  SendInv'
  <1> USE DEF At, Asks, Same, IsDraft, mail, Reaches
  <1>0. Kinded(h) /\ Proven(h) BY DEF SendInv, CallInv
  <1>1. Kinded(h)' BY <1>0 DEF Kinded, Owing, Claiming
  <1>2. Owned(h)' BY StillOwned DEF Owns, Claiming
  <1>3. EarlierFound(h)' /\ DraftAbsent(h)' BY DEF EarlierFound, DraftAbsent
  <1>4. Proven(h)' BY <1>0 DEF Proven, Delivered
  <1> QED BY <1>1, <1>2, <1>3, <1>4, CallOnly DEF CallInv

LEMMA NotSubmittedSafe == ASSUME SendInv, NEW h \in Hosts, NotSubmitted(h) PROVE SendInv'
  <1>0. TypeOK BY DEF SendInv
  <1> USE DEF At, IsDraft
  <1>1. Reaches(h, "finish", "not_delivered", call[h].outcome)
    BY <1>0, Concluding DEF NotSubmitted, Verdicts
  <1> QED BY <1>0, <1>1, Releasing, OwnerMoves DEF NotSubmitted, Owns, Claiming, Owing

LEMMA TransmitSafe == ASSUME SendInv, NEW h \in Hosts, Transmit(h) PROVE SendInv'
  <1>0. TypeOK /\ ~IsDraft(h) BY DEF SendInv, CallInv, Kinded, Transmit, At
  <1> USE DEF At
  <1>1. Reaches(h, "reply", call[h].verdict, call[h].outcome) BY <1>0, Going DEF Transmit, Stages
  <1> QED BY <1>0, <1>1, OwnerMoves DEF Transmit, Owns, Claiming, Owing, TypeOK

LEMMA RefuseSafe == ASSUME SendInv, NEW h \in Hosts, Refuse(h) PROVE SendInv'
  <1>0. TypeOK /\ ~IsDraft(h) BY DEF SendInv, CallInv, Kinded, Refuse, At
  <1> USE DEF At
  <1>1. Reaches(h, "finish", "not_delivered", call[h].outcome) BY <1>0, Concluding DEF Refuse, Verdicts
  <1> QED BY <1>0, <1>1, Releasing, OwnerMoves DEF Refuse, Owns, Claiming, Owing

LEMMA ReceiptSafe == ASSUME SendInv, NEW h \in Hosts, Receipt(h) PROVE SendInv'
  <1>0. TypeOK /\ ~IsDraft(h) BY DEF SendInv, CallInv, Kinded, Receipt, At
  <1> USE DEF At
  <1>1. Reaches(h, "file", call[h].verdict, call[h].outcome) BY <1>0, Going DEF Receipt, Stages
  <1> QED BY <1>0, <1>1, OwnerMoves DEF Receipt, Owns, Claiming, Owing, TypeOK

LEMMA LockSafe == ASSUME SendInv, NEW h \in Hosts, Lock(h) PROVE SendInv'
  <1>0. TypeOK /\ Kinded(h) BY DEF SendInv, CallInv
  <1> USE DEF At, Asks, Same, IsDraft
  <1>1. call[h].pc = "lock" /\ lock = NoHost /\ lock' = h /\ UNCHANGED <<row, mail, drafts, raced>> BY DEF Lock
  <1>2. CASE IsDraft(h)
    <2>1. Becomes(h, Goes(h, "find")) BY <1>2 DEF Lock
    <2>2. Reaches(h, "find", call[h].verdict, call[h].outcome) BY <1>0, <1>1, <2>1, Going DEF Stages
    <2>3. Kinded(h)' BY <1>0, <1>1, <1>2, <2>2 DEF Kinded, Owing, Claiming, Reaches
    <2>4. Owned(h)' /\ EarlierFound(h)' /\ DraftAbsent(h)' BY <1>2, <2>2 DEF Owned, Owns, EarlierFound, DraftAbsent, Reaches
    <2>5. Proven(h)' BY <1>0, <1>1, <1>2, <2>2, SendAssumption DEF Proven, Kinded, Reaches
    <2> QED BY <1>1, <2>2, <2>3, <2>4, <2>5, CallOnly DEF CallInv, Reaches
  <1>3. CASE ~IsDraft(h)
    <2>1. Becomes(h, Goes(h, "deliver")) BY <1>3 DEF Lock
    <2>2. Reaches(h, "deliver", call[h].verdict, call[h].outcome) BY <1>0, <1>1, <2>1, Going DEF Stages
    <2> QED BY <1>1, <1>3, <2>2, OwnerMoves DEF Owns, Claiming, Owing
  <1> QED BY <1>2, <1>3

(* A call that does not move, while what it owns stays and evidence only   *)
(* grows.                                                                  *)
LEMMA Bystander ==
  ASSUME SendInv, NEW d \in Hosts, call'[d] = call[d],
         row' = row \/ (row'.request = row.request /\ row'.status \notin {"absent", "not_delivered"}),
         lock' = d => lock = d, raced => raced',
         drafts.filed > 0 => drafts'.filed > 0,
         raced' \/ drafts'.filed = drafts.filed \/ lock' # d,
         \A q \in Sends : accepted[q] > 0 => accepted'[q] > 0,
         Owns(d) => /\ \A e \in Hosts : Owns(e)' => e = d
                    /\ late'[Asks(d)] = late[Asks(d)] /\ accepted'[Asks(d)] = accepted[Asks(d)]
  PROVE  CallInv(d)'
  <1> USE DEF At, Asks, Same, IsDraft
  <1>0. TypeOK /\ CallInv(d) BY DEF SendInv
  <1>1. Kinded(d)' /\ DraftAbsent(d)' BY <1>0 DEF CallInv, Kinded, DraftAbsent
  <1>2. Owned(d)' BY <1>0 DEF CallInv, Owned, Owns
  <1>3. EarlierFound(d)' BY <1>0 DEF CallInv, EarlierFound, Claimable, Absent
  <1>4. Proven(d)'
    <2>1. CASE call[d].req \in Drafts BY <1>0, <2>1 DEF CallInv, Proven, Delivered
    <2>2. CASE call[d].req \in Sends BY <1>0, <2>2, SendAssumption DEF CallInv, Proven, Delivered
    <2>3. CASE call[d].req = NoRequest
      <3>1. call[d].pc = "idle" BY <1>0, <2>3 DEF TypeOK
      <3>2. ~call[d].recovered BY <1>0, <2>3, SendAssumption DEF CallInv, Kinded, Requests
      <3> QED BY <1>0, <3>1, <3>2 DEF Proven
    <2> QED BY <1>0, <2>1, <2>2, <2>3 DEF TypeOK, CallRecords, Requests
  <1> QED BY <1>1, <1>2, <1>3, <1>4 DEF CallInv

LEMMA Filing ==
  ASSUME TypeOK, NEW q \in Sends, sent' \in Filed(q) \cup {[sent EXCEPT ![q] = "seen"], sent}
  PROVE  /\ sent' \in [Sends -> {"none", "filed", "seen"}]
         /\ \A p \in Sends : sent[p] = "seen" => sent'[p] = "seen"
         /\ \A p \in Sends : p # q => sent'[p] = sent[p]
  BY DEF TypeOK, Filed

(* Only the owner's attempt may be accepted, and it is the first.          *)
LEMMA FirstAttempt ==
  ASSUME SendInv, NEW h \in Hosts, At(h, {"reply"})
  PROVE  /\ Owns(h) /\ Same(h) /\ Asks(h) \in Sends \ Earlier
         /\ accepted[Asks(h)] = 0 /\ late[Asks(h)] = 0 /\ row.status # "not_delivered"
         /\ \A d \in Hosts : Owns(d) => d = h
  <1>1. CallInv(h) /\ Asks(h) \in Requests BY DEF SendInv, TypeOK, CallRecords, At, Asks
  <1>2. Owns(h) /\ Same(h) BY <1>1 DEF CallInv, Kinded, At, Owing, Claiming, Owns
  <1> QED BY <1>1, <1>2 DEF CallInv, Owned, Owns, IsDraft, Requests, At

LEMMA AcceptSafe == ASSUME SendInv, NEW h \in Hosts, Accept(h) PROVE SendInv'
  <1>0. TypeOK /\ Kinded(h) /\ Proven(h) /\ call[h].pc = "reply" BY DEF SendInv, CallInv, Accept, At
  <1> USE DEF At, Asks, IsDraft, Same
  <1> DEFINE q == call[h].req
  <1>1. accepted' = [accepted EXCEPT ![q] = @ + 1] /\ sent' \in Filed(q) /\ UNCHANGED <<row, late, drafts, lock, raced>>
    BY DEF Accept
  <1>2. Reaches(h, "accepted", call[h].verdict, call[h].outcome) BY <1>0, Going DEF Accept, Stages
  <1>3. /\ q \in Sends \ Earlier /\ accepted[q] = 0 /\ late[q] = 0 /\ row.request = q
        /\ row.status # "not_delivered" /\ \A d \in Hosts : Owns(d) => d = h
    BY <1>0, FirstAttempt
  <1>4. accepted' \in [Sends -> Nat] /\ accepted'[q] = 1 /\ \A p \in Sends : p # q => accepted'[p] = accepted[p]
    BY <1>0, <1>1, <1>3 DEF TypeOK
  <1>5. TypeOK' BY <1>0, <1>1, <1>2, <1>3, <1>4, Filing DEF TypeOK, Reaches, Only
  <1>6. ASSUME NEW d \in Hosts, d # h PROVE CallInv(d)'
    <2>1. call'[d] = call[d] /\ ~Owns(d) BY <1>2, <1>3, <1>6 DEF Reaches, Only
    <2>2. \A p \in Sends : accepted[p] > 0 => accepted'[p] > 0 BY <1>3, <1>4
    <2> QED BY <1>1, <2>1, <2>2, Bystander
  <1>7. CallInv(h)'
    <2>1. Kinded(h)' BY <1>0, <1>1, <1>2, <1>3, SendAssumption DEF Kinded, Reaches, Owing, Claiming
    <2>2. \A d \in Hosts : Owns(d)' => d = h BY <1>2, <1>3 DEF Owns, Reaches, Only
    <2>3. Owned(h)' BY <1>1, <1>2, <1>3, <2>2 DEF Owned, Reaches
    <2>4. EarlierFound(h)' /\ DraftAbsent(h)' BY <1>2 DEF EarlierFound, DraftAbsent, Reaches
    <2>5. Proven(h)' BY <1>2, <1>3, <1>4, SendAssumption DEF Proven, Delivered, Reaches
    <2> QED BY <2>1, <2>3, <2>4, <2>5 DEF CallInv
  <1>8. Counted'
    <2>1. /\ \A p \in Sends : sent[p] = "seen" => sent'[p] = "seen"
          /\ \A p \in Sends : p # q => sent'[p] = sent[p]
      BY <1>0, <1>1, <1>3, Filing
    <2>2. \A p \in Sends : accepted'[p] + late'[p] <= 1 BY <1>1, <1>3, <1>4 DEF SendInv, Counted
    <2>3. \A p \in Sends \ Earlier : accepted'[p] + late'[p] > 0 => row'.request = p
      BY <1>1, <1>3, <1>4 DEF SendInv, Counted
    <2>4. \A p \in Earlier : sent'[p] = "seen" BY <2>1, SendAssumption DEF SendInv, Counted
    <2>5. \A p \in Sends : sent'[p] # "none" => accepted'[p] > 0 BY <1>4, <2>1 DEF SendInv, Counted
    <2> QED BY <1>1, <2>2, <2>3, <2>4, <2>5 DEF SendInv, Counted
  <1>9. TruthfulLedger' /\ DraftFiledOnce' BY <1>1, <1>3, <1>4 DEF SendInv, TruthfulLedger, DraftFiledOnce
  <1> QED BY <1>5, <1>6, <1>7, <1>8, <1>9 DEF SendInv

(* The transmission that a call gives up on may still be accepted.         *)
LEMMA Abandoning ==
  ASSUME SendInv, NEW h \in Hosts, late' \in Abandoned(h), UNCHANGED <<row, accepted, sent>>, drafts'.filed = drafts.filed
  PROVE  /\ late' \in [Sends -> Nat] /\ Counted' /\ TruthfulLedger'
         /\ \A d \in Hosts : d # h /\ Owns(d) => late'[Asks(d)] = late[Asks(d)]
  <1>0. TypeOK BY DEF SendInv
  <1>1. CASE late' = late BY <1>0, <1>1 DEF SendInv, Counted, TruthfulLedger, TypeOK
  <1>2. CASE At(h, {"reply"}) /\ late' = [late EXCEPT ![Asks(h)] = @ + 1]
    <2>1. /\ Asks(h) \in Sends \ Earlier /\ accepted[Asks(h)] = 0 /\ late[Asks(h)] = 0 /\ row.request = Asks(h)
          /\ row.status # "not_delivered" /\ \A d \in Hosts : Owns(d) => d = h
      BY <1>2, FirstAttempt DEF Same
    <2>2. late' \in [Sends -> Nat] /\ late'[Asks(h)] = 1 /\ \A p \in Sends : p # Asks(h) => late'[p] = late[p]
      BY <1>0, <1>2, <2>1 DEF TypeOK
    <2>3. Counted' BY <1>0, <2>1, <2>2 DEF SendInv, Counted, TypeOK
    <2>4. TruthfulLedger' BY <2>1 DEF SendInv, TruthfulLedger
    <2> QED BY <2>1, <2>2, <2>3, <2>4
  <1> QED BY <1>1, <1>2 DEF Abandoned

LEMMA ReplyLostSafe == ASSUME SendInv, NEW h \in Hosts, ReplyLost(h) PROVE SendInv'
  <1>0. TypeOK /\ Kinded(h) /\ Owned(h) /\ call[h].pc \in {"reply", "accepted"} BY DEF SendInv, CallInv, ReplyLost, At
  <1> USE DEF At, Asks, IsDraft, Same
  <1>1. UNCHANGED <<row, accepted, sent, drafts, raced>> /\ late' \in Abandoned(h) /\ Release(h) BY DEF ReplyLost
  <1>2. Reaches(h, "finish", "unknown", call[h].outcome)
    BY <1>0, Concluding DEF ReplyLost, ClassifiedLoss, Verdicts
  <1>3. late' \in [Sends -> Nat] /\ Counted' /\ TruthfulLedger' BY <1>1, Abandoning
  <1>4. \A d \in Hosts : d # h => ~Owns(d) BY <1>0 DEF Owned, Owns, Kinded, Claiming
  <1>5. TypeOK' BY <1>0, <1>1, <1>2, <1>3, Releasing DEF TypeOK, Reaches, Only
  <1>6. ASSUME NEW d \in Hosts, d # h PROVE CallInv(d)'
    BY <1>0, <1>1, <1>2, <1>4, <1>6, Releasing, Bystander DEF Reaches, Only
  <1>7. CallInv(h)'
    <2>1. Kinded(h)' BY <1>0, <1>1, <1>2 DEF Kinded, Reaches, Owing, Claiming
    <2>2. Owned(h)' /\ EarlierFound(h)' /\ DraftAbsent(h)'
      BY <1>2 DEF Owned, Owns, Claiming, EarlierFound, DraftAbsent, Reaches
    <2>3. Proven(h)' BY <1>0, <1>1, <1>2 DEF SendInv, CallInv, Proven, Delivered, Reaches
    <2> QED BY <2>1, <2>2, <2>3 DEF CallInv
  <1>8. DraftFiledOnce' BY <1>1 DEF SendInv, DraftFiledOnce
  <1> QED BY <1>3, <1>5, <1>6, <1>7, <1>8 DEF SendInv

(* A copy of an accepted email changes nothing but itself.                 *)
LEMMA CopyCounted ==
  ASSUME SendInv, NEW q \in Sends, accepted[q] > 0, sent' \in Filed(q) \cup {[sent EXCEPT ![q] = "seen"], sent},
         UNCHANGED <<row, accepted, late>>, drafts'.filed = drafts.filed
  PROVE  sent' \in [Sends -> {"none", "filed", "seen"}] /\ Counted' /\ TruthfulLedger'
  <1>1. TypeOK BY DEF SendInv
  <1>2. Counted' BY <1>1, Filing, SendAssumption DEF SendInv, Counted
  <1> QED BY <1>1, <1>2, Filing DEF SendInv, TruthfulLedger

LEMMA FileSentSafe == ASSUME SendInv, NEW h \in Hosts, FileSent(h) PROVE SendInv'
  <1>0. TypeOK /\ Kinded(h) /\ Owned(h) /\ Proven(h) /\ call[h].pc = "file" BY DEF SendInv, CallInv, FileSent, At
  <1> USE DEF At, Asks, IsDraft, Same
  <1> DEFINE q == call[h].req
  <1>1. /\ UNCHANGED <<row, accepted, late, drafts, raced>> /\ Release(h)
        /\ sent' \in Filed(q) \cup {[sent EXCEPT ![q] = "seen"], sent}
    BY DEF FileSent
  <1>2. Reaches(h, "finish", "succeeded", call[h].outcome) BY <1>0, Concluding DEF FileSent, Verdicts
  <1>3. q \in Sends /\ accepted[q] > 0 /\ q \notin Drafts
    BY <1>0 DEF Kinded, Proven, Delivered, TypeOK, CallRecords, Requests
  <1>4. sent' \in [Sends -> {"none", "filed", "seen"}] /\ Counted' /\ TruthfulLedger' BY <1>1, <1>3, CopyCounted
  <1>5. TypeOK' BY <1>0, <1>1, <1>2, <1>4, Releasing DEF TypeOK, Reaches, Only
  <1>6. \A d \in Hosts : d # h => ~Owns(d) BY <1>0 DEF Owned, Owns, Kinded, Claiming
  <1>7. ASSUME NEW d \in Hosts, d # h PROVE CallInv(d)'
    BY <1>0, <1>1, <1>2, <1>6, <1>7, Releasing, Bystander DEF Reaches, Only
  <1>8. CallInv(h)'
    <2>1. Kinded(h)' BY <1>0, <1>1, <1>2 DEF Kinded, Reaches, Owing, Claiming
    <2>2. Owned(h)' /\ EarlierFound(h)' /\ DraftAbsent(h)'
      BY <1>2 DEF Owned, Owns, Claiming, EarlierFound, DraftAbsent, Reaches
    <2>3. Proven(h)' BY <1>1, <1>2, <1>3 DEF Proven, Delivered, Reaches
    <2> QED BY <2>1, <2>2, <2>3 DEF CallInv
  <1>9. DraftFiledOnce' BY <1>1 DEF SendInv, DraftFiledOnce
  <1> QED BY <1>4, <1>5, <1>7, <1>8, <1>9 DEF SendInv

-------------------------------------------------------------------------------
(* The draft save. *)

LEMMA FindSafe == ASSUME SendInv, NEW h \in Hosts, Find(h) PROVE SendInv'
  <1>0. TypeOK /\ Kinded(h) /\ call[h].pc = "find" BY DEF SendInv, CallInv, Find, At
  <1> USE DEF At, Asks, IsDraft, Same
  <1>1. UNCHANGED <<row, mail, drafts, raced>> /\ call[h].req \in Drafts BY <1>0 DEF Find, Kinded
  <1>2. CASE Finds /\ Becomes(h, Concludes(h, "succeeded")) /\ Release(h)
    <2>1. Reaches(h, "finish", "succeeded", call[h].outcome) BY <1>0, <1>2, Concluding DEF Verdicts
    <2>2. Kinded(h)' BY <1>0, <1>1, <2>1 DEF Kinded, Reaches, Owing, Claiming
    <2>3. Owned(h)' /\ EarlierFound(h)' /\ DraftAbsent(h)'
      BY <1>1, <2>1 DEF Owned, Owns, EarlierFound, DraftAbsent, Reaches
    <2>4. Proven(h)' BY <1>1, <1>2, <2>1 DEF Proven, Delivered, Reaches, Finds
    <2> QED BY <1>0, <1>1, <1>2, <2>1, <2>2, <2>3, <2>4, Releasing, CallOnly DEF CallInv, Reaches
  <1>3. CASE ~Finds /\ Becomes(h, Goes(h, "mark")) /\ UNCHANGED lock
    <2>1. Reaches(h, "mark", call[h].verdict, call[h].outcome) BY <1>0, <1>3, Going DEF Stages
    <2>2. Kinded(h)' BY <1>0, <1>1, <2>1 DEF Kinded, Reaches, Owing, Claiming
    <2>3. Owned(h)' /\ EarlierFound(h)' BY <1>1, <2>1 DEF Owned, Owns, EarlierFound, Reaches
    <2>4. DraftAbsent(h)'
      <3>1. drafts.filed = 0 BY <1>0, <1>3 DEF Finds, TypeOK
      <3> QED BY <1>1, <3>1 DEF DraftAbsent
    <2>5. Proven(h)' BY <1>0, <1>1, <2>1, SendAssumption DEF Proven, Kinded, Reaches
    <2> QED BY <1>0, <1>1, <1>3, <2>1, <2>2, <2>3, <2>4, <2>5, CallOnly DEF CallInv, Reaches, TypeOK
  <1> QED BY <1>2, <1>3 DEF Find

LEMMA MarkSafe == ASSUME SendInv, NEW h \in Hosts, Mark(h) PROVE SendInv'
  <1>0. TypeOK /\ Kinded(h) /\ DraftAbsent(h) /\ call[h].pc = "mark" BY DEF SendInv, CallInv, Mark, At
  <1> USE DEF At, Asks, IsDraft, Same
  <1>1. UNCHANGED <<row, mail, drafts, lock, raced>> /\ call[h].req \in Drafts BY <1>0 DEF Mark, Kinded
  <1>2. CASE Becomes(h, Goes(h, "append"))
    <2>1. Reaches(h, "append", call[h].verdict, call[h].outcome) BY <1>0, <1>2, Going DEF Stages
    <2>2. Kinded(h)' BY <1>0, <1>1, <2>1 DEF Kinded, Reaches, Owing, Claiming
    <2>3. Owned(h)' /\ EarlierFound(h)' /\ DraftAbsent(h)'
      BY <1>0, <1>1, <2>1 DEF Owned, Owns, EarlierFound, DraftAbsent, Reaches
    <2>4. Proven(h)' BY <1>0, <1>1, <2>1, SendAssumption DEF Proven, Kinded, Reaches
    <2> QED BY <1>0, <1>1, <2>1, <2>2, <2>3, <2>4, CallOnly DEF CallInv, Reaches, TypeOK
  <1>3. CASE Becomes(h, Ends(h, "failed"))
    <2>1. Reaches(h, "done", call[h].verdict, "failed") BY <1>0, <1>3, Answering DEF Outcomes
    <2> QED BY <1>0, <1>1, <2>1, Unclaimed DEF Reaches, TypeOK
  <1> QED BY <1>2, <1>3 DEF Mark, Marked

LEMMA DraftFailsSafe == ASSUME SendInv, NEW h \in Hosts, DraftFails(h) PROVE SendInv'
  <1>0. TypeOK BY DEF SendInv
  <1>1. Reaches(h, "done", call[h].verdict, "failed") BY <1>0, Answering DEF DraftFails, At, Outcomes
  <1> QED BY <1>0, <1>1, Releasing, Unclaimed DEF Reaches, DraftFails, Asks

(* An APPEND under the lock files the first copy; the calls beside it see  *)
(* no lock of theirs.                                                      *)
LEMMA FirstCopy ==
  ASSUME SendInv, NEW h \in Hosts, At(h, {"append"}), drafts' = [drafts EXCEPT !.filed = @ + 1],
         raced' = (raced \/ lock # h), UNCHANGED <<row, mail>>, Release(h), Only(h), ~Owns(h)'
  PROVE  /\ drafts' \in [filed : Nat, late : Nat] /\ drafts'.filed > 0
         /\ Counted' /\ TruthfulLedger' /\ DraftFiledOnce'
         /\ \A d \in Hosts : d # h => CallInv(d)'
  <1> USE DEF At, mail
  <1>0. TypeOK /\ DraftAbsent(h) BY DEF SendInv, CallInv
  <1>1. drafts' \in [filed : Nat, late : Nat] /\ drafts'.filed = drafts.filed + 1 /\ drafts'.filed > 0 BY <1>0 DEF TypeOK
  <1>2. Counted' /\ TruthfulLedger' BY <1>1 DEF SendInv, Counted, TruthfulLedger
  <1>3. DraftFiledOnce'
    <2> SUFFICES ASSUME ~raced' PROVE drafts'.filed <= 1 BY DEF DraftFiledOnce
    <2>1. ~raced /\ lock = h OBVIOUS
    <2> QED BY <1>0, <1>1, <2>1 DEF DraftAbsent
  <1>4. ASSUME NEW d \in Hosts, d # h PROVE CallInv(d)'
    <2>1. lock' # d \/ raced'
      <3>1. CASE lock = h BY <1>4, <3>1, SendAssumption DEF Release
      <3>2. CASE lock # h BY <3>2
      <3> QED BY <3>1, <3>2
    <2>2. \A e \in Hosts : Owns(d) /\ Owns(e)' => e = d BY <1>4 DEF SendInv, CallInv, Owned, Owns, Only, IsDraft, Asks
    <2>3. call'[d] = call[d] BY <1>4 DEF Only
    <2> QED BY <1>0, <1>1, <2>1, <2>2, <2>3, Releasing, Bystander
  <1> QED BY <1>1, <1>2, <1>3, <1>4

LEMMA AppendSafe == ASSUME SendInv, NEW h \in Hosts, Append(h) PROVE SendInv'
  <1>0. TypeOK /\ Kinded(h) /\ call[h].pc = "append" BY DEF SendInv, CallInv, Append, At
  <1> USE DEF At, Asks, IsDraft, Same
  <1>1. call[h].req \in Drafts /\ row' = row BY <1>0 DEF Kinded, Append
  <1>2. Reaches(h, "finish", "succeeded", call[h].outcome) BY <1>0, Concluding DEF Append, Verdicts
  <1>3. ~Owns(h)' BY <1>1, <1>2 DEF Owns, Reaches
  <1>4. /\ drafts' \in [filed : Nat, late : Nat] /\ drafts'.filed > 0
        /\ Counted' /\ TruthfulLedger' /\ DraftFiledOnce'
        /\ \A d \in Hosts : d # h => CallInv(d)'
    BY <1>0, <1>2, <1>3, FirstCopy DEF Append, Reaches
  <1>5. TypeOK' BY <1>0, <1>2, <1>4, Releasing DEF TypeOK, Reaches, Only, Append, mail
  <1>6. Kinded(h)' BY <1>0, <1>1, <1>2 DEF Kinded, Reaches, Owing, Claiming
  <1>7. Owned(h)' /\ EarlierFound(h)' /\ DraftAbsent(h)' BY <1>2, <1>3 DEF Owned, EarlierFound, DraftAbsent, Reaches
  <1>8. Proven(h)' BY <1>1, <1>2, <1>4 DEF Proven, Delivered, Reaches
  <1> QED BY <1>4, <1>5, <1>6, <1>7, <1>8 DEF SendInv, CallInv

(* A call that is given up leaves its claim, its transmission and its      *)
(* APPEND behind.                                                          *)
LEMMA GivenUpSafe ==
  ASSUME SendInv, NEW h \in Hosts, Only(h), UNCHANGED <<row, accepted, sent, raced>>, Release(h),
         late' \in Abandoned(h), drafts' \in GivenUp(h), call'[h].pc \in {"idle", "done"},
         call'[h].outcome # "result", call'[h].recovered => call[h].recovered /\ Asks(h)' = Asks(h)
  PROVE  SendInv'
  <1> USE DEF At, Asks, Same, IsDraft
  <1>0. TypeOK BY DEF SendInv
  <1>1. drafts' \in [filed : Nat, late : Nat] /\ drafts'.filed = drafts.filed BY <1>0 DEF TypeOK, GivenUp
  <1>2. /\ late' \in [Sends -> Nat] /\ Counted' /\ TruthfulLedger'
        /\ \A d \in Hosts : d # h /\ Owns(d) => late'[Asks(d)] = late[Asks(d)]
    BY <1>1, Abandoning
  <1>3. TypeOK' BY <1>0, <1>1, <1>2, Releasing DEF TypeOK, Only
  <1>4. ASSUME NEW d \in Hosts, d # h PROVE CallInv(d)'
    <2>1. call'[d] = call[d] BY <1>4 DEF Only
    <2>2. \A e \in Hosts : Owns(d) /\ Owns(e)' => e = d BY <1>4 DEF SendInv, CallInv, Owned, Owns, Claiming, Only
    <2> QED BY <1>0, <1>1, <1>2, <1>4, <2>1, <2>2, Releasing, Bystander
  <1>5. CallInv(h)'
    <2>1. Kinded(h) /\ Proven(h) BY DEF SendInv, CallInv
    <2>2. Kinded(h)' BY <2>1 DEF Kinded, Owing, Claiming
    <2>3. Owned(h)' /\ EarlierFound(h)' /\ DraftAbsent(h)' BY DEF Owned, Owns, Claiming, EarlierFound, DraftAbsent
    <2>4. Proven(h)' BY <1>1, <2>1 DEF Proven, Delivered
    <2> QED BY <2>2, <2>3, <2>4 DEF CallInv
  <1>6. DraftFiledOnce' BY <1>1 DEF SendInv, DraftFiledOnce
  <1> QED BY <1>2, <1>3, <1>4, <1>5, <1>6 DEF SendInv

LEMMA AppendLostSafe == ASSUME SendInv, NEW h \in Hosts, AppendLost(h) PROVE SendInv'
  <1>0. TypeOK /\ Kinded(h) /\ Proven(h) /\ call[h].pc = "append" BY DEF SendInv, CallInv, AppendLost, At
  <1> USE DEF At, Asks, IsDraft, Same
  <1>1. call[h].req \in Drafts /\ UNCHANGED <<row, mail>> /\ Release(h) BY <1>0 DEF Kinded, AppendLost
  <1>2. Reaches(h, "done", call[h].verdict, "failed") BY <1>0, Answering DEF AppendLost, Outcomes
  <1>3. CASE drafts' = [drafts EXCEPT !.filed = @ + 1] /\ raced' = (raced \/ lock # h)
    <2>1. /\ drafts' \in [filed : Nat, late : Nat]
          /\ Counted' /\ TruthfulLedger' /\ DraftFiledOnce' /\ drafts'.filed > 0
          /\ \A d \in Hosts : d # h => CallInv(d)'
      BY <1>0, <1>1, <1>2, <1>3, FirstCopy DEF Owns, Claiming, Reaches
    <2>2. TypeOK' BY <1>0, <1>1, <1>2, <1>3, <2>1, Releasing DEF TypeOK, Reaches, Only, mail
    <2>3. Kinded(h)' BY <1>0, <1>2 DEF Kinded, Reaches, Owing, Claiming
    <2>4. Owned(h)' /\ EarlierFound(h)' /\ DraftAbsent(h)'
      BY <1>2 DEF Owned, Owns, Claiming, EarlierFound, DraftAbsent, Reaches
    <2>5. Proven(h)' BY <1>1, <1>2, <2>1 DEF Proven, Delivered, Reaches
    <2> QED BY <2>1, <2>2, <2>3, <2>4, <2>5 DEF SendInv, CallInv
  <1>4. CASE drafts' \in GivenUp(h) /\ raced' = raced
    BY <1>0, <1>1, <1>2, <1>4, GivenUpSafe DEF Reaches, Abandoned, mail
  <1> QED BY <1>3, <1>4 DEF AppendLost

LEMMA CrashSafe == ASSUME SendInv, NEW h \in Hosts, Crash(h) PROVE SendInv'
  <1>0. TypeOK BY DEF SendInv
  <1>1. Only(h) /\ call'[h] = NoCall BY <1>0, Vanishing DEF Crash
  <1> QED BY <1>0, <1>1, Records, GivenUpSafe DEF Crash

-------------------------------------------------------------------------------
(* The record of a submission. *)

LEMMA RecordSafe ==
  ASSUME SendInv, NEW h \in Hosts, At(h, {"finish"}), row.status # "succeeded", Only(h), row' = Finished(h),
         UNCHANGED <<mail, drafts, lock, raced>>,
         call'[h].pc \in {"done", "check"}, call'[h].req = call[h].req, call'[h].recovered = call[h].recovered,
         call'[h].pc = "check" => Asks(h) \in Provable,
         call'[h].pc = "done" /\ call'[h].outcome = "result" => call[h].verdict = "succeeded"
  PROVE  SendInv'
  <1> USE DEF At, Asks, Same, IsDraft, mail
  <1>0. TypeOK /\ Kinded(h) /\ Owned(h) /\ Proven(h) BY DEF SendInv, CallInv
  <1>1. /\ call[h].verdict \in {"succeeded", "not_delivered", "unknown"} /\ row.request = call[h].req
        /\ call[h].req \in Requests /\ (call[h].verdict = "not_delivered" => Owns(h))
    BY <1>0 DEF TypeOK, CallRecords, Kinded, Owing, Owns
  <1>2. row' \in [status : Statuses, request : Requests \cup {NoRequest}]
        /\ row'.status = call[h].verdict /\ row'.request = row.request
    BY <1>0, <1>1 DEF Finished, TypeOK, Statuses
  <1>3. TypeOK' BY <1>0, <1>1, <1>2, SendAssumption DEF TypeOK, Only
  <1>4. \A d \in Hosts : Owns(d)' => Owns(d) /\ d # h BY <1>0 DEF Owns, Claiming, Only
  <1>5. ASSUME NEW d \in Hosts, d # h PROVE CallInv(d)'
    <2>0. CallInv(d) /\ call'[d] = call[d] BY <1>5 DEF SendInv, Only
    <2>1. Owns(d) => \A e \in Hosts : Owns(e)' => e = d BY <1>4, <2>0 DEF CallInv, Owned
    <2>2. CASE call[h].verdict # "not_delivered" BY <1>1, <1>2, <2>0, <2>1, <2>2, Bystander
    <2>3. CASE call[h].verdict = "not_delivered"
      <3>1. ~Owns(d) /\ call[h].req \notin Earlier BY <1>0, <1>1, <1>5, <2>3 DEF Owned
      <3>2. Kinded(d)' /\ DraftAbsent(d)' /\ Proven(d)' BY <1>2, <2>0 DEF CallInv, Kinded, DraftAbsent, Proven, Delivered
      <3>3. Owned(d)' BY <1>4, <3>1 DEF Owned
      <3>4. row' # Absent BY <1>1, <1>2, SendAssumption DEF Absent
      <3>5. EarlierFound(d)' BY <1>1, <1>2, <2>0, <3>1, <3>4 DEF EarlierFound, Claimable
      <3> QED BY <3>2, <3>3, <3>5 DEF CallInv
    <2> QED BY <2>2, <2>3
  <1>6. CallInv(h)'
    <2>1. Kinded(h)' BY <1>0, <1>1, <1>2, SendAssumption DEF Kinded, Owing, Claiming
    <2>2. Owned(h)' /\ EarlierFound(h)' /\ DraftAbsent(h)' BY <1>4 DEF Owned, EarlierFound, DraftAbsent
    <2>3. Proven(h)' BY <1>0 DEF Proven, Delivered
    <2> QED BY <2>1, <2>2, <2>3 DEF CallInv
  <1>7. Counted' BY <1>0, <1>1, <1>2 DEF SendInv, Counted, Proven, Delivered
  <1>8. TruthfulLedger' BY <1>0, <1>1, <1>2, SendAssumption DEF TruthfulLedger, Owned, Proven, Delivered
  <1>9. DraftFiledOnce' BY DEF SendInv, DraftFiledOnce
  <1> QED BY <1>3, <1>5, <1>6, <1>7, <1>8, <1>9 DEF SendInv

(* A record that was lost, or that only repeats a success.                 *)
LEMMA UnrecordedSafe ==
  ASSUME SendInv, NEW h \in Hosts, At(h, {"finish"}), Only(h), UNCHANGED <<row, mail, drafts, lock, raced>>,
         call'[h].pc \in {"done", "check"}, call'[h].req = call[h].req, call'[h].recovered = call[h].recovered,
         call'[h].pc = "check" => Asks(h) \in Provable,
         call'[h].pc = "done" /\ call'[h].outcome = "result" => Delivered(h)
  PROVE  SendInv'
  <1> USE DEF At, Asks, Same, IsDraft, mail
  <1>0. TypeOK /\ Kinded(h) /\ Proven(h) BY DEF SendInv, CallInv
  <1>1. Kinded(h)' BY <1>0, SendAssumption DEF Kinded, Owing, Claiming
  <1>2. Owned(h)' /\ EarlierFound(h)' /\ DraftAbsent(h)' BY DEF Owned, Owns, Claiming, EarlierFound, DraftAbsent
  <1>3. Proven(h)' BY <1>0 DEF Proven, Delivered
  <1> QED BY <1>0, <1>1, <1>2, <1>3, CallOnly DEF CallInv, TypeOK

LEMMA FinishSafe == ASSUME SendInv, NEW h \in Hosts, Finish(h) \/ FinishFails(h) PROVE SendInv'
  <1>0. TypeOK /\ Kinded(h) /\ Proven(h) /\ call[h].pc = "finish" BY DEF SendInv, CallInv, Finish, FinishFails, At
  <1> USE DEF At, Asks, Same, IsDraft
  <1>1. /\ UNCHANGED <<mail, drafts, lock, raced>> /\ row' \in {row, Finished(h)} /\ call[h].verdict # "none"
        /\ row.request = call[h].req
    BY <1>0 DEF Finish, FinishFails, Kinded, Owing
  <1>2. CASE row.status = "succeeded" /\ Becomes(h, Ends(h, "result"))
    <2>1. row' = row BY <1>1, <1>2 DEF Finished
    <2>2. Reaches(h, "done", call[h].verdict, "result") BY <1>0, <1>2, Answering DEF Outcomes
    <2>3. Delivered(h) BY <1>0, <1>1, <1>2, RecordedIsDelivered
    <2> QED BY <1>0, <1>1, <2>1, <2>2, <2>3, UnrecordedSafe DEF Reaches
  <1>3. CASE Becomes(h, Conclusion(h))
    <2>1. \/ call[h].verdict = "succeeded" /\ Reaches(h, "done", call[h].verdict, "result")
          \/ call[h].verdict = "not_delivered" /\ Reaches(h, "done", call[h].verdict, "notDelivered")
          \/ Asks(h) \in Provable /\ call[h].verdict = "unknown" /\ Reaches(h, "check", call[h].verdict, call[h].outcome)
          \/ call[h].verdict = "unknown" /\ Reaches(h, "done", call[h].verdict, "unknown")
      BY <1>0, <1>1, <1>3, Reporting
    <2>2. CASE row' = row BY <1>0, <1>1, <2>1, <2>2, UnrecordedSafe DEF Reaches, Proven
    <2>3. CASE row' # row
      <3>1. row.status # "succeeded" /\ row' = Finished(h) BY <1>1, <2>3 DEF Finished
      <3> QED BY <1>0, <1>1, <2>1, <3>1, RecordSafe DEF Reaches
    <2> QED BY <2>2, <2>3
  <1> QED BY <1>2, <1>3 DEF Finish, FinishFails

LEMMA CheckSafe == ASSUME SendInv, NEW h \in Hosts, Check(h) \/ CheckFails(h) PROVE SendInv'
  <1>0. TypeOK /\ Kinded(h) /\ call[h].pc = "check" BY DEF SendInv, CallInv, Check, CheckFails, At
  <1> USE DEF At, Asks, Same, IsDraft
  <1>1. /\ UNCHANGED <<row, mail, drafts, lock, raced>> /\ call[h].req \in Provable /\ call[h].req \notin Drafts
    BY <1>0 DEF Check, CheckFails, Kinded
  <1>2. CASE sent[call[h].req] = "seen" /\ Becomes(h, Concludes(h, "succeeded"))
    <2>1. Reaches(h, "finish", "succeeded", call[h].outcome) BY <1>0, <1>2, Concluding DEF Verdicts
    <2>2. Delivered(h) BY <1>1, <1>2, SendAssumption DEF SendInv, Counted, Delivered
    <2> QED BY <1>0, <1>1, <2>1, <2>2, OwnerMoves DEF Owing, TypeOK
  <1>3. CASE Becomes(h, Ends(h, "unknown"))
    <2>1. Reaches(h, "done", call[h].verdict, "unknown") BY <1>0, <1>3, Answering DEF Outcomes
    <2> QED BY <1>0, <1>1, <2>1, Unclaimed DEF Reaches, TypeOK
  <1> QED BY <1>2, <1>3 DEF Check, CheckFails

LEMMA ReturnSafe == ASSUME SendInv, NEW h \in Hosts, Return(h) PROVE SendInv'
  <1>0. TypeOK BY DEF SendInv
  <1>1. Only(h) /\ call'[h] = NoCall BY <1>0, Vanishing DEF Return
  <1> QED BY <1>0, <1>1, Records, Unclaimed DEF Return, TypeOK

-------------------------------------------------------------------------------
(* The environment. *)

LEMMA CallsKeep ==
  ASSUME SendInv, UNCHANGED call,
         row' = row \/ (row'.request = row.request /\ row'.status \notin {"absent", "not_delivered"}),
         lock' \in {lock, NoHost}, raced => raced',
         drafts.filed > 0 => drafts'.filed > 0, raced' \/ drafts'.filed = drafts.filed,
         \A q \in Sends : accepted[q] > 0 => accepted'[q] > 0,
         \A d \in Hosts : Owns(d) => late'[Asks(d)] = late[Asks(d)] /\ accepted'[Asks(d)] = accepted[Asks(d)],
         NEW d \in Hosts
  PROVE  CallInv(d)'
  <1>1. lock' = d => lock = d BY SendAssumption
  <1>2. \A e \in Hosts : Owns(d) /\ Owns(e)' => e = d BY DEF SendInv, CallInv, Owned, Owns, At, IsDraft, Asks
  <1> QED BY <1>1, <1>2, Bystander

LEMMA LoseLockSafe == ASSUME SendInv, LoseLock PROVE SendInv'
  <1> USE DEF LoseLock, mail
  <1>1. TypeOK' BY DEF SendInv, TypeOK, At, Asks
  <1>2. \A d \in Hosts : CallInv(d)' BY CallsKeep
  <1>3. Counted' /\ TruthfulLedger' /\ DraftFiledOnce' BY DEF SendInv, Counted, TruthfulLedger, DraftFiledOnce
  <1> QED BY <1>1, <1>2, <1>3 DEF SendInv

LEMMA LateAcceptSafe == ASSUME SendInv, NEW q \in Sends, LateAccept(q) PROVE SendInv'
  <1>0. TypeOK BY DEF SendInv
  <1>1. /\ late[q] = 1 /\ accepted[q] = 0 /\ UNCHANGED <<row, drafts, lock, call, raced>> /\ sent' \in Filed(q)
        /\ late' = [late EXCEPT ![q] = @ - 1] /\ accepted' = [accepted EXCEPT ![q] = @ + 1]
    <2>1. late[q] > 0 /\ accepted[q] + late[q] <= 1 /\ late[q] \in Nat /\ accepted[q] \in Nat
      BY <1>0 DEF LateAccept, SendInv, Counted, TypeOK
    <2> QED BY <2>1 DEF LateAccept
  <1>2. /\ late' \in [Sends -> Nat] /\ accepted' \in [Sends -> Nat] /\ late'[q] = 0 /\ accepted'[q] = 1
        /\ \A p \in Sends : p # q => late'[p] = late[p] /\ accepted'[p] = accepted[p]
    BY <1>0, <1>1 DEF TypeOK
  <1>3. /\ sent' \in [Sends -> {"none", "filed", "seen"}]
        /\ \A p \in Sends : sent[p] = "seen" => sent'[p] = "seen"
        /\ \A p \in Sends : p # q => sent'[p] = sent[p]
    BY <1>0, <1>1, Filing
  <1>4. TypeOK' BY <1>0, <1>1, <1>2, <1>3 DEF TypeOK, At, Asks
  <1>5. ASSUME NEW d \in Hosts, Owns(d)
        PROVE  late'[Asks(d)] = late[Asks(d)] /\ accepted'[Asks(d)] = accepted[Asks(d)]
    <2>1. Owned(d) /\ Asks(d) \in Sends
      BY <1>0, <1>5 DEF SendInv, CallInv, TypeOK, CallRecords, Requests, Owns, At, Asks, IsDraft, Claiming
    <2>2. Asks(d) # q BY <1>1, <1>5, <2>1 DEF Owned
    <2> QED BY <1>2, <2>1, <2>2
  <1>6. \A d \in Hosts : CallInv(d)'
    <2>1. \A p \in Sends : accepted[p] > 0 => accepted'[p] > 0 BY <1>1, <1>2
    <2> QED BY <1>1, <1>5, <2>1, CallsKeep
  <1>7. Counted'
    <2>1. \A p \in Sends : accepted'[p] + late'[p] <= 1 BY <1>1, <1>2 DEF SendInv, Counted
    <2>2. \A p \in Sends \ Earlier : accepted'[p] + late'[p] > 0 => row'.request = p
      BY <1>1, <1>2 DEF SendInv, Counted
    <2>3. \A p \in Earlier : sent'[p] = "seen" BY <1>3, SendAssumption DEF SendInv, Counted
    <2>4. \A p \in Sends : sent'[p] # "none" => accepted'[p] > 0 BY <1>2, <1>3 DEF SendInv, Counted
    <2> QED BY <1>1, <2>1, <2>2, <2>3, <2>4 DEF SendInv, Counted
  <1>8. TruthfulLedger' /\ DraftFiledOnce'
    BY <1>0, <1>1, <1>2 DEF SendInv, TruthfulLedger, DraftFiledOnce
  <1> QED BY <1>4, <1>6, <1>7, <1>8 DEF SendInv

LEMMA LateAppendSafe == ASSUME SendInv, LateAppend PROVE SendInv'
  <1> USE DEF LateAppend, mail
  <1>0. TypeOK BY DEF SendInv
  <1>1. drafts' \in [filed : Nat, late : Nat] /\ drafts'.filed = drafts.filed + 1 /\ raced' BY <1>0 DEF TypeOK
  <1>2. TypeOK' BY <1>0, <1>1 DEF TypeOK, At, Asks
  <1>3. drafts'.filed > 0 BY <1>0, <1>1 DEF TypeOK
  <1>4. \A d \in Hosts : CallInv(d)' BY <1>1, <1>3, CallsKeep
  <1>5. Counted' /\ TruthfulLedger' /\ DraftFiledOnce'
    BY <1>1, <1>3 DEF SendInv, Counted, TruthfulLedger, DraftFiledOnce
  <1> QED BY <1>2, <1>4, <1>5 DEF SendInv

LEMMA ExpireSafe == ASSUME SendInv, Expire PROVE SendInv'
  <1> USE DEF Expire, mail
  <1>0. TypeOK BY DEF SendInv
  <1>1. row' \in [status : Statuses, request : Requests \cup {NoRequest}] /\ row'.status = "unknown"
        /\ row'.request = row.request /\ row.request # NoRequest
    BY <1>0 DEF TypeOK, Statuses
  <1>2. TypeOK' BY <1>0, <1>1 DEF TypeOK, At, Asks
  <1>3. \A d \in Hosts : CallInv(d)' BY <1>1, CallsKeep
  <1>4. Counted' /\ TruthfulLedger' /\ DraftFiledOnce' BY <1>1 DEF SendInv, Counted, TruthfulLedger, DraftFiledOnce
  <1> QED BY <1>2, <1>3, <1>4 DEF SendInv

LEMMA MirrorSentSafe == ASSUME SendInv, NEW q \in Sends, MirrorSent(q) PROVE SendInv'
  <1> USE DEF MirrorSent
  <1>0. TypeOK /\ accepted[q] > 0 BY DEF SendInv, Counted
  <1>1. sent' \in [Sends -> {"none", "filed", "seen"}] /\ Counted' /\ TruthfulLedger' BY <1>0, CopyCounted
  <1>2. TypeOK' BY <1>0, <1>1 DEF TypeOK, At, Asks
  <1>3. \A d \in Hosts : CallInv(d)' BY CallsKeep
  <1>4. DraftFiledOnce' BY DEF SendInv, DraftFiledOnce
  <1> QED BY <1>1, <1>2, <1>3, <1>4 DEF SendInv

-------------------------------------------------------------------------------
(* The theorems. *)

LEMMA InitSafe == Init => SendInv
  <1> SUFFICES ASSUME Init PROVE SendInv OBVIOUS
  <1> USE DEF Init, At, Asks, Same, IsDraft
  <1>1. \A h \in Hosts : call[h] = NoCall BY DEF Init
  <1>2. NoCall \in CallRecords /\ NoCall.pc = "idle" /\ NoCall.req = NoRequest /\ ~NoCall.recovered
    BY DEF NoCall, CallRecords, Stages
  <1>3. TypeOK BY <1>1, <1>2 DEF TypeOK, Absent, Statuses
  <1>4. \A h \in Hosts : CallInv(h)
    BY <1>1, <1>2 DEF CallInv, Kinded, Owned, Owns, Owing, Claiming, EarlierFound, Proven, DraftAbsent
  <1>5. Counted /\ TruthfulLedger /\ DraftFiledOnce
    BY SendAssumption DEF Counted, TruthfulLedger, DraftFiledOnce, Absent, Requests
  <1> QED BY <1>3, <1>4, <1>5 DEF SendInv

LEMMA NextSafe == SendInv /\ [Next]_vars => SendInv'
  <1> SUFFICES ASSUME SendInv, [Next]_vars PROVE SendInv' OBVIOUS
  <1>1. ASSUME NEW h \in Hosts, CallStep(h) PROVE SendInv'
    <2>1. CASE Ledger(h)
      BY <2>1, ReplayDraftSafe, ReplaySendSafe, RefreshSafe, GetSafe, LookupSafe, StartSafe DEF Ledger
    <2>2. CASE Submission(h) BY <2>2, LockSafe, TransmitSafe, AcceptSafe, ReceiptSafe, FileSentSafe DEF Submission
    <2>3. CASE Refusal(h) BY <2>3, NotSubmittedSafe, RefuseSafe, ReplyLostSafe DEF Refusal
    <2>4. CASE Saving(h) BY <2>4, FindSafe, MarkSafe, AppendSafe DEF Saving
    <2>5. CASE Ending(h) BY <2>5, FinishSafe, CheckSafe, ReturnSafe DEF Ending
    <2> QED BY <1>1, <2>1, <2>2, <2>3, <2>4, <2>5 DEF CallStep
  <1>2. ASSUME NEW h \in Hosts, Failure(h) PROVE SendInv'
    BY <1>2, StoreFailsSafe, DraftFailsSafe, AppendLostSafe, FinishSafe, CheckSafe, CrashSafe DEF Failure
  <1>3. CASE UNCHANGED vars
    <2>1. UNCHANGED <<row, accepted, late, sent, drafts, lock, call, raced>> BY <1>3 DEF vars
    <2>2. \A d \in Hosts : CallInv(d)' BY <2>1, CallsKeep
    <2>3. TypeOK' /\ Counted' /\ TruthfulLedger' /\ DraftFiledOnce'
      BY <2>1 DEF SendInv, TypeOK, At, Asks, Counted, TruthfulLedger, DraftFiledOnce
    <2> QED BY <2>2, <2>3 DEF SendInv
  <1> QED BY <1>1, <1>2, <1>3, InvokeSafe, LoseLockSafe, LateAppendSafe, ExpireSafe, LateAcceptSafe, MirrorSentSafe DEF Next

(* The invariant holds of every behaviour of the policy (send-operations). *)
THEOREM SendInvariant == Spec => []SendInv
  BY InitSafe, NextSafe, PTL DEF Spec

(* Every variable keeps its type (the ledger, the calls, the mail).        *)
THEOREM TypeCorrect == Spec => []TypeOK
  <1>1. SendInv => TypeOK BY DEF SendInv
  <1> QED BY <1>1, SendInvariant, PTL

(* A key submits at most one email, at most once (runSendOperation).       *)
THEOREM AtMostOnceHolds == Spec => []AtMostOnce
  <1>1. SendInv => AtMostOnce
    <2> SUFFICES ASSUME SendInv, NEW p \in Sends, NEW q \in Sends
                 PROVE  /\ accepted[q] <= 1
                        /\ accepted[p] > 0 /\ accepted[q] > 0 /\ {p, q} \cap Earlier = {} => p = q
      BY DEF AtMostOnce
    <2>1. \A r \in {p, q} : accepted[r] \in Nat /\ late[r] \in Nat /\ accepted[r] + late[r] <= 1
      BY DEF SendInv, TypeOK, Counted
    <2>2. ASSUME accepted[p] > 0, accepted[q] > 0, {p, q} \cap Earlier = {} PROVE p = q
      <3>1. p \in Sends \ Earlier /\ q \in Sends \ Earlier BY <2>2
      <3>2. row.request = p /\ row.request = q BY <2>1, <2>2, <3>1 DEF SendInv, Counted
      <3> QED BY <3>2
    <2> QED BY <2>1, <2>2
  <1> QED BY <1>1, SendInvariant, PTL

(* The ledger never calls an email retryable that was or may yet be        *)
(* accepted, nor delivered that was not (store.finish).                    *)
THEOREM TruthfulLedgerHolds == Spec => []TruthfulLedger
  <1>1. SendInv => TruthfulLedger BY DEF SendInv
  <1> QED BY <1>1, SendInvariant, PTL

(* A reported result is of the call's own email or draft                   *)
(* (sameSendOperation, reconcileOperation).                                *)
THEOREM TruthfulAnswersHolds == Spec => []TruthfulAnswers
  <1>1. SendInv => TruthfulAnswers BY DEF SendInv, CallInv, Proven, Delivered, TruthfulAnswers
  <1> QED BY <1>1, SendInvariant, PTL

(* A key files one draft while APPENDs take effect under the lock that     *)
(* checked its absence (fileDraft).                                        *)
THEOREM DraftFiledOnceHolds == Spec => []DraftFiledOnce
  <1>1. SendInv => DraftFiledOnce BY DEF SendInv
  <1> QED BY <1>1, SendInvariant, PTL

-------------------------------------------------------------------------------
(* The typed non-delivery. *)

LEMMA Answers ==
  ASSUME TypeOK, NEW h \in Hosts
  PROVE  /\ \A p : Goes(h, p).outcome = call[h].outcome
         /\ \A o : Ends(h, o).outcome = o
         /\ \A v : Concludes(h, v).outcome = call[h].outcome
         /\ NoCall.outcome = "none"
         /\ Uncertain(h).outcome \in {call[h].outcome, "unknown"}
         /\ Resolve(h).outcome \in {call[h].outcome, "result", "unknown", "inProgress"}
  <1>1. /\ \A p : Goes(h, p).outcome = call[h].outcome
        /\ \A o : Ends(h, o).outcome = o
        /\ \A v : Concludes(h, v).outcome = call[h].outcome
    BY Records DEF Goes, Ends, Concludes, CallRecords
  <1>2. Uncertain(h).outcome \in {call[h].outcome, "unknown"} BY <1>1 DEF Uncertain
  <1>3. CASE row.status = "succeeded" BY <1>1, <1>2, <1>3, Records DEF Resolve
  <1>4. CASE row.status = "unknown"
    <2>1. Resolve(h) = Uncertain(h) BY <1>4 DEF Resolve
    <2> QED BY <1>1, <1>2, <2>1, Records
  <1>5. CASE row.status \notin {"succeeded", "unknown"}
    <2>1. Resolve(h) = Ends(h, "inProgress") BY <1>5 DEF Resolve
    <2> QED BY <1>1, <1>2, <2>1, Records
  <1> QED BY <1>3, <1>4, <1>5

(* Only the end of a call whose own attempt delivered nothing says so.     *)
Says(h, r) ==
  Becomes(h, r) /\ (r.outcome = "notDelivered" /\ call[h].outcome # "notDelivered"
                      => At(h, {"finish"}) /\ call[h].verdict = "not_delivered")

LEMMA StepSays ==
  ASSUME SendInv, NEW h \in Hosts, CallStep(h) \/ Failure(h) \/ \E q \in Requests : Invoke(h, q)
  PROVE  \E r : Says(h, r)
  <1>0. TypeOK BY DEF SendInv
  <1> USE DEF Says
  <1>1. CASE \E q \in Requests : Invoke(h, q)
    <2>0. PICK q \in Requests : Invoke(h, q) BY <1>1
    <2>1. PICK replays \in BOOLEAN :
             Becomes(h, [NoCall EXCEPT !.req = q, !.pc = IF replays THEN "replay" ELSE IF q \in Drafts THEN "start" ELSE "get"])
      BY <2>0 DEF Invoke
    <2> DEFINE r == [NoCall EXCEPT !.req = q, !.pc = IF replays THEN "replay" ELSE IF q \in Drafts THEN "start" ELSE "get"]
    <2>2. r.outcome = "none" BY DEF NoCall
    <2> HIDE DEF r
    <2>3. Becomes(h, r) BY <2>1 DEF r
    <2> QED BY <2>2, <2>3
  <1>2. CASE Ledger(h)
    <2>1. CASE Lookup(h)
      <3> DEFINE r == [Goes(h, "start") EXCEPT !.recovered = sent[Asks(h)] = "seen"]
      <3>1. r.outcome = call[h].outcome BY <1>0, Records DEF Goes, CallRecords
      <3> QED BY <2>1, <3>1 DEF Lookup
    <2>2. CASE replayDraftSaveOperation(h) BY <1>0, <2>2, Answers DEF replayDraftSaveOperation
    <2>3. CASE replaySendOperation(h) BY <1>0, <2>3, Answers DEF replaySendOperation
    <2>4. CASE Refresh(h) \/ Get(h) BY <1>0, <2>4, Answers DEF Refresh, Get
    <2>5. CASE Start(h) BY <1>0, <2>5, Answers DEF Start
    <2> QED BY <1>2, <2>1, <2>2, <2>3, <2>4, <2>5 DEF Ledger
  <1>3. CASE Submission(h) BY <1>0, <1>3, Answers DEF Submission, Lock, Transmit, Accept, Receipt, FileSent
  <1>4. CASE Refusal(h) BY <1>0, <1>4, Answers DEF Refusal, NotSubmitted, Refuse, ReplyLost
  <1>5. CASE Saving(h) BY <1>0, <1>5, Answers DEF Saving, Find, Mark, Marked, Append
  <1>6. CASE Finish(h) \/ FinishFails(h)
    <2>1. At(h, {"finish"}) /\ call[h].verdict # "none" BY <1>6 DEF Finish, FinishFails, SendInv, CallInv, Kinded
    <2>2. CASE call[h].verdict = "not_delivered" BY <1>6, <2>1, <2>2 DEF Finish, FinishFails
    <2>3. CASE call[h].verdict = "succeeded"
      <3>1. Becomes(h, Ends(h, "result")) BY <1>6, <2>3 DEF Finish, FinishFails, Conclusion
      <3> QED BY <1>0, <3>1, Answers
    <2>4. CASE call[h].verdict = "unknown"
      <3>1. Becomes(h, Ends(h, "result")) \/ Becomes(h, Uncertain(h)) BY <1>6, <2>4 DEF Finish, FinishFails, Conclusion
      <3> QED BY <1>0, <3>1, Answers
    <2> QED BY <1>0, <2>1, <2>2, <2>3, <2>4, Records DEF CallRecords
  <1>7. CASE Check(h) \/ CheckFails(h) \/ Return(h) BY <1>0, <1>7, Answers DEF Check, CheckFails, Return
  <1>8. CASE StoreFails(h) \/ DraftFails(h) \/ AppendLost(h) \/ Crash(h)
    BY <1>0, <1>8, Answers DEF StoreFails, DraftFails, AppendLost, Crash
  <1> QED BY <1>1, <1>2, <1>3, <1>4, <1>5, <1>6, <1>7, <1>8 DEF CallStep, Ending, Failure

(* A caller that hears the typed non-delivery may send again (safeFailure). *)
THEOREM NotDeliveredIsSafeHolds == Spec => NotDeliveredIsSafe
  <1> DEFINE Safe == \A h \in Hosts : call'[h].outcome = "notDelivered" /\ call[h].outcome # "notDelivered" =>
                       accepted[Asks(h)] = 0 /\ late[Asks(h)] = 0
  <1>1. ASSUME SendInv, Next PROVE Safe
    <2> SUFFICES ASSUME NEW d \in Hosts, call'[d].outcome = "notDelivered", call[d].outcome # "notDelivered"
                 PROVE  accepted[Asks(d)] = 0 /\ late[Asks(d)] = 0
      OBVIOUS
    <2>0. TypeOK /\ Kinded(d) /\ Owned(d) BY <1>1 DEF SendInv, CallInv
    <2>1. PICK h \in Hosts : CallStep(h) \/ Failure(h) \/ \E q \in Requests : Invoke(h, q)
      BY <1>1 DEF Next, LoseLock, LateAppend, Expire, LateAccept, MirrorSent
    <2>2. PICK r : Says(h, r) BY <1>1, <2>1, StepSays
    <2>3. h = d /\ call'[d] = r BY <2>0, <2>2 DEF Says, Becomes, TypeOK
    <2>4. At(d, {"finish"}) /\ call[d].verdict = "not_delivered" BY <2>2, <2>3 DEF Says
    <2> QED BY <2>0, <2>4 DEF Kinded, Owned, Owns, At
  <1>2. SendInv /\ [Next]_vars => [Safe]_vars BY <1>1
  <1> QED BY <1>2, SendInvariant, PTL DEF Spec, NotDeliveredIsSafe

-------------------------------------------------------------------------------
(* The promise: SendOperations implements SendPromise. *)

(* What one step of a call does to what the promise speaks of: nothing, a  *)
(* claim, a final word, an email accepted or given up, a draft.            *)
Reads == UNCHANGED <<row, accepted, late, drafts>>
Claims(h) ==
  /\ At(h, {"start"}) /\ Claimable(h) /\ row' = [status |-> "submitting", request |-> Asks(h)]
  /\ UNCHANGED <<accepted, late, drafts>>
FinalWord(h) ==
  /\ At(h, {"finish"}) /\ row.status # "succeeded" /\ row' = [row EXCEPT !.status = call[h].verdict]
  /\ UNCHANGED <<accepted, late, drafts>>
Submits(h) ==
  /\ At(h, {"reply"})
  /\ \/ accepted' = [accepted EXCEPT ![Asks(h)] = @ + 1] /\ late' = late
     \/ late' = [late EXCEPT ![Asks(h)] = @ + 1] /\ accepted' = accepted
  /\ UNCHANGED <<row, drafts>>
Files(h) ==
  /\ At(h, {"append"}) /\ drafts' \in [filed : Nat, late : Nat] /\ drafts'.filed >= drafts.filed
  /\ UNCHANGED <<row, accepted, late>>

LEMMA Fields ==
  ASSUME TypeOK, NEW h \in Hosts
  PROVE  /\ \A p : Goes(h, p).pc = p /\ Goes(h, p).req = call[h].req
         /\ \A o : Ends(h, o).pc = "done"
         /\ \A v : Concludes(h, v).pc = "finish" /\ Concludes(h, v).req = call[h].req /\ Concludes(h, v).verdict = v
         /\ NoCall.pc = "idle"
         /\ Uncertain(h).pc \in {"check", "done"} /\ Resolve(h).pc \in {"check", "done"}
         /\ Conclusion(h).pc \in {"check", "done"} \/ call[h].verdict = "none"
  <1>1. /\ \A p : Goes(h, p).pc = p /\ Goes(h, p).req = call[h].req
        /\ \A o : Ends(h, o).pc = "done"
        /\ \A v : Concludes(h, v).pc = "finish" /\ Concludes(h, v).req = call[h].req /\ Concludes(h, v).verdict = v
    BY Records DEF Goes, Ends, Concludes, CallRecords
  <1>2. Uncertain(h).pc \in {"check", "done"} BY <1>1 DEF Uncertain
  <1>3. ASSUME row.status = "unknown" PROVE Resolve(h).pc \in {"check", "done"}
    <2>1. Resolve(h) = Uncertain(h) BY <1>3 DEF Resolve
    <2> QED BY <1>2, <2>1
  <1>4. ASSUME row.status # "unknown" PROVE Resolve(h).pc \in {"check", "done"}
    <2>1. Resolve(h) \in {Ends(h, "result"), Ends(h, "inProgress")} BY <1>4 DEF Resolve
    <2> QED BY <1>1, <2>1
  <1>5. Resolve(h).pc \in {"check", "done"} BY <1>3, <1>4
  <1>6. call[h].verdict \in {"none", "succeeded", "not_delivered", "unknown"} BY Records DEF CallRecords
  <1>7. ASSUME call[h].verdict = "succeeded" PROVE Conclusion(h).pc \in {"check", "done"}
    <2>1. Conclusion(h) = Ends(h, "result") BY <1>7 DEF Conclusion
    <2> QED BY <1>1, <2>1
  <1>8. ASSUME call[h].verdict = "not_delivered" PROVE Conclusion(h).pc \in {"check", "done"}
    <2>1. Conclusion(h) = Ends(h, "notDelivered") BY <1>8 DEF Conclusion
    <2> QED BY <1>1, <2>1
  <1>9. ASSUME call[h].verdict = "unknown" PROVE Conclusion(h).pc \in {"check", "done"}
    <2>1. Conclusion(h) = Uncertain(h) BY <1>9 DEF Conclusion
    <2> QED BY <1>2, <2>1
  <1>10. Conclusion(h).pc \in {"check", "done"} \/ call[h].verdict = "none" BY <1>6, <1>7, <1>8, <1>9
  <1> QED BY <1>1, <1>2, <1>5, <1>10, Records

(* A call starts to own the key by its claim only, and gives its attempt   *)
(* up as its owner only.                                                   *)
GoesOn(h, r) ==
  /\ Becomes(h, r)
  /\ r.pc \in Claiming =>
       r.req = call[h].req /\ (At(h, Claiming) \/ IsDraft(h) \/ (At(h, {"start"}) /\ Claimable(h)))
  /\ r.pc = "finish" =>
       r.req = call[h].req /\ (At(h, Claiming) \/ IsDraft(h) \/ r.verdict = "succeeded")

LEMMA StepGoesOn ==
  ASSUME SendInv, NEW h \in Hosts, CallStep(h) \/ Failure(h) \/ \E q \in Requests : Invoke(h, q)
  PROVE  \E r : GoesOn(h, r)
  <1>0. TypeOK BY DEF SendInv
  <1> USE DEF GoesOn, Claiming, At
  <1>1. CASE \E q \in Requests : Invoke(h, q)
    <2>0. PICK q \in Requests : Invoke(h, q) BY <1>1
    <2>1. PICK replays \in BOOLEAN :
             Becomes(h, [NoCall EXCEPT !.req = q, !.pc = IF replays THEN "replay" ELSE IF q \in Drafts THEN "start" ELSE "get"])
      BY <2>0 DEF Invoke
    <2> DEFINE r == [NoCall EXCEPT !.req = q, !.pc = IF replays THEN "replay" ELSE IF q \in Drafts THEN "start" ELSE "get"]
    <2>2. r.pc \in {"replay", "start", "get"} BY DEF NoCall
    <2> HIDE DEF r
    <2>3. Becomes(h, r) BY <2>1 DEF r
    <2> QED BY <2>2, <2>3
  <1>2. CASE Ledger(h)
    <2>1. CASE Lookup(h)
      <3> DEFINE r == [Goes(h, "start") EXCEPT !.recovered = sent[Asks(h)] = "seen"]
      <3>1. r.pc = "start" BY <1>0, Records DEF Goes, CallRecords
      <3>2. Becomes(h, r) BY <2>1 DEF Lookup
      <3> HIDE DEF r
      <3> QED BY <3>1, <3>2
    <2>2. CASE replayDraftSaveOperation(h) BY <1>0, <2>2, Fields DEF replayDraftSaveOperation
    <2>3. CASE replaySendOperation(h) BY <1>0, <2>3, Fields DEF replaySendOperation
    <2>4. CASE Refresh(h) \/ Get(h) BY <1>0, <2>4, Fields DEF Refresh, Get
    <2>5. CASE Start(h) BY <1>0, <2>5, Fields DEF Start
    <2> QED BY <1>2, <2>1, <2>2, <2>3, <2>4, <2>5 DEF Ledger
  <1>3. CASE Submission(h) BY <1>0, <1>3, Fields DEF Submission, Lock, Transmit, Accept, Receipt, FileSent
  <1>4. CASE Refusal(h) BY <1>0, <1>4, Fields DEF Refusal, NotSubmitted, Refuse, ReplyLost
  <1>5. CASE Saving(h)
    <2>1. IsDraft(h) BY <1>5 DEF Saving, Find, Mark, Append, SendInv, CallInv, Kinded
    <2> QED BY <1>0, <1>5, <2>1, Fields DEF Saving, Find, Mark, Marked, Append
  <1>6. CASE Finish(h) \/ FinishFails(h)
    <2>1. call[h].verdict # "none" BY <1>6 DEF Finish, FinishFails, SendInv, CallInv, Kinded
    <2> QED BY <1>0, <1>6, <2>1, Fields DEF Finish, FinishFails
  <1>7. CASE Check(h) \/ CheckFails(h) \/ Return(h) BY <1>0, <1>7, Fields DEF Check, CheckFails, Return
  <1>8. CASE StoreFails(h) \/ DraftFails(h) \/ AppendLost(h) \/ Crash(h)
    BY <1>0, <1>8, Fields DEF StoreFails, DraftFails, AppendLost, Crash
  <1> QED BY <1>1, <1>2, <1>3, <1>4, <1>5, <1>6, <1>7, <1>8 DEF CallStep, Ending, Failure

LEMMA StepEffect ==
  ASSUME SendInv, NEW h \in Hosts, CallStep(h) \/ Failure(h) \/ \E q \in Requests : Invoke(h, q)
  PROVE  Reads \/ Claims(h) \/ FinalWord(h) \/ Submits(h) \/ Files(h)
  <1>0. TypeOK BY DEF SendInv
  <1> USE DEF At, mail
  <1>1. CASE \E q \in Requests : Invoke(h, q) BY <1>1 DEF Invoke, Reads
  <1>2. CASE Start(h) \/ StoreFails(h) BY <1>2 DEF Start, StoreFails, Claimed, Claims, Reads
  <1>3. CASE replayDraftSaveOperation(h) \/ replaySendOperation(h) \/ Refresh(h) \/ Get(h) \/ Lookup(h)
    BY <1>3 DEF replayDraftSaveOperation, replaySendOperation, Refresh, Get, Lookup, Reads
  <1>4. CASE Accept(h) BY <1>4 DEF Accept, Submits
  <1>5. CASE Lock(h) \/ Transmit(h) \/ Receipt(h) \/ FileSent(h) BY <1>5 DEF Lock, Transmit, Receipt, FileSent, Reads
  <1>6. CASE NotSubmitted(h) \/ Refuse(h) BY <1>6 DEF NotSubmitted, Refuse, Reads
  <1>7. CASE ReplyLost(h) BY <1>7 DEF ReplyLost, Abandoned, Reads, Submits
  <1>8. CASE Find(h) \/ Mark(h) BY <1>8 DEF Find, Mark, Reads
  <1>9. CASE Append(h) \/ AppendLost(h)
    <2>1. call[h].pc = "append" /\ UNCHANGED <<row, accepted, late>> BY <1>9 DEF Append, AppendLost
    <2>2. drafts' = [drafts EXCEPT !.filed = @ + 1] \/ drafts' \in GivenUp(h) BY <1>9 DEF Append, AppendLost
    <2>3. drafts' \in [filed : Nat, late : Nat] /\ drafts'.filed >= drafts.filed BY <1>0, <2>2 DEF TypeOK, GivenUp
    <2> QED BY <2>1, <2>3 DEF Files
  <1>10. CASE Finish(h) \/ FinishFails(h) BY <1>10 DEF Finish, FinishFails, Finished, FinalWord, Reads
  <1>11. CASE Check(h) \/ CheckFails(h) \/ Return(h) BY <1>11 DEF Check, CheckFails, Return, Reads
  <1>12. CASE DraftFails(h) BY <1>12 DEF DraftFails, Reads
  <1>13. CASE Crash(h)
    <2>1. UNCHANGED <<row, accepted>> /\ late' \in Abandoned(h) /\ drafts' \in GivenUp(h) BY <1>13 DEF Crash
    <2>2. CASE call[h].pc = "append"
      <3>1. late' = late BY <2>1, <2>2 DEF Abandoned
      <3>2. drafts' \in [filed : Nat, late : Nat] /\ drafts'.filed >= drafts.filed BY <1>0, <2>1 DEF TypeOK, GivenUp
      <3> QED BY <2>1, <2>2, <3>1, <3>2 DEF Files
    <2>3. CASE call[h].pc # "append"
      <3>1. drafts' = drafts BY <2>1, <2>3 DEF GivenUp
      <3> QED BY <2>1, <3>1 DEF Abandoned, Reads, Submits
    <2> QED BY <2>2, <2>3
  <1> QED BY <1>1, <1>2, <1>3, <1>4, <1>5, <1>6, <1>7, <1>8, <1>9, <1>10, <1>11, <1>12, <1>13
          DEF CallStep, Ledger, Submission, Refusal, Saving, Ending, Failure

(* The steps of the environment, seen the same way.                        *)
Arrives(q) ==
  /\ late[q] > 0 /\ accepted' = [accepted EXCEPT ![q] = @ + 1] /\ late' = [late EXCEPT ![q] = @ - 1]
  /\ UNCHANGED <<row, drafts>>
DraftArrives ==
  /\ drafts.late > 0 /\ drafts' = [filed |-> drafts.filed + 1, late |-> drafts.late - 1]
  /\ UNCHANGED <<row, accepted, late>>
Expires ==
  /\ row.status = "submitting" /\ row' = [row EXCEPT !.status = "unknown"]
  /\ UNCHANGED <<accepted, late, drafts>>

LEMMA EveryStep ==
  ASSUME SendInv, [Next]_vars
  PROVE  \/ \E h \in Hosts :
              /\ \E r : GoesOn(h, r)
              /\ Reads \/ Claims(h) \/ FinalWord(h) \/ Submits(h) \/ Files(h)
         \/ /\ call' = call
            /\ Reads \/ DraftArrives \/ Expires \/ \E q \in Sends : Arrives(q)
  <1>1. CASE \E h \in Hosts : CallStep(h) \/ Failure(h) \/ \E q \in Requests : Invoke(h, q)
    BY <1>1, StepGoesOn, StepEffect
  <1>2. CASE LoseLock \/ UNCHANGED vars BY <1>2 DEF LoseLock, vars, mail, Reads
  <1>3. CASE LateAppend BY <1>3 DEF LateAppend, mail, DraftArrives
  <1>4. CASE Expire BY <1>4 DEF Expire, mail, Expires
  <1>5. CASE \E q \in Sends : LateAccept(q) \/ MirrorSent(q) BY <1>5 DEF LateAccept, MirrorSent, Arrives, Reads
  <1> QED BY <1>1, <1>2, <1>3, <1>4, <1>5 DEF Next

(* While a call doubts, no step of another reopens or owns the key.        *)
LEMMA DoubtStep == SendInv /\ DoubtLasts /\ [Next]_vars => DoubtLasts'
  <1> SUFFICES ASSUME SendInv, DoubtLasts, [Next]_vars, NEW d \in Hosts, Doubts(d)'
               PROVE  row'.status # "not_delivered" /\ \A e \in Hosts : ~Owns(e)'
    BY DEF DoubtLasts
  <1> USE DEF At, Asks, IsDraft, Doubts
  <1>0. TypeOK /\ SendInv' BY NextSafe DEF SendInv
  <1>1. ASSUME NEW h \in Hosts, NEW r, GoesOn(h, r),
               Reads \/ Claims(h) \/ FinalWord(h) \/ Submits(h) \/ Files(h)
        PROVE  row'.status # "not_delivered" /\ \A e \in Hosts : ~Owns(e)'
    <2>0. call' = [call EXCEPT ![h] = r] /\ call'[h] = r /\ \A e \in Hosts : e # h => call'[e] = call[e]
      BY <1>0, <1>1 DEF GoesOn, Becomes, TypeOK
    <2>1. Kinded(h) /\ Owned(h) /\ Kinded(h)' BY <1>0 DEF SendInv, CallInv
    <2>2. \A e \in Hosts : e # h => Owns(e)' = Owns(e) BY <2>0 DEF Owns
    <2>3. CASE d = h
      <3>1. r.pc = "finish" /\ r.verdict = "unknown" BY <2>0, <2>3
      <3>2. ~(r.req \in Drafts) BY <2>0, <2>1, <3>1 DEF Kinded
      <3>3. At(h, Claiming) /\ Owns(h) BY <1>1, <3>1, <3>2 DEF GoesOn, Owns
      <3>4. row' = row BY <1>1, <3>3 DEF Reads, Claims, FinalWord, Submits, Files, Claiming
      <3>5. ~Owns(h)' BY <2>0, <3>1 DEF Owns, Claiming
      <3>6. \A e \in Hosts : Owns(e) => e = h BY <2>1, <3>3 DEF Owned
      <3> QED BY <2>1, <2>2, <3>3, <3>4, <3>5, <3>6 DEF Owned
    <2>4. CASE d # h
      <3>1. Doubts(d) BY <2>0, <2>4
      <3>2. row.status # "not_delivered" /\ \A e \in Hosts : ~Owns(e) BY <3>1 DEF DoubtLasts
      <3>3. Kinded(d) /\ row.request = call[d].req /\ call[d].req # NoRequest
        BY <1>0, <3>1 DEF SendInv, CallInv, Kinded, Owing, Same, TypeOK
      <3>4. ~Claimable(h) BY <3>2, <3>3 DEF Claimable, Absent
      <3>5. ~Owns(h)'
        <4>1. CASE r.pc \in Claiming
          <5>1. r.req = call[h].req /\ (At(h, Claiming) \/ IsDraft(h)) BY <1>1, <3>4, <4>1 DEF GoesOn
          <5> QED BY <2>0, <3>2, <5>1 DEF Owns, Claiming
        <4>2. CASE r.pc = "finish" /\ r.verdict = "not_delivered"
          <5>1. r.req = call[h].req /\ (At(h, Claiming) \/ IsDraft(h)) BY <1>1, <4>2 DEF GoesOn
          <5> QED BY <2>0, <3>2, <5>1 DEF Owns, Claiming
        <4> QED BY <2>0, <4>1, <4>2 DEF Owns
      <3>6. row'.status # "not_delivered"
        <4>1. CASE FinalWord(h)
          <5>1. call[h].verdict # "not_delivered" BY <2>1, <3>2, <4>1 DEF FinalWord, Owns, Kinded
          <5>2. row'.status = call[h].verdict BY <1>0, <4>1 DEF FinalWord, TypeOK
          <5> QED BY <5>1, <5>2
        <4> QED BY <1>1, <3>2, <3>4, <4>1 DEF Reads, Claims, Submits, Files
      <3> QED BY <2>2, <3>2, <3>5, <3>6
    <2> QED BY <2>3, <2>4
  <1>2. CASE call' = call /\ (Reads \/ DraftArrives \/ Expires \/ \E q \in Sends : Arrives(q))
    <2>1. Doubts(d) BY <1>2
    <2>2. row.status # "not_delivered" /\ \A e \in Hosts : ~Owns(e) BY <2>1 DEF DoubtLasts
    <2>3. row'.status # "not_delivered"
      <3>1. CASE Expires BY <1>0, <3>1 DEF Expires, TypeOK
      <3> QED BY <1>2, <2>2, <3>1 DEF Reads, DraftArrives, Arrives
    <2>4. \A e \in Hosts : Owns(e)' = Owns(e) BY <1>2 DEF Owns
    <2> QED BY <2>2, <2>3, <2>4
  <1> QED BY <1>1, <1>2, EveryStep

LEMMA DraftStep == SendInv /\ DraftsOfKey /\ [Next]_vars => DraftsOfKey'
  <1> SUFFICES ASSUME SendInv, DraftsOfKey, [Next]_vars PROVE DraftsOfKey' OBVIOUS
  <1> USE DEF At, Asks, IsDraft, Same
  <1>0. TypeOK BY DEF SendInv
  <1>1. CASE Reads \/ \E q \in Sends : Arrives(q) BY <1>1 DEF Reads, Arrives, DraftsOfKey
  <1>2. CASE DraftArrives BY <1>0, <1>2 DEF DraftArrives, DraftsOfKey, TypeOK
  <1>3. CASE Expires
    <2>1. row'.request = row.request /\ row'.status = "unknown" BY <1>0, <1>3 DEF Expires, TypeOK
    <2> QED BY <1>3, <2>1 DEF Expires, DraftsOfKey
  <1>4. ASSUME NEW h \in Hosts, Claims(h) PROVE DraftsOfKey'
    <2>1. drafts' = drafts /\ row'.request = call[h].req /\ row'.status = "submitting" BY <1>4 DEF Claims
    <2>2. row.request = NoRequest \/ row.request = call[h].req BY <1>4 DEF Claims, Claimable, Absent
    <2>3. NoRequest \notin Drafts BY SendAssumption DEF Requests
    <2> QED BY <2>1, <2>2, <2>3 DEF DraftsOfKey
  <1>5. ASSUME NEW h \in Hosts, FinalWord(h) PROVE DraftsOfKey'
    <2>1. Kinded(h) BY DEF SendInv, CallInv
    <2>2. drafts' = drafts /\ row'.request = row.request /\ row'.status = call[h].verdict
      BY <1>0, <1>5 DEF FinalWord, TypeOK
    <2>3. row.request = call[h].req /\ (call[h].req \in Drafts => call[h].verdict = "succeeded")
      BY <1>5, <2>1 DEF FinalWord, Kinded, Owing
    <2> QED BY <2>2, <2>3 DEF DraftsOfKey
  <1>6. ASSUME NEW h \in Hosts, Submits(h) PROVE DraftsOfKey' BY <1>6 DEF Submits, DraftsOfKey
  <1>7. ASSUME NEW h \in Hosts, Files(h) PROVE DraftsOfKey'
    <2>1. Kinded(h) BY DEF SendInv, CallInv
    <2>2. row' = row /\ row.request \in Drafts BY <1>7, <2>1 DEF Files, Kinded, Owing
    <2> QED BY <2>2 DEF DraftsOfKey
  <1> QED BY <1>1, <1>2, <1>3, <1>4, <1>5, <1>6, <1>7, EveryStep
LEMMA PromiseInit == Init => Promise!Init
  <1> SUFFICES ASSUME Init PROVE Promise!Init OBVIOUS
  <1>1. Pending = {} BY DEF Init, Pending
  <1>2. HasDraft = FALSE BY DEF Init, HasDraft
  <1> QED BY <1>1, <1>2 DEF Init, Promise!Init, Absent

(* An email that the owner of the key submits, or that was given up, is    *)
(* the key's, was never accepted, and no final word was said of it.        *)
LEMMA SubmitsOwn ==
  ASSUME SendInv, NEW h \in Hosts, At(h, {"reply"})
  PROVE  /\ Asks(h) \in Sends /\ row.request = Asks(h) /\ row.status \in {"submitting", "unknown"}
         /\ accepted[Asks(h)] = 0 /\ late[Asks(h)] = 0
  <1> USE DEF At, Asks, IsDraft, Same
  <1>1. TypeOK /\ Kinded(h) /\ Owned(h) /\ Owns(h) BY DEF SendInv, CallInv, Kinded, Owns, Claiming
  <1>2. row.request = call[h].req /\ call[h].req \in Sends
    BY <1>1 DEF Kinded, Owing, Claiming, TypeOK, CallRecords, Requests
  <1>3. accepted[call[h].req] = 0 /\ late[call[h].req] = 0 /\ row.status # "not_delivered" BY <1>1 DEF Owned
  <1>4. row.status \notin {"absent", "succeeded"}
    BY <1>1, <1>2, <1>3, SendAssumption DEF SendInv, TruthfulLedger, TypeOK, Requests
  <1> QED BY <1>1, <1>2, <1>3, <1>4 DEF TypeOK, Statuses

LEMMA ArrivesOwn ==
  ASSUME SendInv, NEW q \in Sends, late[q] > 0
  PROVE  /\ row.request = q /\ row.status \in {"submitting", "unknown"}
         /\ accepted[q] = 0 /\ late[q] = 1
  <1>0. TypeOK BY DEF SendInv
  <1>1. accepted[q] \in Nat /\ late[q] \in Nat /\ accepted[q] + late[q] <= 1 BY <1>0 DEF SendInv, TypeOK, Counted
  <1>2. accepted[q] = 0 /\ late[q] = 1 BY <1>1
  <1>3. q \notin Earlier BY <1>2, SendAssumption DEF SendInv, Counted
  <1>4. row.request = q BY <1>1, <1>2, <1>3 DEF SendInv, Counted
  <1>5. row.status \notin {"absent", "succeeded", "not_delivered"}
    BY <1>0, <1>2, <1>4, SendAssumption DEF SendInv, TruthfulLedger, TypeOK, Requests
  <1> QED BY <1>0, <1>2, <1>4, <1>5 DEF TypeOK, Statuses

PromiseVars == <<row, accepted, Pending, HasDraft>>

LEMMA PromiseClaim ==
  ASSUME SendInv, NEW h \in Hosts, Claims(h)
  PROVE  \E q \in Sends \cup Drafts : Promise!Claim(q)
  <1>1. Asks(h) \in Sends \cup Drafts
    BY DEF SendInv, TypeOK, Claims, At, Asks, CallRecords, Requests
  <1>2. row.status = "absent" \/ (row.status = "not_delivered" /\ row.request = Asks(h))
    BY DEF Claims, Claimable, Same, Absent
  <1>3. UNCHANGED <<accepted, Pending, HasDraft>> BY DEF Claims, Pending, HasDraft
  <1> QED BY <1>1, <1>2, <1>3 DEF Claims, Promise!Claim

LEMMA PromiseSubmit ==
  ASSUME SendInv, NEW h \in Hosts, Submits(h)
  PROVE  \E q \in Sends : Promise!Accept(q) \/ Promise!GiveUp(q)
  <1>0. TypeOK BY DEF SendInv
  <1> DEFINE q == Asks(h)
  <1>1. /\ q \in Sends /\ row.request = q /\ row.status \in {"submitting", "unknown"}
        /\ accepted[q] = 0 /\ late[q] = 0
    BY SubmitsOwn DEF Submits
  <1> HIDE DEF q
  <1>2. Promise!Unsent(q) BY <1>1 DEF Promise!Unsent, Promise!Open, Promise!Concerns
  <1>3. q \notin Pending BY <1>1 DEF Pending
  <1>4. row' = row /\ HasDraft' = HasDraft BY DEF Submits, HasDraft
  <1>5. CASE accepted' = [accepted EXCEPT ![q] = @ + 1] /\ late' = late
    <2>1. accepted' = [accepted EXCEPT ![q] = 1] BY <1>0, <1>1, <1>5 DEF TypeOK
    <2>2. Pending' = Pending \ {q} BY <1>3, <1>5 DEF Pending
    <2> QED BY <1>1, <1>2, <1>4, <2>1, <2>2 DEF Promise!Accept
  <1>6. CASE late' = [late EXCEPT ![q] = @ + 1] /\ accepted' = accepted
    <2>1. late' = [late EXCEPT ![q] = 1] BY <1>0, <1>1, <1>6 DEF TypeOK
    <2>2. Pending' = Pending \cup {q} BY <1>0, <1>1, <2>1 DEF Pending, TypeOK
    <2> QED BY <1>1, <1>2, <1>3, <1>4, <1>6, <2>2 DEF Promise!GiveUp
  <1> QED BY <1>5, <1>6 DEF Submits, q

LEMMA PromiseArrive ==
  ASSUME SendInv, NEW q \in Sends, Arrives(q)
  PROVE  Promise!Accept(q)
  <1>0. TypeOK BY DEF SendInv
  <1>1. row.request = q /\ row.status \in {"submitting", "unknown"} /\ accepted[q] = 0 /\ late[q] = 1
    BY ArrivesOwn DEF Arrives
  <1>2. Promise!Unsent(q) BY <1>1 DEF Promise!Unsent, Promise!Open, Promise!Concerns
  <1>3. accepted' = [accepted EXCEPT ![q] = 1] /\ late' = [late EXCEPT ![q] = 0]
    BY <1>0, <1>1 DEF Arrives, TypeOK
  <1>4. Pending' = Pending \ {q} BY <1>0, <1>3 DEF Pending, TypeOK
  <1>5. row' = row /\ HasDraft' = HasDraft BY DEF Arrives, HasDraft
  <1> QED BY <1>2, <1>3, <1>4, <1>5 DEF Promise!Accept

LEMMA PromiseFile ==
  ASSUME SendInv, DraftsOfKey, DraftArrives \/ \E h \in Hosts : Files(h)
  PROVE  [Promise!Next]_PromiseVars
  <1>0. TypeOK BY DEF SendInv
  <1>1. UNCHANGED <<row, accepted, late>> BY DEF DraftArrives, Files
  <1>2. UNCHANGED Pending BY <1>1 DEF Pending
  <1>3. row.request \in Drafts
    <2>1. CASE DraftArrives BY <1>0, <2>1 DEF DraftArrives, DraftsOfKey, TypeOK
    <2>2. ASSUME NEW h \in Hosts, Files(h) PROVE row.request \in Drafts
      BY <2>2 DEF Files, SendInv, CallInv, Kinded, Owing, At, Same, IsDraft
    <2> QED BY <2>1, <2>2
  <1>4. drafts'.filed \in Nat /\ drafts.filed \in Nat /\ drafts'.filed >= drafts.filed
    BY <1>0 DEF DraftArrives, Files, TypeOK
  <1>5. CASE drafts'.filed > 0
    <2>1. HasDraft' = TRUE BY <1>5 DEF HasDraft
    <2>2. Promise!File BY <1>1, <1>2, <1>3, <2>1 DEF Promise!File, Promise!Concerns
    <2> QED BY <2>2 DEF Promise!Next
  <1>6. CASE ~(drafts'.filed > 0)
    <2>1. ~(drafts.filed > 0) BY <1>4, <1>6
    <2>2. HasDraft' = HasDraft BY <1>6, <2>1 DEF HasDraft
    <2> QED BY <1>1, <1>2, <2>2 DEF PromiseVars
  <1> QED BY <1>5, <1>6

LEMMA PromiseDoubt ==
  ASSUME TypeOK, row.status = "submitting", row' = [row EXCEPT !.status = "unknown"], UNCHANGED <<accepted, late, drafts>>
  PROVE  Promise!Doubt
  <1>1. row' = [status |-> "unknown", request |-> row.request] BY DEF TypeOK
  <1>2. UNCHANGED <<accepted, Pending, HasDraft>> BY DEF Pending, HasDraft
  <1> QED BY <1>1, <1>2 DEF Promise!Doubt, Promise!Says

LEMMA PromiseWord ==
  ASSUME SendInv, DoubtLasts, DraftsOfKey, NEW h \in Hosts, FinalWord(h)
  PROVE  [Promise!Next]_PromiseVars
  <1> USE DEF At, Asks, IsDraft, Same
  <1>0. TypeOK /\ Kinded(h) /\ Owned(h) /\ Proven(h) BY DEF SendInv, CallInv
  <1>1. /\ row.request = call[h].req /\ call[h].req \in Requests
        /\ call[h].verdict \in {"succeeded", "not_delivered", "unknown"}
        /\ (call[h].req \in Drafts => call[h].verdict = "succeeded")
    BY <1>0 DEF FinalWord, Kinded, Owing, TypeOK, CallRecords
  <1>2. row' = [status |-> call[h].verdict, request |-> row.request] BY <1>0 DEF FinalWord, TypeOK
  <1>3. UNCHANGED <<accepted, Pending, HasDraft>> BY DEF FinalWord, Pending, HasDraft
  <1>4. row.status \notin {"absent", "succeeded"} BY <1>0, <1>1, SendAssumption DEF FinalWord, TypeOK
  <1>5. CASE call[h].verdict = "succeeded"
    <2>1. Delivered(h) BY <1>0, <1>5 DEF Proven, FinalWord
    <2>2. IF row.request \in Drafts THEN HasDraft ELSE accepted[row.request] = 1
      <3>1. CASE row.request \in Drafts BY <1>1, <2>1, <3>1 DEF Delivered, HasDraft
      <3>2. CASE row.request \notin Drafts
        <4>1. row.request \in Sends /\ accepted[row.request] > 0 BY <1>1, <2>1, <3>2 DEF Delivered, Requests
        <4>2. accepted[row.request] \in Nat /\ late[row.request] \in Nat /\ accepted[row.request] + late[row.request] <= 1
          BY <1>0, <4>1 DEF SendInv, Counted, TypeOK
        <4> QED BY <3>2, <4>1, <4>2
      <3> QED BY <3>1, <3>2
    <2>3. row.status # "not_delivered"
      <3>1. CASE row.request \in Drafts BY <3>1 DEF DraftsOfKey
      <3>2. CASE row.request \notin Drafts
        <4>1. row.request \in Sends /\ accepted[row.request] = 1 BY <1>1, <2>2, <3>2 DEF Requests
        <4> QED BY <4>1 DEF SendInv, TruthfulLedger
      <3> QED BY <3>1, <3>2
    <2>4. Promise!Open BY <1>0, <1>4, <2>3 DEF Promise!Open, TypeOK, Statuses
    <2>5. Promise!Succeed BY <1>2, <1>3, <1>5, <2>2, <2>4 DEF Promise!Succeed, Promise!Says, Promise!Concerns
    <2> QED BY <2>5 DEF Promise!Next
  <1>6. CASE call[h].verdict = "not_delivered"
    <2>1. row.request \in Sends BY <1>1, <1>6 DEF Requests
    <2>2. Owns(h) BY <1>1, <1>6 DEF Owns, FinalWord
    <2>3. accepted[row.request] = 0 /\ late[row.request] = 0 /\ row.status # "not_delivered"
      BY <1>0, <1>1, <2>2 DEF Owned, FinalWord
    <2>4. row.request \notin Pending BY <2>3 DEF Pending
    <2>5. Promise!Open BY <1>0, <1>4, <2>3 DEF Promise!Open, TypeOK, Statuses
    <2>6. Promise!Retract
      BY <1>2, <1>3, <1>6, <2>1, <2>3, <2>4, <2>5 DEF Promise!Retract, Promise!Says, Promise!Concerns
    <2> QED BY <2>6 DEF Promise!Next
  <1>7. CASE call[h].verdict = "unknown"
    <2>1. row.status # "not_delivered" BY <1>7 DEF DoubtLasts, Doubts, FinalWord
    <2>2. CASE row.status = "submitting"
      <3>1. Promise!Doubt BY <1>0, <1>7, <2>2, PromiseDoubt DEF FinalWord
      <3> QED BY <3>1 DEF Promise!Next
    <2>3. CASE row.status = "unknown"
      <3>1. row' = row BY <1>0, <1>2, <1>7, <2>3 DEF TypeOK
      <3> QED BY <1>3, <3>1 DEF PromiseVars
    <2> QED BY <1>0, <1>4, <2>1, <2>2, <2>3 DEF TypeOK, Statuses
  <1> QED BY <1>1, <1>5, <1>6, <1>7

LEMMA PromiseStep == SendInv /\ DoubtLasts /\ DraftsOfKey /\ [Next]_vars => [Promise!Next]_PromiseVars
  <1> SUFFICES ASSUME SendInv, DoubtLasts, DraftsOfKey, [Next]_vars PROVE [Promise!Next]_PromiseVars OBVIOUS
  <1>1. CASE Reads BY <1>1 DEF Reads, PromiseVars, Pending, HasDraft
  <1>2. ASSUME NEW h \in Hosts, Claims(h) PROVE [Promise!Next]_PromiseVars BY <1>2, PromiseClaim DEF Promise!Next
  <1>3. ASSUME NEW h \in Hosts, FinalWord(h) PROVE [Promise!Next]_PromiseVars BY <1>3, PromiseWord
  <1>4. ASSUME NEW h \in Hosts, Submits(h) PROVE [Promise!Next]_PromiseVars BY <1>4, PromiseSubmit DEF Promise!Next
  <1>5. CASE DraftArrives \/ \E h \in Hosts : Files(h) BY <1>5, PromiseFile
  <1>6. ASSUME NEW q \in Sends, Arrives(q) PROVE [Promise!Next]_PromiseVars BY <1>6, PromiseArrive DEF Promise!Next
  <1>7. CASE Expires
    <2>1. Promise!Doubt BY <1>7, PromiseDoubt DEF Expires, SendInv
    <2> QED BY <2>1 DEF Promise!Next
  <1> QED BY <1>1, <1>2, <1>3, <1>4, <1>5, <1>6, <1>7, EveryStep

(* A call that gave up its own attempt is of the last attempt of its key,  *)
(* and drafts belong to a draft's key (runSendOperation, fileDraft).       *)
THEOREM DoubtInvariant == Spec => [](DoubtLasts /\ DraftsOfKey)
  <1>1. Init => DoubtLasts /\ DraftsOfKey
    BY SendAssumption DEF Init, NoCall, At, Doubts, DoubtLasts, DraftsOfKey, Absent, Requests
  <1> QED BY <1>1, DoubtStep, DraftStep, SendInvariant, PTL DEF Spec

(* The durable send policy implements the promise of SendPromise: every    *)
(* step of its hosts, stores and servers is one of the promise's or leaves *)
(* ledger, mail and draft as they are (runSendOperation).                  *)
THEOREM PromiseKeptHolds == Spec => PromiseKept
  <1>1. SendInv /\ (DoubtLasts /\ DraftsOfKey) /\ [Next]_vars => [Promise!Next]_PromiseVars BY PromiseStep
  <1>2. Spec => [][Promise!Next]_PromiseVars BY <1>1, SendInvariant, DoubtInvariant, PTL DEF Spec
  <1>3. Spec => Promise!Init BY PromiseInit DEF Spec
  <1> QED BY <1>2, <1>3 DEF PromiseKept, Promise!Spec, PromiseVars
===============================================================================
