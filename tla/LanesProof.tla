------------------------------ MODULE LanesProof ------------------------------
(***************************************************************************)
(* What the run of MCLanes checks of each small component, and the run of  *)
(* MCScheduling of an account's health, proved for all sessions, actions,  *)
(* mails, workers, intervals, tasks, bodies and failure thresholds: every  *)
(* theorem is of the component's own initial predicate and steps.          *)
(***************************************************************************)
EXTENDS AccountHealth, HistoryBackfill, ActionSessions, WorkerRuntime, TargetScheduler, MessageEvidence,
        FiniteSetTheorems, WellFoundedInduction, TLAPS

(* The largest and the smallest of a set, where it exists.                 *)
LEMMA MaxOfTwo == ASSUME NEW a \in Int, NEW b \in Int PROVE Max({a, b}) = IF a >= b THEN a ELSE b
  BY DEF Max

LEMMA MinOfTwo == ASSUME NEW a \in Int, NEW b \in Int PROVE Min({a, b}) = IF a <= b THEN a ELSE b
  BY DEF Min
(* A bounded set of naturals has a largest one: the members above it are   *)
(* fewest, and strict inclusion is well founded.                           *)
LEMMA MaxOfBounded ==
  ASSUME NEW n \in Nat, NEW T, T \subseteq 0..n, T # {}
  PROVE  Max(T) \in T /\ \A x \in T : x <= Max(T)
<1> DEFINE above(x) == {y \in T : y > x}
           F == {above(x) : x \in T}
<1>1. IsFiniteSet(0..n) BY FS_Interval
<1>2. IsWellFoundedOn(StrictSubsetOrdering(0..n), FiniteSubsetsOf(0..n)) BY <1>1, FS_StrictSubsetOrderingWellFounded
<1>3. F \subseteq FiniteSubsetsOf(0..n) BY <1>1, FS_Subset DEF FiniteSubsetsOf
<1>4. F # {} OBVIOUS
<1>5. \E a \in F : \A b \in F : ~(<<b, a>> \in StrictSubsetOrdering(0..n))
  <2> DEFINE R == StrictSubsetOrdering(0..n)
             D == FiniteSubsetsOf(0..n)
  <2>1. IsWellFoundedOn(R, D) BY <1>2
  <2>2. F \subseteq D BY <1>3
  <2> HIDE DEF R, D, F
  <2>3. \E a \in F : \A b \in F : ~(<<b, a>> \in R) BY <2>1, <2>2, <1>4, WFMin
  <2>4. QED BY <2>3 DEF R
<1>6. PICK m \in T : \A b \in F : ~(<<b, above(m)>> \in StrictSubsetOrdering(0..n)) BY <1>5
<1>7. ASSUME NEW x \in T PROVE x <= m
  <2> SUFFICES ASSUME x > m PROVE FALSE
    BY DEF above
  <2>1. above(x) \in F /\ above(m) \in F OBVIOUS
  <2>2. above(x) \subseteq above(m) /\ above(x) # above(m)
    <3>1. \A y \in T : y \in Int OBVIOUS
    <3>2. \A y \in T : y > x => y > m BY <3>1
    <3>3. x \in above(m) /\ x \notin above(x) BY <3>1
    <3>4. QED BY <3>2, <3>3
  <2>3. <<above(x), above(m)>> \in StrictSubsetOrdering(0..n)
    BY <2>2 DEF StrictSubsetOrdering
  <2>4. QED BY <1>6, <2>1, <2>3
<1>8. \A x \in T : m >= x BY <1>7
<1>9. QED BY <1>8 DEF Max


-------------------------------------------------------------------------------
(* The sessions of actions.                                                *)

Holding == {"noop", "connect", "handed", "using", "command", "idle", "close", "logout"}
Bare == {"new", "get", "login", "ended"}
SessionsTypeOK ==
  /\ socket \in [Sessions -> {"unborn", "connecting", "open", "closed"}] /\ key \in [Sessions -> Nat]
  /\ store \subseteq Sessions
  /\ act \in [Actions -> [pc : Holding \cup Bare, key : Nat, s : Sessions \cup {NoSession}, left : Nat]]
  /\ aborted \subseteq Actions /\ credential \in Nat
Attached ==
  /\ \A a \in Actions : act[a].s = NoSession <=> InStage(a, Bare)
  /\ \A s \in Sessions : socket[s] = "connecting" => \E a \in Actions : act[a].s = s /\ InStage(a, {"connect"})
SessionsInv == SessionsTypeOK /\ Attached /\ OneOwner

LEMMA SessionsInitInv == SessionsInit => SessionsInv
  BY SessionAssumption DEF SessionsInit, SessionsInv, SessionsTypeOK, Attached, OneOwner, Holding, Bare, InStage, Holders

LEMMA SessionsTypeStep == SessionsInv /\ [SessionsNext]_sessionVars => SessionsTypeOK'
<1> SUFFICES ASSUME SessionsInv, [SessionsNext]_sessionVars PROVE SessionsTypeOK'
  OBVIOUS
<1> USE SessionAssumption DEF SessionsInv, SessionsTypeOK, Holding, Bare, InStage
<1>1. ASSUME NEW a \in Actions, Proceeds(a) PROVE SessionsTypeOK'
  <2>1. CASE actionSessionKey(a) BY ZenonT(30), <2>1 DEF actionSessionKey
  <2>2. CASE Take(a) BY <2>2 DEF Take, Taken, Closed, Goes
  <2>3. CASE Stalls(a) BY ZenonT(30), <2>3 DEF Stalls, Closed, Drops
  <2>4. CASE Login(a) BY <2>4 DEF Login, Drops
  <2>5. CASE ConnectFails(a) BY ZenonT(30), <2>5 DEF ConnectFails, Closed, Drops
  <2>6. CASE Bind(a) BY <2>6 DEF Bind, Goes
  <2>7. CASE GetAgain(a) BY <2>7 DEF GetAgain, Goes, Drops
  <2>8. CASE Step(a) BY <2>8 DEF Step
  <2>9. CASE CommandEnds(a) BY <2>9 DEF CommandEnds, Goes, Closed
  <2>10. CASE EndUse(a)
    <3>1. CASE Parkable(a)
      <4>1. Drops(a, "ended") /\ store' = store \cup {act[a].s} /\ UNCHANGED <<socket, key, aborted, credential>>
        BY <2>10, <3>1 DEF EndUse, Parkable, Usable
      <4>2. QED BY <3>1, <4>1 DEF Drops, Parkable, Usable
    <3>2. CASE ~Parkable(a) /\ a \in aborted
      <4>1. Closed(act[a].s) /\ Drops(a, "ended") /\ UNCHANGED <<store, key, aborted, credential>>
        BY <2>10, <3>2 DEF EndUse
      <4>2. QED BY ZenonT(30), <4>1 DEF Drops, Closed
    <3>3. CASE ~Parkable(a) /\ a \notin aborted
      <4>1. Goes(a, "logout") /\ UNCHANGED <<socket, store, key, aborted, credential>>
        BY <2>10, <3>3 DEF EndUse
      <4>2. QED BY <4>1 DEF Goes
    <3>4. QED BY <3>1, <3>2, <3>3
  <2>11. CASE Logout(a) BY ZenonT(30), <2>11 DEF Logout, Closed, Drops
  <2>12. QED BY <1>1, <2>1, <2>2, <2>3, <2>4, <2>5, <2>6, <2>7, <2>8, <2>9, <2>10, <2>11 DEF Proceeds
<1>2. ASSUME NEW a \in Actions, Answers(a) \/ Connected(a) \/ Abort(a) PROVE SessionsTypeOK'
  <2>1. CASE Answers(a) BY <2>1 DEF Answers, Goes
  <2>2. CASE Connected(a) BY <2>2 DEF Connected, Goes
  <2>3. CASE Abort(a) BY <2>3 DEF Abort, Closed
  <2>4. QED BY <1>2, <2>1, <2>2, <2>3
<1>3. ASSUME NEW s \in Sessions, Lost(s) \/ Expire(s) PROVE SessionsTypeOK'
  BY <1>3 DEF Lost, Expire, Closed
<1>4. CASE Recredential BY <1>4 DEF Recredential
<1>5. CASE UNCHANGED sessionVars BY <1>5 DEF sessionVars
<1>6. QED BY <1>1, <1>2, <1>3, <1>4, <1>5 DEF SessionsNext

LEMMA SessionsOwnStep == SessionsInv /\ [SessionsNext]_sessionVars => (Attached /\ OneOwner)'
<1> SUFFICES ASSUME SessionsInv, [SessionsNext]_sessionVars PROVE (Attached /\ OneOwner)'
  OBVIOUS
<1>0. SessionsTypeOK' BY SessionsTypeStep
<1> USE SessionAssumption DEF SessionsInv, SessionsTypeOK, Holding, Bare, InStage, Attached, OneOwner, Holders
<1>1. ASSUME NEW a \in Actions, Proceeds(a) \/ Answers(a) \/ Connected(a) \/ Abort(a) PROVE (Attached /\ OneOwner)'
  <2>1. CASE actionSessionKey(a)
    <3>1. Attached' BY <2>1, <1>0 DEF actionSessionKey
    <3>2. OneOwner' BY SMTT(30), <2>1, <1>0 DEF actionSessionKey
    <3>3. QED BY <3>1, <3>2
  <2>2. CASE Take(a)
    <3>1. Attached' BY <2>2, <1>0 DEF Take, Taken, Closed, Goes
    <3>2. OneOwner' BY SMTT(30), <2>2, <1>0 DEF Take, Taken, Closed, Goes
    <3>3. QED BY <3>1, <3>2
  <2>3. CASE Stalls(a)
    <3>1. Attached' BY <2>3, <1>0 DEF Stalls, Closed, Drops
    <3>2. OneOwner' BY <2>3, <1>0 DEF Stalls, Closed, Drops
    <3>3. QED BY <3>1, <3>2
  <2>4. CASE Login(a)
    <3>1. Attached' BY <2>4, <1>0 DEF Login, Drops
    <3>2. OneOwner'
      <4>1. CASE a \in aborted BY <2>4, <4>1, <1>0 DEF Login, Drops
      <4>2. CASE a \notin aborted
        <5>1. PICK s \in Sessions :
                /\ socket[s] \in {"unborn", "closed"} /\ s \notin store /\ \A b \in Actions : act[b].s # s
                /\ socket' = [socket EXCEPT ![s] = "connecting"] /\ key' = [key EXCEPT ![s] = act[a].key]
                /\ act' = [act EXCEPT ![a].pc = "connect", ![a].s = s] /\ store' = store
          BY <2>4, <4>2 DEF Login
        <5>2. /\ act'[a].s = s /\ act'[a].key = act[a].key /\ key'[s] = act[a].key
              /\ \A b \in Actions : b # a => act'[b] = act[b]
              /\ \A t \in Sessions : t # s => key'[t] = key[t] /\ socket'[t] = socket[t]
          BY <5>1
        <5>3. act[a].s = NoSession BY <2>4 DEF Login
        <5>4. QED BY <5>1, <5>2, <5>3
      <4>3. QED BY <4>1, <4>2
    <3>3. QED BY <3>1, <3>2
  <2>5. CASE ConnectFails(a)
    <3>1. Attached' BY <2>5, <1>0 DEF ConnectFails, Closed, Drops
    <3>2. OneOwner' BY <2>5, <1>0 DEF ConnectFails, Closed, Drops
    <3>3. QED BY <3>1, <3>2
  <2>6. CASE Bind(a)
    <3>1. Attached' BY <2>6, <1>0 DEF Bind, Goes
    <3>2. OneOwner' BY <2>6, <1>0 DEF Bind, Goes
    <3>3. QED BY <3>1, <3>2
  <2>7. CASE GetAgain(a)
    <3>1. CASE Usable(a)
      BY <2>7, <3>1, <1>0 DEF GetAgain, Goes
    <3>2. CASE ~Usable(a)
      <4>1. /\ Drops(a, "get") /\ InStage(a, {"idle"}) /\ UNCHANGED <<socket, key, store>>
        BY <2>7, <3>2 DEF GetAgain
      <4>2. socket[act[a].s] \notin {"connecting", "open"} BY <4>1, <3>2 DEF Usable
      <4>3. \A b \in Actions : b # a => act'[b] = act[b] BY <4>1 DEF Drops
      <4>4. act'[a].pc = "get" /\ act'[a].s = NoSession BY <4>1 DEF Drops
      <4>5. Attached' BY <4>1, <4>2, <4>3, <4>4
      <4>6. OneOwner' BY <4>1, <4>2, <4>3, <4>4
      <4>7. QED BY <4>5, <4>6
    <3>3. QED BY <3>1, <3>2
  <2>8. CASE Step(a)
    <3>1. Attached' BY <2>8, <1>0 DEF Step
    <3>2. OneOwner' BY <2>8, <1>0 DEF Step
    <3>3. QED BY <3>1, <3>2
  <2>9. CASE CommandEnds(a)
    <3>1. Attached' BY SMTT(30), <2>9, <1>0 DEF CommandEnds, Goes, Closed, Usable
    <3>2. OneOwner' BY SMTT(30), <2>9, <1>0 DEF CommandEnds, Goes, Closed, Usable
    <3>3. QED BY <3>1, <3>2
  <2>10. CASE Logout(a)
    <3>1. Attached' BY <2>10, <1>0 DEF Logout, Closed, Drops
    <3>2. OneOwner' BY <2>10, <1>0 DEF Logout, Closed, Drops
    <3>3. QED BY <3>1, <3>2
  <2>11. CASE Answers(a)
    <3>1. Attached' BY <2>11, <1>0 DEF Answers, Goes
    <3>2. OneOwner' BY <2>11, <1>0 DEF Answers, Goes
    <3>3. QED BY <3>1, <3>2
  <2>12. CASE Connected(a)
    <3>1. Attached' BY <2>12, <1>0 DEF Connected, Goes
    <3>2. OneOwner' BY <2>12, <1>0 DEF Connected, Goes
    <3>3. QED BY <3>1, <3>2
  <2>13. CASE Abort(a)
    <3>1. Attached' BY <2>13, <1>0 DEF Abort, Closed
    <3>2. OneOwner' BY <2>13, <1>0 DEF Abort, Closed
    <3>3. QED BY <3>1, <3>2
  <2>14. CASE EndUse(a)
    <3>1. CASE Parkable(a)
      <4>1. Drops(a, "ended") /\ store' = store \cup {act[a].s} /\ UNCHANGED <<socket, key, aborted, credential>>
        BY <2>14, <3>1 DEF EndUse, Parkable, Usable
      <4>2. Attached' BY <2>14, <3>1, <4>1 DEF Drops, Parkable, Usable
      <4>3. OneOwner' BY <2>14, <3>1, <4>1 DEF Drops, Parkable, Usable
      <4>4. QED BY <4>2, <4>3
    <3>2. CASE ~Parkable(a) /\ a \in aborted
      <4>1. Closed(act[a].s) /\ Drops(a, "ended") /\ UNCHANGED <<store, key, aborted, credential>>
        BY <2>14, <3>2 DEF EndUse
      <4>2. Attached' BY <2>14, <4>1 DEF Drops, Closed, EndUse
      <4>3. OneOwner' BY SMTT(30), <2>14, <4>1 DEF Drops, Closed, EndUse
      <4>4. QED BY <4>2, <4>3
    <3>3. CASE ~Parkable(a) /\ a \notin aborted
      <4>1. Goes(a, "logout") /\ UNCHANGED <<socket, store, key, aborted, credential>>
        BY <2>14, <3>3 DEF EndUse
      <4>2. QED BY <2>14, <4>1 DEF Goes, EndUse
    <3>4. QED BY <3>1, <3>2, <3>3
  <2>15. QED BY <1>1, <2>1, <2>2, <2>3, <2>4, <2>5, <2>6, <2>7, <2>8, <2>9, <2>10, <2>11, <2>12, <2>13, <2>14 DEF Proceeds
<1>3. ASSUME NEW s \in Sessions, Lost(s) \/ Expire(s) PROVE (Attached /\ OneOwner)'
  BY <1>3 DEF Lost, Expire, Closed
<1>4. CASE Recredential BY <1>4 DEF Recredential
<1>5. CASE UNCHANGED sessionVars BY <1>5 DEF sessionVars
<1>6. QED BY <1>1, <1>3, <1>4, <1>5 DEF SessionsNext

(* No session is ever used by two actions, or parked while one uses it.    *)
THEOREM OneOwnerHolds == SessionsInit /\ [][SessionsNext]_sessionVars => []OneOwner
<1>1. SessionsInv /\ [SessionsNext]_sessionVars => SessionsInv' BY SessionsTypeStep, SessionsOwnStep DEF SessionsInv
<1>2. SessionsInv => OneOwner BY DEF SessionsInv
<1>3. QED BY <1>1, <1>2, SessionsInitInv, PTL

-------------------------------------------------------------------------------
(* The rows of messages and bodies.                                        *)

ItemSets == {b.items : b \in Bodies} \cup {{}}
Sizes == {b.bytes : b \in Bodies} \cup {0}
Envelopes == {m.env : m \in Metas}
BodyRows ==
  [hdrs : SUBSET Keys, bytes : Sizes, truncated : BOOLEAN, raw : Sizes \cup {Null},
   parsed : (Envelopes \X (SUBSET Keys) \X Sizes) \cup {Null}, authored : (Envelopes \X (SUBSET Keys) \X ItemSets) \cup {Null},
   sha : ItemSets \cup {Null}, complete : BOOLEAN, stored : BOOLEAN]
EvidenceTypeOK ==
  /\ folderRow \in [gen : {1, 2, Null}, count : Nat] /\ holder \in Writers \cup {Null}
  /\ message \in [Rows -> MessageRows \cup {Null}] /\ body \in [Rows -> BodyRows] /\ items \in [Rows -> ItemSets]
  /\ queue \subseteq Rows /\ unread \subseteq Rows
  /\ \A w \in Writers : writer[w].pc # "idle" =>
       writer[w].gen \in {1, 2} /\ writer[w].uid \in Uids /\ writer[w].meta \in Metas
  /\ writer \in [Writers -> [pc : {"idle", "begun", "locked", "read"}, gen : {0, 1, 2}, uid : Uids \cup {0},
                             meta : Metas \cup {Null}, before : MessageRows \cup {Null}]]

(* The folder row's lock admits one batch past it, of the folder's         *)
(* generation, and what that batch read of its row stays true.             *)
Locked ==
  \A w \in Writers : writer[w].pc \in {"locked", "read"} =>
    /\ holder = w /\ folderRow.gen \in {Null, writer[w].gen}
    /\ writer[w].pc = "read" => writer[w].before = message[RowOf(w)]
(* Rows belong to the folder's generation or to one before it.             *)
RowsOfGeneration ==
  /\ folderRow.gen = Null => folderRow.count = 0 /\ \A r \in Rows : message[r] = Null
  /\ folderRow.gen = 1 => \A u \in Uids : message[<<2, u>>] = Null
BodyHasRow == \A r \in Rows : body[r].stored => message[r] # Null
EvidenceInv ==
  EvidenceTypeOK /\ Locked /\ RowsOfGeneration /\ BodyHasRow /\ StoredIsOwed /\ DigestsCurrent /\ CountedOnce

LEMMA EvidenceInitInv == EvidenceInit => EvidenceInv
<1> SUFFICES ASSUME EvidenceInit PROVE EvidenceInv
  OBVIOUS
<1> USE EvidenceAssumption DEF EvidenceInit, NoWriter, NoBody
<1>1. EvidenceTypeOK BY DEF EvidenceTypeOK, BodyRows, ItemSets, Sizes
<1>2. Locked /\ RowsOfGeneration /\ BodyHasRow BY DEF Locked, RowsOfGeneration, BodyHasRow
<1>3. StoredIsOwed /\ DigestsCurrent /\ CountedOnce BY DEF StoredIsOwed, DigestsCurrent, CountedOnce
<1>4. QED BY <1>1, <1>2, <1>3 DEF EvidenceInv

LEMMA DigestsTyped ==
  ASSUME NEW b \in BodyRows, NEW was, NEW now
  PROVE  /\ digests_from_message(was, now, b) \in BodyRows
         /\ digests_from_message(was, now, b).stored = b.stored
         /\ digests_from_message(was, now, b).hdrs = b.hdrs
         /\ digests_from_message(was, now, b).bytes = b.bytes
         /\ digests_from_message(was, now, b).sha = b.sha
         /\ digests_from_message(was, now, b).raw = b.raw
         /\ digests_from_message(was, now, b).parsed \in {b.parsed, Null}
         /\ digests_from_message(was, now, b).authored \in {b.authored, Null}
         /\ was # Null /\ was.env # now.env =>
              digests_from_message(was, now, b).parsed = Null /\ digests_from_message(was, now, b).authored = Null
         /\ was = Null \/ was.env = now.env => digests_from_message(was, now, b) = b
  BY DEF digests_from_message, BodyRows

LEMMA ReadTyped ==
  ASSUME NEW m \in MessageRows, NEW b \in Bodies
  PROVE  /\ Read(m, b) \in BodyRows /\ Read(m, b).stored
         /\ Read(m, b).hdrs = b.hdrs
         /\ Read(m, b).parsed # Null => Read(m, b).parsed = <<m.env, Read(m, b).hdrs, Read(m, b).bytes>>
         /\ Read(m, b).authored # Null => ~b.truncated /\ Read(m, b).authored = <<m.env, Read(m, b).hdrs, b.items>>
         /\ Read(m, b).sha # Null => ~b.truncated /\ Read(m, b).sha = b.items
<1>1. b.hdrs \in SUBSET Keys /\ b.items \in ItemSets /\ b.bytes \in Sizes /\ m.env \in Envelopes
      /\ b.truncated \in BOOLEAN /\ b.raw \in BOOLEAN /\ b.complete \in BOOLEAN
  BY EvidenceAssumption DEF ItemSets, Sizes, Envelopes, MessageRows
<1>2. rawMimeSha256(b) \in Sizes \cup {Null} BY <1>1 DEF rawMimeSha256
<1>3. parsedSha256(m, b) \in {<<m.env, b.hdrs, b.bytes>>, Null} BY DEF parsedSha256
<1>4. StructuredComplete(b) \in BOOLEAN /\ (StructuredComplete(b) => ~b.truncated) BY <1>1 DEF StructuredComplete
<1>5. authoredSha256(m, b) = Null \/ (~b.truncated /\ authoredSha256(m, b) = <<m.env, b.hdrs, b.items>>)
  BY <1>4 DEF authoredSha256
<1>6. ~b.truncated => prepareMessageEvidence(b) = b.items BY DEF prepareMessageEvidence
<1>7. parsedSha256(m, b) \in (Envelopes \X (SUBSET Keys) \X Sizes) \cup {Null}
      /\ authoredSha256(m, b) \in (Envelopes \X (SUBSET Keys) \X ItemSets) \cup {Null}
  BY <1>1, <1>3, <1>5
<1>8. QED BY <1>1, <1>2, <1>3, <1>4, <1>5, <1>6, <1>7 DEF Read, BodyRows

LEMMA BodyDigestsTyped ==
  ASSUME NEW was \in BodyRows, NEW now \in BodyRows
  PROVE  /\ digests_from_body(was, now) \in BodyRows
         /\ digests_from_body(was, now).stored = now.stored
         /\ digests_from_body(was, now).hdrs = now.hdrs
         /\ digests_from_body(was, now).bytes = now.bytes
         /\ digests_from_body(was, now).sha = now.sha
         /\ digests_from_body(was, now).parsed \in {now.parsed, Null}
         /\ digests_from_body(was, now).authored \in {now.authored, Null}
<1>1. ASSUME NEW p \in {now.parsed, Null}, NEW a \in {now.authored, Null}
      PROVE  LET d == [now EXCEPT !.parsed = p, !.authored = a] IN
               /\ d \in BodyRows /\ d.stored = now.stored /\ d.hdrs = now.hdrs /\ d.bytes = now.bytes /\ d.sha = now.sha
               /\ d.parsed = p /\ d.authored = a
  <2> DEFINE d == [now EXCEPT !.parsed = p, !.authored = a]
  <2>1. d \in BodyRows BY DEF BodyRows
  <2>2. d.stored = now.stored /\ d.hdrs = now.hdrs /\ d.bytes = now.bytes BY DEF BodyRows
  <2>3. d.sha = now.sha /\ d.parsed = p /\ d.authored = a BY DEF BodyRows
  <2> QED BY <2>1, <2>2, <2>3
<1> DEFINE p == IF was.parsed = now.parsed THEN Null ELSE now.parsed
           a == IF was.authored = now.authored THEN Null ELSE now.authored
<1>2. CASE was.stored /\ Differ(was, now, {"bytes", "truncated", "hdrs", "sha", "complete"})
  <2>1. digests_from_body(was, now) = [now EXCEPT !.parsed = p, !.authored = a]
    <3>1. digests_from_body(was, now) =
            [now EXCEPT !.parsed = IF was.parsed = @ THEN Null ELSE @, !.authored = IF was.authored = @ THEN Null ELSE @]
      BY <1>2 DEF digests_from_body
    <3>2. QED BY <3>1 DEF BodyRows
  <2>2. p \in {now.parsed, Null} /\ a \in {now.authored, Null} OBVIOUS
  <2> HIDE DEF p, a
  <2>3. QED BY ZenonT(30), <1>1, <2>1, <2>2
<1>3. CASE ~(was.stored /\ Differ(was, now, {"bytes", "truncated", "hdrs", "sha", "complete"}))
  BY <1>3 DEF digests_from_body
<1>4. QED BY <1>2, <1>3

LEMMA RecoveredTyped ==
  ASSUME NEW m \in MessageRows, NEW b \in Bodies
  PROVE  /\ Recovered(m, b) \in MessageRows /\ Recovered(m, b).env = m.env /\ m.ids \subseteq Recovered(m, b).ids
  BY EvidenceAssumption DEF Recovered, MessageRows

LEMMA KeptTyped ==
  ASSUME NEW meta \in Metas, NEW before \in MessageRows \cup {Null}
  PROVE  /\ [env |-> meta.env, ids |-> IdsToKeep(before, meta), hdrs |-> meta.hdrs] \in MessageRows
         /\ before # Null => before.ids \subseteq IdsToKeep(before, meta)
  BY EvidenceAssumption DEF IdsToKeep, MessageRows

LEMMA EvidenceTypeStep == EvidenceInv /\ [EvidenceNext]_evidenceVars => EvidenceTypeOK'
<1> SUFFICES ASSUME EvidenceInv, [EvidenceNext]_evidenceVars PROVE EvidenceTypeOK'
  OBVIOUS
<1> USE EvidenceAssumption DEF EvidenceInv
<1>0. NoWriter \in [pc : {"idle", "begun", "locked", "read"}, gen : {0, 1, 2}, uid : Uids \cup {0},
                             meta : Metas \cup {Null}, before : MessageRows \cup {Null}] /\ NoWriter.pc = "idle"
  BY DEF NoWriter
<1>1. ASSUME NEW w \in Writers, BeginBatch(w) PROVE EvidenceTypeOK'
  BY <1>1 DEF BeginBatch, WriterIs, EvidenceTypeOK
<1>2. ASSUME NEW w \in Writers, LockFolder(w) PROVE EvidenceTypeOK'
  <2>1. writer' = [writer EXCEPT ![w] = NoWriter] \/ writer' = [writer EXCEPT ![w] = [writer[w] EXCEPT !.pc = "locked"]]
    BY <1>2 DEF LockFolder, WriterIs
  <2>2. UNCHANGED <<folderRow, message, body, items, queue, unread>> /\ holder' \in {w, holder}
    BY <1>2 DEF LockFolder
  <2>3. writer[w].pc = "begun" BY <1>2 DEF LockFolder
  <2>4. QED BY <1>0, <2>1, <2>2, <2>3 DEF EvidenceTypeOK
<1>3. ASSUME NEW w \in Writers, ReadExisting(w) PROVE EvidenceTypeOK'
  <2> DEFINE next == [writer[w] EXCEPT !.pc = "read", !.before = message[RowOf(w)]]
  <2>1. writer' = [writer EXCEPT ![w] = next] /\ UNCHANGED <<folderRow, holder, message, body, items, queue, unread>>
        /\ writer[w].pc = "locked"
    BY <1>3 DEF ReadExisting, WriterIs
  <2>2. writer[w].gen \in {1, 2} /\ writer[w].uid \in Uids /\ writer[w].meta \in Metas
    BY <2>1 DEF EvidenceTypeOK
  <2>3. message[RowOf(w)] \in MessageRows \cup {Null} BY <2>2 DEF EvidenceTypeOK, RowOf, Rows
  <2>4. next \in [pc : {"idle", "begun", "locked", "read"}, gen : {0, 1, 2}, uid : Uids \cup {0},
                  meta : Metas \cup {Null}, before : MessageRows \cup {Null}]
        /\ next.gen = writer[w].gen /\ next.uid = writer[w].uid /\ next.meta = writer[w].meta
    BY ZenonT(30), <2>2, <2>3 DEF EvidenceTypeOK
  <2> HIDE DEF next
  <2>5. QED BY <2>1, <2>2, <2>4 DEF EvidenceTypeOK
<1>4. ASSUME NEW w \in Writers, upsertMessages(w) PROVE EvidenceTypeOK'
  <2> DEFINE r == RowOf(w)
             meta == writer[w].meta
             row == [env |-> meta.env, ids |-> IdsToKeep(writer[w].before, meta), hdrs |-> meta.hdrs]
  <2>1. r \in Rows /\ meta \in Metas /\ writer[w].before \in MessageRows \cup {Null} /\ writer[w].gen \in {1, 2}
    BY <1>4 DEF upsertMessages, EvidenceTypeOK, RowOf, Rows
  <2>2. row \in MessageRows BY <2>1, KeptTyped
  <2>3. digests_from_message(message[r], row, body[r]) \in BodyRows BY <2>1, DigestsTyped DEF EvidenceTypeOK
  <2>4. message' \in [Rows -> MessageRows \cup {Null}] /\ body' \in [Rows -> BodyRows]
    BY <1>4, <2>1, <2>2, <2>3 DEF upsertMessages, EvidenceTypeOK
  <2>5. queue' \subseteq Rows /\ unread' \subseteq Rows /\ items' \in [Rows -> ItemSets]
    BY <1>4, <2>1 DEF upsertMessages, EvidenceTypeOK, Unread
  <2>6. folderRow' \in [gen : {1, 2, Null}, count : Nat] /\ holder' \in Writers \cup {Null}
    BY <1>4, <2>1 DEF upsertMessages, EvidenceTypeOK
  <2>7. writer' = [writer EXCEPT ![w] = NoWriter] BY <1>4 DEF upsertMessages, WriterIs
  <2>8. QED BY <1>0, <2>4, <2>5, <2>6, <2>7 DEF EvidenceTypeOK
<1>5. ASSUME NEW w \in Writers, Rollback(w) PROVE EvidenceTypeOK'
  BY <1>0, <1>5 DEF Rollback, WriterIs, EvidenceTypeOK
<1>6. ASSUME NEW r \in Rows, storeBodyEvidence(r) PROVE EvidenceTypeOK'
  <2>1. message[r] \in MessageRows BY <1>6 DEF storeBodyEvidence, EvidenceTypeOK
  <2>2. PICK b \in Bodies :
          /\ message' = [message EXCEPT ![r] = Recovered(message[r], b)]
          /\ body' = [body EXCEPT ![r] = digests_from_body(body[r], Read(message[r], b))]
          /\ items' = [items EXCEPT ![r] = Replaced(items[r], b)]
    BY <1>6 DEF storeBodyEvidence
  <2>3. Recovered(message[r], b) \in MessageRows BY <2>1, RecoveredTyped
  <2>4. digests_from_body(body[r], Read(message[r], b)) \in BodyRows
    BY <2>1, ReadTyped, BodyDigestsTyped DEF EvidenceTypeOK
  <2>5. Replaced(items[r], b) \in ItemSets BY DEF Replaced, prepareMessageEvidence, ItemSets, EvidenceTypeOK
  <2>6. queue' \subseteq Rows /\ unread' \subseteq Rows BY <1>6 DEF storeBodyEvidence, Unread, EvidenceTypeOK
  <2>7. UNCHANGED <<folderRow, holder, writer>> BY <1>6 DEF storeBodyEvidence
  <2>8. QED BY <2>2, <2>3, <2>4, <2>5, <2>6, <2>7 DEF EvidenceTypeOK
<1>7. ASSUME NEW r \in Rows, DrainMessage(r) PROVE EvidenceTypeOK' BY <1>7 DEF DrainMessage, EvidenceTypeOK
<1>8. CASE ResetFolder BY <1>8 DEF ResetFolder, EvidenceTypeOK
<1>9. CASE UNCHANGED evidenceVars BY <1>9 DEF evidenceVars, EvidenceTypeOK
<1>10. QED BY <1>1, <1>2, <1>3, <1>4, <1>5, <1>6, <1>7, <1>8, <1>9 DEF EvidenceNext

LEMMA LockedStep == EvidenceInv /\ [EvidenceNext]_evidenceVars => Locked'
<1> SUFFICES ASSUME EvidenceInv, [EvidenceNext]_evidenceVars PROVE Locked'
  OBVIOUS
<1> USE EvidenceAssumption DEF EvidenceInv, RowOf
<1>1. ASSUME NEW w \in Writers, BeginBatch(w) PROVE Locked'
  BY <1>1 DEF BeginBatch, WriterIs, EvidenceTypeOK, Locked
<1>2. ASSUME NEW w \in Writers, LockFolder(w) PROVE Locked'
  <2>1. CASE folderRow.gen \in {Null, writer[w].gen}
    <3> DEFINE next == [writer[w] EXCEPT !.pc = "locked"]
    <3>1. holder = Null /\ holder' = w /\ writer' = [writer EXCEPT ![w] = next] /\ UNCHANGED <<folderRow, message>>
      BY <1>2, <2>1 DEF LockFolder, FolderFree, WriterIs
    <3>2. next.pc = "locked" /\ next.gen = writer[w].gen BY DEF EvidenceTypeOK
    <3>3. \A v \in Writers : writer[v].pc \notin {"locked", "read"} BY <3>1 DEF Locked
    <3> HIDE DEF next
    <3>4. writer'[w] = next /\ \A v \in Writers \ {w} : writer'[v] = writer[v] BY <3>1 DEF EvidenceTypeOK
    <3>5. QED BY <2>1, <3>1, <3>2, <3>3, <3>4 DEF Locked
  <2>2. CASE folderRow.gen \notin {Null, writer[w].gen}
    BY <1>2, <2>2 DEF LockFolder, WriterIs, NoWriter, EvidenceTypeOK, Locked
  <2>3. QED BY <2>1, <2>2
<1>3. ASSUME NEW w \in Writers, ReadExisting(w) PROVE Locked'
  <2> DEFINE next == [writer[w] EXCEPT !.pc = "read", !.before = message[RowOf(w)]]
  <2>1. writer' = [writer EXCEPT ![w] = next] /\ UNCHANGED <<folderRow, holder, message>> /\ writer[w].pc = "locked"
    BY <1>3 DEF ReadExisting, WriterIs
  <2>2. next.pc = "read" /\ next.gen = writer[w].gen /\ next.uid = writer[w].uid /\ next.before = message[RowOf(w)]
    BY DEF EvidenceTypeOK
  <2> HIDE DEF next
  <2>3. writer'[w] = next /\ \A v \in Writers \ {w} : writer'[v] = writer[v] BY <2>1 DEF EvidenceTypeOK
  <2>4. QED BY <2>1, <2>2, <2>3 DEF Locked
<1>4. ASSUME NEW w \in Writers, upsertMessages(w) \/ Rollback(w) PROVE Locked'
  <2>1. writer' = [writer EXCEPT ![w] = NoWriter] BY <1>4 DEF upsertMessages, Rollback, WriterIs
  <2>2. writer'[w].pc = "idle" /\ \A v \in Writers \ {w} : writer'[v] = writer[v]
    BY <2>1 DEF EvidenceTypeOK, NoWriter
  <2>3. CASE upsertMessages(w)
    <3>1. holder = w BY <2>3 DEF upsertMessages, Locked
    <3>2. QED BY <2>2, <3>1 DEF Locked
  <2>4. CASE Rollback(w)
    BY <2>2, <2>4 DEF Rollback, Locked
  <2>5. QED BY <1>4, <2>3, <2>4
<1>5. ASSUME NEW r \in Rows, storeBodyEvidence(r) PROVE Locked'
  <2>1. \A v \in Writers : writer[v].pc = "read" => RowOf(v) # r
    <3> SUFFICES ASSUME NEW v \in Writers, writer[v].pc = "read", RowOf(v) = r PROVE FALSE
      OBVIOUS
    <3>1. QED BY <1>5 DEF storeBodyEvidence, RowLocked
  <2>2. \A s \in Rows \ {r} : message'[s] = message[s] BY <1>5 DEF storeBodyEvidence, EvidenceTypeOK
  <2>3. \A v \in Writers : writer[v].pc = "read" => RowOf(v) \in Rows BY DEF EvidenceTypeOK, Rows
  <2>4. UNCHANGED <<folderRow, holder, writer>> BY <1>5 DEF storeBodyEvidence
  <2>5. QED BY <2>1, <2>2, <2>3, <2>4 DEF Locked
<1>6. ASSUME NEW r \in Rows, DrainMessage(r) PROVE Locked' BY <1>6 DEF DrainMessage, Locked
<1>7. CASE ResetFolder BY <1>7 DEF ResetFolder, FolderFree, Locked
<1>8. CASE UNCHANGED evidenceVars BY <1>8 DEF evidenceVars, Locked
<1>9. QED BY <1>1, <1>2, <1>3, <1>4, <1>5, <1>6, <1>7, <1>8 DEF EvidenceNext

(* What a batch's transaction does to the row it read.                     *)
LEMMA UpsertStep ==
  ASSUME EvidenceInv, NEW w \in Writers, upsertMessages(w)
  PROVE  /\ RowOf(w) \in Rows /\ holder = w /\ folderRow.gen \in {Null, writer[w].gen}
         /\ writer[w].gen \in {1, 2} /\ writer[w].uid \in Uids
         /\ message'[RowOf(w)] \in MessageRows
         /\ message[RowOf(w)] # Null => message[RowOf(w)].ids \subseteq message'[RowOf(w)].ids
         /\ body'[RowOf(w)] = digests_from_message(message[RowOf(w)], message'[RowOf(w)], body[RowOf(w)])
         /\ \A s \in Rows \ {RowOf(w)} : message'[s] = message[s] /\ body'[s] = body[s]
         /\ items' = items
         /\ folderRow' = [gen |-> writer[w].gen, count |-> folderRow.count + IF message[RowOf(w)] = Null THEN 1 ELSE 0]
<1> DEFINE r == RowOf(w)
           meta == writer[w].meta
           row == [env |-> meta.env, ids |-> IdsToKeep(writer[w].before, meta), hdrs |-> meta.hdrs]
<1> USE EvidenceAssumption DEF EvidenceInv
<1>1. writer[w].pc = "read" BY DEF upsertMessages
<1>2. holder = w /\ folderRow.gen \in {Null, writer[w].gen} /\ writer[w].before = message[r]
  BY <1>1 DEF Locked
<1>3. writer[w].gen \in {1, 2} /\ writer[w].uid \in Uids /\ meta \in Metas BY <1>1 DEF EvidenceTypeOK
<1>4. r \in Rows BY <1>3 DEF RowOf, Rows
<1>5. message[r] \in MessageRows \cup {Null} BY <1>4 DEF EvidenceTypeOK
<1>6. row \in MessageRows /\ (message[r] # Null => message[r].ids \subseteq row.ids)
  BY <1>2, <1>3, <1>5, KeptTyped
<1>7. message' = [message EXCEPT ![r] = row] /\ body' = [body EXCEPT ![r] = digests_from_message(message[r], row, body[r])]
      /\ items' = items
  BY DEF upsertMessages
<1>8. folderRow' = [gen |-> writer[w].gen, count |-> folderRow.count + IF message[r] = Null THEN 1 ELSE 0]
  BY <1>2 DEF upsertMessages
<1> HIDE DEF r, row
<1>9. message'[r] = row /\ body'[r] = digests_from_message(message[r], row, body[r])
      /\ \A s \in Rows \ {r} : message'[s] = message[s] /\ body'[s] = body[s]
  BY <1>4, <1>7 DEF EvidenceTypeOK
<1>10. QED BY <1>2, <1>3, <1>4, <1>6, <1>7, <1>8, <1>9 DEF r

(* What a body read does to its row.                                       *)
LEMMA StoreStep ==
  ASSUME EvidenceInv, NEW r \in Rows, storeBodyEvidence(r)
  PROVE  \E b \in Bodies :
         /\ message[r] \in MessageRows /\ message[r] # Null /\ message'[r] = Recovered(message[r], b)
         /\ message'[r] \in MessageRows /\ message'[r].env = message[r].env /\ message[r].ids \subseteq message'[r].ids
         /\ body'[r] = digests_from_body(body[r], Read(message[r], b))
         /\ items'[r] = Replaced(items[r], b)
         /\ \A s \in Rows \ {r} : message'[s] = message[s] /\ body'[s] = body[s] /\ items'[s] = items[s]
         /\ UNCHANGED <<folderRow, holder, writer>>
<1> USE EvidenceAssumption DEF EvidenceInv
<1>1. message[r] # Null /\ message[r] \in MessageRows /\ UNCHANGED <<folderRow, holder, writer>>
  BY DEF storeBodyEvidence, EvidenceTypeOK
<1>2. PICK b \in Bodies :
          /\ message' = [message EXCEPT ![r] = Recovered(message[r], b)]
          /\ body' = [body EXCEPT ![r] = digests_from_body(body[r], Read(message[r], b))]
          /\ items' = [items EXCEPT ![r] = Replaced(items[r], b)]
  BY DEF storeBodyEvidence
<1>3. Recovered(message[r], b) \in MessageRows /\ Recovered(message[r], b).env = message[r].env
      /\ message[r].ids \subseteq Recovered(message[r], b).ids
  BY <1>1, RecoveredTyped
<1>4. message'[r] = Recovered(message[r], b) /\ body'[r] = digests_from_body(body[r], Read(message[r], b))
      /\ items'[r] = Replaced(items[r], b)
      /\ \A s \in Rows \ {r} : message'[s] = message[s] /\ body'[s] = body[s] /\ items'[s] = items[s]
  BY <1>2 DEF EvidenceTypeOK
<1>5. QED BY <1>1, <1>3, <1>4

LEMMA RowsStep == EvidenceInv /\ [EvidenceNext]_evidenceVars => RowsOfGeneration' /\ BodyHasRow'
<1> SUFFICES ASSUME EvidenceInv, [EvidenceNext]_evidenceVars PROVE RowsOfGeneration' /\ BodyHasRow'
  OBVIOUS
<1> USE EvidenceAssumption DEF EvidenceInv
<1>0. Null \notin MessageRows /\ Null \notin {1, 2} /\ \A u \in Uids : <<2, u>> \in Rows BY DEF Rows
<1>1. ASSUME NEW w \in Writers, upsertMessages(w) PROVE RowsOfGeneration' /\ BodyHasRow'
  <2>1. RowsOfGeneration'
    <3> DEFINE r == RowOf(w)
    <3>1. /\ folderRow.gen \in {Null, writer[w].gen} /\ writer[w].gen \in {1, 2} /\ folderRow'.gen = writer[w].gen
          /\ \A s \in Rows \ {r} : message'[s] = message[s]
      BY <1>1, UpsertStep
    <3>2. \A u \in Uids : writer[w].gen = 1 => <<2, u>> # r BY DEF RowOf
    <3>3. folderRow'.gen = 1 => \A u \in Uids : message[<<2, u>>] = Null
      BY <1>0, <3>1 DEF RowsOfGeneration
    <3> HIDE DEF r
    <3>4. QED BY <1>0, <3>1, <3>2, <3>3 DEF RowsOfGeneration
  <2>2. body'[RowOf(w)].stored = body[RowOf(w)].stored
    BY <1>1, UpsertStep, DigestsTyped DEF EvidenceTypeOK
  <2>3. BodyHasRow' BY <1>0, <1>1, <2>2, UpsertStep DEF BodyHasRow
  <2>4. QED BY <2>1, <2>3
<1>2. ASSUME NEW r \in Rows, storeBodyEvidence(r) PROVE RowsOfGeneration' /\ BodyHasRow'
  BY <1>0, <1>2, StoreStep DEF RowsOfGeneration, BodyHasRow
<1>3. CASE ResetFolder BY <1>0, <1>3 DEF ResetFolder, RowsOfGeneration, BodyHasRow
<1>4. CASE UNCHANGED <<folderRow, message, body>> BY <1>4 DEF RowsOfGeneration, BodyHasRow
<1>5. QED BY <1>1, <1>2, <1>3, <1>4
  DEF EvidenceNext, evidenceVars, BeginBatch, LockFolder, ReadExisting, Rollback, DrainMessage

LEMMA OwedStep == EvidenceInv /\ [EvidenceNext]_evidenceVars => StoredIsOwed'
<1> SUFFICES ASSUME EvidenceInv, [EvidenceNext]_evidenceVars PROVE StoredIsOwed'
  OBVIOUS
<1> USE EvidenceAssumption DEF EvidenceInv
<1>1. ASSUME NEW w \in Writers, upsertMessages(w) PROVE StoredIsOwed'
  <2> DEFINE r == RowOf(w)
  <2>1. message'[r] \in MessageRows /\ body'[r] = digests_from_message(message[r], message'[r], body[r])
        /\ body[r] \in BodyRows
    BY <1>1, UpsertStep DEF EvidenceTypeOK
  <2>2. body'[r] = body[r] \/ (message[r] # Null /\ message[r].env # message'[r].env)
    BY <2>1, DigestsTyped
  <2>3. body'[r].hdrs = body[r].hdrs /\ body'[r].raw = body[r].raw BY <2>1, DigestsTyped
  <2>4. ASSUME InputsChanged(r) PROVE capture_thread_evidence(r)
    <3>1. CASE message[r] = Null BY <2>1, <2>4, <3>1 DEF capture_thread_evidence, InputsChanged
    <3>2. CASE message[r] # Null /\ message[r].env # message'[r].env
      BY <3>2 DEF capture_thread_evidence, Differ, ThreadColumns
    <3>3. CASE message[r] # Null /\ message[r].env = message'[r].env
      <4>1. body'[r] = body[r] BY <2>2, <3>3
      <4>2. message[r].ids # message'[r].ids \/ message[r].hdrs # message'[r].hdrs
        BY <2>4, <3>3, <4>1 DEF InputsChanged, InputsOf
      <4>3. QED BY <3>3, <4>2 DEF capture_thread_evidence, Differ, ThreadColumns
    <3>4. QED BY <3>1, <3>2, <3>3
  <2>5. queue' = queue \cup {s \in {r} : capture_thread_evidence(s)} /\ unread' = unread \cup {s \in {r} : InputsChanged(s)}
    BY <1>1 DEF upsertMessages, Unread
  <2> HIDE DEF r
  <2>6. QED BY <2>4, <2>5 DEF StoredIsOwed
<1>2. ASSUME NEW r \in Rows, storeBodyEvidence(r) PROVE StoredIsOwed'
  <2>1. PICK b \in Bodies : body'[r] = digests_from_body(body[r], Read(message[r], b)) /\ message[r] \in MessageRows
                             /\ message[r] # Null
    BY <1>2, StoreStep
  <2>2. body'[r].stored BY <2>1, ReadTyped, BodyDigestsTyped DEF EvidenceTypeOK
  <2>3. ASSUME InputsChanged(r) PROVE capture_thread_evidence(r)
    <3>1. \/ message[r].env # message'[r].env \/ message[r].ids # message'[r].ids \/ message[r].hdrs # message'[r].hdrs
          \/ body[r].hdrs # body'[r].hdrs \/ body[r].raw # body'[r].raw \/ body[r].parsed # body'[r].parsed
          \/ body[r].authored # body'[r].authored
      BY <2>1, <2>3 DEF InputsChanged, InputsOf
    <3>2. QED BY <2>2, <3>1 DEF capture_thread_evidence, Differ, ThreadColumns
  <2>4. /\ \E more \in SUBSET {r} : queue' = queue \cup {s \in {r} : capture_thread_evidence(s)} \cup more
        /\ unread' = unread \cup {s \in {r} : InputsChanged(s)}
    <3>1. PICK c \in Bodies : queue' = queue \cup {s \in {r} :
               \/ capture_thread_evidence(s)
               \/ learnedThreadingEvidence(message[r], c) \/ Differ(body[r], Read(message[r], c), {"hdrs", "raw", "parsed", "authored"})}
      BY <1>2 DEF storeBodyEvidence
    <3> DEFINE more == {s \in {r} : learnedThreadingEvidence(message[r], c)
                                   \/ Differ(body[r], Read(message[r], c), {"hdrs", "raw", "parsed", "authored"})}
    <3>2. more \in SUBSET {r} /\ queue' = queue \cup {s \in {r} : capture_thread_evidence(s)} \cup more BY <3>1
    <3>3. QED BY <1>2, <3>2 DEF storeBodyEvidence, Unread
  <2>5. QED BY <2>3, <2>4 DEF StoredIsOwed
<1>3. ASSUME NEW r \in Rows, DrainMessage(r) PROVE StoredIsOwed' BY <1>3 DEF DrainMessage, StoredIsOwed
<1>4. CASE UNCHANGED <<queue, unread>> BY <1>4 DEF StoredIsOwed
<1>5. QED BY <1>1, <1>2, <1>3, <1>4
  DEF EvidenceNext, evidenceVars, BeginBatch, LockFolder, ReadExisting, Rollback, ResetFolder

LEMMA DigestStep == EvidenceInv /\ [EvidenceNext]_evidenceVars => DigestsCurrent'
<1> DEFINE Fresh(m, b, i) == b.stored =>
             /\ b.parsed # Null => b.parsed = <<m.env, b.hdrs, b.bytes>>
             /\ b.authored # Null => b.authored = <<m.env, b.hdrs, i>>
             /\ b.sha # Null => b.sha = i
<1> SUFFICES ASSUME EvidenceInv, [EvidenceNext]_evidenceVars, NEW s \in Rows
             PROVE  Fresh(message'[s], body'[s], items'[s])
  BY DEF DigestsCurrent
<1>0. Fresh(message[s], body[s], items[s]) BY DEF EvidenceInv, DigestsCurrent
<1> USE EvidenceAssumption DEF EvidenceInv
<1>1. ASSUME NEW w \in Writers, upsertMessages(w) PROVE Fresh(message'[s], body'[s], items'[s])
  <2>1. CASE s # RowOf(w) BY <1>0, <1>1, <2>1, UpsertStep
  <2>2. CASE s = RowOf(w)
    <3>1. body'[s] = digests_from_message(message[s], message'[s], body[s]) /\ items'[s] = items[s] /\ body[s] \in BodyRows
      BY <1>1, <2>2, UpsertStep DEF EvidenceTypeOK
    <3>2. body[s].stored => message[s] # Null BY DEF BodyHasRow
    <3>3. QED BY <1>0, <3>1, <3>2, DigestsTyped
  <2>3. QED BY <2>1, <2>2
<1>2. ASSUME NEW r \in Rows, storeBodyEvidence(r) PROVE Fresh(message'[s], body'[s], items'[s])
  <2>1. PICK b \in Bodies :
         /\ message[r] \in MessageRows /\ message'[r].env = message[r].env
         /\ body'[r] = digests_from_body(body[r], Read(message[r], b)) /\ items'[r] = Replaced(items[r], b)
         /\ \A x \in Rows \ {r} : message'[x] = message[x] /\ body'[x] = body[x] /\ items'[x] = items[x]
    BY <1>2, StoreStep
  <2>2. CASE s # r BY <1>0, <2>1, <2>2
  <2>3. CASE s = r
    <3> DEFINE read == Read(message[r], b)
    <3>1. body[r] \in BodyRows /\ read \in BodyRows BY <2>1, ReadTyped DEF EvidenceTypeOK
    <3>2. /\ body'[r].hdrs = read.hdrs /\ body'[r].bytes = read.bytes /\ body'[r].sha = read.sha
          /\ body'[r].parsed \in {read.parsed, Null} /\ body'[r].authored \in {read.authored, Null}
      BY <2>1, <3>1, BodyDigestsTyped
    <3>3. /\ read.parsed # Null => read.parsed = <<message[r].env, read.hdrs, read.bytes>>
          /\ read.authored # Null => ~b.truncated /\ read.authored = <<message[r].env, read.hdrs, b.items>>
          /\ read.sha # Null => ~b.truncated /\ read.sha = b.items
      BY <2>1, ReadTyped
    <3>4. ~b.truncated => items'[r] = b.items BY <2>1 DEF Replaced, prepareMessageEvidence
    <3> HIDE DEF read
    <3>5. QED BY <2>1, <2>3, <3>2, <3>3, <3>4
  <2>4. QED BY <2>2, <2>3
<1>3. CASE UNCHANGED <<message, body, items>> BY <1>0, <1>3
<1>4. QED BY <1>1, <1>2, <1>3
  DEF EvidenceNext, evidenceVars, BeginBatch, LockFolder, ReadExisting, Rollback, DrainMessage, ResetFolder

LEMMA CountStep == EvidenceInv /\ [EvidenceNext]_evidenceVars => CountedOnce'
<1> SUFFICES ASSUME EvidenceInv, [EvidenceNext]_evidenceVars PROVE CountedOnce'
  OBVIOUS
<1> DEFINE Stored(g) == {u \in Uids : message[<<g, u>>] # Null}
<1> USE EvidenceAssumption DEF EvidenceInv
<1>0. \A g \in {1, 2}, u \in Uids : <<g, u>> \in Rows BY DEF Rows
<1>1. ASSUME NEW w \in Writers, upsertMessages(w) PROVE CountedOnce'
  <2> DEFINE g == writer[w].gen
             uid == writer[w].uid
  <2>1. /\ g \in {1, 2} /\ uid \in Uids /\ folderRow.gen \in {Null, g}
        /\ message'[<<g, uid>>] # Null
        /\ \A u \in Uids \ {uid} : message'[<<g, u>>] = message[<<g, u>>]
        /\ folderRow' = [gen |-> g, count |-> folderRow.count + IF message[<<g, uid>>] = Null THEN 1 ELSE 0]
    BY <1>0, <1>1, UpsertStep DEF RowOf
  <2>2. {u \in Uids : message'[<<g, u>>] # Null} = Stored(g) \cup {uid} BY <2>1
  <2>3. IsFiniteSet(Stored(g)) BY FS_Subset
  <2>4. folderRow.count = Cardinality(Stored(g))
    <3>1. CASE folderRow.gen = Null
      <4>1. Stored(g) = {} BY <1>0, <2>1, <3>1 DEF RowsOfGeneration
      <4>2. QED BY <3>1, <4>1, FS_EmptySet DEF RowsOfGeneration
    <3>2. CASE folderRow.gen = g BY <2>1, <3>2 DEF CountedOnce
    <3>3. QED BY <2>1, <3>1, <3>2
  <2>5. Cardinality(Stored(g) \cup {uid}) = Cardinality(Stored(g)) + IF message[<<g, uid>>] = Null THEN 1 ELSE 0
    <3>1. uid \in Stored(g) <=> message[<<g, uid>>] # Null BY <2>1
    <3>2. Cardinality(Stored(g)) \in Nat BY <2>3, FS_CardinalityType
    <3>3. Cardinality(Stored(g) \cup {uid}) =
            IF uid \in Stored(g) THEN Cardinality(Stored(g)) ELSE Cardinality(Stored(g)) + 1
      <4> DEFINE S == Stored(g)
      <4>1. IsFiniteSet(S) BY <2>3
      <4> HIDE DEF S
      <4>2. QED BY <4>1, FS_AddElement DEF S
    <3> HIDE DEF Stored
    <3>4. QED BY <3>1, <3>2, <3>3
  <2>6. folderRow'.gen = g /\ folderRow'.count = Cardinality(Stored(g) \cup {uid}) BY <2>1, <2>4, <2>5
  <2>7. QED BY <2>2, <2>6 DEF CountedOnce
<1>2. ASSUME NEW r \in Rows, storeBodyEvidence(r) PROVE CountedOnce'
  <2>1. folderRow' = folderRow /\ \A s \in Rows : (message'[s] = Null) <=> (message[s] = Null)
    BY <1>2, StoreStep
  <2>2. CASE folderRow.gen = Null BY <2>1, <2>2 DEF CountedOnce
  <2>3. CASE folderRow.gen # Null
    <3>1. folderRow.gen \in {1, 2} BY <2>3 DEF EvidenceTypeOK
    <3>2. {u \in Uids : message'[<<folderRow.gen, u>>] # Null} = Stored(folderRow.gen) BY <1>0, <2>1, <3>1
    <3>3. QED BY <2>1, <3>2 DEF CountedOnce
  <2>4. QED BY <2>2, <2>3
<1>3. CASE ResetFolder
  <2>1. folderRow' = [gen |-> 2, count |-> 0] /\ message' = message /\ folderRow.gen = 1 BY <1>3 DEF ResetFolder
  <2>2. Stored(2) = {} BY <2>1 DEF RowsOfGeneration
  <2>3. QED BY <2>1, <2>2, FS_EmptySet DEF CountedOnce
<1>4. CASE UNCHANGED <<folderRow, message>> BY <1>4 DEF CountedOnce
<1>5. QED BY <1>1, <1>2, <1>3, <1>4
  DEF EvidenceNext, evidenceVars, BeginBatch, LockFolder, ReadExisting, Rollback, DrainMessage

LEMMA EvidenceInvHolds == EvidenceInit /\ [][EvidenceNext]_evidenceVars => []EvidenceInv
<1>1. EvidenceInv /\ [EvidenceNext]_evidenceVars => EvidenceInv'
  BY EvidenceTypeStep, LockedStep, RowsStep, OwedStep, DigestStep, CountStep DEF EvidenceInv
<1>2. QED BY <1>1, EvidenceInitInv, PTL

(* Whatever batches and body reads interleave, a stored message that a     *)
(* thread run has not seen is queued, a digest is of what is stored, and   *)
(* the count is of the generation's rows.                                  *)
THEOREM EvidenceHolds == EvidenceInit /\ [][EvidenceNext]_evidenceVars => []EvidenceTrue
<1>1. EvidenceInv => EvidenceTrue BY DEF EvidenceInv, EvidenceTrue
<1>2. QED BY <1>1, EvidenceInvHolds, PTL

(* No batch and no body read unsets an identity that a row has.            *)
THEOREM IdentityHolds == EvidenceInit /\ [][EvidenceNext]_evidenceVars => IdentityKept
<1> DEFINE KeepsIds == \A r \in Rows : message[r] # Null => message'[r] # Null /\ message[r].ids \subseteq message'[r].ids
<1>1. ASSUME EvidenceInv, [EvidenceNext]_evidenceVars PROVE KeepsIds
  <2> USE EvidenceAssumption
  <2>1. ASSUME NEW w \in Writers, upsertMessages(w) PROVE KeepsIds BY <1>1, <2>1, UpsertStep
  <2>2. ASSUME NEW r \in Rows, storeBodyEvidence(r) PROVE KeepsIds BY <1>1, <2>2, StoreStep
  <2>3. CASE UNCHANGED message BY <2>3
  <2>4. QED BY <1>1, <2>1, <2>2, <2>3
    DEF EvidenceNext, evidenceVars, BeginBatch, LockFolder, ReadExisting, Rollback, DrainMessage, ResetFolder
<1>2. EvidenceInv /\ [EvidenceNext]_evidenceVars => [KeepsIds]_evidenceVars BY <1>1
<1>3. QED BY <1>2, EvidenceInvHolds, PTL DEF IdentityKept

-------------------------------------------------------------------------------
(* The worker.                                                             *)

AtGate == stage \in {"selfTest", "rollout", "sweep", "cap", "retention"}
Stages == {"selfTest", "rollout", "sweep", "cap", "retention", "loop", "backoff", "pass", "list", "drain", "drainAccount",
           "close", "sleep", "ended", "failed"}
WorkerTypeOK ==
  /\ stage \in Stages /\ lane \in {"full", "sent"} /\ stopping \in BOOLEAN
  /\ spent \in Nat /\ sinceStop \in Nat /\ sinceFull \in Nat \cup {-1} /\ fullTook \in Nat
  /\ stage \in {"pass", "list", "drain", "drainAccount", "close", "sleep"} => timer \in Nat /\ sinceFull # -1

(* What the process awaits bounds how long ago stop was called.            *)
StopBounds ==
  /\ ~stopping => sinceStop = 0
  /\ AtGate \/ stage \in {"list", "drainAccount"} => sinceStop <= spent /\ spent <= StepTime
  /\ stage \in {"backoff", "loop", "sleep"} => sinceStop = 0
  /\ stage = "pass" => sinceStop <= spent /\ (Signalled => spent <= AbortGrace)
  /\ stage = "drain" => sinceStop <= StepTime
  /\ stage = "close" => sinceStop <= AbortGrace \/ sinceStop <= StepTime
(* And how long ago the last full sweep began.                             *)
LaneEnd == SyncInterval + AbortGrace + StepTime + LaneBudget
SweepBounds ==
  /\ AtGate \/ stage = "backoff" => sinceFull = -1
  /\ stage = "pass" /\ lane = "sent" => sinceFull <= IF timer > 0 THEN SyncInterval - timer ELSE SyncInterval + spent
  /\ stage = "list" /\ lane = "sent" => sinceFull <= SyncInterval + AbortGrace + spent
  /\ stage = "drain" /\ lane = "sent" => sinceFull <= IF timer > 0 THEN LaneEnd - timer ELSE LaneEnd + StepTime
  /\ stage = "drainAccount" /\ lane = "sent" => sinceFull <= IF timer > 0 THEN LaneEnd - timer ELSE LaneEnd + spent
  /\ stage = "close" /\ lane = "sent" => sinceFull <= LaneEnd + StepTime
  /\ stage = "sleep" /\ lane = "sent" => sinceFull <= IF timer > 0 THEN SyncInterval - timer ELSE LaneEnd + StepTime
  /\ stage = "sleep" /\ lane = "full" => sinceFull + timer <= fullTook + workerPollIntervalMs
  /\ stage = "loop" => sinceFull <= LaneEnd + StepTime \/ sinceFull <= fullTook + workerPollIntervalMs
WorkerInv == WorkerTypeOK /\ StopBounds /\ SweepBounds

LEMMA PollInterval == workerPollIntervalMs \in Nat \ {0} /\ workerPollIntervalMs <= SyncInterval
  BY WorkerAssumption, MinOfTwo DEF workerPollIntervalMs

LEMMA WorkerInitInv == WorkerInit => WorkerInv
<1> SUFFICES ASSUME WorkerInit PROVE WorkerInv
  OBVIOUS
<1>1. stage = "selfTest" /\ lane = "full" /\ sinceFull = -1 /\ fullTook = 0 /\ stopping = FALSE /\ sinceStop = 0 /\ spent = 0
  BY DEF WorkerInit
<1>2. WorkerTypeOK BY <1>1 DEF WorkerTypeOK, Stages
<1>3. StopBounds BY <1>1, WorkerAssumption DEF StopBounds, AtGate
<1>4. SweepBounds BY <1>1 DEF SweepBounds
<1>5. QED BY <1>2, <1>3, <1>4 DEF WorkerInv

LEMMA WorkerStep == WorkerInv /\ [WorkerNext]_workerVars => WorkerInv'
<1> SUFFICES ASSUME WorkerInv, [WorkerNext]_workerVars PROVE WorkerInv'
  OBVIOUS
<1> USE WorkerAssumption, PollInterval
    DEF WorkerInv, WorkerTypeOK, Stages, StopBounds, SweepBounds, AtGate, Signalled, LaneEnd, Awaits, Kept
<1>0. workerPollIntervalMs' = workerPollIntervalMs BY DEF workerPollIntervalMs
<1>1. CASE PassGate
  <2>1. AtGate /\ stage' \in {"rollout", "sweep", "cap", "retention", "loop", "ended"} /\ (stopping => stage' = "ended")
    BY <1>1 DEF PassGate, Gates
  <2>2. QED BY <1>0, <1>1, <2>1 DEF PassGate
<1>2. CASE FailGate
  <2>1. AtGate /\ stage' \in {"ended", "failed"} BY <1>2 DEF FailGate, Gates
  <2>2. QED BY <1>0, <1>2, <2>1 DEF FailGate
<1>3. CASE RetryLater BY <1>0, <1>3 DEF RetryLater
<1>4. CASE RetryNow BY <1>0, <1>4 DEF RetryNow
<1>5. CASE StartSweep
  <2>1. CASE sinceFull = -1 \/ sinceFull >= SyncInterval
    BY <1>0, <1>5, <2>1 DEF StartSweep, selectSyncLane
  <2>2. CASE sinceFull # -1 /\ sinceFull < SyncInterval
    <3>1. lane' = "sent" /\ sinceFull' = sinceFull /\ timer' = Max({1, SyncInterval - sinceFull})
      BY <1>5, <2>2 DEF StartSweep, selectSyncLane, sentLaneSignal
    <3>2. timer' = SyncInterval - sinceFull BY <2>2, <3>1, MaxOfTwo
    <3>3. QED BY <1>0, <1>5, <2>2, <3>1, <3>2 DEF StartSweep
  <2>3. QED BY <2>1, <2>2
<1>6. CASE LoopEnds BY <1>0, <1>6 DEF LoopEnds
<1>7. CASE EndPass BY <1>0, <1>7 DEF EndPass
<1>17. CASE listAccountsNeedingWork BY <1>0, <1>17 DEF listAccountsNeedingWork
<1>8. CASE Drain BY <1>0, <1>8 DEF Drain
<1>9. CASE drainAccount BY <1>0, <1>9 DEF drainAccount
<1>10. CASE DrainEnds BY <1>0, <1>10 DEF DrainEnds
<1>11. CASE Sleep
  <2>1. lane = "sent" => timer' \in Nat /\ (timer' > 0 => timer' <= SyncInterval - sinceFull)
    <3> SUFFICES ASSUME lane = "sent" PROVE timer' \in Nat /\ (timer' > 0 => timer' <= SyncInterval - sinceFull)
      OBVIOUS
    <3> DEFINE m == Max({0, SyncInterval - sinceFull})
    <3>1. sinceFull \in Int BY <1>11 DEF Sleep
    <3>2. m \in Nat /\ (m > 0 => m = SyncInterval - sinceFull) BY <3>1, MaxOfTwo
    <3>3. timer' = Min({workerPollIntervalMs, m}) BY <1>11 DEF Sleep, pollDelay
    <3> HIDE DEF m
    <3>4. QED BY <3>2, <3>3, MinOfTwo
  <2>2. lane = "full" => timer' = workerPollIntervalMs /\ fullTook' = sinceFull BY <1>11 DEF Sleep, pollDelay
  <2>3. lane = "sent" => fullTook' = fullTook BY <1>11 DEF Sleep
  <2>4. QED BY <1>0, <1>11, <2>1, <2>2, <2>3 DEF Sleep
<1>12. CASE Wake BY <1>0, <1>12 DEF Wake, Woken
<1>13. CASE stop BY <1>0, <1>13 DEF stop, Over
<1>14. CASE Tick
  <2>1. stage \in {"pass", "list", "drain", "drainAccount", "close", "sleep"} => timer' = IF timer > 0 THEN timer - 1 ELSE 0
    BY <1>14, MaxOfTwo DEF Tick
  <2>2. /\ stage \in {"pass", "sleep", "backoff", "list", "drainAccount"} \/ AtGate
        /\ stage = "pass" => spent < IF Signalled THEN AbortGrace ELSE PassTime
        /\ stage = "backoff" => ~stopping
        /\ stage = "sleep" => timer > 0 /\ ~stopping
        /\ stage \in {"list", "drainAccount"} \/ AtGate => spent < StepTime
    BY <1>14 DEF Tick, Over, Waiting, Woken
  <2>3. /\ stage' = stage /\ lane' = lane /\ stopping' = stopping /\ fullTook' = fullTook
        /\ spent' = IF stage = "pass" /\ lane = "sent" /\ timer = 1 /\ ~stopping THEN 0 ELSE spent + 1
        /\ sinceFull' = IF sinceFull = -1 THEN -1 ELSE sinceFull + 1
        /\ sinceStop' = IF stopping THEN sinceStop + 1 ELSE 0
    BY <1>14 DEF Tick
  <2>4. CASE stage = "pass" BY <1>0, <2>1, <2>2, <2>3, <2>4
  <2>5. CASE stage \in {"sleep", "backoff"} BY <1>0, <2>1, <2>2, <2>3, <2>5
  <2>6. CASE stage \in {"list", "drainAccount"} \/ AtGate BY <1>0, <2>1, <2>2, <2>3, <2>6
  <2>7. QED BY <2>2, <2>4, <2>5, <2>6
<1>15. CASE UNCHANGED workerVars BY <1>0, <1>15 DEF workerVars
<1>16. QED
  BY <1>1, <1>2, <1>3, <1>4, <1>5, <1>6, <1>7, <1>8, <1>9, <1>10, <1>11, <1>12, <1>13, <1>14, <1>15, <1>17 DEF WorkerNext

LEMMA WorkerInvPrompt == WorkerInv => WorkerIsPrompt
<1> SUFFICES ASSUME WorkerInv PROVE FullSweepOnTime /\ StopIsPrompt
  BY DEF WorkerIsPrompt
<1> USE WorkerAssumption, PollInterval
    DEF WorkerInv, WorkerTypeOK, Stages, StopBounds, SweepBounds, AtGate, Signalled, LaneEnd
<1>1. StopIsPrompt
  <2>1. Max({AbortGrace, StepTime}) = IF AbortGrace >= StepTime THEN AbortGrace ELSE StepTime BY MaxOfTwo
  <2>2. QED BY <2>1 DEF StopIsPrompt, Over
<1>2. FullSweepOnTime
  <2> DEFINE late == SweepEnd
  <2>1. late = IF SyncInterval >= fullTook + workerPollIntervalMs THEN SyncInterval ELSE fullTook + workerPollIntervalMs
    BY MaxOfTwo DEF SweepEnd
  <2>2. late \in Int /\ late >= SyncInterval /\ late >= fullTook + workerPollIntervalMs BY <2>1
  <2> HIDE DEF late
  <2> SUFFICES ASSUME sinceFull # -1, ~Over, ~(stage \in {"pass", "list", "drain", "drainAccount", "close"} /\ lane = "full")
               PROVE  sinceFull <= late + AbortGrace + StepTime + LaneBudget + StepTime
    BY DEF FullSweepOnTime, late
  <2>3. CASE stage \in {"pass", "list", "drain", "drainAccount", "close"} BY <2>2, <2>3
  <2>4. CASE stage \in {"loop", "sleep"} BY <2>2, <2>4
  <2>5. QED BY <2>3, <2>4 DEF Over
<1>3. QED BY <1>1, <1>2

(* Full sweeps and stops are on time whatever the intervals and budgets.   *)
THEOREM WorkerPrompt == WorkerInit /\ [][WorkerNext]_workerVars => []WorkerIsPrompt
  BY WorkerInitInv, WorkerStep, WorkerInvPrompt, PTL

-------------------------------------------------------------------------------
(* The tasks of a host.                                                    *)

(* A task waits, runs or is answered, once; what is left is counted.       *)
SchedulerInv ==
  /\ pending \subseteq Tasks /\ running \subseteq Tasks /\ pending \cap running = {}
  /\ completed \in Nat /\ totalRunnable \in Nat /\ settled \in BOOLEAN
  /\ answers = [t \in Tasks |-> IF t \in pending \cup running THEN 0 ELSE 1]
  /\ totalRunnable = completed + Cardinality(pending \cup running)
  /\ settled <=> pending \cup running = {}

LEMMA LeftCounted ==
  ASSUME NEW S \in SUBSET Tasks
  PROVE  IsFiniteSet(S) /\ Cardinality(S) \in Nat /\ (Cardinality(S) = 0 <=> S = {})
  BY SchedulerAssumption, FS_Subset, FS_CardinalityType, FS_EmptySet

LEMMA SchedulerInitInv == SchedulerInit => SchedulerInv
<1> SUFFICES ASSUME SchedulerInit PROVE SchedulerInv
  OBVIOUS
<1>1. pending \subseteq Tasks /\ running = {} BY DEF SchedulerInit, RunnableTasks
<1>2. Cardinality(pending) \in Nat BY <1>1, LeftCounted
<1>3. pending \cup running = pending BY <1>1
<1>4. /\ completed = 0 /\ totalRunnable = Cardinality(pending) /\ settled = (pending = {})
      /\ answers = [t \in Tasks |-> IF t \in pending THEN 0 ELSE 1]
  BY DEF SchedulerInit
<1>5. totalRunnable = completed + Cardinality(pending \cup running) BY <1>2, <1>3, <1>4
<1>6. QED BY <1>1, <1>2, <1>3, <1>4, <1>5 DEF SchedulerInv

LEMMA SchedulerStep == SchedulerInv /\ [SchedulerNext]_schedulerVars => SchedulerInv'
<1> SUFFICES ASSUME SchedulerInv, [SchedulerNext]_schedulerVars PROVE SchedulerInv'
  OBVIOUS
<1> DEFINE left == pending \cup running
<1>0. left \subseteq Tasks /\ IsFiniteSet(left) /\ Cardinality(left) \in Nat /\ (Cardinality(left) = 0 <=> left = {})
  BY LeftCounted DEF SchedulerInv
<1>1. CASE PumpStart
  <2>1. PICK t \in pending : pending' = pending \ {t} /\ running' = running \cup {t}
    BY <1>1 DEF PumpStart, Startable
  <2>2. pending' \cup running' = left BY <2>1
  <2>3. UNCHANGED <<target, answers, completed, totalRunnable, signal, settled>> BY <1>1 DEF PumpStart
  <2>4. QED BY <2>1, <2>2, <2>3 DEF SchedulerInv
<1>2. ASSUME NEW t \in Tasks, RunEnds(t) PROVE SchedulerInv'
  <2>1. t \in running /\ t \notin pending /\ pending' = pending /\ running' = running \ {t} /\ completed' = completed + 1
        /\ totalRunnable' = totalRunnable
        /\ answers' = [s \in Tasks |-> answers[s] + IF s \in {t} THEN 1 ELSE 0]
        /\ settled' = (settled \/ completed' = totalRunnable)
    BY <1>2 DEF RunEnds, Answer, TaskEnds, maybeResolve, SchedulerInv
  <2>2. pending' \cup running' = left \ {t} /\ t \in left BY <2>1
  <2>3. Cardinality(left \ {t}) = Cardinality(left) - 1 BY <1>0, <2>2, FS_RemoveElement
  <2>4. Cardinality(left \ {t}) \in Nat /\ (Cardinality(left \ {t}) = 0 <=> left \ {t} = {})
    BY <1>0, LeftCounted
  <2>5. answers' = [s \in Tasks |-> IF s \in pending' \cup running' THEN 0 ELSE 1]
    <3>1. \A s \in Tasks : answers[s] + (IF s \in {t} THEN 1 ELSE 0) = IF s \in pending' \cup running' THEN 0 ELSE 1
      BY <2>1, <2>2 DEF SchedulerInv
    <3>2. QED BY <2>1, <3>1
  <2>6. ~settled BY <2>2 DEF SchedulerInv
  <2>7. completed \in Nat /\ totalRunnable \in Nat /\ totalRunnable = completed + Cardinality(left) BY DEF SchedulerInv
  <2>8. completed' = completed + 1 /\ totalRunnable' = totalRunnable BY <2>1
  <2> HIDE DEF left
  <2>9. totalRunnable' = completed' + Cardinality(left \ {t}) BY <1>0, <2>3, <2>7, <2>8
  <2>10. completed' = totalRunnable <=> left \ {t} = {} BY <2>4, <2>7, <2>8, <2>9
  <2>11. settled' \in BOOLEAN /\ (settled' <=> left \ {t} = {}) BY <2>1, <2>6, <2>10
  <2>12. completed' \in Nat /\ totalRunnable' \in Nat BY <2>7, <2>8
  <2>13. pending' \subseteq Tasks /\ running' \subseteq Tasks /\ pending' \cap running' = {} BY <2>1 DEF SchedulerInv
  <2>14. QED BY <2>2, <2>5, <2>9, <2>11, <2>12, <2>13 DEF SchedulerInv
<1>3. CASE skipPendingForAbort
  <2>1. pending' = {} /\ running' = running /\ completed' = completed + Cardinality(pending)
        /\ totalRunnable' = totalRunnable
        /\ answers' = [s \in Tasks |-> answers[s] + IF s \in pending THEN 1 ELSE 0]
        /\ settled' = (settled \/ completed' = totalRunnable) /\ ~settled
    BY <1>3 DEF skipPendingForAbort, Answer, Skipped, maybeResolve
  <2>2. Cardinality(left) = Cardinality(pending) + Cardinality(running)
    <3>1. IsFiniteSet(pending) /\ IsFiniteSet(running) /\ Cardinality(pending) \in Nat /\ Cardinality(running) \in Nat
      BY LeftCounted DEF SchedulerInv
    <3>2. Cardinality(left) = Cardinality(pending) + Cardinality(running) - Cardinality(pending \cap running)
      BY <3>1, FS_Union
    <3>3. Cardinality(pending \cap running) = 0 BY FS_EmptySet DEF SchedulerInv
    <3>4. QED BY <3>1, <3>2, <3>3
  <2>3. Cardinality(pending) \in Nat /\ Cardinality(running) \in Nat /\ (Cardinality(running) = 0 <=> running = {})
    BY LeftCounted DEF SchedulerInv
  <2>4. answers' = [s \in Tasks |-> IF s \in running THEN 0 ELSE 1]
    <3>1. \A s \in Tasks : answers[s] + (IF s \in pending THEN 1 ELSE 0) = IF s \in running THEN 0 ELSE 1
      BY DEF SchedulerInv
    <3>2. QED BY <2>1, <3>1
  <2>5. totalRunnable = completed + Cardinality(pending) + Cardinality(running)
    <3>1. completed \in Nat /\ totalRunnable = completed + Cardinality(left) BY DEF SchedulerInv
    <3> HIDE DEF left
    <3>2. QED BY <2>2, <2>3, <3>1
  <2>6. completed' = totalRunnable <=> running = {}
    <3>1. completed \in Nat /\ completed' = completed + Cardinality(pending) BY <2>1 DEF SchedulerInv
    <3>2. QED BY <2>3, <2>5, <3>1
  <2>7. settled' <=> running = {} BY <2>1, <2>6
  <2>8. pending' \cup running' = running BY <2>1
  <2>9. QED BY <2>1, <2>3, <2>4, <2>5, <2>7, <2>8 DEF SchedulerInv
<1>4. CASE UNCHANGED schedulerVars BY <1>4 DEF schedulerVars, SchedulerInv
<1>5. QED BY <1>1, <1>2, <1>3, <1>4 DEF SchedulerNext

(* Each task of a host is answered once, and the promise settles with the  *)
(* last answer and not before.                                             *)
THEOREM SchedulerHolds == SchedulerInit /\ [][SchedulerNext]_schedulerVars => []AnsweredOnce
<1>1. SchedulerInv => AnsweredOnce BY DEF SchedulerInv, AnsweredOnce
<1>2. QED BY <1>1, SchedulerInitInv, SchedulerStep, PTL

-------------------------------------------------------------------------------
(* The history lane.                                                       *)

ServerRows == [gen : {1, 2}, next : Nat \ {0}, held : SUBSET Nat]
FolderRows == [gen : {1, 2}, initial : BOOLEAN, last : Nat, target : Nat \cup {Unset}, oldest : Nat \cup {Unset},
               count : Nat \cup {Unset}, walking : BOOLEAN, pending : BOOLEAN]
TurnRows == [pc : {"idle", "pick", "select", "snapshot", "scan", "fetch", "advance"}, of : HistoryFolders \cup {Unset},
             left : Int, lower : Nat, batch : SUBSET Nat]
HistoryTypeOK ==
  /\ server \in [HistoryFolders -> ServerRows] /\ old \in [HistoryFolders -> SUBSET Nat]
  /\ \A f \in HistoryFolders : server[f].held \subseteq 1..(server[f].next - 1)
  /\ folder \in [HistoryFolders -> FolderRows] /\ mirrored \in [HistoryFolders -> SUBSET Nat]
  /\ turn \in TurnRows

Gap(f) == OldHeld(f) \ mirrored[f]
(* What the live lane promises of a folder, and where a walk stands.       *)
FolderOK(f) ==
  /\ folder[f].gen <= server[f].gen
  /\ folder[f].gen = server[f].gen => folder[f].last < server[f].next
  /\ Current(f) => \A u \in server[f].held \ old[f] : u \in mirrored[f] \/ u > folder[f].last
  /\ folder[f].count # Unset =>
       folder[f].initial /\ folder[f].oldest \in Nat /\ folder[f].target \in Nat /\ folder[f].oldest <= folder[f].target + 1
  /\ Current(f) /\ folder[f].count # Unset =>
       \A u \in Gap(f) : u > folder[f].last \/ (folder[f].walking /\ u < folder[f].oldest)
(* The batch in hand: what its range lacks is in it, then is mirrored.     *)
Selected == {"snapshot", "scan", "fetch", "advance"}
LaneOK ==
  /\ turn.pc \in Selected \cup {"select"} => turn.of \in HistoryFolders /\ folder[turn.of].initial
  /\ turn.pc \in Selected => folder[turn.of].gen = server[turn.of].gen
  /\ turn.pc \in {"scan", "fetch", "advance"} => folder[turn.of].count # Unset
  /\ turn.pc \in {"fetch", "advance"} => 1 <= turn.lower /\ turn.lower <= folder[turn.of].target
  /\ turn.pc \in {"fetch", "advance"} =>
       \A u \in Gap(turn.of) : turn.lower <= u /\ u < folder[turn.of].oldest =>
         u > folder[turn.of].last \/ (turn.pc = "fetch" /\ u \in turn.batch)
HistoryInv == HistoryTypeOK /\ LaneOK /\ \A f \in HistoryFolders : FolderOK(f)

(* A folder that a step leaves alone keeps what held of it.                *)
LEMMA FolderFrame ==
  ASSUME NEW f, FolderOK(f), server'[f] = server[f], old'[f] = old[f], folder'[f] = folder[f], mirrored'[f] = mirrored[f]
  PROVE  FolderOK(f)'
  BY DEF FolderOK, Current, Gap, OldHeld
LEMMA BlankRow ==
  ASSUME NEW g \in {1, 2}
  PROVE  /\ Blank(g) \in FolderRows /\ Blank(g).gen = g /\ ~Blank(g).initial /\ Blank(g).last = 0
         /\ Blank(g).count = Unset
  BY DEF Blank, FolderRows
LEMMA NoTurnTyped ==
  ASSUME NEW left \in Int
  PROVE  /\ Next1(left) \in TurnRows /\ Next1(left).pc \in {"idle", "pick"}
         /\ NoTurn \in TurnRows /\ NoTurn.pc = "idle"
<1>1. NoTurn \in TurnRows /\ NoTurn.pc = "idle" BY DEF NoTurn, TurnRows
<1>2. [NoTurn EXCEPT !.pc = "pick", !.left = left] \in TurnRows /\ [NoTurn EXCEPT !.pc = "pick", !.left = left].pc = "pick"
  BY <1>1 DEF TurnRows
<1>3. QED BY <1>1, <1>2 DEF Next1
(* Only the lane's own folder matters to it, and only what a batch reads.  *)
LEMMA LaneFrame ==
  ASSUME LaneOK, turn' = turn,
         turn.pc \in Selected \cup {"select"} =>
           server'[turn.of] = server[turn.of] /\ old'[turn.of] = old[turn.of]
           /\ folder'[turn.of] = folder[turn.of] /\ mirrored'[turn.of] = mirrored[turn.of]
  PROVE  LaneOK'
  BY DEF LaneOK, Selected, Gap, OldHeld
LEMMA LaneIdle == ASSUME turn'.pc \in {"idle", "pick"} PROVE LaneOK'
  BY DEF LaneOK, Selected

LEMMA HistoryInitInv == HistoryInit => HistoryInv
<1> SUFFICES ASSUME HistoryInit PROVE HistoryInv
  OBVIOUS
<1> USE HistoryAssumption
<1>1. Blank(1) \in FolderRows /\ ~Blank(1).initial /\ Blank(1).last = 0 /\ Blank(1).gen = 1 /\ Blank(1).count = Unset
  BY BlankRow
<1>2. [gen |-> 1, next |-> MaxHistoryUid, held |-> 1..(MaxHistoryUid - 1)] \in ServerRows
  BY DEF ServerRows
<1>3. HistoryTypeOK
  <2>1. turn \in TurnRows BY DEF HistoryInit, NoTurn, TurnRows
  <2>2. 1..(MaxHistoryUid - 1) \subseteq Nat OBVIOUS
  <2>3. QED BY <1>1, <1>2, <2>1, <2>2 DEF HistoryInit, HistoryTypeOK
<1>4. LaneOK BY DEF HistoryInit, NoTurn, LaneOK, Selected
<1>5. \A f \in HistoryFolders : FolderOK(f) BY <1>1 DEF HistoryInit, FolderOK, Current
<1>6. QED BY <1>3, <1>4, <1>5 DEF HistoryInv

LEMMA HistoryArrives == ASSUME HistoryInv, NEW f \in HistoryFolders, Arrives(f) PROVE HistoryInv'
<1> USE HistoryAssumption DEF HistoryInv
<1> DEFINE next == server[f].next
<1>1. PICK dated \in {{}, {next}} :
        /\ server' = [server EXCEPT ![f].next = @ + 1, ![f].held = @ \cup {next}]
        /\ old' = [old EXCEPT ![f] = @ \cup dated]
        /\ UNCHANGED <<folder, mirrored, turn>>
  BY DEF Arrives
<1>2. next \in Nat \ {0} /\ server[f].held \subseteq 1..(next - 1) /\ server[f].gen \in {1, 2} /\ old[f] \subseteq Nat
      /\ folder[f].last \in Nat
  BY DEF HistoryTypeOK, ServerRows, FolderRows
<1>3. /\ server'[f] = [gen |-> server[f].gen, next |-> next + 1, held |-> server[f].held \cup {next}]
      /\ old'[f] = old[f] \cup dated
      /\ \A g \in HistoryFolders \ {f} : server'[g] = server[g] /\ old'[g] = old[g]
  BY <1>1 DEF HistoryTypeOK, ServerRows
<1>4. server'[f].held \subseteq 1..(server'[f].next - 1) BY <1>2, <1>3
<1>5. HistoryTypeOK'
  <2>1. server'[f] \in ServerRows /\ old'[f] \in SUBSET Nat BY <1>2, <1>3 DEF ServerRows
  <2>2. server' \in [HistoryFolders -> ServerRows] /\ old' \in [HistoryFolders -> SUBSET Nat]
    BY <1>1, <1>3, <2>1 DEF HistoryTypeOK
  <2>3. QED BY <1>1, <1>3, <1>4, <2>2 DEF HistoryTypeOK
<1>6. FolderOK(f)'
  <2>1. FolderOK(f) OBVIOUS
  <2>2. folder[f].gen = server[f].gen => folder[f].last < next BY <2>1 DEF FolderOK
  <2>3. Current(f)' <=> Current(f) BY <1>1, <1>3 DEF Current
  <2>4. Gap(f)' \subseteq Gap(f) \cup {next} BY <1>1, <1>2, <1>3 DEF Gap, OldHeld
  <2>5. server'[f].held \ old'[f] \subseteq (server[f].held \ old[f]) \cup {next} BY <1>3
  <2>6. Current(f) => next > folder[f].last BY <1>2, <2>2 DEF Current
  <2>7. server'[f].gen = server[f].gen /\ server'[f].next = next + 1 /\ folder'[f] = folder[f] /\ mirrored'[f] = mirrored[f]
    BY <1>1, <1>3
  <2> HIDE DEF next
  <2>8. QED BY <1>2, <2>1, <2>2, <2>3, <2>4, <2>5, <2>6, <2>7 DEF FolderOK
<1>7. LaneOK'
  <2>1. FolderOK(f) OBVIOUS
  <2>2. folder[f].gen = server[f].gen => folder[f].last < next BY <2>1 DEF FolderOK
  <2>3. CASE turn.of # f \/ turn.pc \notin Selected
    <3>0. turn.pc \in {"scan", "fetch", "advance"} => turn.pc \in Selected BY DEF Selected
    <3>1. ASSUME turn.pc \in Selected
          PROVE  server'[turn.of] = server[turn.of] /\ Gap(turn.of)' = Gap(turn.of)
      BY <1>1, <1>3, <2>3, <3>1 DEF LaneOK, Gap, OldHeld
    <3>2. turn' = turn /\ folder' = folder BY <1>1
    <3>3. QED BY <3>0, <3>1, <3>2 DEF LaneOK
  <2>4. CASE turn.of = f /\ turn.pc \in Selected
    <3>1. Gap(f)' \subseteq Gap(f) \cup {next} BY <1>1, <1>3, <1>2 DEF Gap, OldHeld
    <3>2. next > folder[f].last BY <1>2, <2>2, <2>4 DEF LaneOK
    <3> HIDE DEF next
    <3>3. QED BY <1>1, <1>3, <2>4, <3>1, <3>2 DEF LaneOK, Selected
  <2>5. QED BY <2>3, <2>4
<1>8. \A g \in HistoryFolders : FolderOK(g)' BY <1>1, <1>3, <1>6, FolderFrame
<1>9. QED BY <1>5, <1>7, <1>8

LEMMA HistoryRemoved ==
  ASSUME HistoryInv, NEW f \in HistoryFolders, NEW u \in server[f].held, Removed(f, u) PROVE HistoryInv'
<1> USE HistoryAssumption DEF HistoryInv
<1>1. server' = [server EXCEPT ![f].held = @ \ {u}] /\ UNCHANGED <<old, folder, mirrored, turn>>
  BY DEF Removed
<1>2. server'[f] = [gen |-> server[f].gen, next |-> server[f].next, held |-> server[f].held \ {u}]
      /\ \A g \in HistoryFolders \ {f} : server'[g] = server[g]
  BY <1>1 DEF HistoryTypeOK, ServerRows
<1>3. HistoryTypeOK'
  <2>1. server'[f] \in ServerRows BY <1>2 DEF HistoryTypeOK, ServerRows
  <2>2. server'[f].held \subseteq server[f].held /\ server'[f].next = server[f].next BY <1>2
  <2>3. QED BY <1>1, <1>2, <2>1, <2>2 DEF HistoryTypeOK
<1>4. FolderOK(f)'
  <2>1. FolderOK(f) OBVIOUS
  <2>2. QED BY <1>1, <1>2, <2>1 DEF FolderOK, Current, Gap, OldHeld
<1>5. LaneOK'
  <2>1. CASE turn.of # f BY <1>1, <1>2, <2>1 DEF LaneOK, Selected, Gap, OldHeld
  <2>2. CASE turn.of = f
    <3>1. Gap(f)' \subseteq Gap(f) BY <1>1, <1>2 DEF Gap, OldHeld
    <3>2. QED BY <1>1, <1>2, <2>2, <3>1 DEF LaneOK, Selected
  <2>3. QED BY <2>1, <2>2
<1>6. QED BY <1>1, <1>2, <1>3, <1>4, <1>5, FolderFrame

LEMMA HistoryRenumbered == ASSUME HistoryInv, NEW f \in HistoryFolders, Renumbered(f) PROVE HistoryInv'
<1> USE HistoryAssumption DEF HistoryInv
<1> DEFINE n == Cardinality(server[f].held)
<1>1. n \in Nat
  <2> DEFINE top == server[f].next - 1
  <2>1. server[f].held \subseteq 1..top /\ top \in Int BY DEF HistoryTypeOK, ServerRows
  <2> HIDE DEF top
  <2>2. IsFiniteSet(1..top)
    <3>1. 1 \in Int /\ top \in Int BY <2>1
    <3>2. QED BY <3>1, FS_Interval
  <2>3. QED BY <2>1, <2>2, FS_Subset, FS_CardinalityType
<1>2. PICK dated \in SUBSET (1..n) :
        /\ server' = [server EXCEPT ![f] = [gen |-> 2, next |-> n + 1, held |-> 1..n]]
        /\ old' = [old EXCEPT ![f] = dated]
        /\ UNCHANGED <<folder, mirrored, turn>> /\ turn.of # f /\ server[f].gen = 1
  BY DEF Renumbered
<1> HIDE DEF n
<1>3. server'[f] = [gen |-> 2, next |-> n + 1, held |-> 1..n] /\ old'[f] = dated
      /\ \A g \in HistoryFolders \ {f} : server'[g] = server[g] /\ old'[g] = old[g]
  BY <1>2 DEF HistoryTypeOK
<1>4. HistoryTypeOK'
  <2>1. server'[f] \in ServerRows /\ server'[f].held \subseteq 1..(server'[f].next - 1) /\ old'[f] \in SUBSET Nat
    BY <1>1, <1>3 DEF ServerRows
  <2>2. server' \in [HistoryFolders -> ServerRows] /\ old' \in [HistoryFolders -> SUBSET Nat]
    BY <1>2, <1>3, <2>1 DEF HistoryTypeOK
  <2>3. QED BY <1>2, <1>3, <2>1, <2>2 DEF HistoryTypeOK
<1>5. FolderOK(f)'
  <2>1. folder[f].gen = 1 BY <1>2 DEF HistoryTypeOK, FolderRows, FolderOK
  <2>2. FolderOK(f) OBVIOUS
  <2>3. QED BY <1>2, <1>3, <2>1, <2>2 DEF FolderOK, Current
<1>6. LaneOK' BY <1>2, <1>3, LaneFrame DEF LaneOK
<1>7. QED BY <1>2, <1>3, <1>4, <1>5, <1>6, FolderFrame

LEMMA HistoryCutoff == ASSUME HistoryInv, NEW f \in HistoryFolders, getWindowCutoff(f) PROVE HistoryInv'
<1> USE HistoryAssumption DEF HistoryInv
<1>1. PICK u \in server[f].held \ old[f] : old' = [old EXCEPT ![f] = @ \cup {u}] /\ UNCHANGED <<server, folder, mirrored, turn>>
  BY DEF getWindowCutoff
<1>2. old'[f] = old[f] \cup {u} /\ \A g \in HistoryFolders \ {f} : old'[g] = old[g] BY <1>1 DEF HistoryTypeOK
<1>3. HistoryTypeOK'
  <2>1. u \in Nat BY DEF HistoryTypeOK, ServerRows
  <2>2. QED BY <1>1, <2>1 DEF HistoryTypeOK
<1>4. FolderOK(f) OBVIOUS
<1>5. Current(f) => u \in mirrored[f] \/ u > folder[f].last BY <1>4 DEF FolderOK
<1>6. FolderOK(f)' BY <1>1, <1>2, <1>4, <1>5 DEF FolderOK, Current, Gap, OldHeld
<1>7. LaneOK'
  <2>1. CASE turn.of # f \/ turn.pc \notin Selected
    BY <1>1, <1>2, <2>1 DEF LaneOK, Selected, Gap, OldHeld
  <2>2. CASE turn.of = f /\ turn.pc \in Selected
    <3>1. Current(f) BY <2>2 DEF LaneOK, Current
    <3>2. \A v \in Gap(f)' : v \in Gap(f) \/ v > folder[f].last BY <1>1, <1>2, <1>5, <3>1 DEF Gap, OldHeld
    <3>3. QED BY <1>1, <2>2, <3>2 DEF LaneOK, Selected
  <2>3. QED BY <2>1, <2>2
<1>8. QED BY <1>1, <1>2, <1>3, <1>6, <1>7, FolderFrame

LEMMA HistoryHotPass == ASSUME HistoryInv, NEW f \in HistoryFolders, HotPass(f) PROVE HistoryInv'
<1> USE HistoryAssumption DEF HistoryInv
<1>1. UNCHANGED <<server, old, turn>> /\ turn.pc = "idle" BY DEF HotPass
<1>2. LaneOK' BY <1>1, LaneIdle
<1>3. FolderOK(f) /\ server[f] \in ServerRows /\ folder[f] \in FolderRows /\ mirrored[f] \subseteq Nat
  BY DEF HistoryTypeOK
<1>4. CASE folder[f].gen # server[f].gen
  <2>1. folder' = [folder EXCEPT ![f] = Blank(server[f].gen)] /\ mirrored' = [mirrored EXCEPT ![f] = {}]
    BY <1>4 DEF HotPass, HistoryReset
  <2>2. folder'[f] = Blank(server[f].gen) /\ \A g \in HistoryFolders \ {f} : folder'[g] = folder[g] /\ mirrored'[g] = mirrored[g]
    BY <2>1 DEF HistoryTypeOK
  <2>3. Blank(server[f].gen) \in FolderRows /\ ~folder'[f].initial /\ folder'[f].last = 0 /\ folder'[f].count = Unset
        /\ folder'[f].gen = server[f].gen
    BY <1>3, <2>2, BlankRow DEF ServerRows
  <2>4. HistoryTypeOK' BY <1>1, <2>1, <2>3 DEF HistoryTypeOK
  <2>5. FolderOK(f)' BY <1>1, <1>3, <2>3 DEF FolderOK, Current, ServerRows
  <2>6. QED BY <1>1, <1>2, <2>2, <2>4, <2>5, FolderFrame
<1>5. CASE folder[f].gen = server[f].gen
  <2> DEFINE row == [folder[f] EXCEPT !.initial = TRUE, !.pending = FALSE, !.last = server[f].next - 1]
             seen == (mirrored[f] \cap server[f].held) \cup
                       {u \in server[f].held : IF folder[f].initial THEN u > folder[f].last ELSE u \notin old[f]}
  <2>1. folder' = [folder EXCEPT ![f] = row] /\ mirrored' = [mirrored EXCEPT ![f] = seen]
    BY <1>5 DEF HotPass, HistoryTypeOK
  <2>2. row \in FolderRows /\ row.gen = folder[f].gen /\ row.initial /\ row.last = server[f].next - 1
        /\ row.count = folder[f].count /\ row.oldest = folder[f].oldest /\ row.target = folder[f].target
        /\ row.walking = folder[f].walking
    <3>1. server[f].next - 1 \in Nat BY <1>3 DEF ServerRows
    <3>2. QED BY <1>3, <3>1 DEF FolderRows
  <2>3. seen \subseteq server[f].held
        /\ \A u \in server[f].held \ seen : u \notin mirrored[f] /\ (folder[f].initial => ~(u > folder[f].last)) /\ (~folder[f].initial => u \in old[f])
    OBVIOUS
  <2>4. \A u \in server[f].held \ old[f] : u \in seen
    <3>1. Current(f) <=> folder[f].initial BY <1>5 DEF Current
    <3>2. QED BY <1>3, <2>3, <3>1 DEF FolderOK
  <2> HIDE DEF row, seen
  <2>5. folder'[f] = row /\ mirrored'[f] = seen
        /\ \A g \in HistoryFolders \ {f} : folder'[g] = folder[g] /\ mirrored'[g] = mirrored[g]
    BY <2>1 DEF HistoryTypeOK
  <2>6. seen \subseteq Nat BY <1>3, <2>3 DEF ServerRows
  <2>7. HistoryTypeOK' BY <1>1, <2>1, <2>2, <2>6 DEF HistoryTypeOK
  <2>8. FolderOK(f)'
    <3>1. row.gen <= server[f].gen /\ row.last < server[f].next BY <1>3, <1>5, <2>2 DEF ServerRows
    <3>2. folder[f].count # Unset => \A u \in OldHeld(f) \ seen : folder[f].walking /\ u < folder[f].oldest
      BY <1>3, <1>5, <2>3 DEF FolderOK, Current, Gap, OldHeld
    <3>3. folder[f].count # Unset =>
            folder[f].oldest \in Nat /\ folder[f].target \in Nat /\ folder[f].oldest <= folder[f].target + 1
      BY <1>3 DEF FolderOK
    <3>4. QED BY <1>1, <2>2, <2>4, <2>5, <3>1, <3>2, <3>3 DEF FolderOK, Current, Gap, OldHeld
  <2>9. QED BY <1>1, <1>2, <2>5, <2>7, <2>8, FolderFrame
<1>6. QED BY <1>4, <1>5

(* The lane's own steps.                                                   *)
LEMMA HistoryTurns == ASSUME HistoryInv, StartTurn \/ Pick \/ EndTurn PROVE HistoryInv'
<1> USE HistoryAssumption DEF HistoryInv
<1>1. UNCHANGED <<server, old, folder, mirrored>> BY DEF StartTurn, Pick, EndTurn
<1>2. \A f \in HistoryFolders : FolderOK(f)' BY <1>1, FolderFrame
<1>3. CASE turn' = NoTurn \/ turn' = Next1(RateLimit)
  <2>1. turn' \in TurnRows /\ turn'.pc \in {"idle", "pick"} BY <1>3, NoTurnTyped
  <2>2. HistoryTypeOK' BY <1>1, <2>1 DEF HistoryTypeOK
  <2>3. QED BY <1>2, <2>1, <2>2, LaneIdle
<1>4. CASE Pick /\ getHistoryBacklog # {}
  <2> DEFINE f == CHOOSE g \in getHistoryBacklog : TRUE
  <2>1. f \in getHistoryBacklog BY <1>4
  <2>3. turn' = [turn EXCEPT !.pc = "select", !.of = f] BY <1>4 DEF Pick, TurnIs
  <2> HIDE DEF f
  <2>2. f \in HistoryFolders /\ folder[f].initial BY <2>1 DEF getHistoryBacklog, Listed
  <2>4. turn' \in TurnRows /\ turn'.pc = "select" /\ turn'.of = f BY <2>2, <2>3 DEF HistoryTypeOK, TurnRows
  <2>5. LaneOK' BY <1>1, <2>2, <2>4 DEF LaneOK, Selected
  <2>6. QED BY <1>1, <1>2, <2>4, <2>5 DEF HistoryTypeOK
<1>5. QED BY <1>3, <1>4 DEF StartTurn, Pick, EndTurn, TurnIs

(* A step that writes the lane's folder: what is left to show.             *)
LEMMA HistoryWrite ==
  ASSUME HistoryInv, NEW f \in HistoryFolders, NEW row \in FolderRows, NEW seen \in SUBSET Nat,
         UNCHANGED <<server, old>>, folder' = [folder EXCEPT ![f] = row], mirrored' = [mirrored EXCEPT ![f] = seen],
         turn' \in TurnRows, FolderOK(f)', LaneOK'
  PROVE  HistoryInv'
<1>1. \A g \in HistoryFolders \ {f} : folder'[g] = folder[g] /\ mirrored'[g] = mirrored[g]
  BY DEF HistoryInv, HistoryTypeOK
<1>2. HistoryTypeOK' BY DEF HistoryInv, HistoryTypeOK
<1>3. QED BY <1>1, <1>2, FolderFrame DEF HistoryInv

LEMMA LaneFolder ==
  ASSUME HistoryInv, NEW f, f = turn.of, turn.pc \in Selected \cup {"select"}
  PROVE  /\ f \in HistoryFolders /\ folder[f].initial /\ FolderOK(f)
         /\ folder[f] \in FolderRows /\ server[f] \in ServerRows /\ mirrored[f] \in SUBSET Nat
         /\ server[f].held \subseteq 1..(server[f].next - 1) /\ turn.left \in Int
         /\ folder = [folder EXCEPT ![f] = folder[f]]
         /\ mirrored = [mirrored EXCEPT ![f] = mirrored[f]]
<1>1. f \in HistoryFolders /\ folder[f].initial BY DEF HistoryInv, LaneOK
<1>2. QED BY <1>1 DEF HistoryInv, HistoryTypeOK, TurnRows

LEMMA HistorySelect == ASSUME HistoryInv, NEW f, f = turn.of, SelectHistory PROVE HistoryInv'
<1> USE HistoryAssumption DEF HistoryInv
<1>1. turn.pc = "select" /\ UNCHANGED <<server, old>> BY DEF SelectHistory
<1>2. /\ f \in HistoryFolders /\ folder[f].initial /\ FolderOK(f) /\ folder[f] \in FolderRows /\ server[f] \in ServerRows
      /\ turn.left \in Int /\ mirrored[f] \in SUBSET Nat
      /\ folder = [folder EXCEPT ![f] = folder[f]] /\ mirrored = [mirrored EXCEPT ![f] = mirrored[f]]
  BY <1>1, LaneFolder
<1>3. CASE folder[f].gen # server[f].gen /\ HistoryReset(f) /\ mirrored' = [mirrored EXCEPT ![f] = {}]
           /\ turn' = Next1(turn.left - 1)
  <2>1. folder' = [folder EXCEPT ![f] = Blank(server[f].gen)] BY <1>3 DEF HistoryReset
  <2>2. folder'[f] = Blank(server[f].gen) BY <1>2, <2>1 DEF HistoryTypeOK
  <2>3. Blank(server[f].gen) \in FolderRows /\ ~folder'[f].initial /\ folder'[f].last = 0 /\ folder'[f].count = Unset
        /\ folder'[f].gen = server[f].gen
    BY <1>2, <2>2, BlankRow DEF ServerRows
  <2>4. FolderOK(f)' BY <1>1, <1>2, <2>3 DEF FolderOK, Current, ServerRows
  <2>5. turn' \in TurnRows /\ turn'.pc \in {"idle", "pick"} BY <1>2, <1>3, NoTurnTyped
  <2>6. LaneOK' BY <2>5, LaneIdle
  <2>7. {} \in SUBSET Nat OBVIOUS
  <2>8. QED BY <1>1, <1>2, <1>3, <2>1, <2>3, <2>4, <2>5, <2>6, <2>7, HistoryWrite
<1>4. CASE folder[f].gen = server[f].gen /\ UNCHANGED <<folder, mirrored>>
           /\ turn' = [turn EXCEPT !.pc = IF folder[f].count = Unset THEN "snapshot" ELSE "scan"]
  <2>1. turn' \in TurnRows /\ turn'.of = f /\ turn'.pc = IF folder[f].count = Unset THEN "snapshot" ELSE "scan"
    BY <1>4 DEF HistoryTypeOK, TurnRows
  <2>2. FolderOK(f)' BY <1>1, <1>2, <1>4, FolderFrame
  <2>3. LaneOK' BY <1>1, <1>2, <1>4, <2>1 DEF LaneOK, Selected
  <2>4. folder' = [folder EXCEPT ![f] = folder[f]] /\ mirrored' = [mirrored EXCEPT ![f] = mirrored[f]]
    BY <1>2, <1>4
  <2>5. QED BY <1>1, <1>2, <2>1, <2>2, <2>3, <2>4, HistoryWrite
<1>5. CASE folder' = [folder EXCEPT ![f].pending = TRUE] /\ turn' = NoTurn /\ UNCHANGED mirrored
  <2> DEFINE row == [folder[f] EXCEPT !.pending = TRUE]
  <2>1. folder' = [folder EXCEPT ![f] = row] BY <1>5
  <2>2. row \in FolderRows /\ row.gen = folder[f].gen /\ row.initial = folder[f].initial /\ row.last = folder[f].last
        /\ row.count = folder[f].count /\ row.oldest = folder[f].oldest /\ row.target = folder[f].target
        /\ row.walking = folder[f].walking
    BY <1>2 DEF FolderRows
  <2> HIDE DEF row
  <2>3. folder'[f] = row BY <1>2, <2>1 DEF HistoryTypeOK
  <2>4. FolderOK(f)' BY <1>1, <1>2, <1>5, <2>2, <2>3 DEF FolderOK, Current, Gap, OldHeld
  <2>5. turn' \in TurnRows /\ turn'.pc = "idle" BY <1>5, NoTurnTyped
  <2>6. mirrored' = [mirrored EXCEPT ![f] = mirrored[f]] BY <1>2, <1>5
  <2>7. QED BY <1>1, <1>2, <2>1, <2>2, <2>4, <2>5, <2>6, LaneIdle, HistoryWrite
<1>6. QED BY <1>3, <1>4, <1>5 DEF SelectHistory, TurnIs

LEMMA HistorySnapshot == ASSUME HistoryInv, NEW f, f = turn.of, Snapshot PROVE HistoryInv'
<1> USE HistoryAssumption DEF HistoryInv
<1> DEFINE uids == OldHeld(f)
           oldest == IF uids = {} THEN 0 ELSE Max(uids) + 1
           row == [folder[f] EXCEPT !.count = Cardinality(uids), !.walking = uids # {},
                                    !.target = Max(uids \cup {0}), !.oldest = oldest]
<1>1. turn.pc = "snapshot" /\ UNCHANGED <<server, old, mirrored>> BY DEF Snapshot
<1>2. /\ f \in HistoryFolders /\ folder[f].initial /\ FolderOK(f) /\ folder[f] \in FolderRows /\ server[f] \in ServerRows
      /\ turn.left \in Int /\ mirrored[f] \in SUBSET Nat /\ mirrored = [mirrored EXCEPT ![f] = mirrored[f]]
  BY <1>1, LaneFolder DEF Selected
<1>3. folder[f].gen = server[f].gen BY <1>1 DEF LaneOK, Selected
<1>4. folder' = [folder EXCEPT ![f] = row] BY <1>2 DEF Snapshot, setHistoryBackfillSnapshot, HistoryTypeOK
<1>5. turn' = IF uids = {} THEN Next1(turn.left - 1) ELSE [turn EXCEPT !.pc = "scan"] BY DEF Snapshot, TurnIs
<1> DEFINE top == server[f].next - 1
<1>6. top \in Nat /\ uids \subseteq 1..top
  <2>1. server[f].held \subseteq 1..top BY <1>1, LaneFolder DEF Selected
  <2>2. QED BY <1>2, <2>1 DEF OldHeld, ServerRows
<1> HIDE DEF uids, top
<1>7. Cardinality(uids) \in Nat /\ (uids = {} => Max(uids \cup {0}) = 0)
      /\ (uids # {} => Max(uids \cup {0}) = Max(uids) /\ Max(uids) \in uids /\ \A u \in uids : u <= Max(uids))
  <2>1. IsFiniteSet(1..top) BY <1>6, FS_Interval
  <2>2. Cardinality(uids) \in Nat BY <1>6, <2>1, FS_Subset, FS_CardinalityType
  <2>3. uids \subseteq 0..top /\ uids \cup {0} \subseteq 0..top BY <1>6
  <2>4. Max(uids \cup {0}) \in uids \cup {0} /\ \A u \in uids \cup {0} : u <= Max(uids \cup {0})
    BY <1>6, <2>3, MaxOfBounded
  <2>5. uids # {} => Max(uids) \in uids /\ \A u \in uids : u <= Max(uids) BY <1>6, <2>3, MaxOfBounded
  <2>6. \A u \in uids : u \in Nat /\ u >= 1 BY <1>6
  <2>7. uids # {} => Max(uids \cup {0}) = Max(uids)
    <3> SUFFICES ASSUME uids # {} PROVE Max(uids \cup {0}) = Max(uids)
      OBVIOUS
    <3> DEFINE a == Max(uids \cup {0})
               b == Max(uids)
    <3>1. a \in uids \cup {0} /\ b \in uids /\ b <= a /\ (a \in uids => a <= b) BY <2>4, <2>5
    <3> HIDE DEF a, b
    <3>2. a = b BY <2>6, <3>1
    <3>3. QED BY <3>2 DEF a, b
  <2>8. QED BY <2>2, <2>4, <2>5, <2>7
<1>8. oldest \in Nat /\ Max(uids \cup {0}) \in Nat /\ oldest <= Max(uids \cup {0}) + 1 /\ \A u \in uids : u < oldest
  <2>1. CASE uids = {} BY <1>7, <2>1
  <2>2. CASE uids # {}
    <3> DEFINE m == Max(uids)
    <3>1. m \in uids /\ (\A u \in uids : u <= m) /\ Max(uids \cup {0}) = m /\ oldest = m + 1 BY <1>7, <2>2
    <3> HIDE DEF m, oldest
    <3>2. \A u \in uids : u \in Nat BY <1>6
    <3>3. QED BY <3>1, <3>2
  <2>3. QED BY <2>1, <2>2
<1>9. row \in FolderRows /\ row.gen = folder[f].gen /\ row.initial /\ row.last = folder[f].last
      /\ row.count = Cardinality(uids) /\ row.oldest = oldest /\ row.target = Max(uids \cup {0})
      /\ row.walking = (uids # {})
  <2> HIDE DEF oldest
  <2>1. QED BY <1>2, <1>7, <1>8 DEF FolderRows
<1> HIDE DEF row, oldest
<1>10. folder'[f] = row BY <1>2, <1>4 DEF HistoryTypeOK
<1>11. row.count # Unset BY <1>7, <1>9
<1>12. FolderOK(f)'
  <2>1. Gap(f)' \subseteq uids BY <1>1 DEF Gap, OldHeld, uids
  <2>2. \A u \in Gap(f)' : row.walking /\ u < row.oldest BY <1>8, <1>9, <2>1
  <2>3. QED BY <1>1, <1>2, <1>8, <1>9, <1>10, <2>2 DEF FolderOK, Current
<1>13. turn' \in TurnRows /\ LaneOK'
  <2>1. CASE uids = {} BY <1>2, <1>5, <2>1, NoTurnTyped, LaneIdle
  <2>2. CASE uids # {}
    <3>1. turn' \in TurnRows /\ turn'.of = f /\ turn'.pc = "scan" BY <1>5, <2>2 DEF HistoryTypeOK, TurnRows
    <3>2. QED BY <1>1, <1>2, <1>3, <1>9, <1>10, <1>11, <3>1 DEF LaneOK, Selected
  <2>3. QED BY <2>1, <2>2
<1>14. mirrored' = [mirrored EXCEPT ![f] = mirrored[f]] BY <1>1, <1>2
<1>15. QED BY <1>1, <1>2, <1>4, <1>9, <1>12, <1>13, <1>14, HistoryWrite

LEMMA HistoryScan == ASSUME HistoryInv, NEW f, f = turn.of, Scan PROVE HistoryInv'
<1> USE HistoryAssumption DEF HistoryInv
<1> DEFINE upper == ScanUpper(f)
           range == {u \in OldHeld(f) : ScanLower(upper) <= u /\ u <= upper}
<1>1. turn.pc = "scan" /\ UNCHANGED <<server, old, mirrored>> BY DEF Scan
<1>2. /\ f \in HistoryFolders /\ folder[f].initial /\ FolderOK(f) /\ folder[f] \in FolderRows /\ server[f] \in ServerRows
      /\ turn.left \in Int /\ mirrored[f] \in SUBSET Nat
      /\ folder = [folder EXCEPT ![f] = folder[f]] /\ mirrored = [mirrored EXCEPT ![f] = mirrored[f]]
  BY <1>1, LaneFolder DEF Selected
<1>3. folder[f].gen = server[f].gen /\ folder[f].count # Unset BY <1>1 DEF LaneOK, Selected
<1>4. folder[f].oldest \in Nat /\ folder[f].target \in Nat /\ folder[f].oldest <= folder[f].target + 1
  BY <1>2, <1>3 DEF FolderOK
<1>5. upper = folder[f].oldest - 1 BY <1>4, MinOfTwo DEF ScanUpper
<1>6. \A u \in OldHeld(f) : u \in Nat /\ u >= 1
  <2>1. server[f].held \subseteq 1..(server[f].next - 1) BY <1>1, LaneFolder DEF Selected
  <2>2. QED BY <1>2, <2>1 DEF OldHeld, ServerRows
<1>7. CASE upper < 1 /\ markHistoryBackfillComplete(f) /\ turn' = Next1(turn.left - 1)
  <2> DEFINE row == [folder[f] EXCEPT !.walking = FALSE]
  <2>1. folder' = [folder EXCEPT ![f] = row] BY <1>7 DEF markHistoryBackfillComplete
  <2>2. row \in FolderRows /\ row.gen = folder[f].gen /\ row.initial /\ row.last = folder[f].last
        /\ row.count = folder[f].count /\ row.oldest = folder[f].oldest /\ row.target = folder[f].target
    BY <1>2 DEF FolderRows
  <2> HIDE DEF row, upper
  <2>3. folder'[f] = row BY <1>2, <2>1 DEF HistoryTypeOK
  <2>4. \A u \in OldHeld(f) : ~(u < folder[f].oldest) BY <1>4, <1>5, <1>6, <1>7
  <2>5. FolderOK(f)'
    <3>1. \A u \in Gap(f) : u > folder[f].last BY <1>2, <1>3, <2>4 DEF FolderOK, Current, Gap
    <3>2. Gap(f)' = Gap(f) BY <1>1 DEF Gap, OldHeld
    <3>3. QED BY <1>1, <1>2, <2>2, <2>3, <3>1, <3>2 DEF FolderOK, Current
  <2>6. turn' \in TurnRows /\ LaneOK' BY <1>2, <1>7, NoTurnTyped, LaneIdle
  <2>7. mirrored' = [mirrored EXCEPT ![f] = mirrored[f]] BY <1>1, <1>2
  <2>8. QED BY <1>1, <1>2, <2>1, <2>2, <2>5, <2>6, <2>7, HistoryWrite
<1>8. CASE ~(upper < 1) /\ UNCHANGED folder
           /\ turn' = [turn EXCEPT !.pc = "fetch", !.lower = ScanLower(upper), !.batch = range \ mirrored[f]]
  <2>1. upper \in Nat /\ upper >= 1 /\ upper <= folder[f].target BY <1>4, <1>5, <1>8
  <2>2. ScanLower(upper) \in Nat /\ 1 <= ScanLower(upper) /\ ScanLower(upper) <= upper
    <3> HIDE DEF upper
    <3>1. QED BY <2>1 DEF ScanLower
  <2> DEFINE lower == ScanLower(upper)
             batch == range \ mirrored[f]
  <2>3. batch \in SUBSET Nat BY <1>6
  <2>4. turn' = [turn EXCEPT !.pc = "fetch", !.lower = lower, !.batch = batch] BY <1>8
  <2>5. \A u \in Gap(f) : lower <= u /\ u < folder[f].oldest => u \in batch
    <3>1. \A u \in Gap(f) : u \in OldHeld(f) /\ u \notin mirrored[f] /\ u \in Nat BY <1>6 DEF Gap
    <3>2. \A u \in Gap(f) : u < folder[f].oldest => u <= upper
      <4> HIDE DEF upper
      <4>1. QED BY <1>4, <1>5, <3>1
    <3>3. QED BY <3>1, <3>2
  <2> HIDE DEF lower, batch
  <2>6. turn' \in TurnRows /\ turn'.of = f /\ turn'.pc = "fetch" /\ turn'.lower = lower /\ turn'.batch = batch
    BY <2>2, <2>3, <2>4 DEF HistoryTypeOK, TurnRows, lower
  <2>7. Gap(f)' = Gap(f) BY <1>1 DEF Gap, OldHeld
  <2>8. 1 <= lower /\ lower <= folder[f].target
    <3> HIDE DEF upper
    <3>1. QED BY <1>4, <2>1, <2>2 DEF lower
  <2>9. LaneOK' BY <1>1, <1>2, <1>3, <1>8, <2>5, <2>6, <2>7, <2>8 DEF LaneOK, Selected
  <2>10. FolderOK(f)' BY <1>1, <1>2, <1>8, FolderFrame
  <2>11. folder' = [folder EXCEPT ![f] = folder[f]] /\ mirrored' = [mirrored EXCEPT ![f] = mirrored[f]]
    BY <1>1, <1>2, <1>8
  <2>12. QED BY <1>1, <1>2, <2>6, <2>9, <2>10, <2>11, HistoryWrite
<1>9. QED BY <1>7, <1>8 DEF Scan, TurnIs, getLiveMessageUids

LEMMA HistoryFetch == ASSUME HistoryInv, NEW f, f = turn.of, FetchHistory PROVE HistoryInv'
<1> USE HistoryAssumption DEF HistoryInv
<1> DEFINE seen == mirrored[f] \cup (turn.batch \cap server[f].held)
<1>1. turn.pc = "fetch" /\ UNCHANGED <<server, old, folder>> /\ turn' = [turn EXCEPT !.pc = "advance"]
  BY DEF FetchHistory, TurnIs
<1>2. /\ f \in HistoryFolders /\ folder[f].initial /\ FolderOK(f) /\ folder[f] \in FolderRows /\ server[f] \in ServerRows
      /\ mirrored[f] \in SUBSET Nat /\ folder = [folder EXCEPT ![f] = folder[f]]
  BY <1>1, LaneFolder DEF Selected
<1>3. mirrored' = [mirrored EXCEPT ![f] = seen] BY DEF FetchHistory
<1>4. seen \in SUBSET Nat BY <1>2 DEF ServerRows
<1>5. turn' \in TurnRows /\ turn'.of = f /\ turn'.pc = "advance" /\ turn'.lower = turn.lower
  BY <1>1 DEF HistoryTypeOK, TurnRows
<1>6. mirrored'[f] = seen BY <1>2, <1>3 DEF HistoryTypeOK
<1>7. Gap(f)' \subseteq Gap(f) /\ \A u \in Gap(f)' : u \notin turn.batch BY <1>1, <1>6 DEF Gap, OldHeld
<1>8. FolderOK(f)' BY <1>1, <1>2, <1>6, <1>7 DEF FolderOK, Current
<1>9. LaneOK' BY <1>1, <1>5, <1>7 DEF LaneOK, Selected
<1>10. folder' = [folder EXCEPT ![f] = folder[f]] BY <1>1, <1>2
<1> HIDE DEF seen
<1>11. QED BY <1>1, <1>2, <1>3, <1>4, <1>5, <1>8, <1>9, <1>10, HistoryWrite

LEMMA HistoryAdvance == ASSUME HistoryInv, NEW f, f = turn.of, advanceHistoryBackfillWatermark PROVE HistoryInv'
<1> USE HistoryAssumption DEF HistoryInv
<1> DEFINE row == [folder[f] EXCEPT !.oldest = turn.lower, !.walking = @ /\ turn.lower > 1]
<1>1. turn.pc = "advance" /\ UNCHANGED <<server, old, mirrored>> /\ turn' = Next1(turn.left - 1)
  BY DEF advanceHistoryBackfillWatermark, TurnIs
<1>2. /\ f \in HistoryFolders /\ folder[f].initial /\ FolderOK(f) /\ folder[f] \in FolderRows /\ server[f] \in ServerRows
      /\ mirrored[f] \in SUBSET Nat /\ turn.left \in Int /\ mirrored = [mirrored EXCEPT ![f] = mirrored[f]]
  BY <1>1, LaneFolder DEF Selected
<1>3. folder[f].gen = server[f].gen /\ folder[f].count # Unset /\ 1 <= turn.lower /\ turn.lower <= folder[f].target
      /\ turn.lower \in Nat
  BY <1>1 DEF LaneOK, Selected, HistoryTypeOK, TurnRows
<1>4. folder' = [folder EXCEPT ![f] = row] BY <1>2 DEF advanceHistoryBackfillWatermark, HistoryTypeOK
<1>5. row \in FolderRows /\ row.gen = folder[f].gen /\ row.initial /\ row.last = folder[f].last
      /\ row.count = folder[f].count /\ row.oldest = turn.lower /\ row.target = folder[f].target
      /\ row.walking = (folder[f].walking /\ turn.lower > 1)
  BY <1>2, <1>3 DEF FolderRows
<1> HIDE DEF row
<1>6. folder'[f] = row BY <1>2, <1>4 DEF HistoryTypeOK
<1>7. \A u \in Gap(f) : u \in Nat /\ u >= 1
  <2>1. server[f].held \subseteq 1..(server[f].next - 1) BY <1>1, LaneFolder DEF Selected
  <2>2. QED BY <1>2, <2>1 DEF Gap, OldHeld, ServerRows
<1>8. \A u \in Gap(f) : u > folder[f].last \/ (row.walking /\ u < row.oldest)
  <2> SUFFICES ASSUME NEW u \in Gap(f), ~(u > folder[f].last) PROVE row.walking /\ u < row.oldest
    OBVIOUS
  <2>1. folder[f].walking /\ u < folder[f].oldest BY <1>2, <1>3 DEF FolderOK, Current
  <2>2. ~(turn.lower <= u) BY <1>1, <2>1 DEF LaneOK
  <2>3. u < turn.lower /\ turn.lower > 1 BY <1>3, <1>7, <2>2
  <2>4. row.walking BY <1>5, <2>1, <2>3
  <2>5. QED BY <1>5, <2>3, <2>4
<1>9. FolderOK(f)'
  <2>1. Gap(f)' = Gap(f) BY <1>1 DEF Gap, OldHeld
  <2>2. folder[f].target \in Nat BY <1>2, <1>3 DEF FolderOK
  <2>3. QED BY <1>1, <1>2, <1>3, <1>5, <1>6, <1>8, <2>1, <2>2 DEF FolderOK, Current
<1>10. turn' \in TurnRows /\ LaneOK' BY <1>1, <1>2, NoTurnTyped, LaneIdle
<1>11. mirrored' = [mirrored EXCEPT ![f] = mirrored[f]] BY <1>1, <1>2
<1>12. QED BY <1>1, <1>2, <1>4, <1>5, <1>9, <1>10, <1>11, HistoryWrite

LEMMA HistoryStep == HistoryInv /\ [HistoryNext]_historyVars => HistoryInv'
<1> SUFFICES ASSUME HistoryInv, [HistoryNext]_historyVars PROVE HistoryInv'
  OBVIOUS
<1>1. CASE UNCHANGED historyVars
  <2>1. UNCHANGED <<server, old, folder, mirrored, turn>> BY <1>1 DEF historyVars
  <2>2. QED BY <2>1, FolderFrame, LaneFrame DEF HistoryInv, HistoryTypeOK
<1>2. CASE HistoryNext
  BY <1>2, HistoryTurns, HistorySelect, HistorySnapshot, HistoryScan, HistoryFetch, HistoryAdvance, HistoryArrives,
     HistoryRenumbered, HistoryCutoff, HistoryHotPass, HistoryRemoved DEF HistoryNext, Batches
<1>3. QED BY <1>1, <1>2

(* A walk of the archive leaves no gap behind its watermark, however mail, *)
(* window and generations change between its transactions.                 *)
THEOREM HistoryHolds == HistoryInit /\ [][HistoryNext]_historyVars => []ArchiveHasNoGap
<1>1. HistoryInv => ArchiveHasNoGap BY DEF HistoryInv, FolderOK, Gap, ArchiveHasNoGap
<1>2. QED BY <1>1, HistoryInitInv, HistoryStep, PTL

-------------------------------------------------------------------------------
(* The health of an account: it waits for a human exactly when it should.  *)

States == {"INITIAL_SYNC", "HEALTHY", "DEGRADED", "BROKEN"}
Reasons == NeedsHuman \cup {"none", "folders", "error", "stuck24h", "credentials"}
Retries == {"none", "backoff", "calm", "passed"}
Accounts == [state : States, reason : Reasons, failures : 0..Threshold, retry : Retries]

(* A row of the account in which the mark of self-healing is right.        *)
Marked(a) ==
  /\ a \in Accounts
  /\ a.state = "BROKEN" => (a.retry = "none" <=> a.reason \in NeedsHuman)
  /\ a.reason \in NeedsHuman \cup {"stuck24h"} => a.state = "BROKEN"

(* What each outcome of a full pass writes is right if what it read was.   *)
LEMMA CountedTypes == ASSUME NEW a, Marked(a), NEW counts PROVE Counted(a, counts) \in Accounts
  <1>1. [a EXCEPT !.failures = 0, !.retry = "none"] \in Accounts
    <2>1. 0 \in 0..Threshold BY HealthAssumption
    <2>2. "none" \in Retries BY DEF Retries
    <2> QED BY <2>1, <2>2 DEF Marked, Accounts
  <1>2. a \in Accounts BY DEF Marked
  <1>3. Counted(a, counts) = [a EXCEPT !.failures = 0, !.retry = "none"] \/ Counted(a, counts) = a
    BY Zenon DEF Counted
  <1> QED BY <1>1, <1>2, <1>3
LEMMA SuccessMarks == ASSUME NEW a, Marked(a), NEW counts, NEW condition PROVE Marked(Succeeded(a, counts, condition))
  <1> DEFINE c == Counted(a, counts)
  <1>1. c \in Accounts BY CountedTypes
  <1>2. Succeeded(a, counts, condition) =
          [c EXCEPT !.state = IF condition = "incomplete" THEN "INITIAL_SYNC"
                              ELSE IF condition = "unhealthy" THEN "DEGRADED" ELSE "HEALTHY",
                    !.reason = IF condition = "well" THEN "none" ELSE "folders"]
    BY DEF Succeeded
  <1> HIDE DEF c
  <1> QED BY <1>1, <1>2 DEF Marked, Accounts, States, Reasons, NeedsHuman
LEMMA PartialMarks == ASSUME NEW a, Marked(a), NEW counts PROVE Marked(Partial(a, counts))
  <1> DEFINE c == Counted(a, counts)
  <1>1. c \in Accounts BY CountedTypes
  <1>2. Partial(a, counts) = [c EXCEPT !.state = "DEGRADED", !.reason = "error"] BY DEF Partial
  <1> HIDE DEF c
  <1> QED BY <1>1, <1>2 DEF Marked, Accounts, States, Reasons, NeedsHuman
LEMMA OneMore == \A n \in 0..Threshold : AtMost(n + 1, Threshold) \in 0..Threshold
  BY HealthAssumption DEF AtMost
LEMMA AuthMarks == ASSUME NEW a, Marked(a) PROVE Marked(AuthFailed(a))
  <1>1. AtMost(a.failures + 1, Threshold) \in 0..Threshold BY OneMore DEF Marked, Accounts
  <1> QED BY <1>1 DEF AuthFailed, Marked, Accounts, States, Reasons, Retries, NeedsHuman
LEMMA ResetsMark == ASSUME NEW a, Marked(a) PROVE Marked(MarkBroken(a))
  BY DEF MarkBroken, Marked, Accounts, States, Reasons, Retries, NeedsHuman
LEMMA FailureMarks == ASSUME NEW a, Marked(a), NEW age PROVE Marked(Failed(a, age))
  <1>1. Marked(Stuck(a, age)) BY DEF Stuck, Marked, Accounts, States, Reasons, Retries, NeedsHuman
  <1>2. Marked(CountedFailure(a))
    <2>1. AtMost(a.failures + 1, Threshold) \in 0..Threshold BY OneMore DEF Marked, Accounts
    <2> DEFINE broken == a.failures + 1 >= Threshold
    <2>2. CountedFailure(a) = [a EXCEPT !.state = IF broken THEN "BROKEN" ELSE "DEGRADED", !.reason = "error",
                                        !.failures = AtMost(@ + 1, Threshold), !.retry = IF broken THEN "calm" ELSE "backoff"]
      BY DEF CountedFailure
    <2> HIDE DEF broken
    <2> QED BY <2>1, <2>2 DEF Marked, Accounts, States, Reasons, Retries, NeedsHuman
  <1> QED BY <1>1, <1>2 DEF Failed

ProviderAnswers == {"up", "flaky", "down", "refuses"}
LEMMA FullMarks == ASSUME Marked(acct), provider \in ProviderAnswers, NEW w, NEW cut, EndFull(w, cut) PROVE Marked(acct')
  <1>1. PICK o \in Outcomes :
          acct' = CASE o = "success" -> Succeeded(acct, ~cut, folders')
                    [] o = "partial" -> Partial(acct, ~cut)
                    [] o = "failed"  -> Failed(acct, anchor)
                    [] o = "auth"    -> AuthFailed(acct)
                    [] o = "resets"  -> MarkBroken(acct)
    BY DEF EndFull
  <1>2. o \in {"success", "partial", "failed", "auth", "resets"} BY DEF Outcomes, ProviderAnswers
  <1>3. CASE o = "success" BY <1>1, <1>3, SuccessMarks
  <1>4. CASE o = "partial" BY <1>1, <1>4, PartialMarks
  <1>5. CASE o = "failed" BY <1>1, <1>5, FailureMarks
  <1>6. CASE o = "auth" BY <1>1, <1>6, AuthMarks
  <1>7. CASE o = "resets" BY <1>1, <1>7, ResetsMark
  <1> QED BY <1>2, <1>3, <1>4, <1>5, <1>6, <1>7

LEMMA HealthMarks == ASSUME Marked(acct), provider \in ProviderAnswers, HealthNext PROVE Marked(acct')
  <1>1. ASSUME NEW w \in Workers, Choose(w) \/ Begin(w) \/ EndSupplemental(w) \/ Interrupt(w) \/ Cleanup(w) \/ LoseLock(w)
        PROVE  Marked(acct')
    BY <1>1 DEF Choose, Begin, EndSupplemental, Interrupt, Cleanup, LoseLock
  <1>2. ASSUME NEW w \in Workers, NEW cut \in BOOLEAN, EndFull(w, cut) PROVE Marked(acct') BY <1>2, FullMarks
  <1>3. CASE UpdateCredentials
    BY <1>3, HealthAssumption DEF UpdateCredentials, Marked, Accounts, States, Reasons, Retries, NeedsHuman
  <1>4. CASE RetryDue BY <1>4 DEF RetryDue, Marked, Accounts, Retries
  <1>5. CASE Age \/ ProviderChanges BY <1>5 DEF Age, ProviderChanges
  <1> QED BY <1>1, <1>2, <1>3, <1>4, <1>5 DEF HealthNext

(* Whatever series of outcomes, cancellations and lost locks: an account   *)
(* is BROKEN without a retry time exactly when only a human can help it,   *)
(* and no other reason for BROKEN is left on a row that is not             *)
(* (markAccountSyncFailed, markAccountBroken, getRunnableAccounts).        *)
THEOREM BrokenIsMarkedHolds == HealthInit /\ [][HealthNext]_healthVars => []BrokenIsMarked
<1> DEFINE Inv == Marked(acct) /\ provider \in ProviderAnswers
<1>1. HealthInit => Inv BY HealthAssumption DEF HealthInit, Marked, Accounts, States, Reasons, Retries, NeedsHuman, ProviderAnswers
<1>2. Inv /\ [HealthNext]_healthVars => Inv'
  <2>1. ASSUME Inv, UNCHANGED healthVars PROVE Inv' BY <2>1 DEF healthVars
  <2>2. ASSUME Inv, HealthNext PROVE provider' \in ProviderAnswers
    BY <2>2 DEF HealthNext, Choose, Begin, EndFull, EndSupplemental, Interrupt, Cleanup, LoseLock, UpdateCredentials,
         RetryDue, Age, ProviderChanges, ProviderAnswers
  <2> QED BY <2>1, <2>2, HealthMarks
<1>3. Inv => BrokenIsMarked BY DEF Marked, BrokenIsMarked
<1> QED BY <1>1, <1>2, <1>3, PTL
===============================================================================
