---------------------------- MODULE FolderSyncProof ----------------------------
(***************************************************************************)
(* What a sync pass promises, for every value of the constants.            *)
(*   1. Every variable of FolderSync keeps its type.                       *)
(*   2. No mail is lost behind a cursor: MailInv (module FolderSyncInv) is *)
(*      inductive, so NothingSkipped, UidNextPromise and InitialGapFree    *)
(*      hold.                                                              *)
(*   3. No expunge is lost behind the QRESYNC cursor: ExpungeInv is        *)
(*      inductive, so ExpungeCursorHonest holds.                           *)
(*   4. The flag cursor, the unchanged proof and the tombstones: FlagInv   *)
(*      is inductive beside those, so FlagCursorHonest,                    *)
(*      UnchangedProofSound and NoWrongTombstone hold.                     *)
(***************************************************************************)
EXTENDS FolderSyncInv, FiniteSetTheorems, TLAPS

-------------------------------------------------------------------------------
(* 1. Types.                                                                *)

(* The fields of the pass and of the folder row, one by one.               *)
LEMMA Fields ==
  ASSUME TypeOK
  PROVE  /\ pass.opt \in Options /\ pass.todo \in SUBSET Uids /\ pass.batches \in Nat
         /\ pass.read \in Batch /\ pass.read.uids \in SUBSET Uids /\ pass.read.seen \in SUBSET Uids
         /\ pass.reached \in Nat /\ pass.list \in SUBSET Uids /\ pass.window \in SUBSET Uids
         /\ pass.sel.validity \in Nat /\ pass.sel.next \in Nat /\ pass.sel.highest \in Nat
         /\ pass.replay.changed \in Batch /\ pass.replay.vanished \in SUBSET Uids
         /\ pass.replay.changed.uids \in SUBSET Uids /\ pass.replay.changed.seen \in SUBSET Uids
         /\ pass.hit \in BOOLEAN /\ pass.complete \in BOOLEAN /\ pass.clean \in BOOLEAN
         /\ folder.last \in Nat /\ folder.target \in Nat \cup {None}
         /\ folder.validity \in Nat \cup {None} /\ folder.highest \in Nat \cup {None}
         /\ folder.qresync \in Nat \cup {None} /\ folder.oldest \in Nat \cup {None}
         /\ folder.complete \in BOOLEAN /\ folder.due \in BOOLEAN
  <1>1. /\ pass.opt \in Options /\ pass.todo \in SUBSET Uids /\ pass.batches \in Nat
        /\ pass.read \in Batch /\ pass.reached \in Nat
        /\ pass.list \in SUBSET Uids /\ pass.window \in SUBSET Uids
        /\ pass.sel.validity \in Nat /\ pass.sel.next \in Nat /\ pass.sel.highest \in Nat
        /\ pass.replay.changed \in Batch /\ pass.replay.vanished \in SUBSET Uids
        /\ pass.hit \in BOOLEAN /\ pass.complete \in BOOLEAN /\ pass.clean \in BOOLEAN
    BY DEF TypeOK, Passes
  <1>2. /\ folder.last \in Nat /\ folder.target \in Nat \cup {None}
        /\ folder.validity \in Nat \cup {None} /\ folder.highest \in Nat \cup {None}
        /\ folder.qresync \in Nat \cup {None} /\ folder.oldest \in Nat \cup {None}
        /\ folder.complete \in BOOLEAN /\ folder.due \in BOOLEAN
    BY DEF TypeOK, Folders
  <1> QED BY <1>1, <1>2 DEF Batch

LEMMA NewPassType == ASSUME NEW o \in Options PROVE NewPass(o) \in Passes
  BY DEF NewPass, Passes, NoRead, NoSelect, NoReplay, Batch

LEMMA NoPassType == NoPass \in Passes /\ NoRead \in Batch
  <1>1. NoOptions \in Options BY DEF NoOptions, Options
  <1> QED BY <1>1, NewPassType DEF NoPass, NoRead, Batch

LEMMA FlagsType == ASSUME TypeOK, NEW S \in SUBSET Uids PROVE Flags(S) \in Batch
  BY DEF TypeOK, Flags, Batch

(* A step that changes the pass only.                                      *)
LEMMA PassOnly ==
  ASSUME TypeOK, pass' \in Passes, UNCHANGED <<provider, folder, rows, head>>
  PROVE  TypeOK'
  BY DEF TypeOK, provider, rows

(* A step that leaves the provider and the ghost alone.                    *)
LEMMA MirrorOnly ==
  ASSUME TypeOK, pass' \in Passes, folder' \in Folders, UNCHANGED <<provider, head>>,
         live' \in SUBSET Uids, missing' \in SUBSET Uids, live' \cap missing' = {},
         seen' \in SUBSET Uids
  PROVE  TypeOK'
  BY DEF TypeOK, provider

LEMMA UpsertType ==
  ASSUME TypeOK, Upsert(pass.read)
  PROVE  /\ live' \in SUBSET Uids /\ missing' \in SUBSET Uids /\ live' \cap missing' = {}
         /\ seen' \in SUBSET Uids
  BY Fields DEF TypeOK, Upsert

LEMMA TouchType ==
  ASSUME TypeOK, NEW u \in Uids, Touch(u)
  PROVE  pMod' \in [Uids -> Nat] /\ pHighest' \in Nat
  <1>1. pHighest + 1 \in Nat BY DEF TypeOK
  <1> QED BY <1>1 DEF Touch, TypeOK

LEMMA TypeProvider == TypeOK /\ Provider => TypeOK'
  <1> SUFFICES ASSUME TypeOK, Provider PROVE TypeOK' OBVIOUS
  <1>1. CASE Arrive
    <2>1. pNext \in Uids BY <1>1, BoundsAssumption DEF Arrive, TypeOK, Uids
    <2>2. pNext' \in Nat \ {0} BY <1>1 DEF Arrive, TypeOK
    <2>3. pMod' \in [Uids -> Nat] /\ pHighest' \in Nat BY <1>1, <2>1, TouchType DEF Arrive
    <2>4. pHere' \in SUBSET Uids /\ pHere' = pHere \cup {pNext} BY <1>1, <2>1 DEF Arrive, TypeOK
    <2>5. pOld' \in SUBSET pHere' BY <1>1, <2>4 DEF Arrive, TypeOK
    <2>6. pSeen' \in SUBSET pHere' BY <1>1, <2>4 DEF Arrive, TypeOK
    <2> QED BY <1>1, <2>2, <2>3, <2>4, <2>5, <2>6 DEF Arrive, TypeOK, rows
  <1>2. CASE Recreate BY <1>2 DEF Recreate, TypeOK, rows
  <1>3. ASSUME NEW u \in pHere, Expunge(u) PROVE TypeOK'
    BY <1>3 DEF Expunge, Touch, TypeOK, rows
  <1>4. ASSUME NEW u \in pHere, ChangeFlag(u) PROVE TypeOK'
    BY <1>4 DEF ChangeFlag, Touch, TypeOK, rows
  <1>5. ASSUME NEW u \in pHere, AgeOut(u) PROVE TypeOK'
    BY <1>5 DEF AgeOut, TypeOK, rows
  <1> QED BY <1>1, <1>2, <1>3, <1>4, <1>5 DEF Provider

LEMMA TypeSelect == TypeOK /\ Select => TypeOK'
  <1> SUFFICES ASSUME TypeOK, Select PROVE TypeOK' OBVIOUS
  <1> DEFINE Replay == [answer : {"none", "complete", "partial", "refused"}, changed : Batch,
                        vanished : SUBSET Uids]
  <1>1. NoReplay \in Replay BY NoPassType DEF NoReplay
  <1>2. \A a \in {"partial", "refused"} : [NoReplay EXCEPT !.answer = a] \in Replay BY <1>1
  <1>3. \A m : Changed(m) \in SUBSET Uids BY DEF Changed, TypeOK
  <1>4. \A m : Vanished(m) \in SUBSET Uids BY DEF Vanished, KnownUids
  <1>5. Replays \subseteq Replay
    <2>1. \A S \in {{}, Changed(folder.qresync)} : Flags(S) \in Batch BY <1>3, FlagsType
    <2>2. \A S \in {{}, Changed(folder.qresync)} :
            [answer |-> "complete", changed |-> Flags(S), vanished |-> Vanished(folder.qresync)] \in Replay
      BY <1>4, <2>1
    <2> QED BY <1>2, <2>2 DEF Replays
  <1>6. PICK r \in Replay :
          pass' = [pass EXCEPT !.sel = [validity |-> pValidity, next |-> pNext, highest |-> pHighest],
                               !.replay = r]
    BY <1>1, <1>5 DEF Select
  <1>7. pass' \in Passes BY <1>6 DEF TypeOK, Passes
  <1> QED BY <1>7, PassOnly DEF Select

LEMMA TypeInitial == TypeOK /\ Initial => TypeOK'
  <1> SUFFICES ASSUME TypeOK, Initial PROVE TypeOK' OBVIOUS
  <1>0. InWindow \in SUBSET Uids /\ HeadCandidates \in SUBSET Uids /\ Below \in SUBSET Uids
    BY Fields DEF InWindow, HeadCandidates, Below, TypeOK
  <1>1. CASE SnapshotSearch
    <2>1. pass' \in Passes BY <1>0, <1>1 DEF SnapshotSearch, TypeOK, Passes
    <2> QED BY <1>1, <2>1, PassOnly DEF SnapshotSearch
  <1>2. CASE setInitialSyncSnapshot
    <2>1. PICK target \in {0} \cup Uids :
            /\ folder' = [folder EXCEPT !.target = target, !.oldest = Watermark(target),
                                        !.last = Larger(folder.last, pass.sel.next - 1)]
            /\ head' = [validity |-> pass.sel.validity, next |-> pass.sel.next,
                        top |-> Larger(target, pass.sel.next - 1)]
      BY <1>2 DEF setInitialSyncSnapshot
    <2>2. target \in Nat /\ Watermark(target) \in Nat BY BoundsAssumption DEF Watermark, Uids
    <2>3. Larger(folder.last, pass.sel.next - 1) \in Nat /\ Larger(target, pass.sel.next - 1) \in Nat
      BY <2>2, Fields DEF Larger
    <2>4. folder' \in Folders BY <2>1, <2>2, <2>3 DEF TypeOK, Folders
    <2>5. head' \in [validity : Nat, next : Nat, top : Nat] BY <2>1, <2>3, Fields
    <2> QED BY <1>2, <2>4, <2>5 DEF setInitialSyncSnapshot, TypeOK, provider, rows
  <1>3. CASE Candidates
    <2>1. pass' \in Passes BY <1>0, <1>3 DEF Candidates, TypeOK, Passes
    <2> QED BY <1>3, <2>1, PassOnly DEF Candidates
  <1>4. CASE HeadSearch
    <2>1. pass' \in Passes BY <1>0, <1>4 DEF HeadSearch, TypeOK, Passes
    <2> QED BY <1>4, <2>1, PassOnly DEF HeadSearch
  <1>5. CASE HeadFetch
    <2>1. pass' \in Passes BY <1>5, Fields, FlagsType DEF HeadFetch, TypeOK, Passes
    <2> QED BY <1>5, <2>1, PassOnly DEF HeadFetch
  <1>6. CASE HeadWrite
    <2>1. folder' \in Folders BY <1>6, Fields DEF HeadWrite, TypeOK, Folders
    <2> QED BY <1>6, <2>1, UpsertType, MirrorOnly DEF HeadWrite, TypeOK
  <1>7. CASE advanceInitialSyncLiveHead
    <2>1. PICK m \in Uids : folder' = [folder EXCEPT !.last = Larger(folder.last, m)]
      BY <1>7, Fields DEF advanceInitialSyncLiveHead
    <2>2. Larger(folder.last, m) \in Nat BY Fields, BoundsAssumption DEF Larger, Uids
    <2>3. folder' \in Folders BY <2>1, <2>2 DEF TypeOK, Folders
    <2>4. pass' \in Passes BY <1>7, NoPassType DEF advanceInitialSyncLiveHead, TypeOK, Passes
    <2> QED BY <1>7, <2>3, <2>4, MirrorOnly DEF advanceInitialSyncLiveHead, TypeOK, rows
  <1>8. CASE Backfill
    <2>1. pass' \in Passes BY <1>0, <1>8 DEF Backfill, TypeOK, Passes
    <2> QED BY <1>8, <2>1, PassOnly DEF Backfill
  <1>9. CASE BackfillFetch
    <2>1. pass' \in Passes BY <1>9, Fields, FlagsType DEF BackfillFetch, TypeOK, Passes
    <2> QED BY <1>9, <2>1, PassOnly DEF BackfillFetch
  <1>10. CASE BackfillWrite
    <2>1. folder' \in Folders BY <1>10, Fields DEF BackfillWrite, TypeOK, Folders
    <2> QED BY <1>10, <2>1, UpsertType, MirrorOnly DEF BackfillWrite, TypeOK
  <1>11. CASE advanceInitialSyncWatermark
    <2>1. PICK m \in Uids : folder' = [folder EXCEPT !.oldest = m]
      BY <1>11, Fields DEF advanceInitialSyncWatermark
    <2>2. m \in Nat BY BoundsAssumption DEF Uids
    <2>3. folder' \in Folders BY <2>1, <2>2 DEF TypeOK, Folders
    <2>4. [pass EXCEPT !.todo = {}, !.read = NoRead] \in Passes BY NoPassType DEF TypeOK, Passes
    <2>5. pass' \in Passes BY <1>11, <2>4, NoPassType DEF advanceInitialSyncWatermark, EndPass
    <2> QED BY <1>11, <2>3, <2>5, MirrorOnly DEF advanceInitialSyncWatermark, TypeOK, rows
  <1>12. CASE InitialDone
    <2>1. Larger(folder.target, folder.last) \in Nat BY Fields DEF Larger, None
    <2>2. reachedUidNext(pass.sel.next, Larger(folder.target, folder.last)) \in Nat
      BY <2>1, Fields DEF reachedUidNext
    <2>3. folder' \in Folders BY <1>12, <2>1, <2>2, Fields DEF InitialDone, TypeOK, Folders
    <2> QED BY <1>12, <2>3, MirrorOnly, NoPassType DEF InitialDone, EndPass, TypeOK, rows
  <1> QED BY <1>1, <1>2, <1>3, <1>4, <1>5, <1>6, <1>7, <1>8, <1>9, <1>10, <1>11, <1>12 DEF Initial

LEMMA TypeSteady == TypeOK /\ Steady => TypeOK'
  <1> SUFFICES ASSUME TypeOK, Steady PROVE TypeOK' OBVIOUS
  <1>0. InWindow \in SUBSET Uids /\ Incoming \in SUBSET Uids /\ Gap \in SUBSET Uids
    BY Fields DEF InWindow, Incoming, Gap, TypeOK
  <1>1. CASE Search
    <2>1. pass' \in Passes BY <1>0, <1>1 DEF Search, TypeOK, Passes
    <2> QED BY <1>1, <2>1, PassOnly DEF Search
  <1>2. CASE Incremental
    <2>1. pass' \in Passes BY <1>2, Fields, FlagsType DEF Incremental, TypeOK, Passes
    <2> QED BY <1>2, <2>1, PassOnly DEF Incremental
  <1>3. CASE IncrementalWrite
    <2>1. PICK m \in Uids, hit \in BOOLEAN, n \in Nat :
            pass' = [pass EXCEPT !.todo = pass.todo \ pass.read.uids, !.reached = m,
                                 !.read = NoRead, !.hit = hit, !.batches = n]
      <3>1. PICK m \in pass.read.uids, hit \in LockBudget :
              pass' = [pass EXCEPT !.todo = pass.todo \ pass.read.uids, !.reached = m,
                         !.read = NoRead, !.hit = hit,
                         !.batches = IF pass.todo \ pass.read.uids # {} /\ ~hit
                                        /\ pass.batches + 1 < BatchesPerPass
                                     THEN pass.batches + 1 ELSE 0]
        BY <1>3 DEF IncrementalWrite
      <3>2. m \in Uids /\ hit \in BOOLEAN BY Fields DEF LockBudget
      <3>3. (IF pass.todo \ pass.read.uids # {} /\ ~hit /\ pass.batches + 1 < BatchesPerPass
             THEN pass.batches + 1 ELSE 0) \in Nat
        BY Fields
      <3> QED BY <3>1, <3>2, <3>3
    <2>2. m \in Nat BY BoundsAssumption DEF Uids
    <2>3. pass' \in Passes BY <2>1, <2>2, Fields, NoPassType DEF TypeOK, Passes
    <2>4. folder' \in Folders BY <1>3, Fields DEF IncrementalWrite, TypeOK, Folders
    <2> QED BY <1>3, <2>3, <2>4, UpsertType, MirrorOnly DEF IncrementalWrite
  <1>4. CASE ReplayFlags
    <2>1. seen' \in SUBSET Uids BY <1>4, Fields DEF ReplayFlags, WriteFlags, TypeOK
    <2> QED BY <1>4, <2>1, MirrorOnly DEF ReplayFlags, TypeOK
  <1>5. CASE markVanishedMessages
    <2>1. NoReplay \in [answer : {"none", "complete", "partial", "refused"}, changed : Batch,
                        vanished : SUBSET Uids]
      BY NoPassType DEF NoReplay
    <2>2. pass' \in Passes BY <1>5, <2>1 DEF markVanishedMessages, TypeOK, Passes
    <2>3. /\ live' \in SUBSET Uids /\ missing' \in SUBSET Uids /\ live' \cap missing' = {}
      BY <1>5 DEF markVanishedMessages, TypeOK
    <2> QED BY <1>5, <2>2, <2>3, MirrorOnly DEF markVanishedMessages, TypeOK
  <1>6. CASE FlagScan
    <2>1. NoReplay \in [answer : {"none", "complete", "partial", "refused"}, changed : Batch,
                        vanished : SUBSET Uids]
      BY NoPassType DEF NoReplay
    <2>2. qresyncFallbackRequired \in BOOLEAN BY DEF qresyncFallbackRequired
    <2>3. \A h \in BOOLEAN, w \in BOOLEAN : Decided(h, w) \in Passes
      <3>1. pass \in Passes /\ folder.due \in BOOLEAN BY Fields DEF TypeOK
      <3> SUFFICES ASSUME NEW h \in BOOLEAN, NEW w \in BOOLEAN PROVE Decided(h, w) \in Passes OBVIOUS
      <3> QED BY ONLY <2>1, <2>2, <3>1, h \in BOOLEAN, w \in BOOLEAN DEF Decided, Passes
    <2>4. \A h \in BOOLEAN, w \in BOOLEAN, S \in SUBSET Uids :
            [Decided(h, w) EXCEPT !.read = Flags(S)] \in Passes
      BY <2>3, FlagsType DEF Passes
    <2>5. Changed(folder.highest) \in SUBSET Uids BY DEF Changed, TypeOK
    <2>6. WindowScans(folder.due) \subseteq SUBSET Uids BY <1>0 DEF WindowScans
    <2>7. PICK h \in BOOLEAN, w \in BOOLEAN :
            \/ pass' = [Decided(h, w) EXCEPT !.read = Flags(Changed(folder.highest))]
            \/ \E S \in WindowScans(folder.due) : pass' = [Decided(h, w) EXCEPT !.read = Flags(S)]
            \/ pass' = Decided(h, w)
      <3>1. PICK routine \in RoutineDue, budget \in LockBudget :
              LET hit == pass.hit \/ budget
                  wanted == FlagsWanted(routine, hit)
              IN \/ pass' = [Decided(hit, wanted) EXCEPT !.read = Flags(Changed(folder.highest))]
                 \/ \E S \in WindowScans(folder.due) :
                      pass' = [Decided(hit, wanted) EXCEPT !.read = Flags(S)]
                 \/ pass' = Decided(hit, wanted)
        BY <1>6 DEF FlagScan
      <3> DEFINE hit == pass.hit \/ budget
                 wanted == FlagsWanted(routine, hit)
      <3>2. hit \in BOOLEAN /\ wanted \in BOOLEAN BY DEF FlagsWanted
      <3>3. \/ pass' = [Decided(hit, wanted) EXCEPT !.read = Flags(Changed(folder.highest))]
            \/ \E S \in WindowScans(folder.due) :
                 pass' = [Decided(hit, wanted) EXCEPT !.read = Flags(S)]
            \/ pass' = Decided(hit, wanted)
        BY <3>1
      <3> HIDE DEF hit, wanted
      <3> QED BY <3>2, <3>3
    <2>8. pass' \in Passes
      <3>1. CASE pass' = [Decided(h, w) EXCEPT !.read = Flags(Changed(folder.highest))]
        BY <2>4, <2>5, <3>1
      <3>2. CASE \E S \in WindowScans(folder.due) : pass' = [Decided(h, w) EXCEPT !.read = Flags(S)]
        BY <2>4, <2>6, <3>2
      <3>3. CASE pass' = Decided(h, w) BY <2>3, <3>3
      <3> QED BY <2>7, <3>1, <3>2, <3>3
    <2> QED BY <1>6, <2>8, PassOnly DEF FlagScan
  <1>7. CASE DeltaWrite
    <2>1. WindowScans(pass.due) \subseteq SUBSET Uids BY <1>0 DEF WindowScans
    <2>2. pass' \in Passes BY <1>7, <2>1, FlagsType, NoPassType DEF DeltaWrite, TypeOK, Passes
    <2>3. seen' \in SUBSET Uids BY <1>7, Fields DEF DeltaWrite, WriteFlags, TypeOK
    <2> QED BY <1>7, <2>2, <2>3, MirrorOnly DEF DeltaWrite, TypeOK
  <1>8. CASE WindowWrite
    <2>1. pass' \in Passes BY <1>8, NoPassType DEF WindowWrite, TypeOK, Passes
    <2>2. seen' \in SUBSET Uids BY <1>8, Fields DEF WindowWrite, WriteFlags, TypeOK
    <2> QED BY <1>8, <2>1, <2>2, MirrorOnly DEF WindowWrite, TypeOK
  <1>9. CASE Reconcile
    <2>1. Listings \subseteq SUBSET Uids BY DEF Listings, TypeOK
    <2>2. PICK h \in BOOLEAN, list \in SUBSET Uids :
            \/ pass' = [pass EXCEPT !.attempted = TRUE, !.list = list]
            \/ pass' = [pass EXCEPT !.hit = h]
      <3>1. PICK hit \in LockBudget, list \in Listings :
              \/ pass' = [pass EXCEPT !.attempted = TRUE, !.list = list]
              \/ pass' = [pass EXCEPT !.hit = pass.hit \/ hit]
        BY <1>9 DEF Reconcile
      <3>2. (pass.hit \/ hit) \in BOOLEAN OBVIOUS
      <3> QED BY <2>1, <3>1, <3>2
    <2>4. [pass EXCEPT !.attempted = TRUE, !.list = list] \in Passes BY DEF TypeOK, Passes
    <2>5. [pass EXCEPT !.hit = h] \in Passes BY DEF TypeOK, Passes
    <2>3. pass' \in Passes BY <2>2, <2>4, <2>5
    <2> QED BY <1>9, <2>3, PassOnly DEF Reconcile
  <1>10. CASE CheckList
    <2>1. \/ pass' = [pass EXCEPT !.window = InWindow, !.complete = TRUE]
          \/ pass' = [pass EXCEPT !.list = {}]
      BY <1>10 DEF CheckList
    <2>3. [pass EXCEPT !.window = InWindow, !.complete = TRUE] \in Passes
      BY <1>0 DEF TypeOK, Passes
    <2>4. [pass EXCEPT !.list = {}] \in Passes BY DEF TypeOK, Passes
    <2>2. pass' \in Passes BY <2>1, <2>3, <2>4
    <2> QED BY <1>10, <2>2, PassOnly DEF CheckList
  <1>11. CASE Tombstone
    <2>1. PICK stop \in 0..MaxUid :
            LET written == {u \in Doomed : u <= stop} IN
              /\ live' = live \ written /\ missing' = missing \cup written
              /\ pass' = [pass EXCEPT !.complete = (written = Doomed)]
      BY <1>11 DEF Tombstone
    <2>2. pass' \in Passes BY <2>1 DEF TypeOK, Passes
    <2>3. Doomed \in SUBSET live BY DEF Doomed
    <2>4. live' \in SUBSET Uids /\ missing' \in SUBSET Uids /\ live' \cap missing' = {}
      BY <2>1, <2>3 DEF TypeOK
    <2> QED BY <1>11, <2>2, <2>4, MirrorOnly DEF Tombstone, TypeOK
  <1>12. CASE Revive
    <2>1. PICK revived \in SUBSET Revivable, first \in SUBSET Gap, c \in BOOLEAN :
            /\ live' = live \cup revived /\ missing' = missing \ revived
            /\ pass' = [pass EXCEPT !.complete = c, !.window = first, !.list = {}]
      <3>1. PICK stop \in (IF pass.complete THEN 0..MaxUid ELSE {0}) :
              LET revived == {u \in Revivable : u <= stop}
              IN /\ live' = live \cup revived /\ missing' = missing \ revived
                 /\ \E first \in SUBSET Gap :
                      pass' = [pass EXCEPT
                                 !.complete = pass.complete /\ revived = Revivable /\ first = Gap,
                                 !.window = first, !.list = {}]
        BY <1>12 DEF Revive
      <3> DEFINE revived == {u \in Revivable : u <= stop}
      <3>2. revived \in SUBSET Revivable OBVIOUS
      <3>3. PICK first \in SUBSET Gap :
              pass' = [pass EXCEPT
                         !.complete = pass.complete /\ revived = Revivable /\ first = Gap,
                         !.window = first, !.list = {}]
        BY <3>1
      <3>4. (pass.complete /\ revived = Revivable /\ first = Gap) \in BOOLEAN OBVIOUS
      <3>5. live' = live \cup revived /\ missing' = missing \ revived BY <3>1
      <3> HIDE DEF revived
      <3> QED BY <3>2, <3>3, <3>4, <3>5
    <2>2. pass' \in Passes BY <1>0, <2>1 DEF TypeOK, Passes
    <2>3. Revivable \in SUBSET missing BY DEF Revivable
    <2>4. live' \in SUBSET Uids /\ missing' \in SUBSET Uids /\ live' \cap missing' = {}
      BY <2>1, <2>3 DEF TypeOK
    <2> QED BY <1>12, <2>2, <2>4, MirrorOnly DEF Revive, TypeOK
  <1>13. CASE GapFetch
    <2>1. pass' \in Passes
      <3>1. CASE pass.window = {} \/ pass.hit
        <4>1. (~pass.hit /\ pass.complete) \in BOOLEAN OBVIOUS
        <4>2. pass' = [pass EXCEPT !.clean = ~pass.hit /\ pass.complete, !.window = {}]
          BY <1>13, <3>1 DEF GapFetch
        <4> QED BY <4>1, <4>2 DEF TypeOK, Passes
      <3>2. CASE ~(pass.window = {} \/ pass.hit)
        BY <1>13, <3>2, Fields, FlagsType DEF GapFetch, TypeOK, Passes
      <3> QED BY <3>1, <3>2
    <2> QED BY <1>13, <2>1, PassOnly DEF GapFetch
  <1>14. CASE GapWrite
    <2>1. PICK hit \in LockBudget :
            pass' = [pass EXCEPT !.window = pass.window \ pass.read.uids, !.read = NoRead, !.hit = hit]
      BY <1>14 DEF GapWrite
    <2>2. hit \in BOOLEAN BY DEF LockBudget
    <2>3. pass.window \ pass.read.uids \in SUBSET Uids BY Fields
    <2>4. pass' \in Passes BY <2>1, <2>2, <2>3, NoPassType DEF TypeOK, Passes
    <2> QED BY <1>14, <2>4, UpsertType, MirrorOnly DEF GapWrite, TypeOK
  <1>15. CASE Finish
    <2>1. StoredLast \in Nat BY Fields DEF StoredLast
    <2>2. reachedUidNext(pass.sel.next, StoredLast) \in Nat BY <2>1, Fields DEF reachedUidNext
    <2>3. (IF pass.todo = {} THEN pass.sel.next ELSE reachedUidNext(pass.sel.next, StoredLast)) \in Nat
      BY <2>2, Fields
    <2>4. StoredHighest \in Nat \cup {None} BY Fields DEF StoredHighest
    <2> DEFINE clean == IF pass.attempted THEN pass.clean ELSE folder.clean
               due   == IF pass.attempted /\ (pass.due \/ ~pass.clean) THEN FALSE ELSE folder.due
               next  == IF pass.todo = {} THEN pass.sel.next
                        ELSE reachedUidNext(pass.sel.next, StoredLast)
               qresync == IF storesQresync THEN pass.sel.highest ELSE folder.qresync
    <2>5. clean \in BOOLEAN /\ due \in BOOLEAN
      BY Fields DEF TypeOK, Folders
    <2>6. qresync \in Nat \cup {None} BY Fields
    <2>7. folder' = [folder EXCEPT !.validity = pass.sel.validity, !.complete = TRUE,
                       !.last = StoredLast, !.next = next, !.highest = StoredHighest,
                       !.qresync = qresync, !.clean = clean, !.due = due]
      BY <1>15 DEF Finish
    <2>9. next \in Nat BY <2>3
    <2> HIDE DEF clean, due, next, qresync
    <2>12. folder \in Folders /\ pass.sel.validity \in Nat BY Fields DEF TypeOK
    <2>8. folder' \in Folders BY ONLY <2>1, <2>4, <2>5, <2>6, <2>7, <2>9, <2>12 DEF Folders
    <2>10. pass' = NoPass BY <1>15 DEF Finish, EndPass
    <2>11. pass' \in Passes BY <2>10, NoPassType
    <2> QED BY <1>15, <2>8, <2>11, MirrorOnly DEF Finish, EndPass, TypeOK, rows
  <1> QED BY <1>1, <1>2, <1>3, <1>4, <1>5, <1>6, <1>7, <1>8, <1>9, <1>10, <1>11, <1>12, <1>13, <1>14,
             <1>15 DEF Steady

LEMMA TypeInit == Init => TypeOK
  <1> SUFFICES ASSUME Init PROVE TypeOK OBVIOUS
  <1>1. folder \in Folders BY DEF Init, NewFolder, Folders
  <1>2. pass \in Passes BY NoPassType DEF Init
  <1>3. head \in [validity : Nat, next : Nat, top : Nat] BY DEF Init, NoHead
  <1> QED BY <1>1, <1>2, <1>3 DEF Init, TypeOK

LEMMA TypeNext == TypeOK /\ [Next]_vars => TypeOK'
  <1> SUFFICES ASSUME TypeOK, [Next]_vars PROVE TypeOK' OBVIOUS
  <1>1. CASE Provider BY <1>1, TypeProvider
  <1>2. CASE StartPass
    <2>1. pass' \in Passes BY <1>2, NewPassType, OptionsAssumption DEF StartPass
    <2> QED BY <1>2, <2>1, PassOnly DEF StartPass
  <1>3. CASE Select BY <1>3, TypeSelect
  <1>4. CASE handleUidValidityReset
    <2>1. folder' \in Folders BY <1>4, Fields DEF handleUidValidityReset, Forgotten, TypeOK, Folders
    <2>2. head' \in [validity : Nat, next : Nat, top : Nat]
      BY <1>4 DEF handleUidValidityReset, NoHead
    <2> QED BY <1>4, <2>1, <2>2, NoPassType DEF handleUidValidityReset, EndPass, TypeOK, provider
  <1>5. CASE Initial BY <1>5, TypeInitial
  <1>6. CASE Steady BY <1>6, TypeSteady
  <1>7. CASE FetchIncomplete \/ Fail
    BY <1>7, NoPassType, PassOnly DEF FetchIncomplete, Fail, EndPass
  <1>8. CASE AuditFallsDue
    <2>1. folder' \in Folders BY <1>8 DEF AuditFallsDue, TypeOK, Folders
    <2> QED BY <1>8, <2>1, MirrorOnly DEF AuditFallsDue, TypeOK, rows
  <1>9. ASSUME NEW u \in live, markMessageGone(u) PROVE TypeOK'
    BY <1>9, MirrorOnly DEF markMessageGone, TypeOK
  <1>10. CASE UNCHANGED vars BY <1>10 DEF vars, provider, rows, TypeOK
  <1> QED BY <1>1, <1>2, <1>3, <1>4, <1>5, <1>6, <1>7, <1>8, <1>9, <1>10 DEF Next, Mirror, PassStep

(* Every variable keeps its type, and no row is live and tombstoned at     *)
(* once, for every bound and every set of callers.                         *)
THEOREM TypeCorrect == Spec => []TypeOK
  BY TypeInit, TypeNext, PTL DEF Spec

-------------------------------------------------------------------------------
(* 2. No mail is lost behind a cursor.                                      *)

LEMMA UidsAreNat == \A u \in Uids : u \in Nat /\ u >= 1 /\ u # None
  BY BoundsAssumption DEF Uids, None

-------------------------------------------------------------------------------
(* The pass moves among the program counters after new mail, keeping what  *)
(* MailInv reads.                                                          *)
LatePcs == SteadyPcs \ {"search", "incremental", "incrementalWrite"}
LEMMA LateStep ==
  ASSUME TypeOK, MailInv, pc \in LatePcs, pc' \in LatePcs, UNCHANGED <<provider, folder, head>>,
         pass'.sel = pass.sel, pass'.todo = pass.todo, pass'.reached = pass.reached,
         Mirrored \subseteq Mirrored'
  PROVE  MailInv'
  <1> USE DEF LatePcs, SteadyPcs, InitialPcs, ResumedPcs, Resting, AllPcs, provider
  <1>1. Provided' /\ Selected' /\ Stages' BY DEF MailInv, Provided, Selected, Stages
  <1>2. Recorded' /\ SnapshotHeld' /\ WindowHeld' /\ HeadBatch' /\ BackfillBatch'
    BY DEF MailInv, Recorded, SnapshotHeld, WindowHeld, HeadBatch, BackfillBatch, Current
  <1>3. NewMail' /\ IncrementalBatchHeld' BY DEF MailInv, NewMail, IncrementalBatchHeld
  <1>4. NothingSkipped' /\ UidNextPromise' /\ InitialGapFree'
    BY DEF MailInv, NothingSkipped, UidNextPromise, InitialGapFree, Current, Owed
  <1> QED BY <1>1, <1>2, <1>3, <1>4 DEF MailInv

(* The pass ends without recording anything.                               *)
LEMMA EndStep ==
  ASSUME TypeOK, MailInv, EndPass, UNCHANGED <<provider, folder, rows, head>>
  PROVE  MailInv'
  <1> USE DEF SteadyPcs, InitialPcs, ResumedPcs, Resting, AllPcs, provider, rows
  <1>0. pass' = NoPass /\ pc' = "idle" BY DEF EndPass
  <1>5. pass' = NewPass(pass'.opt) /\ pass'.reached = 0 BY <1>0 DEF NoPass, NewPass
  <1>1. Provided' /\ Selected' /\ Stages' BY <1>0, <1>5 DEF MailInv, Provided, Selected, Stages
  <1>2. Recorded' /\ SnapshotHeld' /\ WindowHeld' /\ HeadBatch' /\ BackfillBatch'
    BY <1>0 DEF MailInv, Recorded, SnapshotHeld, WindowHeld, HeadBatch, BackfillBatch, Current
  <1>3. NewMail' /\ IncrementalBatchHeld' BY <1>0, <1>5 DEF MailInv, NewMail, IncrementalBatchHeld
  <1>4. NothingSkipped' /\ UidNextPromise' /\ InitialGapFree'
    BY DEF MailInv, NothingSkipped, UidNextPromise, InitialGapFree, Current, Owed, Mirrored
  <1> QED BY <1>1, <1>2, <1>3, <1>4 DEF MailInv

(* The provider's steps.                                                   *)
LEMMA MailArrive == ASSUME TypeOK, MailInv, Arrive PROVE MailInv'
  <1> USE DEF rows
  <1>0. /\ UNCHANGED <<pValidity, folder, rows, pc, pass, head>>
        /\ pNext' = pNext + 1 /\ pHere' = pHere \cup {pNext} /\ pNext \in Uids
        /\ pHighest' = pHighest + 1 /\ pMod' = [pMod EXCEPT ![pNext] = pHighest + 1]
        /\ pOld \subseteq pOld' /\ pOld' \subseteq pOld \cup {pNext}
    BY BoundsAssumption DEF Arrive, Touch, TypeOK, Uids
  <1>6. \A u \in Uids : u \in Nat BY BoundsAssumption DEF Uids
  <1>7. pNext \in Nat /\ pHighest \in Nat /\ pHere \in SUBSET Uids /\ pMod \in [Uids -> Nat]
    BY DEF TypeOK
  <1>17. /\ Owed' \subseteq Owed \cup {pNext} /\ InWindow' \subseteq InWindow \cup {pNext}
         /\ Mirrored' = Mirrored /\ Owed \subseteq pHere /\ InWindow \subseteq pHere
    BY <1>0 DEF Owed, InWindow, Mirrored
  <1>18. /\ \A u \in pHere : u < pNext /\ u \in Nat /\ u \in Uids
         /\ pc \notin Resting => pass.sel.next <= pNext
         /\ Current' <=> Current
    BY <1>0, <1>6, <1>7 DEF MailInv, Provided, Selected, Current
  <1>1. Provided' BY <1>0, <1>6, <1>7, Fields DEF MailInv, Provided
  <1>8. Selected' BY <1>0, <1>6, <1>7, Fields DEF MailInv, Selected, Provided
  <1>9. Stages' BY <1>0 DEF MailInv, Stages
  <1>2. Recorded' BY <1>0, <1>7, Fields DEF MailInv, Recorded, Current, Folders, TypeOK, None
  <1>10. SnapshotHeld'
    <2> SUFFICES ASSUME pc = "snapshotWrite" PROVE SnapshotHeld' BY <1>0 DEF SnapshotHeld
    <2>1. \A u \in pass.window : u < pNext /\ u \in Nat BY <1>6, Fields DEF MailInv, SnapshotHeld
    <2>2. \A v \in pass.window : v < pNext' BY <2>1, <1>0, <1>7
    <2>3. pass.sel.next <= pNext BY <1>18 DEF Resting
    <2> QED BY <2>1, <2>2, <2>3, <1>0, <1>17 DEF MailInv, SnapshotHeld
  <1>11. WindowHeld' BY <1>0, <1>6, <1>7, Fields DEF MailInv, WindowHeld, Current, Recorded, InWindow, None
  <1>12. HeadBatch'
    <2>1. pc \in {"headFetch", "headWrite", "headAdvance"} => \A m \in pass.todo : m < pNext /\ m \in Nat
      BY <1>18, <1>6, <1>7, Fields DEF MailInv, HeadBatch, Resting
    <2> QED BY <2>1, <1>0, <1>7, <1>17 DEF MailInv, HeadBatch
  <1>13. BackfillBatch' BY <1>0 DEF MailInv, BackfillBatch, Below, Mirrored
  <1>3. NewMail'
    <2>1. pc \in SteadyPcs => pc \notin Resting BY DEF SteadyPcs, Resting
    <2>2. pc \in SteadyPcs \ {"search"} => pass.reached < pNext BY <1>7, Fields DEF MailInv, NewMail, TypeOK
    <2> SUFFICES ASSUME pc \in SteadyPcs \ {"search"} PROVE NewMail' BY <1>0 DEF NewMail
    <2>3. pass.sel.next <= pNext /\ pass.reached < pNext /\ pass.sel.next \in Nat /\ pass.reached \in Nat
      BY <2>1, <2>2, <1>18, Fields
    <2>4. \A u \in pHere' : folder.last < u /\ (u < pass.sel.next \/ u <= pass.reached) => u \in pHere
      BY <1>0, <1>7, <2>3
    <2>7. \A u \in pass.todo : u \in Nat BY <1>6, Fields
    <2>5. \A u \in pass.todo : u < pNext => u < pNext' BY <2>7, <1>0, <1>7
    <2>6. pass.reached < pNext' BY <1>0, <1>7, <2>3
    <2> QED BY <2>4, <2>5, <2>6, <1>0, <1>17 DEF MailInv, NewMail
  <1>14. IncrementalBatchHeld' BY <1>0 DEF MailInv, IncrementalBatchHeld
  <1>19. Current => folder.last < pNext /\ (folder.complete => folder.next <= pNext)
    BY DEF MailInv, Recorded
  <1>4. NothingSkipped' BY <1>0, <1>7, <1>17, <1>18, <1>19, Fields DEF MailInv, NothingSkipped, Recorded
  <1>15. UidNextPromise' BY <1>0, <1>7, <1>17, <1>18, <1>19, Fields DEF MailInv, UidNextPromise, Recorded, Folders, TypeOK, None
  <1>16. InitialGapFree' BY <1>0, <1>6, <1>7, Fields DEF MailInv, InitialGapFree, Current, Owed, Mirrored, Recorded, Larger, None
  <1> QED BY <1>1, <1>2, <1>3, <1>4, <1>8, <1>9, <1>10, <1>11, <1>12, <1>13, <1>14, <1>15, <1>16 DEF MailInv

(* A step that only forgets mail: the mailbox loses messages, window       *)
(* messages or flags, or nothing.                                          *)
LEMMA ShrinkStep ==
  ASSUME TypeOK, MailInv, UNCHANGED <<pValidity, pNext, folder, pc, pass, head>>,
         pHere' \subseteq pHere, InWindow' \subseteq InWindow, Owed' \subseteq Owed,
         Mirrored' = Mirrored, Provided', Selected'
  PROVE  MailInv'
  <1>1. Stages' /\ Recorded' /\ SnapshotHeld' /\ WindowHeld'
    BY DEF MailInv, Stages, Recorded, SnapshotHeld, WindowHeld, Current
  <1>2. HeadBatch' /\ BackfillBatch' BY DEF MailInv, HeadBatch, BackfillBatch, Below
  <1>3. NewMail' /\ IncrementalBatchHeld' BY DEF MailInv, NewMail, IncrementalBatchHeld
  <1>4. NothingSkipped' /\ UidNextPromise' /\ InitialGapFree'
    BY DEF MailInv, NothingSkipped, UidNextPromise, InitialGapFree, Current
  <1> QED BY <1>1, <1>2, <1>3, <1>4 DEF MailInv

LEMMA TouchBound ==
  ASSUME TypeOK, Provided, Selected, NEW u \in Uids, Touch(u),
         UNCHANGED <<pValidity, pNext, folder, pc, pass, head>>, pHere' \subseteq pHere
  PROVE  Provided' /\ Selected'
  <1>1. /\ pHighest' = pHighest + 1 /\ pMod' = [pMod EXCEPT ![u] = pHighest + 1]
        /\ pHighest \in Nat /\ pMod \in [Uids -> Nat] /\ pNext \in Nat
    BY DEF Touch, TypeOK
  <1>2. \A v \in Uids : pMod'[v] = (IF v = u THEN pHighest + 1 ELSE pMod[v]) BY <1>1
  <1>3. Provided' BY <1>1, <1>2 DEF Provided
  <1>4. pass.sel.highest \in Nat BY Fields
  <1>5. pc \notin Resting => pass.sel.highest < pHighest + 1 BY <1>1, <1>4 DEF Selected
  <1>6. Selected' BY <1>1, <1>2, <1>4, <1>5 DEF Selected
  <1> QED BY <1>3, <1>6

LEMMA MailProvider == ASSUME TypeOK, MailInv, Provider PROVE MailInv'
  <1>1. CASE Arrive BY <1>1, MailArrive
  <1>2. CASE Recreate
    <2>1. /\ pc \in Resting /\ pValidity' = pValidity + 1 /\ pNext' = 1 /\ pHere' = {}
          /\ pMod' = [u \in Uids |-> 0] /\ pHighest' = 0
          /\ UNCHANGED <<folder, rows, pc, pass, head>>
      BY <1>2 DEF Recreate, Resting
    <2>2. head.validity \in Nat /\ pValidity \in Nat BY DEF TypeOK
    <2>3. ~Current' BY <2>1, <2>2 DEF Current, MailInv, Provided
    <2>4. Provided' BY <2>1, <2>2, Fields DEF MailInv, Provided, None
    <2>5. Selected' /\ Stages' BY <2>1 DEF MailInv, Selected, Stages
    <2>6. Recorded' /\ WindowHeld' /\ NothingSkipped' /\ UidNextPromise' /\ InitialGapFree'
      BY <2>3 DEF Recorded, WindowHeld, NothingSkipped, UidNextPromise, InitialGapFree
    <2>7. SnapshotHeld' /\ HeadBatch' /\ BackfillBatch' /\ NewMail'
      BY <2>1 DEF Resting, SnapshotHeld, HeadBatch, BackfillBatch, NewMail, SteadyPcs
    <2>8. IncrementalBatchHeld' BY <2>1 DEF MailInv, IncrementalBatchHeld
    <2> QED BY <2>4, <2>5, <2>6, <2>7, <2>8 DEF MailInv
  <1>3. ASSUME NEW u \in pHere, Expunge(u) PROVE MailInv'
    <2>1. Provided' /\ Selected' BY <1>3, TouchBound DEF Expunge, MailInv, TypeOK, rows
    <2>2. /\ UNCHANGED <<pValidity, pNext, folder, pc, pass, head>> /\ pHere' \subseteq pHere
          /\ InWindow' \subseteq InWindow /\ Owed' \subseteq Owed /\ Mirrored' = Mirrored
      BY <1>3 DEF Expunge, rows, InWindow, Owed, Mirrored
    <2> QED BY <2>1, <2>2, ShrinkStep
  <1>4. ASSUME NEW u \in pHere, ChangeFlag(u) PROVE MailInv'
    <2>1. Provided' /\ Selected' BY <1>4, TouchBound DEF ChangeFlag, MailInv, TypeOK, rows
    <2>2. /\ UNCHANGED <<pValidity, pNext, folder, pc, pass, head>> /\ pHere' \subseteq pHere
          /\ InWindow' \subseteq InWindow /\ Owed' \subseteq Owed /\ Mirrored' = Mirrored
      BY <1>4 DEF ChangeFlag, rows, InWindow, Owed, Mirrored
    <2> QED BY <2>1, <2>2, ShrinkStep
  <1>5. ASSUME NEW u \in pHere, AgeOut(u) PROVE MailInv'
    <2>1. Provided' /\ Selected' BY <1>5 DEF AgeOut, MailInv, rows, Provided, Selected
    <2>2. /\ UNCHANGED <<pValidity, pNext, folder, pc, pass, head>> /\ pHere' \subseteq pHere
          /\ InWindow' \subseteq InWindow /\ Owed' \subseteq Owed /\ Mirrored' = Mirrored
      BY <1>5 DEF AgeOut, rows, InWindow, Owed, Mirrored
    <2> QED BY <2>1, <2>2, ShrinkStep
  <1> QED BY <1>1, <1>2, <1>3, <1>4, <1>5 DEF Provider

-------------------------------------------------------------------------------
(* A step of the initial sync that records at most the generation: what it *)
(* knows of the snapshot and its batches is left to show.                  *)
Kept(f, g) == /\ f.last = g.last /\ f.target = g.target /\ f.oldest = g.oldest
              /\ f.complete = g.complete /\ f.next = g.next
LEMMA InitialStep ==
  ASSUME TypeOK, MailInv, pc \in InitialPcs, pc' \in InitialPcs,
         pc \in ResumedPcs <=> pc' \in ResumedPcs,
         UNCHANGED <<provider, head>>, Kept(folder', folder),
         folder'.validity \in {folder.validity, pass.sel.validity},
         pass'.sel = pass.sel, pass'.reached = pass.reached, Mirrored \subseteq Mirrored',
         SnapshotHeld', WindowHeld', HeadBatch', BackfillBatch'
  PROVE  MailInv'
  <1> USE DEF provider, Kept
  <1>0. pc \notin Resting \cup {"reset"} /\ pc' \notin Resting \cup {"reset"} \cup SteadyPcs
    BY DEF InitialPcs, Resting, SteadyPcs
  <1>1. pass.sel.validity = pValidity /\ (Current' <=> Current)
    BY <1>0 DEF MailInv, Selected, Current
  <1>2. Provided'
    <2>1. pValidity \in Nat BY DEF TypeOK
    <2>2. folder'.validity <= pValidity BY <1>1, <2>1 DEF MailInv, Provided
    <2> QED BY <2>2 DEF MailInv, Provided
  <1>7. Selected' BY <1>0, <1>1 DEF MailInv, Selected
  <1>3. Stages' BY <1>0 DEF MailInv, Stages, InitialPcs, ResumedPcs, AllPcs
  <1>4. Recorded' BY <1>1 DEF MailInv, Recorded
  <1>5. NewMail' /\ IncrementalBatchHeld'
    <2>1. pass.reached = 0 BY DEF MailInv, IncrementalBatchHeld
    <2> QED BY <1>0, <2>1 DEF NewMail, IncrementalBatchHeld, SteadyPcs
  <1>6. NothingSkipped' /\ UidNextPromise' /\ InitialGapFree'
    BY <1>1 DEF MailInv, NothingSkipped, UidNextPromise, InitialGapFree, Owed
  <1> QED BY <1>2, <1>3, <1>4, <1>5, <1>6, <1>7 DEF MailInv

LEMMA MailSnapshot == TypeOK /\ MailInv /\ SnapshotSearch => MailInv'
  <1> SUFFICES ASSUME TypeOK, MailInv, SnapshotSearch PROVE MailInv' OBVIOUS
  <1>1. /\ pc = "snapshot" /\ pc' = "snapshotWrite" /\ UNCHANGED <<provider, folder, rows, head>>
        /\ pass'.window = InWindow /\ pass'.sel = pass.sel /\ pass'.reached = pass.reached
    BY DEF SnapshotSearch, TypeOK, Passes
  <1>2. SnapshotHeld' BY <1>1 DEF SnapshotHeld, MailInv, Provided, InWindow, provider
  <1>3. WindowHeld' /\ HeadBatch' /\ BackfillBatch'
    BY <1>1 DEF WindowHeld, HeadBatch, BackfillBatch, ResumedPcs
  <1> QED BY <1>1, <1>2, <1>3, InitialStep DEF InitialPcs, ResumedPcs, Kept, rows, Mirrored

LEMMA MailCandidates == TypeOK /\ MailInv /\ Candidates => MailInv'
  <1> SUFFICES ASSUME TypeOK, MailInv, Candidates PROVE MailInv' OBVIOUS
  <1>1. /\ pc = "candidates" /\ pc' = "headSearch" /\ UNCHANGED <<provider, folder, rows, head>>
        /\ pass'.window = InWindow /\ pass'.sel = pass.sel /\ pass'.reached = pass.reached
    BY DEF Candidates, TypeOK, Passes
  <1>2. WindowHeld' BY <1>1 DEF WindowHeld, InWindow, provider
  <1>3. SnapshotHeld' /\ HeadBatch' /\ BackfillBatch' BY <1>1 DEF SnapshotHeld, HeadBatch, BackfillBatch
  <1> QED BY <1>1, <1>2, <1>3, InitialStep DEF InitialPcs, ResumedPcs, Kept, rows, Mirrored

LEMMA MailHeadSearch == TypeOK /\ MailInv /\ HeadSearch => MailInv'
  <1> SUFFICES ASSUME TypeOK, MailInv, HeadSearch PROVE MailInv' OBVIOUS
  <1>1. pc = "headSearch" /\ UNCHANGED <<provider, folder, rows, head>> BY DEF HeadSearch
  <1>2. CASE HeadCandidates = {}
    <2>1. pc' = "backfill" /\ pass' = pass BY <1>2 DEF HeadSearch
    <2>2. SnapshotHeld' /\ WindowHeld' /\ HeadBatch' /\ BackfillBatch'
      BY <1>1, <2>1 DEF SnapshotHeld, WindowHeld, HeadBatch, BackfillBatch, MailInv, ResumedPcs,
                        Current, InWindow, InitialPcs, provider
    <2> QED BY <1>1, <2>1, <2>2, InitialStep DEF InitialPcs, ResumedPcs, Kept, rows, Mirrored
  <1>3. CASE HeadCandidates # {}
    <2>1. PICK b \in SUBSET HeadCandidates :
            OldestFirst(b, HeadCandidates, IncrementalBatch) /\ pass' = [pass EXCEPT !.todo = b]
      BY <1>3 DEF HeadSearch
    <2>2. /\ pc' = "headFetch" /\ pass'.todo = b /\ pass'.window = pass.window
          /\ pass'.sel = pass.sel /\ pass'.reached = pass.reached
      BY <1>3, <2>1 DEF HeadSearch, TypeOK, Passes
    <2>3. SnapshotHeld' /\ WindowHeld' /\ BackfillBatch'
      BY <1>1, <2>2 DEF SnapshotHeld, WindowHeld, BackfillBatch, MailInv, ResumedPcs,
                        Current, InWindow, InitialPcs, provider
    <2>4. HeadBatch'
      <3>1. b # {} /\ \A x \in b, y \in HeadCandidates \ b : x < y BY <2>1 DEF OldestFirst
      <3>2. \A m \in b : m \in pHere /\ Larger(folder.target, folder.last) < m /\ m < pass.sel.next
        BY <2>1 DEF HeadCandidates
      <3>3. \A u \in pHere, m \in b : Larger(folder.target, folder.last) < u /\ u <= m => u \in b
        <4> SUFFICES ASSUME NEW u \in pHere, NEW m \in b, Larger(folder.target, folder.last) < u, u <= m,
                            u \notin b PROVE FALSE OBVIOUS
        <4>4. \A x \in Uids : x \in Nat BY BoundsAssumption DEF Uids
        <4>1. u \in Nat /\ m \in Nat /\ pass.sel.next \in Nat BY <3>2, <4>4, Fields DEF TypeOK
        <4>2. u < pass.sel.next BY <3>2, <4>1
        <4>3. u \in HeadCandidates \ b BY <4>2 DEF HeadCandidates
        <4> QED BY <3>1, <4>1, <4>3
      <3> QED BY <1>1, <2>2, <3>1, <3>2, <3>3 DEF HeadBatch, provider
    <2> QED BY <1>1, <2>2, <2>3, <2>4, InitialStep DEF InitialPcs, ResumedPcs, Kept, rows, Mirrored
  <1> QED BY <1>2, <1>3

LEMMA MailHeadFetch == TypeOK /\ MailInv /\ HeadFetch => MailInv'
  <1> SUFFICES ASSUME TypeOK, MailInv, HeadFetch PROVE MailInv' OBVIOUS
  <1>1. /\ pc = "headFetch" /\ pc' = "headWrite" /\ UNCHANGED <<provider, folder, rows, head>>
        /\ pass'.window = pass.window /\ pass'.sel = pass.sel /\ pass'.reached = pass.reached
        /\ pass'.todo = pass.todo /\ pass'.read.uids = pass.todo
    BY DEF HeadFetch, TypeOK, Passes, Flags
  <1>2. SnapshotHeld' /\ WindowHeld' /\ BackfillBatch'
    BY <1>1 DEF SnapshotHeld, WindowHeld, BackfillBatch, MailInv, ResumedPcs, Current, InWindow,
                InitialPcs, provider
  <1>3. HeadBatch' BY <1>1 DEF HeadBatch, MailInv, provider
  <1> QED BY <1>1, <1>2, <1>3, InitialStep DEF InitialPcs, ResumedPcs, Kept, rows, Mirrored

(* A batch that commits mirrors its UIDs and un-mirrors none.              *)
LEMMA UpsertMirrors ==
  ASSUME Upsert(pass.read)
  PROVE  Mirrored \subseteq Mirrored' /\ Mirrored' = Mirrored \cup pass.read.uids
  BY DEF Upsert, Mirrored

LEMMA GenerationWritten ==
  ASSUME TypeOK, folder' = [folder EXCEPT !.validity = pass.sel.validity]
  PROVE  Kept(folder', folder) /\ folder'.validity = pass.sel.validity
  BY DEF Kept, TypeOK, Folders

LEMMA MailHeadWrite == TypeOK /\ MailInv /\ HeadWrite => MailInv'
  <1> SUFFICES ASSUME TypeOK, MailInv, HeadWrite PROVE MailInv' OBVIOUS
  <1>1. /\ pc = "headWrite" /\ pc' = "headAdvance" /\ UNCHANGED <<provider, pass, head>>
        /\ Mirrored' = Mirrored \cup pass.read.uids
        /\ Kept(folder', folder) /\ folder'.validity = pass.sel.validity
    BY UpsertMirrors, GenerationWritten DEF HeadWrite
  <1>2. SnapshotHeld' /\ BackfillBatch' BY <1>1 DEF SnapshotHeld, BackfillBatch
  <1>3. WindowHeld'
    <2>1. Current' => Current
      BY <1>1 DEF Current, MailInv, Selected, Resting, provider
    <2> QED BY <1>1, <2>1 DEF WindowHeld, MailInv, ResumedPcs, InitialPcs, InWindow, provider, Kept
  <1>4. HeadBatch' BY <1>1 DEF HeadBatch, MailInv, provider, Kept
  <1> QED BY <1>1, <1>2, <1>3, <1>4, InitialStep DEF InitialPcs, ResumedPcs

LEMMA MailBackfill == TypeOK /\ MailInv /\ Backfill => MailInv'
  <1> SUFFICES ASSUME TypeOK, MailInv, Backfill PROVE MailInv' OBVIOUS
  <1>1. pc = "backfill" /\ UNCHANGED <<provider, folder, rows, head>> BY DEF Backfill
  <1>2. CASE Below = {}
    <2>1. pc' = "initialDone" /\ pass' = pass BY <1>2 DEF Backfill
    <2>2. SnapshotHeld' /\ WindowHeld' /\ HeadBatch' /\ BackfillBatch'
      BY <1>1, <1>2, <2>1 DEF SnapshotHeld, WindowHeld, HeadBatch, BackfillBatch, MailInv, ResumedPcs,
                        Current, InWindow, InitialPcs, provider, Below
    <2> QED BY <1>1, <2>1, <2>2, InitialStep DEF InitialPcs, ResumedPcs, Kept, rows, Mirrored
  <1>3. CASE Below # {}
    <2>1. PICK b \in SUBSET Below :
            NewestFirst(b, Below, InitialBatch) /\ pass' = [pass EXCEPT !.todo = b]
      BY <1>3 DEF Backfill
    <2>2. /\ pc' = "backfillFetch" /\ pass'.todo = b /\ pass'.window = pass.window
          /\ pass'.sel = pass.sel /\ pass'.reached = pass.reached
      BY <1>3, <2>1 DEF Backfill, TypeOK, Passes
    <2>3. SnapshotHeld' /\ WindowHeld' /\ HeadBatch'
      BY <1>1, <2>2 DEF SnapshotHeld, WindowHeld, HeadBatch, MailInv, ResumedPcs,
                        Current, InWindow, InitialPcs, provider
    <2>4. Below' = Below BY <1>1, <2>2 DEF Below
    <2>5. BackfillBatch' BY <2>1, <2>2, <2>4 DEF BackfillBatch, NewestFirst
    <2> QED BY <1>1, <2>2, <2>3, <2>5, InitialStep DEF InitialPcs, ResumedPcs, Kept, rows, Mirrored
  <1> QED BY <1>2, <1>3

LEMMA MailBackfillFetch == TypeOK /\ MailInv /\ BackfillFetch => MailInv'
  <1> SUFFICES ASSUME TypeOK, MailInv, BackfillFetch PROVE MailInv' OBVIOUS
  <1>1. /\ pc = "backfillFetch" /\ pc' = "backfillWrite" /\ UNCHANGED <<provider, folder, rows, head>>
        /\ pass'.window = pass.window /\ pass'.sel = pass.sel /\ pass'.reached = pass.reached
        /\ pass'.todo = pass.todo /\ pass'.read.uids = pass.todo
    BY DEF BackfillFetch, TypeOK, Passes, Flags
  <1>2. SnapshotHeld' /\ WindowHeld' /\ HeadBatch'
    BY <1>1 DEF SnapshotHeld, WindowHeld, HeadBatch, MailInv, ResumedPcs, Current, InWindow,
                InitialPcs, provider
  <1>3. BackfillBatch' BY <1>1 DEF BackfillBatch, MailInv, Below
  <1> QED BY <1>1, <1>2, <1>3, InitialStep DEF InitialPcs, ResumedPcs, Kept, rows, Mirrored

LEMMA MailBackfillWrite == TypeOK /\ MailInv /\ BackfillWrite => MailInv'
  <1> SUFFICES ASSUME TypeOK, MailInv, BackfillWrite PROVE MailInv' OBVIOUS
  <1>1. /\ pc = "backfillWrite" /\ pc' = "backfillAdvance" /\ UNCHANGED <<provider, pass, head>>
        /\ Mirrored' = Mirrored \cup pass.read.uids
        /\ Kept(folder', folder) /\ folder'.validity = pass.sel.validity
    BY UpsertMirrors, GenerationWritten DEF BackfillWrite
  <1>2. SnapshotHeld' /\ HeadBatch' BY <1>1 DEF SnapshotHeld, HeadBatch
  <1>3. WindowHeld'
    <2>1. Current' => Current
      BY <1>1 DEF Current, MailInv, Selected, Resting, provider
    <2> QED BY <1>1, <2>1 DEF WindowHeld, MailInv, ResumedPcs, InitialPcs, InWindow, provider, Kept
  <1>4. BackfillBatch' BY <1>1 DEF BackfillBatch, MailInv, Below, Kept
  <1> QED BY <1>1, <1>2, <1>3, <1>4, InitialStep DEF InitialPcs, ResumedPcs

(* The writes of the initial sync's cursors.                               *)
LEMMA MailSetSnapshot == TypeOK /\ MailInv /\ setInitialSyncSnapshot => MailInv'
  <1> SUFFICES ASSUME TypeOK, MailInv, setInitialSyncSnapshot PROVE MailInv' OBVIOUS
  <1>1. PICK target \in {0} \cup Uids :
          /\ IF pass.window = {} THEN target = 0 ELSE IsMax(target, pass.window)
          /\ folder' = [folder EXCEPT !.target = target, !.oldest = Watermark(target),
                                      !.last = Larger(folder.last, pass.sel.next - 1)]
          /\ head' = [validity |-> pass.sel.validity, next |-> pass.sel.next,
                      top |-> Larger(target, pass.sel.next - 1)]
    BY DEF setInitialSyncSnapshot
  <1>2. /\ pc = "snapshotWrite" /\ UNCHANGED <<provider, rows, pass>>
        /\ pc' = IF pass.window = {} THEN "initialDone" ELSE "candidates"
    BY DEF setInitialSyncSnapshot
  <1>3. /\ pass.sel.validity = pValidity /\ pass.sel.next <= pNext
        /\ folder.target = None /\ folder.last = 0 /\ ~folder.complete /\ pass.reached = 0
        /\ folder.validity \in {None, pValidity}
    BY <1>2 DEF MailInv, Selected, Stages, Resting, IncrementalBatchHeld, InitialPcs
  <1>4. /\ pNext \in Nat /\ pNext >= 1 /\ pass.sel.next \in Nat /\ pValidity \in Nat
        /\ pHere \in SUBSET Uids /\ pass.window \in SUBSET Uids /\ target \in Nat
        /\ Watermark(target) \in Nat
    BY <1>1, Fields, UidsAreNat DEF TypeOK, Watermark
  <1>5. target < pNext
    <2>1. CASE pass.window = {} BY <1>1, <1>4, <2>1
    <2>2. CASE pass.window # {} BY <1>1, <1>2, <2>2 DEF MailInv, SnapshotHeld, IsMax
    <2> QED BY <2>1, <2>2
  <1>6. /\ folder'.target = target /\ folder'.oldest = Watermark(target)
        /\ folder'.last = Larger(0, pass.sel.next - 1)
        /\ ~folder'.complete /\ folder'.validity = folder.validity
        /\ head'.validity = pValidity /\ head'.top = Larger(target, pass.sel.next - 1)
    BY <1>1, <1>3 DEF TypeOK, Folders
  <1>7. Provided' /\ Selected'
    BY <1>2, <1>3, <1>4, <1>6 DEF MailInv, Provided, Selected, provider, Resting
  <1>8. Stages'
    BY <1>2, <1>4, <1>6 DEF Stages, AllPcs, Resting, InitialPcs, ResumedPcs, SteadyPcs, None
  <1>9. Recorded' BY <1>2, <1>4, <1>3, <1>5, <1>6 DEF Recorded, Larger, provider
  <1>10. SnapshotHeld' /\ WindowHeld' /\ HeadBatch'
    <2>1. SnapshotHeld' /\ HeadBatch' BY <1>2 DEF SnapshotHeld, HeadBatch
    <2>2. CASE pass.window # {} BY <1>2, <2>1, <2>2 DEF WindowHeld
    <2>3. CASE pass.window = {}
      <3>1. target = 0 BY <1>1, <2>3
      <3>2. \A u \in InWindow' : ~(u <= folder'.target)
        BY <1>2, <1>4, <1>6, <3>1, UidsAreNat DEF InWindow, provider
      <3> QED BY <2>1, <3>2 DEF WindowHeld
    <2> QED BY <2>2, <2>3
  <1>11. BackfillBatch' BY <1>2 DEF BackfillBatch, Below
  <1>12. NewMail' /\ IncrementalBatchHeld'
    BY <1>2, <1>3 DEF NewMail, IncrementalBatchHeld, SteadyPcs
  <1>13. NothingSkipped' /\ UidNextPromise' BY <1>6 DEF NothingSkipped, UidNextPromise
  <1>14. InitialGapFree'
    <2> SUFFICES ASSUME NEW u \in Owed', ~(u > Larger(folder'.target, folder'.last))
                 PROVE  u < folder'.oldest /\ u <= folder'.target
      BY DEF InitialGapFree, Larger
    <2>0. u \in pHere /\ u \in Nat /\ u >= 1 /\ (u \notin pOld \/ u > head'.top)
      BY <1>2, <1>4, UidsAreNat DEF Owed, provider
    <2>1. u <= Larger(target, pass.sel.next - 1) BY <1>4, <1>6, <2>0 DEF Larger
    <2>2. u \in InWindow BY <1>4, <1>6, <2>0, <2>1 DEF InWindow, Larger
    <2>3. u \in pass.window
      <3>1. u \in pass.window \/ (u >= pass.sel.next /\ \A v \in pass.window : v < u)
        BY <1>2, <2>2 DEF MailInv, SnapshotHeld
      <3>2. CASE u >= pass.sel.next /\ \A v \in pass.window : v < u
        <4>1. target < u BY <1>1, <2>0, <3>2 DEF IsMax
        <4> QED BY <1>4, <2>0, <2>1, <3>2, <4>1 DEF Larger
      <3> QED BY <3>1, <3>2
    <2>4. u <= target /\ Watermark(target) = target + 1 BY <1>1, <2>3 DEF IsMax, Watermark
    <2> QED BY <1>4, <1>6, <2>0, <2>4
  <1> QED BY <1>7, <1>8, <1>9, <1>10, <1>11, <1>12, <1>13, <1>14 DEF MailInv

LEMMA MailLiveHead == TypeOK /\ MailInv /\ advanceInitialSyncLiveHead => MailInv'
  <1> SUFFICES ASSUME TypeOK, MailInv, advanceInitialSyncLiveHead PROVE MailInv' OBVIOUS
  <1>1. PICK m \in pass.todo :
          IsMax(m, pass.todo) /\ folder' = [folder EXCEPT !.last = Larger(folder.last, m)]
    BY DEF advanceInitialSyncLiveHead
  <1>2. /\ pc = "headAdvance" /\ pc' = "backfill" /\ UNCHANGED <<provider, rows, head>>
        /\ pass'.sel = pass.sel /\ pass'.reached = pass.reached /\ pass'.window = pass.window
        /\ pass' = [pass EXCEPT !.todo = {}, !.read = NoRead]
    BY DEF advanceInitialSyncLiveHead, TypeOK, Passes
  <1>3. /\ pass.sel.validity = pValidity /\ pass.sel.next <= pNext
        /\ folder.target # None /\ ~folder.complete /\ pass.reached = 0
        /\ folder.validity \in {None, pValidity}
    BY <1>2 DEF MailInv, Selected, Stages, Resting, IncrementalBatchHeld, InitialPcs, ResumedPcs
  <1>4. /\ pNext \in Nat /\ pass.sel.next \in Nat /\ pHere \in SUBSET Uids
        /\ folder.last \in Nat /\ folder.target \in Nat /\ m \in Nat /\ m \in Uids
    BY <1>3, Fields, UidsAreNat DEF TypeOK
  <1>5. /\ folder'.target = folder.target /\ folder'.oldest = folder.oldest
        /\ folder'.last = Larger(folder.last, m)
        /\ ~folder'.complete /\ folder'.validity = folder.validity
    BY <1>1, <1>3 DEF TypeOK, Folders
  <1>6. m < pNext /\ Larger(folder.target, folder.last) < m
    BY <1>2, <1>3, <1>4 DEF MailInv, HeadBatch
  <1>16. Current' <=> Current BY <1>2, <1>5 DEF Current, provider
  <1>7. Provided' /\ Selected'
    BY <1>2, <1>5 DEF MailInv, Provided, Selected, provider, Resting
  <1>8. Stages'
    BY <1>2, <1>3, <1>5 DEF MailInv, Stages, AllPcs, Resting, InitialPcs, ResumedPcs, SteadyPcs
  <1>9. Recorded' BY <1>2, <1>4, <1>5, <1>6, <1>16 DEF MailInv, Recorded, Larger, provider
  <1>10. WindowHeld'
    BY <1>2, <1>5, <1>16 DEF MailInv, WindowHeld, InWindow, provider, ResumedPcs, InitialPcs
  <1>11. SnapshotHeld' /\ HeadBatch' /\ BackfillBatch' BY <1>2 DEF SnapshotHeld, HeadBatch, BackfillBatch
  <1>12. NewMail' /\ IncrementalBatchHeld'
    BY <1>2, <1>3 DEF NewMail, IncrementalBatchHeld, SteadyPcs
  <1>13. NothingSkipped' /\ UidNextPromise' BY <1>5 DEF NothingSkipped, UidNextPromise
  <1>14. InitialGapFree'
    <2>4. Owed' = Owed /\ Mirrored' = Mirrored BY <1>2 DEF Owed, Mirrored, provider, rows
    <2> SUFFICES ASSUME Current, NEW u \in Owed, ~(u > Larger(folder'.target, folder'.last)),
                        ~(u < folder.oldest /\ u <= folder.target)
                 PROVE  u \in Mirrored
      BY <1>5, <1>16, <2>4 DEF InitialGapFree, Larger
    <2>1. u \in pHere /\ u \in Nat /\ u <= m
      BY <1>4, <1>5, <1>6, UidsAreNat DEF Owed, Larger
    <2>2. CASE u <= Larger(folder.target, folder.last)
      <3>1. ~(u > Larger(folder.target, folder.last)) BY <1>4, <2>1, <2>2 DEF Larger
      <3> QED BY <1>3, <3>1 DEF MailInv, InitialGapFree
    <2>3. CASE Larger(folder.target, folder.last) < u
      BY <1>1, <1>2, <2>1, <2>3 DEF MailInv, HeadBatch
    <2> QED BY <1>4, <2>1, <2>2, <2>3 DEF Larger
  <1> QED BY <1>7, <1>8, <1>9, <1>10, <1>11, <1>12, <1>13, <1>14 DEF MailInv

LEMMA MailWatermark == TypeOK /\ MailInv /\ advanceInitialSyncWatermark => MailInv'
  <1> SUFFICES ASSUME TypeOK, MailInv, advanceInitialSyncWatermark PROVE MailInv' OBVIOUS
  <1>1. PICK m \in pass.todo :
          /\ \A u \in pass.todo : m <= u
          /\ folder' = [folder EXCEPT !.oldest = m]
          /\ IF \E u \in pass.window : u <= folder.target /\ u < m
             THEN EndPass
             ELSE pc' = "initialDone" /\ pass' = [pass EXCEPT !.todo = {}, !.read = NoRead]
    BY DEF advanceInitialSyncWatermark
  <1>2. pc = "backfillAdvance" /\ UNCHANGED <<provider, rows, head>>
    BY DEF advanceInitialSyncWatermark
  <1>3. /\ pass.sel.validity = pValidity /\ pass.sel.next <= pNext
        /\ folder.target # None /\ folder.oldest # None /\ ~folder.complete /\ pass.reached = 0
        /\ folder.validity \in {None, pValidity}
    BY <1>2 DEF MailInv, Selected, Stages, Resting, IncrementalBatchHeld, InitialPcs, ResumedPcs
  <1>4. /\ pNext \in Nat /\ pass.sel.next \in Nat /\ pHere \in SUBSET Uids
        /\ folder.last \in Nat /\ folder.target \in Nat /\ folder.oldest \in Nat
        /\ m \in Nat /\ m \in Uids /\ pass.window \in SUBSET Uids /\ pass.todo \in SUBSET Uids
    BY <1>3, Fields, UidsAreNat DEF TypeOK
  <1>5. /\ folder'.target = folder.target /\ folder'.oldest = m /\ folder'.last = folder.last
        /\ ~folder'.complete /\ folder'.validity = folder.validity
    BY <1>1, <1>3 DEF TypeOK, Folders
  <1>6. /\ pass.todo \subseteq Below /\ pass.todo \subseteq Mirrored
        /\ \A x \in pass.todo, y \in Below \ pass.todo : x > y
    BY <1>2 DEF MailInv, BackfillBatch
  <1>7. m \in Below /\ m <= folder.target /\ m < folder.oldest 
    <2>1. m \in Below BY <1>6
    <2> QED BY <2>1 DEF Below
  <1>16. Current' <=> Current BY <1>2, <1>5 DEF Current, provider
  <1>17. \/ pc' = "idle" /\ pass' = NewPass(pass'.opt) /\ pass'.reached = 0
         \/ /\ pc' = "initialDone" /\ pass'.sel = pass.sel /\ pass'.reached = pass.reached
            /\ pass'.window = pass.window
            /\ \A u \in pass.window : ~(u <= folder.target /\ u < m)
    <2>1. CASE EndPass BY <2>1 DEF EndPass, NoPass, NewPass
    <2>2. CASE ~EndPass BY <1>1, <2>2 DEF TypeOK, Passes
    <2> QED BY <2>1, <2>2
  <1>8. Provided' /\ Selected'
    BY <1>2, <1>5, <1>17 DEF MailInv, Provided, Selected, provider, Resting
  <1>9. Stages'
    BY <1>2, <1>3, <1>4, <1>5, <1>17
    DEF MailInv, Stages, AllPcs, Resting, InitialPcs, ResumedPcs, SteadyPcs, None
  <1>10. Recorded' BY <1>2, <1>4, <1>5, <1>16 DEF MailInv, Recorded, provider
  <1>11. SnapshotHeld' /\ HeadBatch' BY <1>17 DEF SnapshotHeld, HeadBatch
  <1>12. WindowHeld'
    BY <1>2, <1>5, <1>16, <1>17 DEF MailInv, WindowHeld, InWindow, provider, ResumedPcs, InitialPcs
  <1>13. BackfillBatch' BY <1>5, <1>17 DEF BackfillBatch, Below
  <1>14. NewMail' /\ IncrementalBatchHeld'
    BY <1>3, <1>17 DEF NewMail, IncrementalBatchHeld, SteadyPcs
  <1>15. NothingSkipped' /\ UidNextPromise' BY <1>5 DEF NothingSkipped, UidNextPromise
  <1>18. InitialGapFree'
    <2>4. Owed' = Owed /\ Mirrored' = Mirrored BY <1>2 DEF Owed, Mirrored, provider, rows
    <2> SUFFICES ASSUME Current, NEW u \in Owed, ~(u > Larger(folder.target, folder.last)),
                        ~(u < m /\ u <= folder.target)
                 PROVE  u \in Mirrored
      BY <1>5, <1>16, <2>4 DEF InitialGapFree, Larger
    <2>1. u \in pHere /\ u \in Nat BY <1>4, UidsAreNat DEF Owed
    <2>2. CASE ~(u < folder.oldest /\ u <= folder.target)
      BY <1>3, <2>2 DEF MailInv, InitialGapFree
    <2>3. CASE u < folder.oldest /\ u <= folder.target
      <3>1. u >= m BY <1>4, <2>1, <2>3
      <3>2. u \in pass.window
        <4>1. u \in InWindow
          <5>1. folder.target <= head.top BY DEF MailInv, Recorded
          <5>2. head.top \in Nat BY DEF TypeOK
          <5> QED BY <1>4, <2>1, <2>3, <5>1, <5>2 DEF Owed, InWindow
        <4> QED BY <1>2, <2>3, <4>1 DEF MailInv, WindowHeld, ResumedPcs, InitialPcs
      <3>3. u \in Below BY <2>3, <3>2 DEF Below
      <3>4. u \in pass.todo BY <1>4, <1>6, <2>1, <3>1, <3>3
      <3> QED BY <1>6, <3>4
    <2> QED BY <2>2, <2>3
  <1> QED BY <1>8, <1>9, <1>10, <1>11, <1>12, <1>13, <1>14, <1>15, <1>18 DEF MailInv

(* No owed message at or below the snapshot's top and the live head is     *)
(* without a row once nothing of the snapshot is left.                     *)
LEMMA InitialComplete ==
  ASSUME TypeOK, MailInv, pc = "initialDone", Current, NEW u \in Owed,
         u <= Larger(folder.target, folder.last)
  PROVE  u \in Mirrored
  <1>1. folder.target # None /\ ~folder.complete
    BY DEF MailInv, Stages, InitialPcs, ResumedPcs
  <1>2. /\ u \in pHere /\ u \in Nat /\ folder.last \in Nat /\ folder.target \in Nat
        /\ head.top \in Nat
    BY <1>1, Fields, UidsAreNat DEF Owed, TypeOK
  <1>3. CASE u < folder.oldest /\ u <= folder.target
    <2>1. folder.target <= head.top BY DEF MailInv, Recorded
    <2>2. u \in InWindow BY <1>2, <1>3, <2>1 DEF Owed, InWindow
    <2>3. u \in pass.window BY <1>3, <2>2 DEF MailInv, WindowHeld, ResumedPcs, InitialPcs
    <2>4. u \in Below BY <1>3, <2>3 DEF Below
    <2> QED BY <2>4 DEF MailInv, BackfillBatch
  <1>4. CASE ~(u < folder.oldest /\ u <= folder.target)
    <2>1. ~(u > Larger(folder.target, folder.last)) BY <1>2 DEF Larger
    <2> QED BY <1>1, <1>4, <2>1 DEF MailInv, InitialGapFree
  <1> QED BY <1>3, <1>4

LEMMA MailInitialDone == TypeOK /\ MailInv /\ InitialDone => MailInv'
  <1> SUFFICES ASSUME TypeOK, MailInv, InitialDone PROVE MailInv' OBVIOUS
  <1> DEFINE last == Larger(folder.target, folder.last)
             next == reachedUidNext(pass.sel.next, last)
  <1>1. /\ pc = "initialDone" /\ UNCHANGED <<provider, rows, head>>
        /\ folder' = [folder EXCEPT !.validity = pass.sel.validity, !.complete = TRUE,
                                    !.last = last, !.next = next]
        /\ EndPass
    BY DEF InitialDone
  <1>2. pc' = "idle" /\ pass' = NewPass(pass'.opt) /\ pass'.reached = 0
    BY <1>1 DEF EndPass, NoPass, NewPass
  <1>3. /\ pass.sel.validity = pValidity /\ pass.sel.next <= pNext
        /\ folder.target # None /\ folder.oldest # None
        /\ folder.validity \in {None, pValidity}
    BY <1>1 DEF MailInv, Selected, Stages, Resting, InitialPcs, ResumedPcs
  <1>4. /\ pNext \in Nat /\ pValidity \in Nat /\ pass.sel.next \in Nat /\ pHere \in SUBSET Uids
        /\ folder.last \in Nat /\ folder.target \in Nat /\ last \in Nat /\ next \in Nat
    BY <1>3, Fields, UidsAreNat DEF TypeOK, Larger, reachedUidNext
  <1>5. /\ folder'.target = folder.target /\ folder'.oldest = folder.oldest
        /\ folder'.last = last /\ folder'.complete /\ folder'.validity = pValidity
        /\ folder'.next = next
    BY <1>1, <1>3 DEF TypeOK, Folders
  <1>6. Current' => Current BY <1>1, <1>3 DEF Current, provider
  <1>7. Current => last < pNext /\ folder.target < pNext /\ folder.target <= head.top
    BY <1>4 DEF MailInv, Recorded, Larger
  <1>8. last < pNext => next <= pNext
    BY <1>3, <1>4 DEF reachedUidNext
  <1>18. next <= last + 1 BY <1>4 DEF reachedUidNext
  <1>9. Provided' /\ Selected'
    BY <1>1, <1>2, <1>4, <1>5 DEF MailInv, Provided, Selected, provider, Resting
  <1>10. Stages'
    BY <1>2, <1>3, <1>4, <1>5 DEF Stages, AllPcs, Resting, InitialPcs, SteadyPcs, ResumedPcs, None
  <1>11. Recorded' BY <1>1, <1>4, <1>5, <1>6, <1>7, <1>8 DEF Recorded, provider
  <1>12. SnapshotHeld' /\ WindowHeld' /\ HeadBatch' /\ BackfillBatch' /\ NewMail'
    BY <1>2 DEF SnapshotHeld, WindowHeld, HeadBatch, BackfillBatch, NewMail, ResumedPcs,
                InitialPcs, SteadyPcs
  <1>13. IncrementalBatchHeld' BY <1>2 DEF IncrementalBatchHeld
  <1>14. Owed' = Owed /\ Mirrored' = Mirrored BY <1>1 DEF Owed, Mirrored, provider, rows
  <1>15. NothingSkipped'
    BY <1>1, <1>5, <1>6, <1>14, InitialComplete DEF NothingSkipped
  <1>16. UidNextPromise'
    <2> SUFFICES ASSUME Current, NEW u \in Owed, u < next PROVE u \in Mirrored
      BY <1>5, <1>6, <1>14 DEF UidNextPromise
    <2>1. u \in Nat BY <1>4, UidsAreNat DEF Owed
    <2>2. u <= last BY <1>4, <1>18, <2>1
    <2> QED BY <1>1, <2>2, InitialComplete
  <1>17. InitialGapFree' BY <1>5 DEF InitialGapFree
  <1> QED BY <1>9, <1>10, <1>11, <1>12, <1>13, <1>15, <1>16, <1>17 DEF MailInv

-------------------------------------------------------------------------------
(* The start of a pass and its end.                                        *)
LEMMA MailStart == TypeOK /\ MailInv /\ StartPass => MailInv'
  <1> SUFFICES ASSUME TypeOK, MailInv, StartPass PROVE MailInv' OBVIOUS
  <1>1. pc' = "select" /\ UNCHANGED <<provider, folder, rows, head>> BY DEF StartPass
  <1>2. pass' = NewPass(pass'.opt) /\ pass'.reached = 0 BY DEF StartPass, NewPass
  <1>3. Provided' /\ Selected' /\ Stages'
    BY <1>1, <1>2 DEF MailInv, Provided, Selected, Stages, Resting, AllPcs, InitialPcs, SteadyPcs,
                      ResumedPcs, provider
  <1>4. Recorded' BY <1>1 DEF MailInv, Recorded, Current, provider
  <1>5. SnapshotHeld' /\ WindowHeld' /\ HeadBatch' /\ BackfillBatch' /\ NewMail' /\ IncrementalBatchHeld'
    BY <1>1, <1>2 DEF SnapshotHeld, WindowHeld, HeadBatch, BackfillBatch, NewMail,
                      IncrementalBatchHeld, ResumedPcs, InitialPcs, SteadyPcs
  <1>6. NothingSkipped' /\ UidNextPromise' /\ InitialGapFree'
    BY <1>1 DEF MailInv, NothingSkipped, UidNextPromise, InitialGapFree, Current, Owed, Mirrored,
                provider, rows
  <1> QED BY <1>3, <1>4, <1>5, <1>6 DEF MailInv

LEMMA MailSelect == TypeOK /\ MailInv /\ Select => MailInv'
  <1> SUFFICES ASSUME TypeOK, MailInv, Select PROVE MailInv' OBVIOUS
  <1>1. /\ pc = "select" /\ UNCHANGED <<provider, folder, rows, head>>
        /\ pc' = IF folder.validity \notin {None, pValidity} THEN "reset"
                 ELSE IF folder.complete THEN "search"
                 ELSE IF folder.target = None THEN "snapshot" ELSE "candidates"
    BY DEF Select
  <1>2. /\ pass'.sel.validity = pValidity /\ pass'.sel.next = pNext /\ pass'.sel.highest = pHighest
        /\ pass'.reached = pass.reached
    BY DEF Select, TypeOK, Passes
  <1>3. pass.reached = 0 BY <1>1 DEF MailInv, IncrementalBatchHeld, Resting
  <1>4. pNext \in Nat /\ pHighest \in Nat BY DEF TypeOK
  <1>5. Provided' BY <1>1 DEF MailInv, Provided, provider
  <1>6. Selected'
    <2>1. \A u \in Uids : ~(pNext <= u /\ u < pNext) BY <1>4, UidsAreNat
    <2> QED BY <1>1, <1>2, <1>4, <2>1 DEF Selected, provider
  <1>7. Stages'
    BY <1>1 DEF MailInv, Stages, Resting, AllPcs, InitialPcs, SteadyPcs, ResumedPcs
  <1>8. Recorded' BY <1>1 DEF MailInv, Recorded, Current, provider
  <1>9. SnapshotHeld' /\ WindowHeld' /\ HeadBatch' /\ BackfillBatch' /\ NewMail' /\ IncrementalBatchHeld'
    BY <1>1, <1>2, <1>3 DEF SnapshotHeld, WindowHeld, HeadBatch, BackfillBatch, NewMail,
                      IncrementalBatchHeld, ResumedPcs, InitialPcs, SteadyPcs
  <1>10. NothingSkipped' /\ UidNextPromise' /\ InitialGapFree'
    BY <1>1 DEF MailInv, NothingSkipped, UidNextPromise, InitialGapFree, Current, Owed, Mirrored,
                provider, rows
  <1> QED BY <1>5, <1>6, <1>7, <1>8, <1>9, <1>10 DEF MailInv

LEMMA MailReset == TypeOK /\ MailInv /\ handleUidValidityReset => MailInv'
  <1> SUFFICES ASSUME TypeOK, MailInv, handleUidValidityReset PROVE MailInv' OBVIOUS
  <1>1. /\ pc = "reset" /\ UNCHANGED provider /\ head' = NoHead /\ EndPass
        /\ folder' = [Forgotten EXCEPT !.validity = pass.sel.validity]
    BY DEF handleUidValidityReset
  <1>2. pc' = "idle" /\ pass' = NewPass(pass'.opt) /\ pass'.reached = 0
    BY <1>1 DEF EndPass, NoPass, NewPass
  <1>3. pass.sel.validity = pValidity BY <1>1 DEF MailInv, Selected, Resting
  <1>4. /\ folder'.validity = pValidity /\ folder'.last = 0 /\ ~folder'.complete
        /\ folder'.target = None
    BY <1>1, <1>3 DEF Forgotten, TypeOK, Folders
  <1>5. pNext \in Nat \ {0} /\ pValidity \in Nat BY DEF TypeOK
  <1>6. Provided' /\ Selected'
    BY <1>1, <1>2, <1>4, <1>5 DEF MailInv, Provided, Selected, Resting, NoHead, provider
  <1>7. Stages' BY <1>2, <1>4 DEF Stages, Resting, AllPcs, InitialPcs, SteadyPcs, ResumedPcs
  <1>8. Recorded' BY <1>1, <1>4, <1>5 DEF Recorded, NoHead, None, provider
  <1>9. SnapshotHeld' /\ WindowHeld' /\ HeadBatch' /\ BackfillBatch' /\ NewMail' /\ IncrementalBatchHeld'
    BY <1>2 DEF SnapshotHeld, WindowHeld, HeadBatch, BackfillBatch, NewMail,
                      IncrementalBatchHeld, ResumedPcs, InitialPcs, SteadyPcs
  <1>10. NothingSkipped' /\ UidNextPromise' /\ InitialGapFree'
    BY <1>4 DEF NothingSkipped, UidNextPromise, InitialGapFree
  <1> QED BY <1>6, <1>7, <1>8, <1>9, <1>10 DEF MailInv

LEMMA MailAudit == TypeOK /\ MailInv /\ AuditFallsDue => MailInv'
  <1> SUFFICES ASSUME TypeOK, MailInv, AuditFallsDue PROVE MailInv' OBVIOUS
  <1>1. /\ UNCHANGED <<provider, rows, pc, pass, head>>
        /\ Kept(folder', folder) /\ folder'.validity = folder.validity
    BY DEF AuditFallsDue, TypeOK, Folders, Kept
  <1>2. (Current' <=> Current) /\ Owed' = Owed /\ Mirrored' = Mirrored
    BY <1>1 DEF Current, Owed, Mirrored, provider, rows
  <1>3. Provided' /\ Selected' /\ Stages' /\ Recorded'
    BY <1>1, <1>2 DEF MailInv, Provided, Selected, Stages, Recorded, Kept, provider
  <1>4. SnapshotHeld' /\ WindowHeld' /\ HeadBatch'
    BY <1>1, <1>2 DEF MailInv, SnapshotHeld, WindowHeld, HeadBatch, InWindow, Kept, provider
  <1>5. BackfillBatch' /\ NewMail' /\ IncrementalBatchHeld'
    BY <1>1, <1>2 DEF MailInv, BackfillBatch, Below, NewMail, IncrementalBatchHeld, Kept, provider
  <1>6. NothingSkipped' /\ UidNextPromise' /\ InitialGapFree'
    BY <1>1, <1>2 DEF MailInv, NothingSkipped, UidNextPromise, InitialGapFree, Kept
  <1> QED BY <1>3, <1>4, <1>5, <1>6 DEF MailInv

LEMMA MailGone == ASSUME TypeOK, MailInv, NEW u \in live, markMessageGone(u) PROVE MailInv'
  <1>1. /\ UNCHANGED <<provider, folder, seen, pc, pass, head>> /\ Mirrored' = Mirrored
    BY DEF markMessageGone, Mirrored
  <1>2. pHere' \subseteq pHere /\ InWindow' \subseteq InWindow /\ Owed' \subseteq Owed
    BY <1>1 DEF provider, InWindow, Owed
  <1>3. Provided' /\ Selected' BY <1>1 DEF MailInv, Provided, Selected, provider
  <1> QED BY <1>1, <1>2, <1>3, ShrinkStep DEF provider

(* New mail.                                                               *)
LEMMA MailSearch == TypeOK /\ MailInv /\ Search => MailInv'
  <1> SUFFICES ASSUME TypeOK, MailInv, Search PROVE MailInv' OBVIOUS
  <1>1. /\ pc = "search" /\ UNCHANGED <<provider, folder, rows, head>>
        /\ pass' = [pass EXCEPT !.todo = Incoming]
        /\ pc' \in {"incremental", "replay", "flags"} /\ (pc' = "incremental" => Incoming # {})
    BY DEF Search, AfterNewMail
  <1>2. pass'.todo = Incoming /\ pass'.sel = pass.sel /\ pass'.reached = pass.reached
    BY <1>1 DEF TypeOK, Passes
  <1>3. pass.reached = 0 /\ folder.complete
    BY <1>1 DEF MailInv, IncrementalBatchHeld, Stages, SteadyPcs
  <1>4. /\ folder.last \in Nat /\ pass.sel.next \in Nat /\ pHere \in SUBSET Uids
        /\ \A u \in pHere : u < pNext
    BY Fields DEF TypeOK, MailInv, Provided
  <1>5. Provided' /\ Selected'
    BY <1>1, <1>2 DEF MailInv, Provided, Selected, provider, Resting
  <1>6. Stages' BY <1>1 DEF MailInv, Stages, Resting, AllPcs, InitialPcs, SteadyPcs, ResumedPcs
  <1>7. Recorded' BY <1>1 DEF MailInv, Recorded, Current, provider
  <1>8. SnapshotHeld' /\ WindowHeld' /\ HeadBatch' /\ BackfillBatch' /\ IncrementalBatchHeld'
    BY <1>1, <1>2, <1>3 DEF SnapshotHeld, WindowHeld, HeadBatch, BackfillBatch,
                      IncrementalBatchHeld, ResumedPcs, InitialPcs, Resting
  <1>9. NewMail'
    <2>1. \A u \in pHere : folder.last < u /\ u < pass.sel.next => u \in Incoming
      BY <1>4, UidsAreNat DEF Incoming, Larger
    <2>2. \A u \in Incoming : folder.last < u /\ (u < pass.sel.next \/ u = folder.last + 1)
      BY <1>4, UidsAreNat DEF Incoming, Larger
    <2>3. \A u \in Incoming : u \in pHere /\ 0 < u /\ u < pNext BY <1>4, UidsAreNat DEF Incoming
    <2>4. \A u \in pHere : ~(folder.last < u /\ u <= 0) BY <1>4, UidsAreNat
    <2> QED BY <1>1, <1>2, <1>3, <2>1, <2>2, <2>3, <2>4 DEF NewMail, provider
  <1>10. NothingSkipped' /\ UidNextPromise' /\ InitialGapFree'
    BY <1>1 DEF MailInv, NothingSkipped, UidNextPromise, InitialGapFree, Current, Owed, Mirrored,
                provider, rows
  <1> QED BY <1>5, <1>6, <1>7, <1>8, <1>9, <1>10 DEF MailInv

LEMMA MailIncremental == TypeOK /\ MailInv /\ Incremental => MailInv'
  <1> SUFFICES ASSUME TypeOK, MailInv, Incremental PROVE MailInv' OBVIOUS
  <1>1. PICK b \in SUBSET pass.todo :
          OldestFirst(b, pass.todo, IncrementalBatch) /\ pass' = [pass EXCEPT !.read = Flags(b)]
    BY DEF Incremental
  <1>2. /\ pc = "incremental" /\ pc' = "incrementalWrite"
        /\ UNCHANGED <<provider, folder, rows, head>>
    BY DEF Incremental
  <1>3. /\ pass'.todo = pass.todo /\ pass'.sel = pass.sel /\ pass'.reached = pass.reached
        /\ pass'.read.uids = b
    BY <1>1 DEF TypeOK, Passes, Flags
  <1>4. b # {} /\ \A x \in b, y \in pass.todo \ b : x < y BY <1>1 DEF OldestFirst
  <1>5. Provided' /\ Selected'
    BY <1>2, <1>3 DEF MailInv, Provided, Selected, provider, Resting
  <1>6. Stages' BY <1>2 DEF MailInv, Stages, Resting, AllPcs, InitialPcs, SteadyPcs, ResumedPcs
  <1>7. Recorded' BY <1>2 DEF MailInv, Recorded, Current, provider
  <1>8. SnapshotHeld' /\ WindowHeld' /\ HeadBatch' /\ BackfillBatch'
    BY <1>2 DEF SnapshotHeld, WindowHeld, HeadBatch, BackfillBatch, ResumedPcs, InitialPcs
  <1>9. IncrementalBatchHeld'
    BY <1>1, <1>2, <1>3, <1>4 DEF IncrementalBatchHeld, InitialPcs, Resting
  <1>10. NewMail' BY <1>2, <1>3 DEF MailInv, NewMail, SteadyPcs, provider, rows, Mirrored
  <1>11. NothingSkipped' /\ UidNextPromise' /\ InitialGapFree'
    BY <1>2 DEF MailInv, NothingSkipped, UidNextPromise, InitialGapFree, Current, Owed, Mirrored,
                provider, rows
  <1> QED BY <1>5, <1>6, <1>7, <1>8, <1>9, <1>10, <1>11 DEF MailInv

LEMMA MailIncrementalWrite == TypeOK /\ MailInv /\ IncrementalWrite => MailInv'
  <1> SUFFICES ASSUME TypeOK, MailInv, IncrementalWrite PROVE MailInv' OBVIOUS
  <1> DEFINE left == pass.todo \ pass.read.uids
  <1>1. PICK m \in pass.read.uids, hit \in LockBudget :
          LET more == left # {} /\ ~hit /\ pass.batches + 1 < BatchesPerPass
          IN /\ IsMax(m, pass.read.uids)
             /\ pass' = [pass EXCEPT !.todo = left, !.reached = m, !.read = NoRead, !.hit = hit,
                                     !.batches = IF more THEN @ + 1 ELSE 0]
             /\ pc' = IF more THEN "incremental" ELSE AfterNewMail
    BY DEF IncrementalWrite
  <1>2. /\ pc = "incrementalWrite" /\ UNCHANGED <<provider, head>>
        /\ Mirrored' = Mirrored \cup pass.read.uids
        /\ Kept(folder', folder) /\ folder'.validity = pass.sel.validity
    BY UpsertMirrors, GenerationWritten DEF IncrementalWrite
  <1>3. pc' \in {"incremental", "replay", "flags"} /\ (pc' = "incremental" => left # {})
    BY <1>1 DEF AfterNewMail
  <1>4. pass'.todo = left /\ pass'.sel = pass.sel /\ pass'.reached = m
    BY <1>1 DEF TypeOK, Passes
  <1>5. /\ pass.sel.validity = pValidity /\ folder.complete
        /\ folder.validity \in {None, pValidity}
    BY <1>2 DEF MailInv, Selected, Stages, Resting, SteadyPcs
  <1>6. /\ folder.last \in Nat /\ pass.sel.next \in Nat /\ pHere \in SUBSET Uids
        /\ pass.todo \in SUBSET Uids /\ pass.reached \in Nat /\ pNext \in Nat /\ pValidity \in Nat
        /\ \A u \in Uids : u \in Nat /\ u >= 1
    BY Fields, UidsAreNat DEF TypeOK
  <1>7. /\ pass.read.uids \subseteq pass.todo
        /\ \A x \in pass.read.uids, y \in left : x < y
        /\ \A x \in pass.read.uids : x <= m
        /\ m \in pass.todo
    BY <1>1, <1>2 DEF MailInv, IncrementalBatchHeld, IsMax
  <1>8. /\ \A u \in pHere : folder.last < u /\ (u < pass.sel.next \/ u <= pass.reached)
             => u \in Mirrored \/ u \in pass.todo
        /\ \A u \in pass.todo : folder.last < u /\ (u < pass.sel.next \/ u = folder.last + 1)
        /\ \A u \in pass.todo : pass.reached < u /\ u < pNext
    BY <1>2 DEF MailInv, NewMail, SteadyPcs
  <1>16. Current' <=> Current BY <1>2, <1>5 DEF Current, provider
  <1>9. Provided'
    <2>1. folder'.validity <= pValidity BY <1>2, <1>5, <1>6
    <2> QED BY <1>2, <2>1 DEF MailInv, Provided, provider
  <1>10. Selected' BY <1>2, <1>3, <1>4, <1>5 DEF MailInv, Selected, provider, Resting
  <1>11. Stages'
    BY <1>2, <1>3, <1>5, <1>6
    DEF MailInv, Stages, Resting, AllPcs, InitialPcs, SteadyPcs, ResumedPcs, Kept, None
  <1>12. Recorded' BY <1>2, <1>16 DEF MailInv, Recorded, Kept, provider
  <1>13. SnapshotHeld' /\ WindowHeld' /\ HeadBatch' /\ BackfillBatch'
    BY <1>3 DEF SnapshotHeld, WindowHeld, HeadBatch, BackfillBatch, ResumedPcs, InitialPcs
  <1>14. IncrementalBatchHeld' BY <1>3, <1>4 DEF IncrementalBatchHeld, InitialPcs, Resting
  <1>15. NewMail'
    <2>1. ASSUME NEW u \in pHere, folder.last < u, u < pass.sel.next \/ u <= m
          PROVE  u \in Mirrored \cup pass.read.uids \/ u \in left
      <3>1. CASE u < pass.sel.next BY <1>8, <2>1, <3>1
      <3>2. CASE ~(u < pass.sel.next)
        <4>1. m = folder.last + 1 BY <1>6, <1>7, <1>8, <2>1, <3>2
        <4>2. u = m BY <1>6, <2>1, <3>2, <4>1
        <4> QED BY <4>2
      <3> QED BY <3>1, <3>2
    <2>2. \A u \in left : m < u BY <1>7
    <2>3. folder.last < m /\ m < pNext BY <1>7, <1>8
    <2> QED BY <1>2, <1>4, <1>8, <2>1, <2>2, <2>3 DEF NewMail, Kept, provider
  <1>17. NothingSkipped' /\ UidNextPromise' /\ InitialGapFree'
    BY <1>2, <1>16 DEF MailInv, NothingSkipped, UidNextPromise, InitialGapFree, Owed, Kept, provider
  <1> QED BY <1>9, <1>10, <1>11, <1>12, <1>13, <1>14, <1>15, <1>17 DEF MailInv

(* The rest of a pass only adds rows or turns live ones into tombstones.   *)
LEMMA MailReplayFlags == TypeOK /\ MailInv /\ ReplayFlags => MailInv'
  <1> SUFFICES ASSUME TypeOK, MailInv, ReplayFlags PROVE MailInv' OBVIOUS
  <1>1. pc = "replay" /\ pc' = "replayGone" /\ UNCHANGED <<provider, folder, live, missing, pass, head>>
    BY DEF ReplayFlags
  <1> QED BY <1>1, LateStep DEF LatePcs, SteadyPcs, Mirrored

LEMMA MailVanished == TypeOK /\ MailInv /\ markVanishedMessages => MailInv'
  <1> SUFFICES ASSUME TypeOK, MailInv, markVanishedMessages PROVE MailInv' OBVIOUS
  <1>1. /\ pc = "replayGone" /\ pc' = "flags" /\ UNCHANGED <<provider, folder, head>>
        /\ Mirrored \subseteq Mirrored'
    BY DEF markVanishedMessages, Mirrored
  <1>2. pass'.sel = pass.sel /\ pass'.todo = pass.todo /\ pass'.reached = pass.reached
    BY DEF markVanishedMessages, TypeOK, Passes
  <1> QED BY <1>1, <1>2, LateStep DEF LatePcs, SteadyPcs

LEMMA MailFlagScan == TypeOK /\ MailInv /\ FlagScan => MailInv'
  <1> SUFFICES ASSUME TypeOK, MailInv, FlagScan PROVE MailInv' OBVIOUS
  <1>1. /\ pc = "flags" /\ pc' \in {"deltaWrite", "windowWrite", "reconcile"}
        /\ UNCHANGED <<provider, folder, rows, head>>
    BY DEF FlagScan
  <1>2. PICK h, w, r :
          \/ pass' = Decided(h, w)
          \/ pass' = [Decided(h, w) EXCEPT !.read = r]
    BY DEF FlagScan
  <1>3. pass'.sel = pass.sel /\ pass'.todo = pass.todo /\ pass'.reached = pass.reached
    <2>1. CASE pass' = Decided(h, w) BY <2>1 DEF Decided, TypeOK, Passes
    <2>2. CASE pass' = [Decided(h, w) EXCEPT !.read = r] BY <2>2 DEF Decided, TypeOK, Passes
    <2> QED BY <1>2, <2>1, <2>2
  <1> QED BY <1>1, <1>3, LateStep DEF LatePcs, SteadyPcs, rows, Mirrored

LEMMA MailFlagWrites == TypeOK /\ MailInv /\ (DeltaWrite \/ WindowWrite) => MailInv'
  <1> SUFFICES ASSUME TypeOK, MailInv, DeltaWrite \/ WindowWrite PROVE MailInv' OBVIOUS
  <1>1. /\ pc \in {"deltaWrite", "windowWrite"} /\ pc' \in {"windowWrite", "reconcile"}
        /\ UNCHANGED <<provider, folder, live, missing, head>>
    BY DEF DeltaWrite, WindowWrite
  <1>2. \E r : pass' = [pass EXCEPT !.read = r] BY DEF DeltaWrite, WindowWrite
  <1>3. pass'.sel = pass.sel /\ pass'.todo = pass.todo /\ pass'.reached = pass.reached
    BY <1>2 DEF TypeOK, Passes
  <1> QED BY <1>1, <1>3, LateStep DEF LatePcs, SteadyPcs, Mirrored

(* The list's steps change the list, the window and the verdict of a pass  *)
(* and leave the rest of it as it was.                                     *)
LEMMA ListFieldsKept ==
  ASSUME TypeOK, NEW h, NEW l, NEW w,
         \/ pass' = [pass EXCEPT !.attempted = TRUE, !.list = l]
         \/ pass' = [pass EXCEPT !.hit = h]
         \/ pass' = [pass EXCEPT !.window = w, !.complete = TRUE]
         \/ pass' = [pass EXCEPT !.list = l]
  PROVE  /\ pass'.sel = pass.sel /\ pass'.replay = pass.replay /\ pass'.read = pass.read
         /\ pass'.todo = pass.todo /\ pass'.reached = pass.reached /\ pass'.scanned = pass.scanned
  <1>1. pass \in Passes BY DEF TypeOK
  <1>2. CASE pass' = [pass EXCEPT !.attempted = TRUE, !.list = l] BY <1>1, <1>2 DEF Passes
  <1>3. CASE pass' = [pass EXCEPT !.hit = h] BY <1>1, <1>3 DEF Passes
  <1>4. CASE pass' = [pass EXCEPT !.window = w, !.complete = TRUE] BY <1>1, <1>4 DEF Passes
  <1>5. CASE pass' = [pass EXCEPT !.list = l] BY <1>1, <1>5 DEF Passes
  <1> QED BY <1>2, <1>3, <1>4, <1>5

LEMMA MailReconcile == TypeOK /\ MailInv /\ (Reconcile \/ CheckList) => MailInv'
  <1> SUFFICES ASSUME TypeOK, MailInv, Reconcile \/ CheckList PROVE MailInv' OBVIOUS
  <1>1. /\ pc \in {"reconcile", "listed"} /\ pc' \in {"listed", "tombstone", "finish"}
        /\ UNCHANGED <<provider, folder, rows, head>>
    BY DEF Reconcile, CheckList
  <1>2. pass'.sel = pass.sel /\ pass'.todo = pass.todo /\ pass'.reached = pass.reached
    <2>1. CASE Reconcile
      <3>1. \E h, l : \/ pass' = [pass EXCEPT !.attempted = TRUE, !.list = l]
                      \/ pass' = [pass EXCEPT !.hit = h]
        BY <2>1 DEF Reconcile
      <3> QED BY <3>1, ListFieldsKept
    <2>2. CASE CheckList
      <3>1. \/ pass' = [pass EXCEPT !.window = InWindow, !.complete = TRUE]
            \/ pass' = [pass EXCEPT !.list = {}]
        BY <2>2 DEF CheckList
      <3> QED BY <3>1, ListFieldsKept
    <2> QED BY <2>1, <2>2
  <1> QED BY <1>1, <1>2, LateStep DEF LatePcs, SteadyPcs, rows, Mirrored

LEMMA MailTombstone == TypeOK /\ MailInv /\ (Tombstone \/ Revive) => MailInv'
  <1> SUFFICES ASSUME TypeOK, MailInv, Tombstone \/ Revive PROVE MailInv' OBVIOUS
  <1>1. /\ pc \in {"tombstone", "revive"} /\ pc' \in {"revive", "gap"}
        /\ UNCHANGED <<provider, folder, head>> /\ Mirrored \subseteq Mirrored'
    <2>1. CASE Tombstone BY <2>1 DEF Tombstone, Doomed, Mirrored
    <2>2. CASE Revive BY <2>2 DEF Revive, Revivable, Mirrored
    <2> QED BY <2>1, <2>2
  <1>2. pass'.sel = pass.sel /\ pass'.todo = pass.todo /\ pass'.reached = pass.reached
    <2>1. CASE Tombstone
      <3>1. PICK done : pass' = [pass EXCEPT !.complete = done] BY <2>1 DEF Tombstone
      <3> QED BY <3>1 DEF TypeOK, Passes
    <2>2. CASE Revive
      <3>1. PICK done, first : pass' = [pass EXCEPT !.complete = done, !.window = first, !.list = {}]
        BY <2>2 DEF Revive
      <3> QED BY <3>1 DEF TypeOK, Passes
    <2> QED BY <2>1, <2>2
  <1> QED BY <1>1, <1>2, LateStep DEF LatePcs, SteadyPcs

LEMMA MailGap == TypeOK /\ MailInv /\ (GapFetch \/ GapWrite) => MailInv'
  <1> SUFFICES ASSUME TypeOK, MailInv, GapFetch \/ GapWrite PROVE MailInv' OBVIOUS
  <1>1. /\ pc \in {"gap", "gapWrite"} /\ pc' \in {"gap", "gapWrite", "finish"}
        /\ UNCHANGED <<provider, folder, head>> /\ Mirrored \subseteq Mirrored'
    <2>1. CASE GapFetch BY <2>1 DEF GapFetch, rows, Mirrored
    <2>2. CASE GapWrite BY <2>2, UpsertMirrors DEF GapWrite
    <2> QED BY <2>1, <2>2
  <1>2. pass'.sel = pass.sel /\ pass'.todo = pass.todo /\ pass'.reached = pass.reached
    <2>1. CASE GapFetch
      <3>1. \/ \E clean : pass' = [pass EXCEPT !.clean = clean, !.window = {}]
            \/ \E read : pass' = [pass EXCEPT !.read = read]
        BY <2>1 DEF GapFetch
      <3> QED BY <3>1 DEF TypeOK, Passes
    <2>2. CASE GapWrite
      <3>1. PICK hit : pass' = [pass EXCEPT !.window = @ \ pass.read.uids, !.read = NoRead, !.hit = hit]
        BY <2>2 DEF GapWrite
      <3> QED BY <3>1 DEF TypeOK, Passes
    <2> QED BY <2>1, <2>2
  <1> QED BY <1>1, <1>2, LateStep DEF LatePcs, SteadyPcs

LEMMA MailFinish == TypeOK /\ MailInv /\ Finish => MailInv'
  <1> SUFFICES ASSUME TypeOK, MailInv, Finish PROVE MailInv' OBVIOUS
  <1> DEFINE next == IF pass.todo = {} THEN pass.sel.next ELSE reachedUidNext(pass.sel.next, StoredLast)
  <1>1. pc = "finish" /\ UNCHANGED <<provider, rows, head>> /\ EndPass BY DEF Finish
  <1>2. /\ folder'.validity = pass.sel.validity /\ folder'.complete /\ folder'.last = StoredLast
        /\ folder'.next = next /\ folder'.target = folder.target /\ folder'.oldest = folder.oldest
    BY DEF Finish, TypeOK, Folders
  <1>3. pc' = "idle" /\ pass' = NewPass(pass'.opt) /\ pass'.reached = 0
    BY <1>1 DEF EndPass, NoPass, NewPass
  <1>4. /\ pass.sel.validity = pValidity /\ pass.sel.next <= pNext /\ folder.complete
        /\ folder.validity \in {None, pValidity} /\ folder.target # None /\ folder.oldest # None
    BY <1>1 DEF MailInv, Selected, Stages, Resting, SteadyPcs
  <1>5. /\ folder.last \in Nat /\ pass.sel.next \in Nat /\ pass.reached \in Nat /\ pNext \in Nat
        /\ pValidity \in Nat /\ StoredLast \in Nat /\ next \in Nat
        /\ pass.todo \in SUBSET Uids /\ \A u \in Uids : u \in Nat /\ u >= 1
    BY Fields, UidsAreNat DEF TypeOK, StoredLast, reachedUidNext
  <1>6. /\ \A u \in pHere : folder.last < u /\ (u < pass.sel.next \/ u <= pass.reached)
             => u \in Mirrored \/ u \in pass.todo
        /\ \A u \in pass.todo : pass.reached < u
        /\ pass.reached # 0 => folder.last < pass.reached /\ pass.reached < pNext
    BY <1>1 DEF MailInv, NewMail, SteadyPcs
  <1>7. /\ Current' => Current
        /\ Owed' = Owed /\ Mirrored' = Mirrored
    BY <1>1, <1>2, <1>4 DEF Current, Owed, Mirrored, provider, rows
  <1>8. Current => StoredLast < pNext
    BY <1>6 DEF MailInv, Recorded, StoredLast
  <1>9. Provided' /\ Selected'
    BY <1>1, <1>2, <1>3, <1>4, <1>5 DEF MailInv, Provided, Selected, Resting, provider
  <1>10. Stages'
    BY <1>2, <1>3, <1>4, <1>5
    DEF Stages, Resting, AllPcs, InitialPcs, SteadyPcs, ResumedPcs, None
  <1>11. Recorded'
    <2>1. Current => next <= pNext
      BY <1>4, <1>5, <1>8 DEF reachedUidNext
    <2> QED BY <1>1, <1>2, <1>7, <1>8, <2>1 DEF MailInv, Recorded, provider
  <1>12. SnapshotHeld' /\ WindowHeld' /\ HeadBatch' /\ BackfillBatch' /\ NewMail' /\ IncrementalBatchHeld'
    BY <1>3 DEF SnapshotHeld, WindowHeld, HeadBatch, BackfillBatch, NewMail,
                      IncrementalBatchHeld, ResumedPcs, InitialPcs, SteadyPcs
  <1>13. ASSUME Current, NEW u \in Owed, u <= StoredLast PROVE u \in Mirrored
    <2>1. u \in pHere /\ u \in Nat BY <1>5 DEF Owed, TypeOK
    <2>2. CASE u <= folder.last BY <1>4, <1>13, <2>2 DEF MailInv, NothingSkipped
    <2>3. CASE ~(u <= folder.last)
      <3>1. folder.last < u /\ u <= pass.reached BY <1>5, <1>13, <2>1, <2>3 DEF StoredLast
      <3>2. u \notin pass.todo BY <1>5, <1>6, <2>1, <3>1
      <3> QED BY <1>6, <2>1, <3>1, <3>2
    <2> QED BY <2>2, <2>3
  <1>14. NothingSkipped' BY <1>2, <1>7, <1>13 DEF NothingSkipped
  <1>15. UidNextPromise'
    <2> SUFFICES ASSUME Current, NEW u \in Owed, u < next PROVE u \in Mirrored
      BY <1>2, <1>7 DEF UidNextPromise
    <2>1. u \in pHere /\ u \in Nat BY <1>5 DEF Owed, TypeOK
    <2>2. CASE pass.todo = {}
      <3>1. u < pass.sel.next BY <2>2
      <3>2. CASE u <= folder.last BY <1>4, <3>2 DEF MailInv, NothingSkipped
      <3>3. CASE ~(u <= folder.last) BY <1>5, <1>6, <2>1, <2>2, <3>1, <3>3
      <3> QED BY <3>2, <3>3
    <2>3. CASE pass.todo # {}
      <3>1. next <= StoredLast + 1 BY <1>5, <2>3 DEF reachedUidNext
      <3>2. u <= StoredLast BY <1>5, <2>1, <3>1
      <3> QED BY <1>13, <3>2
    <2> QED BY <2>2, <2>3
  <1>16. InitialGapFree' BY <1>2 DEF InitialGapFree
  <1> QED BY <1>9, <1>10, <1>11, <1>12, <1>14, <1>15, <1>16 DEF MailInv

(* Every step, together.                                                  *)
LEMMA MailInit == Init => MailInv
  <1> SUFFICES ASSUME Init PROVE MailInv OBVIOUS
  <1>1. /\ pc = "idle" /\ pass = NewPass(pass.opt) /\ pass.reached = 0
        /\ folder.validity = None /\ folder.last = 0 /\ ~folder.complete /\ folder.target = None
        /\ head.validity = 0 /\ pValidity = 1 /\ pNext = 1 /\ pHere = {} /\ pHighest = 0
        /\ pMod = [u \in Uids |-> 0]
    BY DEF Init, NoPass, NewPass, NewFolder, NoHead
  <1>2. Provided /\ Selected /\ Stages
    BY <1>1 DEF Provided, Selected, Stages, Resting, AllPcs, InitialPcs, SteadyPcs, ResumedPcs, None
  <1>3. Recorded /\ SnapshotHeld /\ WindowHeld /\ HeadBatch /\ BackfillBatch /\ NewMail
        /\ IncrementalBatchHeld
    BY <1>1 DEF Recorded, Current, SnapshotHeld, WindowHeld, HeadBatch, BackfillBatch, NewMail,
                IncrementalBatchHeld, SteadyPcs, InitialPcs, ResumedPcs
  <1>4. NothingSkipped /\ UidNextPromise /\ InitialGapFree
    BY <1>1 DEF NothingSkipped, UidNextPromise, InitialGapFree
  <1> QED BY <1>2, <1>3, <1>4 DEF MailInv

LEMMA MailStutter == TypeOK /\ MailInv /\ UNCHANGED vars => MailInv'
  <1> SUFFICES ASSUME TypeOK, MailInv, UNCHANGED vars PROVE MailInv' OBVIOUS
  <1>1. UNCHANGED <<pValidity, pNext, pHere, pOld, pMod, pHighest, folder, live, missing, pc, pass, head>>
    BY DEF vars, provider, rows
  <1>2. /\ pHere' \subseteq pHere /\ InWindow' \subseteq InWindow /\ Owed' \subseteq Owed
        /\ Mirrored' = Mirrored
    BY <1>1 DEF InWindow, Owed, Mirrored
  <1>3. Provided' /\ Selected' BY <1>1 DEF MailInv, Provided, Selected
  <1> QED BY <1>1, <1>2, <1>3, ShrinkStep

LEMMA MailStep == TypeOK /\ MailInv /\ [Next]_vars => MailInv'
  <1> SUFFICES ASSUME TypeOK, MailInv, [Next]_vars PROVE MailInv' OBVIOUS
  <1>1. CASE Provider BY <1>1, MailProvider
  <1>2. CASE Initial
    BY <1>2, MailSnapshot, MailSetSnapshot, MailCandidates, MailHeadSearch, MailHeadFetch,
       MailHeadWrite, MailLiveHead, MailBackfill, MailBackfillFetch, MailBackfillWrite,
       MailWatermark, MailInitialDone
    DEF Initial
  <1>3. CASE Steady
    BY <1>3, MailSearch, MailIncremental, MailIncrementalWrite, MailReplayFlags, MailVanished,
       MailFlagScan, MailFlagWrites, MailReconcile, MailTombstone, MailGap, MailFinish
    DEF Steady
  <1>4. CASE Select \/ handleUidValidityReset \/ StartPass BY <1>4, MailSelect, MailReset, MailStart
  <1>5. CASE FetchIncomplete \/ Fail BY <1>5, EndStep DEF FetchIncomplete, Fail
  <1>6. CASE AuditFallsDue BY <1>6, MailAudit
  <1>7. CASE \E u \in live : markMessageGone(u) BY <1>7, MailGone
  <1>8. CASE UNCHANGED vars BY <1>8, MailStutter
  <1> QED BY <1>1, <1>2, <1>3, <1>4, <1>5, <1>6, <1>7, <1>8 DEF Next, Mirror, PassStep

(* The inductive invariant holds of every behaviour: what a pass knows at  *)
(* each program counter of syncFolder and runInitialSyncBatch.             *)
THEOREM MailInvariant == Spec => []MailInv
  <1>1. Init => MailInv BY MailInit
  <1>2. TypeOK /\ MailInv /\ [Next]_vars => MailInv' BY MailStep
  <1> QED BY <1>1, <1>2, TypeCorrect, PTL DEF Spec

(* Incremental sync starts above last_uid and no owed message at or below  *)
(* it is without a row (syncFolder).                                       *)
THEOREM NothingSkippedHolds == Spec => []NothingSkipped
  <1>1. MailInv => NothingSkipped BY DEF MailInv
  <1> QED BY <1>1, MailInvariant, PTL

(* No owed message below the stored UIDNEXT is without a row               *)
(* (reachedUidNext).                                                       *)
THEOREM UidNextPromiseHolds == Spec => []UidNextPromise
  <1>1. MailInv => UidNextPromise BY DEF MailInv
  <1> QED BY <1>1, MailInvariant, PTL

(* An interrupted initial sync resumes without a gap (runInitialSyncBatch).*)
THEOREM InitialGapFreeHolds == Spec => []InitialGapFree
  <1>1. MailInv => InitialGapFree BY DEF MailInv
  <1> QED BY <1>1, MailInvariant, PTL

-------------------------------------------------------------------------------
(* 3. No expunge is lost behind the QRESYNC cursor.                         *)

(* What is left of ExpungeInv beside what MailInv already gives.           *)
Cursors == /\ QresyncBounded /\ RowsIssued /\ ReadsFresh /\ ReplayComplete /\ ExpungesApplied
           /\ ExpungeHonest
WritePcs == {"headWrite", "backfillWrite", "incrementalWrite", "gapWrite"}
ReplayPcs == {"replay", "replayGone"}
GapPcs == {"revive", "gap", "gapWrite"}
Parked == Resting \cup {"reset"}

(* A step of a running pass, whatever rows it adds being fresh.            *)
LEMMA ExpungeStep ==
  ASSUME TypeOK, ExpungeInv, pc \notin Parked, UNCHANGED provider,
         NEW N \in SUBSET Uids, Fresh(N), \A u \in N : u < pNext, live' \subseteq live \cup N,
         folder'.qresync = folder.qresync,
         folder'.validity \in {folder.validity, pass.sel.validity},
         N = {} \/ folder'.validity = pass.sel.validity,
         pass'.sel = pass.sel, pass'.list \subseteq pass.list,
         pc' \in WritePcs => pass'.read.uids \subseteq pHere,
         pass'.replay = pass.replay \/ pass'.replay.answer # "complete",
         pass'.applied \/ pass'.clean =>
           pass.applied \/ pass.clean \/ \A u \in live' : u \in pHere \/ pMod[u] > pass.sel.highest,
         pc' \in GapPcs /\ pass'.complete =>
           (pc \in GapPcs /\ pass.complete) \/ \A u \in live' : u \in pHere \/ pMod[u] > pass.sel.highest,
         pc' \in ReplayPcs => pass'.replay.answer = "complete"
  PROVE  Cursors'
  <1> USE DEF provider
  <1>1. /\ pass.sel.validity = pValidity /\ folder.validity \in {None, pValidity}
        /\ pc \notin Resting
    BY DEF ExpungeInv, Selected, Parked
  <1>2. /\ pValidity \in Nat /\ pValidity # None /\ pass.sel.highest \in Nat /\ pHighest \in Nat
        /\ folder.qresync \in Nat \cup {None} /\ \A u \in Uids : pMod[u] \in Nat
        /\ live \in SUBSET Uids
    BY Fields DEF TypeOK, None
  <1>3. /\ folder.qresync # None => folder.validity # None /\ folder.qresync <= pass.sel.highest
        /\ folder.qresync # None /\ folder.validity = pValidity => folder.qresync <= pHighest
    BY DEF ExpungeInv, QresyncBounded, Parked
  <1>4. /\ folder.validity = None => live = {}
        /\ folder.validity = pValidity => \A u \in live : u < pNext
    BY DEF ExpungeInv, RowsIssued
  <1>5. QresyncBounded' BY <1>1, <1>2, <1>3 DEF QresyncBounded
  <1>6. RowsIssued' BY <1>1, <1>2, <1>4 DEF RowsIssued
  <1>7. ReadsFresh'
    <2>1. Fresh(pass.list)' BY DEF ExpungeInv, ReadsFresh, Fresh
    <2>2. pc' \in WritePcs => Fresh(pass.read.uids)' /\ \A u \in pass'.read.uids : u < pNext
      BY DEF Fresh, ExpungeInv, Provided
    <2>3. \A u \in pass'.list : u < pNext BY DEF ExpungeInv, ReadsFresh
    <2> QED BY <2>1, <2>2, <2>3 DEF ReadsFresh, WritePcs
  <1>8. ReplayComplete' BY <1>1 DEF ExpungeInv, ReplayComplete, ReplayPcs, Fresh
  <1>9. ExpungesApplied'
    <2>1. pass.applied \/ pass.clean => Fresh(live) BY <1>1 DEF ExpungeInv, ExpungesApplied
    <2>2. pc \in GapPcs /\ pass.complete => Fresh(live) BY DEF ExpungeInv, ExpungesApplied, GapPcs
    <2>3. Fresh(live) => Fresh(live)' BY DEF Fresh
    <2>4. (\A u \in live' : u \in pHere \/ pMod[u] > pass.sel.highest) => Fresh(live)' BY DEF Fresh
    <2> QED BY <2>1, <2>2, <2>3, <2>4 DEF ExpungesApplied, GapPcs
  <1>10. ExpungeHonest'
    <2> SUFFICES ASSUME folder.qresync # None, NEW u \in live', u \notin pHere
                 PROVE  pMod[u] > folder.qresync
      BY DEF ExpungeHonest
    <2>1. CASE u \in live BY <1>1, <1>3, <2>1 DEF ExpungeInv, ExpungeHonest
    <2>2. CASE u \in N BY <1>2, <1>3, <2>2 DEF Fresh
    <2> QED BY <2>1, <2>2
  <1> QED BY <1>5, <1>6, <1>7, <1>8, <1>9, <1>10 DEF Cursors

(* A pass starts or ends, at most confirming the generation.               *)
LEMMA ExpungeRest ==
  ASSUME TypeOK, ExpungeInv, UNCHANGED <<provider, rows>>, pc' \in Resting, Stages',
         folder'.qresync = folder.qresync,
         folder'.validity = folder.validity
           \/ (pc \notin Parked /\ folder'.validity = pass.sel.validity)
  PROVE  Cursors'
  <1> USE DEF provider, rows
  <1>1. pass' = NewPass(pass'.opt) BY DEF Stages
  <1>2. /\ pass'.list = {} /\ pass'.read.uids = {} /\ ~pass'.applied /\ ~pass'.clean
        /\ pass'.replay.answer # "complete"
    BY <1>1 DEF NewPass, NoRead, NoReplay
  <1>3. pc \notin Parked => pass.sel.validity = pValidity /\ folder.validity \in {None, pValidity}
    BY DEF ExpungeInv, Selected, Parked
  <1>4. pValidity # None BY DEF TypeOK, None
  <1>5. QresyncBounded' /\ RowsIssued' /\ ExpungeHonest'
    BY <1>3, <1>4 DEF ExpungeInv, QresyncBounded, RowsIssued, ExpungeHonest
  <1>6. ReadsFresh' /\ ReplayComplete' /\ ExpungesApplied'
    BY <1>2 DEF ReadsFresh, ReplayComplete, ExpungesApplied, Fresh, Resting
  <1> QED BY <1>5, <1>6 DEF Cursors

(* A step beside the pass: rows go, an audit falls due.                    *)
LEMMA ExpungeBeside ==
  ASSUME TypeOK, ExpungeInv, UNCHANGED <<provider, pc, pass>>, live' \subseteq live,
         folder'.qresync = folder.qresync, folder'.validity = folder.validity
  PROVE  Cursors'
  <1> USE DEF provider
  <1>1. QresyncBounded' /\ RowsIssued' /\ ExpungeHonest'
    BY DEF ExpungeInv, QresyncBounded, RowsIssued, ExpungeHonest
  <1>2. ReadsFresh' BY DEF ExpungeInv, ReadsFresh, Fresh
  <1>3. ReplayComplete' /\ ExpungesApplied'
    BY DEF ExpungeInv, ReplayComplete, ExpungesApplied, Fresh
  <1> QED BY <1>1, <1>2, <1>3 DEF Cursors

(* The provider touches u: what it takes away gets the newest MODSEQ.      *)
LEMMA ExpungeTouch ==
  ASSUME TypeOK, ExpungeInv, NEW u \in Uids, Touch(u), pHere \ {u} \subseteq pHere',
         pNext <= pNext', pNext' \in Nat, UNCHANGED <<pValidity, folder, rows, pc, pass>>
  PROVE  Cursors'
  <1> USE DEF rows
  <1>1. /\ pHighest' = pHighest + 1 /\ pHighest \in Nat /\ pMod \in [Uids -> Nat]
        /\ pMod' = [pMod EXCEPT ![u] = pHighest + 1] /\ pNext \in Nat
        /\ pass.sel.highest \in Nat /\ folder.qresync \in Nat \cup {None}
        /\ live \in SUBSET Uids /\ pass.list \in SUBSET Uids /\ pass.read.uids \in SUBSET Uids
        /\ \A v \in Uids : v \in Nat
    BY Fields, UidsAreNat DEF Touch, TypeOK
  <1>2. \A v \in Uids : pMod'[v] = (IF v = u THEN pHighest + 1 ELSE pMod[v]) BY <1>1
  <1>3. pc \notin Resting => pass.sel.highest <= pHighest BY DEF ExpungeInv, Selected
  <1>4. pc \in Resting => pass.list = {} /\ pc \notin WritePcs
    BY DEF ExpungeInv, Stages, NewPass, Resting, WritePcs
  <1>5. ASSUME NEW S \in SUBSET Uids, pc \notin Resting, Fresh(S)
        PROVE  \A v \in S : v \in pHere' \/ pMod'[v] > pass.sel.highest
    BY <1>1, <1>2, <1>3, <1>5 DEF Fresh
  <1>6. QresyncBounded' BY <1>1 DEF ExpungeInv, QresyncBounded
  <1>7. RowsIssued' BY <1>1 DEF ExpungeInv, RowsIssued
  <1>8. ReadsFresh'
    <2>1. \A v \in pass.list : v < pNext' BY <1>1 DEF ExpungeInv, ReadsFresh
    <2>2. pc \in WritePcs => \A v \in pass.read.uids : v < pNext'
      BY <1>1 DEF ExpungeInv, ReadsFresh, WritePcs
    <2>3. Fresh(pass.list) /\ (pc \in WritePcs => Fresh(pass.read.uids))
      BY DEF ExpungeInv, ReadsFresh, WritePcs
    <2>4. Fresh(pass.list)'
      <3>1. CASE pc \in Resting BY <1>4, <3>1 DEF Fresh
      <3>2. CASE pc \notin Resting BY <1>1, <1>5, <2>3, <3>2 DEF Fresh
      <3> QED BY <3>1, <3>2
    <2>5. pc \in WritePcs => Fresh(pass.read.uids)' BY <1>1, <1>4, <1>5, <2>3 DEF Fresh
    <2> QED BY <2>1, <2>2, <2>4, <2>5 DEF ReadsFresh, WritePcs
  <1>9. ReplayComplete'
    <2> SUFFICES ASSUME pc \notin Resting, pass.replay.answer = "complete"
                 PROVE  Fresh(live \ pass.replay.vanished)'
      BY DEF ExpungeInv, ReplayComplete
    <2>1. Fresh(live \ pass.replay.vanished) BY DEF ExpungeInv, ReplayComplete
    <2>2. live \ pass.replay.vanished \in SUBSET Uids BY <1>1
    <2> QED BY <1>5, <2>1, <2>2 DEF Fresh
  <1>10. ExpungesApplied'
    <2>1. pc \in GapPcs => pc \notin Resting BY DEF GapPcs, Resting
    <2> SUFFICES ASSUME pc \notin Resting, Fresh(live) PROVE Fresh(live)'
      BY <2>1 DEF ExpungeInv, ExpungesApplied, GapPcs
    <2> QED BY <1>1, <1>5 DEF Fresh
  <1>11. ExpungeHonest'
    BY <1>1, <1>2 DEF ExpungeInv, ExpungeHonest, QresyncBounded
  <1> QED BY <1>6, <1>7, <1>8, <1>9, <1>10, <1>11 DEF Cursors

-------------------------------------------------------------------------------
(* The provider, and the start of a pass.                                  *)
LEMMA ExpungeProvider ==
  ASSUME TypeOK, ExpungeInv, Provider PROVE Cursors'
  <1>0. pNext \in Nat /\ pHere \in SUBSET Uids BY DEF TypeOK
  <1>1. CASE Arrive
    <2>1. pNext \in Uids BY <1>1, BoundsAssumption DEF Arrive, TypeOK, Uids
    <2> QED BY <1>0, <1>1, <2>1, ExpungeTouch DEF Arrive
  <1>2. CASE Recreate
    <2>1. /\ pc \in Resting /\ pValidity' = pValidity + 1
          /\ UNCHANGED <<folder, rows, pc, pass>>
      BY <1>2 DEF Recreate, Resting
    <2>2. pValidity \in Nat /\ folder.validity \in Nat \cup {None} BY Fields DEF TypeOK
    <2>3. folder.validity # pValidity' BY <2>1, <2>2 DEF ExpungeInv, Provided, None
    <2>4. pass.list = {} BY <2>1 DEF ExpungeInv, Stages, NewPass
    <2>5. QresyncBounded' /\ RowsIssued' /\ ExpungeHonest'
      BY <2>1, <2>3 DEF ExpungeInv, QresyncBounded, RowsIssued, ExpungeHonest, rows
    <2>6. ReadsFresh' /\ ReplayComplete' /\ ExpungesApplied'
      BY <2>1, <2>4 DEF ReadsFresh, Fresh, ReplayComplete, ExpungesApplied, Resting
    <2> QED BY <2>5, <2>6 DEF Cursors
  <1>3. ASSUME NEW u \in pHere, Expunge(u) PROVE Cursors'
    BY <1>0, <1>3, ExpungeTouch DEF Expunge
  <1>4. ASSUME NEW u \in pHere, ChangeFlag(u) PROVE Cursors'
    BY <1>0, <1>4, ExpungeTouch DEF ChangeFlag
  <1>5. ASSUME NEW u \in pHere, AgeOut(u) PROVE Cursors'
    <2>1. UNCHANGED <<pValidity, pNext, pHere, pMod, pHighest, folder, rows, pc, pass>>
      BY <1>5 DEF AgeOut
    <2>2. QresyncBounded' /\ RowsIssued' /\ ExpungeHonest'
      BY <2>1 DEF ExpungeInv, QresyncBounded, RowsIssued, ExpungeHonest, rows
    <2>3. ReadsFresh' BY <2>1 DEF ExpungeInv, ReadsFresh, Fresh
    <2>4. ReplayComplete' /\ ExpungesApplied'
      BY <2>1 DEF ExpungeInv, ReplayComplete, ExpungesApplied, Fresh, rows
    <2> QED BY <2>2, <2>3, <2>4 DEF Cursors
  <1> QED BY <1>1, <1>2, <1>3, <1>4, <1>5 DEF Provider

LEMMA ExpungeSelect ==
  ASSUME TypeOK, ExpungeInv, Select PROVE Cursors'
  <1>1. /\ pc = "select" /\ UNCHANGED <<provider, folder, rows, head>>
        /\ pc' \in {"reset", "search", "snapshot", "candidates"}
        /\ pc' # "reset" => folder.validity \in {None, pValidity}
    BY DEF Select
  <1>2. PICK r \in IF qresyncWanted(pass.opt) /\ folder.validity = pValidity THEN Replays ELSE {NoReplay} :
          pass' = [pass EXCEPT !.sel = [validity |-> pValidity, next |-> pNext, highest |-> pHighest],
                               !.replay = r]
    BY DEF Select
  <1>3. /\ pass'.sel.highest = pHighest /\ pass'.replay = r /\ pass'.list = pass.list
        /\ pass'.applied = pass.applied /\ pass'.clean = pass.clean
    BY <1>2 DEF TypeOK, Passes
  <1>4. pass.list = {} /\ ~pass.applied /\ ~pass.clean
    BY <1>1 DEF ExpungeInv, Stages, NewPass, Resting
  <1>5. QresyncBounded' /\ RowsIssued' /\ ExpungeHonest'
    BY <1>1, <1>3 DEF ExpungeInv, QresyncBounded, RowsIssued, ExpungeHonest, provider, rows, Resting
  <1>6. ReadsFresh' /\ ExpungesApplied'
    BY <1>1, <1>3, <1>4 DEF ReadsFresh, Fresh, ExpungesApplied
  <1>7. ReplayComplete'
    <2> SUFFICES ASSUME r.answer = "complete", NEW u \in live, u \notin r.vanished
                 PROVE  u \in pHere
      BY <1>1, <1>3 DEF ReplayComplete, Fresh, provider, rows
    <2>1. /\ r \in Replays /\ folder.validity = pValidity /\ folder.qresync # None
      BY <1>2 DEF NoReplay, qresyncWanted
    <2>2. r.vanished = Vanished(folder.qresync) BY <2>1 DEF Replays, NoReplay
    <2>3. u \in Uids BY DEF TypeOK
    <2>4. u \in KnownUids BY <2>3, UidsAreNat DEF KnownUids, Mirrored
    <2>5. u < pNext BY <2>1 DEF ExpungeInv, RowsIssued
    <2>6. u \in pHere \/ pMod[u] > folder.qresync BY <2>1 DEF ExpungeInv, ExpungeHonest
    <2> QED BY <2>2, <2>4, <2>5, <2>6 DEF Vanished
  <1> QED BY <1>5, <1>6, <1>7 DEF Cursors

LEMMA ExpungeReset ==
  ASSUME TypeOK, ExpungeInv, handleUidValidityReset, Stages' PROVE Cursors'
  <1>1. /\ pc' = "idle" /\ live' = {} /\ pass' = NewPass(pass'.opt)
        /\ folder' = [Forgotten EXCEPT !.validity = pass.sel.validity]
    BY DEF handleUidValidityReset, EndPass, NoPass, NewPass
  <1>2. folder'.qresync = None BY <1>1 DEF Forgotten, TypeOK, Folders
  <1>3. pass'.list = {} BY <1>1 DEF NewPass
  <1>4. QresyncBounded' /\ RowsIssued' /\ ExpungeHonest'
    BY <1>1, <1>2 DEF QresyncBounded, RowsIssued, ExpungeHonest
  <1>5. ReadsFresh' /\ ReplayComplete' /\ ExpungesApplied'
    BY <1>1, <1>3 DEF ReadsFresh, Fresh, ReplayComplete, ExpungesApplied, Resting
  <1> QED BY <1>4, <1>5 DEF Cursors

(* A step that adds no row.                                                *)
LEMMA ExpungeRead ==
  ASSUME TypeOK, ExpungeInv, pc \notin Parked, UNCHANGED provider, live' \subseteq live,
         folder'.qresync = folder.qresync, folder'.validity = folder.validity,
         pass'.sel = pass.sel, pass'.list \subseteq pass.list,
         pc' \in WritePcs => pass'.read.uids \subseteq pHere,
         pass'.replay = pass.replay \/ pass'.replay.answer # "complete",
         pass'.applied = pass.applied, pass'.clean = pass.clean, pc' \notin GapPcs,
         pc' \in ReplayPcs => pass'.replay.answer = "complete"
  PROVE  Cursors'
  <1>1. Fresh({}) /\ \A u \in {} : u < pNext BY DEF Fresh
  <1>2. live' \subseteq live \cup {} OBVIOUS
  <1> QED BY <1>1, <1>2, ExpungeStep DEF GapPcs

(* A step that commits a batch.                                            *)
LEMMA ExpungeWrite ==
  ASSUME TypeOK, ExpungeInv, pc \in WritePcs, UNCHANGED provider, Upsert(pass.read),
         folder' = folder \/ folder' = [folder EXCEPT !.validity = pass.sel.validity],
         folder'.validity = pass.sel.validity,
         pass'.sel = pass.sel, pass'.list = pass.list, pass'.replay = pass.replay,
         pass'.applied = pass.applied, pass'.clean = pass.clean, pass'.complete = pass.complete,
         pc' \notin WritePcs, pc' \in GapPcs => pc \in GapPcs,
         pc' \in ReplayPcs => pass'.replay.answer = "complete"
  PROVE  Cursors'
  <1>1. Fresh(pass.read.uids) /\ \A u \in pass.read.uids : u < pNext
    BY DEF ExpungeInv, ReadsFresh, WritePcs
  <1>2. pass.read.uids \in SUBSET Uids /\ live' \subseteq live \cup pass.read.uids
    BY Fields DEF Upsert
  <1>3. folder'.qresync = folder.qresync BY DEF TypeOK, Folders
  <1>4. pc \notin Parked BY DEF WritePcs, Parked, Resting
  <1> QED BY <1>1, <1>2, <1>3, <1>4, ExpungeStep

LEMMA ExpungeInitial ==
  ASSUME TypeOK, ExpungeInv, Initial, Stages' PROVE Cursors'
  <1> USE DEF Parked, Resting, WritePcs, GapPcs, ReplayPcs
  <1>1. CASE SnapshotSearch \/ Candidates
    <2>1. \E w : pass' = [pass EXCEPT !.window = w] BY <1>1 DEF SnapshotSearch, Candidates
    <2>2. /\ pass'.sel = pass.sel /\ pass'.list = pass.list /\ pass'.replay = pass.replay
          /\ pass'.applied = pass.applied /\ pass'.clean = pass.clean
      BY <2>1 DEF TypeOK, Passes
    <2> QED BY <1>1, <2>2, ExpungeRead DEF SnapshotSearch, Candidates, rows
  <1>2. CASE setInitialSyncSnapshot
    <2>1. folder'.qresync = folder.qresync /\ folder'.validity = folder.validity
      BY <1>2 DEF setInitialSyncSnapshot, TypeOK, Folders
    <2> QED BY <1>2, <2>1, ExpungeRead DEF setInitialSyncSnapshot, rows
  <1>3. CASE HeadSearch \/ Backfill
    <2>1. \E b : pass' = [pass EXCEPT !.todo = b] \/ pass' = pass BY <1>3 DEF HeadSearch, Backfill
    <2>2. /\ pass'.sel = pass.sel /\ pass'.list = pass.list /\ pass'.replay = pass.replay
          /\ pass'.applied = pass.applied /\ pass'.clean = pass.clean
      BY <2>1 DEF TypeOK, Passes
    <2> QED BY <1>3, <2>2, ExpungeRead DEF HeadSearch, Backfill, rows
  <1>4. CASE HeadFetch \/ BackfillFetch
    <2>1. pass' = [pass EXCEPT !.read = Flags(pass.todo)] /\ Answered(pass.todo)
      BY <1>4 DEF HeadFetch, BackfillFetch
    <2>2. /\ pass'.sel = pass.sel /\ pass'.list = pass.list /\ pass'.replay = pass.replay
          /\ pass'.applied = pass.applied /\ pass'.clean = pass.clean
          /\ pass'.read.uids \subseteq pHere
      BY <2>1 DEF TypeOK, Passes, Flags, Answered
    <2> QED BY <1>4, <2>2, ExpungeRead DEF HeadFetch, BackfillFetch, rows
  <1>5. CASE HeadWrite \/ BackfillWrite
    <2>1. folder' = [folder EXCEPT !.validity = pass.sel.validity]
      BY <1>5 DEF HeadWrite, BackfillWrite
    <2>2. folder'.validity = pass.sel.validity BY <2>1 DEF TypeOK, Folders
    <2> QED BY <1>5, <2>1, <2>2, ExpungeWrite DEF HeadWrite, BackfillWrite
  <1>6. CASE advanceInitialSyncLiveHead
    <2>1. folder'.qresync = folder.qresync /\ folder'.validity = folder.validity
      BY <1>6 DEF advanceInitialSyncLiveHead, TypeOK, Folders
    <2>2. /\ pass'.sel = pass.sel /\ pass'.list = pass.list /\ pass'.replay = pass.replay
          /\ pass'.applied = pass.applied /\ pass'.clean = pass.clean
      BY <1>6 DEF advanceInitialSyncLiveHead, TypeOK, Passes
    <2> QED BY <1>6, <2>1, <2>2, ExpungeRead DEF advanceInitialSyncLiveHead, rows
  <1>7. CASE advanceInitialSyncWatermark
    <2>1. folder'.qresync = folder.qresync /\ folder'.validity = folder.validity
      BY <1>7 DEF advanceInitialSyncWatermark, TypeOK, Folders
    <2>2. UNCHANGED <<provider, rows>> /\ pc = "backfillAdvance" BY <1>7 DEF advanceInitialSyncWatermark
    <2>3. CASE EndPass
      <3>1. pc' = "idle" /\ UNCHANGED <<provider, rows>> BY <2>2, <2>3 DEF EndPass
      <3>2. folder'.validity = folder.validity \/ (pc \notin Parked /\ folder'.validity = pass.sel.validity)
        BY <2>1
      <3> QED BY <2>1, <3>1, <3>2, ExpungeRest
    <2>4. CASE ~EndPass
      <3>1. pc' = "initialDone" /\ pass' = [pass EXCEPT !.todo = {}, !.read = NoRead]
        BY <1>7, <2>4 DEF advanceInitialSyncWatermark
      <3>2. /\ pass'.sel = pass.sel /\ pass'.list = pass.list /\ pass'.replay = pass.replay
            /\ pass'.applied = pass.applied /\ pass'.clean = pass.clean
        BY <3>1 DEF TypeOK, Passes
      <3> QED BY <2>1, <2>2, <3>1, <3>2, ExpungeRead DEF rows
    <2> QED BY <2>3, <2>4
  <1>8. CASE InitialDone
    <2>1. folder'.qresync = folder.qresync /\ folder'.validity = pass.sel.validity
      BY <1>8 DEF InitialDone, TypeOK, Folders
    <2>2. pc = "initialDone" /\ pc' = "idle" /\ UNCHANGED <<provider, rows>>
      BY <1>8 DEF InitialDone, EndPass
    <2> QED BY <2>1, <2>2, ExpungeRest
  <1> QED BY <1>1, <1>2, <1>3, <1>4, <1>5, <1>6, <1>7, <1>8 DEF Initial

-------------------------------------------------------------------------------
(* A complete folder: new mail, the replay, flags, the reconcile.          *)
LEMMA ExpungeNewMail ==
  ASSUME TypeOK, ExpungeInv, Search \/ Incremental \/ IncrementalWrite PROVE Cursors'
  <1> USE DEF Parked, Resting, WritePcs, GapPcs, ReplayPcs
  <1>1. CASE Search
    <2>1. /\ pass'.sel = pass.sel /\ pass'.list = pass.list /\ pass'.replay = pass.replay
          /\ pass'.applied = pass.applied /\ pass'.clean = pass.clean
      BY <1>1 DEF Search, TypeOK, Passes
    <2>2. /\ pc' \in {"incremental", "replay", "flags"}
          /\ pc' = "replay" => pass.replay.answer = "complete"
      BY <1>1 DEF Search, AfterNewMail
    <2> QED BY <1>1, <2>1, <2>2, ExpungeRead DEF Search, rows
  <1>2. CASE Incremental
    <2>1. PICK b \in SUBSET pass.todo : Answered(b) /\ pass' = [pass EXCEPT !.read = Flags(b)]
      BY <1>2 DEF Incremental
    <2>2. /\ pass'.sel = pass.sel /\ pass'.list = pass.list /\ pass'.replay = pass.replay
          /\ pass'.applied = pass.applied /\ pass'.clean = pass.clean
          /\ pass'.read.uids \subseteq pHere
      BY <2>1 DEF TypeOK, Passes, Flags, Answered
    <2> QED BY <1>2, <2>2, ExpungeRead DEF Incremental, rows
  <1>3. CASE IncrementalWrite
    <2>1. folder' = [folder EXCEPT !.validity = pass.sel.validity] BY <1>3 DEF IncrementalWrite
    <2>2. folder'.validity = pass.sel.validity BY <2>1 DEF TypeOK, Folders
    <2>3. PICK l, m, h, n : pass' = [pass EXCEPT !.todo = l, !.reached = m, !.read = NoRead, !.hit = h,
                                               !.batches = n]
      BY <1>3 DEF IncrementalWrite
    <2>4. /\ pass'.sel = pass.sel /\ pass'.list = pass.list /\ pass'.replay = pass.replay
          /\ pass'.applied = pass.applied /\ pass'.clean = pass.clean /\ pass'.complete = pass.complete
      BY <2>3 DEF TypeOK, Passes
    <2>5. /\ pc = "incrementalWrite" /\ pc' \in {"incremental", "replay", "flags"}
          /\ pc' = "replay" => pass.replay.answer = "complete"
          /\ UNCHANGED provider /\ Upsert(pass.read)
      BY <1>3 DEF IncrementalWrite, AfterNewMail
    <2> QED BY <2>1, <2>2, <2>4, <2>5, ExpungeWrite
  <1> QED BY <1>1, <1>2, <1>3

LEMMA ExpungeReplay ==
  ASSUME TypeOK, ExpungeInv, ReplayFlags \/ markVanishedMessages PROVE Cursors'
  <1> USE DEF Parked, Resting, WritePcs, GapPcs, ReplayPcs
  <1>1. CASE ReplayFlags
    <2>1. pass.replay.answer = "complete" BY <1>1 DEF ReplayFlags, ExpungeInv, ReplayComplete
    <2> QED BY <1>1, <2>1, ExpungeRead DEF ReplayFlags
  <1>2. CASE markVanishedMessages
    <2>1. /\ pc = "replayGone" /\ pc' = "flags" /\ UNCHANGED <<provider, folder>>
          /\ live' = live \ pass.replay.vanished
          /\ pass' = [pass EXCEPT !.applied = TRUE, !.replay = NoReplay]
          /\ pass.replay.answer = "complete"
      BY <1>2 DEF markVanishedMessages, ExpungeInv, ReplayComplete
    <2>2. /\ pass'.sel = pass.sel /\ pass'.list = pass.list /\ pass'.replay.answer # "complete"
      BY <2>1 DEF TypeOK, Passes, NoReplay
    <2>3. \A u \in live' : u \in pHere \/ pMod[u] > pass.sel.highest
      BY <2>1 DEF ExpungeInv, ReplayComplete, Fresh
    <2>4. Fresh({}) /\ (\A u \in {} : u < pNext) /\ live' \subseteq live \cup {} BY <2>1 DEF Fresh
    <2> QED BY <2>1, <2>2, <2>3, <2>4, ExpungeStep
  <1> QED BY <1>1, <1>2

LEMMA ExpungeFlags ==
  ASSUME TypeOK, ExpungeInv, FlagScan \/ DeltaWrite \/ WindowWrite PROVE Cursors'
  <1> USE DEF Parked, Resting, WritePcs, GapPcs, ReplayPcs
  <1>1. CASE FlagScan
    <2>1. PICK h, w, r : pass' = Decided(h, w) \/ pass' = [Decided(h, w) EXCEPT !.read = r]
      BY <1>1 DEF FlagScan
    <2>2. /\ pass'.sel = pass.sel /\ pass'.list = pass.list /\ pass'.replay.answer # "complete"
          /\ pass'.applied = pass.applied /\ pass'.clean = pass.clean
      <3>1. CASE pass' = Decided(h, w) BY <3>1 DEF Decided, NoReplay, TypeOK, Passes
      <3>2. CASE pass' = [Decided(h, w) EXCEPT !.read = r]
        BY <3>2 DEF Decided, NoReplay, TypeOK, Passes
      <3> QED BY <2>1, <3>1, <3>2
    <2>3. /\ pc = "flags" /\ pc' \in {"deltaWrite", "windowWrite", "reconcile"}
          /\ UNCHANGED <<provider, folder, rows>>
      BY <1>1 DEF FlagScan
    <2> QED BY <2>2, <2>3, ExpungeRead DEF rows
  <1>2. CASE DeltaWrite \/ WindowWrite
    <2>1. PICK r : pass' = [pass EXCEPT !.read = r] BY <1>2 DEF DeltaWrite, WindowWrite
    <2>2. /\ pass'.sel = pass.sel /\ pass'.list = pass.list /\ pass'.replay = pass.replay
          /\ pass'.applied = pass.applied /\ pass'.clean = pass.clean
      BY <2>1 DEF TypeOK, Passes
    <2>3. /\ pc \in {"deltaWrite", "windowWrite"} /\ pc' \in {"windowWrite", "reconcile"}
          /\ UNCHANGED <<provider, folder, live>>
      BY <1>2 DEF DeltaWrite, WindowWrite
    <2> QED BY <2>2, <2>3, ExpungeRead
  <1> QED BY <1>1, <1>2

(* The listing itself is read here, so ExpungeStep does not fit.           *)
LEMMA ExpungeList ==
  ASSUME TypeOK, ExpungeInv, Reconcile \/ CheckList PROVE Cursors'
  <1> USE DEF Parked, Resting, WritePcs, GapPcs, ReplayPcs
  <1>1. /\ pc \in {"reconcile", "listed"} /\ pc' \in {"listed", "finish", "tombstone"}
        /\ UNCHANGED <<provider, folder, rows>>
    BY DEF Reconcile, CheckList
  <1>2. /\ pass'.sel = pass.sel /\ pass'.replay = pass.replay
        /\ pass'.applied = pass.applied /\ pass'.clean = pass.clean
        /\ pass'.list = pass.list \/ pass'.list \subseteq pHere
    <2>1. CASE Reconcile
      <3>1. PICK hit \in LockBudget, list \in Listings :
              \/ pass' = [pass EXCEPT !.attempted = TRUE, !.list = list]
              \/ pass' = [pass EXCEPT !.hit = @ \/ hit]
        BY <2>1 DEF Reconcile
      <3>2. list \subseteq pHere BY DEF Listings
      <3>3. CASE pass' = [pass EXCEPT !.attempted = TRUE, !.list = list]
        BY <3>2, <3>3 DEF TypeOK, Passes
      <3>4. CASE pass' = [pass EXCEPT !.hit = @ \/ hit] BY <3>4 DEF TypeOK, Passes
      <3> QED BY <3>1, <3>3, <3>4
    <2>2. CASE CheckList
      <3>1. \/ pass' = [pass EXCEPT !.window = InWindow, !.complete = TRUE]
            \/ pass' = [pass EXCEPT !.list = {}]
        BY <2>2 DEF CheckList
      <3>2. CASE pass' = [pass EXCEPT !.window = InWindow, !.complete = TRUE]
        BY <3>2 DEF TypeOK, Passes
      <3>3. CASE pass' = [pass EXCEPT !.list = {}] BY <3>3 DEF TypeOK, Passes
      <3> QED BY <3>1, <3>2, <3>3
    <2> QED BY <2>1, <2>2
  <1>3. QresyncBounded' /\ RowsIssued' /\ ExpungeHonest'
    BY <1>1, <1>2 DEF ExpungeInv, QresyncBounded, RowsIssued, ExpungeHonest, provider, rows
  <1>4. ReadsFresh'
    <2>1. \A u \in pHere : u < pNext BY DEF ExpungeInv, Provided
    <2>2. CASE pass'.list = pass.list
      BY <1>1, <1>2, <2>2 DEF ExpungeInv, ReadsFresh, Fresh, provider
    <2>3. CASE pass'.list \subseteq pHere BY <1>1, <2>1, <2>3 DEF ReadsFresh, Fresh, provider
    <2> QED BY <1>2, <2>2, <2>3
  <1>5. ReplayComplete' BY <1>1, <1>2 DEF ExpungeInv, ReplayComplete, Fresh, provider, rows
  <1>6. ExpungesApplied' BY <1>1, <1>2 DEF ExpungeInv, ExpungesApplied, Fresh, provider, rows
  <1> QED BY <1>3, <1>4, <1>5, <1>6 DEF Cursors

(* A complete folder has a generation, the one the pass selected.          *)
LEMMA ListedGeneration ==
  ASSUME TypeOK, ExpungeInv, pc \in GapPcs PROVE folder.validity = pass.sel.validity
  BY DEF ExpungeInv, Stages, Selected, GapPcs, SteadyPcs, Resting

LEMMA ExpungeReconcile ==
  ASSUME TypeOK, ExpungeInv, Tombstone \/ Revive \/ GapFetch \/ GapWrite PROVE Cursors'
  <1> USE DEF Parked, Resting, WritePcs, GapPcs, ReplayPcs
  <1>0. Fresh({}) /\ \A u \in {} : u < pNext BY DEF Fresh
  <1>1. CASE Tombstone
    <2>1. PICK stop \in 0..MaxUid :
            LET written == {u \in Doomed : u <= stop} IN
              live' = live \ written /\ pass' = [pass EXCEPT !.complete = (written = Doomed)]
      BY <1>1 DEF Tombstone
    <2> DEFINE written == {u \in Doomed : u <= stop}
    <2>2. /\ pc = "tombstone" /\ pc' = "revive" /\ UNCHANGED <<provider, folder>>
          /\ folder.validity = pass.sel.validity
      BY <1>1 DEF Tombstone
    <2>3. /\ pass'.sel = pass.sel /\ pass'.list = pass.list /\ pass'.replay = pass.replay
          /\ pass'.applied = pass.applied /\ pass'.clean = pass.clean
          /\ pass'.complete => written = Doomed
      BY <2>1 DEF TypeOK, Passes
    <2>4. ASSUME NEW u \in live \ Doomed PROVE u \in pHere \/ pMod[u] > pass.sel.highest
      <3>1. u \in Uids /\ u \in Nat /\ pass.sel.next \in Nat BY Fields, UidsAreNat DEF TypeOK
      <3>2. CASE u \in pass.list BY <3>2 DEF ExpungeInv, ReadsFresh, Fresh
      <3>3. CASE u \notin pass.list
        <4>1. pass.sel.next <= u BY <3>1, <3>3 DEF Doomed
        <4>2. pass.sel.validity = pValidity BY <2>2 DEF ExpungeInv, Selected
        <4>3. u < pNext BY <2>2, <4>2 DEF ExpungeInv, RowsIssued
        <4> QED BY <2>2, <3>1, <4>1, <4>3 DEF ExpungeInv, Selected
      <3> QED BY <3>2, <3>3
    <2>5. pass'.complete => \A u \in live' : u \in pHere \/ pMod[u] > pass.sel.highest
      BY <2>1, <2>3, <2>4
    <2>6. live' \subseteq live \cup {} BY <2>1
    <2> QED BY <1>0, <2>2, <2>3, <2>5, <2>6, ExpungeStep
  <1>2. CASE Revive
    <2>1. PICK stop \in IF pass.complete THEN 0..MaxUid ELSE {0} :
            LET revived == {u \in Revivable : u <= stop} IN
              /\ live' = live \cup revived
              /\ \E first \in SUBSET Gap :
                   pass' = [pass EXCEPT !.complete = @ /\ revived = Revivable /\ first = Gap,
                                        !.window = first, !.list = {}]
      BY <1>2 DEF Revive
    <2> DEFINE revived == {u \in Revivable : u <= stop}
    <2>2. /\ pc = "revive" /\ pc' = "gap" /\ UNCHANGED <<provider, folder>>
      BY <1>2 DEF Revive
    <2>3. /\ pass'.sel = pass.sel /\ pass'.list = {} /\ pass'.replay = pass.replay
          /\ pass'.applied = pass.applied /\ pass'.clean = pass.clean
          /\ pass'.complete => pass.complete
      BY <2>1 DEF TypeOK, Passes
    <2>4. /\ revived \in SUBSET Uids /\ Fresh(revived) /\ \A u \in revived : u < pNext
      BY Fields DEF Revivable, ExpungeInv, ReadsFresh, Fresh
    <2>5. folder.validity = pass.sel.validity
      BY <2>2, ListedGeneration
    <2> QED BY <2>1, <2>2, <2>3, <2>4, <2>5, ExpungeStep
  <1>3. CASE GapFetch
    <2>1. \/ pass' = [pass EXCEPT !.clean = ~pass.hit /\ pass.complete, !.window = {}] /\ pc' = "finish"
          \/ /\ \E b \in SUBSET pass.window : Answered(b) /\ pass' = [pass EXCEPT !.read = Flags(b)]
             /\ pc' = "gapWrite"
      BY <1>3 DEF GapFetch
    <2>2. pc = "gap" /\ UNCHANGED <<provider, folder, rows>> BY <1>3 DEF GapFetch
    <2>3. pass.complete => \A u \in live : u \in pHere \/ pMod[u] > pass.sel.highest
      BY <2>2 DEF ExpungeInv, ExpungesApplied, Fresh
    <2>4. live' \subseteq live \cup {} BY <2>2 DEF rows
    <2>5. CASE pc' = "finish"
      <3>1. pass' = [pass EXCEPT !.clean = ~pass.hit /\ pass.complete, !.window = {}] BY <2>1, <2>5
      <3>2. /\ pass'.sel = pass.sel /\ pass'.list = pass.list /\ pass'.replay = pass.replay
            /\ pass'.applied = pass.applied
            /\ pass'.clean => pass.complete
        BY <3>1 DEF TypeOK, Passes
      <3> QED BY <1>0, <2>2, <2>3, <2>4, <2>5, <3>2, ExpungeStep DEF rows
    <2>6. CASE pc' = "gapWrite"
      <3>1. PICK b \in SUBSET pass.window : Answered(b) /\ pass' = [pass EXCEPT !.read = Flags(b)]
        BY <2>1, <2>6
      <3>2. /\ pass'.sel = pass.sel /\ pass'.list = pass.list /\ pass'.replay = pass.replay
            /\ pass'.applied = pass.applied /\ pass'.clean = pass.clean
            /\ pass'.complete = pass.complete /\ pass'.read.uids \subseteq pHere
        BY <3>1 DEF TypeOK, Passes, Flags, Answered
      <3> QED BY <1>0, <2>2, <2>4, <2>6, <3>2, ExpungeStep
    <2> QED BY <2>1, <2>5, <2>6
  <1>4. CASE GapWrite
    <2>1. PICK hit \in LockBudget :
            pass' = [pass EXCEPT !.window = @ \ pass.read.uids, !.read = NoRead, !.hit = hit]
      BY <1>4 DEF GapWrite
    <2>2. /\ pass'.sel = pass.sel /\ pass'.list = pass.list /\ pass'.replay = pass.replay
          /\ pass'.applied = pass.applied /\ pass'.clean = pass.clean
          /\ pass'.complete = pass.complete
      BY <2>1 DEF TypeOK, Passes
    <2>3. pc = "gapWrite" /\ pc' = "gap" /\ UNCHANGED <<provider, folder>> /\ Upsert(pass.read)
      BY <1>4 DEF GapWrite
    <2>4. folder'.validity = pass.sel.validity BY <2>3, ListedGeneration
    <2> QED BY <2>2, <2>3, <2>4, ExpungeWrite
  <1> QED BY <1>1, <1>2, <1>3, <1>4

-------------------------------------------------------------------------------
(* The write at the end, and every step together.                          *)
LEMMA ExpungeFinish ==
  ASSUME TypeOK, ExpungeInv, Finish, Stages' PROVE Cursors'
  <1>1. /\ pc = "finish" /\ pc' = "idle" /\ UNCHANGED <<provider, rows>>
        /\ pass' = NewPass(pass'.opt)
    BY DEF Finish, EndPass, NoPass, NewPass
  <1>2. /\ folder'.validity = pass.sel.validity
        /\ folder'.qresync = IF storesQresync THEN pass.sel.highest ELSE folder.qresync
    BY DEF Finish, TypeOK, Folders
  <1>3. /\ pass.sel.validity = pValidity /\ folder.validity = pValidity
        /\ pass.sel.highest <= pHighest
    BY <1>1 DEF ExpungeInv, Selected, Stages, SteadyPcs, Resting
  <1>4. storesQresync => Fresh(live)
    BY <1>1 DEF ExpungeInv, ExpungesApplied, storesQresync, Resting
  <1>5. pValidity # None BY DEF TypeOK, None
  <1>6. QresyncBounded'
    BY <1>1, <1>2, <1>3, <1>5 DEF ExpungeInv, QresyncBounded, Resting, provider
  <1>7. RowsIssued' BY <1>1, <1>2, <1>3, <1>5 DEF ExpungeInv, RowsIssued, provider, rows
  <1>8. ExpungeHonest'
    <2>1. CASE storesQresync
      BY <1>1, <1>2, <1>4, <2>1 DEF ExpungeHonest, Fresh, provider, rows
    <2>2. CASE ~storesQresync
      BY <1>1, <1>2, <1>3, <2>2 DEF ExpungeInv, ExpungeHonest, provider, rows
    <2> QED BY <2>1, <2>2
  <1>9. pass'.list = {} BY <1>1 DEF NewPass
  <1>10. ReadsFresh' /\ ReplayComplete' /\ ExpungesApplied'
    BY <1>1, <1>9 DEF ReadsFresh, Fresh, ReplayComplete, ExpungesApplied, Resting
  <1> QED BY <1>6, <1>7, <1>8, <1>10 DEF Cursors

LEMMA ExpungeInit == Init => Cursors
  <1> SUFFICES ASSUME Init PROVE Cursors OBVIOUS
  <1>1. pc = "idle" /\ pass.list = {} /\ folder.qresync = None /\ live = {}
    BY DEF Init, NoPass, NewPass, NewFolder
  <1> QED BY <1>1 DEF Cursors, QresyncBounded, RowsIssued, ReadsFresh, Fresh, ReplayComplete,
                      ExpungesApplied, ExpungeHonest, Resting

LEMMA ExpungeSteps ==
  TypeOK /\ ExpungeInv /\ [Next]_vars /\ Stages' => Cursors'
  <1> SUFFICES ASSUME TypeOK, ExpungeInv, [Next]_vars, Stages' PROVE Cursors' OBVIOUS
  <1>1. CASE Provider BY <1>1, ExpungeProvider
  <1>2. CASE Initial BY <1>2, ExpungeInitial
  <1>3. CASE Steady
    BY <1>3, ExpungeNewMail, ExpungeReplay, ExpungeFlags, ExpungeList, ExpungeReconcile, ExpungeFinish
    DEF Steady
  <1>4. CASE Select \/ handleUidValidityReset BY <1>4, ExpungeSelect, ExpungeReset
  <1>5. CASE StartPass \/ FetchIncomplete \/ Fail
    <2>1. pc' \in Resting /\ UNCHANGED <<provider, folder, rows>>
      BY <1>5 DEF StartPass, FetchIncomplete, Fail, EndPass, Resting
    <2> QED BY <2>1, ExpungeRest
  <1>6. CASE AuditFallsDue
    <2>1. folder'.qresync = folder.qresync /\ folder'.validity = folder.validity
      BY <1>6 DEF AuditFallsDue, TypeOK, Folders
    <2> QED BY <1>6, <2>1, ExpungeBeside DEF AuditFallsDue, rows
  <1>7. CASE \E u \in live : markMessageGone(u) BY <1>7, ExpungeBeside DEF markMessageGone
  <1>8. CASE UNCHANGED vars BY <1>8, ExpungeBeside DEF vars, rows
  <1> QED BY <1>1, <1>2, <1>3, <1>4, <1>5, <1>6, <1>7, <1>8 DEF Next, Mirror, PassStep

(* The inductive invariant of the expunge cursor holds of every behaviour. *)
THEOREM ExpungeInvariant == Spec => []ExpungeInv
  <1>1. TypeOK /\ MailInv /\ Cursors => ExpungeInv BY DEF MailInv, Cursors, ExpungeInv
  <1>2. Init => Cursors BY ExpungeInit
  <1>3. TypeOK /\ MailInv /\ Cursors /\ [Next]_vars /\ MailInv' => Cursors'
    BY <1>1, ExpungeSteps DEF MailInv
  <1> QED BY <1>1, <1>2, <1>3, TypeCorrect, MailInvariant, PTL DEF Spec

(* A stored qresync cursor never passes over an expunge the mirror has not *)
(* applied (syncFolder's applied replay, reconcileFolderUids).             *)
THEOREM ExpungeCursorHonestHolds == Spec => []ExpungeCursorHonest
  <1>1. ExpungeInv => ExpungeCursorHonest
    BY DEF ExpungeInv, ExpungeHonest, QresyncBounded, ExpungeCursorHonest, Current
  <1> QED BY <1>1, ExpungeInvariant, PTL

-------------------------------------------------------------------------------
(* 4. The flag cursor, the unchanged proof, the tombstones.                 *)

Running == SteadyPcs \ {"search"}
ListPcs == {"tombstone", "revive"}

(* The part of FlagInv that is about the folder row and the answers in     *)
(* hand, and the part that depends on the pass's place.                    *)
FlagBase == FlagsBounded /\ FlagHonest /\ NextReached /\ ReadsTruthful /\ VanishedGone
FlagPlace == NewMailShown /\ ScanShown /\ ListedWindow /\ ListExact

(* A step leaves each window row as it was, or right as of SELECT.         *)
RowsKept ==
  \A u \in live' \cap InWindow : pMod[u] <= pass.sel.highest =>
    \/ u \in live /\ (u \in seen' <=> u \in seen)
    \/ u \in seen' <=> u \in pSeen

LEMMA ShownKept ==
  ASSUME TypeOK, RowsKept, NEW S, NEW T \in SUBSET live', T \cap live \subseteq S,
         NEW m \in Nat, m <= pass.sel.highest, Shown(S, m)
  PROVE  \A u \in T \cap InWindow : pMod[u] <= m => (u \in seen' <=> u \in pSeen)
  <1> SUFFICES ASSUME NEW u \in T \cap InWindow, pMod[u] <= m PROVE u \in seen' <=> u \in pSeen
    OBVIOUS
  <1>1. pMod[u] \in Nat /\ pass.sel.highest \in Nat BY Fields DEF TypeOK, InWindow
  <1>2. pMod[u] <= pass.sel.highest BY <1>1
  <1>3. \/ u \in live /\ (u \in seen' <=> u \in seen)
        \/ u \in seen' <=> u \in pSeen
    BY <1>2 DEF RowsKept
  <1>4. u \in live => (u \in seen <=> u \in pSeen) BY DEF Shown
  <1> QED BY <1>3, <1>4

LEMMA SameRowsKept == ASSUME live' \subseteq live, seen' = seen PROVE RowsKept
  BY DEF RowsKept

LEMMA UpsertKept == ASSUME Upsert(pass.read), Truthful(pass.read) PROVE RowsKept
  <1> SUFFICES ASSUME NEW u \in live' \cap InWindow, pMod[u] <= pass.sel.highest
               PROVE  \/ u \in live /\ (u \in seen' <=> u \in seen)
                      \/ u \in seen' <=> u \in pSeen
    BY DEF RowsKept
  <1>1. u \in pHere BY DEF InWindow
  <1>2. /\ live' = live \cup pass.read.uids
        /\ seen' = (seen \ pass.read.uids) \cup pass.read.seen
        /\ pass.read.seen \subseteq pass.read.uids
    BY DEF Upsert, Truthful
  <1>3. CASE u \in pass.read.uids
    <2>1. u \in pass.read.seen <=> u \in pSeen BY <1>1, <1>3 DEF Truthful
    <2> QED BY <1>2, <1>3, <2>1
  <1>4. CASE u \notin pass.read.uids BY <1>2, <1>4
  <1> QED BY <1>3, <1>4

(* A flag write keeps the rows, and those it names are right.              *)
LEMMA WriteKept ==
  ASSUME NEW b, Truthful(b), WriteFlags(b), live' = live
  PROVE  /\ RowsKept
         /\ \A u \in live \cap InWindow : u \in b.uids /\ pMod[u] <= pass.sel.highest
              => (u \in seen' <=> u \in pSeen)
         /\ \A u \in live : u \notin b.uids => (u \in seen' <=> u \in seen)
  <1>1. /\ seen' = (seen \ (b.uids \cap live)) \cup (b.seen \cap live) /\ b.seen \subseteq b.uids
    BY DEF WriteFlags, Truthful
  <1>2. ASSUME NEW u \in live \cap InWindow, u \in b.uids, pMod[u] <= pass.sel.highest
        PROVE  u \in seen' <=> u \in pSeen
    <2>1. u \in b.seen <=> u \in pSeen BY <1>2 DEF Truthful, InWindow
    <2>2. u \in seen' <=> u \in b.seen BY <1>1, <1>2
    <2> QED BY <2>1, <2>2
  <1>3. ASSUME NEW u \in live, u \notin b.uids PROVE u \in seen' <=> u \in seen
    BY <1>1, <1>3
  <1>4. RowsKept BY <1>2, <1>3 DEF RowsKept
  <1> QED BY <1>2, <1>3, <1>4

(* What is read now is right now.                                          *)
LEMMA ReadTruthful ==
  /\ \A S : Truthful(Flags(S))
  /\ Truthful(NoRead)
  BY DEF Truthful, Flags, NoRead

-------------------------------------------------------------------------------
(* A step of a running pass that stays in it.                              *)
LEMMA FlagBaseStep ==
  ASSUME TypeOK, ExpungeInv, FlagInv, pc \notin Parked, UNCHANGED provider, RowsKept,
         folder'.highest = folder.highest, folder'.complete = folder.complete,
         folder.complete => folder'.last = folder.last /\ folder'.next = folder.next,
         folder'.validity \in {folder.validity, pass.sel.validity},
         pass'.sel = pass.sel, pass'.replay \in {pass.replay, NoReplay},
         pass'.read = pass.read \/ pass'.read = NoRead \/ \E S : pass'.read = Flags(S)
  PROVE  FlagBase'
  <1> USE DEF provider
  <1>1. /\ pass.sel.validity = pValidity /\ folder.validity \in {None, pValidity}
        /\ pc \notin Resting
    BY DEF ExpungeInv, Selected, Parked
  <1>2. /\ folder.highest # None => folder.complete /\ folder.highest <= pass.sel.highest
        /\ folder.complete => folder.validity = pValidity
    BY <1>1 DEF ExpungeInv, Stages, FlagInv, FlagsBounded, Parked
  <1>3. FlagsBounded'
    BY <1>1, <1>2 DEF FlagInv, FlagsBounded, Parked
  <1>4. FlagHonest'
    <2> SUFFICES ASSUME folder.highest # None
                 PROVE  \A u \in Synced' \cap InWindow' :
                          pMod[u] <= folder.highest => (u \in seen' <=> u \in pSeen)
      BY DEF FlagHonest, Shown
    <2>1. Shown(Synced, folder.highest) BY <1>2 DEF FlagInv, FlagHonest
    <2>2. Synced' \in SUBSET live' /\ Synced' \cap live \subseteq Synced /\ InWindow' = InWindow
      BY <1>2 DEF Synced, InWindow
    <2>3. folder.highest \in Nat BY Fields
    <2> QED BY <1>2, <2>1, <2>2, <2>3, ShownKept
  <1>5. ReadsTruthful'
    <2>1. Truthful(pass.read) /\ Truthful(pass.replay.changed)
      BY <1>1 DEF FlagInv, ReadsTruthful
    <2>2. Truthful(pass'.read) BY <2>1, ReadTruthful
    <2>3. Truthful(pass'.replay.changed) BY <2>1, ReadTruthful DEF NoReplay
    <2> QED BY <2>2, <2>3 DEF ReadsTruthful, Truthful
  <1>6. VanishedGone' BY <1>1 DEF FlagInv, VanishedGone, NoReplay
  <1>7. NextReached' BY <1>2 DEF FlagInv, NextReached
  <1> QED BY <1>3, <1>4, <1>5, <1>6, <1>7 DEF FlagBase

(* Before the new mail is searched nothing depends on the place.           *)
LEMMA FlagPlaceEarly == pc' \notin Running => FlagPlace'
  BY DEF FlagPlace, NewMailShown, ScanShown, ScanPcs, ScannedPcs, ListedWindow, ListExact, Running,
         SteadyPcs

(* A pass starts or ends, at most confirming the generation.               *)
LEMMA FlagRest ==
  ASSUME TypeOK, ExpungeInv, FlagInv, UNCHANGED <<provider, rows>>, pc' \in Resting,
         folder'.highest = folder.highest,
         folder.complete => /\ folder'.complete
                            /\ folder'.last = folder.last /\ folder'.next = folder.next,
         folder'.complete /\ ~folder.complete => NextReached',
         folder'.validity = folder.validity
           \/ (pc \notin Parked /\ folder'.validity = pass.sel.validity)
  PROVE  FlagInv'
  <1> USE DEF provider, rows
  <1>1. pc \notin Parked => pass.sel.validity = pValidity /\ folder.validity \in {None, pValidity}
    BY DEF ExpungeInv, Selected, Parked
  <1>2. /\ folder.complete /\ folder'.validity = pValidity => folder.validity = pValidity
        /\ folder.highest # None => folder.complete
    BY <1>1 DEF ExpungeInv, Stages, FlagInv, FlagsBounded
  <1>3. FlagsBounded' BY <1>2 DEF FlagInv, FlagsBounded, Resting
  <1>4. FlagHonest' BY <1>2 DEF FlagInv, FlagHonest, Shown, Synced, InWindow
  <1>7. NextReached'
    <2>1. CASE folder.complete BY <1>2, <2>1 DEF FlagInv, NextReached
    <2>2. CASE ~folder.complete BY <2>2 DEF NextReached
    <2> QED BY <2>1, <2>2
  <1>5. ReadsTruthful' /\ VanishedGone' BY DEF ReadsTruthful, VanishedGone
  <1>6. FlagPlace' BY FlagPlaceEarly DEF Resting, Running, SteadyPcs
  <1> QED BY <1>3, <1>4, <1>5, <1>6, <1>7 DEF FlagPlace, FlagInv

(* A step beside the pass: rows go, an audit falls due, mail ages.         *)
LEMMA FlagBeside ==
  ASSUME TypeOK, FlagInv,
         UNCHANGED <<pValidity, pNext, pHere, pSeen, pMod, pHighest, pc, pass, seen>>,
         InWindow' \subseteq InWindow, live' \subseteq live,
         folder'.highest = folder.highest, folder'.validity = folder.validity,
         folder'.last = folder.last, folder'.next = folder.next, folder'.complete = folder.complete
  PROVE  FlagInv'
  <1>1. FlagsBounded' BY DEF FlagInv, FlagsBounded
  <1>2. FlagHonest' /\ NextReached' BY DEF FlagInv, FlagHonest, Shown, Synced, NextReached
  <1>3. ReadsTruthful' /\ VanishedGone'
    BY DEF FlagInv, ReadsTruthful, VanishedGone, Truthful
  <1>4. NewMailShown' BY DEF FlagInv, NewMailShown, Shown, Listed
  <1>5. ScanShown' BY DEF FlagInv, ScanShown, Shown, Synced
  <1>6. ListedWindow' BY DEF FlagInv, ListedWindow
  <1>7. ListExact' BY DEF FlagInv, ListExact, ExpungedSinceSelect
  <1> QED BY <1>1, <1>2, <1>3, <1>4, <1>5, <1>6, <1>7 DEF FlagInv

(* The provider touches u: everything it changes gets the newest MODSEQ.   *)
LEMMA FlagTouch ==
  ASSUME TypeOK, MailInv, ExpungeInv, FlagInv, NEW u \in Uids, Touch(u), u \in pHere \/ u = pNext,
         pHere' \subseteq pHere \cup {u}, pNext <= pNext', pNext' \in Nat, pHere \ {u} \subseteq pHere',
         pSeen' \ {u} = pSeen \ {u}, InWindow' \subseteq InWindow \cup {u},
         u \in pHere => InWindow' \subseteq InWindow, UNCHANGED <<pValidity, folder, rows, pc, pass>>
  PROVE  FlagInv'
  <1> USE DEF rows
  <1>1. /\ pHighest' = pHighest + 1 /\ pHighest \in Nat
        /\ \A v \in Uids : pMod[v] \in Nat /\ pMod'[v] = IF v = u THEN pHighest + 1 ELSE pMod[v]
        /\ pNext \in Nat /\ u \in Nat /\ pHere \in SUBSET Uids /\ live \in SUBSET Uids
        /\ pass.sel.highest \in Nat /\ folder.highest \in Nat \cup {None}
        /\ pass.todo \in SUBSET Uids /\ pass.list \in SUBSET Uids
        /\ \A v \in Uids : v \in Nat
    BY Fields, UidsAreNat DEF Touch, TypeOK
  <1>2. pc \notin Resting => pass.sel.highest <= pHighest /\ pass.sel.next <= pNext
    BY DEF ExpungeInv, Selected
  <1>3. ASSUME NEW S \in SUBSET live, NEW m \in Nat, m <= pHighest, Shown(S, m)
        PROVE  \A v \in S \cap InWindow' : pMod'[v] <= m => (v \in seen <=> v \in pSeen')
    <2> SUFFICES ASSUME NEW v \in S \cap InWindow', pMod'[v] <= m PROVE v \in seen <=> v \in pSeen'
      OBVIOUS
    <2>1. v \in Uids BY <1>1
    <2>2. v # u /\ pMod'[v] = pMod[v] BY <1>1, <1>3, <2>1
    <2> QED BY <1>3, <2>2 DEF Shown
  <1>4. FlagsBounded' BY <1>1 DEF FlagInv, FlagsBounded
  <1>5. FlagHonest'
    <2> SUFFICES ASSUME folder.highest # None, folder.validity = pValidity
                 PROVE  Shown(Synced, folder.highest)'
      BY DEF FlagHonest
    <2>1. /\ Shown(Synced, folder.highest) /\ folder.highest <= pHighest /\ folder.highest \in Nat
      BY <1>1 DEF FlagInv, FlagHonest, FlagsBounded
    <2>2. Synced \in SUBSET live /\ Synced' = Synced BY DEF Synced
    <2> QED BY <1>3, <2>1, <2>2 DEF Shown
  <1>13. NextReached'
    <2>1. folder.next \in Nat \cup {None} /\ None \in Int BY DEF TypeOK, Folders, None
    <2> SUFFICES ASSUME folder.complete, folder.validity = pValidity
                 PROVE  folder.next <= pNext' /\ \A v \in pHere' : v < folder.next => v <= folder.last
      BY DEF NextReached
    <2>2. folder.next <= pNext /\ \A v \in pHere : v < folder.next => v <= folder.last
      BY DEF FlagInv, NextReached
    <2> QED BY <1>1, <2>1, <2>2
  <1>6. ASSUME pc \notin Resting, NEW b, b.uids \in SUBSET Uids, Truthful(b)
        PROVE  \A v \in b.uids \cap pHere' :
                 pMod'[v] <= pass.sel.highest => (v \in b.seen <=> v \in pSeen')
    <2> SUFFICES ASSUME NEW v \in b.uids \cap pHere', pMod'[v] <= pass.sel.highest
                 PROVE  v \in b.seen <=> v \in pSeen'
      OBVIOUS
    <2>0. v \in Uids BY <1>6
    <2>1. v # u /\ pMod'[v] = pMod[v] /\ v \in pHere BY <1>1, <1>2, <1>6, <2>0
    <2> QED BY <1>6, <2>1 DEF Truthful
  <1>7. ReadsTruthful'
    <2> SUFFICES ASSUME pc \notin Resting
                 PROVE  Truthful(pass.read)' /\ Truthful(pass.replay.changed)'
      BY DEF ReadsTruthful
    <2>1. Truthful(pass.read) /\ Truthful(pass.replay.changed) BY DEF FlagInv, ReadsTruthful
    <2>2. pass.read.uids \in SUBSET Uids /\ pass.replay.changed.uids \in SUBSET Uids BY Fields
    <2> QED BY <1>6, <2>1, <2>2 DEF Truthful
  <1>8. VanishedGone'
    <2> SUFFICES ASSUME pc \notin Resting, NEW v \in pass.replay.vanished
                 PROVE  v \notin pHere' /\ v < pNext'
      BY DEF VanishedGone
    <2>1. v \in Uids /\ v \in Nat BY Fields, UidsAreNat
    <2>2. v \notin pHere /\ v < pNext BY DEF FlagInv, VanishedGone
    <2>3. v # u BY <1>1, <2>1, <2>2
    <2> QED BY <1>1, <2>1, <2>2, <2>3
  <1>9. NewMailShown'
    <2> SUFFICES ASSUME pc \in Running
                 PROVE  /\ Shown({v \in live : folder.last < v /\ v <= pass.reached}, pass.sel.highest)'
                        /\ \A v \in pHere' :
                             folder.last < v /\ pass.reached < v /\ Listed(v) => v \in pass.todo
      BY DEF NewMailShown, Running, Listed
    <2>1. pc \notin Resting BY DEF Running, SteadyPcs, Resting
    <2>2. \A w \in pass.todo : w < pNext BY DEF MailInv, NewMail, Running
    <2>3. /\ Shown({v \in live : folder.last < v /\ v <= pass.reached}, pass.sel.highest)
          /\ \A v \in pHere : folder.last < v /\ pass.reached < v /\ Listed(v) => v \in pass.todo
      BY DEF FlagInv, NewMailShown, Running
    <2>4. Shown({v \in live : folder.last < v /\ v <= pass.reached}, pass.sel.highest)'
      <3> DEFINE T == {v \in live : folder.last < v /\ v <= pass.reached}
      <3>1. T \in SUBSET live /\ T' = T OBVIOUS
      <3> HIDE DEF T
      <3>2. \A v \in T \cap InWindow' : pMod'[v] <= pass.sel.highest => (v \in seen <=> v \in pSeen')
        BY <1>1, <1>2, <1>3, <2>1, <2>3, <3>1 DEF T
      <3> QED BY <3>1, <3>2 DEF Shown, T
    <2>5. ASSUME NEW v \in pHere', folder.last < v, pass.reached < v, Listed(v)
          PROVE  v \in pass.todo
      <3>1. CASE v \in pHere BY <2>3, <2>5, <3>1
      <3>2. CASE v = u /\ u = pNext
        <4>1. ~(v < pass.sel.next) BY <1>1, <1>2, <2>1, <3>2, Fields
        <4>2. PICK w \in pass.todo : v <= w BY <2>5, <4>1 DEF Listed
        <4>3. w \in Nat /\ w < pNext BY <1>1, <2>2
        <4> QED BY <1>1, <3>2, <4>2, <4>3
      <3> QED BY <3>1, <3>2
    <2> QED BY <2>4, <2>5
  <1>10. ScanShown'
    <2>1. pc \in ScanPcs \cup ScannedPcs => pc \notin Resting BY DEF ScanPcs, ScannedPcs, Resting
    <2>2. ASSUME pc \notin Resting, NEW S \in SUBSET live, Shown(S, pass.sel.highest)
          PROVE  \A v \in S \cap InWindow' : pMod'[v] <= pass.sel.highest => (v \in seen <=> v \in pSeen')
      BY <1>1, <1>2, <1>3, <2>2
    <2>3. Synced \in SUBSET live /\ Synced' = Synced BY DEF Synced
    <2>4. ASSUME pc \in ScanPcs
          PROVE  pass.scanned /\ Shown(Synced \ pass.read.uids, pass.sel.highest)'
      <3>1. pass.scanned /\ Shown(Synced \ pass.read.uids, pass.sel.highest)
        BY <2>4 DEF FlagInv, ScanShown
      <3>2. Synced \ pass.read.uids \in SUBSET live BY <2>3
      <3>3. \A v \in (Synced \ pass.read.uids) \cap InWindow' :
              pMod'[v] <= pass.sel.highest => (v \in seen <=> v \in pSeen')
        BY <2>1, <2>2, <2>4, <3>1, <3>2
      <3> QED BY <2>3, <3>1, <3>3 DEF Shown
    <2>5. ASSUME pc \in ScannedPcs, pass.scanned PROVE Shown(Synced, pass.sel.highest)'
      <3>1. Shown(Synced, pass.sel.highest) BY <2>5 DEF FlagInv, ScanShown
      <3>2. \A v \in Synced \cap InWindow' :
              pMod'[v] <= pass.sel.highest => (v \in seen <=> v \in pSeen')
        BY <2>1, <2>2, <2>3, <2>5, <3>1
      <3> QED BY <2>3, <3>2 DEF Shown
    <2> QED BY <2>4, <2>5 DEF ScanShown
  <1>11. ListedWindow'
    <2>1. \A v \in pass.list : v < pNext BY DEF ExpungeInv, ReadsFresh
    <2>2. CASE u \in pHere BY <2>2 DEF FlagInv, ListedWindow
    <2>3. CASE u = pNext BY <1>1, <2>1, <2>3 DEF FlagInv, ListedWindow
    <2> QED BY <2>2, <2>3
  <1>12. ListExact'
    <2> SUFFICES ASSUME pc = "tombstone", ~ExpungedSinceSelect', NEW v \in pHere', v < pass.sel.next
                 PROVE  v \in pass.list
      BY DEF ListExact
    <2>1. pc \notin Resting BY DEF Resting
    <2>2. ~ExpungedSinceSelect
      <3> SUFFICES ASSUME NEW w \in Uids, w < pNext, w \notin pHere, pMod[w] > pass.sel.highest
                   PROVE  FALSE
        BY DEF ExpungedSinceSelect
      <3>1. w # u BY <1>1
      <3>2. w < pNext' /\ w \notin pHere' /\ pMod'[w] > pass.sel.highest BY <1>1, <3>1
      <3> QED BY <3>2 DEF ExpungedSinceSelect
    <2>3. v # pNext BY <1>1, <1>2, <2>1, Fields
    <2> QED BY <1>1, <2>2, <2>3 DEF FlagInv, ListExact
  <1> QED BY <1>4, <1>5, <1>7, <1>8, <1>9, <1>10, <1>11, <1>12, <1>13 DEF FlagInv

LEMMA FlagProvider ==
  ASSUME TypeOK, MailInv, ExpungeInv, FlagInv, Provider PROVE FlagInv'
  <1>0. pNext \in Nat /\ pHere \in SUBSET Uids BY DEF TypeOK
  <1>1. CASE Arrive
    <2>1. pNext \in Uids BY <1>1, BoundsAssumption DEF Arrive, TypeOK, Uids
    <2>2. /\ Touch(pNext) /\ pNext' = pNext + 1 /\ pHere' = pHere \cup {pNext}
          /\ pOld' = pOld \/ pOld' = pOld \cup {pNext}
          /\ pSeen' = pSeen \/ pSeen' = pSeen \cup {pNext}
          /\ UNCHANGED <<pValidity, folder, rows, pc, pass>>
      BY <1>1 DEF Arrive
    <2>3. /\ pSeen' \ {pNext} = pSeen \ {pNext}
          /\ InWindow' \subseteq InWindow \cup {pNext} /\ pNext \notin pHere
      BY <2>2, <1>0 DEF InWindow, ExpungeInv, Provided
    <2> QED BY <1>0, <2>1, <2>2, <2>3, FlagTouch
  <1>2. CASE Recreate
    <2>1. /\ pc \in Resting /\ pValidity' = pValidity + 1
          /\ UNCHANGED <<folder, rows, pc, pass>>
      BY <1>2 DEF Recreate, Resting
    <2>2. pValidity \in Nat /\ folder.validity \in Nat \cup {None} BY Fields DEF TypeOK
    <2>3. folder.validity # pValidity' BY <2>1, <2>2 DEF ExpungeInv, Provided, None
    <2>4. FlagsBounded' /\ FlagHonest' /\ NextReached'
      BY <2>1, <2>3 DEF FlagInv, FlagsBounded, FlagHonest, NextReached
    <2>5. ReadsTruthful' /\ VanishedGone' BY <2>1 DEF ReadsTruthful, VanishedGone
    <2>6. FlagPlace' BY <2>1, FlagPlaceEarly DEF Resting, Running, SteadyPcs
    <2> QED BY <2>4, <2>5, <2>6 DEF FlagPlace, FlagInv
  <1>3. ASSUME NEW u \in pHere, Expunge(u) PROVE FlagInv'
    <2>1. /\ Touch(u) /\ pHere' = pHere \ {u} /\ pSeen' = pSeen \ {u} /\ pOld' = pOld \ {u}
          /\ UNCHANGED <<pValidity, pNext, folder, rows, pc, pass>>
      BY <1>3 DEF Expunge
    <2>2. InWindow' \subseteq InWindow BY <2>1 DEF InWindow
    <2> QED BY <1>0, <2>1, <2>2, FlagTouch
  <1>4. ASSUME NEW u \in pHere, ChangeFlag(u) PROVE FlagInv'
    <2>1. /\ Touch(u) /\ pHere' = pHere /\ pSeen' \ {u} = pSeen \ {u} /\ pOld' = pOld
          /\ UNCHANGED <<pValidity, pNext, folder, rows, pc, pass>>
      BY <1>4 DEF ChangeFlag
    <2>2. InWindow' \subseteq InWindow BY <2>1 DEF InWindow
    <2> QED BY <1>0, <2>1, <2>2, FlagTouch
  <1>5. ASSUME NEW u \in pHere, AgeOut(u) PROVE FlagInv'
    <2>1. InWindow' \subseteq InWindow BY <1>5 DEF AgeOut, InWindow
    <2> QED BY <1>5, <2>1, FlagBeside DEF AgeOut, rows
  <1> QED BY <1>1, <1>2, <1>3, <1>4, <1>5 DEF Provider

(* SELECT starts the running pass: no cursor is ahead of it.               *)
LEMMA FlagSelect ==
  ASSUME TypeOK, ExpungeInv, FlagInv, Select PROVE FlagInv'
  <1>1. /\ pc = "select" /\ UNCHANGED <<provider, folder, rows, head>>
        /\ pc' \in {"reset", "search", "snapshot", "candidates"}
        /\ pc' # "reset" => folder.validity \in {None, pValidity}
    BY DEF Select
  <1>2. PICK r \in IF qresyncWanted(pass.opt) /\ folder.validity = pValidity THEN Replays ELSE {NoReplay} :
          pass' = [pass EXCEPT !.sel = [validity |-> pValidity, next |-> pNext, highest |-> pHighest],
                               !.replay = r]
    BY DEF Select
  <1>3. pass'.sel.highest = pHighest /\ pass'.replay = r /\ pass'.read = pass.read
    BY <1>2 DEF TypeOK, Passes
  <1>4. pass.read = NoRead BY <1>1 DEF ExpungeInv, Stages, NewPass, Resting
  <1>5. FlagsBounded'
    BY <1>1, <1>3 DEF ExpungeInv, Stages, FlagInv, FlagsBounded, provider
  <1>6. FlagHonest' /\ NextReached'
    BY <1>1 DEF FlagInv, FlagHonest, NextReached, Shown, Synced, InWindow, provider, rows
  <1>7. r \in Replays \/ r = NoReplay BY <1>2
  <1>8. /\ r.changed = NoRead \/ \E S : r.changed = Flags(S)
        /\ r.vanished \subseteq Vanished(folder.qresync)
    <2>1. CASE r = NoReplay BY <2>1 DEF NoReplay
    <2>2. CASE r \in Replays BY <2>2 DEF Replays, NoReplay
    <2> QED BY <1>7, <2>1, <2>2
  <1>9. ReadsTruthful'
    <2>1. Truthful(pass'.read) /\ Truthful(pass'.replay.changed)
      BY <1>3, <1>4, <1>8, ReadTruthful
    <2>2. ASSUME NEW b, b.seen \subseteq b.uids,
                 b = NoRead \/ \E S : b = Flags(S)
          PROVE  /\ b.seen \subseteq b.uids
                 /\ \A u \in b.uids \cap pHere' : u \in b.seen <=> u \in pSeen'
      BY <1>1, <2>2 DEF Flags, NoRead, provider
    <2> QED BY <1>3, <1>4, <1>8, <2>1, <2>2 DEF ReadsTruthful, Truthful
  <1>10. VanishedGone' BY <1>1, <1>3, <1>8 DEF VanishedGone, Vanished, provider
  <1>11. FlagPlace' BY <1>1, FlagPlaceEarly DEF Running, SteadyPcs
  <1> QED BY <1>5, <1>6, <1>9, <1>10, <1>11 DEF FlagPlace, FlagInv

LEMMA FlagReset ==
  ASSUME TypeOK, FlagInv, handleUidValidityReset PROVE FlagInv'
  <1>1. pc' = "idle" /\ folder' = [Forgotten EXCEPT !.validity = pass.sel.validity]
    BY DEF handleUidValidityReset, EndPass
  <1>2. folder'.highest = None /\ folder'.complete = FALSE BY <1>1 DEF Forgotten, TypeOK, Folders
  <1>3. FlagsBounded' /\ FlagHonest' /\ NextReached'
    BY <1>2 DEF FlagsBounded, FlagHonest, NextReached
  <1>4. ReadsTruthful' /\ VanishedGone' BY <1>1 DEF ReadsTruthful, VanishedGone, Resting
  <1>5. FlagPlace' BY <1>1, FlagPlaceEarly DEF Running, SteadyPcs
  <1> QED BY <1>3, <1>4, <1>5 DEF FlagPlace, FlagInv

-------------------------------------------------------------------------------
(* The steps of a running pass.                                            *)
LEMMA NewMailKept ==
  ASSUME TypeOK, ExpungeInv, FlagInv, pc \in Running, UNCHANGED provider, RowsKept,
         folder'.last = folder.last, pass'.sel = pass.sel, pass'.reached = pass.reached,
         pass'.todo = pass.todo
  PROVE  NewMailShown'
  <1> USE DEF provider
  <1> DEFINE S == {u \in live : folder.last < u /\ u <= pass.reached}
             T == {u \in live' : folder.last < u /\ u <= pass.reached}
  <1>1. /\ Shown(S, pass.sel.highest)
        /\ \A u \in pHere : folder.last < u /\ pass.reached < u /\ Listed(u) => u \in pass.todo
    BY DEF FlagInv, NewMailShown, Running
  <1>2. T \in SUBSET live' /\ T \cap live \subseteq S /\ pass.sel.highest \in Nat
        /\ pass.sel.highest <= pass.sel.highest
    BY Fields
  <1> HIDE DEF S, T
  <1>3. \A u \in T \cap InWindow : pMod[u] <= pass.sel.highest => (u \in seen' <=> u \in pSeen)
    BY <1>1, <1>2, ShownKept
  <1>4. \A u \in T \cap InWindow' : pMod'[u] <= pass.sel.highest => (u \in seen' <=> u \in pSeen')
    BY <1>3 DEF InWindow
  <1> QED BY <1>1, <1>4 DEF NewMailShown, Shown, T, Listed

LEMMA ScanKept ==
  ASSUME TypeOK, FlagInv, pc \in ScannedPcs, pass.scanned, UNCHANGED provider, RowsKept,
         folder'.last = folder.last, pass'.sel = pass.sel
  PROVE  Shown(Synced, pass.sel.highest)'
  <1> USE DEF provider
  <1>1. Shown(Synced, pass.sel.highest) BY DEF FlagInv, ScanShown
  <1>2. /\ Synced' \in SUBSET live' /\ Synced' \cap live \subseteq Synced
        /\ pass.sel.highest \in Nat /\ pass.sel.highest <= pass.sel.highest
    BY Fields DEF Synced
  <1>3. \A u \in Synced' \cap InWindow : pMod[u] <= pass.sel.highest => (u \in seen' <=> u \in pSeen)
    BY <1>1, <1>2, ShownKept
  <1> QED BY <1>3 DEF Shown, InWindow

LEMMA FlagInitial ==
  ASSUME TypeOK, ExpungeInv, FlagInv, Initial PROVE FlagInv'
  <1> USE DEF Parked, Resting
  <1>0. ~folder.complete
    BY DEF Initial, SnapshotSearch, setInitialSyncSnapshot, Candidates, HeadSearch, HeadFetch,
           HeadWrite, advanceInitialSyncLiveHead, Backfill, BackfillFetch, BackfillWrite,
           advanceInitialSyncWatermark, InitialDone, InitialPcs, ExpungeInv, Stages
  <1>a. ASSUME FlagBase', pc' \notin Running PROVE FlagInv'
    BY <1>a, FlagPlaceEarly DEF FlagBase, FlagPlace, FlagInv
  <1>b. pc' \in InitialPcs => pc' \notin Running BY DEF InitialPcs, Running, SteadyPcs
  <1>1. CASE SnapshotSearch \/ Candidates \/ HeadSearch \/ Backfill
    <2>1. \E w : \/ pass' = [pass EXCEPT !.window = w] \/ pass' = [pass EXCEPT !.todo = w]
                 \/ pass' = pass
      BY <1>1 DEF SnapshotSearch, Candidates, HeadSearch, Backfill
    <2>2. pass'.sel = pass.sel /\ pass'.replay = pass.replay /\ pass'.read = pass.read
      BY <2>1 DEF TypeOK, Passes
    <2>3. /\ UNCHANGED <<provider, folder, rows>> /\ pc \notin Parked /\ pc' \in InitialPcs
      BY <1>1 DEF SnapshotSearch, Candidates, HeadSearch, Backfill, InitialPcs
    <2> QED BY <1>a, <1>b, <2>2, <2>3, SameRowsKept, FlagBaseStep DEF rows
  <1>2. CASE setInitialSyncSnapshot \/ advanceInitialSyncLiveHead
    <2>1. /\ folder'.highest = folder.highest /\ folder'.complete = folder.complete
          /\ folder'.validity = folder.validity
      BY <1>2 DEF setInitialSyncSnapshot, advanceInitialSyncLiveHead, TypeOK, Folders
    <2>2. pass' = pass \/ pass' = [pass EXCEPT !.todo = {}, !.read = NoRead]
      BY <1>2 DEF setInitialSyncSnapshot, advanceInitialSyncLiveHead
    <2>3. /\ pass'.sel = pass.sel /\ pass'.replay = pass.replay
          /\ pass'.read = pass.read \/ pass'.read = NoRead
      BY <2>2 DEF TypeOK, Passes
    <2>4. UNCHANGED <<provider, rows>> /\ pc \notin Parked /\ pc' \in InitialPcs
      BY <1>2 DEF setInitialSyncSnapshot, advanceInitialSyncLiveHead, InitialPcs
    <2> QED BY <1>0, <1>a, <1>b, <2>1, <2>3, <2>4, SameRowsKept, FlagBaseStep DEF rows
  <1>3. CASE HeadFetch \/ BackfillFetch
    <2>1. pass' = [pass EXCEPT !.read = Flags(pass.todo)] BY <1>3 DEF HeadFetch, BackfillFetch
    <2>2. /\ pass'.sel = pass.sel /\ pass'.replay = pass.replay /\ pass'.read = Flags(pass.todo)
      BY <2>1 DEF TypeOK, Passes
    <2>3. UNCHANGED <<provider, folder, rows>> /\ pc \notin Parked /\ pc' \in InitialPcs
      BY <1>3 DEF HeadFetch, BackfillFetch, InitialPcs
    <2> QED BY <1>a, <1>b, <2>2, <2>3, SameRowsKept, FlagBaseStep DEF rows
  <1>4. CASE HeadWrite \/ BackfillWrite
    <2>1. folder' = [folder EXCEPT !.validity = pass.sel.validity] /\ Upsert(pass.read)
      BY <1>4 DEF HeadWrite, BackfillWrite
    <2>2. /\ folder'.validity = pass.sel.validity /\ folder'.highest = folder.highest
          /\ folder'.complete = folder.complete
      BY <2>1 DEF TypeOK, Folders
    <2>3. UNCHANGED <<provider, pass>> /\ pc \notin Parked /\ pc' \in InitialPcs
      BY <1>4 DEF HeadWrite, BackfillWrite, InitialPcs
    <2>4. RowsKept BY <2>1, <2>3, UpsertKept DEF FlagInv, ReadsTruthful
    <2> QED BY <1>0, <1>a, <1>b, <2>2, <2>3, <2>4, FlagBaseStep
  <1>5. CASE advanceInitialSyncWatermark
    <2>1. /\ folder'.highest = folder.highest /\ folder'.validity = folder.validity
          /\ folder'.complete = folder.complete
      BY <1>5 DEF advanceInitialSyncWatermark, TypeOK, Folders
    <2>2. UNCHANGED <<provider, rows>> /\ pc = "backfillAdvance" BY <1>5 DEF advanceInitialSyncWatermark
    <2>3. CASE EndPass BY <1>0, <2>1, <2>2, <2>3, FlagRest DEF EndPass
    <2>4. CASE ~EndPass
      <3>1. pc' = "initialDone" /\ pass' = [pass EXCEPT !.todo = {}, !.read = NoRead]
        BY <1>5, <2>4 DEF advanceInitialSyncWatermark
      <3>2. pass'.sel = pass.sel /\ pass'.replay = pass.replay /\ pass'.read = NoRead
        BY <3>1 DEF TypeOK, Passes
      <3>3. pc \notin Parked /\ pc' \in InitialPcs BY <2>2, <3>1 DEF InitialPcs
      <3> QED BY <1>0, <1>a, <1>b, <2>1, <2>2, <3>2, <3>3, SameRowsKept, FlagBaseStep DEF rows
    <2> QED BY <2>3, <2>4
  <1>6. CASE InitialDone
    <2>1. /\ folder'.highest = folder.highest /\ folder'.validity = pass.sel.validity
          /\ folder'.complete = TRUE
      BY <1>6 DEF InitialDone, TypeOK, Folders
    <2>2. pc = "initialDone" /\ pc' = "idle" /\ UNCHANGED <<provider, rows>>
      BY <1>6 DEF InitialDone, EndPass
    <2>3. NextReached'
      <3>1. /\ folder'.last = Larger(folder.target, folder.last)
            /\ folder'.next = reachedUidNext(pass.sel.next, folder'.last)
        BY <1>6 DEF InitialDone, TypeOK, Folders
      <3>2. /\ pass.sel.next <= pNext /\ pass.sel.next \in Nat /\ pNext \in Nat
            /\ folder.last \in Nat /\ folder.target \in Nat \cup {None} /\ None \in Int
            /\ pHere \in SUBSET Uids /\ \A u \in Uids : u \in Nat
        BY <2>2, Fields, UidsAreNat DEF ExpungeInv, Selected, TypeOK, None
      <3>3. folder'.last \in Int BY <3>1, <3>2 DEF Larger
      <3>4. /\ folder'.next <= pNext
            /\ \A u \in Uids : u < folder'.next => u <= folder'.last
        BY <3>1, <3>2, <3>3 DEF reachedUidNext
      <3> QED BY <2>2, <3>2, <3>4 DEF NextReached, provider
    <2> QED BY <1>0, <2>1, <2>2, <2>3, FlagRest
  <1> QED BY <1>1, <1>2, <1>3, <1>4, <1>5, <1>6 DEF Initial

LEMMA FlagNewMail ==
  ASSUME TypeOK, MailInv, ExpungeInv, FlagInv, Search \/ Incremental \/ IncrementalWrite
  PROVE  FlagInv'
  <1> USE DEF Parked, Resting
  <1>a. ASSUME FlagBase', NewMailShown', pc' \in {"incremental", "incrementalWrite", "replay", "flags"}
        PROVE  FlagInv'
    BY <1>a DEF FlagBase, FlagInv, ScanShown, ScanPcs, ScannedPcs, ListedWindow, ListExact
  <1>1. CASE Search
    <2>1. pass' = [pass EXCEPT !.todo = Incoming] /\ pc = "search" /\ UNCHANGED <<provider, folder, rows>>
          /\ pc' \in {"incremental", "replay", "flags"}
      BY <1>1 DEF Search, AfterNewMail
    <2>2. /\ pass'.sel = pass.sel /\ pass'.replay = pass.replay /\ pass'.read = pass.read
          /\ pass'.todo = Incoming /\ pass'.reached = pass.reached
      BY <2>1 DEF TypeOK, Passes
    <2>3. FlagBase' BY <2>1, <2>2, SameRowsKept, FlagBaseStep DEF rows
    <2>4. pass.reached = 0 /\ folder.last \in Nat /\ pass.sel.next \in Nat
          /\ live \in SUBSET Uids /\ pHere \in SUBSET Uids /\ \A u \in Uids : u \in Nat
      BY <2>1, Fields, UidsAreNat DEF MailInv, IncrementalBatchHeld, TypeOK
    <2>5. {u \in live : folder.last < u /\ u <= 0} = {} BY <2>4
    <2>6. Shown({u \in live : folder.last < u /\ u <= pass.reached}, pass.sel.highest)'
      BY <2>1, <2>2, <2>4, <2>5 DEF Shown, rows
    <2>7. \A u \in pHere :
            folder.last < u /\ (u < pass.sel.next \/ \E v \in Incoming : u <= v) => u \in Incoming
      <3> SUFFICES ASSUME NEW u \in pHere, folder.last < u,
                          u < pass.sel.next \/ \E v \in Incoming : u <= v
                   PROVE  u \in Incoming
        OBVIOUS
      <3>1. u \in Nat /\ Larger(folder.last + 1, pass.sel.next - 1) \in Int BY <2>4 DEF Larger
      <3>2. CASE u < pass.sel.next BY <2>4, <3>1, <3>2 DEF Incoming, Larger
      <3>3. CASE \E v \in Incoming : u <= v
        <4>1. PICK v \in Incoming : u <= v BY <3>3
        <4>2. v \in Nat /\ v <= Larger(folder.last + 1, pass.sel.next - 1) BY <2>4 DEF Incoming
        <4> QED BY <2>4, <3>1, <4>1, <4>2 DEF Incoming
      <3> QED BY <3>2, <3>3
    <2>8. NewMailShown' BY <2>1, <2>2, <2>6, <2>7 DEF NewMailShown, Listed, provider
    <2> QED BY <1>a, <2>1, <2>3, <2>8
  <1>2. CASE Incremental
    <2>1. PICK b \in SUBSET pass.todo : pass' = [pass EXCEPT !.read = Flags(b)]
      BY <1>2 DEF Incremental
    <2>2. /\ pass'.sel = pass.sel /\ pass'.replay = pass.replay /\ pass'.read = Flags(b)
          /\ pass'.todo = pass.todo /\ pass'.reached = pass.reached
      BY <2>1 DEF TypeOK, Passes
    <2>3. pc = "incremental" /\ pc' = "incrementalWrite" /\ UNCHANGED <<provider, folder, rows>>
      BY <1>2 DEF Incremental
    <2>4. RowsKept BY <2>3, SameRowsKept DEF rows
    <2>5. FlagBase' BY <2>2, <2>3, <2>4, FlagBaseStep
    <2>6. NewMailShown' BY <2>2, <2>3, <2>4, NewMailKept DEF Running, SteadyPcs
    <2> QED BY <1>a, <2>3, <2>5, <2>6
  <1>3. CASE IncrementalWrite
    <2>1. /\ folder' = [folder EXCEPT !.validity = pass.sel.validity] /\ Upsert(pass.read)
          /\ pc = "incrementalWrite" /\ UNCHANGED provider
          /\ pc' \in {"incremental", "replay", "flags"}
      BY <1>3 DEF IncrementalWrite, AfterNewMail
    <2>2. /\ folder'.validity = pass.sel.validity /\ folder'.highest = folder.highest
          /\ folder'.complete = folder.complete /\ folder'.last = folder.last
      BY <2>1 DEF TypeOK, Folders
    <2>3. PICK m \in pass.read.uids : \E h, n :
            /\ IsMax(m, pass.read.uids)
            /\ pass' = [pass EXCEPT !.todo = pass.todo \ pass.read.uids, !.reached = m,
                                    !.read = NoRead, !.hit = h, !.batches = n]
      BY <1>3 DEF IncrementalWrite, IsMax
    <2>4. /\ pass'.sel = pass.sel /\ pass'.replay = pass.replay /\ pass'.read = NoRead
          /\ pass'.todo = pass.todo \ pass.read.uids /\ pass'.reached = m
      BY <2>3 DEF TypeOK, Passes
    <2>5. Truthful(pass.read) /\ RowsKept BY <2>1, UpsertKept DEF FlagInv, ReadsTruthful
    <2>6. FlagBase' BY <2>1, <2>2, <2>4, <2>5, FlagBaseStep
    <2>7. /\ pass.read.uids \subseteq pass.todo
          /\ \A x \in pass.read.uids, y \in pass.todo \ pass.read.uids : x < y
          /\ \A x \in pass.read.uids : x <= m
          /\ m \in pass.todo
      BY <2>1, <2>3 DEF MailInv, IncrementalBatchHeld, IsMax
    <2>8. /\ Shown({u \in live : folder.last < u /\ u <= pass.reached}, pass.sel.highest)
          /\ \A u \in pHere : folder.last < u /\ pass.reached < u /\ Listed(u) => u \in pass.todo
      BY <2>1 DEF FlagInv, NewMailShown, SteadyPcs
    <2>9. /\ \A u \in Uids : u \in Nat /\ pMod[u] \in Nat
          /\ pass.todo \in SUBSET Uids /\ pHere \in SUBSET Uids /\ live \in SUBSET Uids
          /\ pass.reached \in Nat /\ folder.last \in Nat /\ pass.read.uids \in SUBSET Uids
      BY Fields, UidsAreNat DEF TypeOK
    <2>10. ASSUME NEW u \in live' \cap InWindow, folder.last < u, u <= m, pMod[u] <= pass.sel.highest
           PROVE  u \in seen' <=> u \in pSeen
      <3>1. u \in pHere /\ u \in Uids BY <2>9 DEF InWindow
      <3>2. /\ live' = live \cup pass.read.uids
            /\ seen' = (seen \ pass.read.uids) \cup pass.read.seen
            /\ pass.read.seen \subseteq pass.read.uids
        BY <2>1, <2>5 DEF Upsert, Truthful
      <3>3. CASE u \in pass.read.uids
        <4>1. u \in pass.read.seen <=> u \in pSeen BY <2>5, <2>10, <3>1, <3>3 DEF Truthful
        <4> QED BY <3>2, <3>3, <4>1
      <3>4. CASE u \notin pass.read.uids
        <4>1. u \in live /\ (u \in seen' <=> u \in seen) BY <3>2, <3>4
        <4>2. u <= pass.reached
          <5> SUFFICES ASSUME ~(u <= pass.reached) PROVE FALSE OBVIOUS
          <5>1. u \in pass.todo BY <2>7, <2>8, <2>9, <2>10, <3>1 DEF Listed
          <5>2. m < u BY <2>7, <3>4, <5>1
          <5> QED BY <2>7, <2>9, <2>10, <3>1, <5>2
        <4>3. u \in seen <=> u \in pSeen BY <2>8, <2>10, <4>1, <4>2 DEF Shown
        <4> QED BY <4>1, <4>3
      <3> QED BY <3>3, <3>4
    <2>11. Shown({u \in live : folder.last < u /\ u <= pass.reached}, pass.sel.highest)'
      BY <2>1, <2>2, <2>4, <2>10 DEF Shown, InWindow, provider
    <2>12. ASSUME NEW u \in pHere, folder.last < u, m < u,
                  u < pass.sel.next \/ \E v \in pass.todo \ pass.read.uids : u <= v
           PROVE  u \in pass.todo \ pass.read.uids
      <3>1. u \in Nat /\ m \in Nat BY <2>7, <2>9
      <3>2. u \notin pass.read.uids BY <2>7, <2>12, <3>1
      <3>3. pass.reached < u
        <4>1. pass.reached < m BY <2>1, <2>7 DEF MailInv, NewMail, SteadyPcs
        <4> QED BY <2>9, <2>12, <3>1, <4>1
      <3> QED BY <2>8, <2>12, <3>2, <3>3 DEF Listed
    <2>13. NewMailShown' BY <2>1, <2>2, <2>4, <2>11, <2>12 DEF NewMailShown, Listed, provider
    <2> QED BY <1>a, <2>1, <2>6, <2>13
  <1> QED BY <1>1, <1>2, <1>3

LEMMA FlagReplay ==
  ASSUME TypeOK, ExpungeInv, FlagInv, ReplayFlags \/ markVanishedMessages PROVE FlagInv'
  <1> USE DEF Parked, Resting
  <1>1. /\ pc \in {"replay", "replayGone"} /\ pc' \in {"replayGone", "flags"}
        /\ UNCHANGED <<provider, folder>>
    BY DEF ReplayFlags, markVanishedMessages
  <1>2. pass' = pass \/ pass' = [pass EXCEPT !.applied = TRUE, !.replay = NoReplay]
    BY DEF ReplayFlags, markVanishedMessages
  <1>3. /\ pass'.sel = pass.sel /\ pass'.replay \in {pass.replay, NoReplay}
        /\ pass'.read = pass.read /\ pass'.todo = pass.todo /\ pass'.reached = pass.reached
    BY <1>2 DEF TypeOK, Passes
  <1>4. RowsKept
    <2>1. CASE ReplayFlags
      BY <1>1, <2>1, WriteKept DEF ReplayFlags, FlagInv, ReadsTruthful
    <2>2. CASE markVanishedMessages BY <2>2, SameRowsKept DEF markVanishedMessages
    <2> QED BY <2>1, <2>2
  <1>5. FlagBase' BY <1>1, <1>3, <1>4, FlagBaseStep
  <1>6. NewMailShown' BY <1>1, <1>3, <1>4, NewMailKept DEF Running, SteadyPcs
  <1> QED BY <1>1, <1>5, <1>6
    DEF FlagBase, FlagInv, ScanShown, ScanPcs, ScannedPcs, ListedWindow, ListExact

(* The flag read leaves out only what the cursor proves.                   *)
LEMMA FlagScanned ==
  ASSUME TypeOK, ExpungeInv, FlagInv, FlagScan PROVE FlagInv'
  <1> USE DEF Parked, Resting
  <1>1. /\ pc = "flags" /\ pc' \in {"deltaWrite", "windowWrite", "reconcile"}
        /\ UNCHANGED <<provider, folder, rows>>
    BY DEF FlagScan
  <1>2. PICK routine \in RoutineDue, budget \in LockBudget :
          LET hit    == pass.hit \/ budget
              wanted == FlagsWanted(routine, hit)
              window == BackstopDue(folder.due) \/ (routine /\ ~CursorCurrent)
          IN IF wanted /\ CursorBehind
             THEN /\ pass' = [Decided(hit, wanted) EXCEPT !.read = Flags(Changed(folder.highest))]
                  /\ pc' = "deltaWrite"
             ELSE IF wanted /\ window
             THEN /\ \E S \in WindowScans(folder.due) :
                       pass' = [Decided(hit, wanted) EXCEPT !.read = Flags(S)]
                  /\ pc' = "windowWrite"
             ELSE pass' = Decided(hit, wanted) /\ pc' = "reconcile"
    BY DEF FlagScan
  <1> DEFINE hit == pass.hit \/ budget
             wanted == FlagsWanted(routine, hit)
             window == BackstopDue(folder.due) \/ (routine /\ ~CursorCurrent)
  <1>3. \/ wanted /\ CursorBehind /\ pc' = "deltaWrite"
             /\ pass' = [Decided(hit, wanted) EXCEPT !.read = Flags(Changed(folder.highest))]
        \/ /\ wanted /\ ~CursorBehind /\ pc' = "windowWrite"
           /\ \E S \in WindowScans(folder.due) : pass' = [Decided(hit, wanted) EXCEPT !.read = Flags(S)]
        \/ /\ ~(wanted /\ CursorBehind) /\ ~(wanted /\ window) /\ pc' = "reconcile"
           /\ pass' = Decided(hit, wanted)
    BY <1>2
  <1>4. wanted /\ ~window => CursorCurrent \/ CursorBehind
    BY DEF FlagsWanted, flagDeltaDue
  <1> HIDE DEF wanted, hit, window
  <1>5. /\ pass'.sel = pass.sel /\ pass'.replay = NoReplay
        /\ pass'.todo = pass.todo /\ pass'.reached = pass.reached /\ pass'.scanned = wanted
        /\ pass'.read = pass.read \/ \E S : pass'.read = Flags(S)
        /\ pc' = "deltaWrite" => pass'.read = Flags(Changed(folder.highest))
        /\ pc' = "windowWrite" => \E S \in WindowScans(folder.due) : pass'.read = Flags(S)
    <2>1. CASE pc' = "deltaWrite"
      <3>1. pass' = [Decided(hit, wanted) EXCEPT !.read = Flags(Changed(folder.highest))] BY <1>3, <2>1
      <3> QED BY <2>1, <3>1 DEF Decided, TypeOK, Passes
    <2>2. CASE pc' = "windowWrite"
      <3>1. PICK S \in WindowScans(folder.due) : pass' = [Decided(hit, wanted) EXCEPT !.read = Flags(S)]
        BY <1>3, <2>2
      <3> QED BY <2>2, <3>1 DEF Decided, TypeOK, Passes
    <2>3. CASE pc' = "reconcile"
      <3>1. pass' = Decided(hit, wanted) BY <1>3, <2>3
      <3> QED BY <2>3, <3>1 DEF Decided, TypeOK, Passes
    <2> QED BY <1>1, <2>1, <2>2, <2>3
  <1>6. RowsKept BY <1>1, SameRowsKept DEF rows
  <1>7. FlagBase' BY <1>1, <1>5, <1>6, FlagBaseStep
  <1>8. NewMailShown' BY <1>1, <1>5, <1>6, NewMailKept DEF Running, SteadyPcs
  <1>9. /\ folder.highest # None => folder.validity = pValidity /\ folder.highest <= pass.sel.highest
        /\ folder.highest # None => Shown(Synced, folder.highest)
        /\ folder.highest \in Nat \cup {None} /\ pass.sel.highest \in Nat /\ None \notin Nat
        /\ \A u \in Uids : pMod[u] \in Nat
        /\ live \in SUBSET Uids
    BY <1>1, Fields
    DEF ExpungeInv, Stages, Selected, FlagInv, FlagsBounded, FlagHonest, TypeOK, None
  <1>10. folder.highest # None /\ ~CursorBehind => Shown(Synced, pass.sel.highest)
    BY <1>9 DEF CursorBehind
  <1>11. CursorCurrent => Shown(Synced, pass.sel.highest)
    BY <1>9 DEF CursorCurrent
  <1>12. /\ Synced' = Synced /\ InWindow' = InWindow /\ pMod' = pMod /\ seen' = seen /\ pSeen' = pSeen
    BY <1>1 DEF Synced, InWindow, provider, rows
  <1>13. ScanShown'
    <2>1. CASE pc' = "deltaWrite"
      <3>1. wanted /\ folder.highest # None BY <1>3, <2>1 DEF CursorBehind
      <3>2. pass'.read.uids = Changed(folder.highest) BY <1>5, <2>1 DEF Flags
      <3>3. ASSUME NEW u \in (Synced \ Changed(folder.highest)) \cap InWindow
            PROVE  u \in seen <=> u \in pSeen
        <4>1. u \in pHere /\ u \in Synced /\ u \in Uids BY <1>9 DEF InWindow, Synced
        <4>2. pMod[u] <= folder.highest BY <1>9, <3>1, <3>3, <4>1 DEF Changed
        <4> QED BY <1>9, <3>1, <3>3, <4>2 DEF Shown
      <3>4. Shown(Synced \ pass.read.uids, pass.sel.highest)'
        BY <1>12, <3>2, <3>3 DEF Shown
      <3> QED BY <1>5, <2>1, <3>1, <3>4 DEF ScanShown, ScannedPcs
    <2>2. CASE pc' = "windowWrite"
      <3>1. wanted /\ ~CursorBehind BY <1>3, <2>2
      <3>2. PICK S \in WindowScans(folder.due) : pass'.read = Flags(S) BY <1>5, <2>2
      <3>3. folder.highest = None => S = InWindow BY <3>2 DEF WindowScans
      <3>4. pass'.read.uids = S BY <3>2 DEF Flags
      <3>5. Shown(Synced \ pass.read.uids, pass.sel.highest)'
        <4>1. CASE folder.highest = None BY <1>12, <3>3, <3>4, <4>1 DEF Shown
        <4>2. CASE folder.highest # None BY <1>5, <1>10, <1>12, <3>1, <4>2 DEF Shown
        <4> QED BY <4>1, <4>2
      <3> QED BY <1>5, <2>2, <3>1, <3>5 DEF ScanShown, ScannedPcs
    <2>3. CASE pc' = "reconcile"
      <3>1. wanted => CursorCurrent BY <1>3, <1>4, <2>3
      <3>2. wanted => Shown(Synced, pass.sel.highest)' BY <1>5, <1>11, <1>12, <3>1 DEF Shown
      <3> QED BY <1>5, <2>3, <3>2 DEF ScanShown, ScanPcs
    <2> QED BY <1>1, <2>1, <2>2, <2>3
  <1> QED BY <1>1, <1>7, <1>8, <1>13 DEF FlagBase, FlagInv, ListedWindow, ListExact

LEMMA FlagWrites ==
  ASSUME TypeOK, ExpungeInv, FlagInv, DeltaWrite \/ WindowWrite PROVE FlagInv'
  <1> USE DEF Parked, Resting
  <1>1. /\ pc \in {"deltaWrite", "windowWrite"} /\ pc' \in {"windowWrite", "reconcile"}
        /\ UNCHANGED <<provider, folder, live>> /\ WriteFlags(pass.read)
    BY DEF DeltaWrite, WindowWrite
  <1>2. PICK r : pass' = [pass EXCEPT !.read = r] /\ (r = NoRead \/ \E S : r = Flags(S))
    BY DEF DeltaWrite, WindowWrite
  <1>3. /\ pass'.sel = pass.sel /\ pass'.replay = pass.replay /\ pass'.read = r
        /\ pass'.todo = pass.todo /\ pass'.reached = pass.reached /\ pass'.scanned = pass.scanned
    BY <1>2 DEF TypeOK, Passes
  <1>4. Truthful(pass.read) BY <1>1 DEF FlagInv, ReadsTruthful
  <1>5. /\ RowsKept
        /\ \A u \in live \cap InWindow : u \in pass.read.uids /\ pMod[u] <= pass.sel.highest
             => (u \in seen' <=> u \in pSeen)
        /\ \A u \in live : u \notin pass.read.uids => (u \in seen' <=> u \in seen)
    BY <1>1, <1>4, WriteKept
  <1>6. FlagBase' BY <1>1, <1>2, <1>3, <1>5, FlagBaseStep
  <1>7. NewMailShown' BY <1>1, <1>3, <1>5, NewMailKept DEF Running, SteadyPcs
  <1>8. pass.scanned /\ Shown(Synced \ pass.read.uids, pass.sel.highest)
    BY <1>1 DEF FlagInv, ScanShown, ScanPcs
  <1>9. \A u \in Synced \cap InWindow : pMod[u] <= pass.sel.highest => (u \in seen' <=> u \in pSeen)
    BY <1>5, <1>8 DEF Shown, Synced
  <1>10. /\ Synced' = Synced /\ InWindow' = InWindow /\ pMod' = pMod /\ pSeen' = pSeen
    BY <1>1 DEF Synced, InWindow, provider
  <1>11. ScanShown' BY <1>3, <1>8, <1>9, <1>10 DEF ScanShown, Shown
  <1> QED BY <1>1, <1>6, <1>7, <1>11 DEF FlagBase, FlagInv, ListedWindow, ListExact

-------------------------------------------------------------------------------
(* The reconcile.                                                          *)

(* A step from one place after the flag read to another.                   *)
LEMMA ScannedStep ==
  ASSUME TypeOK, ExpungeInv, FlagInv, pc \in ScannedPcs, pc' \in ScannedPcs, UNCHANGED provider,
         RowsKept, folder' = folder, pass'.sel = pass.sel, pass'.replay = pass.replay,
         pass'.read = pass.read \/ pass'.read = NoRead \/ \E S : pass'.read = Flags(S),
         pass'.todo = pass.todo, pass'.reached = pass.reached, pass'.scanned = pass.scanned
  PROVE  FlagBase' /\ NewMailShown' /\ ScanShown'
  <1>1. pc \notin Parked /\ pc \in Running
    BY DEF ScannedPcs, Parked, Resting, Running, SteadyPcs
  <1>2. FlagBase' BY <1>1, FlagBaseStep
  <1>3. NewMailShown' BY <1>1, NewMailKept
  <1>4. ScanShown' BY ScanKept DEF ScanShown, ScanPcs, ScannedPcs
  <1> QED BY <1>2, <1>3, <1>4

LEMMA FlagReconcile ==
  ASSUME TypeOK, ExpungeInv, FlagInv, Reconcile PROVE FlagInv'
  <1>1. /\ pc = "reconcile" /\ pc' \in {"listed", "finish"} /\ UNCHANGED <<provider, folder, rows>>
    BY DEF Reconcile
  <1>2. \E h, l : \/ pass' = [pass EXCEPT !.attempted = TRUE, !.list = l]
                  \/ pass' = [pass EXCEPT !.hit = h]
    BY DEF Reconcile
  <1>3. /\ pass'.sel = pass.sel /\ pass'.replay = pass.replay /\ pass'.read = pass.read
        /\ pass'.todo = pass.todo /\ pass'.reached = pass.reached /\ pass'.scanned = pass.scanned
    BY <1>2, ListFieldsKept
  <1>4. RowsKept BY <1>1, SameRowsKept DEF rows
  <1>5. FlagBase' /\ NewMailShown' /\ ScanShown' BY <1>1, <1>3, <1>4, ScannedStep DEF ScannedPcs
  <1> QED BY <1>1, <1>5 DEF FlagBase, FlagInv, ListedWindow, ListExact

(* A list of the mailbox's size, none of it expunged, is the mailbox.      *)
LEMMA ListIsMailbox ==
  ASSUME TypeOK, ExpungeInv, ListProven, ~ExpungedSinceSelect PROVE pass.list = pHere
  <1>1. pass.list \in SUBSET Uids /\ pHere \in SUBSET Uids BY Fields DEF TypeOK
  <1>2. IsFiniteSet(Uids) BY FS_Interval, BoundsAssumption DEF Uids
  <1>3. IsFiniteSet(pHere) BY <1>1, <1>2, FS_Subset
  <1>4. pass.list \subseteq pHere
    <2> SUFFICES ASSUME NEW u \in pass.list, u \notin pHere PROVE FALSE OBVIOUS
    <2>1. u < pNext /\ pMod[u] > pass.sel.highest BY DEF ExpungeInv, ReadsFresh, Fresh
    <2> QED BY <1>1, <2>1 DEF ExpungedSinceSelect
  <1> QED BY <1>3, <1>4, FS_Subset DEF ListProven

LEMMA FlagCheckList ==
  ASSUME TypeOK, ExpungeInv, FlagInv, CheckList PROVE FlagInv'
  <1>1. /\ pc = "listed" /\ pc' \in {"tombstone", "finish"} /\ UNCHANGED <<provider, folder, rows>>
    BY DEF CheckList
  <1>2. \/ pc' = "tombstone" /\ ListProven /\ pass' = [pass EXCEPT !.window = InWindow, !.complete = TRUE]
        \/ pc' = "finish" /\ pass' = [pass EXCEPT !.list = {}]
    BY DEF CheckList
  <1>3. /\ pass'.sel = pass.sel /\ pass'.replay = pass.replay /\ pass'.read = pass.read
        /\ pass'.todo = pass.todo /\ pass'.reached = pass.reached /\ pass'.scanned = pass.scanned
        /\ pc' = "tombstone" => ListProven /\ pass'.list = pass.list /\ pass'.window = InWindow
    <2>1. CASE pc' = "tombstone"
      <3>1. ListProven /\ pass' = [pass EXCEPT !.window = InWindow, !.complete = TRUE] BY <1>2, <2>1
      <3>2. pass'.list = pass.list /\ pass'.window = InWindow BY <3>1 DEF TypeOK, Passes
      <3> QED BY <3>1, <3>2, ListFieldsKept
    <2>2. CASE pc' # "tombstone"
      <3>1. pass' = [pass EXCEPT !.list = {}] BY <1>2, <2>2
      <3> QED BY <2>2, <3>1, ListFieldsKept
    <2> QED BY <2>1, <2>2
  <1>4. RowsKept BY <1>1, SameRowsKept DEF rows
  <1>5. FlagBase' /\ NewMailShown' /\ ScanShown' BY <1>1, <1>3, <1>4, ScannedStep DEF ScannedPcs
  <1>6. ListedWindow' BY <1>1, <1>3 DEF ListedWindow, InWindow, provider
  <1>7. ListExact'
    <2> SUFFICES ASSUME pc' = "tombstone", ~ExpungedSinceSelect', NEW u \in pHere PROVE u \in pass.list
      BY <1>1, <1>3 DEF ListExact, provider
    <2>1. ~ExpungedSinceSelect BY <1>1, <1>3 DEF ExpungedSinceSelect, provider
    <2> QED BY <1>3, <2>1, ListIsMailbox
  <1> QED BY <1>5, <1>6, <1>7 DEF FlagBase, FlagInv

LEMMA FlagTombstone ==
  ASSUME TypeOK, ExpungeInv, FlagInv, Tombstone PROVE FlagInv'
  <1>1. /\ pc = "tombstone" /\ pc' = "revive" /\ UNCHANGED <<provider, folder, seen>>
        /\ live' \subseteq live
    BY DEF Tombstone
  <1>2. \E c : pass' = [pass EXCEPT !.complete = c] BY DEF Tombstone
  <1>3. /\ pass'.sel = pass.sel /\ pass'.replay = pass.replay /\ pass'.read = pass.read
        /\ pass'.todo = pass.todo /\ pass'.reached = pass.reached /\ pass'.scanned = pass.scanned
        /\ pass'.list = pass.list /\ pass'.window = pass.window
    BY <1>2 DEF TypeOK, Passes
  <1>4. RowsKept BY <1>1, SameRowsKept
  <1>5. FlagBase' /\ NewMailShown' /\ ScanShown' BY <1>1, <1>3, <1>4, ScannedStep DEF ScannedPcs
  <1>6. ListedWindow' BY <1>1, <1>3 DEF FlagInv, ListedWindow, InWindow, provider
  <1> QED BY <1>1, <1>5, <1>6 DEF FlagBase, FlagInv, ListExact

(* What comes back without a fetch has left the window.                    *)
LEMMA FlagRevive ==
  ASSUME TypeOK, ExpungeInv, FlagInv, Revive PROVE FlagInv'
  <1>1. /\ pc = "revive" /\ pc' = "gap" /\ UNCHANGED <<provider, folder, seen>>
        /\ live' \subseteq live \cup Revivable
    BY DEF Revive
  <1>2. \E c, w : pass' = [pass EXCEPT !.complete = c, !.window = w, !.list = {}] BY DEF Revive
  <1>3. /\ pass'.sel = pass.sel /\ pass'.replay = pass.replay /\ pass'.read = pass.read
        /\ pass'.todo = pass.todo /\ pass'.reached = pass.reached /\ pass'.scanned = pass.scanned
    BY <1>2 DEF TypeOK, Passes
  <1>4. Revivable \cap InWindow = {} BY <1>1 DEF Revivable, FlagInv, ListedWindow
  <1>5. RowsKept BY <1>1, <1>4 DEF RowsKept
  <1>6. FlagBase' /\ NewMailShown' /\ ScanShown' BY <1>1, <1>3, <1>5, ScannedStep DEF ScannedPcs
  <1> QED BY <1>1, <1>6 DEF FlagBase, FlagInv, ListedWindow, ListExact

LEMMA FlagGap ==
  ASSUME TypeOK, ExpungeInv, FlagInv, GapFetch \/ GapWrite PROVE FlagInv'
  <1>1. /\ pc \in {"gap", "gapWrite"} /\ pc' \in {"gap", "gapWrite", "finish"}
        /\ UNCHANGED <<provider, folder>>
    BY DEF GapFetch, GapWrite
  <1>2. \E c, w, r, h :
          \/ pass' = [pass EXCEPT !.clean = c, !.window = w]
          \/ pass' = [pass EXCEPT !.read = Flags(r)]
          \/ pass' = [pass EXCEPT !.window = w, !.read = NoRead, !.hit = h]
    BY DEF GapFetch, GapWrite
  <1>3. /\ pass'.sel = pass.sel /\ pass'.replay = pass.replay
        /\ pass'.read = pass.read \/ pass'.read = NoRead \/ \E S : pass'.read = Flags(S)
        /\ pass'.todo = pass.todo /\ pass'.reached = pass.reached /\ pass'.scanned = pass.scanned
    <2>1. pass \in Passes BY DEF TypeOK
    <2>2. PICK c, w, r, h :
            \/ pass' = [pass EXCEPT !.clean = c, !.window = w]
            \/ pass' = [pass EXCEPT !.read = Flags(r)]
            \/ pass' = [pass EXCEPT !.window = w, !.read = NoRead, !.hit = h]
      BY <1>2
    <2>3. CASE pass' = [pass EXCEPT !.clean = c, !.window = w] BY <2>1, <2>3 DEF Passes
    <2>4. CASE pass' = [pass EXCEPT !.read = Flags(r)] BY <2>1, <2>4 DEF Passes
    <2>5. CASE pass' = [pass EXCEPT !.window = w, !.read = NoRead, !.hit = h] BY <2>1, <2>5 DEF Passes
    <2> QED BY <2>2, <2>3, <2>4, <2>5
  <1>4. RowsKept
    <2>1. CASE GapFetch BY <2>1, SameRowsKept DEF GapFetch, rows
    <2>2. CASE GapWrite
      <3>1. Truthful(pass.read) BY <1>1 DEF FlagInv, ReadsTruthful, Resting
      <3> QED BY <2>2, <3>1, UpsertKept DEF GapWrite
    <2> QED BY <2>1, <2>2
  <1>5. FlagBase' /\ NewMailShown' /\ ScanShown' BY <1>1, <1>3, <1>4, ScannedStep DEF ScannedPcs
  <1> QED BY <1>1, <1>5 DEF FlagBase, FlagInv, ListedWindow, ListExact

(* The last write stores what the pass read, up to where it got.           *)
LEMMA FlagFinish ==
  ASSUME TypeOK, MailInv, ExpungeInv, FlagInv, Finish PROVE FlagInv'
  <1>1. /\ pc = "finish" /\ pc' = "idle" /\ UNCHANGED <<provider, rows>>
    BY DEF Finish, EndPass
  <1>2. /\ folder'.validity = pass.sel.validity /\ folder'.complete = TRUE
        /\ folder'.last = StoredLast /\ folder'.highest = StoredHighest
    BY DEF Finish, TypeOK, Folders
  <1>3. /\ pass.sel.validity = pValidity /\ folder.validity = pValidity
        /\ pass.sel.highest <= pHighest /\ pass.sel.highest \in Nat /\ None \notin Nat
        /\ folder.highest \in Nat \cup {None} /\ folder.last \in Nat /\ pass.reached \in Nat
        /\ folder.highest # None => folder.highest <= pass.sel.highest /\ folder.highest <= pHighest
        /\ live \in SUBSET Uids
        /\ \A u \in Uids : u \in Nat /\ pMod[u] \in Nat
    BY <1>1, Fields, UidsAreNat
    DEF ExpungeInv, Selected, Stages, SteadyPcs, Resting, FlagInv, FlagsBounded, None, TypeOK
  <1>4. FlagsBounded'
    BY <1>1, <1>2, <1>3 DEF FlagsBounded, StoredHighest, Resting, provider
  <1>5. FlagHonest'
    <2> SUFFICES ASSUME StoredHighest # None, NEW u \in live \cap InWindow, u <= StoredLast,
                        pMod[u] <= StoredHighest
                 PROVE  u \in seen <=> u \in pSeen
      BY <1>1, <1>2 DEF FlagHonest, Shown, Synced, InWindow, provider, rows
    <2>0. u \in Uids /\ u \in Nat /\ pMod[u] \in Nat BY <1>3
    <2>1. pMod[u] <= pass.sel.highest
      BY <1>3, <2>0 DEF StoredHighest
    <2>2. CASE folder.last < u
      <3>1. u <= pass.reached BY <1>3, <2>0, <2>2 DEF StoredLast
      <3> QED BY <1>1, <2>1, <2>2, <3>1 DEF FlagInv, NewMailShown, Shown, SteadyPcs
    <2>3. CASE ~(folder.last < u)
      <3>1. u \in Synced BY <1>3, <2>0, <2>3 DEF Synced
      <3>2. CASE pass.scanned
        BY <1>1, <2>1, <3>1, <3>2 DEF FlagInv, ScanShown, ScannedPcs, Shown
      <3>3. CASE ~pass.scanned
        BY <1>3, <3>1, <3>3 DEF StoredHighest, FlagInv, FlagHonest, Shown
      <3> QED BY <3>2, <3>3
    <2> QED BY <2>2, <2>3
  <1>6. ReadsTruthful' /\ VanishedGone' BY <1>1 DEF ReadsTruthful, VanishedGone, Resting
  <1>7. FlagPlace' BY <1>1, FlagPlaceEarly DEF Running, SteadyPcs
  <1>8. NextReached'
    <2>1. folder'.next = IF pass.todo = {} THEN pass.sel.next
                         ELSE reachedUidNext(pass.sel.next, StoredLast)
      BY DEF Finish, TypeOK, Folders
    <2>2. /\ pass.sel.next <= pNext /\ pass.sel.next \in Nat /\ pNext \in Nat /\ StoredLast \in Nat
          /\ pHere \in SUBSET Uids
      BY <1>1, <1>3, Fields DEF ExpungeInv, Selected, Resting, TypeOK, StoredLast
    <2>3. folder'.next <= pNext BY <2>1, <2>2 DEF reachedUidNext
    <2>4. ASSUME NEW u \in pHere, u < folder'.next PROVE u <= StoredLast
      <3>1. u \in Nat BY <1>3, <2>2
      <3>2. CASE pass.todo = {}
        <4>1. ~(folder.last < u /\ pass.reached < u)
          BY <1>1, <2>1, <2>4, <3>2 DEF FlagInv, NewMailShown, Listed, SteadyPcs
        <4>2. pass.reached # 0 => folder.last < pass.reached
          BY <1>1 DEF MailInv, NewMail, SteadyPcs
        <4> QED BY <1>3, <3>1, <4>1, <4>2 DEF StoredLast
      <3>3. CASE pass.todo # {} BY <2>1, <2>2, <2>4, <3>1, <3>3 DEF reachedUidNext
      <3> QED BY <3>2, <3>3
    <2> QED BY <1>1, <1>2, <2>3, <2>4 DEF NextReached, provider
  <1> QED BY <1>4, <1>5, <1>6, <1>7, <1>8 DEF FlagPlace, FlagInv

-------------------------------------------------------------------------------
(* Every step together, and what follows.                                  *)
LEMMA FlagInit == Init => FlagInv
  <1> SUFFICES ASSUME Init PROVE FlagInv OBVIOUS
  <1>1. pc = "idle" /\ folder.highest = None /\ ~folder.complete BY DEF Init, NewFolder
  <1> QED BY <1>1 DEF FlagInv, FlagsBounded, FlagHonest, NextReached, ReadsTruthful, VanishedGone, NewMailShown,
                      ScanShown, ScanPcs, ScannedPcs, ListedWindow, ListExact, Resting, SteadyPcs

LEMMA FlagSteps ==
  TypeOK /\ MailInv /\ ExpungeInv /\ FlagInv /\ [Next]_vars => FlagInv'
  <1> SUFFICES ASSUME TypeOK, MailInv, ExpungeInv, FlagInv, [Next]_vars PROVE FlagInv' OBVIOUS
  <1>1. CASE Provider BY <1>1, FlagProvider
  <1>2. CASE Initial BY <1>2, FlagInitial
  <1>3. CASE Steady
    BY <1>3, FlagNewMail, FlagReplay, FlagScanned, FlagWrites, FlagReconcile, FlagCheckList,
       FlagTombstone, FlagRevive, FlagGap, FlagFinish
    DEF Steady
  <1>4. CASE Select \/ handleUidValidityReset BY <1>4, FlagSelect, FlagReset
  <1>5. CASE StartPass \/ FetchIncomplete \/ Fail
    <2>1. pc' \in Resting /\ UNCHANGED <<provider, folder, rows>>
      BY <1>5 DEF StartPass, FetchIncomplete, Fail, EndPass, Resting
    <2> QED BY <2>1, FlagRest
  <1>6. CASE AuditFallsDue
    <2>1. /\ folder'.highest = folder.highest /\ folder'.validity = folder.validity
          /\ folder'.last = folder.last /\ folder'.next = folder.next
          /\ folder'.complete = folder.complete
      BY <1>6 DEF AuditFallsDue, TypeOK, Folders
    <2> QED BY <1>6, <2>1, FlagBeside DEF AuditFallsDue, provider, rows, InWindow
  <1>7. CASE \E u \in live : markMessageGone(u)
    BY <1>7, FlagBeside DEF markMessageGone, provider, InWindow
  <1>8. CASE UNCHANGED vars BY <1>8, FlagBeside DEF vars, provider, rows, InWindow
  <1> QED BY <1>1, <1>2, <1>3, <1>4, <1>5, <1>6, <1>7, <1>8 DEF Next, Mirror, PassStep

(* The inductive invariant of the flag cursor holds of every behaviour.    *)
THEOREM FlagInvariant == Spec => []FlagInv
  <1> QED BY FlagInit, FlagSteps, TypeCorrect, MailInvariant, ExpungeInvariant, PTL DEF Spec

(* A stored highest_modseq never passes over a flag change the mirror of   *)
(* the window has not applied (syncFolder's four reasons to read flags).   *)
THEOREM FlagCursorHonestHolds == Spec => []FlagCursorHonest
  <1>1. FlagInv /\ ExpungeInv => FlagCursorHonest
    <2> SUFFICES ASSUME FlagInv, ExpungeInv, Current, folder.highest # None
                 PROVE  \A u \in live \cap InWindow :
                          u <= folder.last /\ pMod[u] <= folder.highest => (u \in seen <=> u \in pSeen)
      BY DEF FlagCursorHonest
    <2>1. folder.validity = pValidity
      BY DEF Current, FlagInv, FlagsBounded, ExpungeInv, Stages
    <2> QED BY <2>1 DEF FlagInv, FlagHonest, Shown, Synced
  <1> QED BY <1>1, FlagInvariant, ExpungeInvariant, PTL

(* A LIST-STATUS answer that matches the stored cursors proves the mirror  *)
(* right: no row of an expunged message, every flag of the window, and, if *)
(* the snapshot was of this generation, every owed message                 *)
(* (markFoldersVerifiedUnchanged, recordUnchangedFolders).                 *)
THEOREM UnchangedProofSoundHolds == Spec => []UnchangedProofSound
  <1>1. ASSUME TypeOK, MailInv, ExpungeInv, FlagInv PROVE UnchangedProofSound
    <2> SUFFICES ASSUME VerifiedUnchanged
                 PROVE  /\ live \subseteq pHere
                        /\ head.validity = pValidity => Owed \subseteq Mirrored
                        /\ \A u \in live \cap InWindow : u \in seen <=> u \in pSeen
      BY <1>1 DEF UnchangedProofSound
    <2>1. /\ folder.complete /\ folder.validity = pValidity /\ folder.next = pNext
          /\ folder.highest = pHighest /\ folder.qresync = pHighest
          /\ pHighest \in Nat /\ pNext \in Nat /\ None \notin Nat
          /\ live \in SUBSET Uids /\ pHere \in SUBSET Uids
          /\ \A u \in Uids : u \in Nat /\ pMod[u] \in Nat /\ pMod[u] <= pHighest
          /\ \A u \in pHere : u < pNext
      BY <1>1, UidsAreNat DEF VerifiedUnchanged, TypeOK, ExpungeInv, Provided, None
    <2>2. live \subseteq pHere BY <1>1, <2>1 DEF ExpungeInv, ExpungeHonest
    <2>3. head.validity = pValidity => Owed \subseteq Mirrored
      BY <1>1, <2>1 DEF MailInv, UidNextPromise, Current, Owed
    <2>4. ASSUME NEW u \in live \cap InWindow PROVE u \in seen <=> u \in pSeen
      <3>1. u \in Uids BY <2>1
      <3>2. u \in Synced BY <1>1, <2>1, <2>2 DEF FlagInv, NextReached, Synced
      <3>3. Shown(Synced, pHighest) BY <1>1, <2>1 DEF FlagInv, FlagHonest
      <3> QED BY <2>1, <3>1, <3>2, <3>3 DEF Shown
    <2> QED BY <2>2, <2>3, <2>4
  <1> QED BY <1>1, TypeCorrect, MailInvariant, ExpungeInvariant, FlagInvariant, PTL

(* No tombstone for a message the provider still has, as long as nothing   *)
(* was expunged between SELECT and the write (reconcileFolderUids,         *)
(* markVanishedMessages).                                                  *)
THEOREM NoWrongTombstoneHolds == Spec => NoWrongTombstone
  <1>1. ASSUME TypeOK, ExpungeInv, FlagInv, Tombstone \/ markVanishedMessages, ~ExpungedSinceSelect
        PROVE  live \cap pHere \subseteq live'
    <2> SUFFICES ASSUME NEW u \in live, u \in pHere, u \notin live' PROVE FALSE OBVIOUS
    <2>1. CASE Tombstone
      <3>1. u \in Doomed /\ pc = "tombstone" BY <2>1 DEF Tombstone
      <3> QED BY <1>1, <3>1 DEF Doomed, FlagInv, ListExact
    <2>2. CASE markVanishedMessages
      BY <1>1, <2>2 DEF markVanishedMessages, FlagInv, VanishedGone, Resting
    <2> QED BY <1>1, <2>1, <2>2
  <1>2. TypeOK /\ ExpungeInv /\ FlagInv =>
          [(Tombstone \/ markVanishedMessages) /\ ~ExpungedSinceSelect
              => live \cap pHere \subseteq live']_vars
    BY <1>1
  <1> QED BY <1>2, TypeCorrect, ExpungeInvariant, FlagInvariant, PTL DEF NoWrongTombstone

===============================================================================
