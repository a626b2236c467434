------------------------------ MODULE InboxProof ------------------------------
(***************************************************************************)
(* What the session was told is never lost (ToldIsKept), for any number of *)
(* folders, changes and faults, on every server whose NOTIFY comes with    *)
(* CONDSTORE.                                                              *)
(*                                                                         *)
(* The idea of the invariant: a status is dropped only when it matches the *)
(* baseline or the pending change, so these must never match more than is  *)
(* covered: than the mirror has, or INBOX's first status took.  Of a       *)
(* mailbox's history the statuses that are still to be observed can show   *)
(* two points: the provider as it is and the snapshot that a command has   *)
(* read.                                                                   *)
(***************************************************************************)
EXTENDS InboxFeed, TLAPS

Mailbox == [arrived : Nat, gone : Nat, flagged : Nat]
Field == Nat \cup {Unknown}
Status == [next : Field, messages : Field, flags : Field, cursor : BOOLEAN]
Change == [reconcile : BOOLEAN, scan : BOOLEAN, observed : Status]
Done == [status : Status, reconciled : BOOLEAN, scanned : BOOLEAN]

(* One mailbox is nowhere ahead of another; one that a provider can show.  *)
Behind(a, b) == a.arrived <= b.arrived /\ a.gone <= b.gone /\ a.flagged <= b.flagged
Real(c) == c \in Mailbox /\ Behind(Counters, c) /\ c.gone <= c.arrived /\ c.flagged <= c.arrived

Snap(p) == IF p \in DOMAIN snap THEN {snap[p]} ELSE {}
Points(p) == {provider[p]} \cup Snap(p)

FeedTypes ==
  /\ server \in [condstore : BOOLEAN, qresync : BOOLEAN, notify : BOOLEAN, listed : BOOLEAN]
  /\ server.notify => server.condstore
  /\ provider \in [Paths -> Mailbox] /\ mirror \in [Paths -> Mailbox] /\ known \in [Paths -> Mailbox]
  /\ taken \in [Paths -> Mailbox]
  /\ baseline \in [Paths -> Status] /\ pending \in [Paths -> Change \cup {NoChange}]
  /\ marks \in [reconcile : SUBSET Paths, event : SUBSET Paths, status : SUBSET Paths]
  /\ phase \in {"away", "opening", "host", "selecting", "idle", "probing", "verifying", "pass", "closed"}
  /\ snap \in UNION {[S -> Mailbox] : S \in SUBSET Paths}
  /\ pass \in [held : SUBSET Paths, todo : SUBSET Paths, selected : SUBSET Paths,
               seen : UNION {[S -> Done] : S \in SUBSET Paths}]

(* Every point lies on the way to the provider, and so does the mirror.    *)
History ==
  \A p \in Paths :
    /\ Real(provider[p]) /\ Behind(Counters, mirror[p])
    /\ Behind(mirror[p], provider[p]) /\ Behind(known[p], provider[p])
    /\ p \in DOMAIN snap => Real(snap[p]) /\ Behind(snap[p], provider[p])

(* Nothing is selected, known or read before the session opens; outside    *)
(* its own commands it has read nothing.                                   *)
Quiet ==
  /\ phase \in {"away", "host", "idle"} => snap = <<>>
  /\ phase = "probing" /\ snap # <<>> => server.listed /\ ~Notifying
  /\ phase = "selecting" => Inbox \in DOMAIN snap
  /\ phase = "away" =>
       /\ known = mirror /\ pass.selected = {}
       /\ pending = [p \in Paths |-> NoChange]

(* The baseline has what is covered (m), unless a pending change asks for  *)
(* it.  With CONDSTORE its cursor stands for one point of the history,     *)
(* whose flags are covered or asked for.                                   *)
BaseSound(cond, c, X, m, b, ch) ==
  /\ b.next # Unknown /\ (b.next <= m.arrived \/ ch # NoChange)
  /\ cond => /\ b.flags # Unknown /\ b.flags <= Modseq(c)
             /\ \A x \in X : Modseq(x) = b.flags => x.flagged <= m.flagged \/ ch.scan
(* Without a pending change or a marker, the membership it tells is        *)
(* covered.                                                                *)
Settled(m, b, ch, rec) ==
  ch = NoChange /\ ~b.cursor /\ ~rec => b.messages # Unknown /\ b.next - b.messages <= m.gone
(* A pending change that forces no scan has the baseline's cursor.         *)
ChangeSound(cond, c, b, ch) ==
  ch # NoChange =>
    /\ ch.observed.next # Unknown
    /\ cond => /\ ch.observed.flags # Unknown /\ ch.observed.flags <= Modseq(c)
               /\ ~ch.scan => ch.observed.flags = b.flags
(* ToldIsKept of one path, without the marker of unproved flag statuses.   *)
Kept(cond, m, k, ch, rec, ev) ==
  /\ k.arrived <= m.arrived \/ ch # NoChange
  /\ k.gone <= m.gone \/ ch # NoChange \/ rec
  /\ k.flagged <= m.flagged \/ ch.scan \/ (~cond /\ ev)
Sound(cond, c, X, m, b, ch, rec) ==
  BaseSound(cond, c, X, m, b, ch) /\ Settled(m, b, ch, rec) /\ ChangeSound(cond, c, b, ch)
PathInv(cond, c, X, m, k, b, ch, rec, ev) ==
  Kept(cond, m, k, ch, rec, ev) /\ (b # Nothing => Sound(cond, c, X, m, b, ch, rec))
Path(p) == PathInv(server.condstore, provider[p], Points(p), Covered(p), known[p], baseline[p], pending[p],
                   p \in marks.reconcile, p \in marks.event)

(* During the live pass: a change that is still held has told nothing that *)
(* its folder's SELECT did not show; what was done to a folder is true of  *)
(* what is covered.                                                        *)
Reading(p) ==
  p \in DOMAIN snap => Behind(mirror[p], snap[p]) /\ (p \in pass.held => Behind(known[p], snap[p]))
DoneTrue(cond, c, m, d) ==
  /\ d.status.next # Unknown /\ d.status.next <= m.arrived
  /\ d.reconciled => d.status.messages # Unknown /\ d.status.next - d.status.messages <= m.gone
  /\ cond /\ d.scanned =>
       /\ d.status.flags # Unknown /\ d.status.flags <= Modseq(c)
       /\ Modseq(c) = d.status.flags => c.flagged <= m.flagged
Answered(m, k, ch, d) ==
  /\ k.arrived <= m.arrived
  /\ d.reconciled => k.gone <= m.gone
  /\ IF d.scanned THEN k.flagged <= m.flagged ELSE ~ch.scan
PassPath(p) ==
  /\ Reading(p)
  /\ p \in pass.held => pending[p] # NoChange
  /\ p \in DOMAIN pass.seen => /\ DoneTrue(server.condstore, provider[p], Covered(p), pass.seen[p])
                               /\ p \in pass.held => Answered(Covered(p), known[p], pending[p], pass.seen[p])

AllPaths == \A p \in Paths : Path(p)
PathsInv == phase # "away" => AllPaths
PassInv == phase = "pass" => \A p \in Paths : PassPath(p)

OpenInv == FeedTypes /\ History /\ Quiet /\ PathsInv /\ PassInv

(* Only INBOX may lack a baseline, and then a change of it that is pending *)
(* forces everything: the mailbox can tell of a single event only while it *)
(* is selected, for its first status or because it was dirty.              *)
Unasked ==
  /\ phase # "away" => \A p \in Folders : baseline[p] # Nothing
  /\ phase = "away" \/ baseline[Inbox] = Nothing =>
       /\ Inbox \notin marks.reconcile
       /\ phase # "selecting" =>
            /\ pending[Inbox] # NoChange => pending[Inbox].scan
            /\ Inbox \in pass.selected => pending[Inbox] # NoChange
       /\ Inbox \in pass.todo => pending[Inbox] # NoChange
FeedInv == Alive => OpenInv /\ Unasked

-------------------------------------------------------------------------------
(* Records.                                                                *)

LEMMA ChangeIsChange == NoChange \notin Change
<1>1. <<>> \notin Status
  <2> SUFFICES ASSUME <<>> \in Status PROVE FALSE OBVIOUS
  <2>1. DOMAIN <<>> = {} OBVIOUS
  <2>2. \A s \in Status : "next" \in DOMAIN s BY DEF Status
  <2> QED BY <2>1, <2>2
<1> QED BY <1>1 DEF NoChange, Change

LEMMA StatusEqual ==
  ASSUME NEW a \in Status, NEW b \in Status, a.next = b.next, a.messages = b.messages, a.flags = b.flags, a.cursor = b.cursor
  PROVE  a = b
  BY DEF Status
LEMMA ChangeEqual ==
  ASSUME NEW a \in Change, NEW b \in Change, a.reconcile = b.reconcile, a.scan = b.scan, a.observed = b.observed
  PROVE  a = b
  BY DEF Change

LEMMA OverIs ==
  ASSUME NEW a \in Status, NEW b \in Status
  PROVE  /\ Over(a, b) \in Status /\ Over(a, b).cursor = a.cursor
         /\ Over(a, b).next = IF b.next # Unknown THEN b.next ELSE a.next
         /\ Over(a, b).messages = IF b.messages # Unknown THEN b.messages ELSE a.messages
         /\ Over(a, b).flags = IF b.flags # Unknown THEN b.flags ELSE a.flags
<1>1. DOMAIN a = {"next", "messages", "flags", "cursor"} BY DEF Status
<1>2. Over(a, b) = [next |-> IF b.next # Unknown THEN b.next ELSE a.next,
                    messages |-> IF b.messages # Unknown THEN b.messages ELSE a.messages,
                    flags |-> IF b.flags # Unknown THEN b.flags ELSE a.flags, cursor |-> a.cursor]
  BY <1>1 DEF Over
<1> QED BY <1>2 DEF Status

(* A status that shows x, apart from UNSEEN.                               *)
Tells(s, x) ==
  /\ s \in Status /\ s.next = x.arrived /\ s.messages = x.arrived - x.gone /\ s.cursor = FALSE
  /\ server.condstore => s.flags = Modseq(x)
Answers(x) == {StatusOf(x), SelectOf(x)}

LEMMA RealIs ==
  ASSUME NEW x, Real(x)
  PROVE  /\ x \in Mailbox /\ x.arrived \in Nat /\ x.gone \in Nat /\ x.flagged \in Nat
         /\ x.gone <= x.arrived /\ x.flagged <= x.arrived /\ x.arrived - x.gone \in Nat /\ Modseq(x) \in Nat
  BY DEF Real, Mailbox, Modseq

LEMMA StatusIs ==
  ASSUME FeedTypes, NEW x, Real(x), NEW s \in Answers(x)
  PROVE  Tells(s, x)
<1>1. /\ x.arrived \in Nat /\ x.gone \in Nat /\ x.flagged \in Nat /\ x.arrived - x.gone \in Nat
      /\ Modseq(x) \in Nat /\ x.arrived - x.flagged \in Nat /\ server.condstore \in BOOLEAN
  BY RealIs DEF FeedTypes
<1> DEFINE f == IF server.condstore THEN Modseq(x) ELSE x.arrived - x.flagged
           g == IF server.condstore THEN f ELSE Unknown
<1>2. f \in Field /\ g \in Field /\ (server.condstore => f = Modseq(x) /\ g = Modseq(x)) BY <1>1 DEF Field
<1>3. StatusOf(x) = [next |-> x.arrived, messages |-> x.arrived - x.gone, cursor |-> FALSE, flags |-> f]
  BY DEF StatusOf
<1> HIDE DEF f
<1>4. SelectOf(x) = [StatusOf(x) EXCEPT !.flags = g] BY <1>3 DEF SelectOf
<1> HIDE DEF g
<1>5. Tells(StatusOf(x), x) BY <1>1, <1>2, <1>3 DEF Tells, Status, Field
<1>6. Tells(SelectOf(x), x) BY <1>2, <1>4, <1>5 DEF Tells, Status
<1> QED BY <1>5, <1>6 DEF Answers

LEMMA LatestIs ==
  ASSUME FeedTypes, NEW p \in Paths
  PROVE  /\ Latest(p) \in Status
         /\ pending[p] = NoChange => Latest(p) = baseline[p]
         /\ pending[p] # NoChange => pending[p] \in Change /\ Latest(p) = Over(baseline[p], pending[p].observed)
<1>1. baseline[p] \in Status /\ pending[p] \in Change \cup {NoChange} BY DEF FeedTypes
<1>2. CASE pending[p] = NoChange BY <1>1, <1>2 DEF Latest
<1>3. CASE pending[p] # NoChange
  <2>1. pending[p].observed \in Status BY <1>1, <1>3 DEF Change
  <2> QED BY <1>1, <1>3, <2>1, OverIs DEF Latest
<1> QED BY <1>2, <1>3

(* What is observed shows the same point as the status that was answered.  *)
LEMMA SeenIs ==
  ASSUME FeedTypes, NEW p \in Paths, NEW x, Real(x), NEW st \in Answers(x)
  PROVE  Tells([Over(Latest(p), st) EXCEPT !.cursor = FALSE], x)
<1> DEFINE o == Over(Latest(p), st)
           r == [o EXCEPT !.cursor = FALSE]
<1>1. Tells(st, x) BY StatusIs
<1>2. x.arrived \in Nat /\ x.arrived - x.gone \in Nat /\ Modseq(x) \in Nat BY RealIs
<1>3. st \in Status /\ st.next # Unknown /\ st.messages # Unknown /\ (server.condstore => st.flags # Unknown)
  BY <1>1, <1>2 DEF Tells, Unknown
<1>4. o \in Status /\ o.next = st.next /\ o.messages = st.messages /\ (server.condstore => o.flags = st.flags)
  BY <1>3, LatestIs, OverIs
<1> HIDE DEF o
<1>5. r \in Status /\ r.next = o.next /\ r.messages = o.messages /\ r.flags = o.flags /\ r.cursor = FALSE
  BY <1>4 DEF Status
<1> HIDE DEF r
<1>6. Tells(r, x) BY <1>1, <1>4, <1>5 DEF Tells
<1> QED BY <1>6 DEF r, o

LEMMA AlsoIs ==
  ASSUME NEW c \in Change, NEW d \in Change \cup {NoChange}
  PROVE  /\ Also(c, d) \in Change /\ Also(c, d) # NoChange /\ Also(c, d).observed = c.observed
         /\ Also(c, d).scan = (c.scan \/ d.scan) /\ Also(c, d).reconcile = (c.reconcile \/ d.reconcile)
<1>1. d.scan \in BOOLEAN /\ d.reconcile \in BOOLEAN
  <2>1. CASE d \in Change BY <2>1 DEF Change
  <2>2. CASE d = NoChange BY <2>2 DEF NoChange
  <2> QED BY <2>1, <2>2
<1>2. c.scan \in BOOLEAN /\ c.reconcile \in BOOLEAN BY DEF Change
<1> DEFINE rc == c.reconcile \/ d.reconcile
           sc == c.scan \/ d.scan
<1>8. rc \in BOOLEAN /\ sc \in BOOLEAN BY <1>1, <1>2
<1>9. Also(c, d) = [c EXCEPT !.reconcile = rc, !.scan = sc] BY DEF Also, Change
<1> HIDE DEF rc, sc
<1>4. Also(c, d) \in Change BY <1>8, <1>9 DEF Change
<1>5. Also(c, d).observed = c.observed BY <1>9 DEF Change
<1>6. Also(c, d).scan = sc BY <1>9 DEF Change
<1>7. Also(c, d).reconcile = rc BY <1>9 DEF Change
<1> QED BY <1>4, <1>5, <1>6, <1>7, ChangeIsChange DEF rc, sc
-------------------------------------------------------------------------------
(* observe.                                                                *)

(* What observe makes of a baseline b and a pending change old when a      *)
(* status s is answered.                                                   *)
Current(s) == server.qresync /\ server.condstore /\ s.flags = Modseq(Counters)
Forced(b, s) ==
  [Detected(b, s) EXCEPT !.reconcile = TRUE, !.scan = @ \/ ~(b.flags # Unknown /\ s.flags # Unknown /\ server.condstore)]
Matched(b, old, s) == old # NoChange /\ SameKnown(old.observed, s)
Opening(b, old, s) == old = NoChange /\ b.cursor /\ ~Current(s)
Accepted(b, old, s) == old = NoChange /\ SameKnown(b, s)

LEMMA ObservedIs ==
  ASSUME FeedTypes, NEW p \in Paths, NEW st, NEW i \in BOOLEAN, baseline[p] # Nothing,
         NEW b, b = baseline[p], NEW old, old = pending[p], NEW s, s = [Over(Latest(p), st) EXCEPT !.cursor = FALSE]
  PROVE  Observed(p, st, i) =
    IF Matched(b, old, s) THEN [base |-> b, told |-> FALSE, change |-> IF i THEN [old EXCEPT !.observed = s] ELSE old]
    ELSE IF Opening(b, old, s) THEN [base |-> b, told |-> TRUE, change |-> Forced(b, s)]
    ELSE IF Accepted(b, old, s) THEN [base |-> s, told |-> FALSE, change |-> NoChange]
    ELSE [base |-> b, told |-> TRUE, change |-> Also(Detected(b, s), old)]
  BY DEF Observed, Matched, Opening, Accepted, Forced, Current

LEMMA DetectedIs ==
  ASSUME FeedTypes, NEW b \in Status, NEW s \in Status
  PROVE  /\ Detected(b, s) \in Change /\ Detected(b, s).observed = s
         /\ Detected(b, s).scan = Differs(b.flags, s.flags)
         /\ ~Detected(b, s).scan /\ b.flags # Unknown /\ s.flags # Unknown => s.flags = b.flags
  BY DEF Detected, Change, Differs, FeedTypes
LEMMA ForcedIs ==
  ASSUME FeedTypes, NEW b \in Status, NEW s \in Status
  PROVE  /\ Forced(b, s) \in Change /\ Forced(b, s).observed = s
         /\ ~Forced(b, s).scan => b.flags # Unknown /\ s.flags = b.flags
<1>1. Detected(b, s) \in Change /\ Detected(b, s).observed = s /\ Detected(b, s).scan = Differs(b.flags, s.flags)
  BY DetectedIs
<1> DEFINE sc == Detected(b, s).scan \/ ~(b.flags # Unknown /\ s.flags # Unknown /\ server.condstore)
<1>2. sc \in BOOLEAN BY DEF Detected, Differs
<1>3. Forced(b, s) = [Detected(b, s) EXCEPT !.reconcile = TRUE, !.scan = sc] BY DEF Forced
<1>4. ~sc => b.flags # Unknown /\ s.flags = b.flags BY <1>1 DEF Differs
<1> HIDE DEF sc
<1> QED BY <1>1, <1>2, <1>3, <1>4 DEF Change

LEMMA LearnIs ==
  ASSUME FeedTypes, NEW k \in Mailbox, NEW x \in Mailbox
  PROVE  /\ LearnAll(k, x) \in Mailbox
         /\ LearnAll(k, x).arrived = k.arrived \/ LearnAll(k, x).arrived = x.arrived
         /\ LearnAll(k, x).gone = k.gone \/ LearnAll(k, x).gone = x.gone
         /\ LearnAll(k, x).flagged = k.flagged \/ (server.condstore /\ LearnAll(k, x).flagged = x.flagged)
<1>1. /\ k.arrived \in Nat /\ k.gone \in Nat /\ k.flagged \in Nat /\ x.arrived \in Nat /\ x.gone \in Nat /\ x.flagged \in Nat
      /\ server.condstore \in BOOLEAN
  BY DEF Mailbox, FeedTypes
<1> DEFINE a == IF k.arrived < x.arrived THEN x.arrived ELSE k.arrived
           g == IF k.gone < x.gone THEN x.gone ELSE k.gone
           f == IF server.condstore /\ k.flagged < x.flagged THEN x.flagged ELSE k.flagged
<1>2. LearnAll(k, x) = [arrived |-> a, gone |-> g, flagged |-> f] BY DEF LearnAll
<1>3. /\ a \in Nat /\ g \in Nat /\ f \in Nat /\ (a = k.arrived \/ a = x.arrived) /\ (g = k.gone \/ g = x.gone)
      /\ f = k.flagged \/ (server.condstore /\ f = x.flagged)
  BY <1>1
<1> HIDE DEF a, g, f
<1> QED BY <1>2, <1>3 DEF Mailbox

(* What both points may show; what the lemmas below assume of one path.    *)
Shows(c, X, m) ==
  /\ Real(c) /\ c \in X /\ m \in Mailbox /\ Behind(Counters, m)
  /\ \A y \in X : Real(y) /\ Behind(y, c)

LEMMA CountersOnly ==
  ASSUME NEW x, Real(x), Modseq(x) = Modseq(Counters)
  PROVE  x.arrived = 1 /\ x.gone = 0 /\ x.flagged = 0
<1>1. Modseq(Counters) = 1 BY DEF Modseq, Counters
<1>2. /\ x.arrived \in Nat /\ x.gone \in Nat /\ x.flagged \in Nat
      /\ 1 <= x.arrived /\ 0 <= x.gone /\ 0 <= x.flagged
  BY DEF Real, Mailbox, Behind, Counters
<1>3. x.arrived + x.gone + x.flagged = 1 BY <1>1 DEF Modseq
<1> QED BY <1>2, <1>3

LEMMA ObserveKeeps ==
  ASSUME FeedTypes, NEW p \in Paths, NEW c, NEW X, NEW m, NEW k \in Mailbox, Shows(c, X, m), baseline[p] # Nothing,
         NEW rec, NEW ev, NEW i \in BOOLEAN, NEW x \in X, NEW st \in Answers(x), NEW o, o = Observed(p, st, i),
         PathInv(server.condstore, c, X, m, k, baseline[p], pending[p], rec, ev)
  PROVE  /\ o.base \in Status /\ o.base # Nothing /\ o.change \in Change \cup {NoChange}
         /\ PathInv(server.condstore, c, X, m, LearnAll(k, x), o.base, o.change, rec, ev)
<1> DEFINE b == baseline[p]
           old == pending[p]
           s == [Over(Latest(p), st) EXCEPT !.cursor = FALSE]
           cond == server.condstore
           kk == LearnAll(k, x)
<1>1. b \in Status /\ old \in Change \cup {NoChange} /\ cond \in BOOLEAN BY DEF FeedTypes
<1>2. Real(x) /\ Behind(x, c) /\ x \in Mailbox BY DEF Shows, Real
<1>3. /\ s \in Status /\ s.next = x.arrived /\ s.messages = x.arrived - x.gone /\ s.cursor = FALSE
      /\ s.next # Unknown /\ s.messages # Unknown /\ s # Nothing
      /\ cond => s.flags = Modseq(x) /\ Modseq(x) <= Modseq(c) /\ s.flags # Unknown
  <2>1. Tells(s, x) BY <1>2, SeenIs
  <2>2. x.arrived \in Nat /\ x.arrived - x.gone \in Nat /\ Modseq(x) \in Nat BY <1>2, RealIs
  <2>3. Modseq(x) <= Modseq(c) BY <1>2 DEF Behind, Modseq, Mailbox, Shows, Real
  <2> HIDE DEF s
  <2> QED BY <2>1, <2>2, <2>3 DEF Tells, Unknown, Nothing
<1>4. /\ kk.arrived = k.arrived \/ kk.arrived = x.arrived
      /\ kk.gone = k.gone \/ kk.gone = x.gone
      /\ kk.flagged = k.flagged \/ (cond /\ kk.flagged = x.flagged)
  BY <1>2, LearnIs
<1>5. o = IF Matched(b, old, s) THEN [base |-> b, told |-> FALSE, change |-> IF i THEN [old EXCEPT !.observed = s] ELSE old]
    ELSE IF Opening(b, old, s) THEN [base |-> b, told |-> TRUE, change |-> Forced(b, s)]
    ELSE IF Accepted(b, old, s) THEN [base |-> s, told |-> FALSE, change |-> NoChange]
    ELSE [base |-> b, told |-> TRUE, change |-> Also(Detected(b, s), old)]
  BY ObservedIs
<1>6. BaseSound(cond, c, X, m, b, old) /\ Settled(m, b, old, rec) /\ ChangeSound(cond, c, b, old)
      /\ Kept(cond, m, k, old, rec, ev) /\ b # Nothing
  BY DEF PathInv, Sound
<1>7. b.next # Unknown /\ (old = NoChange => b.next <= m.arrived)
      /\ (cond => b.flags # Unknown /\ (s.flags = b.flags => x.flagged <= m.flagged \/ old.scan))
  BY <1>3, <1>6 DEF BaseSound
<1> HIDE DEF b, old, s, cond, kk
<1>8. old # NoChange => old \in Change /\ old.observed \in Status BY <1>1 DEF Change
(* A change that is pending with the cursor of s or, unforced, of b.       *)
<1>9. ASSUME NEW ch \in Change, ch.observed.next # Unknown, cond => ch.observed.flags # Unknown /\ ch.observed.flags <= Modseq(c),
             cond /\ ~ch.scan => ch.observed.flags = b.flags /\ s.flags = b.flags,
             old.scan => ch.scan
      PROVE  PathInv(cond, c, X, m, kk, b, ch, rec, ev)
  <2>1. ch # NoChange BY ChangeIsChange
  <2>2. Settled(m, b, ch, rec) BY <2>1 DEF Settled
  <2>3. ChangeSound(cond, c, b, ch) BY <1>9 DEF ChangeSound
  <2>4. BaseSound(cond, c, X, m, b, ch) BY <1>6, <1>9, <2>1 DEF BaseSound
  <2>5. kk.flagged <= m.flagged \/ ch.scan \/ (~cond /\ ev)
    <3>1. CASE ch.scan BY <3>1
    <3>2. CASE ~ch.scan
      <4>1. ~old.scan BY <1>9, <3>2
      <4>2. k.flagged <= m.flagged \/ (~cond /\ ev) BY <1>6, <4>1 DEF Kept
      <4>3. cond => x.flagged <= m.flagged BY <1>7, <1>9, <3>2, <4>1
      <4> QED BY <1>4, <4>2, <4>3
    <3> QED BY <3>1, <3>2
  <2> QED BY <2>1, <2>2, <2>3, <2>4, <2>5 DEF PathInv, Kept, Sound
<1>10. CASE Matched(b, old, s)
  <2>1. /\ old # NoChange /\ old \in Change
        /\ old.observed.next # Unknown
        /\ cond => /\ old.observed.flags # Unknown /\ old.observed.flags <= Modseq(c)
                   /\ ~old.scan => old.observed.flags = b.flags
    BY <1>6, <1>8, <1>10 DEF Matched, ChangeSound
  <2>2. cond => s.flags = old.observed.flags BY <1>3, <1>10, <2>1 DEF Matched, SameKnown, Differs
  <2>3. CASE i
    <3> DEFINE ch == [old EXCEPT !.observed = s]
    <3>1. ch \in Change /\ ch.observed = s /\ ch.scan = old.scan BY <1>3, <2>1 DEF Change
    <3>2. o.base = b /\ o.change = ch BY <1>5, <1>10, <2>3
    <3> HIDE DEF ch
    <3>3. PathInv(cond, c, X, m, kk, b, ch, rec, ev) BY <1>3, <1>9, <2>1, <2>2, <3>1
    <3> QED BY <1>1, <1>6, <3>1, <3>2, <3>3 DEF cond, kk
  <2>4. CASE ~i
    <3>1. o.base = b /\ o.change = old BY <1>5, <1>10, <2>4
    <3>2. PathInv(cond, c, X, m, kk, b, old, rec, ev) BY <1>9, <2>1, <2>2
    <3> QED BY <1>1, <1>6, <2>1, <3>1, <3>2 DEF cond, kk
  <2> QED BY <2>3, <2>4
<1>11. CASE ~Matched(b, old, s) /\ Opening(b, old, s)
  <2>1. o.base = b /\ o.change = Forced(b, s) BY <1>5, <1>11
  <2>2. Forced(b, s) \in Change /\ Forced(b, s).observed = s /\ (~Forced(b, s).scan => s.flags = b.flags)
    BY <1>1, <1>3, ForcedIs
  <2>3. ~old.scan BY <1>11 DEF Opening, NoChange
  <2>4. PathInv(cond, c, X, m, kk, b, Forced(b, s), rec, ev) BY <1>3, <1>9, <2>2, <2>3
  <2> QED BY <1>1, <1>6, <2>1, <2>2, <2>4 DEF cond, kk
<1>12. CASE ~Matched(b, old, s) /\ ~Opening(b, old, s) /\ Accepted(b, old, s)
  <2>1. o.base = s /\ o.change = NoChange /\ old = NoChange BY <1>5, <1>12 DEF Accepted
  <2>2. s.next = b.next /\ (b.messages # Unknown => s.messages = b.messages) /\ (cond => s.flags = b.flags)
    BY <1>3, <1>7, <1>12 DEF Accepted, SameKnown, Differs
  <2>3. b.cursor => x.gone = 0
    <3> SUFFICES ASSUME b.cursor PROVE x.gone = 0 OBVIOUS
    <3>1. Current(s) BY <1>12, <2>1 DEF Opening
    <3>2. Modseq(x) = Modseq(Counters) BY <1>3, <3>1 DEF Current, cond
    <3> QED BY <1>2, <3>2, CountersOnly
  <2>4. x.gone <= m.gone \/ rec
    <3>1. m.gone \in Nat /\ x.gone \in Nat /\ x.arrived \in Nat BY <1>2 DEF Shows, Mailbox
    <3>2. CASE b.cursor BY <2>3, <3>1, <3>2
    <3>3. CASE ~b.cursor /\ ~rec
      <4>1. b.messages # Unknown /\ b.next - b.messages <= m.gone BY <1>6, <2>1, <3>3 DEF Settled
      <4> QED BY <1>3, <2>2, <3>1, <4>1
    <3> QED BY <3>2, <3>3
  <2>5. x.gone <= m.gone => s.next - s.messages <= m.gone
    BY <1>2, <1>3 DEF Mailbox, Shows
  <2>6. Settled(m, s, NoChange, rec) BY <1>3, <2>4, <2>5 DEF Settled
  <2>7. BaseSound(cond, c, X, m, s, NoChange) BY <1>3, <1>6, <1>7, <2>1, <2>2 DEF BaseSound
  <2>8. ChangeSound(cond, c, s, NoChange) BY DEF ChangeSound
  <2>9. Kept(cond, m, kk, NoChange, rec, ev)
    <3>1. k.arrived <= m.arrived /\ (k.gone <= m.gone \/ rec) /\ (k.flagged <= m.flagged \/ (~cond /\ ev))
      BY <1>6, <2>1 DEF Kept, NoChange
    <3>2. x.arrived <= m.arrived /\ (cond => x.flagged <= m.flagged) BY <1>3, <1>7, <2>1, <2>2 DEF NoChange
    <3> QED BY <1>4, <2>4, <3>1, <3>2 DEF Kept
  <2> QED BY <1>3, <2>1, <2>6, <2>7, <2>8, <2>9 DEF PathInv, Sound, cond, kk
<1>13. CASE ~Matched(b, old, s) /\ ~Opening(b, old, s) /\ ~Accepted(b, old, s)
  <2> DEFINE ch == Also(Detected(b, s), old)
  <2>1. Detected(b, s) \in Change /\ Detected(b, s).observed = s /\ (cond /\ ~Detected(b, s).scan => s.flags = b.flags)
    BY <1>1, <1>3, <1>7, DetectedIs
  <2>2. ch \in Change /\ ch.observed = s /\ ch.scan = (Detected(b, s).scan \/ old.scan) BY <1>1, <2>1, AlsoIs
  <2>3. o.base = b /\ o.change = ch BY <1>5, <1>13
  <2> HIDE DEF ch
  <2>4. PathInv(cond, c, X, m, kk, b, ch, rec, ev) BY <1>3, <1>9, <2>1, <2>2
  <2> QED BY <1>1, <1>6, <2>2, <2>3, <2>4 DEF cond, kk
<1> QED BY <1>10, <1>11, <1>12, <1>13
(* With CONDSTORE a point that is newer than what was observed is told.    *)
LEMMA NewIsTold ==
  ASSUME FeedTypes, server.condstore, NEW p \in Paths, NEW x, Real(x), NEW i \in BOOLEAN, NEW c, Modseq(c) < Modseq(x), Real(c),
         baseline[p].flags # Unknown, baseline[p].flags <= Modseq(c), ChangeSound(TRUE, c, baseline[p], pending[p])
  PROVE  Observed(p, StatusOf(x), i).told
<1> DEFINE b == baseline[p]
           old == pending[p]
           st == StatusOf(x)
           s == [Over(Latest(p), st) EXCEPT !.cursor = FALSE]
<1>1. b \in Status /\ old \in Change \cup {NoChange} /\ b # Nothing BY DEF FeedTypes, Nothing
<1>2. st \in Answers(x) BY DEF Answers
<1>3. Modseq(x) \in Nat /\ Modseq(c) \in Nat BY RealIs
<1>4. s.flags = Modseq(x) /\ s.flags # Unknown
  <2>1. Tells(s, x) BY <1>2, SeenIs
  <2> HIDE DEF s
  <2> QED BY <1>3, <2>1 DEF Tells, Unknown
<1>5. b.flags \in Nat BY <1>1 DEF Status, Field
<1>6. Observed(p, st, i) =
    IF Matched(b, old, s) THEN [base |-> b, told |-> FALSE, change |-> IF i THEN [old EXCEPT !.observed = s] ELSE old]
    ELSE IF Opening(b, old, s) THEN [base |-> b, told |-> TRUE, change |-> Forced(b, s)]
    ELSE IF Accepted(b, old, s) THEN [base |-> s, told |-> FALSE, change |-> NoChange]
    ELSE [base |-> b, told |-> TRUE, change |-> Also(Detected(b, s), old)]
  BY <1>1, ObservedIs
<1> HIDE DEF s, st
<1>7. ~SameKnown(b, s) BY <1>3, <1>4, <1>5 DEF SameKnown, Differs
<1>8. ~Matched(b, old, s)
  <2> SUFFICES ASSUME old # NoChange PROVE ~SameKnown(old.observed, s) BY DEF Matched
  <2>1. old.observed.flags # Unknown /\ old.observed.flags <= Modseq(c) BY DEF ChangeSound
  <2>2. old.observed.flags \in Nat BY <1>1, <2>1 DEF Change, Status, Field
  <2> QED BY <1>3, <1>4, <2>1, <2>2 DEF SameKnown, Differs
<1> HIDE DEF b, old
<1>9. Observed(p, st, i).told BY <1>6, <1>7, <1>8 DEF Accepted
<1> QED BY <1>9 DEF st

(* A first status covers what it shows, but for what a change asks already. *)
Takes(n, x, old) ==
  /\ old = NoChange => x.arrived <= n.arrived /\ x.gone <= n.gone
  /\ ~old.scan => x.flagged <= n.flagged

LEMMA EqualPoint ==
  ASSUME NEW x, Real(x), NEW c, Real(c), Behind(x, c), Modseq(x) = Modseq(c)
  PROVE  x.arrived = c.arrived /\ x.gone = c.gone /\ x.flagged = c.flagged
<1>1. x.arrived \in Nat /\ x.gone \in Nat /\ x.flagged \in Nat /\ c.arrived \in Nat /\ c.gone \in Nat /\ c.flagged \in Nat
  BY RealIs
<1>2. x.arrived <= c.arrived /\ x.gone <= c.gone /\ x.flagged <= c.flagged BY DEF Behind
<1>3. x.arrived + x.gone + x.flagged = c.arrived + c.gone + c.flagged BY DEF Modseq
<1>4. x.arrived = c.arrived BY <1>1, <1>2, <1>3
<1>5. x.gone = c.gone BY <1>1, <1>2, <1>3
<1> QED BY <1>1, <1>3, <1>4, <1>5

FirstOf(p, c, X, m, n, k, rec, ev, x) ==
  /\ baseline[p] = Nothing /\ X = {c, x} /\ m \in Mailbox /\ n \in Mailbox /\ k \in Mailbox
  /\ Shows(c, X, n) /\ Behind(m, n) /\ Takes(n, x, pending[p])
  /\ Kept(server.condstore, m, k, pending[p], rec, ev)
LEMMA FirstKeeps ==
  ASSUME FeedTypes, NEW p \in Paths, NEW c, NEW X, NEW m, NEW n, NEW k, NEW rec, NEW ev, NEW x,
         FirstOf(p, c, X, m, n, k, rec, ev, x), NEW i \in BOOLEAN, NEW st \in Answers(x), NEW o, o = Observed(p, st, i)
  PROVE  /\ o.base \in Status /\ o.base # Nothing /\ o.change \in Change \cup {NoChange}
         /\ PathInv(server.condstore, c, X, n, LearnAll(k, x), o.base, o.change, rec, ev)
<1> USE DEF FirstOf
<1> DEFINE old == pending[p]
           cond == server.condstore
           kk == LearnAll(k, x)
           ch == IF old = NoChange THEN NoChange ELSE [old EXCEPT !.observed = st]
<1>1. old \in Change \cup {NoChange} /\ cond \in BOOLEAN BY DEF FeedTypes
<1>2. Real(x) /\ Behind(x, c) /\ x \in Mailbox /\ Real(c) BY DEF Shows, Real
<1>3. /\ x.arrived \in Nat /\ x.gone \in Nat /\ x.flagged \in Nat /\ Modseq(x) \in Nat /\ x.arrived - x.gone \in Nat
      /\ c.arrived \in Nat /\ c.gone \in Nat /\ c.flagged \in Nat /\ Modseq(c) \in Nat
      /\ m.arrived \in Nat /\ m.gone \in Nat /\ m.flagged \in Nat /\ n.arrived \in Nat /\ n.gone \in Nat /\ n.flagged \in Nat
      /\ k.arrived \in Nat /\ k.gone \in Nat /\ k.flagged \in Nat
  BY <1>2, RealIs DEF Mailbox
<1>4. Tells(st, x) BY <1>2, StatusIs
<1>5. st.next # Unknown /\ st.messages # Unknown /\ st # Nothing BY <1>3, <1>4 DEF Tells, Unknown, Nothing
<1>6. o.base = st /\ o.change = ch BY DEF Observed, First
<1>7. /\ kk.arrived = k.arrived \/ kk.arrived = x.arrived
      /\ kk.gone = k.gone \/ kk.gone = x.gone
      /\ kk.flagged = k.flagged \/ (cond /\ kk.flagged = x.flagged)
  BY <1>2, LearnIs
<1>8. /\ ch \in Change \cup {NoChange} /\ (ch = NoChange <=> old = NoChange) /\ ch.scan = old.scan
      /\ ch # NoChange => ch.observed = st
  <2>1. CASE old = NoChange BY <2>1 DEF NoChange
  <2>2. CASE old # NoChange
    <3>1. old \in Change BY <1>1, <2>2
    <3>2. ch \in Change /\ ch.scan = old.scan /\ ch.observed = st BY <1>4, <2>2, <3>1 DEF Change, Tells
    <3> QED BY <2>2, <3>2, ChangeIsChange
  <2> QED BY <2>1, <2>2
<1> HIDE DEF old, cond, kk, ch
<1>9. Behind(m, n) /\ (old = NoChange => x.arrived <= n.arrived /\ x.gone <= n.gone) /\ (~old.scan => x.flagged <= n.flagged)
  BY DEF Takes, old
<1>10. Kept(cond, n, kk, ch, rec, ev)
  <2>1. Kept(cond, m, k, old, rec, ev) BY DEF old, cond
  <2> QED BY <1>3, <1>7, <1>8, <1>9, <2>1 DEF Kept, Behind
<1>11. BaseSound(cond, c, X, n, st, ch)
  <2>1. st.next <= n.arrived \/ ch # NoChange BY <1>4, <1>8, <1>9 DEF Tells
  <2>2. ASSUME cond
        PROVE  /\ st.flags # Unknown /\ st.flags <= Modseq(c)
               /\ \A y \in X : Modseq(y) = st.flags => y.flagged <= n.flagged \/ ch.scan
    <3>1. st.flags = Modseq(x) BY <1>4, <2>2 DEF Tells, cond
    <3>2. Modseq(x) <= Modseq(c) BY <1>2, <1>3 DEF Behind, Modseq
    <3>3. ASSUME NEW y \in X, Modseq(y) = Modseq(x) PROVE y.flagged <= n.flagged \/ ch.scan
      <4>1. y.flagged = x.flagged
        <5>1. CASE y = x BY <5>1
        <5>2. CASE y = c BY <1>2, <3>3, <5>2, EqualPoint
        <5> QED BY <5>1, <5>2
      <4> QED BY <1>8, <1>9, <4>1
    <3> QED BY <1>3, <3>1, <3>2, <3>3 DEF Unknown
  <2> QED BY <1>5, <2>1, <2>2 DEF BaseSound
<1>12. Settled(n, st, ch, rec)
  <2> SUFFICES ASSUME ch = NoChange PROVE st.next - st.messages <= n.gone BY <1>5 DEF Settled
  <2>1. st.next - st.messages = x.gone BY <1>3, <1>4 DEF Tells
  <2> QED BY <1>8, <1>9, <2>1
<1>13. ChangeSound(cond, c, st, ch)
  <2> SUFFICES ASSUME ch # NoChange PROVE ChangeSound(cond, c, st, ch) BY DEF ChangeSound
  <2> QED BY <1>5, <1>8, <1>11 DEF ChangeSound, BaseSound
<1>14. PathInv(cond, c, X, n, kk, st, ch, rec, ev) BY <1>10, <1>11, <1>12, <1>13 DEF PathInv, Sound
<1> QED BY <1>4, <1>5, <1>6, <1>8, <1>14 DEF Tells, cond, kk

-------------------------------------------------------------------------------
(* The other ways in which one path changes.                               *)

(* Points are forgotten or are new, and more is covered.                   *)
LEMMA MovesOn ==
  ASSUME NEW cond, NEW c, NEW X, NEW m, NEW k, NEW b \in Status, NEW ch \in Change \cup {NoChange}, NEW rec, NEW ev,
         PathInv(cond, c, X, m, k, b, ch, rec, ev), Shows(c, X, m), k \in Mailbox,
         NEW d, Real(d), Modseq(c) <= Modseq(d), NEW n \in Mailbox, Behind(m, n),
         NEW Y, \A y \in Y : y \in X \/ (Real(y) /\ Modseq(c) < Modseq(y))
  PROVE  PathInv(cond, d, Y, n, k, b, ch, rec, ev)
<1>1. Modseq(c) \in Nat /\ Modseq(d) \in Nat BY DEF Shows, Real, Mailbox, Modseq
<1>2. /\ m \in Mailbox /\ m.arrived <= n.arrived /\ m.gone <= n.gone /\ m.flagged <= n.flagged
      /\ m.arrived \in Nat /\ m.gone \in Nat /\ m.flagged \in Nat /\ n.arrived \in Nat /\ n.gone \in Nat /\ n.flagged \in Nat
      /\ k.arrived \in Nat /\ k.gone \in Nat /\ k.flagged \in Nat
  BY DEF Shows, Behind, Mailbox
<1>3. b.next \in Nat \cup {-1} /\ b.flags \in Nat \cup {-1} /\ b.messages \in Nat \cup {-1} BY DEF Status, Field, Unknown
<1>4. Kept(cond, n, k, ch, rec, ev)
  <2>1. Kept(cond, m, k, ch, rec, ev) BY DEF PathInv
  <2> QED BY <1>2, <2>1 DEF Kept
<1>5. ASSUME Sound(cond, c, X, m, b, ch, rec) PROVE Sound(cond, d, Y, n, b, ch, rec)
  <2>1. BaseSound(cond, c, X, m, b, ch) /\ Settled(m, b, ch, rec) /\ ChangeSound(cond, c, b, ch) BY <1>5 DEF Sound
  <2>2. \A y \in Y : cond /\ Modseq(y) = b.flags => y.flagged <= n.flagged \/ ch.scan
    <3> SUFFICES ASSUME NEW y \in Y, cond, Modseq(y) = b.flags PROVE y.flagged <= n.flagged \/ ch.scan OBVIOUS
    <3>1. b.flags <= Modseq(c) BY <2>1 DEF BaseSound
    <3>2. y \in X
      <4> SUFFICES ASSUME Real(y), Modseq(c) < Modseq(y) PROVE FALSE OBVIOUS
      <4>1. Modseq(y) \in Nat BY RealIs
      <4> QED BY <1>1, <3>1, <4>1
    <3>3. y.flagged <= m.flagged \/ ch.scan BY <2>1, <3>2 DEF BaseSound
    <3>4. y.flagged \in Nat BY <3>2, RealIs DEF Shows
    <3> QED BY <1>2, <3>3, <3>4
  <2>3. BaseSound(cond, d, Y, n, b, ch) BY <1>1, <1>2, <1>3, <2>1, <2>2 DEF BaseSound, Unknown
  <2>4. Settled(n, b, ch, rec) BY <1>2, <1>3, <2>1 DEF Settled, BaseSound, Unknown
  <2>5. ChangeSound(cond, d, b, ch)
    <3> SUFFICES ASSUME ch # NoChange PROVE ChangeSound(cond, d, b, ch) BY DEF ChangeSound
    <3>1. ch.observed.flags \in Nat \cup {-1} BY DEF Change, Status, Field, Unknown
    <3> QED BY <1>1, <2>1, <3>1 DEF ChangeSound
  <2> QED BY <2>3, <2>4, <2>5 DEF Sound
<1> QED BY <1>4, <1>5 DEF PathInv

LEMMA SignalledIs ==
  ASSUME FeedTypes, NEW p \in Paths, NEW r \in BOOLEAN, NEW sc \in BOOLEAN, NEW s \in Status
  PROVE  /\ Signalled(p, r, sc, s) \in Change /\ Signalled(p, r, sc, s) # NoChange
         /\ Signalled(p, r, sc, s).observed = Over(Latest(p), s)
         /\ Signalled(p, r, sc, s).scan = (sc \/ pending[p].scan)
<1> DEFINE o == Over(Latest(p), s)
           c1 == [reconcile |-> r, scan |-> sc, observed |-> o]
<1>1. o \in Status BY LatestIs, OverIs
<1>2. pending[p] \in Change \cup {NoChange} BY DEF FeedTypes
<1> HIDE DEF o
<1>3. c1 \in Change /\ c1.observed = o /\ c1.scan = sc BY <1>1 DEF Change
<1>4. Signalled(p, r, sc, s) = Also(c1, pending[p]) BY DEF Signalled, o
<1> HIDE DEF c1
<1> QED BY <1>2, <1>3, <1>4, AlsoIs DEF o

(* signal, with what it lets the session know.                             *)
Signals(p, c, X, m, k, rec, ev, r, sc, s, l, e) ==
  /\ PathInv(server.condstore, c, X, m, k, baseline[p], pending[p], rec, ev) /\ (ev => e)
  /\ r \in BOOLEAN /\ sc \in BOOLEAN /\ s \in Status /\ (l.flagged = k.flagged \/ sc)
  /\ s.flags = Unknown \/ (sc /\ s.flags <= Modseq(c)) \/ ~server.condstore
LEMMA SignalKeeps ==
  ASSUME FeedTypes, NEW p \in Paths, NEW c, NEW X, NEW m, NEW k, NEW rec, NEW ev, NEW e,
         NEW r, NEW sc, NEW s, NEW l, Signals(p, c, X, m, k, rec, ev, r, sc, s, l, e)
  PROVE  /\ Signalled(p, r, sc, s) \in Change /\ Signalled(p, r, sc, s) # NoChange
         /\ PathInv(server.condstore, c, X, m, l, baseline[p], Signalled(p, r, sc, s), rec, e)
<1> USE DEF Signals
<1> DEFINE b == baseline[p]
           old == pending[p]
           cond == server.condstore
           o == Over(Latest(p), s)
           ch == Signalled(p, r, sc, s)
<1>1. b \in Status /\ old \in Change \cup {NoChange} /\ cond \in BOOLEAN BY DEF FeedTypes
<1>2. Kept(cond, m, k, old, rec, ev) BY DEF PathInv
<1>3. Latest(p) \in Status /\ (old = NoChange => Latest(p) = b)
      /\ (old # NoChange => old.observed \in Status /\ Latest(p) = Over(b, old.observed))
  BY LatestIs DEF Change
<1>4. o.next = (IF s.next # Unknown THEN s.next ELSE Latest(p).next)
      /\ o.flags = (IF s.flags # Unknown THEN s.flags ELSE Latest(p).flags)
  BY <1>3, OverIs
<1>5. ch \in Change /\ ch # NoChange /\ ch.observed = o /\ ch.scan = (sc \/ old.scan) BY SignalledIs
<1> HIDE DEF b, old, cond, o, ch
<1>6. Kept(cond, m, l, ch, rec, e)
  <2>1. l.flagged <= m.flagged \/ ch.scan \/ (~cond /\ e)
    <3>1. CASE sc \/ old.scan BY <1>5, <3>1
    <3>2. CASE ~sc /\ ~old.scan BY <1>2, <3>2 DEF Kept
    <3> QED BY <3>1, <3>2
  <2> QED BY <1>5, <2>1 DEF Kept
<1>7. ASSUME b # Nothing PROVE Sound(cond, c, X, m, b, ch, rec)
  <2>1. BaseSound(cond, c, X, m, b, old) /\ ChangeSound(cond, c, b, old) BY <1>7 DEF PathInv, Sound, b, old, cond
  <2>2. Latest(p).next # Unknown BY <1>1, <1>3, <2>1, OverIs DEF BaseSound, ChangeSound
  <2>3. cond => Latest(p).flags # Unknown /\ Latest(p).flags <= Modseq(c) /\ (~old.scan => Latest(p).flags = b.flags)
    <3> SUFFICES ASSUME cond PROVE Latest(p).flags # Unknown /\ Latest(p).flags <= Modseq(c) /\ (~old.scan => Latest(p).flags = b.flags)
      OBVIOUS
    <3>1. CASE old = NoChange BY <1>3, <2>1, <3>1 DEF BaseSound
    <3>2. CASE old # NoChange
      <4>1. Latest(p).flags = IF old.observed.flags # Unknown THEN old.observed.flags ELSE b.flags BY <1>1, <1>3, <3>2, OverIs
      <4> QED BY <2>1, <3>2, <4>1 DEF ChangeSound
    <3> QED BY <3>1, <3>2
  <2>4. ChangeSound(cond, c, b, ch)
    <3>1. o.next # Unknown BY <1>4, <2>2
    <3>2. cond => o.flags # Unknown /\ o.flags <= Modseq(c) BY <1>4, <2>3 DEF cond
    <3>3. cond /\ ~ch.scan => o.flags = b.flags BY <1>4, <1>5, <2>3 DEF cond
    <3> QED BY <1>5, <3>1, <3>2, <3>3 DEF ChangeSound
  <2>5. Settled(m, b, ch, rec) BY <1>5 DEF Settled
  <2>6. BaseSound(cond, c, X, m, b, ch) BY <1>5, <2>1 DEF BaseSound
  <2> QED BY <2>4, <2>5, <2>6 DEF Sound
<1>8. PathInv(cond, c, X, m, l, b, ch, rec, e) BY <1>6, <1>7 DEF PathInv
<1> QED BY <1>5, <1>8 DEF b, cond, ch

(* takeUnverifiableChange: the marker becomes a pending change.            *)
LEMMA TakeKeeps ==
  ASSUME NEW cond, NEW c, NEW X, NEW m, NEW k, NEW b \in Status, NEW ch \in Change \cup {NoChange}, NEW rec, NEW ev,
         PathInv(cond, c, X, m, k, b, ch, rec, ev), NEW r \in BOOLEAN, NEW sc \in BOOLEAN, ~cond /\ ev => sc,
         NEW l, l = IF ch = NoChange THEN b ELSE ch.observed, NEW q, NEW e
  PROVE  /\ Also([reconcile |-> r, observed |-> l, scan |-> sc], ch) \in Change
         /\ PathInv(cond, c, X, m, k, b, Also([reconcile |-> r, observed |-> l, scan |-> sc], ch), q, e)
<1> DEFINE c1 == [reconcile |-> r, observed |-> l, scan |-> sc]
           n == Also(c1, ch)
<1>1. l \in Status BY DEF Change
<1>2. c1 \in Change /\ c1.observed = l /\ c1.scan = sc BY <1>1 DEF Change
<1>3. n \in Change /\ n # NoChange /\ n.observed = l /\ n.scan = (sc \/ ch.scan) BY <1>2, AlsoIs
<1> HIDE DEF c1, n
<1>4. Kept(cond, m, k, ch, rec, ev) BY DEF PathInv
<1>5. ASSUME b # Nothing PROVE Sound(cond, c, X, m, b, n, q)
  <2>1. BaseSound(cond, c, X, m, b, ch) /\ ChangeSound(cond, c, b, ch) BY <1>5 DEF PathInv, Sound
  <2>2. ChangeSound(cond, c, b, n) BY <1>3, <2>1 DEF ChangeSound, BaseSound
  <2>3. Settled(m, b, n, q) BY <1>3 DEF Settled
  <2>4. BaseSound(cond, c, X, m, b, n) BY <1>3, <2>1 DEF BaseSound
  <2> QED BY <2>2, <2>3, <2>4 DEF Sound
<1>6. Kept(cond, m, k, n, q, e)
  <2>1. k.flagged <= m.flagged \/ n.scan
    <3>1. CASE sc \/ ch.scan BY <1>3, <3>1
    <3>2. CASE ~sc /\ ~ch.scan BY <1>4, <3>2 DEF Kept
    <3> QED BY <3>1, <3>2
  <2> QED BY <1>3, <2>1 DEF Kept
<1>7. PathInv(cond, c, X, m, k, b, n, q, e) BY <1>5, <1>6 DEF PathInv
<1> QED BY <1>3, <1>7 DEF c1, n
(* The acknowledgement of a held change whose folder was done.             *)
Acknowledges(p, c, X, m, k, rec, ev, d, r, e) ==
  /\ PathInv(server.condstore, c, X, m, k, baseline[p], pending[p], rec, ev) /\ c \in X
  /\ pending[p] # NoChange /\ (baseline[p] = Nothing => pending[p].scan)
  /\ d \in Done /\ DoneTrue(server.condstore, c, m, d) /\ Answered(m, k, pending[p], d)
  /\ (~d.reconciled => r) /\ (ev /\ ~server.condstore => e)
LEMMA AcknowledgeKeeps ==
  ASSUME FeedTypes, NEW p \in Paths, NEW c, NEW X, NEW m, NEW k, NEW rec, NEW ev, NEW d, NEW r, NEW e,
         Acknowledges(p, c, X, m, k, rec, ev, d, r, e)
  PROVE  /\ Acknowledged(p, d) \in Status /\ Acknowledged(p, d) # Nothing
         /\ PathInv(server.condstore, c, {c}, m, k, Acknowledged(p, d), NoChange, r, e)
<1> USE DEF Acknowledges
<1> DEFINE b == baseline[p]
           old == pending[p]
           cond == server.condstore
           a == Acknowledged(p, d)
           was == old.observed
<1>1. old \in Change /\ was \in Status /\ b \in Status /\ cond \in BOOLEAN BY DEF FeedTypes, Change
<1>2. d.status \in Status /\ d.reconciled \in BOOLEAN /\ d.scanned \in BOOLEAN BY DEF Done
<1>3. a = [next |-> d.status.next, cursor |-> was.cursor,
           messages |-> IF d.reconciled THEN d.status.messages ELSE was.messages,
           flags |-> IF d.scanned /\ d.status.flags # Unknown THEN d.status.flags ELSE was.flags]
  BY DEF Acknowledged
<1>4. /\ a \in Status /\ a.next = d.status.next
      /\ a.messages = IF d.reconciled THEN d.status.messages ELSE was.messages
      /\ a.flags = IF d.scanned /\ d.status.flags # Unknown THEN d.status.flags ELSE was.flags
  BY <1>1, <1>2, <1>3 DEF Status
<1>5. Kept(cond, m, k, old, rec, ev) /\ (b = Nothing => old.scan) BY DEF PathInv
<1>6. b # Nothing => BaseSound(cond, c, X, m, b, old) /\ ChangeSound(cond, c, b, old) BY DEF PathInv, Sound
<1> HIDE DEF b, old, cond, a, was
<1>7. BaseSound(cond, c, {c}, m, a, NoChange)
  <2>1. a.next # Unknown /\ a.next <= m.arrived BY <1>4 DEF DoneTrue
  <2>2. ASSUME cond
        PROVE  a.flags # Unknown /\ a.flags <= Modseq(c) /\ (Modseq(c) = a.flags => c.flagged <= m.flagged)
    <3>1. CASE d.scanned BY <1>4, <2>2, <3>1 DEF DoneTrue, cond
    <3>2. CASE ~d.scanned
      <4>1. ~old.scan /\ b # Nothing BY <1>5, <3>2 DEF Answered, old
      <4>2. a.flags = b.flags BY <1>4, <1>6, <2>2, <3>2, <4>1 DEF ChangeSound, old, was
      <4> QED BY <1>6, <2>2, <4>1, <4>2 DEF BaseSound
    <3> QED BY <3>1, <3>2
  <2> QED BY <2>1, <2>2 DEF BaseSound
<1>8. Settled(m, a, NoChange, r) BY <1>4 DEF Settled, DoneTrue
<1>9. Kept(cond, m, k, NoChange, r, e)
  <2>1. k.arrived <= m.arrived /\ (k.gone <= m.gone \/ r) BY <1>2 DEF Answered
  <2>2. k.flagged <= m.flagged \/ (~cond /\ e)
    <3>1. CASE d.scanned BY <3>1 DEF Answered
    <3>2. CASE ~d.scanned BY <1>5, <3>2 DEF Answered, Kept, old, cond
    <3> QED BY <3>1, <3>2
  <2> QED BY <2>1, <2>2 DEF Kept
<1>10. ChangeSound(cond, c, a, NoChange) BY DEF ChangeSound
<1>11. a # Nothing BY <1>4 DEF DoneTrue, Nothing
<1>12. PathInv(cond, c, {c}, m, k, a, NoChange, r, e) BY <1>7, <1>8, <1>9, <1>10 DEF PathInv, Sound
<1> QED BY <1>4, <1>11, <1>12 DEF a, cond

-------------------------------------------------------------------------------
(* The state as a whole.                                                   *)

LEMMA PathType ==
  ASSUME FeedTypes, NEW p \in Paths
  PROVE  /\ provider[p] \in Mailbox /\ mirror[p] \in Mailbox /\ known[p] \in Mailbox /\ taken[p] \in Mailbox
         /\ baseline[p] \in Status /\ pending[p] \in Change \cup {NoChange}
  BY DEF FeedTypes

(* What is covered, and how it grows.                                      *)
Cover(m, t) ==
  [arrived |-> Higher(m.arrived, t.arrived), gone |-> Higher(m.gone, t.gone), flagged |-> Higher(m.flagged, t.flagged)]
LEMMA CoverIs ==
  ASSUME NEW m \in Mailbox, NEW t \in Mailbox
  PROVE  /\ Cover(m, t) \in Mailbox /\ Behind(m, Cover(m, t)) /\ Behind(t, Cover(m, t))
         /\ \A n \in Mailbox, u \in Mailbox : Behind(m, n) /\ Behind(t, u) => Behind(Cover(m, t), Cover(n, u))
<1>1. \A a, b \in Nat : Higher(a, b) \in Nat /\ a <= Higher(a, b) /\ b <= Higher(a, b) /\ Higher(a, b) \in {a, b} BY DEF Higher
<1>2. m.arrived \in Nat /\ m.gone \in Nat /\ m.flagged \in Nat /\ t.arrived \in Nat /\ t.gone \in Nat /\ t.flagged \in Nat
  BY DEF Mailbox
<1>3. Cover(m, t) \in Mailbox /\ Behind(m, Cover(m, t)) /\ Behind(t, Cover(m, t))
  BY <1>1, <1>2 DEF Cover, Mailbox, Behind
<1>4. \A a, b, d, e \in Nat : a <= d /\ b <= e => Higher(a, b) <= Higher(d, e) BY DEF Higher
<1>5. ASSUME NEW n \in Mailbox, NEW u \in Mailbox, Behind(m, n), Behind(t, u) PROVE Behind(Cover(m, t), Cover(n, u))
  <2>1. n.arrived \in Nat /\ n.gone \in Nat /\ n.flagged \in Nat /\ u.arrived \in Nat /\ u.gone \in Nat /\ u.flagged \in Nat
    BY DEF Mailbox
  <2> QED BY <1>2, <1>4, <1>5, <2>1 DEF Cover, Behind
<1> QED BY <1>3, <1>5

LEMMA CoveredIs ==
  ASSUME FeedTypes, NEW p \in Paths
  PROVE  Covered(p) \in Mailbox /\ Behind(mirror[p], Covered(p)) /\ Behind(taken[p], Covered(p))
<1>1. Covered(p) = Cover(mirror[p], taken[p]) BY DEF Covered, Cover
<1> QED BY <1>1, PathType, CoverIs

LEMMA CoveredGrows ==
  ASSUME FeedTypes, NEW p \in Paths, mirror'[p] \in Mailbox, taken'[p] \in Mailbox,
         Behind(mirror[p], mirror'[p]), Behind(taken[p], taken'[p])
  PROVE  Covered(p)' \in Mailbox /\ Behind(mirror'[p], Covered(p)') /\ Behind(taken'[p], Covered(p)') /\ Behind(Covered(p), Covered(p)')
<1>1. Covered(p) = Cover(mirror[p], taken[p]) BY DEF Covered, Cover
<1> DEFINE m == mirror[p]
           t == taken[p]
           n == mirror'[p]
           u == taken'[p]
<1>2. Covered(p)' = Cover(n, u) BY DEF Covered, Cover
<1>3. m \in Mailbox /\ t \in Mailbox /\ n \in Mailbox /\ u \in Mailbox /\ Behind(m, n) /\ Behind(t, u) BY PathType
<1>4. Covered(p) = Cover(m, t) BY <1>1
<1> HIDE DEF m, t, n, u
<1>5. Cover(n, u) \in Mailbox /\ Behind(n, Cover(n, u)) /\ Behind(u, Cover(n, u)) BY <1>3, CoverIs
<1>6. Behind(Cover(m, t), Cover(n, u)) BY <1>3, CoverIs
<1> QED BY <1>2, <1>4, <1>5, <1>6 DEF n, u

LEMMA BehindItself ==
  ASSUME NEW m \in Mailbox
  PROVE  Behind(m, m)
  BY DEF Behind, Mailbox

LEMMA TakeIs ==
  ASSUME FeedTypes, NEW p \in Paths, NEW x \in Mailbox
  PROVE  /\ Take(p, x) \in Mailbox /\ Behind(taken[p], Take(p, x))
         /\ baseline[p] = Nothing =>
              /\ pending[p] = NoChange => x.arrived <= Take(p, x).arrived /\ x.gone <= Take(p, x).gone
              /\ ~pending[p].scan => x.flagged <= Take(p, x).flagged
<1> DEFINE t == taken[p]
           old == pending[p]
           a == IF old = NoChange THEN Higher(t.arrived, x.arrived) ELSE t.arrived
           g == IF old = NoChange THEN Higher(t.gone, x.gone) ELSE t.gone
           f == IF old.scan THEN t.flagged ELSE Higher(t.flagged, x.flagged)
<1>1. \A i, j \in Nat : Higher(i, j) \in Nat /\ i <= Higher(i, j) /\ j <= Higher(i, j) BY DEF Higher
<1>2. /\ x.arrived \in Nat /\ x.gone \in Nat /\ x.flagged \in Nat /\ t \in Mailbox
      /\ t.arrived \in Nat /\ t.gone \in Nat /\ t.flagged \in Nat
  BY PathType DEF Mailbox
<1>3. /\ a \in Nat /\ g \in Nat /\ f \in Nat /\ t.arrived <= a /\ t.gone <= g /\ t.flagged <= f
      /\ old = NoChange => x.arrived <= a /\ x.gone <= g
      /\ ~old.scan => x.flagged <= f
  <2>1. a \in Nat /\ t.arrived <= a /\ (old = NoChange => x.arrived <= a)
    <3>1. CASE old = NoChange BY <1>1, <1>2, <3>1
    <3>2. CASE old # NoChange BY <1>2, <3>2
    <3> QED BY <3>1, <3>2
  <2>2. g \in Nat /\ t.gone <= g /\ (old = NoChange => x.gone <= g)
    <3>1. CASE old = NoChange BY <1>1, <1>2, <3>1
    <3>2. CASE old # NoChange BY <1>2, <3>2
    <3> QED BY <3>1, <3>2
  <2>3. f \in Nat /\ t.flagged <= f /\ (~old.scan => x.flagged <= f)
    <3>1. CASE old.scan BY <1>2, <3>1
    <3>2. CASE ~old.scan BY <1>1, <1>2, <3>2
    <3> QED BY <3>1, <3>2
  <2> QED BY <2>1, <2>2, <2>3
<1>4. CASE baseline[p] = Nothing
  <2>1. Take(p, x) = [arrived |-> a, gone |-> g, flagged |-> f] BY <1>4 DEF Take
  <2> HIDE DEF a, g, f, old
  <2> QED BY <1>3, <2>1 DEF Mailbox, Behind, old
<1>5. CASE baseline[p] # Nothing BY <1>2, <1>5, BehindItself DEF Take
<1> QED BY <1>4, <1>5

LEMMA PointsShow ==
  ASSUME FeedTypes, History, NEW p \in Paths, NEW n \in Mailbox, Behind(mirror[p], n)
  PROVE  Shows(provider[p], Points(p), n)
<1>1. Real(provider[p]) /\ Behind(Counters, mirror[p]) /\ mirror[p] \in Mailbox BY DEF History, FeedTypes
<1>2. \A y \in Points(p) : Real(y) /\ Behind(y, provider[p])
  <2>1. Behind(provider[p], provider[p]) BY <1>1 DEF Behind, Real, Mailbox
  <2> QED BY <1>1, <2>1 DEF Points, Snap, History
<1>3. Behind(Counters, n) BY <1>1 DEF Behind, Counters, Mailbox
<1> QED BY <1>1, <1>2, <1>3 DEF Shows, Points
LEMMA CoveredShows ==
  ASSUME FeedTypes, History, NEW p \in Paths
  PROVE  Shows(provider[p], Points(p), Covered(p))
  BY CoveredIs, PointsShow

(* Steps that observe, signal and learn nothing.                           *)
LEMMA NothingMoves ==
  ASSUME FeedTypes, History, AllPaths, UNCHANGED <<provider, mirror, feedVars>>, server'.condstore = server.condstore,
         \A p \in Paths : Snap(p)' \subseteq Points(p)
  PROVE  History' /\ AllPaths'
<1>1. ASSUME NEW p \in Paths
      PROVE  /\ Path(p)'
             /\ Real(provider'[p]) /\ Behind(Counters, mirror'[p]) /\ Behind(mirror'[p], provider'[p]) /\ Behind(known'[p], provider'[p])
             /\ p \in DOMAIN snap' => Real(snap'[p]) /\ Behind(snap'[p], provider'[p])
  <2>1. Shows(provider[p], Points(p), Covered(p)) BY CoveredShows
  <2>2. /\ provider' = provider /\ mirror' = mirror /\ known' = known /\ baseline' = baseline /\ pending' = pending
        /\ marks' = marks /\ taken' = taken
    BY DEF feedVars
  <2>3. known[p] \in Mailbox /\ Covered(p) \in Mailbox /\ baseline[p] \in Status /\ pending[p] \in Change \cup {NoChange}
    BY CoveredIs DEF FeedTypes
  <2>4. Points(p)' \subseteq Points(p) BY <1>1, <2>2 DEF Points
  <2>5. Behind(Covered(p), Covered(p)) /\ Covered(p)' = Covered(p) BY <2>2, <2>3, BehindItself DEF Covered
  <2>6. Real(provider[p]) /\ Modseq(provider[p]) <= Modseq(provider[p]) BY RealIs DEF History
  <2>7. PathInv(server.condstore, provider[p], Points(p), Covered(p), known[p], baseline[p], pending[p],
                p \in marks.reconcile, p \in marks.event)
    BY DEF AllPaths, Path
  <2> DEFINE Y == Points(p)'
  <2>8. \A y \in Y : y \in Points(p) BY <2>4
  <2> HIDE DEF Y
  <2>9. PathInv(server.condstore, provider[p], Y, Covered(p), known[p], baseline[p], pending[p],
                p \in marks.reconcile, p \in marks.event)
    BY <2>1, <2>3, <2>5, <2>6, <2>7, <2>8, MovesOn
  <2>10. Path(p)' BY <2>2, <2>5, <2>9 DEF Path, Y
  <2>11. p \in DOMAIN snap' => snap'[p] \in Points(p) BY <1>1 DEF Snap
  <2>12. Behind(Counters, mirror[p]) /\ Behind(mirror[p], provider[p]) /\ Behind(known[p], provider[p]) BY DEF History
  <2> QED BY <2>1, <2>2, <2>10, <2>11, <2>12 DEF Shows
<1> QED BY <1>1 DEF History, AllPaths
LEMMA PathFrom ==
  ASSUME NEW p \in Paths, NEW X, Points(p)' \subseteq X, server'.condstore = server.condstore,
         PathInv(server.condstore, provider'[p], X, Covered(p)', known'[p], baseline'[p], pending'[p],
                 p \in marks'.reconcile, p \in marks'.event)
  PROVE  Path(p)'
<1> DEFINE Y == Points(p)'
           m == Covered(p)'
<1>1. PathInv(server.condstore, provider'[p], Y, m, known'[p], baseline'[p], pending'[p],
              p \in marks'.reconcile, p \in marks'.event)
  <2>1. Y \subseteq X /\ PathInv(server.condstore, provider'[p], X, m, known'[p], baseline'[p], pending'[p],
                                 p \in marks'.reconcile, p \in marks'.event)
    OBVIOUS
  <2> HIDE DEF Y, m
  <2> QED BY <2>1 DEF PathInv, Sound, BaseSound
<1> HIDE DEF Y, m
<1> QED BY <1>1 DEF Path, Y, m

LEMMA NoSnap ==
  ASSUME snap' = <<>>
  PROVE  /\ \A p \in Paths : Snap(p)' = {} /\ p \notin DOMAIN snap'
         /\ snap' \in UNION {[S -> Mailbox] : S \in SUBSET Paths}
<1>1. DOMAIN <<>> = {} OBVIOUS
<1>2. <<>> \in [{} -> Mailbox] OBVIOUS
<1>3. {} \in SUBSET Paths OBVIOUS
<1>4. <<>> \in UNION {[S -> Mailbox] : S \in SUBSET Paths} BY <1>2, <1>3
<1> QED BY <1>1, <1>4 DEF Snap

LEMMA SnapIs ==
  ASSUME FeedTypes, NEW p \in Paths, p \in DOMAIN snap
  PROVE  snap[p] \in Mailbox
  BY DEF FeedTypes

(* What observing one status makes of a path.                              *)
LEMMA OneObserved ==
  ASSUME FeedTypes, History, AllPaths, NEW p \in Paths, NEW x \in Points(p), NEW i \in BOOLEAN, NEW st \in Answers(x),
         NEW o, o = Observed(p, st, i), NEW n \in Mailbox, Behind(Covered(p), n),
         baseline[p] = Nothing => Points(p) = {provider[p], x} /\ Takes(n, x, pending[p])
  PROVE  /\ o.base \in Status /\ o.base # Nothing /\ o.change \in Change \cup {NoChange}
         /\ LearnAll(known[p], x) \in Mailbox /\ Behind(LearnAll(known[p], x), provider[p])
         /\ PathInv(server.condstore, provider[p], Points(p), n, LearnAll(known[p], x), o.base, o.change,
                    p \in marks.reconcile, p \in marks.event)
<1> DEFINE X == Points(p)
           c == provider[p]
           k == known[p]
           m == Covered(p)
           rec == p \in marks.reconcile
           ev == p \in marks.event
<1>1. Shows(c, X, m) BY CoveredShows
<1>2. Shows(c, X, n)
  <2>1. Behind(mirror[p], n)
    <3>1. mirror[p] \in Mailbox /\ Covered(p) \in Mailbox /\ Behind(mirror[p], Covered(p)) BY PathType, CoveredIs
    <3> QED BY <3>1 DEF Behind, Mailbox
  <2> QED BY <2>1, PointsShow
<1>3. PathInv(server.condstore, c, X, m, k, baseline[p], pending[p], rec, ev) BY DEF AllPaths, Path
<1>4. c \in Mailbox /\ k \in Mailbox /\ m \in Mailbox /\ baseline[p] \in Status /\ pending[p] \in Change \cup {NoChange}
  BY PathType, CoveredIs
<1>5. Behind(k, c) /\ Behind(x, c) /\ x \in Mailbox /\ Real(c) BY <1>1 DEF History, Shows, Real
<1>6. LearnAll(k, x) \in Mailbox /\ Behind(LearnAll(k, x), c) BY <1>4, <1>5, LearnIs DEF Behind
<1>7. Behind(m, n) /\ x \in X /\ Modseq(c) <= Modseq(c) BY <1>5, RealIs
<1>8. baseline[p] = Nothing => X = {c, x} /\ Takes(n, x, pending[p]) OBVIOUS
<1> HIDE DEF X, c, k, m, rec, ev
<1>9. CASE baseline[p] = Nothing
  <2>1. Kept(server.condstore, m, k, pending[p], rec, ev) BY <1>3 DEF PathInv
  <2>2. X = {c, x} /\ Takes(n, x, pending[p]) BY <1>8, <1>9
  <2>3. /\ o.base \in Status /\ o.base # Nothing /\ o.change \in Change \cup {NoChange}
        /\ PathInv(server.condstore, c, X, n, LearnAll(k, x), o.base, o.change, rec, ev)
    <3>1. FirstOf(p, c, X, m, n, k, rec, ev, x) BY <1>2, <1>4, <1>7, <1>9, <2>1, <2>2 DEF FirstOf
    <3> QED BY <3>1, FirstKeeps
  <2> QED BY <1>6, <2>3 DEF X, c, k, rec, ev
<1>10. CASE baseline[p] # Nothing
  <2>1. PathInv(server.condstore, c, X, n, k, baseline[p], pending[p], rec, ev)
    <3>1. \A y \in X : y \in X \/ (Real(y) /\ Modseq(c) < Modseq(y)) OBVIOUS
    <3> QED BY <1>1, <1>3, <1>4, <1>5, <1>7, <3>1, MovesOn
  <2>2. /\ o.base \in Status /\ o.base # Nothing /\ o.change \in Change \cup {NoChange}
        /\ PathInv(server.condstore, c, X, n, LearnAll(k, x), o.base, o.change, rec, ev)
    <3>1. Shows(c, X, n) /\ x \in X /\ k \in Mailbox BY <1>2, <1>4, <1>7
    <3> QED BY <1>10, <2>1, <3>1, ObserveKeeps
  <2> QED BY <1>6, <2>2 DEF X, c, k, rec, ev
<1> QED BY <1>9, <1>10

(* The same with a snapshot and with Take.                                 *)
LEMMA SnapObserved ==
  ASSUME FeedTypes, History, AllPaths, NEW p \in Paths, p \in DOMAIN snap, NEW i \in BOOLEAN, NEW st \in Answers(snap[p]),
         NEW o, o = Observed(p, st, i), mirror' = mirror, taken'[p] = Take(p, snap[p])
  PROVE  /\ o.base \in Status /\ o.base # Nothing /\ o.change \in Change \cup {NoChange} /\ taken'[p] \in Mailbox
         /\ LearnAll(known[p], snap[p]) \in Mailbox /\ Behind(LearnAll(known[p], snap[p]), provider[p])
         /\ PathInv(server.condstore, provider[p], Points(p), Covered(p)', LearnAll(known[p], snap[p]), o.base, o.change,
                    p \in marks.reconcile, p \in marks.event)
<1> DEFINE x == snap[p]
           n == Covered(p)'
<1>1. x \in Mailbox /\ x \in Points(p) /\ Points(p) = {provider[p], x} BY SnapIs DEF Points, Snap
<1>2. /\ taken'[p] \in Mailbox /\ Behind(taken[p], taken'[p])
      /\ baseline[p] = Nothing =>
           /\ pending[p] = NoChange => x.arrived <= taken'[p].arrived /\ x.gone <= taken'[p].gone
           /\ ~pending[p].scan => x.flagged <= taken'[p].flagged
  BY <1>1, TakeIs
<1>3. n \in Mailbox /\ Behind(taken'[p], n) /\ Behind(Covered(p), n)
  BY <1>2, PathType, BehindItself, CoveredGrows
<1>4. baseline[p] = Nothing => Takes(n, x, pending[p])
  <2>1. /\ x.arrived \in Nat /\ x.gone \in Nat /\ x.flagged \in Nat /\ n.arrived \in Nat /\ n.gone \in Nat /\ n.flagged \in Nat
        /\ taken'[p].arrived \in Nat /\ taken'[p].gone \in Nat /\ taken'[p].flagged \in Nat
    BY <1>1, <1>2, <1>3 DEF Mailbox
  <2>2. taken'[p].arrived <= n.arrived /\ taken'[p].gone <= n.gone /\ taken'[p].flagged <= n.flagged BY <1>3 DEF Behind
  <2> HIDE DEF n, x
  <2> QED BY <1>2, <2>1, <2>2 DEF Takes
<1>5. st \in Answers(x) OBVIOUS
<1> HIDE DEF n, x
<1>6. /\ o.base \in Status /\ o.base # Nothing /\ o.change \in Change \cup {NoChange}
      /\ LearnAll(known[p], x) \in Mailbox /\ Behind(LearnAll(known[p], x), provider[p])
      /\ PathInv(server.condstore, provider[p], Points(p), n, LearnAll(known[p], x), o.base, o.change,
                 p \in marks.reconcile, p \in marks.event)
  BY <1>1, <1>3, <1>4, <1>5, OneObserved
<1> QED BY <1>2, <1>6 DEF n, x

(* Statuses that were read are observed.                                   *)
LEMMA ObserveAllKeeps ==
  ASSUME FeedTypes, History, AllPaths, NEW S, S \subseteq DOMAIN snap, NEW i \in BOOLEAN, ObserveAll(S, i),
         UNCHANGED <<server, provider, mirror, marks>>, snap' = <<>>
  PROVE  /\ History' /\ AllPaths' /\ taken' \in [Paths -> Mailbox]
         /\ known' \in [Paths -> Mailbox] /\ baseline' \in [Paths -> Status] /\ pending' \in [Paths -> Change \cup {NoChange}]
<1>1. ASSUME NEW p \in Paths
      PROVE  /\ known'[p] \in Mailbox /\ baseline'[p] \in Status /\ pending'[p] \in Change \cup {NoChange}
             /\ Behind(known'[p], provider[p]) /\ Path(p)' /\ taken'[p] \in Mailbox
  <2>1. Points(p)' \subseteq Points(p) BY NoSnap DEF Points
  <2>2. CASE p \notin S
    <3>1. known'[p] = known[p] /\ baseline'[p] = baseline[p] /\ pending'[p] = pending[p] /\ taken'[p] = taken[p]
      BY <2>2 DEF ObserveAll
    <3>2. PathInv(server.condstore, provider[p], Points(p), Covered(p), known[p], baseline[p], pending[p],
                  p \in marks.reconcile, p \in marks.event)
      BY DEF AllPaths, Path
    <3>3. Covered(p)' = Covered(p) BY <3>1 DEF Covered
    <3>4. Behind(known[p], provider[p]) BY DEF History
    <3> QED BY <2>1, <3>1, <3>2, <3>3, <3>4, PathFrom, PathType
  <2>3. CASE p \in S
    <3> DEFINE st == StatusOf(snap[p])
               o == Observed(p, st, i)
    <3>1. p \in DOMAIN snap /\ st \in Answers(snap[p]) BY <2>3 DEF Answers
    <3>2. known'[p] = LearnAll(known[p], snap[p]) /\ baseline'[p] = o.base /\ pending'[p] = o.change
          /\ taken'[p] = Take(p, snap[p])
      BY <2>3 DEF ObserveAll
    <3>3. o = Observed(p, st, i) OBVIOUS
    <3> HIDE DEF st, o
    <3>4. /\ o.base \in Status /\ o.change \in Change \cup {NoChange} /\ taken'[p] \in Mailbox
          /\ LearnAll(known[p], snap[p]) \in Mailbox /\ Behind(LearnAll(known[p], snap[p]), provider[p])
          /\ PathInv(server.condstore, provider[p], Points(p), Covered(p)', LearnAll(known[p], snap[p]), o.base, o.change,
                     p \in marks.reconcile, p \in marks.event)
      BY <3>1, <3>2, <3>3, SnapObserved
    <3> QED BY <2>1, <3>2, <3>4, PathFrom
  <2> QED BY <2>2, <2>3
<1>2. /\ known' \in [Paths -> Mailbox] /\ baseline' \in [Paths -> Status] /\ pending' \in [Paths -> Change \cup {NoChange}]
      /\ taken' \in [Paths -> Mailbox]
  <2>1. /\ known' = [p \in Paths |-> known'[p]] /\ baseline' = [p \in Paths |-> baseline'[p]]
        /\ pending' = [p \in Paths |-> pending'[p]] /\ taken' = [p \in Paths |-> taken'[p]]
    BY DEF ObserveAll
  <2> QED BY <1>1, <2>1
<1> QED BY <1>1, <1>2, NoSnap DEF History, AllPaths

LEMMA ReadSnap ==
  ASSUME FeedTypes, NEW S \in SUBSET Paths, snap' = [p \in S |-> provider[p]]
  PROVE  /\ \A p \in Paths : Snap(p)' \subseteq Points(p)
         /\ snap' \in UNION {[T -> Mailbox] : T \in SUBSET Paths}
<1>1. \A p \in S : provider[p] \in Mailbox BY PathType
<1>2. DOMAIN snap' = S /\ snap' \in [S -> Mailbox] BY <1>1
<1>3. \A p \in Paths : Snap(p)' \subseteq Points(p) BY <1>2 DEF Snap, Points
<1> QED BY <1>2, <1>3

(* History while the provider and the mirror stay.                         *)
LEMMA HistoryStays ==
  ASSUME History, UNCHANGED <<provider, mirror>>, \A p \in Paths : Snap(p)' \subseteq Points(p),
         \A p \in Paths : Behind(known'[p], provider[p]), \A p \in Paths : Behind(provider[p], provider[p])
  PROVE  History'
<1> SUFFICES ASSUME NEW p \in Paths
    PROVE  /\ Real(provider'[p]) /\ Behind(Counters, mirror'[p]) /\ Behind(mirror'[p], provider'[p]) /\ Behind(known'[p], provider'[p])
           /\ p \in DOMAIN snap' => Real(snap'[p]) /\ Behind(snap'[p], provider'[p])
  BY DEF History
<1>1. p \in DOMAIN snap' => snap'[p] \in Points(p) BY DEF Snap
<1>2. \A y \in Points(p) : Real(y) /\ Behind(y, provider[p]) BY DEF Points, Snap, History
<1> QED BY <1>1, <1>2 DEF History

LEMMA BehindSelf ==
  ASSUME FeedTypes, History
  PROVE  /\ \A p \in Paths : Behind(provider[p], provider[p])
         /\ \A p \in Paths : Behind(known[p], provider[p])
<1>1. \A p \in Paths : provider[p] \in Mailbox BY PathType
<1> QED BY <1>1 DEF History, Behind, Mailbox

LEMMA NoPassIs ==
  ASSUME FeedTypes
  PROVE  [NoPass EXCEPT !.selected = pass.selected] \in
           [held : SUBSET Paths, todo : SUBSET Paths, selected : SUBSET Paths,
            seen : UNION {[S -> Done] : S \in SUBSET Paths}]
<1>1. pass.selected \in SUBSET Paths BY DEF FeedTypes
<1>2. <<>> \in [{} -> Done] /\ {} \in SUBSET Paths OBVIOUS
<1>3. <<>> \in UNION {[S -> Done] : S \in SUBSET Paths} BY <1>2
<1>4. NoPass \in [held : SUBSET Paths, todo : SUBSET Paths, selected : SUBSET Paths,
                   seen : UNION {[S -> Done] : S \in SUBSET Paths}]
  BY <1>3 DEF NoPass
<1> QED BY <1>1, <1>4

-------------------------------------------------------------------------------
(* Steps that observe, signal and learn nothing.                           *)
Still == UNCHANGED <<server, provider, mirror, feedVars>>

LEMMA StillKeeps ==
  ASSUME OpenInv, phase # "away", Still, phase' # "away", phase' # "pass", FeedTypes', Quiet',
         \A p \in Paths : Snap(p)' \subseteq Points(p)
  PROVE  OpenInv'
<1>1. FeedTypes /\ History /\ AllPaths BY DEF OpenInv, PathsInv
<1>2. History' /\ AllPaths' BY <1>1, NothingMoves DEF Still
<1> QED BY <1>2 DEF OpenInv, PathsInv, PassInv

LEMMA HostKeeps ==
  ASSUME OpenInv,
         Wait \/ Renew \/ Probe \/ ProbedNotify \/ Verify \/ FailPass, phase' # "closed"
  PROVE  OpenInv'
<1>1. FeedTypes /\ Quiet BY DEF OpenInv
<1>2. CASE Wait
  <2>1. phase = "host" /\ Still BY <1>2 DEF Wait, Still
  <2>2. CASE Deferred(Dirty) = "none"
    <3>1. phase' = "selecting" /\ snap' = [p \in {Inbox} |-> provider[p]] /\ pass' = [pass EXCEPT !.selected = {Inbox}]
      BY <1>2, <2>2 DEF Wait
    <3>2. {Inbox} \in SUBSET Paths BY DEF Paths
    <3>3. FeedTypes' BY <1>1, <2>1, <3>1, <3>2, ReadSnap DEF FeedTypes, Still, feedVars
    <3>4. Quiet'
      <4>1. Inbox \in DOMAIN snap' BY <3>1
      <4> QED BY <3>1, <4>1 DEF Quiet
    <3> QED BY <1>1, <2>1, <3>1, <3>2, <3>3, <3>4, ReadSnap, StillKeeps
  <2>3. CASE Deferred(Dirty) # "none"
    <3>5. Deferred(Dirty) \in {"wake", "close", "none"} BY DEF Deferred
    <3>6. Deferred(Dirty) = "close" => phase' = "closed" BY <1>2 DEF Wait, Close
    <3>7. Deferred(Dirty) = "wake" BY <2>3, <3>5, <3>6
    <3>1. phase' = "host" /\ snap' = snap /\ pass' = pass BY <1>2, <2>1, <3>7 DEF Wait
    <3>2. FeedTypes' BY <1>1, <2>1, <3>1 DEF FeedTypes, Still, feedVars
    <3>3. Quiet' BY <1>1, <2>1, <3>1 DEF Quiet
    <3>4. \A p \in Paths : Snap(p)' \subseteq Points(p) BY <3>1 DEF Snap, Points
    <3> QED BY <2>1, <3>1, <3>2, <3>3, <3>4, StillKeeps
  <2> QED BY <2>2, <2>3
<1>3. CASE Renew \/ ProbedNotify
  <2>1. phase \in {"idle", "probing"} /\ phase' = "host" /\ Still /\ snap' = snap /\ pass' = pass
    BY <1>3 DEF Renew, ProbedNotify, Answer, Still, sessionVars
  <2>2. snap = <<>> BY <1>1, <1>3 DEF Quiet, Renew, ProbedNotify
  <2>3. FeedTypes' BY <1>1, <2>1 DEF FeedTypes, Still, feedVars
  <2>4. Quiet' BY <2>1, <2>2 DEF Quiet
  <2>5. \A p \in Paths : Snap(p)' \subseteq Points(p) BY <2>1 DEF Snap, Points
  <2> QED BY <2>1, <2>3, <2>4, <2>5, StillKeeps
<1>4. CASE Probe
  <2>1. phase = "idle" /\ phase' = "probing" /\ Still /\ pass' = pass /\ overflow' = overflow BY <1>4 DEF Probe, Still
  <2>2. snap' = IF ~Notifying /\ server.listed THEN [p \in Folders |-> provider[p]] ELSE <<>> BY <1>4 DEF Probe
  <2>3. Quiet' BY <2>1, <2>2 DEF Quiet, Notifying, Still
  <2>4. /\ \A p \in Paths : Snap(p)' \subseteq Points(p)
        /\ snap' \in UNION {[T -> Mailbox] : T \in SUBSET Paths}
    <3>1. CASE ~Notifying /\ server.listed
      <4>1. Folders \in SUBSET Paths BY DEF Paths
      <4> QED BY <1>1, <2>2, <3>1, <4>1, ReadSnap
    <3>2. CASE ~(~Notifying /\ server.listed) BY <2>2, <3>2, NoSnap
    <3> QED BY <3>1, <3>2
  <2>5. FeedTypes' BY <1>1, <2>1, <2>4 DEF FeedTypes, Still, feedVars
  <2> QED BY <2>1, <2>3, <2>4, <2>5, StillKeeps
<1>5. CASE Verify
  <2>1. phase = "host" /\ phase' = "verifying" /\ Still /\ pass' = pass BY <1>5 DEF Verify, Still
  <2>2. PICK W \in SUBSET Folders : snap' = [p \in W \cup {Inbox} |-> provider[p]] BY <1>5 DEF Verify
  <2>3. W \cup {Inbox} \in SUBSET Paths BY DEF Paths
  <2>4. /\ \A p \in Paths : Snap(p)' \subseteq Points(p)
        /\ snap' \in UNION {[T -> Mailbox] : T \in SUBSET Paths}
    BY <1>1, <2>2, <2>3, ReadSnap
  <2>5. FeedTypes' BY <1>1, <2>1, <2>4 DEF FeedTypes, Still, feedVars
  <2>6. Quiet' BY <2>1 DEF Quiet
  <2> QED BY <2>1, <2>4, <2>5, <2>6, StillKeeps
<1>6. CASE FailPass
  <2>1. phase = "pass" /\ phase' = "host" /\ Still /\ snap' = <<>> /\ pass' = [NoPass EXCEPT !.selected = pass.selected]
    BY <1>6 DEF FailPass, Still
  <2>2. pass'.held = {} /\ pass'.todo = {} /\ pass'.selected = pass.selected /\ pass'.seen = <<>>
        /\ DOMAIN pass' = {"held", "todo", "selected", "seen"}
    BY <2>1 DEF NoPass
  <2>3. FeedTypes' BY <1>1, <2>1, NoSnap, NoPassIs DEF FeedTypes, Still, feedVars
  <2>4. Quiet' BY <2>1 DEF Quiet
  <2>5. \A p \in Paths : Snap(p)' \subseteq Points(p) BY <2>1, NoSnap
  <2> QED BY <2>1, <2>3, <2>4, <2>5, StillKeeps
<1> QED BY <1>2, <1>3, <1>4, <1>5, <1>6

LEMMA RefusedKeeps ==
  ASSUME OpenInv, ListRefused
  PROVE  OpenInv'
<1>1. FeedTypes /\ History /\ AllPaths BY DEF OpenInv, PathsInv, ListRefused
<1>2. phase' = phase /\ phase = "probing" /\ snap' = <<>> /\ UNCHANGED <<provider, mirror, feedVars, pass>>
      /\ server' = [server EXCEPT !.listed = FALSE]
  BY DEF ListRefused
<1>3. server' \in [condstore : BOOLEAN, qresync : BOOLEAN, notify : BOOLEAN, listed : BOOLEAN]
      /\ server'.condstore = server.condstore /\ server'.notify = server.notify
  BY <1>1, <1>2 DEF FeedTypes
<1>4. History' /\ AllPaths' BY <1>1, <1>2, <1>3, NoSnap, NothingMoves
<1>5. FeedTypes' BY <1>1, <1>2, <1>3, NoSnap DEF FeedTypes, feedVars
<1>6. Quiet' BY <1>2 DEF Quiet
<1> QED BY <1>2, <1>4, <1>5, <1>6 DEF OpenInv, PathsInv, PassInv

-------------------------------------------------------------------------------
(* Steps that observe.                                                     *)

LEMMA ObservedTypes ==
  ASSUME FeedTypes, UNCHANGED <<server, provider, mirror, marks, pass>>, snap' = <<>>, phase' = "host" \/ phase' = "idle",
         taken' \in [Paths -> Mailbox],
         known' \in [Paths -> Mailbox], baseline' \in [Paths -> Status], pending' \in [Paths -> Change \cup {NoChange}]
  PROVE  FeedTypes' /\ Quiet'
<1>1. FeedTypes' BY NoSnap DEF FeedTypes
<1> QED BY <1>1 DEF Quiet

LEMMA ObserversKeep ==
  ASSUME OpenInv, Initialized \/ ProbedList
  PROVE  OpenInv'
<1>1. FeedTypes /\ History /\ AllPaths BY DEF OpenInv, PathsInv, Initialized, ProbedList
<1>2. phase' = "host" BY DEF Initialized, ProbedList, Answer
<1>3. UNCHANGED <<server, provider, mirror, marks, pass>> /\ snap' = <<>>
  BY DEF Initialized, ProbedList
<1>4. \E i \in BOOLEAN : ObserveAll(DOMAIN snap, i)
  <2>1. CASE Initialized
    <3>1. ObserveAll(DOMAIN snap, TRUE) BY <2>1 DEF Initialized
    <3> QED BY <3>1
  <2>2. CASE ProbedList
    <3>1. ObserveAll(DOMAIN snap, FALSE) BY <2>2 DEF ProbedList
    <3> QED BY <3>1
  <2> QED BY <2>1, <2>2
<1>5. /\ History' /\ AllPaths' /\ taken' \in [Paths -> Mailbox]
      /\ known' \in [Paths -> Mailbox] /\ baseline' \in [Paths -> Status] /\ pending' \in [Paths -> Change \cup {NoChange}]
  BY <1>1, <1>3, <1>4, ObserveAllKeeps
<1>6. FeedTypes' /\ Quiet' BY <1>1, <1>2, <1>3, <1>5, ObservedTypes
<1> QED BY <1>2, <1>5, <1>6 DEF OpenInv, PathsInv, PassInv

(* SELECT has shown INBOX.                                                 *)
LEMMA SelectedInboxKeeps ==
  ASSUME OpenInv, SelectedInbox, phase' # "closed"
  PROVE  OpenInv'
<1> DEFINE st == SelectOf(snap[Inbox])
           o == Observed(Inbox, st, FALSE)
           l == LearnAll(known[Inbox], snap[Inbox])
<1>1. FeedTypes /\ History /\ AllPaths /\ Inbox \in DOMAIN snap /\ Inbox \in Paths
  BY DEF OpenInv, PathsInv, SelectedInbox, Quiet, Paths
<1>2. phase' = "host" \/ phase' = "idle"
  <2>1. Deferred(DirtyThen) \in {"wake", "close", "none"} BY DEF Deferred
  <2> QED BY <2>1 DEF SelectedInbox, Close
<1>3. UNCHANGED <<server, provider, mirror, marks, pass>> /\ snap' = <<>> BY DEF SelectedInbox
<1>4. /\ baseline' = [baseline EXCEPT ![Inbox] = o.base] /\ pending' = [pending EXCEPT ![Inbox] = o.change]
      /\ known' = [known EXCEPT ![Inbox] = l] /\ taken' = [taken EXCEPT ![Inbox] = Take(Inbox, snap[Inbox])]
  BY DEF SelectedInbox
<1>5. st \in Answers(snap[Inbox]) /\ o = Observed(Inbox, st, FALSE) BY DEF Answers
<1>6. taken'[Inbox] = Take(Inbox, snap[Inbox]) BY <1>1, <1>4 DEF FeedTypes
<1> HIDE DEF st, o
<1>7. /\ o.base \in Status /\ o.change \in Change \cup {NoChange} /\ taken'[Inbox] \in Mailbox
      /\ l \in Mailbox /\ Behind(l, provider[Inbox])
      /\ PathInv(server.condstore, provider[Inbox], Points(Inbox), Covered(Inbox)', l, o.base, o.change,
                 Inbox \in marks.reconcile, Inbox \in marks.event)
  BY <1>1, <1>3, <1>5, <1>6, SnapObserved
<1> HIDE DEF l
<1>8. /\ known' \in [Paths -> Mailbox] /\ baseline' \in [Paths -> Status] /\ pending' \in [Paths -> Change \cup {NoChange}]
      /\ taken' \in [Paths -> Mailbox]
  BY <1>1, <1>4, <1>6, <1>7 DEF FeedTypes
<1>9. FeedTypes' /\ Quiet' BY <1>1, <1>2, <1>3, <1>8, ObservedTypes
<1>10. ASSUME NEW q \in Paths PROVE Path(q)' /\ Behind(known'[q], provider[q])
  <2>1. Points(q)' \subseteq Points(q) BY <1>3, NoSnap DEF Points
  <2>2. CASE q = Inbox
    <3>1. known'[q] = l /\ baseline'[q] = o.base /\ pending'[q] = o.change BY <1>1, <1>4, <2>2 DEF FeedTypes
    <3> QED BY <1>3, <1>7, <2>1, <2>2, <3>1, PathFrom
  <2>3. CASE q # Inbox
    <3>1. known'[q] = known[q] /\ baseline'[q] = baseline[q] /\ pending'[q] = pending[q] /\ taken'[q] = taken[q]
      BY <1>1, <1>4, <2>3 DEF FeedTypes
    <3>2. PathInv(server.condstore, provider[q], Points(q), Covered(q), known[q], baseline[q], pending[q],
                  q \in marks.reconcile, q \in marks.event)
      BY <1>1 DEF AllPaths, Path
    <3>3. Behind(known[q], provider[q]) BY <1>1 DEF History
    <3>4. Covered(q)' = Covered(q) BY <1>3, <3>1 DEF Covered
    <3> QED BY <1>3, <2>1, <3>1, <3>2, <3>3, <3>4, PathFrom
  <2> QED BY <2>2, <2>3
<1>11. History'
  <2>1. \A q \in Paths : Snap(q)' \subseteq Points(q) BY <1>3, NoSnap
  <2> QED BY <1>1, <1>3, <1>10, <2>1, BehindSelf, HistoryStays
<1>12. AllPaths' BY <1>10 DEF AllPaths
<1> QED BY <1>2, <1>9, <1>11, <1>12 DEF OpenInv, PathsInv, PassInv

LEMMA ProbedStatusKeeps ==
  ASSUME OpenInv, Unasked, ProbedStatus
  PROVE  OpenInv'
<1>1. FeedTypes /\ History /\ AllPaths /\ Quiet BY DEF OpenInv, PathsInv, ProbedStatus
<1>2. /\ phase = "probing" /\ phase' = "host" /\ UNCHANGED <<server, provider, mirror, taken, marks, pass>> /\ snap' = snap
      /\ ~(server.listed /\ snap # <<>>) /\ ~Notifying
  BY DEF ProbedStatus, Answer
<1>3. snap = <<>> BY <1>1, <1>2 DEF Quiet
<1>4. PICK p \in Folders :
        LET o == Observed(p, StatusOf(provider[p]), FALSE) IN
        /\ baseline' = [baseline EXCEPT ![p] = o.base] /\ pending' = [pending EXCEPT ![p] = o.change]
        /\ known' = [known EXCEPT ![p] = LearnAll(@, provider[p])]
  BY DEF ProbedStatus
<1> DEFINE st == StatusOf(provider[p])
           o == Observed(p, st, FALSE)
<1>5. /\ baseline' = [baseline EXCEPT ![p] = o.base] /\ pending' = [pending EXCEPT ![p] = o.change]
      /\ known' = [known EXCEPT ![p] = LearnAll(known[p], provider[p])]
  BY <1>4
<1>6. /\ o.base \in Status /\ o.change \in Change \cup {NoChange}
      /\ LearnAll(known[p], provider[p]) \in Mailbox /\ Behind(LearnAll(known[p], provider[p]), provider[p])
      /\ PathInv(server.condstore, provider[p], Points(p), Covered(p), LearnAll(known[p], provider[p]), o.base, o.change,
                 p \in marks.reconcile, p \in marks.event)
  <2>1. p \in Paths /\ baseline[p] # Nothing BY <1>2 DEF Unasked, Paths
  <2>2. provider[p] \in Points(p) /\ st \in Answers(provider[p]) /\ o = Observed(p, st, FALSE) BY DEF Points, Answers
  <2>3. Covered(p) \in Mailbox /\ Behind(Covered(p), Covered(p)) BY <1>1, <2>1, CoveredIs, BehindItself
  <2> HIDE DEF o, st
  <2> QED BY <1>1, <2>1, <2>2, <2>3, OneObserved
<1> HIDE DEF o, st
<1>12. p \in Paths /\ \A q \in Paths : Covered(q)' = Covered(q) BY <1>2 DEF Covered, Paths
<1>7. /\ known' \in [Paths -> Mailbox] /\ baseline' \in [Paths -> Status] /\ pending' \in [Paths -> Change \cup {NoChange}]
  BY <1>1, <1>5, <1>6, <1>12 DEF FeedTypes
<1>8. FeedTypes' /\ Quiet'
  <2>1. taken' \in [Paths -> Mailbox] BY <1>1, <1>2 DEF FeedTypes
  <2> QED BY <1>1, <1>2, <1>3, <1>7, <2>1, ObservedTypes
<1>9. ASSUME NEW q \in Paths PROVE Path(q)' /\ Behind(known'[q], provider[q])
  <2>1. Points(q)' \subseteq Points(q) BY <1>2 DEF Points, Snap
  <2>2. CASE q = p
    <3>1. known'[p] = LearnAll(known[p], provider[p]) /\ baseline'[p] = o.base /\ pending'[p] = o.change
      BY <1>1, <1>5, <1>12 DEF FeedTypes
    <3> QED BY <1>2, <1>6, <1>12, <2>1, <2>2, <3>1, PathFrom
  <2>3. CASE q # p
    <3>1. known'[q] = known[q] /\ baseline'[q] = baseline[q] /\ pending'[q] = pending[q] BY <1>1, <1>5, <2>3 DEF FeedTypes
    <3>2. PathInv(server.condstore, provider[q], Points(q), Covered(q), known[q], baseline[q], pending[q],
                  q \in marks.reconcile, q \in marks.event)
      BY <1>1 DEF AllPaths, Path
    <3>3. Behind(known[q], provider[q]) BY <1>1 DEF History
    <3> QED BY <1>2, <1>12, <2>1, <3>1, <3>2, <3>3, PathFrom
  <2> QED BY <2>2, <2>3
<1>10. History'
  <2>1. \A q \in Paths : Snap(q)' \subseteq Points(q) BY <1>2, <1>3, NoSnap
  <2> QED BY <1>1, <1>2, <1>9, <2>1, BehindSelf, HistoryStays
<1>11. AllPaths' BY <1>9 DEF AllPaths
<1> QED BY <1>2, <1>8, <1>10, <1>11 DEF OpenInv, PathsInv, PassInv

LEMMA MarksOnly ==
  ASSUME NEW cond, NEW c, NEW X, NEW m, NEW k, NEW b, NEW ch, NEW rec, NEW ev, NEW e, ~cond /\ ev => e,
         PathInv(cond, c, X, m, k, b, ch, rec, ev)
  PROVE  PathInv(cond, c, X, m, k, b, ch, rec, e)
  BY DEF PathInv, Kept

(* markAuthoritativelyProbed leaves the markers that Path speaks of to     *)
(* servers without CONDSTORE.                                              *)
LEMMA ProbedIs ==
  ASSUME FeedTypes
  PROVE  /\ Probed \in [reconcile : SUBSET Paths, event : SUBSET Paths, status : SUBSET Paths]
         /\ Probed.reconcile = marks.reconcile /\ (~server.condstore => Probed.event = marks.event)
<1> DEFINE same == {p \in DOMAIN snap : ~Told(p, StatusOf(snap[p]))}
           e == IF server.condstore THEN marks.event \ same ELSE marks.event
           t == marks.status \ same
<1>1. marks \in [reconcile : SUBSET Paths, event : SUBSET Paths, status : SUBSET Paths] BY DEF FeedTypes
<1>2. e \in SUBSET Paths /\ t \in SUBSET Paths BY <1>1
<1>3. Probed = [marks EXCEPT !.status = t, !.event = e] BY <1>1 DEF Probed
<1>4. ~server.condstore => e = marks.event OBVIOUS
<1> HIDE DEF e, t
<1> QED BY <1>1, <1>2, <1>3, <1>4
(* What Verified observes of every path, and the marker it takes.          *)
Looked == [p \in Paths |-> IF p \in DOMAIN snap THEN Observed(p, StatusOf(snap[p]), FALSE)
                           ELSE [base |-> baseline[p], change |-> pending[p]]]
Turned(p, then, all, left) ==
  LET latest == IF then[p] = NoChange THEN all[p].base ELSE then[p].observed IN
  /\ pending' = [then EXCEPT ![p] = Also([reconcile |-> p \in left.reconcile, observed |-> latest,
                                          scan |-> p \in left.event \cup left.status], then[p])]
  /\ marks' = [reconcile |-> left.reconcile \ {p}, event |-> left.event \ {p},
               status |-> IF p \in left.event THEN left.status ELSE left.status \ {p}]
LEMMA VerifiedIs ==
  ASSUME Verified
  PROVE  LET then == [p \in Paths |-> Looked[p].change] IN
         /\ baseline' = [p \in Paths |-> Looked[p].base]
         /\ known' = [p \in Paths |-> IF p \in DOMAIN snap THEN LearnAll(known[p], snap[p]) ELSE known[p]]
         /\ taken' = [p \in Paths |-> IF p \in DOMAIN snap THEN Take(p, snap[p]) ELSE taken[p]]
         /\ \/ pending' = then /\ marks' = Probed /\ Takeable(Probed) = {}
            \/ \E p \in Takeable(Probed) : Turned(p, then, Looked, Probed)
<1> DEFINE now(a) == [p \in Paths |-> a[p].change]
<1>1. PICK l \in {Probed}, a \in {Looked} :
        /\ baseline' = [p \in Paths |-> a[p].base]
        /\ known' = [p \in Paths |-> IF p \in DOMAIN snap THEN LearnAll(known[p], snap[p]) ELSE known[p]]
        /\ taken' = [p \in Paths |-> IF p \in DOMAIN snap THEN Take(p, snap[p]) ELSE taken[p]]
        /\ IF Takeable(l) = {} THEN pending' = now(a) /\ marks' = l ELSE \E p \in Takeable(l) : Turned(p, now(a), a, l)
  BY DEF Verified, Looked, Turned
<1>2. l = Probed /\ a = Looked OBVIOUS
<1> QED BY <1>1, <1>2
LEMMA VerifiedKeeps ==
  ASSUME OpenInv, Verified
  PROVE  OpenInv'
<1>1. FeedTypes /\ History /\ AllPaths /\ Quiet BY DEF OpenInv, PathsInv, Verified
<1>2. /\ phase = "verifying" /\ phase' = "host" /\ UNCHANGED <<server, provider, mirror, pass>> /\ snap' = <<>>
  BY DEF Verified, Answer
<1> DEFINE obs(p) == Observed(p, StatusOf(snap[p]), FALSE)
           all == [p \in Paths |-> IF p \in DOMAIN snap THEN obs(p) ELSE [base |-> baseline[p], change |-> pending[p]]]
           then == [p \in Paths |-> all[p].change]
           left == Probed
<1>3. /\ baseline' = [p \in Paths |-> all[p].base]
      /\ known' = [p \in Paths |-> IF p \in DOMAIN snap THEN LearnAll(known[p], snap[p]) ELSE known[p]]
      /\ taken' = [p \in Paths |-> IF p \in DOMAIN snap THEN Take(p, snap[p]) ELSE taken[p]]
      /\ \/ pending' = then /\ marks' = left /\ Takeable(left) = {}
         \/ \E p \in Takeable(left) : Turned(p, then, all, left)
  BY VerifiedIs DEF Looked
<1>4. /\ left \in [reconcile : SUBSET Paths, event : SUBSET Paths, status : SUBSET Paths]
      /\ left.reconcile = marks.reconcile /\ (~server.condstore => left.event = marks.event)
  BY <1>1, ProbedIs
<1>5. ASSUME NEW p \in Paths
      PROVE  /\ all[p].base \in Status /\ then[p] \in Change \cup {NoChange}
             /\ known'[p] \in Mailbox /\ Behind(known'[p], provider[p]) /\ taken'[p] \in Mailbox
             /\ PathInv(server.condstore, provider[p], Points(p), Covered(p)', known'[p], all[p].base, then[p],
                        p \in left.reconcile, p \in left.event)
  <2>1. CASE p \in DOMAIN snap
    <3>1. all[p].base = obs(p).base /\ then[p] = obs(p).change BY <2>1
    <3>2. known'[p] = LearnAll(known[p], snap[p]) /\ taken'[p] = Take(p, snap[p]) BY <1>3, <2>1
    <3> DEFINE st == StatusOf(snap[p])
               o == Observed(p, st, FALSE)
    <3>3. st \in Answers(snap[p]) /\ o = Observed(p, st, FALSE) BY DEF Answers
    <3>4. all[p].base = o.base /\ then[p] = o.change BY <3>1
    <3> HIDE DEF all, then, left, st, o
    <3>5. /\ o.base \in Status /\ o.change \in Change \cup {NoChange} /\ taken'[p] \in Mailbox
          /\ LearnAll(known[p], snap[p]) \in Mailbox /\ Behind(LearnAll(known[p], snap[p]), provider[p])
          /\ PathInv(server.condstore, provider[p], Points(p), Covered(p)', LearnAll(known[p], snap[p]), o.base, o.change,
                     p \in marks.reconcile, p \in marks.event)
      BY <1>1, <1>2, <2>1, <3>2, <3>3, SnapObserved
    <3>6. PathInv(server.condstore, provider[p], Points(p), Covered(p)', LearnAll(known[p], snap[p]), o.base, o.change,
                  p \in left.reconcile, p \in left.event)
      <4>1. ~server.condstore /\ p \in marks.event => p \in left.event BY <1>4
      <4>2. (p \in left.reconcile) = (p \in marks.reconcile) BY <1>4
      <4> DEFINE m == Covered(p)'
                 k == LearnAll(known[p], snap[p])
      <4>3. PathInv(server.condstore, provider[p], Points(p), m, k, o.base, o.change, p \in marks.reconcile, p \in marks.event)
        BY <3>5
      <4> HIDE DEF m, k
      <4>4. PathInv(server.condstore, provider[p], Points(p), m, k, o.base, o.change, p \in left.reconcile, p \in left.event)
        BY <4>1, <4>2, <4>3, MarksOnly
      <4> QED BY <4>4 DEF m, k
    <3> QED BY <3>2, <3>4, <3>5, <3>6
  <2>2. CASE p \notin DOMAIN snap
    <3>1. all[p].base = baseline[p] /\ then[p] = pending[p] BY <2>2
    <3>2. known'[p] = known[p] /\ taken'[p] = taken[p] BY <1>3, <2>2
    <3>5. Covered(p)' = Covered(p) BY <1>2, <3>2 DEF Covered
    <3> HIDE DEF all, then, left
    <3>3. PathInv(server.condstore, provider[p], Points(p), Covered(p), known[p], baseline[p], pending[p],
                  p \in marks.reconcile, p \in marks.event)
      BY <1>1 DEF AllPaths, Path
    <3>4. PathInv(server.condstore, provider[p], Points(p), Covered(p), known[p], baseline[p], pending[p],
                  p \in left.reconcile, p \in left.event)
      <4>1. ~server.condstore /\ p \in marks.event => p \in left.event BY <1>4
      <4>2. (p \in left.reconcile) = (p \in marks.reconcile) BY <1>4
      <4> QED BY <3>3, <4>1, <4>2, MarksOnly
    <3> QED BY <1>1, <3>1, <3>2, <3>4, <3>5, PathType DEF History
  <2> QED BY <2>1, <2>2
<1>6. \A p \in Paths : baseline'[p] = all[p].base BY <1>3
<1>7. baseline' = [p \in Paths |-> baseline'[p]] /\ known' = [p \in Paths |-> known'[p]] /\ taken' = [p \in Paths |-> taken'[p]]
  BY <1>3
<1>8. then = [p \in Paths |-> then[p]] OBVIOUS
<1> HIDE DEF all, then, left
<1>9. ASSUME NEW p \in Paths
      PROVE  /\ pending'[p] \in Change \cup {NoChange}
             /\ PathInv(server.condstore, provider[p], Points(p), Covered(p)', known'[p], baseline'[p], pending'[p],
                        p \in marks'.reconcile, p \in marks'.event)
  <2>1. CASE pending' = then /\ marks' = left BY <1>5, <1>6, <2>1
  <2>2. CASE ~(pending' = then /\ marks' = left)
    <3>1. PICK q \in Takeable(left) : Turned(q, then, all, left) BY <1>3, <2>2
    <3>2. q \in Paths BY <1>4 DEF Takeable
    <3> DEFINE r == q \in left.reconcile
               sc == q \in left.event \cup left.status
               l == IF then[q] = NoChange THEN all[q].base ELSE then[q].observed
               n == Also([reconcile |-> r, observed |-> l, scan |-> sc], then[q])
    <3>3. pending' = [then EXCEPT ![q] = n] /\ marks'.reconcile = left.reconcile \ {q} /\ marks'.event = left.event \ {q}
      BY <3>1 DEF Turned
    <3>4. CASE p = q
      <4>1. pending'[p] = n BY <1>8, <3>3, <3>4
      <4>2. r \in BOOLEAN /\ sc \in BOOLEAN /\ (q \in left.event => sc) OBVIOUS
      <4>3. l = IF then[q] = NoChange THEN all[q].base ELSE then[q].observed OBVIOUS
      <4> HIDE DEF r, sc, l
      <4>4. n \in Change
            /\ PathInv(server.condstore, provider[q], Points(q), Covered(q)', known'[q], all[q].base, n,
                       q \in marks'.reconcile, q \in marks'.event)
        <5>1. /\ all[q].base \in Status /\ then[q] \in Change \cup {NoChange}
              /\ PathInv(server.condstore, provider[q], Points(q), Covered(q)', known'[q], all[q].base, then[q],
                         q \in left.reconcile, q \in left.event)
          BY <1>5, <3>2
        <5>2. ~server.condstore /\ q \in left.event => sc BY <4>2
        <5> QED BY <4>2, <4>3, <5>1, <5>2, TakeKeeps
      <4> QED BY <1>6, <3>4, <4>1, <4>4
    <3>5. CASE p # q
      <4>1. pending'[p] = then[p] BY <1>8, <3>3, <3>5
      <4>2. (p \in marks'.reconcile) = (p \in left.reconcile) /\ (p \in marks'.event) = (p \in left.event) BY <3>3, <3>5
      <4> QED BY <1>5, <1>6, <4>1, <4>2
    <3> QED BY <3>4, <3>5
  <2> QED BY <2>1, <2>2
<1>10. pending' = [p \in Paths |-> pending'[p]]
       /\ marks' \in [reconcile : SUBSET Paths, event : SUBSET Paths, status : SUBSET Paths]
  <2>1. CASE pending' = then /\ marks' = left BY <1>4, <1>8, <2>1
  <2>2. CASE ~(pending' = then /\ marks' = left)
    <3>1. PICK q \in Takeable(left) :
             /\ \E ch : pending' = [then EXCEPT ![q] = ch]
             /\ marks' = [reconcile |-> left.reconcile \ {q}, event |-> left.event \ {q},
                          status |-> IF q \in left.event THEN left.status ELSE left.status \ {q}]
      BY <1>3, <2>2 DEF Turned
    <3>2. pending' = [p \in Paths |-> pending'[p]] BY <1>8, <3>1
    <3> DEFINE t == IF q \in left.event THEN left.status ELSE left.status \ {q}
    <3>3. t \in SUBSET Paths /\ left.reconcile \ {q} \in SUBSET Paths /\ left.event \ {q} \in SUBSET Paths BY <1>4
    <3> HIDE DEF t
    <3>4. marks' = [reconcile |-> left.reconcile \ {q}, event |-> left.event \ {q}, status |-> t] BY <3>1 DEF t
    <3> QED BY <3>2, <3>3, <3>4
  <2> QED BY <2>1, <2>2
<1>11. FeedTypes'
  <2>1. /\ known' \in [Paths -> Mailbox] /\ taken' \in [Paths -> Mailbox]
        /\ baseline' \in [Paths -> Status] /\ pending' \in [Paths -> Change \cup {NoChange}]
    <3>1. \A p \in Paths : known'[p] \in Mailbox /\ taken'[p] \in Mailbox /\ baseline'[p] \in Status /\ pending'[p] \in Change \cup {NoChange}
      BY <1>5, <1>6, <1>9
    <3> QED BY <1>7, <1>10, <3>1
  <2> QED BY <1>1, <1>2, <1>10, <2>1, NoSnap DEF FeedTypes
<1>12. Quiet' BY <1>2 DEF Quiet
<1>13. History'
  <2>1. \A q \in Paths : Snap(q)' \subseteq Points(q) BY <1>2, NoSnap
  <2> QED BY <1>1, <1>2, <1>5, <2>1, BehindSelf, HistoryStays
<1>14. AllPaths'
  <2> SUFFICES ASSUME NEW p \in Paths PROVE Path(p)' BY DEF AllPaths
  <2>1. Points(p)' \subseteq Points(p) BY <1>2, NoSnap DEF Points
  <2>2. PathInv(server.condstore, provider'[p], Points(p), Covered(p)', known'[p], baseline'[p], pending'[p],
                p \in marks'.reconcile, p \in marks'.event)
    BY <1>2, <1>9
  <2> QED BY <1>2, <2>1, <2>2, PathFrom
<1> QED BY <1>2, <1>11, <1>12, <1>13, <1>14 DEF OpenInv, PathsInv, PassInv

-------------------------------------------------------------------------------
(* Steps that signal.                                                      *)

LEMMA SignalNothing ==
  ASSUME FeedTypes, NEW p \in Paths, NEW c, NEW X, NEW m, NEW k, NEW rec, NEW ev,
         PathInv(server.condstore, c, X, m, k, baseline[p], pending[p], rec, ev)
  PROVE  /\ Signalled(p, TRUE, TRUE, Nothing) \in Change
         /\ PathInv(server.condstore, c, X, m, k, baseline[p], Signalled(p, TRUE, TRUE, Nothing), rec, ev)
<1> DEFINE r == TRUE
           s == Nothing
<1>1. s \in Status /\ s.flags = Unknown BY DEF Nothing, Status, Field
<1>2. r \in BOOLEAN /\ (k.flagged = k.flagged \/ r) /\ (ev => ev) OBVIOUS
<1>4. s.flags = Unknown \/ (r /\ s.flags <= Modseq(c)) \/ ~server.condstore BY <1>1
<1> HIDE DEF r, s
<1>3. Signalled(p, r, r, s) \in Change
      /\ PathInv(server.condstore, c, X, m, k, baseline[p], Signalled(p, r, r, s), rec, ev)
  <2>1. Signals(p, c, X, m, k, rec, ev, r, r, s, k, ev) BY <1>1, <1>2, <1>4 DEF Signals
  <2> QED BY <2>1, SignalKeeps
<1> QED BY <1>3 DEF r, s

LEMMA SignalledKeeps ==
  ASSUME FeedTypes, History, AllPaths, UNCHANGED <<server, provider, mirror, known, taken, baseline, marks>>,
         \A p \in Paths : Snap(p)' \subseteq Points(p),
         pending' \in [Paths -> {pending'[p] : p \in Paths}],
         \A p \in Paths : pending'[p] = pending[p] \/ pending'[p] = Signalled(p, TRUE, TRUE, Nothing)
  PROVE  /\ History' /\ AllPaths' /\ pending' \in [Paths -> Change \cup {NoChange}]
<1>1. ASSUME NEW p \in Paths
      PROVE  pending'[p] \in Change \cup {NoChange} /\ Path(p)'
  <2>1. PathInv(server.condstore, provider[p], Points(p), Covered(p), known[p], baseline[p], pending[p],
                p \in marks.reconcile, p \in marks.event)
    BY DEF AllPaths, Path
  <2>2. Points(p)' \subseteq Points(p) BY DEF Points
  <2>4. /\ Signalled(p, TRUE, TRUE, Nothing) \in Change
        /\ PathInv(server.condstore, provider[p], Points(p), Covered(p), known[p], baseline[p], Signalled(p, TRUE, TRUE, Nothing),
                   p \in marks.reconcile, p \in marks.event)
    BY <2>1, SignalNothing
  <2>5. pending[p] \in Change \cup {NoChange} /\ Covered(p)' = Covered(p) BY PathType DEF Covered
  <2> QED BY <2>1, <2>2, <2>4, <2>5, PathFrom
<1>2. History' BY BehindSelf, HistoryStays
<1> QED BY <1>1, <1>2 DEF AllPaths

LEMMA FailedKeeps ==
  ASSUME OpenInv, NEW p \in Paths, InitializedFailed(p) \/ ProbedFailed(p) \/ VerifyFailed(p)
  PROVE  OpenInv'
<1>1. FeedTypes /\ History /\ AllPaths /\ Quiet
  BY DEF OpenInv, PathsInv, InitializedFailed, ProbedFailed, VerifyFailed
<1>2. /\ UNCHANGED <<server, provider, mirror, known, taken, baseline, marks, pass>>
      /\ pending' = [pending EXCEPT ![p] = Signalled(p, TRUE, TRUE, Nothing)]
  BY DEF InitializedFailed, ProbedFailed, VerifyFailed
<1>3. \/ phase' \in {"opening", "verifying"} /\ snap' = [q \in DOMAIN snap \ {p} |-> snap[q]]
      \/ phase' = "host" /\ snap' = snap /\ snap = <<>>
  BY <1>1 DEF InitializedFailed, ProbedFailed, VerifyFailed, Answer, Quiet
<1>4. \A q \in Paths : Snap(q)' \subseteq Points(q)
  BY <1>3, NoSnap DEF Snap, Points
<1>5. snap' \in UNION {[T -> Mailbox] : T \in SUBSET Paths}
  <2>1. PICK S \in SUBSET Paths : snap \in [S -> Mailbox] BY <1>1 DEF FeedTypes
  <2>2. CASE snap' = snap BY <2>1, <2>2
  <2>3. CASE snap' = [q \in DOMAIN snap \ {p} |-> snap[q]]
    <3>1. S \ {p} \in SUBSET Paths /\ snap' \in [S \ {p} -> Mailbox] BY <2>1, <2>3
    <3> QED BY <3>1
  <2> QED BY <1>3, <2>2, <2>3
<1>6. \A q \in Paths : pending'[q] = pending[q] \/ pending'[q] = Signalled(q, TRUE, TRUE, Nothing)
  BY <1>1, <1>2 DEF FeedTypes
<1>7. pending' \in [Paths -> {pending'[q] : q \in Paths}] BY <1>1, <1>2 DEF FeedTypes
<1>8. History' /\ AllPaths' /\ pending' \in [Paths -> Change \cup {NoChange}] BY <1>1, <1>2, <1>4, <1>6, <1>7, SignalledKeeps
<1>9. FeedTypes' BY <1>1, <1>2, <1>3, <1>5, <1>8 DEF FeedTypes
<1>10. Quiet' BY <1>3 DEF Quiet
<1> QED BY <1>3, <1>8, <1>9, <1>10 DEF OpenInv, PathsInv, PassInv

-------------------------------------------------------------------------------
(* The live pass.                                                          *)

LEMMA PassTypes ==
  ASSUME FeedTypes
  PROVE  /\ pass.held \in SUBSET Paths /\ pass.todo \in SUBSET Paths /\ pass.selected \in SUBSET Paths
         /\ DOMAIN pass.seen \in SUBSET Paths /\ \A p \in DOMAIN pass.seen : pass.seen[p] \in Done
         /\ pass = [held |-> pass.held, todo |-> pass.todo, selected |-> pass.selected, seen |-> pass.seen]
<1>1. pass \in [held : SUBSET Paths, todo : SUBSET Paths, selected : SUBSET Paths,
                seen : UNION {[S -> Done] : S \in SUBSET Paths}]
  BY DEF FeedTypes
<1>2. PICK S \in SUBSET Paths : pass.seen \in [S -> Done] BY <1>1
<1> QED BY <1>1, <1>2

(* What may happen beside the pass: a change drops out of what is held,    *)
(* a mailbox moves on.                                                     *)
LEMMA PassStays ==
  ASSUME FeedTypes, History, PassInv, phase = "pass", UNCHANGED <<server, mirror, taken, snap>>,
         pass'.seen = pass.seen, pass'.held \subseteq pass.held,
         \A p \in Paths : \/ provider'[p] = provider[p]
                          \/ /\ provider'[p] \in Mailbox /\ Modseq(provider[p]) < Modseq(provider'[p]),
         \A p \in pass'.held : known'[p] = known[p] /\ pending'[p] = pending[p]
  PROVE  \A p \in Paths : PassPath(p)'
<1> SUFFICES ASSUME NEW p \in Paths PROVE PassPath(p)' OBVIOUS
<1>1. PassPath(p) BY DEF PassInv
<1>2. Reading(p)' /\ Covered(p)' = Covered(p) BY <1>1 DEF PassPath, Reading, Covered
<1>3. ASSUME p \in DOMAIN pass.seen PROVE DoneTrue(server.condstore, provider'[p], Covered(p), pass.seen[p])
  <2>1. DoneTrue(server.condstore, provider[p], Covered(p), pass.seen[p]) /\ pass.seen[p] \in Done
    BY <1>1, <1>3, PassTypes DEF PassPath
  <2>2. provider[p] \in Mailbox BY PathType
  <2>3. pass.seen[p].status.flags \in Nat \cup {-1} BY <2>1 DEF Done, Status, Field, Unknown
  <2>4. Modseq(provider[p]) \in Nat BY <2>2 DEF Modseq, Mailbox
  <2>5. CASE provider'[p] = provider[p] BY <2>1, <2>5
  <2>6. CASE provider'[p] \in Mailbox /\ Modseq(provider[p]) < Modseq(provider'[p])
    <3>1. Modseq(provider'[p]) \in Nat BY <2>6 DEF Modseq, Mailbox
    <3> DEFINE f == pass.seen[p].status.flags
    <3>2. f <= Modseq(provider[p]) => f <= Modseq(provider'[p]) /\ Modseq(provider'[p]) # f BY <2>3, <2>4, <2>6, <3>1
    <3> QED BY <2>1, <3>2 DEF DoneTrue
  <2> QED BY <2>5, <2>6
<1>4. p \in pass'.held => pending'[p] # NoChange BY <1>1 DEF PassPath
<1>5. p \in DOMAIN pass.seen /\ p \in pass'.held => Answered(Covered(p), known'[p], pending'[p], pass.seen[p])
  BY <1>1 DEF PassPath
<1> QED BY <1>2, <1>3, <1>4, <1>5 DEF PassPath

LEMMA OverflowKeeps ==
  ASSUME OpenInv, Overflow
  PROVE  OpenInv'
<1>1. FeedTypes /\ History /\ AllPaths /\ Quiet /\ PassInv
  BY DEF OpenInv, PathsInv, Overflow
<1>2. /\ UNCHANGED <<server, provider, mirror, known, taken, baseline, marks, phase, snap>>
      /\ pending' = [p \in Paths |-> Signalled(p, TRUE, TRUE, Nothing)] /\ pass' = [pass EXCEPT !.held = {}]
      /\ Notifying /\ phase # "away"
  BY DEF Overflow
<1>3. \A q \in Paths : Snap(q)' \subseteq Points(q) BY <1>2 DEF Snap, Points
<1>4. History' /\ AllPaths' /\ pending' \in [Paths -> Change \cup {NoChange}] BY <1>1, <1>2, <1>3, SignalledKeeps
<1>5. /\ pass' \in [held : SUBSET Paths, todo : SUBSET Paths, selected : SUBSET Paths,
                    seen : UNION {[S -> Done] : S \in SUBSET Paths}]
      /\ pass'.seen = pass.seen /\ pass'.held = {}
  BY <1>1, <1>2 DEF FeedTypes
<1>6. FeedTypes' BY <1>1, <1>2, <1>4, <1>5 DEF FeedTypes
<1>7. Quiet' BY <1>1, <1>2 DEF Quiet, Notifying
<1>8. PassInv' BY <1>1, <1>2, <1>5, PassStays DEF PassInv
<1> QED BY <1>4, <1>6, <1>7, <1>8 DEF OpenInv, PathsInv

LEMMA StartPassKeeps ==
  ASSUME OpenInv, StartPass
  PROVE  OpenInv'
<1>1. FeedTypes /\ History /\ AllPaths /\ Quiet BY DEF OpenInv, PathsInv, StartPass
<1>2. phase = "host" /\ phase' = "pass" /\ Still /\ snap' = snap /\ snap = <<>> BY <1>1 DEF StartPass, Still, Quiet
<1>3. PICK S \in SUBSET Dirty : pass' = [pass EXCEPT !.held = S, !.todo = S, !.seen = <<>>] BY DEF StartPass
<1>4. S \in SUBSET Paths BY DEF Dirty
<1>5. /\ pass' \in [held : SUBSET Paths, todo : SUBSET Paths, selected : SUBSET Paths,
                    seen : UNION {[T -> Done] : T \in SUBSET Paths}]
      /\ pass'.seen = <<>> /\ pass'.held = S
  <2>1. <<>> \in [{} -> Done] /\ {} \in SUBSET Paths OBVIOUS
  <2>2. <<>> \in UNION {[T -> Done] : T \in SUBSET Paths} BY <2>1
  <2> QED BY <1>1, <1>3, <1>4, <2>2 DEF FeedTypes
<1>6. FeedTypes' BY <1>1, <1>2, <1>5 DEF FeedTypes, Still, feedVars
<1>7. \A p \in Paths : Snap(p)' \subseteq Points(p) BY <1>2 DEF Snap, Points
<1>8. History' /\ AllPaths' BY <1>1, <1>2, <1>7, NothingMoves DEF Still
<1>9. Quiet' BY <1>2 DEF Quiet
<1>10. \A p \in Paths : PassPath(p)'
  <2>1. \A p \in S : pending'[p] # NoChange BY <1>2 DEF Dirty, Still, feedVars
  <2>2. DOMAIN snap' = {} /\ DOMAIN pass'.seen = {} BY <1>2, <1>5
  <2> QED BY <1>5, <2>1, <2>2 DEF PassPath, Reading
<1> QED BY <1>6, <1>8, <1>9, <1>10 DEF OpenInv, PathsInv, PassInv

LEMMA SelectFolderKeeps ==
  ASSUME OpenInv, NEW p \in Paths, SelectFolder(p)
  PROVE  OpenInv'
<1>1. FeedTypes /\ History /\ AllPaths /\ PassInv BY DEF OpenInv, PathsInv, SelectFolder
<1>2. /\ phase = "pass" /\ phase' = "pass" /\ Still /\ snap' = [q \in {p} |-> provider[q]]
      /\ pass' = [pass EXCEPT !.selected = {p}]
  BY DEF SelectFolder, Still
<1>3. /\ \A q \in Paths : Snap(q)' \subseteq Points(q)
      /\ snap' \in UNION {[T -> Mailbox] : T \in SUBSET Paths}
  BY <1>1, <1>2, ReadSnap
<1>4. /\ pass' \in [held : SUBSET Paths, todo : SUBSET Paths, selected : SUBSET Paths,
                    seen : UNION {[T -> Done] : T \in SUBSET Paths}]
      /\ pass'.seen = pass.seen /\ pass'.held = pass.held
  BY <1>1, <1>2 DEF FeedTypes
<1>5. FeedTypes' BY <1>1, <1>2, <1>3, <1>4 DEF FeedTypes, Still, feedVars
<1>6. History' /\ AllPaths' BY <1>1, <1>2, <1>3, NothingMoves DEF Still
<1>7. Quiet' BY <1>2 DEF Quiet
<1>8. ASSUME NEW q \in Paths PROVE PassPath(q)'
  <2>1. PassPath(q) BY <1>1, <1>2 DEF PassInv
  <2>2. q \in DOMAIN snap' => snap'[q] = provider[q] BY <1>2
  <2>3. Behind(mirror[q], provider[q]) /\ Behind(known[q], provider[q]) BY <1>1 DEF History
  <2>4. mirror' = mirror /\ known' = known /\ provider' = provider /\ pending' = pending /\ server' = server
    BY <1>2 DEF Still, feedVars
  <2>5. Reading(q)' BY <2>2, <2>3, <2>4 DEF Reading
  <2>6. Covered(q)' = Covered(q) BY <1>2 DEF Still, feedVars, Covered
  <2> QED BY <1>4, <2>1, <2>4, <2>5, <2>6 DEF PassPath
<1> QED BY <1>5, <1>6, <1>7, <1>8 DEF OpenInv, PathsInv, PassInv

(* What was done to a folder stays done when more is covered.              *)
LEMMA DoneGrows ==
  ASSUME NEW cond, NEW c \in Mailbox, NEW m \in Mailbox, NEW n \in Mailbox, Behind(m, n), NEW k \in Mailbox, NEW ch, NEW d \in Done
  PROVE  /\ DoneTrue(cond, c, m, d) => DoneTrue(cond, c, n, d)
         /\ Answered(m, k, ch, d) => Answered(n, k, ch, d)
<1>1. /\ d.status.next \in Nat \cup {-1} /\ d.status.messages \in Nat \cup {-1} /\ d.scanned \in BOOLEAN
  BY DEF Done, Status, Field, Unknown
<1>2. /\ m.arrived \in Nat /\ m.gone \in Nat /\ m.flagged \in Nat /\ n.arrived \in Nat /\ n.gone \in Nat /\ n.flagged \in Nat
      /\ c.flagged \in Nat /\ k.arrived \in Nat /\ k.gone \in Nat /\ k.flagged \in Nat
      /\ m.arrived <= n.arrived /\ m.gone <= n.gone /\ m.flagged <= n.flagged
  BY DEF Mailbox, Behind
<1>3. DoneTrue(cond, c, m, d) => DoneTrue(cond, c, n, d) BY <1>1, <1>2 DEF DoneTrue, Unknown
<1>4. Answered(m, k, ch, d) => Answered(n, k, ch, d) BY <1>1, <1>2 DEF Answered
<1> QED BY <1>3, <1>4

(* The mirror catches up with what SELECT showed.                          *)
LEMMA ReadFolderKeeps ==
  ASSUME OpenInv, NEW p \in Paths, NEW reconciled \in BOOLEAN, NEW scanned \in BOOLEAN, ReadFolder(p, reconciled, scanned)
  PROVE  OpenInv'
<1> DEFINE n == [arrived |-> snap[p].arrived, gone |-> IF reconciled THEN snap[p].gone ELSE mirror[p].gone,
                 flagged |-> IF scanned THEN snap[p].flagged ELSE mirror[p].flagged]
           done == [status |-> SelectOf(snap[p]), reconciled |-> reconciled, scanned |-> scanned]
           handled == (pending[p].reconcile => reconciled) /\ (pending[p].scan => scanned)
           seen == IF handled THEN [q \in DOMAIN pass.seen \cup {p} |-> IF q = p THEN done ELSE pass.seen[q]] ELSE pass.seen
<1>1. FeedTypes /\ History /\ AllPaths /\ PassInv BY DEF OpenInv, PathsInv, ReadFolder
<1>2. /\ phase = "pass" /\ phase' = "pass" /\ UNCHANGED <<server, provider, feedVars>> /\ snap' = <<>> /\ p \in DOMAIN snap
  BY DEF ReadFolder
<1>3. mirror' = [mirror EXCEPT ![p] = n] BY DEF ReadFolder
<1>4. pass' = [pass EXCEPT !.todo = pass.todo \ {p}, !.seen = seen]
  <2>1. CASE handled BY <1>1, <2>1 DEF ReadFolder, FeedTypes
  <2>2. CASE ~handled
    <3>1. pass' = [pass EXCEPT !.todo = pass.todo \ {p}] BY <2>2 DEF ReadFolder
    <3> QED BY <1>1, <2>2, <3>1 DEF FeedTypes
  <2> QED BY <2>1, <2>2
<1>5. /\ Real(snap[p]) /\ Behind(snap[p], provider[p]) /\ snap[p] \in Mailbox /\ Real(provider[p])
      /\ Behind(mirror[p], snap[p]) /\ (p \in pass.held => Behind(known[p], snap[p]))
  BY <1>1, <1>2 DEF History, PassInv, PassPath, Reading, Real
<1>6. /\ snap[p].arrived \in Nat /\ snap[p].gone \in Nat /\ snap[p].flagged \in Nat
      /\ mirror[p].arrived \in Nat /\ mirror[p].gone \in Nat /\ mirror[p].flagged \in Nat
      /\ provider[p].arrived \in Nat /\ provider[p].gone \in Nat /\ provider[p].flagged \in Nat
      /\ known[p].arrived \in Nat /\ known[p].gone \in Nat /\ known[p].flagged \in Nat
  BY <1>1, <1>5, PathType DEF Mailbox
<1>7. /\ n \in Mailbox /\ Behind(mirror[p], n) /\ Behind(n, provider[p])
      /\ n.arrived = snap[p].arrived /\ (reconciled => n.gone = snap[p].gone) /\ (scanned => n.flagged = snap[p].flagged)
  <2> DEFINE g == IF reconciled THEN snap[p].gone ELSE mirror[p].gone
             f == IF scanned THEN snap[p].flagged ELSE mirror[p].flagged
  <2>1. /\ g \in Nat /\ f \in Nat /\ mirror[p].gone <= g /\ mirror[p].flagged <= f /\ g <= provider[p].gone /\ f <= provider[p].flagged
        /\ (reconciled => g = snap[p].gone) /\ (scanned => f = snap[p].flagged)
    BY <1>5, <1>6 DEF Behind
  <2>2. n = [arrived |-> snap[p].arrived, gone |-> g, flagged |-> f] OBVIOUS
  <2> HIDE DEF g, f, n
  <2> QED BY <1>5, <1>6, <2>1, <2>2 DEF Behind, Mailbox
<1> HIDE DEF n
<1>8. mirror' \in [Paths -> Mailbox] /\ mirror'[p] = n /\ \A q \in Paths : q # p => mirror'[q] = mirror[q]
  BY <1>1, <1>3, <1>7 DEF FeedTypes
<1>9. /\ done \in Done /\ done.status = SelectOf(snap[p]) /\ done.reconciled = reconciled /\ done.scanned = scanned
      /\ Tells(done.status, snap[p])
  <2>1. SelectOf(snap[p]) \in Answers(snap[p]) BY DEF Answers
  <2>2. Tells(SelectOf(snap[p]), snap[p]) BY <1>1, <1>5, <2>1, StatusIs
  <2> QED BY <2>2 DEF Done, Tells
<1> HIDE DEF done
<1>10. /\ DOMAIN seen \in SUBSET Paths /\ seen \in [DOMAIN seen -> Done]
       /\ \A q \in DOMAIN seen : IF handled /\ q = p THEN seen[q] = done ELSE q \in DOMAIN pass.seen /\ seen[q] = pass.seen[q]
  <2>1. /\ DOMAIN pass.seen \in SUBSET Paths /\ pass.seen \in [DOMAIN pass.seen -> Done]
    <3>1. PICK S \in SUBSET Paths : pass.seen \in [S -> Done] BY <1>1 DEF FeedTypes
    <3> QED BY <3>1
  <2>2. CASE handled
    <3>1. seen = [q \in DOMAIN pass.seen \cup {p} |-> IF q = p THEN done ELSE pass.seen[q]] BY <2>2
    <3> HIDE DEF seen
    <3> QED BY <1>9, <2>1, <2>2, <3>1
  <2>3. CASE ~handled
    <3>1. seen = pass.seen BY <2>3
    <3> HIDE DEF seen
    <3> QED BY <2>1, <2>3, <3>1
  <2> QED BY <2>2, <2>3
<1> HIDE DEF seen
<1>11. /\ pass' \in [held : SUBSET Paths, todo : SUBSET Paths, selected : SUBSET Paths,
                     seen : UNION {[T -> Done] : T \in SUBSET Paths}]
       /\ pass'.held = pass.held /\ pass'.seen = seen
  <2>1. seen \in UNION {[T -> Done] : T \in SUBSET Paths} BY <1>10
  <2> QED BY <1>1, <1>4, <2>1 DEF FeedTypes
<1>12. FeedTypes' BY <1>1, <1>2, <1>8, <1>11, NoSnap DEF FeedTypes, feedVars
<1>13. Quiet' BY <1>2 DEF Quiet
<1>14. ASSUME NEW q \in Paths
       PROVE  Behind(mirror[q], mirror'[q]) /\ Behind(mirror'[q], provider[q]) /\ Behind(Counters, mirror'[q]) /\ mirror'[q] \in Mailbox
  <2>1. /\ mirror[q] \in Mailbox /\ Behind(Counters, mirror[q]) /\ Behind(mirror[q], provider[q]) /\ mirror'[q] \in Mailbox
    BY <1>1, <1>8, PathType DEF History, FeedTypes
  <2>2. Behind(mirror[q], mirror'[q]) /\ Behind(mirror'[q], provider[q])
    <3>1. CASE q = p BY <1>7, <1>8, <3>1
    <3>2. CASE q # p BY <1>8, <2>1, <3>2 DEF Behind, Mailbox
    <3> QED BY <3>1, <3>2
  <2> QED BY <2>1, <2>2 DEF Behind, Counters, Mailbox
<1>15. History' BY <1>1, <1>2, <1>14, NoSnap DEF History, feedVars
<1>18. ASSUME NEW q \in Paths
       PROVE  Covered(q)' \in Mailbox /\ Behind(mirror'[q], Covered(q)') /\ Behind(Covered(q), Covered(q)') /\ Covered(q) \in Mailbox
  <2>1. taken'[q] = taken[q] /\ taken[q] \in Mailbox BY <1>1, <1>2, PathType DEF feedVars
  <2> QED BY <1>1, <1>14, <2>1, BehindItself, CoveredIs, CoveredGrows
<1>16. AllPaths'
  <2> SUFFICES ASSUME NEW q \in Paths PROVE Path(q)' BY DEF AllPaths
  <2>1. Shows(provider[q], Points(q), Covered(q)) BY <1>1, CoveredShows
  <2>2. PathInv(server.condstore, provider[q], Points(q), Covered(q), known[q], baseline[q], pending[q],
                q \in marks.reconcile, q \in marks.event)
    BY <1>1 DEF AllPaths, Path
  <2>3. known[q] \in Mailbox /\ baseline[q] \in Status /\ pending[q] \in Change \cup {NoChange} BY <1>1, PathType
  <2>4. Real(provider[q]) /\ Modseq(provider[q]) <= Modseq(provider[q]) BY <1>1 DEF History, Real, Mailbox, Modseq
  <2>5. \A y \in Points(q) : y \in Points(q) \/ (Real(y) /\ Modseq(provider[q]) < Modseq(y)) OBVIOUS
  <2>6. PathInv(server.condstore, provider[q], Points(q), Covered(q)', known[q], baseline[q], pending[q],
                q \in marks.reconcile, q \in marks.event)
    <3> DEFINE n2 == Covered(q)'
    <3>1. n2 \in Mailbox /\ Behind(Covered(q), n2) BY <1>18
    <3> HIDE DEF n2
    <3>2. PathInv(server.condstore, provider[q], Points(q), n2, known[q], baseline[q], pending[q],
                  q \in marks.reconcile, q \in marks.event)
      BY <2>1, <2>2, <2>3, <2>4, <2>5, <3>1, MovesOn
    <3> QED BY <3>2 DEF n2
  <2>7. Points(q)' \subseteq Points(q) BY <1>2, NoSnap DEF Points
  <2> QED BY <1>2, <2>6, <2>7, PathFrom DEF feedVars
<1>17. ASSUME NEW q \in Paths PROVE PassPath(q)'
  <2>1. PassPath(q) BY <1>1, <1>2 DEF PassInv
  <2>2. known' = known /\ provider' = provider /\ pending' = pending /\ server' = server BY <1>2 DEF feedVars
  <2>3. Reading(q)' BY <1>2, NoSnap DEF Reading
  <2>4. ASSUME q \in DOMAIN seen
        PROVE  /\ DoneTrue(server.condstore, provider[q], Covered(q)', seen[q])
               /\ q \in pass.held => Answered(Covered(q)', known[q], pending[q], seen[q])
    <3> DEFINE n2 == Covered(q)'
               m2 == mirror'[q]
    <3>0. /\ n2 \in Mailbox /\ m2 \in Mailbox /\ Behind(m2, n2) /\ Behind(Covered(q), n2) /\ Covered(q) \in Mailbox
          /\ provider[q] \in Mailbox /\ known[q] \in Mailbox
      BY <1>1, <1>14, <1>18, PathType
    <3>1. CASE handled /\ q = p
      <4>1. seen[q] = done BY <1>10, <2>4, <3>1
      <4>2. done.status.next = snap[p].arrived /\ done.status.messages = snap[p].arrived - snap[p].gone
            /\ done.status.next # Unknown /\ done.status.messages # Unknown
            /\ (server.condstore => done.status.flags = Modseq(snap[p]) /\ done.status.flags # Unknown)
        BY <1>5, <1>9, RealIs DEF Tells, Unknown
      <4>3. Modseq(snap[p]) <= Modseq(provider[p]) BY <1>5, <1>6 DEF Behind, Modseq
      <4>4. Modseq(snap[p]) = Modseq(provider[p]) => provider[p].flagged = snap[p].flagged BY <1>5, <1>6 DEF Behind, Modseq
      <4>5. mirror'[p].arrived = snap[p].arrived /\ (reconciled => mirror'[p].gone = snap[p].gone)
            /\ (scanned => mirror'[p].flagged = snap[p].flagged)
        BY <1>7, <1>8
      <4>6. done.status.next # Unknown /\ done.status.next <= mirror'[p].arrived BY <1>6, <1>9, <4>2, <4>5
      <4>7. done.reconciled => done.status.messages # Unknown /\ done.status.next - done.status.messages <= mirror'[p].gone
        BY <1>6, <1>9, <4>2, <4>5
      <4>8. server.condstore /\ done.scanned =>
              /\ done.status.flags # Unknown /\ done.status.flags <= Modseq(provider[p])
              /\ Modseq(provider[p]) = done.status.flags => provider[p].flagged <= mirror'[p].flagged
        BY <1>6, <1>9, <4>2, <4>3, <4>4, <4>5
      <4>9. p \in pass.held => Answered(mirror'[p], known[p], pending[p], done)
        <5> SUFFICES ASSUME p \in pass.held PROVE Answered(mirror'[p], known[p], pending[p], done) OBVIOUS
        <5>1. known[p].arrived <= mirror'[p].arrived BY <1>5, <4>5 DEF Behind
        <5>2. done.reconciled => known[p].gone <= mirror'[p].gone BY <1>5, <1>9, <4>5 DEF Behind
        <5>3. scanned => known[p].flagged <= mirror'[p].flagged BY <1>5, <4>5 DEF Behind
        <5>4. ~scanned => ~pending[p].scan BY <3>1
        <5> QED BY <1>9, <5>1, <5>2, <5>3, <5>4 DEF Answered
      <4>10. DoneTrue(server.condstore, provider[p], mirror'[p], done) BY <4>6, <4>7, <4>8 DEF DoneTrue
      <4>11. /\ DoneTrue(server.condstore, provider[q], m2, seen[q]) /\ seen[q] \in Done
             /\ q \in pass.held => Answered(m2, known[q], pending[q], seen[q])
        BY <1>9, <3>1, <4>1, <4>9, <4>10
      <4> HIDE DEF n2, m2
      <4>12. /\ DoneTrue(server.condstore, provider[q], n2, seen[q])
             /\ q \in pass.held => Answered(n2, known[q], pending[q], seen[q])
        BY <3>0, <4>11, DoneGrows
      <4> QED BY <4>12 DEF n2
    <3>2. CASE ~(handled /\ q = p)
      <4>1. q \in DOMAIN pass.seen /\ seen[q] = pass.seen[q] /\ seen[q] \in Done BY <1>10, <2>4, <3>2
      <4>2. /\ DoneTrue(server.condstore, provider[q], Covered(q), seen[q])
            /\ q \in pass.held => Answered(Covered(q), known[q], pending[q], seen[q])
        BY <2>1, <4>1 DEF PassPath
      <4> HIDE DEF n2, m2
      <4>3. /\ DoneTrue(server.condstore, provider[q], n2, seen[q])
            /\ q \in pass.held => Answered(n2, known[q], pending[q], seen[q])
        BY <3>0, <4>1, <4>2, DoneGrows
      <4> QED BY <4>3 DEF n2
    <3> QED BY <3>1, <3>2
  <2> QED BY <1>11, <2>1, <2>2, <2>3, <2>4 DEF PassPath
<1> QED BY <1>2, <1>12, <1>13, <1>15, <1>16, <1>17 DEF OpenInv, PathsInv, PassInv

LEMMA EndPassKeeps ==
  ASSUME OpenInv, Unasked, EndPass
  PROVE  OpenInv'
<1>1. FeedTypes /\ History /\ AllPaths /\ PassInv BY DEF OpenInv, PathsInv, EndPass
<1>2. /\ phase = "pass" /\ phase' = "host" /\ snap = <<>> /\ snap' = <<>> /\ UNCHANGED <<server, provider, mirror, known, taken>>
      /\ pass' = [NoPass EXCEPT !.selected = pass.selected]
      /\ baseline' = [p \in Paths |-> IF p \in Handled THEN Acknowledged(p, pass.seen[p]) ELSE baseline[p]]
      /\ pending' = [p \in Paths |-> IF p \in Handled THEN NoChange ELSE pending[p]]
      /\ marks' = Unproved(Handled, pass.seen)
  BY DEF EndPass
<1> DEFINE reconciled == {p \in Handled : pass.seen[p].reconciled}
           scanned == {p \in Handled : Compared(pass.seen, p)}
           r == (marks.reconcile \ reconciled) \cup (Handled \ reconciled)
           e == IF server.condstore THEN marks.event \ scanned ELSE marks.event
           t == (marks.status \ scanned) \cup (Handled \ scanned)
<1>3. Handled \in SUBSET Paths BY <1>1, PassTypes DEF Handled
<1>4. r \in SUBSET Paths /\ e \in SUBSET Paths /\ t \in SUBSET Paths BY <1>1, <1>3 DEF FeedTypes
<1>5. marks' = [reconcile |-> r, event |-> e, status |-> t] BY <1>2 DEF Unproved
<1>6. ASSUME NEW p \in Paths
      PROVE  /\ (p \notin Handled => (p \in r <=> p \in marks.reconcile) /\ (~server.condstore /\ p \in marks.event => p \in e))
             /\ (p \in Handled => (~pass.seen[p].reconciled => p \in r) /\ (~server.condstore /\ p \in marks.event => p \in e))
  OBVIOUS
<1> HIDE DEF r, e, t
<1>7. ASSUME NEW p \in Paths
      PROVE  baseline'[p] \in Status /\ pending'[p] \in Change \cup {NoChange} /\ Path(p)'
  <2>1. Points(p)' \subseteq {provider[p]} /\ {provider[p]} \subseteq Points(p) BY <1>2, NoSnap DEF Points
  <2>2. (p \in marks'.reconcile) = (p \in r) /\ (p \in marks'.event) = (p \in e) BY <1>5
  <2>5. Covered(p)' = Covered(p) BY <1>2 DEF Covered
  <2>3. CASE p \in Handled
    <3> DEFINE d == pass.seen[p]
    <3>1. baseline'[p] = Acknowledged(p, d) /\ pending'[p] = NoChange BY <1>2, <2>3
    <3>2. /\ p \in DOMAIN pass.seen /\ p \in pass.held /\ d \in Done BY <1>1, <2>3, PassTypes DEF Handled
    <3>3. PassPath(p) BY <1>1, <1>2 DEF PassInv
    <3>4. pending[p] # NoChange /\ DoneTrue(server.condstore, provider[p], Covered(p), d)
          /\ Answered(Covered(p), known[p], pending[p], d)
      BY <3>2, <3>3 DEF PassPath
    <3>5. (~d.reconciled => p \in r) /\ (p \in marks.event /\ ~server.condstore => p \in e) BY <1>6, <2>3
    <3>6. Path(p) BY <1>1 DEF AllPaths
    <3>8. baseline[p] = Nothing => pending[p].scan
      <4> SUFFICES ASSUME baseline[p] = Nothing PROVE pending[p].scan OBVIOUS
      <4>1. p = Inbox BY <1>2 DEF Unasked, Paths
      <4> QED BY <1>2, <3>4, <4>1 DEF Unasked
    <3>9. provider[p] \in Points(p) BY <2>1
    <3>10. PathInv(server.condstore, provider[p], Points(p), Covered(p), known[p], baseline[p], pending[p],
                   p \in marks.reconcile, p \in marks.event)
      BY <3>6 DEF Path
    <3> HIDE DEF d
    <3>7. /\ Acknowledged(p, d) \in Status
          /\ PathInv(server.condstore, provider[p], {provider[p]}, Covered(p), known[p], Acknowledged(p, d), NoChange, p \in r, p \in e)
      <4> DEFINE c == provider[p]
                 X == Points(p)
                 m == Covered(p)
                 rec == p \in marks.reconcile
                 ev == p \in marks.event
                 r2 == p \in r
                 e2 == p \in e
      <4>1. PathInv(server.condstore, c, X, m, known[p], baseline[p], pending[p], rec, ev) /\ c \in X BY <3>9, <3>10
      <4>2. DoneTrue(server.condstore, c, m, d) /\ Answered(m, known[p], pending[p], d) BY <3>4
      <4>3. (~d.reconciled => r2) /\ (ev /\ ~server.condstore => e2) BY <3>5
      <4> HIDE DEF c, X, m, rec, ev, r2, e2
      <4>4. /\ Acknowledged(p, d) \in Status
            /\ PathInv(server.condstore, c, {c}, m, known[p], Acknowledged(p, d), NoChange, r2, e2)
        <5>1. Acknowledges(p, c, X, m, known[p], rec, ev, d, r2, e2) BY <3>2, <3>4, <3>8, <4>1, <4>2, <4>3 DEF Acknowledges
        <5> QED BY <1>1, <5>1, AcknowledgeKeeps
      <4> QED BY <4>4 DEF c, m, r2, e2
    <3> QED BY <1>2, <2>1, <2>2, <2>5, <3>1, <3>7, PathFrom
  <2>4. CASE p \notin Handled
    <3>1. baseline'[p] = baseline[p] /\ pending'[p] = pending[p] BY <1>2, <2>4
    <3>2. PathInv(server.condstore, provider[p], Points(p), Covered(p), known[p], baseline[p], pending[p],
                  p \in marks.reconcile, p \in marks.event)
      BY <1>1 DEF AllPaths, Path
    <3>3. (p \in r) = (p \in marks.reconcile) /\ (~server.condstore /\ p \in marks.event => p \in e) BY <1>6, <2>4
    <3>4. PathInv(server.condstore, provider[p], Points(p), Covered(p), known[p], baseline[p], pending[p], p \in r, p \in e)
      BY <3>2, <3>3, MarksOnly
    <3>5. baseline[p] \in Status /\ pending[p] \in Change \cup {NoChange} BY <1>1, PathType
    <3> QED BY <1>2, <2>1, <2>2, <2>5, <3>1, <3>4, <3>5, PathFrom
  <2> QED BY <2>3, <2>4
<1>8. FeedTypes'
  <2>1. baseline' = [p \in Paths |-> baseline'[p]] /\ pending' = [p \in Paths |-> pending'[p]] BY <1>2
  <2>2. baseline' \in [Paths -> Status] /\ pending' \in [Paths -> Change \cup {NoChange}] BY <1>7, <2>1
  <2>3. marks' \in [reconcile : SUBSET Paths, event : SUBSET Paths, status : SUBSET Paths] BY <1>4, <1>5
  <2> QED BY <1>1, <1>2, <2>2, <2>3, NoPassIs, NoSnap DEF FeedTypes
<1>9. History' BY <1>1, <1>2, BehindSelf, HistoryStays, NoSnap
<1>10. AllPaths' BY <1>7 DEF AllPaths
<1> QED BY <1>2, <1>8, <1>9, <1>10 DEF OpenInv, PathsInv, PassInv, Quiet

-------------------------------------------------------------------------------
(* A mailbox changes.                                                      *)

LEMMA AfterIs ==
  ASSUME NEW c, Real(c), NEW kind \in Kinds(c)
  PROVE  /\ Real(After(c, kind)) /\ Behind(c, After(c, kind)) /\ Modseq(c) < Modseq(After(c, kind)) /\ After(c, kind) \in Mailbox
         /\ kind # "flags" => After(c, kind).flagged = c.flagged
<1>1. /\ c \in Mailbox /\ c.arrived \in Nat /\ c.gone \in Nat /\ c.flagged \in Nat /\ c.gone <= c.arrived /\ c.flagged <= c.arrived
      /\ 1 <= c.arrived
  BY DEF Real, Mailbox, Behind, Counters
<1> DEFINE d == After(c, kind)
<1>2. CASE kind = "exists"
  <2>1. d = [c EXCEPT !.arrived = c.arrived + 1] BY <1>2 DEF After
  <2> QED BY <1>1, <1>2, <2>1 DEF Real, Mailbox, Behind, Counters, Modseq
<1>3. CASE kind = "expunge"
  <2>1. d = [c EXCEPT !.gone = c.gone + 1] /\ c.gone < c.arrived BY <1>3 DEF After, Kinds
  <2> QED BY <1>1, <1>3, <2>1 DEF Real, Mailbox, Behind, Counters, Modseq
<1>4. CASE kind = "flags"
  <2>1. d = [c EXCEPT !.flagged = c.flagged + 1] /\ c.flagged < c.arrived BY <1>4 DEF After, Kinds
  <2> QED BY <1>1, <1>4, <2>1 DEF Real, Mailbox, Behind, Counters, Modseq
<1> QED BY <1>2, <1>3, <1>4 DEF Kinds

(* What a change of p's mailbox leaves of a path.                          *)
Then(p, kind) == After(provider[p], kind)
LEMMA Moved ==
  ASSUME FeedTypes, History, NEW p \in Paths, NEW kind, Changes(p, kind), UNCHANGED <<server, mirror, taken, snap>>
  PROVE  /\ provider' = [provider EXCEPT ![p] = Then(p, kind)] /\ provider' \in [Paths -> Mailbox]
         /\ Real(Then(p, kind)) /\ Modseq(provider[p]) < Modseq(Then(p, kind)) /\ Then(p, kind) \in Mailbox
         /\ \A q \in Paths :
              /\ Real(provider'[q]) /\ Behind(provider[q], provider'[q]) /\ provider'[q] \in Mailbox
              /\ Shows(provider'[q], Points(q) \cup {provider'[q]}, Covered(q))
              /\ provider'[q] = provider[q] \/ (q = p /\ Modseq(provider[q]) < Modseq(provider'[q]))
              /\ Points(q)' \subseteq Points(q) \cup {provider'[q]}
              /\ Covered(q)' = Covered(q)
<1>1. provider' = [provider EXCEPT ![p] = Then(p, kind)] /\ kind \in Kinds(provider[p]) BY DEF Changes, Then
<1>2. Real(provider[p]) BY DEF History
<1>3. /\ Real(Then(p, kind)) /\ Behind(provider[p], Then(p, kind)) /\ Modseq(provider[p]) < Modseq(Then(p, kind))
      /\ Then(p, kind) \in Mailbox
  BY <1>1, <1>2, AfterIs DEF Then
<1>4. provider' \in [Paths -> Mailbox] /\ provider'[p] = Then(p, kind) /\ \A q \in Paths : q # p => provider'[q] = provider[q]
  BY <1>1, <1>3 DEF FeedTypes
<1>5. ASSUME NEW q \in Paths
      PROVE  /\ Real(provider'[q]) /\ Behind(provider[q], provider'[q]) /\ provider'[q] \in Mailbox
             /\ Shows(provider'[q], Points(q) \cup {provider'[q]}, Covered(q))
             /\ provider'[q] = provider[q] \/ (q = p /\ Modseq(provider[q]) < Modseq(provider'[q]))
             /\ Points(q)' \subseteq Points(q) \cup {provider'[q]}
             /\ Covered(q)' = Covered(q)
  <2>1. Shows(provider[q], Points(q), Covered(q)) BY CoveredShows
  <2>2. Behind(provider[q], provider[q]) BY BehindSelf
  <2>3. provider'[q] = provider[q] \/ (q = p /\ Modseq(provider[q]) < Modseq(provider'[q])) BY <1>3, <1>4
  <2>4. Real(provider'[q]) /\ Behind(provider[q], provider'[q]) /\ provider'[q] \in Mailbox
    BY <1>3, <1>4, <2>1, <2>2 DEF Shows, Real
  <2>5. \A y \in Points(q) \cup {provider'[q]} : Real(y) /\ Behind(y, provider'[q])
    <3> SUFFICES ASSUME NEW y \in Points(q) \cup {provider'[q]} PROVE Real(y) /\ Behind(y, provider'[q]) OBVIOUS
    <3>1. CASE y = provider'[q] BY <2>4, <3>1 DEF Behind, Mailbox
    <3>2. CASE y \in Points(q)
      <4>1. Real(y) /\ Behind(y, provider[q]) BY <2>1, <3>2 DEF Shows
      <4>2. y \in Mailbox /\ provider[q] \in Mailbox BY <4>1, PathType DEF Real
      <4> QED BY <2>4, <4>1, <4>2 DEF Behind, Mailbox
    <3> QED BY <3>1, <3>2
  <2>6. Shows(provider'[q], Points(q) \cup {provider'[q]}, Covered(q)) BY <2>1, <2>4, <2>5 DEF Shows
  <2>7. Points(q)' \subseteq Points(q) \cup {provider'[q]} /\ Covered(q)' = Covered(q) BY DEF Points, Snap, Covered
  <2> QED BY <2>3, <2>4, <2>6, <2>7
<1> QED BY <1>1, <1>3, <1>4, <1>5

LEMMA MovedPath ==
  ASSUME FeedTypes, History, AllPaths, NEW p \in Paths, NEW kind, Changes(p, kind), UNCHANGED <<server, mirror, taken, snap>>,
         NEW q \in Paths
  PROVE  /\ PathInv(server.condstore, provider'[q], Points(q) \cup {provider'[q]}, Covered(q), known[q], baseline[q], pending[q],
                    q \in marks.reconcile, q \in marks.event)
         /\ Behind(known[q], provider'[q])
<1>1. Shows(provider[q], Points(q), Covered(q)) BY CoveredShows
<1>2. PathInv(server.condstore, provider[q], Points(q), Covered(q), known[q], baseline[q], pending[q],
              q \in marks.reconcile, q \in marks.event)
  BY DEF AllPaths, Path
<1>3. /\ Real(provider'[q]) /\ Behind(provider[q], provider'[q]) /\ provider'[q] \in Mailbox
      /\ provider'[q] = provider[q] \/ (q = p /\ Modseq(provider[q]) < Modseq(provider'[q]))
  BY Moved
<1>4. /\ provider[q] \in Mailbox /\ Covered(q) \in Mailbox /\ known[q] \in Mailbox
      /\ baseline[q] \in Status /\ pending[q] \in Change \cup {NoChange}
  BY PathType, CoveredIs
<1>5. Modseq(provider[q]) <= Modseq(provider'[q]) /\ Behind(Covered(q), Covered(q)) BY <1>3, <1>4, BehindItself DEF Modseq, Mailbox
<1>6. \A y \in Points(q) \cup {provider'[q]} : y \in Points(q) \/ (Real(y) /\ Modseq(provider[q]) < Modseq(y))
  BY <1>3 DEF Points
<1>7. Behind(known[q], provider'[q])
  <2>1. Behind(known[q], provider[q]) BY DEF History
  <2> QED BY <1>3, <1>4, <2>1 DEF Behind, Mailbox
<1> QED BY <1>1, <1>2, <1>3, <1>4, <1>5, <1>6, <1>7, MovesOn

LEMMA MovedHistory ==
  ASSUME FeedTypes, History, NEW p \in Paths, NEW kind, Changes(p, kind), UNCHANGED <<server, mirror, taken, snap>>,
         \A q \in Paths : Behind(known'[q], provider'[q])
  PROVE  History'
<1> SUFFICES ASSUME NEW q \in Paths
    PROVE  /\ Real(provider'[q]) /\ Behind(Counters, mirror[q]) /\ Behind(mirror[q], provider'[q]) /\ Behind(known'[q], provider'[q])
           /\ q \in DOMAIN snap => Real(snap[q]) /\ Behind(snap[q], provider'[q])
  BY DEF History
<1>1. Real(provider'[q]) /\ Behind(provider[q], provider'[q]) /\ provider'[q] \in Mailbox BY Moved
<1>2. provider[q] \in Mailbox /\ mirror[q] \in Mailbox BY PathType
<1>3. Behind(mirror[q], provider'[q]) BY <1>1, <1>2 DEF History, Behind, Mailbox
<1>4. q \in DOMAIN snap => Real(snap[q]) /\ Behind(snap[q], provider'[q])
  <2> SUFFICES ASSUME q \in DOMAIN snap PROVE Real(snap[q]) /\ Behind(snap[q], provider'[q]) OBVIOUS
  <2>1. Real(snap[q]) /\ Behind(snap[q], provider[q]) /\ snap[q] \in Mailbox BY SnapIs DEF History
  <2> QED BY <1>1, <1>2, <2>1 DEF Behind, Mailbox
<1> QED BY <1>1, <1>3, <1>4 DEF History

LEMMA EventStatusIs ==
  ASSUME FeedTypes, NEW p \in Paths, NEW c, Real(c), NEW kind \in {"exists", "expunge", "flags"},
         NEW s, s = EventStatus(p, kind, c)
  PROVE  /\ s \in Status
         /\ s.flags = Unknown \/ (kind = "flags" /\ s.flags <= Modseq(c))
<1>1. Nothing \in Status /\ Nothing.flags = Unknown BY DEF Nothing, Status, Field
<1>2. /\ c.arrived \in Nat /\ c.gone \in Nat /\ c.flagged \in Nat /\ c.gone <= c.arrived
      /\ c.arrived - c.gone \in Nat /\ Modseq(c) \in Nat
  BY DEF Real, Mailbox, Modseq
<1>3. CASE kind = "exists"
  <2>1. s = [Nothing EXCEPT !.messages = c.arrived - c.gone] BY <1>3 DEF EventStatus
  <2> QED BY <1>1, <1>2, <2>1 DEF Status, Field
<1>4. CASE kind = "expunge"
  <2> DEFINE m == Latest(p).messages
             n == IF m = Unknown THEN m ELSE IF m = 0 THEN 0 ELSE m - 1
  <2>1. m \in Field BY LatestIs DEF Status
  <2>2. n \in Field BY <2>1 DEF Field, Unknown
  <2>3. s = [Nothing EXCEPT !.messages = n] BY <1>4 DEF EventStatus
  <2> HIDE DEF n
  <2> QED BY <1>1, <2>2, <2>3 DEF Status
<1>5. CASE kind = "flags"
  <2> DEFINE f == IF server.condstore THEN Modseq(c) ELSE Unknown
  <2>1. f \in Field /\ (f = Unknown \/ f <= Modseq(c)) BY <1>2 DEF Field
  <2>2. s = [Nothing EXCEPT !.flags = f] BY <1>5 DEF EventStatus
  <2> HIDE DEF f
  <2> QED BY <1>1, <1>5, <2>1, <2>2 DEF Status
<1> QED BY <1>3, <1>4, <1>5

LEMMA HeardKeeps ==
  ASSUME OpenInv, NEW p \in Paths, NEW kind \in {"exists", "expunge", "flags"}, Heard(p, kind)
  PROVE  OpenInv'
<1> DEFINE c == provider'[p]
           r == kind = "expunge"
           sc == kind = "flags"
           s == EventStatus(p, kind, c)
           ch == Signalled(p, r, sc, s)
           l == Learn(known[p], c, kind)
<1>1. FeedTypes /\ History /\ AllPaths /\ PassInv /\ Quiet BY DEF OpenInv, PathsInv, Quiet, Heard
<1>2. /\ phase # "away" /\ UNCHANGED <<server, mirror, phase, snap, overflow>> /\ UNCHANGED <<baseline, taken>> /\ Changes(p, kind)
  BY <1>1 DEF Heard, Quiet, SignalEvent
<1>3. /\ pending' = [pending EXCEPT ![p] = ch] /\ known' = [known EXCEPT ![p] = l]
      /\ pass' = [pass EXCEPT !.held = pass.held \ {p}]
      /\ marks' = IF kind = "flags" /\ ~server.condstore THEN [marks EXCEPT !.event = marks.event \cup {p}] ELSE marks
  BY DEF Heard, SignalEvent
<1>4. Real(c) /\ c \in Mailbox /\ Behind(provider[p], c) BY <1>1, <1>2, Moved
<1>5. /\ marks' \in [reconcile : SUBSET Paths, event : SUBSET Paths, status : SUBSET Paths]
      /\ marks'.reconcile = marks.reconcile /\ marks.event \subseteq marks'.event
  BY <1>1, <1>3 DEF FeedTypes
<1>6. known[p] \in Mailbox /\ Behind(known[p], c) BY <1>1, <1>2, PathType, MovedPath
<1>7. /\ l \in Mailbox /\ (l.flagged = known[p].flagged \/ sc) /\ Behind(l, c)
  <2>1. /\ c.arrived \in Nat /\ c.gone \in Nat /\ c.flagged \in Nat
        /\ known[p].arrived \in Nat /\ known[p].gone \in Nat /\ known[p].flagged \in Nat
        /\ known[p].arrived <= c.arrived /\ known[p].gone <= c.gone /\ known[p].flagged <= c.flagged
    BY <1>4, <1>6 DEF Mailbox, Behind
  <2> DEFINE a == IF kind = "exists" THEN c.arrived ELSE known[p].arrived
             g == IF kind = "expunge" THEN c.gone ELSE known[p].gone
             f == IF kind = "flags" THEN c.flagged ELSE known[p].flagged
  <2>2. /\ a \in Nat /\ g \in Nat /\ f \in Nat /\ a <= c.arrived /\ g <= c.gone /\ f <= c.flagged
        /\ f = known[p].flagged \/ sc
    BY <2>1
  <2>3. l = [known[p] EXCEPT !.arrived = a, !.gone = g, !.flagged = f] BY <1>6 DEF Learn, Mailbox
  <2> HIDE DEF a, g, f, c, sc, l
  <2>4. l = [arrived |-> a, gone |-> g, flagged |-> f] BY <1>6, <2>3 DEF Mailbox
  <2> QED BY <2>2, <2>4 DEF Mailbox, Behind
<1>8. s \in Status /\ (s.flags = Unknown \/ (sc /\ s.flags <= Modseq(c)) \/ ~server.condstore)
  BY <1>1, <1>4, EventStatusIs
<1>9. r \in BOOLEAN /\ sc \in BOOLEAN OBVIOUS
<1>10. PathInv(server.condstore, c, Points(p) \cup {c}, Covered(p), known[p], baseline[p], pending[p],
               p \in marks.reconcile, p \in marks.event)
  BY <1>1, <1>2, MovedPath
<1>11. p \in marks.event => p \in marks'.event BY <1>5
<1> HIDE DEF r, sc, s, c, l
<1>12. /\ ch \in Change
       /\ PathInv(server.condstore, c, Points(p) \cup {c}, Covered(p), l, baseline[p], ch, p \in marks.reconcile, p \in marks'.event)
  <2> DEFINE X == Points(p) \cup {c}
             ev == p \in marks.event
             e == p \in marks'.event
             rec == p \in marks.reconcile
  <2>1. PathInv(server.condstore, c, X, Covered(p), known[p], baseline[p], pending[p], rec, ev) BY <1>10
  <2>2. ev => e BY <1>11
  <2>3. s \in Status /\ (s.flags = Unknown \/ (sc /\ s.flags <= Modseq(c)) \/ ~server.condstore) BY <1>8
  <2>4. l.flagged = known[p].flagged \/ sc BY <1>7
  <2> HIDE DEF X, ev, e, rec
  <2>5. /\ Signalled(p, r, sc, s) \in Change
        /\ PathInv(server.condstore, c, X, Covered(p), l, baseline[p], Signalled(p, r, sc, s), rec, e)
    <3>1. Signals(p, c, X, Covered(p), known[p], rec, ev, r, sc, s, l, e) BY <1>9, <2>1, <2>2, <2>3, <2>4 DEF Signals
    <3> QED BY <1>1, <3>1, SignalKeeps
  <2> QED BY <2>5 DEF X, ev, e, rec
<1> HIDE DEF ch
<1>13. /\ pending' \in [Paths -> Change \cup {NoChange}] /\ known' \in [Paths -> Mailbox]
       /\ pending'[p] = ch /\ known'[p] = l
       /\ \A q \in Paths : q # p => pending'[q] = pending[q] /\ known'[q] = known[q]
  BY <1>1, <1>3, <1>7, <1>12 DEF FeedTypes
<1>14. /\ pass' \in [held : SUBSET Paths, todo : SUBSET Paths, selected : SUBSET Paths,
                     seen : UNION {[T -> Done] : T \in SUBSET Paths}]
       /\ pass'.seen = pass.seen /\ pass'.held = pass.held \ {p} /\ pass'.selected = pass.selected
  BY <1>1, <1>3 DEF FeedTypes
<1>15. FeedTypes' BY <1>1, <1>2, <1>5, <1>13, <1>14, Moved DEF FeedTypes
<1>16. Quiet' BY <1>1, <1>2 DEF Quiet, Notifying
<1>17. ASSUME NEW q \in Paths PROVE Path(q)' /\ Behind(known'[q], provider'[q])
  <2>1. Points(q)' \subseteq Points(q) \cup {provider'[q]} /\ Covered(q)' = Covered(q) BY <1>1, <1>2, Moved
  <2>2. CASE q = p BY <1>2, <1>5, <1>7, <1>12, <1>13, <2>1, <2>2, PathFrom DEF c
  <2>3. CASE q # p
    <3>1. /\ PathInv(server.condstore, provider'[q], Points(q) \cup {provider'[q]}, Covered(q), known[q], baseline[q], pending[q],
                     q \in marks.reconcile, q \in marks.event)
          /\ Behind(known[q], provider'[q])
      BY <1>1, <1>2, MovedPath
    <3>2. ~server.condstore /\ q \in marks.event => q \in marks'.event BY <1>5
    <3>3. PathInv(server.condstore, provider'[q], Points(q) \cup {provider'[q]}, Covered(q), known[q], baseline[q], pending[q],
                  q \in marks.reconcile, q \in marks'.event)
      BY <3>1, <3>2, MarksOnly
    <3> QED BY <1>2, <1>5, <1>13, <2>1, <2>3, <3>1, <3>3, PathFrom
  <2> QED BY <2>2, <2>3
<1>18. History' BY <1>1, <1>2, <1>17, MovedHistory
<1>19. AllPaths' BY <1>17 DEF AllPaths
<1>20. PassInv'
  <2> SUFFICES ASSUME phase = "pass" PROVE \A q \in Paths : PassPath(q)' BY <1>2 DEF PassInv
  <2>1. \A q \in Paths : provider'[q] = provider[q] \/ (provider'[q] \in Mailbox /\ Modseq(provider[q]) < Modseq(provider'[q]))
    BY <1>1, <1>2, Moved
  <2>2. pass'.held \subseteq pass.held /\ pass.held \subseteq Paths BY <1>1, <1>14, PassTypes
  <2>3. \A q \in pass'.held : known'[q] = known[q] /\ pending'[q] = pending[q] BY <1>13, <1>14, <2>2
  <2> QED BY <1>1, <1>2, <1>14, <2>1, <2>2, <2>3, PassStays
<1> QED BY <1>2, <1>15, <1>16, <1>18, <1>19, <1>20 DEF OpenInv, PathsInv

(* Every unsolicited STATUS comes with CONDSTORE, so it is told.           *)
LEMMA NotifiedKeeps ==
  ASSUME OpenInv, Unasked, NEW p \in Paths, NEW kind, Notified(p, kind)
  PROVE  OpenInv'
<1> DEFINE c == provider'[p]
           i == phase = "opening"
           o == Observed(p, StatusOf(c), i)
           l == LearnAll(known[p], c)
<1>1. FeedTypes /\ History /\ AllPaths /\ PassInv /\ Quiet /\ server.condstore
  BY DEF OpenInv, PathsInv, Notified, Notifying, FeedTypes
<1>2. /\ phase # "away" /\ UNCHANGED <<server, mirror, taken, marks, phase, snap, overflow>> /\ Changes(p, kind)
      /\ baseline[p] # Nothing /\ baseline' = [baseline EXCEPT ![p] = o.base] /\ pending' = [pending EXCEPT ![p] = o.change]
      /\ known' = [known EXCEPT ![p] = l]
      /\ o.told => pass' = [pass EXCEPT !.held = pass.held \ {p}]
  BY DEF Notified, Unasked
<1>3. /\ Real(c) /\ c \in Mailbox /\ Modseq(provider[p]) < Modseq(c) /\ Shows(c, Points(p) \cup {c}, Covered(p))
  <2>1. /\ provider' = [provider EXCEPT ![p] = Then(p, kind)] /\ Modseq(provider[p]) < Modseq(Then(p, kind))
        /\ Real(c) /\ c \in Mailbox /\ Shows(c, Points(p) \cup {c}, Covered(p))
    BY <1>1, <1>2, Moved
  <2>2. c = Then(p, kind) BY <1>1, <2>1 DEF FeedTypes
  <2> QED BY <2>1, <2>2
<1>4. known[p] \in Mailbox /\ Behind(known[p], c) BY <1>1, <1>2, PathType, MovedPath
<1>5. l \in Mailbox /\ Behind(l, c)
  <2>1. /\ l \in Mailbox /\ (l.arrived = known[p].arrived \/ l.arrived = c.arrived) /\ (l.gone = known[p].gone \/ l.gone = c.gone)
        /\ l.flagged = known[p].flagged \/ l.flagged = c.flagged
    BY <1>1, <1>3, <1>4, LearnIs
  <2> HIDE DEF l, c
  <2> QED BY <1>3, <1>4, <2>1 DEF Behind, Mailbox
<1>6. o.told
  <2>1. /\ BaseSound(TRUE, provider[p], Points(p), Covered(p), baseline[p], pending[p])
        /\ ChangeSound(TRUE, provider[p], baseline[p], pending[p])
    BY <1>1, <1>2 DEF AllPaths, Path, PathInv, Sound, BaseSound, ChangeSound
  <2>2. baseline[p].flags # Unknown /\ baseline[p].flags <= Modseq(provider[p]) BY <2>1 DEF BaseSound
  <2>3. Real(provider[p]) BY <1>1 DEF History
  <2>4. i \in BOOLEAN OBVIOUS
  <2> HIDE DEF i, c
  <2> QED BY <1>1, <1>3, <2>1, <2>2, <2>3, <2>4, NewIsTold
<1>7. i \in BOOLEAN /\ c \in Points(p) \cup {c} OBVIOUS
<1>8. PathInv(server.condstore, c, Points(p) \cup {c}, Covered(p), known[p], baseline[p], pending[p],
              p \in marks.reconcile, p \in marks.event)
  BY <1>1, <1>2, MovedPath
<1> HIDE DEF i, c
<1>9. o = Observed(p, StatusOf(c), i) /\ StatusOf(c) \in Answers(c) BY DEF Answers
<1> HIDE DEF o
<1>10. /\ o.base \in Status /\ o.change \in Change \cup {NoChange}
       /\ PathInv(server.condstore, c, Points(p) \cup {c}, Covered(p), LearnAll(known[p], c), o.base, o.change,
                  p \in marks.reconcile, p \in marks.event)
  <2> DEFINE X == Points(p) \cup {c}
  <2>1. c \in X /\ Shows(c, X, Covered(p)) BY <1>3, <1>7
  <2>2. PathInv(server.condstore, c, X, Covered(p), known[p], baseline[p], pending[p], p \in marks.reconcile, p \in marks.event)
    BY <1>8
  <2> HIDE DEF X
  <2>3. /\ o.base \in Status /\ o.change \in Change \cup {NoChange}
        /\ PathInv(server.condstore, c, X, Covered(p), LearnAll(known[p], c), o.base, o.change,
                   p \in marks.reconcile, p \in marks.event)
    <3>1. /\ FeedTypes /\ known[p] \in Mailbox /\ baseline[p] # Nothing /\ i \in BOOLEAN
          /\ StatusOf(c) \in Answers(c) /\ o = Observed(p, StatusOf(c), i)
      BY <1>1, <1>2, <1>4, <1>7, <1>9
    <3> QED BY <2>1, <2>2, <3>1, ObserveKeeps
  <2> QED BY <2>3 DEF X
<1>11. PathInv(server.condstore, c, Points(p) \cup {c}, Covered(p), l, o.base, o.change, p \in marks.reconcile, p \in marks.event)
  BY <1>10
<1> HIDE DEF l
<1>13. /\ pending' \in [Paths -> Change \cup {NoChange}] /\ known' \in [Paths -> Mailbox] /\ baseline' \in [Paths -> Status]
       /\ pending'[p] = o.change /\ known'[p] = l /\ baseline'[p] = o.base
       /\ \A q \in Paths : q # p => pending'[q] = pending[q] /\ known'[q] = known[q] /\ baseline'[q] = baseline[q]
  BY <1>1, <1>2, <1>5, <1>10 DEF FeedTypes
<1>14. /\ pass' \in [held : SUBSET Paths, todo : SUBSET Paths, selected : SUBSET Paths,
                     seen : UNION {[T -> Done] : T \in SUBSET Paths}]
       /\ pass'.seen = pass.seen /\ pass'.held = pass.held \ {p} /\ pass'.selected = pass.selected
  BY <1>1, <1>2, <1>6 DEF FeedTypes
<1>15. FeedTypes' BY <1>1, <1>2, <1>13, <1>14, Moved DEF FeedTypes
<1>16. Quiet' BY <1>1, <1>2 DEF Quiet, Notifying
<1>17. ASSUME NEW q \in Paths PROVE Path(q)' /\ Behind(known'[q], provider'[q])
  <2>1. Points(q)' \subseteq Points(q) \cup {provider'[q]} /\ Covered(q)' = Covered(q) BY <1>1, <1>2, Moved
  <2>2. CASE q = p BY <1>2, <1>5, <1>11, <1>13, <2>1, <2>2, PathFrom DEF c
  <2>3. CASE q # p
    <3>1. known'[q] = known[q] /\ baseline'[q] = baseline[q] /\ pending'[q] = pending[q] /\ marks' = marks
      BY <1>2, <1>13, <2>3
    <3>2. /\ PathInv(server.condstore, provider'[q], Points(q) \cup {provider'[q]}, Covered(q), known[q], baseline[q], pending[q],
                     q \in marks.reconcile, q \in marks.event)
          /\ Behind(known[q], provider'[q])
      BY <1>1, <1>2, MovedPath
    <3>3. server'.condstore = server.condstore BY <1>2
    <3> QED BY <2>1, <3>1, <3>2, <3>3, PathFrom
  <2> QED BY <2>2, <2>3
<1>18. History' BY <1>1, <1>2, <1>17, MovedHistory
<1>19. AllPaths' BY <1>17 DEF AllPaths
<1>20. PassInv'
  <2> SUFFICES ASSUME phase = "pass" PROVE \A q \in Paths : PassPath(q)' BY <1>2 DEF PassInv
  <2>1. \A q \in Paths : provider'[q] = provider[q] \/ (provider'[q] \in Mailbox /\ Modseq(provider[q]) < Modseq(provider'[q]))
    BY <1>1, <1>2, Moved
  <2>2. pass'.held \subseteq pass.held /\ pass.held \subseteq Paths BY <1>1, <1>14, PassTypes
  <2>3. \A q \in pass'.held : known'[q] = known[q] /\ pending'[q] = pending[q] BY <1>13, <1>14, <2>2
  <2> QED BY <1>1, <1>2, <1>14, <2>1, <2>2, <2>3, PassStays
<1> QED BY <1>2, <1>15, <1>16, <1>18, <1>19, <1>20 DEF OpenInv, PathsInv

LEMMA UnheardKeeps ==
  ASSUME OpenInv, NEW p \in Paths, NEW kind, Unheard(p, kind)
  PROVE  OpenInv'
<1>1. FeedTypes /\ History /\ Quiet /\ PassInv BY DEF OpenInv
<1>2. UNCHANGED <<server, mirror, known, taken, baseline, pending, marks, phase, snap, overflow, pass>> /\ Changes(p, kind)
  BY DEF Unheard, feedVars, sessionVars
<1>3. FeedTypes' BY <1>1, <1>2, Moved DEF FeedTypes
<1>4. Quiet' BY <1>1, <1>2 DEF Quiet, Notifying
<1>5. \A q \in Paths : Behind(known'[q], provider'[q])
  <2> SUFFICES ASSUME NEW q \in Paths PROVE Behind(known[q], provider'[q]) BY <1>2
  <2>1. Behind(known[q], provider[q]) /\ Behind(provider[q], provider'[q]) /\ provider'[q] \in Mailbox BY <1>1, <1>2, Moved DEF History
  <2>2. known[q] \in Mailbox /\ provider[q] \in Mailbox BY <1>1, PathType
  <2> QED BY <2>1, <2>2 DEF Behind, Mailbox
<1>6. History' BY <1>1, <1>2, <1>5, MovedHistory
<1>7. PathsInv'
  <2> SUFFICES ASSUME phase # "away", NEW q \in Paths PROVE Path(q)' BY <1>2 DEF PathsInv, AllPaths
  <2>1. AllPaths BY DEF OpenInv, PathsInv
  <2>2. Points(q)' \subseteq Points(q) \cup {provider'[q]} /\ Covered(q)' = Covered(q) BY <1>1, <1>2, Moved
  <2> QED BY <1>1, <1>2, <2>1, <2>2, MovedPath, PathFrom
<1>8. PassInv'
  <2> SUFFICES ASSUME phase = "pass" PROVE \A q \in Paths : PassPath(q)' BY <1>2 DEF PassInv
  <2>1. \A q \in Paths : provider'[q] = provider[q] \/ (provider'[q] \in Mailbox /\ Modseq(provider[q]) < Modseq(provider'[q]))
    BY <1>1, <1>2, Moved
  <2>2. pass'.seen = pass.seen /\ pass'.held = pass.held BY <1>2
  <2>3. \A q \in pass'.held : known'[q] = known[q] /\ pending'[q] = pending[q] BY <1>2
  <2> QED BY <1>1, <1>2, <2>1, <2>2, <2>3, PassStays
<1> QED BY <1>3, <1>4, <1>6, <1>7, <1>8 DEF OpenInv

-------------------------------------------------------------------------------
(* The session as a whole.                                                 *)

(* The persisted cursor knows no membership, and of its flags only what    *)
(* the mirror has from the pass that stored it.                            *)
LEMMA OpenKeeps ==
  ASSUME OpenInv, Open
  PROVE  OpenInv'
<1> DEFINE b == [SelectOf(Counters) EXCEPT !.messages = Unknown, !.cursor = TRUE]
<1>1. FeedTypes /\ History /\ phase = "away" /\ known = mirror /\ pending = [p \in Paths |-> NoChange]
  BY DEF OpenInv, Quiet, Open
<1>2. /\ phase' = "opening" /\ UNCHANGED <<server, provider, mirror, known, taken, pending, marks, pass>>
      /\ snap' = [p \in Folders |-> provider[p]] /\ baseline' = [p \in Paths |-> IF p = Inbox THEN Nothing ELSE b]
  BY DEF Open
<1>3. Real(Counters) /\ Modseq(Counters) = 1 BY DEF Real, Mailbox, Behind, Counters, Modseq
<1>4. b \in Status /\ b.next = 1 /\ b.cursor /\ (server.condstore => b.flags = 1)
  <2>1. SelectOf(Counters) \in Status /\ SelectOf(Counters).next = 1 /\ (server.condstore => SelectOf(Counters).flags = 1)
    <3>1. SelectOf(Counters) \in Answers(Counters) BY DEF Answers
    <3>2. Tells(SelectOf(Counters), Counters) BY <1>1, <1>3, <3>1, StatusIs
    <3> QED BY <1>3, <3>2 DEF Tells, Counters
  <2> QED BY <2>1 DEF Status, Field
<1> HIDE DEF b
<1>5. Folders \in SUBSET Paths BY DEF Paths
<1>6. /\ \A p \in Paths : Snap(p)' \subseteq Points(p)
      /\ snap' \in UNION {[T -> Mailbox] : T \in SUBSET Paths}
  BY <1>1, <1>2, <1>5, ReadSnap
<1>7. baseline' \in [Paths -> Status] /\ \A p \in Paths : baseline'[p] = b \/ baseline'[p] = Nothing
  <2>1. Nothing \in Status BY DEF Nothing, Status, Field
  <2> QED BY <1>2, <1>4, <2>1
<1>8. FeedTypes' BY <1>1, <1>2, <1>6, <1>7 DEF FeedTypes
<1>9. Quiet' BY <1>2 DEF Quiet
<1>10. History' BY <1>1, <1>2, <1>6, BehindSelf, HistoryStays
<1>11. AllPaths'
  <2> SUFFICES ASSUME NEW p \in Paths PROVE Path(p)' BY DEF AllPaths
  <2> DEFINE m == Covered(p)
  <2>1. /\ m \in Mailbox /\ m.arrived \in Nat /\ m.gone \in Nat /\ m.flagged \in Nat
        /\ 1 <= m.arrived /\ 0 <= m.flagged /\ Behind(mirror[p], m)
    BY <1>1, CoveredIs, CoveredShows DEF Shows, Behind, Counters, Mailbox
  <2> HIDE DEF m
  <2>2. \A x \in Points(p) : Real(x) BY <1>1, CoveredShows DEF Shows
  <2>3. Real(provider[p]) /\ 1 <= Modseq(provider[p])
    <3>1. Real(provider[p]) BY <1>1 DEF History
    <3> QED BY <3>1 DEF Real, Mailbox, Behind, Counters, Modseq
  <2>4. BaseSound(server.condstore, provider[p], Points(p), m, b, NoChange)
    <3>1. b.next # Unknown /\ b.next <= m.arrived BY <1>4, <2>1 DEF Unknown
    <3>2. ASSUME server.condstore, NEW x \in Points(p), Modseq(x) = b.flags PROVE x.flagged <= m.flagged
      <4>1. Modseq(x) = Modseq(Counters) BY <1>3, <1>4, <3>2
      <4>2. x.flagged = 0 BY <2>2, <4>1, CountersOnly
      <4> QED BY <2>1, <4>2
    <3> QED BY <1>4, <2>3, <3>1, <3>2 DEF BaseSound, Unknown
  <2>5. pending[p] = NoChange BY <1>1
  <2>6. Settled(m, b, NoChange, p \in marks.reconcile) /\ ChangeSound(server.condstore, provider[p], b, NoChange)
    BY <1>4 DEF Settled, ChangeSound
  <2>7. Kept(server.condstore, m, known[p], NoChange, p \in marks.reconcile, p \in marks.event)
    BY <1>1, <2>1 DEF Kept, Behind
  <2> DEFINE a == baseline'[p]
  <2>8. a = b \/ a = Nothing BY <1>7
  <2> HIDE DEF a
  <2>9. PathInv(server.condstore, provider[p], Points(p), m, known[p], a, NoChange, p \in marks.reconcile, p \in marks.event)
    BY <2>4, <2>6, <2>7, <2>8 DEF PathInv, Sound
  <2>10. Points(p)' \subseteq Points(p) /\ Covered(p)' = m BY <1>2, <1>6 DEF Points, Covered, m
  <2> QED BY <1>2, <2>5, <2>9, <2>10, PathFrom DEF a
<1> QED BY <1>2, <1>8, <1>9, <1>10, <1>11 DEF OpenInv, PathsInv, PassInv

LEMMA DeliverKeeps ==
  ASSUME OpenInv, Deliver
  PROVE  OpenInv'
<1>1. Still /\ snap' = snap /\ pass' = pass /\ overflow' = overflow BY DEF Deliver, Still
<1>2. (phase = "idle" /\ phase' = "host") \/ phase' = phase BY DEF Deliver
<1>3. FeedTypes /\ History /\ Quiet BY DEF OpenInv
<1>4. CASE phase = "idle" /\ phase' = "host"
  <2>1. FeedTypes' BY <1>1, <1>3, <1>4 DEF FeedTypes, Still, feedVars
  <2>2. Quiet' BY <1>1, <1>3, <1>4 DEF Quiet
  <2>3. \A p \in Paths : Snap(p)' \subseteq Points(p) BY <1>1 DEF Snap, Points
  <2> QED BY <1>1, <1>4, <2>1, <2>2, <2>3, StillKeeps
<1>5. CASE phase' = phase
  BY <1>1, <1>5 DEF OpenInv, FeedTypes, History, Quiet, PathsInv, AllPaths, Path, Points, Snap, Covered, PassInv, PassPath,
     Reading, Notifying, Still, feedVars
<1> QED BY <1>2, <1>4, <1>5

-------------------------------------------------------------------------------
(* INBOX's first status.                                                   *)

(* What was observed once has a baseline.                                  *)
LEMMA NeverNothing ==
  ASSUME FeedTypes, NEW p \in Paths, NEW x, Real(x), NEW st \in Answers(x), NEW i \in BOOLEAN
  PROVE  Observed(p, st, i).base # Nothing
<1>1. Nothing.next = Unknown /\ Unknown \notin Nat BY DEF Nothing, Unknown
<1>2. Tells(st, x) /\ x.arrived \in Nat BY StatusIs, RealIs
<1>3. CASE baseline[p] = Nothing
  <2>1. Observed(p, st, i).base = st BY <1>3 DEF Observed, First
  <2> QED BY <1>1, <1>2, <2>1 DEF Tells
<1>4. CASE baseline[p] # Nothing
  <2> DEFINE s == [Over(Latest(p), st) EXCEPT !.cursor = FALSE]
             b == baseline[p]
             old == pending[p]
  <2>1. s.next # Unknown BY <1>1, <1>2, SeenIs DEF Tells
  <2>2. Observed(p, st, i) =
          IF Matched(b, old, s) THEN [base |-> b, told |-> FALSE, change |-> IF i THEN [old EXCEPT !.observed = s] ELSE old]
          ELSE IF Opening(b, old, s) THEN [base |-> b, told |-> TRUE, change |-> Forced(b, s)]
          ELSE IF Accepted(b, old, s) THEN [base |-> s, told |-> FALSE, change |-> NoChange]
          ELSE [base |-> b, told |-> TRUE, change |-> Also(Detected(b, s), old)]
    BY <1>4, ObservedIs
  <2> HIDE DEF s
  <2>3. Observed(p, st, i).base \in {b, s} BY <2>2
  <2> QED BY <1>1, <1>4, <2>1, <2>3
<1> QED BY <1>3, <1>4

(* How a step leaves the paths that lack a baseline.                       *)
KeepsAsking ==
  /\ \A p \in Folders : baseline'[p] # Nothing
  /\ baseline'[Inbox] = Nothing =>
       /\ baseline[Inbox] = Nothing /\ (phase' # "selecting" => phase # "selecting")
       /\ Inbox \in marks'.reconcile => Inbox \in marks.reconcile
       /\ \/ pending'[Inbox] = pending[Inbox]
          \/ pending'[Inbox] # NoChange /\ (pending'[Inbox].scan \/ phase' = "selecting")
       /\ Inbox \in pass'.selected => Inbox \in pass.selected \cup pass.todo \/ phase' = "selecting"
       /\ Inbox \in pass'.todo => Inbox \in pass.todo \/ pending'[Inbox] # NoChange
LEMMA UnaskedStays ==
  ASSUME Unasked, phase # "away", phase' # "away", KeepsAsking
  PROVE  Unasked'
  BY DEF Unasked, KeepsAsking

LEMMA QuietStays ==
  ASSUME Unasked, phase # "away", phase' # "away", UNCHANGED <<baseline, marks, pending>>,
         phase' = "selecting" \/ (phase # "selecting" /\ pass'.selected = pass.selected),
         pass'.todo \subseteq pass.todo
  PROVE  Unasked'
<1>1. KeepsAsking BY DEF KeepsAsking, Unasked
<1> QED BY <1>1, UnaskedStays

(* Statuses of S are observed, nothing else happens.                       *)
LEMMA SnapsStay ==
  ASSUME FeedTypes, History, Unasked, phase # "away", phase' = "host", phase # "selecting",
         UNCHANGED <<marks, pass>>, NEW i \in BOOLEAN, ObserveAll(DOMAIN snap, i)
  PROVE  Unasked'
<1>1. ASSUME NEW p \in Paths PROVE baseline'[p] # Nothing \/ (p \notin DOMAIN snap /\ baseline'[p] = baseline[p] /\ pending'[p] = pending[p])
  <2>1. CASE p \notin DOMAIN snap BY <2>1 DEF ObserveAll
  <2>2. CASE p \in DOMAIN snap
    <3>1. baseline'[p] = Observed(p, StatusOf(snap[p]), i).base BY <2>2 DEF ObserveAll
    <3>2. Real(snap[p]) /\ StatusOf(snap[p]) \in Answers(snap[p]) BY <2>2 DEF History, Answers
    <3> QED BY <3>1, <3>2, NeverNothing
  <2> QED BY <2>1, <2>2
<1>2. Inbox \in Paths /\ Folders \subseteq Paths BY DEF Paths
<1>3. KeepsAsking BY <1>1, <1>2 DEF KeepsAsking, Unasked
<1> QED BY <1>3, UnaskedStays

LEMMA FailsAreAsked ==
  ASSUME FeedTypes
  PROVE  \A p \in Paths : Signalled(p, TRUE, TRUE, Nothing) # NoChange /\ Signalled(p, TRUE, TRUE, Nothing).scan = TRUE
<1> TAKE p \in Paths
<1> DEFINE r == TRUE
           s == Nothing
<1>1. s \in Status /\ r \in BOOLEAN BY DEF Nothing, Status, Field
<1> HIDE DEF r, s
<1>2. Signalled(p, r, r, s) # NoChange /\ Signalled(p, r, r, s).scan = (r \/ pending[p].scan) BY <1>1, SignalledIs
<1> QED BY <1>2 DEF r, s

LEMMA VerifiedAsks ==
  ASSUME FeedTypes, History, Unasked, Verified
  PROVE  Unasked'
<1> DEFINE all == [p \in Paths |-> IF p \in DOMAIN snap THEN Observed(p, StatusOf(snap[p]), FALSE)
                                   ELSE [base |-> baseline[p], change |-> pending[p]]]
           left == Probed
           then == [p \in Paths |-> all[p].change]
<1>1. phase = "verifying" /\ phase' = "host" /\ pass' = pass /\ baseline' = [p \in Paths |-> all[p].base]
  BY VerifiedIs DEF Verified, Answer, Looked
<1>2. \/ pending' = then /\ marks' = left /\ Takeable(left) = {}
      \/ \E p \in Takeable(left) : Turned(p, then, all, left)
  BY VerifiedIs DEF Looked
<1>3. left \in [reconcile : SUBSET Paths, event : SUBSET Paths, status : SUBSET Paths] /\ left.reconcile = marks.reconcile
  BY ProbedIs
<1> HIDE DEF left
<1>4. ASSUME NEW p \in Paths
      PROVE  baseline'[p] # Nothing \/ (p \notin DOMAIN snap /\ baseline'[p] = baseline[p] /\ then[p] = pending[p] /\ all[p].base = baseline[p])
  <2>1. CASE p \notin DOMAIN snap
    <3>1. all[p] = [base |-> baseline[p], change |-> pending[p]] BY <2>1
    <3> QED BY <1>1, <2>1, <3>1
  <2>2. CASE p \in DOMAIN snap
    <3>1. baseline'[p] = Observed(p, StatusOf(snap[p]), FALSE).base BY <1>1, <2>2
    <3>2. Real(snap[p]) /\ StatusOf(snap[p]) \in Answers(snap[p]) BY <2>2 DEF History, Answers
    <3> QED BY <3>1, <3>2, NeverNothing
  <2> QED BY <2>1, <2>2
<1>5. Inbox \in Paths /\ Folders \subseteq Paths /\ then \in [Paths -> {then[p] : p \in Paths}] BY DEF Paths
<1> HIDE DEF all, then
<1>6. ASSUME baseline'[Inbox] = Nothing
      PROVE  /\ baseline[Inbox] = Nothing /\ Inbox \notin marks'.reconcile
             /\ pending'[Inbox] = pending[Inbox] \/ (pending'[Inbox] # NoChange /\ pending'[Inbox].scan)
  <2>1. baseline[Inbox] = Nothing /\ then[Inbox] = pending[Inbox] /\ all[Inbox].base = baseline[Inbox] BY <1>4, <1>5, <1>6
  <2>2. Inbox \notin left.reconcile BY <1>1, <1>3, <2>1 DEF Unasked
  <2>3. CASE Takeable(left) = {} BY <1>2, <2>1, <2>2, <2>3
  <2>4. CASE Takeable(left) # {}
    <3>1. PICK p \in Takeable(left) : Turned(p, then, all, left) BY <1>2, <2>4
    <3> DEFINE latest == IF then[p] = NoChange THEN all[p].base ELSE then[p].observed
               rc == p \in left.reconcile
               sc == p \in left.event \cup left.status
               change == [reconcile |-> rc, observed |-> latest, scan |-> sc]
    <3>5. pending' = [then EXCEPT ![p] = Also(change, then[p])] /\ marks'.reconcile = left.reconcile \ {p} BY <3>1 DEF Turned
    <3>2. Inbox \notin marks'.reconcile BY <2>2, <3>5
    <3>3. CASE p # Inbox BY <1>5, <2>1, <3>2, <3>3, <3>5
    <3>4. CASE p = Inbox
      <4>1. pending'[p] = Also(change, then[p]) BY <1>5, <3>4, <3>5
      <4>2. sc = TRUE /\ rc \in BOOLEAN BY <2>2, <3>4 DEF Takeable
      <4>3. then[p] \in Change \cup {NoChange} /\ all[p].base \in Status BY <1>5, <2>1, <3>4, PathType
      <4>4. latest \in Status BY <4>3 DEF Change
      <4> HIDE DEF latest, sc, rc
      <4>5. change \in Change /\ change.scan BY <4>2, <4>4 DEF Change
      <4> HIDE DEF change
      <4>6. Also(change, then[p]) # NoChange /\ Also(change, then[p]).scan BY <4>3, <4>5, AlsoIs
      <4> QED BY <2>1, <3>2, <3>4, <4>1, <4>6
    <3> QED BY <3>3, <3>4
  <2> QED BY <2>3, <2>4
<1>7. \A p \in Folders : baseline'[p] # Nothing BY <1>1, <1>4, <1>5 DEF Unasked
<1>8. KeepsAsking BY <1>1, <1>6, <1>7 DEF KeepsAsking
<1> QED BY <1>1, <1>8, UnaskedStays

(* The mailbox can tell of single events only while it is selected.        *)
LEMMA HeardAsks ==
  ASSUME OpenInv, Unasked, NEW p \in Paths, NEW kind \in {"exists", "expunge", "flags"}, Heard(p, kind)
  PROVE  Unasked'
<1> DEFINE r == kind = "expunge"
           sc == kind = "flags"
           s == EventStatus(p, kind, provider'[p])
           ch == Signalled(p, r, sc, s)
<1>1. FeedTypes /\ History /\ Quiet /\ p \in pass.selected BY DEF OpenInv, Heard
<1>2. /\ phase # "away" /\ UNCHANGED <<server, mirror, taken, snap, phase, baseline>> /\ Changes(p, kind)
      /\ pending' = [pending EXCEPT ![p] = ch] /\ pass' = [pass EXCEPT !.held = pass.held \ {p}]
      /\ marks' = IF kind = "flags" /\ ~server.condstore THEN [marks EXCEPT !.event = marks.event \cup {p}] ELSE marks
  BY <1>1 DEF Heard, Quiet, SignalEvent
<1>3. s \in Status
  <2>1. Real(provider'[p]) BY <1>1, <1>2, Moved
  <2> QED BY <1>1, <2>1, EventStatusIs
<1>4. r \in BOOLEAN /\ sc \in BOOLEAN OBVIOUS
<1> HIDE DEF r, sc, s
<1>5. ch # NoChange /\ ch.scan = (sc \/ pending[p].scan) BY <1>1, <1>3, <1>4, SignalledIs
<1> HIDE DEF ch
<1>6. marks'.reconcile = marks.reconcile /\ pass'.selected = pass.selected /\ pass'.todo = pass.todo
  BY <1>1, <1>2 DEF FeedTypes
<1>7. pending'[Inbox] = IF p = Inbox THEN ch ELSE pending[Inbox] BY <1>1, <1>2 DEF FeedTypes, Paths
<1>8. p = Inbox /\ baseline[Inbox] = Nothing /\ phase # "selecting" => pending[Inbox].scan BY <1>1 DEF Unasked
<1>9. KeepsAsking BY <1>2, <1>5, <1>6, <1>7, <1>8 DEF KeepsAsking, Unasked
<1> QED BY <1>2, <1>9, UnaskedStays

LEMMA EndPassAsks ==
  ASSUME OpenInv, Unasked, EndPass
  PROVE  Unasked'
<1>1. FeedTypes /\ PassInv BY DEF OpenInv
<1>2. /\ phase = "pass" /\ phase' = "host" /\ pass' = [NoPass EXCEPT !.selected = pass.selected]
      /\ baseline' = [p \in Paths |-> IF p \in Handled THEN Acknowledged(p, pass.seen[p]) ELSE baseline[p]]
      /\ pending' = [p \in Paths |-> IF p \in Handled THEN NoChange ELSE pending[p]]
      /\ marks' = Unproved(Handled, pass.seen)
  BY DEF EndPass
<1>3. ASSUME NEW p \in Paths, p \in Handled PROVE baseline'[p] # Nothing
  <2>1. p \in DOMAIN pass.seen /\ PassPath(p) BY <1>1, <1>2, <1>3 DEF Handled, PassInv
  <2>2. pass.seen[p].status.next # Unknown BY <2>1 DEF PassPath, DoneTrue
  <2>3. baseline'[p].next = pass.seen[p].status.next BY <1>2, <1>3 DEF Acknowledged
  <2> QED BY <2>2, <2>3 DEF Nothing
<1>4. Inbox \in Paths /\ Folders \subseteq Paths BY DEF Paths
<1>5. pass'.selected = pass.selected /\ pass'.todo = {} BY <1>2 DEF NoPass
<1>6. marks'.reconcile \subseteq marks.reconcile \cup Handled BY <1>2 DEF Unproved
<1>7. KeepsAsking BY <1>2, <1>3, <1>4, <1>5, <1>6 DEF KeepsAsking, Unasked
<1> QED BY <1>2, <1>7, UnaskedStays

LEMMA ObserversAsk ==
  ASSUME OpenInv, Unasked, phase' # "closed",
         Initialized \/ ProbedList \/ SelectedInbox \/ ProbedStatus \/ (\E p \in Paths, kind \in {"exists", "expunge", "flags"} : Notified(p, kind))
  PROVE  Unasked'
<1>1. FeedTypes /\ History /\ Quiet /\ Inbox \in Paths /\ Folders \subseteq Paths BY DEF OpenInv, Paths
<1>2. CASE Initialized
  <2>1. ObserveAll(DOMAIN snap, TRUE) BY <1>2 DEF Initialized
  <2> QED BY <1>1, <1>2, <2>1, SnapsStay DEF Initialized
<1>3. CASE ProbedList
  <2>1. ObserveAll(DOMAIN snap, FALSE) BY <1>3 DEF ProbedList
  <2> QED BY <1>1, <1>3, <2>1, SnapsStay DEF ProbedList, Answer
<1>4. CASE SelectedInbox
  <2>1. Inbox \in DOMAIN snap /\ phase = "selecting" BY <1>1, <1>4 DEF Quiet, SelectedInbox
  <2>2. Real(snap[Inbox]) /\ SelectOf(snap[Inbox]) \in Answers(snap[Inbox]) BY <1>1, <2>1 DEF History, Answers
  <2>3. baseline' = [baseline EXCEPT ![Inbox] = Observed(Inbox, SelectOf(snap[Inbox]), FALSE).base] BY <1>4 DEF SelectedInbox
  <2>4. Observed(Inbox, SelectOf(snap[Inbox]), FALSE).base # Nothing BY <1>1, <2>2, NeverNothing
  <2>5. baseline'[Inbox] # Nothing BY <1>1, <2>3, <2>4 DEF FeedTypes
  <2>6. \A p \in Folders : baseline'[p] # Nothing BY <1>1, <2>1, <2>3, <2>5 DEF FeedTypes, Unasked
  <2>7. phase' # "away"
    <3>1. Deferred(DirtyThen) \in {"wake", "close", "none"} BY DEF Deferred
    <3> QED BY <1>4, <3>1 DEF SelectedInbox, Close
  <2> QED BY <2>5, <2>6, <2>7 DEF Unasked
<1>5. ASSUME NEW p \in Folders, NEW st, NEW x, Real(x), st \in Answers(x), NEW i \in BOOLEAN, NEW ch,
             baseline' = [baseline EXCEPT ![p] = Observed(p, st, i).base], pending' = [pending EXCEPT ![p] = ch],
             phase # "away", phase' # "away", phase' = phase \/ (phase # "selecting" /\ phase' = "host"),
             marks' = marks, pass'.selected = pass.selected, pass'.todo = pass.todo
      PROVE  Unasked'
  <2>1. p \in Paths /\ p # Inbox BY <1>1, FeedAssumption
  <2>2. Observed(p, st, i).base # Nothing BY <1>1, <1>5, <2>1, NeverNothing
  <2>3. \A q \in Folders : baseline'[q] # Nothing BY <1>1, <1>5, <2>2 DEF FeedTypes, Unasked
  <2>4. baseline'[Inbox] = baseline[Inbox] /\ pending'[Inbox] = pending[Inbox] BY <1>1, <1>5, <2>1 DEF FeedTypes
  <2>5. KeepsAsking BY <1>5, <2>3, <2>4 DEF KeepsAsking
  <2> QED BY <1>5, <2>5, UnaskedStays
<1>6. CASE ProbedStatus
  <2>1. phase = "probing" /\ phase' = "host" /\ marks' = marks /\ pass' = pass BY <1>6 DEF ProbedStatus, Answer
  <2>2. PICK p \in Folders :
          /\ baseline' = [baseline EXCEPT ![p] = Observed(p, StatusOf(provider[p]), FALSE).base]
          /\ pending' = [pending EXCEPT ![p] = Observed(p, StatusOf(provider[p]), FALSE).change]
    BY <1>6 DEF ProbedStatus
  <2>3. Real(provider[p]) /\ StatusOf(provider[p]) \in Answers(provider[p]) BY <1>1 DEF History, Answers
  <2>4. FALSE \in BOOLEAN OBVIOUS
  <2> QED BY <1>5, <2>1, <2>2, <2>3, <2>4
<1>7. ASSUME NEW p \in Paths, NEW kind \in {"exists", "expunge", "flags"}, Notified(p, kind) PROVE Unasked'
  <2> DEFINE i == phase = "opening"
             o == Observed(p, StatusOf(provider'[p]), i)
  <2>1. /\ p \in Folders /\ phase # "away" /\ phase' = phase /\ marks' = marks /\ Changes(p, kind)
        /\ UNCHANGED <<server, mirror, taken, snap>>
        /\ baseline' = [baseline EXCEPT ![p] = o.base] /\ pending' = [pending EXCEPT ![p] = o.change]
        /\ pass' = pass \/ pass' = [pass EXCEPT !.held = pass.held \ {p}]
    BY <1>7 DEF Notified
  <2>2. Real(provider'[p]) /\ StatusOf(provider'[p]) \in Answers(provider'[p]) BY <1>1, <2>1, Moved DEF Answers
  <2>3. i \in BOOLEAN OBVIOUS
  <2>4. pass'.selected = pass.selected /\ pass'.todo = pass.todo BY <1>1, <2>1 DEF FeedTypes
  <2> HIDE DEF i
  <2> QED BY <1>5, <2>1, <2>2, <2>3, <2>4
<1> QED BY <1>2, <1>3, <1>4, <1>6, <1>7

LEMMA OthersAsk ==
  ASSUME OpenInv, Unasked, phase' # "closed",
         \/ Open \/ Wait \/ Deliver \/ Renew \/ Overflow \/ Probe \/ ProbedNotify \/ ListRefused \/ Verify \/ StartPass \/ FailPass
         \/ \E p \in Paths : InitializedFailed(p) \/ ProbedFailed(p) \/ VerifyFailed(p) \/ SelectFolder(p)
         \/ \E p \in Paths, kind \in {"exists", "expunge", "flags"} : Unheard(p, kind)
         \/ \E p \in Paths, reconciled, scanned \in BOOLEAN : ReadFolder(p, reconciled, scanned)
  PROVE  Unasked'
<1>1. FeedTypes /\ Quiet /\ Inbox \in Paths /\ Folders \subseteq Paths BY DEF OpenInv, Paths
<1>2. CASE Open
  <2>1. phase = "away" /\ phase' = "opening" /\ UNCHANGED <<pending, marks, pass>> /\ pass.selected = {}
        /\ pending = [p \in Paths |-> NoChange]
    BY <1>1, <1>2 DEF Open, Quiet
  <2>2. baseline' = [p \in Paths |-> IF p = Inbox THEN Nothing ELSE [SelectOf(Counters) EXCEPT !.messages = Unknown, !.cursor = TRUE]]
    BY <1>2 DEF Open
  <2>3. \A p \in Folders : baseline'[p].cursor = TRUE
    <3>1. "cursor" \in DOMAIN SelectOf(Counters) BY DEF SelectOf, StatusOf
    <3> QED BY <1>1, <2>2, <3>1, FeedAssumption
  <2>4. \A p \in Folders : baseline'[p] # Nothing BY <2>3 DEF Nothing
  <2>5. pending[Inbox] = NoChange BY <1>1, <2>1
  <2> QED BY <2>1, <2>4, <2>5 DEF Unasked
<1>3. CASE Wait
  <2>1. phase = "host" /\ UNCHANGED <<baseline, marks, pending>> BY <1>3 DEF Wait, feedVars
  <2>2. Deferred(Dirty) \in {"wake", "close", "none"} BY DEF Deferred
  <2>3. /\ phase' = "selecting" \/ (phase' = "host" /\ pass' = pass)
        /\ pass'.todo = pass.todo
    BY <1>1, <1>3, <2>2 DEF Wait, Close, FeedTypes
  <2> QED BY <2>1, <2>3, QuietStays
<1>4. CASE Renew \/ Probe \/ ProbedNotify \/ ListRefused \/ Verify \/ StartPass \/ FailPass
  <2>1. /\ phase \in {"idle", "probing", "host", "pass"} /\ phase' \in {"host", "probing", "verifying", "pass"}
        /\ UNCHANGED <<baseline, marks, pending>>
    BY <1>4 DEF Renew, Probe, ProbedNotify, ListRefused, Verify, StartPass, FailPass, Answer, feedVars, sessionVars
  <2>2. pass'.selected = pass.selected /\ (pass'.todo \subseteq pass.todo \/ StartPass)
    BY <1>1, <1>4 DEF Renew, Probe, ProbedNotify, ListRefused, Verify, StartPass, FailPass, FeedTypes, NoPass
  <2>3. CASE ~StartPass BY <2>1, <2>2, <2>3, QuietStays
  <2>4. CASE StartPass
    <3>1. pass'.todo \subseteq Dirty BY <1>1, <2>4 DEF StartPass, FeedTypes
    <3>2. Inbox \in pass'.todo => pending'[Inbox] # NoChange BY <2>1, <3>1 DEF Dirty
    <3>3. KeepsAsking BY <2>1, <2>2, <3>2 DEF KeepsAsking, Unasked
    <3> QED BY <2>1, <3>3, UnaskedStays
  <2> QED BY <2>3, <2>4
<1>5. CASE Deliver \/ (\E p \in Paths, kind \in {"exists", "expunge", "flags"} : Unheard(p, kind))
  <2>1. /\ UNCHANGED <<baseline, marks, pending, pass>> /\ (phase' = phase \/ (phase = "idle" /\ phase' = "host"))
    BY <1>5 DEF Deliver, Unheard, feedVars, sessionVars
  <2>2. CASE phase' = phase BY <2>1, <2>2 DEF Unasked
  <2>3. CASE phase' # phase BY <2>1, <2>3, QuietStays
  <2> QED BY <2>2, <2>3
<1>6. CASE Overflow \/ (\E p \in Paths : InitializedFailed(p) \/ ProbedFailed(p) \/ VerifyFailed(p))
  <2>1. /\ phase # "away" /\ phase' # "away" /\ (phase' = phase \/ (phase = "probing" /\ phase' = "host"))
        /\ UNCHANGED <<baseline, marks>> /\ pass'.selected = pass.selected /\ pass'.todo = pass.todo
    BY <1>1, <1>6 DEF Overflow, InitializedFailed, ProbedFailed, VerifyFailed, Answer, FeedTypes
  <2>2. pending'[Inbox] = pending[Inbox] \/ pending'[Inbox] = Signalled(Inbox, TRUE, TRUE, Nothing)
    <3>1. Inbox \in Paths /\ pending \in [Paths -> Change \cup {NoChange}] BY <1>1 DEF FeedTypes, Paths
    <3>2. CASE Overflow BY <3>1, <3>2 DEF Overflow
    <3>3. CASE \E p \in Paths : InitializedFailed(p) \/ ProbedFailed(p) \/ VerifyFailed(p)
      <4>1. PICK p \in Paths : pending' = [pending EXCEPT ![p] = Signalled(p, TRUE, TRUE, Nothing)]
        BY <3>3 DEF InitializedFailed, ProbedFailed, VerifyFailed
      <4> QED BY <3>1, <4>1
    <3> QED BY <1>6, <3>2, <3>3
  <2>3. Signalled(Inbox, TRUE, TRUE, Nothing) # NoChange /\ Signalled(Inbox, TRUE, TRUE, Nothing).scan
    BY <1>1, FailsAreAsked
  <2>4. KeepsAsking BY <2>1, <2>2, <2>3 DEF KeepsAsking, Unasked
  <2> QED BY <2>1, <2>4, UnaskedStays
<1>7. ASSUME NEW p \in Paths, SelectFolder(p) PROVE Unasked'
  <2>1. /\ phase = "pass" /\ phase' = "pass" /\ UNCHANGED <<baseline, marks, pending>> /\ p \in pass.todo
        /\ pass'.selected = {p} /\ pass'.todo = pass.todo
    BY <1>1, <1>7 DEF SelectFolder, feedVars, FeedTypes
  <2>2. KeepsAsking BY <2>1 DEF KeepsAsking, Unasked
  <2> QED BY <2>1, <2>2, UnaskedStays
<1>8. ASSUME NEW p \in Paths, NEW reconciled \in BOOLEAN, NEW scanned \in BOOLEAN, ReadFolder(p, reconciled, scanned) PROVE Unasked'
  <2>1. phase = "pass" /\ phase' = "pass" /\ UNCHANGED <<baseline, marks, pending>> BY <1>8 DEF ReadFolder, feedVars
  <2>2. (\E e : pass' = [pass EXCEPT !.todo = pass.todo \ {p}, !.seen = e]) \/ pass' = [pass EXCEPT !.todo = pass.todo \ {p}]
    <3>1. CASE (pending[p].reconcile => reconciled) /\ (pending[p].scan => scanned) BY <1>1, <1>8, <3>1 DEF ReadFolder, FeedTypes
    <3>2. CASE ~((pending[p].reconcile => reconciled) /\ (pending[p].scan => scanned)) BY <1>8, <3>2 DEF ReadFolder
    <3> QED BY <3>1, <3>2
  <2>3. pass'.selected = pass.selected /\ pass'.todo \subseteq pass.todo BY <1>1, <2>2 DEF FeedTypes
  <2> QED BY <2>1, <2>3, QuietStays
<1> QED BY <1>2, <1>3, <1>4, <1>5, <1>6, <1>7, <1>8

-------------------------------------------------------------------------------
LEMMA FeedStarts ==
  ASSUME \A s \in Servers : s.notify => s.condstore, FeedInit
  PROVE  FeedInv
<1>1. Counters \in Mailbox /\ Real(Counters) /\ Behind(Counters, Counters) BY DEF Counters, Mailbox, Real, Behind
<1>2. provider \in [Paths -> Mailbox] /\ mirror = provider /\ known = provider /\ \A p \in Paths : provider[p] = Counters
  BY <1>1 DEF FeedInit
<1>3. Nothing \in Status BY DEF Nothing, Status, Field
<1>4. NoPass \in [held : SUBSET Paths, todo : SUBSET Paths, selected : SUBSET Paths,
                  seen : UNION {[S -> Done] : S \in SUBSET Paths}]
  <2>1. <<>> \in [{} -> Done] /\ {} \in SUBSET Paths OBVIOUS
  <2>2. <<>> \in UNION {[S -> Done] : S \in SUBSET Paths} BY <2>1
  <2> QED BY <2>2 DEF NoPass
<1>5. snap = <<>> /\ snap \in UNION {[S -> Mailbox] : S \in SUBSET Paths} /\ DOMAIN snap = {}
  <2>1. <<>> \in [{} -> Mailbox] /\ {} \in SUBSET Paths OBVIOUS
  <2> QED BY <2>1 DEF FeedInit
<1>6. FeedTypes BY <1>2, <1>3, <1>4, <1>5, FeedAssumption DEF FeedInit, FeedTypes
<1>9. Unasked
  <2>1. Inbox \in Paths BY DEF Paths
  <2> QED BY <2>1 DEF FeedInit, Unasked, NoPass
<1>7. History BY <1>1, <1>2, <1>5 DEF History
<1>8. Quiet BY <1>2, <1>5 DEF Quiet, FeedInit, NoPass
<1> QED BY <1>6, <1>7, <1>8, <1>9 DEF FeedInv, OpenInv, PathsInv, PassInv, FeedInit

LEMMA FeedSteps ==
  ASSUME FeedInv, [FeedNext]_vars
  PROVE  FeedInv'
<1>1. CASE UNCHANGED vars
  BY <1>1 DEF vars, feedVars, sessionVars, FeedInv, Alive, OpenInv, FeedTypes, History, Quiet, PathsInv, AllPaths, Path,
     Points, Snap, Covered, PassInv, PassPath, Reading, Notifying, Unasked
<1>2. CASE ~Alive
  <2>1. FeedNext => phase' = phase
    BY <1>2 DEF FeedNext, Heard, Notified, Unheard, Open, Initialized, Wait, SelectedInbox, Deliver, Renew, Overflow,
       Disconnect, InitializedFailed, ProbedFailed, VerifyFailed, SelectFolder, Probe, ProbedNotify, ProbedList, ListRefused,
       ProbedStatus, Verify, Verified, ReadFolder, StartPass, EndPass, FailPass, Alive, sessionVars
  <2> QED BY <1>1, <1>2, <2>1 DEF FeedInv, Alive
<1>3. CASE FeedNext /\ Alive /\ phase' = "closed" BY <1>3 DEF FeedInv, Alive
<1>4. CASE FeedNext /\ Alive /\ phase' # "closed"
  <2>1. OpenInv /\ Unasked BY <1>4 DEF FeedInv
  <2>2. ~Disconnect BY <1>4 DEF Disconnect, Close
  <2>3. OpenInv'
    BY <1>4, <2>1, <2>2, HostKeeps, RefusedKeeps, ObserversKeep, SelectedInboxKeeps, ProbedStatusKeeps, VerifiedKeeps,
       FailedKeeps, OverflowKeeps, StartPassKeeps, SelectFolderKeeps, ReadFolderKeeps, EndPassKeeps, HeardKeeps, NotifiedKeeps,
       UnheardKeeps, OpenKeeps, DeliverKeeps
    DEF FeedNext
  <2>4. Unasked'
    <3>1. FeedTypes /\ History BY <2>1 DEF OpenInv
    <3> QED BY <1>4, <2>1, <2>2, <3>1, VerifiedAsks, HeardAsks, EndPassAsks, ObserversAsk, OthersAsk DEF FeedNext
  <2> QED BY <2>3, <2>4 DEF FeedInv
<1> QED BY <1>1, <1>2, <1>3, <1>4

(* What the session was told of a mailbox is in the mirror or is still     *)
(* owed as a pending change or a marker (acknowledgeWithStatuses and       *)
(* observe of inbox-idle.ts), whatever changes, is lost or fails, on       *)
(* servers whose NOTIFY comes with CONDSTORE.                              *)
THEOREM ToldIsKeptHolds ==
  ASSUME \A s \in Servers : s.notify => s.condstore
  PROVE  FeedInit /\ [][FeedNext]_vars => []ToldIsKept
<1>1. FeedInit => FeedInv BY FeedStarts
<1>2. FeedInv /\ [FeedNext]_vars => FeedInv' BY FeedSteps
<1>3. FeedInv => ToldIsKept
  <2> SUFFICES ASSUME FeedInv, Alive, NEW p \in Paths
      PROVE  /\ known[p].arrived <= Covered(p).arrived \/ pending[p] # NoChange
             /\ known[p].gone <= Covered(p).gone \/ pending[p] # NoChange \/ p \in marks.reconcile
             /\ known[p].flagged <= Covered(p).flagged \/ pending[p].scan \/ p \in marks.event \cup marks.status
    BY DEF ToldIsKept
  <2>1. CASE phase = "away"
    <3>1. known = mirror /\ Behind(mirror[p], Covered(p)) BY <2>1, CoveredIs DEF FeedInv, OpenInv, Quiet
    <3> QED BY <3>1 DEF Behind
  <2>2. CASE phase # "away"
    <3>1. Path(p) BY <2>2 DEF FeedInv, OpenInv, PathsInv, AllPaths
    <3> QED BY <3>1 DEF Path, PathInv, Kept
  <2> QED BY <2>1, <2>2
<1> QED BY <1>1, <1>2, <1>3, PTL
===============================================================================
