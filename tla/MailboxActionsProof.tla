--------------------------- MODULE MailboxActionsProof ---------------------------
(***************************************************************************)
(* Direct actions and body downloads lose and invent no mail, and leave no *)
(* folder wrong that is not due, for any mail, folders and number of       *)
(* actions.                                                                *)
(*                                                                         *)
(* A place (folder, generation, UID) that was issued only ever loses its   *)
(* mail, and a row keeps the mail it was made for.  So what an action or a *)
(* download read before it had the lock stays true, if not current, and    *)
(* everything it derives from that can be written without looking again.   *)
(***************************************************************************)
EXTENDS MailboxActions, FunctionTheorems, FiniteSetTheorems, TLAPS

Entries == [folder : Folders, uid : Nat, mail : Mails]
TargetRecords == [id : Rows, at : Places]
MovedRecords == [id : Rows, at : Places, new : Places \cup {NoPlace}]
FetchedRecords == [id : Rows, at : Places, mail : Mails \cup {NoMail}]
CallRecords ==
  [pc : {"new", "wait", "command", "write", "append", "mirror", "reload", "ended"}, kind : Kinds \cup {"none"},
   dest : Folders, todo : SUBSET TargetRecords, changed : SUBSET Folders, moved : SUBSET MovedRecords,
   named : SUBSET Mails, filed : Places \cup {NoPlace}, lost : BOOLEAN, silent : BOOLEAN]
RunRecords == [pc : {"idle", "fetch", "commit"}, unit : SUBSET TargetRecords, got : SUBSET FetchedRecords]
ActionTypeOK ==
  /\ box \in SUBSET Entries /\ gen \in [Folders -> Nat] /\ next \in [Folders -> Nat] /\ flagged \subseteq Mails
  /\ rows \in [Rows -> MessageRows \cup {NoRow}] /\ known \in [Folders -> Nat] /\ due \subseteq Folders
  /\ lock \in Calls \cup {NoOne} /\ call \in [Calls -> CallRecords] /\ run \in RunRecords
  /\ foreign \subseteq Folders /\ removed \subseteq Mails

Issued(p) == p.gen < gen[p.folder] \/ (p.gen = gen[p.folder] /\ p.uid < next[p.folder])

(* The provider gives each UID of a generation once.                       *)
UidsOnce ==
  /\ IsFiniteSet(box) /\ \A e \in box : e.uid < next[e.folder]
  /\ \A d, e \in box : d.folder = e.folder /\ d.uid = e.uid => d = e
(* A row lies in a generation that the mirror has seen.                    *)
RowsKnown ==
  /\ IsFiniteSet(Existing) /\ \A f \in Folders : known[f] <= gen[f]
  /\ \A r \in Existing : Issued(rows[r].at) /\ rows[r].at.gen <= known[rows[r].at.folder]

(* What was read of a row: its place holds no other mail than the row's.   *)
TrueOf(id, at) == /\ rows[id] # NoRow /\ Issued(at)
                  /\ \A e \in Held(at) : e.mail = rows[id].mail
Working(a) == call[a].pc \in {"command", "write", "append", "mirror", "reload"}
Moves == {"move", "thread", "trash"}
FiledTrue(a) ==
  call[a].filed # NoPlace => /\ Issued(call[a].filed) /\ call[a].filed.folder = Drafts
                             /\ \A e \in Held(call[a].filed) : e.mail = a
TargetsTrue(a) ==
  /\ \A t \in call[a].todo : TrueOf(t.id, t.at) /\ rows[t.id].mail \in call[a].named
  /\ \A s, t \in call[a].todo : s.id = t.id \/ s.at = t.at => s = t
  /\ \A s, t \in call[a].moved : s.id = t.id \/ s.at = t.at \/ (s.new = t.new /\ s.new # NoPlace) => s = t
  /\ \A t \in call[a].moved :
       /\ TrueOf(t.id, t.at)
       /\ call[a].kind \notin {"flag", "flags"} => Held(t.at) = {}
       /\ t.new # NoPlace => TrueOf(t.id, t.new) /\ t.new.folder = call[a].dest
  /\ FiledTrue(a)
(* The folders that a call changes while it has the lock.                  *)
Reach(a) ==
  IF call[a].kind \in {"flag", "flags"} THEN {}
  ELSE IF call[a].kind = "update" /\ call[a].pc \in {"append", "mirror", "reload"} THEN {Drafts}
  ELSE (IF call[a].kind \in Moves THEN {call[a].dest} ELSE {}) \cup In(call[a].todo) \cup In(call[a].moved)
DueFirst(a) ==
  /\ call[a].pc = "wait" => call[a].moved = {} /\ (call[a].kind # "update" => Reach(a) \subseteq call[a].changed)
                            /\ (call[a].kind = "update" => Drafts \in call[a].changed)
  /\ Working(a) /\ ~call[a].lost => lock = a /\ Reach(a) \subseteq due
  /\ lock = a => Working(a)
Revised(a) ==
  call[a].kind = "update" /\ call[a].pc \in {"mirror", "reload", "command", "write"} => a \in Present \cup removed \cup Asked
Fits(a) ==
  /\ call[a].pc = "new" => call[a] = NoCall
  /\ call[a].pc \in {"append", "mirror", "reload"} => call[a].kind = "update" /\ call[a].moved = {}
  /\ call[a].pc = "command" => call[a].moved = {}
  /\ call[a].pc \in {"wait", "append", "mirror", "reload"} => call[a].todo # {}
CallOK(a) == Fits(a) /\ TargetsTrue(a) /\ DueFirst(a) /\ Revised(a)
RunOK ==
  /\ \A t \in run.unit : TrueOf(t.id, t.at)
  /\ \A g \in run.got :
       /\ rows[g.id] # NoRow /\ Issued(g.at)
       /\ IF g.mail = NoMail THEN Held(g.at) = {} ELSE rows[g.id].mail = g.mail

Exact(f) == Mirrored(f) = {PlaceOf(e) : e \in {d \in box : d.folder = f}}
ActionInv ==
  /\ ActionTypeOK /\ UidsOnce /\ RowsKnown /\ \A a \in Calls : CallOK(a)
  /\ RunOK /\ MirrorTrue /\ OnlyAskedIsRemoved
DueInv ==
  /\ \A f \in Folders : known[f] # gen[f] => f \in foreign
  /\ \A f \in Folders \ (due \cup foreign) : Exact(f)

-------------------------------------------------------------------------------
(* Ranks: how the server and the table number what comes in together.      *)

LEMMA ActionConstants ==
  /\ NoOne \notin Calls /\ Drafts \in Folders /\ Trash \in Folders /\ Old \cap Calls = {}
  /\ IsFiniteSet(Old) /\ Rows \subseteq Nat /\ NoMail \notin Mails /\ NoPlace \notin Places /\ NoRow \notin MessageRows
  /\ Kinds \subseteq {"flag", "flags", "move", "thread", "trash", "expunge", "update"}
  BY ActionAssumption

RankIn(S, u) == Cardinality({d \in S : d.uid < u})
LEMMA RankTypes ==
  ASSUME NEW S, IsFiniteSet(S), NEW u
  PROVE  RankIn(S, u) \in Nat /\ Cardinality(S) \in Nat /\ RankIn(S, u) <= Cardinality(S)
  <1>1. {d \in S : d.uid < u} \in SUBSET S OBVIOUS
  <1> QED BY <1>1, FS_Subset, FS_CardinalityType DEF RankIn
LEMMA RankStrict ==
  ASSUME NEW S, IsFiniteSet(S), \A d \in S : d.uid \in Nat, NEW e \in S, NEW u \in Nat, e.uid < u
  PROVE  RankIn(S, e.uid) < RankIn(S, u)
  <1> DEFINE L == {d \in S : d.uid < e.uid}
  <1> DEFINE H == {d \in S : d.uid < u}
  <1>1. L \in SUBSET H OBVIOUS
  <1>2. e \in H /\ e \notin L OBVIOUS
  <1>3. IsFiniteSet(H) BY FS_Subset
  <1> HIDE DEF L, H
  <1>4. Cardinality(L) <= Cardinality(H) /\ Cardinality(L) # Cardinality(H) /\ IsFiniteSet(L) BY <1>1, <1>2, <1>3, FS_Subset
  <1>5. Cardinality(L) \in Nat /\ Cardinality(H) \in Nat BY <1>3, <1>4, FS_CardinalityType
  <1> QED BY <1>4, <1>5 DEF RankIn, L, H
LEMMA RankBelow ==
  ASSUME NEW S, IsFiniteSet(S), \A d \in S : d.uid \in Nat, NEW e \in S
  PROVE  RankIn(S, e.uid) < Cardinality(S)
  <1>1. RankIn(S, e.uid) < RankIn(S, e.uid + 1) BY RankStrict
  <1> QED BY <1>1, RankTypes
LEMMA RankOrders ==
  ASSUME NEW S, IsFiniteSet(S), \A d \in S : d.uid \in Nat, NEW d \in S, NEW e \in S,
         RankIn(S, d.uid) = RankIn(S, e.uid)
  PROVE  d.uid = e.uid
  <1>1. CASE d.uid < e.uid BY <1>1, RankStrict, RankTypes
  <1>2. CASE e.uid < d.uid BY <1>2, RankStrict, RankTypes
  <1> QED BY <1>1, <1>2

(* Mail that a client moves together gets consecutive new UIDs.            *)
Together(es) == es \in SUBSET box /\ \A d, e \in es : d.folder = e.folder
Numbered(es, dest) ==
  /\ MovedTo(es, dest) \in SUBSET Entries
  /\ \A e \in MovedTo(es, dest) : e.folder = dest /\ next[dest] <= e.uid /\ e.uid < next[dest] + Cardinality(es)
  /\ \A e \in MovedTo(es, dest) : \E d \in es : e.mail = d.mail /\ e.uid = next[dest] + RankIn(es, d.uid)
  /\ \A d \in es : \E e \in MovedTo(es, dest) : e.mail = d.mail
  /\ \A d, e \in MovedTo(es, dest) : d.uid = e.uid => d = e
LEMMA MovedMail ==
  ASSUME ActionTypeOK, UidsOnce, NEW es, Together(es), NEW dest \in Folders
  PROVE  /\ IsFiniteSet(es) /\ Cardinality(es) \in Nat /\ IsFiniteSet(MovedTo(es, dest))
         /\ Numbered(es, dest)
  <1>0. es \in SUBSET box /\ \A d, e \in es : d.folder = e.folder BY DEF Together
  <1> DEFINE New(e) == [folder |-> dest, uid |-> next[dest] + RankIn(es, e.uid), mail |-> e.mail]
  <1>1. IsFiniteSet(es) /\ Cardinality(es) \in Nat BY <1>0, FS_Subset, FS_CardinalityType DEF UidsOnce
  <1>2. es \subseteq Entries /\ next[dest] \in Nat BY <1>0 DEF ActionTypeOK
  <1>3. MovedTo(es, dest) = {New(e) : e \in es} BY DEF MovedTo, RankIn
  <1>4. \A e \in es : e.uid \in Nat /\ e.mail \in Mails BY <1>2 DEF Entries
  <1>5. \A e \in es : RankIn(es, e.uid) \in Nat /\ RankIn(es, e.uid) < Cardinality(es) BY <1>1, <1>4, RankTypes, RankBelow
  <1>6. \A e \in es : New(e) \in Entries BY <1>2, <1>4, <1>5 DEF Entries
  <1>7. IsFiniteSet({New(e) : e \in es})
    <2> DEFINE g == [e \in es |-> New(e)]
    <2>1. g \in Surjection(es, {New(e) : e \in es}) BY DEF Surjection
    <2> QED BY <1>1, <2>1, FS_Surjection
  <1>8. ASSUME NEW d \in es, NEW e \in es, New(d).uid = New(e).uid PROVE d = e
    <2>1. RankIn(es, d.uid) = RankIn(es, e.uid) BY <1>2, <1>5, <1>8
    <2>2. d.uid = e.uid BY <1>1, <1>4, <2>1, RankOrders
    <2> QED BY <1>0, <2>2 DEF UidsOnce
  <1>9. \A e \in es : New(e).folder = dest /\ next[dest] <= New(e).uid /\ New(e).uid < next[dest] + Cardinality(es)
    BY <1>1, <1>2, <1>5
  <1>10. \A e \in {New(d) : d \in es} : \E d \in es : e.mail = d.mail /\ e.uid = next[dest] + RankIn(es, d.uid) OBVIOUS
  <1>11. \A d \in es : \E e \in {New(c) : c \in es} : e.mail = d.mail
    <2>1. \A d \in es : New(d) \in {New(c) : c \in es} /\ New(d).mail = d.mail OBVIOUS
    <2> QED BY <2>1
  <1>12. \A d, e \in {New(c) : c \in es} : d.uid = e.uid => d = e BY <1>8
  <1>13. \A e \in {New(d) : d \in es} : e.folder = dest /\ next[dest] <= e.uid /\ e.uid < next[dest] + Cardinality(es)
    BY <1>9
  <1> QED BY <1>1, <1>3, <1>6, <1>7, <1>10, <1>11, <1>12, <1>13 DEF Numbered

-------------------------------------------------------------------------------
(* What holds of every step.                                               *)

(* A place that was issued may only lose its mail.                         *)
Steady == \A p \in Places : Issued(p) => Issued(p)' /\ Held(p)' \subseteq Held(p)
RowsStay == \A r \in Existing : r \in Existing' /\ rows'[r].mail = rows[r].mail

LEMMA Still ==
  ASSUME UNCHANGED <<box, gen, next>>
  PROVE  Steady /\ (UidsOnce => UidsOnce') /\ Present' = Present
  BY DEF Steady, Issued, Held, PlaceOf, Place, UidsOnce, Present

(* Mail moves, or is copied.                                               *)
LEMMA MailMoves ==
  ASSUME ActionTypeOK, UidsOnce, NEW es, Together(es), NEW dest \in Folders,
         NEW out \in {es, {}}, box' = (box \ out) \cup MovedTo(es, dest),
         next' = [next EXCEPT ![dest] = @ + Cardinality(es)], gen' = gen
  PROVE  /\ box' \in SUBSET Entries /\ next' \in [Folders -> Nat]
         /\ UidsOnce' /\ Steady /\ Present' = Present
         /\ \A e \in MovedTo(es, dest) : Issued(PlaceOf(e))'
  <1> DEFINE T == MovedTo(es, dest)
  <1> DEFINE n == Cardinality(es)
  <1>1. /\ n \in Nat /\ T \in SUBSET Entries /\ IsFiniteSet(T)
        /\ \A e \in T : e.folder = dest /\ next[dest] <= e.uid /\ e.uid < next[dest] + n
        /\ \A e \in T : \E d \in es : e.mail = d.mail
        /\ \A d \in es : \E e \in T : e.mail = d.mail
        /\ \A d, e \in T : d.uid = e.uid => d = e
    BY MovedMail DEF Numbered
  <1>2. box' = (box \ out) \cup T /\ out \subseteq es /\ box \in SUBSET Entries /\ next \in [Folders -> Nat] /\ gen \in [Folders -> Nat]
        /\ es \subseteq box
    BY DEF ActionTypeOK, Together
  <1> HIDE DEF T, n
  <1>3. next' \in [Folders -> Nat] /\ next'[dest] = next[dest] + n /\ \A f \in Folders : next[f] <= next'[f]
    BY <1>1, <1>2 DEF n
  <1>4. box' \in SUBSET Entries BY <1>1, <1>2
  <1>5. UidsOnce'
    <2>1. IsFiniteSet(box')
      <3>1. IsFiniteSet(box \ out) BY FS_Subset DEF UidsOnce
      <3>2. IsFiniteSet(T) BY <1>1
      <3>3. IsFiniteSet((box \ out) \cup T) BY <3>1, <3>2, FS_Union
      <3> QED BY <1>2, <3>3
    <2>2. ASSUME NEW e \in box' PROVE e.uid < next'[e.folder]
      <3>1. CASE e \in T BY <1>1, <1>3, <3>1
      <3>2. CASE e \in box BY <1>2, <1>3, <3>2 DEF UidsOnce, Entries
      <3> QED BY <1>2, <3>1, <3>2
    <2>3. ASSUME NEW d \in box', NEW e \in box', d.folder = e.folder, d.uid = e.uid PROVE d = e
      <3>1. \A x \in box, y \in T : ~(x.folder = y.folder /\ x.uid = y.uid) BY <1>1, <1>2 DEF UidsOnce, Entries
      <3> QED BY <1>1, <1>2, <2>3, <3>1 DEF UidsOnce
    <2> QED BY <2>1, <2>2, <2>3 DEF UidsOnce
  <1>6. Steady
    <2> SUFFICES ASSUME NEW p \in Places, Issued(p) PROVE Issued(p)' /\ Held(p)' \subseteq Held(p) BY DEF Steady
    <2>1. p.folder \in Folders /\ p.gen \in Nat /\ p.uid \in Nat BY DEF Places
    <2>2. Issued(p)' BY <1>2, <1>3, <2>1 DEF Issued
    <2>3. ASSUME NEW e \in box', PlaceOf(e)' = p PROVE e \in box /\ PlaceOf(e) = p
      <3>1. PlaceOf(e) = p BY <2>3 DEF PlaceOf
      <3>2. p.folder = e.folder /\ p.uid = e.uid /\ p.gen = gen[e.folder] BY <3>1 DEF PlaceOf, Place
      <3>3. e \notin T BY <1>1, <1>2, <2>1, <3>2 DEF Issued
      <3> QED BY <1>2, <3>1, <3>3
    <2> QED BY <2>2, <2>3 DEF Held
  <1>7. Present' = Present
    <2>1. \A e \in T : e.mail \in Present BY <1>1, <1>2 DEF Present
    <2>2. \A e \in box : e.mail \in Present'
      <3>1. ASSUME NEW e \in es PROVE e.mail \in Present'
        <4>1. PICK t \in T : t.mail = e.mail BY <1>1
        <4>2. t \in box' BY <1>2, <4>1
        <4> QED BY <4>1, <4>2 DEF Present
      <3> QED BY <1>2, <3>1 DEF Present
    <2> QED BY <1>2, <2>1, <2>2 DEF Present
  <1>8. ASSUME NEW e \in T PROVE Issued(PlaceOf(e))'
    BY <1>1, <1>2, <1>3 DEF Issued, PlaceOf, Place, Entries
  <1> QED BY <1>3, <1>4, <1>5, <1>6, <1>7, <1>8 DEF T

LEMMA MailGoes ==
  ASSUME ActionTypeOK, UidsOnce, box' \subseteq box, UNCHANGED <<gen, next>>
  PROVE  box' \in SUBSET Entries /\ UidsOnce' /\ Steady
  <1>1. IsFiniteSet(box') BY FS_Subset DEF UidsOnce
  <1>2. box' \in SUBSET Entries BY DEF ActionTypeOK
  <1>3. UidsOnce' BY <1>1 DEF UidsOnce
  <1>4. Steady BY DEF Steady, Issued, Held, PlaceOf, Place
  <1> QED BY <1>2, <1>3, <1>4

LEMMA RenumberStep ==
  ASSUME ActionTypeOK, UidsOnce, Renumber
  PROVE  /\ ActionTypeOK' /\ UidsOnce' /\ Steady /\ Present' = Present /\ \A f \in Folders : gen[f] <= gen'[f]
         /\ \A f \in Folders : f \in foreign' \/ gen'[f] = gen[f]
         /\ \A f \in Folders \ foreign' : \A e \in Entries : e.folder = f => (e \in box' <=> e \in box)
  <1>1. PICK f \in Folders, uid \in [Old -> 1..Cardinality(Old)] :
          LET here == {e \in box : e.folder = f} IN
          /\ IsInjective(uid) /\ here # {} /\ {e.mail : e \in here} \subseteq Old
          /\ box' = (box \ here) \cup {[e EXCEPT !.uid = uid[e.mail]] : e \in here}
          /\ gen' = [gen EXCEPT ![f] = @ + 1] /\ next' = [next EXCEPT ![f] = Cardinality(Old) + 1]
          /\ foreign' = foreign \cup {f}
    BY DEF Renumber
  <1> DEFINE here == {e \in box : e.folder = f}
  <1> DEFINE New(e) == [e EXCEPT !.uid = uid[e.mail]]
  <1> DEFINE N == {New(e) : e \in here}
  <1>2. Cardinality(Old) \in Nat BY ActionConstants, FS_CardinalityType
  <1>3. box \in SUBSET Entries /\ gen \in [Folders -> Nat] /\ next \in [Folders -> Nat] BY DEF ActionTypeOK
  <1>4. \A e \in here : e.mail \in Old /\ uid[e.mail] \in Nat /\ uid[e.mail] <= Cardinality(Old) BY <1>1, <1>2
  <1>5. \A e \in here : New(e) = [folder |-> f, uid |-> uid[e.mail], mail |-> e.mail]
    BY <1>3 DEF Entries
  <1>6. box' = (box \ here) \cup N BY <1>1
  <1>7. \A e \in N : e \in Entries /\ e.folder = f /\ e.uid = uid[e.mail] /\ e.mail \in Old /\ e.uid <= Cardinality(Old)
    <2>1. \A e \in here : [folder |-> f, uid |-> uid[e.mail], mail |-> e.mail] \in Entries
      BY <1>3, <1>4 DEF Entries
    <2>2. ASSUME NEW x \in here
          PROVE  New(x) \in Entries /\ New(x).folder = f /\ New(x).uid = uid[x.mail] /\ New(x).mail = x.mail
      BY <1>5, <2>1
    <2> QED BY <1>4, <2>2
  <1>8. IsFiniteSet(N)
    <2> DEFINE g == [e \in here |-> New(e)]
    <2>1. g \in Surjection(here, N) BY DEF Surjection
    <2>2. IsFiniteSet(here) BY FS_Subset DEF UidsOnce
    <2> QED BY <2>1, <2>2, FS_Surjection
  <1>9. \A d, e \in N : d.uid = e.uid => d = e
    <2>1. ASSUME NEW x \in here, NEW y \in here, New(x).uid = New(y).uid PROVE New(x) = New(y)
      <3>1. uid[x.mail] = uid[y.mail] BY <1>5, <2>1
      <3>2. x.mail = y.mail BY <1>1, <1>4, <3>1 DEF IsInjective
      <3> QED BY <1>5, <3>2
    <2>2. ASSUME NEW d \in N, NEW e \in N, d.uid = e.uid PROVE d = e
      <3>1. PICK x \in here : d = New(x) OBVIOUS
      <3>2. PICK y \in here : e = New(y) OBVIOUS
      <3> HIDE DEF New
      <3> QED BY <2>1, <2>2, <3>1, <3>2
    <2> QED BY <2>2
  <1> HIDE DEF N
  <1>10. box' \in SUBSET Entries BY <1>3, <1>6, <1>7
  <1>11. /\ gen' \in [Folders -> Nat] /\ next' \in [Folders -> Nat] /\ gen'[f] = gen[f] + 1 /\ next'[f] = Cardinality(Old) + 1
         /\ \A g \in Folders \ {f} : gen'[g] = gen[g] /\ next'[g] = next[g]
    BY <1>1, <1>2, <1>3
  <1>12. UidsOnce'
    <2>1. IsFiniteSet(box')
      <3>1. IsFiniteSet(box \ here) BY FS_Subset DEF UidsOnce
      <3>2. IsFiniteSet((box \ here) \cup N) BY <1>8, <3>1, FS_Union
      <3> QED BY <1>6, <3>2
    <2>2. ASSUME NEW e \in box' PROVE e.uid < next'[e.folder]
      <3>1. CASE e \in N BY <1>2, <1>7, <1>11, <3>1 DEF Entries
      <3>2. CASE e \in box \ here BY <1>3, <1>11, <3>2 DEF UidsOnce, Entries
      <3> QED BY <1>6, <3>1, <3>2
    <2>3. ASSUME NEW d \in box', NEW e \in box', d.folder = e.folder, d.uid = e.uid PROVE d = e
      BY <1>6, <1>7, <1>9, <2>3 DEF UidsOnce
    <2> QED BY <2>1, <2>2, <2>3 DEF UidsOnce
  <1>13. Steady
    <2> SUFFICES ASSUME NEW p \in Places, Issued(p) PROVE Issued(p)' /\ Held(p)' \subseteq Held(p) BY DEF Steady
    <2>1. p.folder \in Folders /\ p.gen \in Nat /\ p.uid \in Nat BY DEF Places
    <2>2. Issued(p)' BY <1>3, <1>11, <2>1 DEF Issued
    <2>3. ASSUME NEW e \in box', PlaceOf(e)' = p PROVE e \in box /\ PlaceOf(e) = p
      <3>1. e.folder = p.folder /\ gen'[e.folder] = p.gen /\ e.uid = p.uid BY <2>3 DEF PlaceOf, Place
      <3>2. e.folder # f BY <1>3, <1>11, <2>1, <3>1 DEF Issued
      <3>3. e \in box BY <1>6, <1>7, <3>2
      <3> QED BY <1>3, <1>11, <2>3, <3>2, <3>3 DEF PlaceOf, Place, Entries
    <2> QED BY <2>2, <2>3 DEF Held
  <1>14. Present' = Present
    <2>1. \A e \in here : New(e) \in box' /\ New(e).mail = e.mail BY <1>5, <1>6 DEF N
    <2>2. \A e \in box : e.mail \in Present' BY <1>6, <2>1 DEF Present
    <2>3. ASSUME NEW e \in N PROVE e.mail \in Present
      <3>1. PICK x \in here : e = New(x) BY DEF N
      <3>2. e.mail = x.mail /\ x \in box BY <1>5, <3>1
      <3> QED BY <3>2 DEF Present
    <2> QED BY <1>6, <2>2, <2>3 DEF Present
  <1>15. ActionTypeOK' BY <1>1, <1>10, <1>11 DEF ActionTypeOK, Renumber, mirror
  <1>16. \A g \in Folders : gen[g] <= gen'[g] BY <1>3, <1>11
  <1>17. \A g \in Folders : g \in foreign' \/ gen'[g] = gen[g] BY <1>1, <1>11
  <1>18. \A g \in Folders \ foreign' : \A e \in Entries : e.folder = g => (e \in box' <=> e \in box)
    BY <1>1, <1>6, <1>7
  <1> QED BY <1>12, <1>13, <1>14, <1>15, <1>16, <1>17, <1>18

(* Where rows stay as they are, the mirror stays true.                     *)
LEMMA RowsFrame ==
  ASSUME ActionTypeOK, RowsKnown, MirrorTrue, Steady, UNCHANGED <<rows, known>>,
         gen' \in [Folders -> Nat], \A f \in Folders : gen[f] <= gen'[f]
  PROVE  RowsStay /\ RowsKnown' /\ MirrorTrue'
  <1>1. rows \in [Rows -> MessageRows \cup {NoRow}] /\ known \in [Folders -> Nat] BY DEF ActionTypeOK
  <1>2. \A r \in Existing : rows[r] \in MessageRows /\ rows[r].at \in Places BY <1>1 DEF Existing, MessageRows
  <1>3. Existing' = Existing /\ LiveRows' = LiveRows BY DEF Existing, LiveRows
  <1>4. \A r \in Existing : Issued(rows[r].at)' /\ Held(rows[r].at)' \subseteq Held(rows[r].at)
    <2> SUFFICES ASSUME NEW r \in Existing PROVE Issued(rows[r].at)' /\ Held(rows[r].at)' \subseteq Held(rows[r].at)
      OBVIOUS
    <2>1. PICK p : p = rows[r].at OBVIOUS
    <2>2. p \in Places /\ Issued(p) BY <1>2, <2>1 DEF RowsKnown
    <2>3. Issued(p)' /\ Held(p)' \subseteq Held(p) BY <2>2 DEF Steady
    <2> QED BY <2>1, <2>3
  <1>5. \A f \in Folders : known'[f] <= gen'[f] BY <1>1 DEF RowsKnown, ActionTypeOK
  <1>6. RowsKnown' BY <1>3, <1>4, <1>5 DEF RowsKnown
  <1>7. MirrorTrue'
    <2>1. IdsKeepTheirMail' BY <1>3, <1>4 DEF MirrorTrue, IdsKeepTheirMail, LiveRows
    <2>2. GoneIsGone' BY <1>3, <1>4 DEF MirrorTrue, GoneIsGone
    <2>3. BodiesAreTheirs' BY <1>3 DEF MirrorTrue, BodiesAreTheirs
    <2> QED BY <2>1, <2>2, <2>3 DEF MirrorTrue
  <1>8. RowsStay BY <1>3 DEF RowsStay
  <1> QED BY <1>6, <1>7, <1>8

LEMMA TrueOfKept ==
  ASSUME ActionTypeOK, Steady, RowsStay, NEW id \in Rows, NEW at \in Places, TrueOf(id, at)
  PROVE  TrueOf(id, at)' /\ rows'[id].mail = rows[id].mail
  <1>1. id \in Existing BY DEF TrueOf, Existing
  <1>2. id \in Existing' /\ rows'[id].mail = rows[id].mail BY <1>1 DEF RowsStay
  <1>3. Issued(at)' /\ Held(at)' \subseteq Held(at) BY DEF TrueOf, Steady
  <1> QED BY <1>2, <1>3 DEF TrueOf, Existing

LEMMA RunKept ==
  ASSUME ActionTypeOK, Steady, RowsStay, RunOK, run'.unit \subseteq run.unit, run'.got \subseteq run.got
  PROVE  RunOK'
  <1>1. run.unit \subseteq TargetRecords /\ run.got \subseteq FetchedRecords BY DEF ActionTypeOK, RunRecords
  <1>2. ASSUME NEW t \in run'.unit PROVE TrueOf(t.id, t.at)'
    <2>1. t \in run.unit /\ t.id \in Rows /\ t.at \in Places BY <1>1 DEF TargetRecords
    <2> QED BY <2>1, TrueOfKept DEF RunOK
  <1>3. ASSUME NEW g \in run'.got
        PROVE  /\ rows'[g.id] # NoRow /\ Issued(g.at)'
               /\ IF g.mail = NoMail THEN Held(g.at)' = {} ELSE rows'[g.id].mail = g.mail
    <2>1. g \in run.got /\ g.id \in Rows /\ g.at \in Places BY <1>1 DEF FetchedRecords
    <2>2. /\ rows[g.id] # NoRow /\ Issued(g.at)
          /\ IF g.mail = NoMail THEN Held(g.at) = {} ELSE rows[g.id].mail = g.mail
      BY <2>1 DEF RunOK
    <2>3. rows'[g.id] # NoRow /\ rows'[g.id].mail = rows[g.id].mail BY <2>1, <2>2 DEF RowsStay, Existing
    <2>4. Issued(g.at)' /\ Held(g.at)' \subseteq Held(g.at) BY <2>1, <2>2 DEF Steady
    <2> QED BY <2>2, <2>3, <2>4
  <1> QED BY <1>2, <1>3 DEF RunOK

LEMMA FiledKept ==
  ASSUME ActionTypeOK, Steady, NEW a \in Calls, FiledTrue(a), call'[a].filed = call[a].filed \/ call'[a].filed = NoPlace
  PROVE  FiledTrue(a)'
  <1> SUFFICES ASSUME call'[a].filed # NoPlace PROVE FiledTrue(a)' BY DEF FiledTrue
  <1>1. PICK p : p = call[a].filed OBVIOUS
  <1>2. call'[a].filed = p /\ p # NoPlace /\ p \in Places BY <1>1 DEF ActionTypeOK, CallRecords
  <1>3. Issued(p) /\ p.folder = Drafts /\ \A e \in Held(p) : e.mail = a BY <1>1, <1>2 DEF FiledTrue
  <1>4. Issued(p)' /\ Held(p)' \subseteq Held(p) BY <1>2, <1>3 DEF Steady
  <1> QED BY <1>2, <1>3, <1>4 DEF FiledTrue, Issued, Held

LEMMA TargetsKept ==
  ASSUME ActionTypeOK, Steady, RowsStay, NEW a \in Calls, TargetsTrue(a),
         call'[a].todo \subseteq call[a].todo, call'[a].moved \subseteq call[a].moved,
         call'[a].named = call[a].named, call'[a].kind = call[a].kind,
         call'[a].dest = call[a].dest \/ call'[a].moved = {},
         call'[a].filed = call[a].filed \/ call'[a].filed = NoPlace
  PROVE  TargetsTrue(a)'
  <1>1. /\ call[a].todo \subseteq TargetRecords /\ call[a].moved \subseteq MovedRecords
        /\ call[a].filed \in Places \cup {NoPlace}
    BY DEF ActionTypeOK, CallRecords
  <1>2. ASSUME NEW t \in call'[a].todo PROVE TrueOf(t.id, t.at)' /\ rows'[t.id].mail \in call'[a].named
    <2>1. t \in call[a].todo /\ t.id \in Rows /\ t.at \in Places BY <1>1 DEF TargetRecords
    <2>2. TrueOf(t.id, t.at) /\ rows[t.id].mail \in call[a].named BY <2>1 DEF TargetsTrue
    <2>3. TrueOf(t.id, t.at)' /\ rows'[t.id].mail = rows[t.id].mail BY <2>1, <2>2, TrueOfKept
    <2> QED BY <2>2, <2>3
  <1>3. \A s, t \in call'[a].todo : s.id = t.id \/ s.at = t.at => s = t BY DEF TargetsTrue
  <1>4. \A s, t \in call'[a].moved : s.id = t.id \/ s.at = t.at \/ (s.new = t.new /\ s.new # NoPlace) => s = t
    BY DEF TargetsTrue
  <1>5. ASSUME NEW t \in call'[a].moved
        PROVE  /\ TrueOf(t.id, t.at)'
               /\ call'[a].kind \notin {"flag", "flags"} => Held(t.at)' = {}
               /\ t.new # NoPlace => TrueOf(t.id, t.new)' /\ t.new.folder = call'[a].dest
    <2>1. t \in call[a].moved /\ t.id \in Rows /\ t.at \in Places /\ t.new \in Places \cup {NoPlace}
      BY <1>1 DEF MovedRecords
    <2>2. /\ TrueOf(t.id, t.at)
          /\ call[a].kind \notin {"flag", "flags"} => Held(t.at) = {}
          /\ t.new # NoPlace => TrueOf(t.id, t.new) /\ t.new.folder = call[a].dest
      BY <2>1 DEF TargetsTrue
    <2>3. TrueOf(t.id, t.at)' BY <2>1, <2>2, TrueOfKept
    <2>4. Held(t.at)' \subseteq Held(t.at) BY <2>1, <2>2 DEF Steady, TrueOf
    <2>5. t.new # NoPlace => TrueOf(t.id, t.new)' BY <2>1, <2>2, TrueOfKept
    <2> QED BY <2>2, <2>3, <2>4, <2>5
  <1>6. FiledTrue(a)' BY FiledKept DEF TargetsTrue
  <1> QED BY <1>2, <1>3, <1>4, <1>5, <1>6 DEF TargetsTrue

(* What an action was asked for is not forgotten.                          *)
CallsKeep ==
  \A b \in Calls : call[b].kind = "none" \/ (call'[b].kind = call[b].kind /\ call'[b].named = call[b].named)
Witnesses == Present \cup removed \cup Asked

LEMMA AskedGrows ==
  ASSUME CallsKeep
  PROVE  Asked \subseteq Asked'
  BY DEF CallsKeep, Asked

LEMMA OnlyAskedKept ==
  ASSUME OnlyAskedIsRemoved, CallsKeep, Present \cup removed \subseteq Present' \cup removed'
  PROVE  OnlyAskedIsRemoved' /\ Witnesses \subseteq Witnesses'
  <1>1. Asked \subseteq Asked' BY AskedGrows
  <1>2. Witnesses \subseteq Witnesses' BY <1>1 DEF Witnesses
  <1>3. ASSUME NEW m \in Old, m \notin Present', m \notin removed'
        PROVE  \E a \in Calls : /\ m \in call'[a].named
                                /\ \/ call'[a].kind = "expunge"
                                   \/ call'[a].kind = "update" /\ a \in Present' \cup removed' \cup Asked'
    <2>1. PICK a \in Calls : /\ m \in call[a].named
                             /\ \/ call[a].kind = "expunge"
                                \/ call[a].kind = "update" /\ a \in Present \cup removed \cup Asked
      BY <1>3 DEF OnlyAskedIsRemoved
    <2>2. call'[a].kind = call[a].kind /\ call'[a].named = call[a].named BY <2>1 DEF CallsKeep
    <2> QED BY <1>2, <2>1, <2>2 DEF Witnesses
  <1> QED BY <1>2, <1>3 DEF OnlyAskedIsRemoved

(* A call that does not move keeps what it has, as long as the lock is not *)
(* taken from it and its folders stay due.                                 *)
LEMMA CallKept ==
  ASSUME ActionTypeOK, Steady, RowsStay, NEW b \in Calls, CallOK(b), call'[b] = call[b],
         Witnesses \subseteq Witnesses', lock' = b <=> lock = b, lock = b => due \subseteq due'
  PROVE  CallOK(b)'
  <1>1. TargetsTrue(b)' BY TargetsKept DEF CallOK
  <1>2. Fits(b)' BY DEF CallOK, Fits
  <1>3. Reach(b)' = Reach(b) BY DEF Reach, In
  <1>4. DueFirst(b)' BY <1>3 DEF CallOK, DueFirst, Working
  <1>5. Revised(b)' BY DEF CallOK, Revised, Witnesses
  <1> QED BY <1>1, <1>2, <1>4, <1>5 DEF CallOK

(* A step in which no call moves.                                          *)
LEMMA Passive ==
  ASSUME ActionInv, ActionTypeOK', Steady, UidsOnce', RowsStay, RowsKnown', MirrorTrue', RunOK', call' = call,
         Present \cup removed \subseteq Present' \cup removed',
         lock' = lock, \A b \in Calls : lock = b => due \subseteq due'
  PROVE  ActionInv'
  <1>1. CallsKeep BY DEF CallsKeep
  <1>2. OnlyAskedIsRemoved' /\ Witnesses \subseteq Witnesses' BY <1>1, OnlyAskedKept DEF ActionInv
  <1>3. \A b \in Calls : CallOK(b)' BY <1>2, CallKept DEF ActionInv
  <1> QED BY <1>2, <1>3 DEF ActionInv

(* A step of one call.                                                     *)
Alone(a) ==
  /\ \A b \in Calls \ {a} : call'[b] = call[b] /\ (lock' = b <=> lock = b) /\ (lock = b => due \subseteq due')
  /\ call[a].kind = "none" \/ (call'[a].kind = call[a].kind /\ call'[a].named = call[a].named)
LEMMA Active ==
  ASSUME ActionInv, ActionTypeOK', Steady, UidsOnce', RowsStay, RowsKnown', MirrorTrue', run' = run,
         Present \cup removed \subseteq Present' \cup removed',
         NEW a \in Calls, Alone(a), CallOK(a)'
  PROVE  ActionInv'
  <1>1. CallsKeep BY DEF CallsKeep, Alone
  <1>2. OnlyAskedIsRemoved' /\ Witnesses \subseteq Witnesses' BY <1>1, OnlyAskedKept DEF ActionInv
  <1>3. ASSUME NEW b \in Calls PROVE CallOK(b)'
    <2>1. CASE b = a BY <2>1
    <2>2. CASE b # a BY <1>2, <2>2, CallKept DEF ActionInv, Alone
    <2> QED BY <2>1, <2>2
  <1>4. RunOK' BY RunKept DEF ActionInv
  <1> QED BY <1>2, <1>3, <1>4 DEF ActionInv

-------------------------------------------------------------------------------
(* The mirror's rows: new ids from the sequence, and rows written in place.*)

LEMMA LastIdIsLast ==
  ASSUME IsFiniteSet(Existing)
  PROVE  LastId \in Nat /\ \A r \in Existing : r <= LastId
  <1> DEFINE T == Existing \cup {0}
  <1> DEFINE above(x) == {y \in T : y > x}
  <1> DEFINE F == {above(x) : x \in T}
  <1> DEFINE R == StrictSubsetOrdering(T)
  <1> DEFINE D == FiniteSubsetsOf(T)
  <1>1. T \subseteq Nat /\ IsFiniteSet(T)
    <2>1. T \subseteq Nat
      <3>1. Rows \subseteq Nat BY ActionConstants
      <3>2. Existing \subseteq Nat BY <3>1 DEF Existing
      <3> QED BY <3>2
    <2>2. IsFiniteSet(Existing \cup {0}) BY FS_AddElement
    <2> QED BY <2>1, <2>2
  <1>2. IsWellFoundedOn(R, D) BY FS_StrictSubsetOrderingWellFounded
  <1>3. F \subseteq D BY <1>1, FS_Subset DEF FiniteSubsetsOf
  <1>4. F # {} OBVIOUS
  <1>5. \E x \in F : \A y \in F : ~(<<y, x>> \in R)
    <2> HIDE DEF R, D, F
    <2> QED BY <1>2, <1>3, <1>4, WFMin
  <1>6. PICK m \in T : \A y \in F : ~(<<y, above(m)>> \in R) BY <1>5
  <1>7. ASSUME NEW x \in T PROVE x <= m
    <2> SUFFICES ASSUME x > m PROVE FALSE BY <1>1
    <2>1. above(x) \subseteq above(m) /\ m \in Nat /\ x \in Nat BY <1>1
    <2>2. x \in above(m) /\ x \notin above(x) BY <2>1
    <2>3. <<above(x), above(m)>> \in R BY <2>1, <2>2 DEF StrictSubsetOrdering
    <2> QED BY <1>6, <2>3
  <1>8. \E n \in T : \A r \in Existing : r <= n BY <1>7
  <1>9. LastId \in T /\ \A r \in Existing : r <= LastId BY <1>8 DEF LastId
  <1> QED BY <1>1, <1>9

NewOf(es) == {e \in es : RowAt(PlaceOf(e)) = {}}
IdsNew(es) ==
  /\ NewIds(es) = [e \in NewOf(es) |-> LastId + 1 + RankIn(NewOf(es), e.uid)]
  /\ \A e \in NewOf(es) : /\ NewIds(es)[e] \in Nat \ {0} /\ NewIds(es)[e] \notin Existing
                          /\ NewIds(es)[e] <= LastId + 1 + Cardinality(NewOf(es))
  /\ \A d, e \in NewOf(es) : NewIds(es)[d] = NewIds(es)[e] => d = e
  /\ IsFiniteSet(NewOf(es)) /\ Cardinality(NewOf(es)) \in Nat
LEMMA IdsAreNew ==
  ASSUME ActionTypeOK, UidsOnce, IsFiniteSet(Existing), NEW es, Together(es)
  PROVE  IdsNew(es)
  <1> DEFINE new == NewOf(es)
  <1>0. es \in SUBSET box /\ \A d, e \in es : d.folder = e.folder BY DEF Together
  <1>1. NewIds(es) = [e \in new |-> LastId + 1 + RankIn(new, e.uid)] BY DEF NewIds, NewOf, RankIn
  <1>2. new \subseteq box /\ IsFiniteSet(new) BY <1>0, FS_Subset DEF NewOf, UidsOnce
  <1>3. \A e \in new : e.uid \in Nat BY <1>2 DEF ActionTypeOK, Entries
  <1>4. LastId \in Nat /\ (\A r \in Existing : r <= LastId) /\ Existing \subseteq Nat
    BY LastIdIsLast, ActionConstants DEF Existing
  <1>5. Cardinality(new) \in Nat BY <1>2, FS_CardinalityType
  <1>6. ASSUME NEW e \in new
        PROVE  RankIn(new, e.uid) \in Nat /\ RankIn(new, e.uid) <= Cardinality(new)
    BY <1>2, RankTypes
  <1>7. ASSUME NEW d \in new, NEW e \in new, RankIn(new, d.uid) = RankIn(new, e.uid) PROVE d = e
    <2>1. d.uid = e.uid BY <1>2, <1>3, <1>7, RankOrders
    <2>2. d.folder = e.folder BY <1>0 DEF NewOf
    <2> QED BY <1>2, <2>1, <2>2 DEF UidsOnce
  <1> HIDE DEF new
  <1>8. \A e \in new : NewIds(es)[e] = LastId + 1 + RankIn(new, e.uid) BY <1>1
  <1>9. \A e \in new : NewIds(es)[e] \in Nat \ {0} /\ NewIds(es)[e] \notin Existing
                      /\ NewIds(es)[e] <= LastId + 1 + Cardinality(new)
    BY <1>4, <1>5, <1>6, <1>8
  <1>10. \A d, e \in new : NewIds(es)[d] = NewIds(es)[e] => d = e
    <2> SUFFICES ASSUME NEW d \in new, NEW e \in new, NewIds(es)[d] = NewIds(es)[e] PROVE d = e OBVIOUS
    <2>1. RankIn(new, d.uid) = RankIn(new, e.uid) BY <1>4, <1>6, <1>8
    <2> QED BY <1>7, <2>1
  <1> QED BY <1>1, <1>2, <1>5, <1>9, <1>10 DEF IdsNew, new

(* R is the mirror with a row for the mail of es where there was none.     *)
RowsPlus(R, es) ==
  /\ R \in [Rows -> MessageRows \cup {NoRow}]
  /\ \A r \in Existing : /\ R[r] # NoRow /\ R[r].at = rows[r].at /\ R[r].mail = rows[r].mail /\ R[r].live = rows[r].live
                         /\ R[r].body = rows[r].body /\ R[r].text = rows[r].text
  /\ \A r \in Rows \ Existing : R[r] = NoRow \/ \E e \in es : R[r] = Fresh(e) /\ RowAt(PlaceOf(e)) = {}
  /\ \A r, s \in Rows \ Existing : R[r] # NoRow /\ R[s] # NoRow /\ R[r].at = R[s].at => r = s
  /\ IsFiniteSet({r \in Rows : R[r] # NoRow})
AllHaveRows(R, es) == \A e \in es : \E r \in Rows : R[r] # NoRow /\ R[r].at = PlaceOf(e) /\ R[r].live

LEMMA NothingPlus ==
  ASSUME ActionTypeOK, RowsKnown
  PROVE  RowsPlus(rows, {})
  <1>1. {r \in Rows : rows[r] # NoRow} = Existing BY DEF Existing
  <1> QED BY <1>1 DEF RowsPlus, ActionTypeOK, RowsKnown, Existing

LEMMA FreshRow ==
  ASSUME ActionTypeOK, NEW e \in box
  PROVE  /\ PlaceOf(e) \in Places /\ PlaceOf(e).folder = e.folder /\ PlaceOf(e).gen = gen[e.folder] /\ PlaceOf(e).uid = e.uid
         /\ e \in Held(PlaceOf(e))
         /\ Fresh(e) \in MessageRows /\ Fresh(e) # NoRow /\ Fresh(e).at = PlaceOf(e) /\ Fresh(e).mail = e.mail
         /\ Fresh(e).live /\ Fresh(e).body = "none" /\ Fresh(e).text = NoMail
  <1>1. e.folder \in Folders /\ e.uid \in Nat /\ e.mail \in Mails /\ gen[e.folder] \in Nat BY DEF ActionTypeOK, Entries
  <1>2. PlaceOf(e) \in Places /\ PlaceOf(e).folder = e.folder /\ PlaceOf(e).gen = gen[e.folder] /\ PlaceOf(e).uid = e.uid
    BY <1>1 DEF PlaceOf, Place, Places
  <1>3. e \in Held(PlaceOf(e)) BY DEF Held
  <1>4. (e.mail \in flagged) \in BOOLEAN OBVIOUS
  <1>5. Fresh(e) \in MessageRows BY <1>1, <1>2, <1>4 DEF Fresh, MessageRows
  <1> QED BY <1>2, <1>3, <1>5, ActionConstants DEF Fresh
  
Again(r) == [rows[r] EXCEPT !.live = TRUE, !.seen = rows[r].mail \in flagged]
LEMMA UpsertedRows ==
  ASSUME ActionInv, NEW es, Together(es)
  PROVE  RowsPlus(Upserted(es), es) /\ (Rows = Nat \ {0} => AllHaveRows(Upserted(es), es))
  <1> DEFINE new == NewOf(es)
  <1> DEFINE id == NewIds(es)
  <1> DEFINE R == Upserted(es)
  <1>0. ActionTypeOK /\ UidsOnce /\ RowsKnown /\ MirrorTrue /\ es \subseteq box /\ IsFiniteSet(Existing)
    BY DEF ActionInv, Together, RowsKnown
  <1>1. IdsNew(es) BY <1>0, IdsAreNew
  <1>2. /\ DOMAIN id = new /\ \A d, e \in new : id[d] = id[e] => d = e
        /\ \A e \in new : id[e] \in Nat \ {0} /\ id[e] \notin Existing /\ id[e] <= LastId + 1 + Cardinality(new)
        /\ Cardinality(new) \in Nat
    BY <1>1 DEF IdsNew
  <1>3. new \subseteq es /\ \A e \in new : RowAt(PlaceOf(e)) = {} BY DEF NewOf
  <1> HIDE DEF new, id
  <1>4. R = [r \in Rows |-> IF \E e \in es : r \in RowAt(PlaceOf(e)) THEN Again(r)
                     ELSE IF \E e \in new : id[e] = r THEN Fresh(CHOOSE e \in new : id[e] = r) ELSE rows[r]]
    BY <1>2 DEF Upserted, Again, id
  <1>5. ASSUME NEW r \in Existing
        PROVE  /\ rows[r] \in MessageRows
               /\ R[r] = rows[r] \/ (R[r] = Again(r) /\ rows[r].live)
    <2>1. r \in Rows /\ rows[r] \in MessageRows BY <1>0 DEF ActionTypeOK, Existing
    <2>2. ~ \E e \in new : id[e] = r BY <1>2
    <2>3. CASE \E e \in es : r \in RowAt(PlaceOf(e))
      <3>1. PICK e \in es : rows[r].at = PlaceOf(e) BY <2>3 DEF RowAt
      <3>2. e \in Held(rows[r].at) BY <1>0, <3>1 DEF Held
      <3>3. r \in LiveRows BY <1>0, <3>2 DEF MirrorTrue, GoneIsGone
      <3>4. R[r] = Again(r) BY <1>4, <2>1, <2>3
      <3> QED BY <2>1, <3>3, <3>4 DEF LiveRows
    <2>4. CASE ~ \E e \in es : r \in RowAt(PlaceOf(e)) BY <1>4, <2>1, <2>2, <2>4
    <2> QED BY <2>1, <2>3, <2>4
  <1>6. ASSUME NEW r \in Existing
        PROVE  /\ R[r] \in MessageRows /\ R[r] # NoRow
               /\ R[r].at = rows[r].at /\ R[r].mail = rows[r].mail /\ R[r].live = rows[r].live
               /\ R[r].body = rows[r].body /\ R[r].text = rows[r].text
    <2>1. PICK s : s = (rows[r].mail \in flagged) OBVIOUS
    <2>2. s \in BOOLEAN BY <2>1
    <2>3. Again(r) = [rows[r] EXCEPT !.live = TRUE, !.seen = s] BY <2>1 DEF Again
    <2>4. rows[r] \in MessageRows /\ (R[r] = rows[r] \/ (R[r] = Again(r) /\ rows[r].live)) BY <1>5
    <2>5. CASE R[r] = rows[r] BY <2>4, <2>5, ActionConstants
    <2>6. CASE R[r] = Again(r) /\ rows[r].live
      <3>1. R[r] \in MessageRows BY <2>2, <2>3, <2>4, <2>6 DEF MessageRows
      <3>2. R[r] # NoRow BY <3>1, ActionConstants
      <3> QED BY <2>3, <2>4, <2>6, <3>1, <3>2 DEF MessageRows
    <2> QED BY <2>4, <2>5, <2>6
  <1>7. ASSUME NEW r \in Rows \ Existing
        PROVE  R[r] = NoRow \/ \E e \in new : id[e] = r /\ R[r] = Fresh(e)
    <2>1. ~ \E e \in es : r \in RowAt(PlaceOf(e)) BY DEF RowAt
    <2>2. CASE \E e \in new : id[e] = r
      <3>1. PICK e \in new : id[e] = r BY <2>2
      <3>2. (CHOOSE d \in new : id[d] = r) = e BY <1>2, <3>1
      <3> QED BY <1>4, <2>1, <2>2, <3>1, <3>2
    <2>3. CASE ~ \E e \in new : id[e] = r BY <1>4, <2>1, <2>3 DEF Existing
    <2> QED BY <2>2, <2>3
  <1>8. R \in [Rows -> MessageRows \cup {NoRow}]
    <2>1. ASSUME NEW r \in Rows PROVE R[r] \in MessageRows \cup {NoRow}
      <3>1. CASE r \in Existing BY <1>6, <3>1
      <3>2. CASE r \notin Existing BY <1>0, <1>3, <1>7, <3>2, FreshRow
      <3> QED BY <3>1, <3>2
    <2> QED BY <1>4, <2>1
  <1>9. \A r \in Rows \ Existing : R[r] = NoRow \/ \E e \in es : R[r] = Fresh(e) /\ RowAt(PlaceOf(e)) = {}
    BY <1>3, <1>7
  <1>10. ASSUME NEW r \in Rows \ Existing, NEW s \in Rows \ Existing, R[r] # NoRow, R[s] # NoRow, R[r].at = R[s].at
         PROVE  r = s
    <2>1. PICK d \in new : id[d] = r /\ R[r] = Fresh(d) BY <1>7, <1>10
    <2>2. PICK e \in new : id[e] = s /\ R[s] = Fresh(e) BY <1>7, <1>10
    <2>3. PlaceOf(d) = PlaceOf(e) /\ d \in box /\ e \in box BY <1>0, <1>3, <1>10, <2>1, <2>2, FreshRow
    <2>4. d.folder = e.folder /\ d.uid = e.uid BY <2>3 DEF PlaceOf, Place
    <2> QED BY <1>0, <2>1, <2>2, <2>3, <2>4 DEF UidsOnce
  <1>11. IsFiniteSet({r \in Rows : R[r] # NoRow})
    <2> DEFINE S == {r \in Rows : R[r] # NoRow}
    <2> DEFINE n == LastId + 1 + Cardinality(new)
    <2>1. LastId \in Nat /\ \A r \in Existing : r <= LastId BY <1>0, LastIdIsLast
    <2>2. n \in Nat BY <1>2, <2>1
    <2>3. S \in SUBSET Nat BY ActionConstants
    <2>4. ASSUME NEW r \in S PROVE r <= n
      <3>1. CASE r \in Existing BY <1>2, <2>1, <2>3, <3>1
      <3>2. CASE r \notin Existing
        <4>1. \E e \in new : id[e] = r BY <1>7, <3>2
        <4> QED BY <1>2, <4>1
      <3> QED BY <3>1, <3>2
    <2> HIDE DEF n, S
    <2>5. IsFiniteSet(S) BY <2>2, <2>3, <2>4, FS_BoundedSetOfNaturals
    <2> QED BY <2>5 DEF S
  <1>12. ASSUME Rows = Nat \ {0}, NEW e \in es
         PROVE  \E r \in Rows : R[r] # NoRow /\ R[r].at = PlaceOf(e) /\ R[r].live
    <2>1. CASE RowAt(PlaceOf(e)) # {}
      <3>1. PICK r \in Existing : rows[r].at = PlaceOf(e) BY <2>1 DEF RowAt
      <3>2. e \in Held(rows[r].at) BY <1>0, <3>1 DEF Held
      <3>3. r \in LiveRows BY <1>0, <3>2 DEF MirrorTrue, GoneIsGone
      <3> QED BY <1>6, <3>1, <3>3 DEF LiveRows, Existing
    <2>2. CASE RowAt(PlaceOf(e)) = {}
      <3>1. e \in new BY <2>2 DEF NewOf, new
      <3>2. PICK r \in Rows \ Existing : r = id[e] BY <1>2, <1>12, <3>1
      <3>3. ~ \E d \in es : r \in RowAt(PlaceOf(d)) BY DEF RowAt
      <3>4. (CHOOSE d \in new : id[d] = r) = e BY <1>2, <3>1, <3>2
      <3>5. R[r] = Fresh(e) BY <1>4, <3>1, <3>2, <3>3, <3>4
      <3>6. Fresh(e) # NoRow /\ Fresh(e).at = PlaceOf(e) /\ Fresh(e).live BY <1>0, FreshRow
      <3> QED BY <3>5, <3>6
    <2> QED BY <2>1, <2>2
  <1> QED BY <1>6, <1>8, <1>9, <1>10, <1>11, <1>12 DEF RowsPlus, AllHaveRows

(* Rows of R are filled or tombstoned, and stay where they are.            *)
InPlace(R) ==
  /\ rows' \in [Rows -> MessageRows \cup {NoRow}]
  /\ \A r \in Rows :
       /\ rows'[r] = NoRow <=> R[r] = NoRow
       /\ R[r] # NoRow => /\ rows'[r].at = R[r].at /\ rows'[r].mail = R[r].mail
                          /\ rows'[r].live = R[r].live \/ (~rows'[r].live /\ Held(R[r].at) = {})
                          /\ rows'[r].body # "none" => rows'[r].text = R[r].mail
LEMMA RowsGrown ==
  ASSUME ActionInv, NEW es \in SUBSET box, \A e \in es : known[e.folder] = gen[e.folder], NEW R, RowsPlus(R, es), InPlace(R),
         UNCHANGED <<box, gen, next>>, known' \in [Folders -> Nat], \A f \in Folders : known[f] <= known'[f] /\ known'[f] <= gen[f]
  PROVE  RowsStay /\ RowsKnown' /\ MirrorTrue'
  <1>1. ActionTypeOK /\ UidsOnce /\ RowsKnown /\ MirrorTrue BY DEF ActionInv
  <1>2. \A p : Held(p)' = Held(p) /\ Issued(p)' = Issued(p) BY DEF Held, PlaceOf, Issued
  <1>3. \A r \in Existing : r \in Existing' /\ rows'[r].at = rows[r].at /\ rows'[r].mail = rows[r].mail
    BY DEF RowsPlus, InPlace, Existing
  <1>4. RowsStay BY <1>3 DEF RowsStay
  <1>5. ASSUME NEW r \in Existing', r \notin Existing
        PROVE  \E e \in es : /\ RowAt(PlaceOf(e)) = {} /\ rows'[r].at = PlaceOf(e) /\ rows'[r].mail = e.mail
                             /\ rows'[r].live \/ Held(PlaceOf(e)) = {}
    <2>1. r \in Rows /\ R[r] # NoRow BY <1>5 DEF InPlace, Existing
    <2>2. PICK e \in es : R[r] = Fresh(e) /\ RowAt(PlaceOf(e)) = {} BY <1>5, <2>1 DEF RowsPlus
    <2>3. R[r].at = PlaceOf(e) /\ R[r].mail = e.mail /\ R[r].live BY <1>1, <2>2, FreshRow
    <2>4. /\ rows'[r].at = R[r].at /\ rows'[r].mail = R[r].mail
          /\ rows'[r].live = R[r].live \/ (~rows'[r].live /\ Held(R[r].at) = {})
      BY <2>1 DEF InPlace
    <2> QED BY <2>2, <2>3, <2>4
  <1>6. \A r \in Existing' : rows'[r] \in MessageRows /\ rows'[r].at \in Places
    BY DEF InPlace, Existing, MessageRows
  <1>7. RowsKnown'
    <2>1. IsFiniteSet(Existing')
      <3>1. Existing' = {r \in Rows : R[r] # NoRow} BY DEF InPlace, Existing
      <3> QED BY <3>1 DEF RowsPlus
    <2>2. ASSUME NEW r \in Existing' PROVE Issued(rows'[r].at) /\ rows'[r].at.gen <= known'[rows'[r].at.folder]
      <3>1. PICK p : p = rows'[r].at OBVIOUS
      <3>2. p \in Places /\ p.folder \in Folders /\ p.gen \in Nat BY <1>6, <3>1 DEF Places
      <3>3. Issued(p) /\ p.gen <= known[p.folder]
        <4>1. CASE r \in Existing BY <1>1, <1>3, <3>1, <4>1 DEF RowsKnown
        <4>2. CASE r \notin Existing
          <5>1. PICK e \in es : p = PlaceOf(e) BY <1>5, <3>1, <4>2
          <5>2. e \in box /\ known[e.folder] = gen[e.folder] OBVIOUS
          <5>3. p.folder = e.folder /\ p.gen = gen[e.folder] /\ p.uid = e.uid BY <1>1, <5>1, <5>2, FreshRow
          <5>4. gen[e.folder] \in Nat BY <1>1, <5>2 DEF ActionTypeOK, Entries
          <5> QED BY <1>1, <5>2, <5>3, <5>4 DEF Issued, UidsOnce
        <4> QED BY <4>1, <4>2
      <3>4. known[p.folder] \in Nat /\ known'[p.folder] \in Nat /\ known[p.folder] <= known'[p.folder]
        BY <1>1, <3>2 DEF ActionTypeOK
      <3>5. p.gen <= known'[p.folder] BY <3>2, <3>3, <3>4
      <3> QED BY <1>2, <3>1, <3>3, <3>5
    <2>3. \A f \in Folders : known'[f] <= gen'[f] OBVIOUS
    <2> QED BY <2>1, <2>2, <2>3 DEF RowsKnown, Issued
  <1>8. IdsKeepTheirMail'
    <2>1. ASSUME NEW r \in LiveRows', NEW e \in Held(rows'[r].at) PROVE e.mail = rows'[r].mail
      <3>0. r \in Existing' /\ rows'[r].live /\ e \in Held(rows'[r].at) BY <1>2, <2>1 DEF LiveRows
      <3>1. CASE r \in Existing
        <4>1. r \in LiveRows \/ Held(rows[r].at) = {} BY <1>1, <3>1 DEF MirrorTrue, GoneIsGone
        <4> QED BY <1>1, <1>3, <3>0, <3>1, <4>1 DEF MirrorTrue, IdsKeepTheirMail
      <3>2. CASE r \notin Existing
        <4>1. PICK d \in es : rows'[r].at = PlaceOf(d) /\ rows'[r].mail = d.mail BY <1>5, <3>0, <3>2
        <4>2. e \in box /\ PlaceOf(e) = PlaceOf(d) BY <3>0, <4>1 DEF Held
        <4>3. e.folder = d.folder /\ e.uid = d.uid BY <4>2 DEF PlaceOf, Place
        <4> QED BY <1>1, <4>1, <4>2, <4>3 DEF UidsOnce
      <3> QED BY <3>1, <3>2
    <2>2. ASSUME NEW r \in Existing', NEW s \in Existing', rows'[r].at = rows'[s].at PROVE r = s
      <3>1. CASE r \in Existing /\ s \in Existing BY <1>1, <1>3, <2>2, <3>1 DEF MirrorTrue, IdsKeepTheirMail
      <3>2. CASE r \in Existing /\ s \notin Existing BY <1>3, <1>5, <2>2, <3>2 DEF RowAt
      <3>3. CASE r \notin Existing /\ s \in Existing BY <1>3, <1>5, <2>2, <3>3 DEF RowAt
      <3>4. CASE r \notin Existing /\ s \notin Existing BY <2>2, <3>4 DEF InPlace, RowsPlus, Existing
      <3> QED BY <3>1, <3>2, <3>3, <3>4
    <2> QED BY <1>2, <2>1, <2>2 DEF IdsKeepTheirMail, Held, PlaceOf
  <1>9. GoneIsGone'
    <2> SUFFICES ASSUME NEW r \in Existing', ~rows'[r].live PROVE Held(rows'[r].at) = {}
      BY <1>2 DEF GoneIsGone, LiveRows
    <2>1. CASE r \in Existing
      <3>1. R[r] # NoRow /\ R[r].live = rows[r].live /\ R[r].at = rows[r].at BY <2>1 DEF RowsPlus
      <3>2. rows'[r].live = R[r].live \/ Held(R[r].at) = {} BY <3>1 DEF InPlace, Existing
      <3> QED BY <1>1, <1>3, <2>1, <3>1, <3>2 DEF MirrorTrue, GoneIsGone, LiveRows
    <2>2. CASE r \notin Existing
      <3>1. PICK d \in es : rows'[r].at = PlaceOf(d) /\ (rows'[r].live \/ Held(PlaceOf(d)) = {}) BY <1>5, <2>2
      <3> QED BY <3>1
    <2> QED BY <2>1, <2>2
  <1>10. BodiesAreTheirs' BY DEF BodiesAreTheirs, InPlace, Existing
  <1> QED BY <1>4, <1>7, <1>8, <1>9, <1>10 DEF MirrorTrue

-------------------------------------------------------------------------------
(* The provider's own steps, and the body run's.                           *)

LEMMA ElsewhereStep ==
  ASSUME ActionInv, Elsewhere
  PROVE  /\ ActionInv'
         /\ \A f \in Folders \ foreign' : \A e \in Entries : e.folder = f => (e \in box' <=> e \in box)
  <1>1. PICK e \in box :
          \/ \E dest \in Folders \ {e.folder} :
               /\ box' = (box \ {e}) \cup MovedTo({e}, dest) /\ next' = [next EXCEPT ![dest] = @ + 1]
               /\ foreign' = foreign \cup {e.folder, dest} /\ UNCHANGED removed
          \/ box' = box \ {e} /\ removed' = removed \cup {e.mail} /\ foreign' = foreign \cup {e.folder} /\ UNCHANGED next
    BY DEF Elsewhere
  <1>2. UNCHANGED <<gen, flagged, rows, known, due, lock, call, run>> BY DEF Elsewhere, mirror
  <1>3. ActionTypeOK /\ UidsOnce /\ RowsKnown /\ MirrorTrue /\ RunOK /\ box \in SUBSET Entries BY DEF ActionInv, ActionTypeOK
  <1>4. e.folder \in Folders /\ e.mail \in Mails BY <1>3 DEF Entries
  <1>5. /\ box' \in SUBSET Entries /\ next' \in [Folders -> Nat] /\ UidsOnce' /\ Steady
        /\ Present \cup removed \subseteq Present' \cup removed' /\ foreign' \subseteq Folders /\ removed' \subseteq Mails
        /\ \A f \in Folders \ foreign' : \A d \in Entries : d.folder = f => (d \in box' <=> d \in box)
    <2>1. ASSUME NEW dest \in Folders, box' = (box \ {e}) \cup MovedTo({e}, dest), next' = [next EXCEPT ![dest] = @ + 1],
                 foreign' = foreign \cup {e.folder, dest}, UNCHANGED removed
          PROVE  <1>5
      <3>1. Together({e}) BY DEF Together
      <3>2. Cardinality({e}) = 1 BY FS_Singleton
      <3>3. /\ box' \in SUBSET Entries /\ next' \in [Folders -> Nat] /\ UidsOnce' /\ Steady /\ Present' = Present
        BY <1>2, <1>3, <2>1, <3>1, <3>2, MailMoves
      <3>4. \A d \in MovedTo({e}, dest) : d.folder = dest BY <1>3, <3>1, MovedMail DEF Numbered
      <3> QED BY <1>3, <1>4, <2>1, <3>3, <3>4 DEF ActionTypeOK
    <2>2. ASSUME box' = box \ {e}, removed' = removed \cup {e.mail}, foreign' = foreign \cup {e.folder}, UNCHANGED next
          PROVE  <1>5
      <3>1. box' \in SUBSET Entries /\ UidsOnce' /\ Steady BY <1>2, <1>3, <2>2, MailGoes
      <3>2. Present \subseteq Present' \cup {e.mail} BY <2>2 DEF Present
      <3> QED BY <1>3, <1>4, <2>2, <3>1, <3>2 DEF ActionTypeOK
    <2> QED BY <1>1, <2>1, <2>2
  <1>6. ActionTypeOK' BY <1>2, <1>3, <1>5 DEF ActionTypeOK
  <1>7. RowsStay /\ RowsKnown' /\ MirrorTrue' BY <1>2, <1>3, <1>5, RowsFrame DEF ActionTypeOK
  <1>8. RunOK' BY <1>2, <1>3, <1>5, <1>7, RunKept
  <1>9. ActionInv' BY <1>2, <1>5, <1>6, <1>7, <1>8, Passive
  <1> QED BY <1>5, <1>9

LEMMA RenumberKeeps ==
  ASSUME ActionInv, Renumber
  PROVE  ActionInv'
  <1>1. UNCHANGED <<rows, known, due, lock, call, run, removed>> BY DEF Renumber, mirror
  <1>2. ActionTypeOK /\ UidsOnce /\ RowsKnown /\ MirrorTrue /\ RunOK BY DEF ActionInv
  <1>3. ActionTypeOK' /\ UidsOnce' /\ Steady /\ Present' = Present /\ \A f \in Folders : gen[f] <= gen'[f]
    BY <1>2, RenumberStep
  <1>4. RowsStay /\ RowsKnown' /\ MirrorTrue' BY <1>1, <1>2, <1>3, RowsFrame DEF ActionTypeOK
  <1>5. RunOK' BY <1>1, <1>2, <1>3, <1>4, RunKept
  <1> QED BY <1>1, <1>3, <1>4, <1>5, Passive

LEMMA LiveTrue ==
  ASSUME ActionInv, NEW r \in LiveRows
  PROVE  /\ r \in Rows /\ rows[r] \in MessageRows /\ rows[r] # NoRow /\ rows[r].at \in Places /\ rows[r].mail \in Mails
         /\ TrueOf(r, rows[r].at)
  <1>1. ActionTypeOK /\ RowsKnown /\ MirrorTrue BY DEF ActionInv
  <1>2. r \in Existing /\ rows[r] \in MessageRows /\ r \in Rows BY <1>1 DEF LiveRows, Existing, ActionTypeOK
  <1>3. rows[r].at \in Places /\ rows[r].mail \in Mails BY <1>2 DEF MessageRows
  <1>4. TrueOf(r, rows[r].at) BY <1>1, <1>2 DEF TrueOf, RowsKnown, MirrorTrue, IdsKeepTheirMail, Existing
  <1> QED BY <1>2, <1>3, <1>4 DEF Existing

LEMMA BodyRunKeeps ==
  ASSUME ActionInv, Bodies \/ BodyStops
  PROVE  ActionInv' /\ UNCHANGED <<box, gen, rows, known, due, foreign, lock>>
  <1>1. UNCHANGED <<box, gen, next, flagged, rows, known, due, lock, call, foreign, removed>>
    BY DEF Bodies, BodyStart, downloadBodyUnit, BodyStops, mailbox, mirror, history
  <1>2. ActionTypeOK /\ UidsOnce /\ RowsKnown /\ MirrorTrue /\ RunOK BY DEF ActionInv
  <1>3. run \in RunRecords BY <1>2 DEF ActionTypeOK
  <1>4. run' \in RunRecords /\ RunOK'
    <2>1. CASE run' = NoRun BY <2>1 DEF NoRun, RunRecords, RunOK
    <2>2. CASE BodyStart
      <3>1. PICK ids \in SUBSET Backlog : run' = [NoRun EXCEPT !.pc = "fetch", !.unit = Targets(ids)]
        BY <2>2 DEF BodyStart, RunBecomes
      <3>2. run' = [pc |-> "fetch", unit |-> Targets(ids), got |-> {}] BY <3>1 DEF NoRun
      <3>3. \A r \in ids : r \in LiveRows BY DEF Backlog
      <3>4. \A t \in Targets(ids) : \E r \in LiveRows : t = [id |-> r, at |-> rows[r].at] BY <3>3 DEF Targets
      <3>5. ASSUME NEW t \in Targets(ids) PROVE t \in TargetRecords /\ TrueOf(t.id, t.at)
        <4>1. PICK r \in LiveRows : t = [id |-> r, at |-> rows[r].at] BY <3>4
        <4> QED BY <4>1, LiveTrue DEF TargetRecords
      <3>6. \A t \in Targets(ids) : TrueOf(t.id, t.at)' BY <1>1, <3>5 DEF TrueOf, Issued, Held, PlaceOf
      <3> QED BY <3>2, <3>5, <3>6 DEF RunRecords, RunOK
    <2>3. ASSUME downloadBodyUnit, run' # NoRun PROVE run' \in RunRecords /\ RunOK'
      <3>1. PICK t \in run.unit :
              run' = [run EXCEPT !.unit = @ \ {t}, !.got = @ \cup {fetchFullMessageBody(t)},
                                 !.pc = IF run.unit = {t} THEN "commit" ELSE "fetch"]
        BY <2>3 DEF downloadBodyUnit, RunBecomes
      <3> DEFINE g == fetchFullMessageBody(t)
      <3>2. run.unit \subseteq TargetRecords /\ run.got \subseteq FetchedRecords BY <1>3 DEF RunRecords
      <3>3. t.id \in Rows /\ t.at \in Places /\ TrueOf(t.id, t.at) BY <1>2, <3>2 DEF TargetRecords, RunOK
      <3>4. /\ g.id = t.id /\ g.at = t.at /\ g \in FetchedRecords
            /\ IF g.mail = NoMail THEN Held(t.at) = {} ELSE rows[t.id].mail = g.mail
        <4>1. CASE Held(t.at) = {}
          <5>1. g = [id |-> t.id, at |-> t.at, mail |-> NoMail] BY <4>1 DEF fetchFullMessageBody
          <5> QED BY <3>3, <4>1, <5>1 DEF FetchedRecords
        <4>2. CASE Held(t.at) # {}
          <5>1. PICK e \in Held(t.at) : e = CHOOSE d \in Held(t.at) : TRUE BY <4>2
          <5>2. g = [id |-> t.id, at |-> t.at, mail |-> e.mail] BY <4>2, <5>1 DEF fetchFullMessageBody
          <5>3. e.mail = rows[t.id].mail /\ e \in box BY <3>3, <5>1 DEF TrueOf, Held
          <5>4. e.mail \in Mails /\ e.mail # NoMail BY <1>2, <5>3, ActionConstants DEF ActionTypeOK, Entries
          <5> QED BY <3>3, <5>2, <5>3, <5>4 DEF FetchedRecords
        <4> QED BY <4>1, <4>2
      <3> HIDE DEF g
      <3>5. /\ run' \in RunRecords /\ run'.unit \subseteq run.unit /\ run'.got = run.got \cup {g}
        BY <1>3, <3>1, <3>4 DEF RunRecords, g
      <3>6. \A x \in run'.unit : TrueOf(x.id, x.at)' BY <1>1, <1>2, <3>5 DEF RunOK, TrueOf, Issued, Held, PlaceOf
      <3>7. \A h \in run'.got : /\ rows[h.id] # NoRow /\ Issued(h.at)
                                /\ IF h.mail = NoMail THEN Held(h.at) = {} ELSE rows[h.id].mail = h.mail
        BY <1>2, <3>3, <3>4, <3>5 DEF RunOK, TrueOf
      <3>8. RunOK' BY <1>1, <3>6, <3>7 DEF RunOK, Issued, Held, PlaceOf
      <3> QED BY <3>5, <3>8
    <2> QED BY <2>1, <2>2, <2>3 DEF Bodies, BodyStops, RunBecomes
  <1>5. ActionTypeOK' BY <1>1, <1>2, <1>4 DEF ActionTypeOK
  <1>6. Steady /\ UidsOnce' /\ Present' = Present BY <1>1, <1>2, Still
  <1>7. RowsStay /\ RowsKnown' /\ MirrorTrue' BY <1>1, <1>2, <1>6, RowsFrame DEF ActionTypeOK
  <1>8. ActionInv' BY <1>1, <1>4, <1>5, <1>6, <1>7, Passive
  <1> QED BY <1>1, <1>8

(* Filling a row leaves it where it is.                                    *)
Stages == {"none", "evidence", "stored", "done"}
LEMMA FilledRow ==
  ASSUME NEW row \in MessageRows, NEW stage \in Stages, NEW m \in Mails
  PROVE  LET new == Filled(row, stage, m) IN
         /\ new \in MessageRows /\ new # NoRow /\ new.at = row.at /\ new.mail = row.mail /\ new.live = row.live
         /\ new = row \/ new.text = m
  <1> DEFINE new == Filled(row, stage, m)
  <1>1. new = row \/ \E b \in {"evidence", "stored", "done"} : new = [row EXCEPT !.body = b, !.text = m]
    <2>1. CASE stage = "none" BY <2>1 DEF Filled
    <2>2. CASE stage = "evidence" BY <2>2 DEF Filled, storeBodyEvidence
    <2>3. CASE stage = "stored" BY <2>3 DEF Filled, storeBodyEvidence, storeBodyPayload, MessageRows
    <2>4. CASE stage = "done" BY <2>4 DEF Filled, storeBodyEvidence, storeBodyPayload, completeBodyStorage, MessageRows
    <2> QED BY <2>1, <2>2, <2>3, <2>4 DEF Stages
  <1>2. new \in MessageRows /\ new.at = row.at /\ new.mail = row.mail /\ new.live = row.live /\ (new = row \/ new.text = m)
    BY <1>1 DEF MessageRows
  <1> QED BY <1>2, ActionConstants

(* Rows that stay where they are.                                          *)
LEMMA RowsStayPut ==
  ASSUME ActionInv, InPlace(rows), UNCHANGED <<box, gen, next>>, known' \in [Folders -> Nat],
         \A f \in Folders : known[f] <= known'[f] /\ known'[f] <= gen[f]
  PROVE  RowsStay /\ RowsKnown' /\ MirrorTrue'
  <1>1. RowsPlus(rows, {}) BY NothingPlus DEF ActionInv
  <1>2. \A e \in {} : known[e.folder] = gen[e.folder] OBVIOUS
  <1> QED BY <1>1, <1>2, RowsGrown

LEMMA CommitKeeps ==
  ASSUME ActionInv, commitBodies
  PROVE  /\ ActionInv' /\ UNCHANGED <<box, gen, known, due, foreign, lock>>
         /\ \A r \in LiveRows : r \in LiveRows' \/ Held(rows[r].at) = {}
         /\ \A r \in Rows : (rows'[r] = NoRow <=> rows[r] = NoRow) /\ (rows'[r] # NoRow => rows'[r].at = rows[r].at)
         /\ LiveRows' \subseteq LiveRows
  <1> DEFINE gone == {g.id : g \in {h \in run.got : markMessageGone(h)}}
  <1> DEFINE good == {g \in run.got : Storable(g)}
  <1>1. PICK cut \in SUBSET good : \E stage \in {"evidence", "stored"} :
          rows' = [r \in Rows |->
               IF r \in gone THEN [rows[r] EXCEPT !.live = FALSE]
               ELSE IF \E g \in good : g.id = r
               THEN LET g == CHOOSE h \in good : h.id = r IN Filled(rows[r], IF g \in cut THEN stage ELSE "done", g.mail)
               ELSE rows[r]]
    BY DEF commitBodies
  <1>2. PICK stage \in {"evidence", "stored"} :
          rows' = [r \in Rows |->
               IF r \in gone THEN [rows[r] EXCEPT !.live = FALSE]
               ELSE IF \E g \in good : g.id = r
               THEN LET g == CHOOSE h \in good : h.id = r IN Filled(rows[r], IF g \in cut THEN stage ELSE "done", g.mail)
               ELSE rows[r]]
    BY <1>1
  <1>3. UNCHANGED <<box, gen, next, flagged, known, due, lock, call, foreign, removed>> /\ run' = NoRun
    BY DEF commitBodies, RunBecomes, mailbox, history
  <1>4. ActionTypeOK /\ UidsOnce /\ RowsKnown /\ MirrorTrue /\ RunOK BY DEF ActionInv
  <1>5. run.got \subseteq FetchedRecords BY <1>4 DEF ActionTypeOK, RunRecords
  <1>6. ASSUME NEW r \in gone PROVE r \in LiveRows /\ Held(rows[r].at) = {}
    <2>1. PICK g \in run.got : g.id = r /\ markMessageGone(g) OBVIOUS
    <2>2. g.mail = NoMail /\ r \in LiveRows /\ rows[r].at = g.at BY <2>1 DEF markMessageGone
    <2>3. Held(g.at) = {} BY <1>4, <2>1, <2>2 DEF RunOK
    <2> QED BY <2>2, <2>3
  <1>7. ASSUME NEW g \in good PROVE g.id \in LiveRows /\ g.mail = rows[g.id].mail /\ g.mail \in Mails
    <2>1. g \in run.got /\ g.mail # NoMail /\ g.id \in LiveRows BY DEF Storable, Backlog
    <2> QED BY <1>4, <1>5, <2>1 DEF RunOK, FetchedRecords
  <1> HIDE DEF gone, good
  <1>8. ASSUME NEW r \in Rows
        PROVE  /\ rows'[r] \in MessageRows \cup {NoRow} /\ (rows'[r] = NoRow <=> rows[r] = NoRow)
               /\ rows[r] # NoRow => /\ rows'[r].at = rows[r].at /\ rows'[r].mail = rows[r].mail
                                     /\ rows'[r].live = rows[r].live
                                        \/ (~rows'[r].live /\ rows[r].live /\ Held(rows[r].at) = {})
                                     /\ rows'[r].body # "none" => rows'[r].text = rows[r].mail
    <2>0. rows[r] # NoRow => rows[r] \in MessageRows /\ (rows[r].body # "none" => rows[r].text = rows[r].mail)
      BY <1>4 DEF ActionTypeOK, MirrorTrue, BodiesAreTheirs, Existing
    <2>1. CASE r \in gone
      <3>1. rows[r].live /\ rows[r] # NoRow /\ Held(rows[r].at) = {} BY <1>6, <2>1 DEF LiveRows, Existing
      <3>2. rows'[r] = [rows[r] EXCEPT !.live = FALSE] BY <1>2, <2>1
      <3>3. rows'[r] \in MessageRows BY <2>0, <3>1, <3>2 DEF MessageRows
      <3>4. rows'[r] # NoRow BY <3>3, ActionConstants
      <3> QED BY <2>0, <3>1, <3>2, <3>3, <3>4 DEF MessageRows
    <2>2. CASE r \notin gone /\ \E g \in good : g.id = r
      <3>1. PICK g \in good : g.id = r /\ g = CHOOSE h \in good : h.id = r BY <2>2
      <3>2. PICK b \in Stages : b = IF g \in cut THEN stage ELSE "done" BY DEF Stages
      <3>3. rows'[r] = Filled(rows[r], b, g.mail) BY <1>2, <2>2, <3>1, <3>2
      <3>4. rows[r] # NoRow /\ g.mail \in Mails /\ g.mail = rows[r].mail BY <1>7, <3>1 DEF LiveRows, Existing
      <3>5. /\ rows'[r] \in MessageRows /\ rows'[r] # NoRow /\ rows'[r].at = rows[r].at /\ rows'[r].mail = rows[r].mail
            /\ rows'[r].live = rows[r].live /\ (rows'[r] = rows[r] \/ rows'[r].text = g.mail)
        BY <2>0, <3>2, <3>3, <3>4, FilledRow
      <3> QED BY <2>0, <3>4, <3>5
    <2>3. CASE r \notin gone /\ ~ \E g \in good : g.id = r
      <3>1. rows'[r] = rows[r] BY <1>2, <2>3
      <3> QED BY <1>4, <2>0, <3>1 DEF ActionTypeOK
    <2> QED BY <2>1, <2>2, <2>3
  <1>9. rows' \in [Rows -> MessageRows \cup {NoRow}]
    <2>1. DOMAIN rows' = Rows /\ rows' = [r \in Rows |-> rows'[r]] BY <1>2
    <2> QED BY <1>8, <2>1
  <1>10. InPlace(rows) BY <1>8, <1>9 DEF InPlace
  <1>11. known' \in [Folders -> Nat] /\ \A f \in Folders : known[f] <= known'[f] /\ known'[f] <= gen[f]
    BY <1>3, <1>4 DEF ActionTypeOK, RowsKnown
  <1>12. RowsStay /\ RowsKnown' /\ MirrorTrue' BY <1>3, <1>10, <1>11, RowsStayPut
  <1>13. run' \in RunRecords /\ RunOK' BY <1>3 DEF NoRun, RunRecords, RunOK
  <1>14. ActionTypeOK' BY <1>3, <1>4, <1>9, <1>13 DEF ActionTypeOK
  <1>15. Steady /\ UidsOnce' /\ Present' = Present BY <1>3, <1>4, Still
  <1>16. ActionInv' BY <1>3, <1>12, <1>13, <1>14, <1>15, Passive
  <1>17. \A r \in LiveRows : r \in LiveRows' \/ Held(rows[r].at) = {} BY <1>8 DEF LiveRows, Existing
  <1>18. \A r \in Rows : (rows'[r] = NoRow <=> rows[r] = NoRow) /\ (rows'[r] # NoRow => rows'[r].at = rows[r].at) BY <1>8
  <1>19. LiveRows' \subseteq LiveRows BY <1>8 DEF LiveRows, Existing
  <1> QED BY <1>3, <1>16, <1>17, <1>18, <1>19

LEMMA ResetKeeps ==
  ASSUME ActionInv, NEW f \in Folders, Sync(f), known[f] # gen[f]
  PROVE  /\ ActionInv' /\ UNCHANGED <<box, gen, due, foreign, lock>>
         /\ \A g \in Folders \ {f} : known'[g] = known[g] /\ Mirrored(g)' = Mirrored(g)
  <1>1. /\ rows' = Tombstone(rows, {r \in LiveRows : rows[r].at.folder = f})
        /\ known' = [known EXCEPT ![f] = gen[f]]
    BY DEF Sync, Reset
  <1>2. UNCHANGED <<box, gen, next, flagged, due, lock, call, run, foreign, removed>> BY DEF Sync, Reset, mailbox
  <1>3. ActionTypeOK /\ UidsOnce /\ RowsKnown /\ MirrorTrue /\ RunOK BY DEF ActionInv
  <1>4. known' \in [Folders -> Nat] /\ \A g \in Folders : known[g] <= known'[g] /\ known'[g] <= gen[g]
    BY <1>1, <1>3 DEF ActionTypeOK, RowsKnown
  <1>5. ASSUME NEW r \in LiveRows, rows[r].at.folder = f PROVE Held(rows[r].at) = {}
    <2>1. rows[r].at \in Places /\ rows[r].at.gen <= known[f] BY <1>3, <1>5, LiveTrue DEF RowsKnown, LiveRows
    <2>2. rows[r].at.gen # gen[f] BY <1>3, <2>1 DEF RowsKnown, ActionTypeOK, Places
    <2>3. \A e \in box : PlaceOf(e) = rows[r].at => rows[r].at.gen = gen[f]
      BY <1>5 DEF PlaceOf, Place
    <2> QED BY <2>2, <2>3 DEF Held
  <1>6. ASSUME NEW r \in Rows
        PROVE  /\ rows'[r] \in MessageRows \cup {NoRow} /\ (rows'[r] = NoRow <=> rows[r] = NoRow)
               /\ rows[r] # NoRow => /\ rows'[r].at = rows[r].at /\ rows'[r].mail = rows[r].mail
                                     /\ rows'[r].live = rows[r].live
                                        \/ (~rows'[r].live /\ Held(rows[r].at) = {} /\ rows[r].at.folder = f)
                                     /\ rows'[r].body # "none" => rows'[r].text = rows[r].mail
    <2>0. rows[r] # NoRow => rows[r] \in MessageRows /\ (rows[r].body # "none" => rows[r].text = rows[r].mail)
      BY <1>3 DEF ActionTypeOK, MirrorTrue, BodiesAreTheirs, Existing
    <2>1. CASE r \in LiveRows /\ rows[r].at.folder = f
      <3>1. rows'[r] = [rows[r] EXCEPT !.live = FALSE] /\ rows[r] # NoRow BY <1>1, <2>1 DEF Tombstone, LiveRows, Existing
      <3>2. rows'[r] \in MessageRows BY <2>0, <3>1 DEF MessageRows
      <3>3. rows'[r] # NoRow BY <3>2, ActionConstants
      <3>4. Held(rows[r].at) = {} BY <1>5, <2>1
      <3> QED BY <2>0, <2>1, <3>1, <3>2, <3>3, <3>4 DEF MessageRows
    <2>2. CASE ~(r \in LiveRows /\ rows[r].at.folder = f)
      <3>1. rows'[r] = rows[r] BY <1>1, <2>2 DEF Tombstone
      <3> QED BY <1>3, <2>0, <3>1 DEF ActionTypeOK
    <2> QED BY <2>1, <2>2
  <1>7. rows' \in [Rows -> MessageRows \cup {NoRow}]
    <2>1. DOMAIN rows' = Rows /\ rows' = [r \in Rows |-> rows'[r]] BY <1>1 DEF Tombstone
    <2> QED BY <1>6, <2>1
  <1>8. InPlace(rows) BY <1>6, <1>7 DEF InPlace
  <1>9. RowsStay /\ RowsKnown' /\ MirrorTrue' BY <1>2, <1>4, <1>8, RowsStayPut
  <1>10. ActionTypeOK' BY <1>2, <1>3, <1>4, <1>7 DEF ActionTypeOK
  <1>11. Steady /\ UidsOnce' /\ Present' = Present BY <1>2, <1>3, Still
  <1>12. RunOK' BY <1>2, <1>3, <1>9, <1>11, RunKept
  <1>13. ActionInv' BY <1>2, <1>9, <1>10, <1>11, <1>12, Passive
  <1>14. ASSUME NEW g \in Folders \ {f} PROVE known'[g] = known[g] /\ Mirrored(g)' = Mirrored(g)
    <2>1. known'[g] = known[g] BY <1>1, <1>3 DEF ActionTypeOK
    <2>2. \A r \in Rows : r \in LiveRows' /\ rows'[r].at.folder = g <=> r \in LiveRows /\ rows[r].at.folder = g
      BY <1>6 DEF LiveRows, Existing
    <2>3. \A r \in LiveRows : rows'[r].at = rows[r].at BY <1>6 DEF LiveRows, Existing
    <2> QED BY <2>1, <2>2, <2>3 DEF Mirrored, LiveRows, Existing
  <1> QED BY <1>2, <1>13, <1>14

LEMMA ReconcileKeeps ==
  ASSUME ActionInv, NEW f \in Folders, Sync(f), known[f] = gen[f]
  PROVE  /\ ActionInv' /\ UNCHANGED <<box, gen, known, lock>> /\ due' = due \ {f} /\ foreign' = foreign \ {f}
         /\ \A g \in Folders \ {f} : Mirrored(g)' = Mirrored(g)
         /\ Rows = Nat \ {0} => Mirrored(f)' = {PlaceOf(e) : e \in {d \in box : d.folder = f}}
  <1> DEFINE es == {e \in box : e.folder = f}
  <1> DEFINE R == Upserted(es)
  <1> DEFINE gone == {r \in LiveRows : rows[r].at.folder = f /\ Held(rows[r].at) = {}}
  <1>1. rows' = Tombstone(R, gone) /\ due' = due \ {f} /\ foreign' = foreign \ {f} /\ lock = NoOne
    BY DEF Sync, Reconcile
  <1>2. UNCHANGED <<box, gen, next, flagged, known, lock, call, run, removed>> BY DEF Sync, Reconcile, mailbox
  <1>3. ActionTypeOK /\ UidsOnce /\ RowsKnown /\ MirrorTrue /\ RunOK BY DEF ActionInv
  <1>4. es \in SUBSET box /\ Together(es) /\ \A e \in es : known[e.folder] = gen[e.folder] /\ e.folder = f BY DEF Together
  <1>5. RowsPlus(R, es) /\ (Rows = Nat \ {0} => AllHaveRows(R, es)) BY <1>4, UpsertedRows
  <1>6. gone \subseteq LiveRows /\ \A r \in gone : rows[r].at.folder = f /\ Held(rows[r].at) = {} OBVIOUS
  <1>7. \A r \in LiveRows : rows[r].at.folder = f /\ Held(rows[r].at) = {} => r \in gone OBVIOUS
  <1>8. es = {e \in box : e.folder = f} OBVIOUS
  <1> HIDE DEF es, R, gone
  <1>9. ASSUME NEW r \in Rows, R[r] # NoRow
        PROVE  /\ R[r] \in MessageRows /\ (R[r].body # "none" => R[r].text = R[r].mail)
               /\ r \notin Existing => \E e \in es : R[r].at = PlaceOf(e) /\ R[r].live
               /\ r \in Existing => R[r].at = rows[r].at /\ R[r].live = rows[r].live
    <2>1. R[r] \in MessageRows BY <1>5, <1>9 DEF RowsPlus
    <2>2. CASE r \in Existing BY <1>3, <1>5, <2>1, <2>2 DEF RowsPlus, MirrorTrue, BodiesAreTheirs
    <2>3. CASE r \notin Existing
      <3>1. PICK e \in es : R[r] = Fresh(e) BY <1>5, <1>9, <2>3 DEF RowsPlus
      <3>2. R[r].at = PlaceOf(e) /\ R[r].live /\ R[r].body = "none" BY <1>3, <1>4, <3>1, FreshRow
      <3> QED BY <2>1, <2>3, <3>2
    <2> QED BY <2>2, <2>3
  <1>10. ASSUME NEW r \in Rows
         PROVE  /\ rows'[r] \in MessageRows \cup {NoRow} /\ (rows'[r] = NoRow <=> R[r] = NoRow)
                /\ R[r] # NoRow => /\ rows'[r].at = R[r].at /\ rows'[r].mail = R[r].mail
                                   /\ IF r \in gone THEN ~rows'[r].live /\ Held(R[r].at) = {} ELSE rows'[r].live = R[r].live
                                   /\ rows'[r].body # "none" => rows'[r].text = R[r].mail
    <2>1. CASE r \in gone
      <3>1. r \in Existing BY <1>6, <2>1 DEF LiveRows
      <3>2. R[r] # NoRow /\ R[r].at = rows[r].at BY <1>5, <3>1 DEF RowsPlus
      <3>3. rows'[r] = [R[r] EXCEPT !.live = FALSE] BY <1>1, <2>1 DEF Tombstone
      <3>4. rows'[r] \in MessageRows BY <1>9, <3>2, <3>3 DEF MessageRows
      <3>5. rows'[r] # NoRow BY <3>4, ActionConstants
      <3> QED BY <1>6, <1>9, <2>1, <3>2, <3>3, <3>4, <3>5 DEF MessageRows
    <2>2. CASE r \notin gone
      <3>1. rows'[r] = R[r] BY <1>1, <2>2 DEF Tombstone
      <3> QED BY <1>9, <2>2, <3>1
    <2> QED BY <2>1, <2>2
  <1>11. rows' \in [Rows -> MessageRows \cup {NoRow}]
    <2>1. DOMAIN rows' = Rows /\ rows' = [r \in Rows |-> rows'[r]] BY <1>1 DEF Tombstone
    <2> QED BY <1>10, <2>1
  <1>12. InPlace(R) BY <1>10, <1>11 DEF InPlace
  <1>13. known' \in [Folders -> Nat] /\ \A g \in Folders : known[g] <= known'[g] /\ known'[g] <= gen[g]
    BY <1>2, <1>3 DEF ActionTypeOK, RowsKnown
  <1>14. RowsStay /\ RowsKnown' /\ MirrorTrue' BY <1>2, <1>4, <1>5, <1>12, <1>13, RowsGrown
  <1>15. ActionTypeOK' BY <1>1, <1>2, <1>3, <1>11 DEF ActionTypeOK
  <1>16. Steady /\ UidsOnce' /\ Present' = Present BY <1>2, <1>3, Still
  <1>17. RunOK' BY <1>2, <1>3, <1>14, <1>16, RunKept
  <1>18. \A b \in Calls : lock # b BY <1>1, ActionConstants
  <1>19. ActionInv' BY <1>2, <1>14, <1>15, <1>16, <1>17, <1>18, Passive
  <1>20. ASSUME NEW r \in Rows
         PROVE  /\ r \in LiveRows' => r \in LiveRows \/ (r \notin Existing /\ rows'[r].at.folder = f)
                /\ r \in LiveRows => rows'[r].at = rows[r].at /\ (r \in LiveRows' <=> r \notin gone)
    <2>1. r \in LiveRows => r \in Existing /\ rows[r].live BY DEF LiveRows
    <2>2. r \in LiveRows' <=> R[r] # NoRow /\ rows'[r].live BY <1>10 DEF LiveRows, Existing
    <2>3. r \in Existing => R[r] # NoRow /\ rows'[r].at = rows[r].at /\ R[r].live = rows[r].live BY <1>5, <1>10 DEF RowsPlus
    <2>4. r \notin Existing /\ R[r] # NoRow => rows'[r].at.folder = f
      <3> SUFFICES ASSUME r \notin Existing, R[r] # NoRow PROVE rows'[r].at.folder = f OBVIOUS
      <3>1. PICK e \in es : R[r].at = PlaceOf(e) BY <1>9
      <3> QED BY <1>4, <1>10, <3>1 DEF PlaceOf, Place
    <2> QED BY <1>6, <1>10, <2>1, <2>2, <2>3, <2>4 DEF LiveRows
  <1>21. ASSUME NEW g \in Folders \ {f} PROVE Mirrored(g)' = Mirrored(g)
    <2>1. \A r \in Rows : r \in LiveRows' /\ rows'[r].at.folder = g <=> r \in LiveRows /\ rows[r].at.folder = g
      BY <1>6, <1>20
    <2>2. \A r \in LiveRows : rows'[r].at = rows[r].at /\ r \in Rows BY <1>20 DEF LiveRows, Existing
    <2> QED BY <2>1, <2>2 DEF Mirrored, LiveRows, Existing
  <1>22. ASSUME Rows = Nat \ {0} PROVE Mirrored(f)' = {PlaceOf(e) : e \in es}
    <2>1. ASSUME NEW r \in LiveRows', rows'[r].at.folder = f PROVE \E e \in es : rows'[r].at = PlaceOf(e)
      <3>0. r \in Rows /\ R[r] # NoRow BY <1>10, <2>1 DEF LiveRows, Existing
      <3>1. CASE r \in LiveRows
        <4>1. rows'[r].at = rows[r].at /\ Held(rows[r].at) # {} BY <1>7, <1>20, <2>1, <3>0, <3>1
        <4>2. PICK e \in box : PlaceOf(e) = rows[r].at BY <4>1 DEF Held
        <4>3. e.folder = f BY <2>1, <4>1, <4>2 DEF PlaceOf, Place
        <4> QED BY <1>8, <4>1, <4>2, <4>3
      <3>2. CASE r \notin LiveRows
        <4>1. r \notin Existing BY <1>20, <2>1, <3>0, <3>2
        <4> QED BY <1>9, <1>10, <3>0, <4>1
      <3> QED BY <3>1, <3>2
    <2>2. ASSUME NEW e \in es PROVE \E r \in LiveRows' : rows'[r].at = PlaceOf(e) /\ rows'[r].at.folder = f
      <3>1. PICK r \in Rows : R[r] # NoRow /\ R[r].at = PlaceOf(e) /\ R[r].live BY <1>5, <1>22 DEF AllHaveRows
      <3>2. e \in Held(PlaceOf(e)) /\ PlaceOf(e).folder = f BY <1>3, <1>4, FreshRow
      <3>3. r \notin gone
        <4>1. SUFFICES ASSUME r \in gone PROVE FALSE OBVIOUS
        <4>2. Held(R[r].at) = {} BY <1>10, <3>1, <4>1
        <4> QED BY <3>1, <3>2, <4>2
      <3>4. rows'[r] # NoRow /\ rows'[r].live /\ rows'[r].at = PlaceOf(e) BY <1>10, <3>1, <3>3
      <3>5. r \in LiveRows' BY <3>4 DEF LiveRows, Existing
      <3> QED BY <3>2, <3>4, <3>5
    <2>3. Mirrored(f)' = {rows'[r].at : r \in {s \in LiveRows' : rows'[s].at.folder = f}} BY DEF Mirrored
    <2> QED BY <2>1, <2>2, <2>3
  <1> QED BY <1>1, <1>2, <1>8, <1>19, <1>21, <1>22

-------------------------------------------------------------------------------
(* The steps of a call.                                                    *)

LEMMA CallTypes ==
  ASSUME ActionTypeOK, NEW a \in Calls
  PROVE  /\ call[a] \in CallRecords /\ call[a].todo \subseteq TargetRecords /\ call[a].moved \subseteq MovedRecords
         /\ \A t \in call[a].todo : t = [id |-> t.id, at |-> t.at] /\ t.id \in Rows /\ t.at \in Places
         /\ call[a].dest \in Folders /\ call[a].kind \in Kinds \cup {"none"}
  <1>1. call[a] \in CallRecords BY DEF ActionTypeOK
  <1>2. call[a].todo \subseteq TargetRecords BY <1>1 DEF CallRecords
  <1>3. \A t \in call[a].todo : t = [id |-> t.id, at |-> t.at] /\ t.id \in Rows /\ t.at \in Places BY <1>2 DEF TargetRecords
  <1> QED BY <1>1, <1>2, <1>3 DEF CallRecords

LEMMA NewCall ==
  /\ NoCall \in CallRecords /\ NoCall.todo = {} /\ NoCall.moved = {} /\ NoCall.filed = NoPlace /\ ~NoCall.lost
  /\ NoCall.kind = "none" /\ NoCall.pc = "new"
  BY ActionConstants DEF NoCall, CallRecords

LEMMA EndedCall ==
  ASSUME ActionTypeOK, NEW a \in Calls, call' = [call EXCEPT ![a] = Ended(a)], lock' # a
  PROVE  /\ call' \in [Calls -> CallRecords] /\ CallOK(a)'
         /\ call'[a].kind = call[a].kind /\ call'[a].named = call[a].named
  <1>1. call[a] \in CallRecords BY CallTypes
  <1>2. /\ Ended(a).pc = "ended" /\ Ended(a).kind = call[a].kind /\ Ended(a).named = call[a].named
        /\ Ended(a).todo = {} /\ Ended(a).moved = {} /\ Ended(a).filed = NoPlace
    BY NewCall DEF Ended, CallRecords
  <1>3. Ended(a) \in CallRecords BY <1>1, NewCall DEF Ended, CallRecords
  <1>4. call' \in [Calls -> CallRecords] /\ call'[a] = Ended(a) BY <1>3 DEF ActionTypeOK
  <1>5. CallOK(a)' BY <1>2, <1>4 DEF CallOK, Fits, TargetsTrue, FiledTrue, DueFirst, Revised, Working
  <1> QED BY <1>2, <1>4, <1>5

LEMMA Released ==
  ASSUME ActionTypeOK, NEW a \in Calls, Release(a)
  PROVE  lock' \in Calls \cup {NoOne} /\ lock' # a /\ \A b \in Calls \ {a} : lock' = b <=> lock = b
  BY ActionConstants DEF Release, ActionTypeOK

(* What a call does to the provider.                                       *)
Serves(a) ==
  /\ box' \in SUBSET Entries /\ next' \in [Folders -> Nat] /\ gen' = gen /\ flagged' \subseteq Mails /\ foreign' \subseteq Folders
  /\ UidsOnce' /\ Steady /\ UNCHANGED <<run, removed>>
  /\ call' \in [Calls -> CallRecords] /\ \A b \in Calls \ {a} : call'[b] = call[b] /\ (lock' = b <=> lock = b)
  /\ due' \in SUBSET Folders /\ due \subseteq due' /\ lock' \in Calls \cup {NoOne}
  /\ call[a].kind = "none" \/ (call'[a].kind = call[a].kind /\ call'[a].named = call[a].named)
LEMMA CallStep ==
  ASSUME ActionInv, NEW a \in Calls, Serves(a), UNCHANGED <<rows, known>>,
         Present \subseteq Present', CallOK(a)'
  PROVE  ActionInv'
  <1>1. ActionTypeOK /\ RowsKnown /\ MirrorTrue BY DEF ActionInv
  <1>2. ActionTypeOK' BY <1>1 DEF ActionTypeOK, Serves
  <1>3. RowsStay /\ RowsKnown' /\ MirrorTrue'
    <2>1. gen' \in [Folders -> Nat] /\ \A f \in Folders : gen[f] <= gen'[f] /\ gen[f] \in Nat BY <1>1 DEF Serves, ActionTypeOK
    <2> QED BY <1>1, <2>1, RowsFrame DEF Serves
  <1>4. Alone(a) BY DEF Alone, Serves
  <1>5. Present \cup removed \subseteq Present' \cup removed' BY DEF Serves
  <1> QED BY <1>2, <1>3, <1>4, <1>5, Active DEF Serves

(* A call that leaves the provider alone.                                  *)
LEMMA QuietStep ==
  ASSUME ActionInv, NEW a \in Calls, UNCHANGED <<box, gen, next, flagged, rows, known, run, foreign, removed>>,
         call' \in [Calls -> CallRecords], \A b \in Calls \ {a} : call'[b] = call[b] /\ (lock' = b <=> lock = b),
         due' \in SUBSET Folders, due \subseteq due', lock' \in Calls \cup {NoOne},
         call[a].kind = "none" \/ (call'[a].kind = call[a].kind /\ call'[a].named = call[a].named), CallOK(a)'
  PROVE  ActionInv'
  <1>1. ActionTypeOK /\ UidsOnce BY DEF ActionInv
  <1>2. Steady /\ UidsOnce' /\ Present' = Present BY <1>1, Still
  <1>3. Serves(a) BY <1>1, <1>2 DEF Serves, ActionTypeOK
  <1> QED BY <1>2, <1>3, CallStep

LEMMA AsBefore ==
  ASSUME ActionInv, UNCHANGED <<box, gen, next, rows, known>>
  PROVE  Steady /\ RowsStay /\ Present' = Present
  <1>1. ActionTypeOK /\ UidsOnce /\ RowsKnown /\ MirrorTrue BY DEF ActionInv
  <1>2. Steady /\ Present' = Present BY Still
  <1>3. RowsStay BY DEF RowsStay, Existing
  <1> QED BY <1>2, <1>3

LEMMA RequestKinds ==
  ASSUME NEW k \in Kinds, NEW ids, NEW dest \in Folders, k \notin {"move", "thread"} => dest = Trash
  PROVE  LET req == Requested(k, ids, dest) IN
         /\ req.todo \subseteq Targets(ids) /\ req.dest = dest
         /\ k \in {"move", "thread", "trash"} => req.changed = In(req.todo) \cup {dest}
         /\ k = "expunge" => req.changed = In(req.todo)
         /\ k \in {"flag", "flags"} => req.changed = {}
         /\ k = "update" => req.changed = {Drafts}
  <1>1. k \in {"flag", "flags", "move", "thread", "trash", "expunge", "update"} BY ActionConstants
  <1> DEFINE ts == Targets(ids)
  <1>2. Away(ts, dest) \subseteq ts BY DEF Away
  <1> HIDE DEF ts
  <1>3. CASE k = "flag" BY <1>3 DEF Requested, setMessageFlags, Request, ts
  <1>4. CASE k = "flags" BY <1>4 DEF Requested, setThreadFlags, Request, ts
  <1>5. CASE k = "move" BY <1>2, <1>5 DEF Requested, moveMessages, Request, ts
  <1>6. CASE k = "thread" BY <1>2, <1>6 DEF Requested, moveThread, Request, ts
  <1>7. CASE k = "trash" BY <1>7 DEF Requested, deleteMessage, Request, ts
  <1>8. CASE k = "expunge" BY <1>8 DEF Requested, deleteMessage, Request, ts
  <1>9. CASE k = "update" BY <1>9 DEF Requested, updateDraft, Request, ts
  <1> QED BY <1>1, <1>3, <1>4, <1>5, <1>6, <1>7, <1>8, <1>9

(* What is read of live rows is true.                                      *)
LEMMA TargetsAreTrue ==
  ASSUME ActionInv, NEW ids \in SUBSET LiveRows, UNCHANGED <<box, gen, next, rows, known>>
  PROVE  /\ Targets(ids) \subseteq TargetRecords /\ In(Targets(ids)) \subseteq Folders
         /\ \A t \in Targets(ids) : TrueOf(t.id, t.at) /\ TrueOf(t.id, t.at)' /\ t.id \in ids
         /\ \A s, t \in Targets(ids) : s.id = t.id \/ s.at = t.at => s = t
  <1>1. \A t \in Targets(ids) : t.id \in ids /\ t = [id |-> t.id, at |-> rows[t.id].at] BY DEF Targets
  <1>2. ASSUME NEW t \in Targets(ids)
        PROVE  /\ t.id \in LiveRows /\ t.at = rows[t.id].at /\ t.id \in Rows /\ t.at \in Places
               /\ TrueOf(t.id, t.at) /\ t \in TargetRecords
    <2>1. PICK r : r = t.id OBVIOUS
    <2>2. r \in LiveRows /\ t = [id |-> r, at |-> rows[r].at] BY <1>1, <2>1
    <2> QED BY <2>2, LiveTrue DEF TargetRecords
  <1>3. \A t \in Targets(ids) : TrueOf(t.id, t.at)' BY <1>2 DEF TrueOf, Issued, Held, PlaceOf
  <1>4. In(Targets(ids)) \subseteq Folders BY <1>2 DEF In, Places
  <1>5. ASSUME NEW s \in Targets(ids), NEW t \in Targets(ids), s.id = t.id \/ s.at = t.at PROVE s = t
    <2>1. s.id = t.id BY <1>2, <1>5 DEF ActionInv, MirrorTrue, IdsKeepTheirMail, LiveRows
    <2> QED BY <1>1, <2>1
  <1> QED BY <1>1, <1>2, <1>3, <1>4, <1>5

LEMMA StartKeeps ==
  ASSUME ActionInv, NEW a \in Calls, Start(a)
  PROVE  ActionInv' /\ UNCHANGED <<box, gen, rows, known, due, foreign, lock>>
  <1>1. PICK k \in Kinds : \E ids \in (SUBSET LiveRows) \ {{}}, dest \in Folders :
       /\ k \notin {"move", "thread"} => dest = Trash
       /\ LET req == Requested(k, ids, dest)
          IN /\ req.todo # {}
             /\ Becomes(a, [NoCall EXCEPT !.pc = "wait", !.kind = k, !.dest = dest, !.todo = req.todo,
                                          !.changed = req.changed, !.named = {rows[r].mail : r \in ids}])
    BY DEF Start
  <1>2. PICK ids \in SUBSET LiveRows : \E dest \in Folders :
       /\ k \notin {"move", "thread"} => dest = Trash
       /\ LET req == Requested(k, ids, dest)
          IN /\ req.todo # {}
             /\ Becomes(a, [NoCall EXCEPT !.pc = "wait", !.kind = k, !.dest = dest, !.todo = req.todo,
                                          !.changed = req.changed, !.named = {rows[r].mail : r \in ids}])
    BY <1>1
  <1>3. PICK dest \in Folders :
       /\ k \notin {"move", "thread"} => dest = Trash
       /\ LET req == Requested(k, ids, dest)
          IN /\ req.todo # {}
             /\ Becomes(a, [NoCall EXCEPT !.pc = "wait", !.kind = k, !.dest = dest, !.todo = req.todo,
                                          !.changed = req.changed, !.named = {rows[r].mail : r \in ids}])
    BY <1>2
  <1>4. PICK req : req = Requested(k, ids, dest) OBVIOUS
  <1>5. PICK named : named = {rows[r].mail : r \in ids} OBVIOUS
  <1> DEFINE new == [NoCall EXCEPT !.pc = "wait", !.kind = k, !.dest = dest, !.todo = req.todo,
                                   !.changed = req.changed, !.named = named]
  <1>6. call' = [call EXCEPT ![a] = new] /\ req.todo # {} BY <1>3, <1>4, <1>5 DEF Becomes
  <1>7. /\ UNCHANGED <<box, gen, next, flagged, rows, known, due, lock, run, foreign, removed>> /\ call[a].pc = "new"
    BY DEF Start, At, mailbox, mirror, history
  <1>8. ActionTypeOK /\ CallOK(a) BY DEF ActionInv
  <1>9. /\ req.todo \subseteq Targets(ids)
        /\ k \in {"move", "thread", "trash"} => req.changed = In(req.todo) \cup {dest}
        /\ k = "expunge" => req.changed = In(req.todo)
        /\ k \in {"flag", "flags"} => req.changed = {}
        /\ k = "update" => req.changed = {Drafts}
    BY <1>3, <1>4, RequestKinds
  <1>10. /\ Targets(ids) \subseteq TargetRecords /\ In(Targets(ids)) \subseteq Folders
         /\ \A t \in Targets(ids) : TrueOf(t.id, t.at)' /\ t.id \in ids
         /\ \A s, t \in Targets(ids) : s.id = t.id \/ s.at = t.at => s = t
    BY <1>7, TargetsAreTrue
  <1>11. In(req.todo) \subseteq Folders BY <1>9, <1>10 DEF In
  <1>12. k \in {"flag", "flags", "move", "thread", "trash", "expunge", "update"} BY ActionConstants
  <1>13. named \subseteq Mails BY <1>5, LiveTrue
  <1>14. req.changed \subseteq Folders BY <1>9, <1>11, <1>12, ActionConstants
  <1>15. new \in CallRecords BY <1>9, <1>10, <1>13, <1>14, NewCall DEF CallRecords
  <1>24. /\ new.pc = "wait" /\ new.kind = k /\ new.dest = dest /\ new.todo = req.todo /\ new.changed = req.changed
         /\ new.named = named /\ new.moved = {} /\ new.filed = NoPlace /\ ~new.lost
    BY NewCall DEF CallRecords
  <1> HIDE DEF new
  <1>16. call' \in [Calls -> CallRecords] /\ call'[a] = new /\ \A b \in Calls \ {a} : call'[b] = call[b]
    BY <1>6, <1>8, <1>15 DEF ActionTypeOK
  <1>17. call[a] = NoCall /\ call[a].kind = "none" /\ lock # a
    BY <1>7, <1>8, NewCall DEF CallOK, Fits, DueFirst, Working
  <1>18. TargetsTrue(a)'
    <2>1. \A t \in req.todo : TrueOf(t.id, t.at)' /\ rows'[t.id].mail \in named BY <1>5, <1>7, <1>9, <1>10
    <2>2. \A s, t \in req.todo : s.id = t.id \/ s.at = t.at => s = t BY <1>9, <1>10
    <2> QED BY <1>16, <1>24, <2>1, <2>2 DEF TargetsTrue, FiledTrue
  <1>19. Fits(a)' BY <1>6, <1>16, <1>24 DEF Fits
  <1>20. DueFirst(a)'
    <2>1. Reach(a)' \subseteq req.changed \/ k = "update"
      BY <1>9, <1>12, <1>16, <1>24 DEF Reach, Moves, In
    <2> QED BY <1>7, <1>9, <1>16, <1>17, <1>24, <2>1 DEF DueFirst, Working
  <1>21. Revised(a)' BY <1>16, <1>24 DEF Revised
  <1>22. CallOK(a)' BY <1>18, <1>19, <1>20, <1>21 DEF CallOK
  <1>23. ActionInv' BY <1>7, <1>8, <1>16, <1>17, <1>22, QuietStep DEF ActionTypeOK
  <1> QED BY <1>7, <1>23

LEMMA EndKeeps ==
  ASSUME ActionInv, NEW a \in Calls, UNCHANGED <<box, gen, next, flagged, rows, known, due, run, foreign, removed>>,
         call' = [call EXCEPT ![a] = Ended(a)], lock' # a, lock' \in Calls \cup {NoOne},
         \A b \in Calls \ {a} : lock' = b <=> lock = b
  PROVE  ActionInv'
  <1>1. ActionTypeOK BY DEF ActionInv
  <1>2. call' \in [Calls -> CallRecords] /\ CallOK(a)' /\ call'[a].kind = call[a].kind /\ call'[a].named = call[a].named
    BY <1>1, EndedCall
  <1>3. \A b \in Calls \ {a} : call'[b] = call[b] BY <1>1 DEF ActionTypeOK
  <1> QED BY <1>1, <1>2, <1>3, QuietStep DEF ActionTypeOK

LEMMA AcquireKeeps ==
  ASSUME ActionInv, NEW a \in Calls, Acquire(a)
  PROVE  /\ ActionInv' /\ UNCHANGED <<box, gen, rows, known, foreign>> /\ due \subseteq due'
         /\ lock' \in Calls \/ due' = due
  <1>1. UNCHANGED <<box, gen, next, flagged, rows, known, run, foreign, removed>> /\ call[a].pc = "wait" /\ lock = NoOne
    BY DEF Acquire, At, mailbox, history
  <1>2. ActionTypeOK /\ CallOK(a) /\ \A b \in Calls : lock # b BY <1>1, ActionConstants DEF ActionInv
  <1>3. CASE AlreadyInTrash(a)
    <2>1. call' = [call EXCEPT ![a] = Ended(a)] /\ lock' = lock /\ due' = due BY <1>3 DEF Acquire, Becomes
    <2>2. ActionInv' BY <1>1, <1>2, <2>1, EndKeeps DEF ActionTypeOK
    <2> QED BY <1>1, <2>1, <2>2
  <1>4. CASE ~AlreadyInTrash(a)
    <2> DEFINE step == IF call[a].kind = "update" THEN "append" ELSE "command"
    <2> DEFINE new == [call[a] EXCEPT !.pc = step]
    <2>1. call' = [call EXCEPT ![a] = new] /\ lock' = a /\ due' = due \cup call[a].changed
      BY <1>4 DEF Acquire, Becomes, markFoldersForReconcile
    <2>2. call[a] \in CallRecords /\ call[a].changed \subseteq Folders BY <1>2, CallTypes DEF CallRecords
    <2>3. /\ new \in CallRecords /\ new.pc = step /\ new.kind = call[a].kind /\ new.todo = call[a].todo /\ new.moved = call[a].moved
          /\ new.named = call[a].named /\ new.filed = call[a].filed /\ new.dest = call[a].dest
      BY <2>2 DEF CallRecords
    <2>4. step \in {"append", "command"} /\ (step = "append" <=> call[a].kind = "update") OBVIOUS
    <2> HIDE DEF new, step
    <2>5. call' \in [Calls -> CallRecords] /\ call'[a] = new /\ \A b \in Calls \ {a} : call'[b] = call[b]
      BY <1>2, <2>1, <2>3 DEF ActionTypeOK
    <2>6. Steady /\ RowsStay /\ Present' = Present BY <1>1, AsBefore
    <2>7. TargetsTrue(a)' BY <1>2, <2>3, <2>5, <2>6, TargetsKept DEF CallOK
    <2>8. /\ call[a].moved = {} /\ (call[a].kind # "update" => Reach(a) \subseteq call[a].changed)
          /\ (call[a].kind = "update" => Drafts \in call[a].changed) /\ call[a].todo # {}
      BY <1>1, <1>2 DEF CallOK, DueFirst, Fits
    <2>9. Fits(a)' BY <2>3, <2>4, <2>5, <2>8 DEF Fits
    <2>10. Reach(a)' \subseteq call[a].changed BY <2>3, <2>4, <2>5, <2>8 DEF Reach, In
    <2>11. DueFirst(a)' BY <2>1, <2>3, <2>4, <2>5, <2>10 DEF DueFirst, Working
    <2>12. Revised(a)' BY <2>3, <2>4, <2>5 DEF Revised
    <2>13. CallOK(a)' BY <2>7, <2>9, <2>11, <2>12 DEF CallOK
    <2>14. ActionInv'
      <3>1. \A b \in Calls \ {a} : call'[b] = call[b] /\ (lock' = b <=> lock = b) BY <1>2, <2>1, <2>5
      <3>2. due' \in SUBSET Folders /\ due \subseteq due' /\ lock' \in Calls \cup {NoOne} BY <1>2, <2>1, <2>2 DEF ActionTypeOK
      <3>3. call'[a].kind = call[a].kind /\ call'[a].named = call[a].named BY <2>3, <2>5
      <3> QED BY <1>1, <2>5, <2>13, <3>1, <3>2, <3>3, QuietStep
    <2> QED BY <1>1, <2>1, <2>14
  <1> QED BY <1>3, <1>4

LEMMA BusyKeeps ==
  ASSUME ActionInv, NEW a \in Calls, Busy(a)
  PROVE  ActionInv' /\ UNCHANGED <<box, gen, rows, known, due, foreign, lock>>
  <1>1. UNCHANGED <<box, gen, next, flagged, rows, known, due, lock, run, foreign, removed>> /\ call[a].pc = "wait"
        /\ call' = [call EXCEPT ![a] = Ended(a)]
    BY DEF Busy, At, Becomes, mailbox, mirror, history
  <1>2. ActionTypeOK /\ lock # a BY <1>1 DEF ActionInv, CallOK, DueFirst, Working
  <1> QED BY <1>1, <1>2, EndKeeps DEF ActionTypeOK

LEMMA CrashKeeps ==
  ASSUME ActionInv, NEW a \in Calls, Crash(a)
  PROVE  ActionInv' /\ UNCHANGED <<box, gen, rows, known, due, foreign>>
  <1>1. UNCHANGED <<box, gen, next, flagged, rows, known, due, run, foreign, removed>> /\ Release(a)
        /\ call' = [call EXCEPT ![a] = Ended(a)]
    BY DEF Crash, Becomes, mailbox, mirror, history
  <1>2. lock' \in Calls \cup {NoOne} /\ lock' # a /\ \A b \in Calls \ {a} : lock' = b <=> lock = b
    BY <1>1, Released DEF ActionInv
  <1> QED BY <1>1, <1>2, EndKeeps

(* What may change in a call's own variables between two commands.         *)
LEMMA Narrowed ==
  ASSUME ActionInv, Steady, RowsStay, NEW a \in Calls, Present' = Present, removed' = removed,
         NEW new \in CallRecords, call' = [call EXCEPT ![a] = new], lock' = lock, due' = due,
         new.kind = call[a].kind, new.named = call[a].named, new.dest = call[a].dest, new.filed = call[a].filed,
         new.todo \subseteq call[a].todo, new.moved \subseteq call[a].moved, new.lost = call[a].lost,
         \/ call[a].pc = "write" /\ new.pc = "command" /\ new.moved = {}
         \/ call[a].pc = "mirror" /\ new.pc = "reload" /\ new.todo = call[a].todo
  PROVE  CallOK(a)' /\ call' \in [Calls -> CallRecords] /\ Alone(a)
  <1>1. ActionTypeOK /\ CallOK(a) BY DEF ActionInv
  <1>2. call' \in [Calls -> CallRecords] /\ call'[a] = new /\ \A b \in Calls \ {a} : call'[b] = call[b]
    BY <1>1 DEF ActionTypeOK
  <1>4. TargetsTrue(a)' BY <1>1, <1>2, TargetsKept DEF CallOK
  <1>5. Fits(a)' BY <1>1, <1>2 DEF Fits, CallOK
  <1>6. Reach(a)' \subseteq Reach(a) BY <1>2 DEF Reach, In
  <1>7. DueFirst(a)' BY <1>1, <1>2, <1>6 DEF DueFirst, CallOK, Working
  <1>8. Revised(a)'
    <2>1. CallsKeep BY <1>2 DEF CallsKeep
    <2>2. Asked \subseteq Asked' BY <2>1, AskedGrows
    <2> QED BY <1>1, <1>2, <2>2 DEF Revised, CallOK
  <1>9. CallOK(a)' BY <1>4, <1>5, <1>7, <1>8 DEF CallOK
  <1> QED BY <1>2, <1>9 DEF Alone

LEMMA LoseLockKeeps ==
  ASSUME ActionInv, NEW a \in Calls, LoseLock(a)
  PROVE  ActionInv' /\ UNCHANGED <<box, gen, rows, known, due, foreign>>
  <1> DEFINE new == [call[a] EXCEPT !.lost = TRUE]
  <1>1. UNCHANGED <<box, gen, next, flagged, rows, known, due, run, foreign, removed>>
        /\ call' = [call EXCEPT ![a] = new] /\ lock = a /\ lock' = NoOne
    BY DEF LoseLock, Becomes, mailbox, mirror, history
  <1>2. ActionTypeOK /\ CallOK(a) /\ lock' # a /\ \A b \in Calls : lock' # b BY <1>1, ActionConstants DEF ActionInv
  <1>3. call[a] \in CallRecords BY <1>2, CallTypes
  <1>4. /\ new \in CallRecords /\ new.pc = call[a].pc /\ new.kind = call[a].kind /\ new.todo = call[a].todo
        /\ new.moved = call[a].moved /\ new.named = call[a].named /\ new.filed = call[a].filed /\ new.dest = call[a].dest /\ new.lost
    BY <1>3 DEF CallRecords
  <1> HIDE DEF new
  <1>5. call' \in [Calls -> CallRecords] /\ call'[a] = new /\ \A b \in Calls \ {a} : call'[b] = call[b]
    BY <1>1, <1>2, <1>4 DEF ActionTypeOK
  <1>6. Steady /\ RowsStay /\ Present' = Present BY <1>1, AsBefore
  <1>7. TargetsTrue(a)' BY <1>2, <1>4, <1>5, <1>6, TargetsKept DEF CallOK
  <1>8. call[a].pc \notin {"new", "wait"} BY <1>1, <1>2 DEF CallOK, DueFirst, Working
  <1>9. Fits(a)' BY <1>2, <1>4, <1>5, <1>8 DEF Fits, CallOK
  <1>10. DueFirst(a)' BY <1>2, <1>4, <1>5, <1>8 DEF DueFirst, CallOK, Working
  <1>11. Revised(a)'
    <2>1. CallsKeep BY <1>4, <1>5 DEF CallsKeep
    <2>2. Asked \subseteq Asked' BY <2>1, AskedGrows
    <2> QED BY <1>1, <1>2, <1>4, <1>5, <1>6, <2>2 DEF Revised, CallOK
  <1>12. CallOK(a)' BY <1>7, <1>9, <1>10, <1>11 DEF CallOK
  <1>13. ActionInv'
    <2>1. \A b \in Calls \ {a} : call'[b] = call[b] /\ (lock' = b <=> lock = b) BY <1>1, <1>2, <1>5
    <2>2. call'[a].kind = call[a].kind /\ call'[a].named = call[a].named BY <1>4, <1>5
    <2>3. due' \in SUBSET Folders /\ due \subseteq due' /\ lock' \in Calls \cup {NoOne} BY <1>1, <1>2 DEF ActionTypeOK
    <2> QED BY <1>1, <1>5, <1>12, <2>1, <2>2, <2>3, QuietStep
  <1> QED BY <1>1, <1>13

LEMMA ReloadKeeps ==
  ASSUME ActionInv, NEW a \in Calls, Reload(a)
  PROVE  /\ ActionInv' /\ UNCHANGED <<box, gen, rows, known, foreign>> /\ due \subseteq due'
         /\ lock' \in Calls => lock' = lock
  <1>1. UNCHANGED <<box, gen, next, flagged, rows, known, run, foreign, removed>> /\ call[a].pc = "reload"
    BY DEF Reload, At, mailbox, history
  <1>2. ActionTypeOK /\ CallOK(a) BY DEF ActionInv
  <1>3. PICK t \in call[a].todo : t = CHOOSE x \in call[a].todo : TRUE BY <1>1, <1>2 DEF CallOK, Fits
  <1>4. PICK r \in Rows : r = t.id BY <1>2, CallTypes
  <1>5. CASE r \in LiveRows /\ ~call[a].lost
    <2> DEFINE new == [call[a] EXCEPT !.pc = "command", !.todo = Targets({r})]
    <2>1. call' = [call EXCEPT ![a] = new] /\ lock' = lock /\ due' = due \cup {rows[r].at.folder}
      BY <1>3, <1>4, <1>5 DEF Reload, Becomes, markFoldersForReconcile
    <2>2. call[a] \in CallRecords BY <1>2, CallTypes
    <2>3. {r} \in SUBSET LiveRows BY <1>5
    <2>4. /\ Targets({r}) \subseteq TargetRecords /\ In(Targets({r})) \subseteq Folders
          /\ \A x \in Targets({r}) : TrueOf(x.id, x.at)' /\ x.id = r
          /\ \A x, y \in Targets({r}) : x.id = y.id \/ x.at = y.at => x = y
      BY <1>1, <2>3, TargetsAreTrue
    <2>5. /\ new \in CallRecords /\ new.pc = "command" /\ new.kind = call[a].kind /\ new.todo = Targets({r})
          /\ new.moved = call[a].moved /\ new.named = call[a].named /\ new.filed = call[a].filed /\ new.dest = call[a].dest
          /\ new.lost = call[a].lost
      BY <2>2, <2>4 DEF CallRecords
    <2> HIDE DEF new
    <2>6. call' \in [Calls -> CallRecords] /\ call'[a] = new /\ \A b \in Calls \ {a} : call'[b] = call[b]
      BY <1>2, <2>1, <2>5 DEF ActionTypeOK
    <2>7. call[a].moved = {} /\ call[a].kind = "update" BY <1>1, <1>2 DEF CallOK, Fits
    <2>8. Steady /\ RowsStay /\ Present' = Present BY <1>1, AsBefore
    <2>9. rows[r].mail \in call[a].named BY <1>2, <1>3, <1>4 DEF CallOK, TargetsTrue
    <2>10. TargetsTrue(a)'
      <3>1. FiledTrue(a)' BY <1>2, <2>5, <2>6, <2>8, FiledKept DEF CallOK, TargetsTrue
      <3>3. \A x \in new.todo : TrueOf(x.id, x.at)' /\ rows'[x.id].mail \in new.named BY <1>1, <2>4, <2>5, <2>9
      <3>4. \A x, y \in new.todo : x.id = y.id \/ x.at = y.at => x = y BY <2>4, <2>5
      <3>5. new.moved = {} BY <2>5, <2>7
      <3> QED BY <2>6, <3>1, <3>3, <3>4, <3>5 DEF TargetsTrue
    <2>11. Fits(a)' BY <2>5, <2>6, <2>7 DEF Fits
    <2>12. In(Targets({r})) = {rows[r].at.folder}
      <3>1. Targets({r}) = {[id |-> r, at |-> rows[r].at]} BY DEF Targets
      <3>2. PICK x : x = [id |-> r, at |-> rows[r].at] OBVIOUS
      <3>3. x.at.folder = rows[r].at.folder /\ Targets({r}) = {x} BY <3>1, <3>2
      <3>4. In({x}) = {x.at.folder} BY DEF In
      <3> QED BY <3>3, <3>4
    <2>13. Reach(a)' = {rows[r].at.folder}
      BY <2>5, <2>6, <2>7, <2>12 DEF Reach, In, Moves
    <2>14. DueFirst(a)' BY <1>1, <1>2, <2>1, <2>5, <2>6, <2>13 DEF DueFirst, CallOK, Working
    <2>15. Revised(a)'
      <3>1. CallsKeep BY <2>5, <2>6 DEF CallsKeep
      <3>2. Asked \subseteq Asked' BY <3>1, AskedGrows
      <3> QED BY <1>1, <1>2, <2>5, <2>6, <2>8, <3>2 DEF Revised, CallOK
    <2>16. CallOK(a)' BY <2>10, <2>11, <2>14, <2>15 DEF CallOK
    <2>17. ActionInv'
      <3>1. \A b \in Calls \ {a} : call'[b] = call[b] /\ (lock' = b <=> lock = b) BY <2>1, <2>6
      <3>2. rows[r].at.folder \in Folders BY <1>5, LiveTrue DEF Places
      <3>3. due' \in SUBSET Folders /\ due \subseteq due' /\ lock' \in Calls \cup {NoOne} BY <1>2, <2>1, <3>2 DEF ActionTypeOK
      <3>4. call'[a].kind = call[a].kind /\ call'[a].named = call[a].named BY <2>5, <2>6
      <3> QED BY <1>1, <2>6, <2>16, <3>1, <3>3, <3>4, QuietStep
    <2> QED BY <1>1, <2>1, <2>17
  <1>6. CASE ~(r \in LiveRows /\ ~call[a].lost)
    <2>1. call' = [call EXCEPT ![a] = Ended(a)] /\ Release(a) /\ due' = due BY <1>3, <1>4, <1>6 DEF Reload, Becomes
    <2>2. lock' \in Calls \cup {NoOne} /\ lock' # a /\ \A b \in Calls \ {a} : lock' = b <=> lock = b
      BY <1>2, <2>1, Released
    <2>3. ActionInv' BY <1>1, <2>1, <2>2, EndKeeps
    <2> QED BY <1>1, <2>1, <2>2, <2>3
  <1> QED BY <1>5, <1>6

(* A command has been sent for some of the call's targets.                 *)
LEMMA CommandSent ==
  ASSUME ActionInv, Steady, RowsStay, NEW a \in Calls, call[a].pc = "command", NEW new \in CallRecords,
         call' = [call EXCEPT ![a] = new], lock' = lock, due' = due, Witnesses \subseteq Witnesses', new.pc = "write",
         new.kind = call[a].kind, new.named = call[a].named, new.dest = call[a].dest, new.filed = call[a].filed,
         new.lost = call[a].lost, new.todo \subseteq call[a].todo,
         \A m \in new.moved : \E t \in call[a].todo : m.id = t.id /\ m.at = t.at,
         \A m, n \in new.moved : m.id = n.id => m = n,
         \A m, n \in new.moved : m.new = n.new /\ m.new # NoPlace => m.id = n.id,
         \A m \in new.moved : call[a].kind \notin {"flag", "flags"} => Held(m.at)' = {},
         \A m \in new.moved : m.new # NoPlace => TrueOf(m.id, m.new)' /\ m.new.folder = call[a].dest
  PROVE  CallOK(a)'
  <1>1. ActionTypeOK /\ CallOK(a) BY DEF ActionInv
  <1>2. call'[a] = new BY <1>1 DEF ActionTypeOK
  <1>3. new.moved \subseteq MovedRecords BY DEF CallRecords
  <1>4. \A t \in call[a].todo : t.id \in Rows /\ t.at \in Places BY <1>1, CallTypes
  <1>5. ASSUME NEW t \in call[a].todo PROVE TrueOf(t.id, t.at)' /\ rows'[t.id].mail \in new.named
    <2>1. TrueOf(t.id, t.at) /\ rows[t.id].mail \in call[a].named BY <1>1 DEF CallOK, TargetsTrue
    <2>2. TrueOf(t.id, t.at)' /\ rows'[t.id].mail = rows[t.id].mail BY <1>1, <1>4, <2>1, TrueOfKept
    <2> QED BY <2>1, <2>2
  <1>6. \A s, t \in call[a].todo : s.id = t.id \/ s.at = t.at => s = t BY <1>1 DEF CallOK, TargetsTrue
  <1>7. ASSUME NEW m \in new.moved, NEW n \in new.moved, m.id = n.id \/ m.at = n.at \/ (m.new = n.new /\ m.new # NoPlace)
        PROVE  m = n
    <2>1. PICK s \in call[a].todo : m.id = s.id /\ m.at = s.at OBVIOUS
    <2>2. PICK t \in call[a].todo : n.id = t.id /\ n.at = t.at OBVIOUS
    <2>3. m.id = n.id BY <1>6, <1>7, <2>1, <2>2
    <2> QED BY <2>3
  <1>8. ASSUME NEW m \in new.moved PROVE TrueOf(m.id, m.at)'
    <2>1. PICK t \in call[a].todo : m.id = t.id /\ m.at = t.at OBVIOUS
    <2> QED BY <1>5, <2>1 DEF TrueOf, Held
  <1>9. FiledTrue(a)' BY <1>1, <1>2, FiledKept DEF CallOK, TargetsTrue
  <1>10. TargetsTrue(a)'
    <2>1. \A t \in new.todo : TrueOf(t.id, t.at)' /\ rows'[t.id].mail \in new.named BY <1>5
    <2>2. \A s, t \in new.todo : s.id = t.id \/ s.at = t.at => s = t BY <1>6
    <2> QED BY <1>2, <1>7, <1>8, <1>9, <2>1, <2>2 DEF TargetsTrue
  <1>11. Fits(a)' BY <1>2 DEF Fits
  <1>12. In(new.todo) \subseteq In(call[a].todo) /\ In(new.moved) \subseteq In(call[a].todo)
    <2>1. \A m \in new.moved : m.at.folder \in In(call[a].todo) BY DEF In
    <2> QED BY <2>1 DEF In
  <1>13. Reach(a)' \subseteq Reach(a) BY <1>2, <1>12 DEF Reach, In
  <1>14. DueFirst(a)' BY <1>1, <1>2, <1>13 DEF DueFirst, CallOK, Working
  <1>15. Revised(a)' BY <1>1, <1>2 DEF Revised, CallOK, Witnesses
  <1> QED BY <1>10, <1>11, <1>14, <1>15 DEF CallOK

LEMMA HitTypes ==
  ASSUME ActionInv, NEW a \in Calls, NEW batch \in SUBSET call[a].todo
  PROVE  /\ Hits(batch) \in SUBSET box /\ \A e \in Hits(batch) : e.mail \in Mails /\ e.folder \in Folders
         /\ \A t \in batch : Hit(t) <=> \E e \in Hits(batch) : e.folder = t.at.folder /\ e.uid = t.at.uid
         /\ \A t \in batch, e \in box : UidScope(t) => (PlaceOf(e) = t.at <=> e.folder = t.at.folder /\ e.uid = t.at.uid)
  <1>1. ActionTypeOK BY DEF ActionInv
  <1>2. \A t \in batch : t.at \in Places BY <1>1, CallTypes
  <1>3. Hits(batch) \in SUBSET box BY DEF Hits
  <1>4. \A e \in Hits(batch) : e.mail \in Mails /\ e.folder \in Folders BY <1>1, <1>3 DEF ActionTypeOK, Entries
  <1>5. \A t \in batch : Hit(t) <=> \E e \in Hits(batch) : e.folder = t.at.folder /\ e.uid = t.at.uid BY DEF Hit, Hits
  <1>6. ASSUME NEW t \in batch, NEW e \in box, UidScope(t) PROVE PlaceOf(e) = t.at <=> e.folder = t.at.folder /\ e.uid = t.at.uid
    <2>1. t.at = [folder |-> t.at.folder, gen |-> t.at.gen, uid |-> t.at.uid] BY <1>2 DEF Places
    <2>2. gen[t.at.folder] = t.at.gen BY <1>6 DEF UidScope
    <2> QED BY <2>1, <2>2 DEF PlaceOf, Place
  <1> QED BY <1>3, <1>4, <1>5, <1>6

LEMMA FlagKeeps ==
  ASSUME ActionInv, NEW a \in Calls, At(a, "command"), NEW t \in call[a].todo, StoreFlag(a, t), UNCHANGED <<lock, mirror, run>>
  PROVE  ActionInv' /\ UNCHANGED <<box, gen, rows, known, due, foreign, lock>>
  <1> DEFINE new == [call[a] EXCEPT !.pc = "write", !.todo = @ \ {t}, !.silent = @ \/ \E x \in {t} : ~Hit(x),
                             !.moved = {[id |-> x.id, at |-> x.at, new |-> NoPlace] : x \in {t}}]
  <1>1. call' = [call EXCEPT ![a] = new] /\ call[a].pc = "command" BY DEF StoreFlag, Written, Becomes, At
  <1>2. UNCHANGED <<box, gen, next, rows, known, due, lock, run, foreign, removed>> /\ flagged' = flagged \cup {e.mail : e \in Hits({t})}
        /\ call[a].kind \in {"flag", "flags"}
    BY DEF StoreFlag, mirror, history
  <1>3. ActionTypeOK /\ UidsOnce BY DEF ActionInv
  <1>4. flagged' \subseteq Mails BY <1>2, <1>3, HitTypes DEF ActionTypeOK
  <1>5. call[a] \in CallRecords /\ t.id \in Rows /\ t.at \in Places BY <1>3, CallTypes
  <1>6. PICK b : b = (call[a].silent \/ \E x \in {t} : ~Hit(x)) OBVIOUS
  <1>7. b \in BOOLEAN
    <2>1. call[a].silent \in BOOLEAN BY <1>5 DEF CallRecords
    <2> QED BY <1>6, <2>1
  <1>8. PICK m : m = [id |-> t.id, at |-> t.at, new |-> NoPlace] OBVIOUS
  <1>9. m \in MovedRecords /\ m.new = NoPlace /\ m.id = t.id /\ m.at = t.at BY <1>5, <1>8 DEF MovedRecords
  <1>10. new = [call[a] EXCEPT !.pc = "write", !.todo = @ \ {t}, !.silent = b, !.moved = {m}] BY <1>6, <1>8
  <1> HIDE DEF new
  <1>11. /\ new \in CallRecords /\ new.pc = "write" /\ new.kind = call[a].kind /\ new.todo \subseteq call[a].todo
         /\ new.moved = {m} /\ new.named = call[a].named /\ new.filed = call[a].filed /\ new.dest = call[a].dest
         /\ new.lost = call[a].lost
    BY <1>5, <1>7, <1>9, <1>10 DEF CallRecords
  <1>12. Steady /\ RowsStay /\ Present' = Present BY <1>2, AsBefore
  <1>13. call' \in [Calls -> CallRecords] /\ call'[a] = new /\ \A c \in Calls \ {a} : call'[c] = call[c]
    BY <1>1, <1>3, <1>11 DEF ActionTypeOK
  <1>14. CallsKeep BY <1>11, <1>13 DEF CallsKeep
  <1>15. Witnesses \subseteq Witnesses' BY <1>2, <1>12, <1>14, AskedGrows DEF Witnesses
  <1>16. CallOK(a)'
    <2>1. \A x \in new.moved : \E y \in call[a].todo : x.id = y.id /\ x.at = y.at BY <1>9, <1>11
    <2>2. \A x, y \in new.moved : x = y BY <1>11
    <2>3. \A x \in new.moved : x.new = NoPlace BY <1>9, <1>11
    <2> QED BY <1>1, <1>2, <1>11, <1>12, <1>15, <2>1, <2>2, <2>3, CommandSent
  <1>17. UidsOnce' BY <1>2, <1>3, Still
  <1>18. Serves(a) BY <1>2, <1>3, <1>4, <1>11, <1>12, <1>13, <1>17 DEF Serves, ActionTypeOK
  <1>19. ActionInv' BY <1>2, <1>12, <1>16, <1>18, CallStep
  <1> QED BY <1>2, <1>19

LEMMA MoveKeeps ==
  ASSUME ActionInv, NEW a \in Calls, At(a, "command"), NEW t \in call[a].todo, Move(a, t), UNCHANGED <<lock, mirror, run>>
  PROVE  /\ ActionInv' /\ UNCHANGED <<gen, rows, known, due, lock>> /\ {t.at.folder, call[a].dest} \subseteq Reach(a)
         /\ foreign' = IF call[a].lost THEN foreign \cup {t.at.folder, call[a].dest} ELSE foreign
         /\ \A e \in Entries : e.folder \notin {t.at.folder, call[a].dest} => (e \in box' <=> e \in box)
  <1> DEFINE batch == Batch(a, t)
  <1> DEFINE dest == call[a].dest
  <1> DEFINE es == Hits(batch)
  <1>1. PICK copyuid \in BOOLEAN : Written(a, batch, LAMBDA x : IF copyuid /\ Hit(x) THEN NewPlace(batch, x, dest) ELSE NoPlace)
    BY DEF Move
  <1> DEFINE to(x) == IF copyuid /\ Hit(x) THEN NewPlace(batch, x, dest) ELSE NoPlace
  <1> DEFINE M == {[id |-> x.id, at |-> x.at, new |-> to(x)] : x \in batch}
  <1> DEFINE new == [call[a] EXCEPT !.pc = "write", !.todo = @ \ batch, !.silent = @ \/ \E x \in batch : ~Hit(x), !.moved = M]
  <1>2. call' = [call EXCEPT ![a] = new] /\ call[a].pc = "command" BY <1>1 DEF Written, Becomes, At
  <1>3. /\ UNCHANGED <<gen, flagged, rows, known, due, lock, run, removed>> /\ call[a].kind \in Moves /\ UidScope(t)
        /\ box' = (box \ es) \cup MovedTo(es, dest) /\ next' = [next EXCEPT ![dest] = @ + Cardinality(es)]
        /\ foreign' = IF call[a].lost THEN foreign \cup {t.at.folder, dest} ELSE foreign
    BY DEF Move, mirror, Moves, Touched
  <1>4. ActionTypeOK /\ UidsOnce /\ CallOK(a) BY DEF ActionInv
  <1>5. call[a] \in CallRecords /\ dest \in Folders /\ \A x \in call[a].todo : x.id \in Rows /\ x.at \in Places BY <1>4, CallTypes
  <1>6. batch \in SUBSET call[a].todo /\ \A x \in batch : x.at.folder = t.at.folder /\ x.at.gen = t.at.gen BY DEF Batch
  <1> HIDE DEF batch
  <1>7. \A x \in batch : UidScope(x) BY <1>3, <1>6 DEF UidScope
  <1>8. /\ es \in SUBSET box /\ \A x \in batch : Hit(x) <=> \E e \in es : e.folder = x.at.folder /\ e.uid = x.at.uid
        /\ \A x \in batch, e \in box : PlaceOf(e) = x.at <=> e.folder = x.at.folder /\ e.uid = x.at.uid
    BY <1>6, <1>7, HitTypes
  <1>9. \A e \in es : e.folder = t.at.folder /\ \E x \in batch : e.folder = x.at.folder /\ e.uid = x.at.uid BY <1>6 DEF Hits
  <1>10. \A x \in batch, e \in box : e.folder = x.at.folder /\ e.uid = x.at.uid => e \in es BY DEF Hits
  <1> HIDE DEF es
  <1>11. Together(es) BY <1>8, <1>9 DEF Together
  <1>12. IsFiniteSet(es) /\ Cardinality(es) \in Nat /\ Numbered(es, dest) BY <1>4, <1>5, <1>11, MovedMail
  <1>13. box' \in SUBSET Entries /\ next' \in [Folders -> Nat] /\ UidsOnce' /\ Steady /\ Present' = Present
    BY <1>3, <1>4, <1>5, <1>11, MailMoves
  <1>14. RowsStay BY <1>3 DEF RowsStay, Existing
  <1>15. \A x \in batch : TrueOf(x.id, x.at) BY <1>4, <1>6 DEF CallOK, TargetsTrue
  <1>16. ASSUME NEW x \in batch PROVE Held(x.at)' = {}
    <2> SUFFICES ASSUME NEW e \in Held(x.at)' PROVE FALSE OBVIOUS
    <2>1. x.at \in Places BY <1>5, <1>6
    <2>2. e \in Held(x.at) BY <1>13, <1>15, <2>1 DEF Steady, TrueOf
    <2>3. e \in box /\ e \in es BY <1>8, <1>10, <2>2 DEF Held
    <2>4. e \in MovedTo(es, dest) BY <1>3, <2>3 DEF Held
    <2>5. e.folder = dest /\ next[dest] <= e.uid BY <1>12, <2>4 DEF Numbered
    <2>6. e.uid < next[dest] /\ e.uid \in Nat BY <1>4, <2>3, <2>5 DEF UidsOnce, ActionTypeOK, Entries
    <2>7. next[dest] \in Nat BY <1>4, <1>5 DEF ActionTypeOK
    <2> QED BY <2>5, <2>6, <2>7
  <1>17. \A d \in es : d.uid \in Nat /\ d.mail \in Mails BY <1>4, <1>8 DEF ActionTypeOK, Entries
  <1>18. gen[dest] \in Nat /\ next[dest] \in Nat /\ next'[dest] = next[dest] + Cardinality(es)
    BY <1>3, <1>4, <1>5 DEF ActionTypeOK
  <1>19. ASSUME NEW x \in batch, Hit(x)
         PROVE  /\ \E p \in Places : /\ p = NewPlace(batch, x, dest) /\ p.folder = dest
                                      /\ p.uid = next[dest] + RankIn(es, x.at.uid) /\ TrueOf(x.id, p)'
                /\ RankIn(es, x.at.uid) \in Nat /\ \E e \in es : e.uid = x.at.uid
    <2>1. PICK e \in es : e.folder = x.at.folder /\ e.uid = x.at.uid BY <1>8, <1>19
    <2>2. RankIn(es, x.at.uid) \in Nat /\ RankIn(es, x.at.uid) < Cardinality(es) BY <1>12, <1>17, <2>1, RankTypes, RankBelow
    <2>3. PICK p : p = [folder |-> dest, gen |-> gen[dest], uid |-> next[dest] + RankIn(es, x.at.uid)] OBVIOUS
    <2>4. NewPlace(batch, x, dest) = p BY <2>3 DEF NewPlace, Place, RankIn, es
    <2>5. p \in Places /\ p.folder = dest /\ p.gen = gen[dest] /\ p.uid = next[dest] + RankIn(es, x.at.uid)
      BY <1>5, <1>18, <2>2, <2>3 DEF Places
    <2>6. Issued(p)' BY <1>3, <1>12, <1>18, <2>2, <2>5 DEF Issued
    <2>7. ASSUME NEW d \in box', PlaceOf(d)' = p PROVE d.mail = rows[x.id].mail
      <3>1. d.folder = dest /\ d.uid = p.uid BY <2>5, <2>7 DEF PlaceOf, Place
      <3>2. d \notin box
        <4>1. SUFFICES ASSUME d \in box PROVE FALSE OBVIOUS
        <4>2. d.uid < next[dest] BY <1>4, <3>1, <4>1 DEF UidsOnce
        <4> QED BY <1>18, <2>2, <2>5, <3>1, <4>2
      <3>3. d \in MovedTo(es, dest) BY <1>3, <3>2
      <3>4. PICK c \in es : d.mail = c.mail /\ d.uid = next[dest] + RankIn(es, c.uid) BY <1>12, <3>3 DEF Numbered
      <3>5. RankIn(es, c.uid) \in Nat BY <1>12, RankTypes
      <3>6. RankIn(es, c.uid) = RankIn(es, e.uid) BY <1>18, <2>1, <2>2, <2>5, <3>1, <3>4, <3>5
      <3>7. c.uid = e.uid BY <1>12, <1>17, <3>6, RankOrders
      <3>8. c \in Held(x.at) BY <1>6, <1>8, <1>9, <2>1, <3>7 DEF Held
      <3> QED BY <1>15, <3>4, <3>8 DEF TrueOf
    <2>8. TrueOf(x.id, p)' BY <1>3, <1>15, <2>6, <2>7 DEF TrueOf, Held
    <2> QED BY <2>1, <2>2, <2>4, <2>5, <2>8
  <1>20. \A x \in batch : to(x) \in Places \cup {NoPlace} /\ (to(x) # NoPlace => Hit(x) /\ to(x) = NewPlace(batch, x, dest))
    BY <1>19
  <1> HIDE DEF to
  <1>21. \A m \in M : \E x \in batch : m = [id |-> x.id, at |-> x.at, new |-> to(x)] OBVIOUS
  <1>22. M \subseteq MovedRecords BY <1>5, <1>6, <1>20 DEF MovedRecords
  <1>23. \A x, y \in batch : x.id = y.id \/ x.at = y.at => x = y BY <1>4, <1>6 DEF CallOK, TargetsTrue
  <1>24. PICK b : b = (call[a].silent \/ \E x \in batch : ~Hit(x)) OBVIOUS
  <1>25. b \in BOOLEAN
    <2>1. call[a].silent \in BOOLEAN BY <1>5 DEF CallRecords
    <2> QED BY <1>24, <2>1
  <1> HIDE DEF M
  <1>26. new = [call[a] EXCEPT !.pc = "write", !.todo = @ \ batch, !.silent = b, !.moved = M] BY <1>24
  <1> HIDE DEF new
  <1>27. /\ new \in CallRecords /\ new.pc = "write" /\ new.kind = call[a].kind /\ new.todo \subseteq call[a].todo
         /\ new.moved = M /\ new.named = call[a].named /\ new.filed = call[a].filed /\ new.dest = call[a].dest
         /\ new.lost = call[a].lost
    BY <1>5, <1>22, <1>25, <1>26 DEF CallRecords
  <1>28. call' \in [Calls -> CallRecords] /\ call'[a] = new /\ \A c \in Calls \ {a} : call'[c] = call[c]
    BY <1>2, <1>4, <1>27 DEF ActionTypeOK
  <1>29. CallsKeep BY <1>27, <1>28 DEF CallsKeep
  <1>30. Witnesses \subseteq Witnesses' BY <1>3, <1>13, <1>29, AskedGrows DEF Witnesses
  <1>31. CallOK(a)'
    <2>1. \A m \in M : \E x \in call[a].todo : m.id = x.id /\ m.at = x.at BY <1>6, <1>21
    <2>2. \A m, n \in M : m.id = n.id => m = n BY <1>21, <1>23
    <2>3. ASSUME NEW m \in M, NEW n \in M, m.new = n.new, m.new # NoPlace PROVE m.id = n.id
      <3>1. PICK x \in batch : m = [id |-> x.id, at |-> x.at, new |-> to(x)] BY <1>21
      <3>2. PICK y \in batch : n = [id |-> y.id, at |-> y.at, new |-> to(y)] BY <1>21
      <3>3. /\ Hit(x) /\ Hit(y) /\ NewPlace(batch, x, dest) = NewPlace(batch, y, dest) BY <1>20, <2>3, <3>1, <3>2
      <3>4. RankIn(es, x.at.uid) = RankIn(es, y.at.uid)
        <4>1. PICK k \in Nat, l \in Nat : k = RankIn(es, x.at.uid) /\ l = RankIn(es, y.at.uid) BY <1>19, <3>3
        <4>2. PICK p \in Places : p = NewPlace(batch, x, dest) /\ p.uid = next[dest] + k BY <1>19, <3>3, <4>1
        <4>3. PICK q \in Places : q = NewPlace(batch, y, dest) /\ q.uid = next[dest] + l BY <1>19, <3>3, <4>1
        <4>4. next[dest] + k = next[dest] + l BY <3>3, <4>2, <4>3
        <4> QED BY <1>18, <4>1, <4>4
      <3>5. (\E e \in es : e.uid = x.at.uid) /\ (\E e \in es : e.uid = y.at.uid) BY <1>19, <3>3
      <3>6. x.at.uid = y.at.uid BY <1>12, <1>17, <3>4, <3>5, RankOrders
      <3>7. x.at = y.at BY <1>5, <1>6, <3>6 DEF Places
      <3> QED BY <1>23, <3>1, <3>2, <3>7
    <2>4. ASSUME NEW m \in M PROVE Held(m.at)' = {} /\ (m.new # NoPlace => TrueOf(m.id, m.new)' /\ m.new.folder = dest)
      <3>1. PICK x \in batch : m = [id |-> x.id, at |-> x.at, new |-> to(x)] BY <1>21
      <3>2. m.id = x.id /\ m.at = x.at /\ m.new = to(x) BY <3>1
      <3>3. Held(m.at)' = {} BY <1>16, <3>2 DEF Held
      <3>4. m.new # NoPlace => TrueOf(m.id, m.new)' /\ m.new.folder = dest
        <4> SUFFICES ASSUME m.new # NoPlace PROVE TrueOf(m.id, m.new)' /\ m.new.folder = dest OBVIOUS
        <4>1. Hit(x) /\ m.new = NewPlace(batch, x, dest) BY <1>20, <3>2
        <4>2. PICK q \in Places : q = NewPlace(batch, x, dest) /\ TrueOf(x.id, q)' /\ q.folder = dest BY <1>19, <4>1
        <4>3. m.new = q /\ m.id = x.id BY <3>2, <4>1, <4>2
        <4> QED BY <4>2, <4>3
      <3> QED BY <3>3, <3>4
    <2>5. /\ \A m \in new.moved : \E x \in call[a].todo : m.id = x.id /\ m.at = x.at
          /\ \A m, n \in new.moved : m.id = n.id => m = n
          /\ \A m, n \in new.moved : m.new = n.new /\ m.new # NoPlace => m.id = n.id
          /\ \A m \in new.moved : call[a].kind \notin {"flag", "flags"} => Held(m.at)' = {}
          /\ \A m \in new.moved : m.new # NoPlace => TrueOf(m.id, m.new)' /\ m.new.folder = call[a].dest
      BY <1>27, <2>1, <2>2, <2>3, <2>4
    <2>6. Steady /\ Witnesses \subseteq Witnesses' /\ lock' = lock /\ due' = due BY <1>3, <1>13, <1>30
    <2> HIDE DEF dest
    <2> QED BY <1>2, <1>14, <1>27, <2>5, <2>6, CommandSent DEF dest
  <1>32. foreign' \subseteq Folders
    <2>1. t.at.folder \in Folders BY <1>5 DEF Places
    <2> QED BY <1>3, <1>4, <1>5, <2>1 DEF ActionTypeOK
  <1>33. Serves(a) BY <1>3, <1>4, <1>13, <1>27, <1>28, <1>32 DEF Serves, ActionTypeOK
  <1>34. ActionInv' BY <1>3, <1>13, <1>31, <1>33, CallStep
  <1>35. \A e \in Entries : e.folder \notin {t.at.folder, dest} => (e \in box' <=> e \in box)
    BY <1>3, <1>9, <1>12 DEF Numbered
  <1>36. {t.at.folder, dest} \subseteq Reach(a) BY <1>2, <1>3 DEF Reach, In, Moves
  <1> QED BY <1>3, <1>34, <1>35, <1>36

(* Only mail that the call was asked to remove goes, and a draft only when *)
(* its revision is filed.                                                  *)
LEMMA ExpungeKeeps ==
  ASSUME ActionInv, NEW a \in Calls, At(a, "command"), NEW t \in call[a].todo, Expunge(a, t), UNCHANGED <<lock, mirror, run>>
  PROVE  /\ ActionInv' /\ UNCHANGED <<gen, rows, known, due, lock>> /\ t.at.folder \in Reach(a)
         /\ foreign' = IF call[a].lost THEN foreign \cup {t.at.folder} ELSE foreign
         /\ \A e \in Entries : e.folder # t.at.folder => (e \in box' <=> e \in box)
  <1> DEFINE new == [call[a] EXCEPT !.pc = "write", !.todo = @ \ {t}, !.silent = @ \/ \E x \in {t} : ~Hit(x),
                             !.moved = {[id |-> x.id, at |-> x.at, new |-> NoPlace] : x \in {t}}]
  <1>1. call' = [call EXCEPT ![a] = new] /\ call[a].pc = "command" BY DEF Expunge, Written, Becomes, At
  <1>2. /\ UNCHANGED <<gen, next, flagged, rows, known, due, lock, run, removed>> /\ box' = box \ Hits({t})
        /\ call[a].kind \in {"expunge", "update"} /\ UidScope(t)
        /\ foreign' = IF call[a].lost THEN foreign \cup {t.at.folder} ELSE foreign
    BY DEF Expunge, Touched, mirror
  <1>3. ActionTypeOK /\ UidsOnce /\ CallOK(a) BY DEF ActionInv
  <1>4. call[a] \in CallRecords /\ t.id \in Rows /\ t.at \in Places /\ t.at.folder \in Folders BY <1>3, CallTypes DEF Places
  <1>5. PICK b : b = (call[a].silent \/ \E x \in {t} : ~Hit(x)) OBVIOUS
  <1>6. b \in BOOLEAN
    <2>1. call[a].silent \in BOOLEAN BY <1>4 DEF CallRecords
    <2> QED BY <1>5, <2>1
  <1>7. PICK m : m = [id |-> t.id, at |-> t.at, new |-> NoPlace] OBVIOUS
  <1>8. m \in MovedRecords /\ m.new = NoPlace /\ m.id = t.id /\ m.at = t.at BY <1>4, <1>7 DEF MovedRecords
  <1>9. new = [call[a] EXCEPT !.pc = "write", !.todo = @ \ {t}, !.silent = b, !.moved = {m}] BY <1>5, <1>7
  <1> HIDE DEF new
  <1>10. /\ new \in CallRecords /\ new.pc = "write" /\ new.kind = call[a].kind /\ new.todo \subseteq call[a].todo
         /\ new.moved = {m} /\ new.named = call[a].named /\ new.filed = call[a].filed /\ new.dest = call[a].dest
         /\ new.lost = call[a].lost
    BY <1>4, <1>6, <1>8, <1>9 DEF CallRecords
  <1>11. call' \in [Calls -> CallRecords] /\ call'[a] = new /\ \A c \in Calls \ {a} : call'[c] = call[c]
    BY <1>1, <1>3, <1>10 DEF ActionTypeOK
  <1>12. box' \in SUBSET Entries /\ UidsOnce' /\ Steady BY <1>2, <1>3, MailGoes
  <1>13. RowsStay BY <1>2 DEF RowsStay, Existing
  <1>14. CallsKeep BY <1>10, <1>11 DEF CallsKeep
  <1>15. Asked \subseteq Asked' BY <1>14, AskedGrows
  <1>16. TrueOf(t.id, t.at) /\ rows[t.id].mail \in call[a].named BY <1>3 DEF CallOK, TargetsTrue
  <1>17. Hits({t}) \in SUBSET box /\ \A e \in Hits({t}) : PlaceOf(e) = t.at /\ e.folder = t.at.folder
    <2>1. \A e \in Hits({t}) : e.folder = t.at.folder /\ e.uid = t.at.uid /\ e \in box BY DEF Hits
    <2>2. \A e \in box : PlaceOf(e) = t.at <=> e.folder = t.at.folder /\ e.uid = t.at.uid
      <3>1. {t} \in SUBSET call[a].todo OBVIOUS
      <3> QED BY <1>2, <3>1, HitTypes
    <2> QED BY <2>1, <2>2
  <1>18. \A e \in Hits({t}) : e.mail \in call[a].named BY <1>16, <1>17 DEF TrueOf, Held
  <1>19. call[a].named \subseteq Asked /\ call[a].named \subseteq Asked' BY <1>2, <1>10, <1>11 DEF Asked
  <1>20. ASSUME NEW x \in Present, x \notin Present' PROVE x \in call[a].named
    <2>1. PICK e \in box : e.mail = x BY DEF Present
    <2>2. e \notin box' BY <1>20, <2>1 DEF Present
    <2> QED BY <1>2, <1>18, <2>1, <2>2
  <1>21. Witnesses \subseteq Witnesses' BY <1>2, <1>15, <1>19, <1>20 DEF Witnesses
  <1>22. OnlyAskedIsRemoved'
    <2> SUFFICES ASSUME NEW x \in Old, x \notin Present', x \notin removed'
                 PROVE  \E c \in Calls : /\ x \in call'[c].named
                                         /\ \/ call'[c].kind = "expunge"
                                            \/ call'[c].kind = "update" /\ c \in Witnesses'
      BY DEF OnlyAskedIsRemoved, Witnesses
    <2>1. CASE x \in Present
      <3>1. x \in call'[a].named BY <1>10, <1>11, <1>20, <2>1
      <3>2. call[a].kind = "update" => a \in Witnesses' BY <1>1, <1>3, <1>21 DEF CallOK, Revised, Witnesses
      <3> QED BY <1>2, <1>10, <1>11, <3>1, <3>2
    <2>2. CASE x \notin Present
      <3>1. PICK c \in Calls : /\ x \in call[c].named
                               /\ \/ call[c].kind = "expunge"
                                  \/ call[c].kind = "update" /\ c \in Witnesses
        BY <1>2, <2>2 DEF ActionInv, OnlyAskedIsRemoved, Witnesses
      <3>2. call'[c].kind = call[c].kind /\ call'[c].named = call[c].named BY <1>14, <3>1 DEF CallsKeep
      <3> QED BY <1>21, <3>1, <3>2
    <2> QED BY <2>1, <2>2
  <1>23. Held(t.at)' = {}
    <2> SUFFICES ASSUME NEW e \in Held(t.at)' PROVE FALSE OBVIOUS
    <2>1. e \in Held(t.at) /\ e \in box' BY <1>4, <1>12, <1>16 DEF Steady, TrueOf, Held
    <2>2. e.folder = t.at.folder /\ e.uid = t.at.uid /\ e \in box BY <2>1 DEF Held, PlaceOf, Place
    <2> QED BY <1>2, <2>1, <2>2 DEF Hits
  <1>24. CallOK(a)'
    <2>1. \A x \in new.moved : \E y \in call[a].todo : x.id = y.id /\ x.at = y.at BY <1>8, <1>10
    <2>2. \A x, y \in new.moved : x = y BY <1>10
    <2>3. \A x \in new.moved : x.new = NoPlace BY <1>8, <1>10
    <2>4. \A x \in new.moved : call[a].kind \notin {"flag", "flags"} => Held(x.at)' = {} BY <1>8, <1>10, <1>23 DEF Held
    <2> QED BY <1>1, <1>2, <1>10, <1>12, <1>13, <1>21, <2>1, <2>2, <2>3, <2>4, CommandSent
  <1>25. ActionTypeOK' BY <1>2, <1>3, <1>4, <1>11, <1>12 DEF ActionTypeOK
  <1>26. RowsKnown' /\ MirrorTrue'
    <2>1. RowsKnown /\ MirrorTrue BY DEF ActionInv
    <2>2. gen' \in [Folders -> Nat] /\ \A f \in Folders : gen[f] <= gen'[f] BY <1>2, <1>3 DEF ActionTypeOK
    <2> QED BY <1>2, <1>3, <1>12, <2>1, <2>2, RowsFrame
  <1>27. RunOK' BY <1>2, <1>3, <1>12, <1>13, RunKept DEF ActionInv
  <1>28. ASSUME NEW c \in Calls PROVE CallOK(c)'
    <2>1. CASE c = a BY <1>24, <2>1
    <2>2. CASE c # a
      <3>1. call'[c] = call[c] /\ CallOK(c) BY <1>11, <2>2 DEF ActionInv
      <3> QED BY <1>2, <1>3, <1>12, <1>13, <1>21, <3>1, CallKept
    <2> QED BY <2>1, <2>2
  <1>29. ActionInv' BY <1>12, <1>22, <1>25, <1>26, <1>27, <1>28 DEF ActionInv
  <1>30. \A e \in Entries : e.folder # t.at.folder => (e \in box' <=> e \in box) BY <1>2, <1>17
  <1>31. t.at.folder \in Reach(a)
    <2>1. t.at.folder \in In(call[a].todo) BY DEF In
    <2> QED BY <1>1, <1>2, <2>1 DEF Reach
  <1> QED BY <1>2, <1>29, <1>30, <1>31

LEMMA FailsKeeps ==
  ASSUME ActionInv, NEW a \in Calls, At(a, "command"), NEW t \in call[a].todo, Fails(a, t), UNCHANGED <<mirror, run>>
  PROVE  /\ ActionInv' /\ UNCHANGED <<gen, rows, known, due>>
         /\ lock' \in Calls => lock' = lock
         /\ \/ UNCHANGED <<box, foreign>>
            \/ /\ {t.at.folder, call[a].dest} \subseteq Reach(a)
               /\ foreign' = IF call[a].lost THEN foreign \cup {t.at.folder, call[a].dest} ELSE foreign
               /\ \A e \in Entries : e.folder \notin {t.at.folder, call[a].dest} => (e \in box' <=> e \in box)
  <1> DEFINE batch == Batch(a, t)
  <1> DEFINE dest == call[a].dest
  <1> DEFINE es == Hits(batch)
  <1> DEFINE left == call[a].todo \ batch
  <1>1. ActionTypeOK /\ UidsOnce /\ CallOK(a) BY DEF ActionInv
  <1>2. call[a] \in CallRecords /\ dest \in Folders /\ t.at \in Places /\ t.at.folder \in Folders /\ call[a].pc = "command"
    BY <1>1, CallTypes DEF Places, At
  <1>3. UNCHANGED <<gen, flagged, rows, known, due, run, removed>>
    BY DEF Fails, mirror, mailbox, history
  <1>4. \/ UNCHANGED <<box, next, foreign>>
        \/ /\ call[a].kind \in Moves /\ box' = box \cup MovedTo(es, dest)
           /\ next' = [next EXCEPT ![dest] = @ + Cardinality(es)]
           /\ foreign' = IF call[a].lost THEN foreign \cup {t.at.folder, dest} ELSE foreign
    BY DEF Fails, mailbox, history, Touched, Moves
  <1>5. \/ call' = [call EXCEPT ![a] = [call[a] EXCEPT !.todo = left]] /\ lock' = lock
        \/ call' = [call EXCEPT ![a] = Ended(a)] /\ Release(a)
    BY DEF Fails, Becomes
  <1>6. batch \in SUBSET call[a].todo /\ \A x \in batch : x.at.folder = t.at.folder BY DEF Batch
  <1> HIDE DEF batch
  <1>7. es \in SUBSET box /\ \A e \in es : e.folder = t.at.folder BY <1>6 DEF Hits
  <1> HIDE DEF es
  <1>8. Together(es) BY <1>7 DEF Together
  <1>9. Numbered(es, dest) BY <1>1, <1>2, <1>8, MovedMail
  <1>10. /\ box' \in SUBSET Entries /\ next' \in [Folders -> Nat] /\ UidsOnce' /\ Steady /\ Present' = Present
         /\ foreign' \subseteq Folders
    <2>1. CASE UNCHANGED <<box, next, foreign>>
      <3>1. UidsOnce' /\ Steady /\ Present' = Present BY <1>1, <1>3, <2>1, Still
      <3> QED BY <1>1, <2>1, <3>1 DEF ActionTypeOK
    <2>2. ASSUME box' = box \cup MovedTo(es, dest), next' = [next EXCEPT ![dest] = @ + Cardinality(es)],
                 foreign' = IF call[a].lost THEN foreign \cup {t.at.folder, dest} ELSE foreign
          PROVE  <1>10
      <3>1. box' = (box \ {}) \cup MovedTo(es, dest) /\ {} \in {es, {}} BY <2>2
      <3>2. foreign' \subseteq Folders BY <1>1, <1>2, <2>2 DEF ActionTypeOK
      <3>3. gen' = gen BY <1>3
      <3>4. box' \in SUBSET Entries /\ next' \in [Folders -> Nat] /\ UidsOnce' /\ Steady /\ Present' = Present
        BY <1>1, <1>2, <1>8, <2>2, <3>1, <3>3, MailMoves
      <3> QED BY <3>2, <3>4
    <2> QED BY <1>4, <2>1, <2>2
  <1>11. RowsStay BY <1>3 DEF RowsStay, Existing
  <1>12. \/ UNCHANGED <<box, foreign>>
         \/ /\ {t.at.folder, dest} \subseteq Reach(a)
            /\ foreign' = IF call[a].lost THEN foreign \cup {t.at.folder, dest} ELSE foreign
            /\ \A e \in Entries : e.folder \notin {t.at.folder, dest} => (e \in box' <=> e \in box)
    <2>1. t.at.folder \in In(call[a].todo) BY DEF In
    <2>2. call[a].kind \in Moves => {t.at.folder, dest} \subseteq Reach(a) BY <1>2, <2>1 DEF Reach, Moves
    <2> QED BY <1>4, <1>9, <2>2 DEF Numbered
  <1>13. call' \in [Calls -> CallRecords] /\ CallOK(a)' /\ call'[a].kind = call[a].kind /\ call'[a].named = call[a].named
    <2>1. CASE call' = [call EXCEPT ![a] = Ended(a)] /\ Release(a) BY <1>1, <2>1, EndedCall, Released
    <2>2. CASE call' = [call EXCEPT ![a] = [call[a] EXCEPT !.todo = left]] /\ lock' = lock
      <3> DEFINE new == [call[a] EXCEPT !.todo = left]
      <3>1. /\ new \in CallRecords /\ new.pc = "command" /\ new.kind = call[a].kind /\ new.todo \subseteq call[a].todo
            /\ new.moved = call[a].moved /\ new.named = call[a].named /\ new.filed = call[a].filed /\ new.dest = dest
            /\ new.lost = call[a].lost
        BY <1>2 DEF CallRecords
      <3> HIDE DEF new
      <3>2. call' \in [Calls -> CallRecords] /\ call'[a] = new /\ \A b \in Calls \ {a} : call'[b] = call[b]
        BY <1>1, <2>2, <3>1 DEF ActionTypeOK, new
      <3>3. TargetsTrue(a)' BY <1>1, <1>10, <1>11, <3>1, <3>2, TargetsKept DEF CallOK
      <3>4. Fits(a)' BY <1>1, <1>2, <3>1, <3>2 DEF Fits, CallOK
      <3>5. Reach(a)' \subseteq Reach(a) BY <3>1, <3>2, <1>2 DEF Reach, In
      <3>6. DueFirst(a)' BY <1>1, <1>2, <1>3, <2>2, <3>1, <3>2, <3>5 DEF DueFirst, CallOK, Working
      <3>7. CallsKeep BY <3>1, <3>2 DEF CallsKeep
      <3>8. Revised(a)' BY <1>1, <1>2, <1>3, <1>10, <3>1, <3>2, <3>7, AskedGrows DEF Revised, CallOK
      <3>9. CallOK(a)' BY <3>3, <3>4, <3>6, <3>8 DEF CallOK
      <3> QED BY <3>1, <3>2, <3>9
    <2> QED BY <1>5, <2>1, <2>2
  <1>14. lock' \in Calls \cup {NoOne} /\ (\A b \in Calls \ {a} : lock' = b <=> lock = b) /\ (lock' \in Calls => lock' = lock)
    <2>1. CASE lock' = lock BY <1>1, <2>1 DEF ActionTypeOK
    <2>2. CASE Release(a)
      <3>1. lock' \in Calls \cup {NoOne} /\ lock' # a /\ \A b \in Calls \ {a} : lock' = b <=> lock = b BY <1>1, <2>2, Released
      <3> QED BY <3>1
    <2> QED BY <1>5, <2>1, <2>2
  <1>15. \A b \in Calls \ {a} : call'[b] = call[b] BY <1>1, <1>5 DEF ActionTypeOK
  <1>16. Serves(a) BY <1>1, <1>3, <1>10, <1>13, <1>14, <1>15 DEF Serves, ActionTypeOK
  <1>17. ActionInv' BY <1>3, <1>10, <1>13, <1>16, CallStep
  <1> QED BY <1>3, <1>12, <1>14, <1>17

LEMMA AppendKeeps ==
  ASSUME ActionInv, NEW a \in Calls, Append(a)
  PROVE  /\ ActionInv' /\ UNCHANGED <<gen, rows, known, due, lock>> /\ Drafts \in Reach(a)
         /\ foreign' = IF call[a].lost THEN foreign \cup {Drafts} ELSE foreign
         /\ \A e \in Entries : e.folder # Drafts => (e \in box' <=> e \in box)
  <1> DEFINE e == [folder |-> Drafts, uid |-> next[Drafts], mail |-> a]
  <1>1. PICK uid \in BOOLEAN :
          call' = [call EXCEPT ![a] = [call[a] EXCEPT !.pc = "mirror", !.filed = IF uid THEN PlaceOf(e) ELSE NoPlace]]
    BY DEF Append, Becomes
  <1>2. /\ box' = box \cup {e} /\ next' = [next EXCEPT ![Drafts] = @ + 1] /\ call[a].pc = "append"
        /\ UNCHANGED <<gen, flagged, rows, known, due, lock, run, removed>>
        /\ foreign' = IF call[a].lost THEN foreign \cup {Drafts} ELSE foreign
    BY DEF Append, At, Touched, mirror
  <1>3. ActionTypeOK /\ UidsOnce /\ CallOK(a) /\ Drafts \in Folders BY ActionConstants DEF ActionInv
  <1>4. call[a] \in CallRecords /\ call[a].kind = "update" /\ call[a].moved = {} /\ call[a].todo # {}
    BY <1>2, <1>3, CallTypes DEF CallOK, Fits
  <1>5. /\ box \in SUBSET Entries /\ gen \in [Folders -> Nat] /\ next \in [Folders -> Nat] /\ IsFiniteSet(box)
    BY <1>3 DEF ActionTypeOK, UidsOnce
  <1>6. e \in Entries /\ e.folder = Drafts /\ e.uid = next[Drafts] /\ e.mail = a BY <1>3, <1>5 DEF Entries, Mails
  <1> HIDE DEF e
  <1>7. next' \in [Folders -> Nat] /\ next'[Drafts] = next[Drafts] + 1 /\ \A f \in Folders : next[f] <= next'[f]
    BY <1>2, <1>3, <1>5
  <1>8. UidsOnce'
    <2>1. IsFiniteSet(box') BY <1>2, <1>5, FS_AddElement
    <2>2. \A d \in box' : d.uid < next'[d.folder] BY <1>2, <1>3, <1>5, <1>6, <1>7 DEF UidsOnce, Entries
    <2>3. \A d \in box : ~(d.folder = Drafts /\ d.uid = next[Drafts]) BY <1>3, <1>5 DEF UidsOnce, Entries
    <2>4. \A c, d \in box' : c.folder = d.folder /\ c.uid = d.uid => c = d BY <1>2, <1>3, <1>6, <2>3 DEF UidsOnce
    <2> QED BY <2>1, <2>2, <2>4 DEF UidsOnce
  <1>9. Steady
    <2> SUFFICES ASSUME NEW p \in Places, Issued(p) PROVE Issued(p)' /\ Held(p)' \subseteq Held(p) BY DEF Steady
    <2>1. p.folder \in Folders /\ p.gen \in Nat /\ p.uid \in Nat BY DEF Places
    <2>2. Issued(p)' BY <1>2, <1>5, <1>7, <2>1 DEF Issued
    <2>3. ASSUME NEW d \in box', PlaceOf(d)' = p PROVE d \in box /\ PlaceOf(d) = p
      <3>1. PlaceOf(d) = p BY <1>2, <2>3 DEF PlaceOf
      <3>2. p.folder = d.folder /\ p.uid = d.uid /\ p.gen = gen[d.folder] BY <3>1 DEF PlaceOf, Place
      <3>3. d # e BY <1>5, <1>6, <2>1, <3>2 DEF Issued
      <3> QED BY <1>2, <3>1, <3>3
    <2> QED BY <2>2, <2>3 DEF Held
  <1>10. Present \subseteq Present' /\ a \in Present'
    <2>1. \A d \in box : d.mail \in Present' BY <1>2 DEF Present
    <2>2. e \in box' BY <1>2
    <2>3. a \in Present' BY <1>6, <2>2 DEF Present
    <2> QED BY <2>1, <2>3 DEF Present
  <1>11. PICK p : p = PlaceOf(e) OBVIOUS
  <1>12. p \in Places /\ p.folder = Drafts /\ p.gen = gen[Drafts] /\ p.uid = next[Drafts]
    BY <1>3, <1>5, <1>6, <1>11 DEF PlaceOf, Place, Places
  <1>13. Issued(p)' BY <1>2, <1>3, <1>5, <1>7, <1>12 DEF Issued
  <1>14. ASSUME NEW d \in box', PlaceOf(d)' = p PROVE d.mail = a
    <2>1. d.folder = Drafts /\ d.uid = next[Drafts] BY <1>12, <1>14 DEF PlaceOf, Place
    <2>2. d \notin box BY <1>3, <1>5, <2>1 DEF UidsOnce, Entries
    <2> QED BY <1>2, <1>6, <2>2
  <1>15. PICK filed : filed = IF uid THEN p ELSE NoPlace OBVIOUS
  <1> DEFINE new == [call[a] EXCEPT !.pc = "mirror", !.filed = filed]
  <1>16. call' = [call EXCEPT ![a] = new] BY <1>1, <1>11, <1>15
  <1>17. /\ new \in CallRecords /\ new.pc = "mirror" /\ new.kind = "update" /\ new.todo = call[a].todo
         /\ new.moved = {} /\ new.named = call[a].named /\ new.filed = filed /\ new.lost = call[a].lost
    BY <1>4, <1>12, <1>15 DEF CallRecords
  <1> HIDE DEF new
  <1>18. call' \in [Calls -> CallRecords] /\ call'[a] = new /\ \A b \in Calls \ {a} : call'[b] = call[b]
    BY <1>3, <1>16, <1>17 DEF ActionTypeOK
  <1>19. RowsStay BY <1>2 DEF RowsStay, Existing
  <1>20. TargetsTrue(a)'
    <2>1. \A t \in call[a].todo : t.id \in Rows /\ t.at \in Places BY <1>3, CallTypes
    <2>2. ASSUME NEW t \in new.todo PROVE TrueOf(t.id, t.at)' /\ rows'[t.id].mail \in new.named
      <3>1. t.id \in Rows /\ t.at \in Places /\ TrueOf(t.id, t.at) /\ rows[t.id].mail \in call[a].named
        BY <1>3, <1>17, <2>1 DEF CallOK, TargetsTrue
      <3>2. TrueOf(t.id, t.at)' /\ rows'[t.id].mail = rows[t.id].mail BY <1>3, <1>9, <1>19, <3>1, TrueOfKept
      <3> QED BY <1>17, <3>1, <3>2
    <2>3. \A s, t \in new.todo : s.id = t.id \/ s.at = t.at => s = t BY <1>3, <1>17 DEF CallOK, TargetsTrue
    <2>4. FiledTrue(a)'
      <3>1. SUFFICES ASSUME call'[a].filed # NoPlace PROVE FiledTrue(a)' BY DEF FiledTrue
      <3>2. call'[a].filed = p BY <1>15, <1>17, <1>18, <3>1
      <3> QED BY <1>12, <1>13, <1>14, <3>2 DEF FiledTrue, Issued, Held
    <2> QED BY <1>17, <1>18, <2>2, <2>3, <2>4 DEF TargetsTrue
  <1>21. Fits(a)' BY <1>4, <1>17, <1>18 DEF Fits
  <1>22. Reach(a) = {Drafts} /\ Reach(a)' = {Drafts} BY <1>2, <1>4, <1>17, <1>18 DEF Reach
  <1>23. DueFirst(a)' BY <1>2, <1>3, <1>17, <1>18, <1>22 DEF DueFirst, CallOK, Working
  <1>24. Revised(a)' BY <1>10 DEF Revised
  <1>25. CallOK(a)' BY <1>20, <1>21, <1>23, <1>24 DEF CallOK
  <1>26. box' \in SUBSET Entries /\ foreign' \subseteq Folders BY <1>2, <1>3, <1>5, <1>6 DEF ActionTypeOK
  <1>27. call'[a].kind = call[a].kind /\ call'[a].named = call[a].named BY <1>4, <1>17, <1>18
  <1>28. Serves(a) BY <1>2, <1>3, <1>7, <1>8, <1>9, <1>18, <1>26, <1>27 DEF Serves, ActionTypeOK
  <1>29. ActionInv' BY <1>2, <1>10, <1>25, <1>28, CallStep
  <1>30. \A d \in Entries : d.folder # Drafts => (d \in box' <=> d \in box) BY <1>2, <1>6
  <1> QED BY <1>2, <1>22, <1>29, <1>30

LEMMA MirrorKeeps ==
  ASSUME ActionInv, NEW a \in Calls, mirrorFiledMessage(a)
  PROVE  /\ ActionInv' /\ UNCHANGED <<box, gen, known, due, foreign, lock>>
         /\ \A f \in Folders \ due : Mirrored(f)' = Mirrored(f)
  <1> DEFINE new == [call[a] EXCEPT !.pc = "reload"]
  <1>1. /\ UNCHANGED <<box, gen, next, flagged, known, due, lock, run, foreign, removed>>
        /\ call' = [call EXCEPT ![a] = new] /\ call[a].pc = "mirror"
    BY DEF mirrorFiledMessage, Becomes, At, mailbox, history
  <1>2. ActionTypeOK /\ UidsOnce /\ RowsKnown /\ MirrorTrue /\ CallOK(a) BY DEF ActionInv
  <1>3. call[a] \in CallRecords BY <1>2, CallTypes
  <1>4. /\ new \in CallRecords /\ new.pc = "reload" /\ new.kind = call[a].kind /\ new.todo = call[a].todo
        /\ new.moved = call[a].moved /\ new.named = call[a].named /\ new.filed = call[a].filed /\ new.dest = call[a].dest
        /\ new.lost = call[a].lost
    BY <1>3 DEF CallRecords
  <1> HIDE DEF new
  <1>5. Steady /\ UidsOnce' /\ Present' = Present BY <1>1, <1>2, Still
  <1>6. known' \in [Folders -> Nat] /\ \A g \in Folders : known[g] <= known'[g] /\ known'[g] <= gen[g]
    BY <1>1, <1>2 DEF ActionTypeOK, RowsKnown
  <1>7. /\ rows' \in [Rows -> MessageRows \cup {NoRow}] /\ RowsStay /\ RowsKnown' /\ MirrorTrue'
        /\ \A f \in Folders \ due : Mirrored(f)' = Mirrored(f)
    <2>1. CASE rows' = rows
      <3>1. RowsStay /\ RowsKnown' /\ MirrorTrue' BY <1>1, <1>2, <1>5, <1>6, <2>1, RowsFrame DEF ActionTypeOK
      <3> QED BY <1>2, <2>1, <3>1 DEF ActionTypeOK, Mirrored, LiveRows, Existing
    <2>2. CASE rows' # rows
      <3>1. PICK at : at = call[a].filed OBVIOUS
      <3> DEFINE es == Held(at)
      <3> DEFINE R == Upserted(es)
      <3>2. PICK stage \in {"none", "evidence", "stored", "done"} :
              rows' = [r \in Rows |-> IF R[r] # NoRow /\ R[r].at = at THEN Filled(R[r], stage, a) ELSE R[r]]
        BY <2>2, <3>1 DEF mirrorFiledMessage
      <3>3. at # NoPlace /\ known[Drafts] = at.gen /\ es # {} /\ ~call[a].lost BY <2>2, <3>1 DEF mirrorFiledMessage
      <3>4. at \in Places /\ at.folder = Drafts /\ (\A e \in es : e.mail = a) /\ es \in SUBSET box /\ \A e \in es : PlaceOf(e) = at
        BY <1>2, <1>3, <3>1, <3>3 DEF CallOK, TargetsTrue, FiledTrue, CallRecords, Held
      <3>5. \A e \in es : e.folder = Drafts /\ e.uid = at.uid /\ gen[e.folder] = at.gen BY <3>4 DEF PlaceOf, Place
      <3>6. Together(es) /\ \A e \in es : known[e.folder] = gen[e.folder] BY <3>3, <3>4, <3>5 DEF Together
      <3>7. RowsPlus(R, es) BY <3>6, UpsertedRows
      <3>8. es = Held(at) OBVIOUS
      <3> HIDE DEF es, R
      <3>9. ASSUME NEW r \in Rows, R[r] # NoRow
            PROVE  /\ R[r] \in MessageRows /\ (R[r].body # "none" => R[r].text = R[r].mail)
                   /\ R[r].at = at => R[r].mail = a
                   /\ r \notin Existing => R[r].at = at
        <4>1. R[r] \in MessageRows BY <3>7, <3>9 DEF RowsPlus
        <4>2. CASE r \in Existing
          <5>1. R[r].at = rows[r].at /\ R[r].mail = rows[r].mail BY <3>7, <4>2 DEF RowsPlus
          <5>2. R[r].at = at => R[r].mail = a
            <6> SUFFICES ASSUME R[r].at = at PROVE R[r].mail = a OBVIOUS
            <6>1. PICK e \in Held(at) : e.mail = a BY <3>3, <3>4, <3>8
            <6>2. r \in LiveRows BY <1>2, <4>2, <5>1, <6>1 DEF MirrorTrue, GoneIsGone
            <6> QED BY <1>2, <5>1, <6>1, <6>2 DEF MirrorTrue, IdsKeepTheirMail
          <5> QED BY <1>2, <3>7, <4>1, <4>2, <5>1, <5>2 DEF RowsPlus, MirrorTrue, BodiesAreTheirs
        <4>3. CASE r \notin Existing
          <5>1. PICK e \in es : R[r] = Fresh(e) BY <3>7, <3>9, <4>3 DEF RowsPlus
          <5>2. R[r].at = PlaceOf(e) /\ R[r].mail = e.mail /\ R[r].body = "none" BY <1>2, <3>4, <5>1, FreshRow
          <5> QED BY <3>4, <4>1, <4>3, <5>2
        <4> QED BY <4>2, <4>3
      <3>10. a \in Mails BY DEF Mails
      <3>11. ASSUME NEW r \in Rows
             PROVE  /\ rows'[r] \in MessageRows \cup {NoRow} /\ (rows'[r] = NoRow <=> R[r] = NoRow)
                    /\ R[r] # NoRow => /\ rows'[r].at = R[r].at /\ rows'[r].mail = R[r].mail /\ rows'[r].live = R[r].live
                                       /\ rows'[r].body # "none" => rows'[r].text = R[r].mail
        <4>1. CASE R[r] # NoRow /\ R[r].at = at
          <5>1. rows'[r] = Filled(R[r], stage, a) BY <3>2, <4>1
          <5>2. /\ rows'[r] \in MessageRows /\ rows'[r] # NoRow /\ rows'[r].at = R[r].at /\ rows'[r].mail = R[r].mail
                /\ rows'[r].live = R[r].live /\ (rows'[r] = R[r] \/ rows'[r].text = a)
            <6>1. stage \in Stages BY DEF Stages
            <6>2. R[r] \in MessageRows BY <3>9, <4>1
            <6> QED BY <3>10, <5>1, <6>1, <6>2, FilledRow
          <5> QED BY <3>9, <4>1, <5>2
        <4>2. CASE ~(R[r] # NoRow /\ R[r].at = at)
          <5>1. rows'[r] = R[r] BY <3>2, <4>2
          <5>2. R[r] \in MessageRows \cup {NoRow} BY <3>7 DEF RowsPlus
          <5> QED BY <3>9, <5>1, <5>2
        <4> QED BY <4>1, <4>2
      <3>12. rows' \in [Rows -> MessageRows \cup {NoRow}]
        <4>1. DOMAIN rows' = Rows /\ rows' = [r \in Rows |-> rows'[r]] BY <3>2
        <4> QED BY <3>11, <4>1
      <3>13. InPlace(R) BY <3>11, <3>12 DEF InPlace
      <3>14. RowsStay /\ RowsKnown' /\ MirrorTrue' BY <1>1, <1>6, <3>4, <3>6, <3>7, <3>13, RowsGrown
      <3>15. Drafts \in due BY <1>1, <1>2, <3>3 DEF CallOK, Fits, DueFirst, Working, Reach
      <3>16. ASSUME NEW f \in Folders \ due PROVE Mirrored(f)' = Mirrored(f)
        <4>1. f # Drafts BY <3>15
        <4>2. ASSUME NEW r \in Rows
              PROVE  /\ r \in LiveRows' /\ rows'[r].at.folder = f <=> r \in LiveRows /\ rows[r].at.folder = f
                     /\ r \in LiveRows => rows'[r].at = rows[r].at
          <5>1. CASE r \in Existing
            <6>1. R[r] # NoRow /\ R[r].at = rows[r].at /\ R[r].live = rows[r].live BY <3>7, <5>1 DEF RowsPlus
            <6>2. rows'[r] # NoRow /\ rows'[r].at = rows[r].at /\ rows'[r].live = rows[r].live BY <3>11, <6>1
            <6> QED BY <5>1, <6>2 DEF LiveRows, Existing
          <5>2. CASE r \notin Existing
            <6>1. r \in Existing' => rows'[r].at = at BY <3>9, <3>11, <5>2 DEF Existing
            <6> QED BY <3>4, <4>1, <5>2, <6>1 DEF LiveRows
          <5> QED BY <5>1, <5>2
        <4> QED BY <4>2 DEF Mirrored, LiveRows, Existing
      <3> QED BY <3>12, <3>14, <3>16
    <2> QED BY <2>1, <2>2
  <1>8. CallOK(a)' /\ call' \in [Calls -> CallRecords] /\ Alone(a) BY <1>1, <1>4, <1>5, <1>7, Narrowed
  <1>9. ActionTypeOK' BY <1>1, <1>2, <1>7, <1>8 DEF ActionTypeOK
  <1>10. ActionInv' BY <1>1, <1>5, <1>7, <1>8, <1>9, Active
  <1> QED BY <1>1, <1>7, <1>10

(* A row moves to its new place, or is a tombstone at its old one, which    *)
(* has lost its mail.                                                      *)
Relocated(a, moved, S) ==
  /\ moved \subseteq call[a].moved /\ \A t \in moved : Relocatable(t)
  /\ S \subseteq Existing /\ \A r \in S : Held(rows[r].at) = {} /\ ~ \E t \in moved : t.id = r
  /\ rows' = Tombstone(relocateMovedMessage(moved), S)
LEMMA RelocatedRows ==
  ASSUME ActionInv, NEW a \in Calls, NEW moved, NEW S, Relocated(a, moved, S), UNCHANGED <<box, gen, next, known>>
  PROVE  /\ rows' \in [Rows -> MessageRows \cup {NoRow}] /\ RowsStay /\ RowsKnown' /\ MirrorTrue'
         /\ \A f \in Folders : (\A t \in moved : f # t.at.folder /\ f # t.new.folder) /\ (\A r \in S : rows[r].at.folder # f)
                               => Mirrored(f)' = Mirrored(f)
  <1>1. ActionTypeOK /\ UidsOnce /\ RowsKnown /\ MirrorTrue /\ CallOK(a) BY DEF ActionInv
  <1>2. /\ moved \subseteq call[a].moved /\ \A t \in moved : Relocatable(t)
        /\ S \subseteq Existing /\ \A r \in S : Held(rows[r].at) = {} /\ ~ \E t \in moved : t.id = r
        /\ rows' = Tombstone(relocateMovedMessage(moved), S)
    BY DEF Relocated
  <1>3. \A t \in moved : t \in call[a].moved /\ t.id \in Rows /\ t.at \in Places /\ t.new \in Places \cup {NoPlace}
    BY <1>1, <1>2, CallTypes DEF MovedRecords
  <1>4. ASSUME NEW t \in moved
        PROVE  /\ t.new \in Places /\ t.id \in Existing /\ rows[t.id].at = t.at
               /\ known[t.new.folder] = t.new.gen /\ RowAt(t.new) = {} /\ TrueOf(t.id, t.new)
    BY <1>1, <1>2, <1>3 DEF Relocatable, Existing, CallOK, TargetsTrue
  <1>5. \A s, t \in moved : s.id = t.id \/ s.new = t.new => s = t BY <1>1, <1>2, <1>4, <1>3, ActionConstants DEF CallOK, TargetsTrue
  <1>6. \A r \in Existing : rows[r] \in MessageRows /\ r \in Rows /\ (rows[r].body # "none" => rows[r].text = rows[r].mail)
    BY <1>1 DEF ActionTypeOK, Existing, MirrorTrue, BodiesAreTheirs
  <1>7. ASSUME NEW t \in moved
        PROVE  /\ rows'[t.id] \in MessageRows /\ rows'[t.id] # NoRow /\ rows'[t.id].at = t.new /\ rows'[t.id].mail = rows[t.id].mail
               /\ rows'[t.id].live
               /\ rows'[t.id].body = rows[t.id].body /\ rows'[t.id].text = rows[t.id].text
    <2>1. t.id \notin S /\ t.id \in Rows BY <1>2, <1>3
    <2>2. (CHOOSE x \in moved : x.id = t.id) = t BY <1>5
    <2>3. rows'[t.id] = [rows[t.id] EXCEPT !.live = TRUE, !.at = t.new]
      BY <1>2, <2>1, <2>2 DEF Tombstone, relocateMovedMessage
    <2>4. rows[t.id] \in MessageRows /\ t.new \in Places BY <1>4, <1>6
    <2>5. rows'[t.id] \in MessageRows BY <2>3, <2>4 DEF MessageRows
    <2>6. rows'[t.id] # NoRow BY <2>5, ActionConstants
    <2> QED BY <2>3, <2>4, <2>5, <2>6 DEF MessageRows
  <1>8. ASSUME NEW r \in Rows, ~ \E t \in moved : t.id = r
        PROVE  /\ rows'[r] \in MessageRows \cup {NoRow} /\ (rows'[r] = NoRow <=> rows[r] = NoRow)
               /\ rows[r] # NoRow => /\ rows'[r].at = rows[r].at /\ rows'[r].mail = rows[r].mail
                                     /\ rows'[r].live = rows[r].live \/ (~rows'[r].live /\ Held(rows[r].at) = {} /\ r \in S)
                                     /\ rows'[r].body = rows[r].body /\ rows'[r].text = rows[r].text
    <2>1. CASE r \in S
      <3>1. rows'[r] = [rows[r] EXCEPT !.live = FALSE] BY <1>2, <1>8, <2>1 DEF Tombstone, relocateMovedMessage
      <3>2. r \in Existing /\ rows[r] \in MessageRows BY <1>2, <1>6, <2>1
      <3>3. rows'[r] \in MessageRows BY <3>1, <3>2 DEF MessageRows
      <3>4. rows'[r] # NoRow /\ rows[r] # NoRow BY <3>2, <3>3, ActionConstants
      <3> QED BY <1>2, <2>1, <3>1, <3>2, <3>3, <3>4 DEF MessageRows
    <2>2. CASE r \notin S
      <3>1. rows'[r] = rows[r] BY <1>2, <1>8, <2>2 DEF Tombstone, relocateMovedMessage
      <3> QED BY <1>1, <3>1 DEF ActionTypeOK
    <2> QED BY <2>1, <2>2
  <1>9. rows' \in [Rows -> MessageRows \cup {NoRow}]
    <2>1. DOMAIN rows' = Rows /\ rows' = [r \in Rows |-> rows'[r]] BY <1>2 DEF Tombstone
    <2> QED BY <1>3, <1>7, <1>8, <2>1
  <1>10. Existing' = Existing /\ \A r \in Existing : rows'[r].mail = rows[r].mail
    <2>1. \A r \in Rows : (rows'[r] = NoRow <=> rows[r] = NoRow) /\ (rows[r] # NoRow => rows'[r].mail = rows[r].mail)
      BY <1>4, <1>7, <1>8 DEF Existing
    <2> QED BY <2>1 DEF Existing
  <1>11. RowsStay BY <1>10 DEF RowsStay
  <1>12. \A p : Held(p)' = Held(p) /\ Issued(p)' = Issued(p) BY DEF Held, PlaceOf, Issued
  <1>13. ASSUME NEW r \in Existing
         PROVE  \/ /\ ~ \E t \in moved : t.id = r
                   /\ rows'[r].at = rows[r].at /\ rows'[r].mail = rows[r].mail
                   /\ rows'[r].live = rows[r].live \/ (~rows'[r].live /\ Held(rows[r].at) = {} /\ r \in S)
                   /\ rows'[r].body = rows[r].body /\ rows'[r].text = rows[r].text
                \/ \E t \in moved : /\ t.id = r /\ rows'[r].at = t.new /\ rows'[r].mail = rows[r].mail /\ rows'[r].live
                                    /\ rows'[r].body = rows[r].body /\ rows'[r].text = rows[r].text
    BY <1>6, <1>7, <1>8, <1>10 DEF Existing
  <1>14. RowsKnown'
    <2>1. ASSUME NEW r \in Existing PROVE Issued(rows'[r].at) /\ rows'[r].at.gen <= known[rows'[r].at.folder]
      <3>1. CASE \E t \in moved : t.id = r
        <4>1. PICK t \in moved : t.id = r /\ rows'[r].at = t.new BY <1>13, <3>1
        <4>2. t.new \in Places /\ known[t.new.folder] = t.new.gen /\ Issued(t.new) BY <1>4, <4>1 DEF TrueOf
        <4>3. t.new.gen \in Nat BY <4>2 DEF Places
        <4> QED BY <4>1, <4>2, <4>3
      <3>2. CASE ~ \E t \in moved : t.id = r BY <1>1, <1>13, <3>2 DEF RowsKnown
      <3> QED BY <3>1, <3>2
    <2> QED BY <1>1, <1>10, <2>1 DEF RowsKnown, Issued
  <1>15. IdsKeepTheirMail'
    <2>1. ASSUME NEW r \in LiveRows', NEW e \in Held(rows'[r].at) PROVE e.mail = rows'[r].mail
      <3>0. r \in Existing /\ rows'[r].live BY <1>10, <2>1 DEF LiveRows
      <3>1. CASE \E t \in moved : t.id = r
        <4>1. PICK t \in moved : t.id = r /\ rows'[r].at = t.new /\ rows'[r].mail = rows[r].mail BY <1>13, <3>0, <3>1
        <4> QED BY <1>4, <2>1, <4>1 DEF TrueOf
      <3>2. CASE ~ \E t \in moved : t.id = r
        <4>1. rows'[r].at = rows[r].at /\ rows'[r].mail = rows[r].mail /\ (rows[r].live \/ Held(rows[r].at) = {})
          BY <1>13, <3>0, <3>2
        <4> QED BY <1>1, <2>1, <3>0, <4>1 DEF MirrorTrue, IdsKeepTheirMail, LiveRows
      <3> QED BY <3>1, <3>2
    <2>2. ASSUME NEW r \in Existing, NEW s \in Existing, rows'[r].at = rows'[s].at PROVE r = s
      <3>1. CASE (\E t \in moved : t.id = r) /\ (\E t \in moved : t.id = s)
        <4>1. PICK t \in moved : t.id = r /\ rows'[r].at = t.new BY <1>13, <3>1
        <4>2. PICK x \in moved : x.id = s /\ rows'[s].at = x.new BY <1>13, <3>1
        <4> QED BY <1>5, <2>2, <4>1, <4>2
      <3>2. CASE (\E t \in moved : t.id = r) /\ ~(\E t \in moved : t.id = s)
        <4>1. PICK t \in moved : t.id = r /\ rows'[r].at = t.new BY <1>13, <3>2
        <4>2. rows'[s].at = rows[s].at BY <1>13, <3>2
        <4> QED BY <1>4, <2>2, <4>1, <4>2 DEF RowAt
      <3>3. CASE ~(\E t \in moved : t.id = r) /\ (\E t \in moved : t.id = s)
        <4>1. PICK t \in moved : t.id = s /\ rows'[s].at = t.new BY <1>13, <3>3
        <4>2. rows'[r].at = rows[r].at BY <1>13, <3>3
        <4> QED BY <1>4, <2>2, <4>1, <4>2 DEF RowAt
      <3>4. CASE ~(\E t \in moved : t.id = r) /\ ~(\E t \in moved : t.id = s)
        BY <1>1, <1>13, <2>2, <3>4 DEF MirrorTrue, IdsKeepTheirMail
      <3> QED BY <3>1, <3>2, <3>3, <3>4
    <2> QED BY <1>10, <1>12, <2>1, <2>2 DEF IdsKeepTheirMail, Held, PlaceOf
  <1>16. GoneIsGone'
    <2> SUFFICES ASSUME NEW r \in Existing, ~rows'[r].live PROVE Held(rows'[r].at) = {}
      BY <1>10, <1>12 DEF GoneIsGone, LiveRows, Held, PlaceOf
    <2>1. rows'[r].at = rows[r].at /\ (~rows[r].live \/ Held(rows[r].at) = {}) BY <1>13
    <2> QED BY <1>1, <2>1 DEF MirrorTrue, GoneIsGone, LiveRows
  <1>17. BodiesAreTheirs' BY <1>6, <1>10, <1>13 DEF BodiesAreTheirs
  <1>18. ASSUME NEW f \in Folders, \A t \in moved : f # t.at.folder /\ f # t.new.folder, \A r \in S : rows[r].at.folder # f
         PROVE  Mirrored(f)' = Mirrored(f)
    <2>1. ASSUME NEW r \in Existing
          PROVE  /\ r \in LiveRows' /\ rows'[r].at.folder = f <=> r \in LiveRows /\ rows[r].at.folder = f
                 /\ rows[r].at.folder = f => rows'[r].at = rows[r].at
      <3>1. CASE \E t \in moved : t.id = r
        <4>1. PICK t \in moved : t.id = r /\ rows'[r].at = t.new BY <1>13, <3>1
        <4>2. rows[r].at.folder # f /\ rows'[r].at.folder # f BY <1>4, <1>18, <4>1
        <4> QED BY <4>2
      <3>2. CASE ~ \E t \in moved : t.id = r
        <4>1. rows'[r].at = rows[r].at /\ (rows'[r].live = rows[r].live \/ r \in S) BY <1>13, <3>2
        <4> QED BY <1>10, <1>18, <2>1, <4>1 DEF LiveRows
      <3> QED BY <3>1, <3>2
    <2>2. LiveRows \subseteq Existing /\ LiveRows' \subseteq Existing BY <1>10 DEF LiveRows
    <2> QED BY <2>1, <2>2 DEF Mirrored
  <1> QED BY <1>9, <1>11, <1>14, <1>15, <1>16, <1>17, <1>18 DEF MirrorTrue

LEMMA WriteKeeps ==
  ASSUME ActionInv, NEW a \in Calls, Write(a)
  PROVE  /\ ActionInv' /\ UNCHANGED <<box, gen, known, due, foreign>>
         /\ lock' \in Calls => lock' = lock
         /\ \A f \in Folders \ due : Mirrored(f)' = Mirrored(f)
  <1>1. /\ UNCHANGED <<box, gen, next, flagged, known, due, run, foreign, removed>> /\ call[a].pc = "write"
    BY DEF Write, At, mailbox, history
  <1>2. PICK ok \in SUBSET call[a].moved, dies \in BOOLEAN :
          /\ call[a].lost => ok = {} /\ ~dies
          /\ rows' = WrittenThrough(a, ok)
          /\ IF dies \/ call[a].todo = {} THEN Becomes(a, Ended(a)) /\ Release(a)
             ELSE Becomes(a, [call[a] EXCEPT !.moved = {}, !.pc = "command"]) /\ UNCHANGED lock
    BY DEF Write
  <1>3. ActionTypeOK /\ UidsOnce /\ RowsKnown /\ MirrorTrue /\ CallOK(a) BY DEF ActionInv
  <1>4. call[a] \in CallRecords /\ call[a].moved \subseteq MovedRecords BY <1>3, CallTypes
  <1>5. Steady /\ UidsOnce' /\ Present' = Present BY <1>1, <1>3, Still
  <1>6. known' \in [Folders -> Nat] /\ \A g \in Folders : known[g] <= known'[g] /\ known'[g] <= gen[g]
    BY <1>1, <1>3 DEF ActionTypeOK, RowsKnown
  <1>7. \A t \in ok : t \in call[a].moved /\ t.id \in Rows /\ t.at \in Places /\ t.new \in Places \cup {NoPlace}
    BY <1>4 DEF MovedRecords
  <1>8. /\ rows' \in [Rows -> MessageRows \cup {NoRow}] /\ RowsStay /\ RowsKnown' /\ MirrorTrue'
        /\ \A f \in Folders \ due : Mirrored(f)' = Mirrored(f)
    <2>1. CASE call[a].kind \in {"flag", "flags"}
      <3> DEFINE S == {t.id : t \in ok}
      <3>1. rows' = [r \in Rows |-> IF r \in S THEN [rows[r] EXCEPT !.seen = TRUE] ELSE rows[r]]
        BY <1>2, <2>1 DEF WrittenThrough, applyMessageFlags
      <3>2. \A r \in S : r \in Rows /\ rows[r] # NoRow
        <4>1. \A t \in ok : rows[t.id] # NoRow BY <1>3, <1>7 DEF CallOK, TargetsTrue, TrueOf
        <4> QED BY <1>7, <4>1
      <3> HIDE DEF S
      <3>3. ASSUME NEW r \in Rows
            PROVE  /\ rows'[r] \in MessageRows \cup {NoRow} /\ (rows'[r] = NoRow <=> rows[r] = NoRow)
                   /\ rows[r] # NoRow => /\ rows'[r].at = rows[r].at /\ rows'[r].mail = rows[r].mail
                                         /\ rows'[r].live = rows[r].live
                                         /\ rows'[r].body # "none" => rows'[r].text = rows[r].mail
        <4>1. rows[r] # NoRow => rows[r] \in MessageRows /\ (rows[r].body # "none" => rows[r].text = rows[r].mail)
          BY <1>3 DEF ActionTypeOK, MirrorTrue, BodiesAreTheirs, Existing
        <4>2. CASE r \in S
          <5>1. rows'[r] = [rows[r] EXCEPT !.seen = TRUE] /\ rows[r] # NoRow BY <3>1, <3>2, <4>2
          <5>2. rows'[r] \in MessageRows BY <4>1, <5>1 DEF MessageRows
          <5>3. rows'[r] # NoRow BY <5>2, ActionConstants
          <5> QED BY <4>1, <5>1, <5>2, <5>3 DEF MessageRows
        <4>3. CASE r \notin S
          <5>1. rows'[r] = rows[r] BY <3>1, <4>3
          <5> QED BY <1>3, <4>1, <5>1 DEF ActionTypeOK
        <4> QED BY <4>2, <4>3
      <3>4. rows' \in [Rows -> MessageRows \cup {NoRow}]
        <4>1. DOMAIN rows' = Rows /\ rows' = [r \in Rows |-> rows'[r]] BY <3>1
        <4> QED BY <3>3, <4>1
      <3>5. InPlace(rows) BY <3>3, <3>4 DEF InPlace
      <3>6. RowsStay /\ RowsKnown' /\ MirrorTrue' BY <1>1, <1>6, <3>5, RowsStayPut
      <3>7. LiveRows' = LiveRows /\ \A r \in LiveRows : rows'[r].at = rows[r].at BY <3>3 DEF LiveRows, Existing
      <3> QED BY <3>4, <3>6, <3>7 DEF Mirrored
    <2>2. CASE call[a].kind \notin {"flag", "flags"}
      <3> DEFINE moved == {t \in ok : Follows(a, t)}
      <3> DEFINE S == UNION {RowAt(t.at) : t \in ok \ moved}
      <3>1. rows' = Tombstone(relocateMovedMessage(moved), S) BY <1>2, <2>2 DEF WrittenThrough, markMessageRemovedByProvider
      <3>2. moved \subseteq ok /\ \A t \in moved : Relocatable(t) BY DEF Follows
      <3>3. \A r \in S : r \in Existing /\ \E t \in ok \ moved : rows[r].at = t.at BY DEF RowAt
      <3> HIDE DEF moved, S
      <3>4. ASSUME NEW r \in S PROVE Held(rows[r].at) = {} /\ ~ \E t \in moved : t.id = r
        <4>1. PICK t \in ok \ moved : rows[r].at = t.at BY <3>3
        <4>2. Held(t.at) = {} BY <1>3, <1>7, <2>2, <4>1 DEF CallOK, TargetsTrue
        <4>3. ASSUME NEW x \in moved, x.id = r PROVE FALSE
          <5>1. x.at = t.at BY <3>2, <4>1, <4>3 DEF Relocatable
          <5>2. x = t BY <1>3, <1>7, <3>2, <5>1 DEF CallOK, TargetsTrue
          <5> QED BY <4>1, <5>2
        <4> QED BY <4>1, <4>2, <4>3
      <3>5. Relocated(a, moved, S) BY <1>2, <3>1, <3>2, <3>3, <3>4 DEF Relocated
      <3>6. /\ rows' \in [Rows -> MessageRows \cup {NoRow}] /\ RowsStay /\ RowsKnown' /\ MirrorTrue'
            /\ \A f \in Folders : (\A t \in moved : f # t.at.folder /\ f # t.new.folder) /\ (\A r \in S : rows[r].at.folder # f)
                                  => Mirrored(f)' = Mirrored(f)
        BY <1>1, <3>5, RelocatedRows
      <3>7. ASSUME NEW t \in ok PROVE t.at.folder \in due /\ (t \in moved => t.new.folder \in due)
        <4>1. ~call[a].lost BY <1>2
        <4>2. Reach(a) \subseteq due BY <1>1, <1>3, <4>1 DEF CallOK, DueFirst, Working
        <4>3. In(call[a].moved) \subseteq Reach(a) BY <1>1, <2>2 DEF Reach
        <4>4. t.at.folder \in In(call[a].moved) BY <1>7 DEF In
        <4>5. t \in moved => t.new # NoPlace /\ call[a].kind \in {"move", "thread"} BY <3>2 DEF Relocatable, moved, Follows
        <4>6. t \in moved => t.new.folder = call[a].dest BY <1>3, <1>7, <4>5 DEF CallOK, TargetsTrue
        <4>7. call[a].kind \in {"move", "thread"} => call[a].dest \in Reach(a) BY DEF Reach, Moves
        <4> QED BY <4>2, <4>3, <4>4, <4>5, <4>6, <4>7
      <3>8. ASSUME NEW f \in Folders \ due PROVE Mirrored(f)' = Mirrored(f)
        <4>1. \A t \in moved : f # t.at.folder /\ f # t.new.folder BY <3>2, <3>7
        <4>2. \A r \in S : rows[r].at.folder # f BY <3>3, <3>7
        <4> QED BY <3>6, <4>1, <4>2
      <3> QED BY <3>6, <3>8
    <2> QED BY <2>1, <2>2
  <1>9. CallOK(a)' /\ call' \in [Calls -> CallRecords] /\ Alone(a) /\ lock' \in Calls \cup {NoOne} /\ (lock' \in Calls => lock' = lock)
    <2>1. CASE call' = [call EXCEPT ![a] = Ended(a)] /\ Release(a)
      <3>1. lock' \in Calls \cup {NoOne} /\ lock' # a /\ \A b \in Calls \ {a} : lock' = b <=> lock = b BY <1>3, <2>1, Released
      <3>2. call' \in [Calls -> CallRecords] /\ CallOK(a)' /\ call'[a].kind = call[a].kind /\ call'[a].named = call[a].named
        BY <1>3, <2>1, <3>1, EndedCall
      <3>3. \A b \in Calls \ {a} : call'[b] = call[b] BY <1>3, <2>1 DEF ActionTypeOK
      <3> QED BY <1>1, <3>1, <3>2, <3>3 DEF Alone
    <2>2. CASE call' = [call EXCEPT ![a] = [call[a] EXCEPT !.moved = {}, !.pc = "command"]] /\ lock' = lock
      <3> DEFINE new == [call[a] EXCEPT !.moved = {}, !.pc = "command"]
      <3>1. /\ new \in CallRecords /\ new.pc = "command" /\ new.kind = call[a].kind /\ new.todo = call[a].todo
            /\ new.moved = {} /\ new.named = call[a].named /\ new.filed = call[a].filed /\ new.dest = call[a].dest
            /\ new.lost = call[a].lost
        BY <1>4 DEF CallRecords
      <3> HIDE DEF new
      <3>2. CallOK(a)' /\ call' \in [Calls -> CallRecords] /\ Alone(a)
        BY <1>1, <1>5, <1>8, <2>2, <3>1, Narrowed DEF new
      <3> QED BY <1>3, <2>2, <3>2 DEF ActionTypeOK
    <2> QED BY <1>2, <2>1, <2>2 DEF Becomes
  <1>10. ActionTypeOK' BY <1>1, <1>3, <1>8, <1>9 DEF ActionTypeOK
  <1>11. ActionInv' BY <1>1, <1>5, <1>8, <1>9, <1>10, Active
  <1> QED BY <1>1, <1>8, <1>9, <1>11

-------------------------------------------------------------------------------
(* The two invariants.                                                     *)

(* The mirror starts with the mail that is there.                          *)
StartsWith(there, where, uid, at) ==
  /\ uid \in Bijection(there, 1..Cardinality(there))
  /\ at \in Bijection(1..Cardinality(there), there) /\ \A m \in there : at[uid[m]] = m
  /\ box = {[folder |-> where[m], uid |-> uid[m], mail |-> m] : m \in there} /\ removed = Old \ there
  /\ rows = [r \in Rows |-> IF r \notin 1..Cardinality(there) THEN NoRow
       ELSE [at |-> Place(where[at[r]], 1, r), mail |-> at[r], live |-> TRUE, seen |-> FALSE, body |-> "none", text |-> NoMail]]
LEMMA InitialMail ==
  ASSUME ActionInit
  PROVE  \E there \in SUBSET Old, where \in [Old -> Folders] : \E uid, at : StartsWith(there, where, uid, at)
  <1>1. PICK there \in SUBSET Old, where \in [Old -> Folders] :
       LET uid == CHOOSE b \in Bijection(there, 1..Cardinality(there)) : TRUE
           at == AntiFunction(uid)
       IN
       /\ box = {[folder |-> where[m], uid |-> uid[m], mail |-> m] : m \in there} /\ removed = Old \ there
       /\ rows = [r \in Rows |-> IF r \notin DOMAIN at THEN NoRow
            ELSE [at |-> Place(where[at[r]], 1, r), mail |-> at[r], live |-> TRUE, seen |-> FALSE, body |-> "none", text |-> NoMail]]
    BY DEF ActionInit
  <1> DEFINE n == Cardinality(there)
  <1>2. PICK uid : uid = CHOOSE b \in Bijection(there, 1..n) : TRUE OBVIOUS
  <1>3. PICK at : at = AntiFunction(uid) OBVIOUS
  <1>4. IsFiniteSet(there) BY ActionConstants, FS_Subset
  <1>5. Bijection(there, 1..n) # {}
    <2>1. PICK f : f \in Bijection(1..n, there) BY <1>4, FS_CardinalityType DEF ExistsBijection
    <2>2. Inverse(f, 1..n, there) \in Bijection(there, 1..n) BY <2>1, Fun_BijInverse
    <2> QED BY <2>2
  <1>6. uid \in Bijection(there, 1..n) BY <1>2, <1>5
  <1>7. DOMAIN uid = there /\ Range(uid) = 1..n BY <1>6 DEF Bijection, Surjection, Range
  <1>8. at = Inverse(uid, there, 1..n) BY <1>3, <1>7 DEF AntiFunction
  <1>9. at \in Bijection(1..n, there) /\ \A m \in there : at[uid[m]] = m BY <1>6, <1>8, Fun_BijInverse
  <1>10. DOMAIN at = 1..n BY <1>9 DEF Bijection, Surjection
  <1> HIDE DEF n
  <1>11. /\ box = {[folder |-> where[m], uid |-> uid[m], mail |-> m] : m \in there} /\ removed = Old \ there
         /\ rows = [r \in Rows |-> IF r \notin 1..n THEN NoRow
            ELSE [at |-> Place(where[at[r]], 1, r), mail |-> at[r], live |-> TRUE, seen |-> FALSE, body |-> "none", text |-> NoMail]]
    BY <1>1, <1>2, <1>3, <1>10 DEF n
  <1>12. StartsWith(there, where, uid, at) BY <1>6, <1>9, <1>11 DEF StartsWith, n
  <1> QED BY <1>12

LEMMA ActionInvStarts ==
  ASSUME ActionInit
  PROVE  ActionInv /\ known = gen /\ (Rows = Nat \ {0} => \A f \in Folders : Exact(f))
  <1>0. PICK there \in SUBSET Old, where \in [Old -> Folders] : \E uid, at : StartsWith(there, where, uid, at)
    BY InitialMail
  <1>1. PICK uid, at : StartsWith(there, where, uid, at) BY <1>0
  <1> DEFINE n == Cardinality(there)
  <1>2. /\ next = [f \in Folders |-> Cardinality(Old) + 1] /\ gen = [f \in Folders |-> 1] /\ flagged = {} /\ known = gen /\ due = {}
        /\ lock = NoOne /\ call = [a \in Calls |-> NoCall] /\ run = NoRun /\ foreign = {}
    BY DEF ActionInit
  <1>3. IsFiniteSet(there) /\ n \in Nat /\ Cardinality(Old) \in Nat /\ n <= Cardinality(Old)
    BY ActionConstants, FS_Subset, FS_CardinalityType
  <1> HIDE DEF n
  <1>4. /\ uid \in [there -> 1..n] /\ (\A l, m \in there : uid[l] = uid[m] => l = m)
        /\ at \in [1..n -> there] /\ (\A m \in there : at[uid[m]] = m) /\ \A k \in 1..n : uid[at[k]] = k
    <2>1. uid \in Bijection(there, 1..n) /\ at \in Bijection(1..n, there) /\ \A m \in there : at[uid[m]] = m
      BY <1>1 DEF StartsWith, n
    <2>2. uid \in [there -> 1..n] /\ at \in [1..n -> there] BY <2>1 DEF Bijection, Surjection
    <2>3. \A l, m \in there : uid[l] = uid[m] => l = m BY <2>1
    <2>4. \A k \in 1..n : \E m \in there : uid[m] = k BY <2>1 DEF Bijection, Surjection
    <2>5. \A k \in 1..n : uid[at[k]] = k BY <2>1, <2>4
    <2> QED BY <2>1, <2>2, <2>3, <2>5
  <1> DEFINE Mail(m) == [folder |-> where[m], uid |-> uid[m], mail |-> m]
  <1> DEFINE Row(r) == [at |-> Place(where[at[r]], 1, r), mail |-> at[r], live |-> TRUE, seen |-> FALSE, body |-> "none", text |-> NoMail]
  <1>5. /\ box = {Mail(m) : m \in there} /\ removed = Old \ there
        /\ rows = [r \in Rows |-> IF r \notin 1..n THEN NoRow ELSE Row(r)]
    BY <1>1 DEF StartsWith, n
  <1>6. \A m \in there : Mail(m) \in Entries /\ where[m] \in Folders BY <1>3, <1>4 DEF Entries, Mails
  <1>7. box \in SUBSET Entries BY <1>5, <1>6
  <1>8. \A e \in box : \E m \in there : e.folder = where[m] /\ e.uid = uid[m] /\ e.mail = m BY <1>5
  <1>9. \A m \in there : \E e \in box : e.folder = where[m] /\ e.uid = uid[m] /\ e.mail = m
    <2>1. \A m \in there : Mail(m) \in box /\ Mail(m).folder = where[m] /\ Mail(m).uid = uid[m] /\ Mail(m).mail = m BY <1>5
    <2> QED BY <2>1
  <1>10. UidsOnce
    <2>1. IsFiniteSet({Mail(m) : m \in there})
      <3> DEFINE g == [m \in there |-> Mail(m)]
      <3>1. g \in Surjection(there, {Mail(m) : m \in there}) BY DEF Surjection
      <3> QED BY <1>3, <3>1, FS_Surjection
    <2>2. \A e \in box : e.uid < next[e.folder]
      <3> SUFFICES ASSUME NEW e \in box PROVE e.uid < next[e.folder] OBVIOUS
      <3>1. PICK m \in there : e.folder = where[m] /\ e.uid = uid[m] BY <1>8
      <3>2. uid[m] \in Nat /\ uid[m] <= n /\ where[m] \in Folders BY <1>3, <1>4, <1>6
      <3> QED BY <1>2, <1>3, <3>1, <3>2
    <2>3. \A d, e \in box : d.uid = e.uid => d = e BY <1>4, <1>5
    <2> QED BY <1>5, <2>1, <2>2, <2>3 DEF UidsOnce
  <1>11. ASSUME NEW r \in Rows, r \in 1..n
         PROVE  /\ rows[r] = Row(r) /\ Row(r) \in MessageRows /\ Row(r).at = Place(where[at[r]], 1, r)
                /\ Row(r).at.folder = where[at[r]] /\ Row(r).at.gen = 1 /\ Row(r).at.uid = r
                /\ Row(r).mail = at[r] /\ Row(r).live /\ Row(r).body = "none"
    <2>1. at[r] \in there /\ where[at[r]] \in Folders /\ r \in Nat BY <1>3, <1>4, <1>6, <1>11
    <2>2. Place(where[at[r]], 1, r) \in Places BY <2>1 DEF Place, Places
    <2>3. Row(r) \in MessageRows BY <2>1, <2>2 DEF MessageRows, Mails
    <2> QED BY <1>5, <1>11, <2>3 DEF Place
  <1>12. \A r \in Rows : r \notin 1..n => rows[r] = NoRow BY <1>5
  <1> HIDE DEF Row
  <1>13. rows \in [Rows -> MessageRows \cup {NoRow}]
    <2>1. DOMAIN rows = Rows /\ rows = [r \in Rows |-> rows[r]] BY <1>5
    <2>2. \A r \in Rows : rows[r] \in MessageRows \cup {NoRow} BY <1>11, <1>12
    <2> QED BY <2>1, <2>2
  <1>14. /\ Existing \subseteq 1..n /\ \A r \in Existing : /\ r \in Rows /\ rows[r] = Row(r) /\ rows[r].live
                                                        /\ rows[r].body = "none"
         /\ LiveRows = Existing
    BY <1>11, <1>12 DEF Existing, LiveRows
  <1>15. RowsKnown
    <2>1. IsFiniteSet(1..n) BY <1>3, FS_Interval
    <2>2. IsFiniteSet(Existing) BY <1>14, <2>1, FS_Subset
    <2>3. ASSUME NEW r \in Existing PROVE Issued(rows[r].at) /\ rows[r].at.gen <= known[rows[r].at.folder]
      <3>1. rows[r].at.folder = where[at[r]] /\ rows[r].at.gen = 1 /\ rows[r].at.uid = r /\ r \in 1..n BY <1>11, <1>14
      <3>2. where[at[r]] \in Folders /\ r \in Nat /\ r <= n BY <1>3, <1>4, <1>6, <3>1
      <3> QED BY <1>2, <1>3, <3>1, <3>2 DEF Issued
    <2> QED BY <1>2, <2>2, <2>3 DEF RowsKnown
  <1>16. MirrorTrue
    <2>1. \A r \in LiveRows : \A e \in Held(rows[r].at) : e.mail = rows[r].mail
      <3> SUFFICES ASSUME NEW r \in LiveRows, NEW e \in Held(rows[r].at) PROVE e.mail = rows[r].mail OBVIOUS
      <3>1. e \in box /\ PlaceOf(e) = Place(where[at[r]], 1, r) /\ rows[r].mail = at[r] /\ r \in 1..n
        BY <1>11, <1>14 DEF Held
      <3>2. e.uid = r BY <3>1 DEF PlaceOf, Place
      <3>3. PICK m \in there : e.uid = uid[m] /\ e.mail = m BY <1>8, <3>1
      <3> QED BY <1>4, <3>1, <3>2, <3>3
    <2>2. \A r, s \in Existing : rows[r].at = rows[s].at => r = s
      <3>1. \A r \in Existing : rows[r].at.uid = r BY <1>11, <1>14
      <3> QED BY <3>1
    <2> QED BY <1>14, <2>1, <2>2 DEF MirrorTrue, IdsKeepTheirMail, GoneIsGone, BodiesAreTheirs
  <1>17. RunOK /\ run \in RunRecords BY <1>2 DEF RunOK, NoRun, RunRecords
  <1>18. ActionTypeOK
    <2>1. gen \in [Folders -> Nat] /\ next \in [Folders -> Nat] /\ known \in [Folders -> Nat] BY <1>2, <1>3
    <2>2. call \in [Calls -> CallRecords] BY <1>2, NewCall
    <2>3. removed \subseteq Mails BY <1>5 DEF Mails
    <2> QED BY <1>2, <1>7, <1>13, <1>17, <2>1, <2>2, <2>3 DEF ActionTypeOK
  <1>19. ASSUME NEW a \in Calls PROVE CallOK(a)
    <2>1. call[a] = NoCall /\ lock # a BY <1>2, ActionConstants
    <2>2. Fits(a) /\ TargetsTrue(a) /\ DueFirst(a) /\ Revised(a)
      BY <2>1, NewCall DEF Fits, TargetsTrue, FiledTrue, DueFirst, Revised, Working
    <2> QED BY <2>2 DEF CallOK
  <1>20. OnlyAskedIsRemoved
    <2>1. there \subseteq Present BY <1>9 DEF Present
    <2> QED BY <1>5, <2>1 DEF OnlyAskedIsRemoved
  <1>21. ActionInv BY <1>10, <1>15, <1>16, <1>17, <1>18, <1>19, <1>20 DEF ActionInv
  <1>22. ASSUME Rows = Nat \ {0}, NEW f \in Folders PROVE Exact(f)
    <2>1. ASSUME NEW r \in LiveRows, rows[r].at.folder = f PROVE \E e \in box : e.folder = f /\ PlaceOf(e) = rows[r].at
      <3>1. r \in 1..n /\ rows[r].at = Place(where[at[r]], 1, r) /\ where[at[r]] = f /\ at[r] \in there
        BY <1>4, <1>11, <1>14, <2>1
      <3>2. PICK e \in box : e.folder = where[at[r]] /\ e.uid = uid[at[r]] BY <1>9, <3>1
      <3>3. e.uid = r /\ gen[e.folder] = 1 BY <1>2, <1>4, <3>1, <3>2
      <3> QED BY <3>1, <3>2, <3>3 DEF PlaceOf
    <2>2. ASSUME NEW e \in box, e.folder = f PROVE \E r \in LiveRows : rows[r].at.folder = f /\ rows[r].at = PlaceOf(e)
      <3>1. PICK m \in there : e.folder = where[m] /\ e.uid = uid[m] /\ e.mail = m BY <1>8
      <3>2. PICK r \in 1..n : r = uid[m] BY <1>4
      <3>3. r \in Rows BY <1>3, <1>22
      <3>4. rows[r] \in MessageRows /\ rows[r].at = Place(where[at[r]], 1, r) /\ rows[r].at.folder = where[at[r]] /\ rows[r].live
        BY <1>11, <3>3
      <3>5. r \in LiveRows BY <3>3, <3>4, ActionConstants DEF LiveRows, Existing
      <3>6. at[r] = m /\ gen[f] = 1 BY <1>2, <1>4, <3>2
      <3> QED BY <2>2, <3>1, <3>2, <3>4, <3>5, <3>6 DEF PlaceOf
    <2> QED BY <2>1, <2>2 DEF Exact, Mirrored
  <1> QED BY <1>2, <1>21, <1>22

LEMMA ActionInvStutters ==
  ASSUME ActionInv, UNCHANGED actionVars
  PROVE  ActionInv'
  <1>1. UNCHANGED <<box, gen, next, flagged, rows, known, due, lock, call, run, foreign, removed>>
    BY DEF actionVars, mailbox, mirror, history
  <1>2. ActionTypeOK /\ UidsOnce /\ RowsKnown /\ MirrorTrue /\ RunOK BY DEF ActionInv
  <1>3. ActionTypeOK' BY <1>1, <1>2 DEF ActionTypeOK
  <1>4. Steady /\ UidsOnce' /\ Present' = Present BY <1>1, <1>2, Still
  <1>5. RowsStay /\ RowsKnown' /\ MirrorTrue' BY <1>1, <1>2, <1>4, RowsFrame DEF ActionTypeOK
  <1>6. RunOK' BY <1>1, <1>2, <1>4, <1>5, RunKept
  <1> QED BY <1>1, <1>3, <1>4, <1>5, <1>6, Passive

LEMMA ActionInvSteps ==
  ASSUME ActionInv, ActionNext
  PROVE  ActionInv'
  <1>1. CASE Elsewhere BY <1>1, ElsewhereStep
  <1>2. CASE Renumber BY <1>2, RenumberKeeps
  <1>3. CASE Bodies \/ BodyStops BY <1>3, BodyRunKeeps
  <1>4. CASE commitBodies BY <1>4, CommitKeeps
  <1>5. ASSUME NEW f \in Folders, Sync(f) PROVE ActionInv'
    <2>1. CASE known[f] # gen[f] BY <1>5, <2>1, ResetKeeps
    <2>2. CASE known[f] = gen[f] BY <1>5, <2>2, ReconcileKeeps
    <2> QED BY <2>1, <2>2
  <1>6. ASSUME NEW a \in Calls, Start(a) \/ Acquire(a) \/ Busy(a) \/ Act(a) \/ Crash(a) \/ LoseLock(a)
        PROVE  ActionInv'
    <2>1. CASE Command(a)
      <3>1. PICK t \in call[a].todo :
              \/ (StoreFlag(a, t) \/ Move(a, t) \/ Expunge(a, t)) /\ UNCHANGED lock
              \/ Fails(a, t)
        BY <2>1 DEF Command
      <3>2. At(a, "command") /\ UNCHANGED <<mirror, run>> BY <2>1 DEF Command
      <3> QED BY <3>1, <3>2, FlagKeeps, MoveKeeps, ExpungeKeeps, FailsKeeps
    <2>2. CASE Start(a) BY <2>2, StartKeeps
    <2>3. CASE Acquire(a) BY <2>3, AcquireKeeps
    <2>4. CASE Busy(a) BY <2>4, BusyKeeps
    <2>5. CASE Write(a) BY <2>5, WriteKeeps
    <2>6. CASE Append(a) BY <2>6, AppendKeeps
    <2>7. CASE mirrorFiledMessage(a) BY <2>7, MirrorKeeps
    <2>8. CASE Reload(a) BY <2>8, ReloadKeeps
    <2>9. CASE Crash(a) BY <2>9, CrashKeeps
    <2>10. CASE LoseLock(a) BY <2>10, LoseLockKeeps
    <2> QED BY <1>6, <2>1, <2>2, <2>3, <2>4, <2>5, <2>6, <2>7, <2>8, <2>9, <2>10 DEF Act
  <1> QED BY <1>1, <1>2, <1>3, <1>4, <1>5, <1>6 DEF ActionNext

(* Whatever fails or interleaves, the mirror never says what the provider  *)
(* never held, and no mail goes that nobody removed or asked to remove     *)
(* (relocateMovedMessage, commitBodies, withUidScope, updateDraft).        *)
THEOREM NothingLostNorInventedHolds == ActionInit /\ [][ActionNext]_actionVars => []NothingLostNorInvented
<1>1. ActionInit => ActionInv BY ActionInvStarts
<1>2. ActionInv /\ [ActionNext]_actionVars => ActionInv' BY ActionInvSteps, ActionInvStutters
<1>3. ActionInv => NothingLostNorInvented BY DEF ActionInv, NothingLostNorInvented
<1>4. QED BY <1>1, <1>2, <1>3, PTL

-------------------------------------------------------------------------------
(* The due marks.                                                          *)

SameMail(f) == \A e \in Entries : e.folder = f => (e \in box' <=> e \in box)
LEMMA ExactKept ==
  ASSUME ActionTypeOK, ActionTypeOK', NEW f \in Folders, Exact(f), Mirrored(f)' = Mirrored(f), gen'[f] = gen[f], SameMail(f)
  PROVE  Exact(f)'
  <1>1. box \subseteq Entries /\ box' \subseteq Entries BY DEF ActionTypeOK
  <1>2. {d \in box' : d.folder = f} = {d \in box : d.folder = f} BY <1>1 DEF SameMail
  <1>3. \A e \in {d \in box : d.folder = f} : PlaceOf(e)' = PlaceOf(e) BY DEF PlaceOf
  <1> QED BY <1>2, <1>3 DEF Exact

(* A step that leaves every folder as it is that it does not mark.         *)
LEMMA DueFrame ==
  ASSUME ActionInv, ActionInv', DueInv, due \subseteq due', foreign \subseteq foreign',
         \A f \in Folders : (known'[f] = known[f] /\ gen'[f] = gen[f]) \/ f \in foreign' \/ known'[f] = gen'[f],
         \A f \in Folders \ (due' \cup foreign') : gen'[f] = gen[f] /\ Mirrored(f)' = Mirrored(f) /\ SameMail(f)
  PROVE  DueInv'
  <1>1. \A f \in Folders : known'[f] # gen'[f] => f \in foreign' BY DEF DueInv
  <1>2. ASSUME NEW f \in Folders \ (due' \cup foreign') PROVE Exact(f)'
    <2>1. Exact(f) BY DEF DueInv
    <2> QED BY <2>1, ExactKept DEF ActionInv
  <1> QED BY <1>1, <1>2 DEF DueInv

LEMMA SameRows ==
  ASSUME UNCHANGED rows, NEW f
  PROVE  Mirrored(f)' = Mirrored(f)
  BY DEF Mirrored, LiveRows, Existing

LEMMA DueInvSteps ==
  ASSUME Rows = Nat \ {0}, ActionInv, ActionInv', DueInv, ActionNext
  PROVE  DueInv'
  <1>1. CASE Elsewhere
    <2>1. UNCHANGED <<gen, rows, known, due>> /\ foreign \subseteq foreign' BY <1>1 DEF Elsewhere, mirror
    <2>2. \A f \in Folders \ foreign' : SameMail(f) BY <1>1, ElsewhereStep DEF SameMail
    <2> QED BY <2>1, <2>2, SameRows, DueFrame
  <1>2. CASE Renumber
    <2>1. UNCHANGED <<rows, known, due>> BY <1>2 DEF Renumber, mirror
    <2>2. foreign \subseteq foreign' BY <1>2 DEF Renumber
    <2>3. \A f \in Folders : f \in foreign' \/ gen'[f] = gen[f] BY <1>2, RenumberStep DEF ActionInv
    <2>4. \A f \in Folders \ foreign' : SameMail(f) BY <1>2, RenumberStep DEF ActionInv, SameMail
    <2> QED BY <2>1, <2>2, <2>3, <2>4, SameRows, DueFrame
  <1>3. CASE Bodies \/ BodyStops
    <2>1. UNCHANGED <<box, gen, rows, known, due, foreign>> BY <1>3, BodyRunKeeps
    <2> QED BY <2>1, SameRows, DueFrame DEF SameMail
  <1>4. CASE commitBodies
    <2>1. /\ UNCHANGED <<box, gen, known, due, foreign>>
          /\ \A r \in LiveRows : r \in LiveRows' \/ Held(rows[r].at) = {}
          /\ \A r \in Rows : (rows'[r] = NoRow <=> rows[r] = NoRow) /\ (rows'[r] # NoRow => rows'[r].at = rows[r].at)
          /\ LiveRows' \subseteq LiveRows
      BY <1>4, CommitKeeps
    <2>2. ASSUME NEW f \in Folders \ (due' \cup foreign') PROVE Mirrored(f)' = Mirrored(f)
      <3>1. Exact(f) BY <2>1 DEF DueInv
      <3>2. ASSUME NEW r \in LiveRows, rows[r].at.folder = f PROVE r \in LiveRows'
        <4>1. rows[r].at \in Mirrored(f) BY <3>2 DEF Mirrored
        <4>2. PICK e \in box : PlaceOf(e) = rows[r].at BY <3>1, <4>1 DEF Exact
        <4> QED BY <2>1, <4>2 DEF Held
      <3>3. \A r \in LiveRows : r \in Rows BY DEF LiveRows, Existing
      <3>4. \A r \in LiveRows' : r \in LiveRows /\ rows'[r].at = rows[r].at BY <2>1, <3>3 DEF LiveRows, Existing
      <3> QED BY <3>2, <3>4 DEF Mirrored
    <2> QED BY <2>1, <2>2, DueFrame DEF SameMail
  <1>5. ASSUME NEW f \in Folders, Sync(f) PROVE DueInv'
    <2>1. CASE known[f] # gen[f]
      <3>1. /\ UNCHANGED <<box, gen, due, foreign>>
            /\ \A g \in Folders \ {f} : known'[g] = known[g] /\ Mirrored(g)' = Mirrored(g)
        BY <1>5, <2>1, ResetKeeps
      <3>2. f \in foreign BY <2>1 DEF DueInv
      <3>3. \A g \in Folders : (known'[g] = known[g] /\ gen'[g] = gen[g]) \/ g \in foreign' BY <3>1, <3>2
      <3> QED BY <3>1, <3>2, <3>3, DueFrame DEF SameMail
    <2>2. CASE known[f] = gen[f]
      <3>1. /\ UNCHANGED <<box, gen, known>> /\ due' = due \ {f} /\ foreign' = foreign \ {f}
            /\ \A g \in Folders \ {f} : Mirrored(g)' = Mirrored(g)
            /\ Mirrored(f)' = {PlaceOf(e) : e \in {d \in box : d.folder = f}}
        BY <1>5, <2>2, ReconcileKeeps
      <3>2. Exact(f)' BY <3>1 DEF Exact, PlaceOf
      <3>3. ASSUME NEW g \in Folders \ (due' \cup foreign'), g # f PROVE Exact(g)'
        <4>1. Exact(g) /\ Mirrored(g)' = Mirrored(g) BY <3>1, <3>3 DEF DueInv
        <4> QED BY <3>1, <4>1 DEF Exact, PlaceOf
      <3>4. \A g \in Folders : known'[g] # gen'[g] => g \in foreign' BY <2>2, <3>1 DEF DueInv
      <3> QED BY <3>2, <3>3, <3>4 DEF DueInv
    <2> QED BY <2>1, <2>2
  <1>6. ASSUME NEW a \in Calls, Start(a) \/ Acquire(a) \/ Busy(a) \/ Act(a) \/ Crash(a) \/ LoseLock(a)
        PROVE  DueInv'
    <2>1. CASE UNCHANGED <<box, gen, rows, known, foreign>> /\ due \subseteq due' BY <2>1, SameRows, DueFrame DEF SameMail
    <2>2. ASSUME UNCHANGED <<gen, rows, known, due>>, Working(a), NEW S \in SUBSET Reach(a),
                 foreign' = (IF call[a].lost THEN foreign \cup S ELSE foreign),
                 \A e \in Entries : e.folder \notin S => (e \in box' <=> e \in box)
          PROVE  DueInv'
      <3>1. call[a].lost \/ Reach(a) \subseteq due BY <2>2 DEF ActionInv, CallOK, DueFirst
      <3>2. foreign \subseteq foreign' /\ S \subseteq due' \cup foreign' BY <2>2, <3>1
      <3>3. \A f \in Folders \ (due' \cup foreign') : SameMail(f) BY <2>2, <3>2 DEF SameMail
      <3> QED BY <2>2, <3>2, <3>3, SameRows, DueFrame
    <2>3. CASE Command(a)
      <3>1. PICK t \in call[a].todo :
              \/ (StoreFlag(a, t) \/ Move(a, t) \/ Expunge(a, t)) /\ UNCHANGED lock
              \/ Fails(a, t)
        BY <2>3 DEF Command
      <3>2. At(a, "command") /\ UNCHANGED <<mirror, run>> /\ Working(a) BY <2>3 DEF Command, At, Working
      <3>3. CASE StoreFlag(a, t) /\ UNCHANGED lock BY <2>1, <3>2, <3>3, FlagKeeps
      <3>4. CASE Move(a, t) /\ UNCHANGED lock
        <4>1. /\ UNCHANGED <<gen, rows, known, due>> /\ {t.at.folder, call[a].dest} \subseteq Reach(a)
              /\ foreign' = IF call[a].lost THEN foreign \cup {t.at.folder, call[a].dest} ELSE foreign
              /\ \A e \in Entries : e.folder \notin {t.at.folder, call[a].dest} => (e \in box' <=> e \in box)
          BY <3>2, <3>4, MoveKeeps
        <4> QED BY <2>2, <3>2, <4>1
      <3>5. CASE Expunge(a, t) /\ UNCHANGED lock
        <4>1. /\ UNCHANGED <<gen, rows, known, due>> /\ t.at.folder \in Reach(a)
              /\ foreign' = IF call[a].lost THEN foreign \cup {t.at.folder} ELSE foreign
              /\ \A e \in Entries : e.folder # t.at.folder => (e \in box' <=> e \in box)
          BY <3>2, <3>5, ExpungeKeeps
        <4>2. {t.at.folder} \subseteq Reach(a) /\ \A e \in Entries : e.folder \notin {t.at.folder} => (e \in box' <=> e \in box)
          BY <4>1
        <4> QED BY <2>2, <3>2, <4>1, <4>2
      <3>6. CASE Fails(a, t)
        <4>1. /\ UNCHANGED <<gen, rows, known, due>>
              /\ \/ UNCHANGED <<box, foreign>>
                 \/ /\ {t.at.folder, call[a].dest} \subseteq Reach(a)
                    /\ foreign' = IF call[a].lost THEN foreign \cup {t.at.folder, call[a].dest} ELSE foreign
                    /\ \A e \in Entries : e.folder \notin {t.at.folder, call[a].dest} => (e \in box' <=> e \in box)
          BY <3>2, <3>6, FailsKeeps
        <4> QED BY <2>1, <2>2, <3>2, <4>1
      <3> QED BY <3>1, <3>3, <3>4, <3>5, <3>6
    <2>4. CASE Append(a)
      <3>1. /\ UNCHANGED <<gen, rows, known, due>> /\ Drafts \in Reach(a)
            /\ foreign' = IF call[a].lost THEN foreign \cup {Drafts} ELSE foreign
            /\ \A e \in Entries : e.folder # Drafts => (e \in box' <=> e \in box)
        BY <2>4, AppendKeeps
      <3>2. {Drafts} \subseteq Reach(a) /\ \A e \in Entries : e.folder \notin {Drafts} => (e \in box' <=> e \in box)
        BY <3>1
      <3>3. Working(a) BY <2>4 DEF Append, At, Working
      <3> QED BY <2>2, <3>1, <3>2, <3>3
    <2>5. ASSUME UNCHANGED <<box, gen, known, due, foreign>>, \A f \in Folders \ due : Mirrored(f)' = Mirrored(f) PROVE DueInv'
      BY <2>5, DueFrame DEF SameMail
    <2>6. CASE Write(a) BY <2>5, <2>6, WriteKeeps
    <2>7. CASE mirrorFiledMessage(a) BY <2>5, <2>7, MirrorKeeps
    <2>8. CASE Reload(a) BY <2>1, <2>8, ReloadKeeps
    <2>9. CASE Start(a) BY <2>1, <2>9, StartKeeps
    <2>10. CASE Acquire(a) BY <2>1, <2>10, AcquireKeeps
    <2>11. CASE Busy(a) BY <2>1, <2>11, BusyKeeps
    <2>12. CASE Crash(a) BY <2>1, <2>12, CrashKeeps
    <2>13. CASE LoseLock(a) BY <2>1, <2>13, LoseLockKeeps
    <2> QED BY <1>6, <2>3, <2>4, <2>6, <2>7, <2>8, <2>9, <2>10, <2>11, <2>12, <2>13 DEF Act
  <1> QED BY <1>1, <1>2, <1>3, <1>4, <1>5, <1>6 DEF ActionNext

(* After an action, however it ended, a folder that the mirror does not    *)
(* have right is due, or somebody outside the lock changed it, where the   *)
(* sequence of row ids never ends ("durably due before the provider        *)
(* command", markFoldersForReconcile).                                     *)
THEOREM DueCoversHolds ==
  ASSUME Rows = Nat \ {0}
  PROVE  ActionInit /\ [][ActionNext]_actionVars => []DueCovers
<1> DEFINE Inv == ActionInv /\ DueInv
<1>1. ActionInit => Inv BY ActionInvStarts DEF DueInv
<1>2. Inv /\ [ActionNext]_actionVars => Inv'
  <2>1. ASSUME Inv, ActionNext PROVE Inv' BY <2>1, ActionInvSteps, DueInvSteps
  <2>2. ASSUME Inv, UNCHANGED actionVars PROVE Inv'
    <3>1. ActionInv' BY <2>2, ActionInvStutters
    <3>2. UNCHANGED <<box, gen, rows, known, due, foreign>> BY <2>2 DEF actionVars, mailbox, mirror, history
    <3>3. DueInv' BY <2>2, <3>1, <3>2, SameRows, DueFrame DEF SameMail
    <3> QED BY <3>1, <3>3
  <2> QED BY <2>1, <2>2
<1>3. Inv => DueCovers BY DEF DueInv, DueCovers, Exact
<1> HIDE DEF Inv
<1>4. QED BY <1>1, <1>2, <1>3, PTL

=============================================================================
