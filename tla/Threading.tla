------------------------------- MODULE Threading -------------------------------
(***************************************************************************)
(* The threading algorithm: one account's physical messages are collapsed  *)
(* into deliveries, the deliveries are linked by their reply headers, and  *)
(* every message is assigned to a conversation.  A pure function of the    *)
(* messages, in the three versions a run may ask for.                      *)
(*                                                                         *)
(* A mailbox is a function from message ids (numbers, whose order is the   *)
(* order of the stable keys) to messages.  A Message-ID is a token, a      *)
(* header's occurrence the sequence of tokens read from it, empty when     *)
(* nothing in it parses.  A delivery key is the evidence the code hashes   *)
(* into it, and the order of hashes is the order of the lowest ids.        *)
(***************************************************************************)
EXTENDS Integers, FiniteSets, Sequences, SequencesExt, TLC

CONSTANTS
  None,   \* nothing was said
  Window  \* how far a subject may reach back

-------------------------------------------------------------------------------
(* Reading one message.                                                    *)

Compatible(left, right) == IsSuffix(left, right) \/ IsSuffix(right, left)
(* The occurrences of a header, in the stored column and in the fetched    *)
(* headers, count only when they all parse and agree: then the longest.    *)
Read(header, chain) ==
  LET values == header.column \cup header.fetched
      Agree(a, b) == IF chain THEN Compatible(a, b) ELSE a = b
      conflict == \/ \E a, b \in values \ {<<>>} : ~Agree(a, b)
                  \/ <<>> \in values /\ header.column # {} /\ header.fetched # {}
  IN [had |-> values # {}, conflict |-> conflict, malformed |-> <<>> \in values,
      tokens |-> IF values = {} \/ <<>> \in values \/ conflict THEN <<>>
                 ELSE CHOOSE a \in values : \A b \in values : Len(b) <= Len(a)]
Refused(scan) == scan.conflict \/ (scan.had /\ scan.tokens = <<>>)

FirstOf(tokens) == IF tokens = <<>> THEN <<>> ELSE <<Head(tokens)>>

(* Leading "Re:" marks are stripped; version 3 takes "Re: Fwd:" for a reply. *)
ParseSubject(subject, version) ==
  IF subject = None THEN [base |-> None, reply |-> FALSE, forward |-> FALSE]
  ELSE LET marks == subject.marks
           n == CHOOSE k \in 0..Len(marks) :
                  (\A i \in 1..k : marks[i] = "re") /\ (k = Len(marks) \/ marks[k + 1] # "re")
           forwarded == n < Len(marks)
       IN [base |-> <<SubSeq(marks, n + 1, Len(marks)), subject.words>>,
           reply |-> n > 0 /\ (version >= 3 \/ ~forwarded),
           forward |-> forwarded /\ (version < 3 \/ n = 0)]

Prints(message) == {<<kind, message[kind]>> : kind \in {k \in {"raw", "parsed", "authored"} : message[k] # None}}
ClosestPrint(message) ==
  IF message.raw # None THEN <<"raw", message.raw>>
  ELSE IF message.parsed # None THEN <<"parsed", message.parsed>> ELSE None
Metadata(message, mid, version) ==
  LET exact == <<mid, message.time, message.size, message.subject, message.from, message.to>>
  IN IF version < 3 \/ message.to = {} \/ \E i \in 1..5 : exact[i] = None THEN None ELSE exact

Parse(message, version) ==
  LET mids == Read(message.messageId, FALSE)
      references == Read(message.references, TRUE)
      replies == Read(message.inReplyTo, TRUE)
      mid == IF mids.tokens = <<>> THEN None ELSE Head(mids.tokens)
      subject == ParseSubject(message.subject, version)
      ids == IF references.tokens # <<>> THEN references.tokens ELSE FirstOf(replies.tokens)
      others == SelectSeq(ids, LAMBDA t : t # mid)
      forwards == version >= 3 /\ subject.forward /\ others # <<>>
      edges == IF forwards THEN <<>> ELSE others
      source == IF ids = <<>> \/ forwards THEN 0 ELSE IF references.tokens # <<>> THEN 2 ELSE 1
  IN [mid |-> mid, refs |-> edges, source |-> source,
      quality |-> 1000 * source + 10 * Len(edges) + (IF mid = None THEN 0 ELSE 1),
      blocked |-> mids.conflict \/ Refused(references) \/ Refused(replies), subject |-> subject,
      malformed |-> (Refused(mids) /\ ~mids.conflict) \/ references.malformed \/ replies.malformed,
      prints |-> IF version = 1 THEN {ClosestPrint(message)} \ {None} ELSE Prints(message),
      closest |-> ClosestPrint(message), authored |-> message.authored,
      metadata |-> Metadata(message, mid, version), message |-> message]

(* What a changed message is tied to its copies by.                        *)
ClosureFingerprints(message, version) == LET p == Parse(message, version) IN p.prints \cup ({p.metadata} \ {None})

-------------------------------------------------------------------------------
(* Collapsing the copies of a message into one delivery.                   *)

(* The same function: what is computed from it is computed once.          *)
Table(f) == CHOOSE g \in {f} : g = f
Only(S) == IF Cardinality(S) = 1 THEN CHOOSE x \in S : TRUE ELSE None
Join(cells, linked) ==
  LET touched == {c \in cells : c \cap linked # {}} IN (cells \ touched) \cup ({UNION touched} \ {{}})
JoinAll(cells, links) == FoldSet(LAMBDA linked, acc : Join(acc, linked), cells, links)
Singles(S) == {{x} : x \in S}

BaseKey(p, id) ==
  IF p[id].message.provider # None THEN <<"provider", p[id].message.provider>>
  ELSE IF p[id].mid # None THEN <<"message-id", p[id].mid>>
  ELSE IF p[id].closest # None THEN <<"fingerprint", {p[id].closest}>> ELSE <<"row", id>>

PrintsOf(p, cell) == UNION {p[i].prints : i \in cell}
SharedFingerprints(p, ids) == JoinAll(Singles(ids), {{i \in ids : f \in p[i].prints} : f \in PrintsOf(p, ids)})

AuthoredOf(p, cell) == {p[i].authored : i \in cell} \ {None}
FoldersOf(p, cell) == {p[i].message.folder : i \in cell} \ {None}
(* Equal metadata joins copies in different folders, unless two authored   *)
(* digests contradict each other.                                          *)
JoinMetadata(p, cells, torn, group) ==
  LET roots == {c \in cells : c \cap group # {}}
      values == UNION {AuthoredOf(p, c) : c \in roots}
      distinct == /\ \A c \in roots : FoldersOf(p, c) # {}
                  /\ \A c, d \in roots : c # d => FoldersOf(p, c) \cap FoldersOf(p, d) = {}
  IN IF ~distinct \/ roots \cap torn # {} THEN cells
     ELSE IF Cardinality(values) <= 1 THEN Join(cells, UNION roots)
     ELSE JoinAll(cells, {UNION {c \in roots : AuthoredOf(p, c) = same} : same \in {AuthoredOf(p, c) : c \in roots}})
(* A row without an authored digest follows the one authored message it    *)
(* shares a fingerprint with; between two it stays alone, torn.            *)
ConflictAware(p, ids) ==
  LET alike == JoinAll(Singles(ids), {{i \in ids : f \in p[i].prints /\ p[i].authored = a}
                                       : f \in PrintsOf(p, ids), a \in {p[i].authored : i \in ids}})
      kin(c) == {d \in alike : AuthoredOf(p, d) # {} /\ PrintsOf(p, c) \cap PrintsOf(p, d) # {}}
      open == {c \in alike : AuthoredOf(p, c) = {}}
      sole == {c \in open : Cardinality(kin(c)) = 1}
      torn == {c \in open : Cardinality(kin(c)) > 1}
      groups == {{i \in ids : p[i].metadata = d} : d \in {p[i].metadata : i \in ids} \ {None}}
      after[done \in SUBSET groups] ==
        IF done = {} THEN JoinAll(alike, {c \cup UNION kin(c) : c \in sole})
        ELSE LET last == CHOOSE g \in done : \A h \in done : Min(h) <= Min(g)
             IN JoinMetadata(p, after[done \ {last}], torn, last)
  IN after[groups]

Variant(p, cell, version) ==
  LET metadata == {p[i].metadata : i \in cell} \ {None}
      common == {f \in PrintsOf(p, cell) : \A i \in cell : f \in p[i].prints}
  IN IF version >= 3 /\ Cardinality(cell) > 1 /\ common = {} /\ Cardinality(metadata) = 1
     THEN <<"metadata", CHOOSE d \in metadata : TRUE>>
     ELSE IF PrintsOf(p, cell) # {} THEN <<"fingerprints", PrintsOf(p, cell)>> ELSE <<"row", Min(cell)>>

(* A reused Message-ID only nominates copies: without evidence in common   *)
(* each row remains a delivery of its own, named by a variant key.         *)
Copies(p, key, ids, version) ==
  LET cells == CASE key[1] # "message-id" -> {ids}
                 [] version = 1 -> {{i \in ids : IF p[j].closest = None THEN i = j ELSE p[i].closest = p[j].closest}
                                      : j \in ids}
                 [] version = 2 -> SharedFingerprints(p, ids)
                 [] OTHER -> ConflictAware(p, ids)
  IN {[key |-> IF Cardinality(cells) = 1 THEN key ELSE <<"variant", key, Variant(p, c, version)>>, ids |-> c] : c \in cells}
Groups(p, version) ==
  LET ids == DOMAIN p
      bare == IF version = 1 THEN {} ELSE {i \in ids : BaseKey(p, i)[1] = "row" \/ BaseKey(p, i)[1] = "fingerprint"}
      loose == {i \in bare : p[i].prints # {}}
      keyed == {BaseKey(p, i) : i \in ids \ loose}
  IN UNION {Copies(p, k, {i \in ids \ loose : BaseKey(p, i) = k}, version) : k \in keyed}
     \cup {[key |-> <<"fingerprint", PrintsOf(p, c)>>, ids |-> c] : c \in SharedFingerprints(p, loose)}
(* Groups are kept in a map: of two with the same key the later one stays. *)
Kept(groups) == {g \in groups : \A h \in groups : h.key = g.key => Min(h.ids) <= Min(g.ids)}

Forwards(message) == message.subject # None /\ FirstOf(message.subject.marks) = <<"fwd">>
Best(p, ids) == CHOOSE i \in ids : \A j \in ids : p[j].quality < p[i].quality \/ (p[j].quality = p[i].quality /\ i <= j)
BestWith(p, ids, Has(_)) == LET able == {i \in ids : Has(i)} IN Best(p, IF able = {} THEN ids ELSE able)
Delivery(p, group) ==
  LET ids == group.ids
      mids == {p[i].mid : i \in ids} \ {None}
      threads == {p[i].message.thread : i \in ids} \ {None}
      chains == {p[i].refs : i \in ids} \ {<<>>}
      longest == IF chains = {} THEN <<>> ELSE CHOOSE a \in chains : \A b \in chains : Len(b) <= Len(a)
      disagree == \E a \in chains : ~Compatible(a, longest)
      mid == Only(mids)
      times == {p[i].message.time : i \in ids} \ {None}
  IN [key |-> group.key, ids |-> ids, mid |-> mid, node |-> None, chain |-> <<>>,
      refs |-> IF disagree THEN <<>> ELSE SelectSeq(longest, LAMBDA t : t # mid),
      source |-> IF disagree \/ chains = {} THEN 0 ELSE Max({p[i].source : i \in {j \in ids : p[j].refs = longest}}),
      thread |-> Only(threads),
      time |-> IF times = {} THEN None ELSE Min(times),
      subject |-> p[BestWith(p, ids, LAMBDA i : p[i].subject.base # None)].subject,
      from |-> p[BestWith(p, ids, LAMBDA i : p[i].message.from # None)].message.from,
      to |-> UNION {p[i].message.to : i \in ids},
      agreed |-> ~disagree /\ Cardinality(mids) <= 1 /\ Cardinality(threads) <= 1,
      weak |-> \A i \in ids : ~p[i].message.automated /\ ~p[i].blocked,
      candidate |-> /\ \A i \in ids : ~p[i].message.automated /\ ~p[i].malformed /\ ~Forwards(p[i].message)
                    /\ \E i \in ids : p[i].message.from # None /\ p[i].message.to # {}]

-------------------------------------------------------------------------------
(* Linking the deliveries, each named by its lowest id, by reply headers.  *)

Owners(ds, token) == {d \in DOMAIN ds : ds[d].mid = token}
NodeOf(ds, d) ==
  IF ds[d].mid # None /\ Owners(ds, ds[d].mid) = {d} THEN <<"reference", ds[d].mid>> ELSE <<"delivery", ds[d].key>>
(* A reused Message-ID has no owner to be a parent: what refers to it gets *)
(* a placeholder of its own, so two such replies do not meet there.        *)
ReferenceNode_Shared(ds, token, d) ==
  IF Cardinality(Owners(ds, token)) = 1 THEN <<"reference", token>> ELSE <<"missing", token>>
ReferenceNode(ds, token, d) ==
  LET owners == Owners(ds, token)
  IN IF Cardinality(owners) = 1 THEN <<"reference", token>>
     ELSE IF owners = {} THEN <<"missing", token>> ELSE <<"ambiguous", token, ds[d].key>>
Ambiguous(ds, d) == \E t \in {ds[d].mid} \cup ToSet(ds[d].refs) : t # None /\ Cardinality(Owners(ds, t)) > 1
Deliveries(mailbox, version) ==
  LET p == Table([i \in DOMAIN mailbox |-> Parse(mailbox[i], version)])
      groups == Kept(Groups(p, version))
      all == Table([n \in {Min(g.ids) : g \in groups} |-> Delivery(p, CHOOSE g \in groups : n = Min(g.ids))])
  IN Table([n \in DOMAIN all |-> [all[n] EXCEPT !.node = NodeOf(all, n),
                                    !.chain = [k \in 1..Len(all[n].refs) |-> ReferenceNode(all, all[n].refs[k], n)]]])

Above(parents, node) ==
  LET up[k \in 0..Cardinality(DOMAIN parents)] ==
        IF k = 0 THEN {node} ELSE up[k - 1] \cup ({parents[n] : n \in up[k - 1]} \ {None})
  IN up[Cardinality(DOMAIN parents)]
WouldCreateCycle_Never(parents, up, down) == FALSE
WouldCreateCycle(parents, up, down) == down \in Above(parents, up)
Attach(parents, up, down) == IF WouldCreateCycle(parents, up, down) THEN parents ELSE [parents EXCEPT ![down] = up]

(* Inferred ancestry only fills gaps and stops at a forward; the message's *)
(* own last reference replaces what was inferred.                          *)
Chain(d, forwards, parents) ==
  LET step(acc, node) ==
        LET links == acc.prior # None /\ acc.parents[node] = None /\ node \notin forwards
        IN [prior |-> node, parents |-> IF links THEN Attach(acc.parents, acc.prior, node) ELSE acc.parents]
      done == FoldLeft(step, [prior |-> None, parents |-> parents], d.chain)
  IN IF done.prior = None THEN parents ELSE Attach(done.parents, done.prior, d.node)
NotLater(ds, a, b) ==
  IF ds[a].time = ds[b].time THEN a <= b ELSE ds[b].time = None \/ (ds[a].time # None /\ ds[a].time < ds[b].time)
ForwardNodes(ds, version) == {ds[d].node : d \in {e \in DOMAIN ds : version >= 3 /\ ds[e].subject.forward}}
Parents(ds, version) ==
  LET nodes == UNION {{ds[d].node} \cup ToSet(ds[d].chain) : d \in DOMAIN ds}
      forwards == ForwardNodes(ds, version)
      after[done \in SUBSET DOMAIN ds] ==
        IF done = {} THEN Table([n \in nodes |-> None])
        ELSE LET last == CHOOSE d \in done : \A e \in done : NotLater(ds, e, d)
             IN Chain(ds[last], forwards, after[done \ {last}])
  IN Table(after[DOMAIN ds])

CellOf(cells, node) == CHOOSE c \in cells : node \in c
(* A provider's thread joins what is not, or does not belong to, a forward. *)
ProviderLinks(ds, cells, version) ==
  LET eligible(t) == {d \in DOMAIN ds : ds[d].thread = t /\ CellOf(cells, ds[d].node) \cap ForwardNodes(ds, version) = {}}
  IN {g \in {eligible(t) : t \in {ds[d].thread : d \in DOMAIN ds} \ {None}} : Cardinality(g) > 1}
NodesOf(ds, S) == {ds[d].node : d \in S}

-------------------------------------------------------------------------------
(* The subject, last and only between messages nothing else connects.      *)

Standalone(ds, parents, cells, d) ==
  LET node == ds[d].node
  IN /\ \A e \in DOMAIN ds \ {d} : ds[e].node \notin CellOf(cells, node)
     /\ parents[node] = None /\ \A n \in DOMAIN parents : parents[n] # node
     /\ ds[d].refs = <<>> /\ ds[d].weak /\ ds[d].agreed /\ ~Ambiguous(ds, d) /\ ds[d].subject.base # None
ReciprocalParticipants(reply, root) == root.from # None /\ reply.from \in root.to /\ root.from \in reply.to
FallbackCandidates(ds, alone, d) ==
  LET reply == ds[d]
  IN {e \in alone \ {d} : LET root == ds[e] IN
        /\ ~root.subject.reply /\ ~root.subject.forward /\ root.subject.base = reply.subject.base
        /\ root.time # None /\ reply.time - root.time \in 0..Window /\ ReciprocalParticipants(reply, root)}
FallbackLinks(ds, alone) ==
  LET replies == {d \in alone : ds[d].subject.reply /\ ~ds[d].subject.forward /\ ds[d].time # None /\ ds[d].from # None}
  IN UNION {{<<d, root>> : root \in FallbackCandidates(ds, alone, d)}
             : d \in {r \in replies : Cardinality(FallbackCandidates(ds, alone, r)) = 1}}

-------------------------------------------------------------------------------
(* The assignments.                                                        *)

Reference(node) == IF node[1] = "delivery" THEN None ELSE node[2]
(* What names a conversation: the root of a weak link, the one root        *)
(* reference, the provider's thread, or its first delivery.                *)
Anchor(ds, parents, cell, shared, weakRoots) ==
  LET members == {d \in DOMAIN ds : ds[d].node \in cell}
      roots == members \cap weakRoots
      tops == {n \in cell : parents[n] = None}
      root == IF roots # {} THEN Reference(ds[Min(roots)].node) ELSE Only({Reference(n) : n \in tops} \ {None})
      unclear == {n \in tops : n[1] = "ambiguous"}
      thread == Only({ds[d].thread : d \in members \cap shared})
  IN [root |-> root,
      anchor |-> CASE roots # {} /\ root = None -> <<"delivery", ds[Min(roots)].key>>
                   [] root # None /\ (roots # {} \/ unclear = {}) -> <<"reference", root>>
                   [] roots = {} /\ (root = None \/ unclear # {}) /\ thread # None -> <<"provider", thread>>
                   [] roots = {} /\ thread = None /\ Cardinality(unclear) = 1 -> <<"ambiguity", Only(unclear)>>
                   [] OTHER -> <<"delivery", ds[Min(members)].key>>]
Method(ds, d, parents, shared, linked) ==
  LET node == ds[d].node
  IN CASE parents[node] # None /\ ds[d].refs # <<>> /\ ds[d].source = 1 -> "in_reply_to"
       [] (parents[node] # None /\ ~(ds[d].refs # <<>> /\ ds[d].source = 1))
            \/ (parents[node] = None /\ \E n \in DOMAIN parents : parents[n] = node) -> "references"
       [] OTHER -> IF d \in shared THEN "provider_thread" ELSE IF d \in linked THEN "subject_fallback" ELSE "standalone"

(* computeThreadAssignments: a message that no kept delivery holds gets none. *)
ThreadAccount(mailbox, version, fallback) ==
  LET ds == Deliveries(mailbox, version)
      parents == Parents(ds, version)
      replies == JoinAll(Singles(DOMAIN parents), {{n, parents[n]} : n \in {m \in DOMAIN parents : parents[m] # None}})
      groups == ProviderLinks(ds, replies, version)
      strong == JoinAll(replies, {NodesOf(ds, g) : g \in groups})
      weak == IF fallback THEN FallbackLinks(ds, {d \in DOMAIN ds : Standalone(ds, parents, strong, d)}) ELSE {}
      cells == JoinAll(strong, {NodesOf(ds, {l[1], l[2]}) : l \in weak})
      linked == UNION {{l[1], l[2]} : l \in weak}
      assign(d) ==
        LET cell == CellOf(cells, ds[d].node)
            summary == Anchor(ds, parents, cell, UNION groups, {l[2] : l \in weak})
            method == Method(ds, d, parents, UNION groups, linked)
            up == parents[ds[d].node]
        IN [key |-> ds[d].key, mid |-> ds[d].mid, refs |-> ds[d].refs, thread |-> ds[d].thread, copies |-> ds[d].ids,
            conversation |-> summary.anchor, root |-> summary.root,
            parent |-> IF up = None THEN None ELSE Reference(up),
            parentDelivery |-> Only({ds[e].key : e \in {f \in DOMAIN ds : ds[f].node = up}}),
            base |-> ds[d].subject.base, method |-> method,
            provisional |-> (\E n \in cell : n[1] \in {"missing", "ambiguous"})
                            \/ \E e \in linked : ds[e].node \in cell,
            eligible |-> /\ ds[d].subject.base # None /\ ds[d].refs = <<>> /\ method \in {"standalone", "subject_fallback"}
                         /\ ds[d].agreed /\ ds[d].candidate /\ ~Ambiguous(ds, d)]
      assigned == Table([d \in DOMAIN ds |-> assign(d)])
  IN Table([i \in UNION {ds[d].ids : d \in DOMAIN ds} |-> assigned[CHOOSE d \in DOMAIN ds : i \in ds[d].ids]])
===============================================================================
