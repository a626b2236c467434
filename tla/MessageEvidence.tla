---------------------------- MODULE MessageEvidence ----------------------------
(***************************************************************************)
(* The row of a message and of its body: metadata batches and body reads   *)
(* write them in transactions of their own, several at a time, and each    *)
(* may find less than the other one did.  Triggers clear what a change     *)
(* made stale and tell the thread runs, which read both rows.              *)
(***************************************************************************)
EXTENDS Naturals, FiniteSets

CONSTANTS
  Uids, Writers,
  Keys,         \* THREADING_BODY_HEADER_KEYS
  Columns,      \* those with a column of their own: Message-ID, In-Reply-To, References
  Metas,        \* FETCH answers: envelope and headers
  Bodies,       \* reads of a body: headers, bytes, truncated, raw, items, complete
  Null

(* What a row's columns hold.                                              *)
MessageRows == [env : {m.env : m \in Metas}, ids : SUBSET Columns, hdrs : SUBSET Keys]

ASSUME EvidenceAssumption ==
  /\ IsFiniteSet(Uids) /\ Columns \subseteq Keys /\ Null \notin Nat \cup Writers \cup MessageRows
  /\ \A m \in Metas : m.hdrs \subseteq Keys
  /\ \A b \in Bodies : b.hdrs \subseteq Keys /\ {b.truncated, b.raw, b.complete} \subseteq BOOLEAN

VARIABLES
  folderRow,   \* imap_folders: gen, count (headers_synced_count)
  holder,      \* the writer that has the folder row locked
  message,     \* imap_messages of a generation and UID
  body,        \* imap_message_bodies
  items,       \* imap_message_evidence of a message
  queue,       \* imap_thread_work_queue
  unread,      \* rows that changed since a thread run last read them
  writer       \* the metadata batches that run

evidenceVars == <<folderRow, holder, message, body, items, queue, unread, writer>>

Rows == {1, 2} \X Uids
NoBody == [hdrs |-> {}, bytes |-> 0, truncated |-> FALSE, raw |-> Null, parsed |-> Null, authored |-> Null,
           sha |-> Null, complete |-> FALSE, stored |-> FALSE]
NoWriter == [pc |-> "idle", gen |-> 0, uid |-> 0, meta |-> Null, before |-> Null]
EvidenceInit ==
  /\ folderRow = [gen |-> Null, count |-> 0] /\ holder = Null
  /\ message = [r \in Rows |-> Null] /\ body = [r \in Rows |-> NoBody] /\ items = [r \in Rows |-> {}]
  /\ queue = {} /\ unread = {} /\ writer = [w \in Writers |-> NoWriter]

(* What a run reads of a message: the columns, and the headers of either.  *)
InputsOf(m, b) == <<m.env, m.ids, m.hdrs \cup b.hdrs, b.raw, b.parsed, b.authored>>
InputsChanged(r) ==
  \/ message[r] = Null /\ message'[r] # Null
  \/ message[r] # Null /\ InputsOf(message[r], body[r]) # InputsOf(message'[r], body'[r])
Unread(r) == unread' = unread \cup {s \in {r} : InputsChanged(s)}

-------------------------------------------------------------------------------
(* The triggers.                                                           *)

Differ(old, new, fields) == \E f \in fields : old[f] # new[f]
(* Both evidence triggers and the two on digests.                          *)
ThreadColumns_NoHeaders == {"env", "ids"}
ThreadColumns == {"env", "ids", "hdrs"}
capture_thread_evidence(r) ==
  \/ message'[r] # message[r] /\ (message[r] = Null \/ Differ(message[r], message'[r], ThreadColumns))
  \/ body'[r].stored /\ (~body[r].stored \/ Differ(body[r], body'[r], {"raw", "hdrs", "parsed", "authored"}))
(* An envelope that changed clears the digests that contain it.            *)
digests_from_message_Kept(old, new, b) == b
digests_from_message(old, new, b) ==
  IF old # Null /\ old.env # new.env THEN [b EXCEPT !.parsed = Null, !.authored = Null] ELSE b
(* So does other evidence, unless the same statement wrote a new digest.   *)
digests_from_body(old, new) ==
  IF old.stored /\ Differ(old, new, {"bytes", "truncated", "hdrs", "sha", "complete"})
  THEN [new EXCEPT !.parsed = IF old.parsed = @ THEN Null ELSE @, !.authored = IF old.authored = @ THEN Null ELSE @]
  ELSE new

-------------------------------------------------------------------------------
(* upsertMessages: one batch of one UID.                                   *)

WriterIs(w, record) == writer' = [writer EXCEPT ![w] = record]
BeginBatch(w) ==
  /\ writer[w].pc = "idle"
  /\ \E g \in {1, 2}, u \in Uids, m \in Metas :
       WriterIs(w, [pc |-> "begun", gen |-> g, uid |-> u, meta |-> m, before |-> Null])
  /\ UNCHANGED <<folderRow, holder, message, body, items, queue, unread>>
(* The folder row's lock, and the generation it must have; any error rolls *)
(* back.                                                                   *)
FolderFree_Unlocked == TRUE
FolderFree == holder = Null
LockFolder(w) ==
  /\ writer[w].pc = "begun" /\ FolderFree
  /\ IF folderRow.gen \in {Null, writer[w].gen}
     THEN holder' = w /\ WriterIs(w, [writer[w] EXCEPT !.pc = "locked"])
     ELSE WriterIs(w, NoWriter) /\ UNCHANGED holder
  /\ UNCHANGED <<folderRow, message, body, items, queue, unread>>
RowOf(w) == <<writer[w].gen, writer[w].uid>>
(* A statement of its own after the lock: existing rows FOR UPDATE.        *)
ReadExisting(w) ==
  /\ writer[w].pc = "locked"
  /\ WriterIs(w, [writer[w] EXCEPT !.pc = "read", !.before = message[RowOf(w)]])
  /\ UNCHANGED <<folderRow, holder, message, body, items, queue, unread>>
(* INSERT ... ON CONFLICT DO UPDATE, the count, COMMIT.                    *)
IdsToKeep_New(before, meta) == meta.hdrs \cap Columns
IdsToKeep(before, meta) == (meta.hdrs \cap Columns) \cup (IF before = Null THEN {} ELSE before.ids)
upsertMessages(w) ==
  /\ writer[w].pc = "read"
  /\ LET r == RowOf(w)
         meta == writer[w].meta
         row == [env |-> meta.env, ids |-> IdsToKeep(writer[w].before, meta), hdrs |-> meta.hdrs]
     IN /\ message' = [message EXCEPT ![r] = row]
        /\ body' = [body EXCEPT ![r] = digests_from_message(message[r], row, @)]
        /\ queue' = queue \cup {s \in {r} : capture_thread_evidence(s)}
        /\ folderRow' = [gen |-> writer[w].gen, count |-> folderRow.count + IF writer[w].before = Null THEN 1 ELSE 0]
          /\ Unread(r)
  /\ holder' = Null /\ WriterIs(w, NoWriter) /\ UNCHANGED items
(* The deadline, an abort or a crash: nothing of it stays.                 *)
Rollback(w) ==
  /\ writer[w].pc # "idle" /\ WriterIs(w, NoWriter) /\ holder' = IF holder = w THEN Null ELSE holder
  /\ UNCHANGED <<folderRow, message, body, items, queue, unread>>

-------------------------------------------------------------------------------
(* storeBodyEvidenceInTransaction, of one body.                            *)

RowLocked(r) == \E w \in Writers : writer[w].pc = "read" /\ RowOf(w) = r /\ message[r] # Null
(* prepareMessageEvidence; a truncated read extracts nothing.              *)
prepareMessageEvidence(b) == IF b.truncated THEN {} ELSE b.items
StructuredComplete(b) == b.complete /\ ~b.truncated
rawMimeSha256(b) == IF b.raw /\ ~b.truncated THEN b.bytes ELSE Null
hasBodyThreadingEnvelope(b) == ~b.truncated /\ "message-id" \in b.hdrs
parsedSha256(m, b) ==
  IF hasBodyThreadingEnvelope(b) /\ ~b.raw THEN <<m.env, b.hdrs, b.bytes>> ELSE Null
authoredSha256(m, b) ==
  IF hasBodyThreadingEnvelope(b) /\ StructuredComplete(b) THEN <<m.env, b.hdrs, b.items>> ELSE Null
Read(m, b) ==
  [hdrs |-> b.hdrs, bytes |-> b.bytes, truncated |-> b.truncated, raw |-> rawMimeSha256(b),
   parsed |-> parsedSha256(m, b), authored |-> authoredSha256(m, b),
   sha |-> IF StructuredComplete(b) THEN prepareMessageEvidence(b) ELSE Null, complete |-> StructuredComplete(b), stored |-> TRUE]
(* Headers that the metadata lacked are taken from the body.               *)
learnedThreadingEvidence(m, b) == \/ b.hdrs \ m.hdrs # {} \/ (b.hdrs \cap Columns) \ m.ids # {}
Recovered(m, b) == [m EXCEPT !.hdrs = @ \cup b.hdrs, !.ids = @ \cup (b.hdrs \cap Columns)]
Replaced(old, b) == IF b.truncated THEN old ELSE prepareMessageEvidence(b)
storeBodyEvidence(r) ==
  /\ message[r] # Null /\ ~RowLocked(r)
  /\ \E b \in Bodies :
       LET m == message[r]
           read == Read(m, b)
       IN /\ message' = [message EXCEPT ![r] = Recovered(m, b)]
          /\ body' = [body EXCEPT ![r] = digests_from_body(body[r], read)]
          /\ items' = [items EXCEPT ![r] = Replaced(@, b)]
          /\ queue' = queue \cup {s \in {r} :
               \/ capture_thread_evidence(s)
               \/ learnedThreadingEvidence(m, b) \/ Differ(body[r], read, {"hdrs", "raw", "parsed", "authored"})}
          /\ Unread(r)
  /\ UNCHANGED <<folderRow, holder, writer>>

(* A drain of module ThreadRuns takes a message from the queue.            *)
DrainMessage(r) ==
  /\ r \in queue /\ queue' = queue \ {r} /\ unread' = unread \ {r}
  /\ UNCHANGED <<folderRow, holder, message, body, items, writer>>
(* handleUidValidityReset, that takes the folder row too.                  *)
ResetFolder ==
  /\ FolderFree /\ folderRow.gen = 1 /\ folderRow' = [gen |-> 2, count |-> 0]
  /\ UNCHANGED <<holder, message, body, items, queue, unread, writer>>

EvidenceNext ==
  \/ \E w \in Writers : BeginBatch(w) \/ LockFolder(w) \/ ReadExisting(w) \/ upsertMessages(w) \/ Rollback(w)
  \/ \E r \in Rows : storeBodyEvidence(r) \/ DrainMessage(r)
  \/ ResetFolder

-------------------------------------------------------------------------------
(* Properties.                                                             *)

(* headers_synced_count is the number of the generation's rows: batches    *)
(* that overlap, roll back or come after a reset count nothing twice       *)
(* ("double-count an overlapping UID").                                    *)
CountedOnce ==
  folderRow.gen # Null => folderRow.count = Cardinality({u \in Uids : message[<<folderRow.gen, u>>] # Null})
(* A Message-ID or a reply link once known is never unset, whoever found   *)
(* it: conversations do not fall apart on a refetch (upsertMessages,       *)
(* storeBodyEvidenceInTransaction).                                        *)
IdentityKept ==
  [][\A r \in Rows : message[r] # Null => message'[r] # Null /\ message[r].ids \subseteq message'[r].ids]_evidenceVars
(* What a thread run last read of a message is what is stored, or the      *)
(* message is queued ("must enqueue idempotently for every active,         *)
(* candidate, and rollback run").                                          *)
StoredIsOwed == unread \subseteq queue
(* A digest is of the envelope and the body that are stored now, and the   *)
(* evidence rows are those the body's own digest describes: a false exact  *)
(* match would join two deliveries (the triggers of 0022, storeBody).      *)
DigestsCurrent ==
  \A r \in Rows : body[r].stored =>
    /\ body[r].parsed # Null => body[r].parsed = <<message[r].env, body[r].hdrs, body[r].bytes>>
    /\ body[r].authored # Null => body[r].authored = <<message[r].env, body[r].hdrs, items[r]>>
    /\ body[r].sha # Null => body[r].sha = items[r]
(* What a thread run, a reader of digests and a reader of the counts may   *)
(* believe of the stored messages.                                  *)
EvidenceTrue == StoredIsOwed /\ DigestsCurrent /\ CountedOnce
===============================================================================
