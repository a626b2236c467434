------------------------------ MODULE SendPromise ------------------------------
(***************************************************************************)
(* What an idempotency key promises whoever holds it.  The key stands for  *)
(* the request of its first claim.  Its email is accepted at most once,    *)
(* and only between a claim and a final word.  "Not delivered" is said of  *)
(* an email that no server has or may still take, and alone reopens the    *)
(* key; "succeeded" is said of what was accepted or filed, for good; doubt *)
(* never turns into another attempt.                                       *)
(***************************************************************************)
EXTENDS Naturals

CONSTANTS Sends, Drafts, Earlier, NoRequest

VARIABLES
  record,    \* what the key stands for, and what is said of it
  accepted,  \* how often a server took responsibility for an email
  pending,   \* emails that a server may still take responsibility for
  filed      \* the key's draft is in the mailbox

Init ==
  /\ record = [status |-> "absent", request |-> NoRequest]
  /\ accepted = [q \in Sends |-> IF q \in Earlier THEN 1 ELSE 0]
  /\ pending = {} /\ filed = FALSE

Says(status) == record' = [status |-> status, request |-> record.request]
Open == record.status \in {"submitting", "unknown"}
Concerns(requests) == record.request \in requests

Claim(q) ==
  /\ record.status = "absent" \/ (record.status = "not_delivered" /\ record.request = q)
  /\ record' = [status |-> "submitting", request |-> q]
  /\ UNCHANGED <<accepted, pending, filed>>

Unsent(q) == Open /\ Concerns({q}) /\ accepted[q] = 0

Accept(q) ==
  /\ Unsent(q)
  /\ accepted' = [accepted EXCEPT ![q] = 1] /\ pending' = pending \ {q}
  /\ UNCHANGED <<record, filed>>

GiveUp(q) ==
  /\ Unsent(q) /\ q \notin pending
  /\ pending' = pending \cup {q}
  /\ UNCHANGED <<record, accepted, filed>>

File ==
  /\ Concerns(Drafts) /\ filed' = TRUE
  /\ UNCHANGED <<record, accepted, pending>>

Succeed ==
  /\ Open /\ Says("succeeded")
  /\ IF Concerns(Drafts) THEN filed ELSE accepted[record.request] = 1
  /\ UNCHANGED <<accepted, pending, filed>>

Retract ==
  /\ Open /\ Concerns(Sends) /\ accepted[record.request] = 0 /\ record.request \notin pending
  /\ Says("not_delivered")
  /\ UNCHANGED <<accepted, pending, filed>>

Doubt ==
  /\ record.status = "submitting" /\ Says("unknown")
  /\ UNCHANGED <<accepted, pending, filed>>

Next ==
  \/ \E q \in Sends \cup Drafts : Claim(q)
  \/ \E q \in Sends : Accept(q) \/ GiveUp(q)
  \/ File \/ Succeed \/ Retract \/ Doubt

Spec == Init /\ [][Next]_<<record, accepted, pending, filed>>
===============================================================================
