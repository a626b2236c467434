------------------------------ MODULE ThreadView ------------------------------
(***************************************************************************)
(* What the threading of a mailbox promises its readers: after every       *)
(* change of the mail the conversations are owed, and then they are those  *)
(* that one computation over the whole mailbox yields, whatever was        *)
(* computed before and in whatever order the mail came.                    *)
(***************************************************************************)
CONSTANTS
  Owed,         \* the view while a change waits for its recomputation
  Threads(_, _) \* the conversations of a mailbox, by an algorithm version
VARIABLES version, mail, view

Init == view = Threads(version, mail)
Change ==
  /\ mail' # mail /\ UNCHANGED version
  /\ view' = Owed \/ view' = Threads(version, mail')
Settle ==
  /\ view = Owed /\ view' # Owed /\ view' = Threads(version, mail)
  /\ UNCHANGED <<version, mail>>
Spec == Init /\ [][Change \/ Settle]_<<version, mail, view>>
===============================================================================
