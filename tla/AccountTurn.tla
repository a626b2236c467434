------------------------------ MODULE AccountTurn ------------------------------
(***************************************************************************)
(* What the account lock gives to passes: turns.  One session at a time    *)
(* has the turn, and it is never handed over but given back and taken      *)
(* again.  A pass works within a turn, the account row names it from its   *)
(* beginning to its end, and the row is touched beside it only while no    *)
(* pass works.                                                             *)
(***************************************************************************)
CONSTANTS Sessions, Runs, NoRun

VARIABLES
  holders,  \* the session that has the turn, if any
  working,  \* the run of the pass at work, if any
  shown     \* the run that the account row names

Init == holders = {} /\ working = {} /\ shown = NoRun

Take(s) ==
  /\ holders = {} /\ holders' = {s}
  /\ UNCHANGED <<working, shown>>

(* The turn ends with its session, and the pass at work with the turn.     *)
Release ==
  /\ holders # {} /\ holders' = {} /\ working' = {}
  /\ UNCHANGED shown

Begin(r) ==
  /\ holders # {} /\ working = {}
  /\ working' = {r} /\ shown' = r
  /\ UNCHANGED holders

End ==
  /\ working # {} /\ working' = {} /\ shown' \in {shown, NoRun}
  /\ UNCHANGED holders

(* A beginning that was given up takes effect while its session lives.     *)
BeginLate(r) ==
  /\ holders # {} /\ working = {} /\ shown' = r
  /\ UNCHANGED <<holders, working>>

Clear ==
  /\ working = {} /\ shown' = NoRun
  /\ UNCHANGED <<holders, working>>

Next ==
  \/ \E s \in Sessions : Take(s)
  \/ \E r \in Runs : Begin(r) \/ BeginLate(r)
  \/ Release \/ End \/ Clear

Spec == Init /\ [][Next]_<<holders, working, shown>>
===============================================================================
