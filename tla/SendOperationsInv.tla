-------------------------- MODULE SendOperationsInv --------------------------
(***************************************************************************)
(* Why a key submits once: the inductive invariant behind the theorems of  *)
(* SendOperationsProof.                                                    *)
(***************************************************************************)
EXTENDS SendOperationsProps

Claiming == {"lock", "deliver", "reply", "accepted", "file"}
Owing == {"refresh", "find", "mark", "append", "finish", "check"} \cup Claiming

(* A send that holds the claim, or proved that it delivered nothing and    *)
(* has not told the ledger yet.                                            *)
Owns(h) == ~IsDraft(h) /\ (At(h, Claiming) \/ (At(h, {"finish"}) /\ call[h].verdict = "not_delivered"))

(* The ledger's request is fixed by the first claim, and a call past its   *)
(* claim is of that request.                                               *)
Kinded(h) ==
  /\ At(h, Owing) => Same(h)
  /\ At(h, {"find", "mark", "append"}) => IsDraft(h)
  /\ At(h, {"refresh", "get", "lookup", "deliver", "reply", "accepted", "file", "check"}) => ~IsDraft(h)
  /\ At(h, {"lookup", "check"}) => Asks(h) \in Provable
  /\ At(h, {"finish"}) => call[h].verdict # "none" /\ (IsDraft(h) => call[h].verdict = "succeeded")
  /\ call[h].recovered => Asks(h) \in Sends

(* One owner; while it lives the key cannot be claimed, and until the      *)
(* server accepts nothing of it is anywhere else.                          *)
Owned(h) ==
  Owns(h) =>
    /\ row.status # "not_delivered" /\ Asks(h) \notin Earlier
    /\ \A d \in Hosts : Owns(d) => d = h
    /\ late[Asks(h)] = 0
    /\ ~At(h, {"accepted", "file"}) => accepted[Asks(h)] = 0

(* Mail from before the ledger is found before its key can be claimed.     *)
EarlierFound(h) == At(h, {"start"}) /\ Asks(h) \in Earlier => call[h].recovered \/ ~Claimable(h)

(* Evidence of delivery is evidence, and so is a result.                   *)
Delivered(h) == IF IsDraft(h) THEN drafts.filed > 0 ELSE accepted[Asks(h)] > 0
Proven(h) ==
  (\/ call[h].recovered
   \/ At(h, {"accepted", "file"})
   \/ At(h, {"finish"}) /\ call[h].verdict = "succeeded"
   \/ At(h, {"done"}) /\ call[h].outcome = "result") => Delivered(h)

(* The holder of the lock that found no draft still finds none.            *)
DraftAbsent(h) == ~raced /\ At(h, {"mark", "append"}) /\ lock = h => drafts.filed = 0

CallInv(h) == Kinded(h) /\ Owned(h) /\ EarlierFound(h) /\ Proven(h) /\ DraftAbsent(h)

(* What may still be accepted counts as accepted; a filed copy was         *)
(* accepted, and a recorded draft is filed.                                *)
Counted ==
  /\ \A q \in Sends : accepted[q] + late[q] <= 1
  /\ \A q \in Sends \ Earlier : accepted[q] + late[q] > 0 => row.request = q
  /\ \A q \in Earlier : sent[q] = "seen"
  /\ \A q \in Sends : sent[q] # "none" => accepted[q] > 0
  /\ row.status = "succeeded" /\ row.request \in Drafts => drafts.filed > 0

(* A call that gave up its own attempt is of the last attempt there was:   *)
(* nobody owns the key after it, so nobody can make it retryable.          *)
Doubts(h) == At(h, {"finish"}) /\ call[h].verdict = "unknown"
DoubtLasts == \A h \in Hosts : Doubts(h) => row.status # "not_delivered" /\ \A d \in Hosts : ~Owns(d)

(* Drafts are filed under the key of a draft, and none is ever retracted.  *)
DraftsOfKey ==
  /\ drafts.filed + drafts.late > 0 => row.request \in Drafts
  /\ row.request \in Drafts => row.status # "not_delivered"

SendInv ==
  /\ TypeOK /\ \A h \in Hosts : CallInv(h)
  /\ Counted /\ TruthfulLedger /\ DraftFiledOnce
===============================================================================
