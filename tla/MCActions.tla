------------------------------ MODULE MCActions ------------------------------
(***************************************************************************)
(* Small instances of MailboxActions for TLC: two actions race for one     *)
(* mail, one action takes a batch of two from one folder or from two, and  *)
(* an action meets the body run over one mail or two.                      *)
(***************************************************************************)
EXTENDS MailboxActions

VARIABLE scene
vars == <<scene, actionVars>>

Two == {Drafts, Trash}
Scenes ==
  {[kinds |-> {"flag", "move", "expunge", "update"}, calls |-> {1, 2}, homes |-> <<Drafts>>, to |-> Two, changes |-> 1, bodies |-> FALSE],
   [kinds |-> {"move", "thread", "trash", "expunge"}, calls |-> {1}, homes |-> <<Drafts, Drafts>>, to |-> Two, changes |-> 1, bodies |-> FALSE],
   [kinds |-> {"move", "thread", "flags"}, calls |-> {1}, homes |-> <<Drafts, Trash>>, to |-> Folders \ Two, changes |-> 1, bodies |-> FALSE],
   [kinds |-> {"move", "update"}, calls |-> {1}, homes |-> <<Drafts>>, to |-> Two, changes |-> 1, bodies |-> TRUE],
   [kinds |-> {"move", "expunge"}, calls |-> {1}, homes |-> <<Drafts, Drafts>>, to |-> Two, changes |-> 0, bodies |-> TRUE]}

Init ==
  /\ ActionInit /\ scene \in Scenes
  /\ Cardinality(box) = Cardinality(DOMAIN scene.homes) /\ \A e \in box : e.folder = scene.homes[e.uid]
(* What a scene leaves out of the actions, the other client and the runs.  *)
Starts(a) == call[a].pc = "new" /\ call'[a].pc # "new"
Arrives(e) == ~\E d \in box : d.mail = e.mail /\ d.folder = e.folder
InScene ==
  /\ UNCHANGED scene
  /\ \A a \in Calls : Starts(a) => /\ call'[a].kind \in scene.kinds
                                   /\ call'[a].kind \in {"move", "thread"} => call'[a].dest \in scene.to
  /\ {e.folder : e \in {d \in box' : Arrives(d)}} \subseteq scene.to
  /\ {a \in Calls : call'[a].pc # "new"} \in {{}, {1}, scene.calls}
  /\ changes' <= scene.changes
  /\ run' = run \/ scene.bodies
Next == ActionNext /\ InScene
(* ActionFairness of what the scene has: nobody waits for a body run where *)
(* none comes.                                                             *)
Fairness ==
  /\ WF_vars((\E a \in Calls : Act(a) \/ Acquire(a) \/ Busy(a)) /\ InScene)
  /\ \A f \in Folders : WF_vars(Sync(f) /\ InScene)
  /\ WF_vars((Bodies \/ commitBodies) /\ InScene)
Spec == Init /\ [][Next]_vars /\ Fairness

(* The mirror heals; bodies where a body run comes.                        *)
MirrorHeals == <>[](Agrees /\ (scene.bodies => Complete))
===============================================================================
