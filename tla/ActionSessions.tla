---------------------------- MODULE ActionSessions ----------------------------
(***************************************************************************)
(* The IMAP sessions of direct actions: an action takes a session that its *)
(* account's last action parked, or logs in; a multi-step action asks for  *)
(* it again at every step; at the end the session is parked, logged out or *)
(* closed.  A caller may abort at any time, connections drop, a server     *)
(* stops answering, the account's credentials change.  The store belongs   *)
(* to the host (ActionSessionStore).                                       *)
(***************************************************************************)
EXTENDS Naturals

CONSTANTS
  Actions, Sessions,
  Steps,           \* commands of an action
  MaxCredential,
  NoSession

ASSUME SessionAssumption == Steps \in Nat /\ MaxCredential \in Nat \ {0} /\ NoSession \notin Sessions

VARIABLES
  socket,      \* unborn, connecting, open or closed
  key,         \* of a session: the credentials it was opened with
  store,       \* parked sessions
  act,         \* the locals of each action
  aborted,     \* actions whose signal is aborted
  credential   \* of the account row

sessionVars == <<socket, key, store, act, aborted, credential>>

SessionsInit ==
  /\ socket = [s \in Sessions |-> "unborn"] /\ key = [s \in Sessions |-> 0] /\ store = {}
  /\ act = [a \in Actions |-> [pc |-> "new", key |-> 0, s |-> NoSession, left |-> Steps]]
  /\ aborted = {} /\ credential = 1

InStage(a, stages) == act[a].pc \in stages
Goes(a, stage) == act' = [act EXCEPT ![a].pc = stage]
Drops(a, stage) == act' = [act EXCEPT ![a].pc = stage, ![a].s = NoSession]
Closed(s) == socket' = [socket EXCEPT ![s] = IF @ = "unborn" THEN @ ELSE "closed"]
Holders(s) == {a \in Actions : act[a].s = s}
Usable(a) == act[a].s # NoSession /\ socket[act[a].s] = "open"

(* The account is loaded: actionSessionKey.                                *)
actionSessionKey(a) ==
  /\ InStage(a, {"new"}) /\ act' = [act EXCEPT ![a].pc = "get", ![a].key = credential]
  /\ UNCHANGED <<socket, key, store, aborted, credential>>

(* connectAbortableImap: the store gives a session away.                   *)
Taken_Kept(s) == store
Taken(s) == store \ {s}
Take(a) ==
  /\ InStage(a, {"get"})
  /\ LET mine == {s \in store : key[s] = act[a].key} IN
     \/ mine = {} /\ Goes(a, "login") /\ UNCHANGED <<socket, store>>
     \/ \E s \in mine :
          /\ store' = Taken(s)
          /\ IF a \in aborted THEN Closed(s) /\ Goes(a, "login")
             ELSE act' = [act EXCEPT ![a].pc = "noop", ![a].s = s] /\ UNCHANGED socket
  /\ UNCHANGED <<key, aborted, credential>>
(* answersNoop: no answer closes it after a while.                         *)
Answers(a) ==
  /\ InStage(a, {"noop"}) /\ Usable(a) /\ Goes(a, "handed")
  /\ UNCHANGED <<socket, key, store, aborted, credential>>
Stalls_Never(a) == FALSE /\ UNCHANGED sessionVars
Stalls(a) ==
  /\ InStage(a, {"noop"}) /\ Closed(act[a].s) /\ Drops(a, "login")
  /\ UNCHANGED <<key, store, aborted, credential>>

(* connectImap                                                             *)
Login(a) ==
  /\ InStage(a, {"login"})
  /\ IF a \in aborted THEN Drops(a, "ended") /\ UNCHANGED <<socket, key>>
     ELSE \E s \in {t \in Sessions : socket[t] \in {"unborn", "closed"} /\ t \notin store /\ Holders(t) = {}} :
            /\ socket' = [socket EXCEPT ![s] = "connecting"] /\ key' = [key EXCEPT ![s] = act[a].key]
            /\ act' = [act EXCEPT ![a].pc = "connect", ![a].s = s]
  /\ UNCHANGED <<store, aborted, credential>>
Connected(a) ==
  /\ InStage(a, {"connect"}) /\ a \notin aborted
  /\ socket' = [socket EXCEPT ![act[a].s] = "open"] /\ Goes(a, "handed")
  /\ UNCHANGED <<key, store, aborted, credential>>
ConnectFails(a) ==
  /\ InStage(a, {"connect"}) /\ Closed(act[a].s) /\ Drops(a, "ended")
  /\ UNCHANGED <<key, store, aborted, credential>>
(* ImapAbortBinding: only an abort from now on closes the socket.          *)
Bind(a) ==
  /\ InStage(a, {"handed"}) /\ Goes(a, "using")
  /\ UNCHANGED <<socket, key, store, aborted, credential>>

(* A step: ActionConnection.get gives the same socket unless it is dead.   *)
GetAgain(a) ==
  /\ InStage(a, {"idle"}) /\ act[a].left > 0
  /\ IF Usable(a) THEN Goes(a, "using") ELSE Drops(a, "get")
  /\ UNCHANGED <<socket, key, store, aborted, credential>>
(* ImapAbortBinding.run refuses to start a command after an abort.         *)
Step(a) ==
  /\ InStage(a, {"using"})
  /\ act' = IF a \in aborted THEN [act EXCEPT ![a].pc = "close"]
            ELSE [act EXCEPT ![a].pc = "command", ![a].left = @ - 1]
  /\ UNCHANGED <<socket, key, store, aborted, credential>>
(* Commands end: the answer, or the socket's timeout.                      *)
CommandEnds(a) ==
  /\ InStage(a, {"command"})
  /\ \/ Usable(a) /\ Goes(a, "idle") /\ UNCHANGED socket
     \/ Closed(act[a].s) /\ Goes(a, "close")
  /\ UNCHANGED <<key, store, aborted, credential>>
(* logout of the binding, and closeImap when LOGOUT fails.                 *)
Parkable(a) == Usable(a) /\ a \notin aborted
EndUse(a) ==
  /\ InStage(a, {"close"}) \/ (InStage(a, {"idle"}) /\ act[a].left = 0)
  /\ CASE Parkable(a) -> Drops(a, "ended") /\ store' = store \cup {act[a].s} /\ UNCHANGED socket
       [] a \in aborted -> Closed(act[a].s) /\ Drops(a, "ended") /\ UNCHANGED store
       [] OTHER -> Goes(a, "logout") /\ UNCHANGED <<socket, store>>
  /\ UNCHANGED <<key, aborted, credential>>
Logout(a) ==
  /\ InStage(a, {"logout"}) /\ Closed(act[a].s) /\ Drops(a, "ended")
  /\ UNCHANGED <<key, store, aborted, credential>>

(* The signal: its listener closes a socket that is checked, connected or  *)
(* bound; between the two nobody listens.                                  *)
Abort(a) ==
  /\ a \notin aborted /\ ~InStage(a, {"ended"}) /\ aborted' = aborted \cup {a}
  /\ IF InStage(a, {"noop", "connect", "using", "command", "idle", "close", "logout"}) THEN Closed(act[a].s) ELSE UNCHANGED socket
  /\ UNCHANGED <<key, store, act, credential>>
(* The network or the server ends a session; the host lets a parked one    *)
(* expire; a User enters a new password.                                   *)
Lost(s) == socket[s] = "open" /\ Closed(s) /\ UNCHANGED <<key, store, act, aborted, credential>>
Expire(s) == s \in store /\ store' = store \ {s} /\ Closed(s) /\ UNCHANGED <<key, act, aborted, credential>>
Recredential ==
  /\ credential < MaxCredential /\ credential' = credential + 1
  /\ UNCHANGED <<socket, key, store, act, aborted>>

Proceeds(a) ==
  actionSessionKey(a) \/ Take(a) \/ Stalls(a) \/ Login(a) \/ ConnectFails(a) \/ Bind(a) \/ GetAgain(a)
  \/ Step(a)  \/ CommandEnds(a) \/ EndUse(a) \/ Logout(a)
SessionsNext ==
  \/ \E a \in Actions : Proceeds(a) \/ Answers(a) \/ Connected(a) \/ Abort(a)
  \/ \E s \in Sessions : Lost(s) \/ Expire(s)
  \/ Recredential
(* The event loop runs on; the timers of CONNECT_TIMEOUT_MS,               *)
(* SESSION_REUSE_CHECK_MS and IMAP_COMMAND_TIMEOUT_MS end every wait.      *)
SessionsFairness == \A a \in Actions : WF_sessionVars(Proceeds(a))

-------------------------------------------------------------------------------
(* Properties.                                                             *)

(* Every socket that is up has exactly one owner: the store, and then no   *)
(* command runs on it, or one unfinished action, whose account row had the *)
(* credentials it was opened with; nothing stays open that nobody closes   *)
(* (connectAbortableImap, ImapAbortBinding, closeImap).                    *)
OneOwner ==
  \A s \in Sessions :
    /\ socket[s] \in {"connecting", "open"} => s \in store \/ Holders(s) # {}
    /\ s \in store => Holders(s) = {}
    /\ \A a, b \in Holders(s) : a = b /\ key[s] = act[a].key
(* An action ends whatever the server and the caller do, and an aborted    *)
(* one leaves nothing behind for another to take.                          *)
LetsGo == \A a \in Actions : <>(InStage(a, {"ended"}) /\ act[a].s = NoSession)
===============================================================================
