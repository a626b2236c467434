------------------------------- MODULE MCInbox --------------------------------
(***************************************************************************)
(* Kinds of server for a session: bare, CONDSTORE with LIST-STATUS and     *)
(* QRESYNC, NOTIFY on top of either.                                       *)
(***************************************************************************)
EXTENDS InboxFeed

Kind(condstore, qresync, notify, listed) ==
  [condstore |-> condstore, qresync |-> qresync, notify |-> notify, listed |-> listed]
AllServers == {Kind(FALSE, FALSE, FALSE, FALSE), Kind(FALSE, FALSE, FALSE, TRUE), Kind(TRUE, TRUE, TRUE, FALSE)}
===============================================================================
