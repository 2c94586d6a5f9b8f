------------------------------ MODULE MCDaemon ------------------------------
(***************************************************************************)
(* Instances of Daemon: an AlertManager webhook with two alerts beside a   *)
(* generic one.                                                            *)
(***************************************************************************)
EXTENDS Daemon

TwoPosts == <<<<1, 2>>, <<3>>>>
NoPosts  == <<>>
=============================================================================
