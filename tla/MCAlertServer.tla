--------------------------- MODULE MCAlertServer ----------------------------
(***************************************************************************)
(* Small instances of AlertServer.  Code 1 stands for the alerts nobody    *)
(* clears, raised again and again with a ttl (the hardware warnings) or    *)
(* without (a heartbeat timeout, WARN or FATAL); code 2 for one that is    *)
(* cleared by request.                                                     *)
(***************************************************************************)
EXTENDS AlertServer

MCRaisable ==
  {[code |-> 1, body |-> "a", ttl |-> 1], [code |-> 1, body |-> "b", ttl |-> Forever],
   [code |-> 2, body |-> "a", ttl |-> 0]}
=============================================================================
