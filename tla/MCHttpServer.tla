---------------------------- MODULE MCHttpServer ----------------------------
(* A request that streams and one that does not: the two kinds of handler,  *)
(* and two leases for the drain to count.                                   *)
EXTENDS HttpServer

CONSTANTS r1, r2
MCRequests == {r1, r2}
MCStreams == {r1}
=============================================================================
