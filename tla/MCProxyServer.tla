---------------------------- MODULE MCProxyServer ----------------------------
(* ProxyServer with named connections, for TLC. *)
EXTENDS ProxyServer

CONSTANTS c1, c2, c3
=============================================================================
