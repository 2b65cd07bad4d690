------------------------------- MODULE MCMux -------------------------------
(* Two channels, one that the client opens and one that the server opens.  *)
EXTENDS Mux

CONSTANTS c1, c2
=============================================================================
