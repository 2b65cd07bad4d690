------------------------------ MODULE MCAgent ------------------------------
(* Instances of Agent.                                                     *)
EXTENDS Agent, TLC
CONSTANTS n1, p1, p2

Share == (p1 :> n1) @@ (p2 :> n1)
=============================================================================
