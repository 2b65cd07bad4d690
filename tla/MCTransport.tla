---------------------------- MODULE MCTransport ----------------------------
(***************************************************************************)
(* Key exchange and user authentication, one or the other in a behaviour:  *)
(* the login runs between two changes of keys and knows nothing of them.   *)
(* The part that does not run stays in one of its initial states.          *)
(***************************************************************************)
EXTENDS Login, Handshake

VARIABLE part   \* "handshake" or "login"

ASSUME TransportAssumption == HandshakeAssumption

allVars == <<part, vars, loginVars>>

-----------------------------------------------------------------------------
TransportInit ==
    /\ part \in {"handshake", "login"}
    /\ honest \in (IF part = "login" THEN BOOLEAN ELSE {FALSE})
    /\ LoginInit
    /\ part # "login" => ~noAuth /\ has = {} /\ signers = {}
    /\ Init

TransportNext ==
    \/ part = "handshake" /\ Next /\ UNCHANGED <<part, loginVars>>
    \/ part = "login" /\ LoginNext /\ UNCHANGED <<part, vars>>

\* A login that is not there has nothing to do, and is fair by itself; a handshake
\* would have.
TransportSpec ==
    /\ TransportInit /\ [][TransportNext]_allVars
    /\ LoginFairness
    /\ \A e \in Ends :
         /\ WF_vars(part = "handshake" /\ ReadLoop(e))
         /\ WF_vars(part = "handshake" /\ Mux(e))
    /\ \A e \in Ends, p \in Procs :
         WF_vars(part = "handshake" /\ WritePacket(e, p))
=============================================================================
