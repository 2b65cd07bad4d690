------------------------------ MODULE MCClient ------------------------------
(***************************************************************************)
(* The client's side above the multiplexer: an agent, forwarded ports, or  *)
(* a session, one of them in each behaviour.  The others stay in one of    *)
(* their initial states.                                                   *)
(***************************************************************************)
EXTENDS Client, TLC

CONSTANTS n1, p1, p2, a1, l1, l2, c1, c2, c3

\* Two callers that share a connection.
Share == (p1 :> n1) @@ (p2 :> n1)

\* Two listeners that want the same address.
Wanted == (l1 :> a1) @@ (l2 :> a1)

Numbers == "KILL" :> 9

VARIABLE part   \* "agent", "forwards" or "session"

listVars    == <<up, bound, target, answer, incoming, opening, handler, sending, entries, queue,
                 closed, swept, owner, accepting>>
sessionVars == <<piped, input, endless, remote, open, broken, reqs, ended, seen, exitStatus,
                 written, copied, copying, errors, faults, fed, moved, pipe, caller, waitErr, copyErr,
                 collected>>
allVars     == <<part, vars, listVars, sessionVars>>

-----------------------------------------------------------------------------
ClientInit ==
    /\ part \in {"agent", "forwards", "session"}
    /\ Init /\ (part # "agent" => keys = <<>> /\ link[n1] = "open")
    /\ Listening!Init
    /\ Sessions!Init /\ (part # "session" => piped = {} /\ input = "nil")

ClientNext ==
    \/ part = "agent" /\ Next /\ UNCHANGED <<part, listVars, sessionVars>>
    \/ part = "forwards" /\ Listening!Next /\ UNCHANGED <<part, vars, sessionVars>>
    \/ part = "session" /\ Sessions!Next /\ UNCHANGED <<part, vars, listVars>>

\* A part that is not there has nothing to do, and is fair by itself.
ClientSpec ==
    /\ ClientInit /\ [][ClientNext]_allVars
    /\ Fairness /\ Listening!Fairness /\ Sessions!Fairness

-----------------------------------------------------------------------------
\* Forwards: a channel is answered, and an Accept returns once the connection is
\* lost; other channels and listeners differ from these in nothing but their names.
EveryoneServed == Listening!OpenAnswered(c1) /\ Listening!AcceptEnds(l1)

\* Session, and Agent for one caller like the other: a call returns.
CallsReturn ==
    /\ Sessions!WaitReturns
    /\ CallReturns(p1)

=============================================================================
