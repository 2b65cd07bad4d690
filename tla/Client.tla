------------------------------- MODULE Client -------------------------------
(***************************************************************************)
(* The client's side above the multiplexer, of which each part is a user   *)
(* of its own: the agent, forwarded ports, and sessions.                   *)
(***************************************************************************)
EXTENDS Agent

\* The constants of Forwards and Session, which share None with Agent.
CONSTANTS Listeners, Addrs, Addr, Channels, Bad, Buffer,
          Writes, Reads, Statuses, Signals, Number

VARIABLES
    \* Forwards
    up, bound, target, answer, incoming, opening, handler, sending, entries, queue,
    closed, swept, owner, accepting,
    \* Session
    piped, input, endless, remote, open, broken, reqs, ended, seen, exitStatus,
    written, copied, copying, errors, faults, fed, moved, pipe, caller, waitErr, copyErr, collected

Listening == INSTANCE Forwards
Sessions == INSTANCE Session

ASSUME ClientAssumption == Listening!ForwardsAssumption /\ Sessions!SessionAssumption

\* Forwards: the list is exact, and so is who is given a channel.
ListExact == Listening!ListExact

\* Session: Wait returns after all output, and tells success from failure.
WaitTrue == Sessions!WaitTrue

=============================================================================
