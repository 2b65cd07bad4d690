---------------------------- MODULE DispatchLife ---------------------------
(***************************************************************************)
(* What a connection may rely on about the Dispatch of one of its          *)
(* channels, whichever Dispatcher is configured: a channel is handled only *)
(* if it could be accepted while the connection was open, and when         *)
(* Dispatch is over the connection is closed and stays closed.             *)
(* Dispatcher.tla (both implementations) and Server.tla (what the server   *)
(* assumes of them) are shown to implement it.                             *)
(***************************************************************************)

VARIABLES
    phase,      \* of the Dispatch goroutine
    open        \* the server's end of the connection is open

vars == <<phase, open>>

Init == phase \in {"idle", "begun"} /\ open \in BOOLEAN

Begin == phase = "idle" /\ phase' = "begun" /\ UNCHANGED open

Refuse == phase = "begun" /\ phase' = "returning" /\ UNCHANGED open

Accept == phase = "begun" /\ open /\ phase' = "handling" /\ UNCHANGED open

Return == phase = "handling" /\ phase' = "returning" /\ UNCHANGED open

Close == phase = "returning" /\ phase' = "over" /\ open' = FALSE

\* Others close the connection whenever they like; none opens it again once it
\* has channels.
Elsewhere == UNCHANGED phase /\ (open' => open \/ phase = "idle")

Next == Begin \/ Refuse \/ Accept \/ Return \/ Close \/ Elsewhere

Spec == Init /\ [][Next]_vars

=============================================================================
