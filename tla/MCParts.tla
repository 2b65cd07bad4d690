------------------------------ MODULE MCParts -------------------------------
(***************************************************************************)
(* Parts that have nothing to do with one another, one in each behaviour:  *)
(* their state spaces side by side, not multiplied.  The variables of the  *)
(* other parts are idle; those of which Parts promises something stay as   *)
(* they are at the start.  Nothing here has to be fair.                    *)
(***************************************************************************)
EXTENDS Parts, RouteTree, PathRules, TLC

CONSTANT MaxLen

VARIABLES
    part,
    \* CleanPath
    p, phase, from, to, buf, trailing, out,
    \* Codec
    sent, packet, received

\* The variables of the parts.
pathVars     == <<p, phase, from, to, buf, trailing, out>>
codecVars    == <<sent, packet, received>>
packetVars   == <<client, w, r, made, line, version, wire, count, got>>
offerVars    == <<foreign, init, algs, failed>>
certVars     == <<cert, signature, revoked, now, verdict>>
lineVars     == <<t, echo, reading, paste, ring, index, pending, entered>>

Idle == 0

-----------------------------------------------------------------------------
(* The parts and their instances.                                          *)

Bytes == {"/", ".", "a", "b"}
Cleaning == INSTANCE CleanPath WITH
    Paths <- BoundedSeq(Bytes, MaxLen), pc <- phase, r <- from, w <- to

\* Paths that share prefixes, parameters, catch-alls and mistakes.
MixedRoutes ==
    {<<"/", "a">>, <<"/", "a", "b">>, <<"/", "a", "/">>, <<"/", "a", "/", "b">>,
     <<"/", ":", "a">>, <<"/", ":", "b", "/", "a">>, <<"/", "a", "/", ":", "b">>,
     <<"/", "a", ":", "b">>, <<"/", ":", "a", "b">>, <<"/", ":", "a", "/", ":", "b">>,
     <<"/", "*", "a">>, <<"/", "a", "/", "*", "b">>, <<"/", "a", "*", "b">>,
     <<"/", "a", "/", ":">>, <<"/", "a", ":", "b", "*", "a">>, <<"/", ":", "a", "/", ":">>,
     <<"*", "a">>, <<"/", "a", "/", "*", "b", "/", "a">>}

\* Paths with more parameters than can be counted.
LongRoutes ==
    {<<"/", ":", "a">>, <<"/", ":", "a", "/", ":", "b">>,
     <<"/", ":", "a", "/", ":", "b", "/", ":", "a">>,
     <<"/", ":", "a", "/", ":", "b", "/", "*", "a">>, <<"/", ":", "a", "/", "b">>}
Long == INSTANCE RouteTree WITH Routes <- LongRoutes

CasedRoutes ==
    {<<"/", "a">>, <<"/", "a", "b">>, <<"/", "a", "/">>, <<"/", "A", "/", "b">>,
     <<"/", ":", "a">>, <<"/", ":", "a", "/", "b">>, <<"/", ":", "a", "/", ":", "b">>,
     <<"/", "a", "/", ":", "b">>, <<"/", "a", ":", "b">>,
     <<"/", "*", "a">>, <<"/", "a", "/", "*", "b">>, <<"/", "A", "/", "*", "a">>,
     <<"/", ":", "a", "/", ":">>, <<"b", "/", ":", "a">>}
Asked ==
    BoundedSeq({"/", "a", "A", "b"}, 2)
        \cup {<<"/">> \o s : s \in BoundedSeq({"/", "a", "A", "b"}, 3) \cup BoundedSeq({"/", "a", "b"}, 4)}
Routing == INSTANCE RouterRules WITH
    Routes <- CasedRoutes, MaxRegistrations <- 3, Queries <- Asked

OneLetter == <<"a">>

Coding == INSTANCE Codec WITH Bits <- 2, Width <- 2, MaxInt <- 70, got <- received

ASSUME OthersAssumption ==
    /\ Cleaning!PathsAssumption
    /\ RoutesAssumption /\ Long!RoutesAssumption /\ Routing!RoutesAssumption
    /\ Coding!CodecAssumption

-----------------------------------------------------------------------------
NoPath ==
    /\ p = Idle /\ phase = Idle /\ from = Idle /\ to = Idle
    /\ buf = Idle /\ trailing = Idle /\ out = Idle
NoDispatch == kind = "simple" /\ ~recovers /\ defects = [ch \in Chans |-> {}]
NoMessage == sent = Idle /\ packet = Idle /\ received = Idle
NoPackets ==
    /\ client = Idle /\ w = Idle /\ r = Idle /\ made = Idle /\ line = Idle /\ count = Idle
    /\ version = None /\ wire = <<>> /\ got = [written |-> 0, payload |-> 0, ok |-> TRUE]
NoOffer ==
    /\ foreign = Idle /\ init = Idle
    /\ algs = [e \in Negotiating!Ends |-> None] /\ failed = [e \in Negotiating!Ends |-> FALSE]
NoCert == cert = Idle /\ signature = Idle /\ revoked = Idle /\ now = Idle /\ verdict = None
NoLine ==
    /\ t = Idle /\ echo = Idle /\ reading = Idle /\ paste = Idle
    /\ ring = Idle /\ index = Idle /\ pending = Idle /\ entered = Idle

\* The active part begins and goes on as it does on its own, the others stay idle.
PartNames == {"clean", "dispatch", "tree", "long", "router", "codec", "packets", "negotiation",
              "certs", "terminal"}
PartsInit ==
    /\ part \in PartNames
    /\ Init /\ (part # "dispatch" => NoDispatch)
    /\ IF part = "clean" THEN Cleaning!Init ELSE NoPath
    /\ CASE part = "tree" -> TreeInit
         [] part = "long" -> Long!TreeInit
         [] part = "router" -> Routing!TreeInit
         [] OTHER -> TreeInit
    /\ IF part = "codec" THEN Coding!Init ELSE NoMessage
    /\ IF part = "packets" THEN Framing!Init ELSE NoPackets
    /\ IF part = "negotiation" THEN Negotiating!Init ELSE NoOffer
    /\ IF part = "certs" THEN Checking!Init ELSE NoCert
    /\ IF part = "terminal" THEN Editing!Init ELSE NoLine

PartsNext ==
    /\ UNCHANGED part
    /\ IF part = "dispatch" THEN Next ELSE UNCHANGED vars
    /\ IF part = "clean" THEN Cleaning!Next ELSE UNCHANGED pathVars
    /\ CASE part = "tree" -> TreeNext
         [] part = "long" -> Long!TreeNext
         [] part = "router" -> Routing!TreeNext
         [] OTHER -> UNCHANGED treeVars
    /\ IF part = "codec" THEN Coding!Next ELSE UNCHANGED codecVars
    /\ IF part = "packets" THEN Framing!Next ELSE UNCHANGED packetVars
    /\ IF part = "negotiation" THEN Negotiating!Next ELSE UNCHANGED offerVars
    /\ IF part = "certs" THEN Checking!Next ELSE UNCHANGED certVars
    /\ IF part = "terminal" THEN Editing!Next ELSE UNCHANGED lineVars

PartsSpec ==
    PartsInit /\ [][PartsNext]_<<part, vars, pathVars, treeVars, codecVars, packetVars,
                               offerVars, certVars, lineVars>>

-----------------------------------------------------------------------------
(* What the modules of the parts promise.                                  *)

\* CleanPath returns what its rules say, and what it returns is clean: cleaning
\* it again changes nothing (path_test.go).
Correct == part = "clean" /\ phase = "done" => out = Clean(p) /\ Clean(out) = out

\* RouterRules: a lookup finds the one route that matches.
Exact == part = "router" => Routing!Exact

\* RouterRules: only a path that differs in letter case, slashes or dots is fixed.
FixedHonestly == part = "router" => Routing!FixedHonestly

\* Codec: what is received is what was sent, or an error.
DecodesExactly == part = "codec" => Coding!DecodesExactly

\* Terminal: the screen shows the line, and the history what was read.
EditorTrue == part = "terminal" => Editing!EditorTrue

=============================================================================
