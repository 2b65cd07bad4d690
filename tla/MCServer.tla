----------------------------- MODULE MCServer ------------------------------
(***************************************************************************)
(* Small instances of Server for TLC.                                      *)
(***************************************************************************)
EXTENDS Server, TLC

CONSTANTS c1, c2, h1, h2, h3

\* One channel on one connection (of two, in the runs).
One == h1 :> c1

\* Two channels on one connection, and three.
TwoOnOne == [h \in {h1, h2} |-> c1]
ThreeOnOne == [h \in {h1, h2, h3} |-> c1]

\* Requests on a channel, which whoever has accepted it reads.
Requests == {<<"requests", h1>>}

\* Replies to requests that nobody sent, of which a connection holds one.
Replies == {<<"globalResponses", c2>>}

\* Channels of one connection for which nothing is sent are interchangeable.
Alike == Permutations({h1, h2, h3})

=============================================================================
