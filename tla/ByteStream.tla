----------------------------- MODULE ByteStream -----------------------------
(***************************************************************************)
(* What a channel promises for its data ("an ordered, reliable, flow-      *)
(* controlled, duplex stream", crypto/ssh/channel.go:41): on each of its   *)
(* streams bytes come out as they went in, and the bytes that went in and  *)
(* did not come out, of all streams together, never exceed a capacity.     *)
(* Bytes are their positions.  Channel.tla is shown to implement it.       *)
(***************************************************************************)
EXTENDS Integers

CONSTANT Capacity

VARIABLES
    put,    \* bytes that went into each stream
    got     \* bytes that came out of it

vars == <<put, got>>

Streams == {"data", "stderr", "other"}
Total(f) == f["data"] + f["stderr"] + f["other"]

Init ==
    /\ put = [s \in Streams |-> 0]
    /\ got = [s \in Streams |-> 0]

\* The next n bytes go in, if there is room.
Put(s, n) ==
    /\ Total(put) - Total(got) + n <= Capacity
    /\ put' = [put EXCEPT ![s] = @ + n]
    /\ UNCHANGED got

\* The next n bytes come out, of those that went in.
Get(s, n) ==
    /\ got[s] + n <= put[s]
    /\ got' = [got EXCEPT ![s] = @ + n]
    /\ UNCHANGED put

Next == \E s \in Streams, n \in 1..Capacity : Put(s, n) \/ Get(s, n)

Spec == Init /\ [][Next]_vars

=============================================================================
