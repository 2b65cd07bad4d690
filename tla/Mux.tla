-------------------------------- MODULE Mux --------------------------------
(***************************************************************************)
(* The channels of an SSH connection at both of its ends (crypto/ssh:      *)
(* mux.go, the control messages of channel.go): the list that numbers      *)
(* them, OpenChannel, Accept and Reject, Close, requests and their         *)
(* replies, of a channel and of the connection, and the end of mux.loop.   *)
(*                                                                         *)
(* A channel keeps its identity through all of this, so that what a packet *)
(* reaches by its number can be compared with what it was sent for.  Data  *)
(* are the business of Channel, keys of Handshake, and a mux that blocks   *)
(* because nobody serves its queues of Server: here they are served.       *)
(***************************************************************************)
EXTENDS Integers, Sequences, FiniteSets

CONSTANTS
    Channels,   \* the channels that may be opened
    Opened,     \* those that the client opens; the server opens the others
    Global,     \* stands for the connection, where requests are made
    None,       \* an empty place in a list
    Requesters, \* ends that make requests
    Requests    \* requests made on all of them (a bound)

ASSUME MuxAssumption ==
    /\ Opened \subseteq Channels
    /\ Global \notin Channels
    /\ None \notin Channels
    /\ Requesters \subseteq {"client", "server"}
    /\ Requests \in Nat

Ends == {"client", "server"}
Other(e) == IF e = "client" THEN "server" ELSE "client"
Opener(c) == IF c \in Opened THEN "client" ELSE "server"
Targets == Channels \cup {Global}

VARIABLES
    chans,      \* chanList.chans of each end
    state,      \* each channel at each end
    local,      \* localId
    remote,     \* remoteId
    decided,    \* decided
    sentClose,  \* sentClose
    closed,     \* channels whose msg and incomingRequests are closed
    asked,      \* the number of the request SendRequest waits for, or 0
    msg,        \* responses that wait to be received: ch.msg, globalResponses
    requests,   \* incomingRequests
    made,       \* requests made
    wire,       \* packets on their way from each end
    loop,       \* mux.loop of each end
    up          \* ends whose connection is not closed

channel == <<chans, state, local, remote, decided, sentClose, closed>>
request == <<asked, msg, requests, made>>
conn    == <<wire, loop, up>>
vars    == <<channel, request, conn>>

\* A packet: its kind, the number it carries, and what it was sent for.
Packet(t, id, c, n) == [t |-> t, id |-> id, c |-> c, n |-> n]

At(x) == [e \in Ends |-> [c \in Channels |-> x]]
OnAll(x) == [e \in Ends |-> [c \in Targets |-> x]]

Init ==
    /\ chans = [e \in Ends |-> <<>>]
    /\ state = At("none")
    /\ local = At(0) /\ remote = At(0)
    /\ decided = At(FALSE) /\ sentClose = At(FALSE)
    /\ closed = {}
    /\ asked = OnAll(0) /\ msg = OnAll(<<>>) /\ requests = OnAll(<<>>)
    /\ made = 0
    /\ wire = [e \in Ends |-> <<>>]
    /\ loop = [e \in Ends |-> "run"]
    /\ up = Ends

-----------------------------------------------------------------------------
\* chanList: the lowest free number, what a number stands for, and its release.
Free(e) ==
    LET n == Len(chans[e])
    IN  CHOOSE i \in 1..(n + 1) :
            /\ i = n + 1 \/ chans[e][i] = None
            /\ \A j \in 1..(i - 1) : chans[e][j] # None
Added(e, c) ==
    chans' = [chans EXCEPT ![e] = [i \in 1..(IF Free(e) > Len(@) THEN Free(e) ELSE Len(@)) |->
                                       IF i = Free(e) THEN c ELSE @[i]]]
GetChan(e, id) == IF id \in 1..Len(chans[e]) THEN chans[e][id] ELSE None
Removed(e, id) == chans' = [chans EXCEPT ![e] = [@ EXCEPT ![id] = None]]

\* channel.sendMessage gets through to the connection, and the connection takes it;
\* what nobody will read is not kept.
MaySend(e, c) == c # Global => ~sentClose[e][c]
Sends(e, p) == wire' = [wire EXCEPT ![e] = IF up = Ends THEN Append(@, p) ELSE @]

-----------------------------------------------------------------------------
\* openChannel: the channel is listed, then the open is sent, then it waits.
Open(e, c) ==
    /\ Opener(c) = e
    /\ state[e][c] = "none"
    /\ Added(e, c)
    /\ local' = [local EXCEPT ![e][c] = Free(e)]
    /\ state' = [state EXCEPT ![e][c] = "sending"]
    /\ UNCHANGED <<remote, decided, sentClose, closed, request, conn>>

\* Without a connection it fails, and leaves the channel in the list.
SendOpen(e, c) ==
    /\ state[e][c] = "sending"
    /\ state' = [state EXCEPT ![e][c] = IF e \in up THEN "opening" ELSE "failed"]
    /\ Sends(e, Packet("open", local[e][c], c, 0))
    /\ UNCHANGED <<chans, local, remote, decided, sentClose, closed, request, loop, up>>

\* The mux has ended: it finds its msg closed.
OpenFails(e, c) ==
    /\ state[e][c] = "opening" /\ <<e, c>> \in closed
    /\ state' = [state EXCEPT ![e][c] = "failed"]
    /\ UNCHANGED <<chans, local, remote, decided, sentClose, closed, request, conn>>

\* Accept, unless the mux has ended.
Accept(e, c) ==
    /\ state[e][c] = "offered"
    /\ decided' = [decided EXCEPT ![e][c] = TRUE]
    /\ IF MaySend(e, c) /\ e \in up
       THEN /\ state' = [state EXCEPT ![e][c] = "open"]
            /\ Sends(e, Packet("confirm", remote[e][c], c, local[e][c]))
       ELSE state' = [state EXCEPT ![e][c] = "failed"] /\ UNCHANGED wire
    /\ UNCHANGED <<chans, local, remote, sentClose, closed, request, loop, up>>

\* Reject: the channel stays in the list.
Reject(e, c) ==
    /\ state[e][c] = "offered"
    /\ decided' = [decided EXCEPT ![e][c] = TRUE]
    /\ state' = [state EXCEPT ![e][c] = "rejected"]
    /\ IF MaySend(e, c)
       THEN Sends(e, Packet("failure", remote[e][c], c, 0)) ELSE UNCHANGED wire
    /\ UNCHANGED <<chans, local, remote, sentClose, closed, request, loop, up>>

\* Close, of which only the first is sent.
Close(e, c) ==
    /\ state[e][c] = "open"
    /\ MaySend(e, c)
    /\ sentClose' = [sentClose EXCEPT ![e][c] = TRUE]
    /\ Sends(e, Packet("close", remote[e][c], c, 0))
    /\ UNCHANGED <<chans, state, local, remote, decided, closed, request, loop, up>>

-----------------------------------------------------------------------------
\* Mutant: requests that want a reply are not kept apart.
SendRequestUnlocked(e, c, wantReply) ==
    /\ e \in Requesters
    /\ c # Global => state[e][c] = "open"
    /\ MaySend(e, c) /\ e \in up
    /\ made < Requests
    /\ made' = made + 1
    /\ asked' = [asked EXCEPT ![e][c] = IF wantReply THEN made + 1 ELSE @]
    /\ Sends(e, Packet(IF wantReply THEN "ask" ELSE "tell",
                       IF c = Global THEN 0 ELSE remote[e][c], c, made + 1))
    /\ UNCHANGED <<channel, msg, requests, loop, up>>

\* SendRequest, of a channel or of the connection; one that wants a reply waits
\* for it and keeps out others that do.
SendRequest(e, c, wantReply) ==
    /\ e \in Requesters
    /\ c # Global => state[e][c] = "open"
    /\ wantReply => asked[e][c] = 0
    /\ MaySend(e, c) /\ e \in up
    /\ made < Requests
    /\ made' = made + 1
    /\ asked' = [asked EXCEPT ![e][c] = IF wantReply THEN made + 1 ELSE @]
    /\ Sends(e, Packet(IF wantReply THEN "ask" ELSE "tell",
                       IF c = Global THEN 0 ELSE remote[e][c], c, made + 1))
    /\ UNCHANGED <<channel, msg, requests, loop, up>>

\* It returns with the response, or without when none can come.
Returns(e, c) ==
    /\ asked[e][c] # 0
    /\ msg[e][c] # <<>> \/ <<e, c>> \in closed
    /\ asked' = [asked EXCEPT ![e][c] = 0]
    /\ msg' = [msg EXCEPT ![e][c] = IF @ = <<>> THEN @ ELSE Tail(@)]
    /\ UNCHANGED <<requests, made, channel, conn>>

\* The other end takes the request and replies to it, if it has to.
Reply(e, c) ==
    /\ requests[e][c] # <<>>
    /\ LET p == Head(requests[e][c])
       IN  IF p.t = "ask" /\ MaySend(e, c)
           THEN Sends(e, Packet("reply", IF c = Global THEN 0 ELSE remote[e][c], c, p.n))
           ELSE UNCHANGED wire
    /\ requests' = [requests EXCEPT ![e][c] = Tail(@)]
    /\ UNCHANGED <<asked, msg, made, channel, loop, up>>

-----------------------------------------------------------------------------
\* The packet mux.onePacket takes next, and what it is taken for.
Takes(e) == loop[e] = "run" /\ e \in up /\ wire[Other(e)] # <<>>
Coming(e) == Head(wire[Other(e)])
Of(e) == IF Coming(e).id = 0 THEN Global ELSE GetChan(e, Coming(e).id)
Taken(e) == wire' = [wire EXCEPT ![Other(e)] = Tail(@)]

\* handleChannelOpen: the channel is offered to the application.
HandleOpen(e) ==
    /\ Takes(e) /\ Coming(e).t = "open"
    /\ LET c == Coming(e).c
       IN  /\ Added(e, c)
           /\ local' = [local EXCEPT ![e][c] = Free(e)]
           /\ remote' = [remote EXCEPT ![e][c] = Coming(e).id]
           /\ state' = [state EXCEPT ![e][c] = "offered"]
    /\ Taken(e)
    /\ UNCHANGED <<decided, sentClose, closed, request, loop, up>>

\* A response to an open is one packet for a channel that waits for it; openChannel
\* returns with it.
Responds(e, c) == Opener(c) = e /\ ~decided[e][c]

\* Mutant: the number in the packet is taken for the one of the other end.
HandleConfirmOwn(e) ==
    /\ Takes(e) /\ Coming(e).t = "confirm"
    /\ LET c == Of(e)
       IN  /\ c # None /\ Responds(e, c)
           /\ decided' = [decided EXCEPT ![e][c] = TRUE]
           /\ remote' = [remote EXCEPT ![e][c] = Coming(e).id]
           /\ state' = [state EXCEPT ![e][c] = "open"]
    /\ Taken(e)
    /\ UNCHANGED <<chans, local, sentClose, closed, request, loop, up>>

HandleConfirm(e) ==
    /\ Takes(e) /\ Coming(e).t = "confirm"
    /\ LET c == Of(e)
       IN  /\ c # None /\ Responds(e, c)
           /\ decided' = [decided EXCEPT ![e][c] = TRUE]
           /\ remote' = [remote EXCEPT ![e][c] = Coming(e).n]
           /\ state' = [state EXCEPT ![e][c] = "open"]
    /\ Taken(e)
    /\ UNCHANGED <<chans, local, sentClose, closed, request, loop, up>>

HandleFailure(e) ==
    /\ Takes(e) /\ Coming(e).t = "failure"
    /\ LET c == Of(e)
       IN  /\ c # None /\ Responds(e, c)
           /\ decided' = [decided EXCEPT ![e][c] = TRUE]
           /\ state' = [state EXCEPT ![e][c] = "failed"]
    /\ Removed(e, Coming(e).id)
    /\ Taken(e)
    /\ UNCHANGED <<local, remote, sentClose, closed, request, loop, up>>

\* A close is answered with a close, unless one has been sent, and the number of
\* the channel is free again.
HandleClose(e) ==
    /\ Takes(e) /\ Coming(e).t = "close"
    /\ LET c == Of(e)
       IN  /\ c # None
           /\ sentClose' = [sentClose EXCEPT ![e][c] = TRUE]
           /\ closed' = closed \cup {<<e, c>>}
           /\ wire' = [wire EXCEPT ![Other(e)] = Tail(@),
                                  ![e] = IF sentClose[e][c] \/ up # Ends THEN @
                                         ELSE Append(@, Packet("close", remote[e][c], c, 0))]
    /\ Removed(e, Coming(e).id)
    /\ UNCHANGED <<state, local, remote, decided, request, loop, up>>

\* A request, of the connection or of a channel, goes to the application ...
HandleRequest(e) ==
    /\ Takes(e) /\ Coming(e).t \in {"ask", "tell"}
    /\ Of(e) # None
    /\ requests' = [requests EXCEPT ![e][Of(e)] = Append(@, Coming(e))]
    /\ Taken(e)
    /\ UNCHANGED <<asked, msg, made, channel, loop, up>>

\* ... and a reply to whoever waits in SendRequest.
HandleReply(e) ==
    /\ Takes(e) /\ Coming(e).t = "reply"
    /\ Of(e) # None
    /\ msg' = [msg EXCEPT ![e][Of(e)] = Append(@, Coming(e).n)]
    /\ Taken(e)
    /\ UNCHANGED <<asked, requests, made, channel, loop, up>>

\* A packet without a channel, and a second response to an open, are refused.
Refused(e) ==
    /\ Takes(e) /\ Coming(e).t # "open"
    /\ \/ Of(e) = None
       \/ Of(e) # None /\ Coming(e).t \in {"confirm", "failure"} /\ ~Responds(e, Of(e))

\* onePacket fails, which ends the loop: the connection has ended, or what it has
\* read is refused.
OnePacketFails(e) ==
    /\ loop[e] = "run"
    /\ up # Ends \/ Refused(e)
    /\ loop' = [loop EXCEPT ![e] = "drop"]
    /\ wire' = [wire EXCEPT ![Other(e)] = IF Refused(e) THEN Tail(@) ELSE @]
    /\ UNCHANGED <<channel, request, up>>

\* Mutant: the channels are forgotten and not closed.
DropAllUnclosed(e) ==
    /\ loop[e] = "drop"
    /\ chans' = [chans EXCEPT ![e] = <<>>]
    /\ loop' = [loop EXCEPT ![e] = "close"]
    /\ UNCHANGED <<sentClose, closed, state, local, remote, decided, request, wire, up>>

\* mux.loop ends: the channels it knows are forgotten and closed ...
DropAll(e) ==
    /\ loop[e] = "drop"
    /\ LET known == {chans[e][i] : i \in 1..Len(chans[e])} \ {None}
       IN  /\ closed' = closed \cup {<<e, c>> : c \in known}
           /\ sentClose' = [sentClose EXCEPT ![e] = [c \in Channels |-> @[c] \/ c \in known]]
    /\ chans' = [chans EXCEPT ![e] = <<>>]
    /\ loop' = [loop EXCEPT ![e] = "close"]
    /\ UNCHANGED <<state, local, remote, decided, request, wire, up>>

\* ... then the queues of the connection, and the connection.
CloseConn(e) ==
    /\ loop[e] = "close"
    /\ closed' = closed \cup {<<e, Global>>}
    /\ up' = up \ {e}
    /\ wire' = [wire EXCEPT ![Other(e)] = <<>>]
    /\ loop' = [loop EXCEPT ![e] = "done"]
    /\ UNCHANGED <<chans, state, local, remote, decided, sentClose, request>>

\* The connection is lost, or somebody closes it.
Lose ==
    /\ up = Ends
    /\ up' = {}
    /\ wire' = [e \in Ends |-> <<>>]
    /\ UNCHANGED <<channel, request, loop>>

-----------------------------------------------------------------------------
Loop(e) ==
    \/ HandleOpen(e) \/ HandleConfirm(e) \/ HandleFailure(e) \/ HandleClose(e)
    \/ HandleRequest(e) \/ HandleReply(e) \/ OnePacketFails(e) \/ DropAll(e)
    \/ CloseConn(e)
Opens(e, c) == Open(e, c) \/ SendOpen(e, c) \/ OpenFails(e, c)
Decides(e, c) == Accept(e, c) \/ Reject(e, c)

Next ==
    \/ \E e \in Ends : Loop(e)
    \/ \E e \in Ends, c \in Channels : Opens(e, c) \/ Decides(e, c) \/ Close(e, c)
    \/ \E e \in Ends, c \in Targets :
        \/ \E wantReply \in BOOLEAN : SendRequest(e, c, wantReply)
        \/ Returns(e, c) \/ Reply(e, c)
    \/ Lose

Spec == Init /\ [][Next]_vars

\* What happens unasked: the goroutines run, and applications decide on channels and
\* reply to requests.  Each such step uses up a packet, a request, a decision or a
\* step of the end of a mux, so that they come to an end.
Runs ==
    \/ \E e \in Ends : Loop(e)
    \/ \E e \in Ends, c \in Channels : SendOpen(e, c) \/ OpenFails(e, c) \/ Decides(e, c)
    \/ \E e \in Ends, c \in Targets : Returns(e, c) \/ Reply(e, c)

-----------------------------------------------------------------------------
Packets == [t : {"open", "confirm", "failure", "close", "ask", "tell", "reply"},
            id : Nat, c : Targets, n : Nat]

\* The types of the variables.
TypeOK ==
    /\ chans \in [Ends -> Seq(Channels \cup {None})]
    /\ state \in [Ends -> [Channels ->
            {"none", "sending", "opening", "failed", "offered", "open", "rejected"}]]
    /\ local \in [Ends -> [Channels -> Nat]] /\ remote \in [Ends -> [Channels -> Nat]]
    /\ decided \in [Ends -> [Channels -> BOOLEAN]]
    /\ sentClose \in [Ends -> [Channels -> BOOLEAN]]
    /\ closed \subseteq Ends \X Targets
    /\ asked \in [Ends -> [Targets -> Nat]]
    /\ msg \in [Ends -> [Targets -> Seq(Nat)]]
    /\ requests \in [Ends -> [Targets -> Seq(Packets)]]
    /\ made \in Nat
    /\ wire \in [Ends -> Seq(Packets)]
    /\ loop \in [Ends -> {"run", "drop", "close", "done"}]
    /\ up \subseteq Ends

\* A packet reaches the channel it was sent for, though numbers are used again, and
\* is one that this channel may get: no traffic of applications ends the loop.
Routed ==
    \A e \in Ends : Takes(e) /\ Coming(e).t # "open" =>
        /\ Of(e) = Coming(e).c
        /\ Coming(e).t \in {"confirm", "failure"} => Responds(e, Of(e))

\* The channel is in use at this end.
Live(e, c) == GetChan(e, local[e][c]) = c /\ decided[e][c] /\ state[e][c] # "rejected"

\* With nothing on its way, the ends of a live connection have the same channels,
\* and each knows the number of the other.
SameChannels ==
    up = Ends /\ (\A e \in Ends : wire[e] = <<>> /\ loop[e] = "run") =>
        \A c \in Channels : Live("client", c) \/ Live("server", c) =>
            \A e \in Ends : Live(e, c) /\ remote[e][c] = local[Other(e)][c]

\* Requests have no number, yet whoever gets a response gets the one to what it asked.
Answered ==
    \A e \in Ends, c \in Targets : msg[e][c] # <<>> => msg[e][c] = <<asked[e][c]>>

\* Whatever comes, packet or reply, is for the one who gets it.
ForTheRightOne == Routed /\ Answered

\* Once nothing more happens unasked, nobody waits in SendRequest, and in OpenChannel
\* only those whose channel was listed after the mux had dropped all it knew.
Settled ==
    ENABLED Runs \/
        /\ \A e \in Ends, c \in Targets : asked[e][c] = 0
        /\ \A e \in Ends, c \in Channels :
            state[e][c] = "opening" => loop[e] = "done" /\ GetChan(e, local[e][c]) = c
=============================================================================
