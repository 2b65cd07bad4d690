------------------------------- MODULE Server -------------------------------
(***************************************************************************)
(* The life of an SSHServer (src/server.go): the listen goroutine, one     *)
(* Execute goroutine per accepted TCP connection, one Dispatch goroutine   *)
(* per SSH channel, and what they rest on: the reapers' wait groups and    *)
(* context tree (grim, net/context) and the mux goroutine that reads each  *)
(* connection (crypto/ssh).                                                *)
(*                                                                         *)
(* Clients, handlers and the owner of the server are the environment: a    *)
(* client connects, opens channels, sends requests and replies nobody asked*)
(* for, disconnects or stays silent; a handler returns when it likes; the  *)
(* owner may Start, Stop or cancel the context it configured.              *)
(*                                                                         *)
(* The mux hands on what it reads over bounded Go channels, and blocks     *)
(* while one is full: incomingChannels, with the channels clients open, is *)
(* the sequence queue; of the others, the inboxes, only the number held is *)
(* kept.                                                                   *)
(*                                                                         *)
(* Not represented: bytes, channel windows, authentication, a client that  *)
(* closes a channel of its own, and writes, which never block here.        *)
(***************************************************************************)
EXTENDS Integers, Sequences, FiniteSets

CONSTANTS
    Conns,      \* TCP connections clients may make
    Chans,      \* SSH channels clients may open
    ConnOf,     \* the connection each channel is opened on
    Listen,     \* the task of the listen goroutine
    ChanBuf,    \* capacity of mux.incomingChannels (16 in the code)
    InboxBuf,   \* capacity of the inboxes, but for globalResponses (16)
    Sent,       \* inboxes that clients send something for
    Drained     \* inboxes that somebody keeps reading from

ASSUME ConnsAssumption == IsFiniteSet(Conns) /\ IsFiniteSet(Chans)
ASSUME ListenAssumption == Listen \notin Conns
ASSUME ConnOfAssumption == ConnOf \in [Chans -> Conns]
ASSUME BufAssumption == ChanBuf \in Nat \ {0} /\ InboxBuf \in Nat \ {0}

Tasks == Conns \cup {Listen}

\* Of each mux incomingRequests and globalResponses, of each channel
\* incomingRequests and msg.
ConnInboxes == {"globalRequests", "globalResponses"} \X Conns
ChanInboxes == {"requests", "messages"} \X Chans
Inboxes == ConnInboxes \cup ChanInboxes

\* The connection of an inbox, and what it holds at most.
On(b) == IF b \in ConnInboxes THEN b[2] ELSE ConnOf[b[2]]
Capacity(b) == IF b[1] = "globalResponses" THEN 1 ELSE InboxBuf

ASSUME InboxesAssumption == Sent \subseteq Inboxes /\ Drained \subseteq Sent

VARIABLES
    stopPC,     \* the caller of Stop
    rootDone,   \* the server reaper's context is cancelled
    kids,       \* children of that context which its cancel has still to reach
    ctxDone,    \* tasks whose context (for a connection: its reaper's) is done
    chanDone,   \* channels whose Dispatch context is done
    listener,   \* the listening socket
    lpc,        \* the listen goroutine
    wg,         \* the server reaper's wait group
    peer,       \* the client's end of each connection
    sock,       \* the server's end of each connection
    hpc,        \* the Execute goroutine of each connection
    mux,        \* the mux.loop goroutine of each connection
    queue,      \* mux.incomingChannels of each connection
    gwg,        \* the wait group of each connection's reaper
    chan,       \* each channel, from its opening to the end of its Dispatch
    accepted,   \* channels on which Accept succeeded
    held        \* messages in each inbox, one that the mux is blocked on
                \* sending included

ctxVars  == <<rootDone, kids, ctxDone, chanDone>>
lisVars  == <<listener, lpc, wg>>
connVars == <<peer, sock, hpc, mux, queue, gwg>>
chanVars == <<chan, accepted, held>>
vars == <<stopPC, ctxVars, lisVars, connVars, chanVars>>

-----------------------------------------------------------------------------
StopPCs == {"none", "killing", "waiting", "returned"}
LisPCs  == {"none", "check", "accept", "return", "exited"}
ConnPCs == {"none", "start", "handshake", "loop", "kill", "connwait",
            "connclose", "gwait", "finish", "exited"}
MuxPCs  == {"none", "read", "open", "send", "closing", "exited"}
ChanPCs == {"unsent", "opening", "queued", "spawned", "handling",
            "returning", "closed", "exited"}

\* The sets the variables range over.
Typing ==
    /\ stopPC \in StopPCs
    /\ rootDone \in BOOLEAN
    /\ kids \subseteq Tasks
    /\ ctxDone \subseteq Tasks
    /\ chanDone \subseteq Chans
    /\ listener \in {"open", "closed"}
    /\ lpc \in LisPCs
    /\ wg \in Int
    /\ peer \in [Conns -> {"absent", "up", "gone"}]
    /\ sock \in [Conns -> {"none", "backlog", "open", "closed"}]
    /\ hpc \in [Conns -> ConnPCs]
    /\ mux \in [Conns -> MuxPCs]
    /\ queue \in [Conns -> Seq(Chans)]
    /\ gwg \in [Conns -> Int]
    /\ chan \in [Chans -> ChanPCs]
    /\ accepted \subseteq Chans
    /\ held \in [Sent -> Nat]

\* Besides, no wait group goes negative (sync.WaitGroup would panic), and no
\* more than one send is blocked on a full inbox.
TypeOK ==
    /\ Typing
    /\ wg >= 0
    /\ \A c \in Conns : gwg[c] >= 0
    /\ \A b \in Sent : held[b] <= Capacity(b) + 1

\* Server as New leaves it: listening, nothing spawned.
Init ==
    /\ stopPC = "none"
    /\ rootDone = FALSE
    /\ kids = {}
    /\ ctxDone = {}
    /\ chanDone = {}
    /\ listener = "open"
    /\ lpc = "none"
    /\ wg = 0
    /\ peer = [c \in Conns |-> "absent"]
    /\ sock = [c \in Conns |-> "none"]
    /\ hpc = [c \in Conns |-> "none"]
    /\ mux = [c \in Conns |-> "none"]
    /\ queue = [c \in Conns |-> <<>>]
    /\ gwg = [c \in Conns |-> 0]
    /\ chan = [ch \in Chans |-> "unsent"]
    /\ accepted = {}
    /\ held = [b \in Sent |-> 0]

\* Goroutines counted by the wait groups.
ListenerLive == lpc \notin {"none", "exited"}
LiveConns == {c \in Conns : hpc[c] \notin {"none", "exited"}}
LiveTasks == LiveConns \cup (IF ListenerLive THEN {Listen} ELSE {})

Dispatching(ch) == chan[ch] \in {"spawned", "handling", "returning", "closed"}
LiveChans(c) == {ch \in Chans : ConnOf[ch] = c /\ Dispatching(ch)}

MuxEnded(c) == mux[c] \in {"closing", "exited"}

-----------------------------------------------------------------------------
(* Contexts. cancel closes a context's Done channel and then, holding its  *)
(* lock, cancels its children one by one; WithCancel on that context waits *)
(* for the lock and returns a context that is done already.                *)

\* The cancellation of connection c's context has reached its dispatches.
ChansCancelled(c) == c \in ctxDone => LiveChans(c) \subseteq chanDone

\* No cancellation of the root context is under way.
RootSettled ==
    rootDone => kids = {} /\ \A c \in Conns : ChansCancelled(c)

\* A slip, as those below: a child of a cancelled context is entered among its
\* children like any other.
NewTaskContextIgnoresDone(t) ==
    /\ RootSettled
    /\ kids' = kids \cup {t}
    /\ ctxDone' = ctxDone

\* WithCancel on the root context.
NewTaskContext(t) ==
    /\ RootSettled
    /\ IF rootDone
       THEN ctxDone' = ctxDone \cup {t} /\ kids' = kids
       ELSE kids' = kids \cup {t} /\ ctxDone' = ctxDone

\* WithCancel on the context of connection ConnOf[ch].
NewChanContext(ch) ==
    /\ ChansCancelled(ConnOf[ch])
    /\ chanDone' = IF ConnOf[ch] \in ctxDone THEN chanDone \cup {ch} ELSE chanDone

CancelTask(t) ==
    /\ rootDone
    /\ t \in kids
    /\ kids' = kids \ {t}
    /\ ctxDone' = ctxDone \cup {t}
    /\ UNCHANGED <<stopPC, rootDone, chanDone, lisVars, connVars, chanVars>>

CancelChan(ch) ==
    /\ ConnOf[ch] \in ctxDone
    /\ Dispatching(ch)
    /\ ch \notin chanDone
    /\ chanDone' = chanDone \cup {ch}
    /\ UNCHANGED <<stopPC, rootDone, kids, ctxDone, lisVars, connVars, chanVars>>

-----------------------------------------------------------------------------
(* Slips this code could have had. Each takes the place of one operator    *)
(* below and shows that a property would notice.                           *)

\* listen is started with go and not with SpawnFunc.
StartUncounted ==
    /\ lpc = "none"
    /\ stopPC = "none"
    /\ lpc' = "check"
    /\ kids' = kids \cup {Listen}
    /\ UNCHANGED <<stopPC, rootDone, ctxDone, chanDone, listener, wg, connVars,
                   chanVars>>

\* Stop waits without Kill.
StopKillForgotten ==
    /\ stopPC = "none"
    /\ stopPC' = "killing"
    /\ UNCHANGED <<ctxVars, lisVars, connVars, chanVars>>

\* Stop does not wait.
StopReturnAtOnce ==
    /\ stopPC = "waiting"
    /\ stopPC' = "returned"
    /\ UNCHANGED <<ctxVars, lisVars, connVars, chanVars>>

\* The handshake fails and the socket is left to the garbage collector.
HandshakeFailUnclosed(c) ==
    /\ hpc[c] = "handshake"
    /\ ctxDone' = ctxDone \cup {c}
    /\ hpc' = [hpc EXCEPT ![c] = "gwait"]
    /\ UNCHANGED <<stopPC, rootDone, kids, chanDone, lisVars, peer, sock, mux, queue,
                   gwg, chanVars>>

\* Execute returns without g.Wait.
ExecuteNoGroupWait(c) ==
    /\ hpc[c] = "gwait"
    /\ hpc' = [hpc EXCEPT ![c] = "finish"]
    /\ UNCHANGED <<stopPC, ctxVars, lisVars, peer, sock, mux, queue, gwg, chanVars>>

\* Dispatch returns without conn.Close.
DispatchNoClose(ch) ==
    /\ chan[ch] = "returning"
    /\ chan' = [chan EXCEPT ![ch] = "closed"]
    /\ UNCHANGED <<stopPC, ctxVars, lisVars, connVars, accepted, held>>

\* listen leaves its select with break where it should return.
ListenCheckBreak ==
    /\ lpc = "check"
    /\ lpc' = "accept"
    /\ UNCHANGED <<stopPC, ctxVars, listener, wg, connVars, chanVars>>

-----------------------------------------------------------------------------
(* The owner of the server.                                                *)

\* Called at most once, and not after Stop: the server is not restartable.
Start ==
    /\ lpc = "none"
    /\ stopPC = "none"
    /\ wg' = wg + 1
    /\ lpc' = "check"
    /\ NewTaskContext(Listen)
    /\ UNCHANGED <<stopPC, rootDone, chanDone, listener, connVars, chanVars>>

\* The owner cancels Config.Context, the parent of the reaper's context.
CancelParent ==
    /\ ~rootDone
    /\ rootDone' = TRUE
    /\ UNCHANGED <<stopPC, kids, ctxDone, chanDone, lisVars, connVars, chanVars>>

\* Stop: Kill closes the root context's Done channel, ...
StopKill ==
    /\ stopPC = "none"
    /\ stopPC' = "killing"
    /\ rootDone' = TRUE
    /\ UNCHANGED <<kids, ctxDone, chanDone, lisVars, connVars, chanVars>>

\* ... returns when every context below is done, ...
StopWait ==
    /\ stopPC = "killing"
    /\ RootSettled
    /\ stopPC' = "waiting"
    /\ UNCHANGED <<ctxVars, lisVars, connVars, chanVars>>

\* ... and Wait returns when the wait group is at zero.
StopReturn ==
    /\ stopPC = "waiting"
    /\ wg = 0
    /\ stopPC' = "returned"
    /\ UNCHANGED <<ctxVars, lisVars, connVars, chanVars>>

-----------------------------------------------------------------------------
(* listen.                                                                 *)

ListenCheck ==
    /\ lpc = "check"
    /\ lpc' = IF Listen \in ctxDone THEN "return" ELSE "accept"
    /\ UNCHANGED <<stopPC, ctxVars, listener, wg, connVars, chanVars>>

\* Accept and Spawn: the connection is handed to a new Execute goroutine.
ListenAccept(c) ==
    /\ lpc = "accept"
    /\ sock[c] = "backlog"
    /\ sock' = [sock EXCEPT ![c] = "open"]
    /\ wg' = wg + 1
    /\ NewTaskContext(c)
    /\ hpc' = [hpc EXCEPT ![c] = "start"]
    /\ lpc' = "check"
    /\ UNCHANGED <<stopPC, rootDone, chanDone, listener, peer, mux, queue, gwg,
                   chanVars>>

\* Accept fails: the deadline passed, or another error; both are logged only.
ListenAcceptFails ==
    /\ lpc = "accept"
    /\ lpc' = "check"
    /\ UNCHANGED <<stopPC, ctxVars, listener, wg, connVars, chanVars>>

\* The deferred listener.Close; connections not yet accepted are reset.
ListenClose ==
    /\ lpc = "return"
    /\ listener = "open"
    /\ listener' = "closed"
    /\ sock' = [c \in Conns |-> IF sock[c] = "backlog" THEN "closed" ELSE sock[c]]
    /\ UNCHANGED <<stopPC, ctxVars, lpc, wg, peer, hpc, mux, queue, gwg, chanVars>>

\* The reaper's deferred wg.Done.
ListenExit ==
    /\ lpc = "return"
    /\ listener = "closed"
    /\ lpc' = "exited"
    /\ wg' = wg - 1
    /\ UNCHANGED <<stopPC, ctxVars, listener, connVars, chanVars>>

-----------------------------------------------------------------------------
(* Clients.                                                                *)

Connect(c) ==
    /\ peer[c] = "absent"
    /\ listener = "open"
    /\ peer' = [peer EXCEPT ![c] = "up"]
    /\ sock' = [sock EXCEPT ![c] = "backlog"]
    /\ UNCHANGED <<stopPC, ctxVars, lisVars, hpc, mux, queue, gwg, chanVars>>

Hangup(c) ==
    /\ peer[c] = "up"
    /\ peer' = [peer EXCEPT ![c] = "gone"]
    /\ UNCHANGED <<stopPC, ctxVars, lisVars, sock, hpc, mux, queue, gwg, chanVars>>

-----------------------------------------------------------------------------
(* tcpHandler.Execute. Deferred calls run in reverse order: sshConn.Wait,  *)
(* sshConn.Close, g.Wait, and last the reaper's wg.Done.                   *)

\* The context is done before the handshake began.
ExecuteRefuse(c) ==
    /\ hpc[c] = "start"
    /\ c \in ctxDone
    /\ sock' = [sock EXCEPT ![c] = "closed"]
    /\ hpc' = [hpc EXCEPT ![c] = "finish"]
    /\ UNCHANGED <<stopPC, ctxVars, lisVars, peer, mux, queue, gwg, chanVars>>

ExecuteBegin(c) ==
    /\ hpc[c] = "start"
    /\ c \notin ctxDone
    /\ hpc' = [hpc EXCEPT ![c] = "handshake"]
    /\ UNCHANGED <<stopPC, ctxVars, lisVars, peer, sock, mux, queue, gwg, chanVars>>

\* NewServerConn returns a connection: the mux goroutine runs. Execute starts
\* the goroutine that consumes global requests, for whose end nothing waits.
HandshakeOK(c) ==
    /\ hpc[c] = "handshake"
    /\ peer[c] = "up"
    /\ hpc' = [hpc EXCEPT ![c] = "loop"]
    /\ mux' = [mux EXCEPT ![c] = "read"]
    /\ UNCHANGED <<stopPC, ctxVars, lisVars, peer, sock, queue, gwg, chanVars>>

\* NewServerConn fails: the client is gone, speaks something else, or is not
\* authenticated. Close, Kill, and then the deferred g.Wait.
HandshakeFail(c) ==
    /\ hpc[c] = "handshake"
    /\ sock' = [sock EXCEPT ![c] = "closed"]
    /\ ctxDone' = ctxDone \cup {c}
    /\ hpc' = [hpc EXCEPT ![c] = "gwait"]
    /\ UNCHANGED <<stopPC, rootDone, kids, chanDone, lisVars, peer, mux, queue, gwg,
                   chanVars>>

\* The select in OUTER picks a queued channel: SpawnFunc of its Dispatch. A
\* select with several ready cases picks any, so also when the context is done.
LoopReceive(c) ==
    /\ hpc[c] = "loop"
    /\ queue[c] # <<>>
    /\ LET ch == Head(queue[c])
       IN  /\ NewChanContext(ch)
           /\ chan' = [chan EXCEPT ![ch] = "spawned"]
    /\ queue' = [queue EXCEPT ![c] = Tail(@)]
    /\ gwg' = [gwg EXCEPT ![c] = @ + 1]
    /\ UNCHANGED <<stopPC, rootDone, kids, ctxDone, lisVars, peer, sock, hpc, mux,
                   accepted, held>>

\* OUTER ends: a context is done, or incomingChannels is closed and empty.
LoopBreak(c) ==
    /\ hpc[c] = "loop"
    /\ c \in ctxDone \/ (MuxEnded(c) /\ queue[c] = <<>>)
    /\ hpc' = [hpc EXCEPT ![c] = "kill"]
    /\ UNCHANGED <<stopPC, ctxVars, lisVars, peer, sock, mux, queue, gwg, chanVars>>

\* g.Kill() begins; CancelChan steps complete it.
ExecuteKill(c) ==
    /\ hpc[c] = "kill"
    /\ ctxDone' = ctxDone \cup {c}
    /\ hpc' = [hpc EXCEPT ![c] = "connwait"]
    /\ UNCHANGED <<stopPC, rootDone, kids, chanDone, lisVars, peer, sock, mux, queue,
                   gwg, chanVars>>

\* g.Kill() has returned, and so does sshConn.Wait: the mux goroutine is over.
ExecuteConnWait(c) ==
    /\ hpc[c] = "connwait"
    /\ ChansCancelled(c)
    /\ mux[c] = "exited"
    /\ hpc' = [hpc EXCEPT ![c] = "connclose"]
    /\ UNCHANGED <<stopPC, ctxVars, lisVars, peer, sock, mux, queue, gwg, chanVars>>

ExecuteConnClose(c) ==
    /\ hpc[c] = "connclose"
    /\ sock' = [sock EXCEPT ![c] = "closed"]
    /\ hpc' = [hpc EXCEPT ![c] = "gwait"]
    /\ UNCHANGED <<stopPC, ctxVars, lisVars, peer, mux, queue, gwg, chanVars>>

ExecuteGroupWait(c) ==
    /\ hpc[c] = "gwait"
    /\ gwg[c] = 0
    /\ hpc' = [hpc EXCEPT ![c] = "finish"]
    /\ UNCHANGED <<stopPC, ctxVars, lisVars, peer, sock, mux, queue, gwg, chanVars>>

ExecuteFinish(c) ==
    /\ hpc[c] = "finish"
    /\ hpc' = [hpc EXCEPT ![c] = "exited"]
    /\ wg' = wg - 1
    /\ UNCHANGED <<stopPC, ctxVars, listener, lpc, peer, sock, mux, queue, gwg,
                   chanVars>>

-----------------------------------------------------------------------------
(* The mux goroutine: onePacket until an error, then the teardown of loop. *)

\* A channel open is read: the channel is registered, the send comes next.
\* The packet may have been sent by a client that has gone since.
MuxOpen(ch) ==
    /\ chan[ch] = "unsent"
    /\ mux[ConnOf[ch]] = "read"
    /\ chan' = [chan EXCEPT ![ch] = "opening"]
    /\ mux' = [mux EXCEPT ![ConnOf[ch]] = "open"]
    /\ UNCHANGED <<stopPC, ctxVars, lisVars, peer, sock, hpc, queue, gwg, accepted,
                   held>>

\* incomingChannels <- c, blocked while the buffer is full.
MuxEnqueue(ch) ==
    LET c == ConnOf[ch]
    IN  /\ chan[ch] = "opening"
        /\ mux[c] = "open"
        /\ Len(queue[c]) < ChanBuf
        /\ queue' = [queue EXCEPT ![c] = Append(@, ch)]
        /\ chan' = [chan EXCEPT ![ch] = "queued"]
        /\ mux' = [mux EXCEPT ![c] = "read"]
        /\ UNCHANGED <<stopPC, ctxVars, lisVars, peer, sock, hpc, gwg, accepted,
                       held>>

\* The mux reads a message for inbox b and sends it there: a global request, a
\* reply to one, or, of a channel it has registered, a request or any other
\* message. Nothing looks at whether the channel was accepted or the reply was
\* asked for. With the inbox full the goroutine stays at the send.
MuxSend(b) ==
    LET c == On(b)
    IN  /\ mux[c] = "read"
        /\ b \in ChanInboxes => chan[b[2]] # "unsent"
        /\ held' = [held EXCEPT ![b] = @ + 1]
        /\ mux' = [mux EXCEPT ![c] = IF held[b] < Capacity(b) THEN "read" ELSE "send"]
        /\ UNCHANGED <<stopPC, ctxVars, lisVars, peer, sock, hpc, queue, gwg,
                       chan, accepted>>

\* Whoever may read from an inbox: of global requests the goroutine Execute has
\* started, of a channel's whoever has accepted it, of replies a handler that
\* has sent a request.
HasReader(b) ==
    \/ b[1] = "globalRequests"
    \/ b[1] = "globalResponses" /\ \E ch \in accepted : ConnOf[ch] = b[2]
    \/ b \in ChanInboxes /\ b[2] \in accepted

\* One message is taken from inbox b, and the send that is blocked on it, if
\* there is one, completes.
Receive(b) ==
    LET c == On(b)
    IN  /\ HasReader(b)
        /\ held[b] > 0
        /\ held' = [held EXCEPT ![b] = @ - 1]
        /\ mux' = [mux EXCEPT ![c] = IF held[b] > Capacity(b) THEN "read" ELSE @]
        /\ UNCHANGED <<stopPC, ctxVars, lisVars, peer, sock, hpc, queue, gwg,
                       chan, accepted>>

\* onePacket fails: the socket is at its end or closed, the client sent a
\* disconnect, or a packet was invalid. Every channel gets EOF and
\* incomingChannels is closed.
MuxStop(c) ==
    /\ mux[c] = "read"
    /\ mux' = [mux EXCEPT ![c] = "closing"]
    /\ UNCHANGED <<stopPC, ctxVars, lisVars, peer, sock, hpc, queue, gwg, chanVars>>

\* conn.Close, and m.err is set: sshConn.Wait can return.
MuxExit(c) ==
    /\ mux[c] = "closing"
    /\ mux' = [mux EXCEPT ![c] = "exited"]
    /\ sock' = [sock EXCEPT ![c] = "closed"]
    /\ UNCHANGED <<stopPC, ctxVars, lisVars, peer, hpc, queue, gwg, chanVars>>

-----------------------------------------------------------------------------
(* Dispatch, as far as the server depends on it: it refuses the channel or *)
(* runs a handler on it, closes the whole connection, and ends.            *)

\* No handler, an invalid channel type, or Accept failed.
DispatchRefuse(ch) ==
    /\ chan[ch] = "spawned"
    /\ chan' = [chan EXCEPT ![ch] = "returning"]
    /\ UNCHANGED <<stopPC, ctxVars, lisVars, connVars, accepted, held>>

\* Accept succeeds, which it cannot once the channel or the socket is closed.
DispatchAccept(ch) ==
    /\ chan[ch] = "spawned"
    /\ ~MuxEnded(ConnOf[ch])
    /\ sock[ConnOf[ch]] = "open"
    /\ chan' = [chan EXCEPT ![ch] = "handling"]
    /\ accepted' = accepted \cup {ch}
    /\ UNCHANGED <<stopPC, ctxVars, lisVars, connVars, held>>

\* The handler returns, with or without an error, whenever it likes.
HandlerReturn(ch) ==
    /\ chan[ch] = "handling"
    /\ chan' = [chan EXCEPT ![ch] = "returning"]
    /\ UNCHANGED <<stopPC, ctxVars, lisVars, connVars, accepted, held>>

\* The deferred conn.Close: the connection, not only the channel.
DispatchClose(ch) ==
    /\ chan[ch] = "returning"
    /\ chan' = [chan EXCEPT ![ch] = "closed"]
    /\ sock' = [sock EXCEPT ![ConnOf[ch]] = "closed"]
    /\ UNCHANGED <<stopPC, ctxVars, lisVars, peer, hpc, mux, queue, gwg, accepted,
                   held>>

\* The connection reaper's deferred wg.Done.
DispatchDone(ch) ==
    /\ chan[ch] = "closed"
    /\ chan' = [chan EXCEPT ![ch] = "exited"]
    /\ gwg' = [gwg EXCEPT ![ConnOf[ch]] = @ - 1]
    /\ UNCHANGED <<stopPC, ctxVars, lisVars, peer, sock, hpc, mux, queue, accepted,
                   held>>

-----------------------------------------------------------------------------
Owner == Start \/ CancelParent \/ StopKill \/ StopWait \/ StopReturn

ListenStep ==
    \/ ListenCheck \/ ListenAcceptFails \/ ListenClose \/ ListenExit
    \/ \E c \in Conns : ListenAccept(c)

Client(c) == Connect(c) \/ Hangup(c)

\* The steps of Execute which need nothing from the client.
ExecuteStep(c) ==
    \/ ExecuteRefuse(c) \/ ExecuteBegin(c)
    \/ LoopReceive(c) \/ LoopBreak(c) \/ ExecuteKill(c)
    \/ ExecuteConnWait(c) \/ ExecuteConnClose(c)
    \/ ExecuteGroupWait(c) \/ ExecuteFinish(c)

Handshake(c) == HandshakeOK(c) \/ HandshakeFail(c)

MuxStep(c) == MuxStop(c) \/ MuxExit(c)

MuxChan(ch) == MuxOpen(ch) \/ MuxEnqueue(ch)

Inbox(b) == MuxSend(b) \/ Receive(b)

DispatchStep(ch) ==
    DispatchRefuse(ch) \/ DispatchAccept(ch) \/ DispatchClose(ch) \/ DispatchDone(ch)

\* A server that Stop has left has nothing more to do.
Stopped == stopPC = "returned" /\ UNCHANGED vars

Next ==
    \/ Owner
    \/ ListenStep
    \/ \E t \in Tasks : CancelTask(t)
    \/ \E c \in Conns : Client(c) \/ ExecuteStep(c) \/ Handshake(c) \/ MuxStep(c)
    \/ \E ch \in Chans :
         CancelChan(ch) \/ MuxChan(ch) \/ DispatchStep(ch) \/ HandlerReturn(ch)
    \/ \E b \in Sent : Inbox(b)
    \/ Stopped

Spec == Init /\ [][Next]_vars

-----------------------------------------------------------------------------
(* Fairness: every server goroutine that can take a step takes one. Nobody *)
(* is obliged to connect, to open channels, to complete a handshake, to    *)
(* hang up, to Start or to Stop.                                           *)

\* NewServerConn fails once the client is gone.
HandshakeEOF(c) == peer[c] = "gone" /\ HandshakeFail(c)

\* A handler keeps its contract (grim TaskFunc): it returns after its context
\* is done or its channel is at EOF.
HandlerObeys(ch) ==
    (ch \in chanDone \/ MuxEnded(ConnOf[ch])) /\ HandlerReturn(ch)

\* Only finitely many packets precede the end of the stream, so a mux that
\* keeps coming back to its read gets there.
MuxEOF(c) ==
    (peer[c] = "gone" \/ sock[c] = "closed") /\ MuxStop(c)

\* What a mux does without reading from the client.
MuxGoesOn(c) == MuxExit(c) \/ \E ch \in Chans : ConnOf[ch] = c /\ MuxEnqueue(ch)

\* A cancellation under way, which reaches finitely many contexts.
Cancelling == (\E t \in Tasks : CancelTask(t)) \/ (\E ch \in Chans : CancelChan(ch))

Fairness ==
    /\ WF_vars(StopWait \/ StopReturn)
    /\ WF_vars(ListenStep)
    /\ WF_vars(Cancelling)
    /\ \A c \in Conns :
         /\ WF_vars(ExecuteStep(c) \/ HandshakeEOF(c))
         /\ WF_vars(MuxGoesOn(c))
         /\ SF_vars(MuxEOF(c))
    /\ \A ch \in Chans : WF_vars(DispatchStep(ch) \/ HandlerObeys(ch))
    /\ \A b \in Drained : WF_vars(Receive(b))

FairSpec == Spec /\ Fairness

-----------------------------------------------------------------------------
(* Safety.                                                                 *)

\* Each wait group counts exactly the goroutines spawned by its reaper that
\* have not ended (grim Spawn, SpawnFunc): one Add and one Done for each.
WaitGroupExact ==
    /\ wg = Cardinality(LiveTasks)
    /\ \A c \in Conns : gwg[c] = Cardinality(LiveChans(c))

\* When Execute has run its deferred calls its socket is closed, its mux
\* goroutine is over, and no Dispatch of the connection is left running.
ExecuteLeavesNothing ==
    \A c \in Conns :
      hpc[c] \in {"finish", "exited"} =>
        /\ sock[c] = "closed"
        /\ mux[c] \in {"none", "exited"}
        /\ LiveChans(c) = {}

\* Once Kill has returned every goroutine of the server, of whatever depth and
\* however late it was spawned, has a context that is done.
KillReachesAll ==
    stopPC \in {"waiting", "returned"} =>
      /\ LiveTasks \subseteq ctxDone
      /\ \A ch \in Chans : Dispatching(ch) => ch \in chanDone

\* When Stop returns, listen, every Execute, every mux loop and every Dispatch
\* are over and no accepted socket is open; the listening socket is closed if
\* the server had been started.
StopComplete ==
    stopPC = "returned" =>
      /\ LiveTasks = {}
      /\ \A c \in Conns :
           /\ sock[c] # "open"
           /\ mux[c] \in {"none", "exited"}
           /\ LiveChans(c) = {}
      /\ lpc # "none" => listener = "closed"

\* sync.WaitGroup forbids an Add from zero while a Wait may be under way: the
\* Spawn of listen's late connections happens only while listen itself, or
\* another task, is still counted, and SpawnFunc only before g.Wait.
AddBeforeWait ==
    [][/\ wg' > wg => wg > 0 \/ stopPC \in {"none", "killing"}
       /\ \A c \in Conns : gwg'[c] > gwg[c] => gwg[c] > 0 \/ hpc[c] # "gwait"]_vars

\* The server's reaper, and the reaper of each connection, keep the promise of
\* TaskGroup.
RootGroup == INSTANCE TaskGroup WITH
    running <- LiveTasks,
    finished <- {c \in Conns : hpc[c] = "exited"}
                  \cup (IF lpc = "exited" THEN {Listen} ELSE {}),
    killed <- rootDone,
    returned <- stopPC = "returned"

ConnGroup(c) == INSTANCE TaskGroup WITH
    Tasks <- Chans,
    running <- LiveChans(c),
    finished <- {ch \in Chans : ConnOf[ch] = c /\ chan[ch] = "exited"},
    killed <- c \in ctxDone,
    returned <- hpc[c] \in {"finish", "exited"}

\* Tasks run only between Spawn and the return of Wait, end once, and Wait
\* returns only after Kill and with nothing left running (Start to Stop).
RootReaper == RootGroup!Spec

\* The same of the Dispatch goroutines of a connection (SpawnFunc to g.Wait).
ConnReapers ==
    /\ \A c \in Conns : ConnGroup(c)!Init
    /\ [][\A c \in Conns : [ConnGroup(c)!Next]_(ConnGroup(c)!vars)]_vars

\* The Dispatch of each channel, as the server takes it to be: Dispatcher shows
\* the same of the two dispatchers there are. Once it is over the connection is
\* closed for good, although others accept connections and open channels.
Life(ch) == INSTANCE DispatchLife WITH
    phase <- CASE chan[ch] \in {"unsent", "opening", "queued"} -> "idle"
               [] chan[ch] = "spawned" -> "begun"
               [] chan[ch] \in {"handling", "returning"} -> chan[ch]
               [] OTHER -> "over",
    open <- sock[ConnOf[ch]] = "open"

DispatchLives ==
    /\ \A ch \in Chans : Life(ch)!Init
    /\ [][\A ch \in Chans : [Life(ch)!Next]_(Life(ch)!vars)]_vars

-----------------------------------------------------------------------------
(* The inductive invariant behind the safety properties: what ServerProofs *)
(* shows every step to preserve.                                           *)

\* A blocked send is the only one of its connection, and its mux is at it.
InboxShape ==
    /\ \A b \in Sent :
         /\ held[b] <= Capacity(b) + 1
         /\ held[b] > Capacity(b) => mux[On(b)] = "send"
    /\ \A x, y \in Sent :
         held[x] > Capacity(x) /\ held[y] > Capacity(y) /\ On(x) = On(y) => x = y

\* incomingChannels holds the channels that are neither being opened nor given
\* to a Dispatch yet, each once.
QueueShape ==
    /\ \A c \in Conns : \A i \in 1..Len(queue[c]) :
         /\ ConnOf[queue[c][i]] = c
         /\ chan[queue[c][i]] = "queued"
         /\ \A j \in 1..Len(queue[c]) : queue[c][i] = queue[c][j] => i = j
    /\ \A ch \in Chans :
         chan[ch] = "queued" =>
           \E i \in 1..Len(queue[ConnOf[ch]]) : queue[ConnOf[ch]][i] = ch

\* How far a connection's Execute has come bounds its socket and its mux.
ConnShape ==
    \A c \in Conns :
      /\ peer[c] = "absent" => sock[c] = "none"
      /\ sock[c] \in {"none", "backlog"} => hpc[c] = "none"
      /\ sock[c] = "open" => hpc[c] # "none"
      /\ hpc[c] \in {"none", "start", "handshake"} => mux[c] = "none"
      /\ hpc[c] = "connclose" => mux[c] = "exited"
      /\ hpc[c] \in {"gwait", "finish", "exited"} =>
           sock[c] = "closed" /\ mux[c] \in {"none", "exited"}

\* A Dispatch runs only within the span of its connection's Execute.
DispatchShape ==
    \A ch \in Chans :
      Dispatching(ch) =>
        hpc[ConnOf[ch]] \in {"loop", "kill", "connwait", "connclose", "gwait"}

\* Channels are opened by a mux.
OpenShape == \A ch \in Chans : chan[ch] # "unsent" => mux[ConnOf[ch]] # "none"

\* Every running task has a context that is done or that a cancel of the root
\* will reach; after Kill, only the former.
ContextShape ==
    /\ stopPC # "none" => rootDone
    /\ LiveTasks \subseteq kids \cup ctxDone
    /\ stopPC \in {"waiting", "returned"} => kids = {}

\* Execute is past its own Kill, or refused because it was killed.
KilledShape ==
    \A c \in Conns :
      hpc[c] \in {"connwait", "connclose", "gwait", "finish", "exited"} => c \in ctxDone

\* listen holds the listening socket for as long as it runs.
ListenShape ==
    /\ lpc = "exited" => listener = "closed"
    /\ listener = "closed" => lpc \in {"return", "exited"}

\* Nothing is running, or spawned, once Stop has returned.
StopShape == stopPC = "returned" => LiveTasks = {}

IInv ==
    /\ TypeOK
    /\ InboxShape
    /\ ConnShape
    /\ DispatchShape
    /\ OpenShape
    /\ ListenShape
    /\ QueueShape
    /\ WaitGroupExact
    /\ ContextShape
    /\ KilledShape
    /\ KillReachesAll
    /\ StopShape

-----------------------------------------------------------------------------
(* Liveness.                                                               *)

\* The mux is at a send that it cannot complete.
Stuck(c) ==
    \/ mux[c] = "send"
    \/ mux[c] = "open" /\ Len(queue[c]) = ChanBuf

\* The end of one Dispatch ends its connection, whatever its siblings and its
\* client do, unless the mux is blocked on a full channel and stays so: nothing
\* but that holds Execute up.
DispatchEndsConnection ==
    \A c \in Conns :
      []<>~Stuck(c) =>
        ((\E ch \in Chans : ConnOf[ch] = c /\ chan[ch] \in {"closed", "exited"})
           ~> (hpc[c] = "exited"))

\* "Stop stops the server and kills all goroutines" (server.go:68): it returns.
StopReturns == (stopPC = "killing") ~> (stopPC = "returned")

AllLeft == \A c \in Conns : peer[c] # "up"

\* Stop returns unless a client holds it up: it does if from some time on every
\* client that ever connected has left.
StopReturnsOnceAllLeft == <>[]AllLeft => StopReturns

\* What it takes besides: that no mux is blocked for good on something a client
\* sent before it left.
StopReturnsUnlessStuck ==
    <>[]AllLeft /\ (\A c \in Conns : []<>~Stuck(c)) => StopReturns

=============================================================================
