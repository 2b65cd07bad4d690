------------------------------ MODULE Channel ------------------------------
(***************************************************************************)
(* The data of a channel in one direction: WriteExtended and its window at *)
(* the end "w", handleData, the buffers and ReadExtended at the end "r"    *)
(* (crypto/ssh: channel.go, buffer.go, the window of common.go), and what  *)
(* closes them: CloseWrite, Close at either end, the loss of the           *)
(* connection.  The other direction is the same with the ends exchanged.   *)
(*                                                                         *)
(* Each stream has one goroutine that writes and one that reads, as the    *)
(* comment on Channel allows; anyone may close at any time.  Bytes are     *)
(* positions in their stream, so that what is read can be compared with    *)
(* what was written.  Packets are as long as their data.                   *)
(***************************************************************************)
EXTENDS Integers, Sequences, FiniteSetsExt

CONSTANTS
    Window,     \* channelWindowSize
    MaxPacket,  \* channelMaxPacket
    MaxWin,     \* the largest uint32
    Supply      \* bytes that are written on all streams (a bound)

ASSUME WindowAssumption ==
    /\ Window \in Nat
    /\ MaxWin \in Nat
    /\ Window <= MaxWin
    /\ MaxPacket \in Nat \ {0}
    /\ Supply \in Nat

\* The extended code 0, 1, and any other.
Streams == {"data", "stderr", "other"}
Readable == {"data", "stderr"}
Ends == {"w", "r"}
Total(f) == f["data"] + f["stderr"] + f["other"]

VARIABLES
    wpc,        \* WriteExtended on each stream
    todo,       \* len(data) in it
    space,      \* bytes it has reserved for its next packet
    put,        \* bytes it has sent
    win,        \* remoteWin.win
    winClosed,  \* remoteWin.closed
    sentEOF,    \* sentEOF
    raced,      \* data was sent after the EOF, by a Write that had begun before
    wire,       \* packets on their way to "r"
    back,       \* and to "w"
    told,       \* bytes of all window adjustments sent
    heard,      \* and of those received
    myWindow,   \* myWindow
    rcvd,       \* bytes of each stream received; those beyond read are buffered
    read,       \* bytes read from each buffer
    bufEOF,     \* the buffers are closed
    rpc,        \* ReadExtended on each stream
    n,          \* bytes it has read
    sentClose,  \* sentClose of each end
    known,      \* the channel is in the chanList of each end
    up,         \* the connection of each end
    broken      \* ends whose mux found a packet it does not accept

writing == <<wpc, todo, space, put, win, winClosed, sentEOF, raced>>
reading == <<myWindow, rcvd, read, bufEOF, rpc, n>>
paths   == <<wire, back, told, heard>>
ending  == <<sentClose, known, up, broken>>
vars    == <<writing, reading, paths, ending>>

\* A packet records what had been sent before it: the bytes of each stream,
\* or those of all adjustments.  It takes len bytes, on its stream.
Data(s, len) == [t |-> "data", s |-> s, len |-> len, at |-> put]
Signal(t)    == [t |-> t, s |-> "data", len |-> 0, at |-> put]
Adjust(len)  == [t |-> "adjust", len |-> len, at |-> told]
Answer       == [t |-> "close", len |-> 0, at |-> told]

Zero == [s \in Streams |-> 0]
Buffered(s) == rcvd[s] - read[s]

\* buffer.Read returns io.EOF.
AtEOF(s) == bufEOF /\ Buffered(s) = 0

Init ==
    /\ wpc = [s \in Streams |-> "idle"]
    /\ todo = Zero /\ space = Zero /\ put = Zero
    /\ win = Window
    /\ winClosed = FALSE /\ sentEOF = FALSE /\ raced = FALSE
    /\ wire = <<>> /\ back = <<>>
    /\ told = 0 /\ heard = 0
    /\ myWindow = Window
    /\ rcvd = Zero /\ read = Zero
    /\ bufEOF = FALSE
    /\ rpc = [s \in Streams |-> "idle"]
    /\ n = Zero
    /\ sentClose = {}
    /\ known = Ends
    /\ up = Ends
    /\ broken = {}

-----------------------------------------------------------------------------
\* channel.writePacket goes through at this end.
Sends(e) == e \notin sentClose /\ e \in up

\* WriteExtended(data), which does nothing once the EOF has been sent.
Write(s) ==
    /\ wpc[s] = "idle"
    /\ ~sentEOF
    /\ \E k \in 1..(Supply - Total(put) - Total(todo)) :
        todo' = [todo EXCEPT ![s] = k]
    /\ wpc' = [wpc EXCEPT ![s] = "reserve"]
    /\ UNCHANGED <<space, put, win, winClosed, sentEOF, raced, reading, paths, ending>>

\* Mutant: what is reserved is not taken from the window.
ReserveUncounted(s) ==
    /\ wpc[s] = "reserve"
    /\ win > 0 /\ ~winClosed
    /\ space' = [space EXCEPT ![s] = Min({MaxPacket, todo[s], win})]
    /\ wpc' = [wpc EXCEPT ![s] = "send"]
    /\ UNCHANGED <<todo, put, win, winClosed, sentEOF, raced, reading, paths, ending>>

\* window.reserve, asked for min(maxRemotePayload, len(data)): it waits for
\* any room, and takes what there is even if it then fails.
Reserve(s) ==
    /\ wpc[s] = "reserve"
    /\ win > 0 \/ winClosed
    /\ LET k == Min({MaxPacket, todo[s], win})
       IN  /\ win' = win - k
           /\ space' = [space EXCEPT ![s] = IF winClosed THEN 0 ELSE k]
    /\ wpc' = [wpc EXCEPT ![s] = IF winClosed THEN "idle" ELSE "send"]
    /\ todo' = [todo EXCEPT ![s] = IF winClosed THEN 0 ELSE @]
    /\ UNCHANGED <<put, winClosed, sentEOF, raced, reading, paths, ending>>

\* writePacket, and the next turn of the loop.
Send(s) ==
    /\ wpc[s] = "send"
    /\ Sends("w")
    /\ wire' = Append(wire, Data(s, space[s]))
    /\ put' = [put EXCEPT ![s] = @ + space[s]]
    /\ todo' = [todo EXCEPT ![s] = @ - space[s]]
    /\ space' = [space EXCEPT ![s] = 0]
    /\ wpc' = [wpc EXCEPT ![s] = IF todo[s] = space[s] THEN "idle" ELSE "reserve"]
    /\ raced' = (raced \/ sentEOF)
    /\ UNCHANGED <<win, winClosed, sentEOF, back, told, heard, reading, ending>>

\* writePacket fails, perhaps before the mux finds that the connection has
\* ended; what was reserved is not given back.
SendFails(s) ==
    /\ wpc[s] = "send"
    /\ ~Sends("w") \/ up # Ends
    /\ space' = [space EXCEPT ![s] = 0]
    /\ todo' = [todo EXCEPT ![s] = 0]
    /\ wpc' = [wpc EXCEPT ![s] = "idle"]
    /\ UNCHANGED <<put, win, winClosed, sentEOF, raced, reading, paths, ending>>

\* CloseWrite (called once: a bound).
CloseWrite ==
    /\ ~sentEOF
    /\ sentEOF' = TRUE
    /\ wire' = IF Sends("w") THEN Append(wire, Signal("eof")) ELSE wire
    /\ UNCHANGED <<wpc, todo, space, put, win, winClosed, raced,
                   back, told, heard, reading, ending>>

-----------------------------------------------------------------------------
\* The paths after e sends a channelCloseMsg, if it still can.
WireClosed == IF Sends("w") THEN Append(wire, Signal("close")) ELSE wire
BackClosed == IF Sends("r") THEN Append(back, Answer) ELSE back

\* Close.
Close(e) ==
    /\ Sends(e)
    /\ sentClose' = sentClose \cup {e}
    /\ wire' = IF e = "w" THEN WireClosed ELSE wire
    /\ back' = IF e = "r" THEN BackClosed ELSE back
    /\ UNCHANGED <<writing, reading, told, heard, known, up, broken>>

\* channel.close: the buffers of the one end, the window of the other.
Shut(e) ==
    /\ sentClose' = sentClose \cup {e}
    /\ winClosed' = (winClosed \/ e = "w")
    /\ bufEOF' = (bufEOF \/ e = "r")

\* The mux of e finds its connection at its end and drops its channels.
ConnLost(e) ==
    /\ e \in up
    /\ up' = up \ {e}
    /\ known' = known \ {e}
    /\ IF e \in known
       THEN Shut(e)
       ELSE UNCHANGED <<sentClose, winClosed, bufEOF>>
    /\ UNCHANGED <<wpc, todo, space, put, win, sentEOF, raced,
                   myWindow, rcvd, read, rpc, n, paths, broken>>

-----------------------------------------------------------------------------
\* The mux of e can take its next packet.
Takes(e, path) ==
    /\ e \in up
    /\ e \notin broken
    /\ path # <<>>

\* A packet for a channel that is not in the list ends the mux.
Stray(e) == e \notin known

\* handleData.
HandleData ==
    /\ Takes("r", wire)
    /\ Head(wire).t = "data"
    /\ LET p == Head(wire)
       IN  IF Stray("r") \/ p.len > MaxPacket \/ p.len > myWindow
           THEN broken' = broken \cup {"r"} /\ UNCHANGED <<myWindow, rcvd>>
           ELSE /\ myWindow' = myWindow - p.len
                /\ rcvd' = [rcvd EXCEPT ![p.s] = p.at[p.s] + p.len]
                /\ UNCHANGED broken
    /\ wire' = Tail(wire)
    /\ UNCHANGED <<writing, read, bufEOF, rpc, n, back, told, heard,
                   sentClose, known, up>>

\* The EOF goes to both buffers.
HandleEOF ==
    /\ Takes("r", wire)
    /\ Head(wire).t = "eof"
    /\ IF Stray("r")
       THEN broken' = broken \cup {"r"} /\ UNCHANGED bufEOF
       ELSE bufEOF' = TRUE /\ UNCHANGED broken
    /\ wire' = Tail(wire)
    /\ UNCHANGED <<writing, myWindow, rcvd, read, rpc, n, back, told, heard,
                   sentClose, known, up>>

\* windowAdjustMsg, window.add.
HandleAdjust ==
    /\ Takes("w", back)
    /\ Head(back).t = "adjust"
    /\ LET k == Head(back).len
       IN  IF Stray("w") \/ win + k > MaxWin
           THEN broken' = broken \cup {"w"} /\ UNCHANGED <<win, heard>>
           ELSE win' = win + k /\ heard' = heard + k /\ UNCHANGED broken
    /\ back' = Tail(back)
    /\ UNCHANGED <<wpc, todo, space, put, winClosed, sentEOF, raced, reading,
                   wire, told, sentClose, known, up>>

\* channelCloseMsg: it is answered, the channel is taken from the list and closed.
HandleClose(e) ==
    LET path == IF e = "r" THEN wire ELSE back
    IN  /\ Takes(e, path)
        /\ Head(path).t = "close"
        /\ IF Stray(e)
           THEN /\ broken' = broken \cup {e}
                /\ wire' = IF e = "r" THEN Tail(wire) ELSE wire
                /\ back' = IF e = "w" THEN Tail(back) ELSE back
                /\ UNCHANGED <<sentClose, winClosed, bufEOF, known>>
           ELSE /\ wire' = IF e = "r" THEN Tail(wire) ELSE WireClosed
                /\ back' = IF e = "w" THEN Tail(back) ELSE BackClosed
                /\ known' = known \ {e}
                /\ Shut(e)
                /\ UNCHANGED broken
        /\ UNCHANGED <<wpc, todo, space, put, win, sentEOF, raced,
                       myWindow, rcvd, read, rpc, n, told, heard, up>>

-----------------------------------------------------------------------------
\* buffer.Read returns some of what there is.
Read(s) ==
    /\ rpc[s] = "idle"
    /\ \E k \in 1..Buffered(s) :
        /\ read' = [read EXCEPT ![s] = @ + k]
        /\ n' = [n EXCEPT ![s] = k]
    /\ rpc' = [rpc EXCEPT ![s] = "credit"]
    /\ UNCHANGED <<writing, myWindow, rcvd, bufEOF, paths, ending>>

\* Mutants: adjustWindow forgets its own window, or opens it twice.
CreditForgotten(s) ==
    /\ rpc[s] = "credit"
    /\ rpc' = [rpc EXCEPT ![s] = "tell"]
    /\ UNCHANGED <<writing, myWindow, rcvd, read, bufEOF, n, paths, ending>>

CreditTwice(s) ==
    /\ rpc[s] = "credit"
    /\ myWindow' = myWindow + 2 * n[s]
    /\ rpc' = [rpc EXCEPT ![s] = "tell"]
    /\ UNCHANGED <<writing, rcvd, read, bufEOF, n, paths, ending>>

\* adjustWindow opens the window,
Credit(s) ==
    /\ rpc[s] = "credit"
    /\ myWindow' = myWindow + n[s]
    /\ rpc' = [rpc EXCEPT ![s] = "tell"]
    /\ UNCHANGED <<writing, rcvd, read, bufEOF, n, paths, ending>>

\* Mutant: the other end is not told.
TellNothing(s) ==
    /\ rpc[s] = "tell"
    /\ rpc' = [rpc EXCEPT ![s] = "idle"]
    /\ n' = [n EXCEPT ![s] = 0]
    /\ UNCHANGED <<writing, myWindow, rcvd, read, bufEOF, paths, ending>>

\* and then tells the other end, if it still can.
Tell(s) ==
    /\ rpc[s] = "tell"
    /\ rpc' = [rpc EXCEPT ![s] = "idle"]
    /\ IF Sends("r")
       THEN back' = Append(back, Adjust(n[s])) /\ told' = told + n[s]
       ELSE UNCHANGED <<back, told>>
    /\ n' = [n EXCEPT ![s] = 0]
    /\ UNCHANGED <<writing, myWindow, rcvd, read, bufEOF, wire, heard, ending>>

-----------------------------------------------------------------------------
Writers == \E s \in Streams : Write(s) \/ Reserve(s) \/ Send(s) \/ SendFails(s)
Readers == \E s \in Readable : Read(s) \/ Credit(s) \/ Tell(s)
Muxes   == \/ HandleData \/ HandleEOF \/ HandleAdjust
           \/ \E e \in Ends : HandleClose(e)

Next ==
    \/ Writers
    \/ Readers
    \/ Muxes
    \/ CloseWrite
    \/ \E e \in Ends : Close(e) \/ ConnLost(e)

Spec == Init /\ [][Next]_vars

\* Goroutines run; whoever reads keeps reading; a mux that ends closes the
\* connection, so that the other end finds it closed.  Nobody has to write, to
\* close or to be the first to lose the connection.
Fairness ==
    /\ \A s \in Streams : WF_vars(Reserve(s)) /\ WF_vars(Send(s) \/ SendFails(s))
    /\ \A s \in Readable : WF_vars(Read(s) \/ Credit(s) \/ Tell(s))
    /\ WF_vars(HandleData \/ HandleEOF \/ HandleClose("r"))
    /\ WF_vars(HandleAdjust \/ HandleClose("w"))
    /\ \A e \in Ends : WF_vars(up # Ends /\ ConnLost(e))

FairSpec == Spec /\ Fairness

-----------------------------------------------------------------------------
Sent ==
    [t : {"data"}, s : Streams, len : Nat, at : [Streams -> Nat]]
    \cup [t : {"eof", "close"}, s : Streams, len : {0}, at : [Streams -> Nat]]
Answered == [t : {"adjust"}, len : Nat, at : Nat] \cup [t : {"close"}, len : {0}, at : Nat]

TypeOK ==
    /\ wpc \in [Streams -> {"idle", "reserve", "send"}]
    /\ rpc \in [Streams -> {"idle", "credit", "tell"}]
    /\ todo \in [Streams -> Nat] /\ space \in [Streams -> Nat] /\ put \in [Streams -> Nat]
    /\ rcvd \in [Streams -> Nat] /\ read \in [Streams -> Nat] /\ n \in [Streams -> Nat]
    /\ win \in Nat /\ told \in Nat /\ heard \in Nat /\ myWindow \in Nat
    /\ winClosed \in BOOLEAN /\ sentEOF \in BOOLEAN
    /\ raced \in BOOLEAN /\ bufEOF \in BOOLEAN
    /\ wire \in Seq(Sent)
    /\ back \in Seq(Answered)
    /\ sentClose \subseteq Ends /\ known \subseteq Ends
    /\ up \subseteq Ends /\ broken \subseteq Ends

\* No mux ever finds a packet it does not accept: the peer never writes more
\* than the window allows, no adjustment overflows the window, and none comes
\* for a channel that has been closed ("ssh: remote side wrote too much",
\* "invalid window update", "invalid channel").
Accepted == broken = {}

\* "Since myWindow is managed on our side, and can never exceed the initial
\* window setting" (channel.go, adjustWindow), and the window at the other end is
\* never larger than what this end stands for.
WindowsAgree ==
    /\ myWindow <= Window
    /\ win + Total(space) + Total(put) - Total(rcvd) <= myWindow

\* Whoever reads io.EOF, though the connection was not lost and nobody was
\* still writing when the end was announced, has read everything that was sent.
EOFMeansAll ==
    \A s \in Readable : AtEOF(s) /\ "r" \in up /\ ~raced => read[s] = put[s]

\* The channel implements a stream that holds at most a window.
Stream == INSTANCE ByteStream WITH Capacity <- Window, got <- read
Streaming == Stream!Spec

\* A Write returns as long as nobody writes to an extended stream the other end
\* throws away, for these bytes are never credited (handleData).
WritesReturn ==
    [](rcvd["other"] = 0) => \A s \in Streams : wpc[s] # "idle" ~> wpc[s] = "idle"

\* A Close is answered: both ends forget the channel.
CloseCompletes ==
    \A e \in Ends : e \in sentClose ~> known = {}

\* What was begun is finished, as far as a mux that reads on can see to it.
OperationsFinish == WritesReturn /\ CloseCompletes

=============================================================================
