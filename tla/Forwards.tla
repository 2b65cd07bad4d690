------------------------------ MODULE Forwards ------------------------------
(***************************************************************************)
(* The ports an SSH client asks the server to listen on (crypto/ssh:       *)
(* Client, its two goroutines for incoming channels, forwardList and       *)
(* tcpListener).  A channel the server opens goes from the mux to          *)
(* handleChannelOpens, from there to handleChannels, and from there, with  *)
(* the lock of the list held, to the listener of its address.  Every       *)
(* listener has an owner that listens and closes once, and a goroutine     *)
(* that calls Accept until it fails, or for longer.                        *)
(***************************************************************************)
EXTENDS Integers, Sequences, SequencesExt

CONSTANTS
    Listeners,  \* owners of listeners
    Addrs,      \* addresses
    Addr,       \* the address each asks for
    Channels,   \* channels the server opens
    Bad,        \* the target of a channel of another type, or of no address
    Buffer,     \* capacity of incomingChannels and of the handler's channel
    None

ForwardsAssumption ==
    /\ Addr \in [Listeners -> Addrs]
    /\ Buffer \in Nat \ {0}
    /\ Bad \notin Addrs
    /\ None \notin Channels \cup Listeners \cup Addrs \cup (Channels \X Listeners)

VARIABLES
    up,         \* the connection
    bound,      \* addresses the server listens on
    target,     \* the address each channel is for, None before it is opened
    answer,     \* what was answered: None, "accepted", "rejected" or "failed"
    incoming,   \* mux.incomingChannels
    opening,    \* the channel handleChannelOpens is sending on, or None
    handler,    \* the channel of "forwarded-tcpip"
    sending,    \* what handleChannels sends, with the lock: <<channel, listener>>
    entries,    \* forwardList.entries, each by its listener
    queue,      \* the channel of each entry, of capacity one
    closed,     \* the listeners whose channel is closed
    swept,      \* closeAll has run
    owner,      \* what each owner is doing
    accepting   \* the listeners with a goroutine in Accept

vars == <<up, bound, target, answer, incoming, opening, handler, sending,
          entries, queue, closed, swept, owner, accepting>>
list == <<entries, queue, closed, swept>>
path == <<incoming, opening, handler, sending>>
peer == <<up, bound, target>>

Init ==
    /\ up = TRUE /\ bound = {}
    /\ target = [ch \in Channels |-> None]
    /\ answer = [ch \in Channels |-> None]
    /\ incoming = <<>> /\ opening = None
    /\ handler = <<>> /\ sending = None
    /\ entries = <<>> /\ queue = [l \in Listeners |-> <<>>]
    /\ closed = {} /\ swept = FALSE
    /\ owner = [l \in Listeners |-> "idle"]
    /\ accepting = {}

Entries == ToSet(entries)
Unlocked == sending = None

\* The place of the first entry for an address, 0 if there is none.
EntryFor(a) == SelectInSeq(entries, LAMBDA l : Addr[l] = a)

-----------------------------------------------------------------------------
\* The server opens a channel; the connection breaks.
Open(ch, a) ==
    /\ up /\ target[ch] = None /\ Len(incoming) < Buffer
    /\ target' = [target EXCEPT ![ch] = a]
    /\ incoming' = Append(incoming, ch)
    /\ UNCHANGED <<up, bound, answer, opening, handler, sending, list, owner, accepting>>

Break ==
    /\ up
    /\ up' = FALSE
    /\ UNCHANGED <<bound, target, answer, path, list, owner, accepting>>

\* handleChannelOpens.
TakeOpen ==
    /\ opening = None /\ incoming # <<>>
    /\ incoming' = Tail(incoming)
    /\ IF target[Head(incoming)] \in Addrs
       THEN opening' = Head(incoming) /\ UNCHANGED answer
       ELSE answer' = [answer EXCEPT ![Head(incoming)] = "rejected"] /\ UNCHANGED opening
    /\ UNCHANGED <<peer, handler, sending, list, owner, accepting>>

PassOpen ==
    /\ opening # None /\ Len(handler) < Buffer
    /\ handler' = Append(handler, opening)
    /\ opening' = None
    /\ UNCHANGED <<peer, answer, incoming, sending, list, owner, accepting>>

\* handleChannels finds the listener, and sends with the lock held.  (Mutant: a
\* channel nobody asked for is dropped.)
SpuriousDropped(ch) == UNCHANGED answer
Spurious(ch) == answer' = [answer EXCEPT ![ch] = "rejected"]

Forward ==
    /\ Unlocked /\ handler # <<>>
    /\ handler' = Tail(handler)
    /\ LET ch == Head(handler)
           i  == EntryFor(target[ch])
       IN  IF i = 0 THEN Spurious(ch) /\ UNCHANGED sending
           ELSE sending' = <<ch, entries[i]>> /\ UNCHANGED answer
    /\ UNCHANGED <<peer, incoming, opening, list, owner, accepting>>

Send ==
    /\ sending # None
    /\ LET l == sending[2]
       IN  /\ queue[l] = <<>>
           /\ queue' = [queue EXCEPT ![l] = <<sending[1]>>]
    /\ sending' = None
    /\ UNCHANGED <<peer, answer, incoming, opening, handler, entries, closed, swept,
                   owner, accepting>>

-----------------------------------------------------------------------------
\* ListenTCP asks the server, which does not listen twice on an address, and
\* registers the listener once it has the answer.
Ask(l) ==
    /\ owner[l] = "idle"
    /\ \/ up /\ Addr[l] \notin bound /\ bound' = bound \cup {Addr[l]}
          /\ owner' = [owner EXCEPT ![l] = "granted"]
       \/ owner' = [owner EXCEPT ![l] = "refused"] /\ UNCHANGED bound
    /\ UNCHANGED <<up, target, answer, path, list, accepting>>

Add(l) ==
    /\ owner[l] = "granted" /\ Unlocked
    /\ entries' = Append(entries, l)
    /\ owner' = [owner EXCEPT ![l] = "listening"]
    /\ accepting' = accepting \cup {l}
    /\ UNCHANGED <<peer, answer, path, queue, closed, swept>>

\* Accept takes the next channel and accepts it, or returns the error of that:
\* the connection is lost, or the server has closed the channel already. The
\* goroutine may take such an error for the end of the listener.
Accept(l) ==
    /\ l \in accepting /\ queue[l] # <<>>
    /\ queue' = [queue EXCEPT ![l] = <<>>]
    /\ \/ answer' = [answer EXCEPT ![Head(queue[l])] = "accepted"] /\ UNCHANGED accepting
       \/ /\ answer' = [answer EXCEPT ![Head(queue[l])] = "failed"]
          /\ accepting' \in {accepting, accepting \ {l}}
    /\ UNCHANGED <<peer, path, entries, closed, swept, owner>>

\* Accept fails once the listener's channel is closed and empty.
EOF(l) ==
    /\ l \in accepting /\ queue[l] = <<>> /\ l \in closed
    /\ accepting' = accepting \ {l}
    /\ UNCHANGED <<peer, answer, path, list, owner>>

\* forwardList.remove, by address.
RemoveEntry(a) ==
    LET i == EntryFor(a)
    IN  IF i = 0 THEN UNCHANGED <<entries, closed>>
        ELSE /\ entries' = RemoveAt(entries, i)
             /\ closed' = closed \cup {entries[i]}

\* Close removes the listener first, then tells the server.  (Mutant: the
\* server is told first.)
CloseCancelsFirst(l) ==
    \/ /\ owner[l] = "listening"
       /\ bound' = bound \ {Addr[l]}
       /\ owner' = [owner EXCEPT ![l] = "removing"]
       /\ UNCHANGED <<up, target, answer, path, list, accepting>>
    \/ /\ owner[l] = "removing" /\ Unlocked
       /\ RemoveEntry(Addr[l])
       /\ owner' = [owner EXCEPT ![l] = "closed"]
       /\ UNCHANGED <<peer, answer, path, queue, swept, accepting>>

Close(l) ==
    \/ /\ owner[l] = "listening" /\ Unlocked
       /\ RemoveEntry(Addr[l])
       /\ owner' = [owner EXCEPT ![l] = "cancelling"]
       /\ UNCHANGED <<peer, answer, path, queue, swept, accepting>>
    \/ /\ owner[l] = "cancelling"
       /\ bound' = IF up THEN bound \ {Addr[l]} ELSE bound
       /\ owner' = [owner EXCEPT ![l] = "closed"]
       /\ UNCHANGED <<up, target, answer, path, list, accepting>>

\* The goroutine of NewClient that waits for the end of the connection.
CloseAll ==
    /\ ~up /\ ~swept /\ Unlocked
    /\ closed' = closed \cup Entries
    /\ entries' = <<>>
    /\ swept' = TRUE
    /\ UNCHANGED <<peer, answer, path, queue, owner, accepting>>

Next ==
    \/ \E ch \in Channels, a \in Addrs \cup {Bad} : Open(ch, a)
    \/ Break
    \/ TakeOpen \/ PassOpen \/ Forward \/ Send \/ CloseAll
    \/ \E l \in Listeners : Ask(l) \/ Add(l) \/ Accept(l) \/ EOF(l) \/ Close(l)

Spec == Init /\ [][Next]_vars

\* Goroutines run: the two of the client, and those in Accept.
Fairness ==
    /\ WF_vars(TakeOpen) /\ WF_vars(PassOpen) /\ WF_vars(Forward) /\ WF_vars(Send)
    /\ WF_vars(CloseAll)
    /\ \A l \in Listeners : WF_vars(Accept(l)) /\ WF_vars(EOF(l))

FairSpec == Spec /\ Fairness

-----------------------------------------------------------------------------
\* The list, the server and the owners agree: an entry's channel is open, so
\* that neither a send nor a second close can panic; no two entries have one
\* address, so that a channel reaches the listener the server has it for
\* (tcpip.go:236); and nobody but its owner takes a listener off the list
\* while the connection lasts.
ListExact ==
    /\ \A l \in Entries : l \notin closed
    /\ \A i, j \in 1..Len(entries) : Addr[entries[i]] = Addr[entries[j]] => i = j
    /\ \A l \in Listeners : owner[l] = "listening" /\ ~swept => l \in Entries
    /\ sending # None => sending[2] \in Entries /\ Addr[sending[2]] = target[sending[1]]

\* Nobody calls Accept on a listener any more whose channel is full, and
\* handleChannels waits for room in it, with the lock of the list.
Full(l) == l \notin accepting /\ queue[l] # <<>>
Jammed == sending # None /\ Full(sending[2])

\* Every channel the server opens is answered ("implementations MUST reject
\* spurious incoming connections", tcpip.go:202), unless nobody services its
\* listener any more, or one for which the whole list is held up ("must be
\* serviced, or the SSH connection may hang", tcpip.go:21).
OpenAnswered(ch) ==
    target[ch] # None ~>
      answer[ch] # None \/ Jammed \/ \E l \in Listeners : Full(l) /\ queue[l] = <<ch>>

\* When the connection is lost, Accept returns at every listener that was on
\* the list by then, unless the list is held up.  (One that Add puts there after
\* closeAll waits for ever: nothing closes its channel any more.)
AcceptEnds(l) == ~up /\ ~swept /\ l \in Entries ~> l \notin accepting \/ Jammed

=============================================================================
