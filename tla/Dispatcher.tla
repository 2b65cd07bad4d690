----------------------------- MODULE Dispatcher ----------------------------
(***************************************************************************)
(* SimpleDispatcher.Dispatch and UrlDispatcher.Dispatch (src/dispatcher.go)*)
(* on the channels of one connection, with the Accept and Reject of        *)
(* crypto/ssh they call and the panic recovery around handlers             *)
(* (src/router/router.go).                                                 *)
(*                                                                         *)
(* A channel type is the set of its defects: what the dispatcher checks    *)
(* for and refuses. Handlers return, fail or panic as they like; the       *)
(* client may close a channel, or leave, at any time.                      *)
(***************************************************************************)
EXTENDS Integers

CONSTANT Chans  \* the channels of the connection

VARIABLES
    kind,       \* the Dispatcher configured, SimpleDispatcher or UrlDispatcher
    recovers,   \* a PanicHandler is configured
    defects,    \* of each channel's type
    pc,         \* the Dispatch goroutine of each channel
    decided,    \* channels with their decided flag set
    told,       \* the answer to each channel open that was sent to the client
    late,       \* channels on which Reject found the channel decided
    closed,     \* channels the client has closed
    open,       \* the server's end of the connection is open
    crashed     \* a panic has ended the process

given == <<kind, recovers, defects>>
chanVars == <<pc, decided, told, late>>
vars == <<given, chanVars, closed, open, crashed>>

-----------------------------------------------------------------------------
\* What UrlDispatcher refuses, in the order it checks, and the reason it gives.
Checks == <<
    [defect |-> "uri",    reason |-> "InvalidChannelType"],
    [defect |-> "scheme", reason |-> "SchemeNotSupported"],
    [defect |-> "user",   reason |-> "UserNotSupported"],
    [defect |-> "host",   reason |-> "HostNotSupported"],
    [defect |-> "query",  reason |-> "InvalidQueryParams"],
    [defect |-> "route",  reason |-> "UnknownChannelType"] >>

Reasons == {Checks[i].reason : i \in DOMAIN Checks}
Defects == {Checks[i].defect : i \in DOMAIN Checks}

\* net/url finds a user or a host in a request URI only behind a scheme. A
\* SimpleDispatcher looks a type up in its map and knows no other defect.
ChannelTypes(k) ==
    IF k = "url"
    THEN {d \in SUBSET Defects : d \cap {"user", "host"} # {} => "scheme" \in d}
    ELSE SUBSET {"route"}

\* What clients are told. ChannelAcceptError and ChannelHandleError are not
\* among it: they are given only after Accept.
Answers == Reasons \cup {"nothing", "confirm"}

TypeOK ==
    /\ kind \in {"simple", "url"}
    /\ recovers \in BOOLEAN
    /\ defects \in [Chans -> ChannelTypes(kind)]
    /\ pc \in [Chans -> {"start", "accept", "handling", "returning",
                     "unwinding", "over"}]
    /\ decided \subseteq Chans
    /\ told \in [Chans -> Answers]
    /\ late \subseteq decided
    /\ closed \subseteq Chans
    /\ open \in BOOLEAN
    /\ crashed \in BOOLEAN

Init ==
    /\ kind \in {"simple", "url"}
    /\ recovers \in BOOLEAN
    /\ defects \in [Chans -> ChannelTypes(kind)]
    /\ pc = [ch \in Chans |-> "start"]
    /\ decided = {}
    /\ told = [ch \in Chans |-> "nothing"]
    /\ late = {}
    /\ closed = {}
    /\ open = TRUE
    /\ crashed = FALSE

-----------------------------------------------------------------------------
\* A message can be sent on the channel.
Writable(ch) == open /\ ch \notin closed

\* channel.Accept and channel.Reject: the first call decides, whether or not
\* its message can be sent; a later one is an error and sends nothing.
Decide(ch, answer) ==
    IF ch \in decided
    THEN late' = late \cup {ch} /\ UNCHANGED <<decided, told>>
    ELSE /\ decided' = decided \cup {ch}
         /\ told' = IF Writable(ch) THEN [told EXCEPT ![ch] = answer] ELSE told
         /\ UNCHANGED late

\* Slips: a refusal that forgets to Reject, as in SimpleDispatcher; an Accept
\* before the route is looked up; a Dispatch without its deferred conn.Close.
RefuseSilently(ch) ==
    /\ kind = "url"
    /\ pc[ch] = "start"
    /\ defects[ch] # {}
    /\ pc' = [pc EXCEPT ![ch] = "returning"]
    /\ UNCHANGED <<given, decided, told, late, closed, open, crashed>>

PassUnrouted(ch) ==
    /\ pc[ch] = "start"
    /\ defects[ch] \subseteq {"route"}
    /\ pc' = [pc EXCEPT ![ch] = "accept"]
    /\ UNCHANGED <<given, decided, told, late, closed, open, crashed>>

ReturnOpen(ch) ==
    /\ pc[ch] \in {"returning", "unwinding"}
    /\ pc' = [pc EXCEPT ![ch] = "over"]
    /\ UNCHANGED <<given, decided, told, late, closed, open, crashed>>

-----------------------------------------------------------------------------
(* Dispatch.                                                               *)

\* The checks of UrlDispatcher: the first defect found is the reason given.
Refuse(ch) ==
    /\ kind = "url"
    /\ pc[ch] = "start"
    /\ \E i \in DOMAIN Checks :
         /\ Checks[i].defect \in defects[ch]
         /\ \A j \in DOMAIN Checks : Checks[j].defect \in defects[ch] => i <= j
         /\ Decide(ch, Checks[i].reason)
    /\ pc' = [pc EXCEPT ![ch] = "returning"]
    /\ UNCHANGED <<given, closed, open, crashed>>

\* SimpleDispatcher returns without a word when it has no handler.
Ignore(ch) ==
    /\ kind = "simple"
    /\ pc[ch] = "start"
    /\ defects[ch] # {}
    /\ pc' = [pc EXCEPT ![ch] = "returning"]
    /\ UNCHANGED <<given, decided, told, late, closed, open, crashed>>

Pass(ch) ==
    /\ pc[ch] = "start"
    /\ defects[ch] = {}
    /\ pc' = [pc EXCEPT ![ch] = "accept"]
    /\ UNCHANGED <<given, decided, told, late, closed, open, crashed>>

Accept(ch) ==
    /\ pc[ch] = "accept"
    /\ Writable(ch)
    /\ Decide(ch, "confirm")
    /\ pc' = [pc EXCEPT ![ch] = "handling"]
    /\ UNCHANGED <<given, closed, open, crashed>>

\* Accept decides, then fails to send; the Reject that follows comes late.
AcceptFails(ch) ==
    /\ pc[ch] = "accept"
    /\ ~Writable(ch)
    /\ decided' = decided \cup {ch}
    /\ late' = late \cup {ch}
    /\ pc' = [pc EXCEPT ![ch] = "returning"]
    /\ UNCHANGED <<given, told, closed, open, crashed>>

HandlerReturns(ch) ==
    /\ pc[ch] = "handling"
    /\ pc' = [pc EXCEPT ![ch] = "returning"]
    /\ UNCHANGED <<given, decided, told, late, closed, open, crashed>>

\* The handler returns an error, which Dispatch means to report.
HandlerFails(ch) ==
    /\ pc[ch] = "handling"
    /\ Decide(ch, "ChannelHandleError")
    /\ pc' = [pc EXCEPT ![ch] = "returning"]
    /\ UNCHANGED <<given, closed, open, crashed>>

\* Router.Handle defers recv if it has a PanicHandler, and returns no error. A
\* recover that is not deferred, as SimpleDispatcher's, recovers nothing: the
\* panic runs the deferred calls of the goroutine and ends the process.
HandlerPanics(ch) ==
    /\ pc[ch] = "handling"
    /\ pc' = [pc EXCEPT ![ch] =
                IF kind = "url" /\ recovers THEN "returning" ELSE "unwinding"]
    /\ UNCHANGED <<given, decided, told, late, closed, open, crashed>>

\* The deferred conn.Close, which a panic runs as well before it ends the
\* process.
Return(ch) ==
    /\ pc[ch] \in {"returning", "unwinding"}
    /\ pc' = [pc EXCEPT ![ch] = "over"]
    /\ open' = FALSE
    /\ crashed' = (pc[ch] = "unwinding")
    /\ UNCHANGED <<given, decided, told, late, closed>>

-----------------------------------------------------------------------------
(* What the mux does with the connection meanwhile.                        *)

\* The client has closed a channel, decided or not.
ClientClosesChannel(ch) ==
    /\ open
    /\ ch \notin closed
    /\ closed' = closed \cup {ch}
    /\ UNCHANGED <<given, chanVars, open, crashed>>

\* The server's end is closed: the client has left, or broken the protocol.
ConnectionEnds ==
    /\ open
    /\ open' = FALSE
    /\ UNCHANGED <<given, chanVars, closed, crashed>>

Dispatch(ch) ==
    \/ Refuse(ch) \/ Ignore(ch) \/ Pass(ch) \/ Accept(ch) \/ AcceptFails(ch)
    \/ HandlerReturns(ch) \/ HandlerFails(ch) \/ HandlerPanics(ch) \/ Return(ch)

Next ==
    \/ /\ ~crashed
       /\ \/ \E ch \in Chans : Dispatch(ch) \/ ClientClosesChannel(ch)
          \/ ConnectionEnds
    \/ /\ crashed \/ \A ch \in Chans : pc[ch] = "over"
       /\ UNCHANGED vars

Spec == Init /\ [][Next]_vars

-----------------------------------------------------------------------------
\* UrlDispatcher returns from no channel that it has not decided, so that the
\* client has its answer (NewChannel: "must either be accepted ... or rejected");
\* SimpleDispatcher does not when it has no handler.
EveryChannelDecided ==
    kind = "url" => \A ch \in Chans : pc[ch] \in {"returning", "over"} => ch \in decided

\* What the client is told is true of the type it asked for, and a handler runs
\* on a channel, or has run, only if its type passed every check and the client
\* was told so; a failed Accept leaves the client untold.
Truthful ==
    \A ch \in Chans :
      /\ told[ch] \in Reasons =>
           \E i \in DOMAIN Checks :
             Checks[i].reason = told[ch] /\ Checks[i].defect \in defects[ch]
      /\ pc[ch] = "handling" => told[ch] = "confirm"
      /\ told[ch] = "confirm" => defects[ch] = {}
      /\ ch \in late => told[ch] \in {"confirm", "nothing"}

\* With a PanicHandler, a panic of a handler that UrlDispatcher runs does not take
\* the process, and with it every other connection, down (Router.Handle's recv).
PanicContained == kind = "url" /\ recovers => ~crashed

\* Each Dispatch does what the server relies on.
Life(ch) == INSTANCE DispatchLife WITH
    phase <- CASE pc[ch] \in {"start", "accept"} -> "begun"
               [] pc[ch] = "unwinding" -> "returning"
               [] OTHER -> pc[ch]

Lives ==
    /\ \A ch \in Chans : Life(ch)!Init
    /\ [][\A ch \in Chans : [Life(ch)!Next]_(Life(ch)!vars)]_vars

-----------------------------------------------------------------------------
\* What every step of a Dispatch preserves, beside the types: a channel that is
\* being handled, or was told anything, is decided; one that is not decided has
\* been told nothing.
IInv ==
    /\ TypeOK
    /\ Truthful
    /\ \A ch \in Chans :
         /\ pc[ch] \in {"handling", "unwinding"} => ch \in decided
         /\ pc[ch] \in {"start", "accept"} => ch \notin decided
         /\ pc[ch] = "accept" => defects[ch] = {}
         /\ ch \notin decided => told[ch] = "nothing"

=============================================================================
