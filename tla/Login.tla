------------------------------- MODULE Login -------------------------------
(***************************************************************************)
(* User authentication at both ends of an SSH connection (crypto/ssh:      *)
(* serverHandshake after the first exchange of keys, serverAuthenticate    *)
(* with its cache of public keys, clientAuthenticate and its methods).     *)
(*                                                                         *)
(* The client is either the one of this package, or any other: then it     *)
(* sends whatever requests it likes, signed with the keys it holds.  What  *)
(* the callbacks of the server say is decided when they are called, so     *)
(* that two calls may differ.  Permissions are the call that gave them: a  *)
(* call is the user, the method, the key and the answer.                   *)
(***************************************************************************)
EXTENDS Integers, FiniteSets

CONSTANTS
    Users,      \* user names
    Self,       \* the user of this package's client
    Keys,       \* public keys
    Odd,        \* those of an algorithm the server does not accept
    CacheSize,  \* maxCachedPubKeys
    Rounds,     \* challenges of one keyboard-interactive attempt (a bound)
    None

Methods == {"password", "publickey", "keyboard-interactive"}

\* What callbacks are asked and say, and the packets of the two directions; sig is
\* "query" when a request only asks about a key.
Calls == [user : Users \cup {None}, method : Methods, key : Keys \cup {None}, ok : BOOLEAN]
ToServer ==
    [t : {"service", "request", "answers", "junk"}, user : Users \cup {None},
     method : Methods \cup {"none", "unknown", None}, key : Keys \cup {None},
     sig : {"query", "format", "bad", "good", None}]
ToClient ==
    [t : {"accept", "success", "failure", "pkok", "info"}, key : Keys \cup {None}]

ASSUME LoginAssumption ==
    /\ Self \in Users
    /\ Odd \subseteq Keys
    /\ CacheSize \in Nat
    /\ Rounds \in Nat
    /\ None \notin Users \cup Keys \cup Methods \cup {"query", "format", "bad", "good"}
    /\ None \notin Calls \cup ToServer \cup ToClient

VARIABLES
    has,        \* methods the server has a callback for
    noAuth,     \* NoClientAuth
    honest,     \* the client is the one of this package
    mine,       \* methods the client has
    signers,    \* keys it holds
    s,          \* serverAuthenticate
    cache,      \* the public keys it has asked about, with the answers
    rounds,     \* challenges it has sent in this attempt
    user,       \* s.user
    perms,      \* the call that accepted, or None
    refused,    \* the calls that refused this package's client
    c,          \* clientAuthenticate
    tried,      \* methods it has tried
    offered,    \* methods the server has offered last
    checked,    \* keys it has asked about
    valid,      \* those it may still sign with
    key,        \* the key it has asked about or signed with
    toServer,   \* the packet on its way to the server, or None
    toClient,   \* and to the client
    connected   \* the connection is up

config    == <<has, noAuth, honest, mine, signers>>
server    == <<s, cache, rounds, user, perms, refused>>
client    == <<c, tried, offered, checked, valid, key>>
loginVars == <<config, server, client, toServer, toClient, connected>>

Request(u, m, k, sig) ==
    [t |-> "request", user |-> u, method |-> m, key |-> k, sig |-> sig]
Plain(t) == [t |-> t, user |-> None, method |-> None, key |-> None, sig |-> None]

Call(ok) == [user |-> toServer.user, method |-> toServer.method, key |-> toServer.key, ok |-> ok]

LoginInit ==
    /\ honest \in BOOLEAN
    /\ has \in SUBSET Methods
    /\ noAuth \in BOOLEAN
    /\ mine \in IF honest THEN SUBSET Methods ELSE {{}}
    /\ signers \in SUBSET Keys
    /\ s = "service" /\ cache = {} /\ rounds = 0
    /\ user = None /\ perms = None /\ refused = {}
    /\ c = IF honest THEN "service" ELSE "any"
    /\ tried = {} /\ offered = {} /\ checked = {} /\ valid = {} /\ key = None
    /\ toServer = IF honest THEN Plain("service") ELSE None
    /\ toClient = None
    /\ connected = TRUE

-----------------------------------------------------------------------------
\* The server reads a packet, and answers it.
Reads(state) == s = state /\ connected /\ toServer # None

\* (Mutant: success is not sent.)
AnswersNoSuccess(t, k) ==
    /\ toServer' = None
    /\ toClient' = IF honest /\ t # "success" THEN [t |-> t, key |-> k] ELSE None
    /\ UNCHANGED connected

Answers(t, k) ==
    /\ toServer' = None
    /\ toClient' = IF honest THEN [t |-> t, key |-> k] ELSE None
    /\ UNCHANGED connected

\* It gives up, and the connection is closed.
GivesUp ==
    /\ s' = "failed" /\ connected' = FALSE /\ toServer' = None
    /\ UNCHANGED <<toClient, user, perms>>

\* The end of an attempt: success, or the methods that may be tried.
Concludes(ok, u, p) ==
    IF ~ok /\ has = {} THEN GivesUp
    ELSE /\ s' = IF ok THEN "ok" ELSE "loop"
         /\ user' = u
         /\ perms' = IF ok THEN p ELSE None
         /\ Answers(IF ok THEN "success" ELSE "failure", None)

Refused(call) == refused' = IF honest /\ ~call.ok THEN refused \cup {call} ELSE refused

Asked(m) == Reads("loop") /\ toServer.t = "request" /\ toServer.method = m

\* serverHandshake: the client asks for the service.
ServeService ==
    /\ Reads("service")
    /\ IF toServer.t = "service"
       THEN s' = "loop" /\ Answers("accept", None) /\ UNCHANGED <<user, perms>>
       ELSE GivesUp
    /\ UNCHANGED <<config, client, cache, rounds, refused>>

ServeNone ==
    /\ Asked("none")
    /\ Concludes(noAuth, IF noAuth THEN None ELSE toServer.user, None)
    /\ UNCHANGED <<config, client, cache, rounds, refused>>

\* A method nobody knows, or one without a callback.
ServeUnknown ==
    /\ \E m \in (Methods \ has) \cup {"unknown"} : Asked(m)
    /\ Concludes(FALSE, toServer.user, None)
    /\ UNCHANGED <<config, client, cache, rounds, refused>>

ServePassword ==
    /\ Asked("password") /\ "password" \in has
    /\ \E ok \in BOOLEAN : Refused(Call(ok)) /\ Concludes(ok, toServer.user, Call(ok))
    /\ UNCHANGED <<config, client, cache, rounds>>

\* pubKeyCache.get.  (Mutant: whoever the key was asked for.)
CachedForAnyone == {x \in cache : x.key = toServer.key}

Cached == {x \in cache : x.user = toServer.user /\ x.key = toServer.key}

\* The verdict on the key: that of the cache, or that of the callback, which
\* also looks at the address the client calls from.
Verdicts == IF Cached # {} THEN Cached ELSE {Call(ok) : ok \in BOOLEAN}

Remember(candidate) ==
    /\ cache' = IF Cardinality(cache) < CacheSize THEN cache \cup {candidate} ELSE cache
    /\ IF Cached = {} THEN Refused(candidate) ELSE UNCHANGED refused

\* A request about a key, or one signed with it.
ServeKey ==
    /\ Asked("publickey") /\ "publickey" \in has
    /\ IF toServer.key \in Odd
       THEN Concludes(FALSE, toServer.user, None) /\ UNCHANGED <<cache, refused>>
       ELSE \E candidate \in Verdicts :
            /\ Remember(candidate)
            /\ CASE toServer.sig = "query" /\ candidate.ok ->
                        /\ Answers("pkok", toServer.key)
                        /\ user' = toServer.user /\ perms' = None
                        /\ UNCHANGED s
                 [] toServer.sig = "query" /\ ~candidate.ok -> Concludes(FALSE, toServer.user, None)
                 [] toServer.sig = "format" -> Concludes(FALSE, toServer.user, None)
                 [] toServer.sig = "bad" -> GivesUp
                 [] toServer.sig = "good" -> Concludes(candidate.ok, toServer.user, candidate)
    /\ UNCHANGED <<config, client, rounds>>

\* The callback challenges the client or has its verdict; while it waits for
\* the answers, `toServer' may be any packet, and all but answers are errors
\* it is told of (a callback that accepts all the same is left out).
ServeInteractive ==
    /\ \/ Asked("keyboard-interactive") /\ "keyboard-interactive" \in has
       \/ Reads("answer")
    /\ LET u == IF s = "answer" THEN user ELSE toServer.user
           call(ok) == [user |-> u, method |-> "keyboard-interactive", key |-> None, ok |-> ok]
       IN  \/ /\ s = "answer" => toServer.t = "answers"
              /\ rounds < Rounds
              /\ rounds' = rounds + 1
              /\ s' = "answer" /\ user' = u
              /\ Answers("info", None)
              /\ UNCHANGED <<perms, refused>>
           \/ \E ok \in BOOLEAN :
              /\ ok => (s = "answer" => toServer.t = "answers")
              /\ rounds' = 0
              /\ Refused(call(ok))
              /\ Concludes(ok, u, call(ok))
    /\ UNCHANGED <<config, client, cache>>

\* A packet that is no request, or one that cannot be parsed.
ServeOther ==
    /\ Reads("loop") /\ toServer.t # "request"
    /\ GivesUp
    /\ UNCHANGED <<config, client, cache, rounds, refused>>

\* The connection is gone.
ServeLost ==
    /\ s \in {"service", "loop", "answer"} /\ ~connected
    /\ s' = "failed"
    /\ UNCHANGED <<config, client, cache, rounds, user, perms, refused,
                   toServer, toClient, connected>>

-----------------------------------------------------------------------------
\* This package's client.
Gets(state, t) == c = state /\ toClient # None /\ toClient.t = t

ClientSends(packet) == toServer' = packet /\ toClient' = None /\ UNCHANGED connected

\* It returns an error, and its caller closes the connection.
Errs(state) == c' = state /\ connected' = FALSE /\ toClient' = None /\ UNCHANGED toServer

\* The methods that may still be tried: those offered last, and not by a method
\* that brought none.  (Mutant: a failed one is not noted.)
Last(methods) == IF methods = {} THEN offered ELSE methods
TriedForgotten(method) == tried
TriedWith(method) == tried \cup {method}

\* The loop of clientAuthenticate: `method' has failed; the next is any that
\* is configured, offered and untried.
Fails(method, methods) ==
    LET last == Last(methods)
        next == (mine \cap last) \ TriedWith(method)
    IN  /\ tried' = TriedWith(method)
        /\ offered' = last
        /\ \/ next = {} /\ Errs("failed")
           \/ \E m \in next \ {"publickey"} :
                c' = m /\ ClientSends(Request(Self, m, None, None))
           \/ "password" \in next /\ Errs("err")      \* no password from its user
           \/ /\ "publickey" \in next
              /\ c' = "keys" /\ toClient' = None /\ UNCHANGED <<toServer, connected>>

ClientService ==
    /\ Gets("service", "accept")
    /\ c' = "none" /\ ClientSends(Request(Self, "none", None, None))
    /\ UNCHANGED <<config, server, tried, offered, checked, valid, key>>

\* handleAuthResponse, after "none", a password or a signature.
Awaits == {"none", "password", "signed", "keyboard-interactive"}

ClientSuccess ==
    /\ \E w \in Awaits : Gets(w, "success")
    /\ c' = "ok" /\ toClient' = None
    /\ UNCHANGED <<config, server, tried, offered, checked, valid, key, toServer, connected>>

ClientFailure ==
    /\ \E w \in Awaits \ {"signed"} : Gets(w, "failure") /\ Fails(w, has)
    /\ UNCHANGED <<config, server, checked, valid, key>>

\* publicKeyCallback.auth asks about every key, then signs with those that
\* would do, until one is accepted.
ClientKeys ==
    /\ c = "keys" \/ Gets("signed", "failure")
    /\ LET methods == IF c = "signed" THEN has ELSE {}
       IN  \/ \E k \in signers \ checked :
              /\ c' = "ack" /\ key' = k /\ checked' = checked \cup {k}
              /\ ClientSends(Request(Self, "publickey", k, "query"))
              /\ UNCHANGED <<valid, tried, offered>>
           \/ \E k \in valid :
              /\ signers \subseteq checked
              /\ c' = "signed" /\ key' = k /\ valid' = valid \ {k}
              /\ ClientSends(Request(Self, "publickey", k, "good"))
              /\ UNCHANGED <<checked, tried, offered>>
           \/ /\ signers \subseteq checked /\ valid = {}
              /\ Fails("publickey", methods)
              /\ UNCHANGED <<checked, valid, key>>
    /\ UNCHANGED <<config, server>>

\* confirmKeyAck.
ClientAck ==
    /\ Gets("ack", "pkok") \/ Gets("ack", "failure")
    /\ c' = "keys" /\ toClient' = None
    /\ valid' = IF toClient.t = "pkok" /\ toClient.key = key THEN valid \cup {key} ELSE valid
    /\ UNCHANGED <<config, server, tried, offered, checked, key, toServer, connected>>

\* Its user answers the challenge, or does not.
ClientChallenge ==
    /\ Gets("keyboard-interactive", "info")
    /\ \/ ClientSends(Plain("answers")) /\ UNCHANGED c
       \/ Errs("err")
    /\ UNCHANGED <<config, server, tried, offered, checked, valid, key>>

Ended == {"ok", "failed", "err"}

Awaited(state) ==
    CASE state = "service" -> {"accept"}
      [] state = "ack" -> {"pkok", "failure"}
      [] state = "keyboard-interactive" -> {"info", "success", "failure"}
      [] OTHER -> {"success", "failure"}

\* A packet it does not expect, or no connection.
ClientErrs ==
    /\ c \notin Ended \cup {"any", "keys"}
    /\ IF toClient # None THEN toClient.t \notin Awaited(c) ELSE ~connected
    /\ Errs("err")
    /\ UNCHANGED <<config, server, tried, offered, checked, valid, key>>

-----------------------------------------------------------------------------
\* Any other client sends every packet there is, signed only with its own keys.
AnySends ==
    /\ c = "any" /\ connected /\ toServer = None /\ s \notin {"ok", "failed"}
    /\ \/ \E t \in {"service", "answers", "junk"} : toServer' = Plain(t)
       \/ \E u \in Users, m \in {"none", "password", "keyboard-interactive", "unknown"} :
            toServer' = Request(u, m, None, None)
       \/ \E u \in Users, k \in Keys, sig \in {"query", "format", "bad", "good"} :
            /\ sig = "good" => k \in signers
            /\ toServer' = Request(u, "publickey", k, sig)
    /\ UNCHANGED <<config, server, client, toClient, connected>>

\* The connection breaks.
Disconnect ==
    /\ connected /\ c \notin Ended
    /\ connected' = FALSE
    /\ UNCHANGED <<config, server, client, toServer, toClient>>

ServerStep ==
    \/ ServeService \/ ServeNone \/ ServeUnknown \/ ServePassword \/ ServeKey
    \/ ServeInteractive \/ ServeOther \/ ServeLost
ClientStep ==
    \/ ClientService \/ ClientSuccess \/ ClientFailure \/ ClientKeys \/ ClientAck
    \/ ClientChallenge \/ ClientErrs

LoginOver == (c \in Ended \cup {"any"}) /\ s \in {"ok", "failed"} /\ UNCHANGED loginVars

LoginNext == ServerStep \/ ClientStep \/ AnySends \/ Disconnect \/ LoginOver

LoginSpec == LoginInit /\ [][LoginNext]_loginVars

\* Neither end is idle while it has something to do.
LoginFairness == WF_loginVars(ServerStep) /\ WF_loginVars(ClientStep)
FairLogin == LoginSpec /\ LoginFairness

-----------------------------------------------------------------------------
\* Nobody is let in but by a callback that accepted that very user, with that
\* method and, for a key, on a signature of its owner; whatever the client has
\* asked before, about whom and in which order (the cache of server.go:109,
\* the reset of perms at 281).
Vouched ==
    s = "ok" =>
        IF perms = None THEN noAuth /\ user = None
        ELSE /\ perms.ok /\ perms.user = user /\ perms.method \in has
             /\ perms.method = "publickey" => perms.key \in signers \ Odd

\* The two ends agree on the outcome: the client believes it is in only when
\* the server has let it in under its name (or without one), and a server that
\* has let it in has told it so.
Agreement ==
    honest =>
        /\ c = "ok" => s = "ok" /\ user = (IF perms = None THEN None ELSE Self)
        /\ s = "ok" /\ connected => \/ c = "ok"
                                    \/ toClient # None /\ toClient.t = "success"

\* The client stops trying only when there is nothing left to try: every
\* method both ends have was refused, and for keys every key (client_auth.go:26,
\* "any untried methods suggested by the server").
TriesAll ==
    c = "failed" =>
        /\ ~noAuth
        /\ \A m \in mine \cap has :
             IF m = "publickey"
             THEN \A k \in signers \ Odd :
                    [user |-> Self, method |-> m, key |-> k, ok |-> FALSE] \in refused
             ELSE [user |-> Self, method |-> m, key |-> None, ok |-> FALSE] \in refused

\* This client's outcome is the server's, and it has done what it can.
OutcomeTrue == Agreement /\ TriesAll

\* Whatever the callbacks say, this client's login comes to an end.
LoginEnds == honest ~> c \in Ended

=============================================================================
