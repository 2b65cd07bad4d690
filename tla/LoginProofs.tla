---------------------------- MODULE LoginProofs ----------------------------
(***************************************************************************)
(* Proofs, for any users, keys, methods and callbacks and any client, that *)
(* serverAuthenticate lets nobody in unless a callback vouched for just    *)
(* that, that this package's client and the server agree on the outcome,   *)
(* and that this client gives up only when all has been tried and refused. *)
(*                                                                         *)
(* For the first, whatever accepts is a call of this very attempt, or one  *)
(* of the cache, which Typed and OfKeys tie to the user and the key of the *)
(* request; a good signature is by a key the client holds (Signed).  For   *)
(* the second, client and server take turns (Turns).  For the last, what   *)
(* the server reads is what the client waits for (Matches), each failure   *)
(* has a refusal for its reason, that of the cache included (Told), and    *)
(* every method and key that has been tried has been refused (Tried).      *)
(***************************************************************************)
EXTENDS Login, TLAPS

\* The types of the variables.
Typed ==
    /\ has \subseteq Methods /\ noAuth \in BOOLEAN /\ honest \in BOOLEAN
    /\ mine \subseteq Methods /\ signers \subseteq Keys
    /\ s \in {"service", "loop", "answer", "ok", "failed"}
    /\ cache \subseteq Calls
    /\ user \in Users \cup {None} /\ perms \in Calls \cup {None}
    /\ valid \subseteq signers /\ key \in Keys \cup {None} /\ (c = "ack" => key \in signers)
    /\ toServer \in ToServer \cup {None} /\ toClient \in ToClient \cup {None}
    /\ connected \in BOOLEAN

\* The cache holds what the callback for keys has said.
OfKeys == \A x \in cache : x.method = "publickey"

\* Nobody signs with a key that is not his, and a request about a key says what it is.
Signed ==
    toServer # None =>
        /\ toServer.sig = "good" => toServer.key \in signers
        /\ toServer.method = "publickey" => toServer.sig # None

\* This package's client asks in its own name and waits for the answer; while it
\* looks for its next key it has none to come.
Turns ==
    honest =>
        /\ c # "any"
        /\ toServer # None =>
             /\ toClient = None /\ s # "ok" /\ c # "ok"
             /\ toServer.t = "request" => toServer.user = Self
        /\ toClient # None => (toClient.t = "success" <=> s = "ok") /\ c # "keys" /\ c # "ok"
        /\ s = "answer" => user = Self
        /\ c = "keys" => s # "ok" /\ toServer = None
        /\ c = "ok" => s = "ok"
        /\ s = "ok" => user = (IF perms = None THEN None ELSE Self)
        /\ s = "ok" /\ connected => c = "ok" \/ toClient # None

\* Only a server with a callback for it challenges.
Challenged == s = "answer" => "keyboard-interactive" \in has

IInv == Typed /\ OfKeys /\ Signed /\ Challenged /\ Vouched /\ Turns

-----------------------------------------------------------------------------
\* A packet has its fields.
LEMMA PacketFields ==
    ASSUME Typed, toServer # None
    PROVE  /\ toServer.user \in Users \cup {None} /\ toServer.key \in Keys \cup {None}
           /\ toServer \in ToServer
BY DEF Typed, ToServer

\* The packets that the server, and both kinds of client, make.
LEMMA AnswersTyped ==
    \A t \in {"accept", "success", "failure", "pkok", "info"}, k \in Keys \cup {None} :
        [t |-> t, key |-> k] \in ToClient
BY DEF ToClient

LEMMA RequestsTyped ==
    /\ \A m \in Methods \cup {"none", "unknown"}, u \in Users, k \in Keys \cup {None},
          sig \in {"query", "format", "bad", "good", None} :
          Request(u, m, k, sig) \in ToServer
    /\ \A t \in {"service", "answers", "junk"} : Plain(t) \in ToServer
BY LoginAssumption DEF Request, Plain, ToServer

\* What the end of an attempt does to the server, when the one who is let in, if he
\* is, has been vouched for.
LEMMA ConcludesWell ==
    ASSUME IInv, NEW ok \in BOOLEAN, NEW u \in Users \cup {None}, NEW p \in Calls \cup {None},
           connected, toServer # None, s \in {"loop", "answer"},
           Concludes(ok, u, p), UNCHANGED <<config, client>>,
           cache' \subseteq Calls, OfKeys',
           ok => \/ p = None /\ noAuth /\ u = None
                 \/ /\ p # None /\ p.ok /\ p.user = u /\ p.method \in has
                    /\ p.method = "publickey" => p.key \in signers \ Odd,
           honest /\ ok => u = (IF p = None THEN None ELSE Self)
    PROVE  IInv'
<1>1. CASE ~ok /\ has = {}
  <2>1. /\ s' = "failed" /\ connected' = FALSE /\ toServer' = None
        /\ UNCHANGED <<toClient, user, perms, config, client>>
        BY <1>1 DEF Concludes, GivesUp
  <2>2. Typed'
        BY <2>1 DEF IInv, Typed, config, client
  <2>3. Signed' /\ Vouched'
        BY <2>1 DEF Signed, Vouched
  <2>6. Challenged'
        BY <2>1 DEF Challenged
  <2>4. honest => toClient = None /\ c # "ok" /\ c # "any"
        BY DEF IInv, Turns
  <2>5. Turns'
        BY <2>1, <2>4 DEF Turns, config, client
  <2> QED
      BY <2>1, <2>2, <2>3, <2>5, <2>6 DEF IInv, OfKeys
<1>2. CASE ok \/ has # {}
  <2>1. /\ s' = (IF ok THEN "ok" ELSE "loop") /\ user' = u
        /\ perms' = (IF ok THEN p ELSE None)
        /\ toServer' = None /\ connected' = connected
        /\ toClient' = IF honest THEN [t |-> IF ok THEN "success" ELSE "failure", key |-> None]
                                 ELSE None
        /\ UNCHANGED <<config, client>>
        BY <1>2 DEF Concludes, Answers
  <2>2. [t |-> IF ok THEN "success" ELSE "failure", key |-> None] \in ToClient
        BY AnswersTyped
  <2>3. Typed'
        BY <2>1, <2>2 DEF IInv, Typed, config, client
  <2>4. Vouched'
        BY <2>1 DEF Vouched, config
  <2>5. Turns'
    <3>1. toClient' # None <=> honest
          BY <2>1, <2>2, LoginAssumption
    <3>2. honest => (toClient'.t = "success" <=> ok)
          BY <2>1
    <3>3. honest => c # "ok" /\ c # "keys" /\ c # "any"
          BY DEF IInv, Turns
    <3> QED
        BY <2>1, <3>1, <3>2, <3>3 DEF Turns, config, client
  <2>6. Signed'
        BY <2>1 DEF Signed
  <2>7. Challenged'
        BY <2>1 DEF Challenged
  <2> QED
      BY <2>3, <2>4, <2>5, <2>6, <2>7 DEF IInv
<1> QED
    BY <1>1, <1>2

-----------------------------------------------------------------------------
(* The server.                                                             *)

\* It gives up: nobody has been let in, and the client reads nothing more.
LEMMA GivesUpWell ==
    ASSUME IInv, toServer # None, s \in {"service", "loop", "answer"},
           GivesUp, UNCHANGED <<config, client>>, cache' \subseteq Calls, OfKeys'
    PROVE  IInv'
<1>1. /\ s' = "failed" /\ connected' = FALSE /\ toServer' = None
      /\ UNCHANGED <<toClient, user, perms, config, client>>
      BY DEF GivesUp
<1>2. Typed'
      BY <1>1 DEF IInv, Typed, config, client
<1>3. Signed' /\ Vouched'
      BY <1>1 DEF Signed, Vouched
<1>6. Challenged'
      BY <1>1 DEF Challenged
<1>4. honest => toClient = None /\ c # "ok" /\ c # "any"
      BY DEF IInv, Turns
<1>5. Turns'
      BY <1>1, <1>4 DEF Turns, config, client
<1> QED
    BY <1>2, <1>3, <1>5, <1>6 DEF IInv

\* It answers, and goes on: with the attempt, or with the next one.
LEMMA AnswersWell ==
    ASSUME IInv, connected, toServer # None, s \in {"service", "loop", "answer"},
           s' \in {"loop", "answer"}, user' \in Users \cup {None}, perms' \in {perms, None},
           NEW t \in {"accept", "pkok", "info"}, NEW k \in Keys \cup {None}, Answers(t, k),
           s' = "answer" => /\ "keyboard-interactive" \in has
                            /\ honest => user' = Self,
           cache' \subseteq Calls, OfKeys', UNCHANGED <<config, client>>
    PROVE  IInv'
<1>1. /\ toServer' = None /\ connected' = connected
      /\ toClient' = IF honest THEN [t |-> t, key |-> k] ELSE None
      BY DEF Answers
<1>2. [t |-> t, key |-> k] \in ToClient
      BY AnswersTyped
<1>3. Typed'
      BY <1>1, <1>2 DEF IInv, Typed, config, client
<1>4. Signed' /\ Vouched'
      BY <1>1 DEF Signed, Vouched
<1>8. Challenged'
      BY DEF Challenged, config
<1>5. honest => c # "ok" /\ c # "keys" /\ c # "any"
      BY DEF IInv, Turns
<1>6. honest => toClient'.t # "success"
      BY <1>1
<1>7. Turns'
      BY <1>1, <1>5, <1>6 DEF Turns, config, client
<1> QED
    BY <1>3, <1>4, <1>7, <1>8 DEF IInv

\* A request is in the name of the client, if it is this package's.
LEMMA Named ==
    ASSUME IInv, NEW m, Asked(m)
    PROVE  /\ connected /\ toServer # None /\ s = "loop" /\ toServer.method = m
           /\ toServer.user \in Users \cup {None} /\ toServer.key \in Keys \cup {None}
           /\ honest => toServer.user = Self
BY PacketFields DEF IInv, Asked, Reads, Turns

LEMMA ServeServiceWell ==
    ASSUME IInv, ServeService
    PROVE  IInv'
<1>1. connected /\ toServer # None /\ s = "service" /\ UNCHANGED <<config, client, cache>>
      BY DEF ServeService, Reads
<1>2. CASE toServer.t = "service"
  <2>1. s' = "loop" /\ Answers("accept", None) /\ UNCHANGED <<user, perms>>
        BY <1>2 DEF ServeService
  <2>2. user' \in Users \cup {None} /\ cache' \subseteq Calls /\ OfKeys'
        BY <1>1, <2>1 DEF IInv, Typed, OfKeys
  <2> QED
      BY <1>1, <2>1, <2>2, AnswersWell
<1>3. CASE toServer.t # "service"
  <2>1. cache' \subseteq Calls /\ OfKeys'
        BY <1>1 DEF IInv, Typed, OfKeys
  <2> QED
      BY <1>1, <1>3, <2>1, GivesUpWell DEF ServeService
<1> QED
    BY <1>2, <1>3

LEMMA ServeNoneWell ==
    ASSUME IInv, ServeNone
    PROVE  IInv'
<1>1. /\ connected /\ toServer # None /\ s = "loop"
      /\ toServer.user \in Users \cup {None}
      BY Named DEF ServeNone
<1>2. /\ Concludes(noAuth, IF noAuth THEN None ELSE toServer.user, None)
      /\ UNCHANGED <<config, client, cache>>
      BY DEF ServeNone
<1>3. cache' \subseteq Calls /\ OfKeys' /\ noAuth \in BOOLEAN
      BY <1>2 DEF IInv, Typed, OfKeys
<1> DEFINE u == IF noAuth THEN None ELSE toServer.user
<1>4. u \in Users \cup {None} /\ (noAuth => u = None)
      BY <1>1
<1> HIDE DEF u
<1>5. Concludes(noAuth, u, None)
      BY <1>2 DEF u
<1> QED
    BY <1>1, <1>2, <1>3, <1>4, <1>5, ConcludesWell

LEMMA ServeUnknownWell ==
    ASSUME IInv, ServeUnknown
    PROVE  IInv'
<1>1. /\ connected /\ toServer # None /\ s = "loop"
      /\ toServer.user \in Users \cup {None}
      BY Named DEF ServeUnknown
<1>2. Concludes(FALSE, toServer.user, None) /\ UNCHANGED <<config, client, cache>>
      BY DEF ServeUnknown
<1>3. cache' \subseteq Calls /\ OfKeys'
      BY <1>2 DEF IInv, Typed, OfKeys
<1> QED
    BY <1>1, <1>2, <1>3, ConcludesWell

LEMMA ServePasswordWell ==
    ASSUME IInv, ServePassword
    PROVE  IInv'
<1>1. /\ connected /\ toServer # None /\ s = "loop" /\ toServer.method = "password"
      /\ toServer.user \in Users \cup {None} /\ toServer.key \in Keys \cup {None}
      /\ honest => toServer.user = Self
      BY Named DEF ServePassword
<1>2. "password" \in has /\ UNCHANGED <<config, client, cache>>
      BY DEF ServePassword
<1>3. PICK ok \in BOOLEAN : Concludes(ok, toServer.user, Call(ok))
      BY DEF ServePassword
<1>4. /\ Call(ok) \in Calls /\ Call(ok).ok = ok /\ Call(ok).user = toServer.user
      /\ Call(ok).method = "password"
      BY <1>1 DEF Call, Calls, Methods
<1>5. Call(ok) # None
      BY <1>4, LoginAssumption
<1>6. cache' \subseteq Calls /\ OfKeys'
      BY <1>2 DEF IInv, Typed, OfKeys
<1> QED
    BY <1>1, <1>2, <1>3, <1>4, <1>5, <1>6, ConcludesWell


\* The verdict on a key is about the user and the key of the request, and whether
\* it is from the cache or not, the callback has given it.
LEMMA Verdict ==
    ASSUME IInv, Asked("publickey"), toServer.key \notin Odd, NEW x \in Verdicts
    PROVE  /\ x \in Calls /\ x.user = toServer.user /\ x.key = toServer.key
           /\ x.method = "publickey" /\ x.ok \in BOOLEAN
<1>1. /\ toServer.method = "publickey"
      /\ toServer.user \in Users \cup {None} /\ toServer.key \in Keys \cup {None}
      BY Named
<1>2. CASE Cached # {}
  <2>1. x \in cache /\ x.user = toServer.user /\ x.key = toServer.key
        BY <1>2 DEF Verdicts, Cached
  <2> QED
      BY <2>1 DEF IInv, Typed, OfKeys, Calls
<1>3. CASE Cached = {}
  <2>1. PICK ok \in BOOLEAN : x = Call(ok)
        BY <1>3 DEF Verdicts
  <2> QED
      BY <1>1, <2>1 DEF Call, Calls, Methods
<1> QED
    BY <1>2, <1>3

LEMMA ServeKeyWell ==
    ASSUME IInv, ServeKey
    PROVE  IInv'
<1>1. /\ connected /\ toServer # None /\ s = "loop"
      /\ toServer.user \in Users \cup {None} /\ toServer.key \in Keys \cup {None}
      /\ honest => toServer.user = Self
      BY Named DEF ServeKey
<1>2. "publickey" \in has /\ UNCHANGED <<config, client>>
      BY DEF ServeKey
<1>3. CASE toServer.key \in Odd
  <2>1. Concludes(FALSE, toServer.user, None) /\ UNCHANGED cache
        BY <1>3 DEF ServeKey
  <2>2. cache' \subseteq Calls /\ OfKeys'
        BY <2>1 DEF IInv, Typed, OfKeys
  <2> QED
      BY <1>1, <1>2, <2>1, <2>2, ConcludesWell
<1>4. CASE toServer.key \notin Odd
  <2>1. toServer.sig \in {"query", "format", "bad", "good"}
        BY <1>1, PacketFields, Named DEF IInv, Signed, ServeKey, ToServer
  <2>2. PICK x \in Verdicts :
            /\ Remember(x)
            /\ CASE toServer.sig = "query" /\ x.ok ->
                        /\ Answers("pkok", toServer.key)
                        /\ user' = toServer.user /\ perms' = None
                        /\ UNCHANGED s
                 [] toServer.sig = "query" /\ ~x.ok -> Concludes(FALSE, toServer.user, None)
                 [] toServer.sig = "format" -> Concludes(FALSE, toServer.user, None)
                 [] toServer.sig = "bad" -> GivesUp
                 [] toServer.sig = "good" -> Concludes(x.ok, toServer.user, x)
        BY <1>4 DEF ServeKey
  <2>3. /\ x \in Calls /\ x.user = toServer.user /\ x.key = toServer.key
        /\ x.method = "publickey" /\ x.ok \in BOOLEAN
        BY <1>4, <2>2, Verdict DEF ServeKey
  <2>4. cache' \in {cache, cache \cup {x}}
        BY <2>2 DEF Remember
  <2>5. cache' \subseteq Calls /\ OfKeys'
        BY <2>3, <2>4 DEF IInv, Typed, OfKeys
  <2>6. CASE toServer.sig = "query" /\ x.ok
    <3>1. /\ Answers("pkok", toServer.key)
          /\ user' = toServer.user /\ perms' = None /\ s' = s
          BY <2>2, <2>6
    <3> QED
        BY <1>1, <1>2, <2>5, <3>1, AnswersWell
  <2>7. CASE (toServer.sig = "query" /\ ~x.ok) \/ toServer.sig = "format"
    <3>1. Concludes(FALSE, toServer.user, None)
          BY <2>2, <2>7
    <3> QED
        BY <1>1, <1>2, <2>5, <3>1, ConcludesWell
  <2>8. CASE toServer.sig = "bad"
    <3>1. GivesUp
          BY <2>2, <2>8
    <3> QED
        BY <1>1, <1>2, <2>5, <3>1, GivesUpWell
  <2>9. CASE toServer.sig = "good"
    <3>1. Concludes(x.ok, toServer.user, x)
          BY <2>2, <2>9
    <3>2. x # None /\ x.key \in signers \ Odd
          BY <1>1, <1>4, <2>3, <2>9, LoginAssumption DEF IInv, Signed
    <3> QED
        BY <1>1, <1>2, <2>3, <2>5, <3>1, <3>2, ConcludesWell
  <2> QED
      BY <2>1, <2>3, <2>6, <2>7, <2>8, <2>9
<1> QED
    BY <1>3, <1>4

LEMMA ServeInteractiveWell ==
    ASSUME IInv, ServeInteractive
    PROVE  IInv'
<1> DEFINE u == IF s = "answer" THEN user ELSE toServer.user
           call(ok) == [user |-> u, method |-> "keyboard-interactive", key |-> None, ok |-> ok]
<1>1. /\ connected /\ toServer # None /\ s \in {"loop", "answer"}
      /\ "keyboard-interactive" \in has
      /\ UNCHANGED <<config, client, cache>>
      BY DEF IInv, Challenged, ServeInteractive, Asked, Reads
<1>2. u \in Users \cup {None} /\ (honest => u = Self)
  <2>1. CASE s = "answer"
        BY <2>1 DEF IInv, Typed, Turns
  <2>2. CASE s # "answer"
        BY <1>1, <2>2, Named DEF ServeInteractive, Reads
  <2> QED
      BY <2>1, <2>2
<1>3. cache' \subseteq Calls /\ OfKeys'
      BY <1>1 DEF IInv, Typed, OfKeys
<1>4. \/ s' = "answer" /\ user' = u /\ Answers("info", None) /\ UNCHANGED perms
      \/ \E ok \in BOOLEAN : Concludes(ok, u, call(ok))
      BY DEF ServeInteractive
<1>5. CASE s' = "answer" /\ user' = u /\ Answers("info", None) /\ UNCHANGED perms
      BY <1>1, <1>2, <1>3, <1>5, AnswersWell
<1>6. ASSUME NEW ok \in BOOLEAN, Concludes(ok, u, call(ok)) PROVE IInv'
  <2>1. call(ok) \in Calls
        BY <1>2 DEF Calls, Methods
  <2>2. call(ok) # None
        BY <2>1, LoginAssumption
  <2> HIDE DEF u
  <2> QED
      BY <1>1, <1>2, <1>3, <1>6, <2>1, <2>2, ConcludesWell
<1> QED
    BY <1>4, <1>5, <1>6

LEMMA ServeOtherWell ==
    ASSUME IInv, ServeOther
    PROVE  IInv'
<1>1. toServer # None /\ s = "loop" /\ GivesUp /\ UNCHANGED <<config, client, cache>>
      BY DEF ServeOther, Reads
<1>2. cache' \subseteq Calls /\ OfKeys'
      BY <1>1 DEF IInv, Typed, OfKeys
<1> QED
    BY <1>1, <1>2, GivesUpWell

LEMMA ServeLostWell ==
    ASSUME IInv, ServeLost
    PROVE  IInv'
<1>1. /\ s' = "failed" /\ ~connected /\ s # "ok"
      /\ UNCHANGED <<config, client, cache, user, perms, toServer, toClient, connected>>
      BY DEF ServeLost
<1>2. Typed' /\ OfKeys' /\ Signed' /\ Challenged' /\ Vouched'
      BY <1>1 DEF IInv, Typed, OfKeys, Signed, Challenged, Vouched, config, client
<1>3. Turns'
      BY <1>1 DEF IInv, Turns, config, client
<1> QED
    BY <1>2, <1>3 DEF IInv

-----------------------------------------------------------------------------
(* The client of this package.                                             *)

\* It sends a request or an answer, when nobody has been let in yet.
LEMMA SendsWell ==
    ASSUME IInv, NEW packet \in ToServer, ClientSends(packet),
           packet.t = "request" => packet.user = Self,
           packet.sig = "good" => packet.key \in signers,
           packet.method = "publickey" => packet.sig # None,
           valid' \subseteq signers, key' \in Keys \cup {None}, c' = "ack" => key' \in signers,
           c' \notin {"any", "ok", "keys"}, honest => s # "ok",
           UNCHANGED <<config, server>>
    PROVE  IInv'
<1>1. toServer' = packet /\ toClient' = None /\ connected' = connected /\ packet # None
      BY LoginAssumption DEF ClientSends
<1>2. Typed' /\ OfKeys'
      BY <1>1 DEF IInv, Typed, OfKeys, config, server
<1>3. Signed'
      BY <1>1 DEF Signed, config
<1>4. Challenged' /\ Vouched'
      BY DEF IInv, Challenged, Vouched, config, server
<1>5. honest /\ toServer'.t = "request" => toServer'.user = Self
      BY <1>1
<1>6. Turns'
      BY <1>1, <1>5 DEF IInv, Turns, config, server
<1> QED
    BY <1>2, <1>3, <1>4, <1>6 DEF IInv

\* It gives up.
LEMMA ErrsWell ==
    ASSUME IInv, NEW state \in {"failed", "err"}, Errs(state),
           UNCHANGED <<config, server, valid, key>>
    PROVE  IInv'
<1>1. c' = state /\ connected' = FALSE /\ toClient' = None /\ toServer' = toServer
      BY DEF Errs
<1>2. Typed'
      BY <1>1 DEF IInv, Typed, config, server
<1>3. OfKeys' /\ Signed' /\ Challenged' /\ Vouched'
      BY <1>1 DEF IInv, OfKeys, Signed, Challenged, Vouched, config, server
<1>4. Turns'
      BY <1>1 DEF IInv, Turns, config, server
<1> QED
    BY <1>2, <1>3, <1>4 DEF IInv

\* It looks for its next key.
LEMMA KeysWell ==
    ASSUME IInv, c' = "keys", toClient' = None, valid' \subseteq signers,
           honest => s # "ok" /\ toServer = None,
           UNCHANGED <<config, server, key, toServer, connected>>
    PROVE  IInv'
<1>1. Typed' /\ OfKeys' /\ Signed' /\ Challenged' /\ Vouched'
      BY DEF IInv, Typed, OfKeys, Signed, Challenged, Vouched, config, server
<1>2. Turns'
      BY DEF IInv, Turns, config, server
<1> QED
    BY <1>1, <1>2 DEF IInv

\* A method has failed.
LEMMA FailsWell ==
    ASSUME IInv, NEW method, NEW methods, Fails(method, methods),
           honest => s # "ok" /\ toServer = None,
           UNCHANGED <<config, server, checked, valid, key>>
    PROVE  IInv'
<1> DEFINE next == (mine \cap Last(methods)) \ TriedWith(method)
<1>1. valid \subseteq signers /\ key \in Keys \cup {None} /\ next \subseteq Methods
      BY DEF IInv, Typed
<1>2. \/ Errs("failed") \/ Errs("err")
      \/ \E m \in next \ {"publickey"} : c' = m /\ ClientSends(Request(Self, m, None, None))
      \/ c' = "keys" /\ toClient' = None /\ UNCHANGED <<toServer, connected>>
      BY DEF Fails
<1> HIDE DEF next
<1>3. CASE Errs("failed") \/ Errs("err")
      BY <1>3, ErrsWell
<1>4. ASSUME NEW m \in next \ {"publickey"}, c' = m, ClientSends(Request(Self, m, None, None))
      PROVE  IInv'
  <2> DEFINE packet == Request(Self, m, None, None)
  <2>1. packet \in ToServer /\ packet.user = Self /\ packet.sig = None /\ packet.method = m
        BY <1>1, RequestsTyped, LoginAssumption DEF Request
  <2>2. m \notin {"any", "ok", "keys", "ack", "publickey"}
        BY <1>1 DEF Methods
  <2>3. ClientSends(packet)
        BY <1>4
  <2>4. valid' \subseteq signers /\ key' \in Keys \cup {None}
        BY <1>1
  <2>5. packet.sig # "good"
        BY LoginAssumption DEF Request
  <2> HIDE DEF packet
  <2> QED
      BY <1>4, <2>1, <2>2, <2>3, <2>4, <2>5, SendsWell
<1>5. CASE c' = "keys" /\ toClient' = None /\ UNCHANGED <<toServer, connected>>
      BY <1>1, <1>5, KeysWell
<1> QED
    BY <1>2, <1>3, <1>4, <1>5

LEMMA ClientServiceWell ==
    ASSUME IInv, ClientService
    PROVE  IInv'
<1> DEFINE packet == Request(Self, "none", None, None)
<1>1. /\ toClient # None /\ toClient.t = "accept" /\ c' = "none" /\ ClientSends(packet)
      /\ UNCHANGED <<config, server, valid, key>>
      BY DEF ClientService, Gets
<1>2. packet \in ToServer /\ packet.user = Self /\ packet.sig = None /\ packet.method = "none"
      BY RequestsTyped, LoginAssumption DEF Request
<1>3. packet.sig # "good"
      BY <1>2, LoginAssumption
<1>4. valid' \subseteq signers /\ key' \in Keys \cup {None}
      BY <1>1 DEF IInv, Typed
<1>5. honest => s # "ok"
      BY <1>1 DEF IInv, Turns
<1> HIDE DEF packet
<1> QED
    BY <1>1, <1>2, <1>3, <1>4, <1>5, SendsWell

LEMMA ClientSuccessWell ==
    ASSUME IInv, ClientSuccess
    PROVE  IInv'
<1>1. /\ toClient # None /\ toClient.t = "success" /\ c' = "ok" /\ toClient' = None
      /\ UNCHANGED <<config, server, valid, key, toServer, connected>>
      BY DEF ClientSuccess, Gets
<1>2. Typed' /\ OfKeys' /\ Signed' /\ Challenged' /\ Vouched'
      BY <1>1 DEF IInv, Typed, OfKeys, Signed, Challenged, Vouched, config, server
<1>3. Turns'
      BY <1>1 DEF IInv, Turns, config, server
<1> QED
    BY <1>2, <1>3 DEF IInv

LEMMA ClientFailureWell ==
    ASSUME IInv, ClientFailure
    PROVE  IInv'
<1>1. PICK w \in Awaits \ {"signed"} : Gets(w, "failure") /\ Fails(w, has)
      BY DEF ClientFailure
<1>2. UNCHANGED <<config, server, checked, valid, key>>
      BY DEF ClientFailure
<1>3. honest => s # "ok" /\ toServer = None
      BY <1>1 DEF IInv, Turns, Gets
<1> QED
    BY <1>1, <1>2, <1>3, FailsWell

\* A request about a key, or signed with one it holds.
LEMMA ClientKeysWell ==
    ASSUME IInv, ClientKeys
    PROVE  IInv'
<1>1. UNCHANGED <<config, server>> /\ (honest => s # "ok" /\ toServer = None)
      BY DEF IInv, Turns, ClientKeys, Gets
<1>2. signers \subseteq Keys /\ valid \subseteq signers /\ key \in Keys \cup {None}
      BY DEF IInv, Typed
<1>3. ASSUME NEW k \in signers, NEW sig \in {"query", "good"}, c' \in {"ack", "signed"},
             key' = k, valid' \subseteq valid, ClientSends(Request(Self, "publickey", k, sig))
      PROVE  IInv'
  <2> DEFINE packet == Request(Self, "publickey", k, sig)
  <2>1. /\ packet \in ToServer /\ packet.user = Self /\ packet.key = k /\ packet.sig = sig
        BY <1>2, RequestsTyped, LoginAssumption DEF Request, Methods
  <2>2. packet.sig # None
        BY <2>1, LoginAssumption
  <2>3. ClientSends(packet)
        BY <1>3
  <2> HIDE DEF packet
  <2> QED
      BY <1>1, <1>2, <1>3, <2>1, <2>2, <2>3, SendsWell
<1>4. \/ \E k \in signers \ checked :
            /\ c' = "ack" /\ key' = k /\ valid' = valid
            /\ ClientSends(Request(Self, "publickey", k, "query"))
      \/ \E k \in valid :
            /\ c' = "signed" /\ key' = k /\ valid' = valid \ {k}
            /\ ClientSends(Request(Self, "publickey", k, "good"))
      \/ \E methods : Fails("publickey", methods) /\ UNCHANGED <<checked, valid, key>>
      BY DEF ClientKeys
<1>5. CASE \E k \in signers \ checked :
            /\ c' = "ack" /\ key' = k /\ valid' = valid
            /\ ClientSends(Request(Self, "publickey", k, "query"))
      BY <1>3, <1>5
<1>6. CASE \E k \in valid :
            /\ c' = "signed" /\ key' = k /\ valid' = valid \ {k}
            /\ ClientSends(Request(Self, "publickey", k, "good"))
      BY <1>2, <1>3, <1>6
<1>7. CASE \E methods : Fails("publickey", methods) /\ UNCHANGED <<checked, valid, key>>
      BY <1>1, <1>7, FailsWell
<1> QED
    BY <1>4, <1>5, <1>6, <1>7

LEMMA ClientAckWell ==
    ASSUME IInv, ClientAck
    PROVE  IInv'
<1>1. /\ toClient # None /\ toClient.t # "success" /\ c = "ack" /\ c' = "keys" /\ toClient' = None
      /\ valid' \in {valid, valid \cup {key}}
      /\ UNCHANGED <<config, server, key, toServer, connected>>
      BY DEF ClientAck, Gets
<1>2. valid' \subseteq signers
      BY <1>1 DEF IInv, Typed
<1>3. honest => s # "ok" /\ toServer = None
      BY <1>1 DEF IInv, Turns
<1> QED
    BY <1>1, <1>2, <1>3, KeysWell

LEMMA ClientChallengeWell ==
    ASSUME IInv, ClientChallenge
    PROVE  IInv'
<1>1. /\ toClient # None /\ toClient.t = "info" /\ c = "keyboard-interactive"
      /\ UNCHANGED <<config, server, valid, key>>
      BY DEF ClientChallenge, Gets
<1>2. (ClientSends(Plain("answers")) /\ UNCHANGED c) \/ Errs("err")
      BY DEF ClientChallenge
<1>3. CASE ClientSends(Plain("answers")) /\ UNCHANGED c
  <2> DEFINE packet == Plain("answers")
  <2>1. /\ packet \in ToServer /\ packet.t = "answers" /\ packet.sig = None /\ packet.method = None
        BY RequestsTyped DEF Plain
  <2>2. packet.sig # "good" /\ packet.method # "publickey" /\ ClientSends(packet)
        BY <1>3, <2>1, LoginAssumption DEF Methods
  <2>3. valid' \subseteq signers /\ key' \in Keys \cup {None}
        BY <1>1 DEF IInv, Typed
  <2>4. honest => s # "ok"
        BY <1>1 DEF IInv, Turns
  <2> HIDE DEF packet
  <2> QED
      BY <1>1, <1>3, <2>1, <2>2, <2>3, <2>4, SendsWell
<1>4. CASE Errs("err")
      BY <1>1, <1>4, ErrsWell
<1> QED
    BY <1>2, <1>3, <1>4

LEMMA ClientErrsWell ==
    ASSUME IInv, ClientErrs
    PROVE  IInv'
BY ErrsWell DEF ClientErrs

-----------------------------------------------------------------------------
(* Any other client, and the connection.                                   *)

LEMMA AnySendsWell ==
    ASSUME IInv, AnySends
    PROVE  IInv'
<1>1. c = "any" /\ UNCHANGED <<config, server, client, toClient, connected>>
      BY DEF AnySends
<1>2. signers \subseteq Keys
      BY DEF IInv, Typed
<1>3. /\ toServer' \in ToServer
      /\ toServer'.sig = "good" => toServer'.key \in signers
      /\ toServer'.method = "publickey" => toServer'.sig # None
  <2>1. \/ \E t \in {"service", "answers", "junk"} : toServer' = Plain(t)
        \/ \E u \in Users, m \in {"none", "password", "keyboard-interactive", "unknown"} :
              toServer' = Request(u, m, None, None)
        \/ \E u \in Users, k \in Keys, sig \in {"query", "format", "bad", "good"} :
              /\ sig = "good" => k \in signers
              /\ toServer' = Request(u, "publickey", k, sig)
        BY DEF AnySends
  <2>2. CASE \E t \in {"service", "answers", "junk"} : toServer' = Plain(t)
        BY <2>2, RequestsTyped, LoginAssumption DEF Plain, Methods
  <2>3. ASSUME NEW u \in Users, NEW m \in {"none", "password", "keyboard-interactive", "unknown"},
               toServer' = Request(u, m, None, None)
        PROVE  /\ toServer' \in ToServer
               /\ toServer'.sig = "good" => toServer'.key \in signers
               /\ toServer'.method = "publickey" => toServer'.sig # None
        BY <2>3, RequestsTyped, LoginAssumption DEF Request, Methods
  <2>4. ASSUME NEW u \in Users, NEW k \in Keys, NEW sig \in {"query", "format", "bad", "good"},
               toServer' = Request(u, "publickey", k, sig), sig = "good" => k \in signers
        PROVE  /\ toServer' \in ToServer
               /\ toServer'.sig = "good" => toServer'.key \in signers
               /\ toServer'.method = "publickey" => toServer'.sig # None
        BY <2>4, RequestsTyped, LoginAssumption DEF Request, Methods
  <2> QED
      BY <1>2, <2>1, <2>2, <2>3, <2>4
<1>4. Typed'
      BY <1>1, <1>3 DEF IInv, Typed, config, server, client
<1>5. Signed'
      BY <1>1, <1>3 DEF Signed, config
<1>6. OfKeys' /\ Challenged' /\ Vouched'
      BY <1>1 DEF IInv, OfKeys, Challenged, Vouched, config, server
<1>7. Turns'
      BY <1>1 DEF IInv, Turns, config, server, client
<1> QED
    BY <1>4, <1>5, <1>6, <1>7 DEF IInv

\* Nothing changes but, perhaps, that the connection is gone.
LEMMA LoseWell ==
    ASSUME IInv, connected' \in {connected, FALSE},
           UNCHANGED <<config, server, client, toServer, toClient>>
    PROVE  IInv'
<1>1. Typed'
      BY DEF IInv, Typed, config, server, client
<1>2. OfKeys' /\ Signed' /\ Challenged' /\ Vouched'
      BY DEF IInv, OfKeys, Signed, Challenged, Vouched, config, server
<1>3. Turns'
      BY DEF IInv, Turns, config, server, client
<1> QED
    BY <1>1, <1>2, <1>3 DEF IInv

-----------------------------------------------------------------------------
LEMMA InitInvariant == LoginInit => IInv
<1> SUFFICES ASSUME LoginInit PROVE IInv
    OBVIOUS
<1>1. Plain("service") \in ToServer /\ Plain("service").t = "service"
      BY RequestsTyped DEF Plain
<1>2. Plain("service").sig = None /\ Plain("service").method = None
      BY DEF Plain
<1>3. Typed
      BY <1>1 DEF LoginInit, Typed
<1>4. Signed
      BY <1>2, LoginAssumption DEF LoginInit, Signed, Methods
<1>5. OfKeys /\ Challenged /\ Vouched
      BY DEF LoginInit, OfKeys, Challenged, Vouched
<1>6. Turns
      BY <1>1 DEF LoginInit, Turns
<1> QED
    BY <1>3, <1>4, <1>5, <1>6 DEF IInv

LEMMA NextInvariant == IInv /\ [LoginNext]_loginVars => IInv'
<1> SUFFICES ASSUME IInv, [LoginNext]_loginVars PROVE IInv'
    OBVIOUS
<1>1. CASE ServerStep
      BY <1>1, ServeServiceWell, ServeNoneWell, ServeUnknownWell, ServePasswordWell, ServeKeyWell,
         ServeInteractiveWell, ServeOtherWell, ServeLostWell DEF ServerStep
<1>2. CASE ClientStep
      BY <1>2, ClientServiceWell, ClientSuccessWell, ClientFailureWell, ClientKeysWell,
         ClientAckWell, ClientChallengeWell, ClientErrsWell DEF ClientStep
<1>3. CASE AnySends
      BY <1>3, AnySendsWell
<1>4. CASE Disconnect
      BY <1>4, LoseWell DEF Disconnect
<1>5. CASE LoginOver \/ UNCHANGED loginVars
  <2>1. connected' = connected /\ UNCHANGED <<config, server, client, toServer, toClient>>
        BY <1>5 DEF LoginOver, loginVars
  <2> QED
      BY <2>1, LoseWell
<1> QED
    BY <1>1, <1>2, <1>3, <1>4, <1>5 DEF LoginNext

\* The state of the two ends stays as the lemmas above describe it, whatever the
\* callbacks of the server say and whatever the client sends.
THEOREM Invariance == LoginSpec => []IInv
BY InitInvariant, NextInvariant, PTL DEF LoginSpec

\* serverAuthenticate lets somebody in only for a callback that accepted that user,
\* by that method and, for a key, on a good signature by its owner.
THEOREM EntrantsVouched == LoginSpec => []Vouched
<1>1. IInv => Vouched
      BY DEF IInv
<1> QED
    BY <1>1, Invariance, PTL

\* The client of this package and the server agree on whether it is in, and as whom.
THEOREM EndsAgree == LoginSpec => []Agreement
<1>1. IInv => Agreement
      BY DEF IInv, Turns, Agreement
<1> QED
    BY <1>1, Invariance, PTL


-----------------------------------------------------------------------------
(* What this package's client tries, and what it is told.                  *)

\* A call that refused the client.
No(m, k) == [user |-> Self, method |-> m, key |-> k, ok |-> FALSE]

\* The callbacks have refused it by that method, or with all its keys.
RefusedBy(m) ==
    IF m = "publickey" THEN \A k \in signers \ Odd : No(m, k) \in refused
    ELSE No(m, None) \in refused

\* What the server reads is what the client waits for an answer to.
Matches ==
    /\ toServer # None /\ connected =>
         \/ c = "service" /\ toServer.t = "service"
         \/ /\ c \in {"none", "password", "keyboard-interactive"}
            /\ toServer.t = "request" /\ toServer.method = c /\ toServer.key = None
         \/ c = "keyboard-interactive" /\ toServer.t = "answers"
         \/ /\ c \in {"ack", "signed"} /\ toServer.t = "request"
            /\ toServer.method = "publickey" /\ toServer.key = key
            /\ toServer.sig = (IF c = "ack" THEN "query" ELSE "good")
    /\ s = "answer" /\ connected => c = "keyboard-interactive"
    /\ s = "answer" /\ toClient # None => toClient.t = "info"

\* Why the client's last attempt has failed.
Reason ==
    /\ c = "none" => ~noAuth
    /\ c \in has => No(c, None) \in refused
    /\ c \in {"ack", "signed"} /\ "publickey" \in has =>
         key \in Odd \/ No("publickey", key) \in refused

\* A failure has its reason, and a key that would do is the one it asked about.
Told ==
    /\ \A x \in cache : x.ok \/ x \in refused
    /\ toClient # None /\ toClient.t = "failure" => has # {} /\ Reason
    /\ toClient # None /\ toClient.t = "pkok" => toClient.key = key

\* What has been tried has been refused.
Tried ==
    /\ c \in {"password", "keyboard-interactive", "keys", "ack", "signed", "failed"} => ~noAuth
    /\ c \in {"password", "keyboard-interactive", "keys", "ack", "signed"} => offered = has
    /\ c \in {"keys", "ack", "signed"} => "publickey" \in has
    /\ \A m \in tried \cap has : RefusedBy(m)
    /\ c = "failed" => \A m \in mine \cap has : RefusedBy(m)
    /\ c \notin {"ok", "err"} =>
         \A k \in checked :
            \/ k \in Odd \/ k \in valid \/ No("publickey", k) \in refused
            \/ c \in {"ack", "signed"} /\ k = key

TInv ==
    /\ ~honest => c = "any"
    /\ honest => Matches /\ Told /\ Tried

\* Any other client is of no concern here.
LEMMA Stranger ==
    ASSUME ~honest, TInv, UNCHANGED <<honest, c>>
    PROVE  TInv'
BY DEF TInv

\* What the client has done stays as it is while the server works.
LEMMA TriedStays ==
    ASSUME Tried, UNCHANGED <<config, client>>, refused \subseteq refused'
    PROVE  Tried'
BY DEF Tried, RefusedBy, No, config, client

\* The server answers, a failure for a reason.
LEMMA AnswersTold ==
    ASSUME honest, TInv, UNCHANGED <<config, client>>, refused \subseteq refused',
           \A x \in cache' : x.ok \/ x \in refused',
           NEW t \in {"accept", "success", "failure", "pkok", "info"}, NEW k, Answers(t, k),
           t = "failure" => has # {} /\ Reason',
           t = "pkok" => k = key,
           s' = "answer" => t = "info" /\ c = "keyboard-interactive"
    PROVE  TInv'
<1>1. toServer' = None /\ connected' = connected /\ toClient' = [t |-> t, key |-> k]
      BY DEF Answers
<1>2. toClient'.t = t /\ toClient'.key = k
      BY <1>1
<1>3. honest' = honest /\ has' = has /\ c' = c /\ key' = key
      BY DEF config, client
<1>4. Tried'
      BY TriedStays DEF TInv
<1>5. Matches'
      BY <1>1, <1>2, <1>3 DEF Matches
<1>6. Told'
      BY <1>1, <1>2, <1>3 DEF Told
<1> QED
    BY <1>3, <1>4, <1>5, <1>6 DEF TInv

\* The server gives up; there is no answer on its way.
LEMMA GivesUpTold ==
    ASSUME honest, IInv, TInv, toServer # None, UNCHANGED <<config, client>>,
           refused \subseteq refused',
           \A x \in cache' : x.ok \/ x \in refused', GivesUp
    PROVE  TInv'
<1>1. toServer' = None /\ connected' = FALSE /\ s' = "failed" /\ toClient' = None
      BY DEF GivesUp, IInv, Turns
<1>2. honest' = honest
      BY DEF config
<1>3. Tried'
      BY TriedStays DEF TInv
<1>4. Matches' /\ Told'
      BY <1>1 DEF Matches, Told
<1> QED
    BY <1>2, <1>3, <1>4 DEF TInv

LEMMA ConcludesTold ==
    ASSUME honest, IInv, TInv, toServer # None, UNCHANGED <<config, client>>,
           refused \subseteq refused',
           \A x \in cache' : x.ok \/ x \in refused',
           NEW ok \in BOOLEAN, NEW u, NEW p, Concludes(ok, u, p), ok \/ Reason'
    PROVE  TInv'
<1>1. CASE ~ok /\ has = {}
      BY <1>1, GivesUpTold DEF Concludes
<1>2. CASE ok \/ has # {}
  <2>1. Answers(IF ok THEN "success" ELSE "failure", None) /\ s' # "answer"
        BY <1>2 DEF Concludes
  <2>2. CASE ok
    <3>1. Answers("success", None)
          BY <2>1, <2>2
    <3> QED
        BY <2>1, <3>1, AnswersTold
  <2>3. CASE ~ok
    <3>1. Answers("failure", None) /\ has # {} /\ Reason'
          BY <1>2, <2>1, <2>3
    <3> QED
        BY <2>1, <3>1, AnswersTold
  <2> QED
      BY <2>2, <2>3
<1> QED
    BY <1>1, <1>2

-----------------------------------------------------------------------------
(* The server's steps, for this package's client.                          *)

LEMMA ServeServiceTold ==
    ASSUME honest, IInv, TInv, ServeService
    PROVE  TInv'
<1>1. toServer # None /\ UNCHANGED <<config, client, cache, refused>>
      BY DEF ServeService, Reads
<1>2. \A x \in cache' : x.ok \/ x \in refused'
      BY <1>1 DEF TInv, Told
<1>3. CASE toServer.t = "service"
  <2>1. s' = "loop" /\ Answers("accept", None)
        BY <1>3 DEF ServeService
  <2> QED
      BY <1>1, <1>2, <2>1, AnswersTold
<1>4. CASE toServer.t # "service"
      BY <1>1, <1>2, <1>4, GivesUpTold DEF ServeService
<1> QED
    BY <1>3, <1>4

LEMMA ServeNoneTold ==
    ASSUME honest, IInv, TInv, ServeNone
    PROVE  TInv'
<1>1. toServer # None /\ connected /\ toServer.t = "request" /\ toServer.method = "none"
      /\ UNCHANGED <<config, client, cache, refused>>
      BY DEF ServeNone, Asked, Reads
<1>2. \A x \in cache' : x.ok \/ x \in refused'
      BY <1>1 DEF TInv, Told
<1>3. c = "none" /\ "none" \notin has /\ noAuth \in BOOLEAN
      BY <1>1 DEF TInv, Matches, IInv, Typed, Methods
<1> DEFINE u == IF noAuth THEN None ELSE toServer.user
<1>4. Concludes(noAuth, u, None)
      BY DEF ServeNone
<1>5. noAuth \/ Reason'
      BY <1>1, <1>3 DEF Reason, config, client
<1> HIDE DEF u
<1> QED
    BY <1>1, <1>2, <1>3, <1>4, <1>5, ConcludesTold

LEMMA ServeUnknownTold ==
    ASSUME honest, IInv, TInv, ServeUnknown
    PROVE  TInv'
<1>1. /\ toServer # None /\ connected /\ toServer.t = "request"
      /\ toServer.method \in (Methods \ has) \cup {"unknown"}
      /\ UNCHANGED <<config, client, cache, refused>>
      BY DEF ServeUnknown, Asked, Reads
<1>2. \A x \in cache' : x.ok \/ x \in refused'
      BY <1>1 DEF TInv, Told
<1>3. \/ c \in {"password", "keyboard-interactive"} \ has
      \/ c \in {"ack", "signed"} /\ "publickey" \notin has
      BY <1>1 DEF TInv, Matches, Methods
<1>4. Reason'
      BY <1>1, <1>3 DEF Reason, config, client, IInv, Typed, Methods
<1>5. Concludes(FALSE, toServer.user, None)
      BY DEF ServeUnknown
<1>6. PICK ok \in BOOLEAN : ok = FALSE
      OBVIOUS
<1>7. Concludes(ok, toServer.user, None)
      BY <1>5, <1>6
<1> QED
    BY <1>1, <1>2, <1>4, <1>7, ConcludesTold

\* A callback that refuses this package's client is remembered.
LEMMA ServePasswordTold ==
    ASSUME honest, IInv, TInv, ServePassword
    PROVE  TInv'
<1>1. toServer # None /\ connected /\ toServer.t = "request" /\ toServer.method = "password"
      /\ UNCHANGED <<config, client, cache>>
      BY DEF ServePassword, Asked, Reads
<1>2. PICK ok \in BOOLEAN : Refused(Call(ok)) /\ Concludes(ok, toServer.user, Call(ok))
      BY DEF ServePassword
<1>3. c = "password" /\ toServer.key = None /\ toServer.user = Self
      BY <1>1 DEF TInv, Matches, IInv, Turns
<1>4. Call(ok).ok = ok /\ (~ok => Call(ok) = No("password", None))
      BY <1>1, <1>3 DEF Call, No
<1>5. refused' = IF ok THEN refused ELSE refused \cup {Call(ok)}
      BY <1>2, <1>4 DEF Refused
<1>6. \A x \in cache' : x.ok \/ x \in refused'
      BY <1>1, <1>5 DEF TInv, Told
<1>7. ok \/ Reason'
      BY <1>1, <1>3, <1>4, <1>5 DEF Reason, No, config, client
<1> QED
    BY <1>1, <1>2, <1>5, <1>6, <1>7, ConcludesTold

LEMMA ServeInteractiveTold ==
    ASSUME honest, IInv, TInv, ServeInteractive
    PROVE  TInv'
<1> DEFINE u == IF s = "answer" THEN user ELSE toServer.user
           call(ok) == [user |-> u, method |-> "keyboard-interactive", key |-> None, ok |-> ok]
<1>1. /\ toServer # None /\ connected /\ UNCHANGED <<config, client, cache>>
      /\ s = "answer" \/ (toServer.t = "request" /\ toServer.method = "keyboard-interactive")
      BY DEF ServeInteractive, Asked, Reads
<1>2. c = "keyboard-interactive" /\ u = Self
      BY <1>1 DEF TInv, Matches, IInv, Turns
<1>3. \/ s' = "answer" /\ Answers("info", None) /\ UNCHANGED refused
      \/ \E ok \in BOOLEAN : Refused(call(ok)) /\ Concludes(ok, u, call(ok))
      BY DEF ServeInteractive
<1>4. CASE s' = "answer" /\ Answers("info", None) /\ UNCHANGED refused
  <2>1. \A x \in cache' : x.ok \/ x \in refused'
        BY <1>1, <1>4 DEF TInv, Told
  <2> QED
      BY <1>1, <1>2, <1>4, <2>1, AnswersTold
<1>5. ASSUME NEW ok \in BOOLEAN, Refused(call(ok)), Concludes(ok, u, call(ok)) PROVE TInv'
  <2>1. call(ok).ok = ok /\ (~ok => call(ok) = No("keyboard-interactive", None))
        BY <1>2 DEF No
  <2>2. refused' = IF ok THEN refused ELSE refused \cup {call(ok)}
        BY <1>5, <2>1 DEF Refused
  <2> HIDE DEF call, u
  <2>3. \A x \in cache' : x.ok \/ x \in refused'
        BY <1>1, <2>2 DEF TInv, Told
  <2>4. ok \/ Reason'
        BY <1>1, <1>2, <2>1, <2>2 DEF Reason, No, config, client
  <2> QED
      BY <1>1, <1>5, <2>2, <2>3, <2>4, ConcludesTold
<1> QED
    BY <1>3, <1>4, <1>5

\* A verdict on a key that is not from the cache is new, and in both cases a refusal is known.
LEMMA ServeKeyTold ==
    ASSUME honest, IInv, TInv, ServeKey
    PROVE  TInv'
<1>1. /\ toServer # None /\ connected /\ s = "loop" /\ toServer.t = "request"
      /\ toServer.method = "publickey" /\ "publickey" \in has /\ UNCHANGED <<config, client>>
      BY DEF ServeKey, Asked, Reads
<1>2. /\ c \in {"ack", "signed"} /\ toServer.key = key
      /\ toServer.sig = (IF c = "ack" THEN "query" ELSE "good") /\ toServer.user = Self
      BY <1>1 DEF TInv, Matches, IInv, Turns
<1>3. c \notin has
      BY <1>2 DEF IInv, Typed, Methods
<1>4. CASE toServer.key \in Odd
  <2>1. Concludes(FALSE, toServer.user, None) /\ UNCHANGED <<cache, refused>>
        BY <1>4 DEF ServeKey
  <2>2. \A x \in cache' : x.ok \/ x \in refused'
        BY <2>1 DEF TInv, Told
  <2>3. Reason'
        BY <1>1, <1>2, <1>3, <1>4 DEF Reason, config, client
  <2>4. PICK ok \in BOOLEAN : ok = FALSE
        OBVIOUS
  <2>5. Concludes(ok, toServer.user, None)
        BY <2>1, <2>4
  <2> QED
      BY <1>1, <2>1, <2>2, <2>3, <2>5, ConcludesTold
<1>5. CASE toServer.key \notin Odd
  <2>1. PICK x \in Verdicts :
            /\ Remember(x)
            /\ CASE toServer.sig = "query" /\ x.ok ->
                        /\ Answers("pkok", toServer.key)
                        /\ user' = toServer.user /\ perms' = None
                        /\ UNCHANGED s
                 [] toServer.sig = "query" /\ ~x.ok -> Concludes(FALSE, toServer.user, None)
                 [] toServer.sig = "format" -> Concludes(FALSE, toServer.user, None)
                 [] toServer.sig = "bad" -> GivesUp
                 [] toServer.sig = "good" -> Concludes(x.ok, toServer.user, x)
        BY <1>5 DEF ServeKey
  <2>2. /\ x \in Calls /\ x.user = Self /\ x.key = key
        /\ x.method = "publickey" /\ x.ok \in BOOLEAN
        BY <1>2, <1>5, <2>1, Verdict DEF ServeKey
  <2>3. ~x.ok => x = No("publickey", key)
        BY <2>2 DEF Calls, No
  <2>4. /\ refused \subseteq refused' /\ (~x.ok => x \in refused')
        /\ \A y \in cache' : y.ok \/ y \in refused'
    <3>1. CASE Cached = {}
      <4>1. refused' = IF x.ok THEN refused ELSE refused \cup {x}
            BY <2>1, <2>2, <3>1 DEF Remember, Refused
      <4> QED
          BY <2>1, <4>1 DEF TInv, Told, Remember
    <3>2. CASE Cached # {}
      <4>1. x \in cache /\ refused' = refused
            BY <2>1, <3>2 DEF Verdicts, Cached, Remember
      <4> QED
          BY <2>1, <4>1 DEF TInv, Told, Remember
    <3> QED
        BY <3>1, <3>2
  <2>5. x.ok \/ Reason'
        BY <1>1, <1>2, <1>3, <2>3, <2>4 DEF Reason, No, config, client
  <2>6. CASE c = "ack" /\ x.ok
    <3>1. Answers("pkok", key) /\ s' = s
          BY <1>2, <2>1, <2>6
    <3> QED
        BY <1>1, <2>4, <3>1, AnswersTold
  <2>7. CASE c = "ack" /\ ~x.ok
    <3>1. Concludes(FALSE, toServer.user, None)
          BY <1>2, <2>1, <2>7
    <3>2. Concludes(x.ok, toServer.user, None)
          BY <2>2, <2>7, <3>1
    <3> QED
        BY <1>1, <2>2, <2>4, <2>5, <3>2, ConcludesTold
  <2>8. CASE c = "signed"
    <3>1. Concludes(x.ok, toServer.user, x)
          BY <1>2, <2>1, <2>8
    <3> QED
        BY <1>1, <2>2, <2>4, <2>5, <3>1, ConcludesTold
  <2> QED
      BY <1>2, <2>2, <2>6, <2>7, <2>8
<1> QED
    BY <1>4, <1>5

LEMMA ServeOtherTold ==
    ASSUME honest, IInv, TInv, ServeOther
    PROVE  TInv'
<1>1. toServer # None /\ GivesUp /\ UNCHANGED <<config, client, cache, refused>>
      BY DEF ServeOther, Reads
<1>2. \A x \in cache' : x.ok \/ x \in refused'
      BY <1>1 DEF TInv, Told
<1> QED
    BY <1>1, <1>2, GivesUpTold

\* Nothing changes but that the connection is gone, or the server with it.
LEMMA GoneTold ==
    ASSUME TInv, connected' => connected, s' = "answer" => s = "answer",
           UNCHANGED <<config, client, cache, refused, toServer, toClient>>
    PROVE  TInv'
<1>1. CASE ~honest
      BY <1>1, Stranger DEF config, client
<1>2. CASE honest
  <2>1. Tried'
        BY <1>2, TriedStays DEF TInv
  <2>2. Matches'
        BY <1>2 DEF TInv, Matches, client
  <2>3. Told'
        BY <1>2 DEF TInv, Told, Reason, No, config, client
  <2> QED
      BY <1>2, <2>1, <2>2, <2>3 DEF TInv, config
<1> QED
    BY <1>1, <1>2

-----------------------------------------------------------------------------
(* The steps of this package's client.                                     *)

\* When an answer has come, or while the client looks for a key, nothing is on its way.
LEMMA Quiet ==
    ASSUME honest, IInv, toClient # None \/ c = "keys"
    PROVE  toServer = None
BY DEF IInv, Turns

\* An answer that is no challenge ends the attempt at the server.
LEMMA NotWaiting ==
    ASSUME honest, IInv, TInv, connected,
           c = "keyboard-interactive" => toClient # None /\ toClient.t # "info"
    PROVE  s # "answer"
BY DEF TInv, Matches

\* What it has heard is gone, and what the server knows stays.
LEMMA HeardTold ==
    ASSUME Told, UNCHANGED server, toClient' = None
    PROVE  Told'
BY DEF Told, server

\* It comes to an end.
LEMMA ErrsTold ==
    ASSUME honest, TInv, NEW state, Errs(state), UNCHANGED <<config, server>>
    PROVE  honest' /\ Matches' /\ Told'
<1>1. toClient' = None /\ connected' = FALSE
      BY DEF Errs
<1>2. Matches'
      BY <1>1 DEF Matches
<1>3. Told'
      BY <1>1, HeardTold DEF TInv
<1> QED
    BY <1>2, <1>3 DEF config

\* It returns an error after what it has not expected.
LEMMA ErrTold ==
    ASSUME honest, TInv, c \notin {"ok", "err", "failed"}, Errs("err"),
           UNCHANGED <<config, server, tried, offered, checked, valid, key>>
    PROVE  TInv'
<1>1. honest' /\ Matches' /\ Told'
      BY ErrsTold
<1>2. c' = "err"
      BY DEF Errs
<1>3. Tried'
      BY <1>2 DEF TInv, Tried, RefusedBy, No, config, server
<1> QED
    BY <1>1, <1>3 DEF TInv

\* After a method that was refused it goes on to another, or has tried all.
LEMMA FailsTold ==
    ASSUME honest, IInv, TInv, NEW method, NEW methods, Fails(method, methods),
           UNCHANGED <<config, server, checked, valid, key>>,
           Last(methods) = has, ~noAuth, method \in has => RefusedBy(method),
           \A k \in checked : k \in Odd \/ k \in valid \/ No("publickey", k) \in refused,
           toServer = None, connected => s # "answer"
    PROVE  TInv'
<1> DEFINE next == (mine \cap has) \ (tried \cup {method})
<1>1. /\ tried' = tried \cup {method} /\ offered' = has
      /\ \/ next = {} /\ Errs("failed")
         \/ \E m \in next \ {"publickey"} :
              c' = m /\ ClientSends(Request(Self, m, None, None))
         \/ Errs("err")
         \/ "publickey" \in next /\ c' = "keys" /\ toClient' = None /\ UNCHANGED <<toServer, connected>>
      BY DEF Fails, TriedWith
<1>2. /\ noAuth' = noAuth /\ has' = has /\ mine' = mine /\ honest' = honest
      /\ signers' = signers /\ refused' = refused /\ s' = s
      /\ checked' = checked /\ valid' = valid /\ key' = key
      BY DEF config, server
<1>3. \A m \in tried' \cap has : RefusedBy(m)
      BY <1>1 DEF TInv, Tried
<1>4. \A m \in tried' \cap has' : RefusedBy(m)'
      BY <1>2, <1>3 DEF RefusedBy, No
<1>5. ~noAuth' /\ offered' = has'
      BY <1>1, <1>2
<1>6. \A k \in checked' : k \in Odd \/ k \in valid' \/ No("publickey", k) \in refused'
      BY <1>2
<1>7. CASE next = {} /\ Errs("failed")
  <2>1. honest' /\ Matches' /\ Told'
        BY <1>7, ErrsTold
  <2>2. c' = "failed"
        BY <1>7 DEF Errs
  <2>3. mine' \cap has' \subseteq tried' \cap has'
        BY <1>1, <1>2, <1>7
  <2>4. Tried'
        BY <1>4, <1>5, <1>6, <2>2, <2>3 DEF Tried, No
  <2> QED
      BY <2>1, <2>4 DEF TInv
<1>8. ASSUME NEW m \in next \ {"publickey"}, c' = m, ClientSends(Request(Self, m, None, None))
      PROVE  TInv'
  <2>1. m \in {"password", "keyboard-interactive"}
        BY DEF IInv, Typed, Methods
  <2>2. /\ toServer' = Request(Self, m, None, None) /\ toClient' = None /\ connected' = connected
        BY <1>8 DEF ClientSends
  <2>3. toServer'.t = "request" /\ toServer'.method = c' /\ toServer'.key = None
        BY <1>8, <2>2 DEF Request
  <2>4. Matches'
    <3>1. connected' => connected
          BY <2>2
    <3> QED
        BY <1>2, <1>8, <2>1, <2>2, <2>3, <3>1 DEF Matches
  <2>5. Told'
        BY <2>2, HeardTold DEF TInv
  <2>6. Tried'
        BY <1>4, <1>5, <1>6, <1>8, <2>1 DEF Tried, No
  <2> QED
      BY <1>2, <2>4, <2>5, <2>6 DEF TInv
<1>9. CASE Errs("err")
  <2>1. honest' /\ Matches' /\ Told'
        BY <1>9, ErrsTold
  <2>2. c' = "err"
        BY <1>9 DEF Errs
  <2>3. Tried'
        BY <1>4, <1>5, <2>2 DEF Tried
  <2> QED
      BY <2>1, <2>3 DEF TInv
<1>10. CASE "publickey" \in next /\ c' = "keys" /\ toClient' = None /\ UNCHANGED <<toServer, connected>>
  <2>1. Matches'
    <3>1. (connected' => connected) /\ toServer' = None
          BY <1>10
    <3> QED
        BY <1>2, <1>10, <3>1 DEF Matches
  <2>2. Told'
        BY <1>10, HeardTold DEF TInv
  <2>3. Tried'
        BY <1>2, <1>4, <1>5, <1>6, <1>10 DEF Tried, No
  <2> QED
      BY <1>2, <2>1, <2>2, <2>3 DEF TInv
<1> HIDE DEF next
<1> QED
    BY <1>1, <1>7, <1>8, <1>9, <1>10

LEMMA ClientServiceTold ==
    ASSUME honest, IInv, TInv, ClientService
    PROVE  TInv'
<1>1. /\ c = "service" /\ c' = "none" /\ toClient # None
      /\ ClientSends(Request(Self, "none", None, None))
      /\ UNCHANGED <<config, server, tried, offered, checked, valid, key>>
      BY DEF ClientService, Gets
<1>2. toServer' = Request(Self, "none", None, None) /\ toClient' = None /\ connected' = connected
      BY <1>1 DEF ClientSends
<1>3. toServer'.t = "request" /\ toServer'.method = "none" /\ toServer'.key = None
      BY <1>2 DEF Request
<1>4. Matches'
  <2>1. (connected' => connected) /\ s' = s /\ (connected => s # "answer")
        BY <1>1, <1>2, NotWaiting DEF server
  <2> QED
      BY <1>1, <1>2, <1>3, <2>1 DEF Matches
<1>5. Told'
      BY <1>1, <1>2, HeardTold DEF TInv
<1>6. Tried'
      BY <1>1 DEF TInv, Tried, RefusedBy, No, config, server
<1> QED
    BY <1>1, <1>4, <1>5, <1>6 DEF TInv, config

LEMMA ClientSuccessTold ==
    ASSUME honest, IInv, TInv, ClientSuccess
    PROVE  TInv'
<1>1. /\ c \in Awaits /\ c' = "ok" /\ toClient # None /\ toClient.t = "success" /\ toClient' = None
      /\ UNCHANGED <<config, server, tried, offered, checked, valid, key, toServer, connected>>
      BY DEF ClientSuccess, Gets
<1>2. toServer = None /\ s = "ok"
      BY <1>1, Quiet DEF IInv, Turns
<1>3. Matches'
      BY <1>1, <1>2 DEF Matches, server
<1>4. Told'
      BY <1>1, HeardTold DEF TInv
<1>5. Tried'
      BY <1>1 DEF TInv, Tried, RefusedBy, No, config, server
<1> QED
    BY <1>1, <1>3, <1>4, <1>5 DEF TInv, config

LEMMA ClientFailureTold ==
    ASSUME honest, IInv, TInv, ClientFailure
    PROVE  TInv'
<1>1. PICK w \in Awaits \ {"signed"} : Gets(w, "failure") /\ Fails(w, has)
      BY DEF ClientFailure
<1>2. /\ c = w /\ w \in {"none", "password", "keyboard-interactive"}
      /\ toClient # None /\ toClient.t = "failure"
      /\ UNCHANGED <<config, server, checked, valid, key>>
      BY <1>1 DEF ClientFailure, Gets, Awaits
<1>3. has # {} /\ Reason
      BY <1>2 DEF TInv, Told
<1>4. Last(has) = has
      BY <1>3 DEF Last
<1>5. ~noAuth
      BY <1>2, <1>3 DEF Reason, TInv, Tried
<1>6. w \in has => RefusedBy(w)
      BY <1>2, <1>3 DEF Reason, RefusedBy
<1>7. \A k \in checked : k \in Odd \/ k \in valid \/ No("publickey", k) \in refused
      BY <1>2 DEF TInv, Tried
<1>8. toServer = None /\ (connected => s # "answer")
      BY <1>2, Quiet, NotWaiting
<1> QED
    BY <1>1, <1>2, <1>4, <1>5, <1>6, <1>7, <1>8, FailsTold

\* Of the keys it has asked about, each would do, or has been refused.
LEMMA ClientKeysTold ==
    ASSUME honest, IInv, TInv, ClientKeys
    PROVE  TInv'
<1>1. /\ c = "keys" \/ (c = "signed" /\ toClient # None /\ toClient.t = "failure")
      /\ UNCHANGED <<config, server>>
      BY DEF ClientKeys, Gets
<1>2. toServer = None /\ (connected => s # "answer")
      BY <1>1, Quiet, NotWaiting
<1>3. "publickey" \in has /\ ~noAuth /\ offered = has
      BY <1>1 DEF TInv, Tried
<1>4. \A k \in checked : k \in Odd \/ k \in valid \/ No("publickey", k) \in refused
      BY <1>1, <1>3 DEF TInv, Tried, Told, Reason
<1>5. /\ noAuth' = noAuth /\ has' = has /\ mine' = mine /\ honest' = honest
      /\ signers' = signers /\ refused' = refused /\ s' = s
      BY <1>1 DEF config, server
<1>6. tried' = tried => \A m \in tried' \cap has' : RefusedBy(m)'
      BY <1>5 DEF TInv, Tried, RefusedBy, No
<1>7. ASSUME NEW k \in Keys, NEW sig, c' \in {"ack", "signed"},
             sig = (IF c' = "ack" THEN "query" ELSE "good"), key' = k,
             ClientSends(Request(Self, "publickey", k, sig)), UNCHANGED <<tried, offered>>,
             \A x \in checked' : \/ x \in Odd \/ x \in valid' \/ No("publickey", x) \in refused'
                                 \/ x = k
      PROVE  TInv'
  <2>1. /\ toServer' = Request(Self, "publickey", k, sig) /\ toClient' = None /\ connected' = connected
        BY <1>7 DEF ClientSends
  <2>2. /\ toServer'.t = "request" /\ toServer'.method = "publickey" /\ toServer'.key = key'
        /\ toServer'.sig = (IF c' = "ack" THEN "query" ELSE "good")
        BY <1>7, <2>1 DEF Request
  <2>3. Matches'
    <3>1. (connected' => connected) /\ s' = s
          BY <1>5, <2>1
    <3> QED
        BY <1>2, <1>7, <2>1, <2>2, <3>1 DEF Matches
  <2>4. Told'
        BY <1>1, <2>1, HeardTold DEF TInv
  <2>5. Tried'
        BY <1>3, <1>5, <1>6, <1>7 DEF Tried, No
  <2> QED
      BY <1>5, <2>3, <2>4, <2>5 DEF TInv
<1>8. ASSUME NEW k \in signers \ checked,
             c' = "ack", key' = k, checked' = checked \cup {k},
             ClientSends(Request(Self, "publickey", k, "query")), UNCHANGED <<valid, tried, offered>>
      PROVE  TInv'
  <2>1. k \in Keys
        BY DEF IInv, Typed
  <2>2. \A x \in checked' : \/ x \in Odd \/ x \in valid' \/ No("publickey", x) \in refused'
                            \/ x = k
        BY <1>4, <1>5, <1>8 DEF No
  <2> QED
      BY <1>7, <1>8, <2>1, <2>2
<1>9. ASSUME NEW k \in valid,
             c' = "signed", key' = k, valid' = valid \ {k},
             ClientSends(Request(Self, "publickey", k, "good")), UNCHANGED <<checked, tried, offered>>
      PROVE  TInv'
  <2>1. k \in Keys
        BY DEF IInv, Typed
  <2>2. \A x \in checked' : \/ x \in Odd \/ x \in valid' \/ No("publickey", x) \in refused'
                            \/ x = k
        BY <1>4, <1>5, <1>9 DEF No
  <2> QED
      BY <1>7, <1>9, <2>1, <2>2
<1>10. ASSUME NEW methods, methods = (IF c = "signed" THEN has ELSE {}),
              signers \subseteq checked, valid = {}, Fails("publickey", methods),
              UNCHANGED <<checked, valid, key>>
       PROVE  TInv'
  <2>1. Last(methods) = has
        BY <1>3, <1>10 DEF Last
  <2>2. RefusedBy("publickey")
        BY <1>4, <1>10 DEF RefusedBy
  <2> QED
      BY <1>1, <1>2, <1>3, <1>4, <1>10, <2>1, <2>2, FailsTold
<1> DEFINE all == IF c = "signed" THEN has ELSE {}
<1>11. \/ \E k \in signers \ checked :
            /\ c' = "ack" /\ key' = k /\ checked' = checked \cup {k}
            /\ ClientSends(Request(Self, "publickey", k, "query"))
            /\ UNCHANGED <<valid, tried, offered>>
       \/ \E k \in valid :
            /\ signers \subseteq checked
            /\ c' = "signed" /\ key' = k /\ valid' = valid \ {k}
            /\ ClientSends(Request(Self, "publickey", k, "good"))
            /\ UNCHANGED <<checked, tried, offered>>
       \/ /\ signers \subseteq checked /\ valid = {}
          /\ Fails("publickey", all)
          /\ UNCHANGED <<checked, valid, key>>
       BY DEF ClientKeys
<1> QED
    BY <1>8, <1>9, <1>10, <1>11

LEMMA ClientAckTold ==
    ASSUME honest, IInv, TInv, ClientAck
    PROVE  TInv'
<1>1. /\ c = "ack" /\ toClient # None /\ toClient.t \in {"pkok", "failure"}
      /\ c' = "keys" /\ toClient' = None
      /\ valid' = IF toClient.t = "pkok" /\ toClient.key = key THEN valid \cup {key} ELSE valid
      /\ UNCHANGED <<config, server, tried, offered, checked, key, toServer, connected>>
      BY DEF ClientAck, Gets
<1>2. toServer = None /\ (connected => s # "answer")
      BY <1>1, Quiet, NotWaiting
<1>3. "publickey" \in has /\ ~noAuth /\ offered = has
      BY <1>1 DEF TInv, Tried
<1>4. key \in Odd \/ key \in valid' \/ No("publickey", key) \in refused
      BY <1>1, <1>3 DEF TInv, Told, Reason
<1>5. \A k \in checked : k \in Odd \/ k \in valid' \/ No("publickey", k) \in refused
      BY <1>1, <1>4 DEF TInv, Tried
<1>6. Matches'
      BY <1>1, <1>2 DEF Matches, server
<1>7. Told'
      BY <1>1, HeardTold DEF TInv
<1>8. Tried'
  <2>1. /\ noAuth' = noAuth /\ has' = has /\ refused' = refused /\ signers' = signers
        /\ tried' = tried /\ offered' = offered /\ checked' = checked
        BY <1>1 DEF config, server
  <2>2. \A m \in tried' \cap has' : RefusedBy(m)'
        BY <2>1 DEF TInv, Tried, RefusedBy, No
  <2> QED
      BY <1>1, <1>3, <1>5, <2>1, <2>2 DEF Tried, No
<1> QED
    BY <1>1, <1>6, <1>7, <1>8 DEF TInv, config

LEMMA ClientChallengeTold ==
    ASSUME honest, IInv, TInv, ClientChallenge
    PROVE  TInv'
<1>1. /\ c = "keyboard-interactive" /\ toClient # None
      /\ UNCHANGED <<config, server, tried, offered, checked, valid, key>>
      /\ (ClientSends(Plain("answers")) /\ c' = c) \/ Errs("err")
      BY DEF ClientChallenge, Gets
<1>2. CASE Errs("err")
      BY <1>1, <1>2, ErrTold
<1>3. CASE ClientSends(Plain("answers")) /\ c' = c
  <2>1. toServer' = Plain("answers") /\ toClient' = None /\ toServer'.t = "answers"
        BY <1>3 DEF ClientSends, Plain
  <2>2. Matches'
        BY <1>1, <1>3, <2>1 DEF Matches
  <2>3. Told'
        BY <1>1, <2>1, HeardTold DEF TInv
  <2>4. Tried'
        BY <1>1, <1>3 DEF TInv, Tried, RefusedBy, No, config, server
  <2> QED
      BY <1>1, <2>2, <2>3, <2>4 DEF TInv, config
<1> QED
    BY <1>1, <1>2, <1>3

LEMMA ClientErrsTold ==
    ASSUME honest, TInv, ClientErrs
    PROVE  TInv'
<1>1. /\ c \notin {"ok", "err", "failed"} /\ Errs("err")
      /\ UNCHANGED <<config, server, tried, offered, checked, valid, key>>
      BY DEF ClientErrs, Ended
<1> QED
    BY <1>1, ErrTold

-----------------------------------------------------------------------------
LEMMA InitTold ==
    ASSUME LoginInit
    PROVE  TInv
<1>1. CASE ~honest
      BY <1>1 DEF LoginInit, TInv
<1>2. CASE honest
  <2>1. /\ c = "service" /\ s = "service" /\ cache = {} /\ tried = {} /\ checked = {}
        /\ toClient = None /\ toServer = Plain("service")
        BY <1>2 DEF LoginInit
  <2>2. toServer.t = "service"
        BY <2>1 DEF Plain
  <2> QED
      BY <1>2, <2>1, <2>2 DEF TInv, Matches, Told, Tried
<1> QED
    BY <1>1, <1>2

\* Only the client's own steps change what it is at, and any other client takes none of them.
LEMMA StrangerStep ==
    ASSUME ~honest, IInv, TInv, [LoginNext]_loginVars
    PROVE  TInv'
<1>1. c = "any"
      BY DEF TInv
<1>2. ASSUME ClientStep PROVE FALSE
  <2>1. CASE ClientService
        BY <1>1, <2>1 DEF ClientService, Gets
  <2>2. CASE ClientSuccess
        BY <1>1, <2>2 DEF ClientSuccess, Gets, Awaits
  <2>3. CASE ClientFailure
        BY <1>1, <2>3 DEF ClientFailure, Gets, Awaits
  <2>4. CASE ClientKeys
        BY <1>1, <2>4 DEF ClientKeys, Gets
  <2>5. CASE ClientAck
        BY <1>1, <2>5 DEF ClientAck, Gets
  <2>6. CASE ClientChallenge
        BY <1>1, <2>6 DEF ClientChallenge, Gets
  <2>7. CASE ClientErrs
        BY <1>1, <2>7 DEF ClientErrs
  <2> QED
      BY <1>2, <2>1, <2>2, <2>3, <2>4, <2>5, <2>6, <2>7 DEF ClientStep
<1>3. CASE ServerStep
  <2>1. UNCHANGED <<honest, c>>
        BY <1>3 DEF ServerStep, ServeService, ServeNone, ServeUnknown, ServePassword, ServeKey,
           ServeInteractive, ServeOther, ServeLost, config, client
  <2> QED
      BY <2>1, Stranger
<1>4. CASE AnySends \/ Disconnect
  <2>1. UNCHANGED <<honest, c>>
        BY <1>4 DEF AnySends, Disconnect, config, client
  <2> QED
      BY <2>1, Stranger
<1>5. CASE LoginOver \/ UNCHANGED loginVars
  <2>1. UNCHANGED <<honest, c>>
        BY <1>5 DEF LoginOver, loginVars, config, client
  <2> QED
      BY <2>1, Stranger
<1> QED
    BY <1>2, <1>3, <1>4, <1>5 DEF LoginNext

LEMMA NextTold ==
    ASSUME IInv, TInv, [LoginNext]_loginVars
    PROVE  TInv'
<1>1. CASE ~honest
      BY <1>1, StrangerStep
<1>2. CASE honest
  <2>1. CASE ServerStep
    <3>1. CASE ServeLost
      <4>1. /\ s' = "failed" /\ connected' = connected
            /\ UNCHANGED <<config, client, cache, refused, toServer, toClient>>
            BY <3>1 DEF ServeLost
      <4> QED
          BY <4>1, GoneTold
    <3> QED
        BY <1>2, <2>1, <3>1, ServeServiceTold, ServeNoneTold, ServeUnknownTold, ServePasswordTold,
           ServeKeyTold, ServeInteractiveTold, ServeOtherTold DEF ServerStep
  <2>2. CASE ClientStep
        BY <1>2, <2>2, ClientServiceTold, ClientSuccessTold, ClientFailureTold, ClientKeysTold,
           ClientAckTold, ClientChallengeTold, ClientErrsTold DEF ClientStep
  <2>3. CASE AnySends
        BY <1>2, <2>3 DEF AnySends, IInv, Turns
  <2>4. CASE Disconnect
    <3>1. connected' = FALSE /\ s' = s /\ UNCHANGED <<config, client, cache, refused, toServer, toClient>>
          BY <2>4 DEF Disconnect, server
    <3> QED
        BY <3>1, GoneTold
  <2>5. CASE LoginOver \/ UNCHANGED loginVars
    <3>1. /\ connected' = connected /\ s' = s
          /\ UNCHANGED <<config, client, cache, refused, toServer, toClient>>
          BY <2>5 DEF LoginOver, loginVars, server
    <3> QED
        BY <3>1, GoneTold
  <2> QED
      BY <2>1, <2>2, <2>3, <2>4, <2>5 DEF LoginNext
<1> QED
    BY <1>1, <1>2

\* This package's client and the server agree on the outcome, and the client has given
\* up only after all that both ends have was tried and refused (clientAuthenticate's
\* loop, and publicKeyCallback.auth's over the keys).
THEOREM OutcomeAlwaysTrue == LoginSpec => []OutcomeTrue
<1>1. LoginInit => TInv
      BY InitTold
<1>2. IInv /\ TInv /\ [LoginNext]_loginVars => TInv'
      BY NextTold
<1>3. IInv /\ TInv => OutcomeTrue
  <2>1. IInv => Agreement
        BY DEF IInv, Agreement, Turns
  <2>2. ASSUME TInv, c = "failed" PROVE TriesAll
    <3>1. honest /\ Tried
          BY <2>2 DEF TInv
    <3> QED
        BY <2>2, <3>1 DEF Tried, TriesAll, RefusedBy, No
  <2>3. TInv => TriesAll
        BY <2>2 DEF TriesAll
  <2> QED
      BY <2>1, <2>3 DEF OutcomeTrue
<1> QED
    BY Invariance, <1>1, <1>2, <1>3, PTL DEF LoginSpec
=============================================================================
