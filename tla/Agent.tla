------------------------------- MODULE Agent -------------------------------
(***************************************************************************)
(* The SSH agent of crypto/ssh/agent: a keyring in memory, the server that *)
(* answers the agent protocol on a connection, and the client whose calls  *)
(* share that connection under a mutex.                                    *)
(*                                                                         *)
(* The program that made the keyring calls it directly (Owner...); every   *)
(* other caller reaches it through a connection, a channel of the type     *)
(* auth-agent@openssh.com that ForwardToAgent serves, or that              *)
(* ForwardToRemote relays to the socket of an agent.  A public key stands  *)
(* for the identity, and Rsa holds the identities whose private keys the   *)
(* server can parse.                                                       *)
(***************************************************************************)
EXTENDS Integers, Sequences, FiniteSets

CONSTANTS
    Conns,          \* connections to the agent
    Callers,        \* goroutines that use a client
    ConnOf,         \* the connection of each of them
    Keys,           \* identities
    Rsa,            \* those with an RSA key and no certificate
    Passphrases,
    MaxKeys,        \* identities in the keyring (a bound)
    None

\* What a call returns.
Answer(t, v) == [t |-> t, v |-> v]
Success      == Answer("success", None)
Failure      == Answer("failure", None)
ClientError  == Answer("error", None)

ASSUME AgentAssumption ==
    /\ ConnOf \in [Callers -> Conns]
    /\ Rsa \subseteq Keys
    /\ MaxKeys \in Nat
    /\ None \notin Callers \cup Passphrases \cup {Success, Failure, ClientError}

VARIABLES
    keys,       \* keyring.keys
    lock,       \* keyring.passphrase while it is locked, else None
    looping,    \* a call of Remove never ends: it keeps keyring.mu
    link,       \* a connection: "relay" is about to dial, "dead" failed to, "open" is
                \* served, "stuck" by a Remove that never ends, "eof" is closed
    user,       \* the caller that holds client.mu, or None
    req, rep,   \* the request and the reply on the connection, or None
    ans,        \* what the last call of a caller returned, None while it runs
    did,        \* what the keyring has done for it
    sealed      \* the keyring has been locked ever since it was called

ring == <<keys, lock, looping>>
wire == <<link, user, req, rep>>
vars == <<ring, wire, ans, did, sealed>>

Request(op, k, p) == [op |-> op, key |-> k, pass |-> p]

\* insertKey and insertCert; what they cannot encode is refused without a call.
AddRequests == {Request("add", k, None) : k \in Keys}

\* "huge" is a request to sign more data than the server reads.
Requests ==
    AddRequests
      \cup {Request(op, None, None) : op \in {"list", "removeall", "huge"}}
      \cup {Request(op, k, None) : op \in {"sign", "remove"}, k \in Keys}
      \cup {Request(op, None, p) : op \in {"lock", "unlock"}, p \in Passphrases}

Init ==
    /\ keys \in UNION {[1 .. n -> Keys] : n \in 0 .. MaxKeys}
    /\ lock = None /\ looping = FALSE
    /\ link \in [Conns -> {"open", "relay"}]
    /\ user = [c \in Conns |-> None]
    /\ req = [c \in Conns |-> None]
    /\ rep = [c \in Conns |-> None]
    /\ ans = [p \in Callers |-> Success]
    /\ did = [p \in Callers |-> Success]
    /\ sealed = [p \in Callers |-> FALSE]

-----------------------------------------------------------------------------
(* The methods of the keyring.  Each holds keyring.mu from its first line   *)
(* to its last.  A result is the keyring afterwards and the answer.         *)

Locked        == lock # None
Holds(k)      == \E i \in DOMAIN keys : keys[i] = k
Keep(a)       == [keys |-> keys, lock |-> lock, loops |-> FALSE, ans |-> a]
Become(ks, l) == [keys |-> ks, lock |-> l, loops |-> FALSE, ans |-> Success]

ListRing == Keep(Answer("identities", IF Locked THEN <<>> ELSE keys))

SignWith(k) == Keep(IF ~Locked /\ Holds(k) THEN Answer("signature", k) ELSE Failure)

AddKey(k) == IF Locked THEN Keep(Failure) ELSE Become(Append(keys, k), lock)

RemoveAllKeys == IF Locked THEN Keep(Failure) ELSE Become(<<>>, lock)

\* On a match the loop keeps the last element alone, and stays at its index:
\* it ends unless that index is the first and the last element is the key too.
RemoveKey(k) ==
    IF Locked \/ ~Holds(k) THEN Keep(Failure)
    ELSE LET first == CHOOSE i \in DOMAIN keys :
                        keys[i] = k /\ \A j \in DOMAIN keys : j < i => keys[j] # k
             last  == keys[Len(keys)]
         IN  [Become(<<last>>, lock) EXCEPT !.loops = (first = 1 /\ last = k)]

LockRing(p) == IF Locked THEN Keep(Failure) ELSE Become(keys, p)

UnlockRing(p) == IF lock = p THEN Become(keys, None) ELSE Keep(Failure)

Perform(r) ==
    CASE r.op = "list"      -> ListRing
      [] r.op = "sign"      -> SignWith(r.key)
      [] r.op = "add"       -> AddKey(r.key)
      [] r.op = "remove"    -> RemoveKey(r.key)
      [] r.op = "removeall" -> RemoveAllKeys
      [] r.op = "lock"      -> LockRing(r.pass)
      [] r.op = "unlock"    -> UnlockRing(r.pass)

\* processRequest.  It reads an unlock message as a lock message, whose type
\* is another, and gives up; insertIdentity knows RSA keys only.
ProcessRequest(r) ==
    IF r.op = "unlock" \/ (r.op = "add" /\ r.key \notin Rsa)
    THEN Keep(Failure) ELSE Perform(r)

Commit(e) ==
    /\ ~looping
    /\ keys' = e.keys /\ lock' = e.lock /\ looping' = e.loops

-----------------------------------------------------------------------------
(* The owner of the keyring.                                                *)

\* The bound: nobody adds an identity that might not fit.
Room(r) ==
    r.op = "add" =>
      Len(keys) + Cardinality({c \in Conns : req[c] # None /\ req[c].r.op = "add"}) < MaxKeys

OwnerCalls(r) ==
    /\ r.op # "huge" /\ Room(r)
    /\ Commit(Perform(r))
    /\ sealed' = [p \in Callers |-> sealed[p] /\ lock' # None]
    /\ UNCHANGED <<wire, ans, did>>

-----------------------------------------------------------------------------
(* The client: call takes client.mu, writes the request, reads the reply    *)
(* and lets go.                                                             *)

Waiting(p) == ans[p] = None

\* A plausible bug: calls are not serialised.
AlwaysFree(c) == TRUE

Free(c) == user[c] = None

Call(p, r) ==
    LET c == ConnOf[p] IN
    /\ ~Waiting(p) /\ Free(c) /\ Room(r)
    /\ sealed' = [sealed EXCEPT ![p] = Locked]
    /\ IF link[c] = "eof"
       THEN /\ ans' = [ans EXCEPT ![p] = ClientError]
            /\ did' = [did EXCEPT ![p] = ClientError]
            /\ UNCHANGED <<user, req>>
       ELSE /\ ans' = [ans EXCEPT ![p] = None]
            /\ did' = [did EXCEPT ![p] = None]
            /\ user' = [user EXCEPT ![c] = p]
            /\ req' = [req EXCEPT ![c] = [by |-> p, r |-> r]]
    /\ UNCHANGED <<ring, link, rep>>

Return(p, a) ==
    /\ ans' = [ans EXCEPT ![p] = a]
    /\ user' = [user EXCEPT ![ConnOf[p]] = None]
    /\ UNCHANGED <<ring, link, req, did, sealed>>

ReadReply(p) ==
    LET c == ConnOf[p] IN
    /\ Waiting(p) /\ rep[c] # None
    /\ rep' = [rep EXCEPT ![c] = None]
    /\ Return(p, rep[c])

ReadFails(p) ==
    LET c == ConnOf[p] IN
    /\ Waiting(p) /\ rep[c] = None /\ link[c] = "eof"
    /\ Return(p, ClientError)
    /\ UNCHANGED rep

-----------------------------------------------------------------------------
(* The server of a connection.                                              *)

\* forwardUnixSocket: when the agent cannot be reached it returns and leaves
\* the channel as it is, open and read by nobody.
Dial(c) ==
    /\ link[c] = "relay"
    /\ \E l \in {"open", "dead"} : link' = [link EXCEPT ![c] = l]
    /\ UNCHANGED <<ring, user, req, rep, ans, did, sealed>>

\* A request within maxAgentResponseBytes.
Serve(c) ==
    /\ link[c] = "open" /\ req[c] # None /\ rep[c] = None
    /\ req[c].r.op # "huge"
    /\ LET e == ProcessRequest(req[c].r) IN
       /\ Commit(e)
       /\ rep' = [rep EXCEPT ![c] = IF e.loops THEN None ELSE e.ans]
       /\ link' = [link EXCEPT ![c] = IF e.loops THEN "stuck" ELSE "open"]
       /\ did' = [did EXCEPT ![req[c].by] = e.ans]
       /\ sealed' = [p \in Callers |-> sealed[p] /\ e.lock # None]
    /\ req' = [req EXCEPT ![c] = None]
    /\ UNCHANGED <<user, ans>>

\* ServeAgent returns and the channel is closed.
Close(c) == link' = [link EXCEPT ![c] = "eof"]

\* It does so for a request that is too large, and when the peer has gone.
EndService(c) ==
    /\ link[c] = "open"
    /\ \/ req[c] # None /\ req[c].r.op = "huge"
       \/ req[c] = None
    /\ Close(c)
    /\ req' = [req EXCEPT ![c] = None]
    /\ UNCHANGED <<ring, user, rep, ans, did, sealed>>

Next ==
    \/ \E r \in Requests : OwnerCalls(r)
    \/ \E p \in Callers :
        \/ \E r \in Requests : Call(p, r)
        \/ ReadReply(p)
        \/ ReadFails(p)
    \/ \E c \in Conns : Dial(c) \/ Serve(c) \/ EndService(c)

\* The goroutines of the package run; nobody has to call.
Fairness ==
    /\ \A p \in Callers : WF_vars(ReadReply(p)) /\ WF_vars(ReadFails(p))
    /\ \A c \in Conns : WF_vars(Dial(c)) /\ WF_vars(Serve(c))
                        /\ WF_vars(req[c] # None /\ EndService(c))

Spec == Init /\ [][Next]_vars /\ Fairness

-----------------------------------------------------------------------------
(* What a call returns is what the keyring did for this very call, though   *)
(* the callers share one connection and its replies do not name a request;  *)
(* or it is an error of the connection.                                     *)
OwnAnswer ==
    \A p \in Callers : ~Waiting(p) => ans[p] \in {did[p], ClientError}

(* A caller that has seen the keyring locked from its call to its return    *)
(* has got neither a signature nor the name of an identity out of it, in    *)
(* whatever order the calls of the others ran.                              *)
LockedSilence ==
    \A p \in Callers :
        (~Waiting(p) /\ sealed[p]) =>
            ans[p] \in {Success, Failure, ClientError, Answer("identities", <<>>)}

(* Whatever the callers do to one another, the answers are right.           *)
AnswersRight == OwnAnswer /\ LockedSilence

(* A call returns, unless the agent behind a relay could not be reached or  *)
(* some Remove never ends: ServeAgent answers every request, and its end    *)
(* closes the channel.                                                      *)
CallReturns(p) == Waiting(p) ~> (~Waiting(p) \/ looping \/ link[ConnOf[p]] = "dead")

(* keyring.Remove: "Remove removes all identities with the given public     *)
(* key."  A Remove that has found its key and returned leaves no identity   *)
(* with that key behind.                                                    *)
RemoveRemoves ==
    [][\A c \in Conns :
        (req[c] # None /\ req'[c] = None /\ req[c].r.op = "remove" /\ rep'[c] = Success)
          => \A i \in DOMAIN keys' : keys'[i] # req[c].r.key]_vars
=============================================================================
