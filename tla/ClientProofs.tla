---------------------------- MODULE ClientProofs ----------------------------
(***************************************************************************)
(* Proofs about the client's side, for any number of actors, of the three  *)
(* components a client is made of.                                         *)
(*                                                                         *)
(* Agent: what a call of the agent's client returns is the answer to this  *)
(* very call, and a keyring which stays locked tells nobody anything.      *)
(* client.mu makes the one who waits the one who holds the connection      *)
(* (Held); there, at most one request or reply is under way, and it is his *)
(* (Owed).  A reply was made by a locked keyring if the keyring has been   *)
(* locked since (Silent), because locks are seen as they are (Sealed).     *)
(*                                                                         *)
(* Forwards: the list of forwards is exact.  From the answer of the server *)
(* until the server is told that it is over, nobody else has the address   *)
(* of an owner (Owned), so that remove, which goes by the address, finds   *)
(* the entry of the one that closes.                                       *)
(*                                                                         *)
(* Session: what Wait returns is true.  What wait has read and what is     *)
(* still to be read make what the command's exit sent (Heard), so that its *)
(* verdict is about all of it (Judged); the errors under way and those     *)
(* collected count the copies that are done (Counted).                     *)
(***************************************************************************)
EXTENDS Client, WellFoundedInduction, SequenceTheorems, FiniteSetTheorems, TLAPS

\* The types that the proof needs.
Typed ==
    /\ user \in [Conns -> Callers \cup {None}]
    /\ DOMAIN link = Conns /\ DOMAIN req = Conns /\ DOMAIN rep = Conns
    /\ DOMAIN ans = Callers /\ DOMAIN did = Callers
    /\ DOMAIN sealed = Callers

\* Who waits holds the connection.
Held == \A p \in Callers : Waiting(p) => user[ConnOf[p]] = p

\* A request or a reply belongs to the one who holds the connection.
Owed ==
    \A c \in Conns :
        /\ req[c] # None =>
             /\ req[c].r \in Requests /\ link[c] # "eof"
             /\ rep[c] = None /\ user[c] = req[c].by /\ user[c] \in Callers
             /\ ConnOf[user[c]] = c /\ Waiting(user[c])
        /\ rep[c] # None =>
             /\ req[c] = None /\ user[c] \in Callers /\ ConnOf[user[c]] = c
             /\ Waiting(user[c]) /\ rep[c] = did[user[c]]

\* Who has seen the keyring locked all the time, sees it locked now.
Sealed == \A p \in Callers : sealed[p] => Locked

\* What a locked keyring says.
Mute == {Success, Failure, ClientError, Answer("identities", <<>>)}

Silent == \A c \in Conns : rep[c] # None /\ sealed[user[c]] => rep[c] \in Mute

IInv == Typed /\ Held /\ Owed /\ Sealed /\ Silent /\ AnswersRight

-----------------------------------------------------------------------------
\* A keyring that is locked after a request was locked before, or has been locked by
\* it: either way the answer says nothing.
LEMMA LockedAnswer ==
    ASSUME NEW r \in Requests, r.op # "huge", Locked
    PROVE  ProcessRequest(r).ans \in Mute
<1>1. r.op \in {"add", "list", "removeall", "sign", "remove", "lock", "unlock"}
      BY DEF Requests, AddRequests, Request
<1>2. Failure \in Mute /\ Answer("identities", <<>>) \in Mute /\ Success \in Mute
      BY DEF Mute
<1>3. CASE r.op = "unlock" \/ (r.op = "add" /\ r.key \notin Rsa)
      BY <1>2, <1>3 DEF ProcessRequest, Keep
<1>4. CASE ~(r.op = "unlock" \/ (r.op = "add" /\ r.key \notin Rsa))
  <2>1. ProcessRequest(r) = Perform(r)
        BY <1>4 DEF ProcessRequest
  <2>2. CASE r.op = "list"
        BY <1>2, <2>1, <2>2 DEF Perform, ListRing, Keep
  <2>3. CASE r.op = "sign"
        BY <1>2, <2>1, <2>3 DEF Perform, SignWith, Keep
  <2>4. CASE r.op = "add"
        BY <1>2, <2>1, <2>4 DEF Perform, AddKey, Keep
  <2>5. CASE r.op = "remove"
        BY <1>2, <2>1, <2>5 DEF Perform, RemoveKey, Keep
  <2>6. CASE r.op = "removeall"
        BY <1>2, <2>1, <2>6 DEF Perform, RemoveAllKeys, Keep
  <2>7. CASE r.op = "lock"
        BY <1>2, <2>1, <2>7 DEF Perform, LockRing, Keep
  <2> QED
      BY <1>1, <1>4, <2>2, <2>3, <2>4, <2>5, <2>6, <2>7
<1> QED
    BY <1>3, <1>4

\* The connection and the state of the client stay as they are.
LEMMA OwnerCallsWell ==
    ASSUME IInv, NEW r \in Requests, OwnerCalls(r)
    PROVE  IInv'
<1>1. /\ sealed' = [p \in Callers |-> sealed[p] /\ lock' # None]
      /\ UNCHANGED <<wire, ans, did>>
      BY DEF OwnerCalls
<1>2. Typed' /\ Held' /\ Owed'
      BY <1>1 DEF IInv, Typed, Held, Owed, Waiting, wire
<1>3. \A p \in Callers : sealed'[p] => sealed[p] /\ lock' # None
      BY <1>1
<1>4. Sealed'
      BY <1>3 DEF Sealed, Locked
<1>5. Silent'
      BY <1>1, <1>3 DEF IInv, Silent, Owed, wire
<1>6. AnswersRight'
      BY <1>1, <1>3 DEF IInv, AnswersRight, OwnAnswer, LockedSilence, Waiting
<1> QED
    BY <1>2, <1>4, <1>5, <1>6 DEF IInv

LEMMA CallWell ==
    ASSUME IInv, NEW p \in Callers, NEW r \in Requests, Call(p, r)
    PROVE  IInv'
<1> DEFINE c == ConnOf[p]
<1>1. /\ c \in Conns /\ ~Waiting(p) /\ user[c] = None
      /\ sealed' = [sealed EXCEPT ![p] = Locked]
      /\ UNCHANGED <<ring, link, rep>>
      BY AgentAssumption DEF Call, Free
<1>2. req[c] = None /\ rep[c] = None
      BY <1>1, AgentAssumption DEF IInv, Owed
<1>3. Typed /\ Sealed
      BY DEF IInv
<1>4. Sealed'
      BY <1>1, <1>3 DEF Typed, Sealed, Locked, ring
<1>5. Silent'
  <2> SUFFICES ASSUME NEW d \in Conns, rep[d] # None, sealed'[user'[d]]
               PROVE  rep[d] \in Mute
      BY <1>1 DEF Silent
  <2>1. d # c /\ user[d] \in Callers /\ user[d] # p
        BY <1>1, <1>2 DEF IInv, Owed
  <2>2. user'[d] = user[d]
        BY <2>1 DEF Call, IInv, Typed
  <2>3. sealed'[user[d]] = sealed[user[d]]
        BY <1>1, <1>3, <2>1 DEF Typed
  <2> QED
      BY <2>2, <2>3 DEF IInv, Silent
<1>6. CASE link[c] = "eof"
  <2>1. /\ ans' = [ans EXCEPT ![p] = ClientError] /\ did' = [did EXCEPT ![p] = ClientError]
        /\ UNCHANGED <<user, req>>
        BY <1>6 DEF Call
  <2>2. Typed'
        BY <1>1, <2>1 DEF IInv, Typed
  <2>3. Held'
        BY <1>1, <2>1, AgentAssumption DEF IInv, Typed, Held, Waiting
  <2>4. Owed'
    <3> SUFFICES ASSUME NEW d \in Conns
                 PROVE  Owed!(d)'
        BY DEF Owed
    <3>1. user[d] \in Callers /\ (req[d] # None \/ rep[d] # None) => user[d] # p
          BY <1>1 DEF IInv, Owed
    <3> QED
        BY <1>1, <2>1, <3>1 DEF IInv, Typed, Owed, Waiting
  <2>5. AnswersRight'
        BY <1>1, <2>1 DEF IInv, Typed, AnswersRight, OwnAnswer, LockedSilence, Waiting
  <2> QED
      BY <1>4, <1>5, <2>2, <2>3, <2>4, <2>5 DEF IInv
<1>7. CASE link[c] # "eof"
  <2>1. /\ ans' = [ans EXCEPT ![p] = None] /\ did' = [did EXCEPT ![p] = None]
        /\ user' = [user EXCEPT ![c] = p] /\ req' = [req EXCEPT ![c] = [by |-> p, r |-> r]]
        BY <1>7 DEF Call
  <2>2. Typed'
        BY <1>1, <2>1 DEF IInv, Typed
  <2>3. Held'
    <3> SUFFICES ASSUME NEW q \in Callers, ans'[q] = None
                 PROVE  user'[ConnOf[q]] = q
        BY DEF Held, Waiting
    <3>1. CASE q = p
          BY <1>1, <2>1, <3>1 DEF IInv, Typed
    <3>2. CASE q # p
      <4>1. user[ConnOf[q]] = q
            BY <2>1, <3>2 DEF IInv, Typed, Held, Waiting
      <4>2. ConnOf[q] # c /\ ConnOf[q] \in Conns
            BY <1>1, <4>1, AgentAssumption
      <4> QED
          BY <2>1, <4>1, <4>2 DEF IInv, Typed
    <3> QED
        BY <3>1, <3>2
  <2>4. Owed'
    <3> SUFFICES ASSUME NEW d \in Conns
                 PROVE  Owed!(d)'
        BY DEF Owed
    <3>1. CASE d = c
          BY <1>1, <1>2, <1>7, <2>1, <3>1 DEF IInv, Typed, Waiting
    <3>2. CASE d # c
      <4>1. (req[d] # None \/ rep[d] # None) => user[d] # p
            BY <3>2 DEF IInv, Owed
      <4> QED
          BY <1>1, <2>1, <3>2, <4>1 DEF IInv, Typed, Owed, Waiting
    <3> QED
        BY <3>1, <3>2
  <2>5. AnswersRight'
        BY <1>1, <2>1 DEF IInv, Typed, AnswersRight, OwnAnswer, LockedSilence, Waiting
  <2> QED
      BY <1>4, <1>5, <2>2, <2>3, <2>4, <2>5 DEF IInv
<1> QED
    BY <1>6, <1>7

\* The one who reads is the one who holds the connection: the reply is his.
LEMMA ReadReplyWell ==
    ASSUME IInv, NEW p \in Callers, ReadReply(p)
    PROVE  IInv'
<1> DEFINE c == ConnOf[p]
<1>1. /\ c \in Conns /\ Waiting(p) /\ rep[c] # None
      /\ rep' = [rep EXCEPT ![c] = None] /\ ans' = [ans EXCEPT ![p] = rep[c]]
      /\ user' = [user EXCEPT ![c] = None] /\ UNCHANGED <<ring, link, req, did, sealed>>
      BY AgentAssumption DEF ReadReply, Return
<1>2. user[c] = p
      BY <1>1 DEF IInv, Held
<1>3. req[c] = None /\ rep[c] = did[p] /\ (sealed[p] => rep[c] \in Mute)
      BY <1>1, <1>2 DEF IInv, Owed, Silent
<1>4. Typed'
      BY <1>1 DEF IInv, Typed
<1>5. Held'
  <2> SUFFICES ASSUME NEW q \in Callers, ans'[q] = None
               PROVE  user'[ConnOf[q]] = q
      BY DEF Held, Waiting
  <2>1. q # p /\ user[ConnOf[q]] = q
        BY <1>1 DEF IInv, Typed, Held, Waiting
  <2> QED
      BY <1>1, <1>2, <2>1, AgentAssumption DEF IInv, Typed
<1>6. Owed' /\ Silent'
  <2> SUFFICES ASSUME NEW d \in Conns
               PROVE  Owed!(d)' /\ Silent!(d)'
      BY DEF Owed, Silent
  <2>1. CASE d = c
        BY <1>1, <1>3, <2>1 DEF IInv, Typed
  <2>2. CASE d # c
    <3>1. (req[d] # None \/ rep[d] # None) => user[d] # p
          BY <2>2 DEF IInv, Owed
    <3> QED
        BY <1>1, <2>2, <3>1 DEF IInv, Typed, Owed, Silent, Waiting
  <2> QED
      BY <2>1, <2>2
<1>7. Sealed'
      BY <1>1 DEF IInv, Sealed, Locked, ring
<1>8. AnswersRight'
      BY <1>1, <1>3 DEF IInv, Typed, AnswersRight, OwnAnswer, LockedSilence, Waiting, Mute
<1> QED
    BY <1>4, <1>5, <1>6, <1>7, <1>8 DEF IInv

\* Without a reply it reports an error of the connection.
LEMMA ReadFailsWell ==
    ASSUME IInv, NEW p \in Callers, ReadFails(p)
    PROVE  IInv'
<1> DEFINE c == ConnOf[p]
<1>1. /\ c \in Conns /\ Waiting(p) /\ rep[c] = None /\ link[c] = "eof"
      /\ ans' = [ans EXCEPT ![p] = ClientError] /\ user' = [user EXCEPT ![c] = None]
      /\ UNCHANGED <<ring, link, req, rep, did, sealed>>
      BY AgentAssumption DEF ReadFails, Return
<1>2. user[c] = p
      BY <1>1 DEF IInv, Held
<1>3. req[c] = None
      BY <1>1 DEF IInv, Owed
<1>4. Typed'
      BY <1>1 DEF IInv, Typed
<1>5. Held'
  <2> SUFFICES ASSUME NEW q \in Callers, ans'[q] = None
               PROVE  user'[ConnOf[q]] = q
      BY DEF Held, Waiting
  <2>1. q # p /\ user[ConnOf[q]] = q
        BY <1>1, AgentAssumption DEF IInv, Typed, Held, Waiting
  <2> QED
      BY <1>1, <1>2, <2>1, AgentAssumption DEF IInv, Typed
<1>6. Owed' /\ Silent'
  <2> SUFFICES ASSUME NEW d \in Conns
               PROVE  Owed!(d)' /\ Silent!(d)'
      BY DEF Owed, Silent
  <2>1. CASE d = c
        BY <1>1, <1>3, <2>1 DEF IInv, Typed
  <2>2. CASE d # c
    <3>1. (req[d] # None \/ rep[d] # None) => user[d] # p
          BY <2>2 DEF IInv, Owed
    <3> QED
        BY <1>1, <2>2, <3>1 DEF IInv, Typed, Owed, Silent, Waiting
  <2> QED
      BY <2>1, <2>2
<1>7. Sealed'
      BY <1>1 DEF IInv, Sealed, Locked, ring
<1>8. AnswersRight'
      BY <1>1 DEF IInv, Typed, AnswersRight, OwnAnswer, LockedSilence, Waiting
<1> QED
    BY <1>4, <1>5, <1>6, <1>7, <1>8 DEF IInv

-----------------------------------------------------------------------------
(* The server of a connection.                                             *)

LEMMA DialWell ==
    ASSUME IInv, NEW c \in Conns, Dial(c)
    PROVE  IInv'
<1>1. /\ \E l \in {"open", "dead"} : link' = [link EXCEPT ![c] = l]
      /\ UNCHANGED <<ring, user, req, rep, ans, did, sealed>>
      BY DEF Dial
<1>2. Typed' /\ Held' /\ Owed'
      BY <1>1 DEF IInv, Typed, Held, Owed, Waiting
<1>3. Sealed' /\ Silent' /\ AnswersRight'
      BY <1>1 DEF IInv, Sealed, Locked, Silent, AnswersRight, OwnAnswer, LockedSilence, Waiting,
         ring
<1> QED
    BY <1>2, <1>3 DEF IInv

LEMMA EndServiceWell ==
    ASSUME IInv, NEW c \in Conns, EndService(c)
    PROVE  IInv'
<1>1. /\ link' = [link EXCEPT ![c] = "eof"] /\ req' = [req EXCEPT ![c] = None]
      /\ UNCHANGED <<ring, user, rep, ans, did, sealed>>
      BY DEF EndService, Close
<1>2. Typed' /\ Held' /\ Owed'
      BY <1>1 DEF IInv, Typed, Held, Owed, Waiting
<1>3. Sealed' /\ Silent' /\ AnswersRight'
      BY <1>1 DEF IInv, Sealed, Locked, Silent, AnswersRight, OwnAnswer, LockedSilence, Waiting,
         ring
<1> QED
    BY <1>2, <1>3 DEF IInv

LEMMA ServeWell ==
    ASSUME IInv, NEW c \in Conns, Serve(c)
    PROVE  IInv'
<1> DEFINE e == ProcessRequest(req[c].r)
           p == user[c]
<1>1. /\ link[c] = "open" /\ req[c] # None /\ rep[c] = None /\ req[c].r.op # "huge"
      /\ keys' = e.keys /\ lock' = e.lock
      /\ rep' = [rep EXCEPT ![c] = IF e.loops THEN None ELSE e.ans]
      /\ link' = [link EXCEPT ![c] = IF e.loops THEN "stuck" ELSE "open"]
      /\ did' = [did EXCEPT ![req[c].by] = e.ans]
      /\ sealed' = [q \in Callers |-> sealed[q] /\ e.lock # None]
      /\ req' = [req EXCEPT ![c] = None] /\ UNCHANGED <<user, ans>>
      BY DEF Serve, Commit
<1>2. /\ req[c].r \in Requests /\ req[c].by = p /\ p \in Callers /\ ConnOf[p] = c /\ Waiting(p)
      BY <1>1 DEF IInv, Owed
<1>3. sealed[p] => e.ans \in Mute
      BY <1>1, <1>2, LockedAnswer DEF IInv, Sealed
<1> HIDE DEF e, p
<1>4. did' = [did EXCEPT ![p] = e.ans]
      BY <1>1, <1>2
<1>5. Typed'
      BY <1>1, <1>4 DEF IInv, Typed
<1>6. Held'
      BY <1>1 DEF IInv, Held, Waiting
<1>7. Owed'
  <2> SUFFICES ASSUME NEW d \in Conns
               PROVE  Owed!(d)'
      BY DEF Owed
  <2>1. CASE d = c
        BY <1>1, <1>2, <1>4, <2>1 DEF IInv, Typed, Waiting, p
  <2>2. CASE d # c
    <3>1. (req[d] # None \/ rep[d] # None) => user[d] # p
          BY <1>2, <2>2 DEF IInv, Owed
    <3> QED
        BY <1>1, <1>4, <2>2, <3>1 DEF IInv, Typed, Owed, Waiting
  <2> QED
      BY <2>1, <2>2
<1>8. Sealed'
      BY <1>1 DEF Sealed, Locked
<1>9. Silent'
  <2> SUFFICES ASSUME NEW d \in Conns, rep'[d] # None, sealed'[user'[d]]
               PROVE  rep'[d] \in Mute
      BY DEF Silent
  <2>1. CASE d = c
        BY <1>1, <1>2, <1>3, <2>1 DEF IInv, Typed, p
  <2>2. CASE d # c
    <3>1. rep'[d] = rep[d] /\ user[d] \in Callers
          BY <1>1, <2>2 DEF IInv, Typed, Owed
    <3> QED
        BY <1>1, <3>1 DEF IInv, Silent
  <2> QED
      BY <2>1, <2>2
<1>10. AnswersRight'
      BY <1>1, <1>2, <1>4 DEF IInv, Typed, AnswersRight, OwnAnswer, LockedSilence, Waiting
<1> QED
    BY <1>5, <1>6, <1>7, <1>8, <1>9, <1>10 DEF IInv

-----------------------------------------------------------------------------
LEMMA InitInvariant == Init => IInv
<1> SUFFICES ASSUME Init PROVE IInv
    OBVIOUS
<1>1. Success # None
      BY AgentAssumption
<1>2. Typed /\ Held /\ Owed
      BY <1>1 DEF Init, Typed, Held, Owed, Waiting
<1>3. Sealed /\ Silent /\ AnswersRight
      BY DEF Init, Sealed, Silent, AnswersRight, OwnAnswer, LockedSilence
<1> QED
    BY <1>2, <1>3 DEF IInv

LEMMA NextInvariant == IInv /\ [Next]_vars => IInv'
<1> SUFFICES ASSUME IInv, [Next]_vars PROVE IInv'
    OBVIOUS
<1>1. ASSUME NEW r \in Requests, OwnerCalls(r) PROVE IInv'
      BY <1>1, OwnerCallsWell
<1>2. ASSUME NEW p \in Callers, NEW r \in Requests, Call(p, r) PROVE IInv'
      BY <1>2, CallWell
<1>3. ASSUME NEW p \in Callers, ReadReply(p) \/ ReadFails(p) PROVE IInv'
      BY <1>3, ReadReplyWell, ReadFailsWell
<1>4. ASSUME NEW c \in Conns, Dial(c) \/ Serve(c) \/ EndService(c) PROVE IInv'
      BY <1>4, DialWell, ServeWell, EndServiceWell
<1>5. CASE UNCHANGED vars
  <2>1. Typed' /\ Held' /\ Owed'
        BY <1>5 DEF IInv, Typed, Held, Owed, Waiting, vars, wire
  <2>2. Sealed' /\ Silent' /\ AnswersRight'
        BY <1>5 DEF IInv, Sealed, Locked, Silent, AnswersRight, OwnAnswer, LockedSilence, Waiting,
                    vars, ring, wire
  <2> QED
      BY <2>1, <2>2 DEF IInv
<1> QED
    BY <1>1, <1>2, <1>3, <1>4, <1>5 DEF Next

\* A call of the agent's client returns what the keyring did for this call, or an error
\* of the connection; and one whose caller saw the keyring locked throughout returns no
\* secret of it.
THEOREM AnswersAreRight == Spec => []AnswersRight
<1>1. IInv => AnswersRight
      BY DEF IInv
<1>2. Spec => Init /\ [][Next]_vars
      BY DEF Spec
<1> QED
    BY <1>1, <1>2, InitInvariant, NextInvariant, PTL


\* An owner has its address, from the answer of the server until it gives it back.
Owns(l) == owner[l] \in {"granted", "listening", "cancelling"}

ListTyped ==
    /\ bound \subseteq Addrs
    /\ target \in [Channels -> Addrs \cup {Bad, None}]
    /\ incoming \in Seq(Channels) /\ handler \in Seq(Channels)
    /\ opening \in Channels \cup {None}
    /\ sending \in (Channels \X Listeners) \cup {None}
    /\ entries \in Seq(Listeners) /\ closed \subseteq Listeners
    /\ owner \in [Listeners -> {"idle", "granted", "refused", "listening", "cancelling", "closed"}]

\* The server has an address for one owner, who is the only one on the list with it.
Owned ==
    /\ \A l \in Listeners : Owns(l) => Addr[l] \in bound
    /\ \A l, m \in Listeners : Owns(l) /\ Owns(m) /\ Addr[l] = Addr[m] => l = m
    /\ \A i \in 1..Len(entries) : owner[entries[i]] = "listening"
    /\ \A i, j \in 1..Len(entries) : entries[i] = entries[j] => i = j
    /\ \A l \in closed : owner[l] \notin {"idle", "granted"}

ListInv == ListTyped /\ Owned /\ Listening!ListExact

LEMMA ListInit ==
  ASSUME Listening!ForwardsAssumption, Listening!Init
  PROVE  ListInv
BY DEF Listening!ForwardsAssumption, Listening!Init, ListInv, ListTyped, Owned, Owns,
   Listening!ListExact, Listening!Entries

LEMMA OpenList ==
  ASSUME Listening!ForwardsAssumption, ListInv,
         NEW ch \in Channels, NEW a \in Addrs \cup {Bad}, Listening!Open(ch, a)
  PROVE  ListInv'
<1>1. UNCHANGED <<bound, opening, handler, sending, entries, closed, swept, owner>>
  BY DEF Listening!Open, Listening!list
<1>2. target[ch] = None /\ target' = [target EXCEPT ![ch] = a] /\ incoming' = Append(incoming, ch)
  BY DEF Listening!Open
<1>3. ListTyped'
  BY <1>1, <1>2 DEF ListInv, ListTyped
<1>4. Owned'
  BY <1>1 DEF ListInv, Owned, Owns
<1>5. Listening!ListExact'
  BY <1>1, <1>2 DEF ListInv, Listening!ListExact, Listening!Entries, ListTyped,
     Listening!ForwardsAssumption
<1>6. QED BY <1>3, <1>4, <1>5 DEF ListInv

LEMMA BreakList ==
  ASSUME ListInv, Listening!Break
  PROVE  ListInv'
BY DEF Listening!Break, Listening!list, Listening!path, ListInv, ListTyped, Owned, Owns,
   Listening!ListExact, Listening!Entries

LEMMA TakeOpenList ==
  ASSUME Listening!ForwardsAssumption, ListInv, Listening!TakeOpen
  PROVE  ListInv'
<1>1. UNCHANGED <<bound, target, handler, sending, entries, closed, swept, owner>>
  BY DEF Listening!TakeOpen, Listening!list, Listening!peer
<1>2. incoming # <<>> /\ incoming' = Tail(incoming) /\ opening' \in {opening, Head(incoming)}
  BY DEF Listening!TakeOpen
<1>3. incoming' \in Seq(Channels) /\ Head(incoming) \in Channels
  BY <1>2, HeadTailProperties DEF ListInv, ListTyped
<1>4. ListTyped'
  BY <1>1, <1>2, <1>3 DEF ListInv, ListTyped
<1>5. Owned'
  BY <1>1 DEF ListInv, Owned, Owns
<1>6. Listening!ListExact'
  BY <1>1 DEF ListInv, Listening!ListExact, Listening!Entries
<1>7. QED BY <1>4, <1>5, <1>6 DEF ListInv

LEMMA PassOpenList ==
  ASSUME Listening!ForwardsAssumption, ListInv, Listening!PassOpen
  PROVE  ListInv'
<1>1. UNCHANGED <<bound, target, incoming, sending, entries, closed, swept, owner>>
  BY DEF Listening!PassOpen, Listening!list, Listening!peer
<1>2. opening \in Channels /\ handler' = Append(handler, opening) /\ opening' = None
  BY DEF Listening!PassOpen, ListInv, ListTyped
<1>3. ListTyped'
  BY <1>1, <1>2 DEF ListInv, ListTyped
<1>4. Owned'
  BY <1>1 DEF ListInv, Owned, Owns
<1>5. Listening!ListExact'
  BY <1>1 DEF ListInv, Listening!ListExact, Listening!Entries
<1>6. QED BY <1>3, <1>4, <1>5 DEF ListInv

LEMMA LeastIndex ==
  ASSUME NEW I \in SUBSET Nat, I # {}
  PROVE  \E n \in I : \A m \in I : n <= m
<1>1. IsWellFoundedOn(OpToRel(<, Nat), Nat)
  BY NatLessThanWellFounded
<1>2. PICK n \in I : \A m \in I : <<m, n>> \notin OpToRel(<, Nat)
  BY <1>1, WFMin
<1>3. \A m \in I : ~(m < n)
  BY <1>2 DEF OpToRel
<1>4. QED BY <1>3

\* What EntryFor finds is there, and it finds what is there.
LEMMA FindsByAddress ==
  ASSUME entries \in Seq(Listeners), NEW a
  PROVE  /\ Listening!EntryFor(a) \in 0..Len(entries)
         /\ Listening!EntryFor(a) # 0 => Addr[entries[Listening!EntryFor(a)]] = a
         /\ Listening!EntryFor(a) = 0 => \A j \in 1..Len(entries) : Addr[entries[j]] # a
<1> DEFINE I == {j \in 1..Len(entries) : Addr[entries[j]] = a}
<1>1. Listening!EntryFor(a) = IF I # {} THEN Listening!Min(I) ELSE 0
  BY DEF Listening!EntryFor, Listening!SelectInSeq
<1>2. CASE I = {}
  BY <1>1, <1>2
<1>3. CASE I # {}
  <2>0. I \in SUBSET Nat
    OBVIOUS
  <2> HIDE DEF I
  <2>1. PICK n \in I : \A m \in I : n <= m
    BY <2>0, <1>3, LeastIndex
  <2>2. Listening!Min(I) \in I
    BY <2>1 DEF Listening!Min
  <2>3. QED BY <1>1, <1>3, <2>2 DEF I
<1>4. QED BY <1>2, <1>3

LEMMA ForwardList ==
  ASSUME Listening!ForwardsAssumption, ListInv, Listening!Forward
  PROVE  ListInv'
<1>1. UNCHANGED <<bound, target, incoming, opening, entries, closed, swept, owner>>
  BY DEF Listening!Forward, Listening!list, Listening!peer
<1> DEFINE ch == Head(handler)
           i  == Listening!EntryFor(target[ch])
<1>2. handler # <<>> /\ handler' = Tail(handler)
  BY DEF Listening!Forward
<1>3. ch \in Channels /\ handler' \in Seq(Channels)
  BY <1>2, HeadTailProperties DEF ListInv, ListTyped
<1>4. IF i = 0 THEN sending' = sending ELSE sending' = <<ch, entries[i]>>
  BY DEF Listening!Forward
<1>5. i \in 0..Len(entries) /\ (i # 0 => Addr[entries[i]] = target[ch])
  BY FindsByAddress DEF ListInv, ListTyped
<1> HIDE DEF ch, i
<1>6. \/ sending' = sending
      \/ /\ sending' = <<ch, entries[i]>> /\ i \in 1..Len(entries)
         /\ entries[i] \in Listeners /\ Addr[entries[i]] = target[ch]
  BY <1>4, <1>5 DEF ListInv, ListTyped
<1>7. ListTyped'
  BY <1>1, <1>3, <1>6 DEF ListInv, ListTyped
<1>8. Owned'
  BY <1>1 DEF ListInv, Owned, Owns
<1>9. Listening!Entries' = Listening!Entries
  BY <1>1 DEF Listening!Entries
<1>a. \A j \in 1..Len(entries) : entries[j] \in Listening!Entries
  BY DEF Listening!Entries, Listening!ToSet, ListInv, ListTyped
<1>b. sending' # None => sending'[2] \in Listening!Entries /\ Addr[sending'[2]] = target[sending'[1]]
  BY <1>6, <1>a DEF ListInv, Listening!ListExact
<1>c. Listening!ListExact'
  BY <1>1, <1>9, <1>b DEF ListInv, Listening!ListExact
<1>d. QED BY <1>7, <1>8, <1>c DEF ListInv

LEMMA SendList ==
  ASSUME Listening!ForwardsAssumption, ListInv, Listening!Send
  PROVE  ListInv'
<1>1. UNCHANGED <<bound, target, incoming, opening, handler, entries, closed, swept, owner>> /\ sending' = None
  BY DEF Listening!Send, Listening!peer
<1>2. QED
  BY <1>1 DEF ListInv, ListTyped, Owned, Owns, Listening!ListExact, Listening!Entries

LEMMA AskList ==
  ASSUME Listening!ForwardsAssumption, ListInv, NEW l \in Listeners, Listening!Ask(l)
  PROVE  ListInv'
<1>1. UNCHANGED <<target, incoming, opening, handler, sending, entries, closed, swept>>
  BY DEF Listening!Ask, Listening!list, Listening!path
<1>2. owner[l] = "idle"
  BY DEF Listening!Ask
<1>3. \/ /\ Addr[l] \notin bound /\ bound' = bound \cup {Addr[l]}
         /\ owner' = [owner EXCEPT ![l] = "granted"]
      \/ bound' = bound /\ owner' = [owner EXCEPT ![l] = "refused"]
  BY DEF Listening!Ask
<1>4. owner \in [Listeners -> {"idle", "granted", "refused", "listening", "cancelling", "closed"}]
      /\ bound \subseteq Addrs /\ Addr \in [Listeners -> Addrs] /\ closed \subseteq Listeners
      /\ \A i \in 1..Len(entries) : entries[i] \in Listeners
  BY DEF ListInv, ListTyped, Listening!ForwardsAssumption
<1>5. \A m \in Listeners : m # l => owner'[m] = owner[m]
  BY <1>3, <1>4
<1>6. owner'[l] \in {"granted", "refused"}
      /\ (owner'[l] = "granted" => Addr[l] \notin bound /\ bound' = bound \cup {Addr[l]})
      /\ bound \subseteq bound'
  BY <1>3, <1>4
<1>7. ListTyped'
  BY <1>1, <1>3, <1>4 DEF ListInv, ListTyped
<1>8. Owned'
  <2>1. \A m \in Listeners : Owns(m)' => Addr[m] \in bound'
    BY <1>5, <1>6 DEF ListInv, Owned, Owns
  <2>2. \A m, n \in Listeners : Owns(m)' /\ Owns(n)' /\ Addr[m] = Addr[n] => m = n
    BY <1>5, <1>6 DEF ListInv, Owned, Owns
  <2>3. \A i \in 1..Len(entries') : owner'[entries'[i]] = "listening"
    BY <1>1, <1>2, <1>4, <1>5 DEF ListInv, Owned
  <2>4. \A m \in closed' : owner'[m] \notin {"idle", "granted"}
    BY <1>1, <1>2, <1>4, <1>5 DEF ListInv, Owned
  <2>5. QED BY <1>1, <2>1, <2>2, <2>3, <2>4 DEF ListInv, Owned
<1>9. Listening!ListExact'
  BY <1>1, <1>5, <1>6 DEF ListInv, Listening!ListExact, Listening!Entries
<1>10. QED BY <1>7, <1>8, <1>9 DEF ListInv

\* The last entry is the new one.
LEMMA Appended ==
  ASSUME entries \in Seq(Listeners), NEW l \in Listeners, entries' = Append(entries, l)
  PROVE  /\ entries' \in Seq(Listeners) /\ Len(entries') = Len(entries) + 1
         /\ \A i \in 1..Len(entries) : entries'[i] = entries[i] /\ entries[i] \in Listeners
         /\ entries'[Len(entries) + 1] = l
         /\ Listening!Entries' = Listening!Entries \cup {l}
<1>1. /\ entries' \in Seq(Listeners) /\ Len(entries') = Len(entries) + 1
      /\ \A i \in 1..Len(entries) : entries'[i] = entries[i] /\ entries[i] \in Listeners
      /\ entries'[Len(entries) + 1] = l /\ Len(entries) \in Nat
  OBVIOUS
<1>2. Listening!Entries' = {entries'[i] : i \in 1..Len(entries')}
      /\ Listening!Entries = {entries[i] : i \in 1..Len(entries)}
  BY <1>1 DEF Listening!Entries, Listening!ToSet
<1>3. Listening!Entries' = Listening!Entries \cup {l}
  BY <1>1, <1>2
<1>4. QED BY <1>1, <1>3

LEMMA AddList ==
  ASSUME Listening!ForwardsAssumption, ListInv, NEW l \in Listeners, Listening!Add(l)
  PROVE  ListInv'
<1>1. UNCHANGED <<bound, target, incoming, opening, handler, sending, closed, swept>>
  BY DEF Listening!Add, Listening!peer, Listening!path
<1>2. owner[l] = "granted" /\ sending = None /\ entries' = Append(entries, l)
      /\ owner' = [owner EXCEPT ![l] = "listening"]
  BY DEF Listening!Add, Listening!Unlocked
<1>3. owner \in [Listeners -> {"idle", "granted", "refused", "listening", "cancelling", "closed"}]
      /\ Addr \in [Listeners -> Addrs] /\ closed \subseteq Listeners /\ entries \in Seq(Listeners)
  BY DEF ListInv, ListTyped, Listening!ForwardsAssumption
<1>4. /\ entries' \in Seq(Listeners) /\ Len(entries') = Len(entries) + 1 /\ Len(entries) \in Nat
      /\ \A i \in 1..Len(entries) : entries'[i] = entries[i] /\ entries[i] \in Listeners
      /\ entries'[Len(entries) + 1] = l
      /\ Listening!Entries' = Listening!Entries \cup {l}
  BY <1>2, <1>3, Appended
<1>5. owner'[l] = "listening" /\ \A m \in Listeners : m # l => owner'[m] = owner[m]
  BY <1>2, <1>3
<1>6. l \notin closed /\ \A i \in 1..Len(entries) : entries[i] # l /\ Addr[entries[i]] # Addr[l]
  BY <1>2, <1>4 DEF ListInv, Owned, Owns
<1>7. ListTyped'
  BY <1>1, <1>2, <1>3, <1>4 DEF ListInv, ListTyped
<1>8. Owned'
  <2>1. \A m \in Listeners : Owns(m)' <=> Owns(m)
    BY <1>2, <1>5 DEF Owns
  <2>2. \A i \in 1..Len(entries') : owner'[entries'[i]] = "listening"
    <3>1. TAKE i \in 1..Len(entries')
    <3>2. CASE i = Len(entries) + 1
      BY <3>2, <1>4, <1>5
    <3>3. CASE i \in 1..Len(entries)
      BY <3>3, <1>4, <1>5, <1>6 DEF ListInv, Owned
    <3>4. QED BY <3>2, <3>3, <1>4
  <2>3. \A i, j \in 1..Len(entries') : entries'[i] = entries'[j] => i = j
    BY <1>4, <1>6 DEF ListInv, Owned
  <2>4. \A m \in closed' : owner'[m] \notin {"idle", "granted"}
    BY <1>1, <1>3, <1>5 DEF ListInv, Owned
  <2>5. QED BY <1>1, <2>1, <2>2, <2>3, <2>4 DEF ListInv, Owned
<1>9. Listening!ListExact'
  <2>1. \A m \in Listening!Entries' : m \notin closed'
    BY <1>1, <1>4, <1>6 DEF ListInv, Listening!ListExact
  <2>2. \A i, j \in 1..Len(entries') : Addr[entries'[i]] = Addr[entries'[j]] => i = j
    BY <1>4, <1>6 DEF ListInv, Listening!ListExact
  <2>3. \A m \in Listeners : owner'[m] = "listening" /\ ~swept' => m \in Listening!Entries'
    BY <1>1, <1>4, <1>5 DEF ListInv, Listening!ListExact
  <2>4. sending' = None
    BY <1>1, <1>2
  <2>5. QED BY <2>1, <2>2, <2>3, <2>4 DEF Listening!ListExact
<1>10. QED BY <1>7, <1>8, <1>9 DEF ListInv

LEMMA AcceptList ==
  ASSUME ListInv, NEW l \in Listeners, Listening!Accept(l) \/ Listening!EOF(l)
  PROVE  ListInv'
<1>1. UNCHANGED <<bound, target, incoming, opening, handler, sending, entries, closed, swept, owner>>
  BY DEF Listening!Accept, Listening!EOF, Listening!peer, Listening!path, Listening!list
<1>2. QED
  BY <1>1 DEF ListInv, ListTyped, Owned, Owns, Listening!ListExact, Listening!Entries

LEMMA CloseAllList ==
  ASSUME Listening!ForwardsAssumption, ListInv, Listening!CloseAll
  PROVE  ListInv'
<1>1. UNCHANGED <<bound, target, incoming, opening, handler, sending, owner>>
      /\ closed' = closed \cup Listening!Entries /\ entries' = <<>> /\ swept' = TRUE /\ sending = None
  BY DEF Listening!CloseAll, Listening!peer, Listening!path, Listening!Unlocked
<1>2. \A m \in Listening!Entries : m \in Listeners /\ owner[m] = "listening"
  BY DEF ListInv, Owned, ListTyped, Listening!Entries, Listening!ToSet
<1>3. ListTyped'
  BY <1>1, <1>2 DEF ListInv, ListTyped
<1>4. Owned'
  BY <1>1, <1>2 DEF ListInv, Owned, Owns
<1>5. Listening!ListExact'
  BY <1>1 DEF Listening!ListExact, Listening!Entries, Listening!ToSet
<1>6. QED BY <1>3, <1>4, <1>5 DEF ListInv

\* Taking one entry off the list keeps the others, in their order.
LEMMA Removed ==
  ASSUME entries \in Seq(Listeners), NEW i \in 1..Len(entries),
         entries' = Listening!RemoveAt(entries, i)
  PROVE  /\ entries' \in Seq(Listeners) /\ Len(entries') = Len(entries) - 1
         /\ \A j \in 1..Len(entries') : entries'[j] = entries[IF j < i THEN j ELSE j + 1]
<1>1. Len(entries) \in Nat /\ \A j \in 1..Len(entries) : entries[j] \in Listeners
  OBVIOUS
<1> DEFINE s == SubSeq(entries, 1, i - 1)
           t == SubSeq(entries, i + 1, Len(entries))
<1>2. /\ s \in Seq(Listeners) /\ Len(s) = i - 1
      /\ \A j \in 1..i - 1 : s[j] = entries[j]
  <2>1. 1 \in Int /\ i - 1 \in Int /\ \A j \in 1..i - 1 : entries[j] \in Listeners
    BY <1>1
  <2>2. /\ s \in Seq(Listeners) /\ Len(s) = IF 1 <= i - 1 THEN (i - 1) - 1 + 1 ELSE 0
        /\ \A j \in 1..(i - 1) - 1 + 1 : s[j] = entries[1 + j - 1]
    BY <2>1, SubSeqProperties
  <2>3. QED BY <2>2, <1>1
<1>3. /\ t \in Seq(Listeners) /\ Len(t) = Len(entries) - i
      /\ \A j \in 1..Len(entries) - i : t[j] = entries[i + j]
  <2>1. i + 1 \in Int /\ Len(entries) \in Int /\ \A j \in i + 1..Len(entries) : entries[j] \in Listeners
    BY <1>1
  <2>2. /\ t \in Seq(Listeners) /\ Len(t) = IF i + 1 <= Len(entries) THEN Len(entries) - (i + 1) + 1 ELSE 0
        /\ \A j \in 1..Len(entries) - (i + 1) + 1 : t[j] = entries[(i + 1) + j - 1]
    BY <2>1, SubSeqProperties
  <2>3. QED BY <2>2, <1>1
<1>4. entries' = s \o t
  BY DEF Listening!RemoveAt
<1> HIDE DEF s, t
<1>5. entries' \in Seq(Listeners) /\ Len(entries') = Len(s) + Len(t)
      /\ \A j \in 1..Len(s) + Len(t) : entries'[j] = IF j <= Len(s) THEN s[j] ELSE t[j - Len(s)]
  <2>1. s \in Seq(Listeners) /\ t \in Seq(Listeners)
    BY <1>2, <1>3
  <2>2. /\ s \o t \in Seq(Listeners)
        /\ Len(s \o t) = Len(s) + Len(t)
        /\ \A j \in 1..Len(s) + Len(t) : (s \o t)[j] = IF j <= Len(s) THEN s[j] ELSE t[j - Len(s)]
    BY <2>1, ConcatProperties
  <2>3. QED BY <2>2, <1>4
<1>6. ASSUME NEW j \in 1..Len(entries')
      PROVE  entries'[j] = entries[IF j < i THEN j ELSE j + 1]
  <2>1. CASE j < i
    BY <2>1, <1>1, <1>2, <1>3, <1>5
  <2>2. CASE ~(j < i)
    <3>1. j - (i - 1) \in 1..Len(entries) - i /\ i + (j - (i - 1)) = j + 1
      BY <2>2, <1>1, <1>2, <1>3, <1>5
    <3>2. entries'[j] = t[j - (i - 1)]
      BY <2>2, <1>1, <1>2, <1>5
    <3>3. QED BY <3>1, <3>2, <2>2, <1>3
  <2>3. QED BY <2>1, <2>2
<1>7. QED BY <1>1, <1>2, <1>3, <1>5, <1>6

\* remove drops nothing but the owner's own entry.
LEMMA RemovesOwn ==
  ASSUME Listening!ForwardsAssumption, ListInv, NEW l \in Listeners, owner[l] = "listening",
         Listening!RemoveEntry(Addr[l])
  PROVE  /\ entries' \in Seq(Listeners) /\ closed \subseteq closed' /\ closed' \subseteq closed \cup {l}
         /\ \A j \in 1..Len(entries') : \E k \in 1..Len(entries) :
                entries'[j] = entries[k] /\ entries[k] # l
         /\ \A j, m \in 1..Len(entries') : entries'[j] = entries'[m] => j = m
         /\ \A m \in Listeners \ {l} : m \in Listening!Entries => m \in Listening!Entries'
<1> DEFINE i == Listening!EntryFor(Addr[l])
<1>1. /\ entries \in Seq(Listeners) /\ Len(entries) \in Nat /\ Addr \in [Listeners -> Addrs]
      /\ \A j \in 1..Len(entries) : entries[j] \in Listeners /\ owner[entries[j]] = "listening"
  BY DEF ListInv, ListTyped, Owned, Listening!ForwardsAssumption
<1>2. i \in 0..Len(entries) /\ (i # 0 => Addr[entries[i]] = Addr[l])
      /\ (i = 0 => \A j \in 1..Len(entries) : Addr[entries[j]] # Addr[l])
  BY <1>1, FindsByAddress
<1>3. IF i = 0 THEN entries' = entries /\ closed' = closed
      ELSE entries' = Listening!RemoveAt(entries, i) /\ closed' = closed \cup {entries[i]}
  BY DEF Listening!RemoveEntry
<1> HIDE DEF i
<1>4. \A j, m \in 1..Len(entries) : entries[j] = entries[m] => j = m
  BY DEF ListInv, Owned
<1>5. CASE i = 0
  <2>1. entries' = entries /\ closed' = closed
    BY <1>3, <1>5
  <2>2. \A j \in 1..Len(entries) : entries[j] # l
    BY <1>2, <1>5
  <2>3. Listening!Entries' = Listening!Entries
    BY <2>1 DEF Listening!Entries
  <2>4. \A j \in 1..Len(entries') : \E k \in 1..Len(entries) : entries'[j] = entries[k] /\ entries[k] # l
    BY <2>1, <2>2
  <2>5. QED BY <2>1, <2>3, <2>4, <1>1, <1>4
<1>6. CASE i # 0
  <2>1. i \in 1..Len(entries) /\ entries' = Listening!RemoveAt(entries, i) /\ closed' = closed \cup {entries[i]}
    BY <1>2, <1>3, <1>6
  <2>2. Addr[entries[i]] = Addr[l] /\ entries[i] \in Listeners /\ owner[entries[i]] = "listening"
    BY <1>1, <1>2, <1>6, <2>1
  <2>3. entries[i] = l
    BY <2>2 DEF ListInv, Owned, Owns
  <2>4. /\ entries' \in Seq(Listeners) /\ Len(entries') = Len(entries) - 1
        /\ \A j \in 1..Len(entries') : entries'[j] = entries[IF j < i THEN j ELSE j + 1]
    BY <1>1, <2>1, Removed
  <2> DEFINE At(j) == IF j < i THEN j ELSE j + 1
  <2>5. \A j \in 1..Len(entries') : At(j) \in 1..Len(entries) /\ At(j) # i
    BY <1>1, <2>1, <2>4
  <2>6. \A j, m \in 1..Len(entries') : At(j) = At(m) => j = m
    BY <1>1, <2>1, <2>4
  <2>7. \A k \in 1..Len(entries) : k # i => \E j \in 1..Len(entries') : At(j) = k
    <3>1. TAKE k \in 1..Len(entries)
    <3>2. HAVE k # i
    <3>3. CASE k < i
      <4>1. k \in 1..Len(entries') /\ At(k) = k
        BY <3>3, <1>1, <2>1, <2>4
      <4>2. QED BY <4>1
    <3>4. CASE k > i
      <4>1. k - 1 \in 1..Len(entries') /\ At(k - 1) = k
        BY <3>4, <1>1, <2>1, <2>4
      <4>2. QED BY <4>1
    <3>5. QED BY <3>2, <3>3, <3>4, <1>1, <2>1
  <2>8. \A j \in 1..Len(entries') : entries'[j] = entries[At(j)]
    BY <2>4
  <2> HIDE DEF At
  <2>9. \A j \in 1..Len(entries') : \E k \in 1..Len(entries) : entries'[j] = entries[k] /\ entries[k] # l
    BY <2>1, <2>3, <2>5, <2>8, <1>4
  <2>10. \A j, m \in 1..Len(entries') : entries'[j] = entries'[m] => j = m
    BY <2>5, <2>6, <2>8, <1>4
  <2>11. \A m \in Listeners \ {l} : m \in Listening!Entries => m \in Listening!Entries'
    <3>1. TAKE m \in Listeners \ {l}
    <3>2. HAVE m \in Listening!Entries
    <3>3. PICK k \in 1..Len(entries) : entries[k] = m
      BY <3>2, <1>1 DEF Listening!Entries, Listening!ToSet
    <3>4. PICK j \in 1..Len(entries') : At(j) = k
      BY <3>1, <3>3, <2>3, <2>7
    <3>5. entries'[j] = m /\ DOMAIN entries' = 1..Len(entries')
      BY <3>3, <3>4, <2>4, <2>8
    <3>6. QED BY <3>5 DEF Listening!Entries, Listening!ToSet
  <2>12. QED BY <2>1, <2>3, <2>4, <2>9, <2>10, <2>11
<1>7. QED BY <1>5, <1>6

LEMMA RemoveList ==
  ASSUME Listening!ForwardsAssumption, ListInv, NEW l \in Listeners, owner[l] = "listening",
         sending = None, Listening!RemoveEntry(Addr[l]), owner' = [owner EXCEPT ![l] = "cancelling"],
         UNCHANGED <<bound, target, incoming, opening, handler, sending, swept>>
  PROVE  ListInv'
<1>1. /\ entries' \in Seq(Listeners) /\ closed \subseteq closed' /\ closed' \subseteq closed \cup {l}
      /\ \A j \in 1..Len(entries') : \E k \in 1..Len(entries) :
             entries'[j] = entries[k] /\ entries[k] # l
      /\ \A j, m \in 1..Len(entries') : entries'[j] = entries'[m] => j = m
      /\ \A m \in Listeners \ {l} : m \in Listening!Entries => m \in Listening!Entries'
  BY RemovesOwn
<1>2. owner \in [Listeners -> {"idle", "granted", "refused", "listening", "cancelling", "closed"}]
      /\ Addr \in [Listeners -> Addrs] /\ closed \subseteq Listeners /\ entries \in Seq(Listeners)
  BY DEF ListInv, ListTyped, Listening!ForwardsAssumption
<1>3. owner'[l] = "cancelling" /\ \A m \in Listeners : m # l => owner'[m] = owner[m]
  BY <1>2
<1>4. \A j \in 1..Len(entries') :
          /\ entries'[j] \in Listeners /\ entries'[j] # l /\ owner[entries'[j]] = "listening"
          /\ entries'[j] \in Listening!Entries
  <2>1. \A k \in 1..Len(entries) : entries[k] \in Listeners /\ owner[entries[k]] = "listening"
                                   /\ entries[k] \in Listening!Entries
    BY <1>2 DEF ListInv, Owned, Listening!Entries, Listening!ToSet
  <2>2. QED BY <2>1, <1>1
<1>5. ListTyped'
  BY <1>1, <1>2 DEF ListInv, ListTyped
<1>6. \A m \in Listeners : Owns(m)' <=> Owns(m)
  BY <1>2, <1>3 DEF Owns
<1>7. Owned'
  <2>1. \A i \in 1..Len(entries') : owner'[entries'[i]] = "listening"
    BY <1>3, <1>4
  <2>2. \A m \in closed' : owner'[m] \notin {"idle", "granted"}
    BY <1>1, <1>2, <1>3 DEF ListInv, Owned
  <2>3. QED BY <1>1, <1>6, <2>1, <2>2 DEF ListInv, Owned
<1>8. Listening!ListExact'
  <2>1. \A m \in Listening!Entries' : m \notin closed'
    <3>1. TAKE m \in Listening!Entries'
    <3>2. PICK j \in 1..Len(entries') : entries'[j] = m
      BY <1>1 DEF Listening!Entries, Listening!ToSet
    <3>3. QED BY <3>2, <1>1, <1>4 DEF ListInv, Listening!ListExact
  <2>2. \A i, j \in 1..Len(entries') : Addr[entries'[i]] = Addr[entries'[j]] => i = j
    <3>1. TAKE i, j \in 1..Len(entries')
    <3>2. HAVE Addr[entries'[i]] = Addr[entries'[j]]
    <3>3. entries'[i] = entries'[j]
      BY <3>2, <1>4 DEF ListInv, Owned, Owns
    <3>4. QED BY <3>3, <1>1
  <2>3. \A m \in Listeners : owner'[m] = "listening" /\ ~swept' => m \in Listening!Entries'
    BY <1>1, <1>3 DEF ListInv, Listening!ListExact
  <2>4. QED BY <2>1, <2>2, <2>3 DEF Listening!ListExact
<1>9. QED BY <1>5, <1>7, <1>8 DEF ListInv

LEMMA CancelList ==
  ASSUME Listening!ForwardsAssumption, ListInv, NEW l \in Listeners, owner[l] = "cancelling",
         bound' = (IF up THEN bound \ {Addr[l]} ELSE bound), owner' = [owner EXCEPT ![l] = "closed"],
         UNCHANGED <<target, incoming, opening, handler, sending, entries, closed, swept>>
  PROVE  ListInv'
<1>1. owner \in [Listeners -> {"idle", "granted", "refused", "listening", "cancelling", "closed"}]
      /\ Addr \in [Listeners -> Addrs] /\ closed \subseteq Listeners
      /\ bound \subseteq Addrs /\ \A i \in 1..Len(entries) : entries[i] \in Listeners
  BY DEF ListInv, ListTyped, Listening!ForwardsAssumption
<1>2. owner'[l] = "closed" /\ \A m \in Listeners : m # l => owner'[m] = owner[m]
  BY <1>1
<1>3. bound \ {Addr[l]} \subseteq bound' /\ bound' \subseteq bound
  OBVIOUS
<1>4. ListTyped'
  BY <1>1, <1>3 DEF ListInv, ListTyped
<1>5. Owned'
  <2>1. \A m \in Listeners : Owns(m)' => Owns(m) /\ m # l
    BY <1>2 DEF Owns
  <2>2. \A m \in Listeners : Owns(m)' => Addr[m] \in bound'
    BY <2>1, <1>3 DEF ListInv, Owned, Owns
  <2>3. \A i \in 1..Len(entries') : owner'[entries'[i]] = "listening"
    BY <1>1, <1>2 DEF ListInv, Owned
  <2>4. \A m \in closed' : owner'[m] \notin {"idle", "granted"}
    BY <1>1, <1>2 DEF ListInv, Owned
  <2>5. QED BY <2>1, <2>2, <2>3, <2>4 DEF ListInv, Owned
<1>6. Listening!ListExact'
  BY <1>2 DEF ListInv, Listening!ListExact, Listening!Entries
<1>7. QED BY <1>4, <1>5, <1>6 DEF ListInv

LEMMA CloseList ==
  ASSUME Listening!ForwardsAssumption, ListInv, NEW l \in Listeners, Listening!Close(l)
  PROVE  ListInv'
<1>1. CASE owner[l] = "listening"
  BY <1>1, RemoveList DEF Listening!Close, Listening!Unlocked, Listening!peer, Listening!path
<1>2. CASE owner[l] = "cancelling"
  BY <1>2, CancelList DEF Listening!Close, Listening!path, Listening!list
<1>3. QED BY <1>1, <1>2 DEF Listening!Close

LEMMA ListStep ==
  ASSUME Listening!ForwardsAssumption, ListInv, [Listening!Next]_Listening!vars
  PROVE  ListInv'
<1>1. CASE UNCHANGED Listening!vars
  BY <1>1 DEF Listening!vars, Listening!Entries, ListInv, ListTyped, Owned, Owns,
     Listening!ListExact
<1>2. CASE Listening!Next
  BY <1>2, OpenList, BreakList, TakeOpenList, PassOpenList, ForwardList, SendList, CloseAllList,
     AskList, AddList, AcceptList, CloseList DEF Listening!Next
<1>3. QED BY <1>1, <1>2

\* The list of forwards is exact, whoever listens where: an entry's channel is open, no two
\* have one address, and no listener loses its entry while the connection lasts.
THEOREM ListAlwaysExact == Listening!Spec => []ListExact
<1>1. Listening!Init => ListInv
  BY ListInit, ClientAssumption
<1>2. ListInv /\ [Listening!Next]_Listening!vars => ListInv'
  BY ListStep, ClientAssumption
<1>3. ListInv => ListExact
  BY DEF ListInv, ListExact
<1>4. QED BY <1>1, <1>2, <1>3, PTL DEF Listening!Spec

-----------------------------------------------------------------------------
NoStatus == Sessions!NoStatus
Nothing == Sessions!Nothing
Malformed == Sessions!Malformed
Exits == (Statuses \cup {Nothing}) \X (Signals \cup {"", Malformed})

\* The requests that tell of an exit.
Sent(e) ==
    (IF e[1] = Nothing THEN <<>> ELSE <<<<"exit-status", e[1]>>>>)
    \o (IF e[2] = "" THEN <<>> ELSE <<<<"exit-signal", e[2]>>>>)

Finished == {s \in Sessions!Streams : copying[s] = "done"}

SessionTyped ==
    /\ ended \in Exits /\ seen \in Exits
    /\ written \in [Sessions!Outputs -> Nat] /\ copied \in [Sessions!Outputs -> Nat]
    /\ copying \in [Sessions!Streams -> {"none", "copying", "done"}]
    /\ errors \in Seq(BOOLEAN) /\ copyErr \in BOOLEAN
    /\ fed \in Nat /\ moved \in Nat /\ collected \in Nat
    /\ caller \in {"new", "asking", "waiting", "collecting", "returned"}

\* What wait has read and what it has still to read make what was sent, until it gives up
\* at what it cannot parse.
Heard ==
    \/ seen = NoStatus /\ reqs = Sent(ended)
    \/ seen = <<ended[1], "">> /\ reqs = Sent(<<Nothing, ended[2]>>)
    \/ seen = ended /\ reqs = <<>> /\ ended[2] # Malformed
    \/ exitStatus # <<>>

\* Its verdict is about all of it, or an error before the channel is closed, and stands.
Truth == IF ended[2] = Malformed THEN Nothing ELSE Sessions!Verdict(ended)
Over == ended[2] = Malformed \/ ~open
Judged == exitStatus # <<>> => Over /\ exitStatus = <<Truth>>

\* A command is asked for once, and what follows the answer comes after it.
Early ==
    /\ remote = "asked" /\ open => caller = "asking"
    /\ remote # "exited" => ended = NoStatus
    /\ caller \in {"new", "asking"} => remote \in {"idle", "asked"}
    /\ caller \in {"new", "asking"} =>
         errors = <<>> /\ collected = 0 /\ ~copyErr /\ \A s \in Sessions!Streams : copying[s] = "none"

\* The errors under way and those collected count the copies that are done; an output is
\* then copied, unless its own writer or the connection has failed.  Only what is left of an
\* input, or one of these, is an error.
Counted ==
    /\ \A s \in piped \cap Sessions!Streams : copying[s] = "none"
    /\ Cardinality(Finished) = Len(errors) + collected

Failed == copyErr \/ \E i \in 1..Len(errors) : errors[i]
Excused(s) == (broken \/ s \in faults) /\ Failed

Copied ==
    /\ \A s \in Sessions!Outputs : copied[s] <= written[s]
    /\ \A s \in Sessions!Outputs : copying[s] = "done" =>
         (~open /\ copied[s] = written[s]) \/ Excused(s)
    /\ moved <= fed
    /\ Failed => (moved < fed /\ copying["stdin"] = "done") \/ broken \/ faults # {}

Told ==
    /\ caller = "collecting" => Over /\ waitErr = Truth
    /\ caller = "returned" /\ waitErr # Sessions!Lost =>
         /\ Over /\ waitErr = Truth
         /\ Finished = Sessions!CopyFuncs /\ Len(errors) = 0

\* The pipe of the input fails with the caller's reader.
Reader == pipe = "failed" => faults # {}

SessionInv == SessionTyped /\ Heard /\ Judged /\ Early /\ Counted /\ Copied /\ Told

LEMMA Consts ==
  /\ Nothing = -1 /\ NoStatus = <<-1, "">> /\ Sessions!Lost = -2
  /\ Sessions!Outputs = {"stdout", "stderr"} /\ Sessions!Streams = {"stdout", "stderr", "stdin"}
BY DEF Nothing, NoStatus, Sessions!Nothing, Sessions!NoStatus, Sessions!Lost, Sessions!Outputs,
   Sessions!Streams

\* One request for each part that there is.
LEMMA SentCases ==
  ASSUME NEW e
  PROVE  /\ e[1] = Nothing /\ e[2] = "" => Sent(e) = <<>>
         /\ e[1] # Nothing /\ e[2] = "" => Sent(e) = <<<<"exit-status", e[1]>>>>
         /\ e[1] = Nothing /\ e[2] # "" => Sent(e) = <<<<"exit-signal", e[2]>>>>
         /\ e[1] # Nothing /\ e[2] # "" =>
              Sent(e) = <<<<"exit-status", e[1]>>, <<"exit-signal", e[2]>>>>
<1> DEFINE a == <<"exit-status", e[1]>>
           b == <<"exit-signal", e[2]>>
<1> DEFINE S == {a, b}
<1>1. <<>> \in Seq(S) /\ <<a>> \in Seq(S) /\ <<b>> \in Seq(S) /\ <<a, b>> \in Seq(S)
  OBVIOUS
<1>2. /\ Len(<<a>> \o <<b>>) = 2 /\ <<a>> \o <<b>> \in Seq(S)
      /\ (<<a>> \o <<b>>)[1] = a /\ (<<a>> \o <<b>>)[2] = b
  OBVIOUS
<1>3. <<a>> \o <<b>> = <<a, b>>
  <2>1. \A i \in 1..2 : (<<a>> \o <<b>>)[i] = <<a, b>>[i]
    BY <1>2
  <2>2. Len(<<a, b>>) = 2
    OBVIOUS
  <2> HIDE DEF a, b, S
  <2>3. QED BY <1>1, <1>2, <2>1, <2>2, SeqEqual
<1>4. <<>> \o <<>> = <<>> /\ <<a>> \o <<>> = <<a>> /\ <<>> \o <<b>> = <<b>>
  BY <1>1, ConcatEmptySeq
<1>5. QED BY <1>3, <1>4 DEF Sent

LEMMA SentEmpty ==
  ASSUME NEW e, Sent(e) = <<>>
  PROVE  e[1] = Nothing /\ e[2] = ""
<1> DEFINE a == <<"exit-status", e[1]>>
           b == <<"exit-signal", e[2]>>
<1>1. <<a>> # <<>> /\ <<b>> # <<>> /\ <<a, b>> # <<>>
  <2> HIDE DEF a, b
  <2>1. Len(<<a>>) = 1 /\ Len(<<b>>) = 1 /\ Len(<<a, b>>) = 2 /\ Len(<<>>) = 0
    OBVIOUS
  <2>2. QED BY <2>1
<1>2. QED BY <1>1, SentCases

LEMMA Pairs ==
  ASSUME NEW e \in Exits
  PROVE  /\ e = <<e[1], e[2]>>
         /\ e[1] \in Statuses \cup {Nothing} /\ e[2] \in Signals \cup {"", Malformed}
<1> DEFINE S == Statuses \cup {Nothing}
           T == Signals \cup {"", Malformed}
<1>1. e \in S \X T
  BY DEF Exits
<1> HIDE DEF S, T
<1>2. e = <<e[1], e[2]>> /\ e[1] \in S /\ e[2] \in T
  BY <1>1
<1>3. QED BY <1>2 DEF S, T

LEMMA SessionInit ==
  ASSUME Sessions!Init
  PROVE  SessionInv
<1> USE DEF Sessions!Init
<1>1. SessionTyped
  <2>1. ended \in Exits /\ seen \in Exits
    BY Consts DEF Exits, NoStatus
  <2>2. errors \in Seq(BOOLEAN)
    BY EmptySeq
  <2>3. copyErr \in BOOLEAN
    OBVIOUS
  <2>4. QED BY <2>1, <2>2, <2>3 DEF SessionTyped
<1>2. Heard
  <2>1. ended[1] = Nothing /\ ended[2] = ""
    BY Consts DEF NoStatus
  <2>2. Sent(ended) = <<>>
    BY <2>1, SentCases
  <2>3. QED BY <2>2 DEF Heard, NoStatus
<1>3. Judged /\ Early /\ Told
  BY DEF Judged, Early, Told, NoStatus, Truth, Over
<1>4. Counted
  <2>1. Finished = {}
    BY DEF Finished
  <2>2. QED BY <2>1, FS_EmptySet DEF Counted
<1>5. Copied
  <2>1. \A s \in Sessions!Outputs : copied[s] <= written[s]
    OBVIOUS
  <2>2. \A s \in Sessions!Streams : copying[s] # "done"
    OBVIOUS
  <2>3. ~(\E i \in 1..Len(errors) : errors[i])
    OBVIOUS
  <2>4. Sessions!Outputs \subseteq Sessions!Streams
    BY DEF Sessions!Streams
  <2>5. QED BY <2>1, <2>2, <2>3, <2>4 DEF Copied, Failed, Excused
<1>6. QED BY <1>1, <1>2, <1>3, <1>4, <1>5 DEF SessionInv

\* While the streams and the errors stay as they are.
LEMMA SameCopies ==
  ASSUME SessionInv, UNCHANGED <<piped, copying, errors, collected>>
  PROVE  Counted'
BY DEF SessionInv, Counted, Finished

LEMMA SameCopied ==
  ASSUME SessionInv,
         UNCHANGED <<open, broken, written, copied, copying, errors, copyErr, faults, fed, moved>>
  PROVE  Copied'
BY DEF SessionInv, Copied, Failed, Excused

LEMMA AskSession ==
  ASSUME SessionInv, Sessions!Ask
  PROVE  SessionInv'
<1> USE DEF SessionInv
<1>1. UNCHANGED <<piped, ended, written, open, reqs, seen, exitStatus, copied, copying, errors,
                  fed, moved, pipe, copyErr, collected, faults, broken>>
  BY DEF Sessions!Ask, Sessions!setup, Sessions!stdin, Sessions!conn
<1>2. /\ caller = "new" /\ caller' \in {"asking", "returned"}
      /\ caller' = "asking" => waitErr' = waitErr
      /\ caller' = "returned" => waitErr' = Sessions!Lost /\ remote' = remote
      /\ caller' = "asking" => remote' = "asked"
  BY DEF Sessions!Ask
<1>3. SessionTyped'
  BY <1>1, <1>2 DEF SessionTyped
<1>4. Heard' /\ Judged' /\ Told'
  BY <1>1, <1>2 DEF Heard, Judged, Told, Truth, Over
<1>5. Early'
  BY <1>1, <1>2 DEF Early
<1>6. Counted'
  BY <1>1, SameCopies
<1>7. Copied'
  BY <1>1, SameCopied
<1>8. QED BY <1>3, <1>4, <1>5, <1>6, <1>7

LEMMA RefuseSession ==
  ASSUME SessionInv, Sessions!Refuse
  PROVE  SessionInv'
<1> USE DEF SessionInv
<1>1. UNCHANGED <<piped, ended, written, open, reqs, seen, exitStatus, copied, copying, errors,
                  fed, moved, pipe, waitErr, copyErr, collected, faults, broken>>
  BY DEF Sessions!conn, Sessions!Refuse, Sessions!setup, Sessions!stdin
<1>2. caller = "asking" /\ caller' = "new" /\ remote' = "idle" /\ remote = "asked"
  BY DEF Sessions!Refuse, Early
<1>3. SessionTyped'
  BY <1>1, <1>2 DEF SessionTyped
<1>4. Heard' /\ Judged' /\ Told'
  BY <1>1, <1>2 DEF Heard, Judged, Told, Truth, Over
<1>5. Early'
  BY <1>1, <1>2 DEF Early
<1>6. Counted'
  BY <1>1, SameCopies
<1>7. Copied'
  BY <1>1, SameCopied
<1>8. QED BY <1>3, <1>4, <1>5, <1>6, <1>7

LEMMA StartFailsSession ==
  ASSUME SessionInv, Sessions!StartFails
  PROVE  SessionInv'
<1> USE DEF SessionInv
<1>1. UNCHANGED <<piped, remote, ended, written, open, reqs, seen, exitStatus, copied, copying,
                  errors, fed, moved, pipe, copyErr, collected, faults, broken>>
  BY DEF Sessions!conn, Sessions!StartFails, Sessions!setup, Sessions!stdin, Sessions!server
<1>2. ~open /\ caller' = "returned" /\ waitErr' = Sessions!Lost
  BY DEF Sessions!StartFails
<1>3. SessionTyped'
  BY <1>1, <1>2 DEF SessionTyped
<1>4. Heard' /\ Judged' /\ Told'
  BY <1>1, <1>2 DEF Heard, Judged, Told, Truth, Over
<1>5. Early'
  BY <1>1, <1>2 DEF Early
<1>6. Counted'
  BY <1>1, SameCopies
<1>7. Copied'
  BY <1>1, SameCopied
<1>8. QED BY <1>3, <1>4, <1>5, <1>6, <1>7

LEMMA StartSession ==
  ASSUME SessionInv, Sessions!Start
  PROVE  SessionInv'
<1> USE DEF SessionInv
<1>1. UNCHANGED <<piped, ended, written, open, reqs, seen, exitStatus, copied, errors, fed,
                  moved, waitErr, copyErr, collected, faults, broken>>
  BY DEF Sessions!conn, Sessions!Start, Sessions!setup
<1>2. /\ caller = "asking" /\ caller' = "waiting" /\ remote = "asked" /\ remote' = "running"
      /\ copying' = [s \in Sessions!Streams |-> IF s \in Sessions!CopyFuncs THEN "copying" ELSE "none"]
  BY DEF Sessions!Start
<1>3. errors = <<>> /\ collected = 0 /\ ~copyErr
  BY <1>2 DEF Early
<1>4. SessionTyped'
  BY <1>1, <1>2 DEF SessionTyped
<1>5. Heard' /\ Judged' /\ Told' /\ Early'
  BY <1>1, <1>2 DEF Heard, Judged, Told, Early, Truth, Over
<1>6. \A s \in Sessions!Streams : copying'[s] # "done" /\ (s \in piped => copying'[s] = "none")
  BY <1>2 DEF Sessions!CopyFuncs
<1>7. Counted'
  <2>1. Finished' = {}
    BY <1>6 DEF Finished
  <2>2. Cardinality(Finished') = Len(errors') + collected'
    BY <2>1, <1>1, <1>3, FS_EmptySet
  <2>3. QED BY <1>1, <1>6, <2>2 DEF Counted
<1>8. Copied'
  <2>1. ~(copyErr' \/ \E i \in 1..Len(errors') : errors'[i])
    BY <1>1, <1>3
  <2>2. Sessions!Outputs \subseteq Sessions!Streams
    BY DEF Sessions!Streams
  <2>3. QED BY <1>1, <1>6, <2>1, <2>2 DEF Copied, Failed, Excused
<1>9. QED BY <1>4, <1>5, <1>7, <1>8

LEMMA WriteSession ==
  ASSUME SessionInv, NEW s \in Sessions!Outputs, Sessions!Write(s)
  PROVE  SessionInv'
<1> USE DEF SessionInv
<1>1. UNCHANGED <<piped, remote, ended, open, reqs, seen, exitStatus, copied, copying, errors,
                  fed, moved, caller, waitErr, copyErr, collected, faults, broken>>
  BY DEF Sessions!conn, Sessions!Write, Sessions!setup, Sessions!stdin, Sessions!waits
<1>2. open /\ written' = [written EXCEPT ![s] = @ + 1]
  BY DEF Sessions!Write
<1>3. \A t \in Sessions!Outputs : written'[t] \in Nat /\ written[t] <= written'[t]
  BY <1>2 DEF SessionTyped
<1>4. SessionTyped'
  BY <1>1, <1>2, <1>3 DEF SessionTyped
<1>5. Heard' /\ Judged' /\ Told' /\ Early'
  BY <1>1 DEF Heard, Judged, Told, Early, Finished, Sessions!CopyFuncs, Truth, Over
<1>6. Counted'
  BY <1>1, SameCopies
<1>7. Copied'
  <2>1. \A t \in Sessions!Outputs : copied'[t] <= written'[t]
    BY <1>1, <1>3 DEF Copied, SessionTyped, Failed, Excused
  <2>2. QED BY <1>1, <1>2, <2>1 DEF Copied, Failed, Excused
<1>8. QED BY <1>4, <1>5, <1>6, <1>7

LEMMA ExitSession ==
  ASSUME SessionInv, Sessions!Exit
  PROVE  SessionInv'
<1> USE DEF SessionInv
<1>1. UNCHANGED <<piped, written, open, seen, exitStatus, copied, copying, errors, fed, moved,
                  caller, waitErr, copyErr, collected, faults, broken>>
  BY DEF Sessions!conn, Sessions!Exit, Sessions!setup, Sessions!stdin, Sessions!waits
<1>2. open /\ remote = "running" /\ remote' = "exited" /\ ended' \in Exits /\ reqs' = Sent(ended')
  BY DEF Sessions!Exit, Exits, Sent, Nothing, Malformed
<1>3. SessionTyped'
  BY <1>1, <1>2 DEF SessionTyped
<1>a. ended = NoStatus /\ ended[2] # Malformed
  <2>1. ended = NoStatus
    BY <1>2 DEF Early
  <2>2. "" # Malformed
    BY DEF Malformed, Sessions!Malformed
  <2>3. QED BY <2>1, <2>2, Consts
<1>b. ~Over
  BY <1>2, <1>a DEF Over
<1>c. exitStatus = <<>> /\ caller # "collecting" /\ (caller = "returned" => waitErr = Sessions!Lost)
  BY <1>b DEF Judged, Told
<1>4. Judged' /\ Told' /\ Early'
  BY <1>1, <1>2, <1>c DEF Judged, Told, Early
<1>5. Heard'
  <2>1. seen = NoStatus
    BY <1>a, <1>c, Consts DEF Heard
  <2>2. QED BY <1>1, <1>2, <2>1 DEF Heard
<1>6. Counted'
  BY <1>1, SameCopies
<1>7. Copied'
  BY <1>1, SameCopied
<1>8. QED BY <1>3, <1>4, <1>5, <1>6, <1>7

LEMMA CloseSession ==
  ASSUME SessionInv, Sessions!Close
  PROVE  SessionInv'
<1> USE DEF SessionInv
<1>1. UNCHANGED <<piped, remote, ended, written, reqs, seen, exitStatus, copied, copying,
                  errors, fed, moved, caller, waitErr, copyErr, collected, faults, broken>>
  BY DEF Sessions!conn, Sessions!Close, Sessions!setup, Sessions!server, Sessions!stdin,
     Sessions!waits
<1>2. open /\ ~open'
  BY DEF Sessions!Close
<1>3. SessionTyped'
  BY <1>1 DEF SessionTyped
<1>a. Truth' = Truth /\ Over'
  BY <1>1, <1>2 DEF Truth, Over
<1>b. Heard' /\ Early'
  BY <1>1, <1>2 DEF Heard, Early
<1>c. Judged'
  BY <1>1, <1>a DEF Judged
<1>4. Told'
  BY <1>1, <1>a DEF Told, Finished, Sessions!CopyFuncs
<1>5. Counted'
  BY <1>1, SameCopies
<1>6. Copied'
  BY <1>1, <1>2 DEF Copied, Failed, Excused
<1>7. QED BY <1>b, <1>c, <1>3, <1>4, <1>5, <1>6

LEMMA BreakSession ==
  ASSUME SessionInv, Sessions!Break
  PROVE  SessionInv'
<1> USE DEF SessionInv
<1>1. UNCHANGED <<piped, remote, ended, written, open, reqs, seen, exitStatus, copied, copying,
                  errors, fed, moved, caller, waitErr, copyErr, collected, faults>>
  BY DEF Sessions!Break, Sessions!setup, Sessions!server, Sessions!stdin, Sessions!waits
<1>2. broken'
  BY DEF Sessions!Break
<1>3. SessionTyped'
  BY <1>1 DEF SessionTyped
<1>4. Heard' /\ Judged' /\ Told' /\ Early'
  BY <1>1 DEF Heard, Judged, Told, Early, Truth, Over, Finished, Sessions!CopyFuncs
<1>5. Counted'
  BY <1>1, SameCopies
<1>6. Copied'
  BY <1>1, <1>2 DEF Copied, Failed, Excused
<1>7. QED BY <1>3, <1>4, <1>5, <1>6

\* wait reads the status first, then the signal.
LEMMA ReadsOn ==
  ASSUME SessionInv, Sessions!WaitRequest,
         ~(Head(reqs)[1] = "exit-signal" /\ Head(reqs)[2] = Malformed)
  PROVE  Heard' /\ seen' \in Exits
<1> USE DEF SessionInv
<1>1. reqs # <<>> /\ reqs' = Tail(reqs) /\ ended' = ended
      /\ seen' = IF Head(reqs)[1] = "exit-status" THEN <<Head(reqs)[2], seen[2]>>
                 ELSE <<seen[1], Head(reqs)[2]>>
  BY DEF Sessions!WaitRequest, Sessions!server, Malformed
<1>0. exitStatus = <<>>
  BY DEF Sessions!WaitRequest
<1>2. ended = <<ended[1], ended[2]>> /\ ended[1] \in Statuses \cup {Nothing}
      /\ ended[2] \in Signals \cup {"", Malformed}
  BY Pairs DEF SessionTyped
<1>3. Nothing = -1 /\ NoStatus = <<Nothing, "">>
  BY Consts
<1> DEFINE a == <<"exit-status", ended[1]>>
           b == <<"exit-signal", ended[2]>>
           later == <<Nothing, ended[2]>>
<1>4. later[1] = Nothing /\ later[2] = ended[2]
  OBVIOUS
<1>5. Sent(later) = IF ended[2] = "" THEN <<>> ELSE <<b>>
  BY <1>4, SentCases
<1>a. /\ a[1] = "exit-status" /\ a[2] = ended[1] /\ b[1] = "exit-signal" /\ b[2] = ended[2]
      /\ NoStatus[1] = Nothing /\ NoStatus[2] = ""
  BY <1>3
<1>b. /\ ended[1] # Nothing /\ ended[2] = "" => Sent(ended) = <<a>>
      /\ ended[1] = Nothing /\ ended[2] # "" => Sent(ended) = <<b>>
      /\ ended[1] # Nothing /\ ended[2] # "" => Sent(ended) = <<a, b>>
  BY SentCases
<1>c. <<ended[1], "">> \in Exits /\ <<ended[1], "">>[1] = ended[1]
  BY <1>2 DEF Exits
<1> HIDE DEF a, b, later
<1>6. CASE seen = NoStatus /\ reqs = Sent(ended)
  <2>1. CASE ended[1] # Nothing /\ ended[2] = ""
    <3>1. reqs = <<a>>
      BY <1>6, <2>1, <1>b
    <3>2. Head(reqs) = a /\ Tail(reqs) = <<>>
      BY <3>1
    <3>3. seen' = <<ended[1], "">>
      BY <1>1, <1>6, <1>a, <3>2
    <3>4. seen' = ended' /\ reqs' = <<>>
      BY <1>1, <1>2, <2>1, <3>2, <3>3
    <3>a. ended[2] # Malformed
      BY <2>1 DEF Malformed, Sessions!Malformed
    <3>5. QED BY <3>4, <3>a, <1>1 DEF Heard, SessionTyped
  <2>2. CASE ended[1] = Nothing /\ ended[2] # ""
    <3>1. reqs = <<b>>
      BY <1>6, <2>2, <1>b
    <3>2. Head(reqs) = b /\ Tail(reqs) = <<>>
      BY <3>1
    <3>3. seen' = <<Nothing, ended[2]>>
      BY <1>1, <1>6, <1>a, <3>2
    <3>4. seen' = ended' /\ reqs' = <<>>
      BY <1>1, <1>2, <2>2, <3>2, <3>3
    <3>a. ended[2] # Malformed
      BY <1>a, <3>2
    <3>5. QED BY <3>4, <3>a, <1>1 DEF Heard, SessionTyped
  <2>3. CASE ended[1] # Nothing /\ ended[2] # ""
    <3>1. reqs = <<a, b>>
      BY <1>6, <2>3, <1>b
    <3>2. Head(reqs) = a /\ Tail(reqs) = <<b>>
      BY <3>1
    <3>3. seen' = <<ended[1], "">>
      BY <1>1, <1>6, <1>a, <3>2
    <3>4. reqs' = Sent(later) /\ seen' \in Exits
      BY <1>1, <1>5, <1>c, <2>3, <3>2, <3>3
    <3>5. seen' = <<ended'[1], "">> /\ reqs' = Sent(<<Nothing, ended'[2]>>)
      BY <3>3, <3>4, <1>1 DEF later
    <3>6. QED BY <3>4, <3>5 DEF Heard
  <2>4. CASE ended[1] = Nothing /\ ended[2] = ""
    BY <1>1, <1>6, <2>4, SentCases
  <2>5. QED BY <2>1, <2>2, <2>3, <2>4
<1>7. CASE seen = <<ended[1], "">> /\ reqs = Sent(later)
  <2>1. reqs = <<b>>
    BY <1>1, <1>5, <1>7
  <2>2. Head(reqs) = b /\ Tail(reqs) = <<>>
    BY <2>1
  <2>3. seen' = <<ended[1], ended[2]>>
    BY <1>1, <1>7, <1>a, <1>c, <2>2
  <2>4. seen' = ended' /\ reqs' = <<>>
    BY <1>1, <1>2, <2>2, <2>3
  <2>a. ended[2] # Malformed
    BY <1>a, <2>2
  <2>5. QED BY <2>4, <2>a, <1>1 DEF Heard, SessionTyped
<1>8. CASE seen = ended /\ reqs = <<>>
  BY <1>1, <1>8
<1>9. QED BY <1>0, <1>6, <1>7, <1>8 DEF Heard, later

\* What it cannot parse is what was sent.
LEMMA GivesUp ==
  ASSUME SessionInv, Sessions!WaitRequest, Head(reqs)[1] = "exit-signal",
         Head(reqs)[2] = Malformed
  PROVE  ended[2] = Malformed
<1>1. reqs # <<>> /\ exitStatus = <<>>
  BY DEF Sessions!WaitRequest
<1> DEFINE a == <<"exit-status", ended[1]>>
           b == <<"exit-signal", ended[2]>>
           later == <<Nothing, ended[2]>>
<1>2. later[1] = Nothing /\ later[2] = ended[2]
  OBVIOUS
<1>3. Sent(later) = <<>> \/ Sent(later) = <<b>>
  BY <1>2, SentCases
<1>4. Sent(ended) \in {<<>>, <<a>>, <<b>>, <<a, b>>}
  BY SentCases
<1>5. a[1] # "exit-signal" /\ b[2] = ended[2]
  OBVIOUS
<1> HIDE DEF a, b, later
<1>6. reqs \in {<<a>>, <<b>>, <<a, b>>}
  BY <1>1, <1>3, <1>4 DEF SessionInv, Heard, later
<1>7. Head(reqs) \in {a, b}
  BY <1>6
<1>8. QED BY <1>5, <1>7

LEMMA WaitRequestSession ==
  ASSUME SessionInv, Sessions!WaitRequest
  PROVE  SessionInv'
<1> USE DEF SessionInv
<1>1. UNCHANGED <<piped, remote, ended, written, open, copied, copying, errors, fed, moved, caller,
                  waitErr, copyErr, collected, faults, broken>>
  BY DEF Sessions!WaitRequest, Sessions!setup, Sessions!server, Sessions!stdin, Sessions!waits,
     Sessions!conn
<1>2. Told' /\ Early'
  BY <1>1 DEF Told, Early, Truth, Over, Finished, Sessions!CopyFuncs
<1>3. Counted'
  BY <1>1, SameCopies
<1>4. Copied'
  BY <1>1, SameCopied
<1>5. CASE ~(Head(reqs)[1] = "exit-signal" /\ Head(reqs)[2] = Malformed)
  <2>1. Heard' /\ seen' \in Exits
    BY <1>5, ReadsOn
  <2>2. SessionTyped'
    BY <1>1, <2>1 DEF SessionTyped
  <2>3. exitStatus' = exitStatus
    BY <1>5 DEF Sessions!WaitRequest, Malformed
  <2>4. Judged'
    BY <1>1, <2>3 DEF Judged, Truth, Over
  <2>5. QED BY <1>2, <1>3, <1>4, <2>1, <2>2, <2>4
<1>6. CASE Head(reqs)[1] = "exit-signal" /\ Head(reqs)[2] = Malformed
  <2>1. exitStatus' = <<Nothing>> /\ seen' = seen
    BY <1>6 DEF Sessions!WaitRequest, Malformed, Nothing
  <2>2. SessionTyped'
    BY <1>1, <2>1 DEF SessionTyped
  <2>3. ended[2] = Malformed
    BY <1>6, GivesUp
  <2>4. Judged' /\ Heard'
    BY <1>1, <2>1, <2>3 DEF Judged, Heard, Truth, Over
  <2>5. QED BY <1>2, <1>3, <1>4, <2>2, <2>4
<1>7. QED BY <1>5, <1>6

LEMMA WaitVerdictSession ==
  ASSUME SessionInv, Sessions!WaitVerdict
  PROVE  SessionInv'
<1> USE DEF SessionInv
<1>1. UNCHANGED <<piped, remote, ended, written, open, reqs, seen, copied, copying, errors, fed,
                  moved, caller, waitErr, copyErr, collected, faults, broken>>
  BY DEF Sessions!conn, Sessions!WaitVerdict, Sessions!setup, Sessions!server, Sessions!stdin,
     Sessions!waits
<1>2. reqs = <<>> /\ exitStatus = <<>> /\ ~open /\ exitStatus' = <<Sessions!Verdict(seen)>>
  BY DEF Sessions!WaitVerdict
<1>3. seen = ended /\ ended[2] # Malformed
  <2>1. ended = <<ended[1], ended[2]>>
    BY Pairs DEF SessionTyped
  <2>2. NoStatus = <<Nothing, "">>
    BY Consts
  <2>a. Malformed # ""
    BY DEF Malformed, Sessions!Malformed
  <2>3. CASE seen = NoStatus /\ reqs = Sent(ended)
    <3>1. ended[1] = Nothing /\ ended[2] = ""
      BY <1>2, <2>3, SentEmpty
    <3>2. QED BY <2>1, <2>2, <2>a, <2>3, <3>1
  <2>4. CASE seen = <<ended[1], "">> /\ reqs = Sent(<<Nothing, ended[2]>>)
    <3>1. <<Nothing, ended[2]>>[1] = Nothing /\ <<Nothing, ended[2]>>[2] = ended[2]
      OBVIOUS
    <3>2. ended[2] = ""
      BY <1>2, <2>4, <3>1, SentEmpty
    <3>3. QED BY <2>1, <2>a, <2>4, <3>2
  <2>5. QED BY <1>2, <2>3, <2>4 DEF Heard
<1>4. SessionTyped'
  BY <1>1 DEF SessionTyped
<1>5. Heard' /\ Told' /\ Early'
  BY <1>1, <1>2 DEF Heard, Told, Early, Finished, Sessions!CopyFuncs, Truth, Over
<1>6. Judged'
  BY <1>1, <1>2, <1>3 DEF Judged, Truth, Over
<1>7. Counted'
  BY <1>1, SameCopies
<1>8. Copied'
  BY <1>1, SameCopied
<1>9. QED BY <1>4, <1>5, <1>6, <1>7, <1>8

LEMMA SameCardinality == \A S : Sessions!Cardinality(S) = Cardinality(S)
BY DEF Sessions!Cardinality, Cardinality

LEMMA StreamsFinite == IsFiniteSet(Sessions!Streams)
<1>1. IsFiniteSet({} \cup {"stdout"})
  BY FS_EmptySet, FS_AddElement
<1>2. IsFiniteSet(({} \cup {"stdout"}) \cup {"stderr"})
  BY <1>1, FS_AddElement
<1>3. IsFiniteSet((({} \cup {"stdout"}) \cup {"stderr"}) \cup {"stdin"})
  BY <1>2, FS_AddElement
<1>4. Sessions!Streams = (({} \cup {"stdout"}) \cup {"stderr"}) \cup {"stdin"}
  BY Consts
<1>5. QED BY <1>3, <1>4

\* One more copy that is done is one more error under way.
LEMMA OneMoreDone ==
  ASSUME SessionInv, NEW s \in Sessions!Streams, copying[s] = "copying", NEW e \in BOOLEAN,
         copying' = [copying EXCEPT ![s] = "done"], errors' = Append(errors, e),
         UNCHANGED <<piped, collected>>
  PROVE  Counted'
<1>1. copying \in [Sessions!Streams -> {"none", "copying", "done"}] /\ errors \in Seq(BOOLEAN)
      /\ collected \in Nat /\ Counted
  BY DEF SessionInv, SessionTyped
<1>2. Finished' = Finished \cup {s} /\ s \notin Finished
  BY <1>1 DEF Finished
<1>3. IsFiniteSet(Finished)
  BY StreamsFinite, FS_Subset DEF Finished
<1>4. Cardinality(Finished') = Cardinality(Finished) + 1
  BY <1>2, <1>3, FS_AddElement
<1>5. Len(errors') = Len(errors) + 1 /\ Len(errors) \in Nat
  BY <1>1
<1>6. Cardinality(Finished') = Len(errors') + collected'
  BY <1>1, <1>4, <1>5 DEF Counted
<1>7. \A t \in piped' \cap Sessions!Streams : copying'[t] = "none"
  BY <1>1 DEF Counted
<1>8. QED BY <1>6, <1>7 DEF Counted

\* An end with an error, and one without, among those under way.
LEMMA EndsOne ==
  ASSUME SessionInv, NEW s \in Sessions!Streams, copying[s] = "copying", NEW e \in BOOLEAN,
         Sessions!EndCopy(s, e), UNCHANGED <<piped, collected, copyErr>>
  PROVE  /\ Counted'
         /\ copying' \in [Sessions!Streams -> {"none", "copying", "done"}]
         /\ copying'[s] = "done"
         /\ \A t \in Sessions!Streams : t # s => copying'[t] = copying[t]
         /\ errors' \in Seq(BOOLEAN)
         /\ Failed' <=> Failed \/ e
<1>1. copying' = [copying EXCEPT ![s] = "done"] /\ errors' = Append(errors, e)
  BY DEF Sessions!EndCopy
<1>2. copying \in [Sessions!Streams -> {"none", "copying", "done"}] /\ errors \in Seq(BOOLEAN)
  BY DEF SessionInv, SessionTyped
<1>3. Counted'
  BY <1>1, OneMoreDone
<1>4. /\ copying' \in [Sessions!Streams -> {"none", "copying", "done"}] /\ copying'[s] = "done"
      /\ \A t \in Sessions!Streams : t # s => copying'[t] = copying[t]
  BY <1>1, <1>2
<1>5. errors' \in Seq(BOOLEAN)
  BY <1>1, <1>2, AppendProperties
<1>6. /\ Len(errors) \in Nat /\ Len(errors') = Len(errors) + 1
      /\ errors'[Len(errors) + 1] = e /\ \A i \in 1..Len(errors) : errors'[i] = errors[i]
  BY <1>1, <1>2
<1>7. Failed' <=> Failed \/ e
  <2> DEFINE n == Len(errors)
  <2>1. 1..Len(errors') = (1..n) \cup {n + 1} /\ n + 1 \in 1..Len(errors')
    BY <1>6
  <2>2. n \in Nat /\ errors'[n + 1] = e /\ \A i \in 1..n : errors'[i] = errors[i]
    BY <1>6
  <2> DEFINE now == \E i \in 1..n : errors[i]
             then == \E i \in 1..Len(errors') : errors'[i]
  <2>3. then <=> now \/ e
    <3> HIDE DEF n
    <3>1. QED BY <2>1, <2>2
  <2>4. (Failed <=> copyErr \/ now) /\ (Failed' <=> copyErr \/ then)
    BY DEF Failed
  <2>5. QED BY <2>3, <2>4
<1>8. QED BY <1>3, <1>4, <1>5, <1>7

\* A copy is under way only once the command runs, and the errors are not all in.
LEMMA CopyingLate ==
  ASSUME SessionInv, NEW s \in Sessions!Streams, copying[s] = "copying"
  PROVE  /\ caller \notin {"new", "asking"} /\ s \in Sessions!CopyFuncs
         /\ s \notin Finished
BY DEF SessionInv, Early, Counted, Finished, Sessions!CopyFuncs

LEMMA CopyOutSession ==
  ASSUME SessionInv, NEW s \in Sessions!Outputs, Sessions!CopyOut(s)
  PROVE  SessionInv'
<1> USE DEF SessionInv
<1>1. UNCHANGED <<piped, remote, ended, written, open, reqs, seen, exitStatus, fed, moved,
                  caller, waitErr, copyErr, collected, broken>>
  BY DEF Sessions!conn, Sessions!CopyOut, Sessions!setup, Sessions!server, Sessions!stdin,
     Sessions!waits
<1>2. s \in Sessions!Streams /\ copying[s] = "copying" /\ s # "stdin"
  BY Consts DEF Sessions!CopyOut
<1>3. caller \notin {"new", "asking"} /\ s \in Sessions!CopyFuncs /\ s \notin Finished
  BY <1>2, CopyingLate
<1>4. Heard' /\ Judged' /\ Early'
  BY <1>1, <1>3 DEF Heard, Judged, Early, Truth, Over
<1>5. Told'
  <2>1. caller = "returned" => waitErr = Sessions!Lost
    BY <1>3 DEF Told, Truth, Over
  <2>2. QED BY <2>1, <1>1 DEF Told, Truth, Over
<1>a. SessionTyped /\ Copied
  OBVIOUS
<1>b. ASSUME copied' \in [Sessions!Outputs -> Nat],
             \A t \in Sessions!Outputs : copied'[t] <= written[t],
             \A t \in Sessions!Outputs : t # s => copied'[t] = copied[t],
             faults' = faults \/ faults' = faults \cup {s},
             NEW e \in BOOLEAN, Sessions!EndCopy(s, e),
             e => broken \/ s \in faults',
             ~e => ~open /\ copied'[s] = written[s]
      PROVE  SessionInv'
  <2>1. /\ Counted' /\ copying' \in [Sessions!Streams -> {"none", "copying", "done"}]
        /\ \A t \in Sessions!Streams : t # s => copying'[t] = copying[t]
        /\ errors' \in Seq(BOOLEAN)
        /\ Failed' <=> Failed \/ e
    BY <1>1, <1>2, <1>b, EndsOne
  <2>2. SessionTyped'
    BY <1>1, <1>a, <1>b, <2>1 DEF SessionTyped
  <2>3. faults \subseteq faults'
    BY <1>b
  <2>4. \A t \in Sessions!Outputs : copying'[t] = "done" =>
          (~open' /\ copied'[t] = written'[t]) \/ Excused(t)'
    <3>1. ASSUME NEW t \in Sessions!Outputs, copying'[t] = "done"
          PROVE  (~open' /\ copied'[t] = written'[t]) \/ Excused(t)'
      <4>1. CASE t = s
        BY <1>1, <1>b, <2>1, <4>1 DEF Excused
      <4>2. CASE t # s
        <5>1. copying[t] = "done" /\ copied'[t] = copied[t]
          BY <1>b, <2>1, <3>1, <4>2, Consts
        <5>2. (~open /\ copied[t] = written[t]) \/ Excused(t)
          BY <1>a, <3>1, <5>1 DEF Copied
        <5>3. QED BY <1>1, <2>1, <2>3, <5>1, <5>2 DEF Excused
      <4>3. QED BY <4>1, <4>2
    <3>2. QED BY <3>1
  <2>5. copying'["stdin"] = copying["stdin"]
    BY <1>2, <2>1, Consts
  <2>6. Failed' => (moved < fed /\ copying["stdin"] = "done") \/ broken \/ faults' # {}
    BY <1>a, <1>b, <2>1, <2>3 DEF Copied
  <2>7. Copied'
    BY <1>1, <1>a, <1>b, <2>4, <2>5, <2>6 DEF Copied
  <2>8. QED BY <1>4, <1>5, <2>1, <2>2, <2>7
<1>6. copied \in [Sessions!Outputs -> Nat] /\ written \in [Sessions!Outputs -> Nat]
      /\ \A t \in Sessions!Outputs : copied[t] <= written[t]
  BY <1>a DEF SessionTyped, Copied
<1>7. ASSUME copied[s] < written[s], copied' = [copied EXCEPT ![s] = @ + 1]
      PROVE  /\ copied' \in [Sessions!Outputs -> Nat]
             /\ \A t \in Sessions!Outputs : copied'[t] <= written[t]
             /\ \A t \in Sessions!Outputs : t # s => copied'[t] = copied[t]
  BY <1>6, <1>7
<1>8. CASE /\ copied[s] < written[s] /\ ~(broken /\ open)
           /\ copied' = [copied EXCEPT ![s] = @ + 1] /\ UNCHANGED <<copying, errors, faults>>
  <2>1. SessionTyped'
    BY <1>1, <1>7, <1>8, <1>a DEF SessionTyped
  <2>2. Counted'
    BY <1>1, <1>8, SameCopies
  <2>3. Copied'
    BY <1>1, <1>2, <1>7, <1>8, <1>a DEF Copied, Failed, Excused
  <2>4. QED BY <1>4, <1>5, <2>1, <2>2, <2>3
<1>9. CASE /\ copied[s] < written[s] /\ broken
           /\ copied' = [copied EXCEPT ![s] = @ + 1]
           /\ Sessions!EndCopy(s, TRUE) /\ UNCHANGED faults
  BY <1>7, <1>9, <1>b
<1>10. CASE /\ copied[s] < written[s]
            /\ faults' = faults \cup {s} /\ Sessions!EndCopy(s, TRUE) /\ UNCHANGED copied
  BY <1>6, <1>10, <1>b
<1>11. CASE /\ copied[s] = written[s] /\ ~open
            /\ Sessions!EndCopy(s, FALSE) /\ UNCHANGED <<copied, faults>>
  BY <1>6, <1>11, <1>b
<1>12. QED BY <1>8, <1>9, <1>10, <1>11 DEF Sessions!CopyOut

LEMMA FeedSession ==
  ASSUME SessionInv, Sessions!Feed
  PROVE  SessionInv'
<1> USE DEF SessionInv
<1>1. UNCHANGED <<piped, remote, ended, written, open, reqs, seen, exitStatus, copied, copying,
                  errors, moved, caller, waitErr, copyErr, collected, broken>>
  BY DEF Sessions!conn, Sessions!Feed, Sessions!setup, Sessions!server, Sessions!waits
<1>2. fed = moved /\ fed' \in {fed, fed + 1} /\ faults \subseteq faults'
  BY DEF Sessions!Feed
<1>3. SessionTyped'
  BY <1>1, <1>2 DEF SessionTyped
<1>4. Heard' /\ Judged' /\ Early' /\ Told'
  BY <1>1 DEF Heard, Judged, Early, Told, Finished, Sessions!CopyFuncs, Truth, Over
<1>5. Counted'
  BY <1>1, SameCopies
<1>6. Copied'
  <2>1. moved' <= fed' /\ Failed' = Failed /\ (Failed => broken \/ faults # {})
    BY <1>1, <1>2 DEF Copied, SessionTyped, Failed
  <2>2. \A s \in Sessions!Outputs : Excused(s) => Excused(s)'
    BY <1>1, <1>2 DEF Excused, Failed
  <2>3. QED BY <1>1, <1>2, <2>1, <2>2 DEF Copied
<1>7. QED BY <1>3, <1>4, <1>5, <1>6

LEMMA CopyInSession ==
  ASSUME SessionInv, Reader, Sessions!CopyIn
  PROVE  SessionInv'
<1> USE DEF SessionInv
<1>1. UNCHANGED <<piped, remote, ended, written, open, reqs, seen, exitStatus, copied, fed,
                  caller, waitErr, copyErr, collected, faults, broken>>
  BY DEF Sessions!conn, Sessions!CopyIn, Sessions!setup, Sessions!server, Sessions!waits
<1>2. "stdin" \in Sessions!Streams /\ copying["stdin"] = "copying" /\ "stdin" \notin Sessions!Outputs
  BY Consts DEF Sessions!CopyIn
<1>3. caller \notin {"new", "asking"} /\ "stdin" \in Sessions!CopyFuncs /\ "stdin" \notin Finished
  BY <1>2, CopyingLate
<1>4. Heard' /\ Judged' /\ Early'
  BY <1>1, <1>3 DEF Heard, Judged, Early, Truth, Over
<1>5. Told'
  <2>1. caller = "returned" => waitErr = Sessions!Lost
    BY <1>3 DEF Told, Truth, Over
  <2>2. QED BY <2>1, <1>1 DEF Told, Truth, Over
<1>a. SessionTyped /\ Copied
  OBVIOUS
<1>6. Failed => broken \/ faults # {}
  BY <1>2, <1>a DEF Copied
<1>7. CASE /\ fed > moved /\ open /\ ~broken
           /\ moved' = moved + 1 /\ UNCHANGED <<copying, errors>>
  <2>1. SessionTyped'
    BY <1>1, <1>7, <1>a DEF SessionTyped
  <2>2. Counted'
    BY <1>1, <1>7, SameCopies
  <2>3. moved' <= fed'
    BY <1>1, <1>7, <1>a DEF SessionTyped
  <2>4. Failed' = Failed /\ \A s \in Sessions!Outputs : Excused(s)' = Excused(s)
    BY <1>1, <1>7 DEF Failed, Excused
  <2>5. Copied'
    BY <1>1, <1>6, <1>7, <1>a, <2>3, <2>4 DEF Copied
  <2>6. QED BY <1>4, <1>5, <2>1, <2>2, <2>5
<1>8. ASSUME NEW e \in BOOLEAN, Sessions!EndCopy("stdin", e), moved' = moved,
             e => fed > moved \/ broken \/ faults # {}
      PROVE  SessionInv'
  <2>1. /\ Counted' /\ copying' \in [Sessions!Streams -> {"none", "copying", "done"}]
        /\ copying'["stdin"] = "done"
        /\ \A t \in Sessions!Streams : t # "stdin" => copying'[t] = copying[t]
        /\ errors' \in Seq(BOOLEAN)
        /\ Failed' <=> Failed \/ e
    BY <1>1, <1>2, <1>8, EndsOne
  <2>2. SessionTyped'
    BY <1>1, <1>8, <1>a, <2>1 DEF SessionTyped
  <2>3. \A t \in Sessions!Outputs : t \in Sessions!Streams /\ t # "stdin"
    BY Consts
  <2>4. \A t \in Sessions!Outputs : Excused(t) => Excused(t)'
    BY <1>1, <2>1 DEF Excused
  <2>5. \A t \in Sessions!Outputs : copying'[t] = "done" =>
          (~open' /\ copied'[t] = written'[t]) \/ Excused(t)'
    BY <1>1, <1>a, <2>1, <2>3, <2>4 DEF Copied
  <2>6. moved < fed \/ ~(fed > moved)
    BY <1>a DEF SessionTyped
  <2>7. Failed' => (moved < fed /\ copying'["stdin"] = "done") \/ broken \/ faults # {}
    BY <1>6, <1>8, <2>1, <2>6
  <2>8. Copied'
    BY <1>1, <1>8, <1>a, <2>5, <2>7 DEF Copied
  <2>9. QED BY <1>4, <1>5, <2>1, <2>2, <2>8
<1>9. CASE fed > moved /\ Sessions!EndCopy("stdin", TRUE) /\ UNCHANGED moved
  BY <1>8, <1>9
<1>10. CASE /\ \E failed \in {pipe = "failed", pipe = "failed" \/ broken} :
                 Sessions!EndCopy("stdin", failed)
            /\ UNCHANGED moved
  <2>1. pipe = "failed" => faults # {}
    BY DEF Reader
  <2>2. PICK e \in BOOLEAN : Sessions!EndCopy("stdin", e) /\ (e => pipe = "failed" \/ broken)
    BY <1>10
  <2>3. QED BY <1>8, <1>10, <2>1, <2>2
<1>11. QED BY <1>7, <1>9, <1>10 DEF Sessions!CopyIn

LEMMA WaitExitSession ==
  ASSUME SessionInv, Sessions!WaitExit
  PROVE  SessionInv'
<1> USE DEF SessionInv
<1>1. UNCHANGED <<piped, remote, ended, written, open, reqs, seen, exitStatus, copied, copying,
                  errors, fed, moved, copyErr, collected, faults, broken>>
  BY DEF Sessions!conn, Sessions!WaitExit, Sessions!setup, Sessions!server
<1>2. /\ caller = "waiting" /\ caller' = "collecting" /\ exitStatus # <<>>
      /\ waitErr' = exitStatus[1]
  BY DEF Sessions!WaitExit
<1>3. Over /\ waitErr' = Truth
  BY <1>2 DEF Judged, Truth, Over
<1>4. SessionTyped'
  BY <1>1, <1>2 DEF SessionTyped
<1>5. Heard' /\ Judged' /\ Early'
  BY <1>1, <1>2, <1>3 DEF Heard, Judged, Early, Truth, Over
<1>6. Truth' = Truth /\ Over' = Over
  BY <1>1 DEF Truth, Over, Sessions!Verdict
<1>7. Told'
  BY <1>1, <1>2, <1>3, <1>6 DEF Told, Truth, Over
<1>8. Counted'
  BY <1>1, SameCopies
<1>9. Copied'
  BY <1>1, SameCopied
<1>10. QED BY <1>4, <1>5, <1>7, <1>8, <1>9

LEMMA WaitCopiesSession ==
  ASSUME SessionInv, Sessions!WaitCopies
  PROVE  SessionInv'
<1> USE DEF SessionInv
<1>1. UNCHANGED <<piped, remote, ended, written, open, reqs, seen, exitStatus, copied, copying,
                  fed, moved, waitErr, faults, broken>>
  BY DEF Sessions!conn, Sessions!WaitCopies, Sessions!setup, Sessions!server, Sessions!stdin
<1>2. caller = "collecting" /\ Over /\ waitErr = Truth
  BY DEF Sessions!WaitCopies, Told, Truth, Over
<1>3. Truth' = Truth /\ Over' = Over
  BY <1>1 DEF Truth, Over, Sessions!Verdict
<1>4. Heard' /\ Judged'
  BY <1>1 DEF Heard, Judged, Truth, Over
<1>5. CASE Sessions!CollectsAll
  <2>1. caller' = "returned" /\ UNCHANGED <<errors, copyErr, collected>>
    BY <1>5 DEF Sessions!WaitCopies
  <2>2. Finished = Sessions!CopyFuncs /\ Len(errors) = 0
    <3>1. IsFiniteSet(Sessions!CopyFuncs)
      BY StreamsFinite, FS_Subset DEF Sessions!CopyFuncs
    <3>2. Finished \subseteq Sessions!CopyFuncs
      BY DEF Sessions!CopyFuncs, Finished, Counted
    <3>3. Cardinality(Finished) <= Cardinality(Sessions!CopyFuncs) /\ IsFiniteSet(Finished)
          /\ (Cardinality(Finished) = Cardinality(Sessions!CopyFuncs) => Finished = Sessions!CopyFuncs)
      BY <3>1, <3>2, FS_Subset
    <3>4. collected = Cardinality(Sessions!CopyFuncs)
      BY <1>5, SameCardinality DEF Sessions!CollectsAll
    <3>5. Cardinality(Finished) = Len(errors) + collected /\ Len(errors) \in Nat /\ collected \in Nat
      BY LenProperties DEF Counted, SessionTyped
    <3>6. QED BY <3>3, <3>4, <3>5
  <2>3. Finished' = Finished /\ Sessions!CopyFuncs' = Sessions!CopyFuncs
    BY <1>1 DEF Finished, Sessions!CopyFuncs
  <2>4. Told'
    BY <1>1, <1>2, <1>3, <2>1, <2>2, <2>3 DEF Told, Truth, Over
  <2>5. SessionTyped' /\ Early'
    BY <1>1, <1>2, <2>1 DEF SessionTyped, Early
  <2>6. Counted'
    BY <1>1, <2>1, SameCopies
  <2>7. Copied'
    BY <1>1, <2>1 DEF Copied, Failed, Excused
  <2>8. QED BY <1>4, <2>4, <2>5, <2>6, <2>7
<1>6. CASE ~Sessions!CollectsAll
  <2>1. errors # <<>> /\ errors' = Tail(errors) /\ collected' = collected + 1 /\ caller' = caller
    BY <1>6 DEF Sessions!WaitCopies
  <2>e. copyErr' = (copyErr \/ Head(errors))
    BY <1>6 DEF Sessions!WaitCopies
  <2>2. errors \in Seq(BOOLEAN) /\ collected \in Nat
    BY DEF SessionTyped
  <2>a. errors' \in Seq(BOOLEAN) /\ Len(errors) \in Nat \ {0}
    BY <2>1, <2>2, HeadTailProperties, EmptySeq
  <2>b. Len(errors') = Len(errors) - 1 /\ Head(errors) = errors[1]
        /\ \A i \in 1..Len(errors') : errors'[i] = errors[i + 1]
    BY <2>1, <2>2
  <2>3. /\ Len(errors) \in Nat \ {0} /\ Len(errors') = Len(errors) - 1 /\ errors' \in Seq(BOOLEAN)
        /\ Head(errors) = errors[1] /\ \A i \in 1..Len(errors') : errors'[i] = errors[i + 1]
    BY <2>a, <2>b
  <2>4. copyErr' \in BOOLEAN
    BY <2>e
  <2>5. SessionTyped'
    <3>1. collected' \in Nat /\ caller' \in {"new", "asking", "waiting", "collecting", "returned"}
      BY <2>1, <2>2 DEF SessionTyped
    <3>2. QED BY <1>1, <2>3, <2>4, <3>1 DEF SessionTyped
  <2>6. Told'
    BY <1>1, <1>2, <1>3, <2>1 DEF Told, Truth, Over
  <2>7. Early'
    BY <1>1, <1>2, <2>1 DEF Early
  <2>8. Counted'
    <3>1. Finished' = Finished
      BY <1>1 DEF Finished
    <3>2. Cardinality(Finished) = Len(errors) + collected
      BY DEF Counted
    <3>3. Cardinality(Finished') = Len(errors') + collected'
      BY <2>1, <2>2, <2>3, <3>1, <3>2
    <3>4. QED BY <1>1, <3>3 DEF Counted
  <2>9. Copied'
    <3>1. copyErr' <=> copyErr \/ errors[1]
      BY <2>e, <2>3
    <3> DEFINE now == \E i \in 1..Len(errors) : errors[i]
               then == \E i \in 1..Len(errors') : errors'[i]
    <3>2. errors[1] \/ then <=> now
      <4>1. 1 \in 1..Len(errors)
        BY <2>3
      <4>2. ASSUME NEW i \in 1..Len(errors'), errors'[i]
            PROVE  \E j \in 1..Len(errors) : errors[j]
        <5>1. i + 1 \in 1..Len(errors) /\ errors[i + 1]
          BY <2>3, <4>2
        <5>2. QED BY <5>1
      <4>3. ASSUME NEW i \in 1..Len(errors), errors[i], ~errors[1]
            PROVE  \E j \in 1..Len(errors') : errors'[j]
        <5>1. i - 1 \in 1..Len(errors') /\ (i - 1) + 1 = i
          BY <2>3, <4>3
        <5>2. errors'[i - 1] = errors[i]
          BY <2>3, <5>1
        <5>3. QED BY <4>3, <5>1, <5>2
      <4>4. QED BY <4>1, <4>2, <4>3
    <3>3. (Failed <=> copyErr \/ now) /\ (Failed' <=> copyErr' \/ then)
      BY DEF Failed
    <3>4. Failed' <=> Failed
      BY <3>1, <3>2, <3>3
    <3>5. QED BY <1>1, <3>4 DEF Copied, Excused
  <2>10. QED BY <1>4, <2>5, <2>6, <2>7, <2>8, <2>9
<1>7. QED BY <1>5, <1>6

LEMMA SessionStep ==
  ASSUME SessionInv, Reader, [Sessions!Next]_Sessions!vars
  PROVE  SessionInv'
<1>1. CASE UNCHANGED Sessions!vars
  <2>1. UNCHANGED <<piped, remote, ended, written, open, reqs, seen, exitStatus, copied, copying,
                  errors, fed, moved, caller, waitErr, copyErr, collected, faults, broken>>
    BY <1>1 DEF Sessions!conn, Sessions!vars, Sessions!setup, Sessions!server, Sessions!stdin,
       Sessions!waits
  <2>2. Counted'
    BY <2>1, SameCopies
  <2>3. SessionTyped' /\ Heard' /\ Judged' /\ Early'
    BY <2>1 DEF SessionInv, SessionTyped, Heard, Judged, Early, Truth, Over
  <2>4. Told'
    BY <2>1 DEF SessionInv, Told, Finished, Sessions!CopyFuncs, Truth, Over
  <2>a. Copied'
    BY <2>1, SameCopied
  <2>5. QED BY <2>2, <2>3, <2>4, <2>a DEF SessionInv
<1>2. CASE Sessions!Done
  BY <1>1, <1>2 DEF Sessions!Done
<1>3. CASE Sessions!Next /\ ~Sessions!Done
  BY <1>3, AskSession, RefuseSession, StartSession, ExitSession, BreakSession, CloseSession,
     FeedSession,
     WriteSession, WaitRequestSession, WaitVerdictSession, CopyInSession, WaitExitSession,
     WaitCopiesSession, StartFailsSession, CopyOutSession DEF Sessions!Next, Sessions!Package
<1>4. QED BY <1>1, <1>2, <1>3

LEMMA ReaderStep ==
  ASSUME Reader, [Sessions!Next]_Sessions!vars
  PROVE  Reader'
<1>1. CASE Sessions!Feed
  BY <1>1 DEF Reader, Sessions!Feed
<1>2. CASE UNCHANGED <<pipe, faults>>
  BY <1>2 DEF Reader
<1>3. CASE \E s \in Sessions!Outputs : Sessions!CopyOut(s)
  BY <1>3 DEF Reader, Sessions!CopyOut, Sessions!stdin
<1>4. CASE Sessions!Start \/ Sessions!WaitExit
  BY <1>4 DEF Reader, Sessions!Start, Sessions!WaitExit, Sessions!PipeClosed
<1>5. CASE \/ Sessions!Ask \/ Sessions!Refuse \/ Sessions!Exit \/ Sessions!Break \/ Sessions!Close
           \/ \E s \in Sessions!Outputs : Sessions!Write(s)
  BY <1>5, <1>2 DEF Sessions!Ask, Sessions!Refuse, Sessions!Exit, Sessions!Break, Sessions!Close,
     Sessions!Write, Sessions!stdin
<1>6. CASE Sessions!WaitRequest \/ Sessions!WaitVerdict \/ Sessions!CopyIn \/ Sessions!WaitCopies
           \/ Sessions!StartFails
  BY <1>6, <1>2 DEF Sessions!WaitRequest, Sessions!WaitVerdict, Sessions!CopyIn,
     Sessions!WaitCopies, Sessions!StartFails, Sessions!stdin
<1>7. CASE UNCHANGED Sessions!vars
  BY <1>7, <1>2 DEF Sessions!vars, Sessions!stdin
<1>8. QED BY <1>1, <1>3, <1>4, <1>5, <1>6, <1>7 DEF Sessions!Next, Sessions!Package, Sessions!Done

\* The verdict is nil for the status 0 alone.
LEMMA NilIsZero ==
  ASSUME Sessions!SessionAssumption, NEW e \in Exits
  PROVE  Sessions!Verdict(e) = 0 <=> e[1] = 0
<1>1. e[1] \in Statuses \cup {-1} /\ Nothing = -1 /\ Sessions!Nothing = -1
  BY Pairs, Consts DEF Nothing
<1>2. CASE e[1] # -1
  <2>1. e # Sessions!NoStatus
    <3>1. Sessions!NoStatus[1] = -1
      BY <1>1 DEF Sessions!NoStatus
    <3>2. QED BY <1>2, <3>1
  <2>2. Sessions!Verdict(e) = e[1]
    BY <1>1, <1>2, <2>1 DEF Sessions!Verdict
  <2>3. QED BY <2>2
<1>3. CASE e[1] = -1 /\ e = Sessions!NoStatus
  <2>1. Sessions!Verdict(e) = -1
    BY <1>1, <1>3 DEF Sessions!Verdict
  <2>2. QED BY <1>3, <2>1
<1>4. CASE e[1] = -1 /\ e # Sessions!NoStatus
  <2>1. Sessions!Verdict(e) = 128 + (IF e[2] \in DOMAIN Number THEN Number[e[2]] ELSE 0)
    BY <1>1, <1>4 DEF Sessions!Verdict
  <2>2. (IF e[2] \in DOMAIN Number THEN Number[e[2]] ELSE 0) \in Nat
    BY DEF Sessions!SessionAssumption
  <2>3. QED BY <1>4, <2>1, <2>2
<1>5. QED BY <1>2, <1>3, <1>4, <1>1

\* Wait returns after the copies, whole or with an error of the caller's own or of the
\* connection, and with nil for exit status 0 alone; for any number of writes and reads, any
\* statuses and signals.
THEOREM WaitAlwaysTrue == Sessions!Spec => []WaitTrue
<1>1. Sessions!Init => SessionInv /\ Reader
  BY SessionInit, ClientAssumption DEF Sessions!Init, Reader
<1>2. SessionInv /\ Reader /\ [Sessions!Next]_Sessions!vars => (SessionInv /\ Reader)'
  BY SessionStep, ReaderStep, ClientAssumption
<1>3. SessionInv => WaitTrue
  <2>1. SUFFICES ASSUME SessionInv, caller = "returned", waitErr # Sessions!Lost
                 PROVE  /\ \A s \in Sessions!Outputs \ piped :
                             copied[s] = written[s] \/ (copyErr /\ (broken \/ s \in faults))
                        /\ waitErr = 0 <=> ended[1] = 0 /\ ended[2] # Sessions!Malformed
                        /\ copyErr => fed > moved \/ broken \/ faults # {}
    BY DEF WaitTrue, Sessions!WaitTrue
  <2>2. waitErr = Truth /\ Finished = Sessions!CopyFuncs /\ Len(errors) = 0
    BY <2>1 DEF SessionInv, Told
  <2>3. Failed <=> copyErr
    <3>1. ~\E i \in 1..Len(errors) : errors[i]
      BY <2>2
    <3>2. copyErr \in BOOLEAN
      BY <2>1 DEF SessionInv, SessionTyped
    <3>3. QED BY <3>1, <3>2 DEF Failed
  <2>4. \A s \in Sessions!Outputs \ piped : copied[s] = written[s] \/ Excused(s)
    BY <2>1, <2>2, Consts DEF SessionInv, Copied, Finished, Sessions!CopyFuncs
  <2>5. waitErr = 0 <=> ended[1] = 0 /\ ended[2] # Malformed
    <3>1. CASE ended[2] = Malformed
      <4>1. waitErr = Nothing /\ Nothing = -1
        BY <2>2, <3>1, Consts DEF Truth
      <4>2. QED BY <3>1, <4>1
    <3>2. CASE ended[2] # Malformed
      BY <2>1, <2>2, <3>2, NilIsZero, ClientAssumption
         DEF SessionInv, SessionTyped, Truth
    <3>3. QED BY <3>1, <3>2
  <2>6. moved < fed => fed > moved
    BY <2>1 DEF SessionInv, SessionTyped
  <2>7. copyErr => fed > moved \/ broken \/ faults # {}
    BY <2>1, <2>3, <2>6 DEF SessionInv, Copied
  <2>8. QED BY <2>3, <2>4, <2>5, <2>7 DEF Excused, Malformed
<1>4. QED BY <1>1, <1>2, <1>3, PTL DEF Sessions!Spec
=============================================================================
