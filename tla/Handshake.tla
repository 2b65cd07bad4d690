----------------------------- MODULE Handshake -----------------------------
(***************************************************************************)
(* Key exchange and rekeying of an SSH connection at both of its ends      *)
(* (crypto/ssh: handshake.go, the key changes of transport.go): the read   *)
(* loop with its exchange of keys, the threshold that starts one from      *)
(* either side, and writePacket as the mux and another goroutine call it,  *)
(* blocked while keys change.                                              *)
(*                                                                         *)
(* Algorithms and secrets are abstracted to the key they give: the pair of *)
(* kexInits, the client's and the server's, that both ends must have seen. *)
(* Every packet counts as one byte against the threshold.  A critical      *)
(* section of mu is a step; sockets take what is written to them.          *)
(***************************************************************************)
EXTENDS Integers, Sequences, FiniteSets

CONSTANTS
    Threshold,  \* config.RekeyThreshold
    Cap,        \* the capacity of incoming
    ClientSupply, ServerSupply, \* packets the user of each end writes (bounds)
    Askers,     \* ends whose user's packets make the other mux write one
    Faults      \* what may go wrong: "lost", "refused"

ASSUME HandshakeAssumption ==
    /\ Threshold \in Nat
    /\ Cap \in Nat \ {0}
    /\ ClientSupply \in Nat /\ ServerSupply \in Nat
    /\ Askers \subseteq {"client", "server"}
    /\ Faults \subseteq {"lost", "refused"}

Ends == {"client", "server"}
Procs == {"mux", "user"}
Other(e) == IF e = "client" THEN "server" ELSE "client"

ExchangeKeys == Nat \X Nat
NoKey == <<0, 0>>

VARIABLES
    rp,         \* the read loop of each end
    got,        \* the number of the kexInit it has read
    since,      \* readSinceKex
    written,    \* writtenSinceKex
    sent,       \* sentInitMsg, the number of a kexInit, or 0
    inits,      \* kexInits sent
    failed,     \* writeError is set
    leaked,     \* mu was left locked
    writeKey,   \* the cipher of the writing side
    readKey,    \* and of the reading side
    pending,    \* pendingKeyChange of the reading side
    session,    \* sessionID
    incoming,   \* packets for the mux
    hold,       \* the packet the read loop is about to put there
    wire,       \* packets on their way from each end
    up,         \* ends whose connection is not closed
    wp,         \* writePacket, as each process of each end calls it
    asking,     \* the packet it writes asks for a reply
    made,       \* packets the user has written
    data,       \* packets writePacket has sent
    seen,       \* and those the mux of each end has taken
    under       \* packets sent under writeKey, other than those of the exchange

reading  == <<rp, got, since, readKey, pending, session, hold>>
exchange == <<written, sent, inits, failed, writeKey, under>>
writing  == <<wp, asking, made, data, leaked>>
shared   == <<incoming, wire, up, seen>>
vars     == <<reading, exchange, writing, shared>>

\* A packet under the key of the writing side.
Packet(e, t, n, ask) ==
    [t |-> t, n |-> n, ask |-> ask, key |-> writeKey[e], signed |-> NoKey]

\* The key that the kexInits this end has sent and read give.
Agreed(e) == IF e = "client" THEN <<sent[e], got[e]>> ELSE <<got[e], sent[e]>>
DH(e) == [Packet(e, "dh", 0, FALSE) EXCEPT !.signed = Agreed(e)]

Init ==
    /\ rp = [e \in Ends |-> "recv"]
    /\ got = [e \in Ends |-> 0]
    /\ since = [e \in Ends |-> 0]
    /\ written = [e \in Ends |-> 0]
    /\ sent = [e \in Ends |-> 1]        \* requestKeyChange at the start
    /\ inits = [e \in Ends |-> 1]
    /\ failed = [e \in Ends |-> FALSE]
    /\ leaked = [e \in Ends |-> FALSE]
    /\ writeKey = [e \in Ends |-> NoKey]
    /\ readKey = [e \in Ends |-> NoKey]
    /\ pending = [e \in Ends |-> NoKey]
    /\ session = [e \in Ends |-> NoKey]
    /\ incoming = [e \in Ends |-> <<>>]
    /\ hold = [e \in Ends |-> Packet(e, "newkeys", 0, FALSE)]
    /\ wire = [e \in Ends |-> <<Packet(e, "init", 1, FALSE)>>]
    /\ up = Ends
    /\ wp = [e \in Ends |-> [p \in Procs |-> IF p = "mux" THEN "first" ELSE "idle"]]
    /\ asking = [e \in Ends |-> [p \in Procs |-> FALSE]]
    /\ made = [e \in Ends |-> 0]
    /\ data = [e \in Ends |-> 0]
    /\ seen = [e \in Ends |-> 0]
    /\ under = [e \in Ends |-> 0]

-----------------------------------------------------------------------------
\* What the socket takes and gives.  Reading may fail once either end has closed.
Sends(e, p) == wire' = [wire EXCEPT ![e] = Append(@, p)]
Arrives(e) == e \in up /\ wire[Other(e)] # <<>>
Arrived(e) == Head(wire[Other(e)])
Consumes(e) == wire' = [wire EXCEPT ![Other(e)] = Tail(@)]
Breaks(e) == up # Ends
Goes(e, pc) == rp' = [rp EXCEPT ![e] = pc]

\* transport.readPacket understands it: its key, and no bogus newkeys.
Readable(e, p) == p.key = readKey[e] /\ (p.t = "newkeys" => pending[e] # NoKey)

\* sendKexInitLocked sends.
SendsInit(e) ==
    /\ Sends(e, Packet(e, "init", inits[e] + 1, FALSE))
    /\ sent' = [sent EXCEPT ![e] = inits[e] + 1]
    /\ inits' = [inits EXCEPT ![e] = @ + 1]

-----------------------------------------------------------------------------
\* readOnePacket has read too much under one key: requestKeyChange.
RequestKeyChange(e) ==
    /\ rp[e] = "request"
    /\ ~leaked[e]
    /\ \/ sent[e] = 0 /\ e \in up /\ SendsInit(e) /\ Goes(e, "recv")
       \/ sent[e] # 0 /\ UNCHANGED <<sent, inits, wire>> /\ Goes(e, "recv")
       \/ sent[e] = 0 /\ e \notin up /\ UNCHANGED <<sent, inits, wire>> /\ Goes(e, "dead")
    /\ UNCHANGED <<got, since, readKey, pending, session, hold,
                   written, failed, writeKey, under, writing, incoming, up, seen>>

\* readOnePacket: a kexInit starts an exchange, all else goes to the mux.
Recv(e) ==
    /\ rp[e] = "recv"
    /\ Arrives(e)
    /\ Consumes(e)
    /\ since' = [since EXCEPT ![e] = @ + 1]
    /\ LET p == Arrived(e)
       IN  \/ /\ Readable(e, p) /\ p.t = "init"
              /\ got' = [got EXCEPT ![e] = p.n]
              /\ Goes(e, "kex")
              /\ UNCHANGED hold
           \/ /\ Readable(e, p) /\ p.t # "init"
              /\ hold' = [hold EXCEPT ![e] = p]
              /\ Goes(e, "push")
              /\ UNCHANGED got
           \/ ~Readable(e, p) /\ Goes(e, "dead") /\ UNCHANGED <<got, hold>>
    /\ UNCHANGED <<readKey, pending, session, exchange, writing, incoming, up, seen>>

\* The connection is gone: incoming is closed, and nothing else is done.
RecvFails(e) ==
    /\ rp[e] = "recv"
    /\ Breaks(e)
    /\ Goes(e, "dead")
    /\ UNCHANGED <<got, since, readKey, pending, session, hold, exchange, writing, shared>>

\* Mutant: a packet for a full incoming is dropped.
PushDrops(e) ==
    /\ rp[e] = "push"
    /\ incoming' = [incoming EXCEPT ![e] = IF Len(@) < Cap THEN Append(@, hold[e]) ELSE @]
    /\ Goes(e, IF since[e] > Threshold THEN "request" ELSE "recv")
    /\ UNCHANGED <<got, since, readKey, pending, session, hold,
                   exchange, writing, wire, up, seen>>

\* readLoop: t.incoming <- p.
Push(e) ==
    /\ rp[e] = "push"
    /\ Len(incoming[e]) < Cap
    /\ incoming' = [incoming EXCEPT ![e] = Append(@, hold[e])]
    /\ Goes(e, IF since[e] > Threshold THEN "request" ELSE "recv")
    /\ UNCHANGED <<got, since, readKey, pending, session, hold,
                   exchange, writing, wire, up, seen>>

-----------------------------------------------------------------------------
\* enterKeyExchange: sendKexInit, unless one has been sent.
Kex(e) ==
    /\ rp[e] = "kex"
    /\ ~leaked[e]
    /\ LET next == IF e = "client" THEN "dhwrite" ELSE "dhread"
       IN  \/ sent[e] = 0 /\ e \in up /\ SendsInit(e) /\ Goes(e, next)
           \/ sent[e] # 0 /\ UNCHANGED <<sent, inits, wire>> /\ Goes(e, next)
           \/ sent[e] = 0 /\ e \notin up /\ UNCHANGED <<sent, inits, wire>> /\ Goes(e, "fail")
    /\ UNCHANGED <<got, since, readKey, pending, session, hold,
                   written, failed, writeKey, under, writing, incoming, up, seen>>

\* kex.Client and kex.Server write: the reply signs what both have sent.  One of
\* the servers, dhGroup, ignores that it could not be sent.
DHWrite(e) ==
    /\ rp[e] = "dhwrite"
    /\ \/ /\ e \in up
          /\ Sends(e, DH(e))
          /\ Goes(e, IF e = "client" THEN "dhread" ELSE "nkwrite")
       \/ /\ e \notin up
          /\ Goes(e, "fail") \/ (e = "server" /\ Goes(e, "nkwrite"))
          /\ UNCHANGED wire
    /\ UNCHANGED <<got, since, readKey, pending, session, hold,
                   exchange, writing, incoming, up, seen>>

\* It is the message they read, and for the client signs what it has seen.
Verified(e, p) ==
    /\ Readable(e, p)
    /\ p.t = "dh"
    /\ e = "client" => p.signed = Agreed(e)

\* They read; the client may also refuse the host key.
DHRead(e) ==
    /\ rp[e] = "dhread"
    /\ Arrives(e)
    /\ Consumes(e)
    /\ LET good == Verified(e, Arrived(e))
       IN  \/ good /\ Goes(e, IF e = "client" THEN "nkwrite" ELSE "dhwrite")
           \/ ~good /\ Goes(e, "fail")
           \/ e = "client" /\ "refused" \in Faults /\ Goes(e, "fail")
    /\ UNCHANGED <<got, since, readKey, pending, session, hold,
                   exchange, writing, incoming, up, seen>>

\* A read within the exchange fails.
KexReadFails(e) ==
    /\ rp[e] \in {"dhread", "nkread"}
    /\ Breaks(e)
    /\ Goes(e, "fail")
    /\ UNCHANGED <<got, since, readKey, pending, session, hold, exchange, writing, shared>>

\* Mutant: the cipher is changed before newkeys is written.
NewKeysWriteUnderNew(e) ==
    /\ rp[e] = "nkwrite"
    /\ pending' = [pending EXCEPT ![e] = Agreed(e)]
    /\ session' = [session EXCEPT ![e] = IF @ = NoKey THEN Agreed(e) ELSE @]
    /\ \/ /\ e \in up
          /\ Sends(e, [Packet(e, "newkeys", 0, FALSE) EXCEPT !.key = Agreed(e)])
          /\ writeKey' = [writeKey EXCEPT ![e] = Agreed(e)]
          /\ under' = [under EXCEPT ![e] = 0]
          /\ Goes(e, "nkread")
       \/ e \notin up /\ Goes(e, "fail") /\ UNCHANGED <<wire, writeKey, under>>
    /\ UNCHANGED <<got, since, readKey, hold, written, sent, inits, failed,
                   writing, incoming, up, seen>>

\* prepareKeyChange, and newkeys, the last packet under the old key.
NewKeysWrite(e) ==
    /\ rp[e] = "nkwrite"
    /\ pending' = [pending EXCEPT ![e] = Agreed(e)]
    /\ session' = [session EXCEPT ![e] = IF @ = NoKey THEN Agreed(e) ELSE @]
    /\ \/ /\ e \in up
          /\ Sends(e, Packet(e, "newkeys", 0, FALSE))
          /\ writeKey' = [writeKey EXCEPT ![e] = Agreed(e)]
          /\ under' = [under EXCEPT ![e] = 0]
          /\ Goes(e, "nkread")
       \/ e \notin up /\ Goes(e, "fail") /\ UNCHANGED <<wire, writeKey, under>>
    /\ UNCHANGED <<got, since, readKey, hold, written, sent, inits, failed,
                   writing, incoming, up, seen>>

\* The other end's newkeys: what follows is under the new key.
NewKeysRead(e) ==
    /\ rp[e] = "nkread"
    /\ Arrives(e)
    /\ Consumes(e)
    /\ \/ /\ Readable(e, Arrived(e)) /\ Arrived(e).t = "newkeys"
          /\ readKey' = [readKey EXCEPT ![e] = pending[e]]
          /\ pending' = [pending EXCEPT ![e] = NoKey]
          /\ Goes(e, "done")
       \/ /\ ~(Readable(e, Arrived(e)) /\ Arrived(e).t = "newkeys")
          /\ Goes(e, "fail")
          /\ UNCHANGED <<readKey, pending>>
    /\ UNCHANGED <<got, since, session, hold, exchange, writing, incoming, up, seen>>

\* Mutant: sentInitMsg is kept.
UnblocksNobody(e) ==
    /\ ~leaked[e]
    /\ written' = [written EXCEPT ![e] = 0]
    /\ UNCHANGED sent

\* readOnePacket after the exchange: the writers go on.
Unblocks(e) ==
    /\ ~leaked[e]
    /\ sent' = [sent EXCEPT ![e] = 0]
    /\ written' = [written EXCEPT ![e] = 0]

\* The mux is to be told of the new keys.
Done(e) ==
    /\ rp[e] = "done"
    /\ Unblocks(e)
    /\ since' = [since EXCEPT ![e] = 0]
    /\ hold' = [hold EXCEPT ![e] = Packet(e, "newkeys", 0, FALSE)]
    /\ Goes(e, "push")
    /\ UNCHANGED <<got, readKey, pending, session, inits, failed, writeKey, under, writing, shared>>

\* A failed exchange closes the connection, and incoming.
Fail(e) ==
    /\ rp[e] = "fail"
    /\ Unblocks(e)
    /\ failed' = [failed EXCEPT ![e] = TRUE]
    /\ up' = up \ {e}
    /\ Goes(e, "dead")
    /\ UNCHANGED <<got, since, readKey, pending, session, hold,
                   inits, writeKey, under, writing, incoming, wire, seen>>

-----------------------------------------------------------------------------
\* The user calls writePacket, once the handshake has returned a connection.
Begin(e) ==
    /\ wp[e]["mux"] \notin {"first", "never"}
    /\ wp[e]["user"] = "idle"
    /\ made[e] < (IF e = "client" THEN ClientSupply ELSE ServerSupply)
    /\ made' = [made EXCEPT ![e] = @ + 1]
    /\ asking' = [asking EXCEPT ![e]["user"] = e \in Askers]
    /\ wp' = [wp EXCEPT ![e]["user"] = "lock"]
    /\ UNCHANGED <<data, leaked, reading, exchange, shared>>

\* writePacket: the exchange it starts, or finds, is waited for.
Blocks(e, p) ==
    /\ wp[e][p] = "lock"
    /\ ~leaked[e]
    /\ \/ sent[e] # 0 /\ UNCHANGED <<sent, inits, wire>>
       \/ sent[e] = 0 /\ written[e] > Threshold /\ e \in up /\ SendsInit(e)
    /\ wp' = [wp EXCEPT ![e][p] = "wait"]
    /\ UNCHANGED <<asking, made, data, leaked, reading,
                   written, failed, writeKey, under, incoming, up, seen>>

\* It holds mu and no exchange is on.  A kexInit that could not be sent is ignored.
Enters(e, p) ==
    /\ ~leaked[e]
    /\ sent[e] = 0
    /\ \/ wp[e][p] = "wait"
       \/ wp[e][p] = "lock" /\ (written[e] > Threshold => e \notin up)

\* Its packet is sent.
Write(e, p) ==
    /\ Enters(e, p)
    /\ ~failed[e] /\ e \in up
    /\ written' = [written EXCEPT ![e] = @ + 1]
    /\ under' = [under EXCEPT ![e] = @ + 1]
    /\ data' = [data EXCEPT ![e] = @ + 1]
    /\ Sends(e, Packet(e, "data", data[e] + 1, asking[e][p]))
    /\ wp' = [wp EXCEPT ![e][p] = IF p = "mux" THEN "take" ELSE "idle"]
    /\ UNCHANGED <<asking, made, leaked, reading, sent, inits, failed, writeKey,
                   incoming, up, seen>>

\* It fails, after a failed exchange without unlocking mu.  The mux then ends.
WriteFails(e, p) ==
    /\ Enters(e, p)
    /\ failed[e] \/ e \notin up
    /\ leaked' = [leaked EXCEPT ![e] = failed[e]]
    /\ written' = [written EXCEPT ![e] = IF failed[e] THEN @ ELSE @ + 1]
    /\ wp' = [wp EXCEPT ![e][p] = IF p = "mux" THEN "done" ELSE "idle"]
    /\ up' = IF p = "mux" THEN up \ {e} ELSE up
    /\ UNCHANGED <<asking, made, data, reading, sent, inits, failed, writeKey, under,
                   incoming, wire, seen>>

\* The mux takes a packet; some make it write one.
Take(e) ==
    /\ wp[e]["mux"] \in {"first", "take"}
    /\ incoming[e] # <<>>
    /\ incoming' = [incoming EXCEPT ![e] = Tail(@)]
    /\ LET p == Head(incoming[e])
       IN  /\ seen' = [seen EXCEPT ![e] = IF p.t = "data" THEN p.n ELSE @]
           /\ wp' = [wp EXCEPT ![e]["mux"] = IF p.ask THEN "lock" ELSE "take"]
    /\ UNCHANGED <<asking, made, data, leaked, reading, exchange, wire, up>>

\* incoming is closed: the mux, or the handshake, closes the connection.
MuxEnds(e) ==
    /\ wp[e]["mux"] \in {"first", "take"}
    /\ incoming[e] = <<>> /\ rp[e] = "dead"
    /\ wp' = [wp EXCEPT ![e]["mux"] = IF @ = "first" THEN "never" ELSE "done"]
    /\ up' = up \ {e}
    /\ UNCHANGED <<asking, made, data, leaked, reading, exchange, incoming, wire, seen>>

\* The connection is lost, or closed by the programs.
Lose ==
    /\ "lost" \in Faults
    /\ up = Ends
    /\ up' = {}
    /\ UNCHANGED <<reading, exchange, writing, incoming, wire, seen>>

-----------------------------------------------------------------------------
ReadLoop(e) ==
    \/ RequestKeyChange(e) \/ Recv(e) \/ RecvFails(e) \/ Push(e)
    \/ Kex(e) \/ DHWrite(e) \/ DHRead(e) \/ KexReadFails(e)
    \/ NewKeysWrite(e) \/ NewKeysRead(e) \/ Done(e) \/ Fail(e)
WritePacket(e, p) == Blocks(e, p) \/ Write(e, p) \/ WriteFails(e, p)
Mux(e) == Take(e) \/ MuxEnds(e)

Next ==
    \/ \E e \in Ends : ReadLoop(e) \/ Mux(e) \/ Begin(e)
    \/ \E e \in Ends, p \in Procs : WritePacket(e, p)
    \/ Lose

Spec == Init /\ [][Next]_vars

\* Goroutines that can run do; nothing is assumed of the user and the network.
Fairness ==
    /\ \A e \in Ends : WF_vars(ReadLoop(e)) /\ WF_vars(Mux(e))
    /\ \A e \in Ends, p \in Procs : WF_vars(WritePacket(e, p))

FairSpec == Spec /\ Fairness

-----------------------------------------------------------------------------
PacketTypes == {"init", "dh", "newkeys", "data"}
Packets == [t : PacketTypes, n : Nat, ask : BOOLEAN, key : ExchangeKeys, signed : ExchangeKeys]

\* The types of the variables.
TypeOK ==
    /\ rp \in [Ends -> {"request", "recv", "push", "kex", "dhwrite", "dhread",
                        "nkwrite", "nkread", "done", "fail", "dead"}]
    /\ got \in [Ends -> Nat] /\ since \in [Ends -> Nat]
    /\ written \in [Ends -> Nat] /\ sent \in [Ends -> Nat] /\ inits \in [Ends -> Nat]
    /\ failed \in [Ends -> BOOLEAN] /\ leaked \in [Ends -> BOOLEAN]
    /\ writeKey \in [Ends -> ExchangeKeys] /\ readKey \in [Ends -> ExchangeKeys]
    /\ pending \in [Ends -> ExchangeKeys] /\ session \in [Ends -> ExchangeKeys]
    /\ incoming \in [Ends -> Seq(Packets)]
    /\ hold \in [Ends -> Packets]
    /\ wire \in [Ends -> Seq(Packets)]
    /\ up \subseteq Ends
    /\ wp \in [Ends -> [Procs -> {"first", "take", "idle", "lock", "wait", "done", "never"}]]
    /\ asking \in [Ends -> [Procs -> BOOLEAN]]
    /\ made \in [Ends -> Nat] /\ data \in [Ends -> Nat]
    /\ seen \in [Ends -> Nat] /\ under \in [Ends -> Nat]

\* What a read loop may meet where it stands.
Expected(e, p) ==
    CASE rp[e] = "dhread" -> p.t = "dh" /\ (e = "client" => p.signed = Agreed(e))
      [] rp[e] = "nkread" -> p.t = "newkeys"
      [] rp[e] \in {"recv", "push", "request"} -> p.t \in {"init", "data"}
      [] OTHER -> TRUE

\* Whoever starts the exchange, and if both do at once, no end ever reads a packet
\* under a key it has not changed to, or one that its exchange does not expect; and
\* the session stays that of the first exchange at both ends.
Understood ==
    /\ \A e \in Ends : wire[Other(e)] # <<>> /\ rp[e] # "dead" =>
        LET p == Arrived(e)
        IN  /\ rp[e] \notin {"done", "fail"} => p.key = readKey[e]
            /\ Expected(e, p)
    /\ \A e \in Ends : session[e] \in {NoKey, <<1, 1>>}

\* A key serves the packets the threshold allows, the one that passes it, and one of
\* each other writer that had waited for the key and does not look at it again.
KeyUse == \A e \in Ends : under[e] <= Threshold + Cardinality(Procs)

\* Both ends use the keys they agreed on, and no longer than they may.
KeysRight == Understood /\ KeyUse

\* Packets on their way to the mux of an end, in order.
Coming(e) ==
    incoming[e] \o (IF rp[e] = "push" THEN <<hold[e]>> ELSE <<>>) \o wire[Other(e)]

\* The data among s are those numbered from a + 1 to b, each once and in order.
Numbered(s, a, b) ==
    LET D == {i \in 1..Len(s) : s[i].t = "data"}
    IN  /\ a <= b
        /\ \A i \in D : s[i].n \in (a + 1)..b
        /\ \A i, j \in D : i < j => s[i].n < s[j].n
        /\ \A k \in (a + 1)..b : \E i \in D : s[i].n = k

\* A change of keys loses, repeats and reorders no packet: those on their way are
\* exactly those sent and not yet seen.
Delivered ==
    \A e \in Ends : rp[e] # "dead" => Numbered(Coming(e), seen[e], data[Other(e)])

\* The mux of an end waits in writePacket for the end of an exchange, which its read
\* loop cannot come to: it waits for the mux to take a packet.
Stuck(e) ==
    /\ wp[e]["mux"] = "wait" /\ sent[e] # 0
    /\ rp[e] = "push" /\ Len(incoming[e]) = Cap

\* While the connection is up, and no mux is stuck like this, every exchange that
\* either end starts comes to its end, and every writePacket returns.
WritesReturn ==
    [](up = Ends /\ \A e \in Ends : ~Stuck(e)) =>
        \A e \in Ends, p \in Procs :
            wp[e][p] \in {"lock", "wait"} ~> wp[e][p] \in {"take", "idle"}

\* An exchange that has begun ends: "all writes will be blocked until the change is
\* done, and a failed key change will close the underlying transport" (handshake.go:195).
ChangeEnds == \A e \in Ends : sent[e] # 0 ~> sent[e] = 0
=============================================================================
