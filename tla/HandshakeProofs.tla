---------------------------- MODULE HandshakeProofs ----------------------------
(***************************************************************************)
(* Proofs, for any threshold and any packets of the users, that both ends  *)
(* change keys between the same two packets, whoever starts an exchange    *)
(* and also when both do at once, and that no key serves too long.         *)
(*                                                                         *)
(* Exchanges are numbered by the keys that they replace.  What an end      *)
(* writes has a fixed order: data, an init, one message of the exchange,   *)
(* newkeys, data under the next key.  A packet therefore has one place in  *)
(* it, given by its key and its type (Before, After); so has the end that  *)
(* writes (Out) and the one that reads (In), and what is on the way leads  *)
(* from the one to the other without a gap (Stream).                       *)
(*                                                                         *)
(* That nothing is lost over that is shown by numbering the packets of     *)
(* the mux through the three places they are in on their way: incoming,    *)
(* the hand of the read loop, and the wire (InOrder).                      *)
(***************************************************************************)
EXTENDS Handshake, FiniteSetTheorems, TLAPS

\* The n-th key, and the number of a key.
Key(n) == <<n, n>>
Number(k) == k[1]

\* Where a packet stands, and where whoever has passed it.
Before(p) == <<p.key, CASE p.t = "dh" -> 1 [] p.t = "newkeys" -> 2 [] OTHER -> 0>>
After(p) ==
    CASE p.t = "init"    -> <<p.key, 1>>
      [] p.t = "dh"      -> <<p.key, 2>>
      [] p.t = "newkeys" -> <<Key(Number(p.key) + 1), 0>>
      [] OTHER           -> <<p.key, 0>>

\* Where an end stands that reads, and one that writes.
In(e) ==
    <<readKey[e],
      IF rp[e] \in {"recv", "push", "request", "done"} THEN 0
      ELSE IF rp[e] \in {"kex", "dhread"} \/ (rp[e] = "dhwrite" /\ e = "client") THEN 1 ELSE 2>>
Out(e) ==
    <<writeKey[e],
      IF sent[e] = 0 \/ rp[e] \in {"nkread", "done"} THEN 0
      ELSE IF rp[e] = "nkwrite" \/ (rp[e] = "dhread" /\ e = "client") THEN 2 ELSE 1>>
Reads(e)  == rp[e] \notin {"fail", "dead"}
Writes(e) == e \in up /\ rp[e] # "fail"

\* A packet belongs to the exchange of its key.
Right(p) ==
    /\ p.key = Key(Number(p.key))
    /\ p.t = "init" => p.n = Number(p.key) + 1
    /\ p.t = "dh" => p.signed = Key(Number(p.key) + 1)

\* What is on the way from e has no gap.
Chain(s) ==
    /\ \A i \in 1..Len(s) : Right(s[i])
    /\ \A i \in 1..(Len(s) - 1) : After(s[i]) = Before(s[i + 1])
Stream(e) ==
    /\ Chain(wire[e])
    /\ wire[e] # <<>> /\ Reads(Other(e)) => Before(wire[e][1]) = In(Other(e))
    /\ wire[e] # <<>> /\ Writes(e) => After(wire[e][Len(wire[e])]) = Out(e)
    /\ wire[e] = <<>> /\ Reads(Other(e)) /\ Writes(e) => In(Other(e)) = Out(e)

\* The keys of an end, by where its exchange is.
Keyed(e) ==
    /\ readKey[e] = Key(Number(readKey[e])) /\ writeKey[e] = Key(Number(writeKey[e]))
    /\ session[e] \in {NoKey, Key(1)}
    /\ session[e] = NoKey => writeKey[e] = NoKey
    /\ Reads(e) =>
         IF rp[e] = "nkread"
         THEN writeKey[e] = Key(Number(readKey[e]) + 1) /\ pending[e] = writeKey[e]
         ELSE writeKey[e] = readKey[e] /\ pending[e] = NoKey
    /\ rp[e] \in {"kex", "dhwrite", "dhread", "nkwrite"} => got[e] = Number(readKey[e]) + 1
    /\ rp[e] \in {"dhwrite", "dhread", "nkwrite", "nkread", "done"} => sent[e] # 0
    /\ rp[e] = "fail" /\ e \in up => sent[e] # 0
    /\ failed[e] => rp[e] = "dead" /\ e \notin up
    /\ Writes(e) \/ Reads(e) =>
         /\ sent[e] \in {0, inits[e]}
         /\ inits[e] = Number(writeKey[e]) +
                         (IF sent[e] = 0 \/ rp[e] \in {"nkread", "done"} THEN 0 ELSE 1)

\* What a key has served for, and those who will write under it without a look.
Waits(e, p) == IF wp[e][p] = "wait" THEN 1 ELSE 0
Served(e) ==
    /\ under[e] <= Threshold + 2
    /\ rp[e] \in {"nkread", "done"} => under[e] = 0
    /\ Writes(e) => under[e] <= written[e]
    /\ Writes(e) /\ sent[e] = 0 =>
         under[e] + Waits(e, "mux") + Waits(e, "user") <= Threshold + 2

IInv == TypeOK /\ \A e \in Ends : Stream(e) /\ Keyed(e) /\ Served(e)

-----------------------------------------------------------------------------
LEMMA Pair ==
  ASSUME NEW e \in Ends
  PROVE  /\ Other(e) \in Ends /\ Other(Other(e)) = e /\ Other(e) # e
         /\ \A x \in Ends : x = e \/ x = Other(e)
BY DEF Ends, Other

LEMMA Empty ==
  ASSUME NEW s \in Seq(Packets)
  PROVE  Len(s) \in Nat /\ (s = <<>> <=> Len(s) = 0)
OBVIOUS

\* A packet is added to a chain, and taken from it.
LEMMA Longer ==
  ASSUME NEW s \in Seq(Packets), NEW p \in Packets, Chain(s), Right(p),
         s # <<>> => After(s[Len(s)]) = Before(p)
  PROVE  /\ Chain(Append(s, p)) /\ Append(s, p) # <<>>
         /\ Append(s, p)[Len(Append(s, p))] = p
         /\ s = <<>> => Append(s, p)[1] = p
         /\ s # <<>> => Append(s, p)[1] = s[1]
<1> DEFINE r == Append(s, p)
<1>1. /\ Len(s) \in Nat /\ Len(r) = Len(s) + 1 /\ r # <<>>
      /\ r[Len(r)] = p /\ \A i \in 1..Len(s) : r[i] = s[i]
      /\ s # <<>> => Len(s) >= 1
      /\ s = <<>> => Len(s) = 0
  <2>1. /\ r \in Seq(Packets) /\ Len(s) \in Nat /\ Len(r) = Len(s) + 1
        /\ r[Len(r)] = p /\ \A i \in 1..Len(s) : r[i] = s[i]
    OBVIOUS
  <2> HIDE DEF r
  <2>2. QED BY <2>1, Empty
<1> HIDE DEF r
<1>2. ASSUME NEW i \in 1..Len(r) PROVE Right(r[i])
  BY <1>1 DEF Chain
<1>3. ASSUME NEW i \in 1..(Len(r) - 1) PROVE After(r[i]) = Before(r[i + 1])
  <2>1. i \in 1..Len(s) /\ r[i] = s[i]
    BY <1>1
  <2>2. CASE i = Len(s)
    BY <1>1, <2>1, <2>2
  <2>3. CASE i # Len(s)
    <3>1. i + 1 \in 1..Len(s) /\ r[i + 1] = s[i + 1] /\ i \in 1..(Len(s) - 1)
      BY <1>1, <2>1, <2>3
    <3>2. QED BY <2>1, <3>1 DEF Chain
  <2>4. QED BY <2>2, <2>3
<1>4. Chain(r)
  BY <1>2, <1>3 DEF Chain
<1>5. QED BY <1>1, <1>4 DEF r

LEMMA Shorter ==
  ASSUME NEW s \in Seq(Packets), s # <<>>, Chain(s)
  PROVE  /\ Head(s) \in Packets /\ Head(s) = s[1] /\ Right(Head(s)) /\ Chain(Tail(s))
         /\ Tail(s) # <<>> => /\ Before(Tail(s)[1]) = After(Head(s))
                              /\ Tail(s)[Len(Tail(s))] = s[Len(s)]
         /\ Tail(s) = <<>> => s[Len(s)] = Head(s)
<1> DEFINE r == Tail(s)
<1>1. /\ Head(s) \in Packets /\ Head(s) = s[1] /\ Len(s) \in Nat /\ Len(s) >= 1
      /\ Len(r) = Len(s) - 1 /\ \A i \in 1..Len(r) : r[i] = s[i + 1]
      /\ r # <<>> => Len(r) >= 1
      /\ r = <<>> => Len(r) = 0
  <2>1. /\ Head(s) \in Packets /\ Head(s) = s[1] /\ Len(s) \in Nat /\ Len(s) >= 1
        /\ r \in Seq(Packets) /\ Len(r) = Len(s) - 1 /\ \A i \in 1..Len(r) : r[i] = s[i + 1]
    OBVIOUS
  <2> HIDE DEF r
  <2>2. QED BY <2>1, Empty
<1> HIDE DEF r
<1>2. \A i \in 1..Len(r) : i + 1 \in 1..Len(s)
  BY <1>1
<1>3. ASSUME NEW i \in 1..(Len(r) - 1) PROVE After(r[i]) = Before(r[i + 1])
  <2>1. /\ i \in 1..Len(r) /\ i + 1 \in 1..Len(r) /\ i + 1 \in 1..(Len(s) - 1)
        /\ r[i] = s[i + 1] /\ r[i + 1] = s[(i + 1) + 1]
    BY <1>1
  <2>2. QED BY <2>1 DEF Chain
<1>4. Chain(r)
  BY <1>1, <1>2, <1>3 DEF Chain
<1>5. Right(Head(s))
  BY <1>1 DEF Chain
<1>6. r # <<>> => Before(r[1]) = After(Head(s)) /\ r[Len(r)] = s[Len(s)]
  <2>1. SUFFICES ASSUME r # <<>> PROVE Before(r[1]) = After(Head(s)) /\ r[Len(r)] = s[Len(s)]
    OBVIOUS
  <2>2. 1 \in 1..(Len(s) - 1) /\ r[1] = s[1 + 1] /\ r[Len(r)] = s[Len(s)]
    BY <1>1, <2>1
  <2>3. QED BY <1>1, <2>2 DEF Chain
<1>7. QED BY <1>1, <1>4, <1>5, <1>6 DEF r

-----------------------------------------------------------------------------
\* What a step of one end leaves as it is at the other.
Untouched(o) ==
    /\ rp'[o] = rp[o] /\ got'[o] = got[o] /\ readKey'[o] = readKey[o]
    /\ pending'[o] = pending[o] /\ session'[o] = session[o]
    /\ written'[o] = written[o] /\ sent'[o] = sent[o] /\ inits'[o] = inits[o]
    /\ failed'[o] = failed[o] /\ writeKey'[o] = writeKey[o] /\ under'[o] = under[o]
    /\ wp'[o] = wp[o] /\ up' \subseteq up

LEMMA Stays ==
  ASSUME NEW o \in Ends, Untouched(o)
  PROVE  /\ In(o)' = In(o) /\ Out(o)' = Out(o) /\ (Reads(o)' <=> Reads(o))
         /\ Writes(o)' => Writes(o)
BY DEF Untouched, In, Out, Reads, Writes

LEMMA StaysKeyed ==
  ASSUME NEW o \in Ends, Untouched(o), Keyed(o), Served(o)
  PROVE  Keyed(o)' /\ Served(o)'
BY DEF Untouched, Keyed, Served, Reads, Writes, Waits

\* The end neither writes nor reads, writes, reads.
LEMMA Silent ==
  ASSUME NEW e \in Ends, Stream(e), Untouched(Other(e)), wire'[e] = wire[e],
         Writes(e)' => Writes(e) /\ Out(e)' = Out(e)
  PROVE  Stream(e)'
<1>1. Other(e) \in Ends
  BY Pair
<1>2. In(Other(e))' = In(Other(e)) /\ (Reads(Other(e))' <=> Reads(Other(e)))
  BY <1>1, Stays
<1>3. QED BY <1>2 DEF Stream

LEMMA Deaf ==
  ASSUME NEW e \in Ends, NEW o, o = Other(e), Stream(o), Untouched(o), wire'[o] = wire[o],
         Reads(e)' => Reads(e) /\ In(e)' = In(e)
  PROVE  Stream(o)'
<1>1. o \in Ends /\ Other(o) = e
  BY Pair
<1>2. Out(o)' = Out(o) /\ (Writes(o)' => Writes(o))
  BY <1>1, Stays
<1>3. QED BY <1>1, <1>2 DEF Stream

LEMMA Says ==
  ASSUME TypeOK, NEW e \in Ends, NEW p \in Packets, Stream(e), Untouched(Other(e)), Sends(e, p),
         Right(p), Writes(e), Before(p) = Out(e), After(p) = Out(e)'
  PROVE  Stream(e)' /\ wire'[Other(e)] = wire[Other(e)]
<1>1. Other(e) \in Ends /\ Other(e) # e
  BY Pair
<1>2. In(Other(e))' = In(Other(e)) /\ (Reads(Other(e))' <=> Reads(Other(e)))
  BY <1>1, Stays
<1>3. wire[e] \in Seq(Packets) /\ wire'[e] = Append(wire[e], p) /\ wire'[Other(e)] = wire[Other(e)]
  BY <1>1 DEF TypeOK, Sends
<1>4. Chain(wire[e]) /\ (wire[e] # <<>> => After(wire[e][Len(wire[e])]) = Before(p))
  BY DEF Stream
<1>5. /\ Chain(wire'[e]) /\ wire'[e] # <<>> /\ wire'[e][Len(wire'[e])] = p
      /\ wire[e] = <<>> => wire'[e][1] = p
      /\ wire[e] # <<>> => wire'[e][1] = wire[e][1]
  BY <1>3, <1>4, Longer
<1>6. QED BY <1>2, <1>3, <1>5 DEF Stream

LEMMA Heard ==
  ASSUME TypeOK, NEW e \in Ends, Stream(Other(e)), Reads(e), wire[Other(e)] # <<>>
  PROVE  /\ Arrived(e) \in Packets /\ Right(Arrived(e)) /\ Before(Arrived(e)) = In(e)
<1>1. Other(e) \in Ends /\ Other(Other(e)) = e
  BY Pair
<1>2. wire[Other(e)] \in Seq(Packets)
  BY <1>1 DEF TypeOK
<1>3. Chain(wire[Other(e)]) /\ Before(wire[Other(e)][1]) = In(e)
  BY <1>1 DEF Stream
<1>4. QED BY <1>2, <1>3, Shorter DEF Arrived

LEMMA Hears ==
  ASSUME TypeOK, NEW e \in Ends, NEW o, o = Other(e), Stream(o), Untouched(o),
         wire[o] # <<>>, Consumes(e), Reads(e)' => In(e)' = After(Arrived(e))
  PROVE  Stream(o)' /\ wire'[e] = wire[e]
<1>1. o \in Ends /\ Other(o) = e /\ o # e
  BY Pair
<1>2. Out(o)' = Out(o) /\ (Writes(o)' => Writes(o))
  BY <1>1, Stays
<1>3. wire[o] \in Seq(Packets) /\ wire'[o] = Tail(wire[o]) /\ wire'[e] = wire[e]
  BY <1>1 DEF TypeOK, Consumes
<1>4. Chain(wire[o])
  BY DEF Stream
<1>5. /\ Chain(wire'[o])
      /\ wire'[o] # <<>> => /\ Before(wire'[o][1]) = After(Arrived(e))
                            /\ wire'[o][Len(wire'[o])] = wire[o][Len(wire[o])]
      /\ wire'[o] = <<>> => wire[o][Len(wire[o])] = Arrived(e)
  BY <1>3, <1>4, Shorter DEF Arrived
<1>6. QED BY <1>1, <1>2, <1>3, <1>5 DEF Stream

-----------------------------------------------------------------------------
\* The types.
LEMMA PacketType ==
  ASSUME TypeOK, NEW e \in Ends, NEW t \in PacketTypes, NEW n \in Nat, NEW ask \in BOOLEAN
  PROVE  /\ Packet(e, t, n, ask) \in Packets
         /\ Packet(e, t, n, ask).t = t /\ Packet(e, t, n, ask).n = n
         /\ Packet(e, t, n, ask).key = writeKey[e]
<1>1. writeKey[e] \in ExchangeKeys /\ NoKey \in ExchangeKeys
  BY DEF TypeOK, NoKey, ExchangeKeys
<1>2. QED BY <1>1 DEF Packet, Packets

LEMMA AgreedType ==
  ASSUME TypeOK, NEW e \in Ends
  PROVE  Agreed(e) \in ExchangeKeys
BY DEF TypeOK, Agreed, ExchangeKeys

LEMMA DHType ==
  ASSUME TypeOK, NEW e \in Ends
  PROVE  /\ DH(e) \in Packets /\ DH(e).t = "dh" /\ DH(e).key = writeKey[e]
         /\ DH(e).signed = Agreed(e)
<1>1. writeKey[e] \in ExchangeKeys /\ NoKey \in ExchangeKeys
  BY DEF TypeOK, NoKey, ExchangeKeys
<1>2. QED BY <1>1, AgreedType DEF DH, Packet, Packets, PacketTypes

LEMMA SentType ==
  ASSUME TypeOK, NEW e \in Ends, NEW p \in Packets, Sends(e, p)
  PROVE  wire' \in [Ends -> Seq(Packets)]
<1>1. Append(wire[e], p) \in Seq(Packets)
  BY DEF TypeOK
<1>2. QED BY <1>1 DEF TypeOK, Sends

LEMMA ConsumedType ==
  ASSUME TypeOK, NEW e \in Ends, wire[Other(e)] # <<>>, Consumes(e)
  PROVE  wire' \in [Ends -> Seq(Packets)] /\ Arrived(e) \in Packets
<1> DEFINE s == wire[Other(e)]
<1>1. Tail(s) \in Seq(Packets) /\ Head(s) \in Packets
  <2>1. s \in Seq(Packets) /\ s # <<>>
    BY Pair DEF TypeOK
  <2> HIDE DEF s
  <2>2. QED BY <2>1
<1>2. QED BY <1>1 DEF TypeOK, Consumes, Arrived

LEMMA SendsInitType ==
  ASSUME TypeOK, NEW e \in Ends, SendsInit(e)
  PROVE  /\ wire' \in [Ends -> Seq(Packets)] /\ sent' \in [Ends -> Nat] /\ inits' \in [Ends -> Nat]
<1>1. inits[e] + 1 \in Nat
  BY DEF TypeOK
<1>2. Packet(e, "init", inits[e] + 1, FALSE) \in Packets
  BY <1>1, PacketType DEF PacketTypes
<1>3. QED BY <1>1, <1>2, SentType DEF SendsInit, TypeOK

LEMMA TypeStep == TypeOK /\ [Next]_vars => TypeOK'
<1> SUFFICES ASSUME TypeOK, [Next]_vars PROVE TypeOK'
  OBVIOUS
<1>1. ASSUME NEW e \in Ends, ReadLoop(e) PROVE TypeOK'
  <2>1. CASE RequestKeyChange(e)
    <3>1. /\ wire' \in [Ends -> Seq(Packets)] /\ sent' \in [Ends -> Nat] /\ inits' \in [Ends -> Nat]
      BY <2>1, SendsInitType DEF RequestKeyChange, TypeOK
    <3>2. QED BY <2>1, <3>1 DEF RequestKeyChange, Goes, TypeOK, writing
  <2>2. CASE Recv(e)
    <3>1. wire' \in [Ends -> Seq(Packets)] /\ Arrived(e) \in Packets
      BY <2>2, ConsumedType DEF Recv, Arrives
    <3>2. Arrived(e).n \in Nat
      BY <3>1 DEF Packets
    <3>3. got' \in [Ends -> Nat]
      <4>1. got' = got \/ got' = [got EXCEPT ![e] = Arrived(e).n]
        BY <2>2 DEF Recv
      <4>2. QED BY <3>2, <4>1 DEF TypeOK
    <3>6. hold' \in [Ends -> Packets]
      <4>1. hold' = hold \/ hold' = [hold EXCEPT ![e] = Arrived(e)]
        BY <2>2 DEF Recv
      <4>2. QED BY <3>1, <4>1 DEF TypeOK
    <3>4. rp' = [rp EXCEPT ![e] = "kex"] \/ rp' = [rp EXCEPT ![e] = "push"]
            \/ rp' = [rp EXCEPT ![e] = "dead"]
      BY <2>2 DEF Recv, Goes
    <3>5. since' = [since EXCEPT ![e] = @ + 1]
      BY <2>2 DEF Recv
    <3>7. UNCHANGED <<readKey, pending, session, exchange, writing, incoming, up, seen>>
      BY <2>2 DEF Recv
    <3>8. since' \in [Ends -> Nat]
      BY <3>5 DEF TypeOK
    <3>9. rp' \in [Ends -> {"request", "recv", "push", "kex", "dhwrite", "dhread",
                            "nkwrite", "nkread", "done", "fail", "dead"}]
      BY <3>4 DEF TypeOK
    <3>10. QED BY <3>1, <3>3, <3>6, <3>7, <3>8, <3>9 DEF TypeOK, exchange, writing
  <2>3. CASE RecvFails(e) \/ KexReadFails(e)
    BY <2>3 DEF RecvFails, KexReadFails, Goes, TypeOK, exchange, writing, shared
  <2>4. CASE Push(e)
    <3>1. Append(incoming[e], hold[e]) \in Seq(Packets)
      BY DEF TypeOK
    <3>2. QED BY <2>4, <3>1 DEF Push, Goes, TypeOK, exchange, writing
  <2>5. CASE Kex(e)
    <3>1. /\ wire' \in [Ends -> Seq(Packets)] /\ sent' \in [Ends -> Nat] /\ inits' \in [Ends -> Nat]
      BY <2>5, SendsInitType DEF Kex, TypeOK
    <3>2. QED BY <2>5, <3>1 DEF Kex, Goes, TypeOK, writing
  <2>6. CASE DHWrite(e)
    <3>1. wire' \in [Ends -> Seq(Packets)]
      BY <2>6, DHType, SentType DEF DHWrite, TypeOK
    <3>2. QED BY <2>6, <3>1 DEF DHWrite, Goes, TypeOK, exchange, writing
  <2>7. CASE DHRead(e)
    <3>1. wire' \in [Ends -> Seq(Packets)]
      BY <2>7, ConsumedType DEF DHRead, Arrives
    <3>2. QED BY <2>7, <3>1 DEF DHRead, Goes, TypeOK, exchange, writing
  <2>8. CASE NewKeysWrite(e)
    <3>1. wire' \in [Ends -> Seq(Packets)]
      BY <2>8, PacketType, SentType DEF NewKeysWrite, PacketTypes, TypeOK
    <3>2. pending' \in [Ends -> ExchangeKeys] /\ session' \in [Ends -> ExchangeKeys]
      BY <2>8, AgreedType DEF NewKeysWrite, TypeOK
    <3>5. writeKey' \in [Ends -> ExchangeKeys] /\ under' \in [Ends -> Nat]
      <4>1. \/ writeKey' = [writeKey EXCEPT ![e] = Agreed(e)] /\ under' = [under EXCEPT ![e] = 0]
            \/ writeKey' = writeKey /\ under' = under
        BY <2>8 DEF NewKeysWrite
      <4>2. writeKey \in [Ends -> ExchangeKeys] /\ under \in [Ends -> Nat]
        BY DEF TypeOK
      <4>3. QED BY <4>1, <4>2, AgreedType
    <3>3. \E pc \in {"nkread", "fail"} : Goes(e, pc)
      BY <2>8 DEF NewKeysWrite
    <3>4. QED BY <2>8, <3>1, <3>2, <3>3, <3>5 DEF NewKeysWrite, Goes, TypeOK, writing
  <2>9. CASE NewKeysRead(e)
    <3>1. wire' \in [Ends -> Seq(Packets)]
      BY <2>9, ConsumedType DEF NewKeysRead, Arrives
    <3>2. NoKey \in ExchangeKeys
      BY DEF NoKey, ExchangeKeys
    <3>3. /\ pending' \in [Ends -> ExchangeKeys] /\ readKey' \in [Ends -> ExchangeKeys]
      <4>1. \/ /\ readKey' = [readKey EXCEPT ![e] = pending[e]]
               /\ pending' = [pending EXCEPT ![e] = NoKey]
            \/ readKey' = readKey /\ pending' = pending
        BY <2>9 DEF NewKeysRead
      <4>2. pending \in [Ends -> ExchangeKeys] /\ readKey \in [Ends -> ExchangeKeys]
        BY DEF TypeOK
      <4>3. QED BY <3>2, <4>1, <4>2
    <3>4. \E pc \in {"done", "fail"} : Goes(e, pc)
      BY <2>9 DEF NewKeysRead
    <3>5. QED BY <2>9, <3>1, <3>3, <3>4 DEF NewKeysRead, Goes, TypeOK, exchange, writing
  <2>10. CASE Done(e)
    <3>1. Packet(e, "newkeys", 0, FALSE) \in Packets
      BY PacketType DEF PacketTypes
    <3>2. QED BY <2>10, <3>1 DEF Done, Unblocks, Goes, TypeOK, writing, shared
  <2>11. CASE Fail(e)
    BY <2>11 DEF Fail, Unblocks, Goes, TypeOK, writing
  <2>12. QED BY <1>1, <2>1, <2>2, <2>3, <2>4, <2>5, <2>6, <2>7, <2>8, <2>9, <2>10, <2>11
             DEF ReadLoop
<1>2. ASSUME NEW e \in Ends, Mux(e) \/ Begin(e) PROVE TypeOK'
  <2>1. CASE Take(e)
    <3>1. Tail(incoming[e]) \in Seq(Packets) /\ Head(incoming[e]) \in Packets
      BY <2>1 DEF Take, TypeOK
    <3>2. Head(incoming[e]).n \in Nat
      BY <3>1 DEF Packets
    <3>3. QED BY <2>1, <3>1, <3>2 DEF Take, TypeOK, Procs, reading, exchange
  <2>2. CASE MuxEnds(e)
    <3>1. wp' \in [Ends -> [Procs -> {"first", "take", "idle", "lock", "wait", "done", "never"}]]
      BY <2>2 DEF MuxEnds, TypeOK, Procs
    <3>2. QED BY <2>2, <3>1 DEF MuxEnds, TypeOK, reading, exchange
  <2>3. CASE Begin(e)
    <3>1. wp' \in [Ends -> [Procs -> {"first", "take", "idle", "lock", "wait", "done", "never"}]]
      BY <2>3 DEF Begin, TypeOK
    <3>2. asking' \in [Ends -> [Procs -> BOOLEAN]]
      <4>1. asking' = [asking EXCEPT ![e]["user"] = e \in Askers]
        BY <2>3 DEF Begin
      <4>2. asking \in [Ends -> [Procs -> BOOLEAN]] /\ (e \in Askers) \in BOOLEAN
        BY DEF TypeOK
      <4>3. QED BY <4>1, <4>2
    <3>3. made' \in [Ends -> Nat]
      BY <2>3 DEF Begin, TypeOK
    <3>4. UNCHANGED <<data, leaked, reading, exchange, shared>>
      BY <2>3 DEF Begin
    <3>5. QED BY <3>1, <3>2, <3>3, <3>4 DEF TypeOK, reading, exchange, shared
  <2>4. QED BY <1>2, <2>1, <2>2, <2>3 DEF Mux
<1>3. ASSUME NEW e \in Ends, NEW p \in Procs, WritePacket(e, p) PROVE TypeOK'
  <2>1. CASE Blocks(e, p)
    <3>1. /\ wire' \in [Ends -> Seq(Packets)] /\ sent' \in [Ends -> Nat] /\ inits' \in [Ends -> Nat]
      BY <2>1, SendsInitType DEF Blocks, TypeOK
    <3>2. QED BY <2>1, <3>1 DEF Blocks, TypeOK, reading
  <2>2. CASE Write(e, p)
    <3>1. data[e] + 1 \in Nat /\ asking[e][p] \in BOOLEAN
      BY DEF TypeOK
    <3>2. Packet(e, "data", data[e] + 1, asking[e][p]) \in Packets
      BY <3>1, PacketType DEF PacketTypes
    <3>3. wire' \in [Ends -> Seq(Packets)]
      BY <2>2, <3>2, SentType DEF Write
    <3>4. wp' \in [Ends -> [Procs -> {"first", "take", "idle", "lock", "wait", "done", "never"}]]
      BY <2>2 DEF Write, TypeOK
    <3>5. /\ written' = [written EXCEPT ![e] = @ + 1]
          /\ under' = [under EXCEPT ![e] = @ + 1]
          /\ data' = [data EXCEPT ![e] = @ + 1]
          /\ UNCHANGED <<asking, made, leaked, reading, sent, inits, failed, writeKey,
                          incoming, up, seen>>
      BY <2>2 DEF Write
    <3>6. written' \in [Ends -> Nat] /\ under' \in [Ends -> Nat] /\ data' \in [Ends -> Nat]
      <4>1. written \in [Ends -> Nat] /\ under \in [Ends -> Nat] /\ data \in [Ends -> Nat]
        BY DEF TypeOK
      <4>2. QED BY <3>5, <4>1
    <3>7. QED BY <3>3, <3>4, <3>5, <3>6 DEF TypeOK, reading
  <2>3. CASE WriteFails(e, p)
    <3>1. wp' \in [Ends -> [Procs -> {"first", "take", "idle", "lock", "wait", "done", "never"}]]
      BY <2>3 DEF WriteFails, TypeOK
    <3>2. leaked' \in [Ends -> BOOLEAN]
      <4>1. leaked' = [leaked EXCEPT ![e] = failed[e]]
        BY <2>3 DEF WriteFails
      <4>2. leaked \in [Ends -> BOOLEAN] /\ failed[e] \in BOOLEAN
        BY DEF TypeOK
      <4>3. QED BY <4>1, <4>2
    <3>3. written' \in [Ends -> Nat] /\ up' \subseteq Ends
      BY <2>3 DEF WriteFails, TypeOK
    <3>4. UNCHANGED <<asking, made, data, reading, sent, inits, failed, writeKey, under,
                      incoming, wire, seen>>
      BY <2>3 DEF WriteFails
    <3>5. QED BY <3>1, <3>2, <3>3, <3>4 DEF TypeOK, reading
  <2>4. QED BY <1>3, <2>1, <2>2, <2>3 DEF WritePacket
<1>4. CASE Lose
  BY <1>4 DEF Lose, TypeOK, reading, exchange, writing
<1>5. CASE UNCHANGED vars
  BY <1>5 DEF vars, TypeOK, reading, exchange, writing, shared
<1>6. QED BY <1>1, <1>2, <1>3, <1>4, <1>5 DEF Next

\* A step of one end is none of the other.
LEMMA Apart ==
  ASSUME TypeOK, NEW e \in Ends,
         ReadLoop(e) \/ Mux(e) \/ Begin(e) \/ \E p \in Procs : WritePacket(e, p)
  PROVE  Untouched(Other(e))
<1>1. Other(e) \in Ends /\ Other(e) # e
  BY Pair
<1>2. CASE RequestKeyChange(e) \/ Kex(e)
  BY <1>1, <1>2 DEF RequestKeyChange, Kex, SendsInit, Goes, Untouched, TypeOK, writing
<1>3. CASE Recv(e) \/ DHWrite(e) \/ DHRead(e)
  BY <1>1, <1>3 DEF Recv, DHWrite, DHRead, Goes, Untouched, TypeOK, exchange, writing
<1>4. CASE RecvFails(e) \/ KexReadFails(e) \/ Push(e)
  BY <1>1, <1>4 DEF RecvFails, KexReadFails, Push, Goes, Untouched, TypeOK, exchange, writing,
     shared
<1>5. CASE NewKeysWrite(e) \/ NewKeysRead(e)
  BY <1>1, <1>5 DEF NewKeysWrite, NewKeysRead, Goes, Untouched, TypeOK, exchange, writing
<1>6. CASE Done(e)
  BY <1>1, <1>6 DEF Done, Unblocks, Goes, Untouched, TypeOK, writing, shared
<1>7. CASE Fail(e)
  <2>1. failed'[Other(e)] = failed[Other(e)]
    BY <1>1, <1>7 DEF Fail, TypeOK
  <2>2. QED BY <1>1, <1>7, <2>1 DEF Fail, Unblocks, Goes, Untouched, TypeOK, writing
<1>8. CASE Mux(e) \/ Begin(e)
  BY <1>1, <1>8 DEF Mux, Take, MuxEnds, Begin, Untouched, TypeOK, reading, exchange, shared
<1>9. ASSUME NEW p \in Procs, WritePacket(e, p) PROVE Untouched(Other(e))
  <2>1. CASE Blocks(e, p)
    BY <1>1, <2>1 DEF Blocks, SendsInit, Untouched, TypeOK, reading
  <2>2. CASE Write(e, p)
    BY <1>1, <2>2 DEF Write, Untouched, TypeOK, reading
  <2>3. CASE WriteFails(e, p)
    BY <1>1, <2>3 DEF WriteFails, Untouched, TypeOK, reading
  <2>4. QED BY <1>9, <2>1, <2>2, <2>3 DEF WritePacket
<1>10. QED BY <1>2, <1>3, <1>4, <1>5, <1>6, <1>7, <1>8, <1>9 DEF ReadLoop


-----------------------------------------------------------------------------
\* What the steps of an end keep.
Holds(e) == Stream(e) /\ Stream(Other(e)) /\ Keyed(e) /\ Served(e)

LEMMA Keys ==
  /\ \A n \in Nat : Key(n) \in ExchangeKeys /\ Number(Key(n)) = n
  /\ \A k \in ExchangeKeys : Number(k) \in Nat
  /\ NoKey = Key(0)
BY DEF Key, Number, ExchangeKeys, NoKey

\* The variables at one end are of their types.
LEMMA At ==
  ASSUME TypeOK, NEW e \in Ends
  PROVE  /\ rp[e] \in {"request", "recv", "push", "kex", "dhwrite", "dhread",
                       "nkwrite", "nkread", "done", "fail", "dead"}
         /\ got[e] \in Nat /\ sent[e] \in Nat /\ inits[e] \in Nat
         /\ written[e] \in Nat /\ under[e] \in Nat /\ failed[e] \in BOOLEAN
         /\ writeKey[e] \in ExchangeKeys /\ readKey[e] \in ExchangeKeys
         /\ Number(writeKey[e]) \in Nat /\ Number(readKey[e]) \in Nat
BY Keys DEF TypeOK

LEMMA Goes1 ==
  ASSUME TypeOK, NEW e \in Ends, NEW pc, Goes(e, pc)
  PROVE  rp'[e] = pc
BY DEF TypeOK, Goes

\* An end that is not in an exchange starts one, or joins one.
LEMMA SaysInit ==
  ASSUME IInv, NEW e \in Ends, SendsInit(e), sent[e] = 0, e \in up, Untouched(Other(e)),
         writeKey'[e] = writeKey[e],
         \/ rp'[e] \in {"request", "recv", "push", "kex", "dhwrite", "dead"}
         \/ rp'[e] = "dhread" /\ e = "server"
  PROVE  /\ Stream(e)' /\ wire'[Other(e)] = wire[Other(e)]
         /\ sent'[e] = Number(writeKey[e]) + 1 /\ inits'[e] = sent'[e]
<1>1. TypeOK /\ Stream(e) /\ Keyed(e)
  BY DEF IInv
<1>2. /\ inits[e] \in Nat /\ Number(writeKey[e]) \in Nat /\ rp[e] # "fail" /\ Writes(e)
      /\ inits[e] = Number(writeKey[e]) /\ writeKey[e] = Key(Number(writeKey[e]))
  BY <1>1, At DEF Keyed, Writes
<1>3. sent'[e] = inits[e] + 1 /\ inits'[e] = inits[e] + 1
  BY <1>1 DEF SendsInit, TypeOK
<1>4. PICK p : p = Packet(e, "init", inits[e] + 1, FALSE)
  OBVIOUS
<1>5. /\ p \in Packets /\ p.t = "init" /\ p.n = inits[e] + 1 /\ p.key = writeKey[e]
  <2>1. inits[e] + 1 \in Nat
    BY <1>2
  <2>2. p \in Packets
    BY <1>1, <1>4, <2>1, PacketType DEF PacketTypes
  <2>3. p.t = "init" /\ p.n = inits[e] + 1 /\ p.key = writeKey[e]
    BY <1>4 DEF Packet
  <2>4. QED BY <2>2, <2>3
<1>6. Sends(e, p)
  BY <1>4 DEF SendsInit
<1>7. Right(p)
  BY <1>2, <1>5 DEF Right
<1>8. Before(p) = Out(e) /\ After(p) = Out(e)'
  <2>1. Before(p) = <<writeKey[e], 0>> /\ After(p) = <<writeKey[e], 1>>
    BY <1>5 DEF Before, After
  <2>2. Out(e) = <<writeKey[e], 0>>
    BY DEF Out
  <2>3. Out(e)' = <<writeKey[e], 1>>
    BY <1>2, <1>3 DEF Out
  <2>4. QED BY <2>1, <2>2, <2>3
<1>9. QED BY <1>1, <1>2, <1>3, <1>5, <1>6, <1>7, <1>8, Says

LEMMA RequestKeyChangeHolds ==
  ASSUME IInv, NEW e \in Ends, RequestKeyChange(e), Untouched(Other(e))
  PROVE  Holds(e)'
<1>1. /\ TypeOK /\ Stream(e) /\ Stream(Other(e)) /\ Keyed(e) /\ Served(e)
  BY Pair DEF IInv
<1>2. /\ rp[e] = "request"
      /\ got'[e] = got[e] /\ readKey'[e] = readKey[e] /\ pending'[e] = pending[e]
      /\ session'[e] = session[e] /\ written'[e] = written[e] /\ failed'[e] = failed[e]
      /\ writeKey'[e] = writeKey[e] /\ under'[e] = under[e] /\ wp'[e] = wp[e] /\ up' = up
  BY DEF RequestKeyChange, writing
<1>3. CASE sent[e] = 0 /\ e \in up /\ SendsInit(e) /\ Goes(e, "recv")
  <2>1. rp'[e] = "recv"
    BY <1>1, <1>3, Goes1
  <2>2. /\ Stream(e)' /\ wire'[Other(e)] = wire[Other(e)]
        /\ sent'[e] = Number(writeKey[e]) + 1 /\ inits'[e] = sent'[e]
    BY <1>2, <1>3, <2>1, SaysInit
  <2>3. Stream(Other(e))'
    <3>1. In(e)' = In(e)
      BY <1>2, <2>1 DEF In
    <3>2. Reads(e)
      BY <1>2 DEF Reads
    <3>3. QED BY <1>1, <2>2, <3>1, <3>2, Deaf
  <2>4. Number(writeKey[e]) \in Nat
    BY <1>1, At
  <2>5. Keyed(e)'
    BY <1>1, <1>2, <1>3, <2>1, <2>2, <2>4 DEF Keyed, Reads, Writes
  <2>6. Served(e)'
    BY <1>1, <1>2, <1>3, <2>1, <2>2, <2>4 DEF Served, Writes, Waits
  <2>7. QED BY <2>2, <2>3, <2>5, <2>6 DEF Holds
<1>4. CASE ~(sent[e] = 0 /\ e \in up /\ SendsInit(e) /\ Goes(e, "recv"))
  <2>1. /\ sent'[e] = sent[e] /\ inits'[e] = inits[e] /\ wire' = wire
        /\ rp'[e] = "recv" \/ (rp'[e] = "dead" /\ e \notin up)
    BY <1>1, <1>4, Goes1 DEF RequestKeyChange
  <2>2. /\ Writes(e)' => Writes(e) /\ Out(e)' = Out(e)
        /\ Reads(e)' => Reads(e) /\ In(e)' = In(e)
    BY <1>2, <2>1 DEF Writes, Reads, Out, In
  <2>3. Stream(e)' /\ Stream(Other(e))'
    BY <1>1, <2>1, <2>2, Silent, Deaf
  <2>4. Keyed(e)'
    BY <1>1, <1>2, <2>1 DEF Keyed, Reads, Writes
  <2>5. Served(e)'
    BY <1>1, <1>2, <2>1 DEF Served, Writes, Waits
  <2>6. QED BY <2>3, <2>4, <2>5 DEF Holds
<1>5. QED BY <1>3, <1>4

LEMMA RecvHolds ==
  ASSUME IInv, NEW e \in Ends, Recv(e), Untouched(Other(e))
  PROVE  Holds(e)'
<1>1. /\ TypeOK /\ Stream(e) /\ Stream(Other(e)) /\ Keyed(e) /\ Served(e)
  BY Pair DEF IInv
<1>2. /\ rp[e] = "recv"
      /\ readKey'[e] = readKey[e] /\ pending'[e] = pending[e]
      /\ session'[e] = session[e] /\ written'[e] = written[e] /\ failed'[e] = failed[e]
      /\ sent'[e] = sent[e] /\ inits'[e] = inits[e]
      /\ writeKey'[e] = writeKey[e] /\ under'[e] = under[e] /\ wp'[e] = wp[e] /\ up' = up
  BY DEF Recv, exchange, writing
<1>3. PICK p : p = Arrived(e)
  OBVIOUS
<1>4. Reads(e) /\ wire[Other(e)] # <<>> /\ Consumes(e) /\ In(e) = <<readKey[e], 0>>
  BY <1>2 DEF Reads, Recv, Arrives, In
<1>5. p \in Packets /\ Right(p) /\ Before(p) = <<readKey[e], 0>>
  BY <1>1, <1>3, <1>4, Heard
<1>6. /\ p.t \in {"init", "data"} /\ p.key = readKey[e]
      /\ p.t = "init" => p.n = Number(readKey[e]) + 1 /\ After(p) = <<readKey[e], 1>>
      /\ p.t = "data" => After(p) = <<readKey[e], 0>>
  BY <1>5 DEF Right, Before, After, Packets, PacketTypes
<1>7. \/ p.t = "init" /\ got'[e] = p.n /\ rp'[e] = "kex"
      \/ p.t = "data" /\ got'[e] = got[e] /\ rp'[e] = "push"
      \/ got'[e] = got[e] /\ rp'[e] = "dead"
  <2>1. \/ p.t = "init" /\ got' = [got EXCEPT ![e] = p.n] /\ Goes(e, "kex")
        \/ p.t = "data" /\ got' = got /\ Goes(e, "push")
        \/ got' = got /\ Goes(e, "dead")
    BY <1>3, <1>6 DEF Recv
  <2>2. got \in [Ends -> Nat]
    BY <1>1 DEF TypeOK
  <2>3. QED BY <1>1, <2>1, <2>2, Goes1
<1>8. Stream(Other(e))' /\ wire'[e] = wire[e]
  <2>1. Reads(e)' => In(e)' = After(Arrived(e))
    BY <1>2, <1>3, <1>6, <1>7 DEF Reads, In
  <2>2. QED BY <1>1, <1>4, <2>1, Hears
<1>9. Stream(e)'
  <2>1. Writes(e)' => Writes(e) /\ Out(e)' = Out(e)
    BY <1>2, <1>7 DEF Writes, Out
  <2>2. QED BY <1>1, <1>8, <2>1, Silent
<1>10. Keyed(e)'
  BY <1>1, <1>2, <1>6, <1>7 DEF Keyed, Reads, Writes
<1>11. Served(e)'
  BY <1>1, <1>2, <1>7 DEF Served, Writes, Waits
<1>12. QED BY <1>8, <1>9, <1>10, <1>11 DEF Holds

LEMMA ReadFailsHolds ==
  ASSUME IInv, NEW e \in Ends, RecvFails(e) \/ KexReadFails(e), Untouched(Other(e))
  PROVE  Holds(e)'
<1>1. /\ TypeOK /\ Stream(e) /\ Stream(Other(e)) /\ Keyed(e) /\ Served(e)
  BY Pair DEF IInv
<1>2. /\ got'[e] = got[e] /\ readKey'[e] = readKey[e] /\ pending'[e] = pending[e]
      /\ session'[e] = session[e] /\ written'[e] = written[e] /\ failed'[e] = failed[e]
      /\ sent'[e] = sent[e] /\ inits'[e] = inits[e] /\ wire' = wire
      /\ writeKey'[e] = writeKey[e] /\ under'[e] = under[e] /\ wp'[e] = wp[e] /\ up' = up
  BY DEF RecvFails, KexReadFails, exchange, writing, shared
<1>3. \/ rp[e] = "recv" /\ rp'[e] = "dead"
      \/ rp[e] \in {"dhread", "nkread"} /\ rp'[e] = "fail"
  BY <1>1, Goes1 DEF RecvFails, KexReadFails
<1>4. Stream(e)' /\ Stream(Other(e))'
  <2>1. /\ Writes(e)' => Writes(e) /\ Out(e)' = Out(e)
        /\ ~Reads(e)'
    BY <1>2, <1>3 DEF Writes, Reads, Out
  <2>2. QED BY <1>1, <1>2, <2>1, Silent, Deaf
<1>5. Keyed(e)'
  BY <1>1, <1>2, <1>3 DEF Keyed, Reads, Writes
<1>6. Served(e)'
  BY <1>1, <1>2, <1>3 DEF Served, Writes, Waits
<1>7. QED BY <1>4, <1>5, <1>6 DEF Holds

LEMMA PushHolds ==
  ASSUME IInv, NEW e \in Ends, Push(e), Untouched(Other(e))
  PROVE  Holds(e)'
<1>1. /\ TypeOK /\ Stream(e) /\ Stream(Other(e)) /\ Keyed(e) /\ Served(e)
  BY Pair DEF IInv
<1>2. /\ got'[e] = got[e] /\ readKey'[e] = readKey[e] /\ pending'[e] = pending[e]
      /\ session'[e] = session[e] /\ written'[e] = written[e] /\ failed'[e] = failed[e]
      /\ sent'[e] = sent[e] /\ inits'[e] = inits[e] /\ wire' = wire
      /\ writeKey'[e] = writeKey[e] /\ under'[e] = under[e] /\ wp'[e] = wp[e] /\ up' = up
  BY DEF Push, exchange, writing
<1>3. rp[e] = "push" /\ rp'[e] \in {"request", "recv"}
  BY <1>1, Goes1 DEF Push
<1>4. Stream(e)' /\ Stream(Other(e))'
  <2>1. /\ Writes(e)' => Writes(e) /\ Out(e)' = Out(e)
        /\ Reads(e) /\ In(e)' = In(e)
    BY <1>2, <1>3 DEF Writes, Reads, Out, In
  <2>2. QED BY <1>1, <1>2, <2>1, Silent, Deaf
<1>5. Keyed(e)'
  BY <1>1, <1>2, <1>3 DEF Keyed, Reads, Writes
<1>6. Served(e)'
  BY <1>1, <1>2, <1>3 DEF Served, Writes, Waits
<1>7. QED BY <1>4, <1>5, <1>6 DEF Holds

LEMMA KexHolds ==
  ASSUME IInv, NEW e \in Ends, Kex(e), Untouched(Other(e))
  PROVE  Holds(e)'
<1>1. /\ TypeOK /\ Stream(e) /\ Stream(Other(e)) /\ Keyed(e) /\ Served(e)
  BY Pair DEF IInv
<1>2. /\ rp[e] = "kex"
      /\ got'[e] = got[e] /\ readKey'[e] = readKey[e] /\ pending'[e] = pending[e]
      /\ session'[e] = session[e] /\ written'[e] = written[e] /\ failed'[e] = failed[e]
      /\ writeKey'[e] = writeKey[e] /\ under'[e] = under[e] /\ wp'[e] = wp[e] /\ up' = up
  BY DEF Kex, writing
<1>3. \/ /\ sent[e] = 0 /\ e \in up /\ SendsInit(e)
         /\ rp'[e] = (IF e = "client" THEN "dhwrite" ELSE "dhread")
      \/ /\ sent[e] # 0 /\ sent' = sent /\ inits' = inits /\ wire' = wire
         /\ rp'[e] = (IF e = "client" THEN "dhwrite" ELSE "dhread")
      \/ /\ sent[e] = 0 /\ e \notin up /\ sent' = sent /\ inits' = inits /\ wire' = wire
         /\ rp'[e] = "fail"
  BY <1>1, Goes1 DEF Kex
<1>4. Number(writeKey[e]) \in Nat /\ (e = "client" \/ e = "server")
  BY <1>1, At DEF Ends
<1>5. /\ Reads(e)' => Reads(e) /\ In(e)' = In(e)
      /\ sent[e] # 0 => (Writes(e)' => Writes(e) /\ Out(e)' = Out(e))
  BY <1>2, <1>3, <1>4 DEF Reads, In, Writes, Out
<1>6. /\ Stream(e)' /\ wire'[Other(e)] = wire[Other(e)]
      /\ \/ /\ sent'[e] = Number(writeKey[e]) + 1 /\ inits'[e] = sent'[e]
            /\ rp'[e] = (IF e = "client" THEN "dhwrite" ELSE "dhread")
         \/ /\ sent[e] # 0 /\ sent'[e] = sent[e] /\ inits'[e] = inits[e]
            /\ rp'[e] = (IF e = "client" THEN "dhwrite" ELSE "dhread")
         \/ /\ e \notin up /\ sent'[e] = sent[e] /\ inits'[e] = inits[e] /\ rp'[e] = "fail"
  <2>1. CASE sent[e] = 0 /\ e \in up
    <3>1. /\ SendsInit(e)
          /\ rp'[e] = (IF e = "client" THEN "dhwrite" ELSE "dhread")
      BY <1>3, <2>1
    <3>2. /\ Stream(e)' /\ wire'[Other(e)] = wire[Other(e)]
          /\ sent'[e] = Number(writeKey[e]) + 1 /\ inits'[e] = sent'[e]
      BY <1>2, <1>4, <2>1, <3>1, SaysInit
    <3>3. QED BY <3>1, <3>2
  <2>2. CASE sent[e] # 0
    <3>1. Stream(e)'
      BY <1>1, <1>3, <1>5, <2>2, Silent
    <3>2. QED BY <1>3, <2>2, <3>1
  <2>3. CASE sent[e] = 0 /\ e \notin up
    <3>1. ~Writes(e)' /\ wire' = wire /\ rp'[e] = "fail" /\ sent' = sent /\ inits' = inits
      BY <1>2, <1>3, <2>3 DEF Writes
    <3>2. Stream(e)'
      BY <1>1, <3>1, Silent
    <3>3. QED BY <2>3, <3>1, <3>2
  <2>4. QED BY <2>1, <2>2, <2>3
<1>7. Stream(Other(e))'
  BY <1>1, <1>5, <1>6, Deaf
<1>8. Keyed(e)'
  BY <1>1, <1>2, <1>4, <1>6 DEF Keyed, Reads, Writes
<1>9. Served(e)'
  BY <1>1, <1>2, <1>4, <1>6 DEF Served, Writes, Waits
<1>10. QED BY <1>6, <1>7, <1>8, <1>9 DEF Holds

LEMMA DHWriteHolds ==
  ASSUME IInv, NEW e \in Ends, DHWrite(e), Untouched(Other(e))
  PROVE  Holds(e)'
<1>1. /\ TypeOK /\ Stream(e) /\ Stream(Other(e)) /\ Keyed(e) /\ Served(e)
  BY Pair DEF IInv
<1>2. /\ rp[e] = "dhwrite"
      /\ got'[e] = got[e] /\ readKey'[e] = readKey[e] /\ pending'[e] = pending[e]
      /\ session'[e] = session[e] /\ written'[e] = written[e] /\ failed'[e] = failed[e]
      /\ sent'[e] = sent[e] /\ inits'[e] = inits[e]
      /\ writeKey'[e] = writeKey[e] /\ under'[e] = under[e] /\ wp'[e] = wp[e] /\ up' = up
  BY DEF DHWrite, exchange, writing
<1>3. \/ /\ e \in up /\ Sends(e, DH(e)) /\ rp'[e] = (IF e = "client" THEN "dhread" ELSE "nkwrite")
      \/ /\ e \notin up /\ wire' = wire
         /\ rp'[e] = "fail" \/ (e = "server" /\ rp'[e] = "nkwrite")
  BY <1>1, Goes1 DEF DHWrite
<1>4. Reads(e) /\ (Reads(e)' => In(e)' = In(e))
  BY <1>2, <1>3 DEF Reads, In, Ends
<1>5. Stream(e)' /\ wire'[Other(e)] = wire[Other(e)]
  <2>1. CASE e \in up
    <3>1. PICK p : p = DH(e)
      OBVIOUS
    <3>2. p \in Packets /\ p.t = "dh" /\ p.key = writeKey[e] /\ p.signed = Agreed(e)
      BY <1>1, <3>1, DHType
    <3>3. Sends(e, p) /\ Writes(e)
      BY <1>2, <1>3, <2>1, <3>1 DEF Writes
    <3>4. Right(p)
      <4>1. /\ writeKey[e] = Key(Number(writeKey[e])) /\ writeKey[e] = readKey[e]
            /\ sent[e] = Number(writeKey[e]) + 1 /\ got[e] = Number(writeKey[e]) + 1
        BY <1>1, <1>2, <1>4, At DEF Keyed
      <4>2. Agreed(e) = Key(Number(writeKey[e]) + 1)
        BY <4>1 DEF Agreed, Key
      <4>3. QED BY <3>2, <4>1, <4>2 DEF Right
    <3>5. Before(p) = Out(e) /\ After(p) = Out(e)'
      <4>1. Before(p) = <<writeKey[e], 1>> /\ After(p) = <<writeKey[e], 2>>
        BY <3>2 DEF Before, After
      <4>2. sent[e] # 0
        BY <1>1, <1>2 DEF Keyed
      <4>3. Out(e) = <<writeKey[e], 1>> /\ Out(e)' = <<writeKey[e], 2>>
        BY <1>2, <1>3, <2>1, <4>2 DEF Out
      <4>4. QED BY <4>1, <4>3
    <3>6. QED BY <1>1, <3>2, <3>3, <3>4, <3>5, Says
  <2>2. CASE e \notin up
    <3>1. ~Writes(e)' /\ wire' = wire
      BY <1>2, <1>3, <2>2 DEF Writes
    <3>2. QED BY <1>1, <3>1, Silent
  <2>3. QED BY <2>1, <2>2
<1>6. Stream(Other(e))'
  BY <1>1, <1>4, <1>5, Deaf
<1>7. Keyed(e)'
  BY <1>1, <1>2, <1>3 DEF Keyed, Reads, Writes
<1>8. Served(e)'
  BY <1>1, <1>2, <1>3 DEF Served, Writes, Waits
<1>9. QED BY <1>5, <1>6, <1>7, <1>8 DEF Holds

LEMMA DHReadHolds ==
  ASSUME IInv, NEW e \in Ends, DHRead(e), Untouched(Other(e))
  PROVE  Holds(e)'
<1>1. /\ TypeOK /\ Stream(e) /\ Stream(Other(e)) /\ Keyed(e) /\ Served(e)
  BY Pair DEF IInv
<1>2. /\ rp[e] = "dhread"
      /\ got'[e] = got[e] /\ readKey'[e] = readKey[e] /\ pending'[e] = pending[e]
      /\ session'[e] = session[e] /\ written'[e] = written[e] /\ failed'[e] = failed[e]
      /\ sent'[e] = sent[e] /\ inits'[e] = inits[e]
      /\ writeKey'[e] = writeKey[e] /\ under'[e] = under[e] /\ wp'[e] = wp[e] /\ up' = up
  BY DEF DHRead, exchange, writing
<1>3. PICK p : p = Arrived(e)
  OBVIOUS
<1>4. Reads(e) /\ wire[Other(e)] # <<>> /\ Consumes(e) /\ In(e) = <<readKey[e], 1>>
  BY <1>2 DEF Reads, DHRead, Arrives, In
<1>5. p \in Packets /\ Right(p) /\ Before(p) = <<readKey[e], 1>>
  BY <1>1, <1>3, <1>4, Heard
<1>6. p.t = "dh" /\ p.key = readKey[e] /\ After(p) = <<readKey[e], 2>>
  BY <1>5 DEF Before, After, Packets, PacketTypes
<1>7. rp'[e] \in {IF e = "client" THEN "nkwrite" ELSE "dhwrite", "fail"}
  BY <1>1, Goes1 DEF DHRead
<1>8. Stream(Other(e))' /\ wire'[e] = wire[e]
  <2>1. Reads(e)' => In(e)' = After(Arrived(e))
    BY <1>2, <1>3, <1>6, <1>7 DEF Reads, In
  <2>2. QED BY <1>1, <1>4, <2>1, Hears
<1>9. Stream(e)'
  <2>1. Writes(e)' => Writes(e) /\ Out(e)' = Out(e)
    BY <1>2, <1>7 DEF Writes, Out, Ends
  <2>2. QED BY <1>1, <1>8, <2>1, Silent
<1>10. Keyed(e)'
  BY <1>1, <1>2, <1>7 DEF Keyed, Reads, Writes
<1>11. Served(e)'
  BY <1>1, <1>2, <1>7 DEF Served, Writes, Waits
<1>12. QED BY <1>8, <1>9, <1>10, <1>11 DEF Holds

LEMMA NewKeysWriteHolds ==
  ASSUME IInv, NEW e \in Ends, NewKeysWrite(e), Untouched(Other(e)), HandshakeAssumption
  PROVE  Holds(e)'
<1>1. /\ TypeOK /\ Stream(e) /\ Stream(Other(e)) /\ Keyed(e) /\ Served(e)
  BY Pair DEF IInv
<1>2. /\ rp[e] = "nkwrite"
      /\ got'[e] = got[e] /\ readKey'[e] = readKey[e]
      /\ written'[e] = written[e] /\ failed'[e] = failed[e]
      /\ sent'[e] = sent[e] /\ inits'[e] = inits[e] /\ wp'[e] = wp[e] /\ up' = up
  BY DEF NewKeysWrite, writing
<1>3. /\ pending'[e] = Agreed(e)
      /\ session'[e] = (IF session[e] = NoKey THEN Agreed(e) ELSE session[e])
  BY <1>1 DEF NewKeysWrite, TypeOK
<1>4. \/ /\ e \in up /\ Sends(e, Packet(e, "newkeys", 0, FALSE))
         /\ writeKey'[e] = Agreed(e) /\ under'[e] = 0 /\ rp'[e] = "nkread"
      \/ /\ e \notin up /\ wire' = wire /\ writeKey'[e] = writeKey[e] /\ under'[e] = under[e]
         /\ rp'[e] = "fail"
  <2>1. \/ /\ e \in up /\ Sends(e, Packet(e, "newkeys", 0, FALSE)) /\ Goes(e, "nkread")
           /\ writeKey' = [writeKey EXCEPT ![e] = Agreed(e)]
           /\ under' = [under EXCEPT ![e] = 0]
        \/ e \notin up /\ wire' = wire /\ writeKey' = writeKey /\ under' = under /\ Goes(e, "fail")
    BY DEF NewKeysWrite
  <2>2. writeKey \in [Ends -> ExchangeKeys] /\ under \in [Ends -> Nat]
    BY <1>1 DEF TypeOK
  <2>3. QED BY <1>1, <2>1, <2>2, Goes1
<1>5. Reads(e) /\ (Reads(e)' => In(e)' = In(e))
  BY <1>2, <1>4 DEF Reads, In
<1> DEFINE N == Number(writeKey[e])
<1>6. /\ writeKey[e] = Key(N) /\ writeKey[e] = readKey[e] /\ N \in Nat
      /\ sent[e] = N + 1 /\ inits[e] = N + 1 /\ got[e] = N + 1
  BY <1>1, <1>2, <1>5, At DEF Keyed
<1>7. Agreed(e) = Key(N + 1) /\ Number(Key(N + 1)) = N + 1 /\ Key(N + 1) # NoKey
  BY <1>6 DEF Agreed, Key, Number, NoKey
<1>8. session'[e] = Key(1)
  <2>1. session[e] = NoKey => N = 0
    BY <1>1, <1>6, Keys DEF Keyed
  <2>2. CASE session[e] = NoKey
    BY <1>3, <1>7, <2>1, <2>2
  <2>3. CASE session[e] # NoKey
    BY <1>1, <1>3, <2>3 DEF Keyed
  <2>4. QED BY <2>2, <2>3
<1>9. Stream(e)' /\ wire'[Other(e)] = wire[Other(e)]
  <2>1. CASE e \in up
    <3>1. PICK p : p = Packet(e, "newkeys", 0, FALSE)
      OBVIOUS
    <3>2. p \in Packets /\ p.t = "newkeys" /\ p.key = writeKey[e]
      <4>1. p \in Packets
        BY <1>1, <3>1, PacketType DEF PacketTypes
      <4>2. p.t = "newkeys" /\ p.key = writeKey[e]
        BY <3>1 DEF Packet
      <4>3. QED BY <4>1, <4>2
    <3>3. Sends(e, p) /\ Writes(e)
      BY <1>2, <1>4, <2>1, <3>1 DEF Writes
    <3>4. Right(p)
      BY <1>6, <3>2 DEF Right
    <3>5. Before(p) = Out(e) /\ After(p) = Out(e)'
      <4>1. Before(p) = <<writeKey[e], 2>> /\ After(p) = <<Key(N + 1), 0>>
        BY <3>2 DEF Before, After
      <4>2. sent[e] # 0
        BY <1>1, <1>2 DEF Keyed
      <4>3. Out(e) = <<writeKey[e], 2>> /\ Out(e)' = <<Key(N + 1), 0>>
        BY <1>2, <1>4, <1>7, <2>1, <4>2 DEF Out
      <4>4. QED BY <4>1, <4>3
    <3>6. QED BY <1>1, <3>2, <3>3, <3>4, <3>5, Says
  <2>2. CASE e \notin up
    <3>1. ~Writes(e)' /\ wire' = wire
      BY <1>2, <1>4, <2>2 DEF Writes
    <3>2. QED BY <1>1, <3>1, Silent
  <2>3. QED BY <2>1, <2>2
<1>10. Stream(Other(e))'
  BY <1>1, <1>5, <1>9, Deaf
<1>11. Keyed(e)'
  <2>1. Key(1) # NoKey /\ failed[e] = FALSE
    BY <1>1, <1>2, At, Keys DEF Keyed
  <2>2. readKey'[e] = Key(N) /\ Number(Key(N)) = N
    BY <1>2, <1>6, Keys
  <2>3. CASE e \in up
    <3>1. /\ rp'[e] = "nkread" /\ writeKey'[e] = Key(N + 1) /\ pending'[e] = Key(N + 1)
          /\ sent'[e] = N + 1 /\ inits'[e] = N + 1 /\ session'[e] = Key(1) /\ failed'[e] = FALSE
      BY <1>2, <1>3, <1>4, <1>6, <1>7, <1>8, <2>1, <2>3
    <3>2. QED BY <1>6, <1>7, <2>1, <2>2, <3>1 DEF Keyed, Reads, Writes
  <2>4. CASE e \notin up
    <3>1. /\ rp'[e] = "fail" /\ writeKey'[e] = Key(N) /\ session'[e] = Key(1) /\ failed'[e] = FALSE
          /\ e \notin up'
      BY <1>2, <1>4, <1>6, <1>8, <2>1, <2>4
    <3>2. QED BY <2>1, <2>2, <3>1 DEF Keyed, Reads, Writes
  <2>5. QED BY <2>3, <2>4
<1>12. Served(e)'
  <2>1. Threshold \in Nat /\ written[e] \in Nat /\ sent[e] # 0
    BY <1>1, <1>2, At DEF HandshakeAssumption, Keyed
  <2>2. CASE e \in up
    <3>1. under'[e] = 0 /\ written'[e] \in Nat /\ sent'[e] # 0
      BY <1>2, <1>4, <2>1, <2>2
    <3>2. QED BY <2>1, <3>1 DEF Served
  <2>3. CASE e \notin up
    <3>1. under'[e] = under[e] /\ e \notin up' /\ rp'[e] = "fail"
      BY <1>2, <1>4, <2>3
    <3>2. QED BY <1>1, <3>1 DEF Served, Writes
  <2>4. QED BY <2>2, <2>3
<1>13. QED BY <1>9, <1>10, <1>11, <1>12 DEF Holds

LEMMA NewKeysReadHolds ==
  ASSUME IInv, NEW e \in Ends, NewKeysRead(e), Untouched(Other(e))
  PROVE  Holds(e)'
<1>1. /\ TypeOK /\ Stream(e) /\ Stream(Other(e)) /\ Keyed(e) /\ Served(e)
  BY Pair DEF IInv
<1>2. /\ rp[e] = "nkread"
      /\ got'[e] = got[e] /\ session'[e] = session[e]
      /\ written'[e] = written[e] /\ failed'[e] = failed[e]
      /\ sent'[e] = sent[e] /\ inits'[e] = inits[e]
      /\ writeKey'[e] = writeKey[e] /\ under'[e] = under[e] /\ wp'[e] = wp[e] /\ up' = up
  BY DEF NewKeysRead, exchange, writing
<1>3. PICK p : p = Arrived(e)
  OBVIOUS
<1>4. Reads(e) /\ wire[Other(e)] # <<>> /\ Consumes(e) /\ In(e) = <<readKey[e], 2>>
  BY <1>2 DEF Reads, NewKeysRead, Arrives, In
<1>5. p \in Packets /\ Right(p) /\ Before(p) = <<readKey[e], 2>>
  BY <1>1, <1>3, <1>4, Heard
<1>6. p.t = "newkeys" /\ p.key = readKey[e] /\ After(p) = <<Key(Number(readKey[e]) + 1), 0>>
  BY <1>5 DEF Before, After, Packets, PacketTypes
<1>7. \/ /\ readKey'[e] = pending[e] /\ pending'[e] = NoKey /\ rp'[e] = "done"
      \/ /\ rp'[e] = "fail" /\ readKey'[e] = readKey[e]
  <2>1. \/ /\ readKey' = [readKey EXCEPT ![e] = pending[e]]
           /\ pending' = [pending EXCEPT ![e] = NoKey] /\ Goes(e, "done")
        \/ readKey' = readKey /\ pending' = pending /\ Goes(e, "fail")
    BY DEF NewKeysRead
  <2>2. readKey \in [Ends -> ExchangeKeys] /\ pending \in [Ends -> ExchangeKeys]
    BY <1>1 DEF TypeOK
  <2>3. QED BY <1>1, <2>1, <2>2, Goes1
<1>8. /\ writeKey[e] = Key(Number(readKey[e]) + 1) /\ pending[e] = writeKey[e]
      /\ Number(readKey[e]) \in Nat
  BY <1>1, <1>2, <1>4, At DEF Keyed
<1>9. Stream(Other(e))' /\ wire'[e] = wire[e]
  <2>1. Reads(e)' => In(e)' = After(Arrived(e))
    BY <1>2, <1>3, <1>6, <1>7, <1>8 DEF Reads, In
  <2>2. QED BY <1>1, <1>4, <2>1, Hears
<1>10. Stream(e)'
  <2>1. Writes(e)' => Writes(e) /\ Out(e)' = Out(e)
    BY <1>2, <1>7 DEF Writes, Out
  <2>2. QED BY <1>1, <1>9, <2>1, Silent
<1>11. Keyed(e)'
  BY <1>1, <1>2, <1>4, <1>7, <1>8 DEF Keyed, Reads, Writes
<1>12. Served(e)'
  BY <1>1, <1>2, <1>7 DEF Served, Writes, Waits
<1>13. QED BY <1>9, <1>10, <1>11, <1>12 DEF Holds

LEMMA DoneHolds ==
  ASSUME IInv, NEW e \in Ends, Done(e), Untouched(Other(e)), HandshakeAssumption
  PROVE  Holds(e)'
<1>1. /\ TypeOK /\ Stream(e) /\ Stream(Other(e)) /\ Keyed(e) /\ Served(e)
  BY Pair DEF IInv
<1>2. /\ rp[e] = "done"
      /\ got'[e] = got[e] /\ readKey'[e] = readKey[e] /\ pending'[e] = pending[e]
      /\ session'[e] = session[e] /\ failed'[e] = failed[e] /\ inits'[e] = inits[e] /\ wire' = wire
      /\ writeKey'[e] = writeKey[e] /\ under'[e] = under[e] /\ wp'[e] = wp[e] /\ up' = up
  BY DEF Done, writing, shared
<1>3. rp'[e] = "push" /\ sent'[e] = 0 /\ written'[e] = 0
  BY <1>1, Goes1 DEF Done, Unblocks, TypeOK
<1>4. Stream(e)' /\ Stream(Other(e))'
  <2>1. /\ Writes(e)' => Writes(e) /\ Out(e)' = Out(e)
        /\ Reads(e) /\ In(e)' = In(e)
    BY <1>2, <1>3 DEF Writes, Reads, Out, In
  <2>2. QED BY <1>1, <1>2, <2>1, Silent, Deaf
<1>5. Keyed(e)'
  BY <1>1, <1>2, <1>3 DEF Keyed, Reads, Writes
<1>6. Served(e)'
  <2>1. under[e] = 0 /\ Threshold \in Nat
    BY <1>1, <1>2 DEF Served, HandshakeAssumption
  <2>2. Waits(e, "mux") \in 0..1 /\ Waits(e, "user") \in 0..1
    BY DEF Waits
  <2>3. Waits(e, "mux")' = Waits(e, "mux") /\ Waits(e, "user")' = Waits(e, "user")
    BY <1>2 DEF Waits
  <2>4. QED BY <1>2, <1>3, <2>1, <2>2, <2>3 DEF Served
<1>7. QED BY <1>4, <1>5, <1>6 DEF Holds

LEMMA FailHolds ==
  ASSUME IInv, NEW e \in Ends, Fail(e), Untouched(Other(e))
  PROVE  Holds(e)'
<1>1. /\ TypeOK /\ Stream(e) /\ Stream(Other(e)) /\ Keyed(e) /\ Served(e)
  BY Pair DEF IInv
<1>2. /\ readKey'[e] = readKey[e] /\ session'[e] = session[e] /\ wire' = wire
      /\ writeKey'[e] = writeKey[e] /\ under'[e] = under[e] /\ up' = up \ {e}
  BY DEF Fail, writing
<1>3. rp'[e] = "dead"
  BY <1>1, Goes1 DEF Fail
<1>4. ~Writes(e)' /\ ~Reads(e)'
  BY <1>2, <1>3 DEF Writes, Reads
<1>5. Stream(e)' /\ Stream(Other(e))'
  BY <1>1, <1>2, <1>4, Silent, Deaf
<1>6. Keyed(e)'
  BY <1>1, <1>2, <1>3, <1>4 DEF Keyed
<1>7. Served(e)'
  BY <1>1, <1>2, <1>3, <1>4 DEF Served
<1>8. QED BY <1>5, <1>6, <1>7 DEF Holds

-----------------------------------------------------------------------------
\* What a step of a writer leaves to the end as it is.
Idle(e) ==
    /\ rp'[e] = rp[e] /\ got'[e] = got[e] /\ readKey'[e] = readKey[e]
    /\ pending'[e] = pending[e] /\ session'[e] = session[e]
    /\ failed'[e] = failed[e] /\ writeKey'[e] = writeKey[e]

LEMMA BlocksHolds ==
  ASSUME IInv, NEW e \in Ends, NEW p \in Procs, Blocks(e, p), Untouched(Other(e))
  PROVE  Holds(e)'
<1>1. /\ TypeOK /\ Stream(e) /\ Stream(Other(e)) /\ Keyed(e) /\ Served(e)
  BY Pair DEF IInv
<1>2. Idle(e) /\ written'[e] = written[e] /\ under'[e] = under[e] /\ up' = up
  BY DEF Blocks, Idle, reading
<1>3. \/ sent[e] = 0 /\ e \in up /\ SendsInit(e)
      \/ sent[e] # 0 /\ sent' = sent /\ inits' = inits /\ wire' = wire
  BY DEF Blocks
<1>4. In(e)' = In(e) /\ (Reads(e)' <=> Reads(e))
  BY <1>2 DEF Idle, In, Reads
<1>5. CASE sent[e] = 0 /\ e \in up /\ SendsInit(e)
  <2>1. rp[e] \in {"request", "recv", "push", "kex", "dead"}
    BY <1>1, <1>5, At DEF Keyed
  <2>2. /\ Stream(e)' /\ wire'[Other(e)] = wire[Other(e)]
        /\ sent'[e] = Number(writeKey[e]) + 1 /\ inits'[e] = sent'[e]
    BY <1>2, <1>5, <2>1, SaysInit DEF Idle
  <2>3. Stream(Other(e))'
    BY <1>1, <1>4, <2>2, Deaf
  <2>4. Number(writeKey[e]) \in Nat
    BY <1>1, At
  <2>5. Keyed(e)'
    BY <1>1, <1>2, <1>5, <2>1, <2>2, <2>4 DEF Keyed, Reads, Writes, Idle
  <2>6. Served(e)'
    BY <1>1, <1>2, <1>5, <2>1, <2>2, <2>4 DEF Served, Writes, Idle
  <2>7. QED BY <2>2, <2>3, <2>5, <2>6 DEF Holds
<1>6. CASE sent[e] # 0 /\ sent' = sent /\ inits' = inits /\ wire' = wire
  <2>1. Writes(e)' => Writes(e) /\ Out(e)' = Out(e)
    BY <1>2, <1>6 DEF Idle, Writes, Out
  <2>2. Stream(e)' /\ Stream(Other(e))'
    BY <1>1, <1>4, <1>6, <2>1, Silent, Deaf
  <2>3. Keyed(e)'
    BY <1>1, <1>2, <1>6 DEF Keyed, Reads, Writes, Idle
  <2>4. Served(e)'
    BY <1>1, <1>2, <1>6 DEF Served, Writes, Idle
  <2>5. QED BY <2>2, <2>3, <2>4 DEF Holds
<1>7. QED BY <1>3, <1>5, <1>6

LEMMA WriteHolds ==
  ASSUME IInv, NEW e \in Ends, NEW p \in Procs, Write(e, p), Untouched(Other(e)),
         HandshakeAssumption
  PROVE  Holds(e)'
<1>1. /\ TypeOK /\ Stream(e) /\ Stream(Other(e)) /\ Keyed(e) /\ Served(e)
  BY Pair DEF IInv
<1>2. /\ Idle(e) /\ up' = up /\ sent'[e] = sent[e] /\ inits'[e] = inits[e]
      /\ e \in up /\ sent[e] = 0
  BY DEF Write, Enters, Idle, reading
<1>3. /\ written'[e] = written[e] + 1 /\ under'[e] = under[e] + 1
  <2>1. written \in [Ends -> Nat] /\ under \in [Ends -> Nat]
    BY <1>1 DEF TypeOK
  <2>2. written' = [written EXCEPT ![e] = @ + 1] /\ under' = [under EXCEPT ![e] = @ + 1]
    BY DEF Write
  <2>3. QED BY <2>1, <2>2
<1>4. rp[e] \in {"request", "recv", "push", "kex", "dead"}
  BY <1>1, <1>2, At DEF Keyed
<1>5. Writes(e)
  BY <1>2, <1>4 DEF Writes
<1>6. Stream(e)' /\ wire'[Other(e)] = wire[Other(e)]
  <2>1. PICK d : d = Packet(e, "data", data[e] + 1, asking[e][p])
    OBVIOUS
  <2>2. d \in Packets /\ d.t = "data" /\ d.key = writeKey[e]
    <3>1. "data" \in PacketTypes /\ data[e] + 1 \in Nat /\ asking[e][p] \in BOOLEAN
      BY <1>1 DEF PacketTypes, TypeOK
    <3>2. QED BY <1>1, <2>1, <3>1, PacketType
  <2>3. Sends(e, d)
    BY <2>1 DEF Write
  <2>4. Right(d)
    BY <1>1, <1>5, <2>2 DEF Right, Keyed
  <2>5. Before(d) = <<writeKey[e], 0>> /\ After(d) = <<writeKey[e], 0>>
    BY <2>2 DEF Before, After
  <2>6. Out(e) = <<writeKey[e], 0>> /\ Out(e)' = <<writeKey[e], 0>>
    BY <1>2 DEF Out, Idle
  <2>7. QED BY <1>1, <1>5, <2>2, <2>3, <2>4, <2>5, <2>6, Says
<1>7. Stream(Other(e))'
  <2>1. In(e)' = In(e) /\ (Reads(e)' <=> Reads(e))
    BY <1>2 DEF Idle, In, Reads
  <2>2. QED BY <1>1, <1>6, <2>1, Deaf
<1>8. Keyed(e)'
  BY <1>1, <1>2 DEF Keyed, Reads, Writes, Idle
<1>9. Served(e)'
  <2>1. /\ Waits(e, "mux") \in 0..1 /\ Waits(e, "user") \in 0..1
        /\ under[e] \in Nat /\ written[e] \in Nat /\ Threshold \in Nat
    BY <1>1, At DEF Waits, HandshakeAssumption
  <2>2. /\ under[e] <= written[e]
        /\ under[e] + Waits(e, "mux") + Waits(e, "user") <= Threshold + 2
    BY <1>1, <1>2, <1>5 DEF Served
  <2>3. \/ wp[e][p] = "wait"
        \/ wp[e][p] = "lock" /\ written[e] <= Threshold
    <3>1. wp[e][p] = "wait" \/ (wp[e][p] = "lock" /\ (written[e] > Threshold => e \notin up))
      BY DEF Write, Enters
    <3>2. QED BY <1>2, <2>1, <3>1
  <2>4. /\ wp'[e][p] = (IF p = "mux" THEN "take" ELSE "idle")
        /\ \A q \in Procs \ {p} : wp'[e][q] = wp[e][q]
    <3>1. wp' = [wp EXCEPT ![e][p] = IF p = "mux" THEN "take" ELSE "idle"]
      BY DEF Write
    <3>2. wp \in [Ends -> [Procs -> {"first", "take", "idle", "lock", "wait", "done", "never"}]]
      BY <1>1 DEF TypeOK
    <3>3. QED BY <3>1, <3>2
  <2>5. under'[e] + Waits(e, "mux")' + Waits(e, "user")' <= Threshold + 2
    <3>1. CASE p = "mux"
      <4>1. Waits(e, "mux")' = 0 /\ Waits(e, "user")' = Waits(e, "user")
        BY <2>4, <3>1 DEF Waits, Procs
      <4>2. Waits(e, "mux") = 1 \/ under[e] <= Threshold
        BY <2>1, <2>2, <2>3, <3>1 DEF Waits
      <4>3. QED BY <1>3, <2>1, <2>2, <4>1, <4>2
    <3>2. CASE p = "user"
      <4>1. Waits(e, "user")' = 0 /\ Waits(e, "mux")' = Waits(e, "mux")
        BY <2>4, <3>2 DEF Waits, Procs
      <4>2. Waits(e, "user") = 1 \/ under[e] <= Threshold
        BY <2>1, <2>2, <2>3, <3>2 DEF Waits
      <4>3. QED BY <1>3, <2>1, <2>2, <4>1, <4>2
    <3>3. QED BY <3>1, <3>2 DEF Procs
  <2>6. Waits(e, "mux")' \in 0..1 /\ Waits(e, "user")' \in 0..1
    BY DEF Waits
  <2>7. under'[e] <= Threshold + 2
    BY <1>3, <2>1, <2>5, <2>6
  <2>8. QED BY <1>2, <1>3, <1>4, <2>1, <2>2, <2>5, <2>7 DEF Served, Idle
<1>10. QED BY <1>6, <1>7, <1>8, <1>9 DEF Holds

\* The other steps of the writers write nothing and change no key.
LEMMA OthersHold ==
  ASSUME IInv, NEW e \in Ends, Untouched(Other(e)),
         Mux(e) \/ Begin(e) \/ \E p \in Procs : WriteFails(e, p), HandshakeAssumption
  PROVE  Holds(e)'
<1>1. /\ TypeOK /\ Stream(e) /\ Stream(Other(e)) /\ Keyed(e) /\ Served(e)
  BY Pair DEF IInv
<1>2. /\ Idle(e) /\ up' \subseteq up /\ sent'[e] = sent[e] /\ inits'[e] = inits[e]
      /\ under'[e] = under[e] /\ wire' = wire
      /\ e \in up' => written'[e] = written[e]
  <2>1. CASE Mux(e) \/ Begin(e)
    BY <2>1 DEF Mux, Take, MuxEnds, Begin, Idle, reading, exchange, shared
  <2>2. ASSUME NEW p \in Procs, WriteFails(e, p)
        PROVE  /\ Idle(e) /\ up' \subseteq up /\ sent'[e] = sent[e] /\ inits'[e] = inits[e]
               /\ under'[e] = under[e] /\ wire' = wire
               /\ e \in up' => written'[e] = written[e]
    <3>1. failed[e] => e \notin up
      BY <1>1 DEF Keyed
    <3>2. e \notin up /\ up' \subseteq up
      BY <2>2, <3>1 DEF WriteFails
    <3>3. QED BY <2>2, <3>2 DEF WriteFails, Idle, reading
  <2>3. QED BY <2>1, <2>2
<1>3. e \in up' => /\ wp'[e]["mux"] = "wait" => wp[e]["mux"] = "wait"
                   /\ wp'[e]["user"] = "wait" => wp[e]["user"] = "wait"
  <2>1. wp \in [Ends -> [Procs -> {"first", "take", "idle", "lock", "wait", "done", "never"}]]
    BY <1>1 DEF TypeOK
  <2>2. CASE Take(e)
    <3>1. \E c \in {"lock", "take"} : wp' = [wp EXCEPT ![e]["mux"] = c]
      BY <2>2 DEF Take
    <3>2. QED BY <2>1, <3>1 DEF Procs
  <2>3. CASE MuxEnds(e)
    BY <2>3 DEF MuxEnds
  <2>4. CASE Begin(e)
    <3>1. wp' = [wp EXCEPT ![e]["user"] = "lock"]
      BY <2>4 DEF Begin
    <3>2. QED BY <2>1, <3>1 DEF Procs
  <2>5. ASSUME NEW p \in Procs, WriteFails(e, p)
        PROVE  e \in up' => /\ wp'[e]["mux"] = "wait" => wp[e]["mux"] = "wait"
                            /\ wp'[e]["user"] = "wait" => wp[e]["user"] = "wait"
    <3>1. \E c \in {"done", "idle"} : wp' = [wp EXCEPT ![e][p] = c]
      BY <2>5 DEF WriteFails
    <3>2. QED BY <2>1, <3>1 DEF Procs
  <2>6. QED BY <2>2, <2>3, <2>4, <2>5 DEF Mux
<1>4. /\ Writes(e)' => Writes(e) /\ Out(e)' = Out(e)
      /\ In(e)' = In(e) /\ (Reads(e)' <=> Reads(e))
  BY <1>2 DEF Idle, Writes, Out, In, Reads
<1>5. Stream(e)' /\ Stream(Other(e))'
  BY <1>1, <1>2, <1>4, Silent, Deaf
<1>6. Keyed(e)'
  BY <1>1, <1>2 DEF Keyed, Reads, Writes, Idle
<1>7. Served(e)'
  <2>1. Writes(e)' => e \in up' /\ Writes(e)
    BY <1>4 DEF Writes
  <2>2. Writes(e)' => /\ Waits(e, "mux")' <= Waits(e, "mux")
                      /\ Waits(e, "user")' <= Waits(e, "user")
    BY <1>3, <2>1 DEF Waits
  <2>3. /\ Waits(e, "mux") \in Int /\ Waits(e, "user") \in Int
        /\ Waits(e, "mux")' \in Int /\ Waits(e, "user")' \in Int
    BY DEF Waits
  <2>4. under[e] \in Nat /\ written[e] \in Nat
    BY <1>1, At
  <2>5. /\ under'[e] <= Threshold + 2
        /\ rp'[e] \in {"nkread", "done"} => under'[e] = 0
        /\ Writes(e)' => under'[e] <= written'[e]
    BY <1>1, <1>2, <2>1 DEF Served, Idle
  <2>6. Writes(e)' /\ sent'[e] = 0 =>
           under'[e] + Waits(e, "mux")' + Waits(e, "user")' <= Threshold + 2
    <3>1. SUFFICES ASSUME Writes(e)', sent'[e] = 0
                   PROVE  under'[e] + Waits(e, "mux")' + Waits(e, "user")' <= Threshold + 2
      OBVIOUS
    <3>2. under[e] + Waits(e, "mux") + Waits(e, "user") <= Threshold + 2
      BY <1>1, <1>2, <2>1, <3>1 DEF Served
    <3>3. /\ under'[e] = under[e] /\ Waits(e, "mux")' <= Waits(e, "mux")
          /\ Waits(e, "user")' <= Waits(e, "user")
      BY <1>2, <2>2, <3>1
    <3>4. Threshold \in Nat
      BY DEF HandshakeAssumption
    <3>5. QED BY <2>3, <2>4, <3>2, <3>3, <3>4
  <2>7. QED BY <2>5, <2>6 DEF Served
<1>8. QED BY <1>5, <1>6, <1>7 DEF Holds

-----------------------------------------------------------------------------
LEMMA InitInvariant == HandshakeAssumption /\ Init => IInv
<1> SUFFICES ASSUME HandshakeAssumption, Init PROVE IInv
  OBVIOUS
<1>1. NoKey \in ExchangeKeys
  BY DEF NoKey, ExchangeKeys
<1>2. ASSUME NEW e \in Ends, NEW t \in PacketTypes, NEW n \in Nat
      PROVE  Packet(e, t, n, FALSE) \in Packets
  BY <1>1, <1>2 DEF Init, Packet, Packets
<1>3. TypeOK
  <2>1. hold \in [Ends -> Packets]
    BY <1>2 DEF Init, PacketTypes
  <2>2. wire \in [Ends -> Seq(Packets)]
    <3>1. ASSUME NEW e \in Ends PROVE <<Packet(e, "init", 1, FALSE)>> \in Seq(Packets)
      <4>1. Packet(e, "init", 1, FALSE) \in Packets
        BY <1>2 DEF PacketTypes
      <4>2. PICK p \in Packets : p = Packet(e, "init", 1, FALSE)
        BY <4>1
      <4>3. <<p>> \in Seq(Packets)
        OBVIOUS
      <4>4. QED BY <4>2, <4>3
    <3>2. wire = [e \in Ends |-> <<Packet(e, "init", 1, FALSE)>>]
      BY DEF Init
    <3>3. QED BY <3>1, <3>2
  <2>3. incoming \in [Ends -> Seq(Packets)]
    BY DEF Init
  <2>4. wp \in [Ends -> [Procs -> {"first", "take", "idle", "lock", "wait", "done", "never"}]]
    BY DEF Init
  <2>5. asking \in [Ends -> [Procs -> BOOLEAN]]
    BY DEF Init
  <2>6. QED BY <1>1, <2>1, <2>2, <2>3, <2>4, <2>5 DEF Init, TypeOK
<1>4. ASSUME NEW e \in Ends PROVE Stream(e) /\ Keyed(e) /\ Served(e)
  <2>1. Other(e) \in Ends /\ wire[e] = <<Packet(e, "init", 1, FALSE)>>
    BY Pair DEF Init
  <2>2. PICK p : p = Packet(e, "init", 1, FALSE)
    OBVIOUS
  <2>3. p.t = "init" /\ p.n = 1 /\ p.key = NoKey
    BY <2>2 DEF Packet, Init
  <2>4. Right(p) /\ Before(p) = <<NoKey, 0>> /\ After(p) = <<NoKey, 1>>
    BY <2>3 DEF Right, Before, After, NoKey, Key, Number
  <2>5. wire[e] = <<p>>
    BY <2>1, <2>2
  <2>6. Chain(wire[e])
    BY <2>4, <2>5 DEF Chain
  <2>7. In(Other(e)) = <<NoKey, 0>> /\ Out(e) = <<NoKey, 1>>
    BY <2>1 DEF Init, In, Out
  <2>8. Stream(e)
    <3>1. wire[e] # <<>> /\ wire[e][1] = p /\ wire[e][Len(wire[e])] = p
      BY <2>5
    <3>2. QED BY <2>4, <2>6, <2>7, <3>1 DEF Stream
  <2>9. Keyed(e)
    BY DEF Init, Keyed, Reads, Writes, Key, Number, NoKey
  <2>10. Served(e)
    <3>1. Threshold \in Nat
      BY DEF HandshakeAssumption
    <3>2. under[e] = 0 /\ written[e] = 0 /\ sent[e] = 1
      BY DEF Init
    <3>3. QED BY <3>1, <3>2 DEF Served
  <2>11. QED BY <2>8, <2>9, <2>10
<1>5. QED BY <1>3, <1>4 DEF IInv

LEMMA Invariance == HandshakeAssumption /\ IInv /\ [Next]_vars => IInv'
<1> SUFFICES ASSUME HandshakeAssumption, IInv, [Next]_vars PROVE IInv'
  OBVIOUS
<1>1. TypeOK /\ TypeOK'
  BY TypeStep DEF IInv
<1>2. ASSUME NEW e \in Ends, Untouched(Other(e)), Holds(e)' PROVE IInv'
  <2>1. Other(e) \in Ends /\ Other(Other(e)) = e /\ \A x \in Ends : x = e \/ x = Other(e)
    BY Pair
  <2>2. Keyed(Other(e))' /\ Served(Other(e))'
    BY <1>2, <2>1, StaysKeyed DEF IInv
  <2>3. Stream(e)' /\ Stream(Other(e))' /\ Keyed(e)' /\ Served(e)'
    BY <1>2 DEF Holds
  <2>4. QED BY <1>1, <2>1, <2>2, <2>3 DEF IInv
<1>3. ASSUME NEW e \in Ends, ReadLoop(e) PROVE IInv'
  <2>1. Untouched(Other(e))
    BY <1>1, <1>3, Apart
  <2>2. CASE RequestKeyChange(e)
    BY <1>2, <2>1, <2>2, RequestKeyChangeHolds
  <2>3. CASE Recv(e)
    BY <1>2, <2>1, <2>3, RecvHolds
  <2>4. CASE RecvFails(e) \/ KexReadFails(e)
    BY <1>2, <2>1, <2>4, ReadFailsHolds
  <2>5. CASE Push(e)
    BY <1>2, <2>1, <2>5, PushHolds
  <2>6. CASE Kex(e)
    BY <1>2, <2>1, <2>6, KexHolds
  <2>7. CASE DHWrite(e)
    BY <1>2, <2>1, <2>7, DHWriteHolds
  <2>8. CASE DHRead(e)
    BY <1>2, <2>1, <2>8, DHReadHolds
  <2>9. CASE NewKeysWrite(e)
    BY <1>2, <2>1, <2>9, NewKeysWriteHolds
  <2>10. CASE NewKeysRead(e)
    BY <1>2, <2>1, <2>10, NewKeysReadHolds
  <2>11. CASE Done(e)
    BY <1>2, <2>1, <2>11, DoneHolds
  <2>12. CASE Fail(e)
    BY <1>2, <2>1, <2>12, FailHolds
  <2>13. QED BY <1>3, <2>2, <2>3, <2>4, <2>5, <2>6, <2>7, <2>8, <2>9, <2>10, <2>11, <2>12
             DEF ReadLoop
<1>4. ASSUME NEW e \in Ends, Mux(e) \/ Begin(e) PROVE IInv'
  <2>1. Untouched(Other(e))
    BY <1>1, <1>4, Apart
  <2>2. Holds(e)'
    BY <1>4, <2>1, OthersHold
  <2>3. QED BY <1>2, <2>1, <2>2
<1>5. ASSUME NEW e \in Ends, NEW p \in Procs, WritePacket(e, p) PROVE IInv'
  <2>1. Untouched(Other(e))
    BY <1>1, <1>5, Apart
  <2>2. CASE Blocks(e, p)
    BY <1>2, <2>1, <2>2, BlocksHolds
  <2>3. CASE Write(e, p)
    BY <1>2, <2>1, <2>3, WriteHolds
  <2>4. CASE WriteFails(e, p)
    BY <1>2, <2>1, <2>4, OthersHold
  <2>5. QED BY <1>5, <2>2, <2>3, <2>4 DEF WritePacket
<1>6. CASE Lose
  <2>1. /\ wire' = wire /\ up' = {} /\ UNCHANGED <<reading, exchange, writing>>
    BY <1>6 DEF Lose
  <2>2. ASSUME NEW e \in Ends PROVE Untouched(e)
    BY <2>1 DEF Untouched, reading, exchange, writing
  <2>3. ASSUME NEW e \in Ends PROVE Stream(e)' /\ Keyed(e)' /\ Served(e)'
    <3>1. Untouched(Other(e)) /\ Untouched(e) /\ Stream(e) /\ Keyed(e) /\ Served(e)
      BY <2>2, Pair DEF IInv
    <3>2. ~Writes(e)'
      BY <2>1 DEF Writes
    <3>3. QED BY <2>1, <3>1, <3>2, Silent, StaysKeyed
  <2>4. QED BY <1>1, <2>3 DEF IInv
<1>7. CASE UNCHANGED vars
  <2>1. ASSUME NEW e \in Ends PROVE Untouched(e) /\ wire' = wire
    BY <1>7 DEF vars, Untouched, reading, exchange, writing, shared
  <2>2. ASSUME NEW e \in Ends PROVE Stream(e)' /\ Keyed(e)' /\ Served(e)'
    <3>1. Untouched(Other(e)) /\ Untouched(e) /\ Stream(e) /\ Keyed(e) /\ Served(e) /\ wire' = wire
      BY <2>1, Pair DEF IInv
    <3>2. Writes(e)' => Writes(e) /\ Out(e)' = Out(e)
      BY <3>1, Stays
    <3>3. QED BY <3>1, <3>2, Silent, StaysKeyed
  <2>3. QED BY <1>1, <2>2 DEF IInv
<1>8. QED BY <1>3, <1>4, <1>5, <1>6, <1>7 DEF Next

-----------------------------------------------------------------------------
\* The variables stay within their types.
THEOREM TypeCorrect == Spec => []TypeOK
<1>1. Init => IInv
  BY HandshakeAssumption, InitInvariant
<1>2. IInv /\ [Next]_vars => IInv'
  BY HandshakeAssumption, Invariance
<1>3. IInv => TypeOK
  BY DEF IInv
<1>4. QED BY <1>1, <1>2, <1>3, PTL DEF Spec

LEMMA InvariantKeysRight == IInv => KeysRight
<1> SUFFICES ASSUME IInv PROVE KeysRight
  OBVIOUS
<1>1. ASSUME NEW e \in Ends, wire[Other(e)] # <<>>, rp[e] \notin {"dead", "fail"}
      PROVE  Arrived(e).key = readKey[e] /\ Expected(e, Arrived(e))
  <2>1. TypeOK /\ Stream(Other(e)) /\ Keyed(e) /\ Reads(e)
    BY <1>1, Pair DEF IInv, Reads
  <2>2. PICK p : p = Arrived(e)
    OBVIOUS
  <2>3. p \in Packets /\ Right(p) /\ Before(p) = In(e)
    BY <1>1, <2>1, <2>2, Heard
  <2>4. p.t \in PacketTypes /\ p.key = readKey[e]
    BY <2>3 DEF Before, In, Packets
  <2>5. CASE rp[e] = "dhread"
    <3>1. p.t = "dh"
      BY <2>3, <2>4, <2>5 DEF Before, In, PacketTypes
    <3>2. p.signed = Key(Number(readKey[e]) + 1)
      BY <2>3, <2>4, <3>1 DEF Right
    <3>3. sent[e] = Number(readKey[e]) + 1 /\ got[e] = Number(readKey[e]) + 1
      BY <2>1, <2>5, At DEF Keyed
    <3>4. p.signed = Agreed(e)
      BY <3>2, <3>3 DEF Agreed, Key
    <3>5. QED BY <2>2, <2>4, <2>5, <3>1, <3>4 DEF Expected
  <2>6. CASE rp[e] = "nkread"
    <3>1. p.t = "newkeys"
      BY <2>3, <2>4, <2>6 DEF Before, In, PacketTypes
    <3>2. QED BY <2>2, <2>4, <2>6, <3>1 DEF Expected
  <2>7. CASE rp[e] \in {"recv", "push", "request"}
    <3>1. p.t \in {"init", "data"}
      BY <2>3, <2>4, <2>7 DEF Before, In, PacketTypes
    <3>2. QED BY <2>2, <2>4, <2>7, <3>1 DEF Expected
  <2>8. CASE rp[e] \notin {"dhread", "nkread", "recv", "push", "request"}
    BY <2>2, <2>4, <2>8 DEF Expected
  <2>9. QED BY <2>5, <2>6, <2>7, <2>8
<1>2. ASSUME NEW e \in Ends, rp[e] = "fail" PROVE Expected(e, Arrived(e))
  BY <1>2 DEF Expected
<1>3. ASSUME NEW e \in Ends PROVE session[e] \in {NoKey, <<1, 1>>}
  BY DEF IInv, Keyed, Key
<1>4. Understood
  BY <1>1, <1>2, <1>3 DEF Understood
<1>5. Cardinality(Procs) = 2
  <2>1. IsFiniteSet({"user"}) /\ Cardinality({"user"}) = 1 /\ "mux" \notin {"user"}
    BY FS_Singleton
  <2>2. Cardinality({"user"} \cup {"mux"}) = 2
    BY <2>1, FS_AddElement
  <2>3. Procs = {"user"} \cup {"mux"}
    BY DEF Procs
  <2>4. QED BY <2>2, <2>3
<1>6. KeyUse
  BY <1>5 DEF IInv, Served, KeyUse
<1>7. QED BY <1>4, <1>6 DEF KeysRight

\* Whichever end starts an exchange, and if both do at once, no end reads a packet
\* under a key it has not changed to or one its exchange does not expect, the client
\* always finds the kexInits signed that it has seen, the session stays that of the
\* first exchange, and a key serves at most two packets more than the threshold
\* (enterKeyExchange, readOnePacket and writePacket of handshake.go).
THEOREM KeysAlwaysRight == Spec => []KeysRight
<1>1. Init => IInv
  BY HandshakeAssumption, InitInvariant
<1>2. IInv /\ [Next]_vars => IInv'
  BY HandshakeAssumption, Invariance
<1>3. IInv => KeysRight
  BY InvariantKeysRight
<1>4. QED BY <1>1, <1>2, <1>3, PTL DEF Spec

-----------------------------------------------------------------------------
\* Numbered data: nothing, one more at the end, one less in front, two parts.
LEMMA NumberedEmpty ==
  ASSUME NEW a \in Nat, NEW b \in Nat
  PROVE  Numbered(<<>>, a, b) <=> a = b
<1>1. CASE a = b
  BY <1>1 DEF Numbered
<1>2. CASE a # b
  <2>1. a <= b => a + 1 \in (a + 1)..b
    BY <1>2
  <2>2. ~\E i \in 1..Len(<<>>) : TRUE
    OBVIOUS
  <2>3. QED BY <1>2, <2>1, <2>2 DEF Numbered
<1>3. QED BY <1>1, <1>2

LEMMA NumberedAppend ==
  ASSUME NEW s \in Seq(Packets), NEW p \in Packets, NEW a \in Nat, NEW b \in Nat, Numbered(s, a, b)
  PROVE  /\ p.t # "data" => Numbered(Append(s, p), a, b)
         /\ p.t = "data" /\ p.n = b + 1 => Numbered(Append(s, p), a, b + 1)
<1> DEFINE r == Append(s, p)
           D(q) == {i \in 1..Len(q) : q[i].t = "data"}
<1>1. /\ Len(s) \in Nat /\ Len(r) = Len(s) + 1 /\ r[Len(s) + 1] = p
      /\ \A i \in 1..Len(s) : r[i] = s[i]
  OBVIOUS
<1>2. /\ a <= b /\ \A i \in D(s) : s[i].n \in (a + 1)..b
      /\ \A i, j \in D(s) : i < j => s[i].n < s[j].n
      /\ \A k \in (a + 1)..b : \E i \in D(s) : s[i].n = k
  BY DEF Numbered
<1> HIDE DEF r
<1>3. CASE p.t # "data"
  <2>1. D(r) = D(s) /\ \A i \in D(s) : r[i] = s[i]
    BY <1>1, <1>3
  <2>2. QED BY <1>2, <1>3, <2>1 DEF Numbered, r
<1>4. CASE p.t = "data" /\ p.n = b + 1
  <2>1. D(r) = D(s) \cup {Len(s) + 1} /\ \A i \in D(s) : r[i] = s[i] /\ i < Len(s) + 1
    BY <1>1, <1>4
  <2>2. \A i \in D(r) : r[i].n \in (a + 1)..(b + 1)
    BY <1>1, <1>2, <1>4, <2>1
  <2>3. \A i, j \in D(r) : i < j => r[i].n < r[j].n
    <3>1. SUFFICES ASSUME NEW i \in D(r), NEW j \in D(r), i < j PROVE r[i].n < r[j].n
      OBVIOUS
    <3>2. i \in D(s) /\ r[i] = s[i] /\ s[i].n \in (a + 1)..b
      BY <1>1, <1>2, <2>1, <3>1
    <3>3. CASE j \in D(s)
      BY <1>2, <2>1, <3>1, <3>2, <3>3
    <3>4. CASE j = Len(s) + 1
      BY <1>1, <1>4, <3>2, <3>4
    <3>5. QED BY <2>1, <3>3, <3>4
  <2>4. \A k \in (a + 1)..(b + 1) : \E i \in D(r) : r[i].n = k
    <3>1. SUFFICES ASSUME NEW k \in (a + 1)..(b + 1) PROVE \E i \in D(r) : r[i].n = k
      OBVIOUS
    <3>2. CASE k = b + 1
      BY <1>1, <1>4, <2>1, <3>2
    <3>3. CASE k # b + 1
      <4>1. k \in (a + 1)..b
        BY <3>3
      <4>2. QED BY <1>2, <2>1, <4>1
    <3>4. QED BY <3>2, <3>3
  <2>5. QED BY <1>2, <1>4, <2>2, <2>3, <2>4 DEF Numbered, r
<1>5. QED BY <1>3, <1>4 DEF r

LEMMA NumberedTail ==
  ASSUME NEW s \in Seq(Packets), s # <<>>, NEW a \in Nat, NEW b \in Nat, Numbered(s, a, b)
  PROVE  /\ Head(s) \in Packets
         /\ Head(s).t # "data" => Numbered(Tail(s), a, b)
         /\ Head(s).t = "data" => Head(s).n = a + 1 /\ Numbered(Tail(s), a + 1, b)
<1> DEFINE r == Tail(s)
           D(q) == {i \in 1..Len(q) : q[i].t = "data"}
<1>1. /\ Len(s) \in Nat /\ Len(s) >= 1 /\ Head(s) \in Packets /\ Head(s) = s[1]
      /\ Len(r) = Len(s) - 1 /\ \A i \in 1..Len(r) : r[i] = s[i + 1]
  OBVIOUS
<1>2. /\ a <= b /\ \A i \in D(s) : s[i].n \in (a + 1)..b
      /\ \A i, j \in D(s) : i < j => s[i].n < s[j].n
      /\ \A k \in (a + 1)..b : \E i \in D(s) : s[i].n = k
  BY DEF Numbered
<1> HIDE DEF r
<1>3. /\ \A i \in D(r) : i + 1 \in D(s) /\ r[i] = s[i + 1]
      /\ \A i \in D(s) : i # 1 => i - 1 \in D(r) /\ r[i - 1] = s[i]
  <2>1. ASSUME NEW i \in D(r) PROVE i + 1 \in D(s) /\ r[i] = s[i + 1]
    BY <1>1
  <2>2. ASSUME NEW i \in D(s), i # 1 PROVE i - 1 \in D(r) /\ r[i - 1] = s[i]
    <3>1. i - 1 \in 1..Len(r) /\ (i - 1) + 1 = i
      BY <1>1, <2>2
    <3>2. QED BY <1>1, <3>1
  <2>3. QED BY <2>1, <2>2
<1>4. \A i, j \in D(r) : i < j => r[i].n < r[j].n
  <2>1. SUFFICES ASSUME NEW i \in D(r), NEW j \in D(r), i < j PROVE r[i].n < r[j].n
    OBVIOUS
  <2>2. i + 1 < j + 1
    BY <2>1
  <2>3. QED BY <1>2, <1>3, <2>2
<1>5. CASE Head(s).t # "data"
  <2>1. \A i \in D(r) : r[i].n \in (a + 1)..b
    BY <1>2, <1>3
  <2>2. \A k \in (a + 1)..b : \E i \in D(r) : r[i].n = k
    <3>1. SUFFICES ASSUME NEW k \in (a + 1)..b PROVE \E i \in D(r) : r[i].n = k
      OBVIOUS
    <3>2. PICK i \in D(s) : s[i].n = k
      BY <1>2
    <3>3. i # 1
      BY <1>1, <1>5
    <3>4. QED BY <1>3, <3>2, <3>3
  <2>3. QED BY <1>1, <1>2, <1>4, <1>5, <2>1, <2>2 DEF Numbered, r
<1>6. CASE Head(s).t = "data"
  <2>1. 1 \in D(s)
    BY <1>1, <1>6
  <2>2. \A i \in D(s) : i # 1 => s[1].n < s[i].n
    <3>1. SUFFICES ASSUME NEW i \in D(s), i # 1 PROVE s[1].n < s[i].n
      OBVIOUS
    <3>2. 1 < i
      BY <1>1, <3>1
    <3>3. QED BY <1>2, <2>1, <3>2
  <2>3. s[1].n = a + 1
    <3>1. s[1].n \in (a + 1)..b
      BY <1>2, <2>1
    <3>2. PICK i \in D(s) : s[i].n = a + 1
      BY <1>2, <3>1
    <3>3. QED BY <2>2, <3>1, <3>2
  <2>4. \A i \in D(r) : r[i].n \in ((a + 1) + 1)..b
    <3>1. SUFFICES ASSUME NEW i \in D(r) PROVE r[i].n \in ((a + 1) + 1)..b
      OBVIOUS
    <3>2. i + 1 \in D(s) /\ r[i] = s[i + 1] /\ i + 1 # 1
      BY <1>1, <1>3
    <3>3. s[i + 1].n \in (a + 1)..b /\ a + 1 < s[i + 1].n
      BY <1>2, <2>2, <2>3, <3>2
    <3>4. QED BY <3>2, <3>3
  <2>5. \A k \in ((a + 1) + 1)..b : \E i \in D(r) : r[i].n = k
    <3>1. SUFFICES ASSUME NEW k \in ((a + 1) + 1)..b PROVE \E i \in D(r) : r[i].n = k
      OBVIOUS
    <3>2. k \in (a + 1)..b /\ k # a + 1
      OBVIOUS
    <3>3. PICK i \in D(s) : s[i].n = k
      BY <1>2, <3>2
    <3>4. i # 1
      BY <2>3, <3>2, <3>3
    <3>5. QED BY <1>3, <3>3, <3>4
  <2>6. a + 1 <= b
    BY <1>2, <2>1
  <2>7. QED BY <1>1, <1>4, <1>6, <2>3, <2>4, <2>5, <2>6 DEF Numbered, r
<1>7. QED BY <1>1, <1>5, <1>6

LEMMA NumberedConcat ==
  ASSUME NEW s \in Seq(Packets), NEW r \in Seq(Packets),
         NEW a \in Nat, NEW b \in Nat, NEW c \in Nat,
         Numbered(s, a, b), Numbered(r, b, c)
  PROVE  Numbered(s \o r, a, c)
<1> DEFINE q == s \o r
           m == Len(s)
           D(x) == {i \in 1..Len(x) : x[i].t = "data"}
<1>1. /\ m \in Nat /\ Len(r) \in Nat /\ Len(q) = m + Len(r)
      /\ \A i \in 1..m : q[i] = s[i]
      /\ \A i \in 1..Len(r) : q[m + i] = r[i]
  OBVIOUS
<1>2. /\ a <= b /\ \A i \in D(s) : s[i].n \in (a + 1)..b
      /\ \A i, j \in D(s) : i < j => s[i].n < s[j].n
      /\ \A k \in (a + 1)..b : \E i \in D(s) : s[i].n = k
  BY DEF Numbered
<1>3. /\ b <= c /\ \A i \in D(r) : r[i].n \in (b + 1)..c
      /\ \A i, j \in D(r) : i < j => r[i].n < r[j].n
      /\ \A k \in (b + 1)..c : \E i \in D(r) : r[i].n = k
  BY DEF Numbered
<1> HIDE DEF q, m
<1>4. /\ \A i \in D(s) : i \in D(q) /\ q[i] = s[i] /\ i <= m
      /\ \A i \in D(r) : m + i \in D(q) /\ q[m + i] = r[i]
  BY <1>1 DEF m
<1>5. ASSUME NEW i \in D(q)
      PROVE  \/ i \in D(s) /\ q[i] = s[i] /\ i <= m
             \/ i > m /\ i - m \in D(r) /\ q[i] = r[i - m]
  <2>1. CASE i <= m
    BY <1>1, <2>1 DEF m
  <2>2. CASE i > m
    <3>1. i - m \in 1..Len(r) /\ m + (i - m) = i
      BY <1>1, <2>2
    <3>2. QED BY <1>1, <2>2, <3>1
  <2>3. QED BY <1>1, <2>1, <2>2
<1>6. ASSUME NEW i \in D(q)
      PROVE  /\ q[i].n \in (a + 1)..c
             /\ i <= m => i \in D(s) /\ q[i] = s[i] /\ q[i].n \in (a + 1)..b
             /\ i > m => i - m \in D(r) /\ q[i] = r[i - m] /\ q[i].n \in (b + 1)..c
  <2>1. CASE i \in D(s) /\ q[i] = s[i] /\ i <= m
    <3>1. q[i].n \in (a + 1)..b
      BY <1>2, <2>1
    <3>2. ~(i > m)
      BY <1>1, <2>1
    <3>3. q[i].n \in (a + 1)..c
      BY <1>3, <3>1
    <3>4. QED BY <2>1, <3>1, <3>2, <3>3
  <2>2. CASE i > m /\ i - m \in D(r) /\ q[i] = r[i - m]
    <3>1. q[i].n \in (b + 1)..c
      BY <1>3, <2>2
    <3>2. ~(i <= m)
      BY <1>1, <2>2
    <3>3. q[i].n \in (a + 1)..c
      BY <1>2, <3>1
    <3>4. QED BY <2>2, <3>1, <3>2, <3>3
  <2>3. QED BY <1>5, <2>1, <2>2
<1>7. ASSUME NEW i \in D(q), NEW j \in D(q), i < j PROVE q[i].n < q[j].n
  <2>1. CASE j <= m
    <3>1. i <= m
      BY <1>1, <1>7, <2>1
    <3>2. i \in D(s) /\ q[i] = s[i] /\ j \in D(s) /\ q[j] = s[j]
      BY <1>6, <2>1, <3>1
    <3>3. QED BY <1>2, <1>7, <3>2
  <2>2. CASE i > m
    <3>1. j > m
      BY <1>1, <1>7, <2>2
    <3>2. i - m \in D(r) /\ q[i] = r[i - m] /\ j - m \in D(r) /\ q[j] = r[j - m]
      BY <1>6, <2>2, <3>1
    <3>3. i - m < j - m
      BY <1>1, <1>7
    <3>4. QED BY <1>3, <3>2, <3>3
  <2>3. CASE i <= m /\ j > m
    <3>1. q[i].n \in (a + 1)..b /\ q[j].n \in (b + 1)..c
      BY <1>6, <2>3
    <3>2. QED BY <3>1
  <2>4. i <= m \/ i > m
    BY <1>1
  <2>5. j <= m \/ j > m
    BY <1>1
  <2>6. QED BY <2>1, <2>2, <2>3, <2>4, <2>5
<1>8. ASSUME NEW k \in (a + 1)..c PROVE \E i \in D(q) : q[i].n = k
  <2>1. CASE k <= b
    <3>1. k \in (a + 1)..b
      BY <2>1
    <3>2. PICK i \in D(s) : s[i].n = k
      BY <1>2, <3>1
    <3>3. QED BY <1>4, <3>2
  <2>2. CASE k > b
    <3>1. k \in (b + 1)..c
      BY <2>2
    <3>2. PICK i \in D(r) : r[i].n = k
      BY <1>3, <3>1
    <3>3. m + i \in D(q) /\ q[m + i] = r[i]
      BY <1>4
    <3>4. QED BY <3>2, <3>3
  <2>3. QED BY <2>1, <2>2
<1>9. a <= c
  BY <1>2, <1>3
<1>10. QED BY <1>6, <1>7, <1>8, <1>9 DEF Numbered, q

-----------------------------------------------------------------------------
\* The packets on their way to the mux of an end are in three places.
Holding(e) == IF rp[e] = "push" THEN <<hold[e]>> ELSE <<>>
InOrder(e) ==
    rp[e] # "dead" =>
        \E c, d \in Nat : /\ Numbered(incoming[e], seen[e], c)
                          /\ Numbered(Holding(e), c, d)
                          /\ Numbered(wire[Other(e)], d, data[Other(e)])

\* What a step of an end does to what is on the way from it.
Talks(e) ==
    \/ wire'[e] = wire[e] /\ data'[e] = data[e]
    \/ \E p \in Packets :
         /\ wire'[e] = Append(wire[e], p)
         /\ IF p.t = "data" THEN p.n = data[e] + 1 /\ data'[e] = data[e] + 1
                            ELSE data'[e] = data[e]

LEMMA SendsTalks ==
  ASSUME TypeOK, NEW e \in Ends, NEW p \in Packets, Sends(e, p), p.t # "data", data' = data
  PROVE  Talks(e)
<1>1. wire'[e] = Append(wire[e], p)
  BY DEF TypeOK, Sends
<1>2. QED BY <1>1 DEF Talks

LEMMA SendsInitTalks ==
  ASSUME TypeOK, NEW e \in Ends, SendsInit(e), data' = data
  PROVE  Talks(e)
<1>1. PICK p : p = Packet(e, "init", inits[e] + 1, FALSE)
  OBVIOUS
<1>2. inits[e] + 1 \in Nat
  BY DEF TypeOK
<1>3. p \in Packets
  BY <1>1, <1>2, PacketType DEF PacketTypes
<1>4. p.t = "init"
  BY <1>1 DEF Packet
<1>5. Sends(e, p)
  BY <1>1 DEF SendsInit
<1>6. QED BY <1>3, <1>4, <1>5, SendsTalks

LEMMA AllTalk ==
  ASSUME TypeOK, NEW e \in Ends, NEW o, o = Other(e),
         ReadLoop(e) \/ Mux(e) \/ Begin(e) \/ \E p \in Procs : WritePacket(e, p)
  PROVE  /\ Talks(e) /\ data'[o] = data[o]
         /\ incoming'[o] = incoming[o] /\ hold'[o] = hold[o] /\ seen'[o] = seen[o]
<1>1. o \in Ends /\ o # e
  BY Pair
<1>2. CASE RequestKeyChange(e) \/ Kex(e)
  <2>1. data' = data /\ incoming' = incoming /\ hold' = hold /\ seen' = seen
    BY <1>2 DEF RequestKeyChange, Kex, writing
  <2>2. wire' = wire \/ SendsInit(e)
    BY <1>2 DEF RequestKeyChange, Kex
  <2>3. Talks(e)
    BY <2>1, <2>2, SendsInitTalks DEF Talks
  <2>4. QED BY <2>1, <2>3
<1>3. CASE Recv(e) \/ DHRead(e) \/ NewKeysRead(e)
  <2>1. data' = data /\ incoming' = incoming /\ seen' = seen /\ Consumes(e)
    BY <1>3 DEF Recv, DHRead, NewKeysRead, writing
  <2>2. hold'[o] = hold[o]
    <3>1. hold' = hold \/ hold' = [hold EXCEPT ![e] = Arrived(e)]
      BY <1>3 DEF Recv, DHRead, NewKeysRead
    <3>2. hold \in [Ends -> Packets]
      BY DEF TypeOK
    <3>3. QED BY <1>1, <3>1, <3>2
  <2>3. wire'[e] = wire[e]
    BY <1>1, <2>1 DEF Consumes, TypeOK
  <2>4. QED BY <2>1, <2>2, <2>3 DEF Talks
<1>4. CASE RecvFails(e) \/ KexReadFails(e) \/ Push(e) \/ Done(e) \/ Fail(e)
  <2>1. data' = data /\ wire' = wire /\ seen' = seen
    BY <1>4 DEF RecvFails, KexReadFails, Push, Done, Fail, writing, shared
  <2>2. incoming'[o] = incoming[o] /\ hold'[o] = hold[o]
    BY <1>1, <1>4 DEF RecvFails, KexReadFails, Push, Done, Fail, shared, TypeOK
  <2>3. QED BY <2>1, <2>2 DEF Talks
<1>5. CASE DHWrite(e)
  <2>1. data' = data /\ incoming' = incoming /\ hold' = hold /\ seen' = seen
    BY <1>5 DEF DHWrite, writing
  <2>2. wire' = wire \/ Sends(e, DH(e))
    BY <1>5 DEF DHWrite
  <2>3. Talks(e)
    <3>1. PICK p : p = DH(e)
      OBVIOUS
    <3>2. p \in Packets /\ p.t = "dh"
      BY <3>1, DHType
    <3>3. QED BY <2>1, <2>2, <3>1, <3>2, SendsTalks DEF Talks
  <2>4. QED BY <2>1, <2>3
<1>6. CASE NewKeysWrite(e)
  <2>1. data' = data /\ incoming' = incoming /\ hold' = hold /\ seen' = seen
    BY <1>6 DEF NewKeysWrite, writing
  <2>2. wire' = wire \/ Sends(e, Packet(e, "newkeys", 0, FALSE))
    BY <1>6 DEF NewKeysWrite
  <2>3. Talks(e)
    <3>1. PICK p : p = Packet(e, "newkeys", 0, FALSE)
      OBVIOUS
    <3>2. p \in Packets
      BY <3>1, PacketType DEF PacketTypes
    <3>3. p.t = "newkeys"
      BY <3>1 DEF Packet
    <3>4. QED BY <2>1, <2>2, <3>1, <3>2, <3>3, SendsTalks DEF Talks
  <2>4. QED BY <2>1, <2>3
<1>7. CASE Mux(e) \/ Begin(e)
  <2>1. data' = data /\ wire' = wire /\ hold' = hold
    BY <1>7 DEF Mux, Take, MuxEnds, Begin, reading, shared
  <2>2. incoming'[o] = incoming[o] /\ seen'[o] = seen[o]
    BY <1>1, <1>7 DEF Mux, Take, MuxEnds, Begin, shared, TypeOK
  <2>3. QED BY <2>1, <2>2 DEF Talks
<1>8. ASSUME NEW p \in Procs, WritePacket(e, p)
      PROVE  /\ Talks(e) /\ data'[o] = data[o]
             /\ incoming'[o] = incoming[o] /\ hold'[o] = hold[o] /\ seen'[o] = seen[o]
  <2>1. hold' = hold /\ incoming' = incoming /\ seen' = seen
    BY <1>8 DEF WritePacket, Blocks, Write, WriteFails, reading
  <2>2. CASE Blocks(e, p) \/ WriteFails(e, p)
    <3>1. data' = data /\ (wire' = wire \/ SendsInit(e))
      BY <2>2 DEF Blocks, WriteFails
    <3>2. Talks(e)
      BY <3>1, SendsInitTalks DEF Talks
    <3>3. QED BY <2>1, <3>1, <3>2
  <2>3. CASE Write(e, p)
    <3>1. PICK d : d = Packet(e, "data", data[e] + 1, asking[e][p])
      OBVIOUS
    <3>2. "data" \in PacketTypes /\ data[e] + 1 \in Nat /\ asking[e][p] \in BOOLEAN
      BY DEF PacketTypes, TypeOK
    <3>3. d \in Packets /\ d.t = "data" /\ d.n = data[e] + 1
      BY <3>1, <3>2, PacketType
    <3>4. data' = [data EXCEPT ![e] = @ + 1] /\ Sends(e, d)
      BY <2>3, <3>1 DEF Write
    <3>5. data \in [Ends -> Nat]
      BY DEF TypeOK
    <3>6. data'[e] = data[e] + 1 /\ data'[o] = data[o]
      BY <1>1, <3>4, <3>5
    <3>7. wire'[e] = Append(wire[e], d)
      BY <3>4 DEF Sends, TypeOK
    <3>8. QED BY <2>1, <3>3, <3>6, <3>7 DEF Talks
  <2>4. QED BY <1>8, <2>2, <2>3 DEF WritePacket
<1>9. QED BY <1>2, <1>3, <1>4, <1>5, <1>6, <1>7, <1>8 DEF ReadLoop

\* The other end is told what the step of an end adds.
LEMMA OtherInOrder ==
  ASSUME TypeOK, NEW e \in Ends, NEW o, o = Other(e), InOrder(o), Talks(e), rp'[o] = rp[o],
         incoming'[o] = incoming[o], hold'[o] = hold[o], seen'[o] = seen[o]
  PROVE  InOrder(o)'
<1>1. o \in Ends /\ Other(o) = e
  BY Pair
<1>2. SUFFICES ASSUME rp[o] # "dead" PROVE InOrder(o)'
  BY DEF InOrder
<1>3. PICK c \in Nat, d \in Nat :
         /\ Numbered(incoming[o], seen[o], c) /\ Numbered(Holding(o), c, d)
         /\ Numbered(wire[e], d, data[e])
  BY <1>1, <1>2 DEF InOrder
<1>4. Numbered(wire'[e], d, data'[e])
  <2>1. CASE wire'[e] = wire[e] /\ data'[e] = data[e]
    BY <1>3, <2>1
  <2>2. ASSUME NEW p \in Packets, wire'[e] = Append(wire[e], p),
               IF p.t = "data" THEN p.n = data[e] + 1 /\ data'[e] = data[e] + 1
                               ELSE data'[e] = data[e]
        PROVE  Numbered(wire'[e], d, data'[e])
    <3>1. wire[e] \in Seq(Packets) /\ data[e] \in Nat
      BY DEF TypeOK
    <3>2. QED BY <1>3, <2>2, <3>1, NumberedAppend
  <2>3. QED BY <2>1, <2>2 DEF Talks
<1>5. Holding(o)' = Holding(o)
  BY DEF Holding
<1>6. QED BY <1>1, <1>3, <1>4, <1>5 DEF InOrder

\* The steps of the read loop and of the mux of an end move its packets on.
LEMMA OwnInOrder ==
  ASSUME IInv, NEW e \in Ends, InOrder(e),
         ReadLoop(e) \/ Mux(e) \/ Begin(e) \/ \E p \in Procs : WritePacket(e, p)
  PROVE  InOrder(e)'
<1> DEFINE o == Other(e)
<1>1. TypeOK /\ Stream(o) /\ o \in Ends /\ o # e /\ data'[o] = data[o]
  BY Pair, AllTalk DEF IInv
<1>2. /\ incoming[e] \in Seq(Packets) /\ hold[e] \in Packets /\ wire[o] \in Seq(Packets)
      /\ seen[e] \in Nat /\ data[o] \in Nat /\ <<>> \in Seq(Packets)
  BY <1>1 DEF TypeOK
<1> SUFFICES ASSUME rp'[e] # "dead" PROVE InOrder(e)'
  BY DEF InOrder
<1>3. rp[e] # "dead"
  <2>1. \A pc : Goes(e, pc) => rp'[e] = pc
    BY <1>1, Goes1
  <2>2. CASE ReadLoop(e)
    BY <2>2 DEF ReadLoop, RequestKeyChange, Recv, RecvFails, Push, Kex, DHWrite, DHRead,
       KexReadFails, NewKeysWrite, NewKeysRead, Done, Fail
  <2>3. CASE Mux(e) \/ Begin(e) \/ \E p \in Procs : WritePacket(e, p)
    <3>1. rp' = rp
      BY <2>3 DEF Mux, Take, MuxEnds, Begin, WritePacket, Blocks, Write, WriteFails, reading
    <3>2. QED BY <3>1
  <2>4. QED BY <2>2, <2>3
<1>4. PICK c \in Nat, d \in Nat :
         /\ Numbered(incoming[e], seen[e], c) /\ Numbered(Holding(e), c, d)
         /\ Numbered(wire[o], d, data[o])
  BY <1>3 DEF InOrder
<1>5. rp[e] # "push" => c = d
  BY <1>4, NumberedEmpty DEF Holding
<1>6. ASSUME incoming'[e] = incoming[e], seen'[e] = seen[e], rp[e] # "push", rp'[e] # "push",
             \/ wire'[o] = wire[o]
             \/ wire[o] # <<>> /\ wire'[o] = Tail(wire[o]) /\ Head(wire[o]).t # "data"
      PROVE  InOrder(e)'
  <2>1. Numbered(Holding(e)', c, d)
    BY <1>4, <1>6 DEF Holding
  <2>2. Numbered(wire'[o], d, data'[o])
    BY <1>1, <1>2, <1>4, <1>6, NumberedTail
  <2>3. QED BY <1>4, <1>6, <2>1, <2>2 DEF InOrder
<1>7. CASE RequestKeyChange(e) \/ RecvFails(e) \/ Kex(e) \/ DHWrite(e) \/ KexReadFails(e)
           \/ NewKeysWrite(e) \/ Fail(e)
  <2>1. /\ incoming'[e] = incoming[e] /\ seen'[e] = seen[e]
        /\ rp[e] # "push" /\ rp'[e] # "push"
    BY <1>1, <1>7, Goes1 DEF RequestKeyChange, RecvFails, Kex, DHWrite, KexReadFails, NewKeysWrite,
       Fail, shared, Ends
  <2>2. wire'[o] = wire[o]
    BY <1>1, <1>7 DEF RequestKeyChange, RecvFails, Kex, DHWrite, KexReadFails, NewKeysWrite,
       Fail, shared, SendsInit, Sends, TypeOK
  <2>3. QED BY <1>6, <2>1, <2>2
<1>8. CASE DHRead(e) \/ NewKeysRead(e)
  <2>1. /\ incoming'[e] = incoming[e] /\ seen'[e] = seen[e]
        /\ rp[e] \in {"dhread", "nkread"} /\ rp'[e] # "push"
        /\ wire[o] # <<>> /\ Consumes(e)
    BY <1>1, <1>8, Goes1 DEF DHRead, NewKeysRead, Arrives
  <2>2. wire'[o] = Tail(wire[o])
    BY <1>1, <2>1 DEF Consumes, TypeOK
  <2>3. Head(wire[o]).t # "data"
    <3>1. PICK p : p = Arrived(e)
      OBVIOUS
    <3>2. p \in Packets /\ Before(p) = In(e)
      BY <1>1, <2>1, <3>1, Heard DEF Reads
    <3>3. p.t # "data"
      BY <2>1, <3>2 DEF Before, In
    <3>4. QED BY <3>1, <3>3 DEF Arrived
  <2>4. QED BY <1>6, <2>1, <2>2, <2>3
<1>9. CASE Recv(e)
  <2>1. /\ incoming'[e] = incoming[e] /\ seen'[e] = seen[e] /\ rp[e] = "recv"
        /\ wire[o] # <<>> /\ Consumes(e)
    BY <1>9 DEF Recv, Arrives
  <2>2. wire'[o] = Tail(wire[o])
    BY <1>1, <2>1 DEF Consumes, TypeOK
  <2>3. PICK p : p = Arrived(e)
    OBVIOUS
  <2>4. p = Head(wire[o]) /\ p \in Packets
    BY <1>2, <2>1, <2>3, NumberedTail, <1>4 DEF Arrived
  <2>5. \/ p.t = "init" /\ rp'[e] = "kex"
        \/ rp'[e] = "push" /\ hold'[e] = p
    <3>1. \/ p.t = "init" /\ Goes(e, "kex")
          \/ hold' = [hold EXCEPT ![e] = p] /\ Goes(e, "push")
          \/ Goes(e, "dead")
      BY <1>9, <2>3 DEF Recv
    <3>2. hold \in [Ends -> Packets]
      BY <1>1 DEF TypeOK
    <3>3. QED BY <1>1, <3>1, <3>2, Goes1
  <2>6. CASE p.t = "init" /\ rp'[e] = "kex"
    BY <1>6, <2>1, <2>2, <2>4, <2>6
  <2>7. CASE rp'[e] = "push" /\ hold'[e] = p
    <3>1. Holding(e)' = <<p>>
      BY <2>7 DEF Holding
    <3>2. Numbered(<<>>, c, c) /\ c = d
      BY <1>5, <2>1, NumberedEmpty
    <3>3. Append(<<>>, p) = <<p>>
      OBVIOUS
    <3>4. CASE p.t = "data"
      <4>1. p.n = d + 1 /\ Numbered(wire'[o], d + 1, data'[o])
        BY <1>1, <1>2, <1>4, <2>1, <2>2, <2>4, <3>4, NumberedTail
      <4>2. Numbered(<<p>>, c, c + 1)
        BY <1>2, <2>4, <3>2, <3>3, <3>4, <4>1, NumberedAppend
      <4>3. QED BY <1>4, <2>1, <3>1, <3>2, <4>1, <4>2 DEF InOrder
    <3>5. CASE p.t # "data"
      <4>1. Numbered(wire'[o], d, data'[o])
        BY <1>1, <1>2, <1>4, <2>1, <2>2, <2>4, <3>5, NumberedTail
      <4>2. Numbered(<<p>>, c, c)
        BY <1>2, <2>4, <3>2, <3>3, <3>5, NumberedAppend
      <4>3. QED BY <1>4, <2>1, <3>1, <3>2, <4>1, <4>2 DEF InOrder
    <3>6. QED BY <3>4, <3>5
  <2>8. QED BY <2>5, <2>6, <2>7
<1>10. CASE Push(e)
  <2>1. /\ rp[e] = "push" /\ rp'[e] # "push" /\ seen'[e] = seen[e] /\ wire'[o] = wire[o]
        /\ incoming'[e] = Append(incoming[e], hold[e])
    BY <1>1, <1>10, Goes1 DEF Push, TypeOK
  <2>2. PICK p \in Packets : p = hold[e]
    BY <1>2
  <2>3. Holding(e) = <<p>> /\ Holding(e)' = <<>>
    BY <2>1, <2>2 DEF Holding
  <2>4. <<p>> \in Seq(Packets) /\ <<p>> # <<>> /\ Head(<<p>>) = p /\ Tail(<<p>>) = <<>>
    OBVIOUS
  <2>5. Numbered(incoming'[e], seen[e], d)
    <3>1. CASE p.t = "data"
      <4>1. p.n = c + 1 /\ Numbered(<<>>, c + 1, d)
        BY <1>4, <2>3, <2>4, <3>1, NumberedTail
      <4>2. d = c + 1
        BY <4>1, NumberedEmpty
      <4>3. QED BY <1>2, <1>4, <2>1, <2>2, <3>1, <4>1, <4>2, NumberedAppend
    <3>2. CASE p.t # "data"
      <4>1. Numbered(<<>>, c, d)
        BY <1>4, <2>3, <2>4, <3>2, NumberedTail
      <4>2. d = c
        BY <4>1, NumberedEmpty
      <4>3. QED BY <1>2, <1>4, <2>1, <2>2, <3>2, <4>2, NumberedAppend
    <3>3. QED BY <3>1, <3>2
  <2>6. Numbered(<<>>, d, d)
    BY NumberedEmpty
  <2>7. QED BY <1>1, <1>4, <2>1, <2>3, <2>5, <2>6 DEF InOrder
<1>11. CASE Done(e)
  <2>1. /\ rp[e] = "done" /\ rp'[e] = "push" /\ seen'[e] = seen[e] /\ wire'[o] = wire[o]
        /\ incoming'[e] = incoming[e] /\ hold'[e] = Packet(e, "newkeys", 0, FALSE)
    BY <1>1, <1>11, Goes1 DEF Done, shared, TypeOK
  <2>2. PICK p : p = Packet(e, "newkeys", 0, FALSE)
    OBVIOUS
  <2>3. p \in Packets
    BY <1>1, <2>2, PacketType DEF PacketTypes
  <2>4. p.t # "data"
    BY <2>2 DEF Packet
  <2>5. Holding(e)' = <<p>> /\ Append(<<>>, p) = <<p>>
    BY <2>1, <2>2 DEF Holding
  <2>6. Numbered(<<>>, c, c) /\ c = d
    BY <1>5, <2>1, NumberedEmpty
  <2>7. Numbered(<<p>>, c, c)
    BY <1>2, <2>3, <2>4, <2>5, <2>6, NumberedAppend
  <2>8. QED BY <1>1, <1>4, <2>1, <2>5, <2>6, <2>7 DEF InOrder
<1>12. CASE Take(e)
  <2>1. /\ incoming[e] # <<>> /\ incoming'[e] = Tail(incoming[e]) /\ wire' = wire
        /\ rp' = rp /\ hold' = hold
    BY <1>1, <1>12 DEF Take, reading, TypeOK
  <2>2. PICK p : p = Head(incoming[e])
    OBVIOUS
  <2>3. seen'[e] = IF p.t = "data" THEN p.n ELSE seen[e]
    BY <1>1, <1>12, <2>2 DEF Take, TypeOK
  <2>4. Numbered(incoming'[e], seen'[e], c)
    BY <1>2, <1>4, <2>1, <2>2, <2>3, NumberedTail
  <2>5. Holding(e)' = Holding(e)
    BY <2>1 DEF Holding
  <2>6. QED BY <1>1, <1>4, <2>1, <2>4, <2>5 DEF InOrder
<1>13. CASE MuxEnds(e) \/ Begin(e) \/ \E p \in Procs : WritePacket(e, p)
  <2>1. incoming' = incoming /\ seen' = seen /\ rp' = rp /\ hold' = hold
    BY <1>13 DEF MuxEnds, Begin, WritePacket, Blocks, Write, WriteFails, reading, shared
  <2>2. wire'[o] = wire[o]
    BY <1>1, <1>13 DEF MuxEnds, Begin, WritePacket, Blocks, Write, WriteFails, shared, SendsInit,
       Sends, TypeOK
  <2>3. Holding(e)' = Holding(e)
    BY <2>1 DEF Holding
  <2>4. QED BY <1>1, <1>4, <2>1, <2>2, <2>3 DEF InOrder
<1>14. QED BY <1>7, <1>8, <1>9, <1>10, <1>11, <1>12, <1>13 DEF ReadLoop, Mux

-----------------------------------------------------------------------------
LEMMA InitInOrder == Init => \A e \in Ends : InOrder(e)
<1> SUFFICES ASSUME Init, NEW e \in Ends PROVE InOrder(e)
  OBVIOUS
<1>1. /\ Other(e) \in Ends /\ incoming[e] = <<>> /\ seen[e] = 0 /\ data[Other(e)] = 0
      /\ Holding(e) = <<>>
  BY Pair DEF Init, Holding
<1>2. PICK p : p = Packet(Other(e), "init", 1, FALSE)
  OBVIOUS
<1>3. p.t = "init" /\ wire[Other(e)] = <<p>>
  BY <1>1, <1>2 DEF Init, Packet
<1>4. Numbered(<<>>, 0, 0)
  BY NumberedEmpty
<1>5. Numbered(<<p>>, 0, 0)
  <2>1. ~\E i \in 1..Len(<<p>>) : <<p>>[i].t = "data"
    BY <1>3
  <2>2. QED BY <2>1 DEF Numbered
<1>6. QED BY <1>1, <1>3, <1>4, <1>5 DEF InOrder

LEMMA InOrderStep ==
  IInv /\ (\A e \in Ends : InOrder(e)) /\ [Next]_vars => \A e \in Ends : InOrder(e)'
<1> SUFFICES ASSUME IInv, \A e \in Ends : InOrder(e), [Next]_vars
             PROVE  \A e \in Ends : InOrder(e)'
  OBVIOUS
<1>1. TypeOK
  BY DEF IInv
<1>2. ASSUME NEW x \in Ends,
             ReadLoop(x) \/ Mux(x) \/ Begin(x) \/ \E p \in Procs : WritePacket(x, p)
      PROVE  \A e \in Ends : InOrder(e)'
  <2>1. Other(x) \in Ends /\ \A e \in Ends : e = x \/ e = Other(x)
    BY Pair
  <2>2. rp'[Other(x)] = rp[Other(x)]
    BY <1>1, <1>2, Apart DEF Untouched
  <2>3. InOrder(Other(x))'
    BY <1>1, <1>2, <2>1, <2>2, AllTalk, OtherInOrder
  <2>4. InOrder(x)'
    BY <1>2, OwnInOrder
  <2>5. QED BY <2>1, <2>3, <2>4
<1>3. CASE Lose \/ UNCHANGED vars
  <2>1. rp' = rp /\ hold' = hold /\ incoming' = incoming /\ seen' = seen /\ wire' = wire /\ data' = data
    BY <1>3 DEF Lose, vars, reading, writing, shared
  <2>2. ASSUME NEW e \in Ends PROVE InOrder(e)'
    BY <2>1 DEF InOrder, Holding
  <2>3. QED BY <2>2
<1>4. QED BY <1>2, <1>3 DEF Next

LEMMA InOrderDelivered == TypeOK /\ (\A e \in Ends : InOrder(e)) => Delivered
<1> SUFFICES ASSUME TypeOK, \A e \in Ends : InOrder(e), NEW e \in Ends, rp[e] # "dead"
             PROVE  Numbered(Coming(e), seen[e], data[Other(e)])
  BY DEF Delivered
<1>1. /\ Other(e) \in Ends /\ incoming[e] \in Seq(Packets) /\ hold[e] \in Packets
      /\ wire[Other(e)] \in Seq(Packets) /\ seen[e] \in Nat /\ data[Other(e)] \in Nat
  BY Pair DEF TypeOK
<1>2. Holding(e) \in Seq(Packets)
  BY <1>1 DEF Holding
<1>3. PICK c \in Nat, d \in Nat :
         /\ Numbered(incoming[e], seen[e], c) /\ Numbered(Holding(e), c, d)
         /\ Numbered(wire[Other(e)], d, data[Other(e)])
  BY DEF InOrder
<1>4. Numbered(incoming[e] \o Holding(e), seen[e], d) /\ incoming[e] \o Holding(e) \in Seq(Packets)
  BY <1>1, <1>2, <1>3, NumberedConcat
<1>5. Numbered((incoming[e] \o Holding(e)) \o wire[Other(e)], seen[e], data[Other(e)])
  BY <1>1, <1>3, <1>4, NumberedConcat
<1>6. Coming(e) = (incoming[e] \o Holding(e)) \o wire[Other(e)]
  BY DEF Coming, Holding
<1>7. QED BY <1>5, <1>6

\* However often keys change, and whoever waits meanwhile, the mux of an end that reads
\* is given every packet that writePacket sent at the other, once and in order: what is
\* on the way is exactly what was sent and is not yet seen (readLoop and writePacket of
\* handshake.go).
THEOREM EverythingDelivered == Spec => []Delivered
<1>1. Init => IInv /\ \A e \in Ends : InOrder(e)
  BY HandshakeAssumption, InitInvariant, InitInOrder
<1>2. IInv /\ (\A e \in Ends : InOrder(e)) /\ [Next]_vars => IInv' /\ (\A e \in Ends : InOrder(e))'
  BY HandshakeAssumption, Invariance, InOrderStep
<1>3. IInv /\ (\A e \in Ends : InOrder(e)) => Delivered
  BY HandshakeAssumption, InOrderDelivered DEF IInv
<1>4. QED BY <1>1, <1>2, <1>3, PTL DEF Spec
=============================================================================
