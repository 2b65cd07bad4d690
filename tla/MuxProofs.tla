----------------------------- MODULE MuxProofs -----------------------------
(***************************************************************************)
(* Proofs, for any number of channels, that a packet reaches the channel   *)
(* that it was sent for, and a response the request that it responds to.   *)
(*                                                                         *)
(* Numbers are used again, so that the first needs to know that nothing    *)
(* is on its way to a channel when its number becomes free: an end frees a *)
(* number when the close, or the failure, of the other end comes, which is *)
(* the last that the other end sends for the channel (Gone, Ordered).  And *)
(* an end that has not opened the channel learns the number of the other   *)
(* from its open, the one that has from the confirmation, which comes      *)
(* before anything else (Addressed, Confirmed).                            *)
(*                                                                         *)
(* The second holds since at most one thing exists of the request with     *)
(* which somebody waits: the packet, the request at the other end, the     *)
(* reply, or the response (One); and what is closed gets none (Closed).    *)
(*                                                                         *)
(* The last part shows that the ends agree on the channels in use: a close *)
(* that was sent is on its way for as long as the other end lists the      *)
(* channel (Closing), and a listed channel is on its way or open, unless   *)
(* it was rejected (Standing).                                             *)
(***************************************************************************)
EXTENDS Mux, FiniteSetTheorems, TLAPS

Listed(e, c) == local[e][c] \in 1..Len(chans[e]) /\ chans[e][local[e][c]] = c
Reading(e) == loop[e] = "run"
Quiet(e, c) == sentClose[e][c] \/ state[e][c] = "rejected"

\* What a sequence of packets holds; a pair in it that has the right order; and at most
\* one packet of a kind.
Els(s) == {s[i] : i \in 1..Len(s)}
On(e) == Els(wire[e])
Follows(p, q) ==
    p.c = q.c /\ p.c # Global =>
        p.t \notin {"open", "failure", "close"} /\ q.t \notin {"open", "confirm", "failure"}
Ord(s) == \A i, j \in 1..Len(s) : i < j => Follows(s[i], s[j])
Is(p, t, c) == p.t = t /\ p.c = c
Sole(s, t, c) == \A i, j \in 1..Len(s) : Is(s[i], t, c) /\ Is(s[j], t, c) => i = j

\* What stands in a list is a channel that has this number.
Numbered ==
    \A e \in Ends : \A i \in 1..Len(chans[e]) : chans[e][i] # None =>
        local[e][chans[e][i]] = i /\ state[e][chans[e][i]] # "none"

\* What the state of a channel at one end says of its state at the other.
Met ==
    \A e \in Ends, c \in Channels :
        /\ state[e][c] \in {"offered", "open", "rejected"} =>
             remote[e][c] = local[Other(e)][c] /\ state[Other(e)][c] # "none"
        /\ state[e][c] # "none" => local[e][c] > 0
        /\ Opener(c) = e =>
             /\ state[e][c] \notin {"offered", "rejected"}
             /\ state[e][c] = "open" => state[Other(e)][c] = "open"
             /\ state[e][c] \in {"none", "sending"} => state[Other(e)][c] = "none"
             /\ state[Other(e)][c] \in {"none", "offered"} => ~decided[e][c]
        /\ Opener(c) # e => state[e][c] \notin {"sending", "opening"}

\* A packet carries the number of its channel, and was sent by one who may.
Valid(e, p) ==
    LET c == p.c
    IN  /\ c = Global => p.id = 0 /\ p.t \in {"ask", "tell", "reply"}
        /\ c # Global /\ p.t = "open" =>
             /\ Opener(c) = e /\ p.id = local[e][c]
             /\ state[e][c] \in {"opening", "failed"} /\ state[Other(e)][c] = "none"
        /\ c # Global /\ p.t # "open" => p.id = local[Other(e)][c]
        /\ c # Global /\ p.t = "confirm" => p.n = local[e][c]
        /\ c # Global /\ p.t \in {"confirm", "failure"} =>
             Opener(c) = Other(e) /\ ~decided[Other(e)][c]
        /\ c # Global /\ p.t = "failure" => state[e][c] = "rejected"
        /\ c # Global /\ p.t \notin {"open", "failure"} => state[e][c] = "open"
        /\ c # Global /\ p.t = "close" => sentClose[e][c]

Addressed == \A e \in Ends : \A p \in On(e) : Valid(e, p)
Ordered   == \A e \in Ends : Ord(wire[e])

\* A channel that the list no longer has gets no packet any more.
Gone ==
    \A e \in Ends, c \in Channels :
        Reading(e) /\ state[e][c] # "none" /\ ~Listed(e, c) =>
            Quiet(Other(e), c) /\ \A p \in On(Other(e)) : p.c # c

\* Who has opened the channel has got the confirmation, or will.
Confirmed ==
    \A e \in Ends, c \in Channels :
        /\ Opener(c) = Other(e) /\ Reading(Other(e)) /\ Other(e) \in up
        /\ state[e][c] = "open"
        => state[Other(e)][c] = "open" \/ \E p \in On(e) : Is(p, "confirm", c)

\* Requests are those of an open channel.
InUse ==
    \A e \in Ends, c \in Targets : \A p \in Els(requests[e][c]) :
        p.c = c /\ (c # Global => state[e][c] = "open")

Routes == Numbered /\ Met /\ Addressed /\ Ordered /\ Gone /\ Confirmed /\ InUse

\* What there is of the question with which the end waits.
Asks(e, c)    == {p \in On(e) : Is(p, "ask", c)}
Pending(e, c) == {p \in Els(requests[Other(e)][c]) : Is(p, "ask", c)}
Replies(e, c) == {p \in On(Other(e)) : Is(p, "reply", c)}

OneOf(e, c) ==
    /\ msg[e][c] # <<>> => msg[e][c] = <<asked[e][c]>> /\ asked[e][c] # 0
    /\ <<e, c>> \notin closed =>
        /\ Sole(wire[e], "ask", c) /\ Sole(requests[Other(e)][c], "ask", c)
        /\ Sole(wire[Other(e)], "reply", c)
        /\ Asks(e, c) = {} \/ Pending(e, c) = {}
        /\ Asks(e, c) = {} \/ Replies(e, c) = {}
        /\ Pending(e, c) = {} \/ Replies(e, c) = {}
        /\ \A p \in Asks(e, c) \cup Pending(e, c) \cup Replies(e, c) :
             p.n = asked[e][c] /\ asked[e][c] # 0 /\ msg[e][c] = <<>>

One == \A e \in Ends, c \in Targets : OneOf(e, c)

\* What is closed gets neither requests nor responses any more.
Closed ==
    \A e \in Ends, c \in Targets : <<e, c>> \in closed /\ Reading(e) =>
        c # Global /\ state[e][c] # "none" /\ ~Listed(e, c)

IInv == TypeOK /\ Routes /\ One /\ Closed

-----------------------------------------------------------------------------
\* The two ends of a connection.
LEMMA Pair ==
  ASSUME NEW e \in Ends
  PROVE  /\ Other(e) \in Ends /\ Other(Other(e)) = e /\ Other(e) # e
         /\ \A x \in Ends : x = e \/ x = Other(e)
BY DEF Ends, Other

LEMMA OpenerEnd ==
  ASSUME NEW c
  PROVE  Opener(c) \in Ends
BY DEF Opener, Ends

\* A packet is added to a sequence ...
LEMMA Adding ==
  ASSUME NEW s \in Seq(Packets), NEW p \in Packets
  PROVE  /\ Append(s, p) \in Seq(Packets)
         /\ Els(Append(s, p)) = Els(s) \cup {p}
         /\ Ord(s) /\ (\A q \in Els(s) : Follows(q, p)) => Ord(Append(s, p))
         /\ \A t, c : Sole(s, t, c) /\ (Is(p, t, c) => \A q \in Els(s) : ~Is(q, t, c))
                         => Sole(Append(s, p), t, c)
<1> DEFINE r == Append(s, p)
<1>1. /\ r \in Seq(Packets) /\ Len(s) \in Nat /\ Len(r) = Len(s) + 1
      /\ r[Len(r)] = p /\ \A i \in 1..Len(s) : r[i] = s[i]
  OBVIOUS
<1> HIDE DEF r
<1>2. Els(r) = Els(s) \cup {p}
  <2>1. Els(r) \subseteq Els(s) \cup {p}
    BY <1>1 DEF Els
  <2>2. Els(s) \subseteq Els(r)
    BY <1>1 DEF Els
  <2>3. p \in Els(r)
    BY <1>1 DEF Els
  <2>4. QED BY <2>1, <2>2, <2>3
<1>3. ASSUME Ord(s), \A q \in Els(s) : Follows(q, p) PROVE Ord(r)
  <2> SUFFICES ASSUME NEW i \in 1..Len(r), NEW j \in 1..Len(r), i < j
               PROVE  Follows(r[i], r[j])
    BY DEF Ord
  <2>1. i \in 1..Len(s) /\ r[i] = s[i] /\ s[i] \in Els(s)
    BY <1>1 DEF Els
  <2>2. CASE j = Len(r)
    BY <1>1, <1>3, <2>1, <2>2
  <2>3. CASE j # Len(r)
    <3>1. j \in 1..Len(s) /\ r[j] = s[j]
      BY <1>1, <2>3
    <3>2. QED BY <1>3, <2>1, <3>1 DEF Ord
  <2>4. QED BY <2>2, <2>3
<1>4. ASSUME NEW t, NEW c, Sole(s, t, c), Is(p, t, c) => \A q \in Els(s) : ~Is(q, t, c)
      PROVE  Sole(r, t, c)
  <2> SUFFICES ASSUME NEW i \in 1..Len(r), NEW j \in 1..Len(r), Is(r[i], t, c), Is(r[j], t, c)
               PROVE  i = j
    BY DEF Sole
  <2>1. \A k \in 1..Len(r) : k # Len(r) => k \in 1..Len(s) /\ r[k] = s[k] /\ s[k] \in Els(s)
    BY <1>1 DEF Els
  <2>2. CASE i = Len(r) \/ j = Len(r)
    BY <1>1, <1>4, <2>1, <2>2
  <2>3. CASE i # Len(r) /\ j # Len(r)
    BY <1>4, <2>1, <2>3 DEF Sole
  <2>4. QED BY <2>2, <2>3
<1>5. QED BY <1>1, <1>2, <1>3, <1>4 DEF r

\* ... and the first is taken.
LEMMA Taking ==
  ASSUME NEW s \in Seq(Packets), s # <<>>
  PROVE  /\ Tail(s) \in Seq(Packets) /\ Head(s) \in Packets
         /\ Els(s) = Els(Tail(s)) \cup {Head(s)}
         /\ Ord(s) => Ord(Tail(s)) /\ \A q \in Els(Tail(s)) : Follows(Head(s), q)
         /\ \A t, c : Sole(s, t, c) =>
                /\ Sole(Tail(s), t, c)
                /\ Is(Head(s), t, c) => \A q \in Els(Tail(s)) : ~Is(q, t, c)
<1> DEFINE r == Tail(s)
<1>1. /\ r \in Seq(Packets) /\ Head(s) \in Packets /\ Head(s) = s[1]
      /\ Len(s) \in Nat /\ Len(s) >= 1 /\ Len(r) = Len(s) - 1
      /\ \A i \in 1..Len(r) : r[i] = s[i + 1]
  OBVIOUS
<1> HIDE DEF r
<1>2. Els(s) = Els(r) \cup {Head(s)}
  <2>1. ASSUME NEW i \in 1..Len(s) PROVE s[i] \in Els(r) \cup {Head(s)}
    <3>1. CASE i = 1
      BY <1>1, <3>1
    <3>2. CASE i # 1
      <4>1. i - 1 \in 1..Len(r) /\ r[i - 1] = s[i]
        BY <1>1, <3>2
      <4>2. QED BY <4>1 DEF Els
    <3>3. QED BY <3>1, <3>2
  <2>2. Els(r) \subseteq Els(s)
    <3>1. ASSUME NEW i \in 1..Len(r) PROVE i + 1 \in 1..Len(s) /\ r[i] = s[i + 1]
      BY <1>1
    <3>2. QED BY <3>1 DEF Els
  <2>3. Head(s) \in Els(s)
    BY <1>1 DEF Els
  <2>4. QED BY <2>1, <2>2, <2>3 DEF Els
<1>3. ASSUME Ord(s)
      PROVE  Ord(r) /\ \A q \in Els(r) : Follows(Head(s), q)
  <2>1. ASSUME NEW i \in 1..Len(r), NEW j \in 1..Len(r), i < j PROVE Follows(r[i], r[j])
    <3>1. i + 1 \in 1..Len(s) /\ j + 1 \in 1..Len(s) /\ i + 1 < j + 1
      BY <1>1, <2>1
    <3>2. QED BY <1>1, <1>3, <3>1 DEF Ord
  <2>2. ASSUME NEW i \in 1..Len(r) PROVE Follows(Head(s), r[i])
    <3>1. 1 \in 1..Len(s) /\ i + 1 \in 1..Len(s) /\ 1 < i + 1
      BY <1>1
    <3>2. QED BY <1>1, <1>3, <3>1 DEF Ord
  <2>3. QED BY <2>1, <2>2 DEF Ord, Els
<1>4. ASSUME NEW t, NEW c, Sole(s, t, c)
      PROVE  /\ Sole(r, t, c)
             /\ Is(Head(s), t, c) => \A q \in Els(r) : ~Is(q, t, c)
  <2>1. ASSUME NEW i \in 1..Len(r), NEW j \in 1..Len(r), Is(r[i], t, c), Is(r[j], t, c)
        PROVE  i = j
    <3>1. i + 1 \in 1..Len(s) /\ j + 1 \in 1..Len(s)
      BY <1>1
    <3>2. i + 1 = j + 1
      BY <1>1, <1>4, <2>1, <3>1 DEF Sole
    <3>3. QED BY <1>1, <3>2
  <2>2. ASSUME NEW i \in 1..Len(r), Is(Head(s), t, c) PROVE ~Is(r[i], t, c)
    <3>1. 1 \in 1..Len(s) /\ i + 1 \in 1..Len(s) /\ 1 # i + 1
      BY <1>1
    <3>2. QED BY <1>1, <1>4, <2>2, <3>1 DEF Sole
  <2>3. QED BY <2>1, <2>2 DEF Sole, Els
<1>5. QED BY <1>1, <1>2, <1>3, <1>4 DEF r

LEMMA NothingIn ==
  /\ Els(<<>>) = {} /\ Ord(<<>>)
  /\ \A t, c : Sole(<<>>, t, c)
BY DEF Els, Ord, Sole
\* A set of positive numbers has a least one.  Otherwise the numbers below all of
\* it would go on for ever: adding one would be an injection of a finite set
\* into itself that leaves out 0.
LEMMA Least ==
  ASSUME NEW n \in Nat, NEW S \in SUBSET (1..n), S # {}
  PROVE  \E i \in S : \A j \in S : i <= j
<1> SUFFICES ASSUME \A i \in S : \E j \in S : j < i
             PROVE  FALSE
  OBVIOUS
<1> DEFINE Below == {i \in 0..n : \A j \in S : i < j}
           f == [i \in Below |-> i + 1]
<1>1. 0 \in Below
  OBVIOUS
<1>2. f \in [Below -> Below]
  <2>1. ASSUME NEW i \in Below PROVE i + 1 \in Below
    <3>1. \A j \in S : i + 1 <= j
      OBVIOUS
    <3>2. i + 1 \notin S
      BY <3>1
    <3>3. \A j \in S : i + 1 < j
      BY <3>1, <3>2
    <3>4. PICK k \in S : k \in 1..n
      OBVIOUS
    <3>5. QED BY <3>3, <3>4
  <2>2. QED BY <2>1
<1>3. f \in Injection(Below, Below)
  <2>1. \A a, b \in Below : f[a] = f[b] => a = b
    OBVIOUS
  <2>2. DOMAIN f = Below
    OBVIOUS
  <2> HIDE DEF f, Below
  <2>3. QED BY <1>2, <2>1, <2>2 DEF Injection, IsInjective
<1>4. IsFiniteSet(Below)
  <2>1. IsFiniteSet(0..n) /\ Below \subseteq 0..n
    BY FS_Interval
  <2> HIDE DEF Below
  <2> QED BY <2>1, FS_Subset
<1>5. f \in Surjection(Below, Below)
  <2> HIDE DEF f, Below
  <2> QED BY <1>3, <1>4, FS_Injection
<1>6. PICK i \in Below : f[i] = 0
  <2> HIDE DEF f, Below
  <2> QED BY <1>1, <1>5 DEF Surjection
<1>7. QED BY <1>6

LEMMA FreeSlot ==
  ASSUME TypeOK, NEW e \in Ends
  PROVE  /\ Free(e) \in 1..(Len(chans[e]) + 1)
         /\ Free(e) = Len(chans[e]) + 1 \/ chans[e][Free(e)] = None
<1> DEFINE n == Len(chans[e])
           S == {i \in 1..(n + 1) : i = n + 1 \/ chans[e][i] = None}
<1>1. n \in Nat
  BY DEF TypeOK
<1>2. S \in SUBSET (1..(n + 1)) /\ n + 1 \in S
  BY <1>1
<1>3. PICK i \in S : \A j \in S : i <= j
  <2>1. n + 1 \in Nat
    BY <1>1
  <2> HIDE DEF n, S
  <2> QED BY <2>1, <1>2, Least
<1>4. \E k \in 1..(n + 1) : /\ k = n + 1 \/ chans[e][k] = None
                            /\ \A j \in 1..(k - 1) : chans[e][j] # None
  <2>1. ASSUME NEW j \in 1..(i - 1) PROVE chans[e][j] # None
    BY <1>1, <1>3
  <2>2. QED BY <1>3, <2>1
<1>5. /\ Free(e) \in 1..(n + 1)
      /\ Free(e) = n + 1 \/ chans[e][Free(e)] = None
  <2> HIDE DEF n
  <2> QED BY <1>4 DEF Free, n
<1>6. QED BY <1>5
-----------------------------------------------------------------------------
\* What a send and a receipt do to what is on the way.
LEMMA SendEffect ==
  ASSUME TypeOK, NEW e \in Ends, NEW p \in Packets, Sends(e, p)
  PROVE  /\ wire' \in [Ends -> Seq(Packets)]
         /\ wire'[Other(e)] = wire[Other(e)]
         /\ On(e) \subseteq On(e)' /\ On(e)' \subseteq On(e) \cup {p}
         /\ up = Ends => p \in On(e)'
         /\ Ord(wire[e]) /\ (\A q \in On(e) : Follows(q, p)) => Ord(wire'[e])
         /\ \A t, c : Sole(wire[e], t, c) /\ (Is(p, t, c) => \A q \in On(e) : ~Is(q, t, c))
                         => Sole(wire'[e], t, c)
<1>1. wire[e] \in Seq(Packets)
  BY DEF TypeOK
<1>2. /\ wire' \in [Ends -> Seq(Packets)]
      /\ wire'[Other(e)] = wire[Other(e)]
      /\ wire'[e] = IF up = Ends THEN Append(wire[e], p) ELSE wire[e]
  BY <1>1, Pair, Adding DEF TypeOK, Sends
<1>3. QED BY <1>1, <1>2, Adding DEF On

LEMMA TakeEffect ==
  ASSUME TypeOK, NEW e \in Ends, Takes(e), Taken(e)
  PROVE  /\ wire' \in [Ends -> Seq(Packets)]
         /\ wire'[e] = wire[e]
         /\ Coming(e) \in Packets
         /\ On(Other(e)) = On(Other(e))' \cup {Coming(e)}
         /\ Ord(wire[Other(e)]) => /\ Ord(wire'[Other(e)])
                                   /\ \A q \in On(Other(e))' : Follows(Coming(e), q)
         /\ \A t, c : Sole(wire[Other(e)], t, c) =>
                /\ Sole(wire'[Other(e)], t, c)
                /\ Is(Coming(e), t, c) => \A q \in On(Other(e))' : ~Is(q, t, c)
<1>1. wire[Other(e)] \in Seq(Packets) /\ wire[Other(e)] # <<>>
  BY Pair DEF TypeOK, Takes
<1>2. /\ wire' \in [Ends -> Seq(Packets)]
      /\ wire'[e] = wire[e]
      /\ wire'[Other(e)] = Tail(wire[Other(e)])
  BY <1>1, Pair, Taking DEF TypeOK, Taken
<1>3. QED BY <1>1, <1>2, Taking DEF On, Coming

-----------------------------------------------------------------------------
\* The types.
LEMMA AddedType ==
  ASSUME TypeOK, NEW e \in Ends, NEW c \in Channels, Added(e, c)
  PROVE  /\ chans' \in [Ends -> Seq(Channels \cup {None})]
         /\ chans'[Other(e)] = chans[Other(e)]
         /\ Free(e) \in Nat \ {0}
         /\ Free(e) \in 1..Len(chans'[e]) /\ chans'[e][Free(e)] = c
         /\ \A i \in 1..Len(chans'[e]) : i # Free(e) =>
              i \in 1..Len(chans[e]) /\ chans'[e][i] = chans[e][i]
         /\ \A i \in 1..Len(chans[e]) : i # Free(e) =>
              i \in 1..Len(chans'[e]) /\ chans'[e][i] = chans[e][i]
         /\ Free(e) \in 1..Len(chans[e]) => chans[e][Free(e)] = None
<1> DEFINE n == Len(chans[e])
           m == IF Free(e) > n THEN Free(e) ELSE n
           s == [i \in 1..m |-> IF i = Free(e) THEN c ELSE chans[e][i]]
<1>1. chans \in [Ends -> Seq(Channels \cup {None})] /\ n \in Nat
  BY DEF TypeOK
<1>2. /\ Free(e) \in 1..(n + 1)
      /\ Free(e) = n + 1 \/ chans[e][Free(e)] = None
  BY FreeSlot
<1>3. m \in Nat /\ m >= n /\ m >= Free(e) /\ (\A i \in 1..m : i # Free(e) => i \in 1..n)
  BY <1>1, <1>2
<1>4. \A i \in 1..n : chans[e][i] \in Channels \cup {None}
  BY <1>1
<1>5. s \in Seq(Channels \cup {None}) /\ Len(s) = m
  <2> HIDE DEF m, n
  <2>1. \A i \in 1..m : s[i] \in Channels \cup {None}
    BY <1>3, <1>4
  <2>2. s \in [1..m -> Channels \cup {None}]
    BY <2>1
  <2>3. QED BY <1>3, <2>2
<1>6. chans'[e] = s /\ chans'[Other(e)] = chans[Other(e)]
      /\ chans' \in [Ends -> Seq(Channels \cup {None})]
  <2>1. chans' = [chans EXCEPT ![e] = s]
    BY DEF Added
  <2> HIDE DEF s
  <2>2. QED BY <1>1, <1>5, <2>1, Pair
<1>7. QED BY <1>1, <1>2, <1>3, <1>5, <1>6

LEMMA PacketType ==
  ASSUME NEW t \in {"open", "confirm", "failure", "close", "ask", "tell", "reply"},
         NEW id \in Nat, NEW c \in Targets, NEW n \in Nat
  PROVE  /\ Packet(t, id, c, n) \in Packets
         /\ Packet(t, id, c, n).t = t /\ Packet(t, id, c, n).id = id
         /\ Packet(t, id, c, n).c = c /\ Packet(t, id, c, n).n = n
BY DEF Packet, Packets

LEMMA OfType ==
  ASSUME TypeOK, NEW e \in Ends
  PROVE  Of(e) \in Channels \cup {None, Global}
BY DEF TypeOK, Of, GetChan

-----------------------------------------------------------------------------
\* The packet that an end takes next reaches what it was sent for, and may.
LEMMA Arrives ==
  ASSUME TypeOK, Routes, NEW e \in Ends, Takes(e)
  PROVE  /\ Coming(e) \in Packets /\ Coming(e) \in On(Other(e))
         /\ Valid(Other(e), Coming(e))
         /\ Coming(e).t = "open" => Coming(e).c \in Channels
         /\ Coming(e).t # "open" =>
              /\ Of(e) = Coming(e).c
              /\ Coming(e).c # Global => Listed(e, Coming(e).c) /\ Coming(e).id = local[e][Coming(e).c]
              /\ Coming(e).t \in {"confirm", "failure"} => Responds(e, Coming(e).c)
         /\ Coming(e).t \notin {"open", "confirm", "failure"} /\ Coming(e).c # Global =>
              state[e][Coming(e).c] = "open" /\ state[Other(e)][Coming(e).c] = "open"
<1> DEFINE o == Other(e)
           p == Coming(e)
           c == p.c
<1>1. o \in Ends /\ Other(o) = e
  BY Pair
<1>2. p \in Packets /\ p \in On(o)
  <2>1. wire[o] \in Seq(Packets) /\ wire[o] # <<>>
    BY <1>1 DEF TypeOK, Takes
  <2>2. QED BY <2>1, Taking DEF On, Coming
<1>3. Valid(o, p)
  BY <1>1, <1>2 DEF Routes, Addressed
<1>4. p.t \in {"open", "confirm", "failure", "close", "ask", "tell", "reply"}
      /\ c \in Channels \cup {Global} /\ p.id \in Nat
  BY <1>2 DEF Packets, Targets
<1>5. p.t \in {"open", "confirm", "failure", "close"} => c # Global
  BY <1>3 DEF Valid
<1>6. ASSUME p.t # "open", c # Global
      PROVE  /\ p.id = local[e][c] /\ p.id > 0 /\ state[e][c] # "none"
             /\ Listed(e, c)
  <2>1. p.id = local[e][c] /\ state[o][c] \in {"open", "rejected"}
    BY <1>1, <1>3, <1>4, <1>6 DEF Valid
  <2>2. c \in Channels
    BY <1>4, <1>6
  <2>3. state[e][c] # "none" /\ local[e][c] > 0
    BY <1>1, <2>1, <2>2 DEF Routes, Met
  <2>4. Reading(e)
    BY DEF Takes, Reading
  <2>5. Listed(e, c)
    BY <1>2, <2>2, <2>3, <2>4 DEF Routes, Gone
  <2>6. QED BY <2>1, <2>3, <2>5
<1>7. p.t # "open" => Of(e) = c
  <2>1. CASE p.t # "open" /\ c # Global
    <3>1. p.id # 0 /\ Of(e) = GetChan(e, p.id)
      BY <1>4, <1>6, <2>1 DEF Of
    <3>2. QED BY <1>6, <2>1, <3>1 DEF GetChan, Listed
  <2>2. CASE c = Global
    <3>1. p.id = 0
      BY <1>3, <2>2 DEF Valid
    <3>2. QED BY <2>2, <3>1 DEF Of
  <2>3. QED BY <2>1, <2>2
<1>8. p.t \in {"confirm", "failure"} => Responds(e, c)
  BY <1>1, <1>3, <1>5 DEF Valid, Responds
<1>9. ASSUME p.t \notin {"open", "confirm", "failure"}, c # Global
      PROVE  state[e][c] = "open" /\ state[o][c] = "open"
  <2>1. state[o][c] = "open" /\ c \in Channels
    BY <1>3, <1>4, <1>9 DEF Valid
  <2>2. CASE Opener(c) = o
    BY <1>1, <2>1, <2>2 DEF Routes, Met
  <2>3. CASE Opener(c) = e
    <3>1. ASSUME NEW q \in On(o), Is(q, "confirm", c) PROVE FALSE
      <4>1. wire[o] \in Seq(Packets) /\ wire[o] # <<>> /\ Ord(wire[o])
        BY <1>1 DEF TypeOK, Takes, Routes, Ordered
      <4>2. q = p \/ Follows(p, q)
        BY <4>1, Taking DEF On, Coming
      <4>3. QED BY <1>9, <3>1, <4>2 DEF Follows, Is
    <3>2. Reading(e) /\ e \in up
      BY DEF Takes, Reading
    <3>3. QED BY <1>1, <2>1, <2>3, <3>1, <3>2 DEF Routes, Confirmed
  <2>4. QED BY <1>1, <2>2, <2>3, Pair, OpenerEnd
<1>10. QED BY <1>2, <1>3, <1>4, <1>5, <1>6, <1>7, <1>8, <1>9

-----------------------------------------------------------------------------
\* Every step keeps the types.
LEMMA TypeStep == TypeOK /\ Routes /\ [Next]_vars => TypeOK'
<1> SUFFICES ASSUME TypeOK, Routes, [Next]_vars PROVE TypeOK'
  OBVIOUS
<1>1. ASSUME NEW e \in Ends, NEW c \in Channels, Opens(e, c) \/ Decides(e, c) \/ Close(e, c)
      PROVE  TypeOK'
  <2>1. CASE Open(e, c)
    <3>1. chans' \in [Ends -> Seq(Channels \cup {None})] /\ Free(e) \in Nat
      BY <2>1, AddedType DEF Open
    <3>2. QED BY <2>1, <3>1 DEF TypeOK, Open, request, conn
  <2>2. ASSUME NEW p \in Packets, Sends(e, p) PROVE wire' \in [Ends -> Seq(Packets)]
    BY <2>2, SendEffect
  <2>3. /\ local[e][c] \in Nat /\ remote[e][c] \in Nat /\ c \in Targets
        /\ wire \in [Ends -> Seq(Packets)]
    BY DEF TypeOK, Targets
  <2>4. CASE SendOpen(e, c)
    <3>1. Packet("open", local[e][c], c, 0) \in Packets
      BY <2>3, PacketType
    <3>2. wire' \in [Ends -> Seq(Packets)]
      BY <2>2, <2>4, <3>1 DEF SendOpen
    <3>3. QED BY <2>4, <3>2 DEF TypeOK, SendOpen, request
  <2>5. CASE OpenFails(e, c)
    BY <2>5 DEF TypeOK, OpenFails, request, conn
  <2>6. CASE Accept(e, c)
    <3>1. Packet("confirm", remote[e][c], c, local[e][c]) \in Packets
      BY <2>3, PacketType
    <3>2. wire' \in [Ends -> Seq(Packets)]
      BY <2>2, <2>3, <2>6, <3>1 DEF Accept
    <3>3. \E v \in {"open", "failed"} : state' = [state EXCEPT ![e][c] = v]
      BY <2>6 DEF Accept
    <3>4. state' \in [Ends -> [Channels ->
              {"none", "sending", "opening", "failed", "offered", "open", "rejected"}]]
      BY <3>3 DEF TypeOK
    <3>5. /\ decided' \in [Ends -> [Channels -> BOOLEAN]]
          /\ UNCHANGED <<chans, local, remote, sentClose, closed, request, loop, up>>
      BY <2>6 DEF TypeOK, Accept
    <3>6. QED BY <3>2, <3>4, <3>5 DEF TypeOK, request
  <2>7. CASE Reject(e, c)
    <3>1. Packet("failure", remote[e][c], c, 0) \in Packets
      BY <2>3, PacketType
    <3>2. wire' \in [Ends -> Seq(Packets)]
      BY <2>2, <2>3, <2>7, <3>1 DEF Reject
    <3>3. QED BY <2>7, <3>2 DEF TypeOK, Reject, request
  <2>8. CASE Close(e, c)
    <3>1. Packet("close", remote[e][c], c, 0) \in Packets
      BY <2>3, PacketType
    <3>2. wire' \in [Ends -> Seq(Packets)]
      BY <2>2, <2>8, <3>1 DEF Close
    <3>3. QED BY <2>8, <3>2 DEF TypeOK, Close, request
  <2>9. QED BY <1>1, <2>1, <2>4, <2>5, <2>6, <2>7, <2>8 DEF Opens, Decides
<1>2. ASSUME NEW e \in Ends, NEW c \in Targets, NEW wantReply \in BOOLEAN,
             SendRequest(e, c, wantReply)
      PROVE  TypeOK'
  <2>1. made + 1 \in Nat /\ (IF c = Global THEN 0 ELSE remote[e][c]) \in Nat
    BY DEF TypeOK, Targets
  <2> DEFINE p == Packet(IF wantReply THEN "ask" ELSE "tell",
                         IF c = Global THEN 0 ELSE remote[e][c], c, made + 1)
  <2>2. p \in Packets /\ Sends(e, p)
    BY <1>2, <2>1, PacketType DEF SendRequest
  <2> HIDE DEF p
  <2>3. wire' \in [Ends -> Seq(Packets)]
    BY <2>2, SendEffect
  <2>4. asked' \in [Ends -> [Targets -> Nat]]
    BY <1>2, <2>1 DEF SendRequest, TypeOK
  <2>5. QED BY <1>2, <2>1, <2>3, <2>4 DEF SendRequest, TypeOK, channel
<1>3. ASSUME NEW e \in Ends, NEW c \in Targets, Returns(e, c)
      PROVE  TypeOK'
  <2>1. msg[e][c] # <<>> => Tail(msg[e][c]) \in Seq(Nat)
    BY DEF TypeOK
  <2>2. msg' \in [Ends -> [Targets -> Seq(Nat)]]
    BY <1>3, <2>1 DEF Returns, TypeOK
  <2>3. QED BY <1>3, <2>2 DEF Returns, TypeOK, channel, conn
<1>4. ASSUME NEW e \in Ends, NEW c \in Targets, Reply(e, c)
      PROVE  TypeOK'
  <2>1. requests[e][c] \in Seq(Packets) /\ requests[e][c] # <<>>
    BY <1>4 DEF TypeOK, Reply
  <2>2. /\ Head(requests[e][c]) \in Packets /\ Tail(requests[e][c]) \in Seq(Packets)
        /\ Head(requests[e][c]).n \in Nat
    BY <2>1, Taking DEF Packets
  <2> DEFINE p == Packet("reply", IF c = Global THEN 0 ELSE remote[e][c], c,
                         Head(requests[e][c]).n)
  <2>3. (IF c = Global THEN 0 ELSE remote[e][c]) \in Nat /\ wire \in [Ends -> Seq(Packets)]
    BY DEF TypeOK, Targets
  <2>4. p \in Packets
    BY <2>2, <2>3, PacketType
  <2>5. Sends(e, p) \/ wire' = wire
    BY <1>4 DEF Reply
  <2> HIDE DEF p
  <2>6. wire' \in [Ends -> Seq(Packets)]
    BY <2>3, <2>4, <2>5, SendEffect
  <2>7. requests' \in [Ends -> [Targets -> Seq(Packets)]]
    BY <1>4, <2>2 DEF Reply, TypeOK
  <2>8. QED BY <1>4, <2>6, <2>7 DEF Reply, TypeOK, channel
<1>5. ASSUME NEW e \in Ends, Loop(e)
      PROVE  TypeOK'
  <2>1. Takes(e) => /\ Coming(e) \in Packets /\ Coming(e).id \in Nat /\ Coming(e).n \in Nat
                    /\ Coming(e).c \in Targets
    BY Arrives DEF Packets
  <2>2. ASSUME Takes(e), Taken(e)
        PROVE  wire' \in [Ends -> Seq(Packets)]
    BY <2>2, TakeEffect
  <2>3. ASSUME NEW id, Removed(e, id) PROVE chans' \in [Ends -> Seq(Channels \cup {None})]
    <3>1. chans[e] \in Seq(Channels \cup {None}) /\ chans \in [Ends -> Seq(Channels \cup {None})]
      BY DEF TypeOK
    <3>2. ASSUME NEW S, NEW s \in Seq(S), NEW v \in S PROVE [s EXCEPT ![id] = v] \in Seq(S)
      <4>1. s \in [1..Len(s) -> S] /\ Len(s) \in Nat
        OBVIOUS
      <4>2. [s EXCEPT ![id] = v] \in [1..Len(s) -> S]
        BY <4>1
      <4>3. QED BY <4>1, <4>2
    <3>3. QED BY <2>3, <3>1, <3>2 DEF Removed
  <2>4. CASE HandleOpen(e)
    <3>1. Coming(e).c \in Channels
      BY <2>4, Arrives DEF HandleOpen
    <3>2. chans' \in [Ends -> Seq(Channels \cup {None})] /\ Free(e) \in Nat
      BY <2>4, <3>1, AddedType DEF HandleOpen
    <3>3. QED BY <2>1, <2>2, <2>4, <3>1, <3>2 DEF HandleOpen, TypeOK, request
  <2>5. CASE HandleConfirm(e)
    BY <2>1, <2>2, <2>5 DEF HandleConfirm, TypeOK, request
  <2>6. CASE HandleFailure(e)
    BY <2>1, <2>2, <2>3, <2>6 DEF HandleFailure, TypeOK, request
  <2>7. CASE HandleClose(e)
    <3> DEFINE c == Coming(e).c
               p == Packet("close", remote[e][c], c, 0)
    <3>1. c \in Channels /\ Of(e) = c
      BY <2>1, <2>7, Arrives DEF HandleClose, Valid, Targets
    <3>2. p \in Packets /\ wire[e] \in Seq(Packets)
      <4>1. remote[e][c] \in Nat /\ c \in Targets /\ wire[e] \in Seq(Packets)
        BY <3>1 DEF TypeOK, Targets
      <4>2. QED BY <4>1, PacketType
    <3>3. wire[Other(e)] \in Seq(Packets) /\ Tail(wire[Other(e)]) \in Seq(Packets)
      BY <2>7, Pair, Taking DEF HandleClose, Takes, TypeOK
    <3>4. Append(wire[e], p) \in Seq(Packets)
      BY <3>2, Adding
    <3>5. wire' = [wire EXCEPT ![Other(e)] = Tail(@),
                              ![e] = IF sentClose[e][c] \/ up # Ends THEN @ ELSE Append(@, p)]
      BY <2>7, <3>1 DEF HandleClose
    <3>6. <<e, c>> \in Ends \X Targets
      BY <3>1 DEF Targets
    <3> HIDE DEF p
    <3>7. wire' \in [Ends -> Seq(Packets)]
      BY <3>2, <3>3, <3>4, <3>5, Pair DEF TypeOK
    <3>8. QED BY <2>3, <2>7, <3>1, <3>6, <3>7 DEF HandleClose, TypeOK, request
  <2>8. CASE HandleRequest(e)
    <3>1. Of(e) \in Targets /\ Coming(e) \in Packets
      BY <2>8, OfType, Arrives DEF HandleRequest, Targets
    <3>2. Append(requests[e][Of(e)], Coming(e)) \in Seq(Packets)
      BY <3>1, Adding DEF TypeOK
    <3>3. requests' \in [Ends -> [Targets -> Seq(Packets)]]
      BY <2>8, <3>2 DEF HandleRequest, TypeOK
    <3>4. QED BY <2>2, <2>8, <3>3 DEF HandleRequest, TypeOK, channel
  <2>9. CASE HandleReply(e)
    <3>1. Of(e) \in Targets
      BY <2>9, OfType DEF HandleReply, Targets
    <3>2. Append(msg[e][Of(e)], Coming(e).n) \in Seq(Nat)
      BY <2>1, <2>9, <3>1 DEF HandleReply, TypeOK
    <3>3. msg' \in [Ends -> [Targets -> Seq(Nat)]]
      BY <2>9, <3>2 DEF HandleReply, TypeOK
    <3>4. QED BY <2>2, <2>9, <3>3 DEF HandleReply, TypeOK, channel
  <2>10. CASE OnePacketFails(e)
    <3>1. Refused(e) => Tail(wire[Other(e)]) \in Seq(Packets)
      BY Pair, Taking DEF Refused, Takes, TypeOK
    <3>2. wire' \in [Ends -> Seq(Packets)]
      BY <2>10, <3>1, Pair DEF OnePacketFails, TypeOK
    <3>3. QED BY <2>10, <3>2 DEF OnePacketFails, TypeOK, channel, request
  <2>11. CASE DropAll(e)
    <3> DEFINE known == {chans[e][i] : i \in 1..Len(chans[e])} \ {None}
    <3>1. known \subseteq Channels
      BY DEF TypeOK
    <3>2. closed' = closed \cup {<<e, c>> : c \in known}
      BY <2>11 DEF DropAll
    <3>3. {<<e, c>> : c \in known} \subseteq Ends \X Targets
      <4> HIDE DEF known
      <4> QED BY <3>1 DEF Targets
    <3> HIDE DEF known
    <3>4. closed' \subseteq Ends \X Targets
      BY <3>2, <3>3 DEF TypeOK
    <3>5. sentClose' \in [Ends -> [Channels -> BOOLEAN]]
      <4>1. \E k : sentClose' = [sentClose EXCEPT ![e] = [c \in Channels |-> @[c] \/ c \in k]]
        BY <2>11 DEF DropAll
      <4>2. PICK k : sentClose' = [sentClose EXCEPT ![e] = [c \in Channels |-> @[c] \/ c \in k]]
        BY <4>1
      <4>3. QED BY <4>2 DEF TypeOK
    <3>6. chans' \in [Ends -> Seq(Channels \cup {None})] /\ loop' \in [Ends -> {"run", "drop", "close", "done"}]
      BY <2>11 DEF DropAll, TypeOK
    <3>7. QED BY <2>11, <3>4, <3>5, <3>6 DEF DropAll, TypeOK, request
  <2>12. CASE CloseConn(e)
    <3>1. wire' \in [Ends -> Seq(Packets)]
      BY <2>12, Pair DEF CloseConn, TypeOK
    <3>2. <<e, Global>> \in Ends \X Targets
      BY DEF Targets
    <3>3. closed' \subseteq Ends \X Targets /\ up' \subseteq Ends
      BY <2>12, <3>2 DEF CloseConn, TypeOK
    <3>4. loop' \in [Ends -> {"run", "drop", "close", "done"}]
      BY <2>12 DEF CloseConn, TypeOK
    <3>5. QED BY <2>12, <3>1, <3>3, <3>4 DEF CloseConn, TypeOK, request
  <2>13. QED
    BY <1>5, <2>4, <2>5, <2>6, <2>7, <2>8, <2>9, <2>10, <2>11, <2>12 DEF Loop
<1>6. CASE Lose
  <2>1. wire' \in [Ends -> Seq(Packets)] /\ up' \subseteq Ends
    BY <1>6 DEF Lose
  <2>2. QED BY <1>6, <2>1 DEF Lose, TypeOK, channel, request
<1>7. CASE UNCHANGED vars
  BY <1>7 DEF TypeOK, vars, channel, request, conn
<1>8. QED BY <1>1, <1>2, <1>3, <1>4, <1>5, <1>6, <1>7 DEF Next

-----------------------------------------------------------------------------
\* What is on the way is valid.
LEMMA Carried ==
  ASSUME TypeOK, Routes, NEW x \in Ends, NEW p \in On(x)
  PROVE  p \in Packets /\ Valid(x, p) /\ (p.c \in Channels \/ p.c = Global)
<1>1. wire[x] \in Seq(Packets)
  BY DEF TypeOK
<1>2. p \in Packets
  BY <1>1 DEF On, Els
<1>3. QED BY <1>2 DEF Routes, Addressed, Packets, Targets

\* A step that sends nothing and changes no channel that is still listed.
LEMMA Fewer ==
  ASSUME TypeOK, TypeOK', Routes, Numbered', InUse',
         UNCHANGED <<state, local, remote, decided>>,
         \A x \in Ends : Reading(x)' => Reading(x) /\ chans'[x] = chans[x],
         \A x \in Ends, d \in Channels : sentClose[x][d] => sentClose'[x][d],
         \A x \in Ends : On(x)' \subseteq On(x) /\ Ord(wire'[x]),
         \A x \in Ends : Reading(x)' /\ x \in up' =>
            x \in up /\ \A p \in On(Other(x)) : p.t = "confirm" => p \in On(Other(x))'
  PROVE  Routes'
<1>1. Met'
  BY DEF Routes, Met
<1>2. Addressed'
  <2>1. ASSUME NEW x \in Ends, NEW p \in On(x)' PROVE Valid(x, p)'
    <3>1. Valid(x, p) /\ (p.c \in Channels \/ p.c = Global)
      BY <2>1, Carried
    <3>2. QED BY <2>1, <3>1, Pair DEF Valid
  <2>2. QED BY <2>1 DEF Addressed
<1>3. Ordered'
  BY DEF Ordered
<1>4. Gone'
  <2>1. ASSUME NEW x \in Ends, NEW d \in Channels,
               Reading(x)', state'[x][d] # "none", ~Listed(x, d)'
        PROVE  Quiet(Other(x), d)' /\ \A p \in On(Other(x))' : p.c # d
    <3>1. Reading(x) /\ state[x][d] # "none" /\ ~Listed(x, d)
      BY <2>1 DEF Listed
    <3>2. Quiet(Other(x), d) /\ \A p \in On(Other(x)) : p.c # d
      BY <3>1 DEF Routes, Gone
    <3>3. QED BY <3>2, Pair DEF Quiet
  <2>2. QED BY <2>1 DEF Gone
<1>5. Confirmed'
  <2>1. ASSUME NEW x \in Ends, NEW d \in Channels, Opener(d) = Other(x),
               Reading(Other(x))', Other(x) \in up', state'[x][d] = "open"
        PROVE  state'[Other(x)][d] = "open" \/ \E p \in On(x)' : Is(p, "confirm", d)
    <3>1. state[Other(x)][d] = "open" \/ \E p \in On(x) : Is(p, "confirm", d)
      BY <2>1, Pair DEF Routes, Confirmed
    <3>2. QED BY <2>1, <3>1, Pair DEF Is
  <2>2. QED BY <2>1 DEF Confirmed
<1>6. QED BY <1>1, <1>2, <1>3, <1>4, <1>5 DEF Routes

\* A step that sends a packet for an open channel, or for the connection.
LEMMA Sent ==
  ASSUME TypeOK, TypeOK', Routes, InUse', NEW e \in Ends, NEW p \in Packets,
         UNCHANGED <<chans, state, local, remote, decided, loop, up>>,
         \A x \in Ends, d \in Channels : sentClose[x][d] => sentClose'[x][d],
         p.t \in {"close", "ask", "tell", "reply"}, Valid(e, p)',
         p.c # Global => state[e][p.c] = "open" /\ ~sentClose[e][p.c],
         Sends(e, p)
  PROVE  Routes'
<1> DEFINE o == Other(e)
<1>1. /\ o \in Ends /\ Other(o) = e /\ o # e /\ \A x \in Ends : x = e \/ x = o
  BY Pair
<1>2. p.c \in Channels \/ p.c = Global
  BY DEF Packets, Targets
<1>3. \A x \in Ends : \A q \in On(x) : Valid(x, q) /\ (q.c \in Channels \/ q.c = Global)
  BY Carried
<1>4. ASSUME NEW q \in On(e) PROVE Follows(q, p)
  <2>1. Valid(e, q)
    BY <1>3
  <2>2. QED BY <2>1 DEF Valid, Follows
<1>5. /\ On(e) \subseteq On(e)' /\ On(e)' \subseteq On(e) \cup {p}
      /\ wire'[o] = wire[o] /\ Ord(wire'[e])
  BY <1>4, SendEffect DEF Routes, Ordered
<1>6. On(o)' = On(o)
  BY <1>5 DEF On
<1>7. Numbered' /\ Met'
  BY DEF Routes, Numbered, Met
<1>8. Ordered'
  BY <1>1, <1>5 DEF Routes, Ordered
<1>9. Addressed'
  <2>1. ASSUME NEW x \in Ends, NEW q \in On(x), Valid(x, q), q.c \in Channels \/ q.c = Global
        PROVE  Valid(x, q)'
    BY <2>1, Pair DEF Valid
  <2>2. ASSUME NEW q \in On(e)' PROVE Valid(e, q)'
    BY <1>3, <1>5, <2>1, <2>2
  <2>3. ASSUME NEW q \in On(o)' PROVE Valid(o, q)'
    BY <1>1, <1>3, <1>6, <2>1, <2>3
  <2>4. QED BY <1>1, <2>2, <2>3 DEF Addressed
<1>10. Gone'
  <2>1. ASSUME NEW x \in Ends, NEW d \in Channels,
               Reading(x)', state'[x][d] # "none", ~Listed(x, d)'
        PROVE  Quiet(Other(x), d)' /\ \A q \in On(Other(x))' : q.c # d
    <3>1. Reading(x) /\ state[x][d] # "none" /\ ~Listed(x, d)
      BY <2>1 DEF Listed, Reading
    <3>2. Quiet(Other(x), d) /\ \A q \in On(Other(x)) : q.c # d
      BY <3>1 DEF Routes, Gone
    <3>3. Quiet(Other(x), d)'
      BY <3>2, Pair DEF Quiet
    <3>4. CASE x = o
      <4>1. p.c # d
        BY <1>1, <1>2, <3>2, <3>4, MuxAssumption DEF Quiet
      <4>2. QED BY <1>1, <1>5, <3>2, <3>3, <3>4, <4>1
    <3>5. CASE x = e
      BY <1>1, <1>6, <3>2, <3>3, <3>5
    <3>6. QED BY <1>1, <3>4, <3>5
  <2>2. QED BY <2>1 DEF Gone
<1>11. Confirmed'
  BY <1>1, <1>5, <1>6 DEF Routes, Confirmed, Reading
<1>12. QED BY <1>7, <1>8, <1>9, <1>10, <1>11 DEF Routes

-----------------------------------------------------------------------------
\* What stands in a list, and the numbers of a channel.
LEMMA Entries ==
  ASSUME TypeOK, NEW x \in Ends, NEW i \in 1..Len(chans[x]), chans[x][i] # None
  PROVE  chans[x][i] \in Channels
<1>1. chans[x] \in Seq(Channels \cup {None})
  BY DEF TypeOK
<1>2. QED BY <1>1

LEMMA Numbers ==
  ASSUME TypeOK, NEW e \in Ends, NEW c \in Channels
  PROVE  local[e][c] \in Nat /\ remote[e][c] \in Nat /\ c \in Targets /\ c # Global
BY MuxAssumption DEF TypeOK, Targets

-----------------------------------------------------------------------------
\* What a new place in the list changes: nothing for a channel that stands in it.
LEMMA AddedList ==
  ASSUME TypeOK, Routes, NEW e \in Ends, NEW c \in Channels, state[e][c] = "none",
         Added(e, c), local' = [local EXCEPT ![e][c] = Free(e)],
         \A x \in Ends, d \in Channels : ~(x = e /\ d = c) => state'[x][d] = state[x][d],
         state'[e][c] # "none"
  PROVE  /\ Numbered'
         /\ local'[e][c] > 0 /\ Listed(e, c)'
         /\ \A x \in Ends, d \in Channels : ~(x = e /\ d = c) =>
              local'[x][d] = local[x][d] /\ (Listed(x, d)' <=> Listed(x, d))
<1>1. /\ local' \in [Ends -> [Channels -> Nat]]
      /\ local'[e][c] = Free(e)
      /\ \A x \in Ends, d \in Channels : ~(x = e /\ d = c) => local'[x][d] = local[x][d]
  BY AddedType DEF TypeOK
<1>2. ASSUME NEW x \in Ends, NEW i \in 1..Len(chans'[x]), chans'[x][i] # None
      PROVE  local'[x][chans'[x][i]] = i /\ state'[x][chans'[x][i]] # "none"
  <2>1. CASE x = e /\ i = Free(e)
    BY <1>1, <2>1, AddedType
  <2>2. CASE ~(x = e /\ i = Free(e))
    <3>1. i \in 1..Len(chans[x]) /\ chans'[x][i] = chans[x][i]
      BY <1>2, <2>2, AddedType, Pair
    <3>2. chans[x][i] \in Channels
      BY <1>2, <3>1 DEF TypeOK
    <3>3. local[x][chans[x][i]] = i /\ state[x][chans[x][i]] # "none"
      BY <1>2, <3>1 DEF Routes, Numbered
    <3>4. ~(x = e /\ chans[x][i] = c)
      BY <3>3
    <3>5. QED BY <1>1, <3>1, <3>2, <3>3, <3>4
  <2>3. QED BY <2>1, <2>2
<1>3. ASSUME NEW x \in Ends, NEW d \in Channels, ~(x = e /\ d = c), Listed(x, d)
      PROVE  Listed(x, d)'
  <2>1. local'[x][d] = local[x][d]
    BY <1>1, <1>3
  <2>2. ~(x = e /\ local[x][d] = Free(e))
    BY <1>3, AddedType, MuxAssumption DEF Listed
  <2>3. local[x][d] \in 1..Len(chans'[x]) /\ chans'[x][local[x][d]] = chans[x][local[x][d]]
    BY <1>3, <2>2, AddedType, Pair DEF Listed
  <2>4. QED BY <1>3, <2>1, <2>3 DEF Listed
<1>4. ASSUME NEW x \in Ends, NEW d \in Channels, ~(x = e /\ d = c), Listed(x, d)'
      PROVE  Listed(x, d)
  <2>1. local'[x][d] = local[x][d]
    BY <1>1, <1>4
  <2>2. ~(x = e /\ local[x][d] = Free(e))
    BY <1>4, <2>1, AddedType DEF Listed
  <2>3. QED BY <1>4, <2>1, <2>2, AddedType, Pair DEF Listed
<1>5. local'[e][c] > 0 /\ Listed(e, c)'
  BY <1>1, AddedType DEF Listed
<1>6. QED BY <1>1, <1>2, <1>3, <1>4, <1>5 DEF Numbered

LEMMA OpenRoutes ==
  ASSUME TypeOK, TypeOK', Routes, NEW e \in Ends, NEW c \in Channels, Open(e, c)
  PROVE  Routes'
<1> DEFINE o == Other(e)
<1>1. /\ o \in Ends /\ Other(o) = e /\ o # e /\ \A x \in Ends : x = e \/ x = o
  BY Pair
<1>2. /\ state'[e][c] = "sending"
      /\ \A x \in Ends, d \in Channels : ~(x = e /\ d = c) => state'[x][d] = state[x][d]
      /\ UNCHANGED <<remote, decided, sentClose, requests, wire, loop, up>>
      /\ state[e][c] = "none" /\ Opener(c) = e
  BY DEF Open, TypeOK, request, conn
<1>3. /\ Numbered'
      /\ local'[e][c] > 0 /\ Listed(e, c)'
      /\ \A x \in Ends, d \in Channels : ~(x = e /\ d = c) =>
           local'[x][d] = local[x][d] /\ (Listed(x, d)' <=> Listed(x, d))
  <2>1. Added(e, c) /\ local' = [local EXCEPT ![e][c] = Free(e)]
    BY DEF Open
  <2>2. QED BY <1>2, <2>1, AddedList
<1>4. state[o][c] = "none"
  BY <1>1, <1>2 DEF Routes, Met
<1>5. \A x \in Ends : On(x)' = On(x)
  BY <1>2 DEF On
<1>6. ASSUME NEW x \in Ends, NEW q \in On(x)
      PROVE  q.c # c /\ Valid(x, q) /\ (q.c \in Channels \/ q.c = Global)
  <2>1. Valid(x, q) /\ (q.c \in Channels \/ q.c = Global)
    BY Carried
  <2>2. q.c # c
    BY <1>1, <1>2, <1>4, <2>1, MuxAssumption DEF Valid
  <2>3. QED BY <2>1, <2>2
<1>7. Met'
  BY <1>1, <1>2, <1>3, <1>4 DEF Routes, Met
<1>8. Addressed'
  <2>1. ASSUME NEW x \in Ends, NEW q \in On(x) PROVE Valid(x, q)'
    BY <1>2, <1>3, <1>6, Pair DEF Valid
  <2>2. QED BY <1>5, <2>1 DEF Addressed
<1>9. Ordered'
  BY <1>2 DEF Routes, Ordered
<1>10. Gone'
  BY <1>2, <1>3, <1>5, Pair DEF Routes, Gone, Quiet, Reading
<1>11. Confirmed'
  BY <1>1, <1>2, <1>4, <1>5 DEF Routes, Confirmed, Reading
<1>12. InUse'
  BY <1>2, MuxAssumption DEF Routes, InUse, Targets
<1>13. QED BY <1>3, <1>7, <1>8, <1>9, <1>10, <1>11, <1>12 DEF Routes

LEMMA SendOpenRoutes ==
  ASSUME TypeOK, TypeOK', Routes, NEW e \in Ends, NEW c \in Channels, SendOpen(e, c)
  PROVE  Routes'
<1> DEFINE o == Other(e)
<1>0. PICK p : p = Packet("open", local[e][c], c, 0)
  OBVIOUS
<1>1. /\ o \in Ends /\ Other(o) = e /\ o # e /\ \A x \in Ends : x = e \/ x = o
  BY Pair
<1>2. /\ state'[e][c] \in {"opening", "failed"}
      /\ e \in up => state'[e][c] = "opening"
      /\ \A x \in Ends, d \in Channels : ~(x = e /\ d = c) => state'[x][d] = state[x][d]
      /\ UNCHANGED <<chans, local, remote, decided, sentClose, requests, loop, up>>
      /\ state[e][c] = "sending" /\ Sends(e, p)
  BY <1>0 DEF SendOpen, TypeOK, request
<1>3. Opener(c) = e /\ state[o][c] = "none"
  BY <1>1, <1>2, OpenerEnd DEF Routes, Met
<1>4. p \in Packets /\ p.t = "open" /\ p.id = local[e][c] /\ p.c = c /\ c # Global
  BY <1>0, Numbers, PacketType
<1>5. ASSUME NEW x \in Ends, NEW q \in On(x)
      PROVE  q.c # c /\ Valid(x, q) /\ (q.c \in Channels \/ q.c = Global)
  <2>1. Valid(x, q) /\ (q.c \in Channels \/ q.c = Global)
    BY Carried
  <2>2. q.c # c
    BY <1>1, <1>2, <1>3, <1>4, <2>1 DEF Valid
  <2>3. QED BY <2>1, <2>2
<1>6. /\ On(e)' \subseteq On(e) \cup {p} /\ On(e) \subseteq On(e)'
      /\ Ord(wire'[e]) /\ On(o)' = On(o) /\ wire'[o] = wire[o]
  <2>1. \A q \in On(e) : Follows(q, p)
    BY <1>4, <1>5 DEF Follows
  <2>2. QED BY <1>2, <1>4, <2>1, SendEffect DEF Routes, Ordered, On
<1>7. Numbered'
  <2>1. \A x \in Ends : \A i \in 1..Len(chans[x]) : chans[x][i] # None => chans[x][i] \in Channels
    BY Entries
  <2>2. QED BY <1>2, <2>1 DEF Routes, Numbered
<1>8. Met'
  BY <1>1, <1>2, <1>3 DEF Routes, Met
<1>9. Addressed'
  <2>1. ASSUME NEW x \in Ends, NEW q \in On(x) PROVE Valid(x, q)'
    BY <1>2, <1>5, Pair DEF Valid
  <2>2. Valid(e, p)'
    BY <1>1, <1>2, <1>3, <1>4 DEF Valid
  <2>3. QED BY <1>1, <1>6, <2>1, <2>2 DEF Addressed
<1>10. Ordered'
  BY <1>1, <1>6 DEF Routes, Ordered
<1>11. Gone'
  <2>1. ASSUME NEW x \in Ends, NEW d \in Channels,
               Reading(x)', state'[x][d] # "none", ~Listed(x, d)'
        PROVE  Quiet(Other(x), d)' /\ \A q \in On(Other(x))' : q.c # d
    <3>1. Reading(x) /\ state[x][d] # "none" /\ ~Listed(x, d)
      BY <1>2, <2>1 DEF Listed, Reading
    <3>2. Quiet(Other(x), d) /\ \A q \in On(Other(x)) : q.c # d
      BY <3>1 DEF Routes, Gone
    <3>3. Other(x) = e => d # c
      BY <1>1, <1>3, <3>1
    <3>4. Quiet(Other(x), d)'
      BY <1>1, <1>2, <1>3, <3>2, <3>3 DEF Quiet
    <3>5. QED BY <1>1, <1>4, <1>6, <3>2, <3>3, <3>4
  <2>2. QED BY <2>1 DEF Gone
<1>12. Confirmed'
  BY <1>1, <1>2, <1>3, <1>6 DEF Routes, Confirmed, Reading
<1>13. InUse'
  BY <1>2, MuxAssumption DEF Routes, InUse, Targets
<1>14. QED BY <1>7, <1>8, <1>9, <1>10, <1>11, <1>12, <1>13 DEF Routes

LEMMA OpenFailsRoutes ==
  ASSUME TypeOK, TypeOK', Routes, NEW e \in Ends, NEW c \in Channels, OpenFails(e, c)
  PROVE  Routes'
<1> DEFINE o == Other(e)
<1>1. /\ o \in Ends /\ Other(o) = e /\ o # e /\ \A x \in Ends : x = e \/ x = o
  BY Pair
<1>2. /\ state'[e][c] = "failed" /\ state[e][c] = "opening"
      /\ \A x \in Ends, d \in Channels : ~(x = e /\ d = c) => state'[x][d] = state[x][d]
      /\ UNCHANGED <<chans, local, remote, decided, sentClose, requests, wire, loop, up>>
  BY DEF OpenFails, TypeOK, request, conn
<1>3. Opener(c) = e
  BY <1>1, <1>2, OpenerEnd DEF Routes, Met
<1>4. \A x \in Ends : On(x)' = On(x)
  BY <1>2 DEF On
<1>5. Numbered'
  <2>1. \A x \in Ends : \A i \in 1..Len(chans[x]) : chans[x][i] # None => chans[x][i] \in Channels
    BY Entries
  <2>2. QED BY <1>2, <2>1 DEF Routes, Numbered
<1>6. Met'
  BY <1>1, <1>2, <1>3 DEF Routes, Met
<1>7. Addressed'
  <2>1. ASSUME NEW x \in Ends, NEW q \in On(x) PROVE Valid(x, q)'
    <3>1. Valid(x, q) /\ (q.c \in Channels \/ q.c = Global)
      BY Carried
    <3>2. QED BY <1>1, <1>2, <3>1 DEF Valid
  <2>2. QED BY <1>4, <2>1 DEF Addressed
<1>8. Ordered'
  BY <1>2 DEF Routes, Ordered
<1>9. Gone'
  BY <1>1, <1>2, <1>4 DEF Routes, Gone, Quiet, Reading, Listed
<1>10. Confirmed'
  BY <1>1, <1>2, <1>4 DEF Routes, Confirmed, Reading
<1>11. InUse'
  BY <1>2, MuxAssumption DEF Routes, InUse, Targets
<1>12. QED BY <1>5, <1>6, <1>7, <1>8, <1>9, <1>10, <1>11 DEF Routes

\* Accept and Reject, of which each sends the response to the open, if anything.
LEMMA DecidesRoutes ==
  ASSUME TypeOK, TypeOK', Routes, NEW e \in Ends, NEW c \in Channels, Decides(e, c)
  PROVE  Routes'
<1> DEFINE o == Other(e)
<1>0. PICK yes, no : /\ yes = Packet("confirm", remote[e][c], c, local[e][c])
                     /\ no = Packet("failure", remote[e][c], c, 0)
  OBVIOUS
<1>1. /\ o \in Ends /\ Other(o) = e /\ o # e /\ \A x \in Ends : x = e \/ x = o
  BY Pair
<1>2. /\ \A x \in Ends, d \in Channels : ~(x = e /\ d = c) =>
            state'[x][d] = state[x][d] /\ decided'[x][d] = decided[x][d]
      /\ UNCHANGED <<chans, local, remote, sentClose, requests, loop, up>>
      /\ state[e][c] = "offered"
  <2>1. \E v : state' = [state EXCEPT ![e][c] = v]
    BY DEF Decides, Accept, Reject
  <2>2. \A x \in Ends, d \in Channels : ~(x = e /\ d = c) => state'[x][d] = state[x][d]
    BY <2>1 DEF TypeOK
  <2>3. decided' = [decided EXCEPT ![e][c] = TRUE]
    BY DEF Decides, Accept, Reject
  <2>4. \A x \in Ends, d \in Channels : ~(x = e /\ d = c) => decided'[x][d] = decided[x][d]
    BY <2>3 DEF TypeOK
  <2>5. /\ UNCHANGED <<chans, local, remote, sentClose, requests, loop, up>>
        /\ state[e][c] = "offered"
    BY DEF Decides, Accept, Reject, request
  <2>6. QED BY <2>2, <2>4, <2>5
<1>3. \/ state'[e][c] = "open" /\ Sends(e, yes) /\ ~sentClose[e][c] /\ e \in up
      \/ state'[e][c] = "failed" /\ wire' = wire
      \/ state'[e][c] = "rejected" /\ Sends(e, no) /\ ~sentClose[e][c]
      \/ state'[e][c] = "rejected" /\ wire' = wire
  <2>1. c # Global
    BY MuxAssumption
  <2>2. CASE Accept(e, c)
    BY <1>0, <2>1, <2>2 DEF Accept, MaySend, TypeOK
  <2>3. CASE Reject(e, c)
    BY <1>0, <2>1, <2>3 DEF Reject, MaySend, TypeOK
  <2>4. QED BY <2>2, <2>3 DEF Decides
<1>4. /\ Opener(c) = o /\ ~decided[o][c] /\ remote[e][c] = local[o][c] /\ state[o][c] # "none"
      /\ state[o][c] \notin {"sending", "open"}
  BY <1>1, <1>2, OpenerEnd DEF Routes, Met
<1>5. /\ yes \in Packets /\ yes.t = "confirm" /\ yes.id = remote[e][c] /\ yes.c = c
      /\ yes.n = local[e][c]
      /\ no \in Packets /\ no.t = "failure" /\ no.id = remote[e][c] /\ no.c = c
      /\ c # Global
  BY <1>0, Numbers, PacketType
<1>6. ASSUME NEW x \in Ends, NEW q \in On(x)
      PROVE  q.c # c /\ Valid(x, q) /\ (q.c \in Channels \/ q.c = Global)
  <2>1. Valid(x, q) /\ (q.c \in Channels \/ q.c = Global)
    BY Carried
  <2>2. x = o => state[o][c] # "open" /\ state[o][c] # "rejected"
    BY <1>1, <1>4 DEF Routes, Met
  <2>3. q.c # c
    BY <1>1, <1>2, <1>4, <1>5, <2>1, <2>2 DEF Valid
  <2>4. QED BY <2>1, <2>3
<1>7. /\ On(e) \subseteq On(e)' /\ Ord(wire'[e]) /\ On(o)' = On(o) /\ wire'[o] = wire[o]
      /\ state'[e][c] = "open" => On(e)' \subseteq On(e) \cup {yes} /\ (up = Ends => yes \in On(e)')
      /\ state'[e][c] # "open" => On(e)' \subseteq On(e) \cup {no}
      /\ state'[e][c] = "failed" => On(e)' \subseteq On(e)
      /\ sentClose[e][c] => On(e)' \subseteq On(e)
  <2>1. \A q \in On(e) : Follows(q, yes) /\ Follows(q, no)
    BY <1>5, <1>6 DEF Follows
  <2>2. CASE Sends(e, yes) /\ ~sentClose[e][c] /\ state'[e][c] = "open"
    BY <1>5, <2>1, <2>2, SendEffect DEF Routes, Ordered, On
  <2>3. CASE Sends(e, no) /\ ~sentClose[e][c] /\ state'[e][c] = "rejected"
    BY <1>5, <2>1, <2>3, SendEffect DEF Routes, Ordered, On
  <2>4. CASE wire' = wire /\ state'[e][c] # "open"
    BY <2>4 DEF Routes, Ordered, On
  <2>5. QED BY <1>3, <2>2, <2>3, <2>4
<1>8. Numbered'
  <2>1. \A x \in Ends : \A i \in 1..Len(chans[x]) : chans[x][i] # None => chans[x][i] \in Channels
    BY Entries
  <2>2. QED BY <1>2, <1>3, <2>1 DEF Routes, Numbered
<1>9. Met'
  BY <1>1, <1>2, <1>3, <1>4 DEF Routes, Met
<1>10. Addressed'
  <2>1. ASSUME NEW x \in Ends, NEW q \in On(x) PROVE Valid(x, q)'
    BY <1>2, <1>6, Pair DEF Valid
  <2>2. state'[e][c] = "open" => Valid(e, yes)'
    BY <1>1, <1>2, <1>4, <1>5 DEF Valid
  <2>3. state'[e][c] = "rejected" => Valid(e, no)'
    BY <1>1, <1>2, <1>4, <1>5 DEF Valid
  <2>4. QED BY <1>1, <1>3, <1>7, <2>1, <2>2, <2>3 DEF Addressed
<1>11. Ordered'
  BY <1>1, <1>7 DEF Routes, Ordered
<1>12. Gone'
  <2>1. ASSUME NEW x \in Ends, NEW d \in Channels,
               Reading(x)', state'[x][d] # "none", ~Listed(x, d)'
        PROVE  Quiet(Other(x), d)' /\ \A q \in On(Other(x))' : q.c # d
    <3>1. Reading(x) /\ state[x][d] # "none" /\ ~Listed(x, d)
      BY <1>2, <2>1 DEF Listed, Reading
    <3>2. Quiet(Other(x), d) /\ \A q \in On(Other(x)) : q.c # d
      BY <3>1 DEF Routes, Gone
    <3>3. Quiet(Other(x), d)'
      BY <1>1, <1>2, <3>2 DEF Quiet
    <3>4. CASE x = o /\ d = c
      <4>1. sentClose[e][c]
        BY <1>1, <1>2, <3>2, <3>4 DEF Quiet
      <4>2. QED BY <1>1, <1>7, <3>2, <3>3, <3>4, <4>1
    <3>5. CASE x = o /\ d # c
      BY <1>1, <1>5, <1>7, <3>2, <3>3, <3>5
    <3>6. CASE x = e
      BY <1>1, <1>7, <3>2, <3>3, <3>6
    <3>7. QED BY <1>1, <3>4, <3>5, <3>6
  <2>2. QED BY <2>1 DEF Gone
<1>13. Confirmed'
  <2>1. ASSUME NEW x \in Ends, NEW d \in Channels, Opener(d) = Other(x),
               Reading(Other(x))', Other(x) \in up', state'[x][d] = "open"
        PROVE  state'[Other(x)][d] = "open" \/ \E q \in On(x)' : Is(q, "confirm", d)
    <3>1. CASE x = e /\ d = c
      <4>1. up = Ends
        BY <1>1, <1>2, <1>3, <2>1, <3>1 DEF TypeOK
      <4>2. yes \in On(e)' /\ Is(yes, "confirm", c)
        BY <1>5, <1>7, <2>1, <3>1, <4>1 DEF Is
      <4>3. QED BY <3>1, <4>2
    <3>2. CASE ~(x = e /\ d = c)
      <4>1. state[Other(x)][d] = "open" \/ \E q \in On(x) : Is(q, "confirm", d)
        BY <1>2, <2>1, <3>2 DEF Routes, Confirmed, Reading
      <4>2. QED BY <1>1, <1>2, <1>7, <4>1
    <3>3. QED BY <3>1, <3>2
  <2>2. QED BY <2>1 DEF Confirmed
<1>14. InUse'
  BY <1>2, MuxAssumption DEF Routes, InUse, Targets
<1>15. QED BY <1>8, <1>9, <1>10, <1>11, <1>12, <1>13, <1>14 DEF Routes

LEMMA CloseRoutes ==
  ASSUME TypeOK, TypeOK', Routes, NEW e \in Ends, NEW c \in Channels, Close(e, c)
  PROVE  Routes'
<1>1. PICK p : p = Packet("close", remote[e][c], c, 0)
  OBVIOUS
<1>2. /\ p \in Packets /\ p.t = "close" /\ p.id = remote[e][c] /\ p.c = c /\ c # Global
  BY <1>1, Numbers, PacketType
<1>3. /\ UNCHANGED <<chans, state, local, remote, decided, requests, loop, up>>
      /\ state[e][c] = "open" /\ ~sentClose[e][c] /\ Sends(e, p)
  BY <1>1, <1>2 DEF Close, MaySend, request
<1>4. sentClose'[e][c] /\ \A x \in Ends, d \in Channels : sentClose[x][d] => sentClose'[x][d]
  BY DEF Close, TypeOK
<1>5. remote[e][c] = local[Other(e)][c]
  BY <1>3 DEF Routes, Met
<1>6. Valid(e, p)'
  BY <1>2, <1>3, <1>4, <1>5 DEF Valid
<1>7. InUse'
  BY <1>3 DEF Routes, InUse
<1>8. QED BY <1>2, <1>3, <1>4, <1>6, <1>7, Sent

LEMMA SendRequestRoutes ==
  ASSUME TypeOK, TypeOK', Routes, NEW e \in Ends, NEW c \in Targets, NEW wantReply \in BOOLEAN,
         SendRequest(e, c, wantReply)
  PROVE  Routes'
<1>1. PICK p : p = Packet(IF wantReply THEN "ask" ELSE "tell",
                          IF c = Global THEN 0 ELSE remote[e][c], c, made + 1)
  OBVIOUS
<1>2. /\ p \in Packets /\ p.t \in {"ask", "tell"} /\ p.c = c
      /\ p.id = IF c = Global THEN 0 ELSE remote[e][c]
  <2>1. (IF c = Global THEN 0 ELSE remote[e][c]) \in Nat /\ made + 1 \in Nat
    BY DEF TypeOK, Targets
  <2>2. QED BY <1>1, <2>1, PacketType
<1>3. /\ UNCHANGED <<chans, state, local, remote, decided, sentClose, requests, loop, up>>
      /\ c # Global => state[e][c] = "open" /\ ~sentClose[e][c]
      /\ Sends(e, p)
  BY <1>1 DEF SendRequest, MaySend, channel
<1>4. c # Global => c \in Channels /\ remote[e][c] = local[Other(e)][c]
  BY <1>3 DEF Routes, Met, Targets
<1>5. Valid(e, p)'
  BY <1>2, <1>3, <1>4 DEF Valid
<1>6. InUse'
  BY <1>3 DEF Routes, InUse
<1>7. QED BY <1>2, <1>3, <1>5, <1>6, Sent

LEMMA ReplyRoutes ==
  ASSUME TypeOK, TypeOK', Routes, NEW e \in Ends, NEW c \in Targets, Reply(e, c)
  PROVE  Routes'
<1> DEFINE h == Head(requests[e][c])
<1>1. PICK p : p = Packet("reply", IF c = Global THEN 0 ELSE remote[e][c], c, h.n)
  OBVIOUS
<1>2. /\ requests[e][c] \in Seq(Packets) /\ requests[e][c] # <<>>
      /\ requests' = [requests EXCEPT ![e][c] = Tail(@)]
      /\ UNCHANGED <<chans, state, local, remote, decided, sentClose, loop, up>>
  BY DEF Reply, TypeOK, channel
<1>3. /\ h \in Els(requests[e][c]) /\ h \in Packets /\ h.n \in Nat
      /\ Els(Tail(requests[e][c])) \subseteq Els(requests[e][c])
  <2>1. /\ h \in Packets
        /\ Els(requests[e][c]) = Els(Tail(requests[e][c])) \cup {h}
    BY <1>2, Taking
  <2>2. h.n \in Nat
    BY <2>1 DEF Packets
  <2>3. QED BY <2>1, <2>2
<1>4. /\ p \in Packets /\ p.t = "reply" /\ p.c = c
      /\ p.id = IF c = Global THEN 0 ELSE remote[e][c]
  <2>1. (IF c = Global THEN 0 ELSE remote[e][c]) \in Nat
    BY DEF TypeOK, Targets
  <2>2. QED BY <1>1, <1>3, <2>1, PacketType
<1>5. c # Global => c \in Channels /\ state[e][c] = "open"
  BY <1>3 DEF Routes, InUse, Targets
<1>6. InUse'
  <2>1. \A x \in Ends, d \in Targets : Els(requests'[x][d]) \subseteq Els(requests[x][d])
    BY <1>2, <1>3 DEF TypeOK
  <2>2. QED BY <1>2, <2>1 DEF Routes, InUse
<1>7. CASE Sends(e, p) /\ (c # Global => ~sentClose[e][c])
  <2>1. c # Global => remote[e][c] = local[Other(e)][c]
    BY <1>5 DEF Routes, Met
  <2>2. Valid(e, p)'
    BY <1>2, <1>4, <1>5, <2>1 DEF Valid
  <2>3. QED BY <1>2, <1>4, <1>5, <1>6, <1>7, <2>2, Sent
<1>8. CASE wire' = wire
  BY <1>2, <1>6, <1>8 DEF Routes, Numbered, Met, Addressed, Valid, Ordered, Gone, Confirmed,
                          On, Listed, Reading, Quiet
<1>9. QED BY <1>1, <1>7, <1>8 DEF Reply, MaySend

\* Steps that send nothing.
LEMMA ReturnsRoutes ==
  ASSUME TypeOK, TypeOK', Routes, NEW e \in Ends, NEW c \in Targets, Returns(e, c)
  PROVE  Routes'
BY DEF Returns, channel, conn, Routes, Numbered, Met, Addressed, Valid, Ordered, Gone, Confirmed,
       InUse, On, Listed, Reading, Quiet

LEMMA TakenRoutes ==
  ASSUME TypeOK, TypeOK', Routes, NEW e \in Ends, Takes(e), Taken(e),
         Coming(e).t # "confirm", InUse',
         UNCHANGED <<chans, state, local, remote, decided, sentClose, loop, up>>
  PROVE  Routes'
<1> DEFINE o == Other(e)
<1>1. /\ o \in Ends /\ Other(o) = e /\ o # e /\ \A x \in Ends : x = e \/ x = o
  BY Pair
<1>2. /\ wire'[e] = wire[e] /\ On(e)' = On(e)
      /\ On(o) = On(o)' \cup {Coming(e)} /\ Ord(wire'[o])
  BY <1>1, TakeEffect DEF Routes, Ordered, On
<1>3. Numbered'
  BY DEF Routes, Numbered
<1>4. \A x \in Ends : On(x)' \subseteq On(x) /\ Ord(wire'[x])
  BY <1>1, <1>2 DEF Routes, Ordered
<1>5. \A x \in Ends : \A q \in On(x) : q.t = "confirm" => q \in On(x)'
  BY <1>1, <1>2
<1>6. QED BY <1>1, <1>3, <1>4, <1>5, Fewer DEF Reading

LEMMA HandleRequestRoutes ==
  ASSUME TypeOK, TypeOK', Routes, NEW e \in Ends, HandleRequest(e)
  PROVE  Routes'
<1> DEFINE p == Coming(e)
<1>1. /\ Takes(e) /\ Taken(e) /\ p.t \in {"ask", "tell"}
      /\ UNCHANGED <<chans, state, local, remote, decided, sentClose, loop, up>>
  BY DEF HandleRequest, channel
<1>2. p \in Packets /\ Of(e) = p.c /\ p.c \in Targets
      /\ (p.c # Global => state[e][p.c] = "open")
  BY <1>1, Arrives DEF Packets
<1>3. requests' = [requests EXCEPT ![e][p.c] = Append(@, p)]
  BY <1>2 DEF HandleRequest
<1>4. Els(requests'[e][p.c]) = Els(requests[e][p.c]) \cup {p}
  <2>1. requests[e][p.c] \in Seq(Packets) /\ requests'[e][p.c] = Append(requests[e][p.c], p)
    BY <1>2, <1>3 DEF TypeOK
  <2>2. QED BY <1>2, <2>1, Adding
<1>5. \A x \in Ends, d \in Targets : ~(x = e /\ d = p.c) => requests'[x][d] = requests[x][d]
  BY <1>3 DEF TypeOK
<1>6. InUse'
  BY <1>1, <1>2, <1>4, <1>5 DEF Routes, InUse
<1>7. QED BY <1>1, <1>6, TakenRoutes

LEMMA HandleReplyRoutes ==
  ASSUME TypeOK, TypeOK', Routes, NEW e \in Ends, HandleReply(e)
  PROVE  Routes'
<1>1. /\ Takes(e) /\ Taken(e) /\ Coming(e).t = "reply"
      /\ UNCHANGED <<chans, state, local, remote, decided, sentClose, requests, loop, up>>
  BY DEF HandleReply, channel
<1>2. InUse'
  BY <1>1 DEF Routes, InUse
<1>3. QED BY <1>1, <1>2, TakenRoutes

\* The end of a mux, and of the connection.
LEMMA EndRoutes ==
  ASSUME TypeOK, TypeOK', Routes, NEW e \in Ends,
         OnePacketFails(e) \/ DropAll(e) \/ CloseConn(e)
  PROVE  Routes'
<1> DEFINE o == Other(e)
<1>1. /\ o \in Ends /\ Other(o) = e /\ o # e /\ \A x \in Ends : x = e \/ x = o
  BY Pair
<1>2. /\ UNCHANGED <<state, local, remote, decided, requests>>
      /\ chans'[o] = chans[o] /\ (chans'[e] = chans[e] \/ chans'[e] = <<>>)
      /\ loop'[o] = loop[o] /\ loop'[e] # "run"
      /\ up' \subseteq up /\ wire'[e] = wire[e]
  <2>1. CASE OnePacketFails(e)
    BY <1>1, <2>1 DEF OnePacketFails, TypeOK, channel, request
  <2>2. CASE DropAll(e)
    BY <1>1, <2>2 DEF DropAll, TypeOK, request
  <2>3. CASE CloseConn(e)
    BY <1>1, <2>3 DEF CloseConn, TypeOK, request
  <2>4. QED BY <2>1, <2>2, <2>3
<1>3. \A x \in Ends, d \in Channels : sentClose[x][d] => sentClose'[x][d]
  <2>1. CASE UNCHANGED sentClose
    BY <2>1
  <2>2. CASE DropAll(e)
    <3>1. PICK k : sentClose' = [sentClose EXCEPT ![e] = [c \in Channels |-> @[c] \/ c \in k]]
      BY <2>2 DEF DropAll
    <3>2. QED BY <3>1 DEF TypeOK
  <2>3. QED BY <2>1, <2>2 DEF OnePacketFails, CloseConn, channel
<1>4. On(o)' \subseteq On(o) /\ Ord(wire'[o])
  <2>1. wire[o] \in Seq(Packets) /\ Ord(wire[o])
    BY <1>1 DEF TypeOK, Routes, Ordered
  <2>2. CASE wire'[o] = wire[o]
    BY <2>1, <2>2 DEF On
  <2>3. CASE wire'[o] = Tail(wire[o]) /\ wire[o] # <<>>
    BY <2>1, <2>3, Taking DEF On
  <2>4. CASE wire'[o] = <<>>
    BY <2>4, NothingIn DEF On
  <2>5. wire'[o] = wire[o] \/ wire'[o] = <<>> \/ (wire'[o] = Tail(wire[o]) /\ wire[o] # <<>>)
    BY <1>1 DEF OnePacketFails, DropAll, CloseConn, Refused, Takes, TypeOK
  <2>6. QED BY <2>2, <2>3, <2>4, <2>5
<1>5. On(e)' = On(e) /\ Ord(wire'[e])
  BY <1>2 DEF On, Routes, Ordered
<1>6. Numbered'
  BY <1>1, <1>2 DEF Routes, Numbered
<1>7. InUse'
  BY <1>2 DEF Routes, InUse
<1>8. QED BY <1>1, <1>2, <1>3, <1>4, <1>5, <1>6, <1>7, Fewer DEF Reading

LEMMA LoseRoutes ==
  ASSUME TypeOK, TypeOK', Routes, Lose
  PROVE  Routes'
<1>1. /\ UNCHANGED <<chans, state, local, remote, decided, sentClose, requests, loop>>
      /\ up' = {} /\ \A x \in Ends : wire'[x] = <<>>
  BY DEF Lose, channel, request
<1>2. \A x \in Ends : On(x)' = {} /\ Ord(wire'[x])
  BY <1>1, NothingIn DEF On
<1>3. Numbered' /\ InUse'
  BY <1>1 DEF Routes, Numbered, InUse
<1>4. QED BY <1>1, <1>2, <1>3, Fewer DEF Reading

-----------------------------------------------------------------------------
\* The handlers of what opens and closes a channel.
LEMMA HandleOpenRoutes ==
  ASSUME TypeOK, TypeOK', Routes, NEW e \in Ends, HandleOpen(e)
  PROVE  Routes'
<1> DEFINE o == Other(e)
<1>1. /\ o \in Ends /\ Other(o) = e /\ o # e /\ \A x \in Ends : x = e \/ x = o
  BY Pair
<1>2. PICK p, c : p = Coming(e) /\ c = p.c
  OBVIOUS
<1>3. /\ Takes(e) /\ Taken(e) /\ p.t = "open" /\ p \in On(o) /\ c \in Channels /\ c # Global
      /\ Opener(c) = o /\ p.id = local[o][c] /\ state[o][c] \in {"opening", "failed"}
      /\ state[e][c] = "none"
  <2>1. Takes(e) /\ Taken(e) /\ p.t = "open"
    BY <1>2 DEF HandleOpen
  <2>2. p \in On(o) /\ c \in Channels /\ Valid(o, p)
    BY <1>2, <2>1, Arrives
  <2>3. QED BY <1>1, <1>2, <2>1, <2>2, MuxAssumption DEF Valid
<1>4. /\ Added(e, c) /\ local' = [local EXCEPT ![e][c] = Free(e)]
      /\ remote' = [remote EXCEPT ![e][c] = p.id]
      /\ state' = [state EXCEPT ![e][c] = "offered"]
      /\ UNCHANGED <<decided, sentClose, requests, loop, up>>
  BY <1>2 DEF HandleOpen, request
<1>5. /\ state'[e][c] = "offered" /\ remote'[e][c] = local[o][c]
      /\ \A x \in Ends, d \in Channels : ~(x = e /\ d = c) =>
           state'[x][d] = state[x][d] /\ remote'[x][d] = remote[x][d]
  <2>1. state'[e][c] = "offered" /\ \A x \in Ends, d \in Channels : ~(x = e /\ d = c) => state'[x][d] = state[x][d]
    BY <1>3, <1>4 DEF TypeOK
  <2>2. remote'[e][c] = local[o][c] /\ \A x \in Ends, d \in Channels : ~(x = e /\ d = c) => remote'[x][d] = remote[x][d]
    BY <1>3, <1>4 DEF TypeOK
  <2>3. QED BY <2>1, <2>2
<1>6. /\ Numbered'
      /\ local'[e][c] > 0 /\ Listed(e, c)'
      /\ \A x \in Ends, d \in Channels : ~(x = e /\ d = c) =>
           local'[x][d] = local[x][d] /\ (Listed(x, d)' <=> Listed(x, d))
  <2>1. \A x \in Ends, d \in Channels : ~(x = e /\ d = c) => state'[x][d] = state[x][d]
    BY <1>5
  <2>2. state'[e][c] # "none"
    BY <1>5
  <2>3. QED BY <1>3, <1>4, <2>1, <2>2, AddedList
<1>7. /\ wire'[e] = wire[e] /\ On(e)' = On(e)
      /\ On(o)' \subseteq On(o) /\ Ord(wire'[o])
      /\ \A q \in On(o)' : Follows(p, q)
      /\ \A q \in On(o) : q = p \/ q \in On(o)'
  BY <1>1, <1>2, <1>3, TakeEffect DEF Routes, Ordered, On
<1>8. ASSUME NEW x \in Ends, NEW q \in On(x)'
      PROVE  q \in On(x) /\ q.c # c /\ Valid(x, q) /\ (q.c \in Channels \/ q.c = Global)
  <2>1. q \in On(x)
    BY <1>1, <1>7, <1>8
  <2>2. Valid(x, q) /\ (q.c \in Channels \/ q.c = Global)
    BY <2>1, Carried
  <2>3. x = e => q.c # c
    BY <1>1, <1>3, <2>2 DEF Valid
  <2>4. x = o => q.c # c
    BY <1>2, <1>3, <1>7, <1>8 DEF Follows
  <2>5. QED BY <1>1, <2>1, <2>2, <2>3, <2>4
<1>9. Met'
  BY <1>1, <1>3, <1>4, <1>5, <1>6 DEF Routes, Met
<1>10. Addressed'
  <2>1. ASSUME NEW x \in Ends, NEW q \in On(x)' PROVE Valid(x, q)'
    BY <1>1, <1>4, <1>5, <1>6, <1>8 DEF Valid
  <2>2. QED BY <2>1 DEF Addressed
<1>11. Ordered'
  BY <1>1, <1>7 DEF Routes, Ordered
<1>12. Gone'
  <2>1. ASSUME NEW x \in Ends, NEW d \in Channels,
               Reading(x)', state'[x][d] # "none", ~Listed(x, d)'
        PROVE  Quiet(Other(x), d)' /\ \A q \in On(Other(x))' : q.c # d
    <3>1. ~(x = e /\ d = c)
      BY <1>6, <2>1
    <3>2. Reading(x) /\ state[x][d] # "none" /\ ~Listed(x, d)
      BY <1>4, <1>5, <1>6, <2>1, <3>1 DEF Reading
    <3>3. Quiet(Other(x), d) /\ \A q \in On(Other(x)) : q.c # d
      BY <3>2 DEF Routes, Gone
    <3>4. Quiet(Other(x), d)'
      BY <1>1, <1>3, <1>4, <1>5, <3>3 DEF Quiet
    <3>5. QED BY <1>1, <1>8, <3>3, <3>4
  <2>2. QED BY <2>1 DEF Gone
<1>13. Confirmed'
  <2>1. ASSUME NEW x \in Ends, NEW d \in Channels, Opener(d) = Other(x),
               Reading(Other(x))', Other(x) \in up', state'[x][d] = "open"
        PROVE  state'[Other(x)][d] = "open" \/ \E q \in On(x)' : Is(q, "confirm", d)
    <3>1. ~(x = e /\ d = c)
      BY <1>5, <2>1
    <3>2. state[Other(x)][d] = "open" \/ \E q \in On(x) : Is(q, "confirm", d)
      BY <1>4, <1>5, <2>1, <3>1 DEF Routes, Confirmed, Reading
    <3>3. Other(x) = e /\ d = c => state[x][d] # "open"
      BY <1>1, <1>3
    <3>4. QED BY <1>1, <1>3, <1>5, <1>7, <2>1, <3>1, <3>2, <3>3 DEF Is
  <2>2. QED BY <2>1 DEF Confirmed
<1>14. InUse'
  BY <1>3, <1>4, <1>5, MuxAssumption DEF Routes, InUse, Targets
<1>15. QED BY <1>6, <1>9, <1>10, <1>11, <1>12, <1>13, <1>14 DEF Routes

LEMMA HandleConfirmRoutes ==
  ASSUME TypeOK, TypeOK', Routes, NEW e \in Ends, HandleConfirm(e)
  PROVE  Routes'
<1> DEFINE o == Other(e)
<1>1. /\ o \in Ends /\ Other(o) = e /\ o # e /\ \A x \in Ends : x = e \/ x = o
  BY Pair
<1>2. PICK p, c : p = Coming(e) /\ c = p.c
  OBVIOUS
<1>3. /\ Takes(e) /\ Taken(e) /\ p.t = "confirm" /\ p \in On(o) /\ c \in Channels /\ c # Global
      /\ Of(e) = c /\ Opener(c) = e /\ p.n = local[o][c] /\ state[o][c] = "open"
  <2>1. Takes(e) /\ Taken(e) /\ p.t = "confirm"
    BY <1>2 DEF HandleConfirm
  <2>2. p \in On(o) /\ Valid(o, p) /\ Of(e) = c /\ p \in Packets
    BY <1>2, <2>1, Arrives
  <2>3. QED BY <1>1, <1>2, <2>1, <2>2 DEF Valid, Packets, Targets
<1>4. /\ decided' = [decided EXCEPT ![e][c] = TRUE]
      /\ remote' = [remote EXCEPT ![e][c] = p.n]
      /\ state' = [state EXCEPT ![e][c] = "open"]
      /\ UNCHANGED <<chans, local, sentClose, requests, loop, up>>
  BY <1>2, <1>3 DEF HandleConfirm, request
<1>5. /\ state'[e][c] = "open" /\ remote'[e][c] = local[o][c]
      /\ \A x \in Ends, d \in Channels : ~(x = e /\ d = c) =>
           /\ state'[x][d] = state[x][d] /\ remote'[x][d] = remote[x][d]
           /\ decided'[x][d] = decided[x][d]
  <2>1. state'[e][c] = "open" /\ \A x \in Ends, d \in Channels : ~(x = e /\ d = c) => state'[x][d] = state[x][d]
    BY <1>3, <1>4 DEF TypeOK
  <2>2. remote'[e][c] = local[o][c] /\ \A x \in Ends, d \in Channels : ~(x = e /\ d = c) => remote'[x][d] = remote[x][d]
    BY <1>3, <1>4 DEF TypeOK
  <2>3. \A x \in Ends, d \in Channels : ~(x = e /\ d = c) => decided'[x][d] = decided[x][d]
    <3>1. decided \in [Ends -> [Channels -> BOOLEAN]] /\ decided' = [decided EXCEPT ![e][c] = TRUE]
      BY <1>4 DEF TypeOK
    <3>2. QED BY <3>1
  <2>4. QED BY <2>1, <2>2, <2>3
<1>6. /\ wire'[e] = wire[e] /\ On(e)' = On(e)
      /\ On(o)' \subseteq On(o) /\ Ord(wire'[o])
      /\ \A q \in On(o)' : Follows(p, q)
      /\ \A q \in On(o) : q = p \/ q \in On(o)'
  BY <1>1, <1>2, <1>3, TakeEffect DEF Routes, Ordered, On
<1>7. state[e][c] # "none"
  BY <1>1, <1>3 DEF Routes, Met
<1>8. Numbered'
  <2>1. \A x \in Ends : \A i \in 1..Len(chans[x]) : chans[x][i] # None => chans[x][i] \in Channels
    BY Entries
  <2>2. QED BY <1>4, <1>5, <2>1 DEF Routes, Numbered
<1>9. Met'
  BY <1>1, <1>3, <1>4, <1>5 DEF Routes, Met
<1>10. Addressed'
  <2>1. ASSUME NEW x \in Ends, NEW q \in On(x)' PROVE Valid(x, q)'
    <3>1. q \in On(x) /\ Valid(x, q) /\ (q.c \in Channels \/ q.c = Global)
      BY <1>1, <1>6, <2>1, Carried
    <3>2. x = o /\ q.c = c => q.t \notin {"open", "confirm", "failure"}
      BY <1>2, <1>3, <1>6, <2>1 DEF Follows
    <3>3. x = e /\ q.c = c => q.t \notin {"open", "failure", "confirm"}
      BY <1>1, <1>3, <3>1 DEF Valid
    <3>4. QED BY <1>1, <1>4, <1>5, <3>1, <3>2, <3>3 DEF Valid
  <2>2. QED BY <2>1 DEF Addressed
<1>11. Ordered'
  BY <1>1, <1>6 DEF Routes, Ordered
<1>12. Gone'
  <2>1. ASSUME NEW x \in Ends, NEW d \in Channels,
               Reading(x)', state'[x][d] # "none", ~Listed(x, d)'
        PROVE  Quiet(Other(x), d)' /\ \A q \in On(Other(x))' : q.c # d
    <3>1. Reading(x) /\ state[x][d] # "none" /\ ~Listed(x, d)
      BY <1>4, <1>5, <1>7, <2>1 DEF Listed, Reading
    <3>2. Quiet(Other(x), d) /\ \A q \in On(Other(x)) : q.c # d
      BY <3>1 DEF Routes, Gone
    <3>3. state[e][c] # "rejected"
      BY <1>1, <1>3 DEF Routes, Met
    <3>4. Quiet(Other(x), d)'
      BY <1>1, <1>4, <1>5, <3>2, <3>3 DEF Quiet
    <3>5. QED BY <1>1, <1>6, <3>2, <3>4
  <2>2. QED BY <2>1 DEF Gone
<1>13. Confirmed'
  <2>1. ASSUME NEW x \in Ends, NEW d \in Channels, Opener(d) = Other(x),
               Reading(Other(x))', Other(x) \in up', state'[x][d] = "open"
        PROVE  state'[Other(x)][d] = "open" \/ \E q \in On(x)' : Is(q, "confirm", d)
    <3>1. x = o /\ d = c => state'[Other(x)][d] = "open"
      BY <1>1, <1>5
    <3>2. ~(x = e /\ d = c)
      BY <1>1, <1>3, <2>1
    <3>3. state[Other(x)][d] = "open" \/ \E q \in On(x) : Is(q, "confirm", d)
      BY <1>4, <1>5, <2>1, <3>2 DEF Routes, Confirmed, Reading
    <3>4. QED BY <1>1, <1>2, <1>5, <1>6, <3>1, <3>2, <3>3 DEF Is
  <2>2. QED BY <2>1 DEF Confirmed
<1>14. InUse'
  BY <1>4, <1>5, MuxAssumption DEF Routes, InUse, Targets
<1>15. QED BY <1>8, <1>9, <1>10, <1>11, <1>12, <1>13, <1>14 DEF Routes

\* A number that becomes free, at a packet after which nothing comes.
LEMMA RemovedList ==
  ASSUME TypeOK, Routes, NEW e \in Ends, NEW c \in Channels, Listed(e, c),
         Removed(e, local[e][c]), UNCHANGED local,
         \A x \in Ends, d \in Channels : state[x][d] # "none" => state'[x][d] # "none"
  PROVE  /\ Numbered' /\ ~Listed(e, c)'
         /\ \A x \in Ends, d \in Channels : ~(x = e /\ d = c) => (Listed(x, d)' <=> Listed(x, d))
<1>1. /\ chans'[Other(e)] = chans[Other(e)] /\ Len(chans'[e]) = Len(chans[e])
      /\ chans'[e][local[e][c]] = None
      /\ \A i \in 1..Len(chans[e]) : i # local[e][c] => chans'[e][i] = chans[e][i]
  <2>1. chans[e] \in Seq(Channels \cup {None})
    BY DEF TypeOK
  <2>2. chans'[e] = [chans[e] EXCEPT ![local[e][c]] = None] /\ chans'[Other(e)] = chans[Other(e)]
    BY Pair DEF Removed, TypeOK
  <2>3. QED BY <2>1, <2>2 DEF Listed
<1>2. ASSUME NEW x \in Ends, NEW i \in 1..Len(chans'[x]), chans'[x][i] # None
      PROVE  local'[x][chans'[x][i]] = i /\ state'[x][chans'[x][i]] # "none"
  <2>1. i \in 1..Len(chans[x]) /\ chans'[x][i] = chans[x][i]
    BY <1>1, <1>2, Pair
  <2>2. QED BY <1>2, <2>1, Entries DEF Routes, Numbered
<1>3. ASSUME NEW x \in Ends, NEW d \in Channels, ~(x = e /\ d = c), Listed(x, d)
      PROVE  Listed(x, d)'
  <2>1. x = e => local[e][d] # local[e][c]
    BY <1>3 DEF Listed
  <2>2. QED BY <1>1, <1>3, <2>1, Pair DEF Listed
<1>4. ~Listed(e, c)'
  BY <1>1, MuxAssumption DEF Listed
<1>5. ASSUME NEW x \in Ends, NEW d \in Channels, Listed(x, d)'
      PROVE  Listed(x, d)
  <2>1. ~(x = e /\ local[x][d] = local[e][c])
    BY <1>1, <1>5, MuxAssumption DEF Listed
  <2>2. QED BY <1>1, <1>5, <2>1, Pair DEF Listed
<1>6. QED BY <1>2, <1>3, <1>4, <1>5 DEF Numbered

LEMMA HandleFailureRoutes ==
  ASSUME TypeOK, TypeOK', Routes, NEW e \in Ends, HandleFailure(e)
  PROVE  Routes'
<1> DEFINE o == Other(e)
<1>1. /\ o \in Ends /\ Other(o) = e /\ o # e /\ \A x \in Ends : x = e \/ x = o
  BY Pair
<1>2. PICK p, c : p = Coming(e) /\ c = p.c
  OBVIOUS
<1>3. /\ Takes(e) /\ Taken(e) /\ p.t = "failure" /\ p \in On(o) /\ c \in Channels /\ c # Global
      /\ Of(e) = c /\ Opener(c) = e /\ state[o][c] = "rejected"
      /\ Listed(e, c) /\ p.id = local[e][c]
  <2>1. Takes(e) /\ Taken(e) /\ p.t = "failure"
    BY <1>2 DEF HandleFailure
  <2>2. p \in On(o) /\ Valid(o, p) /\ Of(e) = c /\ p \in Packets
        /\ (c # Global => Listed(e, c) /\ p.id = local[e][c])
    BY <1>2, <2>1, Arrives
  <2>3. QED BY <1>1, <1>2, <2>1, <2>2 DEF Valid, Packets, Targets
<1>4. /\ decided' = [decided EXCEPT ![e][c] = TRUE]
      /\ state' = [state EXCEPT ![e][c] = "failed"]
      /\ Removed(e, local[e][c])
      /\ UNCHANGED <<local, remote, sentClose, requests, loop, up>>
  BY <1>2, <1>3 DEF HandleFailure, request
<1>5. /\ state'[e][c] = "failed"
      /\ \A x \in Ends, d \in Channels : ~(x = e /\ d = c) =>
           state'[x][d] = state[x][d] /\ decided'[x][d] = decided[x][d]
  <2>1. state'[e][c] = "failed" /\ \A x \in Ends, d \in Channels : ~(x = e /\ d = c) => state'[x][d] = state[x][d]
    BY <1>3, <1>4 DEF TypeOK
  <2>2. \A x \in Ends, d \in Channels : ~(x = e /\ d = c) => decided'[x][d] = decided[x][d]
    BY <1>3, <1>4 DEF TypeOK
  <2>3. QED BY <2>1, <2>2
<1>6. /\ wire'[e] = wire[e] /\ On(e)' = On(e)
      /\ On(o)' \subseteq On(o) /\ Ord(wire'[o])
      /\ \A q \in On(o)' : Follows(p, q)
      /\ \A q \in On(o) : q = p \/ q \in On(o)'
  BY <1>1, <1>2, <1>3, TakeEffect DEF Routes, Ordered, On
<1>7. /\ state[e][c] # "none" /\ state[e][c] # "open" /\ state[e][c] # "rejected"
  BY <1>1, <1>3 DEF Routes, Met
<1>8. /\ Numbered'
      /\ \A x \in Ends, d \in Channels : ~(x = e /\ d = c) => (Listed(x, d) => Listed(x, d)')
  <2>1. \A x \in Ends, d \in Channels : state[x][d] # "none" => state'[x][d] # "none"
    BY <1>5
  <2>2. QED BY <1>3, <1>4, <2>1, RemovedList
<1>9. Met'
  BY <1>1, <1>3, <1>4, <1>5 DEF Routes, Met
<1>10. \A q \in On(o)' : q.c # c
  BY <1>2, <1>3, <1>6 DEF Follows
<1>11. Addressed'
  <2>1. ASSUME NEW x \in Ends, NEW q \in On(x)' PROVE Valid(x, q)'
    <3>1. q \in On(x) /\ Valid(x, q) /\ (q.c \in Channels \/ q.c = Global)
      BY <1>1, <1>6, <2>1, Carried
    <3>2. q.c # c
      BY <1>1, <1>3, <1>7, <1>10, <2>1, <3>1 DEF Valid
    <3>3. QED BY <1>1, <1>4, <1>5, <3>1, <3>2 DEF Valid
  <2>2. QED BY <2>1 DEF Addressed
<1>12. Ordered'
  BY <1>1, <1>6 DEF Routes, Ordered
<1>13. Gone'
  <2>1. ASSUME NEW x \in Ends, NEW d \in Channels,
               Reading(x)', state'[x][d] # "none", ~Listed(x, d)'
        PROVE  Quiet(Other(x), d)' /\ \A q \in On(Other(x))' : q.c # d
    <3>1. CASE x = e /\ d = c
      BY <1>1, <1>3, <1>5, <1>10, <3>1 DEF Quiet
    <3>2. CASE ~(x = e /\ d = c)
      <4>1. Reading(x) /\ state[x][d] # "none" /\ ~Listed(x, d)
        BY <1>4, <1>5, <1>8, <2>1, <3>2 DEF Reading
      <4>2. Quiet(Other(x), d) /\ \A q \in On(Other(x)) : q.c # d
        BY <4>1 DEF Routes, Gone
      <4>3. Quiet(Other(x), d)'
        BY <1>1, <1>4, <1>5, <1>7, <4>2 DEF Quiet
      <4>4. QED BY <1>1, <1>6, <4>2, <4>3
    <3>3. QED BY <3>1, <3>2
  <2>2. QED BY <2>1 DEF Gone
<1>14. Confirmed'
  <2>1. ASSUME NEW x \in Ends, NEW d \in Channels, Opener(d) = Other(x),
               Reading(Other(x))', Other(x) \in up', state'[x][d] = "open"
        PROVE  state'[Other(x)][d] = "open" \/ \E q \in On(x)' : Is(q, "confirm", d)
    <3>1. d # c
      BY <1>1, <1>3, <1>5, <2>1
    <3>2. state[Other(x)][d] = "open" \/ \E q \in On(x) : Is(q, "confirm", d)
      BY <1>4, <1>5, <2>1, <3>1 DEF Routes, Confirmed, Reading
    <3>3. QED BY <1>1, <1>2, <1>5, <1>6, <3>1, <3>2 DEF Is
  <2>2. QED BY <2>1 DEF Confirmed
<1>15. InUse'
  BY <1>4, <1>5, <1>7, MuxAssumption DEF Routes, InUse, Targets
<1>16. QED BY <1>8, <1>9, <1>11, <1>12, <1>13, <1>14, <1>15 DEF Routes

LEMMA HandleCloseRoutes ==
  ASSUME TypeOK, TypeOK', Routes, NEW e \in Ends, HandleClose(e)
  PROVE  Routes'
<1> DEFINE o == Other(e)
<1>1. /\ o \in Ends /\ Other(o) = e /\ o # e /\ \A x \in Ends : x = e \/ x = o
  BY Pair
<1>2. PICK p, c : p = Coming(e) /\ c = p.c
  OBVIOUS
<1>3. /\ Takes(e) /\ p.t = "close" /\ p \in On(o) /\ c \in Channels /\ c # Global
      /\ Of(e) = c /\ sentClose[o][c] /\ state[o][c] = "open" /\ state[e][c] = "open"
      /\ Listed(e, c) /\ p.id = local[e][c]
  <2>1. Takes(e) /\ p.t = "close"
    BY <1>2 DEF HandleClose
  <2>2. /\ p \in On(o) /\ Valid(o, p) /\ Of(e) = c /\ p \in Packets
        /\ c # Global => /\ Listed(e, c) /\ p.id = local[e][c]
                         /\ state[o][c] = "open" /\ state[e][c] = "open"
    BY <1>2, <2>1, Arrives
  <2>3. c # Global
    BY <1>2, <2>1, <2>2 DEF Valid
  <2>4. QED BY <1>1, <1>2, <2>1, <2>2, <2>3 DEF Valid, Packets, Targets
<1>4. PICK r : r = Packet("close", remote[e][c], c, 0)
  OBVIOUS
<1>5. r \in Packets /\ r.t = "close" /\ r.id = remote[e][c] /\ r.c = c
  BY <1>3, <1>4, Numbers, PacketType
<1>6. /\ sentClose' = [sentClose EXCEPT ![e][c] = TRUE]
      /\ wire' = [wire EXCEPT ![o] = Tail(@),
                             ![e] = IF sentClose[e][c] \/ up # Ends THEN @ ELSE Append(@, r)]
      /\ Removed(e, local[e][c])
      /\ UNCHANGED <<state, local, remote, decided, requests, loop, up>>
  BY <1>2, <1>3, <1>4 DEF HandleClose, request
<1>7. /\ sentClose'[e][c] /\ sentClose'[o] = sentClose[o]
      /\ \A x \in Ends, d \in Channels : sentClose[x][d] => sentClose'[x][d]
  BY <1>1, <1>3, <1>6 DEF TypeOK
<1>8. /\ On(o)' \subseteq On(o) /\ Ord(wire'[o])
      /\ \A q \in On(o)' : q.c # c
      /\ \A q \in On(o) : q = p \/ q \in On(o)'
  <2>1. wire'[o] = Tail(wire[o]) /\ wire[o] \in Seq(Packets) /\ wire[o] # <<>> /\ p = Head(wire[o])
    BY <1>1, <1>2, <1>3, <1>6 DEF TypeOK, Takes, Coming
  <2>2. Ord(wire[o])
    BY <1>1 DEF Routes, Ordered
  <2>3. QED BY <1>2, <1>3, <2>1, <2>2, Taking DEF On, Follows
<1>9. /\ On(e) \subseteq On(e)' /\ Ord(wire'[e]) /\ On(e)' \subseteq On(e) \cup {r}
      /\ sentClose[e][c] => On(e)' = On(e)
  <2>1. wire[e] \in Seq(Packets) /\ Ord(wire[e])
    BY DEF TypeOK, Routes, Ordered
  <2>2. CASE wire'[e] = wire[e]
    BY <2>1, <2>2 DEF On
  <2>3. CASE wire'[e] = Append(wire[e], r) /\ ~sentClose[e][c]
    <3>1. \A q \in On(e) : Follows(q, r)
      <4>1. \A q \in On(e) : Valid(e, q)
        BY Carried
      <4>2. QED BY <1>3, <1>5, <2>3, <4>1 DEF Valid, Follows
    <3>2. QED BY <1>5, <2>1, <2>3, <3>1, Adding DEF On
  <2>4. QED BY <1>1, <1>6, <2>2, <2>3 DEF TypeOK
<1>10. /\ Numbered'
       /\ \A x \in Ends, d \in Channels : ~(x = e /\ d = c) => (Listed(x, d) => Listed(x, d)')
  BY <1>3, <1>6, RemovedList
<1>11. Met'
  BY <1>6 DEF Routes, Met
<1>12. Addressed'
  <2>1. ASSUME NEW x \in Ends, NEW q \in On(x) PROVE Valid(x, q)'
    <3>1. Valid(x, q) /\ (q.c \in Channels \/ q.c = Global)
      BY <2>1, Carried
    <3>2. QED BY <1>1, <1>6, <1>7, <3>1 DEF Valid
  <2>2. Valid(e, r)'
    <3>1. remote[e][c] = local[o][c]
      BY <1>3 DEF Routes, Met
    <3>2. QED BY <1>3, <1>5, <1>6, <1>7, <3>1 DEF Valid
  <2>3. QED BY <1>1, <1>8, <1>9, <2>1, <2>2 DEF Addressed
<1>13. Ordered'
  BY <1>1, <1>8, <1>9 DEF Ordered
<1>14. Gone'
  <2>1. ASSUME NEW x \in Ends, NEW d \in Channels,
               Reading(x)', state'[x][d] # "none", ~Listed(x, d)'
        PROVE  Quiet(Other(x), d)' /\ \A q \in On(Other(x))' : q.c # d
    <3>1. CASE x = e /\ d = c
      BY <1>1, <1>3, <1>7, <1>8, <3>1 DEF Quiet
    <3>2. CASE ~(x = e /\ d = c)
      <4>1. Reading(x) /\ state[x][d] # "none" /\ ~Listed(x, d)
        BY <1>6, <1>10, <2>1, <3>2 DEF Reading
      <4>2. Quiet(Other(x), d) /\ \A q \in On(Other(x)) : q.c # d
        BY <4>1 DEF Routes, Gone
      <4>3. Quiet(Other(x), d)'
        BY <1>1, <1>6, <1>7, <4>2 DEF Quiet
      <4>4. x = o /\ d = c => sentClose[e][c]
        BY <1>1, <1>3, <4>2 DEF Quiet
      <4>5. QED BY <1>1, <1>5, <1>8, <1>9, <4>2, <4>3, <4>4
    <3>3. QED BY <3>1, <3>2
  <2>2. QED BY <2>1 DEF Gone
<1>15. Confirmed'
  <2>1. ASSUME NEW x \in Ends, NEW d \in Channels, Opener(d) = Other(x),
               Reading(Other(x))', Other(x) \in up', state'[x][d] = "open"
        PROVE  state'[Other(x)][d] = "open" \/ \E q \in On(x)' : Is(q, "confirm", d)
    <3>1. state[Other(x)][d] = "open" \/ \E q \in On(x) : Is(q, "confirm", d)
      BY <1>6, <2>1 DEF Routes, Confirmed, Reading
    <3>2. QED BY <1>1, <1>3, <1>6, <1>8, <1>9, <3>1 DEF Is
  <2>2. QED BY <2>1 DEF Confirmed
<1>16. InUse'
  BY <1>6 DEF Routes, InUse
<1>17. QED BY <1>10, <1>11, <1>12, <1>13, <1>14, <1>15, <1>16 DEF Routes

-----------------------------------------------------------------------------
\* What is closed.
LEMMA ClosedStep ==
  ASSUME TypeOK, TypeOK', Routes, Closed, [Next]_vars
  PROVE  Closed'
<1>1. ASSUME closed' = closed, chans' = chans, local' = local,
             \A x \in Ends, d \in Channels : state[x][d] # "none" => state'[x][d] # "none",
             \A x \in Ends : Reading(x)' => Reading(x)
      PROVE  Closed'
  <2>1. ASSUME NEW x \in Ends, NEW d \in Targets, <<x, d>> \in closed', Reading(x)'
        PROVE  d # Global /\ state'[x][d] # "none" /\ ~Listed(x, d)'
    <3>1. d # Global /\ state[x][d] # "none" /\ ~Listed(x, d)
      BY <1>1, <2>1 DEF Closed
    <3>2. d \in Channels
      BY <3>1 DEF Targets
    <3>3. QED BY <1>1, <3>1, <3>2 DEF Listed
  <2>2. QED BY <2>1 DEF Closed
<1>2. ASSUME NEW e \in Ends, NEW c \in Channels, Opens(e, c) \/ Decides(e, c) \/ Close(e, c)
      PROVE  Closed'
  <2>1. CASE Open(e, c)
    <3>1. /\ state[e][c] = "none" /\ state'[e][c] = "sending"
          /\ \A x \in Ends, d \in Channels : ~(x = e /\ d = c) => state'[x][d] = state[x][d]
          /\ UNCHANGED <<closed, loop>>
      BY <2>1 DEF Open, TypeOK, conn
    <3>2. Added(e, c) /\ local' = [local EXCEPT ![e][c] = Free(e)]
      BY <2>1 DEF Open
    <3>3. \A x \in Ends, d \in Channels : ~(x = e /\ d = c) => (Listed(x, d)' <=> Listed(x, d))
      BY <3>1, <3>2, AddedList
    <3>4. QED BY <3>1, <3>3 DEF Closed, Reading, Targets
  <2>2. CASE ~Open(e, c)
    <3>1. closed' = closed /\ chans' = chans /\ local' = local /\ loop' = loop
      BY <1>2, <2>2 DEF Opens, Decides, Close, SendOpen, OpenFails, Accept, Reject, conn
    <3>2. \/ \E v : v # "none" /\ state' = [state EXCEPT ![e][c] = v]
          \/ state' = state
      BY <1>2, <2>2 DEF Opens, Decides, Close, SendOpen, OpenFails, Accept, Reject
    <3>3. \A x \in Ends, d \in Channels : state[x][d] # "none" => state'[x][d] # "none"
      <4>1. CASE state' = state
        BY <4>1
      <4>2. ASSUME NEW v, v # "none", state' = [state EXCEPT ![e][c] = v]
            PROVE  \A x \in Ends, d \in Channels : state[x][d] # "none" => state'[x][d] # "none"
        BY <4>2 DEF TypeOK
      <4>3. QED BY <3>2, <4>1, <4>2
    <3>4. QED BY <1>1, <3>1, <3>3 DEF Reading
  <2>3. QED BY <2>1, <2>2
<1>3. ASSUME NEW e \in Ends, NEW c \in Targets,
             (\E w \in BOOLEAN : SendRequest(e, c, w)) \/ Returns(e, c) \/ Reply(e, c)
      PROVE  Closed'
  <2>1. UNCHANGED <<closed, chans, local, state, loop>>
    BY <1>3 DEF SendRequest, Returns, Reply, channel, conn
  <2>2. QED BY <1>1, <2>1 DEF Reading
<1>4. ASSUME NEW e \in Ends, Loop(e)
      PROVE  Closed'
  <2>1. CASE HandleOpen(e)
    <3>1. PICK c : c = Coming(e).c
      OBVIOUS
    <3>2. c \in Channels /\ state[e][c] = "none"
      BY <2>1, <3>1, Arrives, Pair, MuxAssumption DEF HandleOpen, Valid
    <3>3. /\ Added(e, c) /\ local' = [local EXCEPT ![e][c] = Free(e)]
          /\ state' = [state EXCEPT ![e][c] = "offered"]
          /\ UNCHANGED <<closed, loop>>
      BY <2>1, <3>1 DEF HandleOpen
    <3>4. /\ state'[e][c] = "offered"
          /\ \A x \in Ends, d \in Channels : ~(x = e /\ d = c) => state'[x][d] = state[x][d]
      BY <3>2, <3>3 DEF TypeOK
    <3>5. \A x \in Ends, d \in Channels : ~(x = e /\ d = c) => (Listed(x, d)' <=> Listed(x, d))
      <4>1. state'[e][c] # "none"
        BY <3>4
      <4>2. QED BY <3>2, <3>3, <3>4, <4>1, AddedList
    <3>6. <<e, c>> \notin closed
      BY <2>1, <3>2 DEF Closed, HandleOpen, Takes, Reading, Targets
    <3>7. QED BY <3>2, <3>3, <3>4, <3>5, <3>6 DEF Closed, Reading, Targets
  <2>2. CASE HandleConfirm(e)
    <3>1. closed' = closed /\ chans' = chans /\ local' = local /\ loop' = loop
      BY <2>2 DEF HandleConfirm
    <3>2. state' = [state EXCEPT ![e][Of(e)] = "open"]
      BY <2>2 DEF HandleConfirm
    <3>3. \A x \in Ends, d \in Channels : state[x][d] # "none" => state'[x][d] # "none"
      BY <3>2 DEF TypeOK
    <3>4. QED BY <1>1, <3>1, <3>3 DEF Reading
  <2>3. CASE HandleFailure(e) \/ HandleClose(e)
    <3>1. PICK c : c = Coming(e).c
      OBVIOUS
    <3>2. /\ c \in Channels /\ c # Global /\ Of(e) = c /\ Listed(e, c)
          /\ Coming(e).id = local[e][c] /\ state[e][c] # "none"
      <4>1. Takes(e) /\ Coming(e).t \in {"failure", "close"}
        BY <2>3 DEF HandleFailure, HandleClose
      <4>2. c # Global /\ c \in Channels
        BY <3>1, <4>1, Arrives DEF Valid, Packets, Targets
      <4>3. /\ Of(e) = c /\ Listed(e, c) /\ Coming(e).id = local[e][c]
            /\ Valid(Other(e), Coming(e))
        BY <3>1, <4>1, <4>2, Arrives
      <4>4. chans[e][local[e][c]] # None
        BY <4>2, <4>3, MuxAssumption DEF Listed
      <4>5. state[e][c] # "none"
        BY <4>3, <4>4 DEF Listed, Routes, Numbered
      <4>6. QED BY <4>2, <4>3, <4>5
    <3>3. /\ Removed(e, local[e][c]) /\ UNCHANGED <<local, loop>>
          /\ closed' = closed \/ closed' = closed \cup {<<e, c>>}
          /\ state' = state \/ state' = [state EXCEPT ![e][c] = "failed"]
      BY <2>3, <3>2 DEF HandleFailure, HandleClose
    <3>4. \A x \in Ends, d \in Channels : state[x][d] # "none" => state'[x][d] # "none"
      <4>1. CASE state' = [state EXCEPT ![e][c] = "failed"]
        BY <4>1 DEF TypeOK
      <4>2. QED BY <3>3, <4>1
    <3>5. /\ ~Listed(e, c)'
          /\ \A x \in Ends, d \in Channels : ~(x = e /\ d = c) => (Listed(x, d)' <=> Listed(x, d))
      BY <3>2, <3>3, <3>4, RemovedList
    <3>6. ASSUME NEW x \in Ends, NEW d \in Targets, <<x, d>> \in closed', Reading(x)'
          PROVE  d # Global /\ state'[x][d] # "none" /\ ~Listed(x, d)'
      <4>1. CASE x = e /\ d = c
        BY <3>2, <3>4, <3>5, <4>1
      <4>2. CASE ~(x = e /\ d = c)
        <5>1. d # Global /\ state[x][d] # "none" /\ ~Listed(x, d)
          BY <3>3, <3>6, <4>2 DEF Closed, Reading
        <5>2. QED BY <3>4, <3>5, <4>2, <5>1 DEF Targets
      <4>3. QED BY <4>1, <4>2
    <3>7. QED BY <3>6 DEF Closed
  <2>4. CASE HandleRequest(e) \/ HandleReply(e)
    <3>1. UNCHANGED <<closed, chans, local, state, loop>>
      BY <2>4 DEF HandleRequest, HandleReply, channel
    <3>2. QED BY <1>1, <3>1 DEF Reading
  <2>5. CASE OnePacketFails(e) \/ DropAll(e) \/ CloseConn(e)
    <3>1. /\ UNCHANGED <<local, state>>
          /\ loop'[e] # "run" /\ loop'[Other(e)] = loop[Other(e)]
          /\ chans'[Other(e)] = chans[Other(e)]
          /\ \A d : <<Other(e), d>> \in closed' => <<Other(e), d>> \in closed
      <4>1. CASE OnePacketFails(e)
        BY <4>1, Pair DEF OnePacketFails, TypeOK, channel
      <4>2. CASE DropAll(e)
        BY <4>2, Pair DEF DropAll, TypeOK
      <4>3. CASE CloseConn(e)
        BY <4>3, Pair DEF CloseConn, TypeOK
      <4>4. QED BY <2>5, <4>1, <4>2, <4>3
    <3>2. ASSUME NEW x \in Ends, NEW d \in Targets, <<x, d>> \in closed', Reading(x)'
          PROVE  d # Global /\ state'[x][d] # "none" /\ ~Listed(x, d)'
      BY <3>1, <3>2, Pair DEF Closed, Reading, Listed
    <3>3. QED BY <3>2 DEF Closed
  <2>6. QED BY <1>4, <2>1, <2>2, <2>3, <2>4, <2>5 DEF Loop
<1>5. CASE Lose
  BY <1>1, <1>5 DEF Lose, channel, Reading
<1>6. CASE UNCHANGED vars
  BY <1>1, <1>6 DEF vars, channel, conn, Reading
<1>7. QED BY <1>2, <1>3, <1>4, <1>5, <1>6 DEF Next

-----------------------------------------------------------------------------
\* The one question.  Most steps bring no request and no reply.
Kept(x) ==
    /\ \A q \in On(x)' : q.t \in {"ask", "reply"} => q \in On(x)
    /\ \A t \in {"ask", "reply"}, c \in Targets : Sole(wire[x], t, c) => Sole(wire[x]', t, c)

LEMMA OneKept ==
  ASSUME One, \A x \in Ends : Kept(x), closed \subseteq closed', UNCHANGED <<asked, msg, requests>>
  PROVE  One'
<1> SUFFICES ASSUME NEW e \in Ends, NEW c \in Targets PROVE OneOf(e, c)'
  BY DEF One
<1>1. Other(e) \in Ends
  BY Pair
<1>2. /\ Asks(e, c)' \subseteq Asks(e, c) /\ Pending(e, c)' = Pending(e, c)
      /\ Replies(e, c)' \subseteq Replies(e, c)
  BY <1>1 DEF Kept, Asks, Pending, Replies, Is
<1>3. /\ Sole(wire[e], "ask", c) => Sole(wire[e]', "ask", c)
      /\ Sole(wire[Other(e)], "reply", c) => Sole(wire[Other(e)]', "reply", c)
  BY <1>1 DEF Kept
<1>4. OneOf(e, c)
  BY DEF One
<1>5. QED BY <1>2, <1>3, <1>4 DEF OneOf

LEMMA KeptSame ==
  ASSUME NEW x \in Ends, wire'[x] = wire[x]
  PROVE  Kept(x)
BY DEF Kept, On

LEMMA KeptSend ==
  ASSUME TypeOK, NEW e \in Ends, NEW p \in Packets, Sends(e, p), p.t \notin {"ask", "reply"}
  PROVE  \A x \in Ends : Kept(x)
<1>1. Kept(e)
  BY SendEffect DEF Kept, Is
<1>2. Kept(Other(e))
  BY SendEffect, KeptSame, Pair
<1>3. QED BY <1>1, <1>2, Pair

LEMMA KeptTake ==
  ASSUME TypeOK, NEW e \in Ends, Takes(e), Taken(e)
  PROVE  \A x \in Ends : Kept(x)
<1>1. Kept(Other(e))
  BY TakeEffect DEF Kept
<1>2. Kept(e)
  BY TakeEffect, KeptSame
<1>3. QED BY <1>1, <1>2, Pair

LEMMA KeptShorter ==
  ASSUME TypeOK, NEW x \in Ends,
         wire'[x] = <<>> \/ (wire[x] # <<>> /\ wire'[x] = Tail(wire[x])) \/ wire'[x] = wire[x]
  PROVE  Kept(x)
<1>1. wire[x] \in Seq(Packets)
  BY DEF TypeOK
<1>2. CASE wire'[x] = <<>>
  BY <1>2, NothingIn DEF Kept, On
<1>3. CASE wire[x] # <<>> /\ wire'[x] = Tail(wire[x])
  BY <1>1, <1>3, Taking DEF Kept, On
<1>4. QED BY <1>2, <1>3, KeptSame

\* What a question is when the end does not wait, and what it is when there is a part.
LEMMA NoQuestion ==
  ASSUME One, NEW e \in Ends, NEW c \in Targets, asked[e][c] = 0 \/ msg[e][c] # <<>>
  PROVE  <<e, c>> \notin closed => Asks(e, c) = {} /\ Pending(e, c) = {} /\ Replies(e, c) = {}
BY DEF One, OneOf

\* The parts of the questions of others are not affected.
LEMMA OneElsewhere ==
  ASSUME One, NEW e \in Ends, NEW c \in Targets, OneOf(e, c)', closed' = closed,
         \A x \in Ends, d \in Targets : ~(x = e /\ d = c) =>
            /\ asked'[x][d] = asked[x][d] /\ msg'[x][d] = msg[x][d]
            /\ Asks(x, d)' \subseteq Asks(x, d) /\ Pending(x, d)' \subseteq Pending(x, d)
            /\ Replies(x, d)' \subseteq Replies(x, d)
            /\ Sole(wire[x], "ask", d) => Sole(wire[x]', "ask", d)
            /\ Sole(requests[Other(x)][d], "ask", d) => Sole(requests'[Other(x)][d], "ask", d)
            /\ Sole(wire[Other(x)], "reply", d) => Sole(wire[Other(x)]', "reply", d)
  PROVE  One'
<1> SUFFICES ASSUME NEW x \in Ends, NEW d \in Targets PROVE OneOf(x, d)'
  BY DEF One
<1>1. CASE x = e /\ d = c
  BY <1>1
<1>2. CASE ~(x = e /\ d = c)
  <2>1. OneOf(x, d)
    BY DEF One
  <2>2. QED BY <1>2, <2>1 DEF OneOf
<1>3. QED BY <1>1, <1>2

LEMMA SendRequestOne ==
  ASSUME TypeOK, One, NEW e \in Ends, NEW c \in Targets, NEW wantReply \in BOOLEAN,
         SendRequest(e, c, wantReply)
  PROVE  One'
<1>1. PICK p : p = Packet(IF wantReply THEN "ask" ELSE "tell",
                          IF c = Global THEN 0 ELSE remote[e][c], c, made + 1)
  OBVIOUS
<1>2. /\ p \in Packets /\ p.t = (IF wantReply THEN "ask" ELSE "tell") /\ p.c = c
      /\ p.n = made + 1 /\ made \in Nat
  <2>1. (IF c = Global THEN 0 ELSE remote[e][c]) \in Nat /\ made + 1 \in Nat /\ made \in Nat
    BY DEF TypeOK, Targets
  <2>2. QED BY <1>1, <2>1, PacketType
<1>3. /\ UNCHANGED <<msg, requests, closed>> /\ Sends(e, p)
      /\ wantReply => asked[e][c] = 0
      /\ asked' = [asked EXCEPT ![e][c] = IF wantReply THEN made + 1 ELSE @]
  BY <1>1 DEF SendRequest, channel
<1>4. CASE ~wantReply
  <2>1. asked' = asked
    BY <1>3, <1>4 DEF TypeOK
  <2>2. \A x \in Ends : Kept(x)
    BY <1>2, <1>3, <1>4, KeptSend
  <2>3. QED BY <1>3, <2>1, <2>2, OneKept
<1>5. CASE wantReply
  <2> DEFINE o == Other(e)
  <2>1. /\ o \in Ends /\ Other(o) = e /\ o # e /\ \A x \in Ends : x = e \/ x = o
    BY Pair
  <2>2. /\ asked[e][c] = 0 /\ asked'[e][c] = made + 1
        /\ \A x \in Ends, d \in Targets : ~(x = e /\ d = c) => asked'[x][d] = asked[x][d]
    BY <1>3, <1>5 DEF TypeOK
  <2>3. /\ wire'[o] = wire[o] /\ On(o)' = On(o) /\ On(e)' \subseteq On(e) \cup {p}
        /\ \A t, d : Sole(wire[e], t, d) /\ (Is(p, t, d) => \A q \in On(e) : ~Is(q, t, d))
                        => Sole(wire'[e], t, d)
    BY <1>2, <1>3, SendEffect DEF On
  <2>4. /\ msg[e][c] = <<>>
        /\ <<e, c>> \notin closed => /\ Asks(e, c) = {} /\ Pending(e, c) = {} /\ Replies(e, c) = {}
                                     /\ Sole(wire[e], "ask", c) /\ Sole(requests[o][c], "ask", c)
                                     /\ Sole(wire[o], "reply", c)
    BY <2>2, NoQuestion DEF One, OneOf
  <2>5. OneOf(e, c)'
    <3>1. Asks(e, c)' \subseteq Asks(e, c) \cup {p}
      BY <2>3 DEF Asks
    <3>2. Pending(e, c)' = Pending(e, c) /\ Replies(e, c)' = Replies(e, c)
      BY <1>3, <2>3 DEF Pending, Replies
    <3>3. <<e, c>> \notin closed => Sole(wire'[e], "ask", c)
      BY <2>3, <2>4 DEF Asks
    <3>4. QED BY <1>2, <1>3, <2>2, <2>3, <2>4, <3>1, <3>2, <3>3 DEF OneOf
  <2>6. ASSUME NEW x \in Ends, NEW d \in Targets, ~(x = e /\ d = c)
        PROVE  /\ Asks(x, d)' \subseteq Asks(x, d) /\ Pending(x, d)' \subseteq Pending(x, d)
               /\ Replies(x, d)' \subseteq Replies(x, d)
               /\ Sole(wire[x], "ask", d) => Sole(wire[x]', "ask", d)
               /\ Sole(wire[Other(x)], "reply", d) => Sole(wire[Other(x)]', "reply", d)
    <3>1. /\ ~(x = e /\ Is(p, "ask", d)) /\ ~Is(p, "reply", d)
      BY <1>2, <1>5, <2>6 DEF Is
    <3>2. QED BY <1>3, <2>1, <2>3, <3>1 DEF Asks, Pending, Replies
  <2>7. QED BY <1>3, <2>2, <2>5, <2>6, OneElsewhere
<1>6. QED BY <1>4, <1>5

LEMMA ReturnsOne ==
  ASSUME TypeOK, One, NEW e \in Ends, NEW c \in Targets, Returns(e, c)
  PROVE  One'
<1>1. /\ UNCHANGED <<wire, requests, closed>>
      /\ asked' = [asked EXCEPT ![e][c] = 0]
      /\ msg' = [msg EXCEPT ![e][c] = IF @ = <<>> THEN @ ELSE Tail(@)]
      /\ msg[e][c] # <<>> \/ <<e, c>> \in closed
  BY DEF Returns, channel, conn
<1>2. /\ asked'[e][c] = 0
      /\ \A x \in Ends, d \in Targets : ~(x = e /\ d = c) => asked'[x][d] = asked[x][d]
  BY <1>1 DEF TypeOK
<1>3. /\ msg'[e][c] = IF msg[e][c] = <<>> THEN <<>> ELSE Tail(msg[e][c])
      /\ \A x \in Ends, d \in Targets : ~(x = e /\ d = c) => msg'[x][d] = msg[x][d]
  BY <1>1 DEF TypeOK
<1>4. OneOf(e, c)
  BY DEF One
<1>5. msg'[e][c] = <<>>
  <2>1. CASE msg[e][c] # <<>>
    <3>1. msg[e][c] = <<asked[e][c]>>
      BY <1>4, <2>1 DEF OneOf
    <3>2. Tail(<<asked[e][c]>>) = <<>>
      BY DEF TypeOK
    <3>3. QED BY <1>3, <2>1, <3>1, <3>2
  <2>2. QED BY <1>3, <2>1
<1>6. /\ \A x \in Ends, d \in Targets :
            Asks(x, d)' = Asks(x, d) /\ Pending(x, d)' = Pending(x, d) /\ Replies(x, d)' = Replies(x, d)
  BY <1>1 DEF Asks, Pending, Replies, On
<1>7. OneOf(e, c)'
  <2>1. <<e, c>> \notin closed => Asks(e, c) = {} /\ Pending(e, c) = {} /\ Replies(e, c) = {}
    BY <1>1, NoQuestion
  <2>2. QED BY <1>1, <1>4, <1>5, <1>6, <2>1 DEF OneOf
<1>8. QED BY <1>1, <1>2, <1>3, <1>6, <1>7, OneElsewhere

\* The request becomes a reply, or nothing.
LEMMA ReplyOne ==
  ASSUME TypeOK, Routes, One, NEW e \in Ends, NEW c \in Targets, Reply(e, c)
  PROVE  One'
<1> DEFINE o == Other(e)
           s == requests[e][c]
<1>1. /\ o \in Ends /\ Other(o) = e /\ o # e /\ \A x \in Ends : x = e \/ x = o
  BY Pair
<1>2. PICK h : h = Head(s)
  OBVIOUS
<1>3. /\ s \in Seq(Packets) /\ s # <<>> /\ requests' = [requests EXCEPT ![e][c] = Tail(@)]
      /\ UNCHANGED <<asked, msg, closed>>
  BY DEF Reply, TypeOK, channel
<1>4. /\ h \in Packets /\ h.n \in Nat /\ Els(s) = Els(Tail(s)) \cup {h}
      /\ \A t, d : Sole(s, t, d) => /\ Sole(Tail(s), t, d)
                                    /\ Is(h, t, d) => \A q \in Els(Tail(s)) : ~Is(q, t, d)
  <2>1. /\ h \in Packets /\ Els(s) = Els(Tail(s)) \cup {h}
        /\ \A t, d : Sole(s, t, d) => /\ Sole(Tail(s), t, d)
                                      /\ Is(h, t, d) => \A q \in Els(Tail(s)) : ~Is(q, t, d)
    BY <1>2, <1>3, Taking
  <2>2. QED BY <2>1 DEF Packets
<1>5. PICK p : p = Packet("reply", IF c = Global THEN 0 ELSE remote[e][c], c, h.n)
  OBVIOUS
<1>6. p \in Packets /\ p.t = "reply" /\ p.c = c /\ p.n = h.n
  <2>1. (IF c = Global THEN 0 ELSE remote[e][c]) \in Nat
    BY DEF TypeOK, Targets
  <2>2. QED BY <1>4, <1>5, <2>1, PacketType
<1>7. wire' = wire \/ (h.t = "ask" /\ Sends(e, p))
  BY <1>2, <1>5 DEF Reply
<1>8. /\ requests'[e][c] = Tail(s)
      /\ \A x \in Ends, d \in Targets : ~(x = e /\ d = c) => requests'[x][d] = requests[x][d]
  BY <1>3 DEF TypeOK
<1>9. h.c = c
  <2>1. h \in Els(s)
    BY <1>4
  <2>2. QED BY <2>1 DEF Routes, InUse
<1> HIDE DEF s
<1>10. /\ wire'[o] = wire[o] /\ On(o)' = On(o) /\ On(e)' \subseteq On(e) \cup {p}
       /\ h.t # "ask" => On(e)' = On(e)
       /\ \A t, d : Sole(wire[e], t, d) /\ (Is(p, t, d) => \A q \in On(e) : ~Is(q, t, d))
                       => Sole(wire'[e], t, d)
       /\ h.t # "ask" => wire'[e] = wire[e]
  <2>1. CASE wire' = wire
    BY <2>1 DEF On
  <2>2. CASE h.t = "ask" /\ Sends(e, p)
    BY <1>6, <2>2, SendEffect DEF On
  <2>3. QED BY <1>7, <2>1, <2>2
<1>11. /\ Pending(o, c)' \subseteq Pending(o, c)
       /\ Asks(o, c)' = Asks(o, c)
       /\ Replies(o, c)' \subseteq Replies(o, c) \cup {p}
       /\ h.t # "ask" => Replies(o, c)' = Replies(o, c)
  BY <1>1, <1>4, <1>8, <1>10 DEF Pending, Asks, Replies, s
<1>12. OneOf(o, c)
  BY <1>1 DEF One
<1>13. OneOf(o, c)'
  <2>1. CASE h.t = "ask"
    <3>1. h \in Pending(o, c)
      BY <1>1, <1>4, <1>9, <2>1 DEF Pending, Is, s
    <3>2. ASSUME <<o, c>> \notin closed
          PROVE  /\ Asks(o, c) = {} /\ Replies(o, c) = {} /\ Pending(o, c)' = {}
                 /\ h.n = asked[o][c] /\ asked[o][c] # 0 /\ msg[o][c] = <<>>
                 /\ Sole(wire[o], "ask", c) /\ Sole(requests'[e][c], "ask", c)
                 /\ Sole(wire[e], "reply", c)
      <4>1. /\ Asks(o, c) = {} /\ Replies(o, c) = {}
            /\ h.n = asked[o][c] /\ asked[o][c] # 0 /\ msg[o][c] = <<>>
            /\ Sole(wire[o], "ask", c) /\ Sole(s, "ask", c) /\ Sole(wire[e], "reply", c)
        BY <1>1, <1>12, <3>1, <3>2 DEF OneOf, s
      <4>2. Is(h, "ask", c)
        BY <1>9, <2>1 DEF Is
      <4>3. Sole(requests'[e][c], "ask", c)
        BY <1>4, <1>8, <4>1
      <4>4. Pending(o, c)' = {}
        BY <1>1, <1>4, <1>8, <4>1, <4>2 DEF Pending
      <4>5. QED BY <4>1, <4>3, <4>4
    <3>3. <<o, c>> \notin closed => Sole(wire'[e], "reply", c)
      BY <1>1, <1>10, <3>2 DEF Replies
    <3>4. QED BY <1>1, <1>3, <1>6, <1>10, <1>11, <1>12, <3>2, <3>3 DEF OneOf
  <2>2. CASE h.t # "ask"
    <3>1. Sole(s, "ask", c) => Sole(requests'[e][c], "ask", c)
      BY <1>4, <1>8
    <3>2. QED BY <1>1, <1>3, <1>10, <1>11, <1>12, <2>2, <3>1 DEF OneOf, s
  <2>3. QED BY <2>1, <2>2
<1>14. ASSUME NEW x \in Ends, NEW d \in Targets, ~(x = o /\ d = c)
       PROVE  /\ Asks(x, d)' \subseteq Asks(x, d) /\ Pending(x, d)' \subseteq Pending(x, d)
              /\ Replies(x, d)' \subseteq Replies(x, d)
              /\ Sole(wire[x], "ask", d) => Sole(wire[x]', "ask", d)
              /\ Sole(requests[Other(x)][d], "ask", d) => Sole(requests'[Other(x)][d], "ask", d)
              /\ Sole(wire[Other(x)], "reply", d) => Sole(wire[Other(x)]', "reply", d)
  <2>1. ~Is(p, "ask", d) /\ ~(x = o /\ Is(p, "reply", d))
    BY <1>6, <1>14 DEF Is
  <2>2. requests'[Other(x)][d] = requests[Other(x)][d]
    BY <1>1, <1>8, <1>14
  <2>3. QED BY <1>1, <1>10, <2>1, <2>2 DEF Asks, Pending, Replies
<1>15. QED BY <1>1, <1>3, <1>13, <1>14, OneElsewhere

\* The request comes to the other end.
LEMMA HandleRequestOne ==
  ASSUME TypeOK, Routes, One, NEW e \in Ends, HandleRequest(e)
  PROVE  One'
<1> DEFINE o == Other(e)
<1>1. /\ o \in Ends /\ Other(o) = e /\ o # e /\ \A x \in Ends : x = e \/ x = o
  BY Pair
<1>2. PICK p, c : p = Coming(e) /\ c = p.c
  OBVIOUS
<1>3. /\ Takes(e) /\ Taken(e) /\ p.t \in {"ask", "tell"} /\ UNCHANGED <<asked, msg, closed>>
      /\ requests' = [requests EXCEPT ![e][Of(e)] = Append(@, p)]
  BY <1>2 DEF HandleRequest, channel
<1>4. p \in Packets /\ p \in On(o) /\ c \in Targets /\ Of(e) = c
  BY <1>2, <1>3, Arrives DEF Packets
<1>5. requests[e][c] \in Seq(Packets)
  BY <1>4 DEF TypeOK
<1>6. /\ requests'[e][c] = Append(requests[e][c], p)
      /\ \A x \in Ends, d \in Targets : ~(x = e /\ d = c) => requests'[x][d] = requests[x][d]
  BY <1>3, <1>4 DEF TypeOK
<1>7. /\ Els(requests'[e][c]) = Els(requests[e][c]) \cup {p}
      /\ \A t, d : Sole(requests[e][c], t, d) /\ (Is(p, t, d) => \A q \in Els(requests[e][c]) : ~Is(q, t, d))
                      => Sole(requests'[e][c], t, d)
  BY <1>4, <1>5, <1>6, Adding
<1>8. /\ wire'[e] = wire[e] /\ On(e)' = On(e) /\ On(o) = On(o)' \cup {p}
      /\ \A t, d : Sole(wire[o], t, d) => /\ Sole(wire'[o], t, d)
                                          /\ Is(p, t, d) => \A q \in On(o)' : ~Is(q, t, d)
  BY <1>2, <1>3, TakeEffect DEF On
<1>9. OneOf(o, c)
  BY <1>1, <1>4 DEF One
<1>10. /\ Asks(o, c)' \subseteq Asks(o, c) /\ Pending(o, c)' \subseteq Pending(o, c) \cup {p}
       /\ Replies(o, c)' = Replies(o, c)
  BY <1>1, <1>7, <1>8 DEF Asks, Pending, Replies
<1>11. OneOf(o, c)'
  <2>1. CASE p.t = "ask"
    <3>1. Is(p, "ask", c) /\ p \in Asks(o, c)
      BY <1>2, <1>4, <2>1 DEF Is, Asks
    <3>2. ASSUME <<o, c>> \notin closed
          PROVE  /\ Pending(o, c) = {} /\ Replies(o, c) = {} /\ Asks(o, c)' = {}
                 /\ p.n = asked[o][c] /\ asked[o][c] # 0 /\ msg[o][c] = <<>>
                 /\ Sole(wire'[o], "ask", c) /\ Sole(requests'[e][c], "ask", c)
                 /\ Sole(wire[e], "reply", c)
      <4>1. /\ Pending(o, c) = {} /\ Replies(o, c) = {}
            /\ p.n = asked[o][c] /\ asked[o][c] # 0 /\ msg[o][c] = <<>>
            /\ Sole(wire[o], "ask", c) /\ Sole(requests[e][c], "ask", c) /\ Sole(wire[e], "reply", c)
        BY <1>1, <1>9, <3>1, <3>2 DEF OneOf
      <4>2. Sole(requests'[e][c], "ask", c)
        BY <1>1, <1>7, <4>1 DEF Pending
      <4>3. Asks(o, c)' = {} /\ Sole(wire'[o], "ask", c)
        BY <1>8, <3>1, <4>1 DEF Asks
      <4>4. QED BY <4>1, <4>2, <4>3
    <3>3. QED BY <1>1, <1>3, <1>8, <1>9, <1>10, <3>2 DEF OneOf
  <2>2. CASE p.t # "ask"
    <3>1. ~Is(p, "ask", c)
      BY <2>2 DEF Is
    <3>2. Pending(o, c)' = Pending(o, c) /\ (Sole(requests[e][c], "ask", c) => Sole(requests'[e][c], "ask", c))
      BY <1>1, <1>7, <3>1 DEF Pending
    <3>3. Sole(wire[o], "ask", c) => Sole(wire'[o], "ask", c)
      BY <1>8
    <3>4. QED BY <1>1, <1>3, <1>8, <1>9, <1>10, <3>2, <3>3 DEF OneOf
  <2>3. QED BY <2>1, <2>2
<1>12. ASSUME NEW x \in Ends, NEW d \in Targets, ~(x = o /\ d = c)
       PROVE  /\ Asks(x, d)' \subseteq Asks(x, d) /\ Pending(x, d)' \subseteq Pending(x, d)
              /\ Replies(x, d)' \subseteq Replies(x, d)
              /\ Sole(wire[x], "ask", d) => Sole(wire[x]', "ask", d)
              /\ Sole(requests[Other(x)][d], "ask", d) => Sole(requests'[Other(x)][d], "ask", d)
              /\ Sole(wire[Other(x)], "reply", d) => Sole(wire[Other(x)]', "reply", d)
  <2>1. requests'[Other(x)][d] = requests[Other(x)][d]
    BY <1>1, <1>6, <1>12
  <2>2. QED BY <1>1, <1>8, <2>1 DEF Asks, Pending, Replies
<1>13. QED BY <1>1, <1>3, <1>4, <1>11, <1>12, OneElsewhere

\* The reply becomes the response.
LEMMA HandleReplyOne ==
  ASSUME TypeOK, Routes, One, Closed, NEW e \in Ends, HandleReply(e)
  PROVE  One'
<1> DEFINE o == Other(e)
<1>1. /\ o \in Ends /\ Other(o) = e /\ o # e /\ \A x \in Ends : x = e \/ x = o
  BY Pair
<1>2. PICK p, c : p = Coming(e) /\ c = p.c
  OBVIOUS
<1>3. /\ Takes(e) /\ Taken(e) /\ p.t = "reply" /\ UNCHANGED <<asked, requests, closed>>
      /\ msg' = [msg EXCEPT ![e][Of(e)] = Append(@, p.n)]
  BY <1>2 DEF HandleReply, channel
<1>4. p \in Packets /\ p \in On(o) /\ c \in Targets /\ Of(e) = c /\ (c # Global => Listed(e, c))
  BY <1>2, <1>3, Arrives DEF Packets
<1>5. <<e, c>> \notin closed
  BY <1>3, <1>4 DEF Closed, Takes, Reading
<1>6. /\ msg'[e][c] = Append(msg[e][c], p.n)
      /\ \A x \in Ends, d \in Targets : ~(x = e /\ d = c) => msg'[x][d] = msg[x][d]
  BY <1>3, <1>4 DEF TypeOK
<1>7. /\ wire'[e] = wire[e] /\ On(e)' = On(e) /\ On(o) = On(o)' \cup {p}
      /\ \A t, d : Sole(wire[o], t, d) => /\ Sole(wire'[o], t, d)
                                          /\ Is(p, t, d) => \A q \in On(o)' : ~Is(q, t, d)
  BY <1>2, <1>3, TakeEffect DEF On
<1>8. Is(p, "reply", c) /\ p \in Replies(e, c)
  BY <1>2, <1>3, <1>4 DEF Is, Replies
<1>9. /\ Asks(e, c) = {} /\ Pending(e, c) = {}
      /\ p.n = asked[e][c] /\ asked[e][c] # 0 /\ msg[e][c] = <<>>
      /\ Sole(wire[e], "ask", c) /\ Sole(requests[o][c], "ask", c) /\ Sole(wire[o], "reply", c)
  BY <1>4, <1>5, <1>8 DEF One, OneOf
<1>10. Asks(e, c)' = Asks(e, c) /\ Pending(e, c)' = Pending(e, c) /\ Replies(e, c)' = {}
  BY <1>3, <1>7, <1>8, <1>9 DEF Asks, Pending, Replies
<1>11. OneOf(e, c)'
  <2>1. msg'[e][c] = <<asked[e][c]>>
    BY <1>6, <1>9
  <2>2. QED BY <1>3, <1>7, <1>9, <1>10, <2>1 DEF OneOf
<1>12. ASSUME NEW x \in Ends, NEW d \in Targets, ~(x = e /\ d = c)
       PROVE  /\ Asks(x, d)' \subseteq Asks(x, d) /\ Pending(x, d)' \subseteq Pending(x, d)
              /\ Replies(x, d)' \subseteq Replies(x, d)
              /\ Sole(wire[x], "ask", d) => Sole(wire[x]', "ask", d)
              /\ Sole(requests[Other(x)][d], "ask", d) => Sole(requests'[Other(x)][d], "ask", d)
              /\ Sole(wire[Other(x)], "reply", d) => Sole(wire[Other(x)]', "reply", d)
  BY <1>1, <1>3, <1>7 DEF Asks, Pending, Replies
<1>13. QED BY <1>3, <1>4, <1>6, <1>11, <1>12, OneElsewhere

\* A close is answered with a close.
LEMMA HandleCloseKept ==
  ASSUME TypeOK, Routes, NEW e \in Ends, HandleClose(e)
  PROVE  \A x \in Ends : Kept(x)
<1> DEFINE o == Other(e)
<1>1. /\ o \in Ends /\ Other(o) = e /\ o # e /\ \A x \in Ends : x = e \/ x = o
  BY Pair
<1>2. PICK c : c = Of(e)
  OBVIOUS
<1>3. c \in Channels
  <2>1. Takes(e) /\ Coming(e).t = "close"
    BY DEF HandleClose
  <2>2. QED BY <1>2, <2>1, Arrives DEF Valid, Packets, Targets
<1>4. PICK p : p = Packet("close", remote[e][c], c, 0)
  OBVIOUS
<1>5. p \in Packets /\ p.t = "close"
  <2>1. remote[e][c] \in Nat /\ c \in Targets
    BY <1>3 DEF TypeOK, Targets
  <2>2. QED BY <1>4, <2>1, PacketType
<1>6. /\ wire[e] \in Seq(Packets) /\ wire[o] # <<>>
      /\ wire'[o] = Tail(wire[o])
      /\ wire'[e] = wire[e] \/ wire'[e] = Append(wire[e], p)
  <2>1. wire' = [wire EXCEPT ![o] = Tail(@),
                             ![e] = IF sentClose[e][c] \/ up # Ends THEN @ ELSE Append(@, p)]
    BY <1>2, <1>4 DEF HandleClose
  <2>2. QED BY <1>1, <2>1 DEF TypeOK, HandleClose, Takes
<1>7. Kept(o)
  BY <1>1, <1>6, KeptShorter
<1>8. Kept(e)
  <2>1. CASE wire'[e] = wire[e]
    BY <2>1, KeptSame
  <2>2. CASE wire'[e] = Append(wire[e], p)
    BY <1>5, <1>6, <2>2, Adding DEF Kept, On, Is
  <2>3. QED BY <1>6, <2>1, <2>2
<1>9. QED BY <1>1, <1>7, <1>8

LEMMA OneStep ==
  ASSUME TypeOK, Routes, One, Closed, [Next]_vars
  PROVE  One'
<1>1. ASSUME NEW e \in Ends, NEW c \in Channels, Opens(e, c) \/ Decides(e, c) \/ Close(e, c)
      PROVE  One'
  <2>1. UNCHANGED <<asked, msg, requests, closed>>
    BY <1>1 DEF Opens, Open, SendOpen, OpenFails, Decides, Accept, Reject, Close, request
  <2>2. /\ local[e][c] \in Nat /\ remote[e][c] \in Nat /\ c \in Targets
    BY DEF TypeOK, Targets
  <2>3. ASSUME NEW t \in {"open", "confirm", "failure", "close"}, NEW id \in Nat, NEW n \in Nat,
               Sends(e, Packet(t, id, c, n))
        PROVE  \A x \in Ends : Kept(x)
    <3>1. PICK p : p = Packet(t, id, c, n)
      OBVIOUS
    <3>2. p \in Packets /\ p.t \notin {"ask", "reply"}
      BY <2>2, <3>1, PacketType
    <3>3. QED BY <2>3, <3>1, <3>2, KeptSend
  <2>4. wire' = wire \/ \E t \in {"open", "confirm", "failure", "close"}, id \in Nat, n \in Nat :
                            Sends(e, Packet(t, id, c, n))
    <3>1. CASE Open(e, c) \/ OpenFails(e, c)
      BY <3>1 DEF Open, OpenFails, conn
    <3>2. CASE SendOpen(e, c)
      BY <2>2, <3>2 DEF SendOpen
    <3>3. CASE Accept(e, c)
      BY <2>2, <3>3 DEF Accept
    <3>4. CASE Reject(e, c) \/ Close(e, c)
      BY <2>2, <3>4 DEF Reject, Close
    <3>5. QED BY <1>1, <3>1, <3>2, <3>3, <3>4 DEF Opens, Decides
  <2>5. \A x \in Ends : Kept(x)
    BY <2>3, <2>4, KeptSame
  <2>6. QED BY <2>1, <2>5, OneKept
<1>2. ASSUME NEW e \in Ends, Loop(e)
      PROVE  One'
  <2>1. CASE HandleOpen(e) \/ HandleConfirm(e) \/ HandleFailure(e)
    <3>1. Takes(e) /\ Taken(e) /\ UNCHANGED <<asked, msg, requests, closed>>
      BY <2>1 DEF HandleOpen, HandleConfirm, HandleFailure, request
    <3>2. QED BY <3>1, KeptTake, OneKept
  <2>2. CASE HandleClose(e)
    <3>1. UNCHANGED <<asked, msg, requests>> /\ closed \subseteq closed'
      BY <2>2 DEF HandleClose, request
    <3>2. QED BY <2>2, <3>1, HandleCloseKept, OneKept
  <2>3. CASE HandleRequest(e)
    BY <2>3, HandleRequestOne
  <2>4. CASE HandleReply(e)
    BY <2>4, HandleReplyOne
  <2>5. CASE OnePacketFails(e) \/ DropAll(e) \/ CloseConn(e)
    <3>1. UNCHANGED <<asked, msg, requests>> /\ closed \subseteq closed'
      BY <2>5 DEF OnePacketFails, DropAll, CloseConn, request, channel
    <3>2. \A x \in Ends : \/ wire'[x] = <<>>
                          \/ wire[x] # <<>> /\ wire'[x] = Tail(wire[x])
                          \/ wire'[x] = wire[x]
      BY <2>5, Pair DEF OnePacketFails, DropAll, CloseConn, Refused, Takes, TypeOK
    <3>3. QED BY <3>1, <3>2, KeptShorter, OneKept
  <2>6. QED BY <1>2, <2>1, <2>2, <2>3, <2>4, <2>5 DEF Loop
<1>3. ASSUME NEW e \in Ends, NEW c \in Targets, NEW wantReply \in BOOLEAN,
             SendRequest(e, c, wantReply)
      PROVE  One'
  BY <1>3, SendRequestOne
<1>4. ASSUME NEW e \in Ends, NEW c \in Targets, Returns(e, c) \/ Reply(e, c)
      PROVE  One'
  BY <1>4, ReturnsOne, ReplyOne
<1>5. CASE Lose
  <2>1. \A x \in Ends : wire'[x] = <<>>
    BY <1>5 DEF Lose
  <2>2. UNCHANGED <<asked, msg, requests, closed>>
    BY <1>5 DEF Lose, request, channel
  <2>3. QED BY <2>1, <2>2, KeptShorter, OneKept
<1>6. CASE UNCHANGED vars
  BY <1>6, KeptSame, OneKept DEF vars, channel, request, conn
<1>7. QED BY <1>1, <1>2, <1>3, <1>4, <1>5, <1>6 DEF Next

-----------------------------------------------------------------------------
\* Together.
LEMMA RoutesStep ==
  ASSUME TypeOK, TypeOK', Routes, [Next]_vars
  PROVE  Routes'
<1>1. ASSUME NEW e \in Ends, NEW c \in Channels, Opens(e, c) \/ Decides(e, c) \/ Close(e, c)
      PROVE  Routes'
  BY <1>1, OpenRoutes, SendOpenRoutes, OpenFailsRoutes, DecidesRoutes, CloseRoutes DEF Opens
<1>2. ASSUME NEW e \in Ends, Loop(e)
      PROVE  Routes'
  <2>1. CASE OnePacketFails(e) \/ DropAll(e) \/ CloseConn(e)
    BY <2>1, EndRoutes
  <2>2. QED BY <1>2, <2>1, HandleOpenRoutes, HandleConfirmRoutes, HandleFailureRoutes,
              HandleCloseRoutes, HandleRequestRoutes, HandleReplyRoutes DEF Loop
<1>3. ASSUME NEW e \in Ends, NEW c \in Targets, NEW wantReply \in BOOLEAN,
             SendRequest(e, c, wantReply)
      PROVE  Routes'
  BY <1>3, SendRequestRoutes
<1>4. ASSUME NEW e \in Ends, NEW c \in Targets, Returns(e, c) \/ Reply(e, c)
      PROVE  Routes'
  BY <1>4, ReturnsRoutes, ReplyRoutes
<1>5. CASE Lose
  BY <1>5, LoseRoutes
<1>6. CASE UNCHANGED vars
  BY <1>6 DEF vars, channel, request, conn, Routes, Numbered, Met, Addressed, Valid, Ordered,
              Gone, Confirmed, InUse, On, Listed, Reading, Quiet
<1>7. QED BY <1>1, <1>2, <1>3, <1>4, <1>5, <1>6 DEF Next

LEMMA InitInvariant == Init => IInv
<1> SUFFICES ASSUME Init PROVE IInv
  OBVIOUS
<1>1. TypeOK
  BY DEF Init, At, OnAll, TypeOK, Ends, Targets
<1>2. \A x \in Ends : On(x) = {} /\ wire[x] = <<>> /\ chans[x] = <<>>
  BY NothingIn DEF Init, On
<1>3. /\ \A x \in Ends, c \in Channels : state[x][c] = "none" /\ ~decided[x][c]
      /\ \A x \in Ends, c \in Targets : requests[x][c] = <<>> /\ msg[x][c] = <<>>
      /\ closed = {}
  BY DEF Init, At, OnAll
<1>4. Routes
  <2>1. Numbered
    BY <1>2 DEF Numbered
  <2>2. Met
    BY <1>3, Pair DEF Met
  <2>3. Addressed /\ Ordered /\ Gone /\ Confirmed
    BY <1>2, <1>3, NothingIn DEF Addressed, Ordered, Gone, Confirmed
  <2>4. InUse
    BY <1>3, NothingIn DEF InUse
  <2>5. QED BY <2>1, <2>2, <2>3, <2>4 DEF Routes
<1>5. One
  <2>1. ASSUME NEW x \in Ends, NEW c \in Targets PROVE OneOf(x, c)
    BY <1>2, <1>3, Pair, NothingIn DEF OneOf, Asks, Pending, Replies
  <2>2. QED BY <2>1 DEF One
<1>6. Closed
  BY <1>3 DEF Closed
<1>7. QED BY <1>1, <1>4, <1>5, <1>6 DEF IInv

\* The invariant from which the theorems follow: every action of mux.go and of the
\* control messages of channel.go keeps the numbers, what is on the way, and the
\* questions in order.
THEOREM Invariance == Spec => []IInv
<1>1. IInv /\ [Next]_vars => IInv'
  BY TypeStep, RoutesStep, OneStep, ClosedStep DEF IInv
<1>2. QED BY <1>1, InitInvariant, PTL DEF Spec

\* The variables of both ends keep their types: lists hold channels or nothing, numbers
\* stay natural, and what onePacket hands on as a request goes to a channel or the connection.
THEOREM TypeCorrect == Spec => []TypeOK
<1>1. IInv => TypeOK
  BY DEF IInv
<1>2. QED BY <1>1, Invariance, PTL

\* Whatever onePacket takes is for the channel that it is handed to, though numbers are
\* used again, and is what this channel may get; and SendRequest gets the response to what
\* it has sent, though requests carry no number.
THEOREM AlwaysForTheRightOne == Spec => []ForTheRightOne
<1>1. IInv => Routed
  BY Arrives DEF IInv, Routed
<1>2. IInv => Answered
  BY DEF IInv, One, OneOf, Answered
<1>3. QED BY <1>1, <1>2, Invariance, PTL DEF ForTheRightOne

-----------------------------------------------------------------------------
\* Where nothing is on its way, the ends know the same channels.  For that a channel that
\* is decided, listed and not rejected has to be open, and a close that was sent has to be
\* under way for as long as the other end lists the channel.
Going == up = Ends /\ \A e \in Ends : Reading(e)

Stands(e, c) ==
    /\ state[e][c] \in {"none", "sending", "opening", "offered"} => ~decided[e][c]
    /\ state[e][c] = "open" => decided[e][c]
    /\ Reading(e) =>
         /\ sentClose[e][c] => state[e][c] = "open"
         /\ state[e][c] \notin {"none", "failed"} /\ ~Listed(e, c) =>
              state[e][c] = "open" /\ sentClose[e][c]
         /\ e \in up /\ decided[e][c] /\ Listed(e, c) => state[e][c] \in {"open", "rejected"}

Closes(e, c) ==
    Going /\ sentClose[e][c] /\ Listed(Other(e), c) => \E p \in On(e) : Is(p, "close", c)

Standing == \A e \in Ends, c \in Channels : Stands(e, c)
Closing  == \A e \in Ends, c \in Channels : Closes(e, c)

\* Steps that change little.
LEMMA StandingSame ==
  ASSUME TypeOK, Standing, UNCHANGED <<state, local, decided>>, up' \subseteq up,
         \A x \in Ends : Reading(x)' => /\ Reading(x) /\ chans'[x] = chans[x]
                                        /\ sentClose'[x] = sentClose[x]
  PROVE  Standing'
<1>1. ASSUME NEW x \in Ends, NEW d \in Channels PROVE Stands(x, d)'
  <2>1. Stands(x, d)
    BY DEF Standing
  <2>2. QED BY <2>1 DEF Stands, Listed
<1>2. QED BY <1>1 DEF Standing

LEMMA StandingElsewhere ==
  ASSUME TypeOK, Standing, NEW e \in Ends, NEW c \in Channels, Stands(e, c)',
         UNCHANGED <<loop, up>>,
         \A x \in Ends, d \in Channels : ~(x = e /\ d = c) =>
            /\ state'[x][d] = state[x][d] /\ decided'[x][d] = decided[x][d]
            /\ sentClose'[x][d] = sentClose[x][d] /\ (Listed(x, d)' <=> Listed(x, d))
  PROVE  Standing'
<1>1. ASSUME NEW x \in Ends, NEW d \in Channels PROVE Stands(x, d)'
  <2>1. CASE x = e /\ d = c
    BY <2>1
  <2>2. CASE ~(x = e /\ d = c)
    <3>1. Stands(x, d)
      BY DEF Standing
    <3>2. QED BY <2>2, <3>1 DEF Stands, Reading
  <2>3. QED BY <2>1, <2>2
<1>2. QED BY <1>1 DEF Standing

LEMMA ClosingSame ==
  ASSUME TypeOK, Closing, UNCHANGED <<chans, local, sentClose, loop, up>>,
         \A x \in Ends : \A p \in On(x) : p.t = "close" => p \in On(x)'
  PROVE  Closing'
<1>1. ASSUME NEW x \in Ends, NEW d \in Channels, Closes(x, d) PROVE Closes(x, d)'
  BY <1>1, Pair DEF Closes, Going, Reading, Listed, Is
<1>2. QED BY <1>1 DEF Closing

LEMMA ClosingElsewhere ==
  ASSUME TypeOK, Closing, NEW e \in Ends, NEW c \in Channels,
         Closes(e, c)', Closes(Other(e), c)', UNCHANGED <<loop, up>>,
         \A x \in Ends, d \in Channels : d # c =>
            sentClose'[x][d] = sentClose[x][d] /\ (Listed(x, d)' => Listed(x, d)),
         Going => \A x \in Ends : \A p \in On(x) : p.c # c /\ p.t = "close" => p \in On(x)'
  PROVE  Closing'
<1>1. ASSUME NEW x \in Ends, NEW d \in Channels PROVE Closes(x, d)'
  <2>1. CASE d = c
    BY <2>1, Pair
  <2>2. CASE d # c
    <3>1. Closes(x, d)
      BY DEF Closing
    <3>2. QED BY <2>2, <3>1, Pair DEF Closes, Going, Reading, Is
  <2>3. QED BY <2>1, <2>2
<1>2. QED BY <1>1 DEF Closing

\* Sends and receipts keep closes.
LEMMA ClosesSent ==
  ASSUME TypeOK, NEW e \in Ends, NEW p \in Packets, Sends(e, p)
  PROVE  \A x \in Ends : On(x) \subseteq On(x)'
BY SendEffect, Pair DEF On

LEMMA ClosesTaken ==
  ASSUME TypeOK, NEW e \in Ends, Takes(e), Taken(e), NEW c,
         Coming(e).t # "close" \/ Coming(e).c = c
  PROVE  \A x \in Ends : \A q \in On(x) : q.t = "close" /\ q.c # c => q \in On(x)'
<1>1. /\ Other(e) \in Ends /\ \A x \in Ends : x = e \/ x = Other(e)
      /\ wire'[e] = wire[e] /\ On(Other(e)) = On(Other(e))' \cup {Coming(e)}
  BY TakeEffect, Pair
<1>2. On(e)' = On(e)
  BY <1>1 DEF On
<1>3. QED BY <1>1, <1>2

LEMMA OpenStands ==
  ASSUME TypeOK, TypeOK', Routes, Standing, Closing, NEW e \in Ends, NEW c \in Channels, Open(e, c)
  PROVE  Standing' /\ Closing'
<1> DEFINE o == Other(e)
<1>1. /\ o \in Ends /\ Other(o) = e /\ o # e /\ \A x \in Ends : x = e \/ x = o
  BY Pair
<1>2. /\ state[e][c] = "none" /\ state'[e][c] = "sending" /\ Opener(c) = e
      /\ \A x \in Ends, d \in Channels : ~(x = e /\ d = c) => state'[x][d] = state[x][d]
      /\ UNCHANGED <<decided, sentClose, wire, loop, up>>
  BY DEF Open, TypeOK, conn
<1>3. Added(e, c) /\ local' = [local EXCEPT ![e][c] = Free(e)]
  BY DEF Open
<1>4. /\ Listed(e, c)'
      /\ \A x \in Ends, d \in Channels : ~(x = e /\ d = c) => (Listed(x, d)' <=> Listed(x, d))
  BY <1>2, <1>3, AddedList
<1>5. /\ ~decided[e][c] /\ (Reading(e) => ~sentClose[e][c])
      /\ Reading(o) => ~sentClose[o][c]
  <2>1. state[o][c] = "none"
    BY <1>2 DEF Routes, Met
  <2>2. QED BY <1>1, <1>2, <2>1 DEF Standing, Stands
<1>6. Stands(e, c)'
  BY <1>2, <1>4, <1>5 DEF Stands, Reading
<1>7. Closes(e, c)' /\ Closes(o, c)'
  BY <1>1, <1>2, <1>5 DEF Closes, Going, Reading
<1>8. Standing'
  BY <1>2, <1>4, <1>6, StandingElsewhere
<1>9. On(e)' = On(e) /\ On(o)' = On(o)
  BY <1>2 DEF On
<1>10. Closing'
  BY <1>1, <1>2, <1>4, <1>7, <1>9, ClosingElsewhere
<1>11. QED BY <1>8, <1>10

LEMMA DecidesStands ==
  ASSUME TypeOK, TypeOK', Routes, Closed, Standing, Closing, NEW e \in Ends, NEW c \in Channels,
         SendOpen(e, c) \/ OpenFails(e, c) \/ Decides(e, c)
  PROVE  Standing' /\ Closing'
<1>1. /\ UNCHANGED <<chans, local, sentClose, loop, up>>
      /\ \A x \in Ends, d \in Channels : ~(x = e /\ d = c) =>
           state'[x][d] = state[x][d] /\ decided'[x][d] = decided[x][d]
  <2>1. \E v : state' = [state EXCEPT ![e][c] = v]
    BY DEF SendOpen, OpenFails, Decides, Accept, Reject
  <2>2. \A x \in Ends, d \in Channels : ~(x = e /\ d = c) => state'[x][d] = state[x][d]
    BY <2>1 DEF TypeOK
  <2>3. decided' = [decided EXCEPT ![e][c] = TRUE] \/ decided' = decided
    BY DEF SendOpen, OpenFails, Decides, Accept, Reject
  <2>4. \A x \in Ends, d \in Channels : ~(x = e /\ d = c) => decided'[x][d] = decided[x][d]
    <3>1. CASE decided' = [decided EXCEPT ![e][c] = TRUE]
      BY <3>1 DEF TypeOK
    <3>2. CASE decided' = decided
      BY <3>2
    <3>3. QED BY <2>3, <3>1, <3>2
  <2>5. UNCHANGED <<chans, local, sentClose, loop, up>>
    BY DEF SendOpen, OpenFails, Decides, Accept, Reject, conn
  <2>6. QED BY <2>2, <2>4, <2>5
<1>2. Listed(e, c)' <=> Listed(e, c)
  BY <1>1 DEF Listed
<1>3. Stands(e, c)
  BY DEF Standing
<1>4. Stands(e, c)'
  <2>1. CASE SendOpen(e, c)
    <3>1. /\ state[e][c] = "sending" /\ decided'[e][c] = decided[e][c]
          /\ state'[e][c] \in {"opening", "failed"} /\ (e \in up => state'[e][c] = "opening")
      BY <2>1 DEF SendOpen, TypeOK
    <3>2. QED BY <1>1, <1>2, <1>3, <3>1 DEF Stands, Reading
  <2>2. CASE OpenFails(e, c)
    <3>1. /\ state[e][c] = "opening" /\ decided'[e][c] = decided[e][c]
          /\ state'[e][c] = "failed" /\ <<e, c>> \in closed
      BY <2>2 DEF OpenFails, TypeOK
    <3>2. Reading(e) => ~Listed(e, c)
      BY <3>1, Numbers DEF Closed
    <3>3. QED BY <1>1, <1>2, <1>3, <3>1, <3>2 DEF Stands, Reading
  <2>3. CASE Accept(e, c)
    <3>1. /\ state[e][c] = "offered" /\ decided'[e][c]
          /\ state'[e][c] \in {"open", "failed"}
          /\ MaySend(e, c) /\ e \in up => state'[e][c] = "open"
      BY <2>3 DEF Accept, TypeOK
    <3>2. MaySend(e, c) <=> ~sentClose[e][c]
      BY Numbers DEF MaySend
    <3>3. QED BY <1>1, <1>2, <1>3, <3>1, <3>2 DEF Stands, Reading
  <2>4. CASE Reject(e, c)
    <3>1. /\ state[e][c] = "offered" /\ decided'[e][c] = TRUE /\ state'[e][c] = "rejected"
      BY <2>4 DEF Reject, TypeOK
    <3>2. QED BY <1>1, <1>2, <1>3, <3>1 DEF Stands, Reading
  <2>5. QED BY <2>1, <2>2, <2>3, <2>4 DEF Decides
<1>5. Standing'
  BY <1>1, <1>4, StandingElsewhere DEF Listed
<1>6. \A x \in Ends : On(x) \subseteq On(x)'
  <2>1. ASSUME NEW t \in {"open", "confirm", "failure"}, NEW id \in Nat, NEW n \in Nat,
               Sends(e, Packet(t, id, c, n))
        PROVE  \A x \in Ends : On(x) \subseteq On(x)'
    <3>1. PICK p : p = Packet(t, id, c, n)
      OBVIOUS
    <3>2. p \in Packets
      BY <3>1, PacketType, Numbers
    <3>3. QED BY <2>1, <3>1, <3>2, ClosesSent
  <2>2. CASE wire' = wire
    BY <2>2 DEF On
  <2>3. CASE SendOpen(e, c)
    BY <2>1, <2>3, Numbers DEF SendOpen
  <2>4. CASE Accept(e, c)
    BY <2>1, <2>2, <2>4, Numbers DEF Accept
  <2>5. CASE Reject(e, c)
    BY <2>1, <2>2, <2>5, Numbers DEF Reject
  <2>6. QED BY <2>2, <2>3, <2>4, <2>5 DEF OpenFails, Decides, conn
<1>7. Closing'
  BY <1>1, <1>6, ClosingSame
<1>8. QED BY <1>5, <1>7

LEMMA CloseStands ==
  ASSUME TypeOK, TypeOK', Routes, Standing, Closing, NEW e \in Ends, NEW c \in Channels, Close(e, c)
  PROVE  Standing' /\ Closing'
<1> DEFINE o == Other(e)
<1>1. /\ o \in Ends /\ Other(o) = e /\ o # e /\ \A x \in Ends : x = e \/ x = o
  BY Pair
<1>2. PICK p : p = Packet("close", remote[e][c], c, 0)
  OBVIOUS
<1>3. p \in Packets /\ p.t = "close" /\ p.c = c
  BY <1>2, PacketType, Numbers
<1>4. /\ UNCHANGED <<chans, local, state, decided, loop, up>> /\ Sends(e, p)
      /\ state[e][c] = "open" /\ sentClose' = [sentClose EXCEPT ![e][c] = TRUE]
  BY <1>2 DEF Close
<1>5. /\ sentClose'[e][c]
      /\ \A x \in Ends, d \in Channels : ~(x = e /\ d = c) => sentClose'[x][d] = sentClose[x][d]
  BY <1>4 DEF TypeOK
<1>6. \A x \in Ends, d \in Channels : Listed(x, d)' <=> Listed(x, d)
  BY <1>4 DEF Listed
<1>7. Stands(e, c)'
  <2>1. Stands(e, c)
    BY DEF Standing
  <2>2. QED BY <1>4, <1>5, <1>6, <2>1 DEF Stands, Reading
<1>8. Standing'
  <2>1. \A x \in Ends, d \in Channels : ~(x = e /\ d = c) =>
            /\ state'[x][d] = state[x][d] /\ decided'[x][d] = decided[x][d]
            /\ sentClose'[x][d] = sentClose[x][d] /\ (Listed(x, d)' <=> Listed(x, d))
    BY <1>4, <1>5, <1>6
  <2>2. QED BY <1>4, <1>7, <2>1, StandingElsewhere
<1>9. (\A x \in Ends : On(x) \subseteq On(x)') /\ (up = Ends => p \in On(e)')
  BY <1>3, <1>4, ClosesSent, SendEffect
<1>10. Closes(e, c)'
  BY <1>3, <1>4, <1>9 DEF Closes, Going, Is
<1>11. Closes(o, c)'
  <2>1. Closes(o, c)
    BY <1>1 DEF Closing
  <2>2. QED BY <1>1, <1>4, <1>5, <1>6, <1>9, <2>1 DEF Closes, Going, Reading
<1>12. Closing'
  <2>1. \A x \in Ends, d \in Channels : d # c =>
            sentClose'[x][d] = sentClose[x][d] /\ (Listed(x, d)' => Listed(x, d))
    BY <1>5, <1>6
  <2>2. \A x \in Ends : \A q \in On(x) : q.c # c /\ q.t = "close" => q \in On(x)'
    BY <1>9
  <2>3. QED BY <1>1, <1>4, <1>10, <1>11, <2>1, <2>2, ClosingElsewhere
<1>13. QED BY <1>8, <1>12

LEMMA HandleOpenStands ==
  ASSUME TypeOK, TypeOK', Routes, Standing, Closing, NEW e \in Ends, HandleOpen(e)
  PROVE  Standing' /\ Closing'
<1> DEFINE o == Other(e)
<1>1. /\ o \in Ends /\ Other(o) = e /\ o # e /\ \A x \in Ends : x = e \/ x = o
  BY Pair
<1>2. PICK c : c = Coming(e).c
  OBVIOUS
<1>3. /\ Takes(e) /\ Taken(e) /\ Coming(e).t = "open" /\ c \in Channels
      /\ state[e][c] = "none" /\ state[o][c] # "open"
  <2>1. Takes(e) /\ Taken(e) /\ Coming(e).t = "open"
    BY DEF HandleOpen
  <2>2. c \in Channels /\ c # Global /\ Valid(o, Coming(e))
    BY <1>2, <2>1, Arrives, MuxAssumption
  <2>3. state[e][c] = "none" /\ state[o][c] \in {"opening", "failed"}
    BY <1>1, <1>2, <2>1, <2>2 DEF Valid
  <2>4. QED BY <2>1, <2>2, <2>3
<1>4. /\ Added(e, c) /\ local' = [local EXCEPT ![e][c] = Free(e)]
      /\ state' = [state EXCEPT ![e][c] = "offered"]
      /\ UNCHANGED <<decided, sentClose, loop, up>>
  BY <1>2 DEF HandleOpen
<1>5. /\ state'[e][c] = "offered"
      /\ \A x \in Ends, d \in Channels : ~(x = e /\ d = c) => state'[x][d] = state[x][d]
  BY <1>3, <1>4 DEF TypeOK
<1>6. /\ Listed(e, c)'
      /\ \A x \in Ends, d \in Channels : ~(x = e /\ d = c) => (Listed(x, d)' <=> Listed(x, d))
  <2>1. state'[e][c] # "none"
    BY <1>5
  <2>2. QED BY <1>3, <1>4, <1>5, <2>1, AddedList
<1>7. /\ ~decided[e][c] /\ (Reading(e) => ~sentClose[e][c])
      /\ Reading(o) => ~sentClose[o][c]
  BY <1>1, <1>3 DEF Standing, Stands
<1>8. Stands(e, c)'
  BY <1>4, <1>5, <1>6, <1>7 DEF Stands, Reading
<1>9. Closes(e, c)' /\ Closes(o, c)'
  BY <1>1, <1>4, <1>7 DEF Closes, Going, Reading
<1>10. Standing'
  BY <1>3, <1>4, <1>5, <1>6, <1>8, StandingElsewhere
<1>11. \A x \in Ends : \A q \in On(x) : q.c # c /\ q.t = "close" => q \in On(x)'
  BY <1>2, <1>3, ClosesTaken
<1>12. Closing'
  BY <1>1, <1>3, <1>4, <1>6, <1>9, <1>11, ClosingElsewhere
<1>13. QED BY <1>10, <1>12

LEMMA HandleConfirmStands ==
  ASSUME TypeOK, TypeOK', Routes, Standing, Closing, NEW e \in Ends, HandleConfirm(e)
  PROVE  Standing' /\ Closing'
<1>1. PICK c : c = Coming(e).c
  OBVIOUS
<1>2. /\ Takes(e) /\ Taken(e) /\ Coming(e).t = "confirm" /\ Coming(e) \in Packets
      /\ Valid(Other(e), Coming(e)) /\ Of(e) = c /\ (c # Global => Listed(e, c))
  <2>1. Takes(e) /\ Taken(e) /\ Coming(e).t = "confirm"
    BY DEF HandleConfirm
  <2>2. QED BY <1>1, <2>1, Arrives
<1>3. c \in Channels /\ Listed(e, c)
  BY <1>1, <1>2 DEF Valid, Packets, Targets
<1>4. /\ decided' = [decided EXCEPT ![e][c] = TRUE]
      /\ state' = [state EXCEPT ![e][c] = "open"]
      /\ UNCHANGED <<chans, local, sentClose, loop, up>>
  BY <1>2 DEF HandleConfirm
<1>5. /\ decided'[e][c]
      /\ \A x \in Ends, d \in Channels : ~(x = e /\ d = c) => decided'[x][d] = decided[x][d]
  <2>1. decided'[e][c]
    BY <1>3, <1>4 DEF TypeOK
  <2>2. \A x \in Ends, d \in Channels : ~(x = e /\ d = c) => decided'[x][d] = decided[x][d]
    <3>1. decided' = [decided EXCEPT ![e][c] = TRUE]
      BY <1>4
    <3>2. QED BY <3>1 DEF TypeOK
  <2>3. QED BY <2>1, <2>2
<1>6. /\ state'[e][c] = "open"
      /\ \A x \in Ends, d \in Channels : ~(x = e /\ d = c) => state'[x][d] = state[x][d]
  BY <1>3, <1>4 DEF TypeOK
<1>7. \A x \in Ends, d \in Channels : Listed(x, d)' <=> Listed(x, d)
  BY <1>4 DEF Listed
<1>8. Stands(e, c)'
  BY <1>3, <1>4, <1>5, <1>6, <1>7 DEF Stands
<1>9. Standing'
  <2>1. \A x \in Ends, d \in Channels : ~(x = e /\ d = c) =>
            /\ state'[x][d] = state[x][d] /\ decided'[x][d] = decided[x][d]
            /\ sentClose'[x][d] = sentClose[x][d] /\ (Listed(x, d)' <=> Listed(x, d))
    BY <1>4, <1>5, <1>6, <1>7
  <2>2. QED BY <1>3, <1>4, <1>8, <2>1, StandingElsewhere
<1>10. \A x \in Ends : \A q \in On(x) : q.t = "close" => q \in On(x)'
  <2>1. \A q \in On(Other(e)) : q.t = "close" => q \in On(Other(e))'
    BY <1>2, TakeEffect
  <2>2. On(e)' = On(e)
    BY <1>2, TakeEffect DEF On
  <2>3. QED BY <2>1, <2>2, Pair
<1>11. Closing'
  BY <1>4, <1>10, ClosingSame
<1>12. QED BY <1>9, <1>11

LEMMA HandleFailureStands ==
  ASSUME TypeOK, TypeOK', Routes, Standing, Closing, NEW e \in Ends, HandleFailure(e)
  PROVE  Standing' /\ Closing'
<1> DEFINE o == Other(e)
<1>1. /\ o \in Ends /\ Other(o) = e /\ o # e /\ \A x \in Ends : x = e \/ x = o
  BY Pair
<1>2. PICK c : c = Coming(e).c
  OBVIOUS
<1>3. /\ Takes(e) /\ Taken(e) /\ Coming(e).t = "failure" /\ Coming(e) \in Packets
      /\ Valid(o, Coming(e)) /\ Of(e) = c /\ Responds(e, c)
      /\ c # Global => Listed(e, c) /\ Coming(e).id = local[e][c]
  <2>1. Takes(e) /\ Taken(e) /\ Coming(e).t = "failure"
    BY DEF HandleFailure
  <2>2. QED BY <1>2, <2>1, Arrives
<1>4. c \in Channels /\ Listed(e, c) /\ Coming(e).id = local[e][c] /\ ~decided[e][c]
  BY <1>2, <1>3 DEF Valid, Packets, Targets, Responds
<1>5. /\ decided' = [decided EXCEPT ![e][c] = TRUE]
      /\ state' = [state EXCEPT ![e][c] = "failed"]
      /\ Removed(e, local[e][c]) /\ UNCHANGED <<local, sentClose, loop, up>>
  BY <1>3, <1>4 DEF HandleFailure
<1>6. /\ state'[e][c] = "failed"
      /\ \A x \in Ends, d \in Channels : ~(x = e /\ d = c) => state'[x][d] = state[x][d]
  BY <1>4, <1>5 DEF TypeOK
<1>7. \A x \in Ends, d \in Channels : ~(x = e /\ d = c) => decided'[x][d] = decided[x][d]
  <2>1. decided' = [decided EXCEPT ![e][c] = TRUE]
    BY <1>5
  <2>2. QED BY <2>1 DEF TypeOK
<1>8. /\ ~Listed(e, c)'
      /\ \A x \in Ends, d \in Channels : ~(x = e /\ d = c) => (Listed(x, d)' <=> Listed(x, d))
  <2>1. \A x \in Ends, d \in Channels : state[x][d] # "none" => state'[x][d] # "none"
    BY <1>6
  <2>2. QED BY <1>4, <1>5, <2>1, RemovedList
<1>9. Stands(e, c)'
  <2>1. Stands(e, c)
    BY <1>4 DEF Standing
  <2>2. QED BY <1>4, <1>5, <1>6, <1>8, <2>1 DEF Stands, Reading
<1>10. Standing'
  <2>1. \A x \in Ends, d \in Channels : ~(x = e /\ d = c) =>
            /\ state'[x][d] = state[x][d] /\ decided'[x][d] = decided[x][d]
            /\ sentClose'[x][d] = sentClose[x][d] /\ (Listed(x, d)' <=> Listed(x, d))
    BY <1>5, <1>6, <1>7, <1>8
  <2>2. QED BY <1>4, <1>5, <1>9, <2>1, StandingElsewhere
<1>11. Closes(o, c)'
  BY <1>1, <1>8 DEF Closes
<1>12. /\ On(e)' = On(e)
       /\ \A x \in Ends : \A q \in On(x) : q.c # c /\ q.t = "close" => q \in On(x)'
  BY <1>2, <1>3, TakeEffect, ClosesTaken DEF On
<1>13. Closes(e, c)'
  <2>1. Closes(e, c)
    BY <1>4 DEF Closing
  <2>2. QED BY <1>1, <1>4, <1>5, <1>8, <1>12, <2>1 DEF Closes, Going, Reading
<1>14. Closing'
  <2>1. \A x \in Ends, d \in Channels : d # c =>
            sentClose'[x][d] = sentClose[x][d] /\ (Listed(x, d)' => Listed(x, d))
    BY <1>5, <1>8
  <2>2. QED BY <1>1, <1>4, <1>5, <1>11, <1>12, <1>13, <2>1, ClosingElsewhere
<1>15. QED BY <1>10, <1>14

LEMMA HandleCloseStands ==
  ASSUME TypeOK, TypeOK', Routes, Standing, Closing, NEW e \in Ends, HandleClose(e)
  PROVE  Standing' /\ Closing'
<1> DEFINE o == Other(e)
<1>1. /\ o \in Ends /\ Other(o) = e /\ o # e /\ \A x \in Ends : x = e \/ x = o
  BY Pair
<1>2. PICK c : c = Coming(e).c
  OBVIOUS
<1>3. /\ Takes(e) /\ Coming(e).t = "close" /\ Coming(e) \in Packets
      /\ Valid(o, Coming(e)) /\ Of(e) = c
      /\ c # Global => Listed(e, c) /\ Coming(e).id = local[e][c] /\ state[e][c] = "open"
  <2>1. Takes(e) /\ Coming(e).t = "close"
    BY DEF HandleClose
  <2>2. QED BY <1>2, <2>1, Arrives
<1>4. c \in Channels /\ Listed(e, c) /\ Coming(e).id = local[e][c] /\ state[e][c] = "open"
  BY <1>2, <1>3 DEF Valid, Packets, Targets
<1>5. PICK p : p = Packet("close", remote[e][c], c, 0)
  OBVIOUS
<1>6. p \in Packets /\ p.t = "close" /\ p.c = c
  BY <1>4, <1>5, PacketType, Numbers
<1>7. /\ sentClose' = [sentClose EXCEPT ![e][c] = TRUE]
      /\ Removed(e, local[e][c]) /\ UNCHANGED <<state, local, decided, loop, up>>
      /\ wire' = [wire EXCEPT ![o] = Tail(@),
                              ![e] = IF sentClose[e][c] \/ up # Ends THEN @ ELSE Append(@, p)]
  BY <1>3, <1>4, <1>5 DEF HandleClose
<1>8. sentClose'[e][c]
  BY <1>4, <1>7 DEF TypeOK
<1>9. \A x \in Ends, d \in Channels : ~(x = e /\ d = c) => sentClose'[x][d] = sentClose[x][d]
  <2>1. sentClose' = [sentClose EXCEPT ![e][c] = TRUE]
    BY <1>7
  <2>2. QED BY <2>1 DEF TypeOK
<1>10. /\ ~Listed(e, c)'
       /\ \A x \in Ends, d \in Channels : ~(x = e /\ d = c) => (Listed(x, d)' <=> Listed(x, d))
  BY <1>4, <1>7, RemovedList
<1>11. Stands(e, c)'
  <2>1. Stands(e, c)
    BY <1>4 DEF Standing
  <2>2. QED BY <1>4, <1>7, <1>8, <1>10, <2>1 DEF Stands, Reading
<1>12. Standing'
  <2>1. \A x \in Ends, d \in Channels : ~(x = e /\ d = c) =>
            /\ state'[x][d] = state[x][d] /\ decided'[x][d] = decided[x][d]
            /\ sentClose'[x][d] = sentClose[x][d] /\ (Listed(x, d)' <=> Listed(x, d))
    BY <1>7, <1>9, <1>10
  <2>2. QED BY <1>4, <1>7, <1>11, <2>1, StandingElsewhere
<1>13. /\ wire[e] \in Seq(Packets) /\ wire[o] \in Seq(Packets) /\ wire[o] # <<>>
       /\ wire'[o] = Tail(wire[o])
       /\ wire'[e] = IF sentClose[e][c] \/ up # Ends THEN wire[e] ELSE Append(wire[e], p)
  BY <1>1, <1>3, <1>7 DEF TypeOK, Takes
<1>14. /\ On(e) \subseteq On(e)' /\ (sentClose[e][c] \/ up # Ends \/ p \in On(e)')
       /\ \A q \in On(o) : q.c # c => q \in On(o)'
  <2>1. On(e) \subseteq On(e)' /\ (sentClose[e][c] \/ up # Ends \/ p \in On(e)')
    <3>1. CASE sentClose[e][c] \/ up # Ends
      BY <1>13, <3>1 DEF On
    <3>2. CASE ~(sentClose[e][c] \/ up # Ends)
      BY <1>6, <1>13, <3>2, Adding DEF On
    <3>3. QED BY <3>1, <3>2
  <2>2. On(o) = On(o)' \cup {Coming(e)}
    BY <1>13, Taking DEF On, Coming
  <2>3. QED BY <1>2, <2>1, <2>2
<1>15. Closes(o, c)'
  BY <1>1, <1>10 DEF Closes
<1>16. Closes(e, c)'
  <2>1. Closes(e, c)
    BY <1>4 DEF Closing
  <2>2. Going' /\ Listed(o, c)' => Going /\ Listed(o, c)
    BY <1>1, <1>4, <1>7, <1>10 DEF Going, Reading
  <2>3. QED BY <1>6, <1>14, <2>1, <2>2 DEF Closes, Going, Is
<1>17. Closing'
  <2>1. \A x \in Ends, d \in Channels : d # c =>
            sentClose'[x][d] = sentClose[x][d] /\ (Listed(x, d)' => Listed(x, d))
    BY <1>9, <1>10
  <2>2. \A x \in Ends : \A q \in On(x) : q.c # c /\ q.t = "close" => q \in On(x)'
    BY <1>1, <1>14
  <2>3. QED BY <1>1, <1>4, <1>7, <1>15, <1>16, <2>1, <2>2, ClosingElsewhere
<1>18. QED BY <1>12, <1>17

LEMMA StandingStep ==
  ASSUME TypeOK, TypeOK', Routes, Closed, Standing, Closing, [Next]_vars
  PROVE  Standing' /\ Closing'
<1>1. ASSUME NEW e \in Ends, NEW c \in Channels, Opens(e, c) \/ Decides(e, c) \/ Close(e, c)
      PROVE  Standing' /\ Closing'
  BY <1>1, OpenStands, DecidesStands, CloseStands DEF Opens
<1>2. ASSUME UNCHANGED <<channel, loop, up>>,
             \A x \in Ends : \A p \in On(x) : p.t = "close" => p \in On(x)'
      PROVE  Standing' /\ Closing'
  BY <1>2, StandingSame, ClosingSame DEF channel, Reading
<1>3. ASSUME UNCHANGED <<state, local, decided>>, up' \subseteq up, ~Going',
             \A x \in Ends : Reading(x)' => /\ Reading(x) /\ chans'[x] = chans[x]
                                            /\ sentClose'[x] = sentClose[x]
      PROVE  Standing' /\ Closing'
  <2>1. Closing'
    BY <1>3 DEF Closing, Closes
  <2>2. QED BY <1>3, <2>1, StandingSame
<1>4. ASSUME NEW e \in Ends, HandleRequest(e) \/ HandleReply(e)
      PROVE  Standing' /\ Closing'
  <2>1. /\ Takes(e) /\ Taken(e) /\ Coming(e).t # "close" /\ UNCHANGED <<channel, loop, up>>
    BY <1>4 DEF HandleRequest, HandleReply
  <2>2. \A q \in On(Other(e)) : q.t = "close" => q \in On(Other(e))'
    BY <2>1, TakeEffect
  <2>3. On(e)' = On(e)
    BY <2>1, TakeEffect DEF On
  <2>4. QED BY <1>2, <2>1, <2>2, <2>3, Pair
<1>5. ASSUME NEW e \in Ends, OnePacketFails(e) \/ DropAll(e) \/ CloseConn(e)
      PROVE  Standing' /\ Closing'
  <2>1. /\ UNCHANGED <<state, local, decided>> /\ up' \subseteq up
        /\ loop'[e] # "run" /\ loop'[Other(e)] = loop[Other(e)]
        /\ chans'[Other(e)] = chans[Other(e)] /\ sentClose'[Other(e)] = sentClose[Other(e)]
    <3>1. CASE OnePacketFails(e)
      BY <3>1, Pair DEF OnePacketFails, TypeOK, channel
    <3>2. CASE DropAll(e)
      BY <3>2, Pair DEF DropAll, TypeOK
    <3>3. CASE CloseConn(e)
      BY <3>3, Pair DEF CloseConn, TypeOK
    <3>4. QED BY <1>5, <3>1, <3>2, <3>3
  <2>2. QED BY <1>3, <2>1, Pair DEF Going, Reading
<1>6. ASSUME NEW e \in Ends, NEW c \in Targets,
             (\E w \in BOOLEAN : SendRequest(e, c, w)) \/ Reply(e, c) \/ Returns(e, c)
      PROVE  Standing' /\ Closing'
  <2>1. UNCHANGED <<channel, loop, up>>
    BY <1>6 DEF SendRequest, Reply, Returns, conn
  <2>2. \A x \in Ends : On(x) \subseteq On(x)'
    <3>1. wire' = wire \/ \E p : Sends(e, p)
      BY <1>6 DEF SendRequest, Reply, Returns, conn
    <3>2. \A x \in Ends : wire[x] \in Seq(Packets) /\ wire'[x] \in Seq(Packets)
      BY DEF TypeOK
    <3>3. ASSUME NEW p, Sends(e, p) PROVE \A x \in Ends : On(x) \subseteq On(x)'
      <4>1. /\ wire'[Other(e)] = wire[Other(e)]
            /\ wire'[e] = wire[e] \/ wire'[e] = Append(wire[e], p)
        BY <3>3, Pair DEF Sends, TypeOK
      <4>2. On(e) \subseteq On(e)'
        BY <3>2, <4>1 DEF On, Els
      <4>3. QED BY <4>1, <4>2, Pair DEF On
    <3>4. QED BY <3>1, <3>3 DEF On
  <2>3. QED BY <1>2, <2>1, <2>2
<1>7. CASE Lose
  <2>1. /\ UNCHANGED <<state, local, decided, loop, chans, sentClose>> /\ up' = {}
    BY <1>7 DEF Lose, channel
  <2>2. QED BY <1>3, <2>1 DEF Going, Reading, Ends
<1>8. CASE UNCHANGED vars
  BY <1>2, <1>8 DEF vars, conn, On
<1>9. ASSUME NEW e \in Ends, Loop(e)
      PROVE  Standing' /\ Closing'
  BY <1>4, <1>5, <1>9, HandleOpenStands, HandleConfirmStands, HandleFailureStands,
     HandleCloseStands DEF Loop
<1>10. QED BY <1>1, <1>6, <1>7, <1>8, <1>9 DEF Next

\* What the two ends of a connection know when nothing is on its way.
LEMMA AgreedOn ==
  ASSUME TypeOK, Routes, Standing, Closing, up = Ends,
         \A x \in Ends : wire[x] = <<>> /\ loop[x] = "run",
         NEW e \in Ends, NEW c \in Channels, Live(e, c)
  PROVE  \A x \in Ends : Live(x, c) /\ remote[x][c] = local[Other(x)][c]
<1> DEFINE o == Other(e)
<1>1. /\ o \in Ends /\ Other(o) = e /\ o # e /\ \A x \in Ends : x = e \/ x = o
  BY Pair
<1>2. \A x \in Ends : Reading(x) /\ On(x) = {}
  BY NothingIn DEF Reading, On
<1>3. \A x \in Ends : Stands(x, c) /\ Closes(x, c)
  BY DEF Standing, Closing
<1>4. Listed(e, c) /\ decided[e][c] /\ state[e][c] # "rejected"
  BY MuxAssumption DEF Live, GetChan, Listed
<1>5. state[e][c] = "open"
  BY <1>2, <1>3, <1>4 DEF Stands
<1>6. state[o][c] = "open"
  <2>1. CASE Opener(c) = e
    BY <1>1, <1>5, <2>1 DEF Routes, Met
  <2>2. CASE Opener(c) = o
    BY <1>1, <1>2, <1>5, <2>2 DEF Routes, Confirmed
  <2>3. QED BY <1>1, <2>1, <2>2, OpenerEnd
<1>7. Listed(o, c)
  <2>1. SUFFICES ASSUME ~Listed(o, c) PROVE FALSE
    OBVIOUS
  <2>2. sentClose[o][c]
    BY <1>1, <1>2, <1>3, <1>6, <2>1 DEF Stands
  <2>3. \E p \in On(o) : Is(p, "close", c)
    BY <1>1, <1>2, <1>3, <1>4, <2>2 DEF Closes, Going
  <2>4. QED BY <1>1, <1>2, <2>3
<1>8. decided[o][c]
  BY <1>1, <1>3, <1>6 DEF Stands
<1>9. Live(e, c) /\ Live(o, c)
  BY <1>6, <1>7, <1>8 DEF Live, GetChan, Listed
<1>10. remote[e][c] = local[o][c] /\ remote[o][c] = local[e][c]
  BY <1>1, <1>5, <1>6 DEF Routes, Met
<1>11. QED BY <1>1, <1>9, <1>10

\* Once all that Accept, Reject and Close have sent has been handled, both chanLists have
\* the same channels, and remoteId at each end is localId at the other.
THEOREM AlwaysSameChannels == Spec => []SameChannels
<1>1. Init => Standing /\ Closing
  <2>1. ASSUME Init, NEW e \in Ends, NEW c \in Channels PROVE Stands(e, c) /\ Closes(e, c)
    <3>1. state[e][c] = "none" /\ ~decided[e][c] /\ ~sentClose[e][c]
      BY <2>1 DEF Init, At
    <3>2. QED BY <3>1 DEF Stands, Closes
  <2>2. QED BY <2>1 DEF Standing, Closing
<1>2. IInv /\ IInv' /\ Standing /\ Closing /\ [Next]_vars => Standing' /\ Closing'
  BY StandingStep DEF IInv
<1>3. IInv /\ Standing /\ Closing => SameChannels
  <2>1. "client" \in Ends /\ "server" \in Ends
    BY DEF Ends
  <2>2. QED BY <2>1, AgreedOn DEF IInv, SameChannels
<1>4. QED BY <1>1, <1>2, <1>3, Invariance, PTL DEF Spec
=============================================================================
