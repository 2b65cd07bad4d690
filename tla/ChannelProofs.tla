--------------------------- MODULE ChannelProofs ---------------------------
(***************************************************************************)
(* Proofs, for every window, packet size and number of bytes, that neither *)
(* end of a channel ever finds a packet it does not accept, that the two   *)
(* windows agree, that io.EOF means that everything was read, and that a   *)
(* channel implements ByteStream.                                          *)
(*                                                                         *)
(* The argument is a ledger.  What is on a path continues what the other   *)
(* end has received (WireJoins, BackJoins), so that received + on the way  *)
(* = sent, of bytes and of adjustments.  Bytes read become credited and    *)
(* then told (Ledger), and what the writer may still send never exceeds    *)
(* what it has heard (Ledger): so it never exceeds what the reader stands  *)
(* for.  Nothing follows a close on a path (Last), so no packet meets a    *)
(* forgotten channel (Forgotten).                                          *)
(***************************************************************************)
EXTENDS Channel, SequenceTheorems, TLAPS

\* What had been sent after a packet was sent.
After(p) == [p.at EXCEPT ![p.s] = @ + p.len]
Then(p) == p.at + p.len

\* The packets on the wire lead from what was received to what was sent.
WireJoins ==
    /\ Len(wire) = 0 => rcvd = put
    /\ Len(wire) > 0 => wire[1].at = rcvd /\ After(wire[Len(wire)]) = put
    /\ \A i \in 1..Len(wire) : i + 1 <= Len(wire) => After(wire[i]) = wire[i + 1].at
    /\ \A i \in 1..Len(wire), s \in Streams : After(wire[i])[s] <= put[s]
    /\ \A s \in Streams : rcvd[s] <= put[s]

\* And those on the way back, from what was heard to what was told.
BackJoins ==
    /\ Len(back) = 0 => heard = told
    /\ Len(back) > 0 => back[1].at = heard /\ Then(back[Len(back)]) = told
    /\ \A i \in 1..Len(back) : i + 1 <= Len(back) => Then(back[i]) = back[i + 1].at
    /\ \A i \in 1..Len(back) : Then(back[i]) <= told
    /\ heard <= told

\* A close is the last packet of its path, and of its end.
Last ==
    /\ \A i \in 1..Len(wire) : wire[i].t = "close" => i = Len(wire) /\ "w" \in sentClose
    /\ \A i \in 1..Len(back) : back[i].t = "close" => i = Len(back) /\ "r" \in sentClose

\* A channel that was forgotten gets no more packets.
Forgotten ==
    /\ "r" \notin known /\ "r" \in up => Len(wire) = 0 /\ "w" \in sentClose
    /\ "w" \notin known /\ "w" \in up => Len(back) = 0 /\ "r" \in sentClose

\* A Write holds room exactly while it is about to send.
Holding ==
    \A s \in Streams :
        /\ wpc[s] = "send" => 1 <= space[s] /\ space[s] <= MaxPacket /\ space[s] <= todo[s]
        /\ wpc[s] # "send" => space[s] = 0
        /\ wpc[s] = "reserve" => 1 <= todo[s]

Sized == \A i \in 1..Len(wire) : wire[i].len <= MaxPacket

\* Bytes that were read and whose credit, or announcement, is still to come.
Uncredited == (IF rpc["data"] = "credit" THEN n["data"] ELSE 0)
              + (IF rpc["stderr"] = "credit" THEN n["stderr"] ELSE 0)
Untold == (IF rpc["data"] = "tell" THEN n["data"] ELSE 0)
          + (IF rpc["stderr"] = "tell" THEN n["stderr"] ELSE 0)

\* Read = credited + uncredited >= told + untold + uncredited; and the writer
\* has no more than it has heard.
Ledger ==
    /\ win + Total(space) + Total(put) <= Window + heard
    /\ told + Untold <= myWindow + Total(rcvd) - Window
    /\ myWindow + Total(rcvd) - Window + Uncredited <= Total(read)
    /\ \A s \in Streams : read[s] <= rcvd[s]

\* An end of the stream that was announced in time is at the end of the stream.
Ended ==
    /\ \A i \in 1..Len(wire) : wire[i].t # "data" /\ ~raced => wire[i].at = put
    /\ \A i \in 1..Len(wire) : wire[i].t = "eof" => sentEOF
    /\ bufEOF /\ "r" \in up => /\ sentEOF \/ "w" \in sentClose
                               /\ ~raced => rcvd = put

IInv ==
    /\ TypeOK
    /\ Accepted
    /\ WireJoins
    /\ BackJoins
    /\ Last
    /\ Forgotten
    /\ Holding
    /\ Sized
    /\ Ledger
    /\ Ended

-----------------------------------------------------------------------------
\* The sum over the streams, when it changes on one of them.
LEMMA TotalChanges ==
  ASSUME NEW f \in [Streams -> Nat], NEW g \in [Streams -> Nat], NEW s \in Streams,
         \A x \in Streams : x # s => g[x] = f[x]
  PROVE  Total(g) = Total(f) - f[s] + g[s]
BY DEF Total, Streams

LEMMA TotalNat ==
  ASSUME NEW f \in [Streams -> Nat]
  PROVE  Total(f) \in Nat /\ \A s \in Streams : f[s] <= Total(f)
BY DEF Total, Streams

LEMMA TotalOrder ==
  ASSUME NEW f \in [Streams -> Nat], NEW g \in [Streams -> Nat],
         \A s \in Streams : f[s] <= g[s]
  PROVE  /\ Total(f) <= Total(g)
         /\ \A s \in Streams : g[s] - f[s] <= Total(g) - Total(f)
BY DEF Total, Streams

\* The least of three is one of them and is not above any.
LEMMA LeastOfThree ==
  ASSUME NEW a \in Nat, NEW b \in Nat, NEW c \in Nat
  PROVE  /\ Min({a, b, c}) \in {a, b, c}
         /\ Min({a, b, c}) <= a /\ Min({a, b, c}) <= b /\ Min({a, b, c}) <= c
<1>1. \E x \in {a, b, c} : \A y \in {a, b, c} : x <= y
  <2>1. CASE a <= b /\ a <= c
    BY <2>1
  <2>2. CASE b <= a /\ b <= c
    BY <2>2
  <2>3. CASE c <= a /\ c <= b
    BY <2>3
  <2> QED
    BY <2>1, <2>2, <2>3
<1>2. Min({a, b, c}) \in {a, b, c} /\ \A y \in {a, b, c} : Min({a, b, c}) <= y
  BY <1>1 DEF Min
<1> QED
  BY <1>2

\* The first packet of a path is taken.
LEMMA FirstTaken ==
  ASSUME NEW S, NEW path \in Seq(S), path # <<>>
  PROVE  /\ Tail(path) \in Seq(S)
         /\ Len(path) \in Nat /\ Len(path) >= 1
         /\ Len(Tail(path)) = Len(path) - 1
         /\ \A i \in 1..Len(Tail(path)) : Tail(path)[i] = path[i + 1]
         /\ Head(path) = path[1] /\ path[1] \in S
         /\ \A i \in 1..Len(path) : path[i] \in S
<1>1. Len(path) \in Nat \ {0}
  BY EmptySeq
<1>2. Tail(path) \in Seq(S) /\ Len(Tail(path)) = Len(path) - 1
  BY HeadTailProperties
<1>3. \A i \in 1..Len(Tail(path)) : Tail(path)[i] = path[i + 1]
  BY HeadTailProperties
<1>4. \A i \in 1..Len(path) : path[i] \in S
  BY ElementOfSeq
<1>5. Head(path) = path[1]
  OBVIOUS
<1> QED
  BY <1>1, <1>2, <1>3, <1>4, <1>5

\* A packet is added at the end of a path.
LEMMA LastAdded ==
  ASSUME NEW S, NEW path \in Seq(S), NEW p \in S
  PROVE  /\ Append(path, p) \in Seq(S)
         /\ Len(path) \in Nat
         /\ Len(Append(path, p)) = Len(path) + 1
         /\ \A i \in 1..Len(path) : Append(path, p)[i] = path[i]
         /\ Append(path, p)[Len(path) + 1] = p
OBVIOUS

LEMMA AfterType == \A p \in Sent : After(p) \in [Streams -> Nat]
<1> SUFFICES ASSUME NEW p \in Sent PROVE After(p) \in [Streams -> Nat]
  OBVIOUS
<1>1. p.at \in [Streams -> Nat] /\ p.s \in Streams /\ p.len \in Nat
  BY DEF Sent
<1> QED
  BY <1>1 DEF After

\* A packet that is sent on the wire joins it.
LEMMA WireSend ==
  ASSUME wire \in Seq(Sent), {put, put', rcvd} \subseteq [Streams -> Nat], WireJoins,
         NEW p \in Sent, p.at = put, put' = After(p),
         wire' = Append(wire, p), rcvd' = rcvd
  PROVE  WireJoins'
<1>1. \A s \in Streams : put[s] <= put'[s]
  BY DEF After, Sent
<1>2. /\ Len(wire') = Len(wire) + 1 /\ Len(wire) \in Nat
      /\ \A i \in 1..Len(wire) : wire'[i] = wire[i]
      /\ wire'[Len(wire) + 1] = p
  BY LastAdded
<1>3. \A i \in 1..Len(wire) : wire[i] \in Sent
  BY ElementOfSeq
<1>4. \A i \in 1..Len(wire), s \in Streams : After(wire[i])[s] \in Nat
  BY <1>3, AfterType
<1>5. wire'[1].at = rcvd' /\ After(wire'[Len(wire')]) = put'
  <2>1. CASE Len(wire) = 0
    BY <2>1, <1>2 DEF WireJoins
  <2>2. CASE Len(wire) > 0
    BY <2>2, <1>2 DEF WireJoins
  <2> QED
    BY <2>1, <2>2, <1>2
<1>6. \A i \in 1..Len(wire') : i + 1 <= Len(wire') => After(wire'[i]) = wire'[i + 1].at
  BY <1>2 DEF WireJoins
<1>7. \A i \in 1..Len(wire'), s \in Streams : After(wire'[i])[s] <= put'[s]
  BY <1>1, <1>2, <1>4 DEF WireJoins
<1>8. \A s \in Streams : rcvd'[s] <= put'[s]
  BY <1>1 DEF WireJoins
<1> QED
  BY <1>2, <1>5, <1>6, <1>7, <1>8 DEF WireJoins

\* The first packet of the wire is received, or was only a signal.
LEMMA WireReceive ==
  ASSUME wire \in Seq(Sent), {put, rcvd} \subseteq [Streams -> Nat], WireJoins, wire # <<>>,
         wire' = Tail(wire), put' = put, rcvd' = After(Head(wire))
  PROVE  WireJoins' /\ Head(wire).at = rcvd
<1>1. /\ Len(wire') = Len(wire) - 1 /\ Len(wire) \in Nat /\ Len(wire) >= 1
      /\ \A i \in 1..Len(wire') : wire'[i] = wire[i + 1]
      /\ Head(wire) = wire[1]
  BY FirstTaken
<1>2. Len(wire') = 0 => rcvd' = put'
  BY <1>1 DEF WireJoins
<1>3. Len(wire') > 0 => wire'[1].at = rcvd' /\ After(wire'[Len(wire')]) = put'
  BY <1>1 DEF WireJoins
<1>4. \A i \in 1..Len(wire') : i + 1 <= Len(wire') => After(wire'[i]) = wire'[i + 1].at
  BY <1>1 DEF WireJoins
<1>5. \A i \in 1..Len(wire'), s \in Streams : After(wire'[i])[s] <= put'[s]
  BY <1>1 DEF WireJoins
<1>6. \A s \in Streams : rcvd'[s] <= put'[s]
  BY <1>1 DEF WireJoins
<1> QED
  BY <1>1, <1>2, <1>3, <1>4, <1>5, <1>6 DEF WireJoins

\* The same for the way back.
LEMMA BackSend ==
  ASSUME back \in Seq(Answered), {told, told', heard} \subseteq Nat, BackJoins,
         NEW p \in Answered, p.at = told, told' = Then(p),
         back' = Append(back, p), heard' = heard
  PROVE  BackJoins'
<1>1. told <= told'
  BY DEF Then, Answered
<1>2. /\ Len(back') = Len(back) + 1 /\ Len(back) \in Nat
      /\ \A i \in 1..Len(back) : back'[i] = back[i]
      /\ back'[Len(back) + 1] = p
  BY LastAdded
<1>3. \A i \in 1..Len(back) : back[i] \in Answered
  BY ElementOfSeq
<1>4. \A i \in 1..Len(back) : Then(back[i]) \in Nat
  BY <1>3 DEF Then, Answered
<1>5. back'[1].at = heard' /\ Then(back'[Len(back')]) = told'
  <2>1. CASE Len(back) = 0
    BY <2>1, <1>2 DEF BackJoins
  <2>2. CASE Len(back) > 0
    BY <2>2, <1>2 DEF BackJoins
  <2> QED
    BY <2>1, <2>2, <1>2
<1>6. \A i \in 1..Len(back') : i + 1 <= Len(back') => Then(back'[i]) = back'[i + 1].at
  BY <1>2 DEF BackJoins
<1>7. \A i \in 1..Len(back') : Then(back'[i]) <= told'
  BY <1>1, <1>2, <1>4 DEF BackJoins
<1>8. heard' <= told'
  BY <1>1 DEF BackJoins
<1> QED
  BY <1>2, <1>5, <1>6, <1>7, <1>8 DEF BackJoins

LEMMA BackReceive ==
  ASSUME back \in Seq(Answered), {told, heard} \subseteq Nat, BackJoins, back # <<>>,
         back' = Tail(back), told' = told, heard' = Then(Head(back))
  PROVE  BackJoins' /\ Head(back).at = heard
<1>1. /\ Len(back') = Len(back) - 1 /\ Len(back) \in Nat /\ Len(back) >= 1
      /\ \A i \in 1..Len(back') : back'[i] = back[i + 1]
      /\ Head(back) = back[1]
  BY FirstTaken
<1>2. Len(back') = 0 => heard' = told'
  BY <1>1 DEF BackJoins
<1>3. Len(back') > 0 => back'[1].at = heard' /\ Then(back'[Len(back')]) = told'
  BY <1>1 DEF BackJoins
<1>4. \A i \in 1..Len(back') : i + 1 <= Len(back') => Then(back'[i]) = back'[i + 1].at
  BY <1>1 DEF BackJoins
<1>5. \A i \in 1..Len(back') : Then(back'[i]) <= told'
  BY <1>1 DEF BackJoins
<1>6. heard' <= told'
  BY <1>1 DEF BackJoins
<1> QED
  BY <1>1, <1>2, <1>3, <1>4, <1>5, <1>6 DEF BackJoins

\* Nothing but data takes any bytes.
LEMMA SignalsEmpty == \A p \in Sent : p.t # "data" => After(p) = p.at
<1> SUFFICES ASSUME NEW p \in Sent, p.t # "data" PROVE After(p) = p.at
  OBVIOUS
<1>1. p.len = 0 /\ p.s \in Streams /\ p.at \in [Streams -> Nat]
  BY DEF Sent
<1>2. p.at[p.s] + 0 = p.at[p.s]
  BY <1>1
<1> QED
  BY <1>1, <1>2 DEF After

-----------------------------------------------------------------------------
\* Nothing has been written, read or closed.
LEMMA InitInvariant == Init => IInv
<1> SUFFICES ASSUME Init PROVE IInv
  OBVIOUS
<1> USE WindowAssumption DEF Init, Zero, Streams, Readable, Ends
<1>1. TypeOK
  BY EmptySeq DEF TypeOK
<1>2. WireJoins /\ BackJoins /\ Last /\ Forgotten /\ Sized /\ Ended
  BY DEF WireJoins, BackJoins, Last, Forgotten, Sized, Ended
<1>3. Holding /\ Ledger /\ Accepted
  BY DEF Holding, Ledger, Accepted, Total, Untold, Uncredited
<1> QED
  BY <1>1, <1>2, <1>3 DEF IInv

\* The sums of the ledger are numbers.
LEMMA Sums ==
  ASSUME TypeOK
  PROVE  /\ Total(space) \in Nat /\ Total(put) \in Nat
         /\ Total(rcvd) \in Nat /\ Total(read) \in Nat
         /\ Untold \in Nat /\ Uncredited \in Nat
         /\ win \in Nat /\ heard \in Nat /\ told \in Nat /\ myWindow \in Nat
         /\ Window \in Nat
<1>1. n["data"] \in Nat /\ n["stderr"] \in Nat
  BY DEF TypeOK, Streams
<1>2. Untold \in Nat /\ Uncredited \in Nat
  BY <1>1 DEF Untold, Uncredited
<1>3. /\ Total(space) \in Nat /\ Total(put) \in Nat
      /\ Total(rcvd) \in Nat /\ Total(read) \in Nat
  BY TotalNat DEF TypeOK
<1> QED
  BY <1>2, <1>3, WindowAssumption DEF TypeOK

\* What a Write does at its own end, before it sends.
LEMMA WritePreserves ==
  ASSUME IInv, NEW s \in Streams, Write(s)
  PROVE  IInv'
<1> USE DEF IInv
<1>1. /\ wpc[s] = "idle"
      /\ wpc' = [wpc EXCEPT ![s] = "reserve"]
      /\ UNCHANGED <<space, put, win, winClosed, sentEOF, raced, myWindow, rcvd, read, bufEOF,
                     rpc, n, wire, back, told, heard, sentClose, known, up, broken>>
  BY DEF Write, reading, paths, ending
<1>2. PICK k \in 1..(Supply - Total(put) - Total(todo)) : todo' = [todo EXCEPT ![s] = k]
  BY DEF Write
<1>3. k \in Nat /\ k >= 1
  BY <1>2
<1>4. TypeOK'
  BY <1>1, <1>2, <1>3 DEF TypeOK
<1>5. Holding'
  BY <1>1, <1>2, <1>3 DEF Holding, TypeOK
<1>6. Ledger' /\ Accepted' /\ Sized'
  BY <1>1 DEF Ledger, Untold, Uncredited, Accepted, Sized
<1>7. WireJoins' /\ BackJoins' /\ Last' /\ Forgotten' /\ Ended'
  BY <1>1 DEF WireJoins, BackJoins, Last, Forgotten, Ended
<1> QED
  BY <1>4, <1>5, <1>6, <1>7

\* What is reserved leaves the window.
LEMMA ReservePreserves ==
  ASSUME IInv, NEW s \in Streams, Reserve(s)
  PROVE  IInv'
<1> USE DEF IInv
<1> DEFINE k == Min({MaxPacket, todo[s], win})
<1>1. /\ wpc[s] = "reserve" /\ (win > 0 \/ winClosed)
      /\ win' = win - k
      /\ space' = [space EXCEPT ![s] = IF winClosed THEN 0 ELSE k]
      /\ wpc' = [wpc EXCEPT ![s] = IF winClosed THEN "idle" ELSE "send"]
      /\ todo' = [todo EXCEPT ![s] = IF winClosed THEN 0 ELSE @]
      /\ UNCHANGED <<put, winClosed, sentEOF, raced, myWindow, rcvd, read, bufEOF,
                     rpc, n, wire, back, told, heard, sentClose, known, up, broken>>
  BY DEF Reserve, reading, paths, ending
<1>2. /\ k \in Nat /\ k <= MaxPacket /\ k <= todo[s] /\ k <= win
      /\ ~winClosed => k >= 1
  <2>1. todo[s] \in Nat /\ win \in Nat
    BY DEF TypeOK
  <2>2. MaxPacket \in Nat /\ MaxPacket >= 1
    BY WindowAssumption
  <2>3. todo[s] >= 1
    BY <1>1 DEF Holding
  <2>4. /\ k \in {MaxPacket, todo[s], win}
        /\ k <= MaxPacket /\ k <= todo[s] /\ k <= win
    BY <2>1, <2>2, LeastOfThree
  <2> QED
    BY <1>1, <2>1, <2>2, <2>3, <2>4
<1> HIDE DEF k
<1>3. TypeOK'
  BY <1>1, <1>2 DEF TypeOK
<1>4. Holding'
  BY <1>1, <1>2 DEF Holding, TypeOK
<1>5. Total(space') <= Total(space) + k /\ Total(space') \in Nat
  <2>1. space[s] = 0 /\ space \in [Streams -> Nat] /\ space' \in [Streams -> Nat]
    BY <1>1, <1>3 DEF Holding, TypeOK
  <2>2. space'[s] <= k /\ space'[s] \in Nat /\ \A x \in Streams : x # s => space'[x] = space[x]
    BY <1>1, <1>2, <2>1
  <2>3. Total(space') = Total(space) - space[s] + space'[s]
    BY <2>1, <2>2, TotalChanges
  <2> QED
    BY <1>2, <2>1, <2>2, <2>3, TotalNat
<1>6. Ledger'
  <2>1. win + Total(space) + Total(put) <= Window + heard
    BY DEF Ledger
  <2>2. Total(put') = Total(put) /\ heard' = heard
    BY <1>1
  <2>3. win' + Total(space') + Total(put') <= Window + heard'
    BY <1>1, <1>2, <1>5, <2>1, <2>2, Sums
  <2> QED
    BY <1>1, <2>3 DEF Ledger, Untold, Uncredited
<1>7. Accepted' /\ Sized' /\ WireJoins' /\ BackJoins' /\ Last' /\ Forgotten' /\ Ended'
  BY <1>1 DEF Accepted, Sized, WireJoins, BackJoins, Last, Forgotten, Ended
<1> QED
  BY <1>3, <1>4, <1>6, <1>7

\* What is sent leaves the reserve.
LEMMA SendPreserves ==
  ASSUME IInv, NEW s \in Streams, Send(s)
  PROVE  IInv'
<1> USE DEF IInv
<1> DEFINE p == Data(s, space[s])
<1>1. /\ wpc[s] = "send" /\ "w" \notin sentClose /\ "w" \in up
      /\ wire' = Append(wire, p)
      /\ put' = [put EXCEPT ![s] = @ + space[s]]
      /\ todo' = [todo EXCEPT ![s] = @ - space[s]]
      /\ space' = [space EXCEPT ![s] = 0]
      /\ wpc' = [wpc EXCEPT ![s] = IF todo[s] = space[s] THEN "idle" ELSE "reserve"]
      /\ raced' = (raced \/ sentEOF)
      /\ UNCHANGED <<win, winClosed, sentEOF, myWindow, rcvd, read, bufEOF,
                     rpc, n, back, told, heard, sentClose, known, up, broken>>
  BY DEF Send, Sends, reading, ending
<1>2. /\ space[s] \in Nat /\ todo[s] \in Nat /\ space[s] <= todo[s] /\ space[s] <= MaxPacket
  BY <1>1 DEF TypeOK, Holding
<1>3. put \in [Streams -> Nat] /\ put' \in [Streams -> Nat]
  BY <1>1, <1>2 DEF TypeOK
<1>4. /\ p \in Sent /\ p.at = put /\ After(p) = put' /\ p.t = "data" /\ p.len <= MaxPacket
  BY <1>1, <1>2, <1>3 DEF Data, Sent, After
<1> HIDE DEF p
<1>5. /\ Len(wire') = Len(wire) + 1 /\ Len(wire) \in Nat /\ wire' \in Seq(Sent)
      /\ \A i \in 1..Len(wire) : wire'[i] = wire[i]
      /\ wire'[Len(wire) + 1] = p
  BY <1>1, <1>4, LastAdded DEF TypeOK
<1>6. TypeOK'
  BY <1>1, <1>2, <1>3, <1>5 DEF TypeOK
<1>7. Holding'
  BY <1>1, <1>2 DEF Holding, TypeOK
<1>8. WireJoins'
  BY <1>1, <1>3, <1>4, WireSend DEF TypeOK
<1>9. Last'
  <2>1. \A i \in 1..Len(wire') : wire'[i].t # "close"
    BY <1>1, <1>4, <1>5 DEF Last
  <2> QED
    BY <1>1, <2>1 DEF Last
<1>10. Forgotten' /\ Sized'
  BY <1>1, <1>4, <1>5 DEF Forgotten, Sized
<1>11. Ledger'
  <2>1. Total(space') = Total(space) - space[s] /\ Total(put') = Total(put) + space[s]
    <3>1. /\ put[s] \in Nat /\ space \in [Streams -> Nat] /\ space' \in [Streams -> Nat]
          /\ space'[s] = 0 /\ put'[s] = put[s] + space[s]
          /\ \A x \in Streams : x # s => space'[x] = space[x] /\ put'[x] = put[x]
      BY <1>1, <1>3, <1>6 DEF TypeOK
    <3>2. Total(space') = Total(space) - space[s] + space'[s]
      BY <3>1, TotalChanges
    <3>3. Total(put') = Total(put) - put[s] + put'[s]
      BY <1>3, <3>1, TotalChanges
    <3> QED
      BY <1>2, <3>1, <3>2, <3>3, Sums
  <2>2. win' + Total(space') + Total(put') <= Window + heard'
    <3>1. win + Total(space) + Total(put) <= Window + heard
      BY DEF Ledger
    <3>2. win' = win /\ heard' = heard
      BY <1>1
    <3> QED
      BY <1>2, <2>1, <3>1, <3>2, Sums
  <2> QED
    BY <1>1, <2>2 DEF Ledger, Untold, Uncredited
<1>12. Ended'
  <2>1. \A i \in 1..Len(wire') : wire'[i].t = "eof" => sentEOF'
    BY <1>1, <1>4, <1>5 DEF Ended
  <2>2. ~raced' => \A i \in 1..Len(wire') : wire'[i].t = "data"
    <3>1. \A i \in 1..Len(wire) : wire[i] \in Sent
      BY ElementOfSeq DEF TypeOK
    <3>2. \A i \in 1..Len(wire) : wire[i].t \in {"data", "eof", "close"}
      BY <3>1 DEF Sent
    <3>3. \A i \in 1..Len(wire) : wire[i].t # "close"
      BY <1>1 DEF Last
    <3>4. ~raced' => \A i \in 1..Len(wire) : wire[i].t # "eof"
      BY <1>1 DEF Ended
    <3> QED
      BY <1>4, <1>5, <3>2, <3>3, <3>4
  <2>3. bufEOF' /\ "r" \in up' => raced' /\ sentEOF'
    BY <1>1 DEF Ended
  <2> QED
    BY <2>1, <2>2, <2>3 DEF Ended
<1> QED
  BY <1>1, <1>6, <1>7, <1>8, <1>9, <1>10, <1>11, <1>12 DEF Accepted, BackJoins

\* A Write that fails gives nothing back.
LEMMA SendFailsPreserves ==
  ASSUME IInv, NEW s \in Streams, SendFails(s)
  PROVE  IInv'
<1> USE DEF IInv
<1>1. /\ space' = [space EXCEPT ![s] = 0]
      /\ todo' = [todo EXCEPT ![s] = 0]
      /\ wpc' = [wpc EXCEPT ![s] = "idle"]
      /\ UNCHANGED <<put, win, winClosed, sentEOF, raced, myWindow, rcvd, read, bufEOF,
                     rpc, n, wire, back, told, heard, sentClose, known, up, broken>>
  BY DEF SendFails, reading, paths, ending
<1>2. TypeOK' /\ Holding'
  BY <1>1 DEF TypeOK, Holding
<1>3. Ledger'
  <2>1. /\ space[s] \in Nat /\ space \in [Streams -> Nat] /\ space' \in [Streams -> Nat]
        /\ space'[s] = 0 /\ \A x \in Streams : x # s => space'[x] = space[x]
    BY <1>1, <1>2 DEF TypeOK
  <2>2. Total(space') = Total(space) - space[s] + space'[s]
    BY <2>1, TotalChanges
  <2>3. win + Total(space) + Total(put) <= Window + heard
    BY DEF Ledger
  <2>4. win' + Total(space') + Total(put') <= Window + heard'
    BY <1>1, <2>1, <2>2, <2>3, Sums
  <2> QED
    BY <1>1, <2>4 DEF Ledger, Untold, Uncredited
<1>4. Accepted' /\ Sized' /\ WireJoins' /\ BackJoins' /\ Last' /\ Forgotten' /\ Ended'
  BY <1>1 DEF Accepted, Sized, WireJoins, BackJoins, Last, Forgotten, Ended
<1> QED
  BY <1>2, <1>3, <1>4

-----------------------------------------------------------------------------
\* A signal on the wire.
LEMMA SignalSent ==
  ASSUME IInv, NEW t \in {"eof", "close"}, wire' = Append(wire, Signal(t)),
         put' = put, rcvd' = rcvd
  PROVE  /\ wire' \in Seq(Sent) /\ WireJoins' /\ Sized'
         /\ Len(wire') = Len(wire) + 1 /\ Len(wire) \in Nat
         /\ \A i \in 1..Len(wire) : wire'[i] = wire[i]
         /\ wire'[Len(wire) + 1].t = t /\ wire'[Len(wire) + 1].at = put
<1> USE DEF IInv
<1> DEFINE p == Signal(t)
<1>1. put \in [Streams -> Nat] /\ rcvd \in [Streams -> Nat] /\ wire \in Seq(Sent)
  BY DEF TypeOK
<1>2. /\ p \in Sent /\ p.t = t /\ p.at = put /\ p.len = 0 /\ After(p) = put
  BY <1>1 DEF Signal, Sent, After, Streams
<1> HIDE DEF p
<1>3. /\ Len(wire') = Len(wire) + 1 /\ Len(wire) \in Nat /\ wire' \in Seq(Sent)
      /\ \A i \in 1..Len(wire) : wire'[i] = wire[i]
      /\ wire'[Len(wire) + 1] = p
  BY <1>1, <1>2, LastAdded DEF p
<1>4. WireJoins'
  <2>1. wire' = Append(wire, p)
    BY DEF p
  <2> QED
    BY <1>1, <1>2, <2>1, WireSend
<1>5. Sized'
  <2>1. p.len <= MaxPacket
    BY <1>2, WindowAssumption
  <2> QED
    BY <1>3, <2>1 DEF Sized
<1> QED
  BY <1>2, <1>3, <1>4, <1>5

\* A close on the way back.
LEMMA AnswerSent ==
  ASSUME IInv, back' = Append(back, Answer), told' = told, heard' = heard
  PROVE  /\ back' \in Seq(Answered) /\ BackJoins'
         /\ Len(back') = Len(back) + 1 /\ Len(back) \in Nat
         /\ \A i \in 1..Len(back) : back'[i] = back[i]
         /\ back'[Len(back) + 1].t = "close"
<1> USE DEF IInv
<1> DEFINE p == Answer
<1>1. told \in Nat /\ heard \in Nat /\ back \in Seq(Answered)
  BY DEF TypeOK
<1>2. /\ p \in Answered /\ p.t = "close" /\ p.at = told /\ Then(p) = told
  BY <1>1 DEF Answer, Answered, Then
<1> HIDE DEF p
<1>3. /\ Len(back') = Len(back) + 1 /\ Len(back) \in Nat /\ back' \in Seq(Answered)
      /\ \A i \in 1..Len(back) : back'[i] = back[i]
      /\ back'[Len(back) + 1] = p
  BY <1>1, <1>2, LastAdded DEF p
<1>4. BackJoins'
  <2>1. back' = Append(back, p)
    BY DEF p
  <2> QED
    BY <1>1, <1>2, <2>1, BackSend
<1> QED
  BY <1>2, <1>3, <1>4

\* The end of the stream is announced.
LEMMA CloseWritePreserves ==
  ASSUME IInv, CloseWrite
  PROVE  IInv'
<1> USE DEF IInv
<1>1. /\ sentEOF' = TRUE
      /\ UNCHANGED <<wpc, todo, space, put, win, winClosed, raced, myWindow, rcvd, read, bufEOF,
                     rpc, n, back, told, heard, sentClose, known, up, broken>>
  BY DEF CloseWrite, reading, ending
<1>2. /\ Ledger' /\ Accepted' /\ Holding' /\ BackJoins'
  BY <1>1 DEF Ledger, Untold, Uncredited, Accepted, Holding, BackJoins
<1>3. CASE Sends("w")
  <2>1. "w" \notin sentClose /\ wire' = Append(wire, Signal("eof")) /\ "w" \in up
    BY <1>3 DEF CloseWrite, Sends
  <2>2. /\ wire' \in Seq(Sent) /\ WireJoins' /\ Sized'
        /\ Len(wire') = Len(wire) + 1 /\ Len(wire) \in Nat
        /\ \A i \in 1..Len(wire) : wire'[i] = wire[i]
        /\ wire'[Len(wire) + 1].t = "eof" /\ wire'[Len(wire) + 1].at = put
    BY <1>1, <2>1, SignalSent
  <2>3. TypeOK'
    BY <1>1, <2>2 DEF TypeOK
  <2>4. Last' /\ Forgotten'
    BY <1>1, <2>1, <2>2 DEF Last, Forgotten
  <2>5. Ended'
    BY <1>1, <2>1, <2>2 DEF Ended
  <2> QED
    BY <1>2, <2>2, <2>3, <2>4, <2>5
<1>4. CASE ~Sends("w")
  <2>1. wire' = wire
    BY <1>4 DEF CloseWrite
  <2>2. TypeOK'
    BY <1>1, <2>1 DEF TypeOK
  <2>3. WireJoins' /\ Sized' /\ Last' /\ Forgotten'
    BY <1>1, <2>1 DEF WireJoins, Sized, Last, Forgotten
  <2>4. Ended'
    BY <1>1, <2>1 DEF Ended
  <2> QED
    BY <1>2, <2>2, <2>3, <2>4
<1> QED
  BY <1>3, <1>4

\* An end says that it closes, whether of itself or in answer.
LEMMA WireClosedJoins ==
  ASSUME IInv, wire' = WireClosed, put' = put, rcvd' = rcvd, raced' = raced, sentEOF' = sentEOF,
         sentClose' = sentClose \cup {"w"}
  PROVE  /\ wire' \in Seq(Sent) /\ WireJoins' /\ Sized'
         /\ Len(wire) = 0 => \A i \in 1..Len(wire') : wire'[i].t = "close"
         /\ "w" \in sentClose => wire' = wire
         /\ \A i \in 1..Len(wire') : wire'[i].t = "close" => i = Len(wire') /\ "w" \in sentClose'
         /\ \A i \in 1..Len(wire') : wire'[i].t # "data" /\ ~raced' => wire'[i].at = put'
         /\ \A i \in 1..Len(wire') : wire'[i].t = "eof" => sentEOF'
<1> USE DEF IInv
<1>1. CASE Sends("w")
  <2>1. wire' = Append(wire, Signal("close")) /\ "w" \notin sentClose
    BY <1>1 DEF WireClosed, Sends
  <2>2. /\ wire' \in Seq(Sent) /\ WireJoins' /\ Sized'
        /\ Len(wire') = Len(wire) + 1 /\ Len(wire) \in Nat
        /\ \A i \in 1..Len(wire) : wire'[i] = wire[i]
        /\ wire'[Len(wire) + 1].t = "close" /\ wire'[Len(wire) + 1].at = put
    BY <2>1, SignalSent
  <2> QED
    BY <2>1, <2>2 DEF Last, Ended
<1>2. CASE ~Sends("w")
  <2>1. wire' = wire /\ wire \in Seq(Sent)
    BY <1>2 DEF WireClosed, TypeOK
  <2>2. WireJoins' /\ Sized'
    BY <2>1 DEF WireJoins, Sized
  <2> QED
    BY <2>1, <2>2 DEF Last, Ended
<1> QED
  BY <1>1, <1>2

LEMMA BackClosedJoins ==
  ASSUME IInv, back' = BackClosed, told' = told, heard' = heard,
         sentClose' = sentClose \cup {"r"}
  PROVE  /\ back' \in Seq(Answered) /\ BackJoins'
         /\ "r" \in sentClose => back' = back
         /\ \A i \in 1..Len(back') : back'[i].t = "close" => i = Len(back') /\ "r" \in sentClose'
<1> USE DEF IInv
<1>1. CASE Sends("r")
  <2>1. back' = Append(back, Answer) /\ "r" \notin sentClose
    BY <1>1 DEF BackClosed, Sends
  <2>2. /\ back' \in Seq(Answered) /\ BackJoins'
        /\ Len(back') = Len(back) + 1 /\ Len(back) \in Nat
        /\ \A i \in 1..Len(back) : back'[i] = back[i]
        /\ back'[Len(back) + 1].t = "close"
    BY <2>1, AnswerSent
  <2> QED
    BY <2>1, <2>2 DEF Last
<1>2. CASE ~Sends("r")
  <2>1. back' = back /\ back \in Seq(Answered)
    BY <1>2 DEF BackClosed, TypeOK
  <2> QED
    BY <2>1 DEF Last, BackJoins
<1> QED
  BY <1>1, <1>2

\* Close sends a close and nothing else.
LEMMA ClosePreserves ==
  ASSUME IInv, NEW e \in Ends, Close(e)
  PROVE  IInv'
<1> USE DEF IInv
<1>1. /\ Sends(e) /\ sentClose' = sentClose \cup {e}
      /\ UNCHANGED <<wpc, todo, space, put, win, winClosed, sentEOF, raced, myWindow, rcvd, read,
                     bufEOF, rpc, n, told, heard, known, up, broken>>
  BY DEF Close, writing, reading
<1>2. Ledger' /\ Accepted' /\ Holding'
  BY <1>1 DEF Ledger, Untold, Uncredited, Accepted, Holding
<1>3. CASE e = "w"
  <2>1. wire' = WireClosed /\ back' = back /\ "w" \notin sentClose /\ "w" \in up
    BY <1>1, <1>3 DEF Close, Sends
  <2>2. /\ wire' \in Seq(Sent) /\ WireJoins' /\ Sized'
        /\ \A i \in 1..Len(wire') : wire'[i].t = "close" => i = Len(wire') /\ "w" \in sentClose'
        /\ \A i \in 1..Len(wire') : wire'[i].t # "data" /\ ~raced' => wire'[i].at = put'
        /\ \A i \in 1..Len(wire') : wire'[i].t = "eof" => sentEOF'
    BY <1>1, <1>3, <2>1, WireClosedJoins
  <2>3. TypeOK'
    BY <1>1, <2>1, <2>2 DEF TypeOK
  <2>4. Last' /\ BackJoins'
    BY <1>1, <2>1, <2>2 DEF Last, BackJoins
  <2>5. Forgotten'
    BY <1>1, <2>1 DEF Forgotten
  <2>6. Ended'
    BY <1>1, <2>2 DEF Ended
  <2> QED
    BY <1>2, <2>2, <2>3, <2>4, <2>5, <2>6
<1>4. CASE e = "r"
  <2>1. back' = BackClosed /\ wire' = wire /\ "r" \notin sentClose /\ "r" \in up
    BY <1>1, <1>4 DEF Close, Sends
  <2>2. /\ back' \in Seq(Answered) /\ BackJoins'
        /\ \A i \in 1..Len(back') : back'[i].t = "close" => i = Len(back') /\ "r" \in sentClose'
    BY <1>1, <1>4, <2>1, BackClosedJoins
  <2>3. TypeOK'
    BY <1>1, <2>1, <2>2 DEF TypeOK
  <2>4. Last' /\ WireJoins' /\ Sized'
    BY <1>1, <2>1, <2>2 DEF Last, WireJoins, Sized
  <2>5. Forgotten'
    BY <1>1, <2>1 DEF Forgotten
  <2>6. Ended'
    BY <1>1, <2>1 DEF Ended
  <2> QED
    BY <1>2, <2>2, <2>3, <2>4, <2>5, <2>6
<1> QED
  BY <1>3, <1>4 DEF Ends

\* An end whose connection is lost takes no more packets.
LEMMA ConnLostPreserves ==
  ASSUME IInv, NEW e \in Ends, ConnLost(e)
  PROVE  IInv'
<1> USE DEF IInv
<1>1. /\ up' = up \ {e} /\ known' = known \ {e}
      /\ sentClose \subseteq sentClose' /\ sentClose' \subseteq sentClose \cup {e}
      /\ winClosed' \in BOOLEAN /\ bufEOF' \in BOOLEAN
      /\ e = "w" => bufEOF' = bufEOF
      /\ UNCHANGED <<wpc, todo, space, put, win, sentEOF, raced, myWindow, rcvd, read,
                     rpc, n, wire, back, told, heard, broken>>
  <2>1. /\ up' = up \ {e} /\ known' = known \ {e}
        /\ UNCHANGED <<wpc, todo, space, put, win, sentEOF, raced, myWindow, rcvd, read,
                       rpc, n, wire, back, told, heard, broken>>
    BY DEF ConnLost, paths
  <2>2. CASE e \in known
    BY <2>1, <2>2 DEF ConnLost, Shut, TypeOK
  <2>3. CASE e \notin known
    BY <2>1, <2>3 DEF ConnLost, TypeOK
  <2> QED
    BY <2>1, <2>2, <2>3
<1>2. TypeOK'
  BY <1>1 DEF TypeOK
<1>3. Ledger' /\ Accepted' /\ Holding' /\ Sized' /\ WireJoins' /\ BackJoins'
  BY <1>1 DEF Ledger, Untold, Uncredited, Accepted, Holding, Sized, WireJoins, BackJoins
<1>4. Last' /\ Forgotten'
  BY <1>1 DEF Last, Forgotten, Ends
<1>5. Ended'
  BY <1>1 DEF Ended, Ends
<1> QED
  BY <1>2, <1>3, <1>4, <1>5

-----------------------------------------------------------------------------
\* The first packet of a path leaves it: what is left stays in order.
LEMMA WireTaken ==
  ASSUME IInv, wire # <<>>, wire' = Tail(wire), put' = put, raced' = raced, sentEOF' = sentEOF,
         sentClose' = sentClose
  PROVE  /\ wire' \in Seq(Sent) /\ Sized'
         /\ Len(wire') = Len(wire) - 1 /\ Len(wire) \in Nat /\ Len(wire) >= 1
         /\ Head(wire) = wire[1] /\ Head(wire) \in Sent
         /\ \A i \in 1..Len(wire') : wire'[i] = wire[i + 1]
         /\ \A i \in 1..Len(wire') : wire'[i].t = "close" => i = Len(wire') /\ "w" \in sentClose'
         /\ \A i \in 1..Len(wire') : wire'[i].t # "data" /\ ~raced' => wire'[i].at = put'
         /\ \A i \in 1..Len(wire') : wire'[i].t = "eof" => sentEOF'
<1> USE DEF IInv
<1>1. wire \in Seq(Sent)
  BY DEF TypeOK
<1>2. /\ wire' \in Seq(Sent)
      /\ Len(wire') = Len(wire) - 1 /\ Len(wire) \in Nat /\ Len(wire) >= 1
      /\ \A i \in 1..Len(wire') : wire'[i] = wire[i + 1]
      /\ Head(wire) = wire[1] /\ Head(wire) \in Sent
  BY <1>1, FirstTaken
<1>3. Sized'
  BY <1>2 DEF Sized
<1>4. \A i \in 1..Len(wire') : wire'[i].t = "close" => i = Len(wire') /\ "w" \in sentClose'
  <2> SUFFICES ASSUME NEW i \in 1..Len(wire'), wire'[i].t = "close"
               PROVE  i = Len(wire') /\ "w" \in sentClose'
    OBVIOUS
  <2>1. i + 1 \in 1..Len(wire) /\ wire[i + 1].t = "close"
    BY <1>2
  <2>2. i + 1 = Len(wire) /\ "w" \in sentClose
    BY <2>1 DEF Last
  <2>3. i \in Nat /\ Len(wire) \in Nat /\ Len(wire') = Len(wire) - 1
    BY <1>2
  <2>4. i = Len(wire')
    BY <2>2, <2>3
  <2> QED
    BY <2>2, <2>4
<1>5. /\ \A i \in 1..Len(wire') : wire'[i].t # "data" /\ ~raced' => wire'[i].at = put'
      /\ \A i \in 1..Len(wire') : wire'[i].t = "eof" => sentEOF'
  BY <1>2 DEF Ended
<1> QED
  BY <1>2, <1>3, <1>4, <1>5

\* A data packet fits the window it was sent into.
LEMMA HandleDataPreserves ==
  ASSUME IInv, HandleData
  PROVE  IInv'
<1> USE DEF IInv
<1> DEFINE p == Head(wire)
<1>1. /\ wire # <<>> /\ wire' = Tail(wire) /\ p.t = "data" /\ "r" \in up
      /\ UNCHANGED <<wpc, todo, space, put, win, winClosed, sentEOF, raced, read, bufEOF,
                     rpc, n, back, told, heard, sentClose, known, up>>
  BY DEF HandleData, Takes, writing
<1>2. /\ wire' \in Seq(Sent) /\ Sized'
      /\ Len(wire') = Len(wire) - 1 /\ Len(wire) \in Nat /\ Len(wire) >= 1
      /\ p = wire[1] /\ p \in Sent
      /\ \A i \in 1..Len(wire') : wire'[i].t = "close" => i = Len(wire') /\ "w" \in sentClose'
      /\ \A i \in 1..Len(wire') : wire'[i].t # "data" /\ ~raced' => wire'[i].at = put'
      /\ \A i \in 1..Len(wire') : wire'[i].t = "eof" => sentEOF'
  BY <1>1, WireTaken
<1>3. /\ p.at = rcvd /\ After(p)[p.s] <= put[p.s] /\ p.len <= MaxPacket
      /\ \A s \in Streams : rcvd[s] <= put[s]
      /\ p.s \in Streams /\ p.len \in Nat
  <2>1. p.s \in Streams /\ p.len \in Nat
    BY <1>2 DEF Sent
  <2>2. 1 \in 1..Len(wire) /\ Len(wire) > 0
    BY <1>2
  <2>3. p.len <= MaxPacket
    BY <1>2, <2>2 DEF Sized
  <2>4. p.at = rcvd /\ \A s \in Streams : rcvd[s] <= put[s]
    BY <1>2, <2>2 DEF WireJoins
  <2>5. After(p)[p.s] <= put[p.s]
    BY <1>2, <2>1, <2>2 DEF WireJoins
  <2> QED
    BY <2>1, <2>3, <2>4, <2>5
<1>4. rcvd \in [Streams -> Nat] /\ put \in [Streams -> Nat] /\ myWindow \in Nat
  BY DEF TypeOK
<1>5. rcvd[p.s] + p.len <= put[p.s]
  BY <1>3, <1>4 DEF After
<1>6. p.len <= myWindow
  <2>1. p.len <= Total(put) - Total(rcvd)
    <3>1. put[p.s] - rcvd[p.s] <= Total(put) - Total(rcvd)
      BY <1>3, <1>4, TotalOrder
    <3> QED
      BY <1>3, <1>4, <1>5, <3>1, Sums
  <2>2. /\ win + Total(space) + Total(put) <= Window + heard
        /\ told + Untold <= myWindow + Total(rcvd) - Window
        /\ heard <= told
    BY DEF Ledger, BackJoins
  <2> QED
    BY <1>3, <2>1, <2>2, Sums
<1>7. "r" \in known
  BY <1>1, <1>2 DEF Forgotten
<1>8. ~(Stray("r") \/ p.len > MaxPacket \/ p.len > myWindow)
  <2>1. MaxPacket \in Nat
    BY WindowAssumption
  <2> QED
    BY <1>3, <1>4, <1>6, <1>7, <2>1 DEF Stray
<1>9. /\ myWindow' = myWindow - p.len
      /\ rcvd' = [rcvd EXCEPT ![p.s] = p.at[p.s] + p.len]
      /\ broken' = broken
  BY <1>8 DEF HandleData
<1> HIDE DEF p
<1>10. rcvd' = After(p) /\ rcvd' \in [Streams -> Nat] /\ rcvd'[p.s] = rcvd[p.s] + p.len
       /\ \A x \in Streams : x # p.s => rcvd'[x] = rcvd[x]
  BY <1>3, <1>4, <1>9 DEF After
<1>11. TypeOK'
  <2>1. myWindow' \in Nat
    BY <1>3, <1>4, <1>6, <1>9
  <2> QED
    BY <1>1, <1>2, <1>9, <1>10, <2>1 DEF TypeOK
<1>12. WireJoins'
  <2>1. wire \in Seq(Sent) /\ put' = put
    BY <1>1 DEF TypeOK
  <2> QED
    BY <1>1, <1>4, <1>10, <2>1, WireReceive DEF p
<1>13. BackJoins' /\ Holding' /\ Accepted'
  BY <1>1, <1>9 DEF BackJoins, Holding, Accepted
<1>14. Last' /\ Forgotten'
  BY <1>1, <1>2, <1>7 DEF Last, Forgotten
<1>15. Ledger'
  <2>1. Total(rcvd') = Total(rcvd) + p.len
    <3>1. Total(rcvd') = Total(rcvd) - rcvd[p.s] + rcvd'[p.s]
      BY <1>3, <1>4, <1>10, TotalChanges
    <3>2. rcvd[p.s] \in Nat
      BY <1>3, <1>4
    <3> QED
      BY <1>3, <1>10, <3>1, <3>2, Sums
  <2>2. myWindow' + Total(rcvd') - Window = myWindow + Total(rcvd) - Window
    BY <1>3, <1>9, <2>1, Sums
  <2>3. Untold' = Untold /\ Uncredited' = Uncredited
    BY <1>1 DEF Untold, Uncredited
  <2>4. \A s \in Streams : read'[s] <= rcvd'[s]
    <3>1. \A s \in Streams : rcvd[s] \in Nat /\ read[s] \in Nat /\ read[s] <= rcvd[s]
      BY DEF TypeOK, Ledger
    <3>2. \A s \in Streams : rcvd[s] <= rcvd'[s] /\ rcvd'[s] \in Nat
      BY <1>3, <1>4, <1>10, <3>1
    <3> QED
      BY <1>1, <3>1, <3>2
  <2> QED
    BY <1>1, <2>2, <2>3, <2>4 DEF Ledger
<1>16. Ended'
  <2>1. bufEOF /\ ~raced => rcvd' = put
    <3>1. bufEOF /\ ~raced => rcvd = put
      BY <1>1 DEF Ended
    <3>2. rcvd = put => p.len = 0
      BY <1>3, <1>4, <1>5
    <3>3. p.len = 0 => rcvd' = rcvd
      BY <1>3, <1>4, <1>9
    <3> QED
      BY <3>1, <3>2, <3>3
  <2> QED
    BY <1>1, <1>2, <2>1 DEF Ended
<1> QED
  BY <1>2, <1>11, <1>12, <1>13, <1>14, <1>15, <1>16

\* The end of the stream comes after all that was sent before it.
LEMMA HandleEOFPreserves ==
  ASSUME IInv, HandleEOF
  PROVE  IInv'
<1> USE DEF IInv
<1> DEFINE p == Head(wire)
<1>1. /\ wire # <<>> /\ wire' = Tail(wire) /\ p.t = "eof" /\ "r" \in up
      /\ UNCHANGED <<wpc, todo, space, put, win, winClosed, sentEOF, raced, myWindow, rcvd, read,
                     rpc, n, back, told, heard, sentClose, known, up>>
  BY DEF HandleEOF, Takes, writing
<1>2. /\ wire' \in Seq(Sent) /\ Sized'
      /\ Len(wire') = Len(wire) - 1 /\ Len(wire) \in Nat /\ Len(wire) >= 1
      /\ p = wire[1] /\ p \in Sent
      /\ \A i \in 1..Len(wire') : wire'[i].t = "close" => i = Len(wire') /\ "w" \in sentClose'
      /\ \A i \in 1..Len(wire') : wire'[i].t # "data" /\ ~raced' => wire'[i].at = put'
      /\ \A i \in 1..Len(wire') : wire'[i].t = "eof" => sentEOF'
  BY <1>1, WireTaken
<1> HIDE DEF p
<1>nonempty. /\ Len(wire) \in Nat /\ Len(wire) >= 1 /\ p = wire[1]
  BY <1>2
<1>3. "r" \in known
  <2>1. Len(wire) # 0 /\ "r" \in up
    BY <1>1, <1>nonempty
  <2> QED
    BY <2>1 DEF Forgotten
<1>4. bufEOF' = TRUE /\ broken' = broken
  BY <1>3 DEF HandleEOF, Stray
<1>5. p.at = rcvd /\ (~raced => rcvd = put) /\ sentEOF
  <2>1. 1 \in 1..Len(wire) /\ Len(wire) > 0 /\ wire[1].t = "eof"
    BY <1>1, <1>nonempty
  <2>2. wire[1].at = rcvd
    BY <2>1 DEF WireJoins
  <2>3. (~raced => wire[1].at = put) /\ sentEOF
    BY <2>1 DEF Ended
  <2> QED
    BY <1>2, <2>2, <2>3
<1>6. TypeOK'
  BY <1>1, <1>2, <1>4 DEF TypeOK
<1>7. WireJoins'
  <2>1. /\ wire \in Seq(Sent) /\ put \in [Streams -> Nat] /\ rcvd \in [Streams -> Nat]
        /\ put' = put /\ rcvd' = rcvd
    BY <1>1 DEF TypeOK
  <2>2. After(p) = p.at
    BY <1>1, <1>2, SignalsEmpty
  <2> QED
    BY <1>1, <1>5, <2>1, <2>2, WireReceive DEF p
<1>8. BackJoins' /\ Holding' /\ Accepted' /\ Ledger'
  BY <1>1, <1>4 DEF BackJoins, Holding, Accepted, Ledger, Untold, Uncredited
<1>9. Last' /\ Forgotten'
  BY <1>1, <1>2, <1>3 DEF Last, Forgotten
<1>10. Ended'
  BY <1>1, <1>2, <1>4, <1>5 DEF Ended
<1> QED
  BY <1>2, <1>6, <1>7, <1>8, <1>9, <1>10

\* The same for the way back.
LEMMA BackTaken ==
  ASSUME IInv, back # <<>>, back' = Tail(back), sentClose' = sentClose
  PROVE  /\ back' \in Seq(Answered)
         /\ Len(back') = Len(back) - 1 /\ Len(back) \in Nat /\ Len(back) >= 1
         /\ Head(back) = back[1] /\ Head(back) \in Answered
         /\ back[1].at = heard /\ Then(back[1]) <= told
         /\ \A i \in 1..Len(back') : back'[i].t = "close" => i = Len(back') /\ "r" \in sentClose'
<1> USE DEF IInv
<1>1. back \in Seq(Answered)
  BY DEF TypeOK
<1>2. /\ back' \in Seq(Answered)
      /\ Len(back') = Len(back) - 1 /\ Len(back) \in Nat /\ Len(back) >= 1
      /\ \A i \in 1..Len(back') : back'[i] = back[i + 1]
      /\ Head(back) = back[1] /\ Head(back) \in Answered
  BY <1>1, FirstTaken
<1>3. \A i \in 1..Len(back') : back'[i].t = "close" => i = Len(back') /\ "r" \in sentClose'
  <2> SUFFICES ASSUME NEW i \in 1..Len(back'), back'[i].t = "close"
               PROVE  i = Len(back') /\ "r" \in sentClose'
    OBVIOUS
  <2>1. i + 1 \in 1..Len(back) /\ back[i + 1].t = "close"
    BY <1>2
  <2>2. i + 1 = Len(back) /\ "r" \in sentClose
    BY <2>1 DEF Last
  <2>3. i \in Nat /\ Len(back) \in Nat /\ Len(back') = Len(back) - 1
    BY <1>2
  <2>4. i = Len(back')
    BY <2>2, <2>3
  <2> QED
    BY <2>2, <2>4
<1>4. back[1].at = heard /\ Then(back[1]) <= told
  <2>1. 1 \in 1..Len(back) /\ Len(back) > 0
    BY <1>2
  <2> QED
    BY <2>1 DEF BackJoins
<1> QED
  BY <1>2, <1>3, <1>4

\* An adjustment is accepted: the window stays below what the other end stands for.
LEMMA HandleAdjustPreserves ==
  ASSUME IInv, HandleAdjust
  PROVE  IInv'
<1> USE DEF IInv
<1> DEFINE k == Head(back).len
<1>1. /\ back # <<>> /\ back' = Tail(back) /\ "w" \in up
      /\ UNCHANGED <<wpc, todo, space, put, winClosed, sentEOF, raced, myWindow, rcvd, read, bufEOF,
                     rpc, n, wire, told, sentClose, known, up>>
  BY DEF HandleAdjust, Takes, reading
<1>2. /\ back' \in Seq(Answered)
      /\ Len(back') = Len(back) - 1 /\ Len(back) \in Nat /\ Len(back) >= 1
      /\ Head(back) = back[1] /\ Head(back) \in Answered
      /\ back[1].at = heard /\ Then(back[1]) <= told
      /\ \A i \in 1..Len(back') : back'[i].t = "close" => i = Len(back') /\ "r" \in sentClose'
  BY <1>1, BackTaken
<1>nonempty. Len(back) \in Nat /\ Len(back) >= 1
  BY <1>2
<1>3. k \in Nat /\ heard + k <= told
  BY <1>2 DEF Answered, Then
<1>4. "w" \in known
  <2>1. Len(back) # 0 /\ "w" \in up
    BY <1>1, <1>nonempty
  <2> QED
    BY <2>1 DEF Forgotten
<1>5. /\ win + Total(space) + Total(put) <= Window + heard
      /\ told + Untold <= myWindow + Total(rcvd) - Window
      /\ myWindow + Total(rcvd) - Window + Uncredited <= Total(read)
      /\ Total(read) <= Total(rcvd) /\ Total(rcvd) <= Total(put)
  <2>1. Total(read) <= Total(rcvd)
    BY TotalOrder DEF Ledger, TypeOK
  <2>2. Total(rcvd) <= Total(put)
    BY TotalOrder DEF WireJoins, TypeOK
  <2> QED
    BY <2>1, <2>2 DEF Ledger
<1> HIDE DEF k
<1>6. win + k <= MaxWin
  BY <1>3, <1>5, Sums, WindowAssumption
<1>7. win' = win + k /\ heard' = heard + k /\ broken' = broken
  <2>1. ~(Stray("w") \/ win + k > MaxWin)
    BY <1>3, <1>4, <1>6, Sums, WindowAssumption DEF Stray
  <2> QED
    BY <2>1 DEF HandleAdjust, k
<1>8. TypeOK'
  <2>1. win' \in Nat /\ heard' \in Nat /\ broken' \subseteq Ends
    BY <1>3, <1>7 DEF TypeOK
  <2>2. back' \in Seq(Answered)
    BY <1>2
  <2> QED
    BY <1>1, <2>1, <2>2 DEF TypeOK
<1>9. BackJoins'
  <2>1. heard' = Then(Head(back))
    BY <1>2, <1>7 DEF Then, k
  <2>2. back \in Seq(Answered) /\ told \in Nat /\ heard \in Nat
    BY DEF TypeOK
  <2> QED
    BY <1>1, <2>1, <2>2, BackReceive
<1>10. WireJoins' /\ Holding' /\ Accepted' /\ Sized' /\ Ended'
  BY <1>1, <1>7 DEF WireJoins, Holding, Accepted, Sized, Ended
<1>11. Last' /\ Forgotten'
  BY <1>1, <1>2, <1>4 DEF Last, Forgotten
<1>12. Ledger'
  <2>1. /\ Total(space') = Total(space) /\ Total(put') = Total(put) /\ Total(rcvd') = Total(rcvd)
        /\ Total(read') = Total(read) /\ myWindow' = myWindow /\ told' = told
        /\ Untold' = Untold /\ Uncredited' = Uncredited
    BY <1>1 DEF Untold, Uncredited
  <2>2. win' + Total(space') + Total(put') <= Window + heard'
    BY <1>3, <1>5, <1>7, <2>1, Sums
  <2> QED
    BY <1>1, <2>1, <2>2 DEF Ledger
<1> QED
  BY <1>8, <1>9, <1>10, <1>11, <1>12

\* A close finds the channel, and nothing behind it.
LEMMA HandleClosePreserves ==
  ASSUME IInv, NEW e \in Ends, HandleClose(e)
  PROVE  IInv'
<1> USE DEF IInv
<1>1. /\ e \in up
      /\ UNCHANGED <<wpc, todo, space, put, win, sentEOF, raced, myWindow, rcvd, read,
                     rpc, n, told, heard, up>>
  BY DEF HandleClose, Takes
<1>2. Ledger' /\ Holding'
  BY <1>1 DEF Ledger, Untold, Uncredited, Holding
<1>3. CASE e = "r"
  <2>1. wire # <<>> /\ Head(wire).t = "close"
    BY <1>3 DEF HandleClose, Takes
  <2>2. wire \in Seq(Sent)
    BY DEF TypeOK
  <2>3. Len(wire) \in Nat /\ Len(wire) >= 1 /\ Head(wire) = wire[1] /\ wire[1] \in Sent
    BY <2>1, <2>2, FirstTaken
  <2>4. Len(wire) = 1 /\ "w" \in sentClose
    <3>1. 1 \in 1..Len(wire) /\ wire[1].t = "close"
      BY <2>1, <2>3
    <3> QED
      BY <3>1 DEF Last
  <2>5. "r" \in known
    BY <1>1, <1>3, <2>4 DEF Forgotten
  <2>6. /\ wire' = Tail(wire) /\ back' = BackClosed /\ known' = known \ {"r"}
        /\ sentClose' = sentClose \cup {"r"} /\ bufEOF' = TRUE
        /\ winClosed' = winClosed /\ broken' = broken
    BY <1>3, <2>5 DEF HandleClose, Stray, Shut, TypeOK
  <2>7. /\ wire' \in Seq(Sent) /\ Len(wire') = 0
    BY <2>1, <2>2, <2>4, <2>6, FirstTaken
  <2>8. wire[1].at = rcvd /\ After(wire[1]) = put /\ After(wire[1]) = wire[1].at
    BY <2>1, <2>3, <2>4, SignalsEmpty DEF WireJoins
  <2>9. WireJoins' /\ Sized'
    BY <1>1, <2>7, <2>8 DEF WireJoins, Sized
  <2>10. /\ back' \in Seq(Answered) /\ BackJoins'
         /\ "r" \in sentClose => back' = back
         /\ \A i \in 1..Len(back') : back'[i].t = "close" => i = Len(back') /\ "r" \in sentClose'
    BY <1>1, <2>6, BackClosedJoins
  <2>11. TypeOK'
    BY <1>1, <2>6, <2>7, <2>10 DEF TypeOK, Ends
  <2>12. Last' /\ Ended'
    BY <1>1, <2>4, <2>6, <2>7, <2>8, <2>10 DEF Last, Ended
  <2>13. Forgotten'
    BY <1>1, <2>4, <2>6, <2>7, <2>10 DEF Forgotten
  <2> QED
    BY <1>2, <2>6, <2>9, <2>10, <2>11, <2>12, <2>13 DEF Accepted
<1>4. CASE e = "w"
  <2>1. back # <<>> /\ Head(back).t = "close"
    BY <1>4 DEF HandleClose, Takes
  <2>2. back \in Seq(Answered)
    BY DEF TypeOK
  <2>3. Len(back) \in Nat /\ Len(back) >= 1 /\ Head(back) = back[1] /\ back[1] \in Answered
    BY <2>1, <2>2, FirstTaken
  <2>4. Len(back) = 1 /\ "r" \in sentClose
    <3>1. 1 \in 1..Len(back) /\ back[1].t = "close"
      BY <2>1, <2>3
    <3> QED
      BY <3>1 DEF Last
  <2>5. "w" \in known
    BY <1>1, <1>4, <2>4 DEF Forgotten
  <2>6. /\ back' = Tail(back) /\ wire' = WireClosed /\ known' = known \ {"w"}
        /\ sentClose' = sentClose \cup {"w"} /\ winClosed' = TRUE
        /\ bufEOF' = bufEOF /\ broken' = broken
    BY <1>4, <2>5 DEF HandleClose, Stray, Shut, TypeOK
  <2>7. /\ back' \in Seq(Answered) /\ Len(back') = 0
    BY <2>1, <2>2, <2>4, <2>6, FirstTaken
  <2>8. back[1].at = heard /\ Then(back[1]) = told /\ back[1].len = 0
    BY <2>1, <2>3, <2>4 DEF BackJoins, Answered
  <2>9. BackJoins'
    <3>1. heard \in Nat /\ told \in Nat /\ heard = told
      BY <2>8 DEF Then, TypeOK
    <3> QED
      BY <1>1, <2>7, <3>1 DEF BackJoins
  <2>10. /\ wire' \in Seq(Sent) /\ WireJoins' /\ Sized'
         /\ "w" \in sentClose => wire' = wire
         /\ \A i \in 1..Len(wire') : wire'[i].t = "close" => i = Len(wire') /\ "w" \in sentClose'
         /\ \A i \in 1..Len(wire') : wire'[i].t # "data" /\ ~raced' => wire'[i].at = put'
         /\ \A i \in 1..Len(wire') : wire'[i].t = "eof" => sentEOF'
    BY <1>1, <2>6, WireClosedJoins
  <2>11. TypeOK'
    BY <1>1, <2>6, <2>7, <2>10 DEF TypeOK, Ends
  <2>12. Last' /\ Ended'
    BY <1>1, <2>4, <2>6, <2>7, <2>10 DEF Last, Ended
  <2>13. Forgotten'
    BY <1>1, <2>4, <2>6, <2>7, <2>10 DEF Forgotten
  <2> QED
    BY <1>2, <2>6, <2>9, <2>10, <2>11, <2>12, <2>13 DEF Accepted
<1> QED
  BY <1>3, <1>4 DEF Ends

-----------------------------------------------------------------------------
\* What is read waits to be credited.
LEMMA ReadPreserves ==
  ASSUME IInv, NEW s \in Readable, Read(s)
  PROVE  IInv'
<1> USE DEF IInv
<1>1. /\ rpc[s] = "idle" /\ rpc' = [rpc EXCEPT ![s] = "credit"]
      /\ UNCHANGED <<wpc, todo, space, put, win, winClosed, sentEOF, raced, myWindow, rcvd, bufEOF,
                     wire, back, told, heard, sentClose, known, up, broken>>
  BY DEF Read, writing, paths, ending
<1>2. PICK k \in 1..Buffered(s) : /\ read' = [read EXCEPT ![s] = @ + k]
                                 /\ n' = [n EXCEPT ![s] = k]
  BY DEF Read
<1>3. /\ s \in Streams /\ read[s] \in Nat /\ rcvd[s] \in Nat /\ read \in [Streams -> Nat]
      /\ n \in [Streams -> Nat] /\ rpc \in [Streams -> {"idle", "credit", "tell"}]
  BY DEF Readable, Streams, TypeOK
<1>4. k \in Nat /\ k >= 1 /\ read[s] + k <= rcvd[s]
  BY <1>2, <1>3 DEF Buffered
<1>5. TypeOK'
  BY <1>1, <1>2, <1>3, <1>4 DEF TypeOK
<1>6. Ledger'
  <2>1. Total(read') = Total(read) + k
    <3>1. /\ read' \in [Streams -> Nat] /\ read'[s] = read[s] + k
          /\ \A x \in Streams : x # s => read'[x] = read[x]
      BY <1>2, <1>3, <1>4
    <3>2. Total(read') = Total(read) - read[s] + read'[s]
      BY <1>3, <3>1, TotalChanges
    <3> QED
      BY <1>3, <1>4, <3>1, <3>2, Sums
  <2>2. Uncredited' = Uncredited + k /\ Untold' = Untold
    <3>1. s \in {"data", "stderr"} /\ n["data"] \in Nat /\ n["stderr"] \in Nat
      BY <1>3 DEF Readable, Streams
    <3>2. CASE s = "data"
      BY <1>1, <1>2, <1>3, <1>4, <3>1, <3>2 DEF Uncredited, Untold, Streams
    <3>3. CASE s = "stderr"
      BY <1>1, <1>2, <1>3, <1>4, <3>1, <3>3 DEF Uncredited, Untold, Streams
    <3> QED
      BY <3>1, <3>2, <3>3
  <2>3. /\ win' = win /\ Total(space') = Total(space) /\ Total(put') = Total(put)
        /\ heard' = heard /\ told' = told /\ myWindow' = myWindow /\ Total(rcvd') = Total(rcvd)
    BY <1>1
  <2>4. /\ win' + Total(space') + Total(put') <= Window + heard'
        /\ told' + Untold' <= myWindow' + Total(rcvd') - Window
    BY <2>2, <2>3 DEF Ledger
  <2>5. myWindow' + Total(rcvd') - Window + Uncredited' <= Total(read')
    <3>1. myWindow + Total(rcvd) - Window + Uncredited <= Total(read)
      BY DEF Ledger
    <3> QED
      BY <1>4, <2>1, <2>2, <2>3, <3>1, Sums
  <2>6. \A x \in Streams : read'[x] <= rcvd'[x]
    BY <1>1, <1>2, <1>3, <1>4 DEF Ledger
  <2> QED
    BY <2>4, <2>5, <2>6 DEF Ledger
<1>7. Accepted' /\ Holding' /\ Sized' /\ WireJoins' /\ BackJoins' /\ Last' /\ Forgotten' /\ Ended'
  BY <1>1 DEF Accepted, Holding, Sized, WireJoins, BackJoins, Last, Forgotten, Ended
<1> QED
  BY <1>5, <1>6, <1>7

\* What is credited waits to be told.
LEMMA CreditPreserves ==
  ASSUME IInv, NEW s \in Readable, Credit(s)
  PROVE  IInv'
<1> USE DEF IInv
<1>1. /\ rpc[s] = "credit" /\ rpc' = [rpc EXCEPT ![s] = "tell"] /\ myWindow' = myWindow + n[s]
      /\ UNCHANGED <<wpc, todo, space, put, win, winClosed, sentEOF, raced, rcvd, read, bufEOF, n,
                     wire, back, told, heard, sentClose, known, up, broken>>
  BY DEF Credit, writing, paths, ending
<1>2. /\ s \in Streams /\ n[s] \in Nat /\ myWindow \in Nat
      /\ n["data"] \in Nat /\ n["stderr"] \in Nat
      /\ rpc \in [Streams -> {"idle", "credit", "tell"}]
  BY DEF Readable, Streams, TypeOK
<1>3. TypeOK'
  <2>1. myWindow' \in Nat
    BY <1>1, <1>2
  <2>2. rpc' \in [Streams -> {"idle", "credit", "tell"}]
    BY <1>1, <1>2
  <2> QED
    BY <1>1, <2>1, <2>2 DEF TypeOK
<1>4. Ledger'
  <2>1. Uncredited' = Uncredited - n[s] /\ Untold' = Untold + n[s]
    <3>1. CASE s = "data"
      BY <1>1, <1>2, <3>1 DEF Uncredited, Untold, Streams
    <3>2. CASE s = "stderr"
      BY <1>1, <1>2, <3>2 DEF Uncredited, Untold, Streams
    <3> QED
      BY <3>1, <3>2 DEF Readable
  <2>2. /\ win' = win /\ Total(space') = Total(space) /\ Total(put') = Total(put)
        /\ heard' = heard /\ told' = told /\ Total(rcvd') = Total(rcvd)
        /\ Total(read') = Total(read) /\ read' = read /\ rcvd' = rcvd
    BY <1>1
  <2>3. /\ win + Total(space) + Total(put) <= Window + heard
        /\ told + Untold <= myWindow + Total(rcvd) - Window
        /\ myWindow + Total(rcvd) - Window + Uncredited <= Total(read)
    BY DEF Ledger
  <2>4. told' + Untold' <= myWindow' + Total(rcvd') - Window
    BY <1>1, <1>2, <2>1, <2>2, <2>3, Sums
  <2>5. myWindow' + Total(rcvd') - Window + Uncredited' <= Total(read')
    BY <1>1, <1>2, <2>1, <2>2, <2>3, Sums
  <2> QED
    BY <2>2, <2>3, <2>4, <2>5 DEF Ledger
<1>5. Accepted' /\ Holding' /\ Sized' /\ WireJoins' /\ BackJoins' /\ Last' /\ Forgotten' /\ Ended'
  BY <1>1 DEF Accepted, Holding, Sized, WireJoins, BackJoins, Last, Forgotten, Ended
<1> QED
  BY <1>3, <1>4, <1>5

\* What is told was credited.
LEMMA TellPreserves ==
  ASSUME IInv, NEW s \in Readable, Tell(s)
  PROVE  IInv'
<1> USE DEF IInv
<1>1. /\ rpc[s] = "tell" /\ rpc' = [rpc EXCEPT ![s] = "idle"] /\ n' = [n EXCEPT ![s] = 0]
      /\ UNCHANGED <<wpc, todo, space, put, win, winClosed, sentEOF, raced, myWindow, rcvd, read, bufEOF,
                     wire, heard, sentClose, known, up, broken>>
  BY DEF Tell, writing, ending
<1>2. /\ s \in Streams /\ n[s] \in Nat /\ told \in Nat /\ heard \in Nat
      /\ n["data"] \in Nat /\ n["stderr"] \in Nat
      /\ rpc \in [Streams -> {"idle", "credit", "tell"}] /\ n \in [Streams -> Nat]
  BY DEF Readable, Streams, TypeOK
<1>3. Uncredited' = Uncredited /\ Untold' = Untold - n[s]
  <2>1. CASE s = "data"
    BY <1>1, <1>2, <2>1 DEF Uncredited, Untold, Streams
  <2>2. CASE s = "stderr"
    BY <1>1, <1>2, <2>2 DEF Uncredited, Untold, Streams
  <2> QED
    BY <2>1, <2>2 DEF Readable
<1>4. /\ back' \in Seq(Answered) /\ BackJoins' /\ told' \in Nat /\ told' <= told + n[s]
      /\ \A i \in 1..Len(back') : back'[i].t = "close" => i = Len(back') /\ "r" \in sentClose'
      /\ "r" \in sentClose => back' = back
  <2>1. CASE Sends("r")
    <3> DEFINE p == Adjust(n[s])
    <3>1. back' = Append(back, p) /\ told' = told + n[s] /\ "r" \notin sentClose
      BY <2>1 DEF Tell, Sends
    <3>2. p \in Answered /\ p.t = "adjust" /\ p.at = told /\ Then(p) = told + n[s]
      BY <1>2 DEF Adjust, Answered, Then
    <3> HIDE DEF p
    <3>3. /\ Len(back') = Len(back) + 1 /\ Len(back) \in Nat /\ back' \in Seq(Answered)
          /\ \A i \in 1..Len(back) : back'[i] = back[i]
          /\ back'[Len(back) + 1] = p
      BY <3>1, <3>2, LastAdded DEF TypeOK
    <3>4. told' \in Nat /\ back \in Seq(Answered) /\ heard' = heard
      <4>1. told' \in Nat
        BY <1>2, <3>1
      <4> QED
        BY <1>1, <4>1 DEF TypeOK
    <3>5. BackJoins'
      BY <1>2, <3>1, <3>2, <3>4, BackSend
    <3>6. \A i \in 1..Len(back') : back'[i].t # "close"
      BY <3>1, <3>2, <3>3 DEF Last
    <3> QED
      BY <1>2, <3>1, <3>3, <3>4, <3>5, <3>6
  <2>2. CASE ~Sends("r")
    <3>1. back' = back /\ told' = told /\ back \in Seq(Answered)
      BY <2>2 DEF Tell, TypeOK
    <3>2. BackJoins'
      BY <1>1, <3>1 DEF BackJoins
    <3> QED
      BY <1>1, <1>2, <3>1, <3>2 DEF Last
  <2> QED
    BY <2>1, <2>2
<1>5. TypeOK'
  BY <1>1, <1>2, <1>4 DEF TypeOK
<1>6. Ledger'
  <2>1. /\ win' = win /\ Total(space') = Total(space) /\ Total(put') = Total(put)
        /\ heard' = heard /\ myWindow' = myWindow /\ Total(rcvd') = Total(rcvd)
        /\ Total(read') = Total(read) /\ read' = read /\ rcvd' = rcvd
    BY <1>1
  <2>2. told' + Untold' <= myWindow' + Total(rcvd') - Window
    <3>1. told + Untold <= myWindow + Total(rcvd) - Window
      BY DEF Ledger
    <3>2. told' \in Nat /\ told' + Untold' <= told + Untold
      <4>1. told' \in Nat /\ told' <= told + n[s]
        BY <1>4
      <4>2. Untold \in Nat /\ told \in Nat /\ n[s] \in Nat /\ Untold' = Untold - n[s]
        BY <1>2, <1>3, Sums
      <4> QED
        BY <4>1, <4>2
    <3>3. Untold' \in Int
      BY <1>2, <1>3, Sums
    <3>4. myWindow' + Total(rcvd') - Window = myWindow + Total(rcvd) - Window
      BY <2>1
    <3> QED
      BY <3>1, <3>2, <3>3, <3>4, Sums
  <2> QED
    BY <1>3, <2>1, <2>2 DEF Ledger
<1>7. Accepted' /\ Holding' /\ Sized' /\ WireJoins' /\ Ended'
  BY <1>1 DEF Accepted, Holding, Sized, WireJoins, Ended
<1>8. Last'
  BY <1>1, <1>4 DEF Last
<1>9. Forgotten'
  BY <1>1, <1>4 DEF Forgotten
<1> QED
  BY <1>4, <1>5, <1>6, <1>7, <1>8, <1>9

\* Every step preserves the invariant.
LEMMA NextInvariant == IInv /\ [Next]_vars => IInv'
<1> SUFFICES ASSUME IInv, [Next]_vars PROVE IInv'
  OBVIOUS
<1>1. ASSUME NEW s \in Streams, Write(s) \/ Reserve(s) \/ Send(s) \/ SendFails(s) PROVE IInv'
  BY <1>1, WritePreserves, ReservePreserves, SendPreserves, SendFailsPreserves
<1>2. ASSUME NEW s \in Readable, Read(s) \/ Credit(s) \/ Tell(s) PROVE IInv'
  BY <1>2, ReadPreserves, CreditPreserves, TellPreserves
<1>3. ASSUME NEW e \in Ends, HandleClose(e) \/ Close(e) \/ ConnLost(e) PROVE IInv'
  BY <1>3, HandleClosePreserves, ClosePreserves, ConnLostPreserves
<1>4. HandleData \/ HandleEOF \/ HandleAdjust \/ CloseWrite => IInv'
  BY HandleDataPreserves, HandleEOFPreserves, HandleAdjustPreserves, CloseWritePreserves
<1>5. CASE UNCHANGED vars
  <2>1. UNCHANGED <<wpc, todo, space, put, win, winClosed, sentEOF, raced, myWindow, rcvd, read,
                   bufEOF, rpc, n, wire, back, told, heard, sentClose, known, up, broken>>
    BY <1>5 DEF vars, writing, reading, paths, ending
  <2>2. TypeOK' /\ Accepted' /\ WireJoins' /\ BackJoins'
    BY <2>1 DEF IInv, TypeOK, Accepted, WireJoins, BackJoins
  <2>3. Last' /\ Forgotten' /\ Holding' /\ Sized'
    BY <2>1 DEF IInv, Last, Forgotten, Holding, Sized
  <2>4. Ledger' /\ Ended'
    BY <2>1 DEF IInv, Ledger, Untold, Uncredited, Ended
  <2> QED
    BY <2>2, <2>3, <2>4 DEF IInv
<1> QED
  BY <1>1, <1>2, <1>3, <1>4, <1>5 DEF Next, Writers, Readers, Muxes

\* The invariant holds, for every window, packet size and supply.
THEOREM Invariance == Spec => []IInv
BY InitInvariant, NextInvariant, PTL DEF Spec

\* The channel's variables keep their types.
THEOREM TypeCorrect == Spec => []TypeOK
<1>1. IInv => TypeOK
  BY DEF IInv
<1> QED
  BY <1>1, Invariance, PTL

\* Neither mux ever finds a packet of a peer like itself that it does not
\* accept (handleData, window.add, chanList.getChan).
THEOREM NothingRefused == Spec => []Accepted
<1>1. IInv => Accepted
  BY DEF IInv
<1> QED
  BY <1>1, Invariance, PTL

\* The window never grows beyond what the channel was opened with, and the
\* writer never holds more of it than the reader stands for.
THEOREM WindowsAlwaysAgree == Spec => []WindowsAgree
<1>1. IInv => WindowsAgree
  <2> SUFFICES ASSUME IInv PROVE WindowsAgree
    OBVIOUS
  <2> USE DEF IInv
  <2>1. Total(read) <= Total(rcvd)
    BY TotalOrder DEF Ledger, TypeOK
  <2>2. heard <= told
    BY DEF BackJoins
  <2>3. /\ win + Total(space) + Total(put) <= Window + heard
        /\ told + Untold <= myWindow + Total(rcvd) - Window
        /\ myWindow + Total(rcvd) - Window + Uncredited <= Total(read)
    BY DEF Ledger
  <2> QED
    BY <2>1, <2>2, <2>3, Sums DEF WindowsAgree
<1> QED
  BY <1>1, Invariance, PTL

\* io.EOF is read after everything that was sent.
THEOREM EOFAlwaysMeansAll == Spec => []EOFMeansAll
<1>1. IInv => EOFMeansAll
  <2> SUFFICES ASSUME IInv, NEW s \in Readable, AtEOF(s), "r" \in up, ~raced
               PROVE  read[s] = put[s]
    BY DEF EOFMeansAll
  <2> USE DEF IInv
  <2>1. rcvd = put /\ rcvd[s] - read[s] = 0
    BY DEF AtEOF, Buffered, Ended
  <2>2. rcvd[s] \in Nat /\ read[s] \in Nat
    BY DEF TypeOK, Readable, Streams
  <2> QED
    BY <2>1, <2>2
<1> QED
  BY <1>1, Invariance, PTL

\* A channel is an ordered, lossless stream that holds at most a window: every
\* step of it is a step of ByteStream, or none.
THEOREM Implements == Spec => Streaming
<1>1. Init => Stream!Init
  BY DEF Init, Stream!Init, Zero, Stream!Streams, Streams
<1>2. IInv /\ IInv' /\ [Next]_vars => [Stream!Next]_Stream!vars
  <2> SUFFICES ASSUME IInv, IInv', [Next]_vars PROVE [Stream!Next]_Stream!vars
    OBVIOUS
  <2>1. Total(read) <= Total(rcvd) /\ heard <= told
    BY TotalOrder DEF IInv, Ledger, TypeOK, BackJoins
  <2>2. /\ win + Total(space) + Total(put) <= Window + heard
        /\ told + Untold <= myWindow + Total(rcvd) - Window
        /\ myWindow + Total(rcvd) - Window + Uncredited <= Total(read)
    BY DEF IInv, Ledger
  <2>3. Total(put) + Total(space) - Total(read) <= Window
    BY <2>1, <2>2, Sums DEF IInv
  <2>4. Stream!Total(put) = Total(put) /\ Stream!Total(read) = Total(read)
    BY DEF Stream!Total, Total
  <2>5. Stream!Streams = Streams
    BY DEF Stream!Streams, Streams
  <2>6. ASSUME NEW s \in Streams, Send(s) PROVE Stream!Next
    <3>1. /\ put' = [put EXCEPT ![s] = @ + space[s]] /\ read' = read
          /\ wpc[s] = "send"
      BY <2>6 DEF Send, reading
    <3>2. /\ space[s] \in Nat /\ space[s] >= 1 /\ space[s] <= Total(space)
      BY <3>1, TotalNat DEF IInv, Holding, TypeOK
    <3>3. Total(rcvd) <= Total(put)
      BY TotalOrder DEF IInv, WireJoins, TypeOK
    <3>4. Total(put) - Total(read) + space[s] <= Window /\ space[s] \in 1..Window
      BY <2>1, <2>3, <3>2, <3>3, Sums DEF IInv
    <3>5. Stream!Put(s, space[s])
      BY <2>4, <3>1, <3>4 DEF Stream!Put
    <3> QED
      BY <2>5, <3>4, <3>5 DEF Stream!Next
  <2>7. ASSUME NEW s \in Readable, Read(s) PROVE Stream!Next
    <3>1. PICK k \in 1..Buffered(s) : read' = [read EXCEPT ![s] = @ + k]
      BY <2>7 DEF Read
    <3>2. put' = put
      BY <2>7 DEF Read, writing
    <3>3. /\ s \in Streams /\ read[s] \in Nat /\ rcvd[s] \in Nat /\ put[s] \in Nat
          /\ rcvd[s] <= put[s]
      BY DEF Readable, Streams, IInv, TypeOK, WireJoins
    <3>4. k \in Nat /\ k >= 1 /\ read[s] + k <= put[s]
      BY <3>1, <3>3 DEF Buffered
    <3>5. put[s] - read[s] <= Total(put) - Total(read)
      <4>1. \A x \in Streams : read[x] \in Nat /\ rcvd[x] \in Nat /\ put[x] \in Nat
                                /\ read[x] <= rcvd[x] /\ rcvd[x] <= put[x]
        BY DEF IInv, TypeOK, WireJoins, Ledger
      <4>2. \A x \in Streams : read[x] <= put[x]
        BY <4>1
      <4> QED
        BY <3>3, <4>2, TotalOrder DEF IInv, TypeOK
    <3>6. k \in 1..Window
      BY <2>3, <3>3, <3>4, <3>5, Sums DEF IInv
    <3>7. Stream!Get(s, k)
      BY <3>1, <3>2, <3>4 DEF Stream!Get
    <3> QED
      BY <2>5, <3>3, <3>6, <3>7 DEF Stream!Next
  <2>8. ASSUME NEW s \in Streams, Write(s) \/ Reserve(s) \/ SendFails(s) PROVE UNCHANGED Stream!vars
    BY <2>8 DEF Write, Reserve, SendFails, reading, Stream!vars
  <2>9. ASSUME NEW s \in Readable, Credit(s) \/ Tell(s) PROVE UNCHANGED Stream!vars
    BY <2>9 DEF Credit, Tell, writing, Stream!vars
  <2>10. ASSUME NEW e \in Ends, HandleClose(e) \/ Close(e) \/ ConnLost(e) PROVE UNCHANGED Stream!vars
    BY <2>10 DEF HandleClose, Close, ConnLost, writing, reading, Stream!vars
  <2>11. HandleData \/ HandleEOF \/ HandleAdjust \/ CloseWrite \/ UNCHANGED vars => UNCHANGED Stream!vars
    BY DEF HandleData, HandleEOF, HandleAdjust, CloseWrite, vars, writing, reading, Stream!vars
  <2> QED
    BY <2>6, <2>7, <2>8, <2>9, <2>10, <2>11 DEF Next, Writers, Readers, Muxes
<1> QED
  BY <1>1, <1>2, Invariance, PTL DEF Spec, Streaming, Stream!Spec

=============================================================================
