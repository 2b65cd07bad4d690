---------------------------- MODULE PartsProofs -----------------------------
(***************************************************************************)
(* Proofs about the parts that have nothing to do with one another.        *)
(*                                                                         *)
(* Dispatcher: for any number of channels.  A channel is undecided until   *)
(* it is refused or accepted, and decided while it is handled.             *)
(*                                                                         *)
(* Negotiation: what an end has found depends on the two messages only,    *)
(* and on nothing that differs between the ends (Found).                   *)
(*                                                                         *)
(* Certs: whatever a verdict rests on stays while it stands (CertInv); the *)
(* tests of converted times are those of the times (TimesRight).           *)
(*                                                                         *)
(* Packets: each frame begins where the one before has ended, from where   *)
(* the reader is to where the writer is (Joined); the ciphers that are     *)
(* about have different numbers, at most one change of keys apart, so that *)
(* the reader takes the one the writer has taken (Counts).  The lengths of *)
(* a frame are those of its payload, whatever the cipher (Legal).          *)
(*                                                                         *)
(* Terminal: what the ring of the history holds, and where (Holds).        *)
(***************************************************************************)
EXTENDS Parts, WellFoundedInduction, SequenceTheorems, FiniteSetTheorems, TLAPS

\* The table of checks, spelled out.
LEMMA ChecksTable ==
  /\ DOMAIN Checks = 1..6
  /\ Reasons = {"InvalidChannelType", "SchemeNotSupported", "UserNotSupported",
                "HostNotSupported", "InvalidQueryParams", "UnknownChannelType"}
  /\ \A i \in 1..6 : Checks[i].reason \in Reasons /\ Checks[i].defect \in Defects
<1>1. DOMAIN Checks = 1..6
  BY DEF Checks
<1>2. /\ Checks[1].reason = "InvalidChannelType" /\ Checks[2].reason = "SchemeNotSupported"
      /\ Checks[3].reason = "UserNotSupported" /\ Checks[4].reason = "HostNotSupported"
      /\ Checks[5].reason = "InvalidQueryParams" /\ Checks[6].reason = "UnknownChannelType"
  BY DEF Checks
<1>3. \A i \in 1..6 : Checks[i].reason \in Reasons /\ Checks[i].defect \in Defects
  BY <1>1 DEF Reasons, Defects
<1>4. Reasons = {Checks[i].reason : i \in 1..6}
  BY <1>1 DEF Reasons
<1> QED
  BY <1>1, <1>2, <1>3, <1>4

\* The dispatcher has not begun with any channel.
LEMMA InitInvariant == Init => IInv
<1>1. "nothing" \notin Reasons
  BY ChecksTable
<1> QED
  BY <1>1 DEF Init, IInv, TypeOK, Truthful, Answers

\* What Accept and Reject do to a channel that is not decided, and to one that is.
LEMMA DecideOne ==
  ASSUME TypeOK, NEW ch \in Chans, NEW answer \in Answers, Decide(ch, answer)
  PROVE  /\ decided' = decided \cup {ch}
         /\ \A x \in Chans : x # ch => told'[x] = told[x]
         /\ told' \in [Chans -> Answers]
         /\ ch \in decided => told' = told /\ late' = late \cup {ch}
         /\ ch \notin decided => late' = late /\ told'[ch] \in {answer, told[ch]}
         /\ ch \notin decided /\ Writable(ch) => told'[ch] = answer
<1>1. CASE ch \in decided
  BY <1>1 DEF Decide, TypeOK
<1>2. CASE ch \notin decided
  BY <1>2 DEF Decide, TypeOK
<1> QED
  BY <1>1, <1>2

\* Every step of a Dispatch, of the mux and of the client preserves it.
LEMMA NextInvariant == IInv /\ [Next]_vars => IInv'
<1> SUFFICES ASSUME IInv, [Next]_vars PROVE IInv'
  OBVIOUS
<1> USE DEF IInv, TypeOK, Truthful, given, chanVars
<1>1. "nothing" \notin Reasons /\ "confirm" \notin Reasons /\ Reasons \subseteq Answers
  BY ChecksTable DEF Answers
<1>2. ASSUME NEW ch \in Chans, Refuse(ch) PROVE IInv'
  <2>1. PICK i \in 1..6 : Checks[i].defect \in defects[ch] /\ Decide(ch, Checks[i].reason)
    BY <1>2, ChecksTable DEF Refuse
  <2> DEFINE answer == Checks[i].reason
  <2>2. answer \in Reasons /\ answer \in Answers
    BY <1>1, ChecksTable
  <2>3. ch \notin decided /\ pc[ch] = "start" /\ pc' = [pc EXCEPT ![ch] = "returning"]
    BY <1>2 DEF Refuse
  <2>4. /\ decided' = decided \cup {ch} /\ late' = late
        /\ told' \in [Chans -> Answers]
        /\ \A x \in Chans : x # ch => told'[x] = told[x]
        /\ told'[ch] \in {answer, "nothing"}
    BY <2>1, <2>2, <2>3, DecideOne
  <2>5. UNCHANGED <<given, closed, open, crashed>>
    BY <1>2 DEF Refuse
  <2>6. told'[ch] \in Reasons => \E k \in DOMAIN Checks :
          Checks[k].reason = told'[ch] /\ Checks[k].defect \in defects[ch]
    BY <2>1, <2>4, <1>1, ChecksTable
  <2>7. TypeOK'
    BY <2>3, <2>4, <2>5
  <2>8. Truthful'
    BY <1>1, <2>2, <2>3, <2>4, <2>5, <2>6
  <2> QED
    BY <2>3, <2>4, <2>5, <2>7, <2>8
<1>3. ASSUME NEW ch \in Chans, Ignore(ch) PROVE IInv'
  BY <1>3 DEF Ignore
<1>4. ASSUME NEW ch \in Chans, Pass(ch) PROVE IInv'
  BY <1>4 DEF Pass
<1>5. ASSUME NEW ch \in Chans, Accept(ch) PROVE IInv'
  <2>1. /\ pc[ch] = "accept" /\ Writable(ch) /\ Decide(ch, "confirm")
        /\ pc' = [pc EXCEPT ![ch] = "handling"]
        /\ UNCHANGED <<given, closed, open, crashed>>
    BY <1>5 DEF Accept
  <2>2. /\ decided' = decided \cup {ch} /\ late' = late
        /\ told' \in [Chans -> Answers]
        /\ \A x \in Chans : x # ch => told'[x] = told[x]
        /\ told'[ch] = "confirm"
    BY <2>1, DecideOne DEF Answers
  <2> QED
    BY <1>1, <2>1, <2>2
<1>6. ASSUME NEW ch \in Chans, AcceptFails(ch) PROVE IInv'
  BY <1>1, <1>6 DEF AcceptFails
<1>7. ASSUME NEW ch \in Chans, HandlerReturns(ch) PROVE IInv'
  BY <1>7 DEF HandlerReturns
<1>8. ASSUME NEW ch \in Chans, HandlerFails(ch) PROVE IInv'
  <2>1. /\ decided' = decided /\ told' = told /\ late' = late \cup {ch}
        /\ told[ch] = "confirm"
    BY <1>8 DEF HandlerFails, Decide
  <2> QED
    BY <1>8, <2>1 DEF HandlerFails
<1>9. ASSUME NEW ch \in Chans, HandlerPanics(ch) PROVE IInv'
  BY <1>9 DEF HandlerPanics
<1>10. ASSUME NEW ch \in Chans, Return(ch) PROVE IInv'
  BY <1>10 DEF Return
<1>11. ASSUME NEW ch \in Chans, ClientClosesChannel(ch) PROVE IInv'
  BY <1>11 DEF ClientClosesChannel
<1>12. CASE ConnectionEnds
  BY <1>12 DEF ConnectionEnds
<1>13. CASE UNCHANGED vars
  BY <1>13 DEF vars
<1> QED
  BY <1>2, <1>3, <1>4, <1>5, <1>6, <1>7, <1>8, <1>9, <1>10, <1>11, <1>12, <1>13
     DEF Next, Dispatch

\* The inductive invariant holds in every reachable state.
THEOREM Invariance == Spec => []IInv
BY InitInvariant, NextInvariant, PTL DEF Spec

\* Typing; a late Reject only ever hits a channel that was decided.
THEOREM TypeCorrect == Spec => []TypeOK
BY Invariance, PTL DEF IInv

\* Clients are told the truth, and handlers run on channels whose type passed
\* every check and whose client was told so.
THEOREM AnswersTrue == Spec => []Truthful
BY Invariance, PTL DEF IInv

\* UrlDispatcher decides every channel before it returns from it.
THEOREM AllDecided == Spec => []EveryChannelDecided
<1> DEFINE Decided ==
      kind = "url" =>
        \A ch \in Chans : pc[ch] \in {"returning", "unwinding", "over"} => ch \in decided
<1>1. Init => Decided
  BY DEF Init
<1>2. IInv /\ Decided /\ [Next]_vars => Decided'
  <2> SUFFICES ASSUME IInv, Decided, [Next]_vars PROVE Decided'
    OBVIOUS
  <2> USE DEF IInv, TypeOK, given, chanVars
  <2>1. ASSUME NEW ch \in Chans, Refuse(ch) PROVE Decided'
    BY <2>1 DEF Refuse, Decide
  <2>2. ASSUME NEW ch \in Chans, Ignore(ch) PROVE Decided'
    BY <2>2 DEF Ignore
  <2>3. ASSUME NEW ch \in Chans,
               Pass(ch) \/ AcceptFails(ch) \/ HandlerReturns(ch) \/ HandlerPanics(ch)
                 \/ Return(ch) \/ ClientClosesChannel(ch)
        PROVE  Decided'
    BY <2>3 DEF Pass, AcceptFails, HandlerReturns, HandlerPanics, Return,
       ClientClosesChannel
  <2>4. ASSUME NEW ch \in Chans, Accept(ch) \/ HandlerFails(ch) PROVE Decided'
    BY <2>4 DEF Accept, HandlerFails, Decide
  <2>5. CASE ConnectionEnds \/ UNCHANGED vars
    BY <2>5 DEF ConnectionEnds, vars
  <2> QED
    BY <2>1, <2>2, <2>3, <2>4, <2>5 DEF Next, Dispatch
<1>3. Decided => EveryChannelDecided
  BY DEF EveryChannelDecided
<1> QED
  BY <1>1, <1>2, <1>3, Invariance, PTL DEF Spec

\* With a PanicHandler, no panic of a handler called by UrlDispatcher ends the
\* process.
THEOREM PanicsContained == Spec => []PanicContained
<1> DEFINE Calm ==
      kind = "url" /\ recovers => ~crashed /\ \A ch \in Chans : pc[ch] # "unwinding"
<1>1. Init => Calm
  BY DEF Init
<1>2. IInv /\ Calm /\ [Next]_vars => Calm'
  <2> SUFFICES ASSUME IInv, Calm, [Next]_vars PROVE Calm'
    OBVIOUS
  <2> USE DEF IInv, TypeOK, given, chanVars
  <2>1. ASSUME NEW ch \in Chans, Dispatch(ch) PROVE Calm'
    BY <2>1 DEF Dispatch, Refuse, Ignore, Pass, Accept, AcceptFails, HandlerReturns,
       HandlerFails, HandlerPanics, Return
  <2>2. ASSUME NEW ch \in Chans, ClientClosesChannel(ch) PROVE Calm'
    BY <2>2 DEF ClientClosesChannel
  <2>3. CASE ConnectionEnds \/ UNCHANGED vars
    BY <2>3 DEF ConnectionEnds, vars
  <2> QED
    BY <2>1, <2>2, <2>3 DEF Next
<1>3. Calm => PanicContained
  BY DEF PanicContained
<1> QED
  BY <1>1, <1>2, <1>3, Invariance, PTL DEF Spec

-----------------------------------------------------------------------------
\* Either dispatcher implements DispatchLife on every channel.
THEOREM LifeRefinement == Spec => Lives
<1>1. Init => \A ch \in Chans : Life(ch)!Init
  BY DEF Init, Life!Init
<1>2. IInv /\ [Next]_vars => [\A ch \in Chans : [Life(ch)!Next]_(Life(ch)!vars)]_vars
  <2> SUFFICES ASSUME IInv, [Next]_vars, NEW ch \in Chans
               PROVE  [Life(ch)!Next]_(Life(ch)!vars)
    OBVIOUS
  <2> USE DEF IInv, TypeOK, given, chanVars, Life!Next, Life!vars
  <2>1. ASSUME NEW x \in Chans, Dispatch(x), x # ch
        PROVE  [Life(ch)!Next]_(Life(ch)!vars)
    <3>1. pc'[ch] = pc[ch] /\ (open' => open)
      BY <2>1 DEF Dispatch, Refuse, Ignore, Pass, Accept, AcceptFails, HandlerReturns,
         HandlerFails, HandlerPanics, Return
    <3> QED
      BY <3>1 DEF Life!Elsewhere
  <2>2. CASE Refuse(ch) \/ Ignore(ch) \/ AcceptFails(ch)
    BY <2>2 DEF Refuse, Ignore, AcceptFails, Life!Refuse
  <2>3. CASE Pass(ch)
    BY <2>3 DEF Pass
  <2>4. CASE Accept(ch)
    BY <2>4 DEF Accept, Writable, Life!Accept
  <2>5. CASE HandlerReturns(ch) \/ HandlerFails(ch) \/ HandlerPanics(ch)
    BY <2>5 DEF HandlerReturns, HandlerFails, HandlerPanics, Life!Return
  <2>6. CASE Return(ch)
    BY <2>6 DEF Return, Life!Close
  <2>7. ASSUME NEW x \in Chans, ClientClosesChannel(x)
        PROVE  [Life(ch)!Next]_(Life(ch)!vars)
    BY <2>7 DEF ClientClosesChannel
  <2>8. CASE ConnectionEnds
    BY <2>8 DEF ConnectionEnds, Life!Elsewhere
  <2>9. CASE UNCHANGED vars
    BY <2>9 DEF vars
  <2> QED
    BY <2>1, <2>2, <2>3, <2>4, <2>5, <2>6, <2>7, <2>8, <2>9 DEF Next, Dispatch
<1> QED
  BY <1>1, <1>2, Invariance, PTL DEF Spec, Lives


-----------------------------------------------------------------------------
(* Negotiation: the choice depends on the two messages only.               *)

LEMMA LeastIndex ==
  ASSUME NEW I \in SUBSET Nat, I # {}
  PROVE  \E n \in I : \A m \in I : n <= m
<1>1. IsWellFoundedOn(OpToRel(<, Nat), Nat)
  BY NatLessThanWellFounded
<1>2. PICK n \in I : \A m \in I : <<m, n>> \notin OpToRel(<, Nat)
  BY <1>1, WFMin
<1>3. \A m \in I : ~(m < n)
  BY <1>2 DEF OpToRel
<1> QED
  BY <1>3

\* findCommonAlgorithm finds the first of a list that fits, if any does.
LEMMA FirstFound ==
  ASSUME NEW n \in Nat, NEW T, NEW list \in [1..n -> T], None \notin T, NEW S
  PROVE  /\ Negotiating!FirstIn(list, S) # None =>
              \E i \in 1..n : /\ list[i] \in S /\ Negotiating!FirstIn(list, S) = list[i]
                              /\ \A j \in 1..i - 1 : list[j] \notin S
         /\ Negotiating!FirstIn(list, S) = None => \A i \in 1..n : list[i] \notin S
<1> DEFINE fit == {i \in DOMAIN list : list[i] \in S}
           least == CHOOSE i \in fit : \A j \in fit : i <= j
<1>1. Negotiating!FirstIn(list, S) = IF fit = {} THEN None ELSE list[least]
  BY DEF Negotiating!FirstIn
<1>2. /\ fit \in SUBSET Nat /\ \A i \in fit : i \in 1..n /\ list[i] \in S /\ list[i] # None
      /\ \A i \in 1..n : list[i] \in S => i \in fit
  OBVIOUS
<1>3. fit # {} => least \in fit /\ \A j \in fit : least <= j
  <2>1. fit # {} => \E i \in fit : \A j \in fit : i <= j
    BY <1>2, LeastIndex
  <2> QED
    BY <2>1
<1> HIDE DEF fit, least
<1>4. CASE fit = {}
  BY <1>1, <1>2, <1>4
<1>5. CASE fit # {}
  <2>1. least \in 1..n /\ list[least] \in S /\ Negotiating!FirstIn(list, S) = list[least]
        /\ list[least] # None
    BY <1>1, <1>2, <1>3, <1>5
  <2>2. \A j \in 1..least - 1 : list[j] \notin S
    <3>1. ASSUME NEW j \in 1..least - 1, list[j] \in S PROVE FALSE
      <4>1. j \in 1..n /\ j < least
        BY <2>1
      <4>2. j \in fit /\ least <= j
        BY <1>2, <1>3, <1>5, <3>1, <4>1
      <4> QED
        BY <2>1, <4>1, <4>2
    <3> QED
      BY <3>1
  <2> QED
    BY <2>1, <2>2
<1> QED
  BY <1>4, <1>5

\* What each end has sent, and what it has found in the messages of both.
Offered(q, S) == \E n \in Nat : q \in [1..n -> S]

Sent(e) ==
  /\ Offered(init[e].kex, Kexes) /\ Offered(init[e].host, HostKeys)
  /\ Offered(init[e].toServer, Ciphers) /\ Offered(init[e].toClient, Ciphers)
  /\ e # foreign => /\ init[e].toServer = init[e].toClient
                    /\ Offered(init[e].toServer, Modes)

Found(e) ==
  /\ algs[e] # None => algs[e] = Negotiating!Agreed(e) /\ Negotiating!Complete(algs[e])
  /\ failed[e] => ~Negotiating!Complete(Negotiating!Agreed(e)) /\ algs[e] = None

ChoiceInv ==
  /\ DOMAIN algs = {"client", "server"} /\ DOMAIN failed = {"client", "server"}
  /\ foreign \in {"client", "server", None}
  /\ \A e \in {"client", "server"} : Sent(e) /\ Found(e)

LEMMA OffersOffered ==
  ASSUME Negotiating!NegotiationAssumption, NEW S, NEW q \in Negotiating!Offers(S)
  PROVE  Offered(q, S)
<1>1. PICK n \in 1..Longest : q \in [1..n -> S]
  BY DEF Negotiating!Offers
<1> QED
  BY <1>1 DEF Offered, Negotiating!NegotiationAssumption

LEMMA ChoiceInit ==
  ASSUME Negotiating!NegotiationAssumption, Negotiating!Init
  PROVE  ChoiceInv
<1>0. \A q : Offered(q, Modes) => Offered(q, Ciphers)
  <2>1. ASSUME NEW q, NEW n \in Nat, q \in [1..n -> Modes] PROVE q \in [1..n -> Ciphers]
    BY <2>1 DEF Negotiating!NegotiationAssumption
  <2> QED
    BY <2>1 DEF Offered
<1>1. \A q \in Negotiating!OwnCiphers : Offered(q, Modes) /\ Offered(q, Ciphers)
  <2>1. Offered(<<>>, Modes)
    <3>1. <<>> \in [1..0 -> Modes]
      OBVIOUS
    <3> QED
      BY <3>1 DEF Offered
  <2> QED
    BY <1>0, <2>1, OffersOffered DEF Negotiating!OwnCiphers
<1>2. ASSUME NEW m \in Negotiating!OwnInits
      PROVE  /\ Offered(m.kex, Kexes) /\ Offered(m.host, HostKeys)
             /\ Offered(m.toServer, Ciphers) /\ Offered(m.toServer, Modes)
             /\ m.toServer = m.toClient
  <2>1. PICK k \in Negotiating!Offers(Kexes), h \in Negotiating!Offers(HostKeys),
             c \in Negotiating!OwnCiphers :
          m = [kex |-> k, host |-> h, toServer |-> c, toClient |-> c]
    BY DEF Negotiating!OwnInits
  <2> QED
    BY <1>1, <2>1, OffersOffered
<1>3. ASSUME NEW m \in Negotiating!ForeignInits
      PROVE  /\ Offered(m.kex, Kexes) /\ Offered(m.host, HostKeys)
             /\ Offered(m.toServer, Ciphers) /\ Offered(m.toClient, Ciphers)
  BY OffersOffered DEF Negotiating!ForeignInits
<1>4. PICK c \in IF foreign = "client" THEN Negotiating!ForeignInits ELSE Negotiating!OwnInits,
           s \in IF foreign = "server" THEN Negotiating!ForeignInits ELSE Negotiating!OwnInits :
        init = [client |-> c, server |-> s]
  BY DEF Negotiating!Init
<1>5. init["client"] = c /\ init["server"] = s
  BY <1>4
<1>6. \A e \in {"client", "server"} : Sent(e)
  BY <1>2, <1>3, <1>4, <1>5 DEF Sent
<1> QED
  BY <1>6 DEF Negotiating!Init, Negotiating!Ends, ChoiceInv, Found

LEMMA SameAgreed ==
  ASSUME UNCHANGED <<foreign, init>>, NEW e
  PROVE  Negotiating!Agreed(e)' = Negotiating!Agreed(e)
BY DEF Negotiating!Agreed, Negotiating!Sides, Negotiating!CommonCipher, Negotiating!Usable

LEMMA ChoiceNext ==
  ASSUME ChoiceInv, [Negotiating!Next]_(Negotiating!vars)
  PROVE  ChoiceInv'
<1>1. ASSUME NEW e \in {"client", "server"}, Negotiating!Exchange(e) PROVE ChoiceInv'
  <2>1. foreign' = foreign /\ init' = init /\ algs[e] = None /\ ~failed[e]
    BY <1>1 DEF Negotiating!Exchange
  <2>2. \A x \in {"client", "server"} : Sent(x)' /\ Negotiating!Agreed(x)' = Negotiating!Agreed(x)
    BY <2>1, SameAgreed DEF ChoiceInv, Sent, Offered
  <2>3. CASE Negotiating!Complete(Negotiating!Agreed(e))
    <3>1. algs' = [algs EXCEPT ![e] = Negotiating!Agreed(e)] /\ failed' = failed
      BY <1>1, <2>3 DEF Negotiating!Exchange
    <3>2. \A x \in {"client", "server"} : Found(x)'
      BY <2>1, <2>2, <2>3, <3>1 DEF ChoiceInv, Found, Negotiating!Complete
    <3> QED
      BY <2>1, <2>2, <3>1, <3>2 DEF ChoiceInv
  <2>4. CASE ~Negotiating!Complete(Negotiating!Agreed(e))
    <3>1. failed' = [failed EXCEPT ![e] = TRUE] /\ algs' = algs
      BY <1>1, <2>4 DEF Negotiating!Exchange
    <3>2. \A x \in {"client", "server"} : Found(x)'
      BY <2>1, <2>2, <2>4, <3>1 DEF ChoiceInv, Found, Negotiating!Complete
    <3> QED
      BY <2>1, <2>2, <3>1, <3>2 DEF ChoiceInv
  <2> QED
    BY <2>3, <2>4
<1>2. CASE UNCHANGED Negotiating!vars
  <2>1. UNCHANGED <<foreign, init, algs, failed>>
    BY <1>2 DEF Negotiating!vars
  <2> QED
    BY <2>1, SameAgreed DEF ChoiceInv, Sent, Found, Offered, Negotiating!Complete
<1> QED
  BY <1>1, <1>2 DEF Negotiating!Next, Negotiating!Ends

C == init["client"]
S == init["server"]

\* Two sets with the same positions in a list have the same first.
LEMMA SameFit ==
  ASSUME NEW q, NEW A, NEW B,
         {i \in DOMAIN q : q[i] \in B} = {i \in DOMAIN q : q[i] \in A}
  PROVE  Negotiating!FirstIn(q, B) = Negotiating!FirstIn(q, A)
<1> DEFINE First(fit) == IF fit = {} THEN None
                           ELSE q[CHOOSE i \in fit : \A j \in fit : i <= j]
<1>1. Negotiating!FirstIn(q, B) = First({i \in DOMAIN q : q[i] \in B})
  BY DEF Negotiating!FirstIn
<1>2. Negotiating!FirstIn(q, A) = First({i \in DOMAIN q : q[i] \in A})
  BY DEF Negotiating!FirstIn
<1> HIDE DEF First
<1>3. First({i \in DOMAIN q : q[i] \in B}) = First({i \in DOMAIN q : q[i] \in A})
  OBVIOUS
<1> QED
  BY <1>1, <1>2, <1>3

\* Which cipher is usable makes no difference: a list with others is never of an end that
\* has a use for fewer.
LEMMA UsableAlike ==
  ASSUME Negotiating!NegotiationAssumption, ChoiceInv, NEW e \in {"client", "server"},
         NEW f \in {"toServer", "toClient"}
  PROVE  Negotiating!CommonCipher(e, C[f], S[f]) = Negotiating!Common(C[f], S[f])
<1>1. /\ Sent("client") /\ Sent("server") /\ foreign \in {"client", "server", None}
      /\ None \notin {"client", "server"} /\ Modes \subseteq Ciphers
  BY DEF ChoiceInv, Negotiating!NegotiationAssumption, Negotiating!Ends
<1>2. Offered(C[f], Ciphers) /\ Offered(S[f], Ciphers)
  BY <1>1 DEF Sent, C, S
<1>3. Offered(C[f], Negotiating!Usable(e)) \/ Offered(S[f], Negotiating!Usable(e))
  <2>1. CASE foreign = e
    BY <1>2, <2>1 DEF Negotiating!Usable
  <2>2. CASE foreign # e
    <3>1. Negotiating!Usable(e) = Modes
      BY <2>2 DEF Negotiating!Usable
    <3>2. \A x \in {"client", "server"} : x # foreign => Offered(init[x][f], Modes)
      BY <1>1 DEF Sent
    <3>3. CASE e = "client"
      BY <2>2, <3>1, <3>2, <3>3 DEF C
    <3>4. CASE e = "server"
      BY <2>2, <3>1, <3>2, <3>4 DEF S
    <3> QED
      BY <3>3, <3>4
  <2> QED
    BY <2>1, <2>2
<1>4. \A i \in DOMAIN C[f] :
        C[f][i] \in Negotiating!ToSet(S[f]) =>
          C[f][i] \in Negotiating!Usable(e)
  <2>1. ASSUME NEW i \in DOMAIN C[f], C[f][i] \in Negotiating!ToSet(S[f])
        PROVE  C[f][i] \in Negotiating!Usable(e)
    <3>1. PICK k \in DOMAIN S[f] : S[f][k] = C[f][i]
      BY <2>1 DEF Negotiating!ToSet
    <3>2. CASE Offered(C[f], Negotiating!Usable(e))
      BY <3>2 DEF Offered
    <3>3. CASE Offered(S[f], Negotiating!Usable(e))
      BY <3>1, <3>3 DEF Offered
    <3> QED
      BY <1>3, <3>2, <3>3
  <2> QED
    BY <2>1
<1>5. {i \in DOMAIN C[f] :
         C[f][i] \in Negotiating!ToSet(S[f]) \cap Negotiating!Usable(e)}
       = {i \in DOMAIN C[f] : C[f][i] \in Negotiating!ToSet(S[f])}
  BY <1>4
<1> QED
  BY <1>5, SameFit DEF Negotiating!Common, Negotiating!CommonCipher

\* Each end finds the same, whichever message it takes for its own.
Choice == [kex  |-> Negotiating!Common(C.kex, S.kex),
           host |-> Negotiating!Common(C.host, S.host),
           w    |-> Negotiating!Common(C.toServer, S.toServer),
           r    |-> Negotiating!Common(C.toClient, S.toClient)]

LEMMA AgreedAlike ==
  ASSUME Negotiating!NegotiationAssumption, ChoiceInv, NEW e \in {"client", "server"}
  PROVE  Negotiating!Agreed(e) = Choice
<1>1. Negotiating!Sides(e).client = C /\ Negotiating!Sides(e).server = S
  BY DEF Negotiating!Sides, Negotiating!Other, C, S
<1>2. /\ Negotiating!CommonCipher(e, C.toServer, S.toServer)
           = Negotiating!Common(C.toServer, S.toServer)
      /\ Negotiating!CommonCipher(e, C.toClient, S.toClient)
           = Negotiating!Common(C.toClient, S.toClient)
  BY UsableAlike
<1> QED
  BY <1>1, <1>2 DEF Negotiating!Agreed, Choice

LEMMA CommonFirst ==
  ASSUME ChoiceInv, NEW f, NEW T, None \notin T, Offered(C[f], T), Offered(S[f], T)
  PROVE  /\ Negotiating!Common(C[f], S[f]) # None =>
              Negotiating!IsFirstCommon(f, Negotiating!Common(C[f], S[f]))
         /\ Negotiating!Common(C[f], S[f]) = None => Negotiating!NothingCommon(f)
<1>1. PICK n \in Nat : C[f] \in [1..n -> T]
  BY DEF Offered
<1>2. PICK m \in Nat : S[f] \in [1..m -> T]
  BY DEF Offered
<1> DEFINE q == C[f]
           A == Negotiating!ToSet(S[f])
           x == Negotiating!FirstIn(q, A)
<1>3. \A y : Negotiating!Contains(S[f], y) <=> y \in A
  BY <1>2 DEF Negotiating!Contains, Negotiating!ToSet
<1>4. q \in [1..n -> T] /\ x = Negotiating!Common(C[f], S[f])
  BY <1>1 DEF Negotiating!Common
<1> HIDE DEF A
<1>5. /\ x # None => \E i \in 1..n : q[i] \in A /\ x = q[i] /\ \A j \in 1..i - 1 : q[j] \notin A
      /\ x = None => \A i \in 1..n : q[i] \notin A
  BY <1>4, FirstFound
<1>6. q = init["client"][f] /\ S[f] = init["server"][f] /\ DOMAIN q = 1..n
  BY <1>1 DEF C, S
<1> HIDE DEF q, x
<1>7. x # None => Negotiating!IsFirstCommon(f, x)
  BY <1>3, <1>5, <1>6 DEF Negotiating!IsFirstCommon
<1>8. x = None => Negotiating!NothingCommon(f)
  BY <1>3, <1>5, <1>6 DEF Negotiating!NothingCommon
<1> QED
  BY <1>4, <1>7, <1>8

\* What both have agreed to is what findAgreedAlgorithms returns: the first that fits.
LEMMA ChoiceSame ==
  ASSUME Negotiating!NegotiationAssumption, ChoiceInv
  PROVE  Negotiating!SameChoice
<1>1. /\ Sent("client") /\ Sent("server") /\ foreign \in {"client", "server", None}
      /\ None \notin Kexes /\ None \notin HostKeys /\ None \notin Ciphers
      /\ None \notin {"client", "server"}
  BY DEF ChoiceInv, Negotiating!NegotiationAssumption, Negotiating!Ends
<1>2. DOMAIN Negotiating!Chosen = {"kex", "host", "toServer", "toClient"}
      /\ Negotiating!Chosen["kex"] = "kex" /\ Negotiating!Chosen["host"] = "host"
      /\ Negotiating!Chosen["toServer"] = "w" /\ Negotiating!Chosen["toClient"] = "r"
  BY DEF Negotiating!Chosen
<1>3. \A f \in DOMAIN Negotiating!Chosen :
        \E T : None \notin T /\ Offered(C[f], T) /\ Offered(S[f], T)
  BY <1>1, <1>2 DEF Sent, C, S
<1>4. \A f \in DOMAIN Negotiating!Chosen :
        Choice[Negotiating!Chosen[f]] = Negotiating!Common(C[f], S[f])
  BY <1>2 DEF Choice
<1>5. \A f \in DOMAIN Negotiating!Chosen :
        /\ Choice[Negotiating!Chosen[f]] # None =>
             Negotiating!IsFirstCommon(f, Choice[Negotiating!Chosen[f]])
        /\ Choice[Negotiating!Chosen[f]] = None => Negotiating!NothingCommon(f)
  BY <1>3, <1>4, CommonFirst
<1>6. Negotiating!Complete(Choice) <=>
        \A f \in DOMAIN Negotiating!Chosen : Choice[Negotiating!Chosen[f]] # None
  BY <1>2 DEF Negotiating!Complete
<1>7. \A e \in {"client", "server"} :
        /\ algs[e] # None => algs[e] = Choice /\ Negotiating!Complete(Choice)
        /\ failed[e] => ~Negotiating!Complete(Choice) /\ algs[e] = None
  BY AgreedAlike DEF ChoiceInv, Found
<1>8. ASSUME NEW e \in {"client", "server"}, algs[e] # None, e # foreign
      PROVE  {algs[e].w, algs[e].r} \subseteq Modes
  <2>1. Negotiating!Agreed(e) = Choice /\ algs[e] = Choice /\ Choice.w # None /\ Choice.r # None
    BY <1>6, <1>7, <1>8, <1>2, AgreedAlike
  <2>2. ASSUME NEW f \in {"toServer", "toClient"}, Negotiating!CommonCipher(e, C[f], S[f]) # None
        PROVE  Negotiating!CommonCipher(e, C[f], S[f]) \in Modes
    <3>1. PICK n \in Nat : C[f] \in [1..n -> Ciphers]
      BY <1>1 DEF Sent, Offered, C
    <3> DEFINE A == Negotiating!ToSet(S[f]) \cap Negotiating!Usable(e)
               q == C[f]
    <3>2. A \subseteq Modes /\ q \in [1..n -> Ciphers]
      BY <1>8, <3>1 DEF Negotiating!Usable
    <3>3. Negotiating!FirstIn(q, A) # None
      BY <2>2 DEF Negotiating!CommonCipher
    <3> HIDE DEF A, q
    <3>4. Negotiating!FirstIn(q, A) \in A
      BY <1>1, <3>2, <3>3, FirstFound
    <3> QED
      BY <3>2, <3>4 DEF A, q, Negotiating!CommonCipher
  <2>3. \A f \in {"toServer", "toClient"} :
          Negotiating!CommonCipher(e, C[f], S[f]) = Negotiating!Common(C[f], S[f])
    BY UsableAlike
  <2>4. Choice.w \in Modes /\ Choice.r \in Modes
    BY <2>1, <2>2, <2>3 DEF Choice
  <2> QED
    BY <2>1, <2>4
<1>9. foreign = None => Choice.w = Choice.r
  BY <1>1 DEF Choice, Sent, C, S
<1>10. ASSUME NEW e \in {"client", "server"}
       PROVE  /\ algs[e] # None => \A f \in DOMAIN Negotiating!Chosen :
                   Negotiating!IsFirstCommon(f, algs[e][Negotiating!Chosen[f]])
              /\ failed[e] => \E f \in DOMAIN Negotiating!Chosen : Negotiating!NothingCommon(f)
              /\ failed[e] => algs[Negotiating!Other(e)] = None
              /\ algs[e] # None /\ e # foreign => {algs[e].w, algs[e].r} \subseteq Modes
  <2>1. algs[e] # None => \A f \in DOMAIN Negotiating!Chosen :
          Negotiating!IsFirstCommon(f, algs[e][Negotiating!Chosen[f]])
    BY <1>5, <1>6, <1>7
  <2>2. failed[e] => \E f \in DOMAIN Negotiating!Chosen : Negotiating!NothingCommon(f)
    BY <1>5, <1>6, <1>7
  <2>3. failed[e] => algs[Negotiating!Other(e)] = None
    BY <1>7 DEF Negotiating!Other
  <2> QED
    BY <1>8, <2>1, <2>2, <2>3
<1>11. ASSUME algs["client"] # None, algs["server"] # None
       PROVE  /\ algs["client"] = algs["server"]
              /\ foreign = None => \A e \in {"client", "server"} :
                   Negotiating!WritesWith(e) = Negotiating!ReadsWith(Negotiating!Other(e))
  <2>1. algs["client"] = Choice /\ algs["server"] = Choice
    BY <1>7, <1>11
  <2>2. ASSUME foreign = None, NEW e \in {"client", "server"}
        PROVE  Negotiating!WritesWith(e) = Negotiating!ReadsWith(Negotiating!Other(e))
    BY <1>1, <1>9, <2>1, <2>2
       DEF Negotiating!WritesWith, Negotiating!ReadsWith, Negotiating!Other
  <2> QED
    BY <2>1, <2>2
<1> QED
  BY <1>10, <1>11 DEF Negotiating!SameChoice, Negotiating!Agree, Negotiating!Ends

\* Each end works out the choice from the message it sent and the one it was given, and with
\* the ciphers it can use itself; both come to the same one, for lists of any length that name
\* an algorithm once, whichever end is foreign.
THEOREM ChoiceAlwaysSame == Negotiating!Spec => []SameChoice
<1>1. Negotiating!Init => ChoiceInv
  BY ChoiceInit, PartsAssumption
<1>2. ChoiceInv /\ [Negotiating!Next]_(Negotiating!vars) => ChoiceInv'
  BY ChoiceNext
<1>3. ChoiceInv => SameChoice
  BY ChoiceSame, PartsAssumption DEF SameChoice
<1> QED
  BY <1>1, <1>2, <1>3, PTL DEF Negotiating!Spec

-----------------------------------------------------------------------------
(* Certs: the verdict is about the certificate and the time of the check.  *)

CertInv ==
  /\ cert \in Checking!Fields
  /\ now \in 0 .. Half - 1
  /\ signature # None => signature.of.authority = signature.by
  /\ verdict # None =>
       /\ signature # None
       /\ verdict.ok <=> cert.type = verdict.as /\ Checking!CheckCert(verdict.name)

LEMMA CertInit ==
  ASSUME Checking!CertsAssumption, Checking!Init
  PROVE  CertInv
BY DEF Checking!CertsAssumption, Checking!Init, CertInv

\* Whatever changes what a verdict rests on leaves none.
LEMMA CertNext ==
  ASSUME Checking!CertsAssumption, CertInv, [Checking!Next]_(Checking!vars)
  PROVE  CertInv'
<1>1. ASSUME NEW s \in Signers, Checking!SignCert(s) PROVE CertInv'
  <2>1. /\ signature = None /\ cert' = [cert EXCEPT !.authority = s]
        /\ signature' = [by |-> s, of |-> [cert EXCEPT !.authority = s]]
        /\ now' = now /\ verdict' = verdict
    BY <1>1 DEF Checking!SignCert
  <2>2. verdict = None /\ cert' \in Checking!Fields
    BY <2>1 DEF CertInv, Checking!Fields
  <2>3. signature'.of.authority = s /\ signature'.by = s
    BY <2>1 DEF CertInv, Checking!Fields
  <2> QED
    BY <2>1, <2>2, <2>3 DEF CertInv
<1>2. CASE Checking!Alter
  <2>1. verdict = None /\ UNCHANGED <<signature, now, verdict>>
    BY <1>2 DEF Checking!Alter
  <2>2. Checking!Infinity \in Checking!Times
    BY DEF Checking!CertsAssumption, Checking!Infinity, Checking!Times
  <2>3. cert' \in Checking!Fields
    BY <1>2, <2>2 DEF Checking!Alter, CertInv, Checking!Fields
  <2> QED
    BY <2>1, <2>3 DEF CertInv
<1>3. CASE Checking!Tick
  BY <1>3 DEF Checking!Tick, CertInv, Checking!CertsAssumption
<1>4. ASSUME NEW as \in Checking!Types, NEW name \in Names, Checking!Check(as, name)
      PROVE  CertInv'
  <2>1. /\ signature # None /\ UNCHANGED <<cert, signature, revoked, now>>
        /\ verdict' = [as |-> as, name |-> name,
                       ok |-> cert.type = as /\ Checking!CheckCert(name)]
    BY <1>4 DEF Checking!Check
  <2>2. verdict'.as = as /\ verdict'.name = name
    BY <2>1
  <2>3. verdict'.ok <=> cert.type = as /\ Checking!CheckCert(name)
    BY <2>1
  <2>4. cert' = cert /\ now' = now /\ signature' = signature
    BY <2>1
  <2> QED
    BY <2>1, <2>2, <2>3, <2>4 DEF CertInv, Checking!CheckCert, Checking!Understood,
       Checking!NamedFor, Checking!Begun, Checking!NotEnded, Checking!Verifies
<1>5. CASE UNCHANGED Checking!vars
  <2>1. UNCHANGED <<cert, signature, revoked, now, verdict>>
    BY <1>5 DEF Checking!vars
  <2> QED
    BY <2>1 DEF CertInv, Checking!CheckCert, Checking!Understood, Checking!NamedFor,
       Checking!Begun, Checking!NotEnded, Checking!Verifies
<1> QED
  BY <1>1, <1>2, <1>3, <1>4, <1>5 DEF Checking!Next

\* The tests of CheckCert on numbers that have been converted are those of the definition.
LEMMA TimesRight ==
  ASSUME Checking!CertsAssumption, CertInv
  PROVE  /\ Checking!Begun <=> now >= cert.after
         /\ Checking!NotEnded <=> /\ cert.before = Checking!Infinity \/ now < cert.before
                                  /\ cert.before \notin Half .. Checking!Infinity - 1
<1>1. /\ cert.after \in 0 .. Checking!Infinity /\ cert.before \in 0 .. Checking!Infinity
      /\ Half \in Nat \ {0} /\ now \in 0 .. Half - 1 /\ Checking!Infinity = 2 * Half - 1
  BY DEF CertInv, Checking!Fields, Checking!Times, Checking!CertsAssumption, Checking!Infinity
<1>2. Checking!Begun <=> now >= cert.after
  BY <1>1 DEF Checking!Begun, Checking!int64
<1>3. Checking!NotEnded <=> /\ cert.before = Checking!Infinity \/ now < cert.before
                            /\ cert.before \notin Half .. Checking!Infinity - 1
  BY <1>1 DEF Checking!NotEnded, Checking!int64
<1> QED
  BY <1>2, <1>3

LEMMA CertAccepts ==
  ASSUME Checking!CertsAssumption, CertInv, verdict # None
  PROVE  LET valid == /\ signature.by \in Authorities /\ signature.of = cert
                      /\ cert.type = verdict.as
                      /\ cert.principals = {} \/ verdict.name \in cert.principals
                      /\ now >= cert.after
                      /\ cert.before = Checking!Infinity \/ now < cert.before
                      /\ cert.options \ {SourceAddress} \subseteq Supported
                      /\ ~revoked
         IN  verdict.ok <=> valid /\ cert.before \notin Half .. Checking!Infinity - 1
<1>1. Checking!Understood <=> cert.options \ {SourceAddress} \subseteq Supported
  BY DEF Checking!Understood
<1>2. Checking!NamedFor(verdict.name) <=> cert.principals = {} \/ verdict.name \in cert.principals
  BY DEF Checking!NamedFor
<1>3. Checking!Verifies /\ cert.authority \in Authorities <=>
        signature.by \in Authorities /\ signature.of = cert
  BY DEF CertInv, Checking!Verifies
<1>4. verdict.ok <=> cert.type = verdict.as /\ Checking!CheckCert(verdict.name)
  BY DEF CertInv
<1> QED
  BY <1>1, <1>2, <1>3, <1>4, TimesRight DEF Checking!CheckCert

\* CertChecker accepts what is valid, and no more, but for ends in the upper half.
THEOREM ValidAlwaysAccepted == Checking!Spec => []AcceptsTheValid
<1>1. Checking!Init => CertInv
  BY CertInit, PartsAssumption
<1>2. CertInv /\ [Checking!Next]_(Checking!vars) => CertInv'
  BY CertNext, PartsAssumption
<1>3. CertInv => AcceptsTheValid
  BY CertAccepts, PartsAssumption DEF AcceptsTheValid, Checking!AcceptsTheValid
<1> QED
  BY <1>1, <1>2, <1>3, PTL DEF Checking!Spec

-----------------------------------------------------------------------------
(* Packets: the frames.                                                    *)

LEMMA Blocks ==
  ASSUME NEW m \in Nat \ {0}, NEW a \in Nat
  PROVE  /\ a % m \in 0 .. m - 1
         /\ (a + m - (a % m)) % m = 0 /\ (a + (m + m) - (a % m)) % m = 0
         /\ (a \div m) * m \in Nat /\ (a \div m) * m <= a /\ (a \div m) * m > a - m
         /\ ((a \div m) * m) % m = 0
<1>1. a = m * (a \div m) + (a % m) /\ a % m \in 0 .. m - 1 /\ a \div m \in Nat
  OBVIOUS
<1>2. (a + m - (a % m)) % m = 0
  OBVIOUS
<1>3. (a + (m + m) - (a % m)) % m = 0
  <2>1. a + (m + m) - (a % m) = m * ((a \div m) + 2)
    BY <1>1
  <2>2. \A q \in Nat : (m * q) % m = 0
    OBVIOUS
  <2>3. (a \div m) + 2 \in Nat
    BY <1>1
  <2> QED
    BY <2>1, <2>2, <2>3
<1>4. \A q \in Nat : (m * q) % m = 0 /\ m * q = q * m /\ m * q \in Nat
  OBVIOUS
<1> QED
  BY <1>1, <1>2, <1>3, <1>4

\* Of all kinds, a frame is whole blocks with a padding that fits, and is read as it
\* was written.
Legal(k, n, f) ==
  /\ f.padding \in 4 .. 4 + Multiple - 1 /\ f.length = n + 1 + f.padding
  /\ (IF k = "gcm" THEN f.length ELSE f.length + 4) % Multiple = 0

LEMMA FrameLegal ==
  ASSUME Framing!PacketsAssumption, NEW n \in Lengths, NEW k \in Framing!Kinds \cup {"none"}
  PROVE  Legal(k, n, Framing!Frame(k, n))
<1> DEFINE f == Framing!Frame(k, n)
<1>1. /\ Multiple \in Nat \ {0} /\ Multiple >= 4 /\ n \in Nat /\ n >= 1
  BY DEF Framing!PacketsAssumption, Framing!MinPadding
<1>2. CASE k \in {"none", "stream"}
  <2> DEFINE p == Framing!Enough(Multiple - ((5 + n) % Multiple))
  <2>1. f = [length |-> n + 1 + p, padding |-> p]
    BY <1>2 DEF Framing!Frame, Framing!StreamFrame, Framing!Prefix
  <2>2. (5 + n) % Multiple \in 0 .. Multiple - 1
    BY <1>1, Blocks
  <2>3. \/ p = Multiple - ((5 + n) % Multiple) /\ p >= 4
        \/ p = Multiple - ((5 + n) % Multiple) + Multiple /\ p < 4 + Multiple
    BY <1>1, <2>2 DEF Framing!Enough, Framing!MinPadding
  <2>4. p \in 4 .. 4 + Multiple - 1
    BY <1>1, <2>2, <2>3
  <2>5. (5 + n + p) % Multiple = 0
    <3>1. \/ 5 + n + p = (5 + n) + Multiple - ((5 + n) % Multiple)
          \/ 5 + n + p = (5 + n) + (Multiple + Multiple) - ((5 + n) % Multiple)
      BY <1>1, <2>2, <2>3
    <3>2. /\ ((5 + n) + Multiple - ((5 + n) % Multiple)) % Multiple = 0
          /\ ((5 + n) + (Multiple + Multiple) - ((5 + n) % Multiple)) % Multiple = 0
      <4>1. 5 + n \in Nat
        BY <1>1
      <4> QED
        BY <1>1, <4>1, Blocks
    <3> QED
      BY <3>1, <3>2
  <2> HIDE DEF p
  <2>6. f.padding = p /\ f.length = n + 1 + p /\ f.length + 4 = 5 + n + p
    BY <1>1, <2>1, <2>4
  <2> QED
    BY <1>2, <2>4, <2>5, <2>6 DEF Legal
<1>3. CASE k = "gcm"
  <2> DEFINE p == Framing!Enough(Multiple - ((1 + n) % Multiple))
  <2>1. f = [length |-> n + p + 1, padding |-> p]
    BY <1>3 DEF Framing!Frame, Framing!GCMFrame
  <2>2. (1 + n) % Multiple \in 0 .. Multiple - 1
    BY <1>1, Blocks
  <2>3. \/ p = Multiple - ((1 + n) % Multiple) /\ p >= 4
        \/ p = Multiple - ((1 + n) % Multiple) + Multiple /\ p < 4 + Multiple
    BY <1>1, <2>2 DEF Framing!Enough, Framing!MinPadding
  <2>4. p \in 4 .. 4 + Multiple - 1
    BY <1>1, <2>2, <2>3
  <2>5. (1 + n + p) % Multiple = 0
    <3>1. \/ 1 + n + p = (1 + n) + Multiple - ((1 + n) % Multiple)
          \/ 1 + n + p = (1 + n) + (Multiple + Multiple) - ((1 + n) % Multiple)
      BY <1>1, <2>2, <2>3
    <3>2. /\ ((1 + n) + Multiple - ((1 + n) % Multiple)) % Multiple = 0
          /\ ((1 + n) + (Multiple + Multiple) - ((1 + n) % Multiple)) % Multiple = 0
      <4>1. 1 + n \in Nat
        BY <1>1
      <4> QED
        BY <1>1, <4>1, Blocks
    <3> QED
      BY <3>1, <3>2
  <2> HIDE DEF p
  <2>6. f.padding = p /\ f.length = n + 1 + p /\ f.length = 1 + n + p
    BY <1>1, <2>1, <2>4
  <2> QED
    BY <1>3, <2>4, <2>5, <2>6 DEF Legal
<1>4. CASE k = "cbc"
  <2> DEFINE a == 5 + n + 4 + Multiple - 1
             enc == (a \div Multiple) * Multiple
  <2>1. f = [length |-> enc - 4, padding |-> enc - 4 - (1 + n)]
    BY <1>4 DEF Framing!Frame, Framing!CBCFrame, Framing!Prefix, Framing!MinPadding
  <2>2. a \in Nat /\ a = n + 8 + Multiple
    BY <1>1
  <2>3. enc \in Nat /\ enc <= a /\ enc > a - Multiple /\ enc % Multiple = 0
    BY <1>1, <2>2, Blocks
  <2> HIDE DEF enc, a
  <2>4. f.padding = enc - 5 - n /\ f.length = enc - 4
    BY <1>1, <2>1, <2>3
  <2>5. f.padding \in 4 .. 4 + Multiple - 1 /\ f.length = n + 1 + f.padding /\ f.length + 4 = enc
    BY <1>1, <2>2, <2>3, <2>4
  <2> QED
    BY <1>4, <2>3, <2>5 DEF Legal
<1> QED
  BY <1>2, <1>3, <1>4 DEF Framing!Kinds

LEMMA FrameRead ==
  ASSUME Framing!PacketsAssumption, NEW n \in Lengths, NEW k \in Framing!Kinds \cup {"none"},
         NEW f, Legal(k, n, f)
  PROVE  Framing!Unframe(k, f).ok /\ Framing!Unframe(k, f).payload = n
<1>1. /\ Multiple \in Nat /\ Multiple >= 4 /\ n \in Nat /\ n >= 1 /\ MaxPacket \in Nat
      /\ n + 4 + Multiple <= MaxPacket
  BY DEF Framing!PacketsAssumption, Framing!MinPadding
<1>2. /\ f.padding \in 4 .. 4 + Multiple - 1 /\ f.length = n + 1 + f.padding
      /\ f.length \in Nat /\ f.length <= MaxPacket /\ f.length > f.padding + 1
  BY <1>1 DEF Legal
<1>3. CASE k \in {"none", "stream"}
  <2>1. Framing!Unframe(k, f) = Framing!StreamRead(f)
    BY <1>3 DEF Framing!Unframe
  <2>2. Framing!StreamRead(f).ok = TRUE
    BY <1>2 DEF Framing!StreamRead
  <2>3. Framing!StreamRead(f).payload = n
    BY <1>1, <1>2 DEF Framing!StreamRead
  <2> QED
    BY <2>1, <2>2, <2>3
<1>4. CASE k = "gcm"
  <2>1. Framing!Unframe(k, f) = Framing!GCMRead(f)
    BY <1>4 DEF Framing!Unframe
  <2> QED
    BY <1>1, <1>2, <2>1 DEF Framing!GCMRead, Framing!MinPadding
<1>5. CASE k = "cbc"
  <2>1. Framing!Unframe(k, f) = Framing!CBCRead(f)
    BY <1>5 DEF Framing!Unframe
  <2>2. (f.length + 4) % Multiple = 0
    BY <1>5 DEF Legal
  <2>3. f.length + 4 >= Multiple
    <3>1. \A x \in Nat : x < Multiple => x % Multiple = x
      BY <1>1
    <3>2. f.length + 4 \in Nat /\ f.length + 4 > 0
      BY <1>2
    <3> QED
      BY <1>1, <2>2, <3>1, <3>2
  <2>4. Framing!CBCRead(f).ok = TRUE
    BY <1>1, <1>2, <2>2, <2>3 DEF Framing!CBCRead, Framing!MinPadding
  <2>5. Framing!CBCRead(f).payload = n
    BY <1>1, <1>2 DEF Framing!CBCRead, Framing!Prefix
  <2> QED
    BY <2>1, <2>4, <2>5
<1> QED
  BY <1>3, <1>4, <1>5 DEF Framing!Kinds

LEMMA LegalTyped ==
  ASSUME Framing!PacketsAssumption, NEW n \in Lengths, NEW k, NEW f, Legal(k, n, f)
  PROVE  f.padding \in Nat /\ f.length \in Nat
<1>1. Multiple \in Nat /\ n \in Nat
  BY DEF Framing!PacketsAssumption, Framing!MinPadding
<1>2. f.padding \in 4 .. 4 + Multiple - 1 /\ f.length = n + 1 + f.padding
  BY DEF Legal
<1> QED
  BY <1>1, <1>2

-----------------------------------------------------------------------------
(* Packets: writer and reader.                                             *)

FrameSet ==
  [cipher : Framing!Keyed \cup {Framing!NoCipher}, pos : Nat, seq : Nat,
   f : [length : Nat, padding : Nat], n : Lengths, newKeys : BOOLEAN]

EndSet ==
  [cipher : Framing!Keyed \cup {Framing!NoCipher}, pos : Nat, seq : Nat,
   pending : Framing!Keyed \cup {None}]

PacketTyped ==
  /\ client \in BOOLEAN /\ w \in EndSet /\ r \in EndSet
  /\ made \in [writer : Nat, reader : Nat]
  /\ wire \in Seq(FrameSet)
  /\ \A i \in 1 .. Len(wire) : Legal(wire[i].cipher.kind, wire[i].n, wire[i].f)

\* The cipher after so many changes of keys.
Number(c) == IF c = Framing!NoCipher THEN 0 ELSE c.key[2] + 1

\* The ciphers that are about, or will be.
Used ==
  ({w.cipher, r.cipher, w.pending, r.pending} \cup {wire[i].cipher : i \in 1 .. Len(wire)}) \ {None}

\* There is one cipher for each change, and the two ends are at most one change apart.
Counts ==
  /\ \A c, d \in Used : Number(c) = Number(d) => c = d
  /\ \A c \in Used :
       /\ Number(c) <= made.writer
       /\ c # Framing!NoCipher => c.key[1] = Framing!WriterTag(client)
  /\ Number(w.cipher) = made.writer - (IF w.pending = None THEN 0 ELSE 1)
  /\ w.pending # None => Number(w.pending) = made.writer
  /\ Number(r.cipher) = made.reader - (IF r.pending = None THEN 0 ELSE 1)
  /\ r.pending # None => Number(r.pending) = made.reader
  /\ made.reader \in {made.writer, made.writer - 1}

\* What is written next begins where a frame has ended.
Same(a, b) == a.cipher = b.cipher /\ a.pos = b.pos /\ a.seq = b.seq

Follows(p, q) ==
  /\ q.seq = (p.seq + 1) % SeqWrap
  /\ IF p.newKeys THEN q.pos = 0 /\ Number(q.cipher) = Number(p.cipher) + 1
     ELSE q.cipher = p.cipher /\ q.pos = Framing!Advance(p.cipher.kind, p.pos, p.f)

At(i) == IF i <= Len(wire) THEN wire[i] ELSE w

Joined ==
  /\ Same(r, At(1))
  /\ \A i \in 1 .. Len(wire) : Follows(wire[i], At(i + 1))

VersionRight == version # None /\ version.ok => version.line = line
LineInv == line \in Framing!Lines /\ VersionRight
ReadRight == got.ok /\ got.payload = got.written

StepInv == PacketTyped /\ Counts /\ Joined /\ ReadRight /\ LineInv

\* The cipher of a change has its number.
LEMMA Numbered ==
  ASSUME Framing!PacketsAssumption
  PROVE  /\ \A c \in Framing!Keyed : /\ c # Framing!NoCipher /\ c # None /\ c.key[2] \in Nat
                                     /\ c.kind \in Framing!Kinds /\ Number(c) = c.key[2] + 1
         /\ Number(Framing!NoCipher) = 0 /\ Framing!NoCipher.kind = "none"
BY DEF Framing!PacketsAssumption, Framing!Keyed, Framing!NoCipher, Framing!Kinds, Number

LEMMA StepInit ==
  ASSUME Framing!PacketsAssumption, Framing!Init
  PROVE  StepInv
<1>1. /\ client \in BOOLEAN
      /\ w = [cipher |-> Framing!NoCipher, pos |-> 0, seq |-> 0, pending |-> None]
      /\ r = w /\ made = [writer |-> 0, reader |-> 0] /\ line \in Framing!Lines /\ version = None
      /\ wire = <<>> /\ got = [written |-> 0, payload |-> 0, ok |-> TRUE]
  BY DEF Framing!Init, Framing!Fresh
<1>2. PacketTyped
  BY <1>1 DEF PacketTyped, EndSet
<1>3. Counts
  <2>1. Used \subseteq {Framing!NoCipher}
    BY <1>1 DEF Used
  <2> QED
    BY <1>1, <2>1, Numbered DEF Counts
<1>4. Joined
  BY <1>1 DEF Joined, At, Same
<1>5. ReadRight /\ LineInv
  BY <1>1 DEF ReadRight, LineInv, VersionRight
<1> QED
  BY <1>2, <1>3, <1>4, <1>5 DEF StepInv

\* A frame moves its cipher on within the numbers.
LEMMA Advanced ==
  ASSUME Framing!PacketsAssumption, NEW k \in Framing!Kinds \cup {"none"}, NEW pos \in Nat,
         NEW f \in [length : Nat, padding : Nat]
  PROVE  Framing!Advance(k, pos, f) \in Nat
<1>1. (pos + 1) % IVWrap \in Nat
  BY DEF Framing!PacketsAssumption
<1> QED
  BY <1>1 DEF Framing!Advance, Framing!Kinds

\* The line of the version is read as it was sent.
LEMMA VersionRead ==
  ASSUME line \in Framing!Lines,
         version' = Framing!readVersion(Framing!VersionBytes), version'.ok, line' = line
  PROVE  version'.line = line'
<1> DEFINE in == Framing!VersionBytes
           ends == {i \in DOMAIN in : in[i] = "\n" /\ i <= MaxVersion}
           n == CHOOSE i \in ends : \A j \in ends : i <= j
           s == SubSeq(in, 1, n - 1)
<1>1. PICK m \in 1 .. MaxVersion : line = [i \in 1 .. m |-> "c"]
  BY DEF Framing!Lines
<1>2. line \in Seq({"c"}) /\ Len(line) = m /\ m \in Nat /\ \A i \in 1 .. m : line[i] = "c"
  BY <1>1
<1>3. in = line \o <<"\r", "\n">>
  BY DEF Framing!VersionBytes, Framing!CR, Framing!LF
<1>4. /\ DOMAIN in = 1 .. m + 2 /\ Len(in) = m + 2 /\ in[m + 1] = "\r" /\ in[m + 2] = "\n"
      /\ \A i \in 1 .. m : in[i] = "c"
  BY <1>2, <1>3
<1>5. ends \subseteq {m + 2}
  BY <1>2, <1>4
<1>6. version' = IF ends = {} THEN [ok |-> FALSE]
                 ELSE [ok |-> TRUE,
                       line |-> IF s # <<>> /\ Framing!Last(s) = "\r" THEN Framing!Front(s) ELSE s]
  BY DEF Framing!readVersion, Framing!CR, Framing!LF
<1>7. ends = {m + 2}
  BY <1>5, <1>6
<1>8. n = m + 2
  BY <1>2, <1>7
<1> HIDE DEF ends, n
<1>9. in \in Seq({"c", "\r", "\n"})
  <2>1. line \in Seq({"c", "\r", "\n"})
    BY <1>2
  <2> QED
    BY <1>3, <2>1
<1> HIDE DEF in
<1>10. s = SubSeq(in, 1, m + 1) /\ s \in Seq({"c", "\r", "\n"}) /\ Len(s) = m + 1
       /\ \A i \in 1 .. m + 1 : s[i] = in[i]
  BY <1>2, <1>4, <1>8, <1>9
<1> HIDE DEF s
<1>11. s # <<>> /\ Framing!Last(s) = "\r"
  BY <1>2, <1>4, <1>10 DEF Framing!Last
<1>12. Framing!Front(s) = line
  <2>1. Framing!Front(s) = SubSeq(s, 1, m)
    BY <1>2, <1>10 DEF Framing!Front
  <2>2. SubSeq(s, 1, m) \in Seq({"c", "\r", "\n"}) /\ Len(SubSeq(s, 1, m)) = m
        /\ \A i \in 1 .. m : SubSeq(s, 1, m)[i] = s[i]
    BY <1>2, <1>10
  <2>3. \A i \in 1 .. m : SubSeq(s, 1, m)[i] = line[i]
    BY <1>2, <1>4, <1>10, <2>2
  <2>4. line \in Seq({"c", "\r", "\n"})
    BY <1>2
  <2> QED
    BY <1>2, <2>1, <2>2, <2>3, <2>4
<1> QED
  BY <1>6, <1>7, <1>11, <1>12

\* What the packets are about stays.
LEMMA StepStays ==
  ASSUME StepInv, UNCHANGED <<client, w, r, made, wire, got>>
  PROVE  PacketTyped' /\ Counts' /\ Joined' /\ ReadRight'
<1>1. PacketTyped'
  BY DEF StepInv, PacketTyped
<1>2. Counts'
  BY DEF StepInv, Counts, Used
<1>3. Joined'
  BY DEF StepInv, Joined, At, Same, Follows
<1>4. ReadRight'
  BY DEF StepInv, ReadRight
<1> QED
  BY <1>1, <1>2, <1>3, <1>4

LEMMA LineStays ==
  ASSUME LineInv, UNCHANGED <<line, version>>
  PROVE  LineInv'
BY DEF LineInv, VersionRight

LEMMA ReadVersionStep ==
  ASSUME StepInv, Framing!ReadVersion
  PROVE  StepInv'
<1>1. /\ version' = Framing!readVersion(Framing!VersionBytes)
      /\ UNCHANGED <<client, w, r, made, line, wire, got>>
  BY DEF Framing!ReadVersion, Framing!conns
<1>2. LineInv'
  BY <1>1, VersionRead DEF StepInv, LineInv, VersionRight
<1> QED
  BY <1>1, <1>2, StepStays DEF StepInv

\* One who has a pending cipher takes it with the packet that says so.
LEMMA FollowsSame ==
  ASSUME NEW x, NEW y, NEW z, Follows(x, y), Same(y, z)
  PROVE  Follows(x, z)
BY DEF Follows, Same

LEMMA WriteStep ==
  ASSUME Framing!PacketsAssumption, StepInv,
         NEW n \in Lengths, NEW newKeys \in BOOLEAN, Framing!Write(n, newKeys)
  PROVE  StepInv'
<1> DEFINE k == w.cipher.kind
           f == Framing!Frame(k, n)
           pos == Framing!Advance(k, w.pos, f)
           seq == (w.seq + 1) % SeqWrap
           p == [cipher |-> w.cipher, pos |-> w.pos, seq |-> w.seq,
                 f |-> f, n |-> n, newKeys |-> newKeys]
<1>1. /\ newKeys => w.pending # None
      /\ wire' = Append(wire, p)
      /\ w' = IF newKeys THEN [cipher |-> w.pending, pos |-> 0, seq |-> seq, pending |-> None]
              ELSE [w EXCEPT !.pos = pos, !.seq = seq]
      /\ UNCHANGED <<client, r, made, line, version, got>>
  <2>1. w \in EndSet
    BY DEF StepInv, PacketTyped
  <2> QED
    BY <2>1 DEF Framing!Write, Framing!TakePending, Framing!Fresh, EndSet
<1>2. /\ w \in EndSet /\ w.cipher \in Framing!Keyed \cup {Framing!NoCipher}
      /\ w.pos \in Nat /\ w.seq \in Nat /\ w.pending \in Framing!Keyed \cup {None}
      /\ wire \in Seq(FrameSet)
  BY DEF StepInv, PacketTyped, EndSet
<1>3. k \in Framing!Kinds \cup {"none"}
  BY <1>2, Numbered
<1>4. Legal(k, n, f)
  BY <1>3, FrameLegal
<1>5. f \in [length : Nat, padding : Nat]
  <2>1. \E x, y : f = [length |-> x, padding |-> y]
    BY <1>3 DEF Framing!Frame, Framing!StreamFrame, Framing!GCMFrame, Framing!CBCFrame,
       Framing!Kinds
  <2>2. f.padding \in Nat /\ f.length \in Nat
    BY <1>4, LegalTyped
  <2> QED
    BY <2>1, <2>2
<1>6. pos \in Nat /\ seq \in Nat
  <2>1. SeqWrap \in Nat \ {0} /\ w.seq + 1 \in Nat
    BY <1>2 DEF Framing!PacketsAssumption
  <2>2. \A a \in Nat, m \in Nat \ {0} : a % m \in Nat
    OBVIOUS
  <2> QED
    BY <1>2, <1>3, <1>5, <2>1, <2>2, Advanced
<1> HIDE DEF f, pos, seq
<1>7. p \in FrameSet
  BY <1>2, <1>5 DEF FrameSet
<1>8. /\ p.cipher = w.cipher /\ p.pos = w.pos /\ p.seq = w.seq
      /\ p.f = f /\ p.n = n /\ p.newKeys = newKeys
  OBVIOUS
<1> HIDE DEF p
<1>9. /\ Len(wire') = Len(wire) + 1 /\ wire' \in Seq(FrameSet) /\ wire'[Len(wire) + 1] = p
      /\ \A i \in 1 .. Len(wire) : wire'[i] = wire[i]
  BY <1>1, <1>2, <1>7
<1>10. /\ w'.cipher = (IF newKeys THEN w.pending ELSE w.cipher)
       /\ w'.pos = (IF newKeys THEN 0 ELSE pos) /\ w'.seq = seq
       /\ w'.pending = (IF newKeys THEN None ELSE w.pending)
  BY <1>1, <1>2 DEF EndSet
<1>11. w' \in EndSet
  BY <1>1, <1>2, <1>6 DEF EndSet
<1>12. PacketTyped'
  <2>1. \A i \in 1 .. Len(wire') : Legal(wire'[i].cipher.kind, wire'[i].n, wire'[i].f)
    BY <1>4, <1>8, <1>9 DEF StepInv, PacketTyped
  <2>2. \A i \in 1 .. Len(wire') : Legal(wire[i].cipher.kind, wire[i].n, wire[i].f)'
    BY <2>1 DEF Legal
  <2> QED
    BY <1>1, <1>9, <1>11, <2>2 DEF StepInv, PacketTyped
<1>13. Counts'
  <2>1. Used' \subseteq Used
    BY <1>1, <1>8, <1>9, <1>10 DEF Used
  <2>2. /\ Number(w.cipher) = made.writer - (IF w.pending = None THEN 0 ELSE 1)
        /\ w.pending # None => Number(w.pending) = made.writer
        /\ made.writer \in Nat
    BY DEF StepInv, Counts, PacketTyped
  <2>3. Number(w'.cipher) = made'.writer - (IF w'.pending = None THEN 0 ELSE 1)
    BY <1>1, <1>10, <2>2
  <2>4. w'.pending # None => Number(w'.pending) = made'.writer
    BY <1>1, <1>10, <2>2
  <2> QED
    BY <1>1, <2>1, <2>3, <2>4 DEF StepInv, Counts, Number
<1>14. \A i \in 1 .. Len(wire) + 1 : Same(At(i), At(i)')
  BY <1>8, <1>9 DEF At, Same
<1>15. Follows(p, w')
  <2>1. newKeys => Number(w.pending) = Number(w.cipher) + 1
    BY <1>1 DEF StepInv, Counts, PacketTyped
  <2> QED
    BY <1>8, <1>10, <2>1 DEF Follows, pos, seq
<1>16. Joined'
  <2>1. Same(r, At(1)) /\ Same(At(1), At(1)')
    BY <1>2, <1>14 DEF StepInv, Joined
  <2>2. Same(r', At(1)')
    BY <1>1, <2>1 DEF Same
  <2>3. ASSUME NEW i \in 1 .. Len(wire) PROVE Follows(wire'[i], At(i + 1)')
    <3>1. Follows(wire[i], At(i + 1)) /\ Same(At(i + 1), At(i + 1)')
      BY <1>2, <1>14 DEF StepInv, Joined
    <3> QED
      BY <1>9, <3>1, FollowsSame
  <2>4. ASSUME NEW i, i = Len(wire) + 1 PROVE Follows(wire'[i], At(i + 1)')
    BY <1>2, <1>9, <1>15, <2>4 DEF At
  <2>5. \A i \in 1 .. Len(wire') : Follows(wire'[i], At(i + 1)')
    <3>1. ASSUME NEW i \in 1 .. Len(wire') PROVE Follows(wire'[i], At(i + 1)')
      <4>1. CASE i \in 1 .. Len(wire)
        BY <2>3, <4>1
      <4>2. CASE i = Len(wire) + 1
        BY <2>4, <4>2
      <4> QED
        BY <1>2, <1>9, <4>1, <4>2
    <3> QED
      BY <3>1
  <2>6. \A i \in 1 .. Len(wire') : Follows(wire[i], At(i + 1))'
    BY <2>5 DEF Follows, Number
  <2> QED
    BY <2>2, <2>6 DEF Joined, Same
<1>17. ReadRight' /\ LineInv'
  BY <1>1, LineStays DEF StepInv, ReadRight
<1> QED
  BY <1>12, <1>13, <1>16, <1>17 DEF StepInv

LEMMA ReadStep ==
  ASSUME Framing!PacketsAssumption, StepInv, Framing!Read
  PROVE  StepInv'
<1> DEFINE p == wire[1]
           k == r.cipher.kind
           pos == Framing!Advance(k, r.pos, p.f)
           seq == (r.seq + 1) % SeqWrap
           u == Framing!Unframe(k, p.f)
           ok == Framing!Authentic(p) /\ u.ok /\ u.payload > 0
           next == [r EXCEPT !.pos = pos, !.seq = seq]
<1>1. /\ wire # <<>> /\ (p.newKeys => r.pending # None) /\ wire' = Tail(wire)
      /\ got' = [written |-> p.n, payload |-> IF ok THEN u.payload ELSE 0, ok |-> ok]
      /\ r' = IF ok /\ p.newKeys THEN Framing!TakePending(next) ELSE next
      /\ UNCHANGED <<client, w, made, line, version>>
  <2>1. wire # <<>> => Head(wire) = wire[1]
    BY DEF StepInv, PacketTyped
  <2>2. wire # <<>>
    BY DEF Framing!Read
  <2> QED
    BY <2>1, <2>2 DEF Framing!Read
<1>2. /\ r \in EndSet /\ r.cipher \in Framing!Keyed \cup {Framing!NoCipher}
      /\ r.pos \in Nat /\ r.seq \in Nat /\ r.pending \in Framing!Keyed \cup {None}
      /\ wire \in Seq(FrameSet) /\ Len(wire) \in Nat /\ Len(wire) >= 1 /\ p \in FrameSet
      /\ p.n \in Lengths /\ p.f \in [length : Nat, padding : Nat] /\ p.newKeys \in BOOLEAN
  <2>1. wire \in Seq(FrameSet) /\ r \in EndSet
    BY DEF StepInv, PacketTyped
  <2>2. Len(wire) \in Nat /\ Len(wire) >= 1 /\ p \in FrameSet
    BY <1>1, <2>1
  <2> QED
    BY <2>1, <2>2 DEF EndSet, FrameSet
<1>3. p.cipher = r.cipher /\ p.pos = r.pos /\ p.seq = r.seq
  BY <1>2 DEF StepInv, Joined, At, Same
<1>4. k \in Framing!Kinds \cup {"none"} /\ Legal(k, p.n, p.f)
  <2>1. k \in Framing!Kinds \cup {"none"}
    BY <1>2, Numbered
  <2>2. Legal(p.cipher.kind, p.n, p.f)
    BY <1>2 DEF StepInv, PacketTyped
  <2> QED
    BY <1>3, <2>1, <2>2
<1>5. u.ok /\ u.payload = p.n
  BY <1>2, <1>4, FrameRead
<1>6. ok
  <2>1. Framing!Authentic(p)
    BY <1>3 DEF Framing!Authentic
  <2>2. u.payload > 0
    <3>1. p.n \in Nat \ {0} /\ u.payload = p.n
      BY <1>2, <1>5 DEF Framing!PacketsAssumption
    <3> HIDE DEF u, p
    <3> QED
      BY <3>1
  <2> QED
    BY <1>5, <2>1, <2>2
<1>7. pos \in Nat /\ seq \in Nat
  <2>1. SeqWrap \in Nat \ {0} /\ r.seq + 1 \in Nat
    BY <1>2 DEF Framing!PacketsAssumption
  <2>2. \A a \in Nat, m \in Nat \ {0} : a % m \in Nat
    OBVIOUS
  <2> QED
    BY <1>2, <1>4, <2>1, <2>2, Advanced
<1> HIDE DEF u
<1>8. got'.written = p.n /\ got'.payload = u.payload /\ got'.ok
  BY <1>1, <1>6
<1> HIDE DEF pos, seq, ok
<1>9. /\ r' = IF p.newKeys THEN [cipher |-> r.pending, pos |-> 0, seq |-> seq, pending |-> None]
              ELSE [r EXCEPT !.pos = pos, !.seq = seq]
  BY <1>1, <1>2, <1>6 DEF Framing!TakePending, Framing!Fresh, EndSet
<1>10. /\ r'.cipher = (IF p.newKeys THEN r.pending ELSE r.cipher)
       /\ r'.pos = (IF p.newKeys THEN 0 ELSE pos) /\ r'.seq = seq
       /\ r'.pending = (IF p.newKeys THEN None ELSE r.pending)
       /\ r' \in EndSet
  <2>1. CASE p.newKeys
    <3>1. /\ r' = [cipher |-> r.pending, pos |-> 0, seq |-> seq, pending |-> None]
          /\ r.pending \in Framing!Keyed
      BY <1>1, <1>2, <1>9, <2>1
    <3> QED
      BY <1>7, <2>1, <3>1 DEF EndSet
  <2>2. CASE ~p.newKeys
    BY <1>2, <1>7, <1>9, <2>2 DEF EndSet
  <2> QED
    BY <2>1, <2>2
<1>11. /\ wire' \in Seq(FrameSet) /\ Len(wire') = Len(wire) - 1
       /\ \A i \in 1 .. Len(wire') : wire'[i] = wire[i + 1] /\ i + 1 \in 1 .. Len(wire)
  BY <1>1, <1>2
<1>12. PacketTyped'
  <2>1. \A i \in 1 .. Len(wire') : Legal(wire'[i].cipher.kind, wire'[i].n, wire'[i].f)
    BY <1>11 DEF StepInv, PacketTyped
  <2>2. \A i \in 1 .. Len(wire') : Legal(wire[i].cipher.kind, wire[i].n, wire[i].f)'
    BY <2>1 DEF Legal
  <2> QED
    BY <1>1, <1>10, <1>11, <2>2 DEF StepInv, PacketTyped
<1>13. Counts'
  <2>1. Used' \subseteq Used
    BY <1>1, <1>10, <1>11 DEF Used
  <2>2. /\ Number(r.cipher) = made.reader - (IF r.pending = None THEN 0 ELSE 1)
        /\ r.pending # None => Number(r.pending) = made.reader
        /\ made.reader \in Nat
    BY DEF StepInv, Counts, PacketTyped
  <2>3. Number(r'.cipher) = made'.reader - (IF r'.pending = None THEN 0 ELSE 1)
    BY <1>1, <1>10, <2>2
  <2>4. r'.pending # None => Number(r'.pending) = made'.reader
    BY <1>1, <1>10, <2>2
  <2> QED
    BY <1>1, <2>1, <2>3, <2>4 DEF StepInv, Counts, Number
<1>14. \A i \in 1 .. Len(wire) : At(i)' = At(i + 1)
  BY <1>1, <1>2, <1>11 DEF At
<1>15. Same(r', At(2))
  <2>1. Follows(p, At(2))
    BY <1>2 DEF StepInv, Joined
  <2>2. CASE p.newKeys
    <3>1. r.pending # None /\ r'.cipher = r.pending /\ r'.pos = 0 /\ r'.seq = At(2).seq
      BY <1>1, <1>3, <1>10, <2>1, <2>2 DEF Follows, seq
    <3>2. At(2).pos = 0 /\ Number(At(2).cipher) = Number(r.cipher) + 1
      BY <1>3, <2>1, <2>2 DEF Follows
    <3>3. Number(At(2).cipher) = Number(r.pending)
      BY <3>1, <3>2 DEF StepInv, Counts, PacketTyped
    <3>4. At(2).cipher \in Used /\ r.pending \in Used
      <4>1. At(2).cipher # None
        <5>1. At(2).cipher \in Framing!Keyed \cup {Framing!NoCipher}
          <6>1. CASE Len(wire) >= 2
            <7>1. At(2) = wire[2] /\ wire[2] \in FrameSet
              BY <1>2, <6>1 DEF At
            <7> QED
              BY <7>1 DEF FrameSet
          <6>2. CASE ~(Len(wire) >= 2)
            <7>1. At(2) = w /\ w \in EndSet
              BY <1>2, <6>2 DEF At, StepInv, PacketTyped
            <7> QED
              BY <7>1 DEF EndSet
          <6> QED
            BY <6>1, <6>2
        <5>2. At(2).cipher # Framing!NoCipher
          <6>1. Number(r.cipher) >= 0
            BY <1>2, Numbered
          <6> QED
            BY <1>2, <3>2, <6>1, Numbered
        <5> QED
          BY <5>1, <5>2, Numbered
      <4> QED
        BY <1>2, <3>1, <4>1 DEF Used, At
    <3> QED
      BY <3>1, <3>2, <3>3, <3>4 DEF StepInv, Counts, Same
  <2>3. CASE ~p.newKeys
    BY <1>3, <1>10, <2>1, <2>3 DEF Follows, Same, pos, seq
  <2> QED
    BY <2>2, <2>3
<1>16. Joined'
  <2>1. Same(r', At(1)')
    BY <1>2, <1>14, <1>15
  <2>2. ASSUME NEW i \in 1 .. Len(wire') PROVE Follows(wire'[i], At(i + 1)')
    <3>1. i + 1 \in 1 .. Len(wire) /\ wire'[i] = wire[i + 1] /\ At(i + 1)' = At(i + 2)
      BY <1>2, <1>11, <1>14
    <3>2. Follows(wire[i + 1], At((i + 1) + 1))
      BY <3>1 DEF StepInv, Joined
    <3>3. (i + 1) + 1 = i + 2
      BY <1>2, <1>11
    <3> QED
      BY <3>1, <3>2, <3>3
  <2>3. \A i \in 1 .. Len(wire') : Follows(wire[i], At(i + 1))'
    BY <2>2 DEF Follows, Number
  <2> QED
    BY <2>1, <2>3 DEF Joined, Same
<1>17. ReadRight' /\ LineInv'
  BY <1>1, <1>5, <1>8, LineStays DEF StepInv, ReadRight
<1> QED
  BY <1>12, <1>13, <1>16, <1>17 DEF StepInv

\* The next cipher of the writer is one that nobody has had.
LEMMA PrepareWriterStep ==
  ASSUME Framing!PacketsAssumption, StepInv,
         NEW k \in Framing!Kinds, Framing!PrepareWriter(k)
  PROVE  StepInv'
<1> DEFINE c == [kind |-> k, key |-> <<Framing!WriterTag(client), made.writer>>]
<1>1. /\ w.pending = None /\ made.reader = made.writer
      /\ made' = [made EXCEPT !.writer = @ + 1] /\ w' = [w EXCEPT !.pending = c]
      /\ UNCHANGED <<client, r, line, version, wire, got>>
  BY DEF Framing!PrepareWriter
<1>2. w \in EndSet /\ made \in [writer : Nat, reader : Nat] /\ client \in BOOLEAN
  BY DEF StepInv, PacketTyped
<1>3. c \in Framing!Keyed /\ c.key[1] = Framing!WriterTag(client) /\ c.key[2] = made.writer
  BY <1>2 DEF Framing!Keyed, Framing!WriterTag
<1> HIDE DEF c
<1>4. c # None /\ c # Framing!NoCipher /\ Number(c) = made.writer + 1
  BY <1>3, Numbered
<1>5. /\ w' \in EndSet /\ w'.cipher = w.cipher /\ w'.pos = w.pos /\ w'.seq = w.seq /\ w'.pending = c
      /\ made' \in [writer : Nat, reader : Nat]
      /\ made'.writer = made.writer + 1 /\ made'.reader = made.reader
  BY <1>1, <1>2, <1>3 DEF EndSet
<1>6. PacketTyped'
  BY <1>1, <1>5 DEF StepInv, PacketTyped, Legal
<1>7. Counts'
  <2>1. Used' \subseteq Used \cup {c}
    BY <1>1, <1>5 DEF Used
  <2>2. /\ \A x \in Used : Number(x) <= made.writer
        /\ \A x \in Used : x # Framing!NoCipher => x.key[1] = Framing!WriterTag(client)
        /\ \A x, y \in Used : Number(x) = Number(y) => x = y
        /\ Number(w.cipher) = made.writer - (IF w.pending = None THEN 0 ELSE 1)
        /\ Number(r.cipher) = made.reader - (IF r.pending = None THEN 0 ELSE 1)
        /\ r.pending # None => Number(r.pending) = made.reader
    BY DEF StepInv, Counts
  <2>3. \A x \in Used : Number(x) \in Int
    <3>1. Used \subseteq Framing!Keyed \cup {Framing!NoCipher}
      <4>1. \A i \in 1 .. Len(wire) : wire[i].cipher \in Framing!Keyed \cup {Framing!NoCipher}
        <5>1. wire \in Seq(FrameSet)
          BY DEF StepInv, PacketTyped
        <5>2. \A i \in 1 .. Len(wire) : wire[i] \in FrameSet
          BY <5>1
        <5>3. \A p \in FrameSet : p.cipher \in Framing!Keyed \cup {Framing!NoCipher}
          BY DEF FrameSet
        <5> QED
          BY <5>2, <5>3
      <4>2. /\ {w.cipher, r.cipher} \subseteq Framing!Keyed \cup {Framing!NoCipher}
            /\ {w.pending, r.pending} \subseteq Framing!Keyed \cup {None}
        BY DEF StepInv, PacketTyped, EndSet
      <4> QED
        BY <4>1, <4>2 DEF Used
    <3> QED
      BY <3>1, Numbered
  <2>4. \A x \in Used : Number(x) <= made.writer + 1 /\ Number(x) # made.writer + 1
    BY <1>2, <2>2, <2>3
  <2>5. \A x, y \in Used' : Number(x) = Number(y) => x = y
    BY <1>4, <2>1, <2>2, <2>4
  <2>6. \A x \in Used' : /\ Number(x) <= made'.writer
                         /\ x # Framing!NoCipher => x.key[1] = Framing!WriterTag(client)
    BY <1>2, <1>3, <1>4, <1>5, <2>1, <2>2, <2>4
  <2>7. /\ Number(w'.cipher) = made'.writer - 1
        /\ w'.pending # None /\ Number(w'.pending) = made'.writer
    BY <1>1, <1>2, <1>4, <1>5, <2>2
  <2>8. made'.reader \in {made'.writer, made'.writer - 1}
    BY <1>1, <1>2, <1>5
  <2> QED
    BY <1>1, <1>5, <2>2, <2>5, <2>6, <2>7, <2>8 DEF Counts, Number
<1>8. Joined'
  <2>1. /\ r' = r /\ wire' = wire
        /\ \A i \in Nat : Same(At(i), At(i)')
    BY <1>1, <1>5 DEF At, Same
  <2>2. Same(r', At(1)')
    BY <2>1 DEF StepInv, Joined, Same
  <2>3. \A i \in 1 .. Len(wire) : Follows(wire[i], At(i + 1)')
    BY <2>1, FollowsSame DEF StepInv, Joined
  <2>4. \A i \in 1 .. Len(wire') : Follows(wire[i], At(i + 1))'
    BY <2>1, <2>3 DEF Follows, Number
  <2> QED
    BY <2>2, <2>4 DEF Joined, Same
<1>9. ReadRight' /\ LineInv'
  BY <1>1, LineStays DEF StepInv, ReadRight
<1> QED
  BY <1>6, <1>7, <1>8, <1>9 DEF StepInv

\* The reader derives the same cipher as the writer before.
LEMMA PrepareReaderStep ==
  ASSUME Framing!PacketsAssumption, StepInv, Framing!PrepareReader
  PROVE  StepInv'
<1> DEFINE last == IF w.pending # None THEN w.pending ELSE w.cipher
           c == [kind |-> last.kind, key |-> <<Framing!ReaderTag(~client), made.reader>>]
<1>1. /\ r.pending = None /\ made.reader < made.writer
      /\ made' = [made EXCEPT !.reader = @ + 1] /\ r' = [r EXCEPT !.pending = c]
      /\ UNCHANGED <<client, w, line, version, wire, got>>
  BY DEF Framing!PrepareReader
<1>2. /\ w \in EndSet /\ r \in EndSet /\ made \in [writer : Nat, reader : Nat] /\ client \in BOOLEAN
      /\ made.reader = made.writer - 1
  BY <1>1 DEF StepInv, PacketTyped, Counts
<1>3. last \in Used /\ Number(last) = made.writer /\ last \in Framing!Keyed
  <2>1. CASE w.pending # None
    BY <1>2, <2>1 DEF Used, EndSet, StepInv, Counts
  <2>2. CASE w.pending = None
    <3>1. Number(w.cipher) = made.writer
      BY <1>2, <2>2 DEF StepInv, Counts
    <3>2. w.cipher # Framing!NoCipher
      BY <1>1, <1>2, <3>1, Numbered
    <3>3. w.cipher \in Framing!Keyed /\ w.cipher # None
      BY <1>2, <3>2, Numbered DEF EndSet
    <3> QED
      BY <2>2, <3>1, <3>3 DEF Used
  <2> QED
    BY <2>1, <2>2
<1> HIDE DEF last
<1>4. last.key[1] = Framing!WriterTag(client) /\ last.key[2] = made.reader
  <2>1. last.key[2] + 1 = made.writer /\ last.key[2] \in Nat /\ last # Framing!NoCipher
    BY <1>3, Numbered
  <2> QED
    BY <1>2, <1>3, <2>1 DEF StepInv, Counts
<1>5. c = last
  <2>1. Framing!ReaderTag(~client) = Framing!WriterTag(client)
    BY <1>2 DEF Framing!ReaderTag, Framing!WriterTag
  <2>2. last = [kind |-> last.kind, key |-> <<last.key[1], last.key[2]>>]
    BY <1>3 DEF Framing!Keyed
  <2> QED
    BY <1>4, <2>1, <2>2
<1> HIDE DEF c
<1>6. /\ r' \in EndSet /\ r'.cipher = r.cipher /\ r'.pos = r.pos /\ r'.seq = r.seq
      /\ r'.pending = last /\ last # None
      /\ made' \in [writer : Nat, reader : Nat]
      /\ made'.reader = made.writer /\ made'.writer = made.writer
  BY <1>1, <1>2, <1>3, <1>5, Numbered DEF EndSet
<1>7. PacketTyped'
  BY <1>1, <1>6 DEF StepInv, PacketTyped, Legal
<1>8. Counts'
  <2>1. Used' \subseteq Used
    BY <1>1, <1>3, <1>6 DEF Used
  <2>2. Number(r.cipher) = made.reader /\ Number(r'.cipher) = made'.reader - 1
    BY <1>1, <1>2, <1>6 DEF StepInv, Counts
  <2>3. Number(r'.pending) = made'.reader /\ r'.pending # None
    BY <1>3, <1>6
  <2> QED
    BY <1>1, <1>6, <2>1, <2>2, <2>3 DEF StepInv, Counts, Number
<1>9. Joined'
  BY <1>1, <1>6 DEF StepInv, Joined, At, Same, Follows, Number
<1>10. ReadRight' /\ LineInv'
  BY <1>1, LineStays DEF StepInv, ReadRight
<1> QED
  BY <1>7, <1>8, <1>9, <1>10 DEF StepInv

LEMMA StepNext ==
  ASSUME Framing!PacketsAssumption, StepInv, [Framing!Next]_(Framing!vars)
  PROVE  StepInv'
<1>1. CASE UNCHANGED Framing!vars
  <2>1. UNCHANGED <<client, w, r, made, line, version, wire, got>>
    BY <1>1 DEF Framing!vars, Framing!conns
  <2> QED
    BY <2>1, StepStays, LineStays DEF StepInv
<1> QED
  BY <1>1, ReadVersionStep, WriteStep, ReadStep, PrepareWriterStep, PrepareReaderStep
     DEF Framing!Next

LEMMA StepLegal ==
  ASSUME Framing!PacketsAssumption, StepInv
  PROVE  Framing!InStep
<1>1. Framing!FramesLegal
  <2>1. Multiple \in 4 .. 252
    BY DEF Framing!PacketsAssumption, Framing!MinPadding
  <2>2. ASSUME NEW i \in DOMAIN wire
        PROVE  /\ (IF wire[i].cipher.kind = "gcm" THEN wire[i].f.length ELSE wire[i].f.length + 4)
                     % Multiple = 0
               /\ wire[i].f.padding \in 4 .. 4 + Multiple - 1
    BY DEF StepInv, PacketTyped, Legal
  <2>3. \A x \in 4 .. 4 + Multiple - 1 : x < 256
    BY <2>1
  <2> QED
    BY <2>2, <2>3 DEF Framing!FramesLegal, Framing!MinPadding
<1>2. ReadRight /\ VersionRight
  BY DEF StepInv, LineInv
<1> QED
  BY <1>1, <1>2 DEF ReadRight, VersionRight, Framing!InStep

\* Whatever is written is read, with the right key at the right place, and every frame
\* is legal (writePacket and readPacket of the ciphers, prepareKeyChange).
THEOREM AlwaysInStep == Framing!Spec => []InStep
<1>1. Framing!Init => StepInv
  BY StepInit, PartsAssumption
<1>2. StepInv /\ [Framing!Next]_(Framing!vars) => StepInv'
  BY StepNext, PartsAssumption
<1>3. StepInv => InStep
  BY StepLegal, PartsAssumption DEF InStep
<1> QED
  BY <1>1, <1>2, <1>3, PTL DEF Framing!Spec

-----------------------------------------------------------------------------
(* Terminal.                                                               *)

\* Where the line of n calls ago is in the ring.
Place(head, n) == IF head < n THEN head - n + MaxHistory ELSE head - n

\* A ring holds the last elements of s, as many as it has room for, from head backwards.
Holds(g, s) ==
  /\ g.head \in 0..(MaxHistory - 1)
  /\ DOMAIN g.entries = 0..(MaxHistory - 1)
  /\ g.size \in 0..MaxHistory
  /\ \E lines : s \in Seq(lines)
  /\ g.size <= Len(s)
  /\ \A n \in 0..(g.size - 1) : g.entries[Place(g.head, n)] = s[Len(s) - n]
HistoryInv == Holds(ring, entered)

\* The head goes round.
LEMMA HeadGoesRound ==
  ASSUME NEW m \in Nat \ {0}, NEW h \in 0..(m - 1)
  PROVE  (h + 1) % m = IF h + 1 = m THEN 0 ELSE h + 1
<1> DEFINE a == h + 1
<1>1. a \in 0..m /\ a \in Nat /\ m \in Nat /\ m > 0
  OBVIOUS
<1> HIDE DEF a
<1>2. a = m * (a \div m) + (a % m) /\ a % m \in 0..(m - 1) /\ a \div m \in Nat
  BY <1>1
<1>3. a % m = IF a = m THEN 0 ELSE a
  <2> DEFINE d == a \div m
             e == a % m
  <2>1. a = m * d + e /\ e \in 0..(m - 1) /\ d \in Nat
    BY <1>2
  <2> HIDE DEF d, e
  <2>2. CASE d = 0
    <3>1. m * d = 0
      BY <1>1, <2>2
    <3> QED
      BY <1>1, <2>1, <3>1 DEF e
  <2>3. CASE d = 1
    <3>1. m * d = m
      BY <1>1, <2>3
    <3> QED
      BY <1>1, <2>1, <3>1 DEF e
  <2>4. CASE d >= 2
    <3>1. m * d >= m + m
      BY <1>1, <2>1, <2>4
    <3> QED
      BY <1>1, <2>1, <3>1
  <2> QED
    BY <2>1, <2>2, <2>3, <2>4
<1> QED
  BY <1>3 DEF a

\* Every other place moves one back.
LEMMA PlaceMoves ==
  ASSUME MaxHistory \in Nat \ {0}, NEW h \in 0..(MaxHistory - 1), NEW k,
         k = IF h + 1 = MaxHistory THEN 0 ELSE h + 1, NEW n \in 1..(MaxHistory - 1)
  PROVE  /\ Place(k, n) = Place(h, n - 1) /\ Place(k, n) # k
         /\ Place(k, n) \in 0..(MaxHistory - 1)
  BY DEF Place

\* One element more.
OneAfter(s, q, e) ==
  /\ \E lines : q \in Seq(lines)
  /\ Len(q) = Len(s) + 1 /\ q[Len(s) + 1] = e
  /\ \A n \in 1..Len(s) : q[n] = s[n]

\* Append adds it.
LEMMA AppendAdds ==
  ASSUME NEW lines, NEW s \in Seq(lines), NEW e
  PROVE  OneAfter(s, Append(s, e), e)
<1> DEFINE q == Append(s, e)
           all == lines \cup {e}
<1>1. s \in Seq(all) /\ e \in all
  OBVIOUS
<1> HIDE DEF all
<1>2. /\ q \in Seq(all) /\ Len(q) = Len(s) + 1 /\ q[Len(s) + 1] = e
      /\ \A n \in 1..Len(s) : q[n] = s[n]
  BY <1>1
<1> HIDE DEF q
<1>3. OneAfter(s, q, e)
  BY <1>2 DEF OneAfter
<1> QED
  BY <1>3 DEF q

\* RingAdd adds it to the ring.
LEMMA AddHolds ==
  ASSUME MaxHistory \in Nat \ {0}, NEW g, NEW s, Holds(g, s), NEW e, NEW q, OneAfter(s, q, e)
  PROVE  Holds(Editing!RingAdd(g, e), q)
<1> DEFINE h == g.head
           k == (h + 1) % MaxHistory
           m == g.size
           l == Len(s)
           size == IF m < MaxHistory THEN m + 1 ELSE m
           added == [g.entries EXCEPT ![k] = e]
           new == Editing!RingAdd(g, e)
<1>1. /\ h \in 0..(MaxHistory - 1) /\ DOMAIN g.entries = 0..(MaxHistory - 1)
      /\ m \in 0..MaxHistory /\ m <= l /\ l \in Nat
      /\ \A n \in 0..(m - 1) : g.entries[Place(h, n)] = s[l - n]
  BY DEF Holds
<1>2. k = IF h + 1 = MaxHistory THEN 0 ELSE h + 1
  BY <1>1, HeadGoesRound
<1>3. new.head = k /\ new.size = size /\ new.entries = added
  BY DEF Editing!RingAdd
<1>4. /\ \E lines : q \in Seq(lines)
      /\ Len(q) = l + 1 /\ q[l + 1] = e /\ \A n \in 1..l : q[n] = s[n]
  BY DEF OneAfter
<1> HIDE DEF h, k, m, l, size, added, new
<1>5. k \in 0..(MaxHistory - 1) /\ Place(k, 0) = k
  BY <1>1, <1>2 DEF Place
<1>6. /\ DOMAIN added = 0..(MaxHistory - 1) /\ added[k] = e
      /\ \A n \in 0..(MaxHistory - 1) : n # k => added[n] = g.entries[n]
  BY <1>1, <1>5 DEF added
<1>7. size \in 0..MaxHistory /\ size <= l + 1 /\ size <= m + 1
  BY <1>1 DEF size
<1>8. ASSUME NEW n \in 0..(size - 1)
      PROVE  added[Place(k, n)] = q[l + 1 - n]
  <2>1. CASE n = 0
    <3>1. l + 1 - n = l + 1
      BY <1>1, <2>1
    <3> QED
      BY <1>4, <1>5, <1>6, <2>1, <3>1
  <2>2. CASE n # 0
    <3>1. /\ n \in 1..(MaxHistory - 1) /\ n - 1 \in 0..(m - 1)
          /\ l + 1 - n \in 1..l /\ l + 1 - n = l - (n - 1)
      BY <1>1, <1>7, <2>2
    <3>2. Place(k, n) = Place(h, n - 1) /\ Place(k, n) # k /\ Place(k, n) \in 0..(MaxHistory - 1)
      BY <1>1, <1>2, <3>1, PlaceMoves
    <3>3. added[Place(k, n)] = g.entries[Place(h, n - 1)]
      BY <1>6, <3>2
    <3>4. g.entries[Place(h, n - 1)] = s[l - (n - 1)]
      BY <1>1, <3>1
    <3>5. q[l + 1 - n] = s[l + 1 - n]
      BY <1>4, <3>1
    <3> QED
      BY <3>1, <3>3, <3>4, <3>5
  <2> QED
    BY <2>1, <2>2
<1>9. Holds(new, q)
  <2>1. \A n \in 0..(new.size - 1) : new.entries[Place(new.head, n)] = q[Len(q) - n]
    <3> SUFFICES ASSUME NEW n \in 0..(new.size - 1)
        PROVE  new.entries[Place(new.head, n)] = q[Len(q) - n]
      OBVIOUS
    <3>1. n \in 0..(size - 1)
      BY <1>3
    <3>2. added[Place(k, n)] = q[l + 1 - n]
      BY <1>8, <3>1
    <3>3. Place(new.head, n) = Place(k, n) /\ new.entries = added
      BY <1>3
    <3>4. q[Len(q) - n] = q[l + 1 - n]
      <4>1. Len(q) - n = l + 1 - n
        BY <1>1, <1>4, <3>1
      <4> QED
        BY <4>1
    <3> QED
      BY <3>2, <3>3, <3>4
  <2>2. new.head \in 0..(MaxHistory - 1) /\ DOMAIN new.entries = 0..(MaxHistory - 1)
    BY <1>3, <1>5, <1>6
  <2>3. new.size \in 0..MaxHistory /\ new.size <= Len(q)
    BY <1>3, <1>4, <1>7
  <2> QED
    BY <1>4, <2>1, <2>2, <2>3 DEF Holds
<1> QED
  BY <1>9 DEF new

\* An editor starts with an empty history.
LEMMA HistoryInit ==
  ASSUME Editing!TerminalAssumption, Editing!Init
  PROVE  HistoryInv
<1>1. /\ ring.head = 0 /\ ring.size = 0 /\ DOMAIN ring.entries = 0..(MaxHistory - 1)
      /\ entered = <<>> /\ MaxHistory \in Nat \ {0}
  BY DEF Editing!Init, Editing!TerminalAssumption
<1>2. entered \in Seq({}) /\ Len(entered) = 0
  BY <1>1
<1> QED
  BY <1>1, <1>2 DEF HistoryInv, Holds

\* Whatever the keys and the writes in between, only a line that is read with echo
\* enters it.
LEMMA HistoryNext ==
  ASSUME Editing!TerminalAssumption, HistoryInv, [Editing!Next]_(Editing!vars)
  PROVE  HistoryInv'
<1>1. \/ ring' = ring /\ entered' = entered
      \/ ring' = Editing!RingAdd(ring, t.line) /\ entered' = Append(entered, t.line)
  BY DEF Editing!Next, Editing!vars, Editing!Read, Editing!Enter, Editing!EndOfFile, Editing!Paste,
         Editing!Write, Editing!Up, Editing!Down, Editing!Type, Editing!Backspace, Editing!AltLeft,
         Editing!AltRight, Editing!Left, Editing!Right, Editing!Home, Editing!End,
         Editing!DeleteWord, Editing!DeleteAll, Editing!Delete, Editing!DeleteLine,
         Editing!ClearScreen, Editing!Handles, Editing!history
<1>2. CASE ring' = ring /\ entered' = entered
  BY <1>2 DEF HistoryInv
<1>3. CASE ring' = Editing!RingAdd(ring, t.line) /\ entered' = Append(entered, t.line)
  <2>1. MaxHistory \in Nat \ {0}
    BY DEF Editing!TerminalAssumption
  <2>2. \E lines : entered \in Seq(lines)
    BY DEF HistoryInv, Holds
  <2>3. OneAfter(entered, entered', t.line)
    BY <1>3, <2>2, AppendAdds
  <2>4. Holds(Editing!RingAdd(ring, t.line), entered')
    BY <2>1, <2>3, AddHolds DEF HistoryInv
  <2> QED
    BY <1>3, <2>4 DEF HistoryInv
<1> QED
  BY <1>1, <1>2, <1>3

\* The history is the last lines that were read with echo, the latest first, whatever
\* the number of its entries (stRingBuffer, terminal.go:854-892).
THEOREM HistoryAlwaysTrue == Editing!Spec => []Editing!HistoryTrue
<1>1. Editing!Init => HistoryInv
  BY HistoryInit, PartsAssumption
<1>2. HistoryInv /\ [Editing!Next]_(Editing!vars) => HistoryInv'
  BY HistoryNext, PartsAssumption
<1>3. HistoryInv => Editing!HistoryTrue
  <2> SUFFICES ASSUME HistoryInv, NEW n \in 0..(ring.size - 1)
      PROVE  n < Len(entered) /\ Editing!NthPrevious(ring, n) = entered[Len(entered) - n]
    BY DEF Editing!HistoryTrue
  <2>1. n < Len(entered)
    BY DEF HistoryInv, Holds
  <2>2. Editing!NthPrevious(ring, n) = ring.entries[Place(ring.head, n)]
    BY DEF Editing!NthPrevious, Place
  <2> QED
    BY <2>1, <2>2 DEF HistoryInv, Holds
<1> QED
  BY <1>1, <1>2, <1>3, PTL DEF Editing!Spec

=============================================================================
