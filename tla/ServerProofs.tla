---------------------------- MODULE ServerProofs ----------------------------
(***************************************************************************)
(* Proofs, for any number of connections and channels and any buffer       *)
(* sizes, of the safety properties of Server.                              *)
(***************************************************************************)
EXTENDS Server, FiniteSetTheorems, TLAPS

-----------------------------------------------------------------------------
(* Type correctness.                                                       *)

\* An inbox belongs to a connection and holds something.
LEMMA InboxFacts ==
  \A b \in Sent : On(b) \in Conns /\ Capacity(b) \in Nat \ {0}
BY InboxesAssumption, ConnOfAssumption, BufAssumption
DEF Inboxes, ConnInboxes, ChanInboxes, On, Capacity

\* The variables start in their sets.
LEMMA TypingInit == Init => Typing
<1> SUFFICES ASSUME Init PROVE Typing
  OBVIOUS
<1>1. queue \in [Conns -> Seq(Chans)]
  <2>1. <<>> \in Seq(Chans)
    OBVIOUS
  <2> QED
    BY <2>1 DEF Init
<1>2. /\ wg \in Int /\ gwg \in [Conns -> Int] /\ held \in [Sent -> Nat]
      /\ kids \subseteq Tasks /\ ctxDone \subseteq Tasks /\ chanDone \subseteq Chans
      /\ accepted \subseteq Chans
  BY DEF Init
<1> QED
  BY <1>1, <1>2 DEF Init, Typing, StopPCs, LisPCs, ConnPCs, MuxPCs, ChanPCs

\* Every step of the server keeps them there.
LEMMA TypingStep == Typing /\ [Next]_vars => Typing'
<1> SUFFICES ASSUME Typing, [Next]_vars PROVE Typing'
  OBVIOUS
<1> USE ConnOfAssumption DEF Typing, ctxVars, lisVars, connVars, chanVars
<1>1. CASE Start
  BY <1>1 DEF Start, StopPCs, LisPCs, ConnPCs, MuxPCs, ChanPCs, NewTaskContext, Tasks
<1>2. CASE CancelParent
  BY <1>2 DEF CancelParent, StopPCs, LisPCs, ConnPCs, MuxPCs, ChanPCs
<1>3. CASE StopKill
  BY <1>3 DEF StopKill, StopPCs, LisPCs, ConnPCs, MuxPCs, ChanPCs
<1>4. CASE StopWait
  BY <1>4 DEF StopWait, StopPCs, LisPCs, ConnPCs, MuxPCs, ChanPCs
<1>5. CASE StopReturn
  BY <1>5 DEF StopReturn, StopPCs, LisPCs, ConnPCs, MuxPCs, ChanPCs
<1>6. CASE ListenCheck
  BY <1>6 DEF ListenCheck, StopPCs, LisPCs, ConnPCs, MuxPCs, ChanPCs
<1>7. CASE ListenAcceptFails
  BY <1>7 DEF ListenAcceptFails, StopPCs, LisPCs, ConnPCs, MuxPCs, ChanPCs
<1>8. CASE ListenClose
  BY <1>8 DEF ListenClose, StopPCs, LisPCs, ConnPCs, MuxPCs, ChanPCs
<1>9. CASE ListenExit
  BY <1>9 DEF ListenExit, StopPCs, LisPCs, ConnPCs, MuxPCs, ChanPCs
<1>10. ASSUME NEW c \in Conns, ListenAccept(c) PROVE Typing'
  BY <1>10 DEF ListenAccept, StopPCs, LisPCs, ConnPCs, MuxPCs, ChanPCs, NewTaskContext,
     Tasks
<1>11. ASSUME NEW t \in Tasks, CancelTask(t) PROVE Typing'
  BY <1>11 DEF CancelTask, StopPCs, LisPCs, ConnPCs, MuxPCs, ChanPCs, Tasks
<1>12. ASSUME NEW c \in Conns, Connect(c) PROVE Typing'
  BY <1>12 DEF Connect, StopPCs, LisPCs, ConnPCs, MuxPCs, ChanPCs
<1>13. ASSUME NEW c \in Conns, Hangup(c) PROVE Typing'
  BY <1>13 DEF Hangup, StopPCs, LisPCs, ConnPCs, MuxPCs, ChanPCs
<1>14. ASSUME NEW c \in Conns, ExecuteRefuse(c) PROVE Typing'
  BY <1>14 DEF ExecuteRefuse, StopPCs, LisPCs, ConnPCs, MuxPCs, ChanPCs
<1>15. ASSUME NEW c \in Conns, ExecuteBegin(c) PROVE Typing'
  BY <1>15 DEF ExecuteBegin, StopPCs, LisPCs, ConnPCs, MuxPCs, ChanPCs
<1>16. ASSUME NEW c \in Conns, LoopReceive(c) PROVE Typing'
  BY <1>16 DEF LoopReceive, StopPCs, LisPCs, ConnPCs, MuxPCs, ChanPCs, NewChanContext
<1>17. ASSUME NEW c \in Conns, LoopBreak(c) PROVE Typing'
  BY <1>17 DEF LoopBreak, StopPCs, LisPCs, ConnPCs, MuxPCs, ChanPCs
<1>18. ASSUME NEW c \in Conns, ExecuteKill(c) PROVE Typing'
  BY <1>18 DEF ExecuteKill, StopPCs, LisPCs, ConnPCs, MuxPCs, ChanPCs, Tasks
<1>19. ASSUME NEW c \in Conns, ExecuteConnWait(c) PROVE Typing'
  BY <1>19 DEF ExecuteConnWait, StopPCs, LisPCs, ConnPCs, MuxPCs, ChanPCs
<1>20. ASSUME NEW c \in Conns, ExecuteConnClose(c) PROVE Typing'
  BY <1>20 DEF ExecuteConnClose, StopPCs, LisPCs, ConnPCs, MuxPCs, ChanPCs
<1>21. ASSUME NEW c \in Conns, ExecuteGroupWait(c) PROVE Typing'
  BY <1>21 DEF ExecuteGroupWait, StopPCs, LisPCs, ConnPCs, MuxPCs, ChanPCs
<1>22. ASSUME NEW c \in Conns, ExecuteFinish(c) PROVE Typing'
  BY <1>22 DEF ExecuteFinish, StopPCs, LisPCs, ConnPCs, MuxPCs, ChanPCs
<1>23. ASSUME NEW c \in Conns, HandshakeOK(c) PROVE Typing'
  BY <1>23 DEF HandshakeOK, StopPCs, LisPCs, ConnPCs, MuxPCs, ChanPCs
<1>24. ASSUME NEW c \in Conns, HandshakeFail(c) PROVE Typing'
  BY <1>24 DEF HandshakeFail, StopPCs, LisPCs, ConnPCs, MuxPCs, ChanPCs, Tasks
<1>25. ASSUME NEW c \in Conns, MuxStop(c) PROVE Typing'
  BY <1>25 DEF MuxStop, StopPCs, LisPCs, ConnPCs, MuxPCs, ChanPCs
<1>26. ASSUME NEW c \in Conns, MuxExit(c) PROVE Typing'
  BY <1>26 DEF MuxExit, StopPCs, LisPCs, ConnPCs, MuxPCs, ChanPCs
<1>27. ASSUME NEW b \in Sent, MuxSend(b) PROVE Typing'
  BY <1>27, InboxFacts DEF MuxSend, StopPCs, LisPCs, ConnPCs, MuxPCs, ChanPCs
<1>28. ASSUME NEW ch \in Chans, CancelChan(ch) PROVE Typing'
  BY <1>28 DEF CancelChan, StopPCs, LisPCs, ConnPCs, MuxPCs, ChanPCs
<1>29. ASSUME NEW ch \in Chans, MuxOpen(ch) PROVE Typing'
  BY <1>29 DEF MuxOpen, StopPCs, LisPCs, ConnPCs, MuxPCs, ChanPCs
<1>30. ASSUME NEW ch \in Chans, MuxEnqueue(ch) PROVE Typing'
  BY <1>30 DEF MuxEnqueue, StopPCs, LisPCs, ConnPCs, MuxPCs, ChanPCs
<1>31. ASSUME NEW b \in Sent, Receive(b) PROVE Typing'
  BY <1>31, InboxFacts DEF Receive, StopPCs, LisPCs, ConnPCs, MuxPCs, ChanPCs
<1>32. ASSUME NEW ch \in Chans, DispatchRefuse(ch) PROVE Typing'
  BY <1>32 DEF DispatchRefuse, StopPCs, LisPCs, ConnPCs, MuxPCs, ChanPCs
<1>33. ASSUME NEW ch \in Chans, DispatchAccept(ch) PROVE Typing'
  BY <1>33 DEF DispatchAccept, StopPCs, LisPCs, ConnPCs, MuxPCs, ChanPCs
<1>34. ASSUME NEW ch \in Chans, DispatchClose(ch) PROVE Typing'
  BY <1>34 DEF DispatchClose, StopPCs, LisPCs, ConnPCs, MuxPCs, ChanPCs
<1>35. ASSUME NEW ch \in Chans, DispatchDone(ch) PROVE Typing'
  BY <1>35 DEF DispatchDone, StopPCs, LisPCs, ConnPCs, MuxPCs, ChanPCs
<1>36. ASSUME NEW ch \in Chans, HandlerReturn(ch) PROVE Typing'
  BY <1>36 DEF HandlerReturn, StopPCs, LisPCs, ConnPCs, MuxPCs, ChanPCs
<1>37. CASE UNCHANGED vars
  BY <1>37 DEF vars
<1> QED
  BY <1>1, <1>2, <1>3, <1>4, <1>5, <1>6, <1>7, <1>8, <1>9, <1>10, <1>11, <1>12, <1>13,
     <1>14, <1>15, <1>16, <1>17, <1>18, <1>19, <1>20, <1>21, <1>22, <1>23, <1>24,
     <1>25, <1>26, <1>27, <1>28, <1>29, <1>30, <1>31, <1>32, <1>33, <1>34,
     <1>35, <1>36, <1>37
  DEF Next, Owner, ListenStep, Client, ExecuteStep, Handshake, MuxStep, MuxChan,
      DispatchStep, Inbox, Stopped

\* A blocked send keeps its mux at the request it reads.
LEMMA InboxStep ==
  Typing /\ ConnShape /\ InboxShape /\ [Next]_vars => InboxShape'
<1> SUFFICES ASSUME Typing, ConnShape, InboxShape, [Next]_vars PROVE InboxShape'
  OBVIOUS
<1> USE ConnOfAssumption, InboxFacts DEF InboxShape, Typing, ctxVars, lisVars,
   connVars, chanVars
<1>1. CASE Owner
  BY <1>1 DEF Owner, Start, CancelParent, StopKill, StopWait, StopReturn
<1>2. CASE ListenStep
  BY <1>2 DEF ListenStep, ListenCheck, ListenAccept, ListenAcceptFails, ListenClose,
     ListenExit
<1>3. ASSUME NEW t \in Tasks, CancelTask(t) PROVE InboxShape'
  BY <1>3 DEF CancelTask
<1>4. ASSUME NEW c \in Conns, Client(c) PROVE InboxShape'
  BY <1>4 DEF Client, Connect, Hangup
<1>5. ASSUME NEW c \in Conns, ExecuteStep(c) PROVE InboxShape'
  BY <1>5 DEF ExecuteStep, ExecuteRefuse, ExecuteBegin, LoopReceive, LoopBreak,
     ExecuteKill, ExecuteConnWait, ExecuteConnClose, ExecuteGroupWait, ExecuteFinish
<1>6. ASSUME NEW c \in Conns, Handshake(c) PROVE InboxShape'
  BY <1>6 DEF Handshake, HandshakeOK, HandshakeFail, ConnShape
<1>7. ASSUME NEW c \in Conns, MuxStep(c) PROVE InboxShape'
  BY <1>7 DEF MuxStep, MuxStop, MuxExit
<1>8. ASSUME NEW ch \in Chans, CancelChan(ch) PROVE InboxShape'
  BY <1>8 DEF CancelChan
<1>9. ASSUME NEW ch \in Chans, MuxChan(ch) PROVE InboxShape'
  <2>1. CASE MuxOpen(ch)
    BY <2>1 DEF MuxOpen
  <2>2. CASE MuxEnqueue(ch)
    BY <2>2 DEF MuxEnqueue
  <2> QED
    BY <1>9, <2>1, <2>2 DEF MuxChan
<1>10. ASSUME NEW ch \in Chans, DispatchStep(ch) PROVE InboxShape'
  BY <1>10 DEF DispatchStep, DispatchRefuse, DispatchAccept, DispatchClose, DispatchDone
<1>11. ASSUME NEW ch \in Chans, HandlerReturn(ch) PROVE InboxShape'
  BY <1>11 DEF HandlerReturn
<1>12. ASSUME NEW b \in Sent, Inbox(b) PROVE InboxShape'
  <2>1. CASE MuxSend(b)
    BY <2>1 DEF MuxSend
  <2>2. CASE Receive(b)
    BY <2>2 DEF Receive
  <2> QED
    BY <1>12, <2>1, <2>2 DEF Inbox
<1>13. CASE UNCHANGED vars
  BY <1>13 DEF vars
<1> QED
  BY <1>1, <1>2, <1>3, <1>4, <1>5, <1>6, <1>7, <1>8, <1>9, <1>10, <1>11, <1>12, <1>13
     DEF Next, Stopped

\* The socket and the mux of a connection follow its Execute.
LEMMA ConnStep ==
  Typing /\ InboxShape /\ DispatchShape /\ ConnShape /\ [Next]_vars => ConnShape'
<1> SUFFICES ASSUME Typing, InboxShape, DispatchShape, ConnShape, [Next]_vars
    PROVE ConnShape'
  OBVIOUS
<1> USE ConnOfAssumption DEF ConnShape, Typing, ctxVars, lisVars, connVars, chanVars
<1>1. CASE Owner
  BY <1>1 DEF Owner, Start, CancelParent, StopKill, StopWait, StopReturn
<1>2. CASE ListenStep
  BY <1>2 DEF ListenStep, ListenCheck, ListenAccept, ListenAcceptFails, ListenClose,
     ListenExit
<1>3. ASSUME NEW t \in Tasks, CancelTask(t) PROVE ConnShape'
  BY <1>3 DEF CancelTask
<1>4. ASSUME NEW c \in Conns, Client(c) PROVE ConnShape'
  BY <1>4 DEF Client, Connect, Hangup
<1>5. ASSUME NEW c \in Conns, ExecuteStep(c) PROVE ConnShape'
  BY <1>5 DEF ExecuteStep, ExecuteRefuse, ExecuteBegin, LoopReceive, LoopBreak,
     ExecuteKill, ExecuteConnWait, ExecuteConnClose, ExecuteGroupWait, ExecuteFinish
<1>6. ASSUME NEW c \in Conns, Handshake(c) PROVE ConnShape'
  <2>1. CASE HandshakeOK(c)
    BY <2>1 DEF HandshakeOK
  <2>2. CASE HandshakeFail(c)
    BY <2>2 DEF HandshakeFail
  <2> QED
    BY <1>6, <2>1, <2>2 DEF Handshake
<1>7. ASSUME NEW c \in Conns, MuxStep(c) PROVE ConnShape'
  <2>1. CASE MuxStop(c)
    BY <2>1 DEF MuxStop
  <2>2. CASE MuxExit(c)
    BY <2>2 DEF MuxExit
  <2> QED
    BY <1>7, <2>1, <2>2 DEF MuxStep
<1>8. ASSUME NEW ch \in Chans, CancelChan(ch) PROVE ConnShape'
  BY <1>8 DEF CancelChan
<1>9. ASSUME NEW ch \in Chans, MuxChan(ch) PROVE ConnShape'
  <2>1. CASE MuxOpen(ch)
    BY <2>1 DEF MuxOpen
  <2>2. CASE MuxEnqueue(ch)
    BY <2>2 DEF MuxEnqueue
  <2> QED
    BY <1>9, <2>1, <2>2 DEF MuxChan
<1>10. ASSUME NEW ch \in Chans, DispatchStep(ch) PROVE ConnShape'
  <2>1. CASE DispatchRefuse(ch)
    BY <2>1 DEF DispatchRefuse
  <2>2. CASE DispatchAccept(ch)
    BY <2>2 DEF DispatchAccept
  <2>3. CASE DispatchClose(ch)
    BY <2>3 DEF DispatchClose, DispatchShape, Dispatching
  <2>4. CASE DispatchDone(ch)
    BY <2>4 DEF DispatchDone
  <2> QED
    BY <1>10, <2>1, <2>2, <2>3, <2>4 DEF DispatchStep
<1>11. ASSUME NEW ch \in Chans, HandlerReturn(ch) PROVE ConnShape'
  BY <1>11 DEF HandlerReturn
<1>12. ASSUME NEW b \in Sent, Inbox(b) PROVE ConnShape'
  <2>1. CASE MuxSend(b)
    BY <2>1, InboxFacts DEF MuxSend
  <2>2. CASE Receive(b)
    <3>1. held[b] > Capacity(b) => mux[On(b)] = "send"
      BY DEF InboxShape
    <3> QED
      BY <2>2, <3>1, InboxFacts DEF Receive
  <2> QED
    BY <1>12, <2>1, <2>2 DEF Inbox
<1>13. CASE UNCHANGED vars
  BY <1>13 DEF vars
<1> QED
  BY <1>1, <1>2, <1>3, <1>4, <1>5, <1>6, <1>7, <1>8, <1>9, <1>10, <1>11, <1>12, <1>13
     DEF Next, Stopped

\* The listening socket is closed by listen's own return.
LEMMA ListenShapeStep ==
  Typing /\ ListenShape /\ [Next]_vars => ListenShape'
<1> SUFFICES ASSUME Typing, ListenShape, [Next]_vars PROVE ListenShape'
  OBVIOUS
<1> USE DEF ListenShape, Typing, ctxVars, lisVars, connVars, chanVars
<1>1. CASE Owner
  BY <1>1 DEF Owner, Start, CancelParent, StopKill, StopWait, StopReturn
<1>2. CASE ListenStep
  BY <1>2 DEF ListenStep, ListenCheck, ListenAccept, ListenAcceptFails, ListenClose,
     ListenExit
<1>3. ASSUME NEW t \in Tasks, CancelTask(t) PROVE ListenShape'
  BY <1>3 DEF CancelTask
<1>4. ASSUME NEW c \in Conns, Client(c) PROVE ListenShape'
  BY <1>4 DEF Client, Connect, Hangup
<1>5. ASSUME NEW c \in Conns, ExecuteStep(c) PROVE ListenShape'
  BY <1>5 DEF ExecuteStep, ExecuteRefuse, ExecuteBegin, LoopReceive, LoopBreak,
     ExecuteKill, ExecuteConnWait, ExecuteConnClose, ExecuteGroupWait, ExecuteFinish
<1>6. ASSUME NEW c \in Conns, Handshake(c) PROVE ListenShape'
  BY <1>6 DEF Handshake, HandshakeOK, HandshakeFail
<1>7. ASSUME NEW c \in Conns, MuxStep(c) PROVE ListenShape'
  BY <1>7 DEF MuxStep, MuxStop, MuxExit
<1>8. ASSUME NEW ch \in Chans, CancelChan(ch) PROVE ListenShape'
  BY <1>8 DEF CancelChan
<1>9. ASSUME NEW ch \in Chans, MuxChan(ch) PROVE ListenShape'
  BY <1>9 DEF MuxChan, MuxOpen, MuxEnqueue
<1>10. ASSUME NEW ch \in Chans, DispatchStep(ch) PROVE ListenShape'
  BY <1>10 DEF DispatchStep, DispatchRefuse, DispatchAccept, DispatchClose, DispatchDone
<1>11. ASSUME NEW ch \in Chans, HandlerReturn(ch) PROVE ListenShape'
  BY <1>11 DEF HandlerReturn
<1>12. ASSUME NEW b \in Sent, Inbox(b) PROVE ListenShape'
  BY <1>12 DEF Inbox, MuxSend, Receive
<1>13. CASE UNCHANGED vars
  BY <1>13 DEF vars
<1> QED
  BY <1>1, <1>2, <1>3, <1>4, <1>5, <1>6, <1>7, <1>8, <1>9, <1>10, <1>11, <1>12, <1>13
     DEF Next, Stopped

\* A channel has been opened only if its connection has, or had, a mux.
LEMMA OpenStep ==
  Typing /\ QueueShape /\ OpenShape /\ [Next]_vars => OpenShape'
<1> SUFFICES ASSUME Typing, QueueShape, OpenShape, [Next]_vars PROVE OpenShape'
  OBVIOUS
<1> USE ConnOfAssumption DEF OpenShape, Typing, ctxVars, lisVars, connVars, chanVars
<1>1. CASE Owner
  BY <1>1 DEF Owner, Start, CancelParent, StopKill, StopWait, StopReturn
<1>2. CASE ListenStep
  BY <1>2 DEF ListenStep, ListenCheck, ListenAccept, ListenAcceptFails, ListenClose,
     ListenExit
<1>3. ASSUME NEW t \in Tasks, CancelTask(t) PROVE OpenShape'
  BY <1>3 DEF CancelTask
<1>4. ASSUME NEW c \in Conns, Client(c) PROVE OpenShape'
  BY <1>4 DEF Client, Connect, Hangup
<1>5. ASSUME NEW c \in Conns, ExecuteStep(c) PROVE OpenShape'
  <2>1. CASE LoopReceive(c)
    <3>1. /\ queue[c] \in Seq(Chans) /\ Len(queue[c]) \in Nat \ {0}
          /\ Head(queue[c]) = queue[c][1]
      BY <2>1 DEF LoopReceive
    <3>2. Head(queue[c]) \in Chans /\ chan[Head(queue[c])] = "queued"
      BY <3>1 DEF QueueShape
    <3> QED
      BY <2>1, <3>2 DEF LoopReceive
  <2>2. CASE ~LoopReceive(c)
    BY <1>5, <2>2 DEF ExecuteStep, ExecuteRefuse, ExecuteBegin, LoopBreak, ExecuteKill,
       ExecuteConnWait, ExecuteConnClose, ExecuteGroupWait, ExecuteFinish
  <2> QED
    BY <2>1, <2>2
<1>6. ASSUME NEW c \in Conns, Handshake(c) PROVE OpenShape'
  BY <1>6 DEF Handshake, HandshakeOK, HandshakeFail
<1>7. ASSUME NEW c \in Conns, MuxStep(c) PROVE OpenShape'
  BY <1>7 DEF MuxStep, MuxStop, MuxExit
<1>8. ASSUME NEW ch \in Chans, CancelChan(ch) PROVE OpenShape'
  BY <1>8 DEF CancelChan
<1>9. ASSUME NEW ch \in Chans, MuxChan(ch) PROVE OpenShape'
  <2>1. CASE MuxOpen(ch)
    BY <2>1 DEF MuxOpen
  <2>2. CASE MuxEnqueue(ch)
    BY <2>2 DEF MuxEnqueue
  <2> QED
    BY <1>9, <2>1, <2>2 DEF MuxChan
<1>10. ASSUME NEW ch \in Chans, DispatchStep(ch) PROVE OpenShape'
  BY <1>10 DEF DispatchStep, DispatchRefuse, DispatchAccept, DispatchClose, DispatchDone
<1>11. ASSUME NEW ch \in Chans, HandlerReturn(ch) PROVE OpenShape'
  BY <1>11 DEF HandlerReturn
<1>12. ASSUME NEW b \in Sent, Inbox(b) PROVE OpenShape'
  BY <1>12 DEF Inbox, MuxSend, Receive
<1>13. CASE UNCHANGED vars
  BY <1>13 DEF vars
<1> QED
  BY <1>1, <1>2, <1>3, <1>4, <1>5, <1>6, <1>7, <1>8, <1>9, <1>10, <1>11, <1>12, <1>13
     DEF Next, Stopped

\* The goroutines a wait group counts are finitely many.
LEMMA LiveFinite ==
  ASSUME Typing
  PROVE  /\ IsFiniteSet(LiveTasks)
         /\ \A c \in Conns : IsFiniteSet(LiveChans(c))
<1>1. IsFiniteSet(Tasks)
  BY ConnsAssumption, FS_AddElement DEF Tasks
<1>2. LiveTasks \subseteq Tasks
  BY DEF LiveTasks, LiveConns, Tasks
<1>3. \A c \in Conns : LiveChans(c) \subseteq Chans
  BY DEF LiveChans
<1> QED
  BY <1>1, <1>2, <1>3, ConnsAssumption, FS_Subset

\* Execute does not end before the Dispatch goroutines it spawned.
LEMMA DispatchShapeStep ==
  /\ Typing /\ ConnShape /\ QueueShape /\ WaitGroupExact /\ DispatchShape
  /\ [Next]_vars
  => DispatchShape'
<1> SUFFICES ASSUME Typing, ConnShape, QueueShape, WaitGroupExact, DispatchShape,
   [Next]_vars PROVE DispatchShape'
  OBVIOUS
<1> USE ConnOfAssumption DEF DispatchShape, Dispatching, Typing, ctxVars, lisVars,
   connVars, chanVars
<1>1. CASE Owner
  BY <1>1 DEF Owner, Start, CancelParent, StopKill, StopWait, StopReturn
<1>2. CASE ListenStep
  BY <1>2 DEF ListenStep, ListenCheck, ListenAccept, ListenAcceptFails, ListenClose,
     ListenExit, ConnShape
<1>3. ASSUME NEW t \in Tasks, CancelTask(t) PROVE DispatchShape'
  BY <1>3 DEF CancelTask
<1>4. ASSUME NEW c \in Conns, Client(c) PROVE DispatchShape'
  BY <1>4 DEF Client, Connect, Hangup
<1>5. ASSUME NEW c \in Conns, ExecuteStep(c) PROVE DispatchShape'
  <2>1. CASE ExecuteRefuse(c)
    BY <2>1 DEF ExecuteRefuse
  <2>2. CASE ExecuteBegin(c)
    BY <2>2 DEF ExecuteBegin
  <2>3. CASE LoopReceive(c)
    <3>1. queue[c] \in Seq(Chans) /\ Len(queue[c]) > 0
      BY <2>3 DEF LoopReceive
    <3>2. Head(queue[c]) \in Chans /\ ConnOf[Head(queue[c])] = c
      BY <3>1 DEF QueueShape
    <3> QED
      BY <2>3, <3>2 DEF LoopReceive
  <2>4. CASE LoopBreak(c)
    BY <2>4 DEF LoopBreak
  <2>5. CASE ExecuteKill(c)
    BY <2>5 DEF ExecuteKill
  <2>6. CASE ExecuteConnWait(c)
    BY <2>6 DEF ExecuteConnWait
  <2>7. CASE ExecuteConnClose(c)
    BY <2>7 DEF ExecuteConnClose
  <2>8. CASE ExecuteGroupWait(c)
    <3>1. LiveChans(c) = {}
      BY <2>8, LiveFinite, FS_EmptySet DEF ExecuteGroupWait, WaitGroupExact
    <3> QED
      BY <2>8, <3>1 DEF ExecuteGroupWait, LiveChans
  <2>9. CASE ExecuteFinish(c)
    BY <2>9 DEF ExecuteFinish
  <2> QED
    BY <1>5, <2>1, <2>2, <2>3, <2>4, <2>5, <2>6, <2>7, <2>8, <2>9 DEF ExecuteStep
<1>6. ASSUME NEW c \in Conns, Handshake(c) PROVE DispatchShape'
  BY <1>6 DEF Handshake, HandshakeOK, HandshakeFail
<1>7. ASSUME NEW c \in Conns, MuxStep(c) PROVE DispatchShape'
  BY <1>7 DEF MuxStep, MuxStop, MuxExit
<1>8. ASSUME NEW ch \in Chans, CancelChan(ch) PROVE DispatchShape'
  BY <1>8 DEF CancelChan
<1>9. ASSUME NEW ch \in Chans, MuxChan(ch) PROVE DispatchShape'
  BY <1>9 DEF MuxChan, MuxOpen, MuxEnqueue
<1>10. ASSUME NEW ch \in Chans, DispatchStep(ch) PROVE DispatchShape'
  BY <1>10 DEF DispatchStep, DispatchRefuse, DispatchAccept, DispatchClose, DispatchDone
<1>11. ASSUME NEW ch \in Chans, HandlerReturn(ch) PROVE DispatchShape'
  BY <1>11 DEF HandlerReturn
<1>12. ASSUME NEW b \in Sent, Inbox(b) PROVE DispatchShape'
  BY <1>12 DEF Inbox, MuxSend, Receive
<1>13. CASE UNCHANGED vars
  BY <1>13 DEF vars
<1> QED
  BY <1>1, <1>2, <1>3, <1>4, <1>5, <1>6, <1>7, <1>8, <1>9, <1>10, <1>11, <1>12, <1>13
     DEF Next, Stopped

\* Reading the tail of a sequence, and a sequence with one more element.
LEMMA TailAppend ==
  ASSUME NEW S, NEW s \in Seq(S), NEW x \in S
  PROVE  /\ \A i \in 1..Len(s) : s[i] \in S
         /\ Append(s, x) \in Seq(S)
         /\ Len(Append(s, x)) = Len(s) + 1
         /\ Append(s, x)[Len(s) + 1] = x
         /\ \A i \in 1..Len(s) : Append(s, x)[i] = s[i]
         /\ s # <<>> => /\ Len(s) \in Nat \ {0}
                        /\ Head(s) = s[1]
                        /\ Tail(s) \in Seq(S)
                        /\ Len(Tail(s)) = Len(s) - 1
                        /\ \A i \in 1..(Len(s) - 1) : Tail(s)[i] = s[i + 1]
OBVIOUS

\* A step that moves no channel into or out of the state "queued".
LEMMA QueueFrame ==
  ASSUME Typing, QueueShape, queue' = queue,
         \A ch \in Chans : (chan'[ch] = "queued") <=> (chan[ch] = "queued")
  PROVE  QueueShape'
<1>1. \A c \in Conns : \A i \in 1..Len(queue[c]) : queue[c][i] \in Chans
  BY DEF Typing
<1> QED
  BY <1>1, ConnOfAssumption DEF QueueShape

\* The head of a queue leaves it and is dispatched.
LEMMA QueueTakes ==
  ASSUME Typing, QueueShape, NEW c \in Conns, LoopReceive(c)
  PROVE  QueueShape'
<1> DEFINE q == queue[c]
           n == Len(q)
           h == Head(q)
<1>1. /\ q \in Seq(Chans) /\ q # <<>>
      /\ queue' = [queue EXCEPT ![c] = Tail(q)]
      /\ chan' = [chan EXCEPT ![h] = "spawned"]
  BY DEF LoopReceive, Typing
<1>2. /\ n \in Nat \ {0} /\ h = q[1]
      /\ \A i \in 1..n : q[i] \in Chans
      /\ Len(Tail(q)) = n - 1
      /\ \A i \in 1..(n - 1) : Tail(q)[i] = q[i + 1]
  BY <1>1, TailAppend
<1>3. /\ \A i \in 1..n : ConnOf[q[i]] = c /\ chan[q[i]] = "queued"
      /\ \A i, j \in 1..n : q[i] = q[j] => i = j
  BY DEF QueueShape
<1>4. h \in Chans /\ ConnOf[h] = c
  BY <1>2, <1>3
<1>5. /\ queue'[c] = Tail(q)
      /\ \A d \in Conns : d # c => queue'[d] = queue[d]
      /\ \A x \in Chans : chan'[x] = IF x = h THEN "spawned" ELSE chan[x]
  BY <1>1, <1>4 DEF Typing
<1>6. ASSUME NEW d \in Conns, NEW i \in 1..Len(queue'[d])
      PROVE  /\ ConnOf[queue'[d][i]] = d
             /\ chan'[queue'[d][i]] = "queued"
             /\ \A j \in 1..Len(queue'[d]) : queue'[d][i] = queue'[d][j] => i = j
  <2>1. CASE d = c
    <3>1. queue'[d] = Tail(q) /\ Len(queue'[d]) = n - 1
      BY <1>2, <1>5, <2>1
    <3>2. i \in 1..(n - 1)
      BY <1>6, <3>1
    <3>3. \A j \in 1..(n - 1) : queue'[d][j] = q[j + 1] /\ j + 1 \in 1..n /\ j + 1 # 1
      BY <1>2, <3>1
    <3>4. \A j \in 1..(n - 1) : q[j + 1] \in Chans /\ q[j + 1] # h
      <4> SUFFICES ASSUME NEW j \in 1..(n - 1), q[j + 1] = h PROVE FALSE
        BY <1>2, <3>3
      <4>1. j + 1 \in 1..n /\ 1 \in 1..n /\ q[j + 1] = q[1]
        BY <1>2, <3>3
      <4>2. j + 1 = 1
        BY <1>3, <4>1
      <4> QED
        BY <3>3, <4>2
    <3>5. \A j \in 1..(n - 1) : q[i + 1] = q[j + 1] => i = j
      <4> SUFFICES ASSUME NEW j \in 1..(n - 1), q[i + 1] = q[j + 1] PROVE i = j
        OBVIOUS
      <4>1. i + 1 = j + 1
        BY <1>3, <3>2, <3>3
      <4> QED
        BY <1>2, <3>2, <4>1
    <3>6. /\ queue'[d][i] \in Chans
          /\ ConnOf[queue'[d][i]] = c
          /\ chan'[queue'[d][i]] = "queued"
      BY <1>3, <1>5, <3>2, <3>3, <3>4
    <3> QED
      BY <2>1, <3>1, <3>2, <3>3, <3>5, <3>6
  <2>2. CASE d # c
    <3>1. queue'[d] = queue[d] /\ queue[d] \in Seq(Chans)
      BY <1>5, <2>2 DEF Typing
    <3>2. queue[d][i] \in Chans /\ queue[d][i] # h
      BY <1>4, <2>2, <3>1, <1>6 DEF QueueShape
    <3> QED
      BY <1>5, <1>6, <3>1, <3>2 DEF QueueShape
  <2> QED
    BY <2>1, <2>2
<1>7. ASSUME NEW x \in Chans, chan'[x] = "queued"
      PROVE  \E i \in 1..Len(queue'[ConnOf[x]]) : queue'[ConnOf[x]][i] = x
  <2>1. x # h /\ chan[x] = "queued" /\ ConnOf[x] \in Conns
    BY <1>5, <1>7, ConnOfAssumption
  <2>2. PICK k \in 1..Len(queue[ConnOf[x]]) : queue[ConnOf[x]][k] = x
    BY <2>1 DEF QueueShape
  <2>3. CASE ConnOf[x] = c
    <3>1. k \in 1..n /\ q[k] = x /\ k # 1
      BY <1>2, <2>1, <2>2, <2>3
    <3>2. k - 1 \in 1..(n - 1) /\ Tail(q)[k - 1] = q[(k - 1) + 1] /\ (k - 1) + 1 = k
      BY <1>2, <3>1
    <3> QED
      BY <1>2, <1>5, <2>3, <3>1, <3>2
  <2>4. CASE ConnOf[x] # c
    BY <1>5, <2>1, <2>2, <2>4
  <2> QED
    BY <2>3, <2>4
<1> QED
  BY <1>6, <1>7 DEF QueueShape

\* A channel that was being opened is added at the end of its queue.
LEMMA QueueAdds ==
  ASSUME Typing, QueueShape, NEW ch \in Chans, MuxEnqueue(ch)
  PROVE  QueueShape'
<1> DEFINE c == ConnOf[ch]
           q == queue[c]
           n == Len(q)
<1>1. /\ c \in Conns /\ q \in Seq(Chans) /\ chan[ch] = "opening"
      /\ queue' = [queue EXCEPT ![c] = Append(q, ch)]
      /\ chan' = [chan EXCEPT ![ch] = "queued"]
  BY ConnOfAssumption DEF MuxEnqueue, Typing
<1>2. /\ n \in Nat
      /\ Len(Append(q, ch)) = n + 1
      /\ Append(q, ch)[n + 1] = ch
      /\ \A i \in 1..n : q[i] \in Chans /\ Append(q, ch)[i] = q[i]
  BY <1>1, TailAppend
<1>3. /\ queue'[c] = Append(q, ch)
      /\ \A d \in Conns : d # c => queue'[d] = queue[d]
      /\ \A x \in Chans : chan'[x] = IF x = ch THEN "queued" ELSE chan[x]
  BY <1>1 DEF Typing
<1>4. \A i \in 1..n : /\ ConnOf[q[i]] = c /\ chan[q[i]] = "queued" /\ q[i] # ch
                      /\ \A j \in 1..n : q[i] = q[j] => i = j
  BY <1>1 DEF QueueShape
<1>5. ASSUME NEW d \in Conns, NEW i \in 1..Len(queue'[d])
      PROVE  /\ ConnOf[queue'[d][i]] = d
             /\ chan'[queue'[d][i]] = "queued"
             /\ \A j \in 1..Len(queue'[d]) : queue'[d][i] = queue'[d][j] => i = j
  <2>1. CASE d = c
    <3>1. \A j \in 1..(n + 1) : j \in 1..n \/ j = n + 1
      BY <1>2
    <3>2. Len(queue'[d]) = n + 1 /\ i \in 1..(n + 1)
      BY <1>2, <1>3, <2>1
    <3>3. \A j \in 1..n : queue'[d][j] = q[j] /\ j # n + 1
      BY <1>2, <1>3, <2>1
    <3>4. queue'[d][n + 1] = ch
      BY <1>2, <1>3, <2>1
    <3>5. CASE i = n + 1
      BY <1>3, <1>4, <2>1, <3>1, <3>2, <3>3, <3>4, <3>5
    <3>6. CASE i \in 1..n
      <4>1. /\ queue'[d][i] \in Chans /\ queue'[d][i] = q[i]
            /\ ConnOf[q[i]] = c /\ chan'[q[i]] = "queued"
        BY <1>2, <1>3, <1>4, <3>3, <3>6
      <4>2. ASSUME NEW j \in 1..(n + 1), queue'[d][i] = queue'[d][j] PROVE i = j
        <5>1. j \in 1..n
          BY <1>4, <3>1, <3>4, <3>6, <4>1, <4>2
        <5> QED
          BY <1>4, <3>3, <3>6, <4>1, <4>2, <5>1
      <4> QED
        BY <2>1, <3>2, <4>1, <4>2
    <3> QED
      BY <3>1, <3>2, <3>5, <3>6
  <2>2. CASE d # c
    <3>1. queue'[d] = queue[d] /\ queue[d] \in Seq(Chans)
      BY <1>3, <2>2 DEF Typing
    <3>2. queue[d][i] \in Chans
      BY <1>5, <3>1
    <3> QED
      BY <1>3, <1>5, <3>1, <3>2 DEF QueueShape
  <2> QED
    BY <2>1, <2>2
<1>6. ASSUME NEW x \in Chans, chan'[x] = "queued"
      PROVE  \E i \in 1..Len(queue'[ConnOf[x]]) : queue'[ConnOf[x]][i] = x
  <2>1. CASE x = ch
    <3>1. n + 1 \in 1..Len(queue'[c]) /\ queue'[c][n + 1] = ch
      BY <1>2, <1>3
    <3> QED
      BY <2>1, <3>1
  <2>2. CASE x # ch
    <3>1. chan[x] = "queued" /\ ConnOf[x] \in Conns
      BY <1>3, <1>6, <2>2, ConnOfAssumption
    <3>2. PICK k \in 1..Len(queue[ConnOf[x]]) : queue[ConnOf[x]][k] = x
      BY <3>1 DEF QueueShape
    <3>3. CASE ConnOf[x] = c
      <4>1. k \in 1..n /\ k \in 1..(n + 1) /\ q[k] = x
        BY <1>2, <3>2, <3>3
      <4> QED
        BY <1>2, <1>3, <3>3, <4>1
    <3>4. CASE ConnOf[x] # c
      BY <1>3, <3>1, <3>2, <3>4
    <3> QED
      BY <3>3, <3>4
  <2> QED
    BY <2>1, <2>2
<1> QED
  BY <1>5, <1>6 DEF QueueShape

\* No step loses a queued channel or queues one twice.
LEMMA QueueStep ==
  Typing /\ QueueShape /\ [Next]_vars => QueueShape'
<1> SUFFICES ASSUME Typing, QueueShape, [Next]_vars PROVE QueueShape'
  OBVIOUS
<1> USE QueueFrame DEF ctxVars, lisVars, connVars, chanVars
<1>1. CASE Owner
  BY <1>1 DEF Owner, Start, CancelParent, StopKill, StopWait, StopReturn
<1>2. CASE ListenStep
  BY <1>2 DEF ListenStep, ListenCheck, ListenAccept, ListenAcceptFails, ListenClose,
     ListenExit
<1>3. ASSUME NEW t \in Tasks, CancelTask(t) PROVE QueueShape'
  BY <1>3 DEF CancelTask
<1>4. ASSUME NEW c \in Conns, Client(c) PROVE QueueShape'
  BY <1>4 DEF Client, Connect, Hangup
<1>5. ASSUME NEW c \in Conns, ExecuteStep(c) PROVE QueueShape'
  <2>1. CASE ExecuteRefuse(c)
    BY <2>1 DEF ExecuteRefuse
  <2>2. CASE ExecuteBegin(c)
    BY <2>2 DEF ExecuteBegin
  <2>3. CASE LoopReceive(c)
    BY <2>3, QueueTakes
  <2>4. CASE LoopBreak(c)
    BY <2>4 DEF LoopBreak
  <2>5. CASE ExecuteKill(c)
    BY <2>5 DEF ExecuteKill
  <2>6. CASE ExecuteConnWait(c)
    BY <2>6 DEF ExecuteConnWait
  <2>7. CASE ExecuteConnClose(c)
    BY <2>7 DEF ExecuteConnClose
  <2>8. CASE ExecuteGroupWait(c)
    BY <2>8 DEF ExecuteGroupWait
  <2>9. CASE ExecuteFinish(c)
    BY <2>9 DEF ExecuteFinish
  <2> QED
    BY <1>5, <2>1, <2>2, <2>3, <2>4, <2>5, <2>6, <2>7, <2>8, <2>9 DEF ExecuteStep
<1>6. ASSUME NEW c \in Conns, Handshake(c) PROVE QueueShape'
  BY <1>6 DEF Handshake, HandshakeOK, HandshakeFail
<1>7. ASSUME NEW c \in Conns, MuxStep(c) PROVE QueueShape'
  BY <1>7 DEF MuxStep, MuxStop, MuxExit
<1>8. ASSUME NEW ch \in Chans, CancelChan(ch) PROVE QueueShape'
  BY <1>8 DEF CancelChan
<1>9. ASSUME NEW ch \in Chans, MuxChan(ch) PROVE QueueShape'
  <2>1. CASE MuxOpen(ch)
    BY <2>1 DEF MuxOpen, Typing
  <2>2. CASE MuxEnqueue(ch)
    BY <2>2, QueueAdds
  <2> QED
    BY <1>9, <2>1, <2>2 DEF MuxChan
<1>10. ASSUME NEW ch \in Chans, DispatchStep(ch) PROVE QueueShape'
  BY <1>10 DEF Typing, DispatchStep, DispatchRefuse, DispatchAccept, DispatchClose,
     DispatchDone
<1>11. ASSUME NEW ch \in Chans, HandlerReturn(ch) PROVE QueueShape'
  BY <1>11 DEF HandlerReturn, Typing
<1>12. ASSUME NEW b \in Sent, Inbox(b) PROVE QueueShape'
  BY <1>12 DEF Inbox, MuxSend, Receive, Typing
<1>13. CASE UNCHANGED vars
  BY <1>13 DEF vars
<1> QED
  BY <1>1, <1>2, <1>3, <1>4, <1>5, <1>6, <1>7, <1>8, <1>9, <1>10, <1>11, <1>12, <1>13
     DEF Next, Stopped

\* A wait group stays exact if it moves with the set of goroutines it counts.
LEMMA Counted ==
  ASSUME NEW S, NEW T, IsFiniteSet(S), NEW n \in Int, NEW m \in Int,
         n = Cardinality(S),
         \/ T = S /\ m = n
         \/ \E x : x \notin S /\ T = S \cup {x} /\ m = n + 1
         \/ \E x \in S : T = S \ {x} /\ m = n - 1
  PROVE  m = Cardinality(T)
<1>1. CASE T = S /\ m = n
  BY <1>1
<1>2. ASSUME NEW x, x \notin S, T = S \cup {x}, m = n + 1 PROVE m = Cardinality(T)
  BY <1>2, FS_AddElement
<1>3. ASSUME NEW x \in S, T = S \ {x}, m = n - 1 PROVE m = Cardinality(T)
  BY <1>3, FS_RemoveElement
<1> QED
  BY <1>1, <1>2, <1>3

\* Tasks of the server's reaper that have ended, and of that of connection c.
RootFinished ==
  {c \in Conns : hpc[c] = "exited"} \cup (IF lpc = "exited" THEN {Listen} ELSE {})
ConnFinished(c) == {ch \in Chans : ConnOf[ch] = c /\ chan[ch] = "exited"}

\* What a step may do to the tasks and the wait group of the server's reaper.
RootMove ==
  \/ LiveTasks' = LiveTasks /\ RootFinished' = RootFinished /\ wg' = wg
  \/ \E t \in Tasks :
       /\ t \notin LiveTasks \cup RootFinished
       /\ LiveTasks' = LiveTasks \cup {t}
       /\ RootFinished' = RootFinished
       /\ wg' = wg + 1
  \/ \E t \in LiveTasks :
       /\ LiveTasks' = LiveTasks \ {t}
       /\ RootFinished' = RootFinished \cup {t}
       /\ wg' = wg - 1

\* The same of the reaper of connection c.
ConnMove(c) ==
  \/ /\ LiveChans(c)' = LiveChans(c)
     /\ ConnFinished(c)' = ConnFinished(c)
     /\ gwg'[c] = gwg[c]
  \/ \E ch \in Chans :
       /\ ch \notin LiveChans(c) \cup ConnFinished(c)
       /\ hpc[c] = "loop" /\ hpc' = hpc
       /\ LiveChans(c)' = LiveChans(c) \cup {ch}
       /\ ConnFinished(c)' = ConnFinished(c)
       /\ gwg'[c] = gwg[c] + 1
  \/ \E ch \in LiveChans(c) :
       /\ hpc' = hpc
       /\ LiveChans(c)' = LiveChans(c) \ {ch}
       /\ ConnFinished(c)' = ConnFinished(c) \cup {ch}
       /\ gwg'[c] = gwg[c] - 1

\* A wait group that is exact stays so.
LEMMA CountsKept ==
  ASSUME Typing, Typing', WaitGroupExact, RootMove, \A c \in Conns : ConnMove(c)
  PROVE  WaitGroupExact'
<1>1. wg' = Cardinality(LiveTasks')
  BY Counted, LiveFinite DEF RootMove, WaitGroupExact, Typing
<1>2. ASSUME NEW c \in Conns PROVE gwg'[c] = Cardinality(LiveChans(c)')
  <2>1. gwg[c] \in Int /\ gwg'[c] \in Int /\ gwg[c] = Cardinality(LiveChans(c))
    BY DEF WaitGroupExact, Typing
  <2>2. ConnMove(c) /\ IsFiniteSet(LiveChans(c))
    BY LiveFinite
  <2> QED
    BY <2>1, <2>2, Counted DEF ConnMove
<1> QED
  BY <1>1, <1>2 DEF WaitGroupExact

\* No task starts or ends in a step that leaves each program counter before,
\* within or after its task.
LEMMA RootStill ==
  ASSUME wg' = wg, lpc' = "none" <=> lpc = "none", lpc' = "exited" <=> lpc = "exited",
         \A c \in Conns : hpc'[c] = "none" <=> hpc[c] = "none",
         \A c \in Conns : hpc'[c] = "exited" <=> hpc[c] = "exited"
  PROVE  RootMove
<1>1. LiveTasks' = LiveTasks
  BY DEF LiveTasks, LiveConns, ListenerLive
<1>2. RootFinished' = RootFinished
  BY DEF RootFinished
<1> QED
  BY <1>1, <1>2 DEF RootMove

\* listen and Execute are counted by one Add and one Done each.
LEMMA RootMoveStep ==
  Typing /\ ConnShape /\ [Next]_vars => RootMove
<1> SUFFICES ASSUME Typing, ConnShape, [Next]_vars PROVE RootMove
  OBVIOUS
<1> USE DEF ctxVars, lisVars, connVars, chanVars
<1>1. CASE Owner
  <2>1. CASE Start
    <3>1. Listen \notin LiveTasks
      BY <2>1, ListenAssumption DEF Start, LiveTasks, LiveConns, ListenerLive
    <3>2. LiveTasks' = LiveTasks \cup {Listen}
      BY <2>1 DEF Start, LiveTasks, LiveConns, ListenerLive
    <3>3. Listen \notin RootFinished /\ RootFinished' = RootFinished
      BY <2>1, ListenAssumption DEF Start, RootFinished
    <3> QED
      BY <2>1, <3>1, <3>2, <3>3 DEF Start, RootMove, Tasks
  <2>2. CASE CancelParent
    BY <2>2, RootStill DEF CancelParent, Typing
  <2>3. CASE StopKill
    BY <2>3, RootStill DEF StopKill, Typing
  <2>4. CASE StopWait
    BY <2>4, RootStill DEF StopWait, Typing
  <2>5. CASE StopReturn
    BY <2>5, RootStill DEF StopReturn, Typing
  <2> QED
    BY <1>1, <2>1, <2>2, <2>3, <2>4, <2>5 DEF Owner
<1>2. CASE ListenStep
  <2>1. CASE ListenCheck
    BY <2>1, RootStill DEF ListenCheck, Typing
  <2>2. CASE ListenAcceptFails
    BY <2>2, RootStill DEF ListenAcceptFails, Typing
  <2>3. CASE ListenClose
    BY <2>3, RootStill DEF ListenClose, Typing
  <2>4. CASE ListenExit
    <3>1. Listen \in LiveTasks
      BY <2>4 DEF ListenExit, LiveTasks, ListenerLive
    <3>2. LiveTasks' = LiveTasks \ {Listen}
      BY <2>4, ListenAssumption DEF ListenExit, LiveTasks, LiveConns, ListenerLive
    <3>3. RootFinished' = RootFinished \cup {Listen}
      BY <2>4 DEF ListenExit, RootFinished
    <3> QED
      BY <2>4, <3>1, <3>2, <3>3 DEF ListenExit, RootMove
  <2>5. ASSUME NEW c \in Conns, ListenAccept(c) PROVE RootMove
    <3>1. /\ hpc[c] = "none" /\ hpc'[c] = "start"
          /\ \A d \in Conns : d # c => hpc'[d] = hpc[d]
      BY <2>5 DEF ListenAccept, ConnShape, Typing
    <3>2. ListenerLive /\ ListenerLive' /\ wg' = wg + 1
      BY <2>5 DEF ListenAccept, ListenerLive
    <3>3. LiveConns' = LiveConns \cup {c} /\ c \notin LiveConns
      BY <3>1 DEF LiveConns
    <3>4. LiveTasks' = LiveTasks \cup {c} /\ c \notin LiveTasks
      BY <3>2, <3>3, ListenAssumption DEF LiveTasks
    <3>5. RootFinished' = RootFinished /\ c \notin RootFinished
      BY <2>5, <3>1, ListenAssumption DEF ListenAccept, RootFinished
    <3> QED
      BY <3>2, <3>4, <3>5 DEF RootMove, Tasks
  <2> QED
    BY <1>2, <2>1, <2>2, <2>3, <2>4, <2>5 DEF ListenStep
<1>3. ASSUME NEW t \in Tasks, CancelTask(t) PROVE RootMove
  BY <1>3, RootStill DEF CancelTask, Typing
<1>4. ASSUME NEW c \in Conns, Client(c) PROVE RootMove
  BY <1>4, RootStill DEF Client, Connect, Hangup, Typing
<1>5. ASSUME NEW c \in Conns, ExecuteStep(c) PROVE RootMove
  <2>1. CASE ExecuteRefuse(c)
    BY <2>1, RootStill DEF ExecuteRefuse, Typing
  <2>2. CASE ExecuteBegin(c)
    BY <2>2, RootStill DEF ExecuteBegin, Typing
  <2>3. CASE LoopReceive(c)
    BY <2>3, RootStill DEF LoopReceive, Typing
  <2>4. CASE LoopBreak(c)
    BY <2>4, RootStill DEF LoopBreak, Typing
  <2>5. CASE ExecuteKill(c)
    BY <2>5, RootStill DEF ExecuteKill, Typing
  <2>6. CASE ExecuteConnWait(c)
    BY <2>6, RootStill DEF ExecuteConnWait, Typing
  <2>7. CASE ExecuteConnClose(c)
    BY <2>7, RootStill DEF ExecuteConnClose, Typing
  <2>8. CASE ExecuteGroupWait(c)
    BY <2>8, RootStill DEF ExecuteGroupWait, Typing
  <2>9. CASE ExecuteFinish(c)
    <3>1. /\ hpc[c] = "finish" /\ hpc'[c] = "exited" /\ lpc' = lpc /\ wg' = wg - 1
          /\ \A d \in Conns : d # c => hpc'[d] = hpc[d]
      BY <2>9 DEF ExecuteFinish, Typing
    <3>2. LiveConns' = LiveConns \ {c} /\ c \in LiveConns
      BY <3>1 DEF LiveConns
    <3>3. LiveTasks' = LiveTasks \ {c} /\ c \in LiveTasks
      BY <3>1, <3>2, ListenAssumption DEF LiveTasks, ListenerLive
    <3>4. RootFinished' = RootFinished \cup {c}
      BY <3>1 DEF RootFinished
    <3> QED
      BY <3>1, <3>3, <3>4 DEF RootMove
  <2> QED
    BY <1>5, <2>1, <2>2, <2>3, <2>4, <2>5, <2>6, <2>7, <2>8, <2>9 DEF ExecuteStep
<1>6. ASSUME NEW c \in Conns, Handshake(c) PROVE RootMove
  BY <1>6, RootStill DEF Handshake, HandshakeOK, HandshakeFail, Typing
<1>7. ASSUME NEW c \in Conns, MuxStep(c) PROVE RootMove
  BY <1>7, RootStill DEF MuxStep, MuxStop, MuxExit, Typing
<1>8. ASSUME NEW ch \in Chans, CancelChan(ch) PROVE RootMove
  BY <1>8, RootStill DEF CancelChan, Typing
<1>9. ASSUME NEW ch \in Chans, MuxChan(ch) PROVE RootMove
  BY <1>9, RootStill DEF MuxChan, MuxOpen, MuxEnqueue, Typing
<1>10. ASSUME NEW ch \in Chans, DispatchStep(ch) PROVE RootMove
  BY <1>10, RootStill DEF DispatchStep, DispatchRefuse, DispatchAccept, DispatchClose,
     DispatchDone, Typing
<1>11. ASSUME NEW ch \in Chans, HandlerReturn(ch) PROVE RootMove
  BY <1>11, RootStill DEF HandlerReturn, Typing
<1>12. ASSUME NEW b \in Sent, Inbox(b) PROVE RootMove
  BY <1>12, RootStill DEF Inbox, MuxSend, Receive, Typing
<1>13. CASE UNCHANGED vars
  BY <1>13, RootStill DEF vars, Typing
<1> QED
  BY <1>1, <1>2, <1>3, <1>4, <1>5, <1>6, <1>7, <1>8, <1>9, <1>10, <1>11, <1>12, <1>13
     DEF Next, Stopped

\* No Dispatch starts or ends in a step that leaves each as live as it was.
LEMMA ConnStill ==
  ASSUME gwg' = gwg, \A ch \in Chans : Dispatching(ch)' <=> Dispatching(ch),
         \A ch \in Chans : chan'[ch] = "exited" <=> chan[ch] = "exited"
  PROVE  \A c \in Conns : ConnMove(c)
<1>1. \A c \in Conns : LiveChans(c)' = LiveChans(c)
  BY DEF LiveChans
<1>2. \A c \in Conns : ConnFinished(c)' = ConnFinished(c)
  BY DEF ConnFinished
<1> QED
  BY <1>1, <1>2 DEF ConnMove

\* Each Dispatch is counted by one Add and one Done.
LEMMA ConnMoveStep ==
  Typing /\ QueueShape /\ [Next]_vars => (\A d \in Conns : ConnMove(d))
<1> SUFFICES ASSUME Typing, QueueShape, [Next]_vars PROVE (\A d \in Conns : ConnMove(d))
  OBVIOUS
<1> USE DEF ctxVars, lisVars, connVars, chanVars
<1>1. CASE Owner
  BY <1>1, ConnStill DEF Owner, Start, CancelParent, StopKill, StopWait, StopReturn,
     Typing, Dispatching
<1>2. CASE ListenStep
  BY <1>2, ConnStill DEF ListenStep, ListenCheck, ListenAccept, ListenAcceptFails,
     ListenClose,
     ListenExit, Typing, Dispatching
<1>3. ASSUME NEW t \in Tasks, CancelTask(t) PROVE (\A d \in Conns : ConnMove(d))
  BY <1>3, ConnStill DEF CancelTask, Typing, Dispatching
<1>4. ASSUME NEW c \in Conns, Client(c) PROVE (\A d \in Conns : ConnMove(d))
  BY <1>4, ConnStill DEF Client, Connect, Hangup, Typing, Dispatching
<1>5. ASSUME NEW c \in Conns, ExecuteStep(c) PROVE (\A d \in Conns : ConnMove(d))
  <2>1. CASE ExecuteRefuse(c)
    BY <2>1, ConnStill DEF ExecuteRefuse, Typing, Dispatching
  <2>2. CASE ExecuteBegin(c)
    BY <2>2, ConnStill DEF ExecuteBegin, Typing, Dispatching
  <2>3. CASE LoopReceive(c)
    <3> DEFINE ch == Head(queue[c])
    <3>1. ch \in Chans /\ ConnOf[ch] = c /\ chan[ch] = "queued"
      <4>1. queue[c] \in Seq(Chans) /\ Len(queue[c]) \in Nat \ {0} /\ ch = queue[c][1]
        BY <2>3, TailAppend DEF LoopReceive, Typing
      <4> QED
        BY <4>1 DEF QueueShape
    <3>2. /\ gwg'[c] = gwg[c] + 1
          /\ \A d \in Conns : d # c => gwg'[d] = gwg[d]
          /\ \A x \in Chans : chan'[x] = IF x = ch THEN "spawned" ELSE chan[x]
      BY <2>3, <3>1 DEF LoopReceive, Typing
    <3>3. LiveChans(c)' = LiveChans(c) \cup {ch} /\ ch \notin LiveChans(c)
      BY <3>1, <3>2 DEF LiveChans, Dispatching
    <3>4. \A d \in Conns : d # c => LiveChans(d)' = LiveChans(d)
      BY <3>1, <3>2 DEF LiveChans, Dispatching
    <3>5. ch \notin ConnFinished(c) /\ \A d \in Conns : ConnFinished(d)' = ConnFinished(d)
      BY <3>1, <3>2 DEF ConnFinished
    <3>6. hpc[c] = "loop" /\ hpc' = hpc
      BY <2>3 DEF LoopReceive
    <3> QED
      BY <3>1, <3>2, <3>3, <3>4, <3>5, <3>6 DEF ConnMove
  <2>4. CASE LoopBreak(c)
    BY <2>4, ConnStill DEF LoopBreak, Typing, Dispatching
  <2>5. CASE ExecuteKill(c)
    BY <2>5, ConnStill DEF ExecuteKill, Typing, Dispatching
  <2>6. CASE ExecuteConnWait(c)
    BY <2>6, ConnStill DEF ExecuteConnWait, Typing, Dispatching
  <2>7. CASE ExecuteConnClose(c)
    BY <2>7, ConnStill DEF ExecuteConnClose, Typing, Dispatching
  <2>8. CASE ExecuteGroupWait(c)
    BY <2>8, ConnStill DEF ExecuteGroupWait, Typing, Dispatching
  <2>9. CASE ExecuteFinish(c)
    BY <2>9, ConnStill DEF ExecuteFinish, Typing, Dispatching
  <2> QED
    BY <1>5, <2>1, <2>2, <2>3, <2>4, <2>5, <2>6, <2>7, <2>8, <2>9 DEF ExecuteStep
<1>6. ASSUME NEW c \in Conns, Handshake(c) PROVE (\A d \in Conns : ConnMove(d))
  BY <1>6, ConnStill DEF Handshake, HandshakeOK, HandshakeFail, Typing, Dispatching
<1>7. ASSUME NEW c \in Conns, MuxStep(c) PROVE (\A d \in Conns : ConnMove(d))
  BY <1>7, ConnStill DEF MuxStep, MuxStop, MuxExit, Typing, Dispatching
<1>8. ASSUME NEW ch \in Chans, CancelChan(ch) PROVE (\A d \in Conns : ConnMove(d))
  BY <1>8, ConnStill DEF CancelChan, Typing, Dispatching
<1>9. ASSUME NEW ch \in Chans, MuxChan(ch) PROVE (\A d \in Conns : ConnMove(d))
  <2>1. CASE MuxOpen(ch)
    BY <2>1, ConnStill DEF MuxOpen, Typing, Dispatching
  <2>2. CASE MuxEnqueue(ch)
    BY <2>2, ConnStill DEF MuxEnqueue, Typing, Dispatching
  <2> QED
    BY <1>9, <2>1, <2>2 DEF MuxChan
<1>10. ASSUME NEW ch \in Chans, DispatchStep(ch) PROVE (\A d \in Conns : ConnMove(d))
  <2>1. CASE DispatchRefuse(ch)
    BY <2>1, ConnStill DEF DispatchRefuse, Typing, Dispatching
  <2>2. CASE DispatchAccept(ch)
    BY <2>2, ConnStill DEF DispatchAccept, Typing, Dispatching
  <2>3. CASE DispatchClose(ch)
    BY <2>3, ConnStill DEF DispatchClose, Typing, Dispatching
  <2>4. CASE DispatchDone(ch)
    <3> DEFINE c == ConnOf[ch]
    <3>1. /\ c \in Conns /\ chan[ch] = "closed" /\ gwg'[c] = gwg[c] - 1
          /\ \A d \in Conns : d # c => gwg'[d] = gwg[d]
          /\ \A x \in Chans : chan'[x] = IF x = ch THEN "exited" ELSE chan[x]
      BY <2>4, ConnOfAssumption DEF DispatchDone, Typing
    <3>2. LiveChans(c)' = LiveChans(c) \ {ch} /\ ch \in LiveChans(c)
      BY <3>1 DEF LiveChans, Dispatching
    <3>3. \A d \in Conns : d # c => LiveChans(d)' = LiveChans(d)
      BY <3>1 DEF LiveChans, Dispatching
    <3>4. /\ ConnFinished(c)' = ConnFinished(c) \cup {ch}
          /\ \A d \in Conns : d # c => ConnFinished(d)' = ConnFinished(d)
          /\ hpc' = hpc
      BY <2>4, <3>1 DEF ConnFinished, DispatchDone
    <3> QED
      BY <3>1, <3>2, <3>3, <3>4 DEF ConnMove
  <2> QED
    BY <1>10, <2>1, <2>2, <2>3, <2>4 DEF DispatchStep
<1>11. ASSUME NEW ch \in Chans, HandlerReturn(ch) PROVE (\A d \in Conns : ConnMove(d))
  BY <1>11, ConnStill DEF HandlerReturn, Typing, Dispatching
<1>12. ASSUME NEW b \in Sent, Inbox(b) PROVE (\A d \in Conns : ConnMove(d))
  BY <1>12, ConnStill DEF Inbox, MuxSend, Receive, Typing, Dispatching
<1>13. CASE UNCHANGED vars
  BY <1>13, ConnStill DEF vars, Typing, Dispatching
<1> QED
  BY <1>1, <1>2, <1>3, <1>4, <1>5, <1>6, <1>7, <1>8, <1>9, <1>10, <1>11, <1>12, <1>13
     DEF Next, Stopped

\* The only steps that add a running task are Start and ListenAccept.
LEMMA TaskAdded ==
  ASSUME Typing, [Next]_vars, ~Start, \A c \in Conns : ~ListenAccept(c)
  PROVE  LiveTasks' \subseteq LiveTasks
<1> USE DEF ctxVars, lisVars, connVars, chanVars, Typing, LiveTasks, LiveConns,
   ListenerLive
<1>1. CASE Owner
  BY <1>1 DEF Owner, Start, CancelParent, StopKill, StopWait, StopReturn
<1>2. CASE ListenStep
  BY <1>2 DEF ListenStep, ListenCheck, ListenAccept, ListenAcceptFails, ListenClose,
     ListenExit
<1>3. ASSUME NEW t \in Tasks, CancelTask(t) PROVE LiveTasks' \subseteq LiveTasks
  BY <1>3 DEF CancelTask
<1>4. ASSUME NEW c \in Conns, Client(c) PROVE LiveTasks' \subseteq LiveTasks
  BY <1>4 DEF Client, Connect, Hangup
<1>5. ASSUME NEW c \in Conns, ExecuteStep(c) PROVE LiveTasks' \subseteq LiveTasks
  BY <1>5 DEF ExecuteStep, ExecuteRefuse, ExecuteBegin, LoopReceive, LoopBreak,
     ExecuteKill, ExecuteConnWait, ExecuteConnClose, ExecuteGroupWait, ExecuteFinish
<1>6. ASSUME NEW c \in Conns, Handshake(c) PROVE LiveTasks' \subseteq LiveTasks
  BY <1>6 DEF Handshake, HandshakeOK, HandshakeFail
<1>7. ASSUME NEW c \in Conns, MuxStep(c) PROVE LiveTasks' \subseteq LiveTasks
  BY <1>7 DEF MuxStep, MuxStop, MuxExit
<1>8. ASSUME NEW ch \in Chans, CancelChan(ch) PROVE LiveTasks' \subseteq LiveTasks
  BY <1>8 DEF CancelChan
<1>9. ASSUME NEW ch \in Chans, MuxChan(ch) PROVE LiveTasks' \subseteq LiveTasks
  BY <1>9 DEF MuxChan, MuxOpen, MuxEnqueue
<1>10. ASSUME NEW ch \in Chans, DispatchStep(ch) PROVE LiveTasks' \subseteq LiveTasks
  BY <1>10 DEF DispatchStep, DispatchRefuse, DispatchAccept, DispatchClose, DispatchDone
<1>11. ASSUME NEW ch \in Chans, HandlerReturn(ch) PROVE LiveTasks' \subseteq LiveTasks
  BY <1>11 DEF HandlerReturn
<1>12. ASSUME NEW b \in Sent, Inbox(b) PROVE LiveTasks' \subseteq LiveTasks
  BY <1>12 DEF Inbox, MuxSend, Receive
<1>13. CASE UNCHANGED vars
  BY <1>13 DEF vars
<1> QED
  BY <1>1, <1>2, <1>3, <1>4, <1>5, <1>6, <1>7, <1>8, <1>9, <1>10, <1>11, <1>12, <1>13
     DEF Next, Stopped

\* A step that spawns no task neither adds a child to the root context, nor
\* takes one from it without closing the child's Done channel.
LEMMA ContextsKept ==
  ASSUME Typing, [Next]_vars, ~Start, \A c \in Conns : ~ListenAccept(c)
  PROVE  /\ kids' \subseteq kids
         /\ kids \cup ctxDone \subseteq kids' \cup ctxDone'
         /\ ctxDone \subseteq ctxDone'
         /\ chanDone \subseteq chanDone'
<1> USE DEF ctxVars, lisVars, connVars, chanVars, NewChanContext
<1> DEFINE ContextsGrow ==
      /\ kids' \subseteq kids
      /\ kids \cup ctxDone \subseteq kids' \cup ctxDone'
      /\ ctxDone \subseteq ctxDone'
      /\ chanDone \subseteq chanDone'
<1>1. CASE Owner
  BY <1>1 DEF Owner, Start, CancelParent, StopKill, StopWait, StopReturn
<1>2. CASE ListenStep
  BY <1>2 DEF ListenStep, ListenCheck, ListenAccept, ListenAcceptFails, ListenClose,
     ListenExit
<1>3. ASSUME NEW t \in Tasks, CancelTask(t) PROVE ContextsGrow
  BY <1>3 DEF CancelTask
<1>4. ASSUME NEW c \in Conns, Client(c) PROVE ContextsGrow
  BY <1>4 DEF Client, Connect, Hangup
<1>5. ASSUME NEW c \in Conns, ExecuteStep(c) PROVE ContextsGrow
  BY <1>5 DEF ExecuteStep, ExecuteRefuse, ExecuteBegin, LoopReceive, LoopBreak,
     ExecuteKill, ExecuteConnWait, ExecuteConnClose, ExecuteGroupWait, ExecuteFinish
<1>6. ASSUME NEW c \in Conns, Handshake(c) PROVE ContextsGrow
  BY <1>6 DEF Handshake, HandshakeOK, HandshakeFail
<1>7. ASSUME NEW c \in Conns, MuxStep(c) PROVE ContextsGrow
  BY <1>7 DEF MuxStep, MuxStop, MuxExit
<1>8. ASSUME NEW ch \in Chans, CancelChan(ch) PROVE ContextsGrow
  BY <1>8 DEF CancelChan
<1>9. ASSUME NEW ch \in Chans, MuxChan(ch) PROVE ContextsGrow
  BY <1>9 DEF MuxChan, MuxOpen, MuxEnqueue
<1>10. ASSUME NEW ch \in Chans, DispatchStep(ch) PROVE ContextsGrow
  BY <1>10 DEF DispatchStep, DispatchRefuse, DispatchAccept, DispatchClose, DispatchDone
<1>11. ASSUME NEW ch \in Chans, HandlerReturn(ch) PROVE ContextsGrow
  BY <1>11 DEF HandlerReturn
<1>12. ASSUME NEW b \in Sent, Inbox(b) PROVE ContextsGrow
  BY <1>12 DEF Inbox, MuxSend, Receive
<1>13. CASE UNCHANGED vars
  BY <1>13 DEF vars
<1> QED
  BY <1>1, <1>2, <1>3, <1>4, <1>5, <1>6, <1>7, <1>8, <1>9, <1>10, <1>11, <1>12, <1>13
     DEF Next, Stopped

\* What a step does to the owner's program counter and the root context.
LEMMA OwnerMoves ==
  ASSUME Typing, [Next]_vars
  PROVE  /\ rootDone' = rootDone \/ CancelParent \/ StopKill
         /\ stopPC' = stopPC \/ StopKill \/ StopWait \/ StopReturn
<1> USE DEF ctxVars, lisVars, connVars, chanVars
<1> DEFINE OwnerMove ==
      /\ rootDone' = rootDone \/ CancelParent \/ StopKill
      /\ stopPC' = stopPC \/ StopKill \/ StopWait \/ StopReturn
<1>1. CASE Owner
  BY <1>1 DEF Owner, Start, CancelParent, StopKill, StopWait, StopReturn
<1>2. CASE ListenStep
  BY <1>2 DEF ListenStep, ListenCheck, ListenAccept, ListenAcceptFails, ListenClose,
     ListenExit
<1>3. ASSUME NEW t \in Tasks, CancelTask(t) PROVE OwnerMove
  BY <1>3 DEF CancelTask
<1>4. ASSUME NEW c \in Conns, Client(c) PROVE OwnerMove
  BY <1>4 DEF Client, Connect, Hangup
<1>5. ASSUME NEW c \in Conns, ExecuteStep(c) PROVE OwnerMove
  BY <1>5 DEF ExecuteStep, ExecuteRefuse, ExecuteBegin, LoopReceive, LoopBreak,
     ExecuteKill, ExecuteConnWait, ExecuteConnClose, ExecuteGroupWait, ExecuteFinish
<1>6. ASSUME NEW c \in Conns, Handshake(c) PROVE OwnerMove
  BY <1>6 DEF Handshake, HandshakeOK, HandshakeFail
<1>7. ASSUME NEW c \in Conns, MuxStep(c) PROVE OwnerMove
  BY <1>7 DEF MuxStep, MuxStop, MuxExit
<1>8. ASSUME NEW ch \in Chans, CancelChan(ch) PROVE OwnerMove
  BY <1>8 DEF CancelChan
<1>9. ASSUME NEW ch \in Chans, MuxChan(ch) PROVE OwnerMove
  BY <1>9 DEF MuxChan, MuxOpen, MuxEnqueue
<1>10. ASSUME NEW ch \in Chans, DispatchStep(ch) PROVE OwnerMove
  BY <1>10 DEF DispatchStep, DispatchRefuse, DispatchAccept, DispatchClose, DispatchDone
<1>11. ASSUME NEW ch \in Chans, HandlerReturn(ch) PROVE OwnerMove
  BY <1>11 DEF HandlerReturn
<1>12. ASSUME NEW b \in Sent, Inbox(b) PROVE OwnerMove
  BY <1>12 DEF Inbox, MuxSend, Receive
<1>13. CASE UNCHANGED vars
  BY <1>13 DEF vars
<1> QED
  BY <1>1, <1>2, <1>3, <1>4, <1>5, <1>6, <1>7, <1>8, <1>9, <1>10, <1>11, <1>12, <1>13
     DEF Next, Stopped

\* A task is spawned with a context that a cancel of the root reaches.
LEMMA ContextStep ==
  Typing /\ ContextShape /\ [Next]_vars => ContextShape'
<1> SUFFICES ASSUME Typing, ContextShape, [Next]_vars PROVE ContextShape'
  OBVIOUS
<1>1. /\ stopPC # "none" => rootDone
      /\ LiveTasks \subseteq kids \cup ctxDone
      /\ stopPC \in {"waiting", "returned"} => kids = {}
  BY DEF ContextShape
<1>2. (stopPC # "none" => rootDone)'
  BY <1>1, OwnerMoves DEF CancelParent, StopKill, StopWait, StopReturn, ctxVars
<1>3. (LiveTasks \subseteq kids \cup ctxDone)'
  <2>1. CASE Start
    <3>1. LiveTasks' = LiveTasks \cup {Listen}
      BY <2>1 DEF Start, LiveTasks, LiveConns, ListenerLive, connVars
    <3> QED
      BY <1>1, <2>1, <3>1 DEF Start, NewTaskContext
  <2>2. ASSUME NEW c \in Conns, ListenAccept(c) PROVE (LiveTasks \subseteq kids \cup ctxDone)'
    <3>1. LiveConns' \subseteq LiveConns \cup {c} /\ ListenerLive
      BY <2>2 DEF ListenAccept, LiveConns, ListenerLive, Typing
    <3>2. LiveTasks' \subseteq LiveTasks \cup {c}
      BY <3>1 DEF LiveTasks
    <3> QED
      BY <1>1, <2>2, <3>2 DEF ListenAccept, NewTaskContext
  <2> QED
    BY <1>1, <2>1, <2>2, TaskAdded, ContextsKept
<1>4. (stopPC \in {"waiting", "returned"} => kids = {})'
  <2>1. CASE Start
    BY <2>1 DEF Start
  <2>2. ASSUME NEW c \in Conns, ListenAccept(c)
        PROVE  (stopPC \in {"waiting", "returned"} => kids = {})'
    BY <1>1, <2>2 DEF ListenAccept, NewTaskContext
  <2>3. CASE StopWait
    BY <1>1, <2>3 DEF StopWait, RootSettled, ctxVars
  <2>4. CASE StopReturn
    BY <1>1, <2>4 DEF StopReturn, ctxVars
  <2> QED
    BY <1>1, <2>1, <2>2, <2>3, <2>4, ContextsKept, OwnerMoves DEF StopKill
<1> QED
  BY <1>2, <1>3, <1>4 DEF ContextShape

\* After Stop has returned nothing is running that could spawn a task.
LEMMA StopShapeStep ==
  Typing /\ WaitGroupExact /\ StopShape /\ [Next]_vars => StopShape'
<1> SUFFICES ASSUME Typing, WaitGroupExact, StopShape, [Next]_vars, stopPC' = "returned"
             PROVE  LiveTasks' = {}
  BY DEF StopShape
<1>1. ~Start
  BY DEF Start
<1>2. CASE StopReturn
  <2>1. LiveTasks = {}
    BY <1>2, LiveFinite, FS_EmptySet DEF StopReturn, WaitGroupExact
  <2>2. \A c \in Conns : ~ListenAccept(c)
    BY <2>1 DEF ListenAccept, LiveTasks, ListenerLive
  <2> QED
    BY <1>1, <2>1, <2>2, TaskAdded
<1>3. CASE ~StopReturn
  <2>1. LiveTasks = {}
    BY <1>3, OwnerMoves DEF StopKill, StopWait, StopShape
  <2>2. \A c \in Conns : ~ListenAccept(c)
    BY <2>1 DEF ListenAccept, LiveTasks, ListenerLive
  <2> QED
    BY <1>1, <2>1, <2>2, TaskAdded
<1> QED
  BY <1>2, <1>3

\* The only step that starts a Dispatch is LoopReceive.
LEMMA DispatchAdded ==
  ASSUME Typing, [Next]_vars, \A c \in Conns : ~LoopReceive(c)
  PROVE  \A ch \in Chans : Dispatching(ch)' => Dispatching(ch)
<1> USE DEF ctxVars, lisVars, connVars, chanVars, Dispatching, Typing
<1> DEFINE NoneAdded == \A x \in Chans : Dispatching(x)' => Dispatching(x)
<1>1. CASE Owner
  BY <1>1 DEF Owner, Start, CancelParent, StopKill, StopWait, StopReturn
<1>2. CASE ListenStep
  BY <1>2 DEF ListenStep, ListenCheck, ListenAccept, ListenAcceptFails, ListenClose,
     ListenExit
<1>3. ASSUME NEW t \in Tasks, CancelTask(t) PROVE NoneAdded
  BY <1>3 DEF CancelTask
<1>4. ASSUME NEW c \in Conns, Client(c) PROVE NoneAdded
  BY <1>4 DEF Client, Connect, Hangup
<1>5. ASSUME NEW c \in Conns, ExecuteStep(c) PROVE NoneAdded
  BY <1>5 DEF ExecuteStep, ExecuteRefuse, ExecuteBegin, LoopReceive, LoopBreak,
     ExecuteKill, ExecuteConnWait, ExecuteConnClose, ExecuteGroupWait, ExecuteFinish
<1>6. ASSUME NEW c \in Conns, Handshake(c) PROVE NoneAdded
  BY <1>6 DEF Handshake, HandshakeOK, HandshakeFail
<1>7. ASSUME NEW c \in Conns, MuxStep(c) PROVE NoneAdded
  BY <1>7 DEF MuxStep, MuxStop, MuxExit
<1>8. ASSUME NEW ch \in Chans, CancelChan(ch) PROVE NoneAdded
  BY <1>8 DEF CancelChan
<1>9. ASSUME NEW ch \in Chans, MuxChan(ch) PROVE NoneAdded
  BY <1>9 DEF MuxChan, MuxOpen, MuxEnqueue
<1>10. ASSUME NEW ch \in Chans, DispatchStep(ch) PROVE NoneAdded
  BY <1>10 DEF DispatchStep, DispatchRefuse, DispatchAccept, DispatchClose, DispatchDone
<1>11. ASSUME NEW ch \in Chans, HandlerReturn(ch) PROVE NoneAdded
  BY <1>11 DEF HandlerReturn
<1>12. ASSUME NEW b \in Sent, Inbox(b) PROVE NoneAdded
  BY <1>12 DEF Inbox, MuxSend, Receive
<1>13. CASE UNCHANGED vars
  BY <1>13 DEF vars
<1> QED
  BY <1>1, <1>2, <1>3, <1>4, <1>5, <1>6, <1>7, <1>8, <1>9, <1>10, <1>11, <1>12, <1>13
     DEF Next, Stopped

\* After Kill has returned, what is spawned is spawned with a done context.
LEMMA KillStep ==
  Typing /\ QueueShape /\ DispatchShape /\ ContextShape /\ KillReachesAll /\ [Next]_vars
    => KillReachesAll'
<1> SUFFICES ASSUME Typing, QueueShape, DispatchShape, ContextShape, KillReachesAll,
                    [Next]_vars, stopPC' \in {"waiting", "returned"}
             PROVE  /\ LiveTasks' \subseteq ctxDone'
                    /\ \A ch \in Chans : Dispatching(ch)' => ch \in chanDone'
  BY DEF KillReachesAll
<1>1. CASE StopWait
  <2>1. kids = {} /\ LiveTasks \subseteq ctxDone
    BY <1>1 DEF StopWait, RootSettled, ContextShape
  <2>2. ASSUME NEW ch \in Chans, Dispatching(ch) PROVE ch \in chanDone
    <3>1. ConnOf[ch] \in LiveTasks
      BY <2>2, ConnOfAssumption DEF DispatchShape, LiveTasks, LiveConns
    <3>2. ChansCancelled(ConnOf[ch])
      BY <1>1, ConnOfAssumption DEF StopWait, RootSettled, ContextShape
    <3> QED
      BY <2>1, <2>2, <3>1, <3>2 DEF ChansCancelled, LiveChans
  <2>3. \A c \in Conns : ~LoopReceive(c) /\ ~ListenAccept(c)
    BY <1>1 DEF StopWait, LoopReceive, ListenAccept
  <2>4. ~Start
    BY <1>1 DEF StopWait, Start
  <2> QED
    BY <2>1, <2>2, <2>3, <2>4, TaskAdded, DispatchAdded, ContextsKept
<1>2. CASE ~StopWait
  <2>1. stopPC \in {"waiting", "returned"}
    BY <1>2, OwnerMoves DEF StopKill, StopReturn
  <2>2. /\ rootDone /\ LiveTasks \subseteq ctxDone
        /\ \A ch \in Chans : Dispatching(ch) => ch \in chanDone
    BY <2>1 DEF KillReachesAll, ContextShape
  <2>3. ~Start
    BY <2>1 DEF Start
  <2>4. ASSUME NEW c \in Conns, ListenAccept(c)
        PROVE  /\ LiveTasks' \subseteq ctxDone'
               /\ \A ch \in Chans : Dispatching(ch)' => ch \in chanDone'
    <3>1. LiveConns' \subseteq LiveConns \cup {c} /\ ListenerLive
      BY <2>4 DEF ListenAccept, LiveConns, ListenerLive, Typing
    <3>2. LiveTasks' \subseteq LiveTasks \cup {c}
      BY <3>1 DEF LiveTasks
    <3> QED
      BY <2>2, <2>4, <3>2 DEF ListenAccept, NewTaskContext, Dispatching, chanVars
  <2>5. ASSUME NEW c \in Conns, LoopReceive(c)
        PROVE  \A ch \in Chans : Dispatching(ch)' => ch \in chanDone'
    <3> DEFINE h == Head(queue[c])
    <3>1. h \in Chans /\ ConnOf[h] = c
      <4>1. queue[c] \in Seq(Chans) /\ Len(queue[c]) \in Nat \ {0} /\ h = queue[c][1]
        BY <2>5, TailAppend DEF LoopReceive, Typing
      <4> QED
        BY <4>1 DEF QueueShape
    <3>2. c \in ctxDone
      BY <2>2, <2>5 DEF LoopReceive, LiveTasks, LiveConns
    <3>3. chanDone' = chanDone \cup {h}
      BY <2>5, <3>1, <3>2 DEF LoopReceive, NewChanContext
    <3>4. \A ch \in Chans : ch # h => (Dispatching(ch)' => Dispatching(ch))
      BY <2>5, <3>1 DEF LoopReceive, Dispatching, Typing
    <3> QED
      BY <2>2, <3>3, <3>4
  <2>6. ASSUME NEW c \in Conns, LoopReceive(c) PROVE \A d \in Conns : ~ListenAccept(d)
    BY <2>6 DEF LoopReceive, ListenAccept, Typing
  <2> QED
    BY <2>2, <2>3, <2>4, <2>5, <2>6, TaskAdded, DispatchAdded, ContextsKept
<1> QED
  BY <1>1, <1>2

\* What a step may do to a connection's context and to its Execute.
LEMMA ExecuteMoves ==
  ASSUME Typing, ConnShape, [Next]_vars
  PROVE  /\ ctxDone \subseteq ctxDone'
         /\ \A d \in Conns : gwg'[d] # gwg[d] => ctxDone' = ctxDone
         /\ \A d \in Conns :
              \/ (hpc'[d] \in {"finish", "exited"}) <=> (hpc[d] \in {"finish", "exited"})
              \/ ExecuteRefuse(d)
              \/ ExecuteGroupWait(d)
<1> USE DEF ctxVars, lisVars, connVars, chanVars, Typing, NewTaskContext
<1> DEFINE ExecuteMove ==
      /\ ctxDone \subseteq ctxDone'
      /\ \A d \in Conns : gwg'[d] # gwg[d] => ctxDone' = ctxDone
      /\ \A d \in Conns :
           \/ (hpc'[d] \in {"finish", "exited"}) <=> (hpc[d] \in {"finish", "exited"})
           \/ ExecuteRefuse(d)
           \/ ExecuteGroupWait(d)
<1>1. CASE Owner
  BY <1>1 DEF Owner, Start, CancelParent, StopKill, StopWait, StopReturn
<1>2. CASE ListenStep
  <2>1. ASSUME NEW c \in Conns, ListenAccept(c) PROVE ExecuteMove
    <3>1. ctxDone \subseteq ctxDone' /\ gwg' = gwg
      BY <2>1 DEF ListenAccept
    <3>2. /\ hpc[c] = "none"
          /\ \A d \in Conns : hpc'[d] = IF d = c THEN "start" ELSE hpc[d]
      BY <2>1 DEF ListenAccept, ConnShape
    <3> QED
      BY <3>1, <3>2
  <2>2. ASSUME ListenCheck \/ ListenAcceptFails \/ ListenClose \/ ListenExit
        PROVE  ExecuteMove
    BY <2>2 DEF ListenCheck, ListenAcceptFails, ListenClose, ListenExit
  <2> QED
    BY <1>2, <2>1, <2>2 DEF ListenStep
<1>3. ASSUME NEW t \in Tasks, CancelTask(t) PROVE ExecuteMove
  BY <1>3 DEF CancelTask
<1>4. ASSUME NEW c \in Conns, Client(c) PROVE ExecuteMove
  BY <1>4 DEF Client, Connect, Hangup
<1>5. ASSUME NEW c \in Conns, ExecuteStep(c) PROVE ExecuteMove
  BY <1>5 DEF ExecuteStep, ExecuteRefuse, ExecuteBegin, LoopReceive, LoopBreak,
     ExecuteKill, ExecuteConnWait, ExecuteConnClose, ExecuteGroupWait, ExecuteFinish
<1>6. ASSUME NEW c \in Conns, Handshake(c) PROVE ExecuteMove
  BY <1>6 DEF Handshake, HandshakeOK, HandshakeFail
<1>7. ASSUME NEW c \in Conns, MuxStep(c) PROVE ExecuteMove
  BY <1>7 DEF MuxStep, MuxStop, MuxExit
<1>8. ASSUME NEW ch \in Chans, CancelChan(ch) PROVE ExecuteMove
  BY <1>8 DEF CancelChan
<1>9. ASSUME NEW ch \in Chans, MuxChan(ch) PROVE ExecuteMove
  BY <1>9 DEF MuxChan, MuxOpen, MuxEnqueue
<1>10. ASSUME NEW ch \in Chans, DispatchStep(ch) PROVE ExecuteMove
  BY <1>10 DEF DispatchStep, DispatchRefuse, DispatchAccept, DispatchClose, DispatchDone
<1>11. ASSUME NEW ch \in Chans, HandlerReturn(ch) PROVE ExecuteMove
  BY <1>11 DEF HandlerReturn
<1>12. ASSUME NEW b \in Sent, Inbox(b) PROVE ExecuteMove
  BY <1>12 DEF Inbox, MuxSend, Receive
<1>13. CASE UNCHANGED vars
  BY <1>13 DEF vars
<1> QED
  BY <1>1, <1>2, <1>3, <1>4, <1>5, <1>6, <1>7, <1>8, <1>9, <1>10, <1>11, <1>12, <1>13
     DEF Next, Stopped

\* Execute gets past its loop, or refuses, only with its context done.
LEMMA KilledStep ==
  Typing /\ KilledShape /\ [Next]_vars => KilledShape'
<1> SUFFICES ASSUME Typing, KilledShape, [Next]_vars PROVE KilledShape'
  OBVIOUS
<1> USE DEF KilledShape, ctxVars, lisVars, connVars, chanVars, Typing, NewTaskContext
<1>1. CASE Owner
  BY <1>1 DEF Owner, Start, CancelParent, StopKill, StopWait, StopReturn
<1>2. CASE ListenStep
  <2>1. ASSUME NEW c \in Conns, ListenAccept(c) PROVE KilledShape'
    <3>1. ctxDone \subseteq ctxDone'
      BY <2>1 DEF ListenAccept
    <3>2. \A d \in Conns : hpc'[d] = IF d = c THEN "start" ELSE hpc[d]
      BY <2>1 DEF ListenAccept
    <3> QED
      BY <3>1, <3>2
  <2> QED
    BY <1>2, <2>1 DEF ListenStep, ListenCheck, ListenAcceptFails, ListenClose,
       ListenExit
<1>3. ASSUME NEW t \in Tasks, CancelTask(t) PROVE KilledShape'
  BY <1>3 DEF CancelTask
<1>4. ASSUME NEW c \in Conns, Client(c) PROVE KilledShape'
  BY <1>4 DEF Client, Connect, Hangup
<1>5. ASSUME NEW c \in Conns, ExecuteStep(c) PROVE KilledShape'
  BY <1>5 DEF ExecuteStep, ExecuteRefuse, ExecuteBegin, LoopReceive, LoopBreak,
     ExecuteKill, ExecuteConnWait, ExecuteConnClose, ExecuteGroupWait, ExecuteFinish
<1>6. ASSUME NEW c \in Conns, Handshake(c) PROVE KilledShape'
  BY <1>6 DEF Handshake, HandshakeOK, HandshakeFail
<1>7. ASSUME NEW c \in Conns, MuxStep(c) PROVE KilledShape'
  BY <1>7 DEF MuxStep, MuxStop, MuxExit
<1>8. ASSUME NEW ch \in Chans, CancelChan(ch) PROVE KilledShape'
  BY <1>8 DEF CancelChan
<1>9. ASSUME NEW ch \in Chans, MuxChan(ch) PROVE KilledShape'
  BY <1>9 DEF MuxChan, MuxOpen, MuxEnqueue
<1>10. ASSUME NEW ch \in Chans, DispatchStep(ch) PROVE KilledShape'
  BY <1>10 DEF DispatchStep, DispatchRefuse, DispatchAccept, DispatchClose, DispatchDone
<1>11. ASSUME NEW ch \in Chans, HandlerReturn(ch) PROVE KilledShape'
  BY <1>11 DEF HandlerReturn
<1>12. ASSUME NEW b \in Sent, Inbox(b) PROVE KilledShape'
  BY <1>12 DEF Inbox, MuxSend, Receive
<1>13. CASE UNCHANGED vars
  BY <1>13 DEF vars
<1> QED
  BY <1>1, <1>2, <1>3, <1>4, <1>5, <1>6, <1>7, <1>8, <1>9, <1>10, <1>11, <1>12, <1>13
     DEF Next, Stopped

-----------------------------------------------------------------------------
(* The inductive invariant, and what follows from it.                      *)

\* The server as New leaves it.
LEMMA InitInvariant == Init => IInv
<1> SUFFICES ASSUME Init PROVE IInv
  OBVIOUS
<1>1. Typing
  BY TypingInit
<1>2. TypeOK /\ InboxShape
  BY <1>1, InboxFacts DEF Init, TypeOK, InboxShape
<1>3. ConnShape /\ DispatchShape /\ ListenShape /\ OpenShape
  BY ConnOfAssumption DEF Init, ConnShape, DispatchShape, ListenShape, OpenShape,
     Dispatching
<1>4. LiveTasks = {} /\ \A c \in Conns : LiveChans(c) = {}
  BY DEF Init, LiveTasks, LiveConns, ListenerLive, LiveChans, Dispatching
<1>5. WaitGroupExact
  BY <1>4, FS_EmptySet DEF Init, WaitGroupExact
<1>6. QueueShape
  <2>1. \A c \in Conns : Len(queue[c]) = 0
    BY DEF Init
  <2> QED
    BY <2>1 DEF Init, QueueShape
<1>7. ContextShape /\ KilledShape /\ KillReachesAll /\ StopShape
  BY <1>4 DEF Init, ContextShape, KilledShape, KillReachesAll, StopShape
<1> QED
  BY <1>2, <1>3, <1>5, <1>6, <1>7 DEF IInv

\* Every step of the server, its clients and its handlers preserves it.
LEMMA NextInvariant == IInv /\ [Next]_vars => IInv'
<1> SUFFICES ASSUME IInv, [Next]_vars PROVE IInv'
  OBVIOUS
<1>1. /\ Typing /\ InboxShape /\ ConnShape /\ DispatchShape /\ ListenShape
      /\ OpenShape /\ QueueShape /\ WaitGroupExact /\ ContextShape
      /\ KilledShape /\ KillReachesAll /\ StopShape
  BY DEF IInv, TypeOK
<1>2. /\ Typing' /\ InboxShape' /\ ConnShape' /\ DispatchShape'
      /\ ListenShape' /\ OpenShape'
  BY <1>1, TypingStep, InboxStep, ConnStep, DispatchShapeStep, ListenShapeStep,
     OpenStep
<1>3. QueueShape' /\ ContextShape' /\ KilledShape' /\ KillReachesAll' /\ StopShape'
  BY <1>1, QueueStep, ContextStep, KilledStep, KillStep, StopShapeStep
<1>4. WaitGroupExact'
  BY <1>1, <1>2, RootMoveStep, ConnMoveStep, CountsKept
<1>5. TypeOK'
  <2>1. /\ wg' = Cardinality(LiveTasks')
        /\ \A c \in Conns : gwg'[c] = Cardinality(LiveChans(c)')
    BY <1>4 DEF WaitGroupExact
  <2>2. IsFiniteSet(LiveTasks') /\ \A c \in Conns : IsFiniteSet(LiveChans(c)')
    <3>1. LiveTasks' \subseteq Tasks /\ IsFiniteSet(Tasks)
      BY ConnsAssumption, FS_AddElement DEF LiveTasks, LiveConns, Tasks
    <3>2. \A c \in Conns : LiveChans(c)' \subseteq Chans
      BY DEF LiveChans
    <3> QED
      BY <3>1, <3>2, ConnsAssumption, FS_Subset
  <2>3. wg' \in Nat /\ \A c \in Conns : gwg'[c] \in Nat
    BY <2>1, <2>2, FS_CardinalityType
  <2> QED
    BY <1>2, <2>3 DEF TypeOK, InboxShape
<1> QED
  BY <1>2, <1>3, <1>4, <1>5 DEF IInv

\* The inductive invariant holds in every reachable state.
THEOREM Invariance == Spec => []IInv
BY InitInvariant, NextInvariant, PTL DEF Spec

\* Typing, and no wait group is ever negative: every Done has its Add.
THEOREM TypeCorrect == Spec => []TypeOK
BY Invariance, PTL DEF IInv

\* Both kinds of wait group count exactly the goroutines spawned and not over.
THEOREM WaitGroupsExact == Spec => []WaitGroupExact
BY Invariance, PTL DEF IInv

\* Kill, once returned, has reached every goroutine there is or will be.
THEOREM KillIsComplete == Spec => []KillReachesAll
BY Invariance, PTL DEF IInv

\* Execute returns with its socket closed, its mux over, its dispatches ended.
THEOREM ExecuteIsClean == Spec => []ExecuteLeavesNothing
<1>1. IInv => ExecuteLeavesNothing
  BY DEF IInv, ExecuteLeavesNothing, ConnShape, DispatchShape, LiveChans
<1> QED
  BY <1>1, Invariance, PTL

\* Stop returns only when everything the server started is over and closed.
THEOREM StopIsComplete == Spec => []StopComplete
<1>1. IInv => StopComplete
  <2> SUFFICES ASSUME IInv, stopPC = "returned" PROVE StopComplete
    BY DEF StopComplete
  <2>1. LiveTasks = {}
    BY DEF IInv, StopShape
  <2>2. ASSUME NEW c \in Conns
        PROVE  sock[c] # "open" /\ mux[c] \in {"none", "exited"} /\ LiveChans(c) = {}
    <3>1. hpc[c] \in {"none", "exited"}
      BY <2>1 DEF LiveTasks, LiveConns
    <3> QED
      BY <3>1 DEF IInv, ConnShape, DispatchShape, LiveChans
  <2>3. lpc # "none" => listener = "closed"
    BY <2>1 DEF LiveTasks, ListenerLive, IInv, ListenShape
  <2> QED
    BY <2>1, <2>2, <2>3 DEF StopComplete
<1> QED
  BY <1>1, Invariance, PTL

\* No Add from zero while a Wait may be under way.
THEOREM AddsBeforeWaits == Spec => AddBeforeWait
<1> DEFINE Rule ==
      /\ wg' > wg => wg > 0 \/ stopPC \in {"none", "killing"}
      /\ \A c \in Conns : gwg'[c] > gwg[c] => gwg[c] > 0 \/ hpc[c] # "gwait"
<1>1. IInv /\ [Next]_vars => [Rule]_vars
  <2> SUFFICES ASSUME IInv, [Next]_vars PROVE Rule
    OBVIOUS
  <2>1. Typing /\ ConnShape /\ QueueShape /\ WaitGroupExact
    BY DEF IInv, TypeOK
  <2>2. wg' > wg => wg > 0 \/ stopPC \in {"none", "killing"}
    <3>1. SUFFICES ASSUME wg' > wg PROVE wg > 0 \/ stopPC \in {"none", "killing"}
      OBVIOUS
    <3>2. CASE Start
      BY <3>2 DEF Start
    <3>3. ASSUME NEW c \in Conns, ListenAccept(c) PROVE wg > 0
      <4>1. Listen \in LiveTasks
        BY <3>3 DEF ListenAccept, LiveTasks, ListenerLive
      <4>2. Cardinality(LiveTasks) # 0 /\ Cardinality(LiveTasks) \in Nat
        BY <2>1, <4>1, LiveFinite, FS_EmptySet, FS_CardinalityType
      <4> QED
        BY <2>1, <4>2 DEF WaitGroupExact
    <3>4. CASE ~Start /\ \A c \in Conns : ~ListenAccept(c)
      <4>1. LiveTasks' \subseteq LiveTasks
        BY <2>1, <3>4, TaskAdded
      <4>2. RootMove
        BY <2>1, RootMoveStep
      <4> QED
        BY <2>1, <3>1, <4>1, <4>2 DEF RootMove, Typing
    <3> QED
      BY <3>2, <3>3, <3>4
  <2>3. ASSUME NEW c \in Conns, gwg'[c] > gwg[c] PROVE hpc[c] # "gwait"
    <3>1. ASSUME NEW d \in Conns, LoopReceive(d) PROVE hpc[c] # "gwait"
      BY <2>1, <2>3, <3>1 DEF LoopReceive, Typing
    <3>2. CASE \A d \in Conns : ~LoopReceive(d)
      <4>1. LiveChans(c)' \subseteq LiveChans(c)
        BY <2>1, <3>2, DispatchAdded DEF LiveChans
      <4>2. ConnMove(c)
        BY <2>1, ConnMoveStep
      <4> QED
        BY <2>1, <2>3, <4>1, <4>2 DEF ConnMove, Typing
    <3> QED
      BY <3>1, <3>2
  <2> QED
    BY <2>2, <2>3
<1> QED
  BY <1>1, Invariance, PTL DEF Spec, AddBeforeWait

-----------------------------------------------------------------------------
(* Refinement: each reaper implements TaskGroup.                           *)

\* The server's reaper: listen and Execute run between Spawn and Wait, end
\* once, and Stop returns only when killed and with none of them running.
THEOREM RootRefinement == Spec => RootReaper
<1> USE DEF RootFinished
<1>1. Init => RootGroup!Init
  BY DEF Init, RootGroup!Init, LiveTasks, LiveConns, ListenerLive
<1>2. IInv /\ [Next]_vars => [RootGroup!Next]_(RootGroup!vars)
  <2> SUFFICES ASSUME IInv, [Next]_vars PROVE [RootGroup!Next]_(RootGroup!vars)
    OBVIOUS
  <2> USE DEF RootGroup!Next, RootGroup!vars, RootGroup!Spawn, RootGroup!Finish,
              RootGroup!Kill, RootGroup!Return
  <2>1. /\ Typing /\ ConnShape /\ WaitGroupExact /\ StopShape /\ ContextShape
        /\ RootMove
    BY RootMoveStep DEF IInv, TypeOK
  <2>2. wg' = wg => LiveTasks' = LiveTasks /\ RootFinished' = RootFinished
    BY <2>1 DEF RootMove, Typing
  <2>3. CASE CancelParent \/ StopKill
    <3>1. LiveTasks' = LiveTasks /\ RootFinished' = RootFinished
      BY <2>2, <2>3 DEF CancelParent, StopKill, lisVars
    <3>2. (stopPC' = "returned") <=> (stopPC = "returned")
      BY <2>3 DEF CancelParent, StopKill
    <3>3. rootDone' = TRUE /\ rootDone \in BOOLEAN
      BY <2>1, <2>3 DEF CancelParent, StopKill, Typing
    <3> QED
      BY <3>1, <3>2, <3>3
  <2>4. CASE StopReturn
    <3>1. LiveTasks' = LiveTasks /\ RootFinished' = RootFinished /\ rootDone' = rootDone
      BY <2>2, <2>4 DEF StopReturn, lisVars, ctxVars
    <3>2. LiveTasks = {}
      BY <2>1, <2>4, LiveFinite, FS_EmptySet DEF StopReturn, WaitGroupExact
    <3>3. rootDone = TRUE /\ stopPC # "returned" /\ stopPC' = "returned"
      BY <2>1, <2>4 DEF StopReturn, ContextShape, Typing
    <3> QED
      BY <3>1, <3>2, <3>3
  <2>5. CASE ~CancelParent /\ ~StopKill /\ ~StopReturn
    <3>1. rootDone' = rootDone /\ ((stopPC' = "returned") <=> (stopPC = "returned"))
      BY <2>1, <2>5, OwnerMoves DEF StopWait
    <3>2. CASE LiveTasks' = LiveTasks /\ RootFinished' = RootFinished
      BY <3>1, <3>2
    <3>3. ASSUME NEW t \in Tasks, t \notin LiveTasks \cup RootFinished,
                 LiveTasks' = LiveTasks \cup {t}, RootFinished' = RootFinished
          PROVE  RootGroup!Spawn(t)
      <4>1. stopPC # "returned"
        <5>1. Start \/ \E c \in Conns : ListenAccept(c)
          BY <2>1, <3>3, TaskAdded
        <5> QED
          BY <2>1, <5>1 DEF Start, ListenAccept, StopShape, LiveTasks, ListenerLive
      <4> QED
        BY <3>1, <3>3, <4>1
    <3>4. ASSUME NEW t \in LiveTasks,
                 LiveTasks' = LiveTasks \ {t}, RootFinished' = RootFinished \cup {t}
          PROVE  t \in Tasks /\ RootGroup!Finish(t)
      <4>1. t \in Tasks
        BY <3>4 DEF LiveTasks, LiveConns, Tasks
      <4> QED
        BY <3>1, <3>4, <4>1
    <3> HIDE DEF RootGroup!Spawn, RootGroup!Finish, RootGroup!Kill, RootGroup!Return
    <3> QED
      BY <2>1, <3>2, <3>3, <3>4 DEF RootMove
  <2> QED
    BY <2>3, <2>4, <2>5
<1> QED
  BY <1>1, <1>2, Invariance, PTL DEF Spec, RootReaper, RootGroup!Spec

\* The reaper of each connection: Dispatch goroutines run between SpawnFunc and
\* g.Wait, end once, and g.Wait returns only when killed and with none running.
THEOREM ConnRefinement == Spec => ConnReapers
<1>1. Init => \A c \in Conns : ConnGroup(c)!Init
  BY DEF Init, ConnGroup!Init, LiveChans, Dispatching
<1>2. IInv /\ [Next]_vars =>
        [\A c \in Conns : [ConnGroup(c)!Next]_(ConnGroup(c)!vars)]_vars
  <2> SUFFICES ASSUME IInv, [Next]_vars, NEW c \in Conns
               PROVE  [ConnGroup(c)!Next]_(ConnGroup(c)!vars)
    OBVIOUS
  <2> USE DEF ConnGroup!Next, ConnGroup!vars, ConnGroup!Spawn, ConnGroup!Finish,
              ConnGroup!Kill, ConnGroup!Return, ConnFinished
  <2> DEFINE over  == hpc[c] \in {"finish", "exited"}
  <2>1. /\ Typing /\ ConnShape /\ QueueShape /\ WaitGroupExact /\ DispatchShape
        /\ KilledShape /\ ConnMove(c)
    BY ConnMoveStep DEF IInv, TypeOK
  <2>2. gwg'[c] = gwg[c] =>
          LiveChans(c)' = LiveChans(c) /\ ConnFinished(c)' = ConnFinished(c)
    BY <2>1 DEF ConnMove, Typing
  <2>3. CASE ExecuteRefuse(c) \/ ExecuteGroupWait(c)
    <3>1. LiveChans(c)' = LiveChans(c) /\ ConnFinished(c)' = ConnFinished(c)
      BY <2>2, <2>3 DEF ExecuteRefuse, ExecuteGroupWait
    <3>2. c \in ctxDone /\ ctxDone' = ctxDone
      BY <2>1, <2>3 DEF ExecuteRefuse, ExecuteGroupWait, KilledShape, ctxVars
    <3>3. LiveChans(c) = {}
      <4>1. CASE ExecuteRefuse(c)
        BY <2>1, <4>1 DEF ExecuteRefuse, DispatchShape, LiveChans
      <4>2. CASE ExecuteGroupWait(c)
        BY <2>1, <4>2, LiveFinite, FS_EmptySet DEF ExecuteGroupWait, WaitGroupExact
      <4> QED
        BY <2>3, <4>1, <4>2
    <3>4. ~over /\ over'
      BY <2>1, <2>3 DEF ExecuteRefuse, ExecuteGroupWait, Typing
    <3> QED
      BY <3>1, <3>2, <3>3, <3>4
  <2>4. CASE ~ExecuteRefuse(c) /\ ~ExecuteGroupWait(c)
    <3>1. over' <=> over
      BY <2>1, <2>4, ExecuteMoves
    <3>2. CASE gwg'[c] = gwg[c]
      <4>1. LiveChans(c)' = LiveChans(c) /\ ConnFinished(c)' = ConnFinished(c)
        BY <2>2, <3>2
      <4>2. c \in ctxDone => c \in ctxDone'
        BY <2>1, ExecuteMoves
      <4> QED
        BY <3>1, <4>1, <4>2
    <3>3. CASE gwg'[c] # gwg[c]
      <4>1. ctxDone' = ctxDone
        BY <2>1, <3>3, ExecuteMoves
      <4>2. ASSUME NEW ch \in Chans, ch \notin LiveChans(c) \cup ConnFinished(c),
                   hpc[c] = "loop", LiveChans(c)' = LiveChans(c) \cup {ch},
                   ConnFinished(c)' = ConnFinished(c)
            PROVE  ConnGroup(c)!Spawn(ch)
        BY <3>1, <4>1, <4>2
      <4>3. ASSUME NEW ch \in LiveChans(c), LiveChans(c)' = LiveChans(c) \ {ch},
                   ConnFinished(c)' = ConnFinished(c) \cup {ch}
            PROVE  ch \in Chans /\ ConnGroup(c)!Finish(ch)
        <5>1. ch \in Chans
          BY DEF LiveChans
        <5> QED
          BY <3>1, <4>1, <4>3, <5>1
      <4> HIDE DEF ConnGroup!Spawn, ConnGroup!Finish, ConnGroup!Kill, ConnGroup!Return
      <4> QED
        BY <2>1, <3>3, <4>2, <4>3 DEF ConnMove
    <3> QED
      BY <3>2, <3>3
  <2> QED
    BY <2>3, <2>4
<1> QED
  BY <1>1, <1>2, Invariance, PTL DEF Spec, ConnReapers

-----------------------------------------------------------------------------
(* Refinement: the Dispatch of each channel implements DispatchLife.       *)

\* How far the Dispatch of a channel has come.
Phase(ch) ==
    CASE chan[ch] \in {"unsent", "opening", "queued"} -> "idle"
      [] chan[ch] = "spawned" -> "begun"
      [] chan[ch] \in {"handling", "returning"} -> chan[ch]
      [] OTHER -> "over"

\* A step that leaves every Dispatch where it is does not open the socket of a
\* connection that has one.
LEMMA LifeStill ==
  ASSUME Typing, ConnShape, OpenShape, [Next]_vars,
         NEW ch \in Chans, Phase(ch)' = Phase(ch)
  PROVE  sock'[ConnOf[ch]] = "open" => sock[ConnOf[ch]] = "open" \/ Phase(ch) = "idle"
<1> DEFINE Kept == \A d \in Conns : sock'[d] = "open" => sock[d] = "open" \/ hpc[d] = "none"
<1> USE DEF ctxVars, lisVars, connVars, chanVars, Typing
<1>1. ASSUME Owner PROVE Kept
  BY <1>1 DEF Owner, Start, CancelParent, StopKill, StopWait, StopReturn
<1>2. ASSUME ListenStep PROVE Kept
  <2>1. ASSUME NEW c \in Conns, ListenAccept(c) PROVE Kept
    BY <2>1 DEF ListenAccept, ConnShape
  <2>2. ASSUME ListenCheck \/ ListenAcceptFails \/ ListenClose \/ ListenExit PROVE Kept
    BY <2>2 DEF ListenCheck, ListenAcceptFails, ListenClose, ListenExit
  <2> QED
    BY <1>2, <2>1, <2>2 DEF ListenStep
<1>3. ASSUME NEW t \in Tasks, CancelTask(t) PROVE Kept
  BY <1>3 DEF CancelTask
<1>4. ASSUME NEW c \in Conns, Client(c) PROVE Kept
  BY <1>4 DEF Client, Connect, Hangup
<1>5. ASSUME NEW c \in Conns, ExecuteStep(c) PROVE Kept
  BY <1>5 DEF ExecuteStep, ExecuteRefuse, ExecuteBegin, LoopReceive, LoopBreak,
     ExecuteKill, ExecuteConnWait, ExecuteConnClose, ExecuteGroupWait, ExecuteFinish
<1>6. ASSUME NEW c \in Conns, Handshake(c) PROVE Kept
  BY <1>6 DEF Handshake, HandshakeOK, HandshakeFail
<1>7. ASSUME NEW c \in Conns, MuxStep(c) PROVE Kept
  BY <1>7 DEF MuxStep, MuxStop, MuxExit
<1>8. ASSUME NEW x \in Chans, CancelChan(x) PROVE Kept
  BY <1>8 DEF CancelChan
<1>9. ASSUME NEW x \in Chans, MuxChan(x) PROVE Kept
  BY <1>9 DEF MuxChan, MuxOpen, MuxEnqueue
<1>10. ASSUME NEW x \in Chans, DispatchStep(x) PROVE Kept
  BY <1>10 DEF DispatchStep, DispatchRefuse, DispatchAccept, DispatchClose, DispatchDone
<1>11. ASSUME NEW x \in Chans, HandlerReturn(x) PROVE Kept
  BY <1>11 DEF HandlerReturn
<1>12. ASSUME NEW b \in Sent, Inbox(b) PROVE Kept
  BY <1>12 DEF Inbox, MuxSend, Receive
<1>13. ASSUME UNCHANGED vars PROVE Kept
  BY <1>13 DEF vars
<1>14. Kept
  BY <1>1, <1>2, <1>3, <1>4, <1>5, <1>6, <1>7, <1>8, <1>9, <1>10, <1>11, <1>12, <1>13
     DEF Next, Stopped
<1>15. ConnOf[ch] \in Conns
  BY ConnOfAssumption
<1>16. hpc[ConnOf[ch]] = "none" => chan[ch] = "unsent"
  BY <1>15 DEF ConnShape, OpenShape
<1>17. chan[ch] = "unsent" => Phase(ch) = "idle"
  BY DEF Phase
<1> QED
  BY <1>14, <1>15, <1>16, <1>17

\* Who moves a channel.
LEMMA ChanMoves ==
  ASSUME [Next]_vars
  PROVE  \/ chan' = chan
         \/ \E c \in Conns : LoopReceive(c)
         \/ \E x \in Chans : MuxChan(x) \/ DispatchStep(x) \/ HandlerReturn(x)
<1> USE DEF ctxVars, lisVars, connVars, chanVars
<1>1. CASE Owner
  BY <1>1 DEF Owner, Start, CancelParent, StopKill, StopWait, StopReturn
<1>2. CASE ListenStep
  BY <1>2 DEF ListenStep, ListenCheck, ListenAccept, ListenAcceptFails, ListenClose,
     ListenExit
<1>3. ASSUME NEW t \in Tasks, CancelTask(t) PROVE chan' = chan
  BY <1>3 DEF CancelTask
<1>4. ASSUME NEW c \in Conns, Client(c) PROVE chan' = chan
  BY <1>4 DEF Client, Connect, Hangup
<1>5. ASSUME NEW c \in Conns, ExecuteStep(c) PROVE chan' = chan \/ LoopReceive(c)
  BY <1>5 DEF ExecuteStep, ExecuteRefuse, ExecuteBegin, LoopBreak,
     ExecuteKill, ExecuteConnWait, ExecuteConnClose, ExecuteGroupWait, ExecuteFinish
<1>6. ASSUME NEW c \in Conns, Handshake(c) PROVE chan' = chan
  BY <1>6 DEF Handshake, HandshakeOK, HandshakeFail
<1>7. ASSUME NEW c \in Conns, MuxStep(c) PROVE chan' = chan
  BY <1>7 DEF MuxStep, MuxStop, MuxExit
<1>8. ASSUME NEW x \in Chans, CancelChan(x) PROVE chan' = chan
  BY <1>8 DEF CancelChan
<1>9. ASSUME NEW b \in Sent, Inbox(b) PROVE chan' = chan
  BY <1>9 DEF Inbox, MuxSend, Receive
<1>10. CASE UNCHANGED vars
  BY <1>10 DEF vars
<1> QED
  BY <1>1, <1>2, <1>3, <1>4, <1>5, <1>6, <1>7, <1>8, <1>9, <1>10 DEF Next, Stopped

\* Dispatch runs through its phases in order, accepts only on an open connection
\* and leaves it closed for good.
THEOREM DispatchRefinement == Spec => DispatchLives
<1>1. Init => \A ch \in Chans : Life(ch)!Init
  BY DEF Init, Life!Init
<1>2. IInv /\ [Next]_vars => [\A ch \in Chans : [Life(ch)!Next]_(Life(ch)!vars)]_vars
  <2> SUFFICES ASSUME IInv, [Next]_vars, NEW ch \in Chans
               PROVE  [Life(ch)!Next]_(Life(ch)!vars)
    OBVIOUS
  <2>1. Typing /\ QueueShape /\ ConnShape /\ OpenShape
    BY DEF IInv, TypeOK
  <2>2. CASE Phase(ch)' = Phase(ch)
    <3>1. sock'[ConnOf[ch]] = "open" => sock[ConnOf[ch]] = "open" \/ Phase(ch) = "idle"
      BY <2>1, <2>2, LifeStill
    <3> QED
      BY <2>2, <3>1 DEF Phase, Life!Next, Life!Elsewhere
  <2>3. CASE Phase(ch)' # Phase(ch)
    <3> USE ConnOfAssumption
        DEF Phase, Typing, ctxVars, lisVars, connVars, chanVars, Life!Next
    <3>1. ASSUME NEW c \in Conns, LoopReceive(c) PROVE Life(ch)!Next
      <4>1. Head(queue[c]) \in Chans /\ chan[Head(queue[c])] = "queued"
        <5>1. /\ queue[c] \in Seq(Chans) /\ Len(queue[c]) \in Nat \ {0}
              /\ Head(queue[c]) = queue[c][1]
          BY <2>1, <3>1, TailAppend DEF LoopReceive
        <5> QED
          BY <2>1, <5>1 DEF QueueShape
      <4> QED
        BY <2>1, <2>3, <3>1, <4>1 DEF LoopReceive, Life!Begin
    <3>2. ASSUME NEW x \in Chans, MuxChan(x) PROVE FALSE
      BY <2>1, <2>3, <3>2 DEF MuxChan, MuxOpen, MuxEnqueue
    <3>3. ASSUME NEW x \in Chans, DispatchStep(x) PROVE Life(ch)!Next
      <4>1. CASE DispatchRefuse(x)
        BY <2>1, <2>3, <4>1 DEF DispatchRefuse, Life!Refuse
      <4>2. CASE DispatchAccept(x)
        BY <2>1, <2>3, <4>2 DEF DispatchAccept, Life!Accept
      <4>3. CASE DispatchClose(x)
        BY <2>1, <2>3, <4>3 DEF DispatchClose, Life!Close
      <4>4. CASE DispatchDone(x)
        BY <2>1, <2>3, <4>4 DEF DispatchDone
      <4> QED
        BY <3>3, <4>1, <4>2, <4>3, <4>4 DEF DispatchStep
    <3>4. ASSUME NEW x \in Chans, HandlerReturn(x) PROVE Life(ch)!Next
      BY <2>1, <2>3, <3>4 DEF HandlerReturn, Life!Return
    <3>5. CASE chan' = chan
      BY <2>3, <3>5
    <3>6. \/ chan' = chan
          \/ \E c \in Conns : LoopReceive(c)
          \/ \E x \in Chans : MuxChan(x) \/ DispatchStep(x) \/ HandlerReturn(x)
      BY ChanMoves
    <3> QED
      BY <3>1, <3>2, <3>3, <3>4, <3>5, <3>6
  <2> QED
    BY <2>2, <2>3
<1> QED
  BY <1>1, <1>2, Invariance, PTL DEF Spec, DispatchLives

=============================================================================
