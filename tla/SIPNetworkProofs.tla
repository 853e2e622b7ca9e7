-------------------------- MODULE SIPNetworkProofs --------------------------
(***************************************************************************)
(* Proofs about SIPNetwork for every set of handles and every bound.       *)
(*                                                                         *)
(* The registry is right between any two steps of the network thread only  *)
(* because of where the thread is: the invariant below says what it knows  *)
(* about the socket it is creating or reading.                             *)
(***************************************************************************)
EXTENDS SIPNetwork, TLAPS

(* A socket between its creation and its entry is open and not registered; *)
(* a socket being read is no longer among those still to be looked at; the *)
(* drained events are gone when the thread polls or has left.              *)
ThreadKnows ==
  /\ pc = "create" => /\ current \in Handle
                      /\ kernel[current] \in Transport
                      /\ m_sockets[current] = "none"
  /\ pc = "recv" => current \notin ready
  /\ pc \notin {"handle", "create"} => events = <<>>

NetworkInv == TypeOK /\ RegistryMatchesKernel /\ StoppedIsClean /\ ThreadKnows

(* An event as dispatch builds it is an event.                             *)
LEMMA PlainIsEvent == ASSUME NEW t \in EventType PROVE Plain(t) \in Event
  BY DEF Plain, Event, Transport

(* What other modules may post are events.                                 *)
LEMMA RequestIsEvent == Request \subseteq Event
  BY PlainIsEvent DEF Request, Plain, Event, EventType, Transport

(* A dispatch keeps the queue a sequence of events.                        *)
LEMMA DispatchTyped ==
  ASSUME TypeOK, NEW t \in EventType, Dispatch(t)
  PROVE  m_event_queue' \in Seq(Event)
  BY PlainIsEvent DEF Dispatch, TypeOK

(* A failure reported keeps the queue typed.                               *)
LEMMA LogTyped ==
  ASSUME TypeOK, log PROVE m_event_queue' \in Seq(Event)
  BY DispatchTyped DEF log, EventType

(* A message received is within the bound and keeps the queue typed.       *)
LEMMA RawTyped ==
  ASSUME TypeOK, dispatch_raw_message \/ NoMessage
  PROVE  m_event_queue' \in Seq(Event) /\ messages' \in 0 .. MaxMessages
<1>1. m_event_queue' \in Seq(Event)
  BY DispatchTyped DEF dispatch_raw_message, NoMessage, EventType, TypeOK
<1>2. messages' \in 0 .. MaxMessages
  BY SIPNetworkAssumption DEF dispatch_raw_message, NoMessage, TypeOK
<1> QED
  BY <1>1, <1>2

(* Taking the next event leaves a shorter vector of events.                *)
LEMMA HandlingTyped ==
  ASSUME TypeOK, NEW types, Handling(types)
  PROVE  events' \in Seq(Event) /\ Head(events) \in Event
  BY DEF Handling, TypeOK

(* Every variable keeps its type.                                          *)
LEMMA TypeStep == NetworkInv /\ [Next]_vars => TypeOK'
<1> SUFFICES ASSUME NetworkInv, [Next]_vars PROVE TypeOK'
  OBVIOUS
<1> USE DEF vars, thread, sockets, counters
<1>0. TypeOK
  BY DEF NetworkInv
<1>1. ASSUME NEW evt \in Request, on_event(evt) PROVE TypeOK'
  <2>1. m_event_queue' \in Seq(Event)
    BY <1>0, <1>1, RequestIsEvent DEF on_event, TypeOK
  <2>2. posts' \in 0 .. MaxPosts
    BY <1>0, <1>1, SIPNetworkAssumption DEF on_event, TypeOK
  <2> QED
    BY <1>0, <1>1, <2>1, <2>2 DEF on_event, TypeOK
<1>2. CASE start
  BY <1>0, <1>2 DEF start, TypeOK, ThreadPC
<1>3. CASE RequestStop
  BY <1>0, <1>3 DEF RequestStop, TypeOK
<1>4. CASE FinishStop
  BY <1>0, <1>4 DEF FinishStop, CloseAll, Registered, TypeOK, ThreadPC
<1>5. CASE CheckRunning \/ EndOfEvents \/ EndOfReady
  BY <1>0, <1>5 DEF CheckRunning, EndOfEvents, EndOfReady, TypeOK, ThreadPC
<1>6. CASE DrainQueue
  BY <1>0, <1>6 DEF DrainQueue, TypeOK, ThreadPC
<1>7. CASE CreateSocket
  <2>1. events' \in Seq(Event) /\ Head(events).transport \in Transport
    BY <1>0, <1>7, HandlingTyped DEF CreateSocket, Event
  <2>2. PICK h \in Handle : kernel' = [kernel EXCEPT ![h] = Head(events).transport] /\ current' = h
    BY <1>7 DEF CreateSocket, create
  <2>3. kernel' \in [Handle -> Transport \cup {"closed"}]
    BY <1>0, <2>1, <2>2 DEF TypeOK
  <2> QED
    BY <1>0, <1>7, <2>1, <2>2, <2>3 DEF CreateSocket, Handling, TypeOK, ThreadPC
<1>8. CASE CreateFails
  <2>1. events' \in Seq(Event)
    BY <1>0, <1>8, HandlingTyped DEF CreateFails
  <2>2. m_event_queue' \in Seq(Event)
    BY <1>0, <1>8, LogTyped DEF CreateFails
  <2> QED
    BY <1>0, <1>8, <2>1, <2>2 DEF CreateFails, Handling, TypeOK
<1>9. CASE RegisterSocket
  <2>1. m_event_queue' \in Seq(Event)
    BY <1>0, <1>9, DispatchTyped DEF RegisterSocket, EventType
  <2>2. m_sockets' \in [Handle -> Transport \cup {"none"}]
    BY <1>0, <1>9 DEF RegisterSocket, NetworkInv, ThreadKnows, TypeOK
  <2> QED
    BY <1>0, <1>9, <2>1, <2>2 DEF RegisterSocket, TypeOK, ThreadPC
<1>10. CASE AbandonSocket
  <2>1. m_event_queue' \in Seq(Event)
    BY <1>0, <1>10, LogTyped DEF AbandonSocket
  <2> QED
    BY <1>0, <1>10, <2>1 DEF AbandonSocket, close, TypeOK, ThreadPC
<1>11. CASE SendMessage
  <2>1. events' \in Seq(Event)
    BY <1>0, <1>11, HandlingTyped DEF SendMessage
  <2>2. m_event_queue' \in Seq(Event)
    BY <1>0, <1>11, LogTyped DEF SendMessage, send, TypeOK
  <2> QED
    BY <1>0, <1>11, <2>1, <2>2 DEF SendMessage, Handling, TypeOK
<1>12. CASE IgnoreEvent
  BY <1>0, <1>12, HandlingTyped DEF IgnoreEvent, Handling, TypeOK
<1>13. CASE Poll
  BY <1>0, <1>13 DEF Poll, Registered, TypeOK, ThreadPC
<1>14. CASE PollFails \/ RecvFails
  <2>1. m_event_queue' \in Seq(Event)
    BY <1>0, <1>14, LogTyped DEF PollFails, RecvFails
  <2> QED
    BY <1>0, <1>14, <2>1 DEF PollFails, RecvFails, TypeOK, ThreadPC
<1>15. CASE NextReady
  BY <1>0, <1>15 DEF NextReady, TypeOK, ThreadPC
<1>16. CASE RecvStream \/ RecvDatagram
  <2>1. m_event_queue' \in Seq(Event) /\ messages' \in 0 .. MaxMessages
    BY <1>0, <1>16, RawTyped DEF RecvStream, RecvDatagram
  <2>2. current \in Handle
    BY <1>16 DEF RecvStream, RecvDatagram, NetworkInv, RegistryMatchesKernel, Registered
  <2>3. Take(current)
    BY <1>16 DEF RecvStream, RecvDatagram, recv, recv_from
  <2>4. inbox' \in [Handle -> Nat]
    BY <1>0, <2>2, <2>3 DEF Take, TypeOK
  <2> QED
    BY <1>0, <1>16, <2>1, <2>3, <2>4 DEF RecvStream, RecvDatagram, Take, TypeOK, ThreadPC
<1>17. CASE RecvFin
  BY <1>0, <1>17 DEF RecvFin, close, TypeOK, ThreadPC
<1>18. ASSUME NEW h \in Handle, Arrive(h) PROVE TypeOK'
  <2>1. inbox' \in [Handle -> Nat]
    BY <1>0, <1>18 DEF Arrive, TypeOK
  <2> QED
    BY <1>0, <1>18, <2>1 DEF Arrive, TypeOK
<1>19. ASSUME NEW h \in Handle, PeerCloses(h) PROVE TypeOK'
  BY <1>0, <1>19 DEF PeerCloses, TypeOK
<1>20. CASE UNCHANGED vars
  BY <1>0, <1>20 DEF TypeOK
<1> QED
  BY <1>1, <1>2, <1>3, <1>4, <1>5, <1>6, <1>7, <1>8, <1>9, <1>10, <1>11, <1>12, <1>13,
     <1>14, <1>15, <1>16, <1>17, <1>18, <1>19, <1>20 DEF Next, network_loop, Unblocked

-----------------------------------------------------------------------------
(* Steps that leave the registry, the kernel and the socket at hand alone  *)
(* and do not move the thread into or out of creating, reading, or being.  *)
LEMMA RegistryFrame ==
  ASSUME RegistryMatchesKernel, StoppedIsClean,
         UNCHANGED <<m_sockets, kernel>>,
         pc = "create" => pc' = "create" /\ current' = current,
         pc' = "none" => pc = "none",
         pc' \in {"ready", "recv"} => ready' \subseteq Registered,
         pc' = "recv" => current' \in Registered
  PROVE  RegistryMatchesKernel' /\ StoppedIsClean'
  BY DEF RegistryMatchesKernel, StoppedIsClean, Registered

(* The registry and the kernel agree after every step.                     *)
LEMMA RegistryStep ==
  NetworkInv /\ [Next]_vars => RegistryMatchesKernel' /\ StoppedIsClean'
<1> SUFFICES ASSUME NetworkInv, [Next]_vars
             PROVE  RegistryMatchesKernel' /\ StoppedIsClean'
  OBVIOUS
<1> USE DEF vars, thread, sockets, counters
<1>0. TypeOK /\ RegistryMatchesKernel /\ StoppedIsClean /\ ThreadKnows
  BY DEF NetworkInv
<1>1. /\ pc \in {"ready", "recv"} => ready \subseteq Registered
      /\ pc = "recv" => current \in Registered
  BY <1>0 DEF RegistryMatchesKernel
<1>2. CASE \/ \E evt \in Request : on_event(evt)
           \/ RequestStop
           \/ \E h \in Handle : Arrive(h) \/ PeerCloses(h)
           \/ UNCHANGED vars
  <2>1. UNCHANGED <<m_sockets, kernel, pc, current, ready>>
    BY <1>2 DEF on_event, RequestStop, Arrive, PeerCloses
  <2> QED
    BY <1>0, <1>1, <2>1, RegistryFrame
<1>3. CASE start \/ CheckRunning \/ DrainQueue \/ EndOfEvents \/ PollFails \/ EndOfReady
  <2>1. /\ UNCHANGED <<m_sockets, kernel>>
        /\ pc # "create" /\ pc' \notin {"none", "ready", "recv", "create"}
    BY <1>3 DEF start, CheckRunning, DrainQueue, EndOfEvents, PollFails, EndOfReady
  <2> QED
    BY <1>0, <2>1, RegistryFrame
<1>4. CASE CreateFails \/ SendMessage \/ IgnoreEvent
  <2>1. UNCHANGED <<m_sockets, kernel, pc>> /\ pc = "handle"
    BY <1>4 DEF CreateFails, SendMessage, IgnoreEvent, Handling
  <2> QED
    BY <1>0, <2>1, RegistryFrame
<1>5. CASE Poll
  <2>1. /\ UNCHANGED <<m_sockets, kernel>>
        /\ ready' \subseteq Registered
        /\ pc = "poll" /\ pc' \in {"loop", "ready"}
    BY <1>5 DEF Poll
  <2> QED
    BY <1>0, <2>1, RegistryFrame
<1>6. CASE NextReady
  <2>1. /\ UNCHANGED <<m_sockets, kernel>>
        /\ pc = "ready" /\ pc' \in {"recv", "ready"}
        /\ ready' \subseteq ready
        /\ pc' = "recv" => current' \in Registered
    BY <1>6 DEF NextReady
  <2> QED
    BY <1>0, <1>1, <2>1, RegistryFrame
<1>7. CASE RecvStream \/ RecvDatagram \/ RecvFails
  <2>1. /\ UNCHANGED <<m_sockets, kernel, ready>>
        /\ pc = "recv" /\ (pc' = "ready" \/ UNCHANGED <<pc, current>>)
    BY <1>7 DEF RecvStream, RecvDatagram, RecvFails, recv, recv_from, Take
  <2> QED
    BY <1>0, <1>1, <2>1, RegistryFrame
<1>8. CASE FinishStop
  <2>1. \A h \in Handle : m_sockets'[h] = "none" /\ kernel'[h] = "closed"
    BY <1>0, <1>8 DEF FinishStop, CloseAll, Registered, TypeOK, RegistryMatchesKernel
  <2>2. pc' = "none"
    BY <1>8 DEF FinishStop
  <2> QED
    BY <2>1, <2>2 DEF RegistryMatchesKernel, StoppedIsClean
<1>9. CASE CreateSocket
  <2>1. PICK h \in Handle :
          /\ kernel[h] = "closed"
          /\ kernel' = [kernel EXCEPT ![h] = Head(events).transport]
          /\ current' = h
    BY <1>9 DEF CreateSocket, create
  <2>2. m_sockets' = m_sockets /\ pc = "handle" /\ pc' = "create"
    BY <1>9 DEF CreateSocket, Handling
  <2>3. m_sockets[h] = "none"
    BY <1>0, <2>1 DEF RegistryMatchesKernel, TypeOK, Transport
  <2> QED
    BY <1>0, <2>1, <2>2, <2>3 DEF RegistryMatchesKernel, StoppedIsClean, TypeOK
<1>10. CASE RegisterSocket
  <2>1. /\ m_sockets' = [m_sockets EXCEPT ![current] = kernel[current]]
        /\ kernel' = kernel
        /\ pc = "create" /\ pc' = "handle"
    BY <1>10 DEF RegisterSocket
  <2>2. current \in Handle /\ kernel[current] \in Transport
    BY <1>0, <2>1 DEF ThreadKnows
  <2> QED
    BY <1>0, <2>1, <2>2 DEF RegistryMatchesKernel, StoppedIsClean, TypeOK, Transport
<1>11. CASE AbandonSocket
  <2>1. /\ kernel' = [kernel EXCEPT ![current] = "closed"]
        /\ m_sockets' = m_sockets
        /\ pc = "create" /\ pc' = "handle"
    BY <1>11 DEF AbandonSocket, close
  <2>2. current \in Handle /\ m_sockets[current] = "none"
    BY <1>0, <2>1 DEF ThreadKnows
  <2> QED
    BY <1>0, <2>1, <2>2 DEF RegistryMatchesKernel, StoppedIsClean, TypeOK
<1>12. CASE RecvFin
  <2>1. /\ kernel' = [kernel EXCEPT ![current] = "closed"]
        /\ m_sockets' = [m_sockets EXCEPT ![current] = "none"]
        /\ ready' = ready
        /\ pc = "recv" /\ pc' = "ready"
    BY <1>12 DEF RecvFin, close
  <2>2. current \in Registered /\ ready \subseteq Registered /\ current \notin ready
    BY <1>0, <1>1, <2>1 DEF ThreadKnows
  <2> QED
    BY <1>0, <2>1, <2>2 DEF RegistryMatchesKernel, StoppedIsClean, TypeOK, Registered
<1> QED
  BY <1>2, <1>3, <1>4, <1>5, <1>6, <1>7, <1>8, <1>9, <1>10, <1>11, <1>12 DEF Next, network_loop, Unblocked

(* What the thread knows about its socket and its events stays true.       *)
LEMMA ThreadStep == NetworkInv /\ [Next]_vars => ThreadKnows'
<1> SUFFICES ASSUME NetworkInv, [Next]_vars PROVE ThreadKnows'
  OBVIOUS
<1> USE DEF vars, thread, sockets, counters
<1>0. TypeOK /\ RegistryMatchesKernel /\ ThreadKnows
  BY DEF NetworkInv
<1>1. CASE \/ \E evt \in Request : on_event(evt)
           \/ RequestStop
           \/ \E h \in Handle : Arrive(h) \/ PeerCloses(h)
           \/ UNCHANGED vars
  BY <1>0, <1>1 DEF on_event, RequestStop, Arrive, PeerCloses, ThreadKnows
<1>2. CASE \/ start \/ FinishStop \/ CheckRunning \/ EndOfEvents \/ Poll \/ PollFails
           \/ EndOfReady \/ RecvStream \/ RecvDatagram \/ RecvFin \/ RecvFails
  <2>1. /\ UNCHANGED events
        /\ pc \notin {"handle", "create"} \/ events = <<>>
        /\ pc' \notin {"create", "handle"}
        /\ pc' = "recv" => UNCHANGED <<ready, current, pc>>
    BY <1>2 DEF start, FinishStop, CheckRunning, EndOfEvents, Poll, PollFails, EndOfReady,
                RecvStream, RecvDatagram, RecvFin, RecvFails
  <2> QED
    BY <1>0, <2>1 DEF ThreadKnows
<1>3. CASE DrainQueue \/ CreateFails \/ SendMessage \/ IgnoreEvent \/ RegisterSocket \/ AbandonSocket
  <2>1. pc' = "handle"
    BY <1>3 DEF DrainQueue, CreateFails, SendMessage, IgnoreEvent, Handling, RegisterSocket,
                AbandonSocket
  <2> QED
    BY <2>1 DEF ThreadKnows
<1>4. CASE CreateSocket
  <2>1. PICK h \in Handle :
          /\ kernel[h] = "closed"
          /\ kernel' = [kernel EXCEPT ![h] = Head(events).transport]
          /\ current' = h
    BY <1>4 DEF CreateSocket, create
  <2>2. m_sockets' = m_sockets /\ pc' = "create"
    BY <1>4 DEF CreateSocket
  <2>3. Head(events).transport \in Transport
    BY <1>0, <1>4, HandlingTyped DEF CreateSocket, Event
  <2>4. m_sockets[h] = "none"
    BY <1>0, <2>1 DEF RegistryMatchesKernel, TypeOK, Transport
  <2> QED
    BY <1>0, <2>1, <2>2, <2>3, <2>4 DEF ThreadKnows, TypeOK
<1>5. CASE NextReady
  <2>1. /\ pc' = "recv" => current' \notin ready'
        /\ UNCHANGED events
        /\ pc = "ready" /\ pc' \in {"recv", "ready"}
    BY <1>5 DEF NextReady
  <2> QED
    BY <1>0, <2>1 DEF ThreadKnows
<1> QED
  BY <1>1, <1>2, <1>3, <1>4, <1>5 DEF Next, network_loop, Unblocked

(* The invariant holds initially and after every step.                     *)
LEMMA NetworkInvariant == Spec => []NetworkInv
<1>1. Init => NetworkInv
  <2> SUFFICES ASSUME Init PROVE NetworkInv
    OBVIOUS
  <2>1. <<>> \in Seq(Event)
    OBVIOUS
  <2>2. \A n \in Nat : 0 \in 0 .. n
    OBVIOUS
  <2>3. TypeOK
    BY <2>1, <2>2, SIPNetworkAssumption DEF Init, TypeOK, ThreadPC
  <2> QED
    BY <2>3 DEF Init, NetworkInv, RegistryMatchesKernel, StoppedIsClean, ThreadKnows
<1>2. NetworkInv /\ [Next]_vars => NetworkInv'
  BY TypeStep, RegistryStep, ThreadStep DEF NetworkInv
<1> QED
  BY <1>1, <1>2, PTL DEF Spec

(* The variables of the network worker always have their types.            *)
THEOREM NetworkTypeCorrect == Spec => []TypeOK
<1>1. NetworkInv => TypeOK
  BY DEF NetworkInv
<1> QED
  BY <1>1, NetworkInvariant, PTL

(* No path through creation, failure, reading or stop leaks a socket or    *)
(* leaves an entry whose socket is closed.                                 *)
THEOREM RegistryCorrect == Spec => []RegistryMatchesKernel
<1>1. NetworkInv => RegistryMatchesKernel
  BY DEF NetworkInv
<1> QED
  BY <1>1, NetworkInvariant, PTL

(* After stop no entry and no open socket is left.                         *)
THEOREM StopIsClean == Spec => []StoppedIsClean
<1>1. NetworkInv => StoppedIsClean
  BY DEF NetworkInv
<1> QED
  BY <1>1, NetworkInvariant, PTL

-----------------------------------------------------------------------------
(* Appending to the queue appends to what is pending.                      *)
LEMMA AppendPending ==
  ASSUME NEW S, NEW s \in Seq(S), NEW q \in Seq(S), NEW e \in S
  PROVE  s \o Append(q, e) = Append(s \o q, e)
  OBVIOUS

(* Taking the head of the vector takes the head of what is pending.        *)
LEMMA TailPending ==
  ASSUME NEW S, NEW s \in Seq(S), NEW q \in Seq(S), s # <<>>
  PROVE  Tail(s \o q) = Tail(s) \o q
  OBVIOUS

(* Nothing precedes the queue when the vector is empty.                    *)
LEMMA NoVectorPending ==
  ASSUME NEW S, NEW q \in Seq(S)
  PROVE  <<>> \o q = q /\ q \o <<>> = q
  OBVIOUS

(* The queue keeps what it holds, or one event is added at its end.        *)
QueueGrows ==
  m_event_queue' = m_event_queue
    \/ \E e \in Event : m_event_queue' = Append(m_event_queue, e)

(* A dispatch adds one event at the end of the queue.                      *)
LEMMA DispatchGrows ==
  ASSUME NEW t \in EventType, Dispatch(t) PROVE QueueGrows
  BY PlainIsEvent DEF Dispatch, QueueGrows

(* So does a failure reported, and a message received or not complete.     *)
LEMMA LogGrows == ASSUME log \/ dispatch_raw_message \/ NoMessage PROVE QueueGrows
  BY DispatchGrows DEF log, dispatch_raw_message, NoMessage, EventType, QueueGrows

(* A step that leaves the vector alone keeps the order.                    *)
LEMMA VectorKept ==
  ASSUME TypeOK, events' = events, QueueGrows PROVE OrderKept
<1>1. events \in Seq(Event) /\ m_event_queue \in Seq(Event)
  BY DEF TypeOK
<1>2. CASE m_event_queue' = m_event_queue
  BY <1>2 DEF OrderKept, Pending
<1>3. CASE \E e \in Event : m_event_queue' = Append(m_event_queue, e)
  <2>1. PICK e \in Event : m_event_queue' = Append(m_event_queue, e)
    BY <1>3
  <2>2. Pending' = Append(Pending, e)
    BY <1>1, <2>1, AppendPending DEF Pending
  <2> QED
    BY <2>2 DEF OrderKept
<1> QED
  BY <1>2, <1>3 DEF QueueGrows

(* A step that handles the head of the vector keeps the order.             *)
LEMMA VectorTaken ==
  ASSUME TypeOK, pc = "handle", events # <<>>, events' = Tail(events), QueueGrows
  PROVE  OrderKept
<1>1. events \in Seq(Event) /\ Tail(events) \in Seq(Event) /\ m_event_queue \in Seq(Event)
  BY DEF TypeOK
<1>2. events' # events
  BY <1>1
<1>3. Tail(Pending) = Tail(events) \o m_event_queue
  BY <1>1, TailPending DEF Pending
<1>4. CASE m_event_queue' = m_event_queue
  BY <1>2, <1>3, <1>4 DEF OrderKept, Pending
<1>5. CASE \E e \in Event : m_event_queue' = Append(m_event_queue, e)
  <2>1. PICK e \in Event : m_event_queue' = Append(m_event_queue, e)
    BY <1>5
  <2>2. Pending' = Tail(events) \o Append(m_event_queue, e)
    BY <2>1 DEF Pending
  <2>3. Tail(events) \o Append(m_event_queue, e) = Append(Tail(events) \o m_event_queue, e)
    BY <1>1, AppendPending
  <2>4. Pending' = Append(Tail(Pending), e)
    BY <1>3, <2>2, <2>3, Zenon
  <2> QED
    BY <1>2, <2>4 DEF OrderKept
<1> QED
  BY <1>4, <1>5 DEF QueueGrows

(* Every step of the worker and of the others keeps the order.             *)
LEMMA OrderStep == NetworkInv /\ [Next]_vars => OrderKept
<1> SUFFICES ASSUME NetworkInv, [Next]_vars PROVE OrderKept
  OBVIOUS
<1> USE DEF vars, thread, sockets, counters
<1>0. TypeOK /\ ThreadKnows
  BY DEF NetworkInv
<1>1. CASE \E evt \in Request : on_event(evt)
  <2>1. events' = events /\ QueueGrows
    BY <1>1, RequestIsEvent DEF on_event, QueueGrows
  <2> QED
    BY <1>0, <2>1, VectorKept
<1>2. CASE \/ start \/ RequestStop \/ FinishStop \/ CheckRunning \/ EndOfEvents
           \/ Poll \/ NextReady \/ EndOfReady \/ RecvFin
           \/ \E h \in Handle : Arrive(h) \/ PeerCloses(h)
           \/ UNCHANGED vars
  <2>1. events' = events /\ m_event_queue' = m_event_queue
    BY <1>2 DEF start, RequestStop, FinishStop, CheckRunning, EndOfEvents, Poll, NextReady,
                EndOfReady, RecvFin, Arrive, PeerCloses
  <2> QED
    BY <1>0, <2>1, VectorKept DEF QueueGrows
<1>3. CASE RegisterSocket \/ AbandonSocket \/ PollFails \/ RecvStream \/ RecvDatagram \/ RecvFails
  <2>1. events' = events
    BY <1>3 DEF RegisterSocket, AbandonSocket, PollFails, RecvStream, RecvDatagram, RecvFails
  <2>2. QueueGrows
    BY <1>3, DispatchGrows, LogGrows
       DEF RegisterSocket, AbandonSocket, PollFails, RecvStream, RecvDatagram, RecvFails, EventType,
           QueueGrows
  <2> QED
    BY <1>0, <2>1, <2>2, VectorKept
<1>4. CASE CreateSocket \/ CreateFails \/ SendMessage \/ IgnoreEvent
  <2>1. pc = "handle" /\ events # <<>> /\ events' = Tail(events)
    BY <1>4 DEF CreateSocket, CreateFails, SendMessage, IgnoreEvent, Handling
  <2>2. QueueGrows
    <3>1. CASE CreateSocket \/ IgnoreEvent
      BY <3>1 DEF CreateSocket, IgnoreEvent, QueueGrows
    <3>2. CASE CreateFails
      BY <3>2, LogGrows DEF CreateFails
    <3>3. CASE SendMessage
      BY <3>3, LogGrows DEF SendMessage, send, QueueGrows
    <3> QED
      BY <1>4, <3>1, <3>2, <3>3
  <2> QED
    BY <1>0, <2>1, <2>2, VectorTaken
<1>5. CASE DrainQueue
  <2>1. pc # "handle" /\ events = <<>> /\ events' = m_event_queue /\ m_event_queue' = <<>>
    BY <1>0, <1>5 DEF DrainQueue, ThreadKnows
  <2>2. Pending = m_event_queue /\ Pending' = m_event_queue
    BY <1>0, <2>1, NoVectorPending DEF Pending, TypeOK
  <2> QED
    BY <2>1, <2>2 DEF OrderKept
<1> QED
  BY <1>1, <1>2, <1>3, <1>4, <1>5 DEF Next, network_loop, Unblocked

(* The network thread handles events in the order they were queued, each   *)
(* once: no interleaving of on_event, dispatches of its own and drains     *)
(* loses, repeats or reorders one.                                         *)
THEOREM InOrder == Spec => HandledInOrder
<1>1. NetworkInv /\ [Next]_vars => [OrderKept]_vars
  BY OrderStep
<1> QED
  BY <1>1, NetworkInvariant, PTL DEF Spec, HandledInOrder
=============================================================================
