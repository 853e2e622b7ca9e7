----------------------------- MODULE SIPNetwork -----------------------------
(***************************************************************************)
(* The network worker of network/SIPNetwork.cpp: any thread puts events    *)
(* into its queue (on_event), one network thread drains the queue, creates *)
(* and uses sockets, polls them and dispatches what it receives; the owner *)
(* of the object starts and stops that thread.                             *)
(*                                                                         *)
(* What the worker dispatches comes back to it: it is itself a listener,   *)
(* and its on_event queues every event of every type. A dispatch is        *)
(* therefore an append to its own queue.                                   *)
(*                                                                         *)
(* Below the class is the kernel: handles, what has arrived on a socket,   *)
(* and peers that send for ever, pause, or close. On TCP a piece of the    *)
(* stream completes a message or not (module TcpFraming models how); one   *)
(* that completes several is as many pieces, read without a pause.         *)
(*                                                                         *)
(* A definition whose comment begins with "Slip" is not part of the model: *)
(* it is a wrong version of the definition that follows it, put in its     *)
(* place to see that the properties tell the two apart.                    *)
(***************************************************************************)
EXTENDS Naturals, Sequences

CONSTANTS
  Handle,       (* native socket handles                                   *)
  NoHandle,     (* socket_handle of an event that sets none                *)
  MaxPosts,     (* bound: events other modules dispatch                    *)
  MaxInbox,     (* size of a socket's receive buffer, which is finite      *)
  MaxMessages   (* bound: messages received; what peers send has none      *)

ASSUME SIPNetworkAssumption ==
  /\ NoHandle \notin Handle
  /\ MaxPosts \in Nat
  /\ MaxInbox \in Nat
  /\ MaxMessages \in Nat

VARIABLES
  m_running,
  m_event_queue,
  m_sockets,     (* the registry: the transport of each handle, or "none"  *)
  pc,            (* where the network thread is; "none" without a thread   *)
  events,        (* the vector process_internal_events drained             *)
  ready,         (* polled sockets not yet looked at in this round         *)
  current,       (* the socket being created or received on                *)
  owner,         (* the owner is "idle" or inside stop, "stopping"         *)
  kernel,        (* transport of each open socket, or "closed"             *)
  inbox,         (* datagrams, or pieces of the stream, to be read         *)
  fin,           (* sockets whose peer has closed the connection           *)
  posts, messages   (* so far, for the bounds                              *)

thread == <<pc, events, ready, current>>
sockets == <<m_sockets, kernel, inbox, fin>>
counters == <<posts, messages>>
vars == <<m_running, m_event_queue, thread, owner, sockets, counters>>

Transport == {"tcp", "udp"}

EventType == {"CREATE_NETWORK_SOCKET", "NETWORK_SOCKET_CREATED", "NETWORK_FAILED",
              "RAW_MESSAGE_RECEIVED", "SEND_MESSAGE", "LOG_MESSAGE"}

Event == [type : EventType, transport : Transport, socket_handle : Handle \cup {NoHandle}]

(* An event with its fields as Event.h initialises them.                   *)
Plain(type) == [type |-> type, transport |-> "tcp", socket_handle |-> NoHandle]

(* What other modules ask of the network. Handles are plain integers, so a *)
(* request can name any, open or not; other events are ignored, like LOG.  *)
Request ==
  {[Plain("CREATE_NETWORK_SOCKET") EXCEPT !.transport = t] : t \in Transport}
    \cup {[Plain("SEND_MESSAGE") EXCEPT !.socket_handle = h] : h \in Handle \cup {NoHandle}}

ThreadPC == {"none", "loop", "drain", "handle", "create", "poll", "ready", "recv", "exited"}

Registered == {h \in Handle : m_sockets[h] # "none"}

(* Data, or the end of the stream, for recv to return.                     *)
Readable(h) == inbox[h] > 0 \/ h \in fin

Dispatch(type) == m_event_queue' = Append(m_event_queue, Plain(type))

(* How a failing system call is reported. Any call may fail, any number of *)
(* times.                                                                  *)
log == Dispatch("LOG_MESSAGE")

dispatch_raw_message ==
  /\ messages < MaxMessages
  /\ messages' = messages + 1
  /\ Dispatch("RAW_MESSAGE_RECEIVED")

NoMessage == UNCHANGED <<m_event_queue, messages>>

Init ==
  /\ m_running = FALSE
  /\ m_event_queue = <<>>
  /\ m_sockets = [h \in Handle |-> "none"]
  /\ pc = "none"
  /\ events = <<>>
  /\ ready = {}
  /\ current = NoHandle
  /\ owner = "idle"
  /\ kernel = [h \in Handle |-> "closed"]
  /\ inbox = [h \in Handle |-> 0]
  /\ fin = {}
  /\ posts = 0 /\ messages = 0

-----------------------------------------------------------------------------
(* Other modules and the owner *)

on_event(evt) ==
  /\ posts < MaxPosts
  /\ posts' = posts + 1
  /\ m_event_queue' = Append(m_event_queue, evt)
  /\ UNCHANGED <<m_running, thread, owner, sockets, messages>>

(* A second start while the thread exists ends the program (std::thread    *)
(* assigned while joinable): owners call it at most once per stop.         *)
start ==
  /\ owner = "idle"
  /\ pc = "none"
  /\ m_running' = TRUE
  /\ pc' = "loop"
  /\ UNCHANGED <<m_event_queue, events, ready, current, owner, sockets, counters>>

RequestStop ==
  /\ owner = "idle"
  /\ owner' = "stopping"
  /\ m_running' = FALSE
  /\ UNCHANGED <<m_event_queue, thread, sockets, counters>>

CloseAll ==
  /\ m_sockets' = [h \in Handle |-> "none"]
  /\ kernel' = [h \in Handle |-> IF h \in Registered THEN "closed" ELSE kernel[h]]
  /\ inbox' = [h \in Handle |-> IF h \in Registered THEN 0 ELSE inbox[h]]
  /\ fin' = fin \ Registered

(* Slip: stop does not wait for the thread.                                *)
FinishStopNoJoin ==
  /\ owner = "stopping"
  /\ CloseAll
  /\ owner' = "idle"
  /\ pc' = "none"
  /\ UNCHANGED <<m_running, m_event_queue, events, ready, current, counters>>

(* The thread, if there is one, has been joined.                           *)
FinishStop ==
  /\ owner = "stopping"
  /\ pc \in {"none", "exited"}
  /\ CloseAll
  /\ owner' = "idle"
  /\ pc' = "none"
  /\ UNCHANGED <<m_running, m_event_queue, events, ready, current, counters>>

-----------------------------------------------------------------------------
(* The calls of platform/WindowsSocket *)

create(h, transport) ==
  /\ kernel[h] = "closed"
  /\ kernel' = [kernel EXCEPT ![h] = transport]

close(h) ==
  /\ kernel' = [kernel EXCEPT ![h] = "closed"]
  /\ inbox' = [inbox EXCEPT ![h] = 0]
  /\ fin' = fin \ {h}

(* send and send_to return a length, or -1 with the error number kept.     *)
send == UNCHANGED m_event_queue \/ log

Take(h) ==
  /\ inbox[h] > 0
  /\ inbox' = [inbox EXCEPT ![h] = @ - 1]
  /\ UNCHANGED <<kernel, fin>>

(* TCP: octets, or 0 when the peer has closed and all of them are read,    *)
(* upon which the caller closes; otherwise the call blocks.                *)
recv(h, rec) == IF rec > 0 THEN Take(h) ELSE inbox[h] = 0 /\ h \in fin

(* UDP: one datagram, which may be empty.                                  *)
recv_from(h, rec) == rec >= 0 /\ Take(h)

-----------------------------------------------------------------------------
(* The network thread: its loop and process_internal_events *)


CheckRunning ==
  /\ pc = "loop"
  /\ pc' = IF m_running THEN "drain" ELSE "exited"
  /\ UNCHANGED <<m_running, m_event_queue, events, ready, current, owner, sockets, counters>>

(* Slip: the events are copied out of the queue instead of moved.          *)
DrainCopy ==
  /\ pc = "drain"
  /\ events' = m_event_queue
  /\ pc' = "handle"
  /\ UNCHANGED <<m_running, m_event_queue, ready, current, owner, sockets, counters>>

DrainQueue ==
  /\ pc = "drain"
  /\ events' = m_event_queue
  /\ m_event_queue' = <<>>
  /\ pc' = "handle"
  /\ UNCHANGED <<m_running, ready, current, owner, sockets, counters>>

(* The next event of the vector is one of the given types.                 *)
Handling(types) ==
  /\ pc = "handle"
  /\ events # <<>>
  /\ Head(events).type \in types
  /\ events' = Tail(events)
  /\ UNCHANGED <<m_running, ready, owner, counters>>

(* create_tcp or create_udp: the kernel gives a handle that is not in use. *)
CreateSocket ==
  /\ Handling({"CREATE_NETWORK_SOCKET"})
  /\ \E h \in Handle : create(h, Head(events).transport) /\ current' = h
  /\ pc' = "create"
  /\ UNCHANGED <<m_event_queue, m_sockets, inbox, fin>>

(* socket fails, as it must when the kernel has no handle left.            *)
CreateFails ==
  /\ Handling({"CREATE_NETWORK_SOCKET"})
  /\ log
  /\ UNCHANGED <<pc, current, sockets>>

(* Slip: the key of the entry is the event's socket_handle.                *)
RegisterEventHandle ==
  /\ pc = "create"
  /\ m_sockets' = [h \in Handle \cup {NoHandle} |-> IF h = NoHandle THEN kernel[current] ELSE m_sockets[h]]
  /\ Dispatch("NETWORK_SOCKET_CREATED")
  /\ pc' = "handle"
  /\ current' = NoHandle
  /\ UNCHANGED <<m_running, events, ready, owner, kernel, inbox, fin, counters>>

(* bind and connect, which block the thread, have succeeded. The event     *)
(* that announces the socket has no field set but its type.                *)
RegisterSocket ==
  /\ pc = "create"
  /\ m_sockets' = [m_sockets EXCEPT ![current] = kernel[current]]
  /\ Dispatch("NETWORK_SOCKET_CREATED")
  /\ pc' = "handle"
  /\ current' = NoHandle
  /\ UNCHANGED <<m_running, events, ready, owner, kernel, inbox, fin, counters>>

(* bind or connect has failed: the unique_ptr closes the socket.           *)
AbandonSocket ==
  /\ pc = "create"
  /\ close(current)
  /\ log
  /\ pc' = "handle"
  /\ current' = NoHandle
  /\ UNCHANGED <<m_running, m_sockets, events, ready, owner, counters>>

SendMessage ==
  /\ Handling({"SEND_MESSAGE"})
  /\ IF Head(events).socket_handle \in Registered
       THEN send
       ELSE log
  /\ UNCHANGED <<pc, current, sockets>>

IgnoreEvent ==
  /\ Handling(EventType \ {"CREATE_NETWORK_SOCKET", "SEND_MESSAGE"})
  /\ UNCHANGED <<m_event_queue, pc, current, sockets>>

EndOfEvents ==
  /\ pc = "handle"
  /\ events = <<>>
  /\ pc' = "poll"
  /\ UNCHANGED <<m_running, m_event_queue, events, ready, current, owner, sockets, counters>>

-----------------------------------------------------------------------------
(* The network thread: polling and receiving *)


(* The registry is empty and the thread sleeps, or the poll times out, or  *)
(* it returns with every socket that is readable then.                     *)
Poll ==
  /\ pc = "poll"
  /\ ready' = {h \in Registered : Readable(h)}
  /\ pc' = IF ready' = {} THEN "loop" ELSE "ready"
  /\ UNCHANGED <<m_running, m_event_queue, events, current, owner, sockets, counters>>

PollFails ==
  /\ pc = "poll"
  /\ Registered # {}
  /\ log
  /\ pc' = "loop"
  /\ UNCHANGED <<m_running, events, ready, current, owner, sockets, counters>>

(* The next polled socket, if the registry still has it.                   *)
NextReady ==
  /\ pc = "ready"
  /\ \E h \in ready :
       /\ ready' = ready \ {h}
       /\ IF h \in Registered THEN pc' = "recv" /\ current' = h ELSE UNCHANGED <<pc, current>>
  /\ UNCHANGED <<m_running, m_event_queue, events, owner, sockets, counters>>

EndOfReady ==
  /\ pc = "ready"
  /\ ready = {}
  /\ pc' = "loop"
  /\ UNCHANGED <<m_running, m_event_queue, events, ready, current, owner, sockets, counters>>

(* TCP is read again and again, while (true): no socket is ever made       *)
(* non-blocking, a recv with nothing to return blocks, and whatever the    *)
(* peer sends next is read by the next recv. Only the end of the stream or *)
(* a failure of recv leads out of this loop.                               *)
RecvStream ==
  /\ pc = "recv"
  /\ m_sockets[current] = "tcp"
  /\ recv(current, 1)
  /\ dispatch_raw_message \/ NoMessage
  /\ UNCHANGED <<m_running, m_sockets, thread, owner, posts>>


(* UDP is read once per poll; an empty datagram is no message.             *)
RecvDatagram ==
  /\ pc = "recv"
  /\ m_sockets[current] = "udp"
  /\ \E rec \in {0, 1} :
       /\ recv_from(current, rec)
       /\ IF rec > 0 THEN dispatch_raw_message ELSE NoMessage
  /\ pc' = "ready"
  /\ current' = NoHandle
  /\ UNCHANGED <<m_running, m_sockets, events, ready, owner, posts>>

(* Slip: get_handle after close, which no longer finds the entry.          *)
RecvFinKeepEntry ==
  /\ pc = "recv"
  /\ recv(current, 0)
  /\ close(current)
  /\ pc' = "ready"
  /\ current' = NoHandle
  /\ UNCHANGED <<m_running, m_event_queue, m_sockets, events, ready, owner, counters>>

(* rec == 0: close the socket and erase its entry.                         *)
RecvFin ==
  /\ pc = "recv"
  /\ recv(current, 0)
  /\ close(current)
  /\ m_sockets' = [m_sockets EXCEPT ![current] = "none"]
  /\ pc' = "ready"
  /\ current' = NoHandle
  /\ UNCHANGED <<m_running, m_event_queue, events, ready, owner, counters>>

(* rec < 0: log; the entry stays.                                          *)
RecvFails ==
  /\ pc = "recv"
  /\ log
  /\ pc' = "ready"
  /\ current' = NoHandle
  /\ UNCHANGED <<m_running, events, ready, owner, sockets, counters>>

(* Every step of the thread, its failures included, but a failing recv,    *)
(* which nothing brings about when there is nothing to return.             *)
Unblocked ==
  \/ CheckRunning
  \/ DrainQueue
  \/ CreateSocket
  \/ CreateFails
  \/ RegisterSocket
  \/ AbandonSocket
  \/ SendMessage
  \/ IgnoreEvent
  \/ EndOfEvents
  \/ Poll
  \/ PollFails
  \/ NextReady
  \/ EndOfReady
  \/ RecvStream
  \/ RecvDatagram
  \/ RecvFin

network_loop == Unblocked \/ RecvFails

-----------------------------------------------------------------------------
(* Peers *)

(* A peer may send for ever. With the receive buffer full, a datagram is   *)
(* lost and a stream waits.                                                *)
Arrive(h) ==
  /\ kernel[h] # "closed"
  /\ h \notin fin
  /\ inbox[h] < MaxInbox
  /\ inbox' = [inbox EXCEPT ![h] = @ + 1]
  /\ UNCHANGED <<m_running, m_event_queue, m_sockets, thread, owner, kernel, fin, counters>>

PeerCloses(h) ==
  /\ kernel[h] = "tcp"
  /\ h \in Registered
  /\ h \notin fin
  /\ fin' = fin \cup {h}
  /\ UNCHANGED <<m_running, m_event_queue, m_sockets, thread, owner, kernel, inbox, counters>>

Next ==
  \/ \E evt \in Request : on_event(evt)
  \/ start
  \/ RequestStop
  \/ FinishStop
  \/ network_loop
  \/ \E h \in Handle : Arrive(h) \/ PeerCloses(h)

Spec == Init /\ [][Next]_vars

(* The network thread is scheduled, connect returns, and stop, once its    *)
(* join has returned, goes on. Peers and other modules owe nothing, no     *)
(* recv ever has to fail, and nothing keeps any call from failing.         *)
FairSpec == Spec /\ WF_vars(Unblocked) /\ WF_vars(FinishStop)

-----------------------------------------------------------------------------
(* Properties *)

TypeOK ==
  /\ m_running \in BOOLEAN
  /\ m_event_queue \in Seq(Event)
  /\ m_sockets \in [Handle -> Transport \cup {"none"}]
  /\ pc \in ThreadPC
  /\ events \in Seq(Event)
  /\ ready \subseteq Handle
  /\ current \in Handle \cup {NoHandle}
  /\ owner \in {"idle", "stopping"}
  /\ kernel \in [Handle -> Transport \cup {"closed"}]
  /\ inbox \in [Handle -> Nat]
  /\ fin \subseteq Handle
  /\ posts \in 0 .. MaxPosts
  /\ messages \in 0 .. MaxMessages

(* The registry holds exactly the sockets open in the kernel, with their   *)
(* transport, except for one the thread is still binding or connecting: no *)
(* path of creation, failure, end of stream or stop leaks a socket or      *)
(* leaves an entry without one. A polled socket stays registered until it  *)
(* is looked at.                                                           *)
RegistryMatchesKernel ==
  /\ \A h \in Handle :
       IF m_sockets[h] = "none"
         THEN kernel[h] = "closed" \/ (pc = "create" /\ current = h)
         ELSE kernel[h] = m_sockets[h]
  /\ pc \in {"ready", "recv"} => ready \subseteq Registered
  /\ pc = "recv" => current \in Registered

(* When stop has returned there is no thread, no entry and no open socket. *)
StoppedIsClean ==
  pc = "none" => \A h \in Handle : m_sockets[h] = "none" /\ kernel[h] = "closed"

(* Events are handled in the order in which they were queued, each once,   *)
(* and none is dropped, while listeners and the thread itself keep adding: *)
(* what is drained and still to handle followed by what is queued loses    *)
(* only its first event and gains only at its end.                         *)
Pending == events \o m_event_queue

OrderKept ==
  LET rest == IF events' = events \/ pc # "handle" THEN Pending ELSE Tail(Pending)
  IN  Pending' = rest \/ \E e \in Event : Pending' = Append(rest, e)

HandledInOrder == [][OrderKept]_vars

(* The thread is in the loop that reads one TCP socket, and the peer has   *)
(* not closed the connection: recv blocks, or returns what the peer has    *)
(* sent meanwhile, however often or seldom that is.                        *)
HeldByPeer ==
  pc = "recv" /\ m_sockets[current] = "tcp" /\ current \notin fin




(* The thread is inside recv on a TCP socket that has nothing to read.     *)
BlockedInRecv ==
  pc = "recv" /\ m_sockets[current] = "tcp" /\ ~Readable(current)

(* "Uses non-blocking sockets and polling": recv does not block.           *)
RecvNeverBlocks == ~BlockedInRecv
=============================================================================
