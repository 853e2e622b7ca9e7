------------------------------ MODULE EventBus ------------------------------
(***************************************************************************)
(* The modules of SIPx on one dispatcher: eventhandler/EventDispatcher.h   *)
(* with the on_event of SIPParser, SIPNetwork, SIPxApp, SIPRegister and    *)
(* SIPLogWriter behind it.                                                 *)
(*                                                                         *)
(* dispatch calls the listeners one after the other in the caller's        *)
(* thread, and a listener dispatches from inside its on_event: dispatches  *)
(* are frames of a call stack, and an event that is not in a frame any     *)
(* more has been seen by everybody it will ever reach. An exception        *)
(* unwinds all frames. The network worker is not running: SIPxApp never    *)
(* calls start, and what a running one does is in module SIPNetwork.       *)
(*                                                                         *)
(* A definition whose comment begins with "Slip" is not part of the model: *)
(* it is a wrong version of the definition that follows it, put in its     *)
(* place to see that the properties tell the two apart.                    *)
(***************************************************************************)
EXTENDS Naturals, Sequences, FiniteSets

CONSTANTS
  Program,        (* what a program has built: [listeners, m_logger]       *)
  MaxLines,       (* bound: log lines the constructor of a message writes  *)
  MaxDispatches   (* bound: events a program dispatches                    *)

VARIABLES
  listeners,      (* the modules in the order of their registration        *)
  m_logger,       (* SIPxApp holds a log writer                            *)
  stack,          (* the dispatches under way, the innermost first         *)
  submitted,      (* history: the raw messages handed over so far          *)
  others,         (* history: the connections of the other events so far   *)
  m_paket_count,
  m_event_queue,  (* of SIPNetwork: copies of events, as [type, msg]       *)
  m_msgs,
  m_register_messages,   (* each is followed by the 400 made for it        *)
  written,        (* the messages whose log lines the writer has printed   *)
  undefined       (* a null, dangling or unset pointer was dereferenced    *)

modules == <<m_paket_count, m_event_queue, m_msgs, m_register_messages, written>>
program == <<listeners, m_logger, submitted, others>>
vars == <<program, stack, modules, undefined>>

Listener == {"parser", "network", "app", "register", "logwriter", "dangling"}

EventType == {"CREATE_NETWORK_SOCKET", "NETWORK_SOCKET_CREATED", "RAW_MESSAGE_RECEIVED",
              "MESSAGE_PARSED", "SEND_MESSAGE", "TIME_TO_REGISTER", "LOG_MESSAGE"}

(* What a raw message has about it. "cut": it is cut off before the end of *)
(* its header, which its constructor finds before anything else. "lines":  *)
(* how many lines the constructor logs; accepted or not, there may be none *)
(* (a bad request line) or several (two for a bad header, one for each     *)
(* list or session header that is missing). "register": its CSeq says      *)
(* REGISTER, and its first line is one that is_response says false to.     *)
Text == {text \in [cut : BOOLEAN, lines : 0 .. MaxLines, register : BOOLEAN] :
           text.cut => text.lines = 0 /\ ~text.register}

Connection == {"unset", "active", "inactive"}

(* Number 0 stands for no message: a null pointer, or nothing attached.    *)
Null == 0

(* An event being delivered. "has": the string raw_msg points to has not   *)
(* been moved from, parsed_msg is not null. "next": the loop of dispatch.  *)
Frame == [type : EventType, msg : Nat, connection : Connection, has : BOOLEAN,
          claimed : BOOLEAN, next : Nat]

Plain(type) == [type |-> type, msg |-> Null, connection |-> "unset", has |-> FALSE,
                claimed |-> FALSE, next |-> 1]

(* The state below is that of one module of each kind, as SIPxApp builds   *)
(* them; of log writers that threw there may be any number.                *)
ASSUME EventBusAssumption ==
  /\ Program \subseteq [listeners : Seq(Listener), m_logger : BOOLEAN]
  /\ \A p \in Program : \A i, j \in DOMAIN p.listeners :
       p.listeners[i] = p.listeners[j] /\ i # j => p.listeners[i] = "dangling"
  /\ MaxLines \in Nat
  /\ MaxDispatches \in Nat

-----------------------------------------------------------------------------
(* Construction *)

(* SIPxApp's constructor: the parser, the network and the application      *)
(* itself register, each that is wanted. The log writer does not: it is    *)
(* given no dispatcher.                                                    *)
SIPxAppListeners(m_flags) ==
  (IF m_flags.parser THEN <<"parser">> ELSE <<>>)
    \o (IF m_flags.network THEN <<"network">> ELSE <<>>) \o <<"app">>

dir_exists(dir) == dir.exists /\ dir.is_directory

check_prepare_filepath(path) ==
  /\ path.status_known
  /\ path.dir.named
  /\ dir_exists(path.dir)
  /\ path.dir.writable

(* SIPLogWriter's constructor registers first and then may throw: what is  *)
(* left in the vector is a pointer to no object.                           *)
LogWriterListener(path) == IF check_prepare_filepath(path) THEN "logwriter" ELSE "dangling"

(* SIPxApp catches what the constructor throws and goes on without one.    *)
SIPxAppProgram(m_flags, path) ==
  [listeners |-> SIPxAppListeners(m_flags),
   m_logger |-> m_flags.logwriter /\ check_prepare_filepath(path)]

Init ==
  /\ \E p \in Program : listeners = p.listeners /\ m_logger = p.m_logger
  /\ stack = <<>>
  /\ submitted = <<>>
  /\ others = <<>>
  /\ m_paket_count = 0
  /\ m_event_queue = <<>>
  /\ m_msgs = <<>>
  /\ m_register_messages = <<>>
  /\ written = <<>>
  /\ undefined = FALSE

-----------------------------------------------------------------------------
(* dispatch *)

Idle == stack = <<>> /\ ~undefined

MayDispatch == Idle /\ Len(submitted) + Len(others) < MaxDispatches

parse_raw_message(text) ==
  /\ MayDispatch
  /\ submitted' = Append(submitted, text)
  /\ stack' = <<[Plain("RAW_MESSAGE_RECEIVED") EXCEPT !.msg = Len(submitted) + 1, !.has = TRUE]>>
  /\ UNCHANGED <<listeners, m_logger, others, modules, undefined>>

(* m_dispatcher is public. The connection is unset in the events that      *)
(* main.cpp and SIPNetwork make.                                           *)
DispatchOther(type, connection) ==
  /\ MayDispatch
  /\ others' = Append(others, connection)
  /\ stack' = <<[Plain(type) EXCEPT !.connection = connection]>>
  /\ UNCHANGED <<listeners, m_logger, submitted, modules, undefined>>

evt == Head(stack)

(* The loop of dispatch has come to listener l.                            *)
Called(l) ==
  /\ stack # <<>>
  /\ evt.next <= Len(listeners)
  /\ listeners[evt.next] = l

(* Slip: the handler is called again and again.                            *)
ReturnsNoAdvance(e, nested) == stack' = nested \o <<e>> \o Tail(stack)

(* Slip: the loop is advanced in its body as well.                         *)
ReturnsSkips(e, nested) == stack' = nested \o <<[e EXCEPT !.next = @ + 2]>> \o Tail(stack)

(* The handler returns, having dispatched the nested events one by one and *)
(* left its own event as e.                                                *)
Returns(e, nested) == stack' = nested \o <<[e EXCEPT !.next = @ + 1]>> \o Tail(stack)

EndOfLoop ==
  /\ stack # <<>>
  /\ evt.next > Len(listeners)
  /\ stack' = Tail(stack)
  /\ UNCHANGED <<program, modules, undefined>>

BeyondDefined ==
  /\ undefined' = TRUE
  /\ stack' = <<>>
  /\ UNCHANGED <<program, modules>>

-----------------------------------------------------------------------------
(* The handlers *)

(* The types a handler does something about.                               *)
Concern(l) ==
  CASE l = "parser"    -> {"RAW_MESSAGE_RECEIVED"}
    [] l = "app"       -> {"MESSAGE_PARSED"}
    [] l = "register"  -> {"TIME_TO_REGISTER", "MESSAGE_PARSED", "NETWORK_SOCKET_CREATED"}
    [] l = "logwriter" -> {"LOG_MESSAGE"}
    [] OTHER           -> EventType

Ignore ==
  /\ \E l \in Listener : Called(l) /\ evt.type \notin Concern(l)
  /\ Returns(evt, <<>>)
  /\ UNCHANGED <<program, modules, undefined>>

Handles(l) == Called(l) /\ evt.type \in Concern(l)

(* The constructor of a message that is cut off throws. The packet has     *)
(* been counted by then, and nobody on the way out catches.                *)
ParserThrows ==
  /\ Handles("parser")
  /\ submitted[evt.msg].cut
  /\ m_paket_count' = m_paket_count + 1
  /\ stack' = <<>>
  /\ UNCHANGED <<program, m_event_queue, m_msgs, m_register_messages, written, undefined>>

Log(msg) == [Plain("LOG_MESSAGE") EXCEPT !.msg = msg]

Parsed(msg) == [Plain("MESSAGE_PARSED") EXCEPT !.msg = msg, !.has = TRUE]

LogLines(msg) == [i \in 1 .. submitted[msg].lines |-> Log(msg)]

(* Slip: what was logged is dispatched when the message has been.          *)
ParserParsesFirst ==
  /\ Handles("parser")
  /\ ~submitted[evt.msg].cut
  /\ m_paket_count' = m_paket_count + 1
  /\ Returns([evt EXCEPT !.has = FALSE],
       <<Parsed(evt.msg)>> \o LogLines(evt.msg))
  /\ UNCHANGED <<program, m_event_queue, m_msgs, m_register_messages, written, undefined>>

(* The string is moved out of the event, the constructor dispatches the    *)
(* lines it logs one after the other, and the message is dispatched last.  *)
ParserParses ==
  /\ Handles("parser")
  /\ ~submitted[evt.msg].cut
  /\ m_paket_count' = m_paket_count + 1
  /\ Returns([evt EXCEPT !.has = FALSE], LogLines(evt.msg) \o <<Parsed(evt.msg)>>)
  /\ UNCHANGED <<program, m_event_queue, m_msgs, m_register_messages, written, undefined>>

(* Slip: every event that is queued is logged.                             *)
NetworkQueuesAndLogs ==
  /\ Handles("network")
  /\ m_event_queue' = Append(m_event_queue, [type |-> evt.type, msg |-> evt.msg])
  /\ Returns(evt, <<Log(evt.msg)>>)
  /\ UNCHANGED <<program, m_paket_count, m_msgs, m_register_messages, written, undefined>>

(* Slip: the queued copy gets a string of its own, copied from *raw_msg.   *)
NetworkCopiesPayload ==
  /\ Handles("network")
  /\ m_event_queue' = Append(m_event_queue, [type |-> evt.type, msg |-> evt.msg])
  /\ IF evt.type = "RAW_MESSAGE_RECEIVED"
       THEN Returns(evt, <<>>) /\ UNCHANGED undefined
       ELSE undefined' = TRUE /\ stack' = <<>>
  /\ UNCHANGED <<program, m_paket_count, m_msgs, m_register_messages, written>>

NetworkQueues ==
  /\ Handles("network")
  /\ m_event_queue' = Append(m_event_queue, [type |-> evt.type, msg |-> evt.msg])
  /\ Returns(evt, <<>>)
  /\ UNCHANGED <<program, m_paket_count, m_msgs, m_register_messages, written, undefined>>

(* Slip: parsed_msg.get() instead of the pointer itself.                   *)
AppSharesMessage ==
  /\ Handles("app")
  /\ IF evt.claimed
       THEN Returns(evt, <<>>) /\ UNCHANGED m_msgs
       ELSE /\ m_msgs' = Append(m_msgs, IF evt.has THEN evt.msg ELSE Null)
            /\ Returns([evt EXCEPT !.claimed = TRUE], <<>>)
  /\ UNCHANGED <<program, m_paket_count, m_event_queue, m_register_messages, written, undefined>>

(* The application takes what nobody has claimed, null or not.             *)
AppTakes ==
  /\ Handles("app")
  /\ IF evt.claimed
       THEN Returns(evt, <<>>) /\ UNCHANGED m_msgs
       ELSE /\ m_msgs' = Append(m_msgs, IF evt.has THEN evt.msg ELSE Null)
            /\ Returns([evt EXCEPT !.has = FALSE, !.claimed = TRUE], <<>>)
  /\ UNCHANGED <<program, m_paket_count, m_event_queue, m_register_messages, written, undefined>>

(* TIME_TO_REGISTER and NETWORK_SOCKET_CREATED: send a request if there is *)
(* a socket, ask for one, or log that there should be one.                 *)
RegisterProceeds ==
  /\ Handles("register")
  /\ evt.type # "MESSAGE_PARSED"
  /\ evt.connection # "unset"
  /\ Returns(evt,
       <<IF evt.connection = "active" THEN [Plain("SEND_MESSAGE") EXCEPT !.has = TRUE]
         ELSE IF evt.type = "TIME_TO_REGISTER"
           THEN [Plain("CREATE_NETWORK_SOCKET") EXCEPT !.connection = evt.connection]
         ELSE Log(Null)>>)
  /\ UNCHANGED <<program, modules, undefined>>

(* A REGISTER request is logged, kept and answered; ownership_claimed is   *)
(* left as it is.                                                          *)
RegisterTakes ==
  /\ Handles("register")
  /\ evt.type = "MESSAGE_PARSED"
  /\ evt.has
  /\ IF submitted[evt.msg].register
       THEN /\ m_register_messages' = Append(m_register_messages, evt.msg)
            /\ Returns([evt EXCEPT !.has = FALSE], <<Log(Null), Plain("SEND_MESSAGE")>>)
       ELSE Returns(evt, <<>>) /\ UNCHANGED m_register_messages
  /\ UNCHANGED <<program, m_paket_count, m_event_queue, m_msgs, written, undefined>>

(* parsed_msg and connection are dereferenced without a look at them: the  *)
(* test of msg comes after its use.                                        *)
RegisterDereferences ==
  /\ Handles("register")
  /\ IF evt.type = "MESSAGE_PARSED" THEN ~evt.has ELSE evt.connection = "unset"
  /\ BeyondDefined

LogWriterWrites ==
  /\ Handles("logwriter")
  /\ written' = Append(written, evt.msg)
  /\ Returns(evt, <<>>)
  /\ UNCHANGED <<program, m_paket_count, m_event_queue, m_msgs, m_register_messages, undefined>>

CallDangling == Handles("dangling") /\ BeyondDefined

(* The thread that dispatches.                                             *)
dispatch ==
  \/ EndOfLoop
  \/ Ignore
  \/ ParserThrows
  \/ ParserParses
  \/ NetworkQueues
  \/ AppTakes
  \/ RegisterProceeds
  \/ RegisterTakes
  \/ RegisterDereferences
  \/ LogWriterWrites
  \/ CallDangling

Terminated == stack = <<>> /\ UNCHANGED vars

Next ==
  \/ \E text \in Text : parse_raw_message(text)
  \/ \E type \in {"TIME_TO_REGISTER", "NETWORK_SOCKET_CREATED"}, connection \in Connection :
       DispatchOther(type, connection)
  \/ dispatch
  \/ Terminated

Spec == Init /\ [][Next]_vars

(* The thread that dispatches runs; nobody has to dispatch anything.       *)
FairSpec == Spec /\ WF_vars(dispatch)

-----------------------------------------------------------------------------
(* Properties *)

(* No handler answers an event with one that comes back to it: whatever is *)
(* dispatched, at most three dispatches have begun and not ended, and what *)
(* is between the innermost and the two outermost has yet to begin.        *)
TypeOK ==
  /\ listeners \in Seq(Listener)
  /\ m_logger \in BOOLEAN
  /\ stack \in Seq(Frame)
  /\ \A i \in DOMAIN stack : /\ stack[i].next \in 1 .. Len(listeners) + 1
                             /\ stack[i].msg \in 0 .. Len(submitted)
                             /\ 1 < i /\ i < Len(stack) - 1 => stack[i].next = 1
  /\ submitted \in Seq(Text)
  /\ others \in Seq(Connection)
  /\ m_paket_count \in Nat
  /\ m_event_queue \in Seq([type : EventType, msg : Nat])
  /\ m_msgs \in Seq(Nat)
  /\ m_register_messages \in Seq(Nat)
  /\ written \in Seq(Nat)
  /\ undefined \in BOOLEAN

Listening(l) == \E i \in DOMAIN listeners : listeners[i] = l

Ahead(l, k) == \E i, j \in DOMAIN listeners : i < j /\ listeners[i] = l /\ listeners[j] = k

Occurrences(m, seq) == Cardinality({i \in DOMAIN seq : seq[i] = m})

Queued(type, m) == {i \in DOMAIN m_event_queue : m_event_queue[i] = [type |-> type, msg |-> m]}

(* Between dispatches the network's queue holds every message once, raw    *)
(* and parsed, with each line that was logged of it, and what it holds of  *)
(* one message comes before all of the next. A module behind the parser    *)
(* gets the parsed message before the raw one it was made of, a module     *)
(* ahead of it after; of a message whose parsing throws only a module      *)
(* ahead of the parser ever hears.                                         *)
NetworkHearsAll ==
  Idle /\ Listening("network") /\ Listening("parser") =>
    \A m \in DOMAIN submitted :
      LET raw    == Queued("RAW_MESSAGE_RECEIVED", m)
          parsed == Queued("MESSAGE_PARSED", m)
          logged == Queued("LOG_MESSAGE", m)
          all    == raw \cup parsed \cup logged
      IN  /\ Cardinality(raw) = IF submitted[m].cut /\ Ahead("parser", "network") THEN 0 ELSE 1
          /\ Cardinality(parsed) = IF submitted[m].cut THEN 0 ELSE 1
          /\ Cardinality(logged) = submitted[m].lines
          /\ \A i \in raw, j \in parsed : j < i <=> Ahead("parser", "network")
          /\ \A i \in logged, j \in parsed : i < j
          /\ \A i \in all, j \in DOMAIN m_event_queue : m_event_queue[j].msg > m => i < j

(* A parsed message has one owner: the event under way, the application or *)
(* the register logic. None is lost where the application listens, also    *)
(* when exceptions cut dispatches short; the application keeps them in the *)
(* order they came, with a null for each that the register logic took      *)
(* ahead of it, and the packet counter counts them and those that threw.   *)
OneOwner ==
  /\ \A m \in DOMAIN submitted :
       LET owners == Cardinality({i \in DOMAIN stack : /\ stack[i].type = "MESSAGE_PARSED"
                                                      /\ stack[i].msg = m
                                                      /\ stack[i].has})
                       + Occurrences(m, m_msgs) + Occurrences(m, m_register_messages)
       IN  /\ owners <= 1
           /\ Idle /\ Listening("app") /\ Listening("parser") /\ ~submitted[m].cut => owners = 1
  /\ \A i, j \in DOMAIN m_msgs : i < j /\ m_msgs[j] # Null => m_msgs[i] < m_msgs[j]
  /\ Idle => Occurrences(Null, m_msgs) = IF Ahead("register", "app") THEN Len(m_register_messages) ELSE 0
  /\ Idle /\ Listening("parser") => m_paket_count = Len(submitted)

(* A pointer that is null, unset or dangling is dereferenced only if a log *)
(* writer was registered whose constructor threw, or the register logic    *)
(* listens and the application, ahead of it, had taken a message, or an    *)
(* event without a connection was dispatched.                              *)
UndefinedExplained ==
  undefined =>
    \/ Listening("dangling")
    \/ Ahead("app", "register") /\ \E m \in DOMAIN submitted : ~submitted[m].cut
    \/ Listening("register") /\ \E i \in DOMAIN others : others[i] = "unset"

(* Where a log writer listens, wherever in the list, every line that is    *)
(* logged of a message has been written when the first module gets the     *)
(* message, none twice, and no line of a message after one of a later one. *)
LinesWrittenFirst ==
  Listening("logwriter") /\ Listening("parser")
  /\ (Idle \/ (stack # <<>> /\ evt.type = "MESSAGE_PARSED")) =>
    /\ \A m \in DOMAIN submitted : Occurrences(m, written) = submitted[m].lines
    /\ \A i, j \in DOMAIN written : i < j /\ written[j] # Null => written[i] <= written[j]

(* Every dispatch returns to its caller, normally or by an exception.      *)
DispatchReturns == stack # <<>> ~> stack = <<>>

(* "Receive log-messages from other objects": the log writer that SIPxApp  *)
(* was asked for and has made gets to write the lines that are logged.     *)
LoggerWrites ==
  Idle /\ m_logger /\ Listening("parser") =>
    \A m \in DOMAIN submitted : Occurrences(m, written) = submitted[m].lines
=============================================================================
